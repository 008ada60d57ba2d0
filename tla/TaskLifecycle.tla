---------------------------- MODULE TaskLifecycle ----------------------------
(***************************************************************************)
(* The life of a task between the services, the workers and claude.        *)
(*                                                                         *)
(* Two services (claude-chat and claude-email) and the project workers     *)
(* they spawn share the tasks table and nothing else.  Each runs its own   *)
(* sequential program; this module interleaves those programs at every     *)
(* point where they read or write something another of them can change.    *)
(*                                                                         *)
(*   worker    worker_loop and run_task        src/project_worker.py       *)
(*   svc       enqueue and retry tools         chat/project_tools.py       *)
(*             ensure_worker                   src/worker_manager.py       *)
(*             cancel_running_task             src/task_control.py         *)
(*             sweep_ghosts (claude-email)     src/ghost_reaper.py         *)
(*   notes     notify_task_done                src/task_notifier.py        *)
(*                                                                         *)
(* The table and its statements are those of TaskQueue.                    *)
(***************************************************************************)
EXTENDS TaskQueue, FiniteSets

CONSTANTS
    Workers,        \* slots for worker processes, two per project are enough
    Services,       \* claude-chat and claude-email
    Reapers,        \* the services whose loop sweeps ghosts: claude-email
    PathPrefix,     \* <<p, q>>: the command line of q's worker matches p
    RawPriorities,  \* priorities callers ask for, before clamping
    Requests,       \* bound: the operations the users ask of the services
    IdleExit,       \* may the idle timeout expire?
    SlowPrep,       \* may branch preparation outlast the reaper's grace?
    MaxFaults,      \* bound: crashes, aborted operations, lost notifications
    None

ASSUME PathPrefixAssumption ==
    PathPrefix \subseteq Projects \X Projects /\ \A p \in Projects : <<p, p>> \in PathPrefix
ASSUME RawPrioritiesAssumption == RawPriorities \subseteq Int
ASSUME ReapersAssumption == Reapers \subseteq Services
ASSUME MaxFaultsAssumption == MaxFaults \in Nat
ASSUME NoneAssumption == None \notin Projects

VARIABLES
    startedAt,      \* started_at of each row, as the reaper sees its age
    worker,         \* the worker processes
    claude,         \* the claude process of each task
    svc,            \* the operation each service is in
    notes,          \* the status last announced to the user, per task
    faults          \* faults so far

vars == <<tasks, startedAt, worker, claude, svc, notes, faults>>

TaskIds == 1 .. MaxTasks

(* A claude that exited is a zombie ("ok", "err": its return code) until    *)
(* the worker that launched it waits for it, and is_alive takes a zombie    *)
(* of another process for a live one.                                       *)
ClaudeStates == {"none", "live", "ok", "err", "gone"}
IsAlive(t) == claude[t] \in {"live", "ok", "err"}

WorkerOff == [pc |-> "off", project |-> None, task |-> 0, seen |-> "none"]
SvcIdle == [pc |-> "idle", project |-> None, prio |-> 0, retry |-> 0, task |-> 0,
            drain |-> FALSE, seen |-> "none", todo |-> {}]

\* A process is at one point (pc) of its program; seen is what it read last.
WorkerState ==
    [pc : {"off", "poll", "exiting", "prep", "setpid", "wait", "check",
           "tcheck", "mark", "finish", "notify"},
     project : Projects \cup {None}, task : {0} \cup TaskIds,
     seen : {"none", "ok", "err"} \cup Status]

\* todo: what is left of a sweep's snapshot of the running rows.
ServiceState ==
    [pc : {"idle", "ensure", "spawn", "insert", "term", "cancel", "drain",
           "sweep", "reap", "read", "notify"},
     project : Projects \cup {None}, prio : Int, retry : {0} \cup TaskIds,
     task : {0} \cup TaskIds, drain : BOOLEAN,
     seen : {"none"} \cup Status, todo : SUBSET (TaskIds \X BOOLEAN)]

ProcessTypeOK ==
    /\ startedAt \in [TaskIds -> {"null", "fresh", "stale"}]
    /\ worker \in [Workers -> WorkerState]
    /\ claude \in [TaskIds -> ClaudeStates]
    /\ svc \in [Services -> ServiceState]
    /\ notes \in [TaskIds -> {"none"} \cup Status]
    /\ faults \in 0 .. MaxFaults

LifecycleTypeOK == TypeOK /\ ProcessTypeOK

LifecycleInit ==
    /\ QueueInit
    /\ startedAt = [t \in TaskIds |-> "null"]
    /\ worker = [w \in Workers |-> WorkerOff]
    /\ claude = [t \in TaskIds |-> "none"]
    /\ svc = [s \in Services |-> SvcIdle]
    /\ notes = [t \in TaskIds |-> "none"]
    /\ faults = 0

Fault == faults < MaxFaults /\ faults' = faults + 1

\* notify_task_done swallows every error: an announcement may be lost.
Announce(t, status) ==
    \/ notes' = [notes EXCEPT ![t] = status] /\ UNCHANGED faults
    \/ Fault /\ UNCHANGED notes

-----------------------------------------------------------------------------
(* A worker: worker_loop and run_task.                                      *)

WorkerGoes(w, pc) == worker' = [worker EXCEPT ![w].pc = pc]

\* What the worker knows of the return code is not used any more.
GoesToFinish(w) == worker' = [worker EXCEPT ![w].pc = "finish", ![w].seen = "none"]

BackToPoll(w) ==
    worker' = [worker EXCEPT ![w].pc = "poll", ![w].task = 0, ![w].seen = "none"]

WorkerClaim(w) ==
    /\ worker[w].pc = "poll"
    /\ \E t \in DOMAIN tasks :
          /\ ClaimNext(worker[w].project, t)
          /\ worker' = [worker EXCEPT ![w].pc = "prep", ![w].task = t]
          /\ startedAt' = [startedAt EXCEPT ![t] = "fresh"]
    /\ UNCHANGED <<claude, svc, notes, faults>>

\* claim_next returned None and the idle timeout has expired ...
WorkerIdles(w) ==
    /\ IdleExit
    /\ worker[w].pc = "poll"
    /\ ~\E t \in DOMAIN tasks : Claimable(worker[w].project, t)
    /\ WorkerGoes(w, "exiting")
    /\ UNCHANGED <<tasks, startedAt, claude, svc, notes, faults>>

\* ... and the process ends.
WorkerExits(w) ==
    /\ worker[w].pc = "exiting"
    /\ worker' = [worker EXCEPT ![w] = WorkerOff]
    /\ UNCHANGED <<tasks, startedAt, claude, svc, notes, faults>>

\* Mutant: the early return of run_task forgets _finish.
PrepFailsSilently(w) ==
    /\ worker[w].pc = "prep"
    /\ MarkFailed(worker[w].task)
    /\ BackToPoll(w)
    /\ UNCHANGED <<startedAt, claude, svc, notes, faults>>

\* Mutant: prepare_branch returns False without mark_failed.
PrepFailsUnmarked(w) ==
    /\ worker[w].pc = "prep"
    /\ WorkerGoes(w, "finish")
    /\ UNCHANGED <<tasks, startedAt, claude, svc, notes, faults>>

\* prepare_branch refuses: dirty repository, failed checkout.
WorkerPrepFails(w) ==
    /\ worker[w].pc = "prep"
    /\ MarkFailed(worker[w].task)
    /\ WorkerGoes(w, "finish")
    /\ UNCHANGED <<startedAt, claude, svc, notes, faults>>

WorkerLaunch(w) ==
    /\ worker[w].pc = "prep"
    /\ claude' = [claude EXCEPT ![worker[w].task] = "live"]
    /\ WorkerGoes(w, "setpid")
    /\ UNCHANGED <<tasks, startedAt, svc, notes, faults>>

WorkerSetPid(w) ==
    /\ worker[w].pc = "setpid"
    /\ SetPid(worker[w].task)
    /\ WorkerGoes(w, "wait")
    /\ UNCHANGED <<startedAt, claude, svc, notes, faults>>

\* communicate() returns: the zombie is reaped and its return code known.
WorkerReaps(w) ==
    LET t == worker[w].task
    IN  /\ worker[w].pc = "wait"
        /\ claude[t] \in {"ok", "err"}
        /\ worker' = [worker EXCEPT ![w].pc = "check", ![w].seen = claude[t]]
        /\ claude' = [claude EXCEPT ![t] = "gone"]
        /\ UNCHANGED <<tasks, startedAt, svc, notes, faults>>

\* Mutant: the timeout gives up on claude without kill().
TimesOutWithoutKill(w) ==
    /\ worker[w].pc = "wait"
    /\ worker' = [worker EXCEPT ![w].pc = "tcheck", ![w].seen = "err"]
    /\ UNCHANGED <<tasks, startedAt, claude, svc, notes, faults>>

\* TimeoutExpired: kill() and the second communicate().
WorkerTimesOut(w) ==
    /\ worker[w].pc = "wait"
    /\ worker' = [worker EXCEPT ![w].pc = "tcheck", ![w].seen = "err"]
    /\ claude' = [claude EXCEPT ![worker[w].task] = "gone"]
    /\ UNCHANGED <<tasks, startedAt, svc, notes, faults>>

\* Reads the status to mark the task only if nobody else has ...
WorkerChecks(w) ==
    LET running == tasks[worker[w].task].status = "running"
    IN  /\ \/ worker[w].pc = "check" /\ running /\ WorkerGoes(w, "mark")
           \/ worker[w].pc = "check" /\ ~running /\ BackToPoll(w)
           \/ worker[w].pc = "tcheck" /\ running /\ WorkerGoes(w, "mark")
           \/ worker[w].pc = "tcheck" /\ ~running /\ GoesToFinish(w)
        /\ UNCHANGED <<tasks, startedAt, claude, svc, notes, faults>>

\* ... and marks it, in a later statement.
WorkerMarks(w) ==
    /\ worker[w].pc = "mark"
    /\ \/ worker[w].seen = "ok" /\ MarkDone(worker[w].task)
       \/ worker[w].seen = "err" /\ MarkFailed(worker[w].task)
    /\ GoesToFinish(w)
    /\ UNCHANGED <<startedAt, claude, svc, notes, faults>>

\* _finish: read the row ...
WorkerFinishes(w) ==
    /\ worker[w].pc = "finish"
    /\ worker' = [worker EXCEPT ![w].pc = "notify",
                                ![w].seen = tasks[worker[w].task].status]
    /\ UNCHANGED <<tasks, startedAt, claude, svc, notes, faults>>

\* ... and announce what it said.
WorkerNotifies(w) ==
    /\ worker[w].pc = "notify"
    /\ Announce(worker[w].task, worker[w].seen)
    /\ BackToPoll(w)
    /\ UNCHANGED <<tasks, startedAt, claude, svc>>

WorkerStep(w) ==
    \/ WorkerClaim(w) \/ WorkerIdles(w) \/ WorkerExits(w)
    \/ WorkerPrepFails(w) \/ WorkerLaunch(w) \/ WorkerSetPid(w)
    \/ WorkerReaps(w) \/ WorkerTimesOut(w) \/ WorkerChecks(w)
    \/ WorkerMarks(w) \/ WorkerFinishes(w) \/ WorkerNotifies(w)

-----------------------------------------------------------------------------
(* The services: enqueue and retry.                                         *)

SvcGoes(s, pc) == svc' = [svc EXCEPT ![s].pc = pc]
SvcDone(s) == svc' = [svc EXCEPT ![s] = SvcIdle]

\* Rows the operations under way will still insert (keeps MaxTasks a bound
\* on the requests, so that no accepted request is stuck on it).
Inserting == {s \in Services : svc[s].pc \in {"ensure", "spawn", "insert"}}
RoomForTask == Len(tasks) + Cardinality(Inserting) < MaxTasks

\* Mutant: only the upper end is clamped.
ClampAbove(prio) == IF prio > MaxPriority THEN MaxPriority ELSE prio

Clamp(prio) == IF prio < 0 THEN 0 ELSE IF prio > MaxPriority THEN MaxPriority ELSE prio

StartEnqueue(s) ==
    /\ svc[s].pc = "idle"
    /\ RoomForTask
    /\ \E p \in Projects, prio \in RawPriorities :
          svc' = [svc EXCEPT ![s].pc = "ensure", ![s].project = p, ![s].prio = prio]
    /\ UNCHANGED <<tasks, startedAt, worker, claude, notes, faults>>

\* The original is read once, before the worker is ensured.
StartRetry(s) ==
    /\ svc[s].pc = "idle"
    /\ RoomForTask
    /\ \E t \in DOMAIN tasks :
          /\ tasks[t].status \in Terminal
          /\ svc' = [svc EXCEPT ![s].pc = "ensure", ![s].project = tasks[t].project,
                                ![s].prio = tasks[t].priority, ![s].retry = t]
    /\ UNCHANGED <<tasks, startedAt, worker, claude, notes, faults>>

\* Mutant: only idle workers are found.
FoundIdle(p) == \E w \in Workers : worker[w].pc = "poll" /\ <<p, worker[w].project>> \in PathPrefix

\* ensure_worker's own map finds no worker that pgrep would not find.
Found(p) == \E w \in Workers : worker[w].pc # "off" /\ <<p, worker[w].project>> \in PathPrefix

\* Mutant: a missing worker is not spawned.
EnsureNothing(s) ==
    /\ svc[s].pc = "ensure"
    /\ SvcGoes(s, "insert")
    /\ UNCHANGED <<tasks, startedAt, worker, claude, notes, faults>>

EnsureWorker(s) ==
    /\ svc[s].pc = "ensure"
    /\ IF Found(svc[s].project) THEN SvcGoes(s, "insert") ELSE SvcGoes(s, "spawn")
    /\ UNCHANGED <<tasks, startedAt, worker, claude, notes, faults>>

SpawnWorker(s) ==
    /\ svc[s].pc = "spawn"
    /\ \E w \in Workers :
          /\ worker[w].pc = "off"
          /\ worker' = [worker EXCEPT ![w].pc = "poll", ![w].project = svc[s].project]
    /\ SvcGoes(s, "insert")
    /\ UNCHANGED <<tasks, startedAt, claude, notes, faults>>

InsertTask(s) ==
    /\ svc[s].pc = "insert"
    /\ Enqueue(svc[s].project, Clamp(svc[s].prio), svc[s].retry)
    /\ SvcDone(s)
    /\ UNCHANGED <<startedAt, worker, claude, notes, faults>>

\* meta.prefer_live_agent: the virtual row, in one statement.
RouteToAgent(s) ==
    /\ s \in Reapers
    /\ svc[s].pc = "idle"
    /\ RoomForTask
    /\ \E p \in Projects : EnqueueRouted(p)
    /\ UNCHANGED <<startedAt, worker, claude, svc, notes, faults>>

-----------------------------------------------------------------------------
(* The services: cancel_running_task, which perform_reset also runs.        *)

\* get_running; SIGTERM goes out if the row has a pid that is alive.
StartCancel(s) ==
    /\ svc[s].pc = "idle"
    /\ \E p \in Projects, drain \in BOOLEAN :
          \/ \E t \in Running(p) :
                svc' = [svc EXCEPT
                          ![s].pc = IF tasks[t].pid /\ IsAlive(t) THEN "term" ELSE "cancel",
                          ![s].project = p, ![s].task = t, ![s].drain = drain]
          \/ /\ drain /\ Running(p) = {}
             /\ svc' = [svc EXCEPT ![s].pc = "drain", ![s].project = p]
    /\ UNCHANGED <<tasks, startedAt, worker, claude, notes, faults>>

\* A process without a waiting parent leaves no zombie.
Launcher(t) == \E w \in Workers : worker[w].task = t
Exits(t, rc) == claude' = [claude EXCEPT ![t] = IF Launcher(t) THEN rc ELSE "gone"]

\* The wait is over: claude is gone, or the grace expired and SIGKILL ends it.
CancelKills(s) ==
    LET t == svc[s].task
    IN  /\ svc[s].pc = "term"
        /\ IF claude[t] = "live" THEN Exits(t, "err") ELSE UNCHANGED claude
        /\ SvcGoes(s, "cancel")
        /\ UNCHANGED <<tasks, startedAt, worker, notes, faults>>

CancelMarks(s) ==
    /\ svc[s].pc = "cancel"
    /\ Cancel(svc[s].task)
    /\ SvcGoes(s, "read")
    /\ UNCHANGED <<startedAt, worker, claude, notes, faults>>

\* Re-reads the row it has just marked (cancel and reaper) ...
SvcReads(s) ==
    /\ svc[s].pc = "read"
    /\ svc' = [svc EXCEPT ![s].pc = "notify", ![s].seen = tasks[svc[s].task].status]
    /\ UNCHANGED <<tasks, startedAt, worker, claude, notes, faults>>

\* ... announces what it said, and goes on with the operation.
SvcNotifies(s) ==
    /\ svc[s].pc = "notify"
    /\ Announce(svc[s].task, svc[s].seen)
    /\ \/ /\ svc[s].todo # {}
          /\ svc' = [svc EXCEPT ![s] = [SvcIdle EXCEPT !.pc = "sweep", !.todo = svc[s].todo]]
       \/ /\ svc[s].drain
          /\ svc' = [svc EXCEPT ![s] = [SvcIdle EXCEPT !.pc = "drain",
                                                       !.project = svc[s].project]]
       \/ svc[s].todo = {} /\ ~svc[s].drain /\ SvcDone(s)
    /\ UNCHANGED <<tasks, startedAt, worker, claude>>

DrainQueue(s) ==
    /\ svc[s].pc = "drain"
    /\ DrainPending(svc[s].project)
    /\ SvcDone(s)
    /\ UNCHANGED <<startedAt, worker, claude, notes, faults>>

-----------------------------------------------------------------------------
(* The services: sweep_ghosts, in claude-email's loop.                      *)

\* Mutants: no grace for a row without a pid; such a row is never looked into.
SuspectsWithoutGrace == {<<t, tasks[t].pid>> : t \in
                          {u \in DOMAIN tasks : tasks[u].status = "running"}}
SuspectsWithPid == {<<t, TRUE>> : t \in
                     {u \in DOMAIN tasks : tasks[u].status = "running" /\ tasks[u].pid}}

\* The rows of list_running the sweep will look into, with whether they had a
\* pid: a row without one is left alone until its grace of 120 s has passed.
Suspects == {<<t, tasks[t].pid>> : t \in
              {u \in DOMAIN tasks : /\ tasks[u].status = "running"
                                    /\ tasks[u].pid \/ startedAt[u] = "stale"}}

StartSweep(s) ==
    /\ s \in Reapers
    /\ svc[s].pc = "idle"
    /\ Suspects # {}
    /\ svc' = [svc EXCEPT ![s].pc = "sweep", ![s].todo = Suspects]
    /\ UNCHANGED <<tasks, startedAt, worker, claude, notes, faults>>

\* The next row, in id order: spared if its pid is alive, else reaped.
SweepNext(s) ==
    /\ svc[s].pc = "sweep"
    /\ \E r \in svc[s].todo :
          LET rest == svc[s].todo \ {r}
          IN  /\ \A q \in rest : r[1] < q[1]
              /\ \/ /\ r[2] /\ IsAlive(r[1])
                    /\ svc' = [svc EXCEPT ![s] = IF rest = {} THEN SvcIdle
                                                 ELSE [@ EXCEPT !.todo = rest]]
                 \/ /\ ~(r[2] /\ IsAlive(r[1]))
                    /\ svc' = [svc EXCEPT ![s].pc = "reap", ![s].task = r[1],
                                          ![s].todo = rest]
    /\ UNCHANGED <<tasks, startedAt, worker, claude, notes, faults>>

\* Mutants: the ghost goes back to the queue; it is reported but not marked.
RequeueGhost(s) ==
    /\ svc[s].pc = "reap"
    /\ SetStatus(svc[s].task, "pending")
    /\ SvcGoes(s, "read")
    /\ UNCHANGED <<startedAt, worker, claude, notes, faults>>

ReportGhost(s) ==
    /\ svc[s].pc = "reap"
    /\ SvcGoes(s, "read")
    /\ UNCHANGED <<tasks, startedAt, worker, claude, notes, faults>>

ReapGhost(s) ==
    /\ svc[s].pc = "reap"
    /\ MarkFailed(svc[s].task)
    /\ SvcGoes(s, "read")
    /\ UNCHANGED <<startedAt, worker, claude, notes, faults>>

\* An operation under way, step by step, and the start of a new one.
SvcStep(s) ==
    \/ EnsureWorker(s) \/ SpawnWorker(s) \/ InsertTask(s)
    \/ CancelKills(s) \/ CancelMarks(s) \/ SvcReads(s) \/ SvcNotifies(s) \/ DrainQueue(s)
    \/ SweepNext(s) \/ ReapGhost(s)

SvcStart(s) ==
    \/ "enqueue" \in Requests /\ StartEnqueue(s)
    \/ "retry" \in Requests /\ StartRetry(s)
    \/ "route" \in Requests /\ RouteToAgent(s)
    \/ "cancel" \in Requests /\ StartCancel(s)
    \/ StartSweep(s)

-----------------------------------------------------------------------------
(* The environment.                                                         *)

ClaudeExits(t) ==
    /\ claude[t] = "live"
    /\ \E rc \in {"ok", "err"} : Exits(t, rc)
    /\ UNCHANGED <<tasks, startedAt, worker, svc, notes, faults>>

\* 120 s pass since the claim.  Without SlowPrep a worker at work needs less.
Ages(t) ==
    /\ startedAt[t] = "fresh"
    /\ tasks[t].status = "running" /\ ~tasks[t].pid
    /\ SlowPrep \/ ~Launcher(t)
    /\ startedAt' = [startedAt EXCEPT ![t] = "stale"]
    /\ UNCHANGED <<tasks, worker, claude, svc, notes, faults>>

\* SIGKILL, OOM, a traceback, or the stop of the service that spawned it.
\* A claude left behind runs on; a zombie is adopted and reaped.
WorkerCrashes(w) ==
    LET t == worker[w].task
    IN  /\ worker[w].pc # "off"
        /\ Fault
        /\ worker' = [worker EXCEPT ![w] = WorkerOff]
        /\ IF t # 0 /\ claude[t] \in {"ok", "err"}
           THEN claude' = [claude EXCEPT ![t] = "gone"] ELSE UNCHANGED claude
        /\ UNCHANGED <<tasks, startedAt, svc, notes>>

\* The service restarts, or the operation raises (a locked database).
SvcAborts(s) ==
    /\ svc[s].pc # "idle"
    /\ Fault
    /\ SvcDone(s)
    /\ UNCHANGED <<tasks, startedAt, worker, claude, notes>>

Environment ==
    \/ \E t \in DOMAIN tasks : ClaudeExits(t) \/ Ages(t)
    \/ \E w \in Workers : WorkerCrashes(w)
    \/ \E s \in Services : SvcAborts(s)

LifecycleNext ==
    \/ \E w \in Workers : WorkerStep(w)
    \/ \E s \in Services : SvcStep(s) \/ SvcStart(s)
    \/ Environment

LifecycleSpec == LifecycleInit /\ [][LifecycleNext]_vars

(* Each process gets on with its program and time passes; claude-email's    *)
(* loop comes to its housekeeping again and again, whatever else it does    *)
(* in between.  Nothing makes claude exit by itself.                        *)
Fairness ==
    /\ \A w \in Workers : WF_vars(WorkerStep(w))
    /\ \A s \in Services : WF_vars(SvcStep(s)) /\ SF_vars(StartSweep(s))
    /\ \A t \in TaskIds : WF_vars(t \in DOMAIN tasks /\ Ages(t))

FairSpec == LifecycleSpec /\ Fairness

\* The same, and every claude exits by itself sooner or later.
ClaudeFairness == \A t \in TaskIds : WF_vars(t \in DOMAIN tasks /\ ClaudeExits(t))

FairClaudeSpec == FairSpec /\ ClaudeFairness

-----------------------------------------------------------------------------
(* Properties.                                                              *)

(* Every interleaving of these programs is a legal history of the table:    *)
(* no statement a process issues, however stale what it read before, does   *)
(* to the table what TaskQueue's callers may not do.  With the theorems on  *)
(* QueueSpec this gives the order of the queue, one running row per project *)
(* and the retry lineage for the whole system.                              *)
ImplementsQueue == QueueSpec

(* claim_next hands a task to one worker, ever: no two workers hold the     *)
(* same task, and a worker about to launch claude holds a task for which    *)
(* none was launched (task_queue.py:5-7).                                   *)
RunsAtMostOnce ==
    \A w \in Workers :
        worker[w].task # 0 =>
            /\ \A v \in Workers \ {w} : worker[v].task # worker[w].task
            /\ worker[w].pc = "prep" => claude[worker[w].task] = "none"

(* What each process knows of its task stays true while it works, whatever  *)
(* the others do to the row meanwhile: the ids it holds are of claimed      *)
(* tasks, a task it is about to announce has ended, a task it retries is    *)
(* still terminal.  (project_worker.py:64-126, task_control.py:46-70,       *)
(* ghost_reaper.py:42-68, project_tools.py:115-136.)                        *)
Ended(t) == t \in DOMAIN tasks /\ tasks[t].status \in Terminal

WorkerSound(r) ==
    /\ r.pc # "off" => r.project \in Projects
    /\ r.pc \in {"off", "poll", "exiting"} <=> r.task = 0
    /\ r.task # 0 => r.task \in Started
    /\ r.pc = "finish" => Ended(r.task)
    /\ r.pc = "notify" => r.seen \in Terminal

ServiceSound(r) ==
    /\ r.pc = "idle" => r = SvcIdle
    /\ r.pc \in {"ensure", "spawn", "insert"} =>
          /\ r.project \in Projects
          /\ r.retry = 0 \/ r.retry \in RetryTargets(r.project)
    /\ r.pc \in {"term", "cancel", "reap", "read", "notify"} => r.task \in Started
    /\ r.pc = "drain" \/ r.drain => r.project \in Projects
    /\ r.pc = "read" => Ended(r.task)
    /\ r.pc = "notify" => r.seen \in Terminal
    /\ \A q \in r.todo : q[1] \in Started

NothingGoesStale ==
    /\ \A w \in Workers : WorkerSound(worker[w])
    /\ \A s \in Services : ServiceSound(svc[s])
    /\ \A t \in TaskIds : t \notin Started => claude[t] = "none"

(* worker_manager.py:1: at most one worker process per canonical path.      *)
OneWorkerPerProject ==
    \A v, w \in Workers :
        worker[v].pc # "off" /\ worker[w].project = worker[v].project => v = w

(* The branch a claude works on is its own: no two of them are alive in one *)
(* project (task_queue.py:90-95).                                           *)
OneClaudePerProject ==
    \A t, u \in DOMAIN tasks :
        /\ claude[t] = "live"
        /\ claude[u] = "live"
        /\ tasks[t].project = tasks[u].project
        => t = u

(* The user is told how a claimed task ended, or a process is on its way to *)
(* say so (task_notifier.py:3-5).  A drained task was never claimed.        *)
Owed(t) ==
    \/ \E w \in Workers : worker[w].task = t /\ worker[w].pc \in {"finish", "notify"}
    \/ \E s \in Services : svc[s].task = t /\ svc[s].pc \in {"read", "notify"}

NoSilentEnd ==
    \A t \in DOMAIN tasks :
        /\ tasks[t].status \in Terminal
        /\ startedAt[t] # "null"
        /\ notes[t] = "none"
        => Owed(t)

(* What is announced is an end: no worker, canceller or reaper announces a  *)
(* task whose row says it still waits or runs.                              *)
OnlyEndsAnnounced ==
    \A t \in TaskIds : notes[t] \in {"none"} \cup Terminal

(* A cancelled task stays cancelled                                         *)
(* (tests/test_project_worker_run_task.py:52-60).                           *)
CancelledForGood ==
    [][\A t \in DOMAIN tasks :
          tasks[t].status = "cancelled" => tasks'[t].status = "cancelled"]_vars

(* The reaper takes for a ghost no task whose claude is at work.            *)
ReaperSparesTheLiving ==
    \A s \in Services : svc[s].pc = "reap" => claude[svc[s].task] # "live"

\* The status get() reports; a task that is not inserted yet has none.
StatusOf(t) == IF t \in DOMAIN tasks THEN tasks[t].status ELSE "none"

(* A running task ends, so claim_next's guard never wedges the project      *)
(* (task_queue.py:93-95).                                                   *)
RunningEnds ==
    \A t \in TaskIds : StatusOf(t) = "running" ~> StatusOf(t) \in Terminal

(* A queued task is claimed or drained: enqueueing guarantees a worker      *)
(* (project_tool_defs.py:32-34).                                            *)
PendingIsServed ==
    \A t \in TaskIds : StatusOf(t) = "pending" ~> StatusOf(t) # "pending"
=============================================================================
