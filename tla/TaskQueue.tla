------------------------------ MODULE TaskQueue ------------------------------
(***************************************************************************)
(* The tasks table of claude-email (src/task_queue.py).                    *)
(*                                                                         *)
(* Several operating-system processes (two services and any number of      *)
(* project workers) open the same SQLite file.  Every method of TaskQueue  *)
(* is one statement followed by a commit, so every method is one action:   *)
(* the interleaving of the callers is the interleaving of these actions.   *)
(* QueueNext lets the callers issue them in any order; what the callers    *)
(* really do between two statements is in TaskLifecycle.                   *)
(*                                                                         *)
(* Rows are never deleted and ids are AUTOINCREMENT, so the table is a     *)
(* sequence and a task id is an index.  Columns kept: the ones that a      *)
(* WHERE or ORDER BY clause reads, the pid and the retry lineage.          *)
(***************************************************************************)
EXTENDS Integers, Sequences

CONSTANTS
    Projects,       \* canonical project paths
    MaxTasks,       \* bound: rows ever inserted
    MaxPriority     \* _MAX_PRIORITY of chat/project_tools.py

ASSUME MaxTasksAssumption == MaxTasks \in Nat
ASSUME MaxPriorityAssumption == MaxPriority \in Nat

VARIABLE
    tasks           \* the table: tasks[id] is the row with that id

queueVars == <<tasks>>

Terminal == {"done", "failed", "cancelled"}
Status == {"pending", "running", "routed_via_agent"} \cup Terminal
Priorities == 0 .. MaxPriority

(* pid: has set_pid recorded the pid of this task's claude?  A task is      *)
(* launched at most once, so the pid itself is identified with the task.    *)
(* retry_of: 0 is NULL.                                                     *)
Row == [project : Projects, status : Status, priority : Priorities,
        pid : BOOLEAN, retry_of : Nat]

TypeOK == tasks \in Seq(Row)

-----------------------------------------------------------------------------
Pending(p) == {t \in DOMAIN tasks : tasks[t].project = p /\ tasks[t].status = "pending"}
Running(p) == {t \in DOMAIN tasks : tasks[t].project = p /\ tasks[t].status = "running"}

\* The ids a caller can hold: returned by claim_next, get_running, list_running.
Started == {t \in DOMAIN tasks : tasks[t].status \in {"running"} \cup Terminal}

\* Mutant: ORDER BY priority DESC, id DESC.
PrecedesLatest(t, u) ==
    \/ tasks[t].priority > tasks[u].priority
    \/ tasks[t].priority = tasks[u].priority /\ t > u

\* ORDER BY priority DESC, id ASC
Precedes(t, u) ==
    \/ tasks[t].priority > tasks[u].priority
    \/ tasks[t].priority = tasks[u].priority /\ t < u

SetStatus(t, s) == tasks' = [tasks EXCEPT ![t].status = s]

Insert(p, prio, s, retry) ==
    /\ Len(tasks) < MaxTasks
    /\ tasks' = Append(tasks, [project |-> p, status |-> s, priority |-> prio,
                               pid |-> FALSE, retry_of |-> retry])

-----------------------------------------------------------------------------
Enqueue(p, prio, retry) == Insert(p, prio, "pending", retry)

EnqueueRouted(p) == Insert(p, 0, "routed_via_agent", 0)

\* Mutant: without the NOT EXISTS clause.
ClaimableWhileRunning(p, t) ==
    /\ t \in Pending(p)
    /\ \A u \in Pending(p) \ {t} : Precedes(t, u)

Claimable(p, t) ==
    /\ t \in Pending(p)
    /\ \A u \in Pending(p) \ {t} : Precedes(t, u)
    /\ Running(p) = {}

ClaimNext(p, t) ==
    /\ Claimable(p, t)
    /\ SetStatus(t, "running")

MarkDone(t) == SetStatus(t, "done")

\* Mutant: a status no query knows.
MarkError(t) == SetStatus(t, "error")

MarkFailed(t) == SetStatus(t, "failed")

Cancel(t) == SetStatus(t, "cancelled")

SetPid(t) == tasks' = [tasks EXCEPT ![t].pid = TRUE]

DrainPending(p) ==
    tasks' = [t \in DOMAIN tasks |->
                IF t \in Pending(p) THEN [tasks[t] EXCEPT !.status = "cancelled"]
                                    ELSE tasks[t]]

-----------------------------------------------------------------------------
\* A retry names a terminal task of the same project (retry_task_tool).
RetryTargets(p) == {t \in DOMAIN tasks : tasks[t].project = p /\ tasks[t].status \in Terminal}

QueueInit == tasks = <<>>

QueueNext ==
    \/ \E p \in Projects, prio \in Priorities, retry \in {0} \cup DOMAIN tasks :
          /\ retry = 0 \/ retry \in RetryTargets(p)
          /\ Enqueue(p, prio, retry)
    \/ \E p \in Projects : EnqueueRouted(p)
    \/ \E p \in Projects, t \in DOMAIN tasks : ClaimNext(p, t)
    \/ \E t \in Started : MarkDone(t)
    \/ \E t \in Started : MarkFailed(t)
    \/ \E t \in Started : Cancel(t)
    \/ \E t \in Started : SetPid(t)
    \/ \E p \in Projects : DrainPending(p)

QueueSpec == QueueInit /\ [][QueueNext]_queueVars

-----------------------------------------------------------------------------
(* Whatever the interleaving of workers, cancellers, reaper and enqueuers,  *)
(* the table never shows two running tasks of one project: the NOT EXISTS   *)
(* guard of claim_next, and no other statement writes 'running'.            *)
OneRunningPerProject ==
    \A t, u \in DOMAIN tasks :
        /\ tasks[t].status = "running"
        /\ tasks[u].status = "running"
        /\ tasks[t].project = tasks[u].project
        => t = u

(* Strict FIFO at one priority, and no lower priority served first: while a *)
(* task waits, no later task of the same project with the same or a lower   *)
(* priority has been started (task_queue.py:3-4).                           *)
NoOvertaking ==
    \A u, t \in DOMAIN tasks :
        /\ tasks[u].status = "pending"
        /\ tasks[t].project = tasks[u].project
        /\ u < t
        /\ tasks[t].priority <= tasks[u].priority
        => tasks[t].status \in {"pending", "routed_via_agent"}

(* The retry lineage is sound: a retry points at an earlier task of the     *)
(* same project, which is terminal now and was when the retry was made.     *)
RetryLineage ==
    \A t \in DOMAIN tasks :
        tasks[t].retry_of # 0 =>
            LET r == tasks[t].retry_of
            IN  /\ r \in DOMAIN tasks
                /\ r < t
                /\ tasks[r].project = tasks[t].project
                /\ tasks[r].status \in Terminal

(* What one statement may do to the life of a row: the id stays, a claimed  *)
(* task never waits again, a terminal task never runs again, and the        *)
(* virtual row of a task routed to a live agent is never picked up.         *)
StatusFlow(s) ==
    CASE s = "pending"          -> {"pending", "running", "cancelled"}
      [] s = "running"          -> {"running"} \cup Terminal
      [] s = "routed_via_agent" -> {"routed_via_agent"}
      [] OTHER                  -> Terminal

RowsEvolve ==
    \A t \in DOMAIN tasks :
        /\ t \in DOMAIN tasks'
        /\ tasks'[t].project = tasks[t].project
        /\ tasks'[t].status \in StatusFlow(tasks[t].status)

LifeOfATask == [][RowsEvolve]_queueVars
=============================================================================
