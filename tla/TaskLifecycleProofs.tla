------------------------- MODULE TaskLifecycleProofs -------------------------
(* Theorems about the tasks table, for every set of projects, every bound   *)
(* on the number of rows and every priority range; then about the programs  *)
(* around it, which keep its contract for any number of workers, services,  *)
(* projects, tasks and faults: every behaviour of LifecycleSpec is one of   *)
(* QueueSpec, so the theorems about the table hold of the whole system.     *)
EXTENDS TaskLifecycle, TLAPS, SequenceTheorems

-----------------------------------------------------------------------------
(* What each statement does to the table, column by column.                 *)

\* INSERT: one row more, the others as they were.
LEMMA InsertEffect ==
    ASSUME TypeOK, NEW p \in Projects, NEW prio \in Priorities, NEW s \in Status,
           NEW retry \in Nat, Insert(p, prio, s, retry)
    PROVE  /\ TypeOK'
           /\ DOMAIN tasks' = DOMAIN tasks \cup {Len(tasks) + 1}
           /\ Len(tasks) + 1 \notin DOMAIN tasks
           /\ \A t \in DOMAIN tasks : tasks'[t] = tasks[t] /\ t < Len(tasks) + 1
           /\ tasks'[Len(tasks) + 1].project = p
           /\ tasks'[Len(tasks) + 1].status = s
           /\ tasks'[Len(tasks) + 1].priority = prio
           /\ tasks'[Len(tasks) + 1].retry_of = retry
<1> DEFINE row == [project |-> p, status |-> s, priority |-> prio,
                   pid |-> FALSE, retry_of |-> retry]
<1>1. row \in Row
  BY DEF Row
<1>2. tasks' = Append(tasks, row)
  BY DEF Insert
<1>3. tasks \in Seq(Row)
  BY DEF TypeOK
<1>4. /\ tasks' \in Seq(Row)
      /\ Len(tasks') = Len(tasks) + 1
      /\ \A t \in 1 .. Len(tasks) : tasks'[t] = tasks[t]
      /\ tasks'[Len(tasks) + 1] = row
  <2> HIDE DEF row
  <2> QED  BY <1>1, <1>2, <1>3, AppendProperties
<1>5. /\ Len(tasks) \in Nat
      /\ DOMAIN tasks = 1 .. Len(tasks)
      /\ DOMAIN tasks' = 1 .. Len(tasks')
  BY <1>3, <1>4, LenProperties
<1> QED
  BY <1>4, <1>5 DEF TypeOK

\* UPDATE ... SET status WHERE id = t: that column of that row only.
LEMMA SetStatusEffect ==
    ASSUME TypeOK, NEW t \in DOMAIN tasks, NEW s \in Status, SetStatus(t, s)
    PROVE  /\ TypeOK'
           /\ DOMAIN tasks' = DOMAIN tasks
           /\ \A u \in DOMAIN tasks :
                 /\ tasks'[u].project = tasks[u].project
                 /\ tasks'[u].priority = tasks[u].priority
                 /\ tasks'[u].retry_of = tasks[u].retry_of
                 /\ tasks'[u].status = IF u = t THEN s ELSE tasks[u].status
<1>1. tasks \in Seq(Row) /\ DOMAIN tasks = 1 .. Len(tasks)
  BY LenProperties DEF TypeOK
<1>2. \A u \in DOMAIN tasks : tasks[u] \in Row
  BY <1>1, ElementOfSeq
<1>3. [tasks[t] EXCEPT !.status = s] \in Row
  BY <1>2 DEF Row
<1>4. tasks' = [tasks EXCEPT ![t] = [tasks[t] EXCEPT !.status = s]]
  BY DEF SetStatus
<1>5. tasks' \in Seq(Row)
  BY <1>1, <1>3, <1>4, ExceptSeq
<1>6. DOMAIN tasks' = DOMAIN tasks
  BY <1>4
<1> QED
  BY <1>2, <1>4, <1>5, <1>6 DEF TypeOK, Row

\* UPDATE ... SET pid WHERE id = t.
LEMMA SetPidEffect ==
    ASSUME TypeOK, NEW t \in DOMAIN tasks, SetPid(t)
    PROVE  /\ TypeOK'
           /\ DOMAIN tasks' = DOMAIN tasks
           /\ \A u \in DOMAIN tasks :
                 /\ tasks'[u].project = tasks[u].project
                 /\ tasks'[u].priority = tasks[u].priority
                 /\ tasks'[u].retry_of = tasks[u].retry_of
                 /\ tasks'[u].status = tasks[u].status
<1>1. tasks \in Seq(Row) /\ DOMAIN tasks = 1 .. Len(tasks)
  BY LenProperties DEF TypeOK
<1>2. \A u \in DOMAIN tasks : tasks[u] \in Row
  BY <1>1, ElementOfSeq
<1>3. [tasks[t] EXCEPT !.pid = TRUE] \in Row
  BY <1>2 DEF Row
<1>4. tasks' = [tasks EXCEPT ![t] = [tasks[t] EXCEPT !.pid = TRUE]]
  BY DEF SetPid
<1>5. tasks' \in Seq(Row)
  BY <1>1, <1>3, <1>4, ExceptSeq
<1>6. DOMAIN tasks' = DOMAIN tasks
  BY <1>4
<1> QED
  BY <1>2, <1>4, <1>5, <1>6 DEF TypeOK, Row

\* UPDATE ... SET status = 'cancelled' WHERE project_path = p AND status = 'pending'.
LEMMA DrainEffect ==
    ASSUME TypeOK, NEW p \in Projects, DrainPending(p)
    PROVE  /\ TypeOK'
           /\ DOMAIN tasks' = DOMAIN tasks
           /\ \A u \in DOMAIN tasks :
                 /\ tasks'[u].project = tasks[u].project
                 /\ tasks'[u].priority = tasks[u].priority
                 /\ tasks'[u].retry_of = tasks[u].retry_of
                 /\ tasks'[u].status =
                       IF u \in Pending(p) THEN "cancelled" ELSE tasks[u].status
<1>1. tasks \in Seq(Row) /\ Len(tasks) \in Nat /\ DOMAIN tasks = 1 .. Len(tasks)
  BY LenProperties DEF TypeOK
<1>2. \A u \in DOMAIN tasks : tasks[u] \in Row
  BY <1>1, ElementOfSeq
<1>3. \A u \in DOMAIN tasks : [tasks[u] EXCEPT !.status = "cancelled"] \in Row
  BY <1>2 DEF Row, Status, Terminal
<1>4. /\ DOMAIN tasks' = DOMAIN tasks
      /\ \A u \in DOMAIN tasks :
            tasks'[u] = IF u \in Pending(p)
                        THEN [tasks[u] EXCEPT !.status = "cancelled"] ELSE tasks[u]
  BY DEF DrainPending
<1>5. \A u \in 1 .. Len(tasks) : tasks'[u] \in Row
  BY <1>1, <1>2, <1>3, <1>4
<1>6. tasks' = [u \in 1 .. Len(tasks) |-> tasks'[u]]
  BY <1>1 DEF DrainPending
<1>7. tasks' \in Seq(Row)
  BY <1>1, <1>5, <1>6, IsASeq
<1> QED
  BY <1>2, <1>4, <1>7 DEF TypeOK, Row

-----------------------------------------------------------------------------
(* The columns of the rows that exist, read off the type invariant.         *)
LEMMA RowColumns ==
    ASSUME TypeOK
    PROVE  /\ Len(tasks) \in Nat
           /\ DOMAIN tasks = 1 .. Len(tasks)
           /\ \A t \in DOMAIN tasks :
                 /\ t \in Nat
                 /\ tasks[t].project \in Projects
                 /\ tasks[t].status \in Status
                 /\ tasks[t].priority \in Nat
                 /\ tasks[t].retry_of \in Nat
<1>1. tasks \in Seq(Row) /\ Len(tasks) \in Nat /\ DOMAIN tasks = 1 .. Len(tasks)
  BY LenProperties DEF TypeOK
<1>2. \A t \in DOMAIN tasks : tasks[t] \in Row
  BY <1>1, ElementOfSeq
<1> QED
  BY <1>1, <1>2, MaxPriorityAssumption DEF Row, Priorities

(* The kinds of statement, as what they do to the columns.  Every action of *)
(* QueueNext is one of these, and the invariants are preserved by each.     *)
Inserted(p, prio, s, retry) ==
    LET n == Len(tasks) + 1
    IN  /\ DOMAIN tasks' = DOMAIN tasks \cup {n}
        /\ n \notin DOMAIN tasks
        /\ \A t \in DOMAIN tasks : tasks'[t] = tasks[t] /\ t < n
        /\ tasks'[n].project = p
        /\ tasks'[n].status = s
        /\ tasks'[n].priority = prio
        /\ tasks'[n].retry_of = retry

\* The statuses of the rows in S become s, and nothing else that is read changes.
Moved(S, s) ==
    /\ DOMAIN tasks' = DOMAIN tasks
    /\ \A u \in DOMAIN tasks :
          /\ tasks'[u].project = tasks[u].project
          /\ tasks'[u].priority = tasks[u].priority
          /\ tasks'[u].retry_of = tasks[u].retry_of
          /\ tasks'[u].status = IF u \in S THEN s ELSE tasks[u].status

StatementKinds ==
    \/ \E p \in Projects, prio \in Priorities, retry \in {0} \cup DOMAIN tasks :
          /\ retry = 0 \/ retry \in RetryTargets(p)
          /\ Inserted(p, prio, "pending", retry)
    \/ \E p \in Projects : Inserted(p, 0, "routed_via_agent", 0)
    \/ \E p \in Projects, t \in DOMAIN tasks : Claimable(p, t) /\ Moved({t}, "running")
    \/ \E t \in Started, s \in Terminal : Moved({t}, s)
    \/ \E p \in Projects : Moved(Pending(p), "cancelled")
    \/ Moved({}, "done")    \* set_pid, and a stuttering step

LEMMA StepKinds ==
    ASSUME TypeOK, [QueueNext]_queueVars
    PROVE  TypeOK' /\ StatementKinds
<1>1. ASSUME NEW p \in Projects, NEW prio \in Priorities,
             NEW retry \in {0} \cup DOMAIN tasks,
             retry = 0 \/ retry \in RetryTargets(p),
             Enqueue(p, prio, retry)
      PROVE  TypeOK' /\ StatementKinds
  <2>1. retry \in Nat
    BY RowColumns
  <2>2. TypeOK' /\ Inserted(p, prio, "pending", retry)
    BY <1>1, <2>1, InsertEffect DEF Enqueue, Inserted, Status
  <2> QED  BY <1>1, <2>2 DEF StatementKinds
<1>2. ASSUME NEW p \in Projects, EnqueueRouted(p)
      PROVE  TypeOK' /\ StatementKinds
  <2>1. 0 \in Priorities
    BY MaxPriorityAssumption DEF Priorities
  <2>2. TypeOK' /\ Inserted(p, 0, "routed_via_agent", 0)
    BY <1>2, <2>1, InsertEffect DEF EnqueueRouted, Inserted, Status
  <2> QED  BY <2>2 DEF StatementKinds
<1>3. ASSUME NEW p \in Projects, NEW t \in DOMAIN tasks, ClaimNext(p, t)
      PROVE  TypeOK' /\ StatementKinds
  <2>1. TypeOK' /\ Moved({t}, "running")
    BY <1>3, SetStatusEffect DEF ClaimNext, Moved, Status
  <2> QED  BY <1>3, <2>1 DEF ClaimNext, StatementKinds
<1>4. ASSUME NEW t \in Started, NEW s \in Terminal, SetStatus(t, s)
      PROVE  TypeOK' /\ StatementKinds
  <2>1. t \in DOMAIN tasks /\ s \in Status
    BY DEF Started, Status
  <2>2. TypeOK' /\ Moved({t}, s)
    BY <1>4, <2>1, SetStatusEffect DEF Moved
  <2> QED  BY <2>2 DEF StatementKinds
<1>5. ASSUME NEW t \in Started, SetPid(t)
      PROVE  TypeOK' /\ StatementKinds
  <2>1. t \in DOMAIN tasks
    BY DEF Started
  <2>2. TypeOK' /\ Moved({}, "done")
    BY <1>5, <2>1, SetPidEffect DEF Moved
  <2> QED  BY <2>2 DEF StatementKinds
<1>6. ASSUME NEW p \in Projects, DrainPending(p)
      PROVE  TypeOK' /\ StatementKinds
  <2>1. TypeOK' /\ Moved(Pending(p), "cancelled")
    BY <1>6, DrainEffect DEF Moved
  <2> QED  BY <2>1 DEF StatementKinds
<1>7. CASE UNCHANGED queueVars
  <2>1. TypeOK' /\ Moved({}, "done")
    BY <1>7 DEF queueVars, TypeOK, Moved
  <2> QED  BY <2>1 DEF StatementKinds
<1> QED
  BY <1>1, <1>2, <1>3, <1>4, <1>5, <1>6, <1>7
     DEF QueueNext, MarkDone, MarkFailed, Cancel, Terminal

-----------------------------------------------------------------------------
(* The table is well typed after every statement sequence: ids stay         *)
(* consecutive and no statement writes a status outside the six.            *)
THEOREM TableTyped == QueueSpec => []TypeOK
<1>1. QueueInit => TypeOK
  BY EmptySeq DEF QueueInit, TypeOK
<1>2. TypeOK /\ [QueueNext]_queueVars => TypeOK'
  BY StepKinds
<1> QED  BY <1>1, <1>2, PTL DEF QueueSpec

(* claim_next's guard keeps at most one running task per project, whatever  *)
(* the processes around the table do (task_queue.py:90-95).                 *)
THEOREM OneRunning == QueueSpec => []OneRunningPerProject
<1>1. QueueInit => OneRunningPerProject
  BY EmptySeq DEF QueueInit, OneRunningPerProject
<1>2. ASSUME TypeOK, OneRunningPerProject, [QueueNext]_queueVars
      PROVE  OneRunningPerProject'
  <2> USE <1>2 DEF OneRunningPerProject
  <2>1. StatementKinds
    BY StepKinds
  <2>2. ASSUME NEW p, NEW prio, NEW retry, NEW s,
               s # "running", Inserted(p, prio, s, retry)
        PROVE  OneRunningPerProject'
    BY <2>2 DEF Inserted
  <2>3. ASSUME NEW p \in Projects, NEW t \in DOMAIN tasks,
               Claimable(p, t), Moved({t}, "running")
        PROVE  OneRunningPerProject'
    BY <2>3 DEF Claimable, Moved, Pending, Running
  <2>4. ASSUME NEW S, NEW s, s # "running", Moved(S, s)
        PROVE  OneRunningPerProject'
    BY <2>4 DEF Moved
  <2> QED
    BY <2>1, <2>2, <2>3, <2>4 DEF StatementKinds, Terminal
<1> QED  BY <1>1, <1>2, TableTyped, PTL DEF QueueSpec

(* A waiting task is never overtaken by a later one of the same or a lower  *)
(* priority in its project (task_queue.py:3-4).                             *)
THEOREM StrictOrder == QueueSpec => []NoOvertaking
<1>1. QueueInit => NoOvertaking
  BY EmptySeq DEF QueueInit, NoOvertaking
<1>2. ASSUME TypeOK, NoOvertaking, [QueueNext]_queueVars
      PROVE  NoOvertaking'
  <2> USE <1>2
  <2>1. StatementKinds
    BY StepKinds
  <2>2. ASSUME NEW p, NEW prio, NEW retry, NEW s \in {"pending", "routed_via_agent"},
               Inserted(p, prio, s, retry)
        PROVE  NoOvertaking'
    BY <2>2, RowColumns DEF Inserted, NoOvertaking
  <2>3. ASSUME NEW p \in Projects, NEW t \in DOMAIN tasks,
               Claimable(p, t), Moved({t}, "running")
        PROVE  NoOvertaking'
    <3> SUFFICES ASSUME NEW u \in DOMAIN tasks', NEW v \in DOMAIN tasks',
                        tasks'[u].status = "pending",
                        tasks'[v].project = tasks'[u].project, u < v,
                        tasks'[v].priority <= tasks'[u].priority
                 PROVE  tasks'[v].status \in {"pending", "routed_via_agent"}
      BY DEF NoOvertaking
    <3>1. /\ u \in DOMAIN tasks /\ v \in DOMAIN tasks /\ u # t
          /\ tasks[u].status = "pending" /\ tasks[v].project = tasks[u].project
          /\ tasks[v].priority <= tasks[u].priority
      BY <2>3 DEF Moved
    <3>2. v # t
      <4> SUFFICES ASSUME v = t PROVE FALSE
        OBVIOUS
      <4>1. Precedes(t, u)
        BY <2>3, <3>1 DEF Claimable, Pending
      <4> QED
        BY <3>1, <4>1, RowColumns DEF Precedes
    <3> QED
      BY <2>3, <3>1, <3>2 DEF Moved, NoOvertaking
  <2>4. ASSUME NEW t \in Started, NEW s \in Terminal, Moved({t}, s)
        PROVE  NoOvertaking'
    BY <2>4 DEF Moved, Started, Terminal, NoOvertaking
  <2>5. ASSUME NEW p \in Projects, Moved(Pending(p), "cancelled")
        PROVE  NoOvertaking'
    BY <2>5 DEF Moved, Pending, NoOvertaking
  <2>6. ASSUME Moved({}, "done")
        PROVE  NoOvertaking'
    BY <2>6 DEF Moved, NoOvertaking
  <2> QED
    BY <2>1, <2>2, <2>3, <2>4, <2>5, <2>6 DEF StatementKinds
<1> QED  BY <1>1, <1>2, TableTyped, PTL DEF QueueSpec

(* The lineage that retry_of records stays sound for the life of the table: *)
(* the original is an earlier task of the project and stays terminal.       *)
THEOREM LineageSound == QueueSpec => []RetryLineage
<1>1. QueueInit => RetryLineage
  BY EmptySeq DEF QueueInit, RetryLineage
<1>2. ASSUME TypeOK, RetryLineage, [QueueNext]_queueVars
      PROVE  RetryLineage'
  <2> USE <1>2
  <2>1. StatementKinds
    BY StepKinds
  <2>2. ASSUME NEW p \in Projects, NEW prio, NEW s, NEW retry \in {0} \cup DOMAIN tasks,
               retry = 0 \/ retry \in RetryTargets(p),
               Inserted(p, prio, s, retry)
        PROVE  RetryLineage'
    BY <2>2, RowColumns DEF Inserted, RetryLineage, RetryTargets
  <2>3. ASSUME NEW S, NEW s, Moved(S, s),
               s \in Terminal \/ \A t \in S : tasks[t].status \notin Terminal
        PROVE  RetryLineage'
    BY <2>3 DEF Moved, RetryLineage
  <2>4. ASSUME NEW p \in Projects, NEW t \in DOMAIN tasks, Claimable(p, t)
        PROVE  tasks[t].status \notin Terminal
    BY <2>4 DEF Claimable, Pending, Terminal
  <2> QED
    BY <2>1, <2>2, <2>3, <2>4 DEF StatementKinds, Terminal
<1> QED  BY <1>1, <1>2, TableTyped, PTL DEF QueueSpec

\* What one statement may do to a row.
LEMMA RowsMoveForward ==
    ASSUME TypeOK, [QueueNext]_queueVars
    PROVE  [RowsEvolve]_queueVars
<1>1. StatementKinds
  BY StepKinds
<1>2. ASSUME NEW p, NEW prio, NEW retry, NEW s, Inserted(p, prio, s, retry)
      PROVE  RowsEvolve
  BY <1>2, RowColumns DEF Inserted, RowsEvolve, StatusFlow, Status, Terminal
<1>3. ASSUME NEW S, NEW s \in Status, Moved(S, s),
             \A t \in S \cap DOMAIN tasks : s \in StatusFlow(tasks[t].status)
      PROVE  RowsEvolve
  BY <1>3, RowColumns DEF Moved, RowsEvolve, StatusFlow, Status, Terminal
<1>4. ASSUME NEW p \in Projects, NEW t \in DOMAIN tasks, Claimable(p, t)
      PROVE  "running" \in StatusFlow(tasks[t].status)
  BY <1>4 DEF Claimable, Pending, StatusFlow
<1>5. ASSUME NEW t \in Started, NEW s \in Terminal
      PROVE  s \in StatusFlow(tasks[t].status)
  BY DEF Started, StatusFlow, Terminal
<1>6. ASSUME NEW p \in Projects, NEW t \in Pending(p)
      PROVE  "cancelled" \in StatusFlow(tasks[t].status)
  BY DEF Pending, StatusFlow
<1> QED
  BY <1>1, <1>2, <1>3, <1>4, <1>5, <1>6 DEF StatementKinds, Status, Terminal

(* No statement revives a task: terminal rows stay terminal, a running row  *)
(* never waits again, the virtual row of a routed task is never claimed.    *)
THEOREM RowsOnlyMoveForward == QueueSpec => LifeOfATask
  BY RowsMoveForward, TableTyped, PTL DEF QueueSpec, LifeOfATask

-----------------------------------------------------------------------------
(* The programs around the table.                                           *)

(* The inductive invariant.  An id is used long after it was read, so the   *)
(* refinement needs to know that what was true of it then still is.         *)
LifecycleInv ==
    /\ LifecycleTypeOK
    /\ Len(tasks) <= MaxTasks
    /\ NothingGoesStale
    /\ RunsAtMostOnce
    /\ OnlyEndsAnnounced

-----------------------------------------------------------------------------
(* What no statement on the table can undo.                                 *)
Onward ==
    /\ DOMAIN tasks \subseteq DOMAIN tasks'
    /\ Started \subseteq Started'
    /\ \A t \in DOMAIN tasks : Ended(t) => Ended(t)'
    /\ \A p \in Projects : RetryTargets(p) \subseteq RetryTargets(p)'

LEMMA StatementsGoOnward ==
    ASSUME TypeOK, Len(tasks) <= MaxTasks, [QueueNext]_queueVars
    PROVE  TypeOK' /\ Len(tasks') <= MaxTasks /\ Onward
<1>1. TypeOK' /\ StatementKinds
  BY StepKinds
<1>2. Len(tasks') <= MaxTasks
  <2>1. Len(tasks) \in Nat /\ DOMAIN tasks = 1 .. Len(tasks)
    BY RowColumns
  <2>2. tasks' \in Seq(Row)
    BY <1>1 DEF TypeOK
  <2>3. Len(tasks') \in Nat /\ DOMAIN tasks' = 1 .. Len(tasks')
    BY <2>2, LenProperties
  <2>4. ASSUME DOMAIN tasks' = DOMAIN tasks
        PROVE  Len(tasks') <= MaxTasks
    BY <2>1, <2>3, <2>4
  <2>5. ASSUME NEW p, NEW prio, NEW s, NEW r, Insert(p, prio, s, r)
        PROVE  Len(tasks') <= MaxTasks
    <3>1. tasks \in Seq(Row) /\ Len(tasks) < MaxTasks
      BY <2>5 DEF Insert, TypeOK
    <3>2. Len(tasks') = Len(tasks) + 1
      BY <2>5, <3>1, LenProperties DEF Insert
    <3> QED  BY <2>1, <3>1, <3>2, MaxTasksAssumption
  <2>6. CASE \E t \in DOMAIN tasks, s \in Status : SetStatus(t, s)
    BY <2>4, <2>6 DEF SetStatus
  <2>7. CASE \E t \in DOMAIN tasks : SetPid(t)
    BY <2>4, <2>7 DEF SetPid
  <2>8. CASE \E p \in Projects : DrainPending(p)
    BY <2>4, <2>8 DEF DrainPending
  <2> QED
    BY <2>5, <2>6, <2>7, <2>8 DEF QueueNext, queueVars, Enqueue, EnqueueRouted, ClaimNext,
       MarkDone, MarkFailed, Cancel, Started, Status, Terminal
<1>3. Onward
  <2>1. ASSUME NEW p, NEW prio, NEW s, NEW r, Inserted(p, prio, s, r)
        PROVE  Onward
    BY <2>1 DEF Inserted, Onward, Started, Ended, RetryTargets
  <2>2. ASSUME NEW S, NEW s \in {"running"} \cup Terminal, Moved(S, s),
               s \in Terminal \/ \A t \in S : tasks[t].status \notin Terminal
        PROVE  Onward
    BY <2>2 DEF Moved, Onward, Started, Ended, RetryTargets
  <2>3. ASSUME NEW p \in Projects, NEW t \in DOMAIN tasks, Claimable(p, t)
        PROVE  tasks[t].status \notin Terminal
    BY <2>3 DEF Claimable, Pending, Terminal
  <2> QED
    BY <1>1, <2>1, <2>2, <2>3 DEF StatementKinds, Terminal
<1> QED  BY <1>1, <1>2, <1>3

(* What a process knows survives the statements of the others.              *)
LEMMA KnowledgeKept ==
    ASSUME Onward, NEW r
    PROVE  /\ WorkerSound(r) => WorkerSound(r)'
           /\ ServiceSound(r) => ServiceSound(r)'
  BY DEF Onward, WorkerSound, ServiceSound, Ended

-----------------------------------------------------------------------------
(* A step of one process.                                                   *)

\* A worker keeps its task, drops it, or takes one that nobody has started.
TasksMoveWell ==
    \A w \in Workers :
        \/ worker'[w].task \in {0, worker[w].task}
        \/ /\ worker'[w].task \notin Started
           /\ \A v \in Workers \ {w} : worker'[v].task = worker[v].task

LEMMA ProcessStep ==
    ASSUME LifecycleInv, [QueueNext]_queueVars, ProcessTypeOK', TasksMoveWell,
           \A w \in Workers : worker'[w] = worker[w] \/ WorkerSound(worker[w])',
           \A s \in Services : svc'[s] = svc[s] \/ ServiceSound(svc[s])',
           \A t \in TaskIds : claude[t] = "none" /\ t \notin Started' => claude'[t] = "none",
           \A w \in Workers : worker'[w].pc = "prep" => claude'[worker'[w].task] = "none",
           OnlyEndsAnnounced'
    PROVE  LifecycleInv'
<1>1. TypeOK' /\ Len(tasks') <= MaxTasks /\ Onward
  BY StatementsGoOnward DEF LifecycleInv, LifecycleTypeOK
<1>2. LifecycleTypeOK'
  BY <1>1 DEF LifecycleTypeOK
<1>3. NothingGoesStale'
  <2>1. ASSUME NEW w \in Workers PROVE WorkerSound(worker[w])'
    <3>1. WorkerSound(worker[w])
      BY DEF LifecycleInv, NothingGoesStale
    <3>2. ASSUME worker'[w] = worker[w] PROVE WorkerSound(worker[w])'
      BY <1>1, <3>1, <3>2 DEF Onward, WorkerSound, Ended
    <3> QED  BY <3>2
  <2>2. ASSUME NEW s \in Services PROVE ServiceSound(svc[s])'
    <3>1. ServiceSound(svc[s])
      BY DEF LifecycleInv, NothingGoesStale
    <3>2. ASSUME svc'[s] = svc[s] PROVE ServiceSound(svc[s])'
      BY <1>1, <3>1, <3>2 DEF Onward, ServiceSound, Ended
    <3> QED  BY <3>2
  <2>3. ASSUME NEW t \in TaskIds, t \notin Started' PROVE claude'[t] = "none"
    BY <1>1, <2>3 DEF LifecycleInv, NothingGoesStale, Onward
  <2> QED  BY <2>1, <2>2, <2>3 DEF NothingGoesStale, TaskIds
<1>4. RunsAtMostOnce'
  <2>1. \A v \in Workers : worker[v].task # 0 => worker[v].task \in Started
    BY DEF LifecycleInv, NothingGoesStale, WorkerSound
  <2>2. \A v, w \in Workers : v # w /\ worker[w].task # 0 => worker[v].task # worker[w].task
    BY DEF LifecycleInv, RunsAtMostOnce
  <2>3. ASSUME NEW v \in Workers, NEW w \in Workers, v # w, worker'[w].task # 0
        PROVE  worker'[v].task # worker'[w].task
    BY <2>1, <2>2, <2>3 DEF TasksMoveWell
  <2> QED  BY <2>3 DEF RunsAtMostOnce
<1> QED  BY <1>1, <1>2, <1>3, <1>4 DEF LifecycleInv

\* One worker moves on; the services wait.
LEMMA OneWorkerMoves ==
    ASSUME LifecycleInv, [QueueNext]_queueVars, NEW w \in Workers,
           \A v \in Workers \ {w} : worker'[v] = worker[v],
           UNCHANGED svc, ProcessTypeOK',
           WorkerSound(worker[w])',
           worker'[w].task \in {0, worker[w].task} \/ worker'[w].task \notin Started,
           worker'[w].pc = "prep" => claude'[worker'[w].task] = "none",
           \A t \in TaskIds \ {worker[w].task} : claude'[t] = claude[t],
           OnlyEndsAnnounced'
    PROVE  LifecycleInv'
<1>1. worker \in [Workers -> WorkerState]
  BY DEF LifecycleInv, LifecycleTypeOK, ProcessTypeOK
<1>2. \A v \in Workers \ {w} : worker'[v] = worker[v]
  OBVIOUS
<1>3. \A v \in Workers : worker[v].task # 0 => worker[v].task \in Started
  BY DEF LifecycleInv, NothingGoesStale, WorkerSound
<1>4. Started \subseteq Started'
  BY StatementsGoOnward DEF LifecycleInv, LifecycleTypeOK, Onward
<1>5. TasksMoveWell
  BY <1>2 DEF TasksMoveWell
<1>6. \A v \in Workers : worker'[v] = worker[v] \/ WorkerSound(worker[v])'
  BY <1>2
<1>7. \A t \in TaskIds : claude[t] = "none" /\ t \notin Started' => claude'[t] = "none"
  BY <1>3, <1>4 DEF TaskIds
<1>8. ASSUME NEW v \in Workers, worker'[v].pc = "prep"
      PROVE  claude'[worker'[v].task] = "none"
  <2>1. CASE v = w
    BY <1>2, <1>8, <2>1
  <2>2. CASE v # w
    <3>1. worker'[v] = worker[v] /\ worker[v].pc = "prep" /\ worker[v] \in WorkerState
      BY <1>1, <1>2, <1>8, <2>2
    <3>2. worker[v].task # 0 /\ worker[v].task \in TaskIds
      BY <3>1 DEF LifecycleInv, NothingGoesStale, WorkerSound, WorkerState
    <3>3. worker[v].task # worker[w].task /\ claude[worker[v].task] = "none"
      BY <3>1, <3>2, <2>2 DEF LifecycleInv, RunsAtMostOnce
    <3> QED  BY <3>1, <3>2, <3>3
  <2> QED  BY <2>1, <2>2
<1> QED  BY <1>5, <1>6, <1>7, <1>8, ProcessStep

\* Every statement of a worker is one the table allows, and keeps the invariant.
LEMMA WorkerKeeps ==
    ASSUME LifecycleInv, NEW w \in Workers, WorkerStep(w)
    PROVE  [QueueNext]_queueVars /\ LifecycleInv'
<1>1. /\ TypeOK /\ Len(tasks) <= MaxTasks
      /\ ProcessTypeOK
      /\ worker \in [Workers -> WorkerState]
      /\ WorkerSound(worker[w])
      /\ OnlyEndsAnnounced
  BY DEF LifecycleInv, LifecycleTypeOK, ProcessTypeOK, NothingGoesStale
<1>2. /\ DOMAIN tasks \subseteq TaskIds /\ DOMAIN tasks = 1 .. Len(tasks) /\ Len(tasks) \in Nat
      /\ 0 \notin TaskIds
      /\ Started \subseteq DOMAIN tasks
      /\ \A t \in DOMAIN tasks : tasks[t].status \in Status
  BY <1>1, RowColumns, MaxTasksAssumption DEF TaskIds, Started
<1>3. CASE WorkerClaim(w)
  <2>1. PICK t \in DOMAIN tasks :
           /\ worker[w].pc = "poll"
           /\ ClaimNext(worker[w].project, t)
           /\ worker' = [worker EXCEPT ![w].pc = "prep", ![w].task = t]
           /\ startedAt' = [startedAt EXCEPT ![t] = "fresh"]
           /\ UNCHANGED <<claude, svc, notes, faults>>
    BY <1>3 DEF WorkerClaim
  <2>2. worker[w].project \in Projects
    BY <1>1, <2>1 DEF WorkerSound
  <2>3. QueueNext
    BY <2>1, <2>2 DEF QueueNext
  <2>4. t \in TaskIds /\ t \notin Started
    BY <1>2, <2>1 DEF ClaimNext, Claimable, Pending, Started, Terminal
  <2>5. t \in Started'
    BY <1>1, <2>1, SetStatusEffect DEF ClaimNext, Started, Status
  <2>6. claude[t] = "none"
    BY <2>4 DEF LifecycleInv, NothingGoesStale
  <2>7. /\ worker'[w].pc = "prep" /\ worker'[w].task = t
        /\ worker'[w].project = worker[w].project
        /\ worker' \in [Workers -> WorkerState]
        /\ \A v \in Workers \ {w} : worker'[v] = worker[v]
    BY <1>1, <2>1, <2>4 DEF WorkerState
  <2>8. ProcessTypeOK'
    BY <1>1, <2>1, <2>7 DEF ProcessTypeOK
  <2>9. WorkerSound(worker[w])'
    BY <1>2, <2>2, <2>4, <2>5, <2>7 DEF WorkerSound
  <2>10. OnlyEndsAnnounced'
    BY <1>1, <2>1 DEF OnlyEndsAnnounced
  <2> QED
    BY <2>1, <2>3, <2>4, <2>6, <2>7, <2>8, <2>9, <2>10, OneWorkerMoves
<1>4. ASSUME NEW pc \in {"poll", "exiting", "setpid", "wait", "check", "tcheck", "mark", "finish", "notify", "off"},
             [QueueNext]_queueVars,
             worker'[w].pc = pc,
             worker' \in [Workers -> WorkerState],
             \A v \in Workers \ {w} : worker'[v] = worker[v],
             UNCHANGED <<startedAt, svc>>,
             WorkerSound(worker[w])',
             worker'[w].task \in {0, worker[w].task},
             claude' \in [TaskIds -> ClaudeStates],
             \A t \in TaskIds \ {worker[w].task} : claude'[t] = claude[t],
             notes' \in [TaskIds -> {"none"} \cup Status], OnlyEndsAnnounced',
             faults' \in 0 .. MaxFaults
      PROVE  [QueueNext]_queueVars /\ LifecycleInv'
  <2>1. ProcessTypeOK'
    BY <1>1, <1>4 DEF ProcessTypeOK
  <2> QED  BY <1>4, <2>1, OneWorkerMoves
<1>5. ASSUME UNCHANGED tasks
      PROVE  /\ [QueueNext]_queueVars
             /\ Started' = Started
             /\ \A t : Ended(t)' <=> Ended(t)
  BY <1>5 DEF queueVars, Started, Ended
<1>6. ASSUME NEW t \in Started, MarkDone(t) \/ MarkFailed(t)
      PROVE  [QueueNext]_queueVars /\ Ended(t)' /\ Started \subseteq Started'
  <2>1. QueueNext
    BY <1>6 DEF QueueNext
  <2>2. Started \subseteq Started'
    BY <1>1, <2>1, StatementsGoOnward DEF Onward
  <2>3. Ended(t)'
    BY <1>1, <1>2, <1>6, SetStatusEffect DEF MarkDone, MarkFailed, Ended, Terminal, Status
  <2> QED  BY <2>1, <2>2, <2>3
<1>7. worker[w].pc \notin {"off", "poll", "exiting"} =>
        worker[w].task \in Started /\ worker[w].task \in TaskIds
  BY <1>1, <1>2 DEF WorkerSound, WorkerState
<1>8. claude \in [TaskIds -> ClaudeStates] /\ notes \in [TaskIds -> {"none"} \cup Status]
      /\ faults \in 0 .. MaxFaults
  BY <1>1 DEF ProcessTypeOK
<1>9. UNCHANGED notes => OnlyEndsAnnounced'
  BY <1>1 DEF OnlyEndsAnnounced
<1>10. CASE WorkerIdles(w)
  <2>1. /\ UNCHANGED <<tasks, startedAt, claude, svc, notes, faults>>
        /\ worker' = [worker EXCEPT ![w].pc = "exiting"] /\ worker[w].pc = "poll"
    BY <1>10 DEF WorkerIdles, WorkerGoes
  <2>2. worker' \in [Workers -> WorkerState] /\ WorkerSound(worker[w])'
    BY <1>1, <1>5, <2>1 DEF WorkerState, WorkerSound
  <2> QED  BY <1>1, <1>4, <1>5, <1>8, <1>9, <2>1, <2>2
<1>11. CASE WorkerExits(w)
  <2>1. /\ UNCHANGED <<tasks, startedAt, claude, svc, notes, faults>>
        /\ worker' = [worker EXCEPT ![w] = WorkerOff]
    BY <1>11 DEF WorkerExits
  <2>2. worker' \in [Workers -> WorkerState] /\ WorkerSound(worker[w])'
    BY <1>1, <2>1 DEF WorkerState, WorkerSound, WorkerOff
  <2>3. worker'[w].pc = "off" /\ worker'[w].task = 0
    BY <1>1, <2>1 DEF WorkerOff
  <2> QED  BY <1>1, <1>4, <1>5, <1>8, <1>9, <2>1, <2>2, <2>3
<1>12. CASE WorkerPrepFails(w)
  <2>1. /\ UNCHANGED <<startedAt, claude, svc, notes, faults>> /\ MarkFailed(worker[w].task)
        /\ worker' = [worker EXCEPT ![w].pc = "finish"] /\ worker[w].pc = "prep"
    BY <1>12 DEF WorkerPrepFails, WorkerGoes
  <2>2. worker' \in [Workers -> WorkerState] /\ WorkerSound(worker[w])'
    BY <1>1, <1>6, <1>7, <2>1 DEF WorkerState, WorkerSound
  <2> QED  BY <1>1, <1>4, <1>6, <1>7, <1>8, <1>9, <2>1, <2>2
<1>13. CASE WorkerLaunch(w)
  <2>1. /\ UNCHANGED <<tasks, startedAt, svc, notes, faults>>
        /\ claude' = [claude EXCEPT ![worker[w].task] = "live"]
        /\ worker' = [worker EXCEPT ![w].pc = "setpid"] /\ worker[w].pc = "prep"
    BY <1>13 DEF WorkerLaunch, WorkerGoes
  <2>2. worker' \in [Workers -> WorkerState] /\ WorkerSound(worker[w])'
    BY <1>1, <1>5, <2>1 DEF WorkerState, WorkerSound
  <2>3. claude' \in [TaskIds -> ClaudeStates]
    BY <1>8, <2>1 DEF ClaudeStates
  <2> QED  BY <1>1, <1>4, <1>5, <1>8, <1>9, <2>1, <2>2, <2>3
<1>14. CASE WorkerSetPid(w)
  <2>1. /\ UNCHANGED <<startedAt, claude, svc, notes, faults>> /\ SetPid(worker[w].task)
        /\ worker' = [worker EXCEPT ![w].pc = "wait"] /\ worker[w].pc = "setpid"
    BY <1>14 DEF WorkerSetPid, WorkerGoes
  <2>2. QueueNext
    BY <1>7, <2>1 DEF QueueNext
  <2>3. Started \subseteq Started'
    BY <1>1, <2>2, StatementsGoOnward DEF Onward
  <2>4. worker' \in [Workers -> WorkerState] /\ WorkerSound(worker[w])'
    BY <1>1, <1>7, <2>1, <2>3 DEF WorkerState, WorkerSound
  <2> QED  BY <1>1, <1>4, <1>8, <1>9, <2>1, <2>2, <2>4
<1>15. CASE WorkerReaps(w)
  <2>1. /\ UNCHANGED <<tasks, startedAt, svc, notes, faults>>
        /\ claude[worker[w].task] \in {"ok", "err"}
        /\ claude' = [claude EXCEPT ![worker[w].task] = "gone"]
        /\ worker' = [worker EXCEPT ![w].pc = "check", ![w].seen = claude[worker[w].task]]
        /\ worker[w].pc = "wait"
    BY <1>15 DEF WorkerReaps
  <2>2. worker' \in [Workers -> WorkerState] /\ WorkerSound(worker[w])'
    BY <1>1, <1>5, <2>1 DEF WorkerState, WorkerSound
  <2>3. claude' \in [TaskIds -> ClaudeStates]
    BY <1>8, <2>1 DEF ClaudeStates
  <2> QED  BY <1>1, <1>4, <1>5, <1>8, <1>9, <2>1, <2>2, <2>3
<1>16. CASE WorkerTimesOut(w)
  <2>1. /\ UNCHANGED <<tasks, startedAt, svc, notes, faults>>
        /\ claude' = [claude EXCEPT ![worker[w].task] = "gone"]
        /\ worker' = [worker EXCEPT ![w].pc = "tcheck", ![w].seen = "err"]
        /\ worker[w].pc = "wait"
    BY <1>16 DEF WorkerTimesOut
  <2>2. worker' \in [Workers -> WorkerState] /\ WorkerSound(worker[w])'
    BY <1>1, <1>5, <2>1 DEF WorkerState, WorkerSound
  <2>3. claude' \in [TaskIds -> ClaudeStates]
    BY <1>8, <2>1 DEF ClaudeStates
  <2> QED  BY <1>1, <1>4, <1>5, <1>8, <1>9, <2>1, <2>2, <2>3
<1>17. ASSUME BackToPoll(w), worker[w].pc \notin {"off", "poll", "exiting"}
       PROVE  /\ worker' \in [Workers -> WorkerState]
              /\ worker'[w].pc = "poll" /\ worker'[w].task = 0
              /\ \A v \in Workers \ {w} : worker'[v] = worker[v]
              /\ WorkerSound(worker[w])'
  BY <1>1, <1>17 DEF BackToPoll, WorkerState, WorkerSound
<1>18. CASE WorkerChecks(w)
  <2>1. /\ UNCHANGED <<tasks, startedAt, claude, svc, notes, faults>>
        /\ worker[w].pc \in {"check", "tcheck"}
        /\ \/ WorkerGoes(w, "mark")
           \/ BackToPoll(w)
           \/ tasks[worker[w].task].status # "running" /\ GoesToFinish(w)
    BY <1>18 DEF WorkerChecks
  <2>2. CASE WorkerGoes(w, "mark")
    <3>1. worker' \in [Workers -> WorkerState] /\ WorkerSound(worker[w])'
      BY <1>1, <1>5, <2>1, <2>2 DEF WorkerState, WorkerSound, WorkerGoes
    <3> QED  BY <1>1, <1>4, <1>5, <1>8, <1>9, <2>1, <2>2, <3>1 DEF WorkerGoes
  <2>3. CASE BackToPoll(w)
    BY <1>1, <1>4, <1>5, <1>8, <1>9, <1>17, <2>1, <2>3
  <2>4. CASE tasks[worker[w].task].status # "running" /\ GoesToFinish(w)
    <3>1. Ended(worker[w].task)
      BY <1>7, <2>1, <2>4 DEF Started, Ended
    <3>2. worker' \in [Workers -> WorkerState] /\ WorkerSound(worker[w])'
      BY <1>1, <1>5, <1>7, <2>1, <2>4, <3>1 DEF WorkerState, WorkerSound, GoesToFinish
    <3> QED  BY <1>1, <1>4, <1>5, <1>8, <1>9, <2>1, <2>4, <3>2 DEF GoesToFinish
  <2> QED  BY <2>1, <2>2, <2>3, <2>4
<1>19. CASE WorkerMarks(w)
  <2>1. /\ UNCHANGED <<startedAt, claude, svc, notes, faults>>
        /\ MarkDone(worker[w].task) \/ MarkFailed(worker[w].task)
        /\ worker' = [worker EXCEPT ![w].pc = "finish", ![w].seen = "none"]
        /\ worker[w].pc = "mark"
    BY <1>19 DEF WorkerMarks, GoesToFinish
  <2>2. worker' \in [Workers -> WorkerState] /\ WorkerSound(worker[w])'
    BY <1>1, <1>6, <1>7, <2>1 DEF WorkerState, WorkerSound
  <2> QED  BY <1>1, <1>4, <1>6, <1>7, <1>8, <1>9, <2>1, <2>2
<1>20. CASE WorkerFinishes(w)
  <2>1. /\ UNCHANGED <<tasks, startedAt, claude, svc, notes, faults>>
        /\ worker' = [worker EXCEPT ![w].pc = "notify",
                                    ![w].seen = tasks[worker[w].task].status]
        /\ worker[w].pc = "finish"
    BY <1>20 DEF WorkerFinishes
  <2>2. tasks[worker[w].task].status \in Terminal
    BY <1>1, <2>1 DEF WorkerSound, Ended
  <2>3. worker' \in [Workers -> WorkerState] /\ WorkerSound(worker[w])'
    BY <1>1, <1>5, <2>1, <2>2 DEF WorkerState, WorkerSound, Status
  <2> QED  BY <1>1, <1>4, <1>5, <1>8, <1>9, <2>1, <2>3
<1>21. CASE WorkerNotifies(w)
  <2>1. /\ UNCHANGED <<tasks, startedAt, claude, svc>>
        /\ Announce(worker[w].task, worker[w].seen)
        /\ BackToPoll(w) /\ worker[w].pc = "notify"
    BY <1>21 DEF WorkerNotifies
  <2>2. worker[w].seen \in Terminal
    BY <1>1, <2>1 DEF WorkerSound
  <2>3. /\ notes' \in [TaskIds -> {"none"} \cup Status] /\ OnlyEndsAnnounced'
        /\ faults' \in 0 .. MaxFaults
    BY <1>1, <1>8, <2>1, <2>2, MaxFaultsAssumption DEF Announce, Fault, OnlyEndsAnnounced, Status
  <2> QED  BY <1>1, <1>4, <1>5, <1>8, <1>17, <2>1, <2>3
<1> QED
  BY <1>3, <1>10, <1>11, <1>12, <1>13, <1>14, <1>15, <1>16, <1>18, <1>19, <1>20, <1>21
     DEF WorkerStep

-----------------------------------------------------------------------------
\* One service moves on; the workers wait, though a claude may end.
LEMMA OneServiceMoves ==
    ASSUME LifecycleInv, [QueueNext]_queueVars, NEW s \in Services,
           \A r \in Services \ {s} : svc'[r] = svc[r],
           svc'[s] = svc[s] \/ ServiceSound(svc[s])',
           UNCHANGED worker, ProcessTypeOK',
           \A t \in TaskIds : claude[t] = "none" => claude'[t] = "none",
           OnlyEndsAnnounced'
    PROVE  LifecycleInv'
<1>1. TasksMoveWell
  BY DEF TasksMoveWell
<1>2. \A r \in Services : svc'[r] = svc[r] \/ ServiceSound(svc[r])'
  OBVIOUS
<1>3. \A t \in TaskIds : claude[t] = "none" /\ t \notin Started' => claude'[t] = "none"
  OBVIOUS
<1>4. ASSUME NEW w \in Workers, worker'[w].pc = "prep"
      PROVE  claude'[worker'[w].task] = "none"
  <2>1. worker[w].task # 0 /\ worker[w].task \in TaskIds
    BY <1>4 DEF LifecycleInv, LifecycleTypeOK, ProcessTypeOK, WorkerState, NothingGoesStale,
       WorkerSound
  <2> QED  BY <1>4, <2>1 DEF LifecycleInv, RunsAtMostOnce
<1> QED  BY <1>1, <1>2, <1>3, <1>4, ProcessStep

\* Every statement of a service is one the table allows, and keeps the invariant.
LEMMA ServiceKeeps ==
    ASSUME LifecycleInv, NEW s \in Services, SvcStep(s) \/ SvcStart(s)
    PROVE  [QueueNext]_queueVars /\ LifecycleInv'
<1>1. /\ TypeOK /\ Len(tasks) <= MaxTasks
      /\ ProcessTypeOK
      /\ svc \in [Services -> ServiceState] /\ svc[s] \in ServiceState
      /\ ServiceSound(svc[s])
      /\ OnlyEndsAnnounced
  BY DEF LifecycleInv, LifecycleTypeOK, ProcessTypeOK, NothingGoesStale
<1>2. /\ DOMAIN tasks \subseteq TaskIds /\ 0 \notin TaskIds
      /\ Started \subseteq DOMAIN tasks
      /\ \A t \in DOMAIN tasks : tasks[t] \in Row
  BY <1>1, RowColumns, MaxTasksAssumption, ElementOfSeq DEF TaskIds, Started, TypeOK
<1>3. SvcIdle \in ServiceState /\ ServiceSound(SvcIdle) /\ ServiceSound(SvcIdle)'
  BY DEF SvcIdle, ServiceState, ServiceSound
<1>4. ASSUME [QueueNext]_queueVars, NEW r \in ServiceState, svc' = [svc EXCEPT ![s] = r],
             svc'[s] = svc[s] \/ ServiceSound(svc[s])',
             UNCHANGED <<startedAt, worker>>,
             claude' \in [TaskIds -> ClaudeStates],
             \A t \in TaskIds : claude[t] = "none" => claude'[t] = "none",
             notes' \in [TaskIds -> {"none"} \cup Status], OnlyEndsAnnounced',
             faults' \in 0 .. MaxFaults
      PROVE  [QueueNext]_queueVars /\ LifecycleInv'
  <2>1. svc' \in [Services -> ServiceState] /\ \A q \in Services \ {s} : svc'[q] = svc[q]
    BY <1>1, <1>4
  <2>2. ProcessTypeOK'
    BY <1>1, <1>4, <2>1 DEF ProcessTypeOK
  <2> QED  BY <1>4, <2>1, <2>2, OneServiceMoves
<1>5. ASSUME UNCHANGED tasks
      PROVE  /\ [QueueNext]_queueVars
             /\ Started' = Started
             /\ \A t : Ended(t)' <=> Ended(t)
             /\ \A p : RetryTargets(p)' = RetryTargets(p)
  BY <1>5 DEF queueVars, Started, Ended, RetryTargets
<1>6. ASSUME NEW t \in Started, Cancel(t) \/ MarkFailed(t)
      PROVE  [QueueNext]_queueVars /\ Ended(t)' /\ Started \subseteq Started'
  <2>1. QueueNext
    BY <1>6 DEF QueueNext
  <2>2. Started \subseteq Started'
    BY <1>1, <2>1, StatementsGoOnward DEF Onward
  <2>3. Ended(t)'
    BY <1>1, <1>2, <1>6, SetStatusEffect DEF Cancel, MarkFailed, Ended, Terminal, Status
  <2> QED  BY <2>1, <2>2, <2>3
<1>7. /\ claude \in [TaskIds -> ClaudeStates] /\ notes \in [TaskIds -> {"none"} \cup Status]
      /\ faults \in 0 .. MaxFaults
  BY <1>1 DEF ProcessTypeOK
<1>8. UNCHANGED notes => OnlyEndsAnnounced'
  BY <1>1 DEF OnlyEndsAnnounced
\* The steps that touch neither the table nor any process but this one.
<1>9. ASSUME UNCHANGED <<tasks, startedAt, worker, claude, notes, faults>>,
             NEW r \in ServiceState, svc' = [svc EXCEPT ![s] = r], ServiceSound(r)
      PROVE  [QueueNext]_queueVars /\ LifecycleInv'
  <2>1. svc'[s] = r
    BY <1>1, <1>9
  <2>2. ServiceSound(svc[s])'
    BY <1>5, <1>9, <2>1 DEF ServiceSound
  <2> QED  BY <1>4, <1>5, <1>7, <1>8, <1>9, <2>2
<1>10. CASE StartEnqueue(s)
  <2>1. PICK p \in Projects, prio \in RawPriorities :
           svc' = [svc EXCEPT ![s].pc = "ensure", ![s].project = p, ![s].prio = prio]
    BY <1>10 DEF StartEnqueue
  <2> DEFINE r == [svc[s] EXCEPT !.pc = "ensure", !.project = p, !.prio = prio]
  <2>2. svc[s] = SvcIdle /\ UNCHANGED <<tasks, startedAt, worker, claude, notes, faults>>
    BY <1>1, <1>10 DEF StartEnqueue, ServiceSound
  <2>3. r \in ServiceState /\ ServiceSound(r)
    <3>1. r \in ServiceState
      BY <1>1, RawPrioritiesAssumption DEF ServiceState
    <3>2. /\ r.pc = "ensure" /\ r.project = p /\ r.retry = 0 /\ ~r.drain /\ r.todo = {}
      BY <2>2 DEF SvcIdle
    <3> HIDE DEF r
    <3> QED  BY <3>1, <3>2 DEF ServiceSound
  <2>4. svc' = [svc EXCEPT ![s] = r]
    BY <1>1, <2>1
  <2> QED  BY <1>9, <2>2, <2>3, <2>4
<1>11. CASE StartRetry(s)
  <2>1. PICK t \in DOMAIN tasks :
           /\ tasks[t].status \in Terminal
           /\ svc' = [svc EXCEPT ![s].pc = "ensure", ![s].project = tasks[t].project,
                                 ![s].prio = tasks[t].priority, ![s].retry = t]
    BY <1>11 DEF StartRetry
  <2> DEFINE r == [svc[s] EXCEPT !.pc = "ensure", !.project = tasks[t].project,
                                 !.prio = tasks[t].priority, !.retry = t]
  <2>2. svc[s] = SvcIdle /\ UNCHANGED <<tasks, startedAt, worker, claude, notes, faults>>
    BY <1>1, <1>11 DEF StartRetry, ServiceSound
  <2>3. t \in RetryTargets(tasks[t].project)
    BY <2>1 DEF RetryTargets
  <2>4. tasks[t].project \in Projects /\ tasks[t].priority \in Int /\ t \in TaskIds
    BY <1>1, <1>2, RowColumns
  <2>5. r \in ServiceState /\ ServiceSound(r)
    <3>1. r \in ServiceState
      BY <1>1, <2>4 DEF ServiceState
    <3>2. /\ r.pc = "ensure" /\ r.project = tasks[t].project /\ r.retry = t
          /\ ~r.drain /\ r.todo = {}
      BY <2>2 DEF SvcIdle
    <3> HIDE DEF r
    <3> QED  BY <2>3, <2>4, <3>1, <3>2 DEF ServiceSound
  <2>6. svc' = [svc EXCEPT ![s] = r]
    BY <1>1, <2>1
  <2> QED  BY <1>9, <2>2, <2>5, <2>6
<1>12. CASE EnsureWorker(s)
  <2>1. PICK pc \in {"insert", "spawn"} : svc' = [svc EXCEPT ![s].pc = pc]
    BY <1>12 DEF EnsureWorker, SvcGoes
  <2> DEFINE r == [svc[s] EXCEPT !.pc = pc]
  <2>2. svc[s].pc = "ensure" /\ UNCHANGED <<tasks, startedAt, worker, claude, notes, faults>>
    BY <1>12 DEF EnsureWorker
  <2>3. r \in ServiceState /\ ServiceSound(r)
    BY <1>1, <2>1, <2>2 DEF ServiceState, ServiceSound
  <2>4. svc' = [svc EXCEPT ![s] = r]
    BY <1>1, <2>1
  <2> QED  BY <1>9, <2>2, <2>3, <2>4
<1>13. CASE SpawnWorker(s)
  <2>1. PICK w \in Workers :
           /\ worker[w].pc = "off"
           /\ worker' = [worker EXCEPT ![w].pc = "poll", ![w].project = svc[s].project]
    BY <1>13 DEF SpawnWorker
  <2>2. /\ svc[s].pc = "spawn" /\ svc' = [svc EXCEPT ![s].pc = "insert"]
        /\ UNCHANGED <<tasks, startedAt, claude, notes, faults>>
    BY <1>13 DEF SpawnWorker, SvcGoes
  <2>3. worker \in [Workers -> WorkerState] /\ worker[w].task = 0 /\ svc[s].project \in Projects
    BY <1>1, <2>1, <2>2 DEF LifecycleInv, NothingGoesStale, WorkerSound, ProcessTypeOK, ServiceSound
  <2>4. /\ worker' \in [Workers -> WorkerState] /\ worker'[w].task = 0
        /\ worker'[w].pc = "poll" /\ worker'[w].project \in Projects
        /\ \A v \in Workers \ {w} : worker'[v] = worker[v]
    BY ZenonT(30), <2>1, <2>3 DEF WorkerState
  <2>5. svc' \in [Services -> ServiceState] /\ ServiceSound(svc[s])'
        /\ \A r \in Services \ {s} : svc'[r] = svc[r]
    BY <1>1, <1>5, <2>2 DEF ServiceState, ServiceSound
  <2>6. ProcessTypeOK'
    BY <1>1, <2>2, <2>4, <2>5 DEF ProcessTypeOK
  <2>7. TasksMoveWell
    BY <2>4 DEF TasksMoveWell
  <2>8. \A v \in Workers : worker'[v] = worker[v] \/ WorkerSound(worker[v])'
    BY <1>2, <2>4 DEF WorkerSound
  <2>9. \A v \in Workers : worker'[v].pc = "prep" => claude'[worker'[v].task] = "none"
    <3>1. \A v \in Workers : worker[v].pc = "prep" => worker[v].task # 0
      BY <2>3 DEF LifecycleInv, NothingGoesStale, WorkerSound
    <3> QED  BY <2>2, <2>4, <3>1 DEF LifecycleInv, RunsAtMostOnce
  <2>10. [QueueNext]_queueVars
    BY <1>5, <2>2
  <2>11. \A r \in Services : svc'[r] = svc[r] \/ ServiceSound(svc[r])'
    BY <2>5
  <2> QED  BY <1>8, <2>2, <2>6, <2>7, <2>8, <2>9, <2>10, <2>11, ProcessStep
<1>14. CASE InsertTask(s)
  <2>1. /\ svc[s].pc = "insert" /\ Enqueue(svc[s].project, Clamp(svc[s].prio), svc[s].retry)
        /\ svc' = [svc EXCEPT ![s] = SvcIdle]
        /\ UNCHANGED <<startedAt, worker, claude, notes, faults>>
    BY <1>14 DEF InsertTask, SvcDone
  <2>2. svc[s].prio \in Int
    BY <1>1 DEF ServiceState
  <2>3. Clamp(svc[s].prio) \in Priorities
    BY <2>2, MaxPriorityAssumption DEF Clamp, Priorities
  <2>4. /\ svc[s].project \in Projects
        /\ svc[s].retry = 0 \/ svc[s].retry \in RetryTargets(svc[s].project)
    BY <1>1, <2>1 DEF ServiceSound
  <2>5. svc[s].retry \in {0} \cup DOMAIN tasks
    BY <2>4 DEF RetryTargets
  <2>6. QueueNext
    BY <2>1, <2>3, <2>4, <2>5 DEF QueueNext
  <2>7. ServiceSound(svc[s])'
    <3>1. svc'[s] = SvcIdle
      BY <1>1, <2>1
    <3> QED  BY <3>1 DEF ServiceSound, SvcIdle
  <2> QED  BY <1>3, <1>4, <1>7, <1>8, <2>1, <2>6, <2>7
<1>15. CASE RouteToAgent(s)
  <2>1. QueueNext /\ UNCHANGED <<startedAt, worker, claude, svc, notes, faults>>
    BY <1>15 DEF RouteToAgent, QueueNext
  <2>2. svc' = [svc EXCEPT ![s] = svc[s]]
    BY <1>1, <2>1
  <2> QED  BY <1>1, <1>4, <1>7, <1>8, <2>1, <2>2
<1>16. CASE StartCancel(s)
  <2>1. svc[s] = SvcIdle /\ UNCHANGED <<tasks, startedAt, worker, claude, notes, faults>>
    BY <1>1, <1>16 DEF StartCancel, ServiceSound
  <2>2. PICK p \in Projects, drain \in BOOLEAN :
          \/ \E t \in Running(p) :
                svc' = [svc EXCEPT
                          ![s].pc = IF tasks[t].pid /\ IsAlive(t) THEN "term" ELSE "cancel",
                          ![s].project = p, ![s].task = t, ![s].drain = drain]
          \/ svc' = [svc EXCEPT ![s].pc = "drain", ![s].project = p]
    BY ZenonT(30), <1>16 DEF StartCancel
  <2>3. ASSUME NEW t \in Running(p), NEW pc \in {"term", "cancel"},
               svc' = [svc EXCEPT ![s].pc = pc,
                          ![s].project = p, ![s].task = t, ![s].drain = drain]
        PROVE  [QueueNext]_queueVars /\ LifecycleInv'
    <3> DEFINE r == [svc[s] EXCEPT !.pc = pc, !.project = p, !.task = t, !.drain = drain]
    <3>1. t \in Started /\ t \in TaskIds
      BY <1>2 DEF Running, Started
    <3>2. r \in ServiceState /\ ServiceSound(r)
      BY <1>1, <2>1, <2>3, <3>1 DEF ServiceState, ServiceSound, SvcIdle
    <3>3. svc' = [svc EXCEPT ![s] = r]
      BY <1>1, <2>3
    <3> QED  BY <1>9, <2>1, <3>2, <3>3
  <2>4. ASSUME svc' = [svc EXCEPT ![s].pc = "drain", ![s].project = p]
        PROVE  [QueueNext]_queueVars /\ LifecycleInv'
    <3> DEFINE r == [svc[s] EXCEPT !.pc = "drain", !.project = p]
    <3>2. r \in ServiceState /\ ServiceSound(r)
      BY <1>1, <2>1, <2>4 DEF ServiceState, ServiceSound, SvcIdle
    <3>3. svc' = [svc EXCEPT ![s] = r]
      BY <1>1, <2>4
    <3> QED  BY <1>9, <2>1, <3>2, <3>3
  <2> QED  BY <2>2, <2>3, <2>4
<1>17. CASE CancelKills(s)
  <2>1. /\ svc[s].pc = "term" /\ UNCHANGED <<tasks, startedAt, worker, notes, faults>>
        /\ svc' = [svc EXCEPT ![s].pc = "cancel"]
        /\ \/ UNCHANGED claude
           \/ /\ claude[svc[s].task] = "live"
              /\ \E rc \in {"err", "gone"} : claude' = [claude EXCEPT ![svc[s].task] = rc]
    BY <1>17 DEF CancelKills, SvcGoes, Exits
  <2> DEFINE r == [svc[s] EXCEPT !.pc = "cancel"]
  <2>2. r \in ServiceState /\ ServiceSound(r)
    BY <1>1, <2>1 DEF ServiceState, ServiceSound
  <2>3. svc' = [svc EXCEPT ![s] = r] /\ svc'[s] = r
    BY <1>1, <2>1
  <2>4. /\ claude' \in [TaskIds -> ClaudeStates]
        /\ \A t \in TaskIds : claude[t] = "none" => claude'[t] = "none"
    BY <1>7, <2>1 DEF ClaudeStates
  <2>5. ServiceSound(svc[s])'
    BY <1>5, <2>1, <2>2, <2>3 DEF ServiceSound
  <2> QED  BY <1>4, <1>5, <1>7, <1>8, <2>1, <2>2, <2>3, <2>4, <2>5
\* CancelMarks and ReapGhost: the row is terminal when it is read again.
<1>18. ASSUME svc[s].pc \in {"cancel", "reap"}, NEW t, t = svc[s].task,
              Cancel(t) \/ MarkFailed(t), svc' = [svc EXCEPT ![s].pc = "read"],
              UNCHANGED <<startedAt, worker, claude, notes, faults>>
       PROVE  [QueueNext]_queueVars /\ LifecycleInv'
  <2> DEFINE r == [svc[s] EXCEPT !.pc = "read"]
  <2>1. t \in Started
    BY <1>1, <1>18 DEF ServiceSound
  <2>2. [QueueNext]_queueVars /\ Ended(t)' /\ Started \subseteq Started'
    BY <1>6, <1>18, <2>1
  <2>3. r \in ServiceState
    BY <1>1 DEF ServiceState
  <2>4. svc' = [svc EXCEPT ![s] = r] /\ svc'[s] = r
    BY <1>1, <1>18
  <2>5. ServiceSound(svc[s])'
    BY <1>1, <1>18, <2>1, <2>2, <2>4 DEF ServiceSound
  <2> QED  BY <1>4, <1>7, <1>8, <1>18, <2>2, <2>3, <2>4, <2>5
<1>19. CASE CancelMarks(s)
  BY <1>18, <1>19 DEF CancelMarks, SvcGoes
<1>20. CASE ReapGhost(s)
  BY <1>18, <1>20 DEF ReapGhost, SvcGoes
<1>21. CASE SvcReads(s)
  <2> DEFINE r == [svc[s] EXCEPT !.pc = "notify", !.seen = tasks[svc[s].task].status]
  <2>1. svc[s].pc = "read" /\ UNCHANGED <<tasks, startedAt, worker, claude, notes, faults>>
    BY <1>21 DEF SvcReads
  <2>2. tasks[svc[s].task].status \in Terminal
    BY <1>1, <2>1 DEF ServiceSound, Ended
  <2>3. r \in ServiceState /\ ServiceSound(r)
    BY <1>1, <2>1, <2>2 DEF ServiceState, ServiceSound, Status
  <2>4. svc' = [svc EXCEPT ![s] = r]
    BY <1>1, <1>21 DEF SvcReads
  <2> QED  BY <1>9, <2>1, <2>3, <2>4
<1>22. CASE SvcNotifies(s)
  <2>1. /\ svc[s].pc = "notify" /\ UNCHANGED <<tasks, startedAt, worker, claude>>
        /\ Announce(svc[s].task, svc[s].seen)
    BY <1>22 DEF SvcNotifies
  <2>2. PICK r \in {[SvcIdle EXCEPT !.pc = "sweep", !.todo = svc[s].todo],
                    [SvcIdle EXCEPT !.pc = "drain", !.project = svc[s].project], SvcIdle} :
          /\ svc' = [svc EXCEPT ![s] = r]
          /\ r.pc = "drain" => svc[s].drain
    BY <1>22 DEF SvcNotifies, SvcDone, SvcIdle
  <2>3. r.pc = "drain" => svc[s].project \in Projects
    BY <1>1, <2>2 DEF ServiceSound
  <2>4. svc[s].todo \subseteq TaskIds \X BOOLEAN /\ \A q \in svc[s].todo : q[1] \in Started
    BY <1>1 DEF ServiceSound, ServiceState
  <2>5. r \in ServiceState /\ ServiceSound(r)
    <3>1. CASE r = [SvcIdle EXCEPT !.pc = "sweep", !.todo = svc[s].todo]
      <4>1. r \in ServiceState
        BY <1>3, <2>4, <3>1 DEF ServiceState
      <4>2. r.pc = "sweep" /\ r.todo = svc[s].todo /\ ~r.drain
        BY <3>1 DEF SvcIdle
      <4> QED  BY <2>4, <4>1, <4>2 DEF ServiceSound
    <3>2. CASE r = [SvcIdle EXCEPT !.pc = "drain", !.project = svc[s].project]
      <4>1. svc[s].project \in Projects
        BY <2>3, <3>2 DEF SvcIdle
      <4>2. r \in ServiceState
        BY <1>3, <3>2, <4>1 DEF ServiceState
      <4>3. r.pc = "drain" /\ r.todo = {} /\ ~r.drain /\ r.project = svc[s].project
        BY <3>2 DEF SvcIdle
      <4> QED  BY <4>1, <4>2, <4>3 DEF ServiceSound
    <3> QED  BY <1>3, <2>2, <3>1, <3>2
  <2>7. svc'[s] = r
    BY <1>1, <2>2
  <2>8. ServiceSound(svc[s])'
    BY <1>5, <2>1, <2>5, <2>7 DEF ServiceSound
  <2>9. svc[s].seen \in Terminal
    BY <1>1, <2>1 DEF ServiceSound
  <2>10. /\ notes' \in [TaskIds -> {"none"} \cup Status] /\ OnlyEndsAnnounced'
         /\ faults' \in 0 .. MaxFaults
    BY <1>1, <1>7, <2>1, <2>9, MaxFaultsAssumption DEF Announce, Fault, OnlyEndsAnnounced, Status
  <2> QED  BY <1>4, <1>5, <1>7, <2>1, <2>2, <2>5, <2>8, <2>10
<1>23. CASE DrainQueue(s)
  <2>1. /\ svc[s].pc = "drain" /\ DrainPending(svc[s].project)
        /\ svc' = [svc EXCEPT ![s] = SvcIdle]
        /\ UNCHANGED <<startedAt, worker, claude, notes, faults>>
    BY <1>23 DEF DrainQueue, SvcDone
  <2>2. QueueNext
    BY <1>1, <2>1 DEF QueueNext, ServiceSound
  <2>3. svc'[s] = SvcIdle
    BY <1>1, <2>1
  <2>4. ServiceSound(svc[s])'
    BY <2>3 DEF ServiceSound, SvcIdle
  <2> QED  BY <1>3, <1>4, <1>7, <1>8, <2>1, <2>2, <2>4
<1>24. CASE StartSweep(s)
  <2> DEFINE r == [svc[s] EXCEPT !.pc = "sweep", !.todo = Suspects]
  <2>1. svc[s] = SvcIdle /\ UNCHANGED <<tasks, startedAt, worker, claude, notes, faults>>
    BY <1>1, <1>24 DEF StartSweep, ServiceSound
  <2>2. Suspects \subseteq TaskIds \X BOOLEAN /\ \A q \in Suspects : q[1] \in Started
    BY <1>2 DEF Suspects, Started, Row
  <2>3. r \in ServiceState /\ ServiceSound(r)
    <3>1. r \in ServiceState
      BY <1>1, <2>2 DEF ServiceState
    <3>2. r.pc = "sweep" /\ r.todo = Suspects /\ ~r.drain
      BY <2>1 DEF SvcIdle
    <3> HIDE DEF r
    <3> QED  BY <2>2, <3>1, <3>2 DEF ServiceSound
  <2>4. svc' = [svc EXCEPT ![s] = r]
    BY <1>1, <1>24 DEF StartSweep
  <2> QED  BY <1>9, <2>1, <2>3, <2>4
<1>25. CASE SweepNext(s)
  <2>1. svc[s].pc = "sweep" /\ UNCHANGED <<tasks, startedAt, worker, claude, notes, faults>>
    BY <1>25 DEF SweepNext
  <2>2. PICK q \in svc[s].todo :
          \/ svc' = [svc EXCEPT ![s] = SvcIdle]
          \/ svc' = [svc EXCEPT ![s] = [svc[s] EXCEPT !.todo = svc[s].todo \ {q}]]
          \/ svc' = [svc EXCEPT ![s].pc = "reap", ![s].task = q[1],
                                ![s].todo = svc[s].todo \ {q}]
    BY <1>1, <1>25 DEF SweepNext
  <2>3. /\ q \in TaskIds \X BOOLEAN /\ q[1] \in Started
        /\ svc[s].todo \ {q} \subseteq TaskIds \X BOOLEAN
        /\ \A x \in svc[s].todo \ {q} : x[1] \in Started
    BY <1>1, <2>2 DEF ServiceSound, ServiceState
  <2>4. CASE svc' = [svc EXCEPT ![s] = SvcIdle]
    BY <1>3, <1>9, <2>1, <2>4
  <2>5. CASE svc' = [svc EXCEPT ![s] = [svc[s] EXCEPT !.todo = svc[s].todo \ {q}]]
    <3> DEFINE r == [svc[s] EXCEPT !.todo = svc[s].todo \ {q}]
    <3>1. r \in ServiceState /\ ServiceSound(r)
      BY <1>1, <2>1, <2>3 DEF ServiceState, ServiceSound
    <3> QED  BY <1>9, <2>1, <2>5, <3>1
  <2>6. CASE svc' = [svc EXCEPT ![s].pc = "reap", ![s].task = q[1],
                                ![s].todo = svc[s].todo \ {q}]
    <3> DEFINE r == [svc[s] EXCEPT !.pc = "reap", !.task = q[1], !.todo = svc[s].todo \ {q}]
    <3>1. r \in ServiceState /\ ServiceSound(r)
      BY <1>1, <2>1, <2>3 DEF ServiceState, ServiceSound
    <3>2. svc' = [svc EXCEPT ![s] = r]
      BY <1>1, <2>6
    <3> QED  BY <1>9, <2>1, <3>1, <3>2
  <2> QED  BY <2>2, <2>4, <2>5, <2>6
<1> QED
  BY <1>10, <1>11, <1>12, <1>13, <1>14, <1>15, <1>16, <1>17, <1>19, <1>20, <1>21, <1>22,
     <1>23, <1>24, <1>25 DEF SvcStep, SvcStart

-----------------------------------------------------------------------------
\* No process takes a step; claude and the clock may.
LEMMA NoProcessMoves ==
    ASSUME LifecycleInv, UNCHANGED <<tasks, worker, svc, notes, faults>>,
           startedAt' \in [TaskIds -> {"null", "fresh", "stale"}],
           claude' \in [TaskIds -> ClaudeStates],
           \A t \in TaskIds : claude[t] = "none" => claude'[t] = "none"
    PROVE  [QueueNext]_queueVars /\ LifecycleInv'
<1>1. [QueueNext]_queueVars /\ TasksMoveWell
  BY DEF queueVars, TasksMoveWell
<1>2. ProcessTypeOK' /\ OnlyEndsAnnounced'
  BY DEF LifecycleInv, LifecycleTypeOK, ProcessTypeOK, OnlyEndsAnnounced
<1>3. ASSUME NEW w \in Workers, worker'[w].pc = "prep"
      PROVE  claude'[worker'[w].task] = "none"
  <2>1. worker[w].task # 0 /\ worker[w].task \in TaskIds
    BY <1>3 DEF LifecycleInv, LifecycleTypeOK, ProcessTypeOK, WorkerState, NothingGoesStale,
       WorkerSound
  <2> QED  BY <1>3, <2>1 DEF LifecycleInv, RunsAtMostOnce
<1> QED  BY <1>1, <1>2, <1>3, ProcessStep

\* Crashes, aborts, exits of claude and the passing of time.
LEMMA EnvironmentKeeps ==
    ASSUME LifecycleInv, Environment
    PROVE  [QueueNext]_queueVars /\ LifecycleInv'
<1>1. /\ ProcessTypeOK
      /\ worker \in [Workers -> WorkerState] /\ svc \in [Services -> ServiceState]
      /\ startedAt \in [TaskIds -> {"null", "fresh", "stale"}]
      /\ claude \in [TaskIds -> ClaudeStates]
      /\ UNCHANGED notes => OnlyEndsAnnounced'
  BY DEF LifecycleInv, LifecycleTypeOK, ProcessTypeOK, OnlyEndsAnnounced
<1>2. UNCHANGED tasks => [QueueNext]_queueVars
  BY DEF queueVars
<1>3. ASSUME NEW t, ClaudeExits(t)
      PROVE  [QueueNext]_queueVars /\ LifecycleInv'
  <2>1. /\ UNCHANGED <<tasks, startedAt, worker, svc, notes, faults>> /\ claude[t] = "live"
        /\ \E rc \in {"ok", "err", "gone"} : claude' = [claude EXCEPT ![t] = rc]
    BY <1>3 DEF ClaudeExits, Exits
  <2>2. /\ claude' \in [TaskIds -> ClaudeStates]
        /\ \A u \in TaskIds : claude[u] = "none" => claude'[u] = "none"
    BY <1>1, <2>1 DEF ClaudeStates
  <2> QED  BY <1>1, <2>1, <2>2, NoProcessMoves
<1>4. ASSUME NEW t, Ages(t)
      PROVE  [QueueNext]_queueVars /\ LifecycleInv'
  <2>1. startedAt' \in [TaskIds -> {"null", "fresh", "stale"}]
    BY <1>1, <1>4 DEF Ages
  <2> QED  BY <1>1, <1>4, <2>1, NoProcessMoves DEF Ages
<1>5. ASSUME NEW w \in Workers, WorkerCrashes(w)
      PROVE  [QueueNext]_queueVars /\ LifecycleInv'
  <2>1. /\ worker' = [worker EXCEPT ![w] = WorkerOff]
        /\ UNCHANGED <<tasks, startedAt, svc, notes>> /\ Fault
        /\ claude' = claude \/ claude' = [claude EXCEPT ![worker[w].task] = "gone"]
    BY <1>5 DEF WorkerCrashes
  <2>2. /\ worker'[w] = WorkerOff /\ WorkerOff \in WorkerState
        /\ \A v \in Workers \ {w} : worker'[v] = worker[v]
        /\ worker' \in [Workers -> WorkerState]
    BY <1>1, <2>1 DEF WorkerOff, WorkerState
  <2>3. WorkerSound(worker[w])'
    BY <2>2 DEF WorkerSound, WorkerOff
  <2>4. /\ claude' \in [TaskIds -> ClaudeStates]
        /\ \A t \in TaskIds \ {worker[w].task} : claude'[t] = claude[t]
    BY <1>1, <2>1 DEF ClaudeStates
  <2>5. ProcessTypeOK'
    BY <1>1, <2>1, <2>2, <2>4, MaxFaultsAssumption DEF ProcessTypeOK, Fault
  <2>6. worker'[w].task = 0 /\ worker'[w].pc # "prep"
    BY <2>2 DEF WorkerOff
  <2> QED  BY <1>1, <1>2, <2>1, <2>2, <2>3, <2>4, <2>5, <2>6, OneWorkerMoves
<1>6. ASSUME NEW s \in Services, SvcAborts(s)
      PROVE  [QueueNext]_queueVars /\ LifecycleInv'
  <2>1. /\ svc' = [svc EXCEPT ![s] = SvcIdle]
        /\ UNCHANGED <<tasks, startedAt, worker, claude, notes>> /\ Fault
    BY <1>6 DEF SvcAborts, SvcDone
  <2>2. /\ svc'[s] = SvcIdle /\ SvcIdle \in ServiceState
        /\ \A r \in Services \ {s} : svc'[r] = svc[r]
        /\ svc' \in [Services -> ServiceState]
    BY <1>1, <2>1 DEF SvcIdle, ServiceState
  <2>3. ServiceSound(svc[s])'
    BY <2>2 DEF ServiceSound, SvcIdle
  <2>4. ProcessTypeOK'
    BY <1>1, <2>1, <2>2, MaxFaultsAssumption DEF ProcessTypeOK, Fault
  <2> QED  BY <1>1, <1>2, <2>1, <2>2, <2>3, <2>4, OneServiceMoves
<1> QED  BY <1>3, <1>4, <1>5, <1>6 DEF Environment

LEMMA StartsWell == LifecycleInit => LifecycleInv /\ QueueInit
<1> SUFFICES ASSUME LifecycleInit PROVE LifecycleInv /\ QueueInit
  OBVIOUS
<1>1. TypeOK /\ Len(tasks) <= MaxTasks /\ DOMAIN tasks = {} /\ QueueInit
  BY MaxTasksAssumption, EmptySeq DEF LifecycleInit, QueueInit, TypeOK
<1>2. ProcessTypeOK
  BY MaxFaultsAssumption DEF LifecycleInit, ProcessTypeOK, WorkerOff, WorkerState, SvcIdle,
     ServiceState, ClaudeStates, TaskIds
<1>3. NothingGoesStale
  BY DEF LifecycleInit, NothingGoesStale, WorkerSound, ServiceSound, WorkerOff, SvcIdle
<1>4. RunsAtMostOnce /\ OnlyEndsAnnounced
  BY DEF LifecycleInit, RunsAtMostOnce, OnlyEndsAnnounced, WorkerOff
<1> QED  BY <1>1, <1>2, <1>3, <1>4 DEF LifecycleInv, LifecycleTypeOK

LEMMA StepsWell ==
    LifecycleInv /\ [LifecycleNext]_vars => LifecycleInv' /\ [QueueNext]_queueVars
<1> SUFFICES ASSUME LifecycleInv, [LifecycleNext]_vars
             PROVE  LifecycleInv' /\ [QueueNext]_queueVars
  OBVIOUS
<1>1. ASSUME NEW w \in Workers, WorkerStep(w)
      PROVE  LifecycleInv' /\ [QueueNext]_queueVars
  BY <1>1, WorkerKeeps
<1>2. ASSUME NEW s \in Services, SvcStep(s) \/ SvcStart(s)
      PROVE  LifecycleInv' /\ [QueueNext]_queueVars
  BY <1>2, ServiceKeeps
<1>3. CASE Environment
  BY <1>3, EnvironmentKeeps
<1>4. CASE UNCHANGED vars
  <2>1. ProcessTypeOK'
    BY <1>4 DEF LifecycleInv, LifecycleTypeOK, ProcessTypeOK, vars
  <2> QED
    BY <1>4, <2>1, NoProcessMoves DEF vars, ProcessTypeOK
<1> QED  BY <1>1, <1>2, <1>3, <1>4 DEF LifecycleNext

-----------------------------------------------------------------------------
(* Any interleaving of workers, services, crashes and lost notifications    *)
(* leaves every process with sound knowledge of its task and no task with   *)
(* two workers.                                                             *)
THEOREM LifecycleSafe == LifecycleSpec => []LifecycleInv
<1>1. LifecycleInit => LifecycleInv
  BY StartsWell
<1>2. LifecycleInv /\ [LifecycleNext]_vars => LifecycleInv'
  BY StepsWell
<1> QED  BY <1>1, <1>2, PTL DEF LifecycleSpec

(* What run_task, cancel_running_task, the reaper and the retry tool read   *)
(* of a task stays true until they have acted on it.                        *)
THEOREM KnowledgeSound == LifecycleSpec => []NothingGoesStale
<1>1. LifecycleInv => NothingGoesStale
  BY DEF LifecycleInv
<1> QED  BY <1>1, LifecycleSafe, PTL

(* A task is claimed by one worker and launched at most once.               *)
THEOREM ClaimedOnce == LifecycleSpec => []RunsAtMostOnce
<1>1. LifecycleInv => RunsAtMostOnce
  BY DEF LifecycleInv
<1> QED  BY <1>1, LifecycleSafe, PTL

(* No announcement says that a task still waits or runs.                    *)
THEOREM EndsAnnounced == LifecycleSpec => []OnlyEndsAnnounced
<1>1. LifecycleInv => OnlyEndsAnnounced
  BY DEF LifecycleInv
<1> QED  BY <1>1, LifecycleSafe, PTL

(* The statements of the processes, in whatever order they fall, are a      *)
(* history the table's contract allows.                                     *)
THEOREM LifecycleImplementsQueue == LifecycleSpec => ImplementsQueue
<1>1. LifecycleInit => QueueInit
  BY StartsWell
<1>2. LifecycleInv /\ [LifecycleNext]_vars => [QueueNext]_queueVars
  BY StepsWell
<1> QED
  BY <1>1, <1>2, LifecycleSafe, PTL DEF LifecycleSpec, ImplementsQueue, QueueSpec

(* Hence the guarantees of the queue hold of the whole system: one running  *)
(* row per project, no overtaking, a sound retry lineage, and no row that   *)
(* moves back.                                                              *)
THEOREM SystemKeepsTheQueue ==
    LifecycleSpec => [](OneRunningPerProject /\ NoOvertaking /\ RetryLineage) /\ LifeOfATask
  BY LifecycleImplementsQueue, OneRunning, StrictOrder, LineageSound, RowsOnlyMoveForward, PTL
     DEF ImplementsQueue

-----------------------------------------------------------------------------
(* What hangs on there being one service, or on no process being lost.      *)

OneService == \A r, s \in Services : r = s
NoFaults == MaxFaults = 0

\* Who is about to spawn a worker has found none, and nobody else has one.
SpawnFindsNone ==
    \A s \in Services :
        svc[s].pc = "spawn" =>
            \A w \in Workers : worker[w].pc # "off" => worker[w].project # svc[s].project

OffHasNoProject == \A w \in Workers : worker[w].pc = "off" => worker[w].project = None

\* A live claude has a worker that waits for it, or is about to.
LiveAtWork ==
    \A t \in TaskIds :
        claude[t] = "live" =>
            \E w \in Workers : worker[w].task = t /\ worker[w].pc \in {"setpid", "wait"}

\* A worker holds tasks of its own project.
TasksAtHome ==
    \A w \in Workers : worker[w].task # 0 => tasks[worker[w].task].project = worker[w].project

\* How a step of one process leaves the others.
LEMMA WorkerFrame ==
    ASSUME LifecycleInv, NEW w \in Workers, WorkerStep(w)
    PROVE  /\ UNCHANGED svc
           /\ \A v \in Workers \ {w} : worker'[v] = worker[v]
           /\ worker[w].pc # "off"
           /\ worker'[w].project = IF worker'[w].pc = "off" THEN None ELSE worker[w].project
<1>1. worker \in [Workers -> WorkerState] /\ worker[w] \in WorkerState
  BY DEF LifecycleInv, LifecycleTypeOK, ProcessTypeOK
<1>2. CASE WorkerClaim(w)
  BY <1>1, <1>2 DEF WorkerClaim, WorkerState
<1>3. CASE WorkerIdles(w) \/ WorkerExits(w)
  BY <1>1, <1>3 DEF WorkerIdles, WorkerExits, WorkerGoes, WorkerOff, WorkerState
<1>4. CASE WorkerPrepFails(w) \/ WorkerLaunch(w) \/ WorkerSetPid(w) \/ WorkerReaps(w) \/ WorkerTimesOut(w)
  BY <1>1, <1>4 DEF WorkerPrepFails, WorkerLaunch, WorkerSetPid, WorkerReaps, WorkerTimesOut,
     WorkerGoes, WorkerState
<1>5. CASE WorkerChecks(w) \/ WorkerMarks(w) \/ WorkerFinishes(w) \/ WorkerNotifies(w)
  BY <1>1, <1>5 DEF WorkerChecks, WorkerMarks, WorkerFinishes, WorkerNotifies, WorkerGoes,
     GoesToFinish, BackToPoll, WorkerState
<1> QED  BY <1>2, <1>3, <1>4, <1>5 DEF WorkerStep

LEMMA ServiceFrame ==
    ASSUME LifecycleInv, NEW s \in Services, SvcStep(s) \/ SvcStart(s)
    PROVE  /\ UNCHANGED worker \/ SpawnWorker(s)
           /\ \A r \in Services \ {s} : svc'[r] = svc[r]
           /\ svc'[s].pc = "spawn" =>
                ~Found(svc[s].project) /\ UNCHANGED worker /\ svc'[s].project = svc[s].project
           /\ \A t \in TaskIds : claude'[t] = "live" => claude[t] = "live"
<1>1. /\ svc \in [Services -> ServiceState] /\ svc[s] \in ServiceState
      /\ claude \in [TaskIds -> ClaudeStates]
      /\ svc[s].pc = "idle" => svc[s] = SvcIdle
  BY DEF LifecycleInv, LifecycleTypeOK, ProcessTypeOK, NothingGoesStale, ServiceSound
<1>2. CASE EnsureWorker(s) \/ SpawnWorker(s) \/ InsertTask(s)
  BY SMTT(20), <1>1, <1>2
     DEF EnsureWorker, SpawnWorker, InsertTask, SvcGoes, SvcDone, SvcIdle, ServiceState
<1>3. CASE CancelKills(s) \/ CancelMarks(s) \/ SvcReads(s)
  BY <1>1, <1>3 DEF CancelKills, CancelMarks, SvcReads, SvcGoes, Exits, ServiceState, ClaudeStates
<1>4. CASE SvcNotifies(s)
  <2>1. UNCHANGED <<worker, claude>>
    BY <1>4 DEF SvcNotifies
  <2>2. /\ [SvcIdle EXCEPT !.pc = "sweep", !.todo = svc[s].todo].pc = "sweep"
        /\ [SvcIdle EXCEPT !.pc = "drain", !.project = svc[s].project].pc = "drain"
        /\ SvcIdle.pc = "idle"
    BY DEF SvcIdle
  <2>3. PICK r \in {[SvcIdle EXCEPT !.pc = "sweep", !.todo = svc[s].todo],
                    [SvcIdle EXCEPT !.pc = "drain", !.project = svc[s].project], SvcIdle} :
           svc' = [svc EXCEPT ![s] = r]
    BY <1>4 DEF SvcNotifies, SvcDone
  <2>4. r.pc # "spawn"
    BY <2>2, <2>3
  <2> QED  BY <1>1, <2>1, <2>3, <2>4
<1>8. CASE DrainQueue(s)
  BY <1>1, <1>8 DEF DrainQueue, SvcDone, SvcIdle, ServiceState
<1>5. CASE SweepNext(s)
  <2>1. PICK q \in svc[s].todo :
           \/ svc' = [svc EXCEPT ![s] = IF svc[s].todo \ {q} = {} THEN SvcIdle
                                       ELSE [@ EXCEPT !.todo = svc[s].todo \ {q}]]
           \/ svc' = [svc EXCEPT ![s].pc = "reap", ![s].task = q[1], ![s].todo = svc[s].todo \ {q}]
    BY <1>5 DEF SweepNext
  <2>2. UNCHANGED <<worker, claude>> /\ svc[s].pc = "sweep"
    BY <1>5 DEF SweepNext
  <2>3. svc'[s].pc # "spawn"
    BY <1>1, <2>1, <2>2 DEF SvcIdle, ServiceState
  <2> QED  BY <1>1, <2>1, <2>2, <2>3
<1>9. CASE ReapGhost(s)
  BY <1>1, <1>9 DEF ReapGhost, SvcGoes, ServiceState
\* Those that start an operation.
<1>6. ASSUME UNCHANGED <<worker, claude>>, \A r \in Services \ {s} : svc'[r] = svc[r],
             svc'[s].pc # "spawn"
      PROVE  /\ UNCHANGED worker \/ SpawnWorker(s)
             /\ \A r \in Services \ {s} : svc'[r] = svc[r]
             /\ svc'[s].pc = "spawn" =>
                  ~Found(svc[s].project) /\ UNCHANGED worker /\ svc'[s].project = svc[s].project
             /\ \A t \in TaskIds : claude'[t] = "live" => claude[t] = "live"
  BY <1>6
<1>7. CASE StartEnqueue(s)
  BY <1>1, <1>6, <1>7 DEF StartEnqueue, ServiceState
<1>10. CASE StartRetry(s)
  BY <1>1, <1>6, <1>10 DEF StartRetry, ServiceState
<1>11. CASE RouteToAgent(s)
  BY <1>1, <1>6, <1>11 DEF RouteToAgent, SvcIdle
<1>12. CASE StartCancel(s)
  <2>1. \/ \E pc \in {"term", "cancel"}, p \in Projects, t \in Nat, b \in BOOLEAN :
             svc' = [svc EXCEPT ![s].pc = pc, ![s].project = p, ![s].task = t, ![s].drain = b]
        \/ \E p \in Projects : svc' = [svc EXCEPT ![s].pc = "drain", ![s].project = p]
    <3>1. \A p \in Projects : Running(p) \subseteq Nat
      BY RowColumns DEF Running, LifecycleInv, LifecycleTypeOK
    <3> QED  BY ZenonT(30), <1>12, <3>1 DEF StartCancel
  <2>2. UNCHANGED <<worker, claude>>
    BY <1>12 DEF StartCancel
  <2>3. ASSUME NEW pc \in {"term", "cancel"}, NEW p \in Projects, NEW t \in Nat, NEW b \in BOOLEAN,
               svc' = [svc EXCEPT ![s].pc = pc, ![s].project = p, ![s].task = t, ![s].drain = b]
        PROVE  svc'[s].pc # "spawn" /\ \A r \in Services \ {s} : svc'[r] = svc[r]
    <3>1. svc'[s].pc = pc
      BY <1>1, <2>3 DEF ServiceState
    <3> QED  BY <1>1, <2>3, <3>1
  <2>4. ASSUME NEW p \in Projects, svc' = [svc EXCEPT ![s].pc = "drain", ![s].project = p]
        PROVE  svc'[s].pc # "spawn" /\ \A r \in Services \ {s} : svc'[r] = svc[r]
    <3>1. svc'[s].pc = "drain"
      BY <1>1, <2>4 DEF ServiceState
    <3> QED  BY <1>1, <2>4, <3>1
  <2> QED  BY ZenonT(30), <1>6, <2>1, <2>2, <2>3, <2>4
<1>13. CASE StartSweep(s)
  BY <1>1, <1>6, <1>13 DEF StartSweep, ServiceState
<1> QED
  BY <1>2, <1>3, <1>4, <1>5, <1>7, <1>8, <1>9, <1>10, <1>11, <1>12, <1>13 DEF SvcStep, SvcStart

LEMMA WorkersStayApart ==
    ASSUME OneService, LifecycleInv, [LifecycleNext]_vars, OneWorkerPerProject, SpawnFindsNone,
           OffHasNoProject
    PROVE  OneWorkerPerProject' /\ SpawnFindsNone' /\ OffHasNoProject'
<1>1. /\ worker \in [Workers -> WorkerState] /\ svc \in [Services -> ServiceState]
      /\ \A w \in Workers : worker[w].pc # "off" => worker[w].project # None
  BY NoneAssumption DEF LifecycleInv, LifecycleTypeOK, ProcessTypeOK, NothingGoesStale, WorkerSound
\* No worker appears.
<1>2. ASSUME UNCHANGED svc \/ \E s \in Services : svc' = [svc EXCEPT ![s] = SvcIdle],
             NEW w \in Workers,
             \A v \in Workers \ {w} : worker'[v] = worker[v],
             worker[w].pc # "off",
             worker'[w].project = IF worker'[w].pc = "off" THEN None ELSE worker[w].project
      PROVE  OneWorkerPerProject' /\ SpawnFindsNone' /\ OffHasNoProject'
  <2>1. OneWorkerPerProject' /\ OffHasNoProject'
    BY <1>1, <1>2 DEF OneWorkerPerProject, OffHasNoProject
  <2>2. ASSUME NEW r \in Services, svc'[r].pc = "spawn"
        PROVE  svc'[r] = svc[r]
    BY <1>1, <1>2, <2>2 DEF SvcIdle
  <2>3. SpawnFindsNone'
    BY <1>2, <2>2 DEF SpawnFindsNone
  <2> QED  BY <2>1, <2>3
<1>3. ASSUME NEW w \in Workers, WorkerStep(w)
      PROVE  OneWorkerPerProject' /\ SpawnFindsNone' /\ OffHasNoProject'
  BY <1>2, <1>3, WorkerFrame
<1>4. ASSUME NEW s \in Services, SvcStep(s) \/ SvcStart(s)
      PROVE  OneWorkerPerProject' /\ SpawnFindsNone' /\ OffHasNoProject'
  <2>1. CASE SpawnWorker(s)
    <3>1. PICK w \in Workers :
             /\ worker[w].pc = "off"
             /\ worker' = [worker EXCEPT ![w].pc = "poll", ![w].project = svc[s].project]
      BY <2>1 DEF SpawnWorker
    <3>2. svc[s].pc = "spawn" /\ svc'[s].pc = "insert"
      BY <1>1, <2>1 DEF SpawnWorker, SvcGoes, ServiceState
    <3>3. \A v \in Workers : worker[v].pc # "off" => worker[v].project # svc[s].project
      BY <3>2 DEF SpawnFindsNone
    <3>4. /\ worker'[w].project = svc[s].project /\ worker'[w].pc = "poll"
          /\ svc[s].project # None
          /\ \A v \in Workers \ {w} : worker'[v] = worker[v]
      BY <1>1, <3>1, <3>2, NoneAssumption DEF WorkerState, LifecycleInv, NothingGoesStale,
         ServiceSound
    <3>5. OneWorkerPerProject' /\ OffHasNoProject'
      BY <3>3, <3>4 DEF OneWorkerPerProject, OffHasNoProject
    <3>6. SpawnFindsNone'
      BY <3>2 DEF SpawnFindsNone, OneService
    <3> QED  BY <3>5, <3>6
  <2>2. CASE UNCHANGED worker
    <3>1. OneWorkerPerProject' /\ OffHasNoProject'
      BY <2>2 DEF OneWorkerPerProject, OffHasNoProject
    <3>2. ASSUME svc'[s].pc = "spawn", NEW w \in Workers, worker[w].pc # "off"
          PROVE  worker[w].project # svc'[s].project
      <4>1. ~Found(svc[s].project) /\ svc'[s].project = svc[s].project
        BY <1>4, <3>2, ServiceFrame
      <4>2. worker[w].project \in Projects
        BY <3>2 DEF LifecycleInv, NothingGoesStale, WorkerSound
      <4> QED  BY <3>2, <4>1, <4>2, PathPrefixAssumption DEF Found
    <3>3. SpawnFindsNone'
      BY <2>2, <3>2 DEF SpawnFindsNone, OneService
    <3> QED  BY <3>1, <3>3
  <2> QED  BY <1>4, <2>1, <2>2, ServiceFrame
<1>5. CASE Environment
  <2>1. CASE \E t \in DOMAIN tasks : ClaudeExits(t) \/ Ages(t)
    BY <2>1 DEF ClaudeExits, Ages, OneWorkerPerProject, SpawnFindsNone, OffHasNoProject
  <2>2. ASSUME NEW w \in Workers, WorkerCrashes(w)
        PROVE  OneWorkerPerProject' /\ SpawnFindsNone' /\ OffHasNoProject'
    BY <1>1, <1>2, <2>2 DEF WorkerCrashes, WorkerOff
  <2>3. ASSUME NEW s \in Services, SvcAborts(s)
        PROVE  OneWorkerPerProject' /\ SpawnFindsNone' /\ OffHasNoProject'
    BY <1>1, <2>3 DEF SvcAborts, SvcDone, SvcIdle, OneWorkerPerProject, SpawnFindsNone, OffHasNoProject
  <2> QED  BY <1>5, <2>1, <2>2, <2>3 DEF Environment
<1>6. CASE UNCHANGED vars
  BY <1>6 DEF vars, OneWorkerPerProject, SpawnFindsNone, OffHasNoProject
<1> QED  BY <1>3, <1>4, <1>5, <1>6 DEF LifecycleNext

(* ensure_worker keeps its promise of one worker per project if only one    *)
(* service calls it, whatever crashes or is aborted meanwhile.              *)
THEOREM OneWorker ==
    ASSUME OneService
    PROVE  LifecycleSpec => []OneWorkerPerProject
<1>1. LifecycleInit => OneWorkerPerProject /\ SpawnFindsNone /\ OffHasNoProject
  BY DEF LifecycleInit, OneWorkerPerProject, SpawnFindsNone, OffHasNoProject, WorkerOff, SvcIdle
<1>2. LifecycleInv /\ [LifecycleNext]_vars /\ OneWorkerPerProject /\ SpawnFindsNone /\ OffHasNoProject
      => OneWorkerPerProject' /\ SpawnFindsNone' /\ OffHasNoProject'
  BY WorkersStayApart
<1> QED  BY <1>1, <1>2, LifecycleSafe, PTL DEF LifecycleSpec

\* Nobody but a worker that is at work has a live claude.
LEMMA LiveStaysAtWork ==
    ASSUME NoFaults, LifecycleInv, [LifecycleNext]_vars, LiveAtWork
    PROVE  LiveAtWork'
<1>1. /\ worker \in [Workers -> WorkerState]
      /\ claude \in [TaskIds -> ClaudeStates]
      /\ faults = 0
  BY DEF LifecycleInv, LifecycleTypeOK, ProcessTypeOK, NoFaults
<1>2. ASSUME NEW w \in Workers, WorkerStep(w)
      PROVE  LiveAtWork'
  <2>1. worker[w] \in WorkerState /\ \A v \in Workers \ {w} : worker'[v] = worker[v]
    BY <1>1, <1>2, WorkerFrame
  <2>2. ASSUME \A t \in TaskIds : claude'[t] = "live" =>
                  \/ claude[t] = "live" /\ t # worker[w].task
                  \/ worker'[w].task = t /\ worker'[w].pc \in {"setpid", "wait"}
        PROVE  LiveAtWork'
    BY <2>1, <2>2 DEF LiveAtWork
  \* Before the launch and after the wait.
  <2>3. ASSUME worker[w].pc \notin {"setpid", "wait"}, UNCHANGED claude
        PROVE  LiveAtWork'
    BY <2>1, <2>3 DEF LiveAtWork
  <2>4. CASE WorkerClaim(w) \/ WorkerIdles(w) \/ WorkerExits(w) \/ WorkerPrepFails(w)
    BY <2>3, <2>4 DEF WorkerClaim, WorkerIdles, WorkerExits, WorkerPrepFails
  <2>5. CASE WorkerChecks(w) \/ WorkerMarks(w) \/ WorkerFinishes(w) \/ WorkerNotifies(w)
    BY <2>3, <2>5 DEF WorkerChecks, WorkerMarks, WorkerFinishes, WorkerNotifies
  <2>6. CASE WorkerLaunch(w) \/ WorkerSetPid(w)
    BY <1>1, <2>1, <2>2, <2>6 DEF WorkerLaunch, WorkerSetPid, WorkerGoes, WorkerState
  <2>7. CASE WorkerReaps(w) \/ WorkerTimesOut(w)
    BY <1>1, <2>1, <2>2, <2>7 DEF WorkerReaps, WorkerTimesOut, WorkerState
  <2> QED  BY <1>2, <2>4, <2>5, <2>6, <2>7 DEF WorkerStep
<1>3. ASSUME NEW s \in Services, SvcStep(s) \/ SvcStart(s)
      PROVE  LiveAtWork'
  <2>1. ASSUME NEW v \in Workers, worker[v].pc \in {"setpid", "wait"}
        PROVE  worker'[v] = worker[v]
    <3>1. CASE SpawnWorker(s)
      BY <1>1, <2>1, <3>1 DEF SpawnWorker
    <3> QED  BY <1>3, <3>1, ServiceFrame
  <2>2. \A t \in TaskIds : claude'[t] = "live" => claude[t] = "live"
    BY <1>3, ServiceFrame
  <2> QED  BY <2>1, <2>2 DEF LiveAtWork
<1>4. CASE Environment
  <2>1. ~Fault
    BY <1>1 DEF Fault, NoFaults
  <2>2. PICK t \in DOMAIN tasks : ClaudeExits(t) \/ Ages(t)
    BY <1>4, <2>1 DEF Environment, WorkerCrashes, SvcAborts
  <2> QED
    BY <1>1, <2>2 DEF ClaudeExits, Ages, Exits, LiveAtWork
<1>5. CASE UNCHANGED vars
  BY <1>5 DEF vars, LiveAtWork
<1> QED  BY <1>2, <1>3, <1>4, <1>5 DEF LifecycleNext

\* A row keeps its project, and a worker the project it was spawned for.
LEMMA TasksStayAtHome ==
    ASSUME LifecycleInv, [LifecycleNext]_vars, TasksAtHome
    PROVE  TasksAtHome'
<1>1. /\ TypeOK
      /\ worker \in [Workers -> WorkerState]
      /\ \A v \in Workers : WorkerSound(worker[v])
      /\ \A v \in Workers : worker[v].task # 0 => worker[v].task \in DOMAIN tasks
  BY DEF LifecycleInv, LifecycleTypeOK, ProcessTypeOK, NothingGoesStale, WorkerSound, Started
<1>2. \A t \in DOMAIN tasks : t \in DOMAIN tasks' /\ tasks'[t].project = tasks[t].project
  <2>1. [QueueNext]_queueVars
    BY StepsWell
  <2>2. [RowsEvolve]_queueVars
    BY <1>1, <2>1, RowsMoveForward
  <2> QED  BY <2>2 DEF RowsEvolve, queueVars
<1>3. ASSUME NEW v \in Workers, worker'[v] = worker[v] \/ worker'[v].task = 0
      PROVE  worker'[v].task # 0 => tasks'[worker'[v].task].project = worker'[v].project
  BY <1>1, <1>2, <1>3 DEF TasksAtHome
<1>4. ASSUME NEW w \in Workers, WorkerStep(w)
      PROVE  TasksAtHome'
  <2>1. /\ \A v \in Workers \ {w} : worker'[v] = worker[v]
        /\ worker'[w].pc # "off" => worker'[w].project = worker[w].project
    BY <1>4, WorkerFrame
  <2>2. worker'[w].pc = "off" => worker'[w].task = 0
    <3>1. LifecycleInv'
      BY <1>4, WorkerKeeps
    <3> QED  BY <3>1 DEF LifecycleInv, NothingGoesStale, WorkerSound
  <2>3. CASE WorkerClaim(w)
    <3>1. PICK t \in DOMAIN tasks : /\ tasks[t].project = worker[w].project
                                    /\ worker'[w].task = t /\ worker'[w].project = worker[w].project
      BY <1>1, <2>3 DEF WorkerClaim, ClaimNext, Claimable, Pending, WorkerState
    <3> QED  BY <1>2, <1>3, <2>1, <3>1 DEF TasksAtHome
  <2>4. CASE worker'[w].task \in {0, worker[w].task}
    BY <1>1, <1>2, <1>3, <2>1, <2>2, <2>4 DEF TasksAtHome
  <2>5. ~WorkerClaim(w) => worker'[w].task \in {0, worker[w].task}
    <3>1. CASE WorkerIdles(w) \/ WorkerExits(w)
      BY <1>1, <3>1 DEF WorkerIdles, WorkerExits, WorkerGoes, WorkerOff, WorkerState
    <3>2. CASE WorkerPrepFails(w) \/ WorkerLaunch(w) \/ WorkerSetPid(w) \/ WorkerReaps(w)
               \/ WorkerTimesOut(w)
      BY <1>1, <3>2 DEF WorkerPrepFails, WorkerLaunch, WorkerSetPid, WorkerReaps, WorkerTimesOut,
         WorkerGoes, WorkerState
    <3>3. CASE WorkerChecks(w) \/ WorkerMarks(w) \/ WorkerFinishes(w) \/ WorkerNotifies(w)
      BY <1>1, <3>3 DEF WorkerChecks, WorkerMarks, WorkerFinishes, WorkerNotifies, WorkerGoes,
         GoesToFinish, BackToPoll, WorkerState
    <3> QED  BY <1>4, <3>1, <3>2, <3>3 DEF WorkerStep
  <2> QED  BY <2>3, <2>4, <2>5
<1>5. ASSUME NEW s \in Services, SvcStep(s) \/ SvcStart(s)
      PROVE  TasksAtHome'
  <2>1. CASE SpawnWorker(s)
    BY <1>1, <1>3, <2>1 DEF SpawnWorker, WorkerSound, TasksAtHome, WorkerState
  <2> QED  BY <1>3, <1>5, <2>1, ServiceFrame DEF TasksAtHome
<1>6. CASE Environment
  BY <1>1, <1>3, <1>6 DEF Environment, ClaudeExits, Ages, WorkerCrashes, SvcAborts, WorkerOff,
     TasksAtHome
<1>7. CASE UNCHANGED vars
  BY <1>3, <1>7 DEF vars, TasksAtHome
<1> QED  BY <1>4, <1>5, <1>6, <1>7 DEF LifecycleNext

(* With one service, and as long as no worker is lost and no operation      *)
(* aborted, a project has one claude at a time: the promise on which        *)
(* claim_next relies when a row has left 'running' before its claude.       *)
THEOREM OneClaude ==
    ASSUME OneService, NoFaults
    PROVE  LifecycleSpec => []OneClaudePerProject
<1>1. LifecycleInit => LiveAtWork /\ TasksAtHome
  BY DEF LifecycleInit, LiveAtWork, TasksAtHome, WorkerOff
<1>2. LifecycleInv /\ [LifecycleNext]_vars /\ LiveAtWork /\ TasksAtHome => LiveAtWork' /\ TasksAtHome'
  BY LiveStaysAtWork, TasksStayAtHome
<1>3. LifecycleInv /\ OneWorkerPerProject /\ LiveAtWork /\ TasksAtHome => OneClaudePerProject
  <2> SUFFICES ASSUME LifecycleInv, OneWorkerPerProject, LiveAtWork, TasksAtHome,
                      NEW t \in DOMAIN tasks, NEW u \in DOMAIN tasks,
                      claude[t] = "live", claude[u] = "live", tasks[t].project = tasks[u].project
               PROVE  t = u
    BY DEF OneClaudePerProject
  <2>1. DOMAIN tasks \subseteq TaskIds /\ 0 \notin DOMAIN tasks
    BY RowColumns, MaxTasksAssumption DEF LifecycleInv, LifecycleTypeOK, TaskIds
  <2>2. PICK v \in Workers : worker[v].task = t /\ worker[v].pc \in {"setpid", "wait"}
    BY <2>1 DEF LiveAtWork
  <2>3. PICK w \in Workers : worker[w].task = u /\ worker[w].pc \in {"setpid", "wait"}
    BY <2>1 DEF LiveAtWork
  <2>4. worker[v].project = worker[w].project
    BY <2>1, <2>2, <2>3 DEF TasksAtHome
  <2> QED  BY <2>2, <2>3, <2>4 DEF OneWorkerPerProject
<1> QED  BY <1>1, <1>2, <1>3, LifecycleSafe, OneWorker, PTL DEF LifecycleSpec

\* A row with a start time was claimed.
ClaimsRemembered == \A t \in TaskIds : startedAt[t] # "null" => t \in Started

\* A step ends a claimed row only with somebody left to say so, drops what it owes
\* only by saying it, and gives a start time to a claimed row only.
StepTells ==
    /\ \A t \in DOMAIN tasks' :
          tasks'[t].status \in Terminal =>
              \/ Owed(t)' \/ startedAt'[t] = "null"
              \/ t \in DOMAIN tasks /\ tasks[t].status \in Terminal
    /\ \A t \in TaskIds : Owed(t) => Owed(t)' \/ notes'[t] # "none"
    /\ \A t \in TaskIds : notes'[t] = "none" => notes[t] = "none"
    /\ \A t \in TaskIds :
          startedAt'[t] # "null" =>
              startedAt[t] # "null" \/ (t \in DOMAIN tasks' /\ tasks'[t].status = "running")

LEMMA SilenceIsKept ==
    ASSUME LifecycleInv, LifecycleInv', Onward, NoSilentEnd, ClaimsRemembered, StepTells
    PROVE  NoSilentEnd' /\ ClaimsRemembered'
<1>1. DOMAIN tasks' \subseteq TaskIds
  <2>1. TypeOK' /\ Len(tasks)' <= MaxTasks
    BY DEF LifecycleInv, LifecycleTypeOK
  <2>2. tasks' \in Seq(Row)
    BY <2>1 DEF TypeOK
  <2> QED  BY <2>1, <2>2, LenProperties, MaxTasksAssumption DEF TaskIds
<1>2. ClaimsRemembered'
  <2>1. TaskIds' = TaskIds
    BY DEF TaskIds
  <2> QED  BY <2>1 DEF StepTells, ClaimsRemembered, Started, Onward
<1>3. ASSUME NEW t \in DOMAIN tasks', tasks'[t].status \in Terminal,
             startedAt'[t] # "null", notes'[t] = "none"
      PROVE  Owed(t)'
  <2>1. tasks'[t].status # "running"
    BY <1>3 DEF Terminal
  <2>2. startedAt[t] # "null" /\ notes[t] = "none"
    BY <1>1, <1>3, <2>1 DEF StepTells
  <2>3. Owed(t)' \/ (t \in DOMAIN tasks /\ tasks[t].status \in Terminal)
    BY <1>3 DEF StepTells
  <2>4. t \in DOMAIN tasks /\ tasks[t].status \in Terminal => Owed(t)
    BY <2>2 DEF NoSilentEnd
  <2> QED  BY <1>1, <1>3, <2>3, <2>4 DEF StepTells
<1> QED  BY <1>2, <1>3 DEF NoSilentEnd

LEMMA WorkerTells ==
    ASSUME NoFaults, LifecycleInv, NEW w \in Workers, WorkerStep(w)
    PROVE  StepTells
<1>1. /\ TypeOK
      /\ worker \in [Workers -> WorkerState] /\ worker[w] \in WorkerState
      /\ WorkerSound(worker[w])
      /\ notes \in [TaskIds -> {"none"} \cup Status]
      /\ startedAt \in [TaskIds -> {"null", "fresh", "stale"}]
      /\ faults = 0
  BY DEF LifecycleInv, LifecycleTypeOK, ProcessTypeOK, NothingGoesStale, NoFaults
<1>2. UNCHANGED svc /\ \A v \in Workers \ {w} : worker'[v] = worker[v]
  BY WorkerFrame
\* The table stays as it is.
<1>3. ASSUME UNCHANGED <<tasks, startedAt, notes>>,
             worker[w].pc \notin {"finish", "notify"} \/
             (worker'[w].task = worker[w].task /\ worker'[w].pc \in {"finish", "notify"})
      PROVE  StepTells
  BY <1>2, <1>3 DEF StepTells, Owed
\* The worker marks its task and goes to _finish.
<1>4. ASSUME NEW st \in Terminal, SetStatus(worker[w].task, st), UNCHANGED <<startedAt, notes>>,
             worker[w].pc \in {"prep", "mark"},
             worker'[w].task = worker[w].task, worker'[w].pc = "finish"
      PROVE  StepTells
  <2>1. worker[w].task \in DOMAIN tasks
    BY <1>1, <1>4 DEF WorkerSound, Started
  <2>2. DOMAIN tasks' = DOMAIN tasks /\ \A u \in DOMAIN tasks \ {worker[w].task} :
                                            tasks'[u].status = tasks[u].status
    BY <1>1, <1>4, <2>1, SetStatusEffect DEF Status
  <2>3. Owed(worker[w].task)'
    BY <1>4 DEF Owed
  <2>4. \A t \in TaskIds : Owed(t) => Owed(t)'
    BY <1>2, <1>4, <2>3 DEF Owed
  <2> QED  BY <1>4, <2>2, <2>3, <2>4 DEF StepTells
<1>5. CASE WorkerClaim(w)
  <2>1. PICK t \in DOMAIN tasks : /\ worker[w].pc = "poll"
                                  /\ SetStatus(t, "running")
                                  /\ startedAt' = [startedAt EXCEPT ![t] = "fresh"]
                                  /\ UNCHANGED notes
    BY <1>5 DEF WorkerClaim, ClaimNext
  <2>2. /\ DOMAIN tasks' = DOMAIN tasks /\ tasks'[t].status = "running"
        /\ \A u \in DOMAIN tasks \ {t} : tasks'[u].status = tasks[u].status
    BY <1>1, <2>1, SetStatusEffect DEF Status
  <2>3. \A u \in TaskIds : Owed(u) => Owed(u)'
    BY <1>2, <2>1 DEF Owed
  <2>4. \A u \in TaskIds : startedAt'[u] # "null" => startedAt[u] # "null" \/ u = t
    BY <1>1, <2>1
  <2> QED  BY <2>1, <2>2, <2>3, <2>4 DEF StepTells, Terminal
<1>6. CASE WorkerIdles(w) \/ WorkerExits(w)
  BY <1>3, <1>6 DEF WorkerIdles, WorkerExits
<1>7. CASE WorkerPrepFails(w)
  BY <1>1, <1>4, <1>7 DEF WorkerPrepFails, WorkerGoes, MarkFailed, WorkerState, Terminal
<1>8. CASE WorkerLaunch(w) \/ WorkerReaps(w) \/ WorkerTimesOut(w)
  BY <1>3, <1>8 DEF WorkerLaunch, WorkerReaps, WorkerTimesOut
<1>9. CASE WorkerSetPid(w)
  <2>1. worker[w].pc = "setpid" /\ SetPid(worker[w].task) /\ UNCHANGED <<startedAt, notes>>
    BY <1>9 DEF WorkerSetPid
  <2>2. worker[w].task \in DOMAIN tasks
    BY <1>1, <2>1 DEF WorkerSound, Started
  <2>3. DOMAIN tasks' = DOMAIN tasks /\ \A u \in DOMAIN tasks : tasks'[u].status = tasks[u].status
    BY <1>1, <2>1, <2>2, SetPidEffect
  <2>4. \A t \in TaskIds : Owed(t) => Owed(t)'
    BY <1>2, <2>1 DEF Owed
  <2> QED  BY <2>1, <2>3, <2>4 DEF StepTells
<1>10. CASE WorkerChecks(w)
  BY <1>3, <1>10 DEF WorkerChecks
<1>11. CASE WorkerMarks(w)
  BY <1>1, <1>4, <1>11 DEF WorkerMarks, GoesToFinish, MarkDone, MarkFailed, WorkerState, Terminal
<1>12. CASE WorkerFinishes(w)
  BY <1>1, <1>3, <1>12 DEF WorkerFinishes, WorkerState
<1>13. CASE WorkerNotifies(w)
  <2>1. /\ worker[w].seen \in Terminal /\ UNCHANGED <<tasks, startedAt>>
        /\ notes' = [notes EXCEPT ![worker[w].task] = worker[w].seen]
    BY <1>1, <1>13 DEF WorkerNotifies, WorkerSound, Announce, Fault, NoFaults
  <2>2. \A t \in TaskIds : t = worker[w].task \/ notes'[t] = notes[t]
    BY <1>1, <2>1
  <2>3. worker[w].task \in TaskIds => notes'[worker[w].task] # "none"
    BY <1>1, <2>1 DEF Terminal
  <2>4. \A t \in TaskIds : Owed(t) => Owed(t)' \/ notes'[t] # "none"
    BY <1>2, <2>3 DEF Owed
  <2> QED  BY <2>1, <2>2, <2>3, <2>4 DEF StepTells
<1> QED
  BY <1>5, <1>6, <1>7, <1>8, <1>9, <1>10, <1>11, <1>12, <1>13 DEF WorkerStep

LEMMA ServiceTells ==
    ASSUME NoFaults, LifecycleInv, ClaimsRemembered, NEW s \in Services, SvcStep(s) \/ SvcStart(s)
    PROVE  StepTells
<1>1. /\ TypeOK
      /\ svc \in [Services -> ServiceState] /\ svc[s] \in ServiceState
      /\ ServiceSound(svc[s])
      /\ notes \in [TaskIds -> {"none"} \cup Status]
      /\ startedAt \in [TaskIds -> {"null", "fresh", "stale"}]
      /\ faults = 0
  BY DEF LifecycleInv, LifecycleTypeOK, ProcessTypeOK, NothingGoesStale, NoFaults
<1>2. /\ \A r \in Services \ {s} : svc'[r] = svc[r]
      /\ \A v \in Workers : worker[v].pc \in {"finish", "notify"} => worker'[v] = worker[v]
  <2>1. CASE SpawnWorker(s)
    <3>1. worker \in [Workers -> WorkerState]
      BY DEF LifecycleInv, LifecycleTypeOK, ProcessTypeOK
    <3> QED  BY <2>1, <3>1, ServiceFrame DEF SpawnWorker
  <2> QED  BY <2>1, ServiceFrame
\* The rows end nowhere.
<1>3. ASSUME \A t \in DOMAIN tasks' : tasks'[t].status \in Terminal =>
                 t \in DOMAIN tasks /\ tasks[t].status \in Terminal,
             UNCHANGED <<startedAt, notes>>,
             svc[s].pc \notin {"read", "notify"} \/
             (svc'[s].task = svc[s].task /\ svc'[s].pc \in {"read", "notify"})
      PROVE  StepTells
  <2>1. \A t \in TaskIds : Owed(t) => Owed(t)'
    BY <1>2, <1>3 DEF Owed
  <2> QED  BY <1>3, <2>1 DEF StepTells
\* CancelMarks and ReapGhost.
<1>4. ASSUME NEW st \in Terminal, SetStatus(svc[s].task, st), UNCHANGED <<startedAt, notes>>,
             svc[s].pc \in {"cancel", "reap"}, svc' = [svc EXCEPT ![s].pc = "read"]
      PROVE  StepTells
  <2>1. svc[s].task \in DOMAIN tasks
    BY <1>1, <1>4 DEF ServiceSound, Started
  <2>2. DOMAIN tasks' = DOMAIN tasks /\ \A u \in DOMAIN tasks \ {svc[s].task} :
                                            tasks'[u].status = tasks[u].status
    BY <1>1, <1>4, <2>1, SetStatusEffect DEF Status
  <2>3. Owed(svc[s].task)'
    BY <1>1, <1>4 DEF Owed, ServiceState
  <2>4. \A t \in TaskIds : Owed(t) => Owed(t)'
    BY <1>2, <1>4, <2>3 DEF Owed
  <2> QED  BY <1>4, <2>2, <2>3, <2>4 DEF StepTells
<1>5. CASE EnsureWorker(s) \/ SpawnWorker(s)
  BY <1>3, <1>5 DEF EnsureWorker, SpawnWorker
<1>6. ASSUME NEW p \in Projects, NEW prio \in Nat, NEW st \in Status \ Terminal, NEW r \in Nat,
             Insert(p, prio, st, r)
      PROVE  \A t \in DOMAIN tasks' : tasks'[t].status \in Terminal =>
                 t \in DOMAIN tasks /\ tasks[t].status \in Terminal
  <2> DEFINE row == [project |-> p, status |-> st, priority |-> prio, pid |-> FALSE, retry_of |-> r]
  <2>1. tasks \in Seq(Row) /\ DOMAIN tasks = 1 .. Len(tasks) /\ Len(tasks) \in Nat
    BY <1>1, RowColumns DEF TypeOK
  <2>2. tasks' = Append(tasks, row)
    BY <1>6 DEF Insert
  <2>3. \A t \in DOMAIN tasks' : (t \in DOMAIN tasks /\ tasks'[t] = tasks[t]) \/ tasks'[t] = row
    BY <2>1, <2>2
  <2> QED  BY <2>3
<1>7. CASE InsertTask(s)
  <2>1. /\ svc[s].pc = "insert" /\ UNCHANGED <<startedAt, notes>>
        /\ Insert(svc[s].project, Clamp(svc[s].prio), "pending", svc[s].retry)
    BY <1>7 DEF InsertTask, Enqueue
  <2>2. Clamp(svc[s].prio) \in Nat
    BY <1>1, MaxPriorityAssumption DEF Clamp, ServiceState
  <2>3. svc[s].project \in Projects /\ svc[s].retry \in Nat
    BY <1>1, <2>1, MaxTasksAssumption DEF ServiceSound, ServiceState, TaskIds
  <2> QED  BY <1>3, <1>6, <2>1, <2>2, <2>3 DEF Status, Terminal
<1>8. CASE RouteToAgent(s)
  <2>1. PICK p \in Projects : Insert(p, 0, "routed_via_agent", 0)
    BY <1>8 DEF RouteToAgent, EnqueueRouted
  <2>2. svc[s].pc = "idle" /\ UNCHANGED <<startedAt, notes>>
    BY <1>8 DEF RouteToAgent
  <2> QED  BY <1>3, <1>6, <2>1, <2>2 DEF Status, Terminal
<1>9. CASE CancelKills(s)
  BY <1>3, <1>9 DEF CancelKills
<1>10. CASE CancelMarks(s) \/ ReapGhost(s)
  BY <1>4, <1>10 DEF CancelMarks, ReapGhost, Cancel, MarkFailed, SvcGoes, Terminal
<1>11. CASE SvcReads(s)
  BY <1>1, <1>3, <1>11 DEF SvcReads, ServiceState
<1>12. CASE SvcNotifies(s)
  <2>1. /\ svc[s].seen \in Terminal /\ UNCHANGED <<tasks, startedAt>>
        /\ notes' = [notes EXCEPT ![svc[s].task] = svc[s].seen]
    BY <1>1, <1>12 DEF SvcNotifies, ServiceSound, Announce, Fault, NoFaults
  <2>2. \A t \in TaskIds : t = svc[s].task \/ notes'[t] = notes[t]
    BY <1>1, <2>1
  <2>3. svc[s].task \in TaskIds => notes'[svc[s].task] # "none"
    BY <1>1, <2>1 DEF Terminal
  <2>4. \A t \in TaskIds : Owed(t) => Owed(t)' \/ notes'[t] # "none"
    BY <1>2, <2>3 DEF Owed
  <2> QED  BY <2>1, <2>2, <2>3, <2>4 DEF StepTells
\* What is drained was never claimed.
<1>13. CASE DrainQueue(s)
  <2>1. /\ svc[s].pc = "drain" /\ svc[s].project \in Projects /\ UNCHANGED <<startedAt, notes>>
        /\ DrainPending(svc[s].project)
    BY <1>1, <1>13 DEF DrainQueue, ServiceSound
  <2>2. /\ DOMAIN tasks' = DOMAIN tasks
        /\ \A u \in DOMAIN tasks : u \in Pending(svc[s].project) \/ tasks'[u].status = tasks[u].status
    BY <1>1, <2>1, DrainEffect
  <2>3. \A u \in Pending(svc[s].project) : u \in TaskIds /\ u \notin Started
    BY RowColumns, MaxTasksAssumption DEF Pending, Started, Terminal, TaskIds, LifecycleInv,
       LifecycleTypeOK
  <2>4. \A u \in Pending(svc[s].project) : startedAt'[u] = "null"
    BY <2>1, <2>3 DEF ClaimsRemembered
  <2>5. \A t \in TaskIds : Owed(t) => Owed(t)'
    BY <1>2, <2>1 DEF Owed
  <2> QED  BY <2>1, <2>2, <2>4, <2>5 DEF StepTells
<1>14. CASE SweepNext(s)
  BY <1>3, <1>14 DEF SweepNext
<1>15. CASE StartEnqueue(s) \/ StartRetry(s) \/ StartCancel(s) \/ StartSweep(s)
  BY <1>3, <1>15 DEF StartEnqueue, StartRetry, StartCancel, StartSweep
<1> QED
  BY <1>5, <1>7, <1>8, <1>9, <1>10, <1>11, <1>12, <1>13, <1>14, <1>15 DEF SvcStep, SvcStart

(* As long as no process is lost and no notification fails, the end of      *)
(* every claimed task is announced, whoever brings it about: the worker,    *)
(* a canceller, or the reaper while the worker is still preparing           *)
(* (task_notifier.py:3-5).                                                  *)
THEOREM EndsAreTold ==
    ASSUME NoFaults
    PROVE  LifecycleSpec => []NoSilentEnd
<1>1. LifecycleInit => NoSilentEnd /\ ClaimsRemembered
  BY EmptySeq DEF LifecycleInit, QueueInit, NoSilentEnd, ClaimsRemembered
<1>2. LifecycleInv /\ [LifecycleNext]_vars /\ NoSilentEnd /\ ClaimsRemembered
      => NoSilentEnd' /\ ClaimsRemembered'
  <2> SUFFICES ASSUME LifecycleInv, [LifecycleNext]_vars, NoSilentEnd, ClaimsRemembered
               PROVE  NoSilentEnd' /\ ClaimsRemembered'
    OBVIOUS
  <2>1. LifecycleInv' /\ [QueueNext]_queueVars
    BY StepsWell
  <2>2. Onward
    BY <2>1, StatementsGoOnward DEF LifecycleInv, LifecycleTypeOK
  <2>3. CASE Environment
    <3>1. faults = 0 /\ startedAt \in [TaskIds -> {"null", "fresh", "stale"}]
      BY DEF LifecycleInv, LifecycleTypeOK, ProcessTypeOK, NoFaults
    <3>2. PICK t \in DOMAIN tasks : ClaudeExits(t) \/ Ages(t)
      BY <2>3, <3>1 DEF Environment, WorkerCrashes, SvcAborts, Fault, NoFaults
    <3>3. UNCHANGED <<tasks, worker, svc, notes>>
      BY <3>2 DEF ClaudeExits, Ages
    <3>4. \A u \in TaskIds : startedAt'[u] # "null" => startedAt[u] # "null"
      BY <3>1, <3>2 DEF ClaudeExits, Ages
    <3>5. StepTells
      BY <3>3, <3>4 DEF StepTells, Owed
    <3> QED  BY <2>1, <2>2, <3>5, SilenceIsKept
  <2>4. CASE UNCHANGED vars
    <3>1. StepTells
      BY <2>4 DEF vars, StepTells, Owed
    <3> QED  BY <2>1, <2>2, <3>1, SilenceIsKept
  <2>5. CASE \E w \in Workers : WorkerStep(w)
    BY <2>1, <2>2, <2>5, WorkerTells, SilenceIsKept
  <2>6. CASE \E s \in Services : SvcStep(s) \/ SvcStart(s)
    BY <2>1, <2>2, <2>6, ServiceTells, SilenceIsKept
  <2> QED  BY <2>3, <2>4, <2>5, <2>6 DEF LifecycleNext
<1> QED  BY <1>1, <1>2, LifecycleSafe, PTL DEF LifecycleSpec

-----------------------------------------------------------------------------
(* The reaper looks at a row, at a process and at a row again, at three      *)
(* different times.  What it saw stays evidence: a pid is of a claude that   *)
(* was launched, and a row that is past its grace without one has lost the   *)
(* worker that could still launch it.                                        *)

StaleIsOrphan == \A t \in TaskIds : startedAt[t] = "stale" => t \in Started /\ ~Launcher(t)

PidIsLaunched == \A t \in DOMAIN tasks : tasks[t].pid => claude[t] # "none"

SetPidAfterLaunch ==
    \A w \in Workers : worker[w].pc = "setpid" => claude[worker[w].task] # "none"

SweepSound ==
    \A s \in Services : \A q \in svc[s].todo :
        IF q[2] THEN claude[q[1]] # "none" ELSE startedAt[q[1]] = "stale"

ReapSound ==
    \A s \in Services :
        svc[s].pc = "reap" => claude[svc[s].task] = "gone" \/ startedAt[svc[s].task] = "stale"

GhostInv == StaleIsOrphan /\ PidIsLaunched /\ SetPidAfterLaunch /\ SweepSound /\ ReapSound

\* A launch and an exit are for good, a row goes stale without a worker, a pid is
\* written by the worker that launched, and a sweep looks into what it has read.
StepLeavesEvidence ==
    /\ \A t \in TaskIds :
          /\ claude[t] # "none" => claude'[t] # "none"
          /\ claude[t] = "gone" => claude'[t] = "gone"
          /\ startedAt[t] = "stale" => startedAt'[t] = "stale"
          /\ startedAt'[t] = "stale" =>
                startedAt[t] = "stale" \/ (t \in Started /\ ~Launcher(t) /\ UNCHANGED worker)
    /\ \A t \in DOMAIN tasks' :
          tasks'[t].pid =>
             \/ t \in DOMAIN tasks /\ tasks[t].pid
             \/ \E w \in Workers : worker[w].pc = "setpid" /\ worker[w].task = t
    /\ \A w \in Workers :
          /\ worker'[w].task \in {0, worker[w].task} \/ worker'[w].task \notin Started
          /\ worker'[w].pc = "setpid" =>
                worker'[w] = worker[w] \/ claude'[worker'[w].task] # "none"
    /\ \A s \in Services :
          /\ svc'[s].todo \subseteq svc[s].todo \cup Suspects
          /\ svc'[s].pc = "reap" =>
                \/ svc[s].pc = "reap" /\ svc'[s].task = svc[s].task
                \/ \E q \in svc[s].todo : svc'[s].task = q[1] /\ ~(q[2] /\ IsAlive(q[1]))

LEMMA EvidenceIsKept ==
    ASSUME LifecycleInv, LifecycleInv', Onward, GhostInv, StepLeavesEvidence
    PROVE  GhostInv'
<1>1. /\ DOMAIN tasks \subseteq TaskIds /\ Started \subseteq TaskIds /\ TaskIds' = TaskIds
      /\ 0 \notin TaskIds
      /\ claude \in [TaskIds -> ClaudeStates]
      /\ worker \in [Workers -> WorkerState]
  BY RowColumns, MaxTasksAssumption DEF LifecycleInv, LifecycleTypeOK, ProcessTypeOK, TaskIds, Started
<1>2. DOMAIN tasks' \subseteq TaskIds
  <2>1. TypeOK' /\ Len(tasks)' <= MaxTasks
    BY DEF LifecycleInv, LifecycleTypeOK
  <2>2. tasks' \in Seq(Row)
    BY <2>1 DEF TypeOK
  <2> QED  BY <2>1, <2>2, LenProperties, MaxTasksAssumption DEF TaskIds
<1>3. StaleIsOrphan'
  <2> SUFFICES ASSUME NEW t \in TaskIds, startedAt'[t] = "stale"
               PROVE  t \in Started' /\ \A w \in Workers : worker'[w].task # t
    BY <1>1 DEF StaleIsOrphan, Launcher
  <2>1. t \in Started /\ \A w \in Workers : worker[w].task # t
    BY DEF GhostInv, StaleIsOrphan, StepLeavesEvidence, Launcher
  <2> QED  BY <1>1, <2>1 DEF Onward, StepLeavesEvidence
<1>4. PidIsLaunched'
  <2> SUFFICES ASSUME NEW t \in DOMAIN tasks', tasks'[t].pid
               PROVE  claude'[t] # "none"
    BY DEF PidIsLaunched
  <2>1. claude[t] # "none"
    BY DEF GhostInv, PidIsLaunched, SetPidAfterLaunch, StepLeavesEvidence
  <2> QED  BY <1>2, <2>1 DEF StepLeavesEvidence
<1>5. SetPidAfterLaunch'
  <2> SUFFICES ASSUME NEW w \in Workers, worker'[w].pc = "setpid"
               PROVE  claude'[worker'[w].task] # "none"
    BY DEF SetPidAfterLaunch
  <2>1. CASE worker'[w] = worker[w]
    <3>1. worker[w].task \in TaskIds /\ claude[worker[w].task] # "none"
      BY <1>1, <2>1 DEF GhostInv, SetPidAfterLaunch, LifecycleInv, NothingGoesStale, WorkerSound
    <3> QED  BY <2>1, <3>1 DEF StepLeavesEvidence
  <2> QED  BY <2>1 DEF StepLeavesEvidence
<1>6. SweepSound'
  <2> SUFFICES ASSUME NEW s \in Services, NEW q \in svc'[s].todo
               PROVE  IF q[2] THEN claude'[q[1]] # "none" ELSE startedAt'[q[1]] = "stale"
    BY DEF SweepSound
  <2>1. CASE q \in svc[s].todo
    <3>1. q[1] \in TaskIds
      BY <1>1, <2>1 DEF LifecycleInv, NothingGoesStale, ServiceSound
    <3> QED  BY <2>1, <3>1 DEF GhostInv, SweepSound, StepLeavesEvidence
  <2>2. CASE q \in Suspects
    <3>1. PICK t \in DOMAIN tasks : /\ q = <<t, tasks[t].pid>>
                                    /\ tasks[t].pid \/ startedAt[t] = "stale"
      BY <2>2 DEF Suspects
    <3>2. t \in TaskIds
      BY <1>1
    <3> QED  BY <3>1, <3>2 DEF GhostInv, PidIsLaunched, StepLeavesEvidence
  <2> QED  BY <2>1, <2>2 DEF StepLeavesEvidence
<1>7. ReapSound'
  <2> SUFFICES ASSUME NEW s \in Services, svc'[s].pc = "reap"
               PROVE  claude'[svc'[s].task] = "gone" \/ startedAt'[svc'[s].task] = "stale"
    BY DEF ReapSound
  <2>1. CASE svc[s].pc = "reap" /\ svc'[s].task = svc[s].task
    <3>1. svc[s].task \in TaskIds
      BY <1>1, <2>1 DEF LifecycleInv, NothingGoesStale, ServiceSound
    <3> QED  BY <2>1, <3>1 DEF GhostInv, ReapSound, StepLeavesEvidence
  <2>2. ASSUME NEW q \in svc[s].todo, svc'[s].task = q[1], ~(q[2] /\ IsAlive(q[1]))
        PROVE  claude'[svc'[s].task] = "gone" \/ startedAt'[svc'[s].task] = "stale"
    <3>1. q[1] \in TaskIds
      BY <1>1 DEF LifecycleInv, NothingGoesStale, ServiceSound
    <3>2. claude[q[1]] = "gone" \/ startedAt[q[1]] = "stale"
      BY <1>1, <2>2, <3>1 DEF GhostInv, SweepSound, IsAlive, ClaudeStates
    <3> QED  BY <2>2, <3>1, <3>2 DEF StepLeavesEvidence
  <2> QED  BY <2>1, <2>2 DEF StepLeavesEvidence
<1> QED  BY <1>3, <1>4, <1>5, <1>6, <1>7 DEF GhostInv

LEMMA StatusKeepsPid ==
    ASSUME TypeOK, NEW t, NEW s, SetStatus(t, s)
    PROVE  DOMAIN tasks' = DOMAIN tasks /\ \A u \in DOMAIN tasks : tasks'[u].pid = tasks[u].pid
<1>1. \A u \in DOMAIN tasks : tasks[u] \in Row
  BY ElementOfSeq, LenProperties DEF TypeOK
<1> QED  BY <1>1 DEF SetStatus, Row

LEMMA WorkerLeavesEvidence ==
    ASSUME LifecycleInv, GhostInv, NEW w \in Workers, WorkerStep(w)
    PROVE  StepLeavesEvidence
<1>1. /\ TypeOK
      /\ worker \in [Workers -> WorkerState] /\ worker[w] \in WorkerState
      /\ claude \in [TaskIds -> ClaudeStates]
      /\ startedAt \in [TaskIds -> {"null", "fresh", "stale"}]
      /\ WorkerSound(worker[w])
      /\ worker[w].pc = "prep" => claude[worker[w].task] = "none"
  BY DEF LifecycleInv, LifecycleTypeOK, ProcessTypeOK, NothingGoesStale, RunsAtMostOnce, WorkerSound
<1>2. UNCHANGED svc /\ \A v \in Workers \ {w} : worker'[v] = worker[v]
  BY WorkerFrame
<1>3. worker[w].pc \notin {"off", "poll", "exiting"} =>
         worker[w].task \in DOMAIN tasks /\ worker[w].task \in TaskIds
  BY <1>1 DEF WorkerSound, Started, WorkerState
\* What is left to show of each step.
<1>4. ASSUME \A t \in TaskIds :
                /\ claude[t] # "none" => claude'[t] # "none"
                /\ claude[t] = "gone" => claude'[t] = "gone",
             \A t \in TaskIds : startedAt'[t] = "stale" <=> startedAt[t] = "stale",
             \A t \in DOMAIN tasks' :
                tasks'[t].pid =>
                   \/ t \in DOMAIN tasks /\ tasks[t].pid
                   \/ worker[w].pc = "setpid" /\ worker[w].task = t,
             worker'[w].task \in {0, worker[w].task} \/ worker'[w].task \notin Started,
             worker'[w].pc = "setpid" => claude'[worker'[w].task] # "none"
      PROVE  StepLeavesEvidence
  <2>1. \A v \in Workers :
          /\ worker'[v].task \in {0, worker[v].task} \/ worker'[v].task \notin Started
          /\ worker'[v].pc = "setpid" =>
                worker'[v] = worker[v] \/ claude'[worker'[v].task] # "none"
    BY <1>2, <1>4
  <2> QED  BY <1>2, <1>4, <2>1 DEF StepLeavesEvidence
<1>5. CASE WorkerClaim(w)
  <2>1. PICK t \in DOMAIN tasks : /\ t \in Pending(worker[w].project)
                                  /\ SetStatus(t, "running")
                                  /\ worker' = [worker EXCEPT ![w].pc = "prep", ![w].task = t]
                                  /\ startedAt' = [startedAt EXCEPT ![t] = "fresh"]
                                  /\ UNCHANGED claude
    BY <1>5 DEF WorkerClaim, ClaimNext, Claimable
  <2>2. t \notin Started /\ worker'[w].task = t /\ worker'[w].pc = "prep"
    BY <1>1, <2>1 DEF Pending, Started, Terminal, WorkerState
  <2>3. \A u \in TaskIds : startedAt'[u] = "stale" <=> startedAt[u] = "stale"
    BY <1>1, <2>1, <2>2 DEF GhostInv, StaleIsOrphan
  <2>4. \A u \in DOMAIN tasks' : u \in DOMAIN tasks /\ tasks'[u].pid = tasks[u].pid
    BY <1>1, <2>1, StatusKeepsPid
  <2> QED  BY <1>4, <2>1, <2>2, <2>3, <2>4
<1>6. ASSUME UNCHANGED <<startedAt, claude>>,
             UNCHANGED tasks \/ \E s : SetStatus(worker[w].task, s),
             worker'[w].task \in {0, worker[w].task},
             worker'[w].pc # "setpid"
      PROVE  StepLeavesEvidence
  <2>1. \A u \in DOMAIN tasks' : u \in DOMAIN tasks /\ tasks'[u].pid = tasks[u].pid
    BY <1>1, <1>6, StatusKeepsPid
  <2> QED  BY <1>4, <1>6, <2>1
<1>7. CASE WorkerIdles(w) \/ WorkerExits(w)
  BY <1>1, <1>6, <1>7 DEF WorkerIdles, WorkerExits, WorkerGoes, WorkerOff, WorkerState
<1>8. CASE WorkerPrepFails(w)
  BY <1>1, <1>6, <1>8 DEF WorkerPrepFails, WorkerGoes, MarkFailed, WorkerState
<1>9. CASE WorkerLaunch(w)
  <2>1. /\ worker[w].pc = "prep" /\ claude' = [claude EXCEPT ![worker[w].task] = "live"]
        /\ worker'[w].task = worker[w].task /\ UNCHANGED <<tasks, startedAt>>
    BY <1>1, <1>9 DEF WorkerLaunch, WorkerGoes, WorkerState
  <2> QED  BY <1>1, <1>3, <1>4, <2>1
<1>10. CASE WorkerSetPid(w)
  <2>1. /\ worker[w].pc = "setpid" /\ UNCHANGED <<claude, startedAt>> /\ SetPid(worker[w].task)
        /\ worker'[w].task = worker[w].task /\ worker'[w].pc = "wait"
    BY <1>1, <1>10 DEF WorkerSetPid, WorkerGoes, WorkerState
  <2>2. \A t \in DOMAIN tasks' : t \in DOMAIN tasks /\ (t = worker[w].task \/ tasks'[t] = tasks[t])
    BY <2>1 DEF SetPid
  <2> QED  BY <1>4, <2>1, <2>2
<1>11. CASE WorkerReaps(w) \/ WorkerTimesOut(w)
  <2>1. /\ worker[w].pc = "wait" /\ claude' = [claude EXCEPT ![worker[w].task] = "gone"]
        /\ UNCHANGED <<tasks, startedAt>>
    BY <1>11 DEF WorkerReaps, WorkerTimesOut
  <2>2. worker'[w].task = worker[w].task /\ worker'[w].pc \in {"check", "tcheck"}
    BY <1>1, <1>11 DEF WorkerReaps, WorkerTimesOut, WorkerState
  <2> QED  BY <1>1, <1>4, <2>1, <2>2
<1>12. CASE WorkerChecks(w) \/ WorkerFinishes(w) \/ WorkerNotifies(w)
  BY <1>1, <1>6, <1>12 DEF WorkerChecks, WorkerFinishes, WorkerNotifies, WorkerGoes, GoesToFinish,
     BackToPoll, WorkerState
<1>13. CASE WorkerMarks(w)
  BY <1>1, <1>6, <1>13 DEF WorkerMarks, MarkDone, MarkFailed, GoesToFinish, WorkerState
<1> QED
  BY <1>5, <1>7, <1>8, <1>9, <1>10, <1>11, <1>12, <1>13 DEF WorkerStep

LEMMA ServiceLeavesEvidence ==
    ASSUME LifecycleInv, NEW s \in Services, SvcStep(s) \/ SvcStart(s)
    PROVE  StepLeavesEvidence
<1>1. /\ TypeOK
      /\ worker \in [Workers -> WorkerState]
      /\ svc \in [Services -> ServiceState] /\ svc[s] \in ServiceState
      /\ claude \in [TaskIds -> ClaudeStates]
      /\ \A w \in Workers : worker[w].pc = "off" => worker[w].task = 0
      /\ ServiceSound(svc[s])
  BY DEF LifecycleInv, LifecycleTypeOK, ProcessTypeOK, NothingGoesStale, WorkerSound
<1>2. \A r \in Services \ {s} : svc'[r] = svc[r]
  BY ServiceFrame
<1>3. UNCHANGED startedAt
  BY DEF SvcStep, SvcStart, EnsureWorker, SpawnWorker, InsertTask, CancelKills, CancelMarks, SvcReads,
     SvcNotifies, DrainQueue, SweepNext, ReapGhost, StartEnqueue, StartRetry, RouteToAgent,
     StartCancel, StartSweep
<1>4. \A w \in Workers : /\ worker'[w].task = worker[w].task
                         /\ worker'[w].pc = "setpid" => worker'[w] = worker[w]
  <2>1. CASE SpawnWorker(s)
    BY <1>1, <2>1 DEF SpawnWorker, WorkerState
  <2> QED  BY <2>1, ServiceFrame
<1>5. \A t \in TaskIds : /\ claude[t] # "none" => claude'[t] # "none"
                         /\ claude[t] = "gone" => claude'[t] = "gone"
  <2>1. CASE CancelKills(s)
    BY <1>1, <2>1 DEF CancelKills, Exits
  <2>2. UNCHANGED claude \/ CancelKills(s)
    BY DEF SvcStep, SvcStart, EnsureWorker, SpawnWorker, InsertTask, CancelMarks, SvcReads,
       SvcNotifies, DrainQueue, SweepNext, ReapGhost, StartEnqueue, StartRetry, RouteToAgent,
       StartCancel, StartSweep
  <2> QED  BY <2>1, <2>2
<1>6. \A t \in DOMAIN tasks' : tasks'[t].pid => t \in DOMAIN tasks /\ tasks[t].pid
  <2>1. ASSUME NEW p, NEW prio, NEW st, NEW r, Insert(p, prio, st, r)
        PROVE  \A t \in DOMAIN tasks' : tasks'[t].pid => t \in DOMAIN tasks /\ tasks[t].pid
    <3> DEFINE row == [project |-> p, status |-> st, priority |-> prio, pid |-> FALSE, retry_of |-> r]
    <3>1. tasks \in Seq(Row) /\ DOMAIN tasks = 1 .. Len(tasks) /\ Len(tasks) \in Nat
      BY <1>1, RowColumns DEF TypeOK
    <3>2. tasks' = Append(tasks, row)
      BY <2>1 DEF Insert
    <3>3. \A t \in DOMAIN tasks' : (t \in DOMAIN tasks /\ tasks'[t] = tasks[t]) \/ tasks'[t] = row
      BY <3>1, <3>2
    <3> QED  BY <3>3
  <2>2. CASE DrainQueue(s)
    <3>1. \A u \in DOMAIN tasks : tasks[u] \in Row
      BY <1>1, ElementOfSeq, LenProperties DEF TypeOK
    <3> QED  BY <2>2, <3>1 DEF DrainQueue, DrainPending, Row
  <2>3. CASE CancelMarks(s) \/ ReapGhost(s)
    BY <1>1, <2>3, StatusKeepsPid DEF CancelMarks, ReapGhost, Cancel, MarkFailed
  <2>4. CASE UNCHANGED tasks
    BY <2>4
  <2> QED
    BY <2>1, <2>2, <2>3, <2>4 DEF SvcStep, SvcStart, EnsureWorker, SpawnWorker, InsertTask, Enqueue,
       CancelKills, SvcReads, SvcNotifies, SweepNext, StartEnqueue, StartRetry, RouteToAgent,
       EnqueueRouted, StartCancel, StartSweep
\* Where the operation goes on.
<1>7. ASSUME svc'[s].todo \subseteq svc[s].todo \cup Suspects,
             svc'[s].pc = "reap" =>
                \/ svc[s].pc = "reap" /\ svc'[s].task = svc[s].task
                \/ \E q \in svc[s].todo : svc'[s].task = q[1] /\ ~(q[2] /\ IsAlive(q[1]))
      PROVE  StepLeavesEvidence
  <2>1. \A r \in Services :
          /\ svc'[r].todo \subseteq svc[r].todo \cup Suspects
          /\ svc'[r].pc = "reap" =>
                \/ svc[r].pc = "reap" /\ svc'[r].task = svc[r].task
                \/ \E q \in svc[r].todo : svc'[r].task = q[1] /\ ~(q[2] /\ IsAlive(q[1]))
    BY <1>2, <1>7
  <2> QED  BY <1>3, <1>4, <1>5, <1>6, <2>1 DEF StepLeavesEvidence
<1>8. CASE EnsureWorker(s) \/ SpawnWorker(s)
  BY <1>1, <1>7, <1>8 DEF EnsureWorker, SpawnWorker, SvcGoes, ServiceState
<1>9. CASE InsertTask(s) \/ DrainQueue(s)
  BY <1>1, <1>7, <1>9 DEF InsertTask, DrainQueue, SvcDone, SvcIdle
<1>10. CASE CancelKills(s) \/ CancelMarks(s) \/ SvcReads(s) \/ ReapGhost(s)
  BY <1>1, <1>7, <1>10 DEF CancelKills, CancelMarks, SvcReads, ReapGhost, SvcGoes, ServiceState
<1>11. CASE SvcNotifies(s)
  <2>1. /\ [SvcIdle EXCEPT !.pc = "sweep", !.todo = svc[s].todo].pc = "sweep"
        /\ [SvcIdle EXCEPT !.pc = "sweep", !.todo = svc[s].todo].todo = svc[s].todo
        /\ [SvcIdle EXCEPT !.pc = "drain", !.project = svc[s].project].pc = "drain"
        /\ [SvcIdle EXCEPT !.pc = "drain", !.project = svc[s].project].todo = {}
        /\ SvcIdle.pc = "idle" /\ SvcIdle.todo = {}
    BY DEF SvcIdle
  <2>2. PICK r \in {[SvcIdle EXCEPT !.pc = "sweep", !.todo = svc[s].todo],
                    [SvcIdle EXCEPT !.pc = "drain", !.project = svc[s].project], SvcIdle} :
           svc' = [svc EXCEPT ![s] = r]
    BY <1>11 DEF SvcNotifies, SvcDone
  <2>3. svc'[s] = r /\ r.pc # "reap" /\ r.todo \subseteq svc[s].todo
    BY <1>1, <2>1, <2>2
  <2> QED  BY <1>7, <2>3
<1>12. CASE SweepNext(s)
  <2>1. PICK q \in svc[s].todo :
           \/ svc' = [svc EXCEPT ![s] = IF svc[s].todo \ {q} = {} THEN SvcIdle
                                       ELSE [@ EXCEPT !.todo = svc[s].todo \ {q}]]
           \/ /\ ~(q[2] /\ IsAlive(q[1]))
              /\ svc' = [svc EXCEPT ![s].pc = "reap", ![s].task = q[1], ![s].todo = svc[s].todo \ {q}]
    BY <1>12 DEF SweepNext
  <2>2. svc[s].pc = "sweep"
    BY <1>12 DEF SweepNext
  <2>3. svc'[s].todo \subseteq svc[s].todo
    BY <1>1, <2>1 DEF SvcIdle, ServiceState
  <2>4. svc'[s].pc = "reap" => svc'[s].task = q[1] /\ ~(q[2] /\ IsAlive(q[1]))
    BY <1>1, <2>1, <2>2 DEF SvcIdle, ServiceState
  <2> QED  BY <1>7, <2>3, <2>4
<1>13. CASE StartEnqueue(s) \/ StartRetry(s)
  <2>1. PICK p, prio, t : svc' = [svc EXCEPT ![s].pc = "ensure", ![s].project = p,
                                             ![s].prio = prio, ![s].retry = t]
    <3>1. CASE StartRetry(s)
      BY <3>1 DEF StartRetry
    <3>2. CASE StartEnqueue(s)
      <4>1. PICK p, prio : svc' = [svc EXCEPT ![s].pc = "ensure", ![s].project = p, ![s].prio = prio]
        BY <3>2 DEF StartEnqueue
      <4>2. svc' = [svc EXCEPT ![s].pc = "ensure", ![s].project = p, ![s].prio = prio,
                               ![s].retry = svc[s].retry]
        BY <1>1, <4>1 DEF ServiceState
      <4> QED  BY <4>2
    <3> QED  BY <1>13, <3>1, <3>2
  <2>2. svc'[s].todo = svc[s].todo /\ svc'[s].pc = "ensure"
    BY <1>1, <2>1 DEF ServiceState
  <2> QED  BY <1>7, <2>2
<1>16. CASE RouteToAgent(s)
  BY <1>7, <1>16 DEF RouteToAgent
<1>14. CASE StartCancel(s)
  <2>1. \/ \E pc \in {"term", "cancel"}, p \in Projects, t \in Nat, b \in BOOLEAN :
             svc' = [svc EXCEPT ![s].pc = pc, ![s].project = p, ![s].task = t, ![s].drain = b]
        \/ \E p \in Projects : svc' = [svc EXCEPT ![s].pc = "drain", ![s].project = p]
    <3>1. \A p \in Projects : Running(p) \subseteq Nat
      BY <1>1, RowColumns DEF Running
    <3> QED  BY ZenonT(30), <1>14, <3>1 DEF StartCancel
  <2>2. ASSUME NEW pc \in {"term", "cancel"}, NEW p \in Projects, NEW t \in Nat, NEW b \in BOOLEAN,
               svc' = [svc EXCEPT ![s].pc = pc, ![s].project = p, ![s].task = t, ![s].drain = b]
        PROVE  svc'[s].todo = svc[s].todo /\ svc'[s].pc # "reap"
    <3>1. svc'[s].todo = svc[s].todo /\ svc'[s].pc = pc
      BY <1>1, <2>2 DEF ServiceState
    <3> QED  BY <3>1
  <2>3. ASSUME NEW p \in Projects, svc' = [svc EXCEPT ![s].pc = "drain", ![s].project = p]
        PROVE  svc'[s].todo = svc[s].todo /\ svc'[s].pc # "reap"
    <3>1. svc'[s].todo = svc[s].todo /\ svc'[s].pc = "drain"
      BY <1>1, <2>3 DEF ServiceState
    <3> QED  BY <3>1
  <2>4. svc'[s].todo = svc[s].todo /\ svc'[s].pc # "reap"
    BY ZenonT(30), <2>1, <2>2, <2>3
  <2> QED  BY <1>7, <2>4
<1>15. CASE StartSweep(s)
  BY <1>1, <1>7, <1>15 DEF StartSweep, ServiceState
<1> QED
  BY <1>8, <1>9, <1>10, <1>11, <1>12, <1>13, <1>14, <1>15, <1>16 DEF SvcStep, SvcStart

\* Without SlowPrep no row grows stale under a worker that holds it.
LEMMA EnvironmentLeavesEvidence ==
    ASSUME NoFaults, ~SlowPrep, LifecycleInv, Environment
    PROVE  StepLeavesEvidence
<1>1. /\ faults = 0
      /\ claude \in [TaskIds -> ClaudeStates]
      /\ startedAt \in [TaskIds -> {"null", "fresh", "stale"}]
  BY DEF LifecycleInv, LifecycleTypeOK, ProcessTypeOK, NoFaults
<1>2. PICK t \in DOMAIN tasks : ClaudeExits(t) \/ Ages(t)
  BY <1>1 DEF Environment, WorkerCrashes, SvcAborts, Fault, NoFaults
<1>3. UNCHANGED <<tasks, worker, svc>>
  BY <1>2 DEF ClaudeExits, Ages
<1>4. \A u \in TaskIds : /\ claude[u] # "none" => claude'[u] # "none"
                         /\ claude[u] = "gone" => claude'[u] = "gone"
  BY <1>1, <1>2 DEF ClaudeExits, Exits, Ages
<1>5. \A u \in TaskIds : /\ startedAt[u] = "stale" => startedAt'[u] = "stale"
                         /\ startedAt'[u] = "stale" =>
                               startedAt[u] = "stale" \/ (u \in Started /\ ~Launcher(u))
  BY <1>1, <1>2 DEF ClaudeExits, Ages, Started
<1> QED  BY <1>3, <1>4, <1>5 DEF StepLeavesEvidence

(* As long as no process is lost and branch preparation ends within the     *)
(* reaper's grace, the reaper takes for a ghost no task whose claude is at  *)
(* work, though the row, the process and the row again are looked at at     *)
(* three different times and two services and all workers go on in between  *)
(* (ghost_reaper.py:42-68).                                                 *)
THEOREM GhostsAreDead ==
    ASSUME NoFaults, ~SlowPrep
    PROVE  LifecycleSpec => []ReaperSparesTheLiving
<1>1. LifecycleInit => GhostInv /\ LiveAtWork
  BY EmptySeq DEF LifecycleInit, QueueInit, WorkerOff, SvcIdle, LiveAtWork, GhostInv, StaleIsOrphan,
     PidIsLaunched, SetPidAfterLaunch, SweepSound, ReapSound
<1>2. LifecycleInv /\ [LifecycleNext]_vars /\ GhostInv /\ LiveAtWork => GhostInv' /\ LiveAtWork'
  <2> SUFFICES ASSUME LifecycleInv, [LifecycleNext]_vars, GhostInv, LiveAtWork
               PROVE  GhostInv' /\ LiveAtWork'
    OBVIOUS
  <2>1. LifecycleInv' /\ [QueueNext]_queueVars /\ LiveAtWork'
    BY StepsWell, LiveStaysAtWork
  <2>2. Onward
    BY <2>1, StatementsGoOnward DEF LifecycleInv, LifecycleTypeOK
  <2>3. CASE UNCHANGED vars
    BY <2>1, <2>3 DEF vars, GhostInv, StaleIsOrphan, Launcher, Started, PidIsLaunched,
       SetPidAfterLaunch, SweepSound, ReapSound, TaskIds
  <2>4. LifecycleNext => StepLeavesEvidence
    BY WorkerLeavesEvidence, ServiceLeavesEvidence, EnvironmentLeavesEvidence DEF LifecycleNext
  <2> QED  BY <2>1, <2>2, <2>3, <2>4, EvidenceIsKept
<1>3. LifecycleInv /\ GhostInv /\ LiveAtWork => ReaperSparesTheLiving
  <2> SUFFICES ASSUME LifecycleInv, GhostInv, LiveAtWork,
                      NEW s \in Services, svc[s].pc = "reap", claude[svc[s].task] = "live"
               PROVE  FALSE
    BY DEF ReaperSparesTheLiving
  <2>1. svc[s].task \in TaskIds
    BY RowColumns, MaxTasksAssumption DEF LifecycleInv, LifecycleTypeOK, NothingGoesStale,
       ServiceSound, Started, TaskIds
  <2>2. startedAt[svc[s].task] = "stale"
    BY DEF GhostInv, ReapSound
  <2>3. ~Launcher(svc[s].task)
    BY <2>1, <2>2 DEF GhostInv, StaleIsOrphan
  <2> QED  BY <2>1, <2>3 DEF LiveAtWork, Launcher
<1> QED  BY <1>1, <1>2, <1>3, LifecycleSafe, PTL DEF LifecycleSpec

(* Rows, processes and announcements stay well formed.                      *)
THEOREM LifecycleTyped == LifecycleSpec => []LifecycleTypeOK
<1>1. LifecycleInv => LifecycleTypeOK
  BY DEF LifecycleInv
<1> QED  BY <1>1, LifecycleSafe, PTL
=============================================================================
