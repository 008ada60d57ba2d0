-------------------------------- MODULE ChatTx --------------------------------
(***************************************************************************)
(* The transaction wrapper of ChatDB (src/chat_db_tx.py) under the status  *)
(* envelopes (src/status_envelope.py).  Each process has one ChatDB with   *)
(* one connection, which its threads share; SQLite has one write lock for  *)
(* all of them, and rolls back what a process leaves behind when it dies.  *)
(*                                                                         *)
(*   thread    _run_tx, one SQL statement at a time                        *)
(*   conn      the connection: clean, in a transaction, or closed for good *)
(*   work      what the open transaction sees; there is at most one        *)
(***************************************************************************)
EXTENDS Integers, Sequences, FiniteSets

CONSTANTS
    Tasks,
    Statuses,
    Conns,          \* one per process
    Threads,
    ConnOf,         \* the connection of each thread
    MaxCalls,       \* bound: calls made
    MaxFaults,      \* bound: errors, crashes and leaks
    None

ASSUME ThreadsAssumption == IsFiniteSet(Threads)
ASSUME ConnOfAssumption == ConnOf \in [Threads -> Conns]
ASSUME TxStatusesAssumption == Statuses \cap {"null", "cleared"} = {}
ASSUME BoundsAssumption == MaxCalls \in Nat /\ MaxFaults \in Nat
ASSUME TxNoneAssumption == None \notin Conns /\ None \notin Threads

VARIABLES
    db,             \* what is committed: last_sent_status and its history
    active,         \* the rows whose status is pending or running
    writer,         \* the connection that holds SQLite's write lock
    conn,
    work,
    mutex,          \* _db_lock: the thread that holds it, per connection
    hooks,          \* length of _after_commit, per connection
    thread,
    owed,           \* messages committed less hooks run, per process (history)
    calls,
    faults

txVars == <<db, active, writer, conn, work, mutex, hooks, thread, owed, calls, faults>>

DB == [last : [Tasks -> Statuses \cup {"null"}],
       log : [Tasks -> Seq(Statuses \cup {"cleared"})]]

\* clearall: clear_status_dedup_for_project
Ops == [kind : {"emit"}, task : Tasks, status : Statuses]
       \cup [kind : {"clear"}, task : Tasks] \cup [kind : {"clearall"}]

(* depth: _tx_depth.  own: the hooks taken from _after_commit.  commits and *)
(* outcome: how often the call committed and how it ended (history).        *)
ThreadState ==
    [pc : {"idle", "enter", "check", "begin", "body", "insert", "commit", "hooks"},
     op : Ops \cup {None}, depth : {0, 1}, attempt : {1, 2}, own : Nat,
     commits : Nat, outcome : {"none", "returned", "raised"}]

ThreadInit == [pc |-> "idle", op |-> None, depth |-> 0, attempt |-> 1, own |-> 0,
               commits |-> 0, outcome |-> "none"]

TxTypeOK ==
    /\ db \in DB
    /\ active \subseteq Tasks
    /\ writer \in Conns \cup {None}
    /\ conn \in [Conns -> {"clean", "open", "closed"}]
    /\ work \in DB
    /\ mutex \in [Conns -> Threads \cup {None}]
    /\ hooks \in [Conns -> Nat]
    /\ thread \in [Threads -> ThreadState]
    /\ owed \in [Conns -> Int]
    /\ calls \in 0 .. MaxCalls
    /\ faults \in 0 .. MaxFaults

EmptyDB == [last |-> [t \in Tasks |-> "null"], log |-> [t \in Tasks |-> <<>>]]

TxInit ==
    /\ db = EmptyDB
    /\ active = Tasks
    /\ writer = None
    /\ conn = [c \in Conns |-> "clean"]
    /\ work = EmptyDB
    /\ mutex = [c \in Conns |-> None]
    /\ hooks = [c \in Conns |-> 0]
    /\ thread = [t \in Threads |-> ThreadInit]
    /\ owed = [c \in Conns |-> 0]
    /\ calls = 0
    /\ faults = 0

Fault == faults < MaxFaults /\ faults' = faults + 1

-----------------------------------------------------------------------------
(* The bodies, on what the transaction sees.                                *)

Marked(d, t, s) == [d EXCEPT !.last[t] = s]
Posted(d, t, s) == [d EXCEPT !.log[t] = Append(@, s)]

Cleared(d, rows) ==
    LET hit == {t \in rows : d.last[t] # "null"}
    IN  [last |-> [t \in Tasks |-> IF t \in hit THEN "null" ELSE d.last[t]],
         log |-> [t \in Tasks |-> IF t \in hit THEN Append(d.log[t], "cleared") ELSE d.log[t]]]

-----------------------------------------------------------------------------
(* A call.                                                                  *)

Goes(t, pc) == thread' = [thread EXCEPT ![t].pc = pc]

Ends(t, depth, outcome) ==
    thread' = [thread EXCEPT ![t] = [ThreadInit EXCEPT !.depth = depth, !.outcome = outcome,
                                                       !.commits = thread[t].commits]]

\* The call ends with an exception, and the with statement frees the lock.
Raises(t, depth) ==
    /\ Ends(t, depth, "raised")
    /\ mutex' = [mutex EXCEPT ![ConnOf[t]] = None]

(* ask_user emits waiting-on-peer for the task it was given, and clears its *)
(* mark when the answer is in; the wake watcher emits stalled for the task  *)
(* it has just found running, and clears the project.                       *)
Call(t) ==
    /\ thread[t].pc = "idle"
    /\ calls < MaxCalls
    /\ \E op \in Ops :
          /\ op.kind = "emit" /\ op.status = "stalled" => op.task \in active
          /\ thread' = [thread EXCEPT ![t] =
                          [ThreadInit EXCEPT !.pc = "enter", !.op = op, !.depth = thread[t].depth]]
    /\ calls' = calls + 1
    /\ UNCHANGED <<db, active, writer, conn, work, mutex, hooks, owed, faults>>

(* _run_tx.  A depth above 0 on entry is that of a call that could not even *)
(* reopen the connection: this one "joins" it, and finds it closed.         *)
Enter(t) ==
    /\ thread[t].pc = "enter"
    /\ \/ /\ thread[t].depth = 0
          /\ mutex[ConnOf[t]] = None
          /\ mutex' = [mutex EXCEPT ![ConnOf[t]] = t]
          /\ Goes(t, "check")
       \/ /\ thread[t].depth > 0
          /\ Ends(t, thread[t].depth, "raised")
          /\ UNCHANGED mutex
    /\ UNCHANGED <<db, active, writer, conn, work, hooks, owed, calls, faults>>

Frees(c) ==
    /\ writer' = IF writer = c THEN None ELSE writer
    /\ work' = IF writer = c THEN db ELSE work

\* rollback, or else close and reopen: either way the transaction is gone ...
RollsBack(c) == Frees(c) /\ conn' = [conn EXCEPT ![c] = "clean"]

\* ... unless rollback and reopening both fail.
CannotReopen(c) == Fault /\ Frees(c) /\ conn' = [conn EXCEPT ![c] = "closed"]

\* _check_or_recover_at_depth_zero
Check(t) ==
    LET c == ConnOf[t]
    IN  /\ thread[t].pc = "check"
        /\ \/ conn[c] = "clean" /\ Goes(t, "begin") /\ UNCHANGED <<writer, work, conn, mutex, faults>>
           \/ conn[c] = "open" /\ RollsBack(c) /\ Goes(t, "begin") /\ UNCHANGED <<mutex, faults>>
           \/ conn[c] = "open" /\ CannotReopen(c) /\ Raises(t, 0)
           \/ conn[c] = "closed" /\ Raises(t, 0) /\ UNCHANGED <<writer, work, conn, faults>>
        /\ UNCHANGED <<db, active, hooks, owed, calls>>

\* BEGIN IMMEDIATE waits for the write lock ...
Begin(t) ==
    LET c == ConnOf[t]
    IN  /\ thread[t].pc = "begin"
        /\ writer = None
        /\ writer' = c
        /\ conn' = [conn EXCEPT ![c] = "open"]
        /\ work' = db
        /\ thread' = [thread EXCEPT ![t].pc = "body", ![t].depth = 1]
        /\ UNCHANGED <<db, active, mutex, hooks, owed, calls, faults>>

\* Mutant: as many attempts as it takes.
RetriesForever(t) == Goes(t, "begin") /\ UNCHANGED mutex

\* A second attempt, and no third.
Retries(t) ==
    \/ /\ thread[t].attempt = 1
       /\ thread' = [thread EXCEPT ![t].pc = "begin", ![t].attempt = 2, ![t].depth = 0]
       /\ UNCHANGED mutex
    \/ thread[t].attempt = 2 /\ Raises(t, 0)

\* ... for 200 ms: "database is locked".
TimesOut(t) ==
    /\ thread[t].pc = "begin"
    /\ writer # None
    /\ Retries(t)
    /\ UNCHANGED <<db, active, writer, conn, work, hooks, owed, calls, faults>>

\* Mutant: the mark is committed on its own, before the message.
MarkCommits(t) ==
    LET op == thread[t].op
    IN  /\ thread[t].pc = "body" /\ op.kind = "emit"
        /\ work.last[op.task] # op.status
        /\ work' = Marked(work, op.task, op.status)
        /\ db' = Marked(db, op.task, op.status)
        /\ Goes(t, "insert")
        /\ UNCHANGED <<active, writer, conn, mutex, hooks, owed, calls, faults>>

\* _impl_emit_status_message up to the message; nothing if it is no news.
Mark(t) ==
    LET op == thread[t].op
    IN  /\ thread[t].pc = "body" /\ op.kind = "emit"
        /\ \/ work.last[op.task] = op.status /\ Goes(t, "commit") /\ UNCHANGED work
           \/ /\ work.last[op.task] # op.status
              /\ work' = Marked(work, op.task, op.status)
              /\ Goes(t, "insert")
        /\ UNCHANGED <<db, active, writer, conn, mutex, hooks, owed, calls, faults>>

\* The message, and _nudge_wake on _after_commit.
InsertMessage(t) ==
    LET op == thread[t].op
        c == ConnOf[t]
    IN  /\ thread[t].pc = "insert"
        /\ work' = Posted(work, op.task, op.status)
        /\ hooks' = [hooks EXCEPT ![c] = @ + 1]
        /\ Goes(t, "commit")
        /\ UNCHANGED <<db, active, writer, conn, mutex, owed, calls, faults>>

\* _impl_clear_status_dedup and _impl_clear_status_dedup_for_project
Clear(t) ==
    LET op == thread[t].op
    IN  /\ thread[t].pc = "body" /\ op.kind # "emit"
        /\ work' = Cleared(work, IF op.kind = "clear" THEN {op.task} ELSE active)
        /\ Goes(t, "commit")
        /\ UNCHANGED <<db, active, writer, conn, mutex, hooks, owed, calls, faults>>

\* Mutant: the loop goes on after a commit, as if it had been locked out.
CommitsAgain(t) ==
    LET c == ConnOf[t]
    IN  /\ thread[t].pc = "commit"
        /\ db' = work
        /\ owed' = [owed EXCEPT ![c] = @ + hooks[c]]
        /\ thread' = [thread EXCEPT ![t].pc = IF thread[t].attempt = 1 THEN "begin" ELSE "hooks",
                                    ![t].depth = 0, ![t].own = hooks[c], ![t].attempt = 2,
                                    ![t].commits = @ + 1]
        /\ hooks' = [hooks EXCEPT ![c] = 0]
        /\ writer' = None
        /\ conn' = [conn EXCEPT ![c] = "clean"]
        /\ mutex' = IF thread[t].attempt = 1 THEN mutex ELSE [mutex EXCEPT ![c] = None]
        /\ UNCHANGED <<active, work, calls, faults>>

(* commit; the hooks are taken from the shared list before the lock goes.   *)
Commit(t) ==
    LET c == ConnOf[t]
    IN  /\ thread[t].pc = "commit"
        /\ db' = work
        /\ writer' = None
        /\ conn' = [conn EXCEPT ![c] = "clean"]
        /\ owed' = [owed EXCEPT ![c] = @ + hooks[c]]
        /\ thread' = [thread EXCEPT ![t].pc = "hooks", ![t].depth = 0, ![t].own = hooks[c],
                                    ![t].commits = @ + 1]
        /\ hooks' = [hooks EXCEPT ![c] = 0]
        /\ mutex' = [mutex EXCEPT ![c] = None]
        /\ UNCHANGED <<active, work, calls, faults>>

\* Mutant: _after_commit is not cleared.
KeepsHooks(c) == UNCHANGED hooks

DropsHooks(c) == hooks' = [hooks EXCEPT ![c] = 0]

(* A statement of the body or the commit raises: rolled back, and tried     *)
(* again if it was "database is locked".  If the connection cannot be       *)
(* reopened the rest of the handler is skipped: _after_commit keeps its     *)
(* hooks and the thread its depth.                                          *)
Fails(t) ==
    LET c == ConnOf[t]
    IN  /\ thread[t].pc \in {"body", "insert", "commit"}
        /\ \/ Fault /\ RollsBack(c) /\ DropsHooks(c) /\ (Retries(t) \/ Raises(t, 0))
           \/ CannotReopen(c) /\ Raises(t, 1) /\ UNCHANGED hooks
        /\ UNCHANGED <<db, active, owed, calls>>

\* The hooks, outside the lock; what one of them raises is swallowed.
RunHooks(t) ==
    LET c == ConnOf[t]
    IN  /\ thread[t].pc = "hooks"
        /\ owed' = [owed EXCEPT ![c] = @ - thread[t].own]
        /\ Ends(t, 0, "returned")
        /\ UNCHANGED <<db, active, writer, conn, work, mutex, hooks, calls, faults>>

Statement(t) == Mark(t) \/ InsertMessage(t) \/ Clear(t)

ThreadStep(t) ==
    Enter(t) \/ Check(t) \/ Begin(t) \/ TimesOut(t) \/ Statement(t) \/ Commit(t) \/ RunHooks(t)

-----------------------------------------------------------------------------
(* The environment.                                                         *)

\* TaskQueue writes over connections of its own.
TaskEnds(t) ==
    /\ writer = None
    /\ t \in active
    /\ active' = active \ {t}
    /\ UNCHANGED <<db, writer, conn, work, mutex, hooks, thread, owed, calls, faults>>

(* A statement outside the wrapper, or an interrupt before its try, leaves  *)
(* the connection in a transaction: what _check_or_recover is there for.    *)
Leaks(c) ==
    /\ Fault
    /\ mutex[c] = None
    /\ conn[c] = "clean" /\ writer = None
    /\ writer' = c
    /\ conn' = [conn EXCEPT ![c] = "open"]
    /\ UNCHANGED <<db, active, work, mutex, hooks, thread, owed, calls>>

\* The process dies and starts again, with a new ChatDB.
Crashes(c) ==
    /\ Fault
    /\ Frees(c)
    /\ conn' = [conn EXCEPT ![c] = "clean"]
    /\ mutex' = [mutex EXCEPT ![c] = None]
    /\ hooks' = [hooks EXCEPT ![c] = 0]
    /\ thread' = [t \in Threads |-> IF ConnOf[t] = c THEN ThreadInit ELSE thread[t]]
    /\ owed' = [owed EXCEPT ![c] = 0]
    /\ UNCHANGED <<db, active, calls>>

TxNext ==
    \/ \E t \in Threads : Call(t) \/ ThreadStep(t) \/ Fails(t)
    \/ \E t \in Tasks : TaskEnds(t)
    \/ \E c \in Conns : Leaks(c) \/ Crashes(c)

TxSpec == TxInit /\ [][TxNext]_txVars

\* A thread gets on with its call; a statement waits no longer than 200 ms.
TxFairness == \A t \in Threads : WF_txVars(ThreadStep(t))

FairTxSpec == TxSpec /\ TxFairness

-----------------------------------------------------------------------------
(* Properties.                                                              *)

Envelopes == INSTANCE StatusEnvelopes WITH last <- db.last, log <- db.log

(* Whatever threads, processes, errors, retries and crashes do, what is     *)
(* committed changes as if each call were one step, or had never been made: *)
(* the mark and its message together (status_envelope.py:74-76).            *)
ImplementsEnvelopes == Envelopes!EnvelopeSpec

(* The user is never told the same status of a task twice in a row, however *)
(* many processes try: only a clear in between makes it news again, and a   *)
(* mark is set only if the message went out (status_envelope.py:5-7).       *)
NewsOnly ==
    \A t \in Tasks :
        LET l == db.log[t]
        IN  /\ \A i \in 2 .. Len(l) : l[i] # l[i - 1]
            /\ db.last[t] = IF l = <<>> \/ l[Len(l)] = "cleared" THEN "null" ELSE l[Len(l)]

(* A call that returns has committed once, one that raises has not, after   *)
(* however many attempts: a caller that tries again on an exception repeats *)
(* nothing (chat_db_tx.py:124-165).                                         *)
ReturnsMeanCommits ==
    \A t \in Threads :
        /\ thread[t].outcome = "returned" => thread[t].commits = 1
        /\ thread[t].outcome = "raised" => thread[t].commits = 0

(* Every committed message has its hook, once; none runs for a message that *)
(* was rolled back, and none is lost to, or run twice for, the thread that  *)
(* has the lock next (chat_db_tx.py:139-157).                               *)
RunningHooks(c) == {t \in Threads : ConnOf[t] = c /\ thread[t].own = 1}

HooksFollowCommits ==
    /\ \A t \in Threads : thread[t].own \in {0, 1}
    /\ \A c \in Conns : owed[c] = Cardinality(RunningHooks(c))

(* A call ends, whoever holds the write lock and however long               *)
(* (chat_db_tx.py:19).                                                      *)
CallsEnd == \A t \in Threads : thread[t].pc # "idle" ~> thread[t].pc = "idle"
=============================================================================
