----------------------------- MODULE ChatTxProofs -----------------------------
(* The transactions of ChatDB keep what StatusEnvelopes promises: what is   *)
(* committed changes by whole calls, each call that returns has committed   *)
(* once, and each committed message gets its hook.                          *)
EXTENDS ChatTx, FiniteSetTheorems, TLAPS

-----------------------------------------------------------------------------
(* A call by itself.                                                        *)

CallSound(r) ==
    /\ r.pc # "idle" => r.op \in Ops /\ r.outcome = "none"
    /\ r.pc \notin {"idle", "hooks"} => r.commits = 0
    /\ r.pc = "hooks" => r.commits = 1 /\ r.own \in {0, 1}
    /\ r.pc # "hooks" => r.own = 0
    /\ r.outcome = "returned" => r.commits = 1
    /\ r.outcome = "raised" => r.commits = 0

CallsSound == \A t \in Threads : CallSound(thread[t])

-----------------------------------------------------------------------------
(* Who has the locks.                                                       *)

Locked == {"check", "begin", "body", "insert", "commit"}
InTx == {"body", "insert", "commit"}

LocksSound ==
    /\ \A t \in Threads : thread[t].pc \in Locked => mutex[ConnOf[t]] = t
    /\ \A t \in Threads : thread[t].pc \in InTx => writer = ConnOf[t]
    /\ \A t \in Threads : thread[t].pc = "begin" => conn[ConnOf[t]] = "clean"
    /\ \A c \in Conns : conn[c] = "open" <=> writer = c

(* What the open transaction has made of what is committed.                 *)
WorkOf(t) ==
    LET op == thread[t].op
    IN  /\ thread[t].pc = "body" => work = db
        /\ thread[t].pc = "insert" =>
              op.kind = "emit" /\ db.last[op.task] # op.status /\ work = Marked(db, op.task, op.status)
        /\ thread[t].pc = "commit" =>
              \/ work = db
              \/ /\ op.kind = "emit" /\ db.last[op.task] # op.status
                 /\ work = Posted(Marked(db, op.task, op.status), op.task, op.status)
              \/ op.kind = "clear" /\ work = Cleared(db, {op.task})
              \/ op.kind = "clearall" /\ work = Cleared(db, active)

WorkSound == \A t \in Threads : WorkOf(t)

(* A hook waits for the commit of its transaction, or for ever if the       *)
(* connection is closed.                                                    *)
HooksSound ==
    \A c \in Conns :
        /\ hooks[c] \in {0, 1}
        /\ hooks[c] = 1 /\ conn[c] # "closed" =>
              \E t \in Threads : ConnOf[t] = c /\ thread[t].pc = "commit"

HooksCounted == \A c \in Conns : owed[c] = Cardinality(RunningHooks(c))

TxInv == TxTypeOK /\ CallsSound /\ LocksSound /\ WorkSound /\ HooksSound /\ HooksCounted

-----------------------------------------------------------------------------
(* Threads.                                                                 *)

(* One thread moves at a time, by one of these changes.                     *)
LEMMA ThreadMoves ==
    ASSUME TxTypeOK, CallsSound, HooksSound, NEW t \in Threads, Call(t) \/ ThreadStep(t) \/ Fails(t)
    PROVE  \E r \in ThreadState : thread' = [thread EXCEPT ![t] = r] /\ CallSound(r)
<1>1. thread \in [Threads -> ThreadState] /\ thread[t] \in ThreadState /\ CallSound(thread[t])
  BY DEF TxTypeOK, CallsSound
<1>2. \A c \in Conns : hooks[c] \in {0, 1}
  BY DEF HooksSound
<1>3. ThreadInit \in ThreadState /\ ConnOf[t] \in Conns
  BY ConnOfAssumption DEF ThreadInit, ThreadState
\* A call that ends.
<1>4. ASSUME NEW d \in {0, 1}, NEW o \in {"returned", "raised"}, Ends(t, d, o),
             o = "returned" => thread[t].commits = 1, o = "raised" => thread[t].commits = 0
      PROVE  \E r \in ThreadState : thread' = [thread EXCEPT ![t] = r] /\ CallSound(r)
  <2> DEFINE r == [ThreadInit EXCEPT !.depth = d, !.outcome = o, !.commits = thread[t].commits]
  <2>1. r \in ThreadState /\ CallSound(r)
    BY <1>1, <1>3, <1>4 DEF ThreadInit, ThreadState, CallSound
  <2> QED  BY <1>4, <2>1 DEF Ends
\* One that goes on.
<1>5. ASSUME NEW pc \in {"check", "begin", "insert", "commit"}, Goes(t, pc),
             thread[t].pc \notin {"idle", "hooks"}
      PROVE  \E r \in ThreadState : thread' = [thread EXCEPT ![t] = r] /\ CallSound(r)
  <2> DEFINE r == [thread[t] EXCEPT !.pc = pc]
  <2>1. r \in ThreadState /\ CallSound(r)
    BY <1>1, <1>5 DEF ThreadState, CallSound
  <2> QED  BY <1>1, <1>5, <2>1 DEF Goes
<1>6. CASE Call(t)
  <2>1. PICK op \in Ops : thread' = [thread EXCEPT ![t] =
           [ThreadInit EXCEPT !.pc = "enter", !.op = op, !.depth = thread[t].depth]]
    BY <1>6 DEF Call
  <2> DEFINE r == [ThreadInit EXCEPT !.pc = "enter", !.op = op, !.depth = thread[t].depth]
  <2>2. r \in ThreadState /\ CallSound(r)
    BY <1>1, <1>3 DEF ThreadInit, ThreadState, CallSound
  <2> QED  BY <2>1, <2>2
<1>7. CASE Enter(t)
  <2>1. thread[t].depth \in {0, 1} /\ thread[t].commits = 0
    BY <1>1, <1>7 DEF Enter, ThreadState, CallSound
  <2> QED  BY <1>4, <1>5, <1>7, <2>1 DEF Enter
<1>8. ASSUME Retries(t), thread[t].pc \in Locked
      PROVE  \E r \in ThreadState : thread' = [thread EXCEPT ![t] = r] /\ CallSound(r)
  <2>1. thread[t].commits = 0
    BY <1>1, <1>8 DEF Locked, CallSound
  <2>2. CASE Raises(t, 0)
    BY <1>4, <2>1, <2>2 DEF Raises
  <2>3. CASE thread' = [thread EXCEPT ![t].pc = "begin", ![t].attempt = 2, ![t].depth = 0]
    <3> DEFINE r == [thread[t] EXCEPT !.pc = "begin", !.attempt = 2, !.depth = 0]
    <3>1. r \in ThreadState /\ CallSound(r)
      BY <1>1, <1>8 DEF ThreadState, CallSound, Locked
    <3> QED  BY <1>1, <2>3, <3>1
  <2> QED  BY <1>8, <2>2, <2>3 DEF Retries
<1>9. CASE Check(t)
  <2>1. thread[t].commits = 0
    BY <1>1, <1>9 DEF Check, CallSound
  <2> QED  BY <1>4, <1>5, <1>9, <2>1 DEF Check, Raises
<1>10. CASE Begin(t)
  <2> DEFINE r == [thread[t] EXCEPT !.pc = "body", !.depth = 1]
  <2>1. r \in ThreadState /\ CallSound(r)
    BY <1>1, <1>10 DEF Begin, ThreadState, CallSound
  <2> QED  BY <1>1, <1>10, <2>1 DEF Begin
<1>11. CASE TimesOut(t)
  BY <1>8, <1>11 DEF TimesOut, Locked
<1>12. CASE Statement(t)
  BY <1>5, <1>12 DEF Statement, Mark, InsertMessage, Clear
<1>13. CASE Fails(t)
  <2>1. thread[t].commits = 0
    BY <1>1, <1>13 DEF Fails, CallSound
  <2> QED  BY <1>4, <1>8, <1>13, <2>1 DEF Fails, Raises, Locked
<1>14. CASE Commit(t)
  <2> DEFINE r == [thread[t] EXCEPT !.pc = "hooks", !.depth = 0, !.own = hooks[ConnOf[t]],
                                    !.commits = @ + 1]
  <2>1. thread[t].commits = 0 /\ thread[t].op \in Ops /\ thread[t].outcome = "none"
    BY <1>1, <1>14 DEF Commit, CallSound
  <2>2. r \in ThreadState
    <3>1. hooks[ConnOf[t]] \in Nat /\ thread[t].commits + 1 \in Nat
      BY <1>2, <1>3, <2>1
    <3> QED  BY <1>1, <3>1 DEF ThreadState
  <2>3. CallSound(r)
    BY <1>1, <1>2, <1>3, <1>14, <2>1 DEF CallSound, ThreadState
  <2> QED  BY <1>1, <1>14, <2>2, <2>3 DEF Commit
<1>15. CASE RunHooks(t)
  <2>1. thread[t].commits = 1
    BY <1>1, <1>15 DEF RunHooks, CallSound
  <2> QED  BY <1>4, <1>15, <2>1 DEF RunHooks
<1> QED
  BY <1>6, <1>7, <1>9, <1>10, <1>11, <1>12, <1>13, <1>14, <1>15 DEF ThreadStep

LEMMA OneMoves ==
    ASSUME TxTypeOK, CallsSound, HooksSound, NEW t \in Threads, Call(t) \/ ThreadStep(t) \/ Fails(t)
    PROVE  /\ thread' \in [Threads -> ThreadState] /\ CallsSound'
           /\ \A u \in Threads \ {t} : thread'[u] = thread[u]
<1>1. thread \in [Threads -> ThreadState]
  BY DEF TxTypeOK
<1>2. PICK r \in ThreadState : thread' = [thread EXCEPT ![t] = r] /\ CallSound(r)
  BY ThreadMoves
<1> QED  BY <1>1, <1>2 DEF CallsSound

\* Where the changes of a thread take it.
LEMMA MovesTo ==
    ASSUME thread \in [Threads -> ThreadState], NEW t \in Threads
    PROVE  /\ \A pc \in {"check", "begin", "insert", "commit"} :
                 Goes(t, pc) => /\ thread'[t].pc = pc /\ thread'[t].op = thread[t].op
                                /\ thread'[t].own = thread[t].own
           /\ \A d, o : Ends(t, d, o) => thread'[t].pc = "idle" /\ thread'[t].own = 0
           /\ Retries(t) => \/ thread'[t].pc = "begin" /\ thread'[t].own = thread[t].own
                               /\ UNCHANGED mutex
                            \/ Raises(t, 0)
           /\ Call(t) => thread'[t].pc = "enter" /\ thread'[t].own = 0
           /\ Begin(t) => thread'[t].pc = "body" /\ thread'[t].own = thread[t].own
           /\ Commit(t) => thread'[t].pc = "hooks" /\ thread'[t].own = hooks[ConnOf[t]]
<1>1. thread[t] \in ThreadState
  OBVIOUS
<1>2. ASSUME NEW pc \in {"check", "begin", "insert", "commit"}, Goes(t, pc)
      PROVE  /\ thread'[t].pc = pc /\ thread'[t].op = thread[t].op /\ thread'[t].own = thread[t].own
  <2>1. thread'[t] = [thread[t] EXCEPT !.pc = pc]
    BY <1>2 DEF Goes
  <2> QED  BY <1>1, <2>1 DEF ThreadState
<1>3. ASSUME NEW d, NEW o, Ends(t, d, o)
      PROVE  thread'[t].pc = "idle" /\ thread'[t].own = 0
  <2>1. thread'[t] = [ThreadInit EXCEPT !.depth = d, !.outcome = o, !.commits = thread[t].commits]
    BY <1>3 DEF Ends
  <2> QED  BY <2>1 DEF ThreadInit
<1>4. ASSUME Retries(t), ~Raises(t, 0)
      PROVE  thread'[t].pc = "begin" /\ thread'[t].own = thread[t].own /\ UNCHANGED mutex
  <2>1. thread'[t] = [thread[t] EXCEPT !.pc = "begin", !.attempt = 2, !.depth = 0] /\ UNCHANGED mutex
    BY <1>4 DEF Retries
  <2> QED  BY <1>1, <2>1 DEF ThreadState
<1>5. ASSUME Call(t) PROVE thread'[t].pc = "enter" /\ thread'[t].own = 0
  <2>1. PICK op \in Ops : thread' = [thread EXCEPT ![t] =
           [ThreadInit EXCEPT !.pc = "enter", !.op = op, !.depth = thread[t].depth]]
    BY <1>5 DEF Call
  <2>2. thread'[t] = [ThreadInit EXCEPT !.pc = "enter", !.op = op, !.depth = thread[t].depth]
    BY <2>1
  <2> QED  BY <2>2 DEF ThreadInit
<1>6. ASSUME Begin(t) PROVE thread'[t].pc = "body" /\ thread'[t].own = thread[t].own
  <2>1. thread'[t] = [thread[t] EXCEPT !.pc = "body", !.depth = 1]
    BY <1>6 DEF Begin
  <2> QED  BY <1>1, <2>1 DEF ThreadState
<1>7. ASSUME Commit(t) PROVE thread'[t].pc = "hooks" /\ thread'[t].own = hooks[ConnOf[t]]
  <2>1. thread'[t] = [thread[t] EXCEPT !.pc = "hooks", !.depth = 0, !.own = hooks[ConnOf[t]],
                                       !.commits = @ + 1]
    BY <1>7 DEF Commit
  <2> QED  BY <1>1, <2>1 DEF ThreadState
<1> QED  BY <1>2, <1>3, <1>4, <1>5, <1>6, <1>7

-----------------------------------------------------------------------------
(* The locks.                                                               *)

LEMMA LocksKept ==
    ASSUME TxTypeOK, CallsSound, HooksSound, LocksSound,
           NEW t \in Threads, Call(t) \/ ThreadStep(t) \/ Fails(t)
    PROVE  LocksSound'
<1>1. /\ thread \in [Threads -> ThreadState] /\ conn \in [Conns -> {"clean", "open", "closed"}]
      /\ mutex \in [Conns -> Threads \cup {None}] /\ writer \in Conns \cup {None}
      /\ ConnOf \in [Threads -> Conns] /\ None \notin Threads /\ None \notin Conns
  BY ConnOfAssumption, TxNoneAssumption DEF TxTypeOK
<1>2. \A u \in Threads \ {t} : thread'[u] = thread[u]
  BY OneMoves
<1>3. ASSUME Raises(t, 0) \/ Raises(t, 1), thread[t].pc \in Locked
      PROVE  /\ thread'[t].pc = "idle" /\ mutex' = [mutex EXCEPT ![ConnOf[t]] = None]
             /\ \A u \in Threads : thread'[u].pc \in Locked => mutex'[ConnOf[u]] = u
  <2>1. thread'[t].pc = "idle" /\ mutex' = [mutex EXCEPT ![ConnOf[t]] = None]
    BY <1>1, <1>3, MovesTo DEF Raises
  <2> QED  BY <1>1, <1>2, <1>3, <2>1 DEF LocksSound, Locked
<1>4. CASE Call(t)
  <2>1. thread'[t].pc = "enter" /\ UNCHANGED <<mutex, writer, conn>>
    BY <1>1, <1>4, MovesTo DEF Call
  <2> QED  BY <1>2, <2>1 DEF LocksSound, Locked, InTx
<1>5. CASE Enter(t)
  <2>1. UNCHANGED <<writer, conn>>
    BY <1>5 DEF Enter
  <2>2. \/ /\ thread'[t].pc = "check" /\ mutex[ConnOf[t]] = None
           /\ mutex' = [mutex EXCEPT ![ConnOf[t]] = t]
        \/ thread'[t].pc = "idle" /\ UNCHANGED mutex
    BY <1>1, <1>5, MovesTo DEF Enter
  <2> QED  BY <1>1, <1>2, <2>1, <2>2 DEF LocksSound, Locked, InTx
<1>6. CASE Check(t)
  <2>1. thread[t].pc = "check" /\ thread[t].pc \in Locked /\ mutex[ConnOf[t]] = t
    BY <1>6 DEF Check, Locked, LocksSound
  <2>2. CASE conn[ConnOf[t]] = "clean" /\ Goes(t, "begin") /\ UNCHANGED <<writer, work, conn, mutex, faults>>
    <3>1. thread'[t].pc = "begin"
      BY <1>1, <2>2, MovesTo
    <3> QED  BY <1>1, <1>2, <2>1, <2>2, <3>1 DEF LocksSound, Locked, InTx
  <2>3. CASE conn[ConnOf[t]] = "open" /\ RollsBack(ConnOf[t]) /\ Goes(t, "begin") /\ UNCHANGED <<mutex, faults>>
    <3>1. thread'[t].pc = "begin" /\ writer = ConnOf[t] /\ writer' = None
      BY <1>1, <2>3, MovesTo DEF RollsBack, Frees, LocksSound
    <3>2. conn' = [conn EXCEPT ![ConnOf[t]] = "clean"]
      BY <2>3 DEF RollsBack
    <3> QED  BY <1>1, <1>2, <2>1, <2>3, <3>1, <3>2 DEF LocksSound, Locked, InTx
  <2>4. CASE conn[ConnOf[t]] = "open" /\ CannotReopen(ConnOf[t]) /\ Raises(t, 0)
    <3>1. writer = ConnOf[t] /\ writer' = None /\ conn' = [conn EXCEPT ![ConnOf[t]] = "closed"]
      BY <1>1, <2>4 DEF CannotReopen, Frees, LocksSound
    <3> QED  BY <1>1, <1>2, <1>3, <2>1, <2>4, <3>1 DEF LocksSound, Locked, InTx
  <2>5. CASE Raises(t, 0) /\ UNCHANGED <<writer, work, conn, faults>>
    BY <1>1, <1>2, <1>3, <2>1, <2>5 DEF LocksSound, Locked, InTx
  <2> QED  BY <1>6, <2>2, <2>3, <2>4, <2>5 DEF Check
<1>7. CASE Begin(t)
  <2>1. /\ thread[t].pc = "begin" /\ thread'[t].pc = "body" /\ writer = None /\ writer' = ConnOf[t]
        /\ conn' = [conn EXCEPT ![ConnOf[t]] = "open"] /\ UNCHANGED mutex
    BY <1>1, <1>7, MovesTo DEF Begin
  <2> QED  BY <1>1, <1>2, <2>1 DEF LocksSound, Locked, InTx
<1>8. CASE TimesOut(t)
  <2>1. thread[t].pc = "begin" /\ thread[t].pc \in Locked /\ UNCHANGED <<writer, conn>>
    BY <1>8 DEF TimesOut, Locked
  <2>2. CASE Raises(t, 0)
    BY <1>1, <1>2, <1>3, <2>1, <2>2 DEF LocksSound, Locked, InTx
  <2>3. CASE thread'[t].pc = "begin" /\ UNCHANGED mutex
    BY <1>1, <1>2, <2>1, <2>3 DEF LocksSound, Locked, InTx
  <2> QED  BY <1>1, <1>8, <2>2, <2>3, MovesTo DEF TimesOut
<1>9. CASE Statement(t)
  <2>1. /\ thread[t].pc \in {"body", "insert"} /\ thread'[t].pc \in {"insert", "commit"}
        /\ UNCHANGED <<writer, conn, mutex>>
    BY <1>1, <1>9, MovesTo DEF Statement, Mark, InsertMessage, Clear
  <2> QED  BY <1>1, <1>2, <2>1 DEF LocksSound, Locked, InTx
<1>10. CASE Commit(t)
  <2>1. /\ thread[t].pc = "commit" /\ thread'[t].pc = "hooks" /\ writer' = None
        /\ conn' = [conn EXCEPT ![ConnOf[t]] = "clean"]
        /\ mutex' = [mutex EXCEPT ![ConnOf[t]] = None]
    BY <1>1, <1>10, MovesTo DEF Commit
  <2>2. writer = ConnOf[t] /\ mutex[ConnOf[t]] = t
    BY <2>1 DEF LocksSound, Locked, InTx
  <2> QED  BY <1>1, <1>2, <2>1, <2>2 DEF LocksSound, Locked, InTx
<1>11. CASE RunHooks(t)
  <2>1. thread'[t].pc = "idle" /\ UNCHANGED <<writer, conn, mutex>>
    BY <1>1, <1>11, MovesTo DEF RunHooks
  <2> QED  BY <1>2, <2>1 DEF LocksSound, Locked, InTx
<1>12. CASE Fails(t)
  <2>1. thread[t].pc \in Locked /\ thread[t].pc \in InTx
    BY <1>12 DEF Fails, Locked, InTx
  <2>2. writer = ConnOf[t] /\ mutex[ConnOf[t]] = t /\ writer' = None
    BY <1>12, <2>1 DEF Fails, RollsBack, CannotReopen, Frees, LocksSound
  <2>3. CASE RollsBack(ConnOf[t]) /\ Retries(t)
    <3>1. conn' = [conn EXCEPT ![ConnOf[t]] = "clean"]
      BY <2>3 DEF RollsBack
    <3>2. CASE Raises(t, 0)
      BY <1>1, <1>2, <1>3, <2>1, <2>2, <3>1, <3>2 DEF LocksSound, Locked, InTx
    <3>3. CASE thread'[t].pc = "begin" /\ UNCHANGED mutex
      BY <1>1, <1>2, <2>1, <2>2, <3>1, <3>3 DEF LocksSound, Locked, InTx
    <3> QED  BY <1>1, <2>3, <3>2, <3>3, MovesTo
  <2>4. CASE (RollsBack(ConnOf[t]) \/ CannotReopen(ConnOf[t])) /\ (Raises(t, 0) \/ Raises(t, 1))
    <3>1. PICK how \in {"clean", "closed"} : conn' = [conn EXCEPT ![ConnOf[t]] = how]
      BY <2>4 DEF RollsBack, CannotReopen
    <3> QED  BY <1>1, <1>2, <1>3, <2>1, <2>2, <2>4, <3>1 DEF LocksSound, Locked, InTx
  <2> QED  BY <1>12, <2>3, <2>4 DEF Fails
<1> QED
  BY <1>4, <1>5, <1>6, <1>7, <1>8, <1>9, <1>10, <1>11, <1>12 DEF ThreadStep

\* Of the threads of one connection, one is at work on it; of all, one in a transaction.
LEMMA OneInTx ==
    ASSUME LocksSound, NEW t \in Threads, NEW u \in Threads,
           thread[t].pc \in InTx,
           (thread[u].pc \in Locked /\ ConnOf[u] = ConnOf[t]) \/ thread[u].pc \in InTx
    PROVE  u = t
  BY DEF LocksSound, Locked, InTx

-----------------------------------------------------------------------------
(* Types.                                                                   *)

LEMMA BodiesTyped ==
    ASSUME NEW d \in DB
    PROVE  /\ \A t \in Tasks, s \in Statuses : Marked(d, t, s) \in DB /\ Posted(d, t, s) \in DB
           /\ \A rows \in SUBSET Tasks : Cleared(d, rows) \in DB
<1>1. /\ d.last \in [Tasks -> Statuses \cup {"null"}]
      /\ d.log \in [Tasks -> Seq(Statuses \cup {"cleared"})]
  BY DEF DB
<1>2. ASSUME NEW t \in Tasks, NEW s \in Statuses
      PROVE  Marked(d, t, s) \in DB /\ Posted(d, t, s) \in DB
  <2>1. [d.last EXCEPT ![t] = s] \in [Tasks -> Statuses \cup {"null"}]
    BY <1>1
  <2>2. [d.log EXCEPT ![t] = Append(@, s)] \in [Tasks -> Seq(Statuses \cup {"cleared"})]
    BY <1>1
  <2>3. /\ Marked(d, t, s) = [d EXCEPT !.last = [d.last EXCEPT ![t] = s]]
        /\ Posted(d, t, s) = [d EXCEPT !.log = [d.log EXCEPT ![t] = Append(@, s)]]
    BY DEF Marked, Posted, DB
  <2> QED  BY <1>1, <2>1, <2>2, <2>3 DEF DB
<1>3. ASSUME NEW rows \in SUBSET Tasks
      PROVE  Cleared(d, rows) \in DB
  <2> DEFINE hit == {t \in rows : d.last[t] # "null"}
             last == [t \in Tasks |-> IF t \in hit THEN "null" ELSE d.last[t]]
             log == [t \in Tasks |-> IF t \in hit THEN Append(d.log[t], "cleared") ELSE d.log[t]]
  <2>1. last \in [Tasks -> Statuses \cup {"null"}]
    BY <1>1
  <2>2. \A t \in Tasks : Append(d.log[t], "cleared") \in Seq(Statuses \cup {"cleared"})
    BY <1>1
  <2>3. log \in [Tasks -> Seq(Statuses \cup {"cleared"})]
    BY <1>1, <2>2
  <2>4. Cleared(d, rows) = [last |-> last, log |-> log]
    BY DEF Cleared
  <2> QED  BY <2>1, <2>3, <2>4 DEF DB
<1> QED  BY <1>2, <1>3

LEMMA TypesKept ==
    ASSUME TxTypeOK, CallsSound, HooksSound, WorkSound, NEW t \in Threads, Call(t) \/ ThreadStep(t) \/ Fails(t)
    PROVE  TxTypeOK'
<1>1. /\ db \in DB /\ work \in DB /\ active \subseteq Tasks /\ writer \in Conns \cup {None}
      /\ conn \in [Conns -> {"clean", "open", "closed"}]
      /\ mutex \in [Conns -> Threads \cup {None}]
      /\ hooks \in [Conns -> Nat] /\ owed \in [Conns -> Int]
      /\ thread \in [Threads -> ThreadState] /\ thread[t] \in ThreadState
      /\ calls \in 0 .. MaxCalls /\ faults \in 0 .. MaxFaults /\ ConnOf[t] \in Conns
  BY ConnOfAssumption DEF TxTypeOK
<1>2. thread' \in [Threads -> ThreadState]
  BY OneMoves
<1>3. Fault => faults' \in 0 .. MaxFaults
  BY <1>1, BoundsAssumption DEF Fault
<1>4. ASSUME NEW c \in Conns, RollsBack(c) \/ CannotReopen(c)
      PROVE  /\ work' \in DB /\ writer' \in Conns \cup {None}
             /\ conn' \in [Conns -> {"clean", "open", "closed"}]
  BY <1>1, <1>4 DEF RollsBack, CannotReopen, Frees
<1>5. ASSUME Raises(t, 0) \/ Raises(t, 1)
      PROVE  mutex' \in [Conns -> Threads \cup {None}]
  BY <1>1, <1>5 DEF Raises
<1>6. CASE Call(t)
  <2>1. calls' \in 0 .. MaxCalls
    <3>1. calls < MaxCalls /\ calls' = calls + 1
      BY <1>6 DEF Call
    <3> QED  BY <1>1, <3>1, BoundsAssumption
  <2> QED  BY <1>1, <1>2, <1>6, <2>1 DEF Call, TxTypeOK
<1>7. CASE Enter(t)
  BY <1>1, <1>2, <1>7 DEF Enter, TxTypeOK
<1>8. CASE Check(t)
  <2>1. faults' \in 0 .. MaxFaults /\ mutex' \in [Conns -> Threads \cup {None}]
    BY <1>1, <1>3, <1>5, <1>8 DEF Check, CannotReopen
  <2>2. /\ work' \in DB /\ writer' \in Conns \cup {None}
        /\ conn' \in [Conns -> {"clean", "open", "closed"}]
    BY <1>1, <1>4, <1>8 DEF Check
  <2> QED  BY <1>1, <1>2, <1>8, <2>1, <2>2 DEF Check, TxTypeOK
<1>9. CASE Begin(t)
  BY <1>1, <1>2, <1>9 DEF Begin, TxTypeOK
<1>10. CASE TimesOut(t)
  <2>1. mutex' \in [Conns -> Threads \cup {None}]
    BY <1>1, <1>5, <1>10 DEF TimesOut, Retries
  <2> QED  BY <1>1, <1>2, <1>10, <2>1 DEF TimesOut, TxTypeOK
<1>11. CASE Statement(t)
  <2>1. thread[t].op \in Ops
    BY <1>11 DEF Statement, Mark, InsertMessage, Clear, CallsSound, CallSound
  <2>2. CASE Mark(t)
    <3>1. thread[t].op.task \in Tasks /\ thread[t].op.status \in Statuses
      BY <2>1, <2>2 DEF Mark, Ops
    <3>2. work' \in DB
      BY <1>1, <2>2, <3>1, BodiesTyped DEF Mark
    <3> QED  BY <1>1, <1>2, <2>2, <3>2 DEF Mark, TxTypeOK
  <2>3. CASE InsertMessage(t) /\ thread[t].op.kind = "emit"
    <3>1. thread[t].op.task \in Tasks /\ thread[t].op.status \in Statuses
      BY <2>1, <2>3 DEF Ops
    <3>2. work' \in DB /\ hooks' \in [Conns -> Nat]
      BY <1>1, <2>3, <3>1, BodiesTyped DEF InsertMessage
    <3> QED  BY <1>1, <1>2, <2>3, <3>2 DEF InsertMessage, TxTypeOK
  <2>4. CASE Clear(t)
    <3>1. thread[t].op.kind = "clear" => thread[t].op.task \in Tasks
      BY <2>1 DEF Ops
    <3>2. work' \in DB
      BY <1>1, <2>4, <3>1, BodiesTyped DEF Clear
    <3> QED  BY <1>1, <1>2, <2>4, <3>2 DEF Clear, TxTypeOK
  <2>5. InsertMessage(t) => thread[t].op.kind = "emit"
    BY DEF InsertMessage, WorkSound, WorkOf
  <2> QED  BY <1>11, <2>2, <2>3, <2>4, <2>5 DEF Statement
<1>12. CASE Commit(t)
  <2>1. owed' \in [Conns -> Int] /\ hooks' \in [Conns -> Nat]
    BY <1>1, <1>12 DEF Commit
  <2> QED  BY <1>1, <1>2, <1>12, <2>1 DEF Commit, TxTypeOK
<1>13. CASE RunHooks(t)
  <2>1. owed' \in [Conns -> Int]
    BY <1>1, <1>13 DEF RunHooks, ThreadState
  <2> QED  BY <1>1, <1>2, <1>13, <2>1 DEF RunHooks, TxTypeOK
<1>14. CASE Fails(t)
  <2>1. faults' \in 0 .. MaxFaults /\ mutex' \in [Conns -> Threads \cup {None}]
    BY <1>1, <1>3, <1>5, <1>14 DEF Fails, CannotReopen, Retries
  <2>2. /\ work' \in DB /\ writer' \in Conns \cup {None}
        /\ conn' \in [Conns -> {"clean", "open", "closed"}]
    BY <1>1, <1>4, <1>14 DEF Fails
  <2>3. hooks' \in [Conns -> Nat]
    BY <1>1, <1>14 DEF Fails, DropsHooks
  <2> QED  BY <1>1, <1>2, <1>14, <2>1, <2>2, <2>3 DEF Fails, TxTypeOK
<1> QED
  BY <1>6, <1>7, <1>8, <1>9, <1>10, <1>11, <1>12, <1>13, <1>14 DEF ThreadStep

-----------------------------------------------------------------------------
(* What the open transaction has made of what is committed.                 *)

LEMMA WorkKept ==
    ASSUME TxTypeOK, CallsSound, HooksSound, LocksSound, WorkSound,
           NEW t \in Threads, Call(t) \/ ThreadStep(t) \/ Fails(t)
    PROVE  WorkSound'
<1>1. /\ thread \in [Threads -> ThreadState] /\ thread[t] \in ThreadState
      /\ None \notin Conns /\ writer \in Conns \cup {None}
  BY TxNoneAssumption DEF TxTypeOK
<1>2. \A u \in Threads \ {t} : thread'[u] = thread[u]
  BY OneMoves
\* While t leaves the rows alone, or nobody else is in a transaction.
<1>3. ASSUME WorkOf(t)',
             \/ UNCHANGED <<db, work, active>>
             \/ \A u \in Threads \ {t} : thread[u].pc \notin InTx
      PROVE  WorkSound'
  <2>1. ASSUME NEW u \in Threads \ {t} PROVE WorkOf(u)'
    <3>1. thread'[u] = thread[u] /\ WorkOf(u)
      BY <1>2 DEF WorkSound
    <3>2. CASE UNCHANGED <<db, work, active>>
      BY <3>1, <3>2 DEF WorkOf
    <3>3. CASE thread[u].pc \notin InTx
      BY <3>1, <3>3 DEF WorkOf, InTx
    <3> QED  BY <1>3, <3>2, <3>3
  <2> QED  BY <1>3, <2>1 DEF WorkSound
<1>4. ASSUME thread'[t].pc \in {"idle", "enter", "check", "begin", "hooks"} PROVE WorkOf(t)'
  BY <1>4 DEF WorkOf
\* A thread in a transaction, or about to roll it back, is the only one.
<1>5. ASSUME thread[t].pc \in InTx \/ (thread[t].pc \in Locked /\ writer = ConnOf[t])
      PROVE  \A u \in Threads \ {t} : thread[u].pc \notin InTx
  BY <1>5 DEF LocksSound, Locked, InTx
<1>6. CASE Call(t) \/ Enter(t) \/ TimesOut(t) \/ RunHooks(t)
  <2>1. UNCHANGED <<db, work, active>>
    BY <1>6 DEF Call, Enter, TimesOut, RunHooks
  <2>2. thread'[t].pc \in {"idle", "enter", "check", "begin", "hooks"}
    BY <1>1, <1>6, MovesTo DEF Enter, TimesOut, RunHooks, Raises
  <2> QED  BY <1>3, <1>4, <2>1, <2>2
<1>7. CASE Check(t)
  <2>1. thread'[t].pc \in {"idle", "begin"}
    BY <1>1, <1>7, MovesTo DEF Check, Raises
  <2>2. CASE conn[ConnOf[t]] = "open"
    <3>1. writer = ConnOf[t] /\ thread[t].pc \in Locked
      BY <1>7, <2>2, ConnOfAssumption DEF LocksSound, Check, Locked
    <3> QED  BY <1>3, <1>4, <1>5, <2>1, <3>1
  <2>3. CASE conn[ConnOf[t]] # "open"
    BY <1>3, <1>4, <1>7, <2>1, <2>3 DEF Check
  <2> QED  BY <2>2, <2>3
<1>8. CASE Begin(t)
  <2>1. thread'[t].pc = "body" /\ writer = None /\ work' = db /\ UNCHANGED db
    BY <1>1, <1>8, MovesTo DEF Begin
  <2>2. \A u \in Threads : thread[u].pc \notin InTx
    BY <1>1, <2>1, ConnOfAssumption DEF LocksSound
  <2>3. WorkOf(t)'
    BY <2>1 DEF WorkOf
  <2> QED  BY <1>3, <2>2, <2>3
<1>9. CASE Statement(t)
  <2>1. /\ thread[t].pc \in {"body", "insert"} /\ UNCHANGED <<db, active>>
        /\ thread'[t].op = thread[t].op
    BY <1>1, <1>9, MovesTo DEF Statement, Mark, InsertMessage, Clear
  <2>2. thread[t].op \in Ops /\ WorkOf(t)
    BY <2>1 DEF CallsSound, CallSound, WorkSound
  <2>3. CASE Mark(t)
    <3>1. work = db /\ thread[t].op.kind = "emit"
      BY <2>2, <2>3 DEF Mark, WorkOf
    <3>2. \/ thread'[t].pc = "commit" /\ work' = work
          \/ /\ thread'[t].pc = "insert" /\ work.last[thread[t].op.task] # thread[t].op.status
             /\ work' = Marked(work, thread[t].op.task, thread[t].op.status)
      BY <1>1, <2>3, MovesTo DEF Mark
    <3>3. WorkOf(t)'
      BY <2>1, <3>1, <3>2 DEF WorkOf, Marked
    <3> QED  BY <1>3, <1>5, <2>1, <3>3 DEF InTx
  <2>4. CASE InsertMessage(t)
    <3>1. /\ thread[t].op.kind = "emit" /\ db.last[thread[t].op.task] # thread[t].op.status
          /\ work = Marked(db, thread[t].op.task, thread[t].op.status)
      BY <2>2, <2>4 DEF InsertMessage, WorkOf
    <3>2. /\ thread'[t].pc = "commit"
          /\ work' = Posted(work, thread[t].op.task, thread[t].op.status)
      BY <1>1, <2>4, MovesTo DEF InsertMessage
    <3>3. WorkOf(t)'
      BY <2>1, <3>1, <3>2 DEF WorkOf, Marked, Posted
    <3> QED  BY <1>3, <1>5, <2>1, <3>3 DEF InTx
  <2>5. CASE Clear(t)
    <3>1. work = db /\ thread[t].op.kind \in {"clear", "clearall"}
      BY <2>2, <2>5 DEF Clear, WorkOf, Ops
    <3>2. /\ thread'[t].pc = "commit"
          /\ work' = Cleared(work, IF thread[t].op.kind = "clear" THEN {thread[t].op.task} ELSE active)
      BY <1>1, <2>5, MovesTo DEF Clear
    <3>3. WorkOf(t)'
      BY <2>1, <3>1, <3>2 DEF WorkOf, Cleared
    <3> QED  BY <1>3, <1>5, <2>1, <3>3 DEF InTx
  <2> QED  BY <1>9, <2>3, <2>4, <2>5 DEF Statement
<1>10. CASE Commit(t)
  <2>1. thread[t].pc = "commit" /\ thread'[t].pc = "hooks"
    BY <1>1, <1>10, MovesTo DEF Commit
  <2> QED  BY <1>3, <1>4, <1>5, <2>1 DEF InTx
<1>11. CASE Fails(t)
  <2>1. thread[t].pc \in InTx /\ thread'[t].pc \in {"idle", "begin"}
    BY <1>1, <1>11, MovesTo DEF Fails, Raises, InTx
  <2> QED  BY <1>3, <1>4, <1>5, <2>1
<1> QED
  BY <1>6, <1>7, <1>8, <1>9, <1>10, <1>11 DEF ThreadStep

-----------------------------------------------------------------------------
(* Hooks.                                                                   *)

LEMMA HooksKept ==
    ASSUME TxTypeOK, CallsSound, HooksSound, LocksSound,
           NEW t \in Threads, Call(t) \/ ThreadStep(t) \/ Fails(t)
    PROVE  HooksSound'
<1>1. /\ thread \in [Threads -> ThreadState] /\ thread[t] \in ThreadState
      /\ conn \in [Conns -> {"clean", "open", "closed"}] /\ hooks \in [Conns -> Nat]
      /\ ConnOf[t] \in Conns
  BY ConnOfAssumption DEF TxTypeOK
<1>2. \A u \in Threads \ {t} : thread'[u] = thread[u]
  BY OneMoves
\* As long as t does not leave its commit, and no closed connection is reopened.
<1>3. ASSUME thread[t].pc # "commit" \/ thread'[t].pc = "commit", UNCHANGED hooks,
             \A c \in Conns : conn[c] = "closed" => conn'[c] = "closed"
      PROVE  HooksSound'
  BY <1>2, <1>3 DEF HooksSound
<1>4. ASSUME NEW c \in Conns, conn[c] # "closed", conn' = [conn EXCEPT ![c] = "clean"] \/
             conn' = [conn EXCEPT ![c] = "open"] \/ conn' = [conn EXCEPT ![c] = "closed"]
      PROVE  \A e \in Conns : conn[e] = "closed" => conn'[e] = "closed"
  BY <1>1, <1>4
<1>5. CASE Call(t) \/ Enter(t) \/ TimesOut(t) \/ RunHooks(t)
  BY <1>3, <1>5 DEF Call, Enter, TimesOut, RunHooks
<1>6. CASE Check(t)
  <2>1. thread[t].pc = "check" /\ UNCHANGED hooks
    BY <1>6 DEF Check
  <2>2. CASE UNCHANGED conn
    BY <1>3, <2>1, <2>2
  <2>3. CASE conn[ConnOf[t]] = "open" /\ (RollsBack(ConnOf[t]) \/ CannotReopen(ConnOf[t]))
    BY <1>1, <1>3, <1>4, <2>1, <2>3 DEF RollsBack, CannotReopen
  <2> QED  BY <1>6, <2>2, <2>3 DEF Check
<1>7. CASE Begin(t)
  <2>1. thread[t].pc = "begin" /\ conn[ConnOf[t]] = "clean" /\ UNCHANGED hooks
    BY <1>7 DEF Begin, LocksSound
  <2> QED  BY <1>1, <1>3, <1>4, <1>7, <2>1 DEF Begin
<1>8. CASE Statement(t)
  <2>1. CASE Mark(t) \/ Clear(t)
    BY <1>3, <2>1 DEF Mark, Clear
  <2>2. CASE InsertMessage(t)
    <3>1. /\ thread[t].pc = "insert" /\ thread'[t].pc = "commit" /\ UNCHANGED conn
          /\ hooks' = [hooks EXCEPT ![ConnOf[t]] = @ + 1]
      BY <1>1, <2>2, MovesTo DEF InsertMessage
    <3>2. conn[ConnOf[t]] = "open" /\ mutex[ConnOf[t]] = t
      BY <1>1, <3>1 DEF LocksSound, InTx, Locked
    <3>3. \A u \in Threads : ConnOf[u] = ConnOf[t] => thread[u].pc # "commit"
      BY <3>1, <3>2 DEF LocksSound, Locked
    <3>4. hooks[ConnOf[t]] = 0
      BY <1>1, <3>2, <3>3 DEF HooksSound
    <3> QED  BY <1>1, <1>2, <3>1, <3>4 DEF HooksSound
  <2> QED  BY <1>8, <2>1, <2>2 DEF Statement
\* t alone is at the commit of its connection, and drops the hooks or closes it.
<1>9. ASSUME hooks' = [hooks EXCEPT ![ConnOf[t]] = 0],
             \A c \in Conns : conn[c] = "closed" => conn'[c] = "closed" \/ c = ConnOf[t]
      PROVE  HooksSound'
  BY <1>1, <1>2, <1>9 DEF HooksSound
<1>10. CASE Commit(t)
  BY <1>1, <1>9, <1>10 DEF Commit
<1>11. CASE Fails(t)
  <2>1. CASE RollsBack(ConnOf[t]) /\ DropsHooks(ConnOf[t])
    BY <1>1, <1>9, <2>1 DEF RollsBack, DropsHooks
  <2>2. CASE CannotReopen(ConnOf[t]) /\ UNCHANGED hooks
    <3>1. conn' = [conn EXCEPT ![ConnOf[t]] = "closed"]
      BY <2>2 DEF CannotReopen
    <3> QED  BY <1>1, <1>2, <2>2, <3>1 DEF HooksSound
  <2> QED  BY <1>11, <2>1, <2>2 DEF Fails
<1> QED
  BY <1>5, <1>6, <1>7, <1>8, <1>10, <1>11 DEF ThreadStep

LEMMA CountKept ==
    ASSUME TxTypeOK, CallsSound, HooksSound, HooksCounted,
           NEW t \in Threads, Call(t) \/ ThreadStep(t) \/ Fails(t)
    PROVE  HooksCounted'
<1>1. /\ thread \in [Threads -> ThreadState] /\ thread[t] \in ThreadState /\ ConnOf[t] \in Conns
      /\ hooks \in [Conns -> Nat] /\ owed \in [Conns -> Int]
  BY ConnOfAssumption DEF TxTypeOK
<1>2. \A u \in Threads \ {t} : thread'[u] = thread[u]
  BY OneMoves
<1>3. \A c \in Conns : IsFiniteSet(RunningHooks(c)) /\ RunningHooks(c) \subseteq Threads
                       /\ Cardinality(RunningHooks(c)) \in Nat
  BY ThreadsAssumption, FS_Subset, FS_CardinalityType DEF RunningHooks
<1>4. ASSUME UNCHANGED owed, thread'[t].own = thread[t].own
      PROVE  HooksCounted'
  <2>1. \A c \in Conns : RunningHooks(c)' = RunningHooks(c)
    BY <1>2, <1>4 DEF RunningHooks
  <2> QED  BY <1>4, <2>1 DEF HooksCounted
<1>5. thread[t].pc # "hooks" => thread[t].own = 0
  BY DEF CallsSound, CallSound
<1>6. CASE Call(t) \/ Enter(t) \/ Check(t) \/ Begin(t) \/ TimesOut(t)
  <2>1. thread[t].own = 0 /\ UNCHANGED owed
    BY <1>5, <1>6 DEF Call, Enter, Check, Begin, TimesOut
  <2>2. thread'[t].own = 0
    BY <1>1, <1>6, <2>1, MovesTo DEF Enter, Check, TimesOut, Raises
  <2> QED  BY <1>4, <2>1, <2>2
<1>7. CASE Statement(t)
  BY <1>1, <1>4, <1>7, MovesTo DEF Statement, Mark, InsertMessage, Clear
<1>8. CASE Fails(t)
  <2>1. thread[t].own = 0 /\ UNCHANGED owed
    BY <1>5, <1>8 DEF Fails
  <2>2. thread'[t].own = 0
    BY <1>1, <1>8, <2>1, MovesTo DEF Fails, Raises
  <2> QED  BY <1>4, <2>1, <2>2
<1>9. CASE Commit(t)
  <2> DEFINE c == ConnOf[t]
  <2>1. /\ thread[t].own = 0 /\ thread'[t].own = hooks[c] /\ hooks[c] \in {0, 1}
        /\ owed' = [owed EXCEPT ![c] = @ + hooks[c]]
    BY <1>1, <1>5, <1>9, MovesTo DEF Commit, HooksSound
  <2>2. CASE hooks[c] = 0
    BY <1>1, <1>4, <2>1, <2>2
  <2>3. CASE hooks[c] = 1
    <3>1. RunningHooks(c)' = RunningHooks(c) \cup {t} /\ t \notin RunningHooks(c)
      BY <1>2, <2>1, <2>3 DEF RunningHooks
    <3>2. Cardinality(RunningHooks(c)') = Cardinality(RunningHooks(c)) + 1
      BY <1>1, <1>3, <3>1, FS_AddElement
    <3>3. \A e \in Conns \ {c} : RunningHooks(e)' = RunningHooks(e) /\ owed'[e] = owed[e]
      BY <1>1, <1>2, <2>1 DEF RunningHooks
    <3>4. owed'[c] = owed[c] + 1
      BY <1>1, <2>1, <2>3
    <3> QED  BY <1>1, <3>2, <3>3, <3>4 DEF HooksCounted
  <2> QED  BY <2>1, <2>2, <2>3
<1>10. CASE RunHooks(t)
  <2> DEFINE c == ConnOf[t]
  <2>1. /\ thread[t].own \in {0, 1} /\ thread'[t].own = 0
        /\ owed' = [owed EXCEPT ![c] = @ - thread[t].own]
    BY <1>1, <1>10, MovesTo DEF RunHooks, CallsSound, CallSound
  <2>2. CASE thread[t].own = 0
    BY <1>1, <1>4, <2>1, <2>2
  <2>3. CASE thread[t].own = 1
    <3>1. RunningHooks(c)' = RunningHooks(c) \ {t} /\ t \in RunningHooks(c)
      BY <1>2, <2>1, <2>3 DEF RunningHooks
    <3>2. Cardinality(RunningHooks(c)') = Cardinality(RunningHooks(c)) - 1
      <4>1. IsFiniteSet(RunningHooks(c))
        BY <1>1, <1>3
      <4>2. Cardinality(RunningHooks(c) \ {t}) = Cardinality(RunningHooks(c)) - 1
        BY <3>1, <4>1, FS_RemoveElement
      <4> QED  BY <3>1, <4>2
    <3>3. \A e \in Conns \ {c} : RunningHooks(e)' = RunningHooks(e) /\ owed'[e] = owed[e]
      BY <1>1, <1>2, <2>1 DEF RunningHooks
    <3>4. owed'[c] = owed[c] - 1
      BY <1>1, <2>1, <2>3
    <3> QED  BY <1>1, <3>2, <3>3, <3>4 DEF HooksCounted
  <2> QED  BY <2>1, <2>2, <2>3
<1> QED
  BY <1>6, <1>7, <1>8, <1>9, <1>10 DEF ThreadStep

-----------------------------------------------------------------------------
(* The environment.                                                         *)

LEMMA CrashKeeps ==
    ASSUME TxInv, NEW c \in Conns, Crashes(c)
    PROVE  TxInv'
<1>1. /\ thread \in [Threads -> ThreadState] /\ conn \in [Conns -> {"clean", "open", "closed"}]
      /\ ConnOf \in [Threads -> Conns] /\ db \in DB /\ work \in DB
      /\ writer \in Conns \cup {None} /\ hooks \in [Conns -> Nat] /\ owed \in [Conns -> Int]
      /\ mutex \in [Conns -> Threads \cup {None}] /\ faults \in 0 .. MaxFaults
      /\ None \notin Conns
  BY ConnOfAssumption, TxNoneAssumption DEF TxInv, TxTypeOK
<1>2. /\ Frees(c) /\ conn' = [conn EXCEPT ![c] = "clean"] /\ mutex' = [mutex EXCEPT ![c] = None]
      /\ hooks' = [hooks EXCEPT ![c] = 0] /\ owed' = [owed EXCEPT ![c] = 0]
      /\ UNCHANGED <<db, active, calls>>
  BY DEF Crashes
<1>3. \A t \in Threads : thread'[t] = IF ConnOf[t] = c THEN ThreadInit ELSE thread[t]
  BY DEF Crashes
<1>4. ThreadInit.pc = "idle" /\ ThreadInit.own = 0 /\ CallSound(ThreadInit)
  BY DEF ThreadInit, CallSound
<1>5. TxTypeOK'
  <2>1. ThreadInit \in ThreadState
    BY DEF ThreadInit, ThreadState
  <2>2. thread' \in [Threads -> ThreadState]
    BY <1>1, <2>1 DEF Crashes
  <2>3. work' \in DB /\ writer' \in Conns \cup {None}
    BY <1>1, <1>2 DEF Frees
  <2>4. faults' \in 0 .. MaxFaults
    BY <1>1, BoundsAssumption DEF Crashes, Fault
  <2> QED  BY <1>1, <1>2, <2>2, <2>3, <2>4 DEF TxInv, TxTypeOK
<1>6. CallsSound'
  BY <1>3, <1>4 DEF TxInv, CallsSound
<1>7. LocksSound'
  BY <1>1, <1>2, <1>3, <1>4 DEF TxInv, LocksSound, Frees, Locked, InTx
<1>8. WorkSound'
  <2>1. ASSUME NEW t \in Threads PROVE WorkOf(t)'
    <3>1. CASE ConnOf[t] = c
      BY <1>3, <1>4, <3>1 DEF WorkOf
    <3>2. CASE ConnOf[t] # c
      <4>1. thread'[t] = thread[t] /\ WorkOf(t)
        BY <1>3, <3>2 DEF TxInv, WorkSound
      <4>2. thread[t].pc \in InTx => work' = work
        BY <1>2, <3>2 DEF TxInv, LocksSound, Frees
      <4> QED  BY <1>2, <4>1, <4>2 DEF WorkOf, InTx
    <3> QED  BY <3>1, <3>2
  <2> QED  BY <2>1 DEF WorkSound
<1>9. HooksSound'
  BY <1>1, <1>2, <1>3 DEF TxInv, HooksSound
<1>10. HooksCounted'
  <2>1. RunningHooks(c)' = {}
    BY <1>3, <1>4 DEF RunningHooks
  <2>2. \A e \in Conns \ {c} : RunningHooks(e)' = RunningHooks(e) /\ owed'[e] = owed[e]
    BY <1>1, <1>2, <1>3 DEF RunningHooks
  <2> QED  BY <1>1, <1>2, <2>1, <2>2, FS_EmptySet DEF TxInv, HooksCounted
<1> QED  BY <1>5, <1>6, <1>7, <1>8, <1>9, <1>10 DEF TxInv

LEMMA TxInvKept ==
    ASSUME TxInv, [TxNext]_txVars
    PROVE  TxInv'
<1>1. ASSUME NEW t \in Threads, Call(t) \/ ThreadStep(t) \/ Fails(t)
      PROVE  TxInv'
  BY <1>1, OneMoves, TypesKept, LocksKept, WorkKept, HooksKept, CountKept DEF TxInv
\* While no transaction is open.
<1>2. /\ writer = None => \A t \in Threads : thread[t].pc \notin InTx
      /\ None \notin Threads /\ None \notin Conns /\ ConnOf \in [Threads -> Conns]
      /\ conn \in [Conns -> {"clean", "open", "closed"}]
  BY ConnOfAssumption, TxNoneAssumption DEF TxInv, LocksSound, TxTypeOK
<1>3. ASSUME UNCHANGED thread, UNCHANGED owed
      PROVE  CallsSound' /\ HooksCounted'
  BY <1>3 DEF TxInv, CallsSound, HooksCounted, RunningHooks
<1>4. ASSUME UNCHANGED thread, writer = None
      PROVE  WorkSound'
  BY <1>2, <1>4 DEF WorkSound, WorkOf, InTx
<1>5. CASE \E t \in Tasks : TaskEnds(t)
  <2>1. /\ writer = None /\ active' \subseteq active
        /\ UNCHANGED <<db, writer, conn, work, mutex, hooks, thread, owed, calls, faults>>
    BY <1>5 DEF TaskEnds
  <2>2. TxTypeOK'
    BY <2>1 DEF TxInv, TxTypeOK
  <2>3. LocksSound' /\ HooksSound'
    BY <2>1 DEF TxInv, LocksSound, HooksSound
  <2> QED  BY <1>3, <1>4, <2>1, <2>2, <2>3 DEF TxInv
<1>6. ASSUME NEW c \in Conns, Leaks(c)
      PROVE  TxInv'
  <2>1. /\ writer = None /\ writer' = c /\ conn[c] = "clean" /\ mutex[c] = None
        /\ conn' = [conn EXCEPT ![c] = "open"]
        /\ UNCHANGED <<db, active, work, mutex, hooks, thread, owed, calls>>
    BY <1>6 DEF Leaks
  <2>2. faults' \in 0 .. MaxFaults
    BY <1>6, BoundsAssumption DEF Leaks, Fault, TxInv, TxTypeOK
  <2>3. TxTypeOK'
    BY <2>1, <2>2 DEF TxInv, TxTypeOK
  <2>4. LocksSound'
    BY <1>2, <2>1 DEF TxInv, LocksSound, Locked
  <2>5. HooksSound'
    BY <1>2, <2>1 DEF TxInv, HooksSound
  <2> QED  BY <1>3, <1>4, <2>1, <2>3, <2>4, <2>5 DEF TxInv
<1>7. CASE UNCHANGED txVars
  <2>1. UNCHANGED <<db, active, writer, conn, work, mutex, hooks, thread, owed, calls, faults>>
    BY <1>7 DEF txVars
  <2>2. TxTypeOK' /\ LocksSound' /\ HooksSound'
    BY <2>1 DEF TxInv, TxTypeOK, LocksSound, HooksSound
  <2>3. WorkSound'
    BY <2>1 DEF TxInv, WorkSound, WorkOf
  <2> QED  BY <1>3, <2>1, <2>2, <2>3 DEF TxInv
<1> QED  BY <1>1, <1>5, <1>6, <1>7, CrashKeeps DEF TxNext

LEMMA TxStarts == TxInit => TxInv
<1> SUFFICES ASSUME TxInit PROVE TxInv
  OBVIOUS
<1>1. ThreadInit.pc = "idle" /\ ThreadInit.own = 0 /\ CallSound(ThreadInit) /\ ThreadInit \in ThreadState
  BY DEF ThreadInit, CallSound, ThreadState
<1>2. EmptyDB \in DB
  BY DEF EmptyDB, DB
<1>3. TxTypeOK
  BY <1>1, <1>2, BoundsAssumption DEF TxInit, TxTypeOK
<1>4. CallsSound /\ LocksSound /\ WorkSound /\ HooksSound
  BY <1>1, TxNoneAssumption
     DEF TxInit, CallsSound, LocksSound, WorkSound, WorkOf, HooksSound, Locked, InTx
<1>5. \A c \in Conns : RunningHooks(c) = {}
  BY <1>1 DEF TxInit, RunningHooks
<1>6. HooksCounted
  BY <1>5, FS_EmptySet DEF TxInit, HooksCounted
<1> QED  BY <1>3, <1>4, <1>6 DEF TxInv

LEMMA TxAlways == TxSpec => []TxInv
  BY TxStarts, TxInvKept, PTL DEF TxSpec

(* A call that returns has committed once, one that raises has not.         *)
THEOREM OneCommitPerCall == TxSpec => []ReturnsMeanCommits
<1>1. TxInv => ReturnsMeanCommits
  BY DEF TxInv, CallsSound, CallSound, ReturnsMeanCommits
<1> QED  BY <1>1, TxAlways, PTL

(* Every committed message has its hook, once, and no other does.           *)
THEOREM HooksRunOnce == TxSpec => []HooksFollowCommits
<1>1. TxInv => HooksFollowCommits
  BY DEF TxInv, CallsSound, CallSound, HooksCounted, HooksFollowCommits
<1> QED  BY <1>1, TxAlways, PTL

-----------------------------------------------------------------------------
(* The refinement.                                                          *)

LEMMA CommitIsTheStep ==
    ASSUME TxInv, [TxNext]_txVars
    PROVE  [Envelopes!EnvelopeNext]_(Envelopes!envelopeVars)
<1>1. ASSUME UNCHANGED <<db, active>>
      PROVE  UNCHANGED Envelopes!envelopeVars
  BY <1>1 DEF Envelopes!envelopeVars
<1>2. db \in DB
  BY DEF TxInv, TxTypeOK
<1>3. ASSUME NEW t \in Threads, Commit(t)
      PROVE  [Envelopes!EnvelopeNext]_(Envelopes!envelopeVars)
  <2> DEFINE op == thread[t].op
  <2>1. thread[t].pc = "commit" /\ db' = work /\ UNCHANGED active
    BY <1>3 DEF Commit
  <2>2. op \in Ops /\ WorkOf(t)
    BY <2>1 DEF TxInv, CallsSound, CallSound, WorkSound
  <2>3. CASE work = db
    BY <1>1, <2>1, <2>3
  <2>4. CASE /\ op.kind = "emit" /\ db.last[op.task] # op.status
             /\ work = Posted(Marked(db, op.task, op.status), op.task, op.status)
    <3>1. op.task \in Tasks /\ op.status \in Statuses
      BY <2>2, <2>4 DEF Ops
    <3>2. /\ db'.last = [db.last EXCEPT ![op.task] = op.status]
          /\ db'.log = [db.log EXCEPT ![op.task] = Append(@, op.status)]
      BY <1>2, <2>1, <2>4 DEF Posted, Marked, DB
    <3>3. Envelopes!EmitStatus(op.task, op.status)
      BY <2>1, <2>4, <3>2 DEF Envelopes!EmitStatus, Envelopes!Tell
    <3> QED  BY <3>1, <3>3 DEF Envelopes!EnvelopeNext
  <2>5. ASSUME NEW rows \in SUBSET Tasks, work = Cleared(db, rows)
        PROVE  Envelopes!ClearDedup(rows)
    BY <2>1, <2>5 DEF Cleared, Envelopes!ClearDedup
  <2>6. CASE op.kind = "clear" /\ work = Cleared(db, {op.task})
    <3>1. op.task \in Tasks
      BY <2>2, <2>6 DEF Ops
    <3>2. Envelopes!ClearDedup({op.task})
      BY <2>5, <2>6, <3>1
    <3> QED  BY <3>1, <3>2 DEF Envelopes!EnvelopeNext
  <2>7. CASE op.kind = "clearall" /\ work = Cleared(db, active)
    <3>1. Envelopes!ClearDedup(active)
      BY <2>5, <2>7 DEF TxInv, TxTypeOK
    <3> QED  BY <3>1 DEF Envelopes!EnvelopeNext
  <2> QED  BY <2>1, <2>2, <2>3, <2>4, <2>6, <2>7 DEF WorkOf
<1>4. ASSUME NEW k \in Tasks, TaskEnds(k)
      PROVE  Envelopes!EnvelopeNext
  <2>1. Envelopes!TaskEnds(k)
    BY <1>4 DEF TaskEnds, Envelopes!TaskEnds
  <2> QED  BY <2>1 DEF Envelopes!EnvelopeNext
<1>5. ASSUME NEW t \in Threads,
             \/ Call(t) \/ Enter(t) \/ Check(t) \/ Begin(t) \/ TimesOut(t)
             \/ Statement(t) \/ RunHooks(t) \/ Fails(t)
      PROVE  UNCHANGED <<db, active>>
  BY <1>5 DEF Call, Enter, Check, Begin, TimesOut, Statement, Mark, InsertMessage, Clear, RunHooks, Fails
<1>6. ASSUME NEW c \in Conns, Leaks(c) \/ Crashes(c)
      PROVE  UNCHANGED <<db, active>>
  BY <1>6 DEF Leaks, Crashes
<1>7. CASE UNCHANGED txVars
  BY <1>1, <1>7 DEF txVars
<1> QED  BY <1>1, <1>3, <1>4, <1>5, <1>6, <1>7 DEF TxNext, ThreadStep

(* Whatever threads, processes, errors, retries and crashes do, what is     *)
(* committed changes as if each call were one step, or had never been made. *)
THEOREM TxImplementsEnvelopes == TxSpec => ImplementsEnvelopes
<1>1. TxInit => Envelopes!EnvelopeInit
  BY DEF TxInit, EmptyDB, Envelopes!EnvelopeInit
<1>2. TxInv /\ [TxNext]_txVars => [Envelopes!EnvelopeNext]_(Envelopes!envelopeVars)
  BY CommitIsTheStep
<1> QED
  BY <1>1, <1>2, TxAlways, PTL DEF TxSpec, ImplementsEnvelopes, Envelopes!EnvelopeSpec

\* The mark m of a row whose log is l.
InLine(m, l) ==
    /\ \A i \in 2 .. Len(l) : l[i] # l[i - 1]
    /\ m = IF l = <<>> \/ l[Len(l)] = "cleared" THEN "null" ELSE l[Len(l)]

\* What is appended differs from what was last, and becomes the mark.
LEMMA AppendingNews ==
    ASSUME NEW l \in Seq(Statuses \cup {"cleared"}), NEW m, NEW x \in Statuses \cup {"cleared"},
           InLine(m, l), IF x = "cleared" THEN m # "null" ELSE m # x
    PROVE  InLine(IF x = "cleared" THEN "null" ELSE x, Append(l, x))
<1> DEFINE n == Append(l, x)
<1>1. /\ Len(l) \in Nat /\ Len(n) = Len(l) + 1 /\ n[Len(n)] = x /\ n # <<>>
      /\ \A i \in 1 .. Len(l) : n[i] = l[i]
  OBVIOUS
<1>2. ASSUME NEW i \in 2 .. Len(n) PROVE n[i] # n[i - 1]
  <2>1. CASE i \in 2 .. Len(l)
    <3>1. i - 1 \in 1 .. Len(l) /\ i \in 1 .. Len(l)
      BY <1>1, <2>1
    <3> QED  BY <1>1, <2>1, <3>1 DEF InLine
  <2>2. CASE i = Len(n)
    <3>1. Len(l) \in 1 .. Len(l) /\ i - 1 = Len(l) /\ l # <<>>
      BY <1>1, <1>2, <2>2
    <3>2. n[i] = x /\ n[i - 1] = l[Len(l)]
      BY <1>1, <2>2, <3>1
    <3>3. l[Len(l)] # x
      BY <3>1 DEF InLine
    <3> QED  BY <3>2, <3>3
  <2> QED  BY <1>1, <1>2, <2>1, <2>2
<1> QED  BY <1>1, <1>2 DEF InLine

(* A step of the promise keeps each row's mark in line with its log.        *)
LEMMA NewsKept ==
    ASSUME TxInv, NewsOnly, [Envelopes!EnvelopeNext]_(Envelopes!envelopeVars)
    PROVE  NewsOnly'
<1>1. /\ db.last \in [Tasks -> Statuses \cup {"null"}]
      /\ db.log \in [Tasks -> Seq(Statuses \cup {"cleared"})]
  BY DEF TxInv, TxTypeOK, DB
<1>2. \A t \in Tasks : InLine(db.last[t], db.log[t])
  BY DEF NewsOnly, InLine
<1>3. ASSUME \A t \in Tasks : InLine(db'.last[t], db'.log[t])
      PROVE  NewsOnly'
  BY <1>3 DEF NewsOnly, InLine
<1>4. ASSUME NEW t \in Tasks, NEW s \in Statuses, Envelopes!EmitStatus(t, s)
      PROVE  NewsOnly'
  <2>1. /\ db.last[t] # s /\ db'.last = [db.last EXCEPT ![t] = s]
        /\ db'.log = [db.log EXCEPT ![t] = Append(@, s)]
    BY <1>4 DEF Envelopes!EmitStatus, Envelopes!Tell
  <2>2. s # "cleared"
    BY TxStatusesAssumption
  <2>3. db.log[t] \in Seq(Statuses \cup {"cleared"}) /\ InLine(db.last[t], db.log[t])
    BY <1>1, <1>2
  <2>4. InLine(s, Append(db.log[t], s))
    BY <2>1, <2>2, <2>3, AppendingNews
  <2>5. \A u \in Tasks : InLine(db'.last[u], db'.log[u])
    BY <1>1, <1>2, <2>1, <2>4
  <2> QED  BY <1>3, <2>5
<1>5. ASSUME NEW rows \in SUBSET Tasks, Envelopes!ClearDedup(rows)
      PROVE  NewsOnly'
  <2> DEFINE hit == {t \in rows : db.last[t] # "null"}
  <2>1. /\ db'.last = [t \in Tasks |-> IF t \in hit THEN "null" ELSE db.last[t]]
        /\ db'.log = [t \in Tasks |-> IF t \in hit THEN Append(db.log[t], "cleared") ELSE db.log[t]]
    BY <1>5 DEF Envelopes!ClearDedup
  <2>2. ASSUME NEW t \in hit PROVE InLine("null", Append(db.log[t], "cleared"))
    <3>1. db.log[t] \in Seq(Statuses \cup {"cleared"}) /\ InLine(db.last[t], db.log[t])
      BY <1>1, <1>2
    <3>2. db.last[t] # "null" /\ "cleared" \in Statuses \cup {"cleared"}
      OBVIOUS
    <3>3. InLine(IF "cleared" = "cleared" THEN "null" ELSE "cleared", Append(db.log[t], "cleared"))
      BY <3>1, <3>2, AppendingNews
    <3> QED  BY <3>3
  <2>3. \A u \in Tasks : InLine(db'.last[u], db'.log[u])
    BY <1>2, <2>1, <2>2
  <2> QED  BY <1>3, <2>3
<1>6. CASE UNCHANGED <<db.last, db.log, active>>
  BY <1>2, <1>3, <1>6
<1>7. /\ active \subseteq Tasks
      /\ \A t \in Tasks : Envelopes!TaskEnds(t) => UNCHANGED <<db.last, db.log>>
  BY DEF TxInv, TxTypeOK, Envelopes!TaskEnds
<1>8. ASSUME NEW t \in Tasks, Envelopes!TaskEnds(t) PROVE NewsOnly'
  BY <1>2, <1>3, <1>7, <1>8
<1> QED
  BY <1>4, <1>5, <1>6, <1>7, <1>8 DEF Envelopes!EnvelopeNext, Envelopes!envelopeVars

(* The user is never told the same status of a task twice in a row.         *)
THEOREM NewsIsNew == TxSpec => []NewsOnly
<1>1. TxInit => NewsOnly
  BY DEF TxInit, EmptyDB, NewsOnly
<1>2. TxInv /\ NewsOnly /\ [TxNext]_txVars => NewsOnly'
  BY CommitIsTheStep, NewsKept
<1> QED  BY <1>1, <1>2, TxAlways, PTL DEF TxSpec
=============================================================================
