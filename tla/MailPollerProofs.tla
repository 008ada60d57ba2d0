--------------------------- MODULE MailPollerProofs ---------------------------
(* Theorems about the mail loop, for every set of mails, every size of the  *)
(* store of ids and every sequence of troubles.                             *)
EXTENDS MailPoller, TLAPS, SequenceTheorems, WellFoundedInduction

\* Every recorded id is in the store, with no more ids after it than came later.
Kept(store) ==
    \A m \in Mails : newer[m] < KeepIds =>
        \E i \in DOMAIN store : store[i] = m /\ Len(store) - i <= newer[m]

PollerInv == PollerTypeOK /\ Kept(processed) /\ Kept(saved)

-----------------------------------------------------------------------------
\* The mail at hand is one of the batch, the first.
LEMMA CurrentInBatch ==
    ASSUME PollerTypeOK, loop.batch # {}
    PROVE  Current \in loop.batch /\ MailOf(Current) \in Mails
<1>1. loop.batch \subseteq Nat /\ loop.batch \subseteq DOMAIN mailbox
  BY MaxDeliveriesAssumption DEF PollerTypeOK, Uids
<1>2. PICK u \in loop.batch : \A v \in loop.batch : ~ (<<v, u>> \in OpToRel(<, Nat))
  BY <1>1, NatLessThanWellFounded, WFMin
<1>3. \A v \in loop.batch : u <= v
  <2>1. ASSUME NEW v \in Nat, v < u
        PROVE  <<v, u>> \in OpToRel(<, Nat)
    <3>1. <<v, u>> \in Nat \X Nat
      BY <1>1
    <3> QED
      BY <2>1, <3>1 DEF OpToRel
  <2>2. TAKE v \in loop.batch
  <2>3. v \in Nat /\ u \in Nat
    BY <1>1
  <2>4. ~ (v < u)
    BY <1>2, <2>1, <2>3
  <2> QED
    BY <2>3, <2>4
<1>4. Current \in loop.batch
  BY <1>3 DEF Current
<1>5. mailbox[Current] \in Entry
  BY <1>1, <1>4, ElementOfSeq, LenProperties DEF PollerTypeOK
<1> QED
  BY <1>4, <1>5 DEF MailOf, Entry

\* Flags change, and nothing else of the mailbox.
LEMMA FlaggedTyped ==
    ASSUME PollerTypeOK, NEW U, Flagged(U)
    PROVE  /\ mailbox' \in Seq(Entry)
           /\ DOMAIN mailbox' = DOMAIN mailbox
           /\ Len(mailbox') = Len(mailbox)
           /\ \A u \in DOMAIN mailbox : mailbox'[u].mail = mailbox[u].mail
<1>1. /\ Len(mailbox) \in Nat /\ DOMAIN mailbox = 1 .. Len(mailbox)
      /\ \A u \in DOMAIN mailbox : mailbox[u] \in Entry
  BY ElementOfSeq, LenProperties DEF PollerTypeOK
<1>2. ASSUME NEW u \in DOMAIN mailbox
      PROVE  /\ [mailbox[u] EXCEPT !.seen = @ \/ u \in U] \in Entry
             /\ [mailbox[u] EXCEPT !.seen = @ \/ u \in U].mail = mailbox[u].mail
  <2>1. mailbox[u] \in Entry
    BY <1>1
  <2>2. (mailbox[u].seen \/ u \in U) \in BOOLEAN
    OBVIOUS
  <2> QED
    BY <2>1, <2>2 DEF Entry
<1>3. mailbox' = [u \in 1 .. Len(mailbox) |-> [mailbox[u] EXCEPT !.seen = @ \/ u \in U]]
  BY <1>1 DEF Flagged
<1>4. \A u \in 1 .. Len(mailbox) : mailbox'[u] \in Entry /\ mailbox'[u].mail = mailbox[u].mail
  BY <1>1, <1>2, <1>3
<1>5. DOMAIN mailbox' = 1 .. Len(mailbox)
  BY <1>3
<1>6. mailbox' \in Seq(Entry)
  <2>1. mailbox' = [u \in 1 .. Len(mailbox) |-> mailbox'[u]]
    BY <1>3, <1>5
  <2> QED
    BY <2>1, <1>1, <1>4, IsASeq
<1>7. Len(mailbox') = Len(mailbox)
  BY <1>1, <1>5, <1>6, LenProperties
<1> QED
  BY <1>1, <1>4, <1>5, <1>6, <1>7

\* What adding an id to the store and trimming it does.
LEMMA RememberEffect ==
    ASSUME PollerTypeOK, NEW m \in Mails
    PROVE  /\ Remember(m) \in Seq(Mails) /\ Len(Remember(m)) <= KeepIds
           /\ m \in Elems(processed) => Remember(m) = processed
           /\ m \notin Elems(processed) =>
                LET r == Remember(m) IN
                /\ Len(r) \in DOMAIN r /\ r[Len(r)] = m
                /\ \A i \in DOMAIN processed : Len(processed) + 1 - i < KeepIds =>
                     \E j \in DOMAIN r : /\ r[j] = processed[i]
                                         /\ Len(r) - j = Len(processed) + 1 - i
<1>1. /\ processed \in Seq(Mails) /\ Len(processed) \in Nat /\ Len(processed) <= KeepIds
      /\ DOMAIN processed = 1 .. Len(processed) /\ KeepIds \in Nat /\ KeepIds > 0
  BY LenProperties, KeepIdsAssumption DEF PollerTypeOK
<1>2. CASE m \in Elems(processed)
  <2>1. Added(m) = processed
    BY <1>2 DEF Added
  <2>2. Remember(m) = processed
    <3>1. ~ (Len(processed) > KeepIds)
      BY <1>1
    <3> QED
      BY <2>1, <3>1 DEF Remember
  <2> QED
    BY <1>1, <1>2, <2>2
<1>3. CASE m \notin Elems(processed)
  <2> DEFINE a == Append(processed, m)  r == Remember(m)  n == Len(processed)
  <2>1. /\ a \in Seq(Mails) /\ Len(a) = n + 1 /\ a # <<>>
        /\ \A i \in 1 .. n : a[i] = processed[i]
        /\ a[n + 1] = m
    BY <1>1, AppendProperties
  <2>2. r = IF n + 1 > KeepIds THEN Tail(a) ELSE a
    BY <1>3, <2>1 DEF Remember, Added
  <2> HIDE DEF a, r
  <2>3. CASE n + 1 > KeepIds
    <3>1. r = Tail(a) /\ n = KeepIds
      <4>1. n = KeepIds
        <5>1. n \in Nat /\ KeepIds \in Nat /\ n <= KeepIds /\ n + 1 > KeepIds
          BY <1>1, <2>3
        <5> HIDE DEF n
        <5> QED
          BY <5>1
      <4> QED
        BY <2>2, <2>3, <4>1
    <3>2. /\ r \in Seq(Mails) /\ Len(r) = n
          /\ \A i \in 1 .. n : r[i] = a[i + 1]
      BY <1>1, <2>1, <3>1, HeadTailProperties
    <3>3. DOMAIN r = 1 .. n /\ r[n] = m /\ n >= 1
      BY <1>1, <2>1, <3>1, <3>2, LenProperties
    <3>4. ASSUME NEW i \in DOMAIN processed, n + 1 - i < KeepIds
          PROVE  \E j \in DOMAIN r : r[j] = processed[i] /\ Len(r) - j = n + 1 - i
      <4>1. i - 1 \in DOMAIN r /\ r[i - 1] = a[i] /\ Len(r) - (i - 1) = n + 1 - i
        BY <1>1, <3>1, <3>2, <3>3, <3>4
      <4> QED
        BY <1>1, <2>1, <4>1
    <3> QED
      BY <1>1, <1>3, <3>1, <3>2, <3>3, <3>4 DEF r
  <2>4. CASE ~ (n + 1 > KeepIds)
    <3>1. r = a
      BY <2>2, <2>4
    <3>2. DOMAIN r = 1 .. n + 1 /\ Len(r) = n + 1 /\ r \in Seq(Mails)
      BY <2>1, <3>1, LenProperties
    <3>3. ASSUME NEW i \in DOMAIN processed
          PROVE  i \in DOMAIN r /\ r[i] = processed[i] /\ Len(r) - i = n + 1 - i
      BY <1>1, <2>1, <3>1, <3>2
    <3>4. Len(r) \in DOMAIN r /\ r[Len(r)] = m
      BY <1>1, <2>1, <3>1, <3>2
    <3> QED
      BY <1>1, <1>3, <2>4, <3>2, <3>3, <3>4 DEF r
  <2> QED
    BY <2>3, <2>4
<1> QED
  BY <1>2, <1>3

-----------------------------------------------------------------------------
\* A saved id stays within reach in the memory and in the file; an id that
\* could not be saved pushes others back, and is itself not counted on.
LEMMA MarkKeeps ==
    ASSUME PollerInv, loop.batch # {}, NEW stored \in BOOLEAN, NEW kept \in BOOLEAN,
           MarkProcessed(stored, kept)
    PROVE  /\ mailbox' \in Seq(Entry)
           /\ DOMAIN mailbox' = DOMAIN mailbox
           /\ Len(mailbox') = Len(mailbox)
           /\ processed' \in Seq(Mails) /\ Len(processed') <= KeepIds
           /\ saved' \in Seq(Mails) /\ Len(saved') <= KeepIds
           /\ newer' \in [Mails -> 0 .. KeepIds]
           /\ Kept(processed)' /\ Kept(saved)'
<1> DEFINE m == MailOf(Current)
<1>1. m \in Mails
  BY CurrentInBatch DEF PollerInv
<1>2. /\ mailbox' \in Seq(Entry)
      /\ DOMAIN mailbox' = DOMAIN mailbox
      /\ Len(mailbox') = Len(mailbox)
  <2>1. CASE stored
    BY <2>1, FlaggedTyped DEF MarkProcessed, PollerInv
  <2>2. CASE ~stored
    BY <2>2 DEF MarkProcessed, PollerInv, PollerTypeOK
  <2> QED
    BY <2>1, <2>2
<1>3. CASE m \in NoId
  <2>1. processed' = processed /\ saved' = saved /\ newer' = newer
    BY <1>3 DEF MarkProcessed
  <2> QED
    BY <1>2, <2>1 DEF PollerInv, PollerTypeOK, Kept
<1>4. CASE m \notin NoId
  <2>1. /\ processed' = Remember(m)
        /\ saved' = IF kept THEN processed' ELSE saved
        /\ newer' = Newer(m, kept)
    BY <1>4 DEF MarkProcessed
  <2>2. /\ processed' \in Seq(Mails) /\ Len(processed') <= KeepIds
        /\ saved' \in Seq(Mails) /\ Len(saved') <= KeepIds
    BY <1>1, <2>1, RememberEffect DEF PollerInv, PollerTypeOK
  <2>3. newer \in [Mails -> 0 .. KeepIds] /\ KeepIds \in Nat /\ KeepIds > 0
    BY KeepIdsAssumption DEF PollerInv, PollerTypeOK
  <2>4. CASE m \in Elems(processed)
    <3>1. processed' = processed /\ newer' = newer
      BY <1>1, <2>1, <2>4, RememberEffect DEF Newer, PollerInv
    <3> QED
      BY <1>2, <2>1, <2>2, <2>3, <3>1 DEF PollerInv, Kept
  <2>5. CASE m \notin Elems(processed)
    <3>1. /\ newer' \in [Mails -> 0 .. KeepIds]
          /\ newer'[m] = IF kept THEN 0 ELSE KeepIds
          /\ \A n \in Mails : n # m => newer'[n] = Aged(newer[n])
      BY <1>1, <2>1, <2>3, <2>5 DEF Newer, Aged
    <3>2. ASSUME NEW n \in Mails, n # m, newer'[n] < KeepIds
          PROVE  newer[n] < KeepIds /\ newer'[n] = newer[n] + 1
      BY <2>3, <3>1, <3>2 DEF Aged
    <3>3. ASSUME NEW n \in Mails, newer'[n] < KeepIds, n # m \/ kept
          PROVE  \E i \in DOMAIN processed' :
                    processed'[i] = n /\ Len(processed') - i <= newer'[n]
      <4>1. CASE n = m
        <5>1. /\ Len(processed') \in DOMAIN processed'
              /\ processed'[Len(processed')] = m
          BY <1>1, <2>1, <2>5, RememberEffect DEF PollerInv
        <5>2. newer'[n] = 0 /\ Len(processed') \in Nat
          BY <2>2, <3>1, <3>3, <4>1, LenProperties
        <5> QED
          BY <4>1, <5>1, <5>2
      <4>2. CASE n # m
        <5>1. newer[n] < KeepIds /\ newer'[n] = newer[n] + 1
          BY <3>2, <3>3, <4>2
        <5>2. PICK i \in DOMAIN processed :
                processed[i] = n /\ Len(processed) - i <= newer[n]
          BY <5>1 DEF PollerInv, Kept
        <5>3. Len(processed) \in Nat /\ i \in Nat /\ newer[n] \in Nat
          BY <2>3, LenProperties DEF PollerInv, PollerTypeOK
        <5>4. Len(processed) + 1 - i < KeepIds
          BY <2>3, <3>3, <5>1, <5>2, <5>3
        <5>5. PICK j \in DOMAIN processed' :
                /\ processed'[j] = processed[i]
                /\ Len(processed') - j = Len(processed) + 1 - i
          BY <1>1, <2>1, <2>5, <5>4, RememberEffect DEF PollerInv
        <5>6. Len(processed') - j <= newer'[n]
          BY <5>1, <5>2, <5>3, <5>5
        <5> QED
          BY <5>2, <5>5, <5>6
      <4> QED
        BY <4>1, <4>2
    <3>4. \A n \in Mails : newer'[n] < KeepIds => n # m \/ kept
      BY <2>3, <3>1
    <3>5. Kept(processed)'
      BY <3>3, <3>4 DEF Kept
    <3>6. Kept(saved)'
      <4>1. CASE kept
        BY <2>1, <3>5, <4>1 DEF Kept
      <4>2. CASE ~kept
        <5>1. SUFFICES ASSUME NEW n \in Mails, newer'[n] < KeepIds
                       PROVE  \E i \in DOMAIN saved :
                                 saved[i] = n /\ Len(saved) - i <= newer'[n]
          BY <2>1, <4>2 DEF Kept
        <5>2. newer[n] < KeepIds /\ newer'[n] = newer[n] + 1
          BY <3>2, <3>4, <4>2, <5>1
        <5>3. PICK i \in DOMAIN saved : saved[i] = n /\ Len(saved) - i <= newer[n]
          BY <5>2 DEF PollerInv, Kept
        <5>4. Len(saved) \in Nat /\ i \in Nat /\ newer[n] \in Nat
          BY <2>3, LenProperties DEF PollerInv, PollerTypeOK
        <5> QED
          BY <5>2, <5>3, <5>4
      <4> QED
        BY <4>1, <4>2
    <3> QED
      BY <1>2, <2>2, <3>1, <3>5, <3>6
  <2> QED
    BY <2>4, <2>5
<1> QED
  BY <1>3, <1>4
-----------------------------------------------------------------------------
(* The invariant.                                                           *)
LEMMA PollerInitial == ASSUME Init PROVE PollerInv
<1>1. KeepIds \in Nat /\ KeepIds > 0 /\ MaxDeliveries \in Nat /\ MaxTroubles \in Nat
  BY KeepIdsAssumption, MaxDeliveriesAssumption, TroublesAssumption
<1>2. PollerTypeOK
  BY <1>1 DEF Init, PollerTypeOK, Loop, Points
<1>3. \A m \in Mails : ~ (newer[m] < KeepIds)
  <2>1. \A m \in Mails : newer[m] = KeepIds
    BY DEF Init
  <2>2. ~ (KeepIds < KeepIds)
    BY <1>1
  <2> QED
    BY <2>1, <2>2
<1> QED
  BY <1>2, <1>3 DEF PollerInv, Kept

\* A step that leaves the store, the file and their history alone.
LEMMA StoreUntouched ==
    ASSUME PollerInv, UNCHANGED <<processed, saved, newer>>, PollerTypeOK'
    PROVE  PollerInv'
BY DEF PollerInv, Kept

\* One more trouble is within the bound.
LEMMA TroubleBounded ==
    ASSUME PollerTypeOK, NEW kind, Trouble(kind)
    PROVE  troubled' \in 0 .. MaxTroubles
BY TroublesAssumption DEF PollerTypeOK, Trouble

\* The loop moves on with another batch.
LEMMA LoopMoves ==
    ASSUME PollerTypeOK, NEW pc \in Points, NEW B \in SUBSET Uids, Goes(pc, B)
    PROVE  loop' \in Loop /\ loop'.pc = pc /\ loop'.batch = B
BY DEF PollerTypeOK, Goes, Loop

LEMMA PollerStep == ASSUME PollerInv, [Next]_vars PROVE PollerInv'
<1>0. /\ MaxTroubles \in Nat /\ troubled \in 0 .. MaxTroubles
      /\ PollerTypeOK /\ Len(mailbox) \in Nat /\ DOMAIN mailbox = 1 .. Len(mailbox)
      /\ MaxDeliveries \in Nat /\ Len(mailbox) <= MaxDeliveries
      /\ Unseen \subseteq DOMAIN mailbox
  BY TroublesAssumption, MaxDeliveriesAssumption, LenProperties
  DEF PollerInv, PollerTypeOK, Unseen
<1>1. ASSUME NEW m \in Mails, Deliver(m)
      PROVE  PollerInv'
  <2>1. [mail |-> m, seen |-> FALSE] \in Entry
    BY DEF Entry
  <2> DEFINE e == [mail |-> m, seen |-> FALSE]
  <2>2. mailbox' = Append(mailbox, e)
    BY <1>1 DEF Deliver
  <2>3. /\ mailbox' \in Seq(Entry) /\ Len(mailbox') = Len(mailbox) + 1
    <3> HIDE DEF e
    <3> QED
      BY <1>0, <2>1, <2>2, AppendProperties DEF PollerTypeOK, e
  <2>4. Len(mailbox') <= MaxDeliveries /\ DOMAIN mailbox \subseteq DOMAIN mailbox'
    BY <1>0, <1>1, <2>3, LenProperties DEF Deliver
  <2>5. PollerTypeOK'
    BY <1>0, <1>1, <2>3, <2>4 DEF Deliver, PollerTypeOK
  <2> QED
    BY <1>1, <2>5, StoreUntouched DEF Deliver
<1>2. ASSUME NEW u \in DOMAIN mailbox, FlagLost(u)
      PROVE  PollerInv'
  <2>1. mailbox[u] \in Entry
    BY <1>0, <1>2, ElementOfSeq DEF PollerTypeOK
  <2>2. [mailbox[u] EXCEPT !.seen = FALSE] \in Entry
    BY <2>1 DEF Entry
  <2>3. mailbox' = [mailbox EXCEPT ![u] = [mailbox[u] EXCEPT !.seen = FALSE]]
    BY <1>2 DEF FlagLost
  <2>4. mailbox' \in Seq(Entry) /\ Len(mailbox') = Len(mailbox) /\ DOMAIN mailbox' = DOMAIN mailbox
    BY <1>0, <2>2, <2>3, ExceptSeq DEF PollerTypeOK
  <2>5. PollerTypeOK'
    BY <1>0, <1>2, <2>4, TroubleBounded DEF FlagLost, PollerTypeOK
  <2> QED
    BY <1>2, <2>5, StoreUntouched DEF FlagLost
<1>3. CASE FetchUnseen
  <2>1. /\ mailbox' \in Seq(Entry) /\ DOMAIN mailbox' = DOMAIN mailbox
        /\ Len(mailbox') = Len(mailbox)
    BY <1>0, <1>3, FlaggedTyped DEF FetchUnseen
  <2>2. Fresh(Unseen) \subseteq DOMAIN mailbox /\ Fresh(Unseen) \subseteq Uids
    BY <1>0 DEF Fresh, Uids
  <2>3. PollerTypeOK'
    <3>1. loop' \in Loop /\ loop'.pc = "batch" /\ loop'.batch = Fresh(Unseen)
      BY <1>0, <1>3, <2>2, LoopMoves DEF FetchUnseen, Points
    <3> QED
      BY <1>0, <1>3, <2>1, <2>2, <3>1 DEF FetchUnseen, PollerTypeOK
  <2> QED
    BY <1>3, <2>3, StoreUntouched DEF FetchUnseen
<1>4. ASSUME NEW n \in 0 .. Len(mailbox), FetchBreaks(n)
      PROVE  PollerInv'
  <2> DEFINE fetched == {u \in Unseen : u <= n}
  <2>1. /\ mailbox' \in Seq(Entry) /\ DOMAIN mailbox' = DOMAIN mailbox
        /\ Len(mailbox') = Len(mailbox)
    <3>1. Flagged(fetched)
      BY <1>4 DEF FetchBreaks
    <3> QED
      BY <1>0, <3>1, FlaggedTyped
  <2>2. Fresh(fetched) \subseteq Uids
    BY <1>0 DEF Fresh, Uids
  <2>3. /\ dropped' = dropped \cup Fresh(fetched)
        /\ Goes("tending", {}) /\ Trouble("imap")
        /\ UNCHANGED <<processed, saved, acted, newer>>
    BY <1>4 DEF FetchBreaks
  <2> HIDE DEF fetched
  <2>4. PollerTypeOK'
    <3>1. loop' \in Loop /\ loop'.pc = "tending" /\ loop'.batch = {}
      BY <1>0, <2>3, LoopMoves DEF Points
    <3>2. troubled' \in 0 .. MaxTroubles
      BY <1>0, <2>3, TroubleBounded
    <3> QED
      BY <1>0, <2>1, <2>2, <2>3, <3>1, <3>2 DEF PollerTypeOK
  <2> QED
    BY <2>3, <2>4, StoreUntouched
<1>5. ASSUME NEW stored \in BOOLEAN, NEW kept \in BOOLEAN, loop.pc = "acting",
             MarkProcessed(stored, kept), UNCHANGED acted,
             troubled' \in 0 .. MaxTroubles, dropped' \subseteq dropped \cup loop.batch,
             NEW pc \in {"batch", "tending"}, NEW B \in SUBSET loop.batch, Goes(pc, B)
      PROVE  PollerInv'
  <2>1. loop.batch # {}
    BY <1>0, <1>5 DEF PollerTypeOK
  <2>2. /\ mailbox' \in Seq(Entry)
        /\ DOMAIN mailbox' = DOMAIN mailbox
        /\ Len(mailbox') = Len(mailbox)
        /\ processed' \in Seq(Mails) /\ Len(processed') <= KeepIds
        /\ saved' \in Seq(Mails) /\ Len(saved') <= KeepIds
        /\ newer' \in [Mails -> 0 .. KeepIds]
        /\ Kept(processed)' /\ Kept(saved)'
    BY <1>5, <2>1, MarkKeeps
  <2>3. PollerTypeOK'
    <3>1. loop' \in Loop /\ loop'.pc = pc /\ loop'.batch = B
      BY <1>0, <1>5, LoopMoves DEF Points, PollerTypeOK, Loop
    <3> QED
      BY <1>0, <1>5, <2>2, <3>1 DEF PollerTypeOK, Loop
  <2> QED
    BY <2>2, <2>3 DEF PollerInv
<1>6. CASE Marks
  <2>1. /\ loop.pc = "acting" /\ MarkProcessed(TRUE, TRUE) /\ UNCHANGED acted
        /\ Goes("batch", loop.batch \ {Current}) /\ dropped' \subseteq dropped \cup loop.batch
        /\ troubled' \in 0 .. MaxTroubles
    BY <1>0, <1>6 DEF Marks
  <2> QED
    BY <2>1, <1>5
<1>7. CASE StoreFails
  <2>1. /\ loop.pc = "acting" /\ MarkProcessed(FALSE, TRUE) /\ UNCHANGED acted
        /\ Goes("batch", loop.batch \ {Current}) /\ dropped' \subseteq dropped \cup loop.batch
        /\ troubled' \in 0 .. MaxTroubles
    BY <1>0, <1>7, TroubleBounded DEF StoreFails
  <2> QED
    BY <2>1, <1>5
<1>8. CASE SaveFails
  <2>1. /\ loop.pc = "acting" /\ MarkProcessed(TRUE, FALSE) /\ UNCHANGED acted
        /\ Goes("tending", {}) /\ dropped' \subseteq dropped \cup loop.batch
        /\ troubled' \in 0 .. MaxTroubles
    BY <1>0, <1>8, TroubleBounded DEF SaveFails
  <2> QED
    BY <2>1, <1>5
<1>9. ASSUME NEW pc \in Points \ {"acting"}, Goes(pc, {}),
             UNCHANGED <<mailbox, processed, saved, newer, acted>>,
             dropped' \subseteq dropped \cup loop.batch, troubled' \in 0 .. MaxTroubles
      PROVE  PollerInv'
  <2>1. loop' \in Loop /\ loop'.pc # "acting" /\ loop'.batch = {}
    BY <1>0, <1>9, LoopMoves
  <2>2. PollerTypeOK'
    BY <1>0, <1>9, <2>1 DEF PollerTypeOK, Loop
  <2> QED
    BY <1>9, <2>2, StoreUntouched
<1>13. CASE Connect \/ Tend \/ Exit \/ EndBatch
  BY <1>0, <1>9, <1>13 DEF Connect, Tend, Exit, EndBatch, Points
<1>14. CASE ConnectFails \/ Crash
  BY <1>0, <1>9, <1>14, TroubleBounded DEF ConnectFails, Crash, Points
<1>15. CASE HandleSignal
  <2>1. troubled' \in 0 .. MaxTroubles
    BY <1>0, <1>15, TroubleBounded DEF HandleSignal
  <2>2. loop' \in Loop /\ loop'.pc = loop.pc /\ loop'.batch = loop.batch
    BY <1>0, <1>15 DEF HandleSignal, PollerTypeOK, Loop
  <2>3. PollerTypeOK'
    BY <1>0, <1>15, <2>1, <2>2 DEF HandleSignal, PollerTypeOK
  <2> QED
    BY <1>15, <2>3, StoreUntouched DEF HandleSignal
<1>10. CASE ProcessEmail
  <2>1. MailOf(Current) \in Mails
    BY <1>0, <1>10, CurrentInBatch DEF ProcessEmail
  <2>2. PollerTypeOK'
    <3>1. loop' \in Loop /\ loop'.pc = "acting" /\ loop'.batch = loop.batch
      BY <1>0, <1>10, LoopMoves DEF ProcessEmail, Points, PollerTypeOK, Loop
    <3> QED
      BY <1>0, <1>10, <2>1, <3>1 DEF ProcessEmail, PollerTypeOK
  <2> QED
    BY <1>10, <2>2, StoreUntouched DEF ProcessEmail
<1>11. CASE Start
  BY <1>0, <1>11 DEF Start, PollerInv, PollerTypeOK, Kept, Loop, Points
<1>12. CASE UNCHANGED vars
  BY <1>0, <1>12 DEF vars, PollerInv, PollerTypeOK, Kept
<1> QED
  BY <1>1, <1>2, <1>3, <1>4, <1>6, <1>7, <1>8, <1>10, <1>11, <1>12, <1>13, <1>14, <1>15
  DEF Next, LoopStep

\* The store, the file and the loop stay well formed, and a saved id stays
\* within reach in both (mark_processed, _save_state, _load_state).
THEOREM PollerInvariant == PollerSpec => []PollerInv
BY PollerInitial, PollerStep, PTL DEF PollerSpec

\* The mailbox, the store and the loop are always well formed.
THEOREM PollerTyped == PollerSpec => []PollerTypeOK
<1>1. PollerInv => PollerTypeOK
  BY DEF PollerInv
<1> QED
  BY <1>1, PollerInvariant, PTL

\* Nothing that was recorded recently is fetched for a second execution, for
\* every size of the store and whatever fails in between.
THEOREM NoReplay == PollerSpec => NeverFetchedAgain
<1> DEFINE Again == loop.pc = "connected" /\ loop'.pc = "batch"
                      => \A u \in loop'.batch : newer[MailOf(u)] = KeepIds
<1>1. ASSUME PollerInv, FetchUnseen
      PROVE  Again
  <2>1. SUFFICES ASSUME NEW u \in Fresh(Unseen)
                 PROVE  newer[MailOf(u)] = KeepIds
    BY <1>1 DEF FetchUnseen, Goes, PollerInv, PollerTypeOK
  <2>2. u \in DOMAIN mailbox /\ MailOf(u) \notin Elems(processed)
    BY DEF Fresh, Unseen
  <2>3. MailOf(u) \in Mails
    <3>1. mailbox[u] \in Entry
      BY <1>1, <2>2, ElementOfSeq, LenProperties DEF PollerInv, PollerTypeOK
    <3> QED
      BY <3>1 DEF MailOf, Entry
  <2>4. ~ (newer[MailOf(u)] < KeepIds)
    BY <1>1, <2>2, <2>3 DEF PollerInv, Kept, Elems
  <2>5. newer[MailOf(u)] \in 0 .. KeepIds
    BY <1>1, <2>3 DEF PollerInv, PollerTypeOK
  <2> QED
    BY <2>4, <2>5, KeepIdsAssumption
<1>2. ASSUME PollerInv, [Next]_vars, ~FetchUnseen, loop.pc = "connected"
      PROVE  loop'.pc # "batch"
  <2>1. PollerTypeOK
    BY <1>2 DEF PollerInv
  <2>2. CASE loop' = loop
    BY <1>2, <2>2
  <2>3. CASE \E pc \in {"down", "tending"} : Goes(pc, {})
    BY <2>1, <2>3, LoopMoves DEF Points
  <2>4. CASE HandleSignal
    BY <1>2, <2>1, <2>4 DEF HandleSignal, PollerTypeOK, Loop
  <2>5. Next => loop' = loop \/ (\E pc \in {"down", "tending"} : Goes(pc, {})) \/ HandleSignal
    BY <1>2 DEF Next, LoopStep, Deliver, FlagLost, FetchBreaks, Connect, ConnectFails,
       ProcessEmail, Marks, StoreFails, SaveFails, EndBatch, Tend, Exit, Crash, Start
  <2> QED
    BY <1>2, <2>2, <2>3, <2>4, <2>5 DEF vars
<1>3. PollerInv /\ [Next]_vars => [Again]_vars
  BY <1>1, <1>2
<1> QED
  BY <1>3, PollerInvariant, PTL DEF PollerSpec, NeverFetchedAgain
=============================================================================
