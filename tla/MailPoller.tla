------------------------------ MODULE MailPoller ------------------------------
(***************************************************************************)
(* The mailbox and the loop that serves it (src/poller.py and run_loop of  *)
(* main.py).                                                               *)
(*                                                                         *)
(* One process polls, fetches what is unseen, handles the mails of the     *)
(* batch one by one and records each Message-ID, in memory and in a file   *)
(* that replaces the previous one atomically.  What handling a mail means  *)
(* is in MailRelay; here it has been done or not.  FETCH (RFC822) sets     *)
(* \Seen, as IMAP prescribes (RFC 3501, 6.4.5 and 6.4.8), so a mail that   *)
(* has been fetched comes back only when the flag is lost or the mail is   *)
(* delivered once more.                                                    *)
(***************************************************************************)
EXTENDS Integers, Sequences

CONSTANTS
    Mails,          \* e-mails of the user; a Message-ID is the mail itself
    NoId,           \* those of them that carry no Message-ID
    KeepIds,        \* _MAX_PROCESSED_IDS
    MaxDeliveries,  \* bound: mails put into the mailbox, repetitions included
    Troubles,       \* what may go wrong
    MaxTroubles     \* bound: how often

AllTroubles == {"imap", "store", "save", "flag", "stop", "crash"}

ASSUME NoIdAssumption == NoId \subseteq Mails
ASSUME KeepIdsAssumption == KeepIds \in Nat \ {0}
ASSUME MaxDeliveriesAssumption == MaxDeliveries \in Nat
ASSUME TroublesAssumption == Troubles \subseteq AllTroubles /\ MaxTroubles \in Nat

VARIABLES
    mailbox,    \* mailbox[uid]: the mail and its \Seen flag
    processed,  \* _processed_ids, oldest first
    saved,      \* the list in the state file
    loop,       \* run_loop: where it is, what is left of its batch, _shutdown
    acted,      \* history: mails that process_email has been called for
    newer,      \* history: ids recorded since this mail's; KeepIds: not recorded
    dropped,    \* history: uids flagged by a fetch whose batch was cut short
    troubled    \* how often something has gone wrong

vars == <<mailbox, processed, saved, loop, acted, newer, dropped, troubled>>

Uids == 1 .. MaxDeliveries
Entry == [mail : Mails, seen : BOOLEAN]
Points == {"down", "idle", "connected", "batch", "acting", "tending"}
Loop == [pc : Points, batch : SUBSET Uids, shutdown : BOOLEAN]
Elems(s) == {s[i] : i \in DOMAIN s}
MailOf(u) == mailbox[u].mail

PollerTypeOK ==
    /\ mailbox \in Seq(Entry) /\ Len(mailbox) <= MaxDeliveries
    /\ processed \in Seq(Mails) /\ Len(processed) <= KeepIds
    /\ saved \in Seq(Mails) /\ Len(saved) <= KeepIds
    /\ loop \in Loop
    /\ loop.batch \subseteq DOMAIN mailbox
    /\ loop.pc = "acting" => loop.batch # {}
    /\ acted \subseteq Mails
    /\ newer \in [Mails -> 0 .. KeepIds]
    /\ dropped \subseteq Uids
    /\ troubled \in 0 .. MaxTroubles

Init ==
    /\ mailbox = <<>>
    /\ processed = <<>>
    /\ saved = <<>>
    /\ loop = [pc |-> "idle", batch |-> {}, shutdown |-> FALSE]
    /\ acted = {}
    /\ newer = [m \in Mails |-> KeepIds]
    /\ dropped = {}
    /\ troubled = 0

Trouble(kind) ==
    /\ kind \in Troubles
    /\ troubled < MaxTroubles
    /\ troubled' = troubled + 1

Goes(pc, batch) == loop' = [loop EXCEPT !.pc = pc, !.batch = batch]

-----------------------------------------------------------------------------
(***************************************************************************)
(* The mailbox.                                                            *)
(***************************************************************************)

\* A new mail, or one more delivery of a mail that was there before.
Deliver(m) ==
    /\ Len(mailbox) < MaxDeliveries
    /\ mailbox' = Append(mailbox, [mail |-> m, seen |-> FALSE])
    /\ UNCHANGED <<processed, saved, loop, acted, newer, dropped, troubled>>

\* The server or another client of the mailbox clears the flag.
FlagLost(u) ==
    /\ Trouble("flag")
    /\ mailbox[u].seen
    /\ mailbox' = [mailbox EXCEPT ![u].seen = FALSE]
    /\ UNCHANGED <<processed, saved, loop, acted, newer, dropped>>

-----------------------------------------------------------------------------
(***************************************************************************)
(* EmailPoller.                                                            *)
(***************************************************************************)
Unseen == {u \in DOMAIN mailbox : ~mailbox[u].seen}

Flagged(U) == mailbox' = [u \in DOMAIN mailbox |->
                  [mailbox[u] EXCEPT !.seen = @ \/ u \in U]]

\* Mutant: a mail without an id is taken for a processed one.
FreshIfNamed(U) == {u \in U : MailOf(u) \notin Elems(processed) \cup NoId}

\* What fetch_unseen returns: mails without an id are always fresh.
Fresh(U) == {u \in U : MailOf(u) \notin Elems(processed)}

FetchUnseen ==
    /\ loop.pc = "connected"
    /\ Flagged(Unseen)
    /\ Goes("batch", Fresh(Unseen))
    /\ UNCHANGED <<processed, saved, acted, newer, dropped, troubled>>

\* The connection breaks after the first n of the unseen have been fetched.
FetchBreaks(n) ==
    LET fetched == {u \in Unseen : u <= n} IN
    /\ loop.pc = "connected"
    /\ Trouble("imap")
    /\ Flagged(fetched)
    /\ dropped' = dropped \cup Fresh(fetched)
    /\ Goes("tending", {})
    /\ UNCHANGED <<processed, saved, acted, newer>>

\* The mail at hand: mails come in the order of their uids.
Current == CHOOSE u \in loop.batch : \A v \in loop.batch : u <= v

\* dict[id] = None keeps the place of an id that is there.
Added(m) == IF m \in Elems(processed) THEN processed ELSE Append(processed, m)

\* Mutants: the store is trimmed at the wrong end; it is not trimmed.
RememberOldest(m) ==
    SubSeq(Added(m), 1, IF Len(Added(m)) > KeepIds THEN KeepIds ELSE Len(Added(m)))
RememberAll(m) == Added(m)

Remember(m) == IF Len(Added(m)) > KeepIds THEN Tail(Added(m)) ELSE Added(m)

Aged(age) == IF age < KeepIds THEN age + 1 ELSE KeepIds

\* What is newer than each id once m is in the store, with a saved file or not.
Newer(m, kept) ==
    IF m \in Elems(processed) THEN newer
    ELSE [n \in Mails |-> IF n = m THEN IF kept THEN 0 ELSE KeepIds ELSE Aged(newer[n])]

MarkProcessed(stored, kept) ==
    LET m == MailOf(Current) IN
    /\ IF stored THEN Flagged({Current}) ELSE UNCHANGED mailbox
    /\ IF m \in NoId THEN UNCHANGED <<processed, saved, newer>>
       ELSE /\ processed' = Remember(m)
            /\ saved' = IF kept THEN Remember(m) ELSE saved
            /\ newer' = Newer(m, kept)

-----------------------------------------------------------------------------
(***************************************************************************)
(* run_loop.                                                               *)
(***************************************************************************)
Connect ==
    /\ loop.pc = "idle" /\ ~loop.shutdown
    /\ Goes("connected", {})
    /\ UNCHANGED <<mailbox, processed, saved, acted, newer, dropped, troubled>>

ConnectFails ==
    /\ loop.pc = "idle" /\ ~loop.shutdown
    /\ Trouble("imap")
    /\ Goes("tending", {})
    /\ UNCHANGED <<mailbox, processed, saved, acted, newer, dropped>>

ProcessEmail ==
    /\ loop.pc = "batch" /\ loop.batch # {} /\ ~loop.shutdown
    /\ acted' = acted \cup {MailOf(Current)}
    /\ Goes("acting", loop.batch)
    /\ UNCHANGED <<mailbox, processed, saved, newer, dropped, troubled>>

\* Whether process_email returned or raised.
Marks ==
    /\ loop.pc = "acting"
    /\ MarkProcessed(TRUE, TRUE)
    /\ Goes("batch", loop.batch \ {Current})
    /\ UNCHANGED <<acted, dropped, troubled>>

\* Only a warning: the mail had its flag from the fetch.
StoreFails ==
    /\ loop.pc = "acting"
    /\ Trouble("store")
    /\ MarkProcessed(FALSE, TRUE)
    /\ Goes("batch", loop.batch \ {Current})
    /\ UNCHANGED <<acted, dropped>>

\* The state file cannot be written: the exception leaves the batch.
SaveFails ==
    /\ loop.pc = "acting"
    /\ MailOf(Current) \notin NoId
    /\ Trouble("save")
    /\ MarkProcessed(TRUE, FALSE)
    /\ dropped' = dropped \cup (loop.batch \ {Current})
    /\ Goes("tending", {})
    /\ UNCHANGED acted

EndBatch ==
    /\ loop.pc = "batch"
    /\ loop.batch = {} \/ loop.shutdown
    /\ dropped' = dropped \cup loop.batch
    /\ Goes("tending", {})
    /\ UNCHANGED <<mailbox, processed, saved, acted, newer, troubled>>

\* The chores of the tick, and the sleep.
Tend ==
    /\ loop.pc = "tending"
    /\ Goes("idle", {})
    /\ UNCHANGED <<mailbox, processed, saved, acted, newer, dropped, troubled>>

HandleSignal ==
    /\ loop.pc # "down" /\ ~loop.shutdown
    /\ Trouble("stop")
    /\ loop' = [loop EXCEPT !.shutdown = TRUE]
    /\ UNCHANGED <<mailbox, processed, saved, acted, newer, dropped>>

Exit ==
    /\ loop.pc = "idle" /\ loop.shutdown
    /\ Goes("down", {})
    /\ UNCHANGED <<mailbox, processed, saved, acted, newer, dropped, troubled>>

Crash ==
    /\ loop.pc # "down"
    /\ Trouble("crash")
    /\ dropped' = dropped \cup loop.batch
    /\ Goes("down", {})
    /\ UNCHANGED <<mailbox, processed, saved, acted, newer>>

Start ==
    /\ loop.pc = "down"
    /\ processed' = saved
    /\ loop' = [pc |-> "idle", batch |-> {}, shutdown |-> FALSE]
    /\ UNCHANGED <<mailbox, saved, acted, newer, dropped, troubled>>

-----------------------------------------------------------------------------
LoopStep ==
    \/ Connect \/ FetchUnseen \/ ProcessEmail \/ Marks \/ EndBatch \/ Tend
    \/ Exit \/ Start

Next ==
    \/ LoopStep
    \/ \E m \in Mails : Deliver(m)
    \/ \E u \in DOMAIN mailbox : FlagLost(u)
    \/ \E n \in 0 .. Len(mailbox) : FetchBreaks(n)
    \/ ConnectFails \/ StoreFails \/ SaveFails \/ HandleSignal \/ Crash

PollerSpec == Init /\ [][Next]_vars

\* The service runs, and systemd or the user starts it again.
FairPollerSpec == PollerSpec /\ WF_vars(LoopStep)

-----------------------------------------------------------------------------
\* A mail whose id was saved, and after which fewer than KeepIds others came,
\* is never handed out by a later fetch, through failed saves, lost flags,
\* repeated deliveries, crashes and restarts (fetch_unseen, mark_processed,
\* _save_state, _load_state).
NeverFetchedAgain ==
    [][loop.pc = "connected" /\ loop'.pc = "batch"
         => \A u \in loop'.batch : newer[MailOf(u)] = KeepIds]_vars

\* Every mail is handed to process_email, unless a fetch flagged it and its
\* batch was cut short by an error, a signal or a crash.
ServedOrDropped ==
    \A u \in Uids :
        u \in DOMAIN mailbox ~>
            (u \in DOMAIN mailbox /\ (MailOf(u) \in acted \/ u \in dropped))
=============================================================================
