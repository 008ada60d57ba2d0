------------------------------ MODULE MessageBus ------------------------------
(***************************************************************************)
(* The messages table of claude-email: the inboxes of the agents           *)
(* (src/chat_db.py, src/chat_db_impls.py, src/db_maintenance.py).          *)
(*                                                                         *)
(* Each operator below is one transaction of ChatDB, issued by any of the  *)
(* processes that open the file: claude-chat, claude-email and the hook    *)
(* scripts of the agents' sessions.  Ids are AUTOINCREMENT and rows are    *)
(* deleted only by cleanup_old, so the table is a sequence in which a      *)
(* deleted row is "pruned".  Bodies, senders and threading are left out.   *)
(***************************************************************************)
EXTENDS Integers, Sequences

CONSTANTS
    Names,          \* the agents' names, which are the to_name of messages
    MaxMessages     \* bound: rows ever inserted

ASSUME MaxMessagesAssumption == MaxMessages \in Nat

VARIABLE
    messages        \* messages[id] is the row with that id

MessageIds == 1 .. MaxMessages

Message == [to : Names, status : {"pending", "delivered", "failed", "pruned"}]

MessagesOK == messages \in Seq(Message) /\ Len(messages) <= MaxMessages

-----------------------------------------------------------------------------
InboxOf(n, status) ==
    {m \in DOMAIN messages : messages[m].to = n /\ messages[m].status = status}

\* UPDATE messages SET status=? WHERE id IN M; a deleted row is not there.
SetMessages(M, status) ==
    messages' = [m \in DOMAIN messages |->
                   IF m \in M /\ messages[m].status # "pruned"
                   THEN [messages[m] EXCEPT !.status = status] ELSE messages[m]]

PendingMessages(n) == InboxOf(n, "pending")

InsertMessage(n) ==
    /\ Len(messages) < MaxMessages
    /\ messages' = Append(messages, [to |-> n, status |-> "pending"])

ClaimPendingMessages(n) == SetMessages(PendingMessages(n), "delivered")

\* Mutant: a status no query knows.
MarkMessageStuck(m) == SetMessages({m}, "stuck")

MarkMessageFailed(m) == SetMessages({m}, "failed")

RecoverFailedMessages(n) == SetMessages(InboxOf(n, "failed"), "pending")

\* M: what is older than 30 days; pending rows are preserved.
CleanupOld(M) ==
    SetMessages({m \in M : messages[m].status \in {"delivered", "failed"}}, "pruned")
=============================================================================
