--------------------------- MODULE StatusEnvelopes ---------------------------
(***************************************************************************)
(* What the callers of ChatDB are promised of the status envelopes, as if  *)
(* every call were one indivisible step: emit_status tells the user of a   *)
(* state of a task that is news, and clear_status_dedup makes the same     *)
(* state news again (src/status_envelope.py, src/chat_db_impls.py).        *)
(* ChatTx shows that the transactions of src/chat_db_tx.py keep this.      *)
(***************************************************************************)
EXTENDS Integers, Sequences

CONSTANTS
    Tasks,          \* the rows of one project that a status is emitted for
    Statuses        \* STATUS_CODES; "null" and "cleared" are none

VARIABLES
    last,           \* last_sent_status of each row
    log,            \* the status messages and the clears of each row, in order
    active          \* the rows whose status is pending or running

envelopeVars == <<last, log, active>>

EnvelopeInit ==
    /\ last = [t \in Tasks |-> "null"]
    /\ log = [t \in Tasks |-> <<>>]
    /\ active = Tasks

\* What the row and its log become if the mark becomes s.
Tell(t, s) ==
    /\ last' = [last EXCEPT ![t] = s]
    /\ log' = [log EXCEPT ![t] = Append(@, s)]

EmitStatus(t, s) ==
    /\ last[t] # s
    /\ Tell(t, s)
    /\ UNCHANGED active

\* clear_status_dedup: one row; clear_status_dedup_for_project: the active ones.
ClearDedup(rows) ==
    LET hit == {t \in rows : last[t] # "null"}
    IN  /\ last' = [t \in Tasks |-> IF t \in hit THEN "null" ELSE last[t]]
        /\ log' = [t \in Tasks |-> IF t \in hit THEN Append(log[t], "cleared") ELSE log[t]]
        /\ UNCHANGED active

\* TaskQueue marks the task done, failed or cancelled.
TaskEnds(t) ==
    /\ t \in active
    /\ active' = active \ {t}
    /\ UNCHANGED <<last, log>>

EnvelopeNext ==
    \/ \E t \in Tasks, s \in Statuses : EmitStatus(t, s)
    \/ \E t \in Tasks : ClearDedup({t}) \/ TaskEnds(t)
    \/ ClearDedup(active)

EnvelopeSpec == EnvelopeInit /\ [][EnvelopeNext]_envelopeVars
=============================================================================
