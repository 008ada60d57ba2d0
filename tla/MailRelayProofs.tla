--------------------------- MODULE MailRelayProofs ---------------------------
(* Theorems about the mail between the user and the agents, for any number  *)
(* of names, mails, rows and faults.                                        *)
EXTENDS MailRelay, MessageBusProofs, FiniteSetTheorems

-----------------------------------------------------------------------------
(* The inductive invariant: what process_email and the relay have in hand   *)
(* is what the tables and the post say of it.                               *)

MailPoints == {"queue", "route", "answer", "note", "turn", "router", "stamp"}
SentPoints == {"sent", "known", "recorded"}

Handling ==
    /\ loop.batch \subseteq MailIds
    /\ loop.mail \in MailIds \cup {0}
    /\ loop.pc \in MailPoints => loop.mail \in MailIds
    /\ loop.pc = "note" => loop.eid \in MailIds

\* The relay's snapshot is still pending.
TodoPending == \A r \in loop.todo : messages[r].status = "pending"

\* The e-mail that has been sent is the relay of the row at hand, and of its
\* two records those that the program has passed are there.
HasSent(r) ==
    /\ r = Least(loop.todo)
    /\ loop.eid \in Sent(r)
    /\ loop.pc # "sent" => column[r].eid = loop.eid
    /\ loop.pc = "recorded" => loop.eid \in outbound

AtRelay == loop.pc \in SentPoints => \E r \in loop.todo : HasSent(r)

RelayInv == RelayTypeOK /\ Handling /\ TodoPending /\ AtRelay /\ AsksReachUser

-----------------------------------------------------------------------------
(* The shapes of the sequences.                                             *)

LEMMA Shapes ==
    ASSUME RelayTypeOK
    PROVE  /\ DOMAIN messages = 1 .. Len(messages) /\ Len(messages) \in Nat
           /\ DOMAIN messages \subseteq RowIds
           /\ DOMAIN column = DOMAIN messages
           /\ \A r \in DOMAIN column : column[r] \in Column
           /\ MailIds = 1 .. Len(post) /\ Len(post) \in Nat
           /\ \A e \in MailIds : post[e] \in Email
           /\ DOMAIN jobs = 1 .. Len(jobs) /\ Len(jobs) \in Nat
           /\ \A j \in DOMAIN jobs : jobs[j] \in Job
<1>1. /\ DOMAIN messages = 1 .. Len(messages) /\ Len(messages) \in Nat
      /\ DOMAIN messages \subseteq RowIds
  BY MessageRows DEF RelayTypeOK, RowIds, MessageIds
<1>2. DOMAIN column = DOMAIN messages /\ \A r \in DOMAIN column : column[r] \in Column
  BY <1>1, LenProperties, ElementOfSeq DEF RelayTypeOK
<1>3. /\ MailIds = 1 .. Len(post) /\ Len(post) \in Nat
      /\ \A e \in MailIds : post[e] \in Email
  BY LenProperties, ElementOfSeq DEF RelayTypeOK, MailIds
<1>4. /\ DOMAIN jobs = 1 .. Len(jobs) /\ Len(jobs) \in Nat
      /\ \A j \in DOMAIN jobs : jobs[j] \in Job
  BY LenProperties, ElementOfSeq DEF RelayTypeOK
<1> QED  BY <1>1, <1>2, <1>3, <1>4

LEMMA MailsAreNumbers ==
    ASSUME RelayInv
    PROVE  MailIds \subseteq Nat /\ loop.mail \in Nat /\ loop.batch \subseteq Nat
<1>1. RelayTypeOK /\ loop.mail \in MailIds \cup {0} /\ loop.batch \subseteq MailIds
  BY DEF RelayInv, Handling
<1>2. MailIds = 1 .. Len(post) /\ Len(post) \in Nat
  BY <1>1, Shapes
<1>3. MailIds \subseteq Nat
  BY <1>2
<1>4. MailIds \cup {0} \subseteq Nat
  BY <1>3
<1>5. loop.mail \in Nat
  BY <1>1, <1>4, Zenon
<1>6. loop.batch \subseteq Nat
  BY <1>1, <1>3, Zenon
<1> QED  BY <1>3, <1>5, <1>6

\* One e-mail more, the others as they were.
PostMoves == UNCHANGED post \/ \E e \in Email : post' = Append(post, e)

LEMMA PostKept ==
    ASSUME RelayTypeOK, PostMoves
    PROVE  /\ post' \in Seq(Email)
           /\ MailIds \subseteq MailIds'
           /\ \A e \in MailIds : post'[e] = post[e]
<1>1. CASE UNCHANGED post
  BY <1>1 DEF RelayTypeOK, MailIds
<1>2. ASSUME NEW e \in Email, post' = Append(post, e)
      PROVE  /\ post' \in Seq(Email)
             /\ MailIds \subseteq MailIds'
             /\ \A f \in MailIds : post'[f] = post[f]
  <2>1. post \in Seq(Email) /\ MailIds = 1 .. Len(post) /\ Len(post) \in Nat
    BY Shapes DEF RelayTypeOK
  <2>2. /\ post' \in Seq(Email) /\ Len(post') = Len(post) + 1
        /\ \A f \in 1 .. Len(post) : post'[f] = post[f]
    BY <1>2, <2>1, AppendProperties
  <2>3. MailIds' = 1 .. Len(post')
    BY <2>2, LenProperties DEF MailIds
  <2> QED  BY <2>1, <2>2, <2>3
<1> QED  BY <1>1, <1>2 DEF PostMoves

-----------------------------------------------------------------------------
(* The rows.                                                                *)

\* What a new row says of other rows, mails and tasks is so.
SaysWhatIs(n, row) ==
    /\ row.eid # 0 => row.type = "email_inbound" /\ row.from = User
    /\ row.type = "reply" => row.mail \in MailIds /\ row.re \in Original(row.mail)
    /\ row.job # 0 =>
          row.job \in DOMAIN jobs /\ (n = User => row.from = jobs[row.job].by)

\* A new row, the Message-ID of the row at hand, or its status.
NewRow == \E n \in Names, row \in Column : Inserts(n, row) /\ SaysWhatIs(n, row)

Stamps(r) ==
    /\ loop.pc = "sent" /\ r = Least(loop.todo)
    /\ column' = [column EXCEPT ![r].eid = loop.eid]
    /\ loop'.pc = "known"
    /\ UNCHANGED messages

Closes(r, status) ==
    /\ loop.pc \in {"relay", "recorded"}
    /\ SetMessages({r}, status)
    /\ status = "delivered" => ~ShouldRelay(r) \/ (loop.pc = "recorded" /\ r = Least(loop.todo))
    /\ loop'.todo = loop.todo \ {r}
    /\ UNCHANGED column

RowsMove ==
    \/ UNCHANGED <<messages, column>>
    \/ NewRow
    \/ \E r \in loop.todo : Stamps(r)
    \/ \E r \in loop.todo, status \in {"delivered", "failed"} : Closes(r, status)

\* What is true of the tables after any of them.
RowsFit ==
    /\ MessagesOK'
    /\ column' \in Seq(Column) /\ Len(column') = Len(messages')
    /\ DOMAIN messages \subseteq DOMAIN messages'

LEMMA NewRowFits ==
    ASSUME RelayTypeOK, NewRow
    PROVE  /\ RowsFit
           /\ DOMAIN messages' = DOMAIN messages \cup {Len(messages) + 1}
           /\ messages'[Len(messages) + 1].status = "pending"
           /\ \A r \in DOMAIN messages : messages'[r] = messages[r] /\ column'[r] = column[r]
<1>1. PICK n \in Names, row \in Column : Inserts(n, row)
  BY DEF NewRow
<1>2. InsertMessage(n) /\ column' = Append(column, row)
  BY <1>1 DEF Inserts
<1>3. /\ column \in Seq(Column) /\ Len(column) = Len(messages) /\ Len(messages) \in Nat
      /\ DOMAIN messages = 1 .. Len(messages) /\ MessagesOK
  BY Shapes DEF RelayTypeOK
<1>4. /\ MessagesOK' /\ Len(messages') = Len(messages) + 1
      /\ DOMAIN messages' = DOMAIN messages \cup {Len(messages) + 1}
      /\ messages'[Len(messages) + 1].status = "pending"
      /\ \A r \in DOMAIN messages : messages'[r] = messages[r]
  BY <1>2, <1>3, InsertMessageEffect
<1>5. /\ column' \in Seq(Column) /\ Len(column') = Len(column) + 1
      /\ \A r \in 1 .. Len(column) : column'[r] = column[r]
  BY <1>2, <1>3, AppendProperties
<1> QED  BY <1>3, <1>4, <1>5 DEF RowsFit

LEMMA StampsFits ==
    ASSUME RelayTypeOK, NEW r \in loop.todo, Stamps(r)
    PROVE  /\ RowsFit
           /\ column'[r].eid = loop.eid
           /\ \A q \in DOMAIN column : q # r => column'[q] = column[q]
<1>1. /\ column \in Seq(Column) /\ Len(column) = Len(messages)
      /\ DOMAIN column = DOMAIN messages /\ MessagesOK
      /\ r \in DOMAIN column /\ column[r] \in Column /\ loop.eid \in Nat
  BY Shapes DEF RelayTypeOK, LoopState
<1>2. [column[r] EXCEPT !.eid = loop.eid] \in Column
  BY <1>1 DEF Column
<1>3. column' = [column EXCEPT ![r] = [column[r] EXCEPT !.eid = loop.eid]]
  BY DEF Stamps
<1>4. column' \in Seq(Column) /\ Len(column') = Len(column)
  BY <1>1, <1>2, <1>3, ExceptSeq
<1>5. column'[r].eid = loop.eid /\ \A q \in DOMAIN column : q # r => column'[q] = column[q]
  BY <1>1, <1>3 DEF Column
<1> QED  BY <1>1, <1>4, <1>5 DEF RowsFit, Stamps, MessagesOK

LEMMA ClosesFits ==
    ASSUME RelayTypeOK, NEW r \in loop.todo, NEW status \in {"delivered", "failed"},
           Closes(r, status)
    PROVE  /\ RowsFit
           /\ DOMAIN messages' = DOMAIN messages
           /\ \A q \in DOMAIN messages : messages'[q].to = messages[q].to
           /\ \A q \in DOMAIN messages : q # r => messages'[q].status = messages[q].status
           /\ status = "failed" => messages'[r].status # "delivered" \/ messages[r].status = "delivered"
<1>1. /\ MessagesOK' /\ DOMAIN messages' = DOMAIN messages
      /\ \A q \in DOMAIN messages : messages'[q].to = messages[q].to
      /\ \A q \in DOMAIN messages :
            messages'[q].status = IF q \in {r} /\ messages[q].status # "pruned"
                                  THEN status ELSE messages[q].status
  BY SetMessagesEffect DEF RelayTypeOK, Closes, MessageStatuses
<1>2. Len(messages') = Len(messages)
  <2>1. /\ messages \in Seq(Message) /\ messages' \in Seq(Message)
    BY <1>1 DEF RelayTypeOK, MessagesOK
  <2> QED  BY <1>1, <2>1, LenProperties
<1>3. r \in DOMAIN messages
  BY DEF RelayTypeOK
<1> QED  BY <1>1, <1>2, <1>3 DEF RowsFit, Closes, RelayTypeOK

LEMMA RowsMoveFits ==
    ASSUME RelayTypeOK, RowsMove
    PROVE  RowsFit
<1>1. ASSUME UNCHANGED <<messages, column>> PROVE RowsFit
  BY <1>1 DEF RelayTypeOK, RowsFit, MessagesOK
<1> QED  BY <1>1, NewRowFits, StampsFits, ClosesFits DEF RowsMove

LEMMA WhoWritesRows ==
    ASSUME RelayInv, [Next]_vars
    PROVE  RowsMove
<1> USE DEF RowsMove
<1>0. /\ RelayTypeOK /\ User \in Names /\ Router \in Names /\ Agents \subseteq Names
      /\ MaxMessages \in Nat /\ loop \in LoopState
  BY NamesAssumption, MaxMessagesAssumption DEF RelayInv, RelayTypeOK, Agents
<1>a. /\ DOMAIN column \subseteq 1 .. MaxMessages
      /\ \A r \in DOMAIN column : column[r] \in Column
      /\ \A j \in DOMAIN jobs : jobs[j] \in Job
      /\ DOMAIN jobs \subseteq Nat /\ MailIds \subseteq Nat
  <2>1. MailIds = 1 .. Len(post) /\ Len(post) \in Nat
        /\ DOMAIN jobs = 1 .. Len(jobs) /\ Len(jobs) \in Nat
    BY <1>0, Shapes
  <2>2. MailIds \subseteq Nat /\ DOMAIN jobs \subseteq Nat
    BY <2>1
  <2> QED  BY <1>0, <2>2, Shapes DEF RowIds
<1>b. loop.mail \in Nat /\ loop.batch \subseteq Nat
  BY MailsAreNumbers
<1>1. ASSUME NEW from \in Names, NEW type \in RowTypes, NEW re \in 0 .. MaxMessages,
             NEW eid \in Nat, NEW job \in Nat, NEW mail \in Nat
      PROVE  /\ Row(from, type, re, eid, job, mail) \in Column
             /\ Row(from, type, re, eid, job, mail).from = from
             /\ Row(from, type, re, eid, job, mail).type = type
             /\ Row(from, type, re, eid, job, mail).re = re
             /\ Row(from, type, re, eid, job, mail).eid = eid
             /\ Row(from, type, re, eid, job, mail).job = job
             /\ Row(from, type, re, eid, job, mail).mail = mail
  BY DEF Row, Column
<1>2. ASSUME NEW a \in Agents, NotifyUser(a) \/ AskUser(a) PROVE NewRow
  <2>1. ASSUME NEW type \in {"notify", "ask"}
        PROVE  LET row == Row(a, type, 0, 0, 0, 0) IN row \in Column /\ SaysWhatIs(User, row)
    BY <1>0, <1>1, <2>1 DEF RowTypes, SaysWhatIs
  <2> QED  BY <1>0, <1>2, <2>1 DEF NotifyUser, AskUser, NewRow
<1>3. ASSUME NEW j \in DOMAIN jobs, NotifyTaskDone(j) PROVE NewRow
  <2>1. jobs[j].by \in Names /\ j \in Nat
    BY <1>0, <1>a DEF Job
  <2>2. LET row == Row(jobs[j].by, "notify", 0, 0, j, 0)
        IN  row \in Column /\ SaysWhatIs(User, row)
    BY <1>0, <1>1, <2>1 DEF RowTypes, SaysWhatIs
  <2> QED  BY <1>0, <1>3, <2>2 DEF NotifyTaskDone, NewRow
<1>4. ASSUME NEW m \in loop.batch, HandleReply(m) \/ HandleReaction(m) PROVE NewRow
  <2>1. PICK r \in Original(m) : Inserts(column[r].from, Row(User, "reply", r, 0, 0, m))
    BY <1>4 DEF HandleReply, HandleReaction
  <2>2. r \in DOMAIN column /\ column[r].from \in Names
    BY <1>a DEF Original, RowsOf, Column
  <2>3. r \in 0 .. MaxMessages /\ m \in Nat /\ m \in MailIds
    BY <1>0, <1>a, <1>b, <2>2 DEF RelayInv, Handling
  <2> DEFINE row == Row(User, "reply", r, 0, 0, m)
  <2>4. /\ row \in Column /\ row.eid = 0 /\ row.job = 0
        /\ row.mail = m /\ row.re = r
    <3>1. "reply" \in RowTypes /\ 0 \in Nat
      BY DEF RowTypes
    <3>2. User \in Names
      BY <1>0
    <3> QED  BY <3>2, <1>1, <2>3, <3>1
  <2> HIDE DEF row
  <2>5. SaysWhatIs(column[r].from, row)
    BY <2>1, <2>3, <2>4 DEF SaysWhatIs
  <2> QED  BY <2>1, <2>2, <2>4, <2>5 DEF NewRow, row
<1>5. ASSUME NEW m \in loop.batch, NEW a \in Agents, HandleAgentCommand(m, a) PROVE NewRow
  <2>1. m \in Nat
    BY <1>b
  <2>2. LET row == Row(User, "command", 0, 0, 0, m) IN row \in Column /\ SaysWhatIs(a, row)
    BY <1>0, <1>1, <2>1 DEF RowTypes, SaysWhatIs
  <2> QED  BY <1>0, <1>5, <2>2 DEF HandleAgentCommand, NewRow
<1>6. ASSUME RouterTurn PROVE NewRow
  <2>1. LET row == Row(User, "email_inbound", 0, loop.mail, 0, loop.mail)
        IN  row \in Column /\ SaysWhatIs(Router, row)
    BY <1>0, <1>b, <1>1 DEF RowTypes, SaysWhatIs
  <2> QED  BY <1>0, <1>6, <2>1 DEF RouterTurn, NewRow
<1>c. ASSUME BriefAgent PROVE NewRow
  <2>1. PICK j \in DOMAIN jobs : Inserts(jobs[j].by, Row(User, "ask", 0, 0, j, loop.mail))
    BY <1>c DEF BriefAgent
  <2>2. jobs[j].by \in Names /\ jobs[j].by # User /\ j \in Nat
    BY <1>0, <1>a DEF Job, Agents
  <2> DEFINE row == Row(User, "ask", 0, 0, j, loop.mail)
  <2>3. row \in Column /\ row.eid = 0 /\ row.job = j /\ row.type = "ask"
    <3>1. "ask" \in RowTypes /\ 0 \in Nat
      BY DEF RowTypes
    <3>2. User \in Names /\ 0 \in 0 .. MaxMessages
      BY <1>0
    <3> QED  BY <3>2, <1>b, <1>1, <2>2, <3>1
  <2> HIDE DEF row
  <2>4. SaysWhatIs(jobs[j].by, row)
    BY <2>2, <2>3 DEF SaysWhatIs
  <2> QED  BY <2>1, <2>2, <2>3, <2>4 DEF NewRow, row
<1>7. ASSUME NEW r \in loop.todo, RelayRow(r) PROVE RowsMove
  <2>1. ASSUME Drains(r) PROVE Closes(r, "delivered")
    BY <1>0, <2>1 DEF Drains, AtHand, MarkDelivered, Done, Closes, LoopState
  <2>2. ASSUME Sends(r) PROVE UNCHANGED <<messages, column>>
    BY <2>2 DEF Sends
  <2>3. ASSUME SetEmailMessageId(r) PROVE Stamps(r)
    BY <1>0, <2>3 DEF SetEmailMessageId, Stamps, Goes, LoopState
  <2>4. ASSUME MarkRelayed(r) PROVE Closes(r, "delivered")
    BY <1>0, <2>4 DEF MarkRelayed, MarkDelivered, Done, Closes, LoopState
  <2> QED  BY <1>7, <2>1, <2>2, <2>3, <2>4 DEF RelayRow
<1>8. ASSUME NEW r \in loop.todo, PermanentError(r) PROVE Closes(r, "failed")
  BY <1>0, <1>8 DEF PermanentError, AtHand, MarkMessageFailed, Done, Closes, LoopState
<1>9. CASE LoopStep
  <2>1. ASSUME NEW m \in loop.batch, HandleMail(m) PROVE RowsMove
    BY <1>4, <1>5, <2>1 DEF HandleMail, HandleJsonCommand, HandleQuestion, HandleCommand, Reject,
                RouteToLiveAgent, AnswerEnvelope, HandleMeta, HandleRestart
  <2> QED  BY <1>6, <1>7, <1>9, <1>c, <2>1 DEF LoopStep, Polls, Ticks, Sleeps, RecordRelayed,
              QueueReply, QueueRefused, SendAnswer, RecordAnswer, RouterReturns, StampOrigin
<1>10. CASE Faults
  BY <1>8, <1>10 DEF Faults, AnswerFails, StampFails, HandlingFails, RelayFails, Crash,
                     TransientError
<1>11. CASE Others
  BY <1>2, <1>3, <1>11 DEF Others, UserWrites, RouterEnqueues, AskGivesUp
<1>12. ASSUME NEW r \in RowIds, AskPolls(r) PROVE RowsMove
  BY <1>12 DEF AskPolls
<1>13. CASE UNCHANGED vars
  BY <1>13 DEF vars
<1> QED  BY <1>9, <1>10, <1>11, <1>12, <1>13 DEF Next

LEMMA ThreadsAreMails ==
    ASSUME RelayTypeOK, NEW r
    PROVE  ThreadOf(r) \subseteq Nat
<1>1. /\ \A j \in DOMAIN jobs : jobs[j].mail \in Nat
      /\ \A q \in DOMAIN column : column[q].eid \in Nat
  BY Shapes DEF Job, Column
<1>2. LastEmailOf(column[r].from) \subseteq Nat
  BY <1>1 DEF LastEmailOf, Emailed
<1> QED  BY <1>1, <1>2 DEF ThreadOf, HasOrigin

LEMMA WhoWritesPost ==
    ASSUME RelayInv, [Next]_vars
    PROVE  PostMoves
<1> USE DEF PostMoves, Posts
<1>0. RelayTypeOK /\ MaxMessages \in Nat /\ 0 \in 0 .. MaxMessages /\ 0 \in Nat
  BY MaxMessagesAssumption DEF RelayInv
<1>a. MailIds \subseteq Nat /\ loop.mail \in Nat /\ loop.todo \subseteq 0 .. MaxMessages
  <2>1. loop.todo \subseteq 1 .. MaxMessages
    BY <1>0 DEF RelayTypeOK, LoopState, RowIds
  <2>2. loop.todo \subseteq 0 .. MaxMessages
    BY <1>0, <2>1
  <2> QED  BY <2>2, MailsAreNumbers
<1>1. ASSUME NEW kind \in UserKinds \cup {"relay", "answer"}, NEW re \in Nat,
             NEW row \in 0 .. MaxMessages, Posts(kind, re, row)
      PROVE  PostMoves
  <2>1. [kind |-> kind, re |-> re, row |-> row] \in Email
    BY DEF Email
  <2> QED  BY <1>1, <2>1
<1> HIDE DEF PostMoves, Posts
<1>2. ASSUME NEW kind \in UserKinds, NEW re \in {0} \cup MailIds, UserWrites(kind, re)
      PROVE  PostMoves
  <2>1. Posts(kind, re, 0)
    BY <1>2 DEF UserWrites
  <2>2. re \in Nat
    BY <1>a
  <2> QED  BY <1>0, <1>1, <2>1, <2>2
<1>3. ASSUME SendAnswer PROVE PostMoves
  <2>1. Posts("answer", loop.mail, 0)
    BY <1>3 DEF SendAnswer
  <2> QED  BY <1>0, <1>a, <1>1, <2>1
<1>4. ASSUME NEW r \in loop.todo, Sends(r) \/ TransientError(r) PROVE PostMoves
  <2>1. UNCHANGED post \/ \E thread \in ThreadOf(r) : Posts("relay", thread, r)
    BY <1>4 DEF Sends, TransientError, Relays
  <2>2. ThreadOf(r) \subseteq Nat
    BY <1>0, ThreadsAreMails
  <2> QED  BY <1>0, <1>a, <1>1, <2>1, <2>2 DEF PostMoves
<1> USE DEF PostMoves
<1>5. CASE LoopStep
  <2>1. ASSUME NEW m \in loop.batch, HandleMail(m) PROVE UNCHANGED post
    BY <2>1 DEF HandleMail, HandleReply, HandleAgentCommand, HandleJsonCommand,
                HandleReaction, RouteToLiveAgent, AnswerEnvelope, HandleMeta, HandleRestart,
                HandleQuestion, HandleCommand, Reject
  <2>2. ASSUME NEW r \in loop.todo, RelayRow(r) PROVE PostMoves
    BY <1>4, <2>2 DEF RelayRow, Drains, SetEmailMessageId, MarkRelayed
  <2> QED  BY <1>3, <1>5, <2>1, <2>2 DEF LoopStep, Polls, Ticks, Sleeps, RecordRelayed,
              QueueReply, QueueRefused, BriefAgent, RecordAnswer, RouterTurn, RouterReturns, StampOrigin
<1>6. CASE Faults
  BY <1>4, <1>6 DEF Faults, AnswerFails, StampFails, HandlingFails, RelayFails, Crash,
                    PermanentError
<1>7. CASE Others
  BY <1>2, <1>7 DEF Others, NotifyUser, AskUser, RouterEnqueues, NotifyTaskDone, AskGivesUp
<1>8. ASSUME NEW r \in RowIds, AskPolls(r) PROVE PostMoves
  BY <1>8 DEF AskPolls
<1>9. CASE UNCHANGED vars
  BY <1>9 DEF vars
<1> QED  BY <1>5, <1>6, <1>7, <1>8, <1>9 DEF Next

-----------------------------------------------------------------------------
(* What the relay has at hand.                                              *)

OutboundMoves ==
    \/ UNCHANGED outbound
    \/ loop.pc \in {"note", "known"} /\ outbound' = outbound \cup {loop.eid}

LEMMA WhoRecords ==
    ASSUME [Next]_vars
    PROVE  OutboundMoves
<1> USE DEF OutboundMoves
<1>1. CASE LoopStep
  <2>1. ASSUME NEW m \in loop.batch, HandleMail(m) PROVE UNCHANGED outbound
    BY <2>1 DEF HandleMail, HandleReply, HandleAgentCommand, HandleJsonCommand,
                HandleReaction, RouteToLiveAgent, AnswerEnvelope, HandleMeta, HandleRestart,
                HandleQuestion, HandleCommand, Reject
  <2>2. ASSUME NEW r \in loop.todo, RelayRow(r) PROVE UNCHANGED outbound
    BY <2>2 DEF RelayRow, Drains, Sends, SetEmailMessageId, MarkRelayed
  <2> QED  BY <1>1, <2>1, <2>2 DEF LoopStep, Polls, Ticks, Sleeps, RecordRelayed, QueueReply,
              QueueRefused, BriefAgent, SendAnswer, RecordAnswer, RouterTurn, RouterReturns, StampOrigin
<1>2. CASE Faults
  BY <1>2 DEF Faults, AnswerFails, StampFails, HandlingFails, RelayFails, Crash,
              PermanentError, TransientError
<1>3. CASE Others
  BY <1>3 DEF Others, UserWrites, NotifyUser, AskUser, RouterEnqueues, NotifyTaskDone, AskGivesUp
<1>4. ASSUME NEW r \in RowIds, AskPolls(r) PROVE OutboundMoves
  BY <1>4 DEF AskPolls
<1> QED  BY <1>1, <1>2, <1>3, <1>4 DEF Next, vars

LEMMA OutboundKept ==
    ASSUME RelayInv, [Next]_vars
    PROVE  outbound \subseteq outbound' /\ outbound' \subseteq MailIds'
<1>1. outbound \subseteq MailIds /\ MailIds \subseteq MailIds'
  BY WhoWritesPost, PostKept DEF RelayInv, RelayTypeOK
<1>2. ASSUME loop.pc \in {"note", "known"} PROVE loop.eid \in MailIds
  BY <1>2 DEF RelayInv, Handling, AtRelay, HasSent, SentPoints, Sent
<1> QED  BY <1>1, <1>2, WhoRecords DEF OutboundMoves

TodoMoves ==
    \/ loop'.todo \subseteq loop.todo
    \/ loop'.todo = PendingMessages(User) /\ UNCHANGED <<messages, column>>

LEMMA WhoMovesTodo ==
    ASSUME RelayInv, [Next]_vars
    PROVE  TodoMoves
<1> USE DEF TodoMoves
<1>0. loop \in LoopState
  BY DEF RelayInv, RelayTypeOK
<1>1. CASE LoopStep
  <2>1. ASSUME NEW m \in loop.batch, HandleMail(m) PROVE TodoMoves
    BY <1>0, <2>1 DEF HandleMail, HandleReply, HandleAgentCommand, HandleJsonCommand,
                HandleReaction, RouteToLiveAgent, AnswerEnvelope, HandleMeta, HandleRestart,
                HandleQuestion, HandleCommand, Reject, Takes, LoopState
  <2>2. ASSUME NEW r \in loop.todo, RelayRow(r) PROVE TodoMoves
    BY <1>0, <2>2 DEF RelayRow, Drains, Sends, SetEmailMessageId, MarkRelayed, Done, Goes, LoopState
  <2>3. CASE Ticks
    BY <1>0, <2>3 DEF Ticks, LoopState
  <2> QED  BY <1>0, <1>1, <2>1, <2>2, <2>3 DEF LoopStep, Polls, Sleeps, RecordRelayed, QueueReply,
              QueueRefused, BriefAgent, SendAnswer, RecordAnswer, RouterTurn, RouterReturns, StampOrigin,
              Goes, LoopState
<1>2. CASE Faults
  <2>1. CASE AnswerFails
    BY <1>0, <2>1 DEF AnswerFails, LoopState
  <2>2. CASE StampFails
    BY <1>0, <2>2 DEF StampFails, Goes, LoopState
  <2>3. CASE HandlingFails
    BY <1>0, <2>3 DEF HandlingFails, LoopState
  <2>4. CASE RelayFails
    BY <1>0, <2>4 DEF RelayFails, LoopState
  <2>5. CASE Crash
    BY <2>5 DEF Crash
  <2>6. ASSUME NEW r \in loop.todo, PermanentError(r) \/ TransientError(r) PROVE TodoMoves
    BY <1>0, <2>6 DEF PermanentError, TransientError, Done, LoopState
  <2> QED  BY <1>2, <2>1, <2>2, <2>3, <2>4, <2>5, <2>6 DEF Faults
<1>3. CASE Others
  BY <1>3 DEF Others, UserWrites, NotifyUser, AskUser, RouterEnqueues, NotifyTaskDone, AskGivesUp
<1>4. ASSUME NEW r \in RowIds, AskPolls(r) PROVE TodoMoves
  BY <1>4 DEF AskPolls
<1> QED  BY <1>1, <1>2, <1>3, <1>4 DEF Next, vars

LEMMA TodoStaysPending ==
    ASSUME RelayInv, [Next]_vars
    PROVE  loop'.todo \subseteq DOMAIN messages' /\ TodoPending'
<1>1. RelayTypeOK /\ TodoPending /\ loop.todo \subseteq DOMAIN messages
  BY DEF RelayInv, RelayTypeOK
<1>2. RowsMove /\ TodoMoves /\ RowsFit
  BY <1>1, WhoWritesRows, WhoMovesTodo, RowsMoveFits
<1>3. CASE loop'.todo = PendingMessages(User) /\ UNCHANGED <<messages, column>>
  <2>1. \A r \in loop'.todo : r \in DOMAIN messages /\ messages[r].status = "pending"
    BY <1>3 DEF PendingMessages, InboxOf
  <2> QED  BY <1>3, <2>1 DEF TodoPending
<1>4. CASE loop'.todo \subseteq loop.todo
  <2>1. loop'.todo \subseteq DOMAIN messages'
    BY <1>1, <1>2, <1>4 DEF RowsFit
  <2>2. ASSUME NEW q \in loop'.todo PROVE messages'[q].status = "pending"
    <3>1. q \in DOMAIN messages /\ messages[q].status = "pending"
      BY <1>1, <1>4 DEF TodoPending
    <3>2. CASE UNCHANGED <<messages, column>> \/ \E r \in loop.todo : Stamps(r)
      BY <3>1, <3>2 DEF Stamps
    <3>3. CASE NewRow
      BY <1>1, <3>1, <3>3, NewRowFits
    <3>4. ASSUME NEW r \in loop.todo, NEW status \in {"delivered", "failed"}, Closes(r, status)
          PROVE  messages'[q].status = "pending"
      <4>1. q # r
        BY <3>4 DEF Closes
      <4> QED  BY <1>1, <3>1, <3>4, <4>1, ClosesFits
    <3> QED  BY <1>2, <3>2, <3>3, <3>4 DEF RowsMove
  <2> QED  BY <2>1, <2>2 DEF TodoPending
<1> QED  BY <1>2, <1>3, <1>4 DEF TodoMoves

\* What brings the relay to a point after an e-mail, or leaves it there.
LEMMA WhoIsAtRelay ==
    ASSUME RelayInv, [Next]_vars, loop'.pc \in SentPoints
    PROVE  \/ UNCHANGED loop
           \/ RecordRelayed
           \/ \E r \in loop.todo : Sends(r) \/ SetEmailMessageId(r)
<1>0. loop \in LoopState
  BY DEF RelayInv, RelayTypeOK
<1>1. CASE LoopStep
  <2>1. ASSUME NEW m \in loop.batch, HandleMail(m) PROVE loop'.pc \notin SentPoints
    BY <1>0, <2>1 DEF HandleMail, HandleReply, HandleAgentCommand, HandleJsonCommand,
                HandleReaction, RouteToLiveAgent, AnswerEnvelope, HandleMeta, HandleRestart,
                HandleQuestion, HandleCommand, Reject, Takes, LoopState, SentPoints
  <2>2. ASSUME NEW r \in loop.todo, Drains(r) \/ MarkRelayed(r) PROVE loop'.pc \notin SentPoints
    BY <1>0, <2>2 DEF Drains, MarkRelayed, Done, LoopState, SentPoints
  <2>3. CASE \/ Polls \/ Ticks \/ Sleeps \/ QueueReply \/ QueueRefused \/ BriefAgent \/ SendAnswer
             \/ RecordAnswer \/ RouterTurn \/ RouterReturns \/ StampOrigin
    BY <1>0, <2>3 DEF Polls, Ticks, Sleeps, QueueReply, QueueRefused, BriefAgent, SendAnswer, RecordAnswer,
              RouterTurn, RouterReturns, StampOrigin, Goes, LoopState, SentPoints
  <2> QED  BY <1>1, <2>1, <2>2, <2>3 DEF LoopStep, RelayRow
<1>2. CASE Faults
  <2>1. CASE AnswerFails
    BY <1>0, <2>1 DEF AnswerFails, LoopState, SentPoints
  <2>2. CASE StampFails
    BY <1>0, <2>2 DEF StampFails, Goes, LoopState, SentPoints
  <2>3. CASE HandlingFails
    BY <1>0, <2>3 DEF HandlingFails, LoopState, SentPoints
  <2>4. CASE RelayFails
    BY <1>0, <2>4 DEF RelayFails, LoopState, SentPoints
  <2>5. CASE Crash
    BY <2>5 DEF Crash, SentPoints
  <2>6. ASSUME NEW r \in loop.todo, PermanentError(r) \/ TransientError(r) PROVE loop'.pc \notin SentPoints
    BY <1>0, <2>6 DEF PermanentError, TransientError, Done, LoopState, SentPoints
  <2> QED  BY <1>2, <2>1, <2>2, <2>3, <2>4, <2>5, <2>6 DEF Faults
<1>3. CASE Others
  BY <1>3 DEF Others, UserWrites, NotifyUser, AskUser, RouterEnqueues, NotifyTaskDone, AskGivesUp
<1>4. ASSUME NEW r \in RowIds, AskPolls(r) PROVE UNCHANGED loop
  BY <1>4 DEF AskPolls
<1> QED  BY <1>1, <1>2, <1>3, <1>4 DEF Next, vars

LEMMA AtRelayKept ==
    ASSUME RelayInv, [Next]_vars
    PROVE  AtRelay'
<1>1. /\ RelayTypeOK /\ TodoPending /\ AtRelay /\ loop \in LoopState
      /\ loop.todo \subseteq DOMAIN messages /\ DOMAIN column = DOMAIN messages
  BY Shapes DEF RelayInv, RelayTypeOK
<1>2. /\ outbound \subseteq outbound'
      /\ \A r \in DOMAIN messages : Sent(r) \subseteq Sent(r)'
  BY <1>1, OutboundKept, WhoWritesPost, PostKept DEF Sent
<1> SUFFICES ASSUME loop'.pc \in SentPoints
             PROVE  \E r \in loop'.todo : HasSent(r)'
  BY DEF AtRelay
<1>3. CASE UNCHANGED loop
  <2>1. PICK r \in loop.todo : HasSent(r)
    BY <1>1, <1>3 DEF AtRelay
  <2>2. column'[r] = column[r]
    <3>1. CASE UNCHANGED <<messages, column>>
      BY <3>1
    <3>2. CASE NewRow
      BY <1>1, <2>1, <3>2, NewRowFits
    <3>3. ASSUME NEW q \in loop.todo, Stamps(q) PROVE FALSE
      BY <1>3, <3>3 DEF Stamps
    <3>4. ASSUME NEW q \in loop.todo, NEW status \in {"delivered", "failed"}, Closes(q, status)
          PROVE  FALSE
      BY <1>3, <3>4 DEF Closes
    <3> QED  BY <3>1, <3>2, <3>3, <3>4, WhoWritesRows DEF RowsMove
  <2>3. HasSent(r)'
    BY <1>1, <1>2, <1>3, <2>1, <2>2 DEF HasSent
  <2> QED  BY <1>3, <2>3
<1>4. CASE RecordRelayed
  <2>1. PICK r \in loop.todo : HasSent(r)
    BY <1>1, <1>4 DEF AtRelay, RecordRelayed, SentPoints
  <2>2. /\ loop.pc = "known" /\ outbound' = outbound \cup {loop.eid} /\ column' = column
        /\ loop'.pc = "recorded" /\ loop'.eid = loop.eid /\ loop'.todo = loop.todo
    BY <1>1, <1>4 DEF RecordRelayed, Goes, LoopState
  <2>3. HasSent(r)'
    BY <1>1, <1>2, <2>1, <2>2 DEF HasSent
  <2> QED  BY <2>2, <2>3
<1>5. ASSUME NEW r \in loop.todo, SetEmailMessageId(r)
      PROVE  \E q \in loop'.todo : HasSent(q)'
  <2>1. HasSent(r)
    BY <1>1, <1>5 DEF AtRelay, HasSent, SetEmailMessageId, SentPoints
  <2>2. loop'.pc = "known" /\ loop'.eid = loop.eid /\ loop'.todo = loop.todo
    BY <1>1, <1>5 DEF SetEmailMessageId, Goes, LoopState
  <2>3. column'[r].eid = loop.eid
    BY <1>1, <1>5, <2>2, StampsFits DEF SetEmailMessageId, Stamps
  <2>4. HasSent(r)'
    BY <1>1, <1>2, <2>1, <2>2, <2>3 DEF HasSent
  <2> QED  BY <2>2, <2>4
<1>6. ASSUME NEW r \in loop.todo, Sends(r)
      PROVE  \E q \in loop'.todo : HasSent(q)'
  <2>0. PICK thread \in ThreadOf(r) : post' = Append(post, [kind |-> "relay", re |-> thread, row |-> r])
    BY <1>6 DEF Sends, Relays, Posts
  <2>1. /\ loop'.pc = "sent" /\ loop'.eid = Len(post) + 1 /\ loop'.todo = loop.todo
        /\ r = Least(loop.todo)
    BY <1>1, <1>6 DEF Sends, AtHand, LoopState
  <2>2. post \in Seq(Email) /\ Len(post) \in Nat /\ r \in 0 .. MaxMessages /\ thread \in Nat
    <3>1. r \in 1 .. MaxMessages /\ MaxMessages \in Nat
      BY <1>1, MaxMessagesAssumption DEF LoopState, RowIds
    <3> QED  BY <1>1, <3>1, Shapes, ThreadsAreMails DEF RelayTypeOK
  <2>a. [kind |-> "relay", re |-> thread, row |-> r] \in Email
    BY <2>2 DEF Email
  <2>3. Len(post) + 1 \in MailIds' /\ post'[Len(post) + 1] = [kind |-> "relay", re |-> thread, row |-> r]
    BY <2>0, <2>2, <2>a, AppendProperties DEF MailIds
  <2>4. HasSent(r)'
    BY <2>1, <2>3 DEF HasSent, Sent
  <2> QED  BY <2>1, <2>4
<1> QED  BY <1>3, <1>4, <1>5, <1>6, WhoIsAtRelay

-----------------------------------------------------------------------------
(* Questions.                                                               *)

LEMMA AnswerableKept ==
    ASSUME RelayInv, [Next]_vars, NEW r \in DOMAIN messages, Answerable(r),
           column'[r].eid = column[r].eid
    PROVE  Answerable(r)'
<1>1. column[r].eid \in outbound /\ outbound \subseteq outbound' /\ outbound \subseteq MailIds
  BY OutboundKept DEF RelayInv, RelayTypeOK, Answerable
<1>2. post'[column[r].eid] = post[column[r].eid]
  BY <1>1, WhoWritesPost, PostKept DEF RelayInv
<1> QED  BY <1>1, <1>2 DEF Answerable

LEMMA AsksKept ==
    ASSUME RelayInv, [Next]_vars
    PROVE  AsksReachUser'
<1>1. /\ RelayTypeOK /\ TodoPending /\ AtRelay /\ AsksReachUser
      /\ loop.todo \subseteq DOMAIN messages /\ DOMAIN column = DOMAIN messages
      /\ \A r \in DOMAIN column : column[r] \in Column
  BY Shapes DEF RelayInv, RelayTypeOK
<1>2. RowsMove
  BY WhoWritesRows
<1> SUFFICES ASSUME NEW r \in DOMAIN messages', ToUser(r)', column'[r].type = "ask",
                    messages'[r].status = "delivered"
             PROVE  Answerable(r)'
  BY DEF AsksReachUser
\* It was delivered before.
<1>3. ASSUME r \in DOMAIN messages, messages'[r].to = messages[r].to,
             column'[r].type = column[r].type, column'[r].eid = column[r].eid,
             messages[r].status = "delivered"
      PROVE  Answerable(r)'
  <2>1. Answerable(r)
    BY <1>1, <1>3 DEF AsksReachUser, ToUser
  <2> QED  BY <1>3, <2>1, AnswerableKept
<1>4. CASE UNCHANGED <<messages, column>>
  BY <1>3, <1>4
<1>5. CASE NewRow
  BY <1>1, <1>3, <1>5, NewRowFits
<1>6. ASSUME NEW q \in loop.todo, Stamps(q) PROVE Answerable(r)'
  <2>1. /\ r \in DOMAIN messages /\ messages' = messages
    BY <1>6 DEF Stamps
  <2>2. q # r
    BY <1>1, <2>1 DEF TodoPending
  <2>3. column'[r] = column[r]
    BY <1>1, <1>6, <2>1, <2>2, StampsFits
  <2> QED  BY <1>3, <2>1, <2>3
<1>7. ASSUME NEW q \in loop.todo, NEW status \in {"delivered", "failed"}, Closes(q, status)
      PROVE  Answerable(r)'
  <2>1. /\ r \in DOMAIN messages /\ column' = column /\ messages'[r].to = messages[r].to
        /\ q # r => messages'[r].status = messages[r].status
        /\ status = "failed" => messages'[q].status # "delivered" \/ messages[q].status = "delivered"
    BY <1>1, <1>7, ClosesFits DEF Closes
  <2>2. CASE q # r \/ status = "failed"
    BY <1>3, <2>1, <2>2
  <2>3. CASE q = r /\ status = "delivered"
    <3>1. ShouldRelay(r)
      BY <2>1 DEF ShouldRelay
    <3>2. loop.pc = "recorded" /\ r = Least(loop.todo)
      BY <1>7, <2>3, <3>1 DEF Closes
    <3>3. HasSent(r)
      BY <1>1, <3>2 DEF AtRelay, HasSent, SentPoints
    <3>4. Answerable(r)
      BY <3>2, <3>3 DEF HasSent, Answerable, Sent
    <3> QED  BY <2>1, <3>4, AnswerableKept
  <2> QED  BY <2>2, <2>3
<1> QED  BY <1>2, <1>4, <1>5, <1>6, <1>7 DEF RowsMove

-----------------------------------------------------------------------------
(* Types.                                                                   *)

\* What process_email and the relay remember stays within bounds.
LEMMA LoopTyped ==
    ASSUME RelayInv, [Next]_vars
    PROVE  loop' \in LoopState /\ Handling'
<1>0. /\ loop \in LoopState /\ inbox \subseteq MailIds /\ loop.batch \subseteq MailIds
      /\ loop.mail \in MailIds \cup {0}
      /\ loop.pc \in MailPoints => loop.mail \in MailIds
      /\ loop.pc = "note" => loop.eid \in MailIds
      /\ MailIds \subseteq Nat /\ MailIds \subseteq MailIds'
  BY MailsAreNumbers, WhoWritesPost, PostKept DEF RelayInv, RelayTypeOK, Handling
<1>1. Len(post) + 1 \in Nat /\ PendingMessages(User) \subseteq RowIds
  BY Shapes DEF RelayInv, PendingMessages, InboxOf
<1>2. UNCHANGED loop => loop' \in LoopState /\ Handling'
  BY <1>0 DEF Handling
<1>3. ASSUME NEW kind \in {"relay", "answer"}, NEW re, NEW row, Posts(kind, re, row)
      PROVE  Len(post) + 1 \in MailIds'
  BY <1>3, Shapes, AppendProperties DEF RelayInv, RelayTypeOK, Posts, MailIds
<1> DEFINE Fits == loop' \in LoopState /\ Handling'
<1> SUFFICES Fits
  OBVIOUS
<1>4. ASSUME NEW m \in loop.batch, HandleMail(m) PROVE Fits
  <2>1. ASSUME NEW pc \in {"mail", "queue", "route", "answer"}, NEW then \in {"mail", "turn"},
               Takes(m, pc, then)
        PROVE  Fits
    <3>1. /\ loop' = [loop EXCEPT !.pc = pc, !.then = then, !.mail = m, !.batch = loop.batch \ {m}]
          /\ m \in MailIds
      BY <1>0, <2>1 DEF Takes
    <3>2. loop' \in LoopState
      BY <1>0, <3>1 DEF LoopState, Points
    <3>3. /\ loop'.pc = pc /\ loop'.mail = m /\ loop'.batch = loop.batch \ {m}
      BY <1>0, <3>1 DEF LoopState
    <3> QED  BY <1>0, <3>1, <3>2, <3>3 DEF Handling
  <2>2. CASE HandleRestart(m)
    <3>1. loop' = [loop EXCEPT !.mail = m, !.then = "mail", !.batch = {}] /\ loop.pc = "mail"
      BY <2>2 DEF HandleRestart
    <3>2. m \in MailIds /\ loop' \in LoopState
      BY <1>0, <3>1 DEF LoopState
    <3>3. loop'.pc = "mail" /\ loop'.mail = m /\ loop'.batch = {}
      BY <1>0, <3>1 DEF LoopState
    <3> QED  BY <1>0, <3>2, <3>3 DEF Handling, MailPoints
  <2>3. HandleRestart(m) \/ \E pc \in {"mail", "queue", "route", "answer"}, then \in {"mail", "turn"} :
                               Takes(m, pc, then)
    BY <1>4 DEF HandleMail, HandleReply, HandleAgentCommand, HandleJsonCommand,
                HandleReaction, RouteToLiveAgent, AnswerEnvelope, HandleMeta,
                HandleQuestion, HandleCommand, Reject
  <2> QED  BY <2>1, <2>2, <2>3
<1>5. ASSUME NEW pc \in {"answer", "router", "stamp"}, Goes(pc),
             loop.pc \in {"queue", "route", "turn", "router", "stamp"}
      PROVE  Fits
  <2>1. loop' \in LoopState
    BY <1>0, <1>5 DEF LoopState, Goes, Points
  <2>2. /\ loop'.pc = pc /\ loop'.mail = loop.mail /\ loop'.batch = loop.batch
        /\ loop.pc \in MailPoints /\ pc # "note"
    BY <1>0, <1>5 DEF LoopState, Goes, MailPoints
  <2> QED  BY <1>0, <2>1, <2>2 DEF Handling
\* Nothing is at hand.
<1>6. ASSUME loop' \in LoopState, loop'.pc \notin MailPoints, loop'.batch \subseteq MailIds,
             loop'.mail \in {0, loop.mail}
      PROVE  Fits
  BY <1>0, <1>6 DEF Handling, MailPoints
<1>a. ASSUME NEW pc \in {"poll", "known", "recorded"}, Goes(pc) PROVE Fits
  <2>1. loop' \in LoopState
    BY <1>0, <1>a DEF LoopState, Goes, Points
  <2> QED  BY <1>0, <1>6, <1>a, <2>1 DEF LoopState, Goes, MailPoints
<1>7. ASSUME NEW r, Done(r) \/ Sends(r) \/ TransientError(r) PROVE Fits
  <2>1. CASE Done(r)
    <3>1. loop' \in LoopState
      BY <1>0, <2>1 DEF LoopState, Done, Points
    <3> QED  BY <1>0, <1>6, <2>1, <3>1 DEF LoopState, Done, MailPoints
  <2>2. CASE Sends(r)
    <3>1. loop' = [loop EXCEPT !.pc = "sent", !.eid = Len(post) + 1]
      BY <2>2 DEF Sends
    <3>2. loop' \in LoopState
      BY <1>0, <1>1, <3>1 DEF LoopState, Points
    <3> QED  BY <1>0, <1>6, <3>1, <3>2 DEF LoopState, MailPoints
  <2>3. CASE TransientError(r)
    <3>1. loop' = [loop EXCEPT !.pc = "poll", !.todo = {}]
      BY <2>3 DEF TransientError
    <3>2. loop' \in LoopState
      BY <1>0, <3>1 DEF LoopState, Points
    <3> QED  BY <1>0, <1>6, <3>1, <3>2 DEF LoopState, MailPoints
  <2> QED  BY <1>7, <2>1, <2>2, <2>3
<1>8. CASE SendAnswer
  <2>1. loop.pc = "answer" /\ loop' = [loop EXCEPT !.pc = "note", !.eid = Len(post) + 1]
    BY <1>8 DEF SendAnswer
  <2>2. loop' \in LoopState
    BY <1>0, <1>1, <2>1 DEF LoopState, Points
  <2>3. /\ loop'.pc = "note" /\ loop'.mail = loop.mail /\ loop'.batch = loop.batch
        /\ loop'.eid = Len(post) + 1
    BY <1>0, <2>1 DEF LoopState
  <2>4. Len(post) + 1 \in MailIds'
    BY <1>3, <1>8 DEF SendAnswer
  <2> QED  BY <1>0, <2>1, <2>2, <2>3, <2>4 DEF Handling, MailPoints
<1>9. CASE loop' = [loop EXCEPT !.pc = loop.then, !.then = "mail"] /\ loop.pc \in MailPoints
  <2>1. loop' \in LoopState
    BY <1>0, <1>9 DEF LoopState, Points
  <2>2. /\ loop'.pc \in {"mail", "turn"} /\ loop'.mail = loop.mail /\ loop'.batch = loop.batch
    BY <1>0, <1>9 DEF LoopState
  <2> QED  BY <1>0, <1>9, <2>1, <2>2 DEF Handling
<1>10. CASE Polls \/ Ticks
  <2>1. CASE Ticks
    <3>1. loop' = [loop EXCEPT !.pc = "relay", !.todo = PendingMessages(User), !.mail = 0]
      BY <2>1 DEF Ticks
    <3>2. loop' \in LoopState
      BY <1>0, <1>1, <3>1 DEF LoopState, Points
    <3> QED  BY <1>0, <1>6, <3>1, <3>2 DEF LoopState, MailPoints
  <2>2. CASE Polls
    <3>1. loop' = [loop EXCEPT !.pc = "mail", !.batch = inbox]
      BY <2>2 DEF Polls
    <3>2. loop' \in LoopState
      BY <1>0, <3>1 DEF LoopState, Points
    <3> QED  BY <1>0, <1>6, <3>1, <3>2 DEF LoopState, MailPoints
  <2> QED  BY <1>10, <2>1, <2>2
<1>11. CASE HandlingFails \/ RelayFails
  <2>1. CASE HandlingFails
    <3>1. loop' = [loop EXCEPT !.pc = "mail", !.then = "mail"]
      BY <2>1 DEF HandlingFails
    <3>2. loop' \in LoopState
      BY <1>0, <3>1 DEF LoopState, Points
    <3> QED  BY <1>0, <1>6, <3>1, <3>2 DEF LoopState, MailPoints
  <2>2. CASE RelayFails
    <3>1. loop' = [loop EXCEPT !.pc = "poll", !.todo = {}, !.eid = 0]
      BY <2>2 DEF RelayFails
    <3>2. loop' \in LoopState
      BY <1>0, <3>1 DEF LoopState, Points
    <3> QED  BY <1>0, <1>6, <3>1, <3>2 DEF LoopState, MailPoints
  <2> QED  BY <1>11, <2>1, <2>2
<1>12. CASE Crash
  BY <1>0, <1>6, <1>12 DEF Crash, LoopState, Points, MailPoints
<1> HIDE DEF Fits
<1>13. CASE LoopStep
  <2>1. CASE \/ QueueReply \/ QueueRefused \/ BriefAgent \/ RouterTurn \/ RouterReturns \/ StampOrigin
    BY <1>5, <2>1 DEF QueueReply, QueueRefused, BriefAgent, RouterTurn, RouterReturns, StampOrigin
  <2>4. CASE Sleeps \/ RecordRelayed
    BY <1>a, <2>4 DEF Sleeps, RecordRelayed
  <2>2. CASE RecordAnswer
    BY <1>9, <2>2 DEF RecordAnswer, MailPoints
  <2>3. ASSUME NEW r \in loop.todo, RelayRow(r) PROVE Fits
    <3>1. CASE Drains(r) \/ Sends(r) \/ MarkRelayed(r)
      BY <1>7, <3>1 DEF Drains, MarkRelayed
    <3>2. CASE SetEmailMessageId(r)
      BY <1>a, <3>2 DEF SetEmailMessageId
    <3> QED  BY <2>3, <3>1, <3>2 DEF RelayRow
  <2> QED  BY <1>4, <1>8, <1>10, <1>13, <2>1, <2>2, <2>3, <2>4 DEF LoopStep
<1>14. CASE Faults
  <2>1. CASE AnswerFails
    BY <1>9, <2>1 DEF AnswerFails, MailPoints
  <2>2. CASE StampFails
    BY <1>5, <2>2 DEF StampFails
  <2>3. ASSUME NEW r \in loop.todo, PermanentError(r) \/ TransientError(r) PROVE Fits
    BY <1>7, <2>3 DEF PermanentError
  <2> QED  BY <1>11, <1>12, <1>14, <2>1, <2>2, <2>3 DEF Faults
<1>15. CASE Others
  <2>1. UNCHANGED loop
    BY <1>15 DEF Others, UserWrites, NotifyUser, AskUser, RouterEnqueues, NotifyTaskDone, AskGivesUp
  <2> QED  BY <1>2, <2>1 DEF Fits
<1>16. ASSUME NEW r \in RowIds, AskPolls(r) PROVE Fits
  BY <1>2, <1>16 DEF AskPolls, Fits
<1>17. CASE UNCHANGED vars
  BY <1>2, <1>17 DEF vars, Fits
<1> QED  BY <1>13, <1>14, <1>15, <1>16, <1>17 DEF Next

LEMMA InboxKept ==
    ASSUME RelayInv, [Next]_vars
    PROVE  inbox' \subseteq MailIds' /\ cut' \subseteq MailIds'
<1>0. /\ inbox \subseteq MailIds /\ cut \subseteq MailIds /\ MailIds \subseteq MailIds'
      /\ loop.batch \subseteq MailIds /\ loop.mail \in MailIds \cup {0}
  BY WhoWritesPost, PostKept DEF RelayInv, RelayTypeOK, Handling
<1> DEFINE Fits == inbox' \subseteq MailIds' /\ cut' \subseteq MailIds'
<1> SUFFICES Fits
  OBVIOUS
<1>1. ASSUME UNCHANGED inbox \/ inbox' = {}, UNCHANGED cut PROVE Fits
  BY <1>0, <1>1
<1>a. ASSUME UNCHANGED inbox, cut' = cut \cup {loop.mail}, loop.mail \in MailIds PROVE Fits
  BY <1>0, <1>a
<1>b. CASE Crash
  BY <1>0, <1>b DEF Crash
<1>c. ASSUME NEW m, HandleRestart(m) PROVE Fits
  BY <1>0, <1>c DEF HandleRestart
<1>2. ASSUME NEW kind, NEW re, UserWrites(kind, re) PROVE Fits
  <2>1. /\ post' = Append(post, [kind |-> kind, re |-> re, row |-> 0])
        /\ inbox' = inbox \cup {Len(post) + 1} /\ cut' = cut
    BY <1>2 DEF UserWrites, Posts
  <2>2. Len(post) + 1 \in MailIds'
    BY <2>1, Shapes, AppendProperties DEF RelayInv, RelayTypeOK, MailIds
  <2> QED  BY <1>0, <2>1, <2>2
<1> HIDE DEF Fits
<1>3. CASE LoopStep
  <2>1. ASSUME NEW m \in loop.batch, HandleMail(m) PROVE Fits
    BY <1>1, <1>c, <2>1 DEF HandleMail, HandleReply, HandleAgentCommand, HandleJsonCommand,
                HandleReaction, RouteToLiveAgent, AnswerEnvelope, HandleMeta,
                HandleQuestion, HandleCommand, Reject
  <2>2. ASSUME NEW r \in loop.todo, RelayRow(r) PROVE Fits
    BY <1>1, <2>2 DEF RelayRow, Drains, Sends, SetEmailMessageId, MarkRelayed
  <2> QED  BY <1>1, <1>3, <2>1, <2>2 DEF LoopStep, Polls, Ticks, Sleeps, RecordRelayed, QueueReply,
              QueueRefused, BriefAgent, SendAnswer, RecordAnswer, RouterTurn, RouterReturns, StampOrigin
<1>4. CASE Faults
  <2>1. CASE AnswerFails \/ RelayFails
    BY <1>1, <2>1 DEF AnswerFails, RelayFails
  <2>2. ASSUME StampFails \/ HandlingFails PROVE Fits
    <3>1. loop.mail \in MailIds
      BY <2>2 DEF StampFails, HandlingFails, RelayInv, Handling, MailPoints
    <3> QED  BY <1>a, <2>2, <3>1 DEF StampFails, HandlingFails
  <2>4. ASSUME NEW r \in loop.todo, PermanentError(r) \/ TransientError(r) PROVE Fits
    BY <1>1, <2>4 DEF PermanentError, TransientError
  <2> QED  BY <1>b, <1>4, <2>1, <2>2, <2>4 DEF Faults
<1>5. CASE Others
  BY <1>1, <1>2, <1>5 DEF Others, NotifyUser, AskUser, RouterEnqueues, NotifyTaskDone, AskGivesUp
<1>6. ASSUME NEW r \in RowIds, AskPolls(r) PROVE Fits
  BY <1>1, <1>6 DEF AskPolls
<1>7. CASE UNCHANGED vars
  BY <1>1, <1>7 DEF vars
<1> QED  BY <1>3, <1>4, <1>5, <1>6, <1>7 DEF Next

LEMMA JobsTyped ==
    ASSUME RelayInv, [Next]_vars
    PROVE  jobs' \in Seq(Job)
<1>0. /\ jobs \in Seq(Job) /\ DOMAIN jobs = 1 .. Len(jobs) /\ Len(jobs) \in Nat
      /\ \A j \in DOMAIN jobs : jobs[j] \in Job
      /\ loop.mail \in Nat /\ loop.batch \subseteq Nat
  BY MailsAreNumbers, Shapes DEF RelayInv, RelayTypeOK
<1>1. ASSUME NEW by \in Agents, NEW mail \in Nat, NEW origin \in BOOLEAN, NEW via \in {"mail", "token", "agent"},
             Queues(by, mail, origin, via)
      PROVE  jobs' \in Seq(Job)
  <2>1. [by |-> by, mail |-> mail, origin |-> origin, via |-> via] \in Job
    BY DEF Job
  <2> QED  BY <1>0, <1>1, <2>1, AppendProperties DEF Queues
<1>2. \A a \in Agents : ProjectName[a] \in Agents
  BY ProjectNameAssumption
<1>3. ASSUME NEW a \in Agents, NEW via \in {"mail", "token"},
             Queues(ProjectName[a], loop.mail, FALSE, via)
      PROVE  jobs' \in Seq(Job)
  BY <1>0, <1>1, <1>2, <1>3
<1>4. CASE LoopStep
  <2>1. ASSUME NEW m \in loop.batch, HandleMail(m) PROVE jobs' \in Seq(Job)
    <3>1. ASSUME NEW a \in Agents, HandleJsonCommand(m, a) PROVE jobs' \in Seq(Job)
      BY <1>0, <1>1, <1>2, <3>1 DEF HandleJsonCommand
    <3>2. ASSUME NEW a \in Agents, RouteToLiveAgent(m, a) PROVE jobs' \in Seq(Job)
      BY <1>0, <1>1, <3>2 DEF RouteToLiveAgent
    <3> QED  BY <1>0, <2>1, <3>1, <3>2 DEF HandleMail, HandleReply, HandleAgentCommand,
                HandleReaction, AnswerEnvelope, HandleMeta, HandleRestart, HandleQuestion, HandleCommand, Reject
  <2>2. ASSUME NEW r \in loop.todo, RelayRow(r) PROVE UNCHANGED jobs
    BY <2>2 DEF RelayRow, Drains, Sends, SetEmailMessageId, MarkRelayed
  <2>3. CASE QueueReply
    BY <1>3, <2>3 DEF QueueReply
  <2>4. CASE StampOrigin
    <3>1. ASSUME NEW j \in DOMAIN jobs
          PROVE  [jobs[j] EXCEPT !.origin = @ \/ (jobs[j].via = "token" /\ jobs[j].mail = loop.mail)] \in Job
      BY <1>0 DEF Job
    <3>2. /\ DOMAIN jobs' = 1 .. Len(jobs)
          /\ \A j \in 1 .. Len(jobs) : jobs'[j] \in Job
          /\ jobs' = [j \in 1 .. Len(jobs) |-> jobs'[j]]
      BY <1>0, <2>4, <3>1 DEF StampOrigin
    <3> QED  BY <1>0, <3>2, IsASeq
  <2> QED  BY <1>0, <1>4, <2>1, <2>2, <2>3, <2>4 DEF LoopStep, Polls, Ticks, Sleeps, RecordRelayed,
              QueueRefused, BriefAgent, SendAnswer, RecordAnswer, RouterTurn, RouterReturns
<1>5. CASE Faults
  BY <1>0, <1>5 DEF Faults, AnswerFails, StampFails, HandlingFails, RelayFails, Crash,
              PermanentError, TransientError
<1>6. CASE Others
  <2>1. ASSUME NEW a \in Agents, RouterEnqueues(a) PROVE jobs' \in Seq(Job)
    BY <1>3, <2>1 DEF RouterEnqueues
  <2> QED  BY <1>0, <1>6, <2>1 DEF Others, UserWrites, NotifyUser, AskUser, NotifyTaskDone, AskGivesUp
<1>7. ASSUME NEW r \in RowIds, AskPolls(r) PROVE jobs' \in Seq(Job)
  BY <1>0, <1>7 DEF AskPolls
<1> QED  BY <1>0, <1>4, <1>5, <1>6, <1>7 DEF Next, vars

AskStates == {"none", "waiting", "answered", "gaveup"}

LEMMA AsksTyped ==
    ASSUME RelayInv, [Next]_vars
    PROVE  asks' \in [RowIds -> AskStates] /\ faults' \in 0 .. MaxFaults
<1>0. asks \in [RowIds -> AskStates] /\ faults \in 0 .. MaxFaults /\ MaxFaults \in Nat
  BY RelayBoundsAssumption DEF RelayInv, RelayTypeOK, AskStates
<1> DEFINE Moves ==
        /\ asks' \in [RowIds -> AskStates]
        /\ UNCHANGED faults \/ Fault
<1>a. ASSUME UNCHANGED asks, UNCHANGED faults \/ Fault PROVE Moves
  BY <1>0, <1>a
<1>b. ASSUME NEW r, NEW state \in AskStates, asks' = [asks EXCEPT ![r] = state], UNCHANGED faults
      PROVE  Moves
  BY <1>0, <1>b
<1> HIDE DEF Moves
<1>1. ASSUME LoopStep PROVE Moves
  <2>1. ASSUME NEW m \in loop.batch, HandleMail(m) PROVE Moves
    BY <1>a, <2>1 DEF HandleMail, HandleReply, HandleAgentCommand, HandleJsonCommand,
                HandleReaction, RouteToLiveAgent, AnswerEnvelope, HandleMeta, HandleRestart,
                HandleQuestion, HandleCommand, Reject
  <2>2. ASSUME NEW r \in loop.todo, RelayRow(r) PROVE Moves
    BY <1>a, <2>2 DEF RelayRow, Drains, Sends, SetEmailMessageId, MarkRelayed
  <2> QED  BY <1>a, <1>1, <2>1, <2>2 DEF LoopStep, Polls, Ticks, Sleeps, RecordRelayed, QueueReply,
              QueueRefused, BriefAgent, SendAnswer, RecordAnswer, RouterTurn, RouterReturns, StampOrigin
<1>2. ASSUME Faults PROVE Moves
  BY <1>a, <1>2 DEF Faults, AnswerFails, StampFails, HandlingFails, RelayFails, Crash,
              PermanentError, TransientError
<1>3. ASSUME Others PROVE Moves
  <2>1. "waiting" \in AskStates /\ "gaveup" \in AskStates
    BY DEF AskStates
  <2> QED  BY <1>a, <1>b, <1>3, <2>1 DEF Others, UserWrites, NotifyUser, AskUser, RouterEnqueues,
                                   NotifyTaskDone, AskGivesUp
<1>4. ASSUME NEW r \in RowIds, AskPolls(r) PROVE Moves
  BY <1>b, <1>4 DEF AskPolls, AskStates
<1>5. Moves
  BY <1>a, <1>1, <1>2, <1>3, <1>4 DEF Next, vars
<1>6. faults' \in 0 .. MaxFaults
  BY <1>0, <1>5 DEF Fault, Moves
<1> QED  BY <1>5, <1>6 DEF Moves

-----------------------------------------------------------------------------
LEMMA RelayInvInit == Init => RelayInv
<1> SUFFICES ASSUME Init PROVE RelayInv
  OBVIOUS
<1>1. /\ messages = <<>> /\ column = <<>> /\ post = <<>> /\ jobs = <<>>
      /\ inbox = {} /\ outbound = {} /\ cut = {} /\ faults = 0 /\ MailIds = {}
      /\ asks = [r \in RowIds |-> "none"]
      /\ loop = [pc |-> "poll", batch |-> {}, mail |-> 0, then |-> "mail",
                 todo |-> {}, eid |-> 0]
  BY DEF Init, MailIds
<1>2. RelayTypeOK
  <2>1. MessagesOK
    BY <1>1, EmptySeq, MaxMessagesAssumption DEF MessagesOK
  <2>2. loop \in LoopState
    BY <1>1 DEF LoopState, Points
  <2>3. column \in Seq(Column) /\ Len(column) = Len(messages) /\ post \in Seq(Email) /\ jobs \in Seq(Job)
    BY <1>1, EmptySeq
  <2> QED  BY <1>1, <2>1, <2>2, <2>3, RelayBoundsAssumption DEF RelayTypeOK
<1>3. Handling /\ TodoPending /\ AtRelay
  BY <1>1 DEF Handling, TodoPending, AtRelay, MailPoints, SentPoints
<1>4. AsksReachUser
  BY <1>1 DEF AsksReachUser
<1> QED  BY <1>2, <1>3, <1>4 DEF RelayInv

LEMMA RelayInvStep == RelayInv /\ [Next]_vars => RelayInv'
<1> SUFFICES ASSUME RelayInv, [Next]_vars PROVE RelayInv'
  OBVIOUS
<1>1. RowsFit
  BY WhoWritesRows, RowsMoveFits DEF RelayInv
<1>2. post' \in Seq(Email)
  BY WhoWritesPost, PostKept DEF RelayInv
<1>3. RelayTypeOK'
  BY <1>1, <1>2, InboxKept, OutboundKept, JobsTyped, LoopTyped, TodoStaysPending, AsksTyped
  DEF RelayTypeOK, RowsFit, AskStates
<1> QED  BY <1>3, LoopTyped, TodoStaysPending, AtRelayKept, AsksKept DEF RelayInv

LEMMA RelayInvariant == RelaySpec => []RelayInv
BY RelayInvInit, RelayInvStep, PTL DEF RelaySpec

\* The state of claude-email, of the tables and of the post stays well typed.
THEOREM RelayTyped == RelaySpec => []RelayTypeOK
<1>1. RelayInv => RelayTypeOK
  BY DEF RelayInv
<1> QED  BY <1>1, RelayInvariant, PTL

\* A question that is marked delivered has been mailed, and the reply to that
\* mail is accepted and matched to it, however many rows, mails and faults
\* there are (relay_outbound_messages, is_authorized).
THEOREM AsksAreMailed == RelaySpec => []AsksReachUser
<1>1. RelayInv => AsksReachUser
  BY DEF RelayInv
<1> QED  BY <1>1, RelayInvariant, PTL
-----------------------------------------------------------------------------
(* How the tables refer to each other.                                      *)

\* A row's Message-ID is that of its relay, or of the mail the router was given;
\* a reply says which row and which mail it is about; what a task says is said in
\* the name of the task's agent.
RowsSound ==
    \A r \in DOMAIN column :
        /\ column[r].eid # 0 =>
              \/ column[r].eid \in Sent(r)
              \/ column[r].type = "email_inbound" /\ column[r].from = User
        /\ column[r].type = "reply" =>
              column[r].re \in DOMAIN column /\ column[r].mail \in MailIds
        /\ column[r].job # 0 =>
              /\ column[r].job \in DOMAIN jobs
              /\ ToUser(r) => column[r].from = jobs[column[r].job].by

\* A routed task has its origin, and its agent knows or is about to; a task of the
\* router has its origin or is about to be stamped.
JobsSound ==
    \A j \in DOMAIN jobs :
        /\ jobs[j].via = "agent" =>
              /\ jobs[j].origin
              /\ \/ Briefings(j) # {}
                 \/ loop.pc = "route" /\ j = Len(jobs) /\ loop.mail = jobs[j].mail
                 \/ jobs[j].mail \in cut
        /\ jobs[j].via = "token" =>
              \/ jobs[j].origin
              \/ loop.pc \in {"router", "stamp"} /\ loop.mail = jobs[j].mail
              \/ jobs[j].mail \in cut

TablesSound == RowsSound /\ JobsSound /\ RepliesMatch

\* A row is there for good, and only its Message-ID is ever written.
LEMMA RowsKept ==
    ASSUME RelayInv, [Next]_vars, NEW r \in DOMAIN column
    PROVE  /\ r \in DOMAIN column' /\ r \in DOMAIN messages
           /\ messages'[r].to = messages[r].to
           /\ column'[r].from = column[r].from /\ column'[r].type = column[r].type
           /\ column'[r].re = column[r].re /\ column'[r].job = column[r].job
           /\ column'[r].mail = column[r].mail
           /\ \/ column'[r].eid = column[r].eid
              \/ loop.pc = "sent" /\ r = Least(loop.todo) /\ column'[r].eid = loop.eid
<1>1. /\ RelayTypeOK /\ DOMAIN column = DOMAIN messages
      /\ \A q \in DOMAIN column : column[q] \in Column
  BY Shapes DEF RelayInv
<1>2. DOMAIN column' = DOMAIN messages' /\ DOMAIN messages \subseteq DOMAIN messages'
  <2>1. RowsFit
    BY <1>1, WhoWritesRows, RowsMoveFits
  <2>2. DOMAIN column' = 1 .. Len(column') /\ DOMAIN messages' = 1 .. Len(messages')
    BY <2>1, LenProperties DEF RowsFit, MessagesOK
  <2> QED  BY <2>1, <2>2 DEF RowsFit
<1>3. CASE UNCHANGED <<messages, column>>
  BY <1>1, <1>3
<1>4. CASE NewRow
  BY <1>1, <1>2, <1>4, NewRowFits
<1>5. ASSUME NEW q \in loop.todo, Stamps(q)
      PROVE  /\ column'[r].from = column[r].from /\ column'[r].type = column[r].type
             /\ column'[r].re = column[r].re /\ column'[r].job = column[r].job
             /\ column'[r].mail = column[r].mail /\ messages' = messages
             /\ \/ column'[r].eid = column[r].eid
                \/ loop.pc = "sent" /\ r = Least(loop.todo) /\ column'[r].eid = loop.eid
  BY <1>1, <1>5 DEF Stamps, Column
<1>6. ASSUME NEW q \in loop.todo, NEW status \in {"delivered", "failed"}, Closes(q, status)
      PROVE  column' = column /\ messages'[r].to = messages[r].to
  BY <1>1, <1>6, ClosesFits DEF Closes
<1> QED  BY <1>1, <1>2, <1>3, <1>4, <1>5, <1>6, WhoWritesRows DEF RowsMove

\* What a row that was not there before says.
LEMMA RowIsNew ==
    ASSUME RelayInv, [Next]_vars, NEW r \in DOMAIN column', r \notin DOMAIN column
    PROVE  /\ messages'[r].status = "pending"
           /\ SaysWhatIs(messages'[r].to, column'[r])
           /\ r = Len(column) + 1
<1>1. /\ RelayTypeOK /\ DOMAIN column = DOMAIN messages
      /\ column \in Seq(Column) /\ Len(column) = Len(messages) /\ Len(column) \in Nat
      /\ DOMAIN column = 1 .. Len(column)
  BY Shapes DEF RelayInv, RelayTypeOK
<1>2. CASE NewRow
  <2>1. PICK n \in Names, row \in Column : Inserts(n, row) /\ SaysWhatIs(n, row)
    BY <1>2 DEF NewRow
  <2>2. InsertMessage(n) /\ column' = Append(column, row)
    BY <2>1 DEF Inserts
  <2>3. /\ messages'[Len(messages) + 1].to = n
        /\ messages'[Len(messages) + 1].status = "pending"
    BY <1>1, <2>2, InsertMessageEffect DEF RelayTypeOK
  <2>4. /\ column' \in Seq(Column) /\ Len(column') = Len(column) + 1
        /\ column'[Len(column) + 1] = row
    BY <1>1, <2>2, AppendProperties
  <2>5. r = Len(column) + 1
    <3>1. DOMAIN column' = 1 .. Len(column')
      BY <2>4, LenProperties
    <3> QED  BY <1>1, <2>4, <3>1
  <2> QED  BY <1>1, <2>1, <2>3, <2>4, <2>5
<1>3. CASE UNCHANGED <<messages, column>>
  BY <1>3
<1>4. ASSUME NEW q \in loop.todo, Stamps(q) PROVE FALSE
  BY <1>4 DEF Stamps
<1>5. ASSUME NEW q \in loop.todo, NEW status \in {"delivered", "failed"}, Closes(q, status)
      PROVE FALSE
  BY <1>5 DEF Closes
<1> QED  BY <1>2, <1>3, <1>4, <1>5, WhoWritesRows DEF RowsMove


\* The post and the history only grow.
LEMMA HistoryGrows ==
    ASSUME RelayInv, [Next]_vars
    PROVE  /\ cut \subseteq cut' /\ outbound \subseteq outbound'
           /\ MailIds \subseteq MailIds' /\ \A e \in MailIds : post'[e] = post[e]
           /\ \A r : Sent(r) \subseteq Sent(r)'
<1>1. /\ MailIds \subseteq MailIds' /\ \A e \in MailIds : post'[e] = post[e]
      /\ outbound \subseteq outbound'
  BY WhoWritesPost, PostKept, OutboundKept DEF RelayInv
<1>2. \A r : Sent(r) \subseteq Sent(r)'
  BY <1>1 DEF Sent
<1> DEFINE Grows == cut \subseteq cut'
<1>a. ASSUME UNCHANGED cut PROVE Grows
  BY <1>a
<1>b. ASSUME NEW S, cut' = cut \cup S PROVE Grows
  BY <1>b
<1>c. ASSUME Crash PROVE Grows
  BY <1>c DEF Crash
<1> HIDE DEF Grows
<1>3. ASSUME LoopStep PROVE Grows
  <2>1. ASSUME NEW m \in loop.batch, HandleMail(m) PROVE Grows
    BY <1>a, <1>b, <2>1 DEF HandleMail, HandleReply, HandleAgentCommand, HandleJsonCommand,
                HandleReaction, RouteToLiveAgent, AnswerEnvelope, HandleMeta, HandleRestart,
                HandleQuestion, HandleCommand, Reject
  <2>2. ASSUME NEW r \in loop.todo, RelayRow(r) PROVE Grows
    BY <1>a, <2>2 DEF RelayRow, Drains, Sends, SetEmailMessageId, MarkRelayed
  <2> QED  BY <1>a, <1>3, <2>1, <2>2 DEF LoopStep, Polls, Ticks, Sleeps, RecordRelayed, QueueReply,
              QueueRefused, BriefAgent, SendAnswer, RecordAnswer, RouterTurn, RouterReturns, StampOrigin
<1>4. ASSUME Faults PROVE Grows
  BY <1>a, <1>b, <1>c, <1>4 DEF Faults, AnswerFails, StampFails, HandlingFails, RelayFails,
              PermanentError, TransientError
<1>5. ASSUME Others PROVE Grows
  BY <1>a, <1>5 DEF Others, UserWrites, NotifyUser, AskUser, RouterEnqueues, NotifyTaskDone, AskGivesUp
<1>6. ASSUME NEW r \in RowIds, AskPolls(r) PROVE Grows
  BY <1>a, <1>6 DEF AskPolls
<1>7. Grows
  BY <1>a, <1>3, <1>4, <1>5, <1>6 DEF Next, vars
<1> QED  BY <1>1, <1>2, <1>7 DEF Grows

\* The tasks: nothing, the stamp, or one task more.
NewJob ==
    \/ QueueReply
    \/ \E m \in loop.batch, a \in Agents : HandleJsonCommand(m, a) \/ RouteToLiveAgent(m, a)
    \/ \E a \in Agents : RouterEnqueues(a)

LEMMA WhoWritesJobs ==
    ASSUME [Next]_vars
    PROVE  UNCHANGED jobs \/ StampOrigin \/ NewJob
<1> DEFINE Moves == UNCHANGED jobs \/ StampOrigin \/ NewJob
<1> SUFFICES Moves
  OBVIOUS
<1>1. CASE LoopStep
  <2>1. ASSUME NEW m \in loop.batch, HandleMail(m) PROVE Moves
    BY <2>1 DEF HandleMail, HandleReply, HandleAgentCommand, NewJob,
                HandleReaction, AnswerEnvelope, HandleMeta, HandleRestart,
                HandleQuestion, HandleCommand, Reject
  <2>2. ASSUME NEW r \in loop.todo, RelayRow(r) PROVE Moves
    BY <2>2 DEF RelayRow, Drains, Sends, SetEmailMessageId, MarkRelayed
  <2> QED  BY <1>1, <2>1, <2>2 DEF LoopStep, Polls, Ticks, Sleeps, RecordRelayed, NewJob,
              QueueRefused, BriefAgent, SendAnswer, RecordAnswer, RouterTurn, RouterReturns
<1>2. CASE Faults
  BY <1>2 DEF Faults, AnswerFails, StampFails, HandlingFails, RelayFails, Crash,
              PermanentError, TransientError
<1>3. CASE Others
  BY <1>3 DEF Others, UserWrites, NotifyUser, AskUser, NotifyTaskDone, AskGivesUp, NewJob
<1>4. ASSUME NEW r \in RowIds, AskPolls(r) PROVE Moves
  BY <1>4 DEF AskPolls
<1> QED  BY <1>1, <1>2, <1>3, <1>4 DEF Next, vars

\* What a new task is like, and where the loop is then.
NewJobIs(job) ==
    \/ /\ loop.pc = "queue" /\ job.via = "mail" /\ UNCHANGED <<messages, column, cut>>
       /\ \E r \in Original(loop.mail) :
             column[r].from \in Agents /\ job.by = ProjectName[column[r].from]
    \/ job.via = "mail" /\ job.origin
    \/ job.via = "agent" /\ job.origin /\ loop'.pc = "route" /\ loop'.mail = job.mail
    \/ /\ job.via = "token" /\ job.mail = loop.mail
       /\ loop.pc = "router" /\ UNCHANGED loop

LEMMA NewJobEffect ==
    ASSUME RelayInv, NewJob
    PROVE  /\ Len(jobs') = Len(jobs) + 1
           /\ DOMAIN jobs' = DOMAIN jobs \cup {Len(jobs) + 1}
           /\ \A j \in DOMAIN jobs : jobs'[j] = jobs[j]
           /\ NewJobIs(jobs'[Len(jobs) + 1])
<1>1. /\ jobs \in Seq(Job) /\ DOMAIN jobs = 1 .. Len(jobs) /\ Len(jobs) \in Nat
      /\ loop \in LoopState /\ loop.mail \in Nat /\ loop.batch \subseteq Nat
  BY Shapes, MailsAreNumbers DEF RelayInv, RelayTypeOK
<1>2. ASSUME NEW by \in Agents, NEW mail \in Nat, NEW origin \in BOOLEAN,
             NEW via \in {"mail", "token", "agent"}, Queues(by, mail, origin, via)
      PROVE  /\ Len(jobs') = Len(jobs) + 1
             /\ DOMAIN jobs' = DOMAIN jobs \cup {Len(jobs) + 1}
             /\ \A j \in DOMAIN jobs : jobs'[j] = jobs[j]
             /\ jobs'[Len(jobs) + 1] = [by |-> by, mail |-> mail, origin |-> origin, via |-> via]
  <2> DEFINE job == [by |-> by, mail |-> mail, origin |-> origin, via |-> via]
  <2>1. job \in Job /\ jobs' = Append(jobs, job)
    BY <1>2 DEF Job, Queues
  <2> HIDE DEF job
  <2>2. /\ jobs' \in Seq(Job) /\ Len(jobs') = Len(jobs) + 1
        /\ \A j \in 1 .. Len(jobs) : jobs'[j] = jobs[j]
        /\ jobs'[Len(jobs) + 1] = job
    BY <1>1, <2>1, AppendProperties
  <2>3. DOMAIN jobs' = 1 .. Len(jobs')
    BY <2>2, LenProperties
  <2> QED  BY <1>1, <2>2, <2>3 DEF job
<1> DEFINE Effect ==
        /\ Len(jobs') = Len(jobs) + 1
        /\ DOMAIN jobs' = DOMAIN jobs \cup {Len(jobs) + 1}
        /\ \A j \in DOMAIN jobs : jobs'[j] = jobs[j]
        /\ NewJobIs(jobs'[Len(jobs) + 1])
<1>a. ASSUME NEW by \in Agents, NEW mail \in Nat, NEW origin \in BOOLEAN,
             NEW via \in {"mail", "token", "agent"}, Queues(by, mail, origin, via),
             NewJobIs([by |-> by, mail |-> mail, origin |-> origin, via |-> via])
      PROVE  Effect
  BY <1>2, <1>a
<1> HIDE DEF Effect
<1>3. \A a \in Agents : ProjectName[a] \in Agents
  BY ProjectNameAssumption
<1>4. ASSUME QueueReply PROVE Effect
  <2>1. PICK r \in Original(loop.mail) :
           column[r].from \in Agents /\ Queues(ProjectName[column[r].from], loop.mail, FALSE, "mail")
    BY <1>4 DEF QueueReply
  <2>2. loop.pc = "queue" /\ UNCHANGED <<messages, column, cut>>
    BY <1>4 DEF QueueReply
  <2>3. NewJobIs([by |-> ProjectName[column[r].from], mail |-> loop.mail,
                  origin |-> FALSE, via |-> "mail"])
    BY <2>1, <2>2 DEF NewJobIs
  <2> QED  BY <1>1, <1>3, <1>a, <2>1, <2>3
<1>5. ASSUME NEW m \in loop.batch, NEW a \in Agents, HandleJsonCommand(m, a) PROVE Effect
  <2>1. m \in Nat /\ Queues(ProjectName[a], m, TRUE, "mail")
    BY <1>1, <1>5 DEF HandleJsonCommand
  <2>2. NewJobIs([by |-> ProjectName[a], mail |-> m, origin |-> TRUE, via |-> "mail"])
    BY DEF NewJobIs
  <2> QED  BY <1>3, <1>a, <2>1, <2>2
<1>6. ASSUME NEW m \in loop.batch, NEW a \in Agents, RouteToLiveAgent(m, a) PROVE Effect
  <2>1. m \in Nat /\ Queues(a, m, TRUE, "agent") /\ loop'.pc = "route" /\ loop'.mail = m
    BY <1>1, <1>6 DEF RouteToLiveAgent, Takes, LoopState
  <2>2. NewJobIs([by |-> a, mail |-> m, origin |-> TRUE, via |-> "agent"])
    BY <2>1 DEF NewJobIs
  <2> QED  BY <1>a, <2>1, <2>2
<1>7. ASSUME NEW a \in Agents, RouterEnqueues(a) PROVE Effect
  <2>1. /\ Queues(ProjectName[a], loop.mail, FALSE, "token")
        /\ loop.pc = "router" /\ UNCHANGED loop
    BY <1>7 DEF RouterEnqueues
  <2>2. NewJobIs([by |-> ProjectName[a], mail |-> loop.mail, origin |-> FALSE, via |-> "token"])
    BY <2>1 DEF NewJobIs
  <2> QED  BY <1>1, <1>3, <1>a, <2>1, <2>2
<1>8. Effect
  BY <1>4, <1>5, <1>6, <1>7 DEF NewJob
<1> QED  BY <1>8 DEF Effect

\* A task stays what it was; only the stamp writes it, and only an origin.
LEMMA JobsKept ==
    ASSUME RelayInv, [Next]_vars, NEW j \in DOMAIN jobs
    PROVE  /\ j \in DOMAIN jobs'
           /\ jobs'[j].by = jobs[j].by /\ jobs'[j].mail = jobs[j].mail /\ jobs'[j].via = jobs[j].via
           /\ jobs[j].origin => jobs'[j].origin
           /\ jobs'[j].origin => jobs[j].origin \/ (loop.pc = "stamp" /\ jobs[j].via = "token")
<1>1. \A i \in DOMAIN jobs : jobs[i] \in Job
  BY Shapes DEF RelayInv
<1>2. CASE StampOrigin
  <2>1. /\ loop.pc = "stamp" /\ DOMAIN jobs' = DOMAIN jobs
        /\ jobs'[j] = [jobs[j] EXCEPT !.origin = jobs[j].origin
                          \/ (jobs[j].via = "token" /\ jobs[j].mail = loop.mail)]
    BY <1>2 DEF StampOrigin
  <2> QED  BY <1>1, <2>1 DEF Job
<1>3. CASE NewJob
  BY <1>3, NewJobEffect
<1> QED  BY <1>2, <1>3, WhoWritesJobs

-----------------------------------------------------------------------------
(* What process_email leaves half done.                                     *)

LEMMA RouteEnds ==
    ASSUME RelayInv, [Next]_vars, loop.pc = "route"
    PROVE  UNCHANGED <<loop, jobs>> \/ BriefAgent \/ loop.mail \in cut'
<1>0. loop.mail \in MailIds /\ loop.mail # 0
  BY MailsAreNumbers, Shapes DEF RelayInv, Handling, MailPoints
<1> DEFINE Ends == UNCHANGED <<loop, jobs>> \/ BriefAgent \/ loop.mail \in cut'
<1>1. CASE LoopStep
  <2>1. ASSUME NEW m \in loop.batch, HandleMail(m) PROVE FALSE
    BY <2>1 DEF HandleMail, HandleReply, HandleAgentCommand, HandleJsonCommand,
                HandleReaction, RouteToLiveAgent, AnswerEnvelope, HandleMeta, HandleRestart,
                HandleQuestion, HandleCommand, Reject, Takes
  <2>2. ASSUME NEW r \in loop.todo, RelayRow(r) PROVE FALSE
    BY <2>2 DEF RelayRow, Drains, Sends, SetEmailMessageId, MarkRelayed, AtHand
  <2> QED  BY <1>1, <2>1, <2>2 DEF LoopStep, Polls, Ticks, Sleeps, RecordRelayed, QueueReply,
              QueueRefused, SendAnswer, RecordAnswer, RouterTurn, RouterReturns, StampOrigin
<1>2. CASE Faults
  BY <1>0, <1>2 DEF Faults, AnswerFails, StampFails, HandlingFails, RelayFails, Crash,
              PermanentError, TransientError, AtHand
<1>3. CASE Others
  BY <1>3 DEF Others, UserWrites, NotifyUser, AskUser, RouterEnqueues, NotifyTaskDone, AskGivesUp
<1>4. ASSUME NEW r \in RowIds, AskPolls(r) PROVE UNCHANGED <<loop, jobs>>
  BY <1>4 DEF AskPolls
<1> QED  BY <1>1, <1>2, <1>3, <1>4 DEF Next, vars

LEMMA TurnEnds ==
    ASSUME RelayInv, [Next]_vars, loop.pc \in {"router", "stamp"}
    PROVE  \/ loop'.pc \in {"router", "stamp"} /\ loop'.mail = loop.mail
           \/ StampOrigin
           \/ loop.mail \in cut'
<1>0. loop.mail \in MailIds /\ loop.mail # 0 /\ loop \in LoopState
  BY MailsAreNumbers, Shapes DEF RelayInv, RelayTypeOK, Handling, MailPoints
<1>1. CASE LoopStep
  <2>1. ASSUME NEW m \in loop.batch, HandleMail(m) PROVE FALSE
    BY <2>1 DEF HandleMail, HandleReply, HandleAgentCommand, HandleJsonCommand,
                HandleReaction, RouteToLiveAgent, AnswerEnvelope, HandleMeta, HandleRestart,
                HandleQuestion, HandleCommand, Reject, Takes
  <2>2. ASSUME NEW r \in loop.todo, RelayRow(r) PROVE FALSE
    BY <2>2 DEF RelayRow, Drains, Sends, SetEmailMessageId, MarkRelayed, AtHand
  <2>3. ASSUME RouterReturns PROVE loop'.pc = "stamp" /\ loop'.mail = loop.mail
    BY <1>0, <2>3 DEF RouterReturns, Goes, LoopState
  <2> QED  BY <1>1, <2>1, <2>2, <2>3 DEF LoopStep, Polls, Ticks, Sleeps, RecordRelayed, QueueReply,
              QueueRefused, BriefAgent, SendAnswer, RecordAnswer, RouterTurn
<1>2. CASE Faults
  BY <1>0, <1>2 DEF Faults, AnswerFails, StampFails, HandlingFails, RelayFails, Crash,
              PermanentError, TransientError, AtHand
<1>3. CASE Others
  BY <1>3 DEF Others, UserWrites, NotifyUser, AskUser, RouterEnqueues, NotifyTaskDone, AskGivesUp
<1>4. ASSUME NEW r \in RowIds, AskPolls(r) PROVE UNCHANGED loop
  BY <1>4 DEF AskPolls
<1> QED  BY <1>1, <1>2, <1>3, <1>4 DEF Next, vars

LEMMA RowsSoundKept ==
    ASSUME RelayInv, RowsSound, [Next]_vars
    PROVE  RowsSound'
<1>0. /\ DOMAIN column = DOMAIN messages /\ AtRelay /\ MailIds \subseteq MailIds'
      /\ \A r : Sent(r) \subseteq Sent(r)'
  BY Shapes, HistoryGrows DEF RelayInv
<1>1. ASSUME NEW r \in DOMAIN column'
      PROVE  /\ column'[r].eid # 0 =>
                   \/ column'[r].eid \in Sent(r)'
                   \/ column'[r].type = "email_inbound" /\ column'[r].from = User
             /\ column'[r].type = "reply" =>
                   column'[r].re \in DOMAIN column' /\ column'[r].mail \in MailIds'
             /\ column'[r].job # 0 =>
                   /\ column'[r].job \in DOMAIN jobs'
                   /\ ToUser(r)' => column'[r].from = jobs'[column'[r].job].by
  <2>1. CASE r \in DOMAIN column
    <3>1. /\ column[r].eid # 0 =>
                \/ column[r].eid \in Sent(r)
                \/ column[r].type = "email_inbound" /\ column[r].from = User
          /\ column[r].type = "reply" =>
                column[r].re \in DOMAIN column /\ column[r].mail \in MailIds
          /\ column[r].job # 0 =>
                /\ column[r].job \in DOMAIN jobs
                /\ ToUser(r) => column[r].from = jobs[column[r].job].by
      BY <2>1 DEF RowsSound
    <3>2. /\ messages'[r].to = messages[r].to
          /\ column'[r].from = column[r].from /\ column'[r].type = column[r].type
          /\ column'[r].re = column[r].re /\ column'[r].job = column[r].job
          /\ column'[r].mail = column[r].mail
      BY <2>1, RowsKept
    <3>3. \/ column'[r].eid = column[r].eid
          \/ column'[r].eid \in Sent(r)
      <4>1. ASSUME loop.pc = "sent", r = Least(loop.todo) PROVE loop.eid \in Sent(r)
        BY <1>0, <4>1 DEF AtRelay, HasSent, SentPoints
      <4> QED  BY <2>1, <4>1, RowsKept
    <3>4. column[r].re \in DOMAIN column => column[r].re \in DOMAIN column'
      BY RowsKept
    <3>5. column[r].job \in DOMAIN jobs =>
             column[r].job \in DOMAIN jobs' /\ jobs'[column[r].job].by = jobs[column[r].job].by
      BY JobsKept
    <3> QED  BY <1>0, <3>1, <3>2, <3>3, <3>4, <3>5 DEF ToUser
  <2>2. CASE r \notin DOMAIN column
    <3>1. SaysWhatIs(messages'[r].to, column'[r])
      BY <2>2, RowIsNew
    <3>2. \A q \in DOMAIN column : q \in DOMAIN column'
      BY RowsKept
    <3>3. \A j \in DOMAIN jobs : j \in DOMAIN jobs' /\ jobs'[j].by = jobs[j].by
      BY JobsKept
    <3> QED  BY <1>0, <3>1, <3>2, <3>3 DEF SaysWhatIs, Original, RowsOf, ToUser
  <2> QED  BY <2>1, <2>2
<1> QED  BY <1>1 DEF RowsSound

LEMMA RepliesKept ==
    ASSUME RelayInv, RowsSound, RepliesMatch, [Next]_vars
    PROVE  RepliesMatch'
<1>0. \A e \in MailIds : post'[e] = post[e]
  BY HistoryGrows
<1>s. \A r : Sent(r) \subseteq Sent(r)'
  BY HistoryGrows
<1> SUFFICES ASSUME NEW r \in DOMAIN column', NEW q \in DOMAIN column',
                    column'[q].re = r, column'[q].type = "reply", column'[r].type = "ask"
             PROVE  post'[column'[q].mail].re \in Sent(r)'
  BY DEF RepliesMatch, Replies
<1>1. CASE q \in DOMAIN column
  <2>1. /\ column'[q].re = column[q].re /\ column'[q].type = column[q].type
        /\ column'[q].mail = column[q].mail
    BY <1>1, RowsKept
  <2>2. r \in DOMAIN column /\ column[q].mail \in MailIds
    BY <1>1, <2>1 DEF RowsSound
  <2>3. column[r].type = "ask"
    BY <2>2, RowsKept
  <2>4. post[column[q].mail].re \in Sent(r)
    BY <1>1, <2>1, <2>2, <2>3 DEF RepliesMatch, Replies
  <2> QED  BY <1>0, <1>s, <2>1, <2>2, <2>4
<1>2. CASE q \notin DOMAIN column
  <2>1. SaysWhatIs(messages'[q].to, column'[q])
    BY <1>2, RowIsNew
  <2>2. column'[q].mail \in MailIds /\ r \in Original(column'[q].mail)
    BY <2>1 DEF SaysWhatIs
  <2>3. r \in DOMAIN column /\ post[column'[q].mail].re # 0
        /\ column[r].eid = post[column'[q].mail].re
    BY <2>2 DEF Original, RowsOf
  <2>4. column[r].type = "ask"
    BY <2>3, RowsKept
  <2>5. post[column'[q].mail].re \in Sent(r)
    BY <2>3, <2>4 DEF RowsSound
  <2> QED  BY <1>0, <1>s, <2>2, <2>5
<1> QED  BY <1>1, <1>2

LEMMA JobsSoundKept ==
    ASSUME RelayInv, JobsSound, [Next]_vars
    PROVE  JobsSound'
<1>0. /\ jobs \in Seq(Job) /\ DOMAIN jobs = 1 .. Len(jobs) /\ Len(jobs) \in Nat
      /\ \A i \in DOMAIN jobs : jobs[i] \in Job
      /\ column \in Seq(Column) /\ cut \subseteq cut'
  BY Shapes, HistoryGrows DEF RelayInv, RelayTypeOK
<1>1. ASSUME NEW i, NEW r \in Briefings(i) PROVE r \in Briefings(i)'
  BY <1>1, RowsKept DEF Briefings, RowsOfJob
<1>2. ASSUME BriefAgent, NEW i, i = Len(jobs) PROVE Briefings(i)' # {}
  <2>1. Inserts(jobs[i].by, Row(User, "ask", 0, 0, i, loop.mail))
    BY <1>2 DEF BriefAgent
  <2> DEFINE row == Row(User, "ask", 0, 0, i, loop.mail)
  <2>2. column' = Append(column, row) /\ row.from = User /\ row.job = i
    BY <2>1 DEF Inserts, Row
  <2> HIDE DEF row
  <2>3. /\ Len(column) + 1 \in DOMAIN column' /\ column'[Len(column) + 1] = row
    BY <1>0, <2>2
  <2>4. \E r \in DOMAIN column' : column'[r].job = i /\ column'[r].from = User
    BY <2>2, <2>3
  <2> QED  BY <2>4 DEF Briefings, RowsOfJob
<1> DEFINE Told(i) ==
        \/ Briefings(i) # {}
        \/ loop.pc = "route" /\ i = Len(jobs) /\ loop.mail = jobs[i].mail
        \/ jobs[i].mail \in cut
<1> DEFINE Stamped(i) ==
        \/ jobs[i].origin
        \/ loop.pc \in {"router", "stamp"} /\ loop.mail = jobs[i].mail
        \/ jobs[i].mail \in cut
<1>3. ASSUME NEW j \in DOMAIN jobs, jobs[j].via = "agent"
      PROVE  jobs'[j].origin /\ Told(j)'
  <2>1. jobs[j].origin /\ Told(j)
    BY <1>3 DEF JobsSound
  <2>2. jobs'[j].origin /\ jobs'[j].mail = jobs[j].mail
    BY <2>1, JobsKept
  <2>3. CASE Briefings(j) # {}
    BY <1>1, <2>2, <2>3
  <2>4. CASE jobs[j].mail \in cut
    BY <1>0, <2>2, <2>4
  <2>5. CASE loop.pc = "route" /\ j = Len(jobs) /\ loop.mail = jobs[j].mail
    <3>1. CASE UNCHANGED <<loop, jobs>>
      BY <2>2, <2>5, <3>1
    <3>2. CASE BriefAgent
      <4>1. Briefings(j)' # {}
        BY <1>2, <2>5, <3>2
      <4> QED  BY <2>2, <4>1
    <3>3. CASE loop.mail \in cut'
      BY <2>2, <2>5, <3>3
    <3> QED  BY <2>5, <3>1, <3>2, <3>3, RouteEnds
  <2> QED  BY <2>1, <2>3, <2>4, <2>5
<1>4. ASSUME NEW j \in DOMAIN jobs, jobs[j].via = "token"
      PROVE  Stamped(j)'
  <2>1. Stamped(j)
    BY <1>4 DEF JobsSound
  <2>2. jobs'[j].mail = jobs[j].mail /\ (jobs[j].origin => jobs'[j].origin)
    BY JobsKept
  <2>3. CASE loop.pc \in {"router", "stamp"} /\ loop.mail = jobs[j].mail
    <3>1. ASSUME StampOrigin PROVE jobs'[j].origin
      <4>1. jobs'[j] = [jobs[j] EXCEPT !.origin = jobs[j].origin
                           \/ (jobs[j].via = "token" /\ jobs[j].mail = loop.mail)]
        BY <3>1 DEF StampOrigin
      <4> QED  BY <1>0, <1>4, <2>3, <4>1 DEF Job
    <3> QED  BY <2>2, <2>3, <3>1, TurnEnds
  <2> QED  BY <1>0, <2>1, <2>2, <2>3
<1>5. ASSUME NEW j \in DOMAIN jobs', j \notin DOMAIN jobs
      PROVE  /\ jobs'[j].via = "agent" => jobs'[j].origin /\ Told(j)'
             /\ jobs'[j].via = "token" => Stamped(j)'
  <2>1. CASE NewJob
    <3>1. NewJobIs(jobs'[j]) /\ j = Len(jobs')
      BY <1>0, <1>5, <2>1, NewJobEffect
    <3> QED  BY <3>1 DEF NewJobIs
  <2>2. CASE StampOrigin
    BY <1>5, <2>2 DEF StampOrigin
  <2> QED  BY <1>5, <2>1, <2>2, WhoWritesJobs
<1>6. \A j \in DOMAIN jobs : jobs'[j].via = jobs[j].via
  BY JobsKept
<1> QED  BY <1>3, <1>4, <1>5, <1>6 DEF JobsSound

LEMMA TablesSoundAlways == RelaySpec => [](RelayInv /\ TablesSound)
<1>1. Init => TablesSound
  <2> SUFFICES ASSUME Init PROVE TablesSound
    OBVIOUS
  <2>1. column = <<>> /\ jobs = <<>>
    BY DEF Init
  <2> QED  BY <2>1 DEF TablesSound, RowsSound, JobsSound, RepliesMatch
<1>2. RelayInv /\ TablesSound /\ [Next]_vars => TablesSound'
  BY RowsSoundKept, JobsSoundKept, RepliesKept DEF TablesSound
<1> QED  BY <1>1, <1>2, RelayInvInit, RelayInvStep, PTL DEF RelaySpec

\* The reply that a chat_ask returns is to an e-mail that asked its question
\* (classify_email, get_reply_to_message).
THEOREM RepliesAnswer == RelaySpec => []RepliesMatch
<1>1. TablesSound => RepliesMatch
  BY DEF TablesSound
<1> QED  BY <1>1, TablesSoundAlways, PTL

\* A routed command reaches its agent's inbox, unless its handling was cut short
\* between the two writes (_route_to_live_agent).
THEOREM RoutedIsTold == RelaySpec => []RoutedIsBriefed
<1>1. TablesSound => RoutedIsBriefed
  BY DEF TablesSound, JobsSound, RoutedIsBriefed
<1> QED  BY <1>1, TablesSoundAlways, PTL
-----------------------------------------------------------------------------
(* What a task says reaches the user.  _should_relay knows a task without an *)
(* origin by the user having written to whoever announces it: for a task     *)
(* that a reply queued, that is the agent replied to, if it has the name of  *)
(* its project.                                                              *)

OwnNames == \A a \in Agents : ProjectName[a] = a

\* A task of a mail has its origin, or the user wrote to who announces its end.
Evidence ==
    \A j \in DOMAIN jobs :
        jobs[j].via = "mail" => jobs[j].origin \/ UserWroteTo(jobs[j].by)

\* The reply is on the bus before it is queued as a task.
Queued ==
    loop.pc = "queue" =>
        \A r \in Original(loop.mail) : column[r].from \in Agents => UserWroteTo(column[r].from)

\* The e-mail just sent is in the thread of its task's mail.
Threaded ==
    loop.pc \in SentPoints =>
        \A r \in loop.todo : r = Least(loop.todo) /\ HasOrigin(r) =>
            post[loop.eid].re = jobs[column[r].job].mail

\* What was relayed has kept its thread, even if the router's stamp comes late.
Mailed ==
    \A r \in DOMAIN messages :
        LET j == column[r].job IN
        ToUser(r) /\ j # 0 /\ messages[r].status = "delivered" /\ jobs[j].mail \notin cut =>
            /\ Answerable(r)
            /\ jobs[j].origin => post[column[r].eid].re = jobs[j].mail
            /\ jobs[j].via = "token" => jobs[j].origin

ResultsInv == Evidence /\ Queued /\ Threaded /\ Mailed

\* UserWroteTo, after the step.
WroteThen(a) == \E q \in DOMAIN messages' : messages'[q].to = a /\ column'[q].from = User

LEMMA UserWroteKept ==
    ASSUME RelayInv, [Next]_vars, NEW a, UserWroteTo(a)
    PROVE  WroteThen(a)
<1>1. PICK q \in DOMAIN messages : messages[q].to = a /\ column[q].from = User
  BY DEF UserWroteTo
<1>2. DOMAIN column = DOMAIN messages /\ DOMAIN messages \subseteq DOMAIN messages'
  BY Shapes, WhoWritesRows, RowsMoveFits DEF RelayInv, RowsFit
<1>3. q \in DOMAIN messages' /\ messages'[q].to = a /\ column'[q].from = User
  BY <1>1, <1>2, RowsKept
<1> QED  BY <1>3 DEF WroteThen

LEMMA EvidenceKept ==
    ASSUME OwnNames, RelayInv, Evidence, Queued, [Next]_vars
    PROVE  Evidence'
<1> SUFFICES ASSUME NEW j \in DOMAIN jobs', jobs'[j].via = "mail"
             PROVE  jobs'[j].origin \/ WroteThen(jobs'[j].by)
  BY DEF Evidence, UserWroteTo, WroteThen
<1>1. CASE j \in DOMAIN jobs
  <2>1. /\ jobs'[j].by = jobs[j].by /\ jobs[j].via = "mail"
        /\ jobs[j].origin => jobs'[j].origin
    BY <1>1, JobsKept
  <2>2. jobs[j].origin \/ UserWroteTo(jobs[j].by)
    BY <1>1, <2>1 DEF Evidence
  <2>3. UserWroteTo(jobs[j].by) => WroteThen(jobs[j].by)
    BY UserWroteKept
  <2> QED  BY <2>1, <2>2, <2>3
<1>2. CASE j \notin DOMAIN jobs
  <2>1. NewJob
    BY <1>2, WhoWritesJobs DEF StampOrigin
  <2>2. NewJobIs(jobs'[j])
    BY <1>2, <2>1, NewJobEffect
  <2>3. CASE jobs'[j].origin
    BY <2>3
  <2>4. ASSUME loop.pc = "queue", NEW r \in Original(loop.mail),
               column[r].from \in Agents, jobs'[j].by = ProjectName[column[r].from]
        PROVE  WroteThen(jobs'[j].by)
    <3>1. jobs'[j].by = column[r].from /\ UserWroteTo(column[r].from)
      BY <2>4 DEF OwnNames, Queued
    <3>2. WroteThen(column[r].from)
      BY <3>1, UserWroteKept
    <3> QED  BY <3>1, <3>2
  <2> QED  BY <2>2, <2>3, <2>4 DEF NewJobIs
<1> QED  BY <1>1, <1>2

LEMMA WhoQueues ==
    ASSUME RelayInv, [Next]_vars, loop'.pc = "queue"
    PROVE  UNCHANGED loop \/ \E m \in loop.batch : HandleReply(m)
<1>0. loop \in LoopState
  BY DEF RelayInv, RelayTypeOK
<1> DEFINE Goal == UNCHANGED loop \/ \E m \in loop.batch : HandleReply(m)
<1>1. CASE LoopStep
  <2>1. ASSUME NEW m \in loop.batch, HandleMail(m) PROVE HandleReply(m)
    BY <1>0, <2>1 DEF HandleMail, HandleAgentCommand, HandleJsonCommand,
                HandleReaction, RouteToLiveAgent, AnswerEnvelope, HandleMeta, HandleRestart,
                HandleQuestion, HandleCommand, Reject, Takes, LoopState
  <2>2. ASSUME NEW r \in loop.todo, RelayRow(r) PROVE FALSE
    BY <1>0, <2>2 DEF RelayRow, Drains, Sends, SetEmailMessageId, MarkRelayed, Done, Goes, LoopState
  <2>3. ASSUME \/ Polls \/ Ticks \/ Sleeps \/ QueueReply \/ QueueRefused \/ BriefAgent \/ SendAnswer
               \/ RecordAnswer \/ RouterTurn \/ RouterReturns \/ StampOrigin \/ RecordRelayed
        PROVE FALSE
    BY <1>0, <2>3 DEF Polls, Ticks, Sleeps, QueueReply, QueueRefused, BriefAgent, SendAnswer,
              RecordAnswer, RouterTurn, RouterReturns, StampOrigin, RecordRelayed, Goes, LoopState
  <2> QED  BY <1>1, <2>1, <2>2, <2>3 DEF LoopStep
<1>2. CASE Faults
  <2>1. CASE AnswerFails \/ HandlingFails \/ RelayFails
    BY <1>0, <2>1 DEF AnswerFails, HandlingFails, RelayFails, LoopState
  <2>2. CASE StampFails
    BY <1>0, <2>2 DEF StampFails, Goes, LoopState
  <2>3. CASE Crash
    BY <2>3 DEF Crash
  <2>4. ASSUME NEW r \in loop.todo, PermanentError(r) \/ TransientError(r) PROVE FALSE
    BY <1>0, <2>4 DEF PermanentError, TransientError, Done, LoopState
  <2> QED  BY <1>2, <2>1, <2>2, <2>3, <2>4 DEF Faults
<1>3. CASE Others
  BY <1>3 DEF Others, UserWrites, NotifyUser, AskUser, RouterEnqueues, NotifyTaskDone, AskGivesUp
<1>4. ASSUME NEW r \in RowIds, AskPolls(r) PROVE UNCHANGED loop
  BY <1>4 DEF AskPolls
<1> QED  BY <1>1, <1>2, <1>3, <1>4 DEF Next, vars

\* No two rows of agents have the Message-ID of one e-mail.
LEMMA OneOriginal ==
    ASSUME RelayInv, RowsSound, NEW m, NEW p \in Original(m), NEW q \in Original(m),
           column[p].from \in Agents, column[q].from \in Agents
    PROVE  p = q
<1>1. column[p].eid \in Sent(p) /\ column[q].eid \in Sent(q)
  BY DEF RowsSound, Original, RowsOf, Agents
<1> QED  BY <1>1 DEF Original, RowsOf, Sent

LEMMA QueuedKept ==
    ASSUME RelayInv, RowsSound, Queued, [Next]_vars
    PROVE  Queued'
<1>0. /\ MailIds \subseteq MailIds' /\ \A e \in MailIds : post'[e] = post[e]
      /\ loop \in LoopState
      /\ loop.batch \subseteq MailIds /\ (loop.pc = "queue" => loop.mail \in MailIds)
  BY HistoryGrows DEF RelayInv, RelayTypeOK, Handling, MailPoints
<1> SUFFICES ASSUME loop'.pc = "queue", NEW r \in Original(loop.mail)', column'[r].from \in Agents
             PROVE  WroteThen(column'[r].from)
  BY DEF Queued, UserWroteTo, WroteThen
<1>1. r \in DOMAIN column' /\ post'[loop'.mail].re # 0 /\ column'[r].eid = post'[loop'.mail].re
  BY DEF Original, RowsOf
<1>2. r \in DOMAIN column
  <2>1. ASSUME r \notin DOMAIN column PROVE FALSE
    <3>1. SaysWhatIs(messages'[r].to, column'[r])
      BY <1>1, <2>1, RowIsNew
    <3> QED  BY <1>1, <3>1 DEF SaysWhatIs, Agents
  <2> QED  BY <2>1
<1>3. column'[r].from = column[r].from
  BY <1>2, RowsKept
<1>4. loop.pc # "sent" /\ loop'.mail \in MailIds
      /\ \/ UNCHANGED loop
         \/ \E m \in loop.batch : HandleReply(m) /\ loop'.mail = m
  BY ZenonT(30), <1>0, WhoQueues DEF HandleReply, Takes, LoopState
<1>5. r \in Original(loop'.mail)
  BY <1>0, <1>1, <1>2, <1>4, RowsKept DEF Original, RowsOf
<1>6. CASE UNCHANGED loop
  <2>1. UserWroteTo(column[r].from)
    BY <1>3, <1>5, <1>6 DEF Queued
  <2>2. WroteThen(column[r].from)
    BY <2>1, UserWroteKept
  <2> QED  BY <1>3, <2>2
<1>7. ASSUME NEW m \in loop.batch, HandleReply(m), loop'.mail = m
      PROVE  WroteThen(column'[r].from)
  <2>1. PICK o \in Original(m) :
           /\ Inserts(column[o].from, Row(User, "reply", o, 0, 0, m))
           /\ Takes(m, IF column[o].type # "ask" /\ column[o].from \in Agents
                       THEN "queue" ELSE "answer", "mail")
    BY <1>7 DEF HandleReply
  <2>2. column[o].from \in Agents
    BY <1>0, <2>1 DEF Takes, LoopState
  <2>3. o = r
    BY <1>3, <1>5, <1>7, <2>2, OneOriginal
  <2> DEFINE row == Row(User, "reply", o, 0, 0, m)
  <2>4. InsertMessage(column[r].from) /\ column' = Append(column, row) /\ row.from = User
    BY <2>1, <2>3 DEF Inserts, Row
  <2> HIDE DEF row
  <2>5. MessagesOK /\ column \in Seq(Column) /\ Len(column) = Len(messages)
    BY DEF RelayInv, RelayTypeOK
  <2>6. /\ DOMAIN messages' = DOMAIN messages \cup {Len(messages) + 1}
        /\ messages'[Len(messages) + 1].to = column[r].from
    BY <2>2, <2>3, <2>4, <2>5, InsertMessageEffect DEF Agents
  <2>7. column'[Len(messages) + 1].from = User
    BY <2>4, <2>5
  <2> QED  BY <1>3, <2>6, <2>7 DEF WroteThen
<1> QED  BY <1>4, <1>6, <1>7
\* But for the stamp, no row comes to have an origin.
LEMMA OriginBack ==
    ASSUME RelayInv, RowsSound, [Next]_vars, NEW r \in DOMAIN column,
           loop.pc # "stamp", HasOrigin(r)'
    PROVE  HasOrigin(r) /\ jobs'[column'[r].job].mail = jobs[column[r].job].mail
<1>1. column'[r].job \in DOMAIN jobs' /\ jobs'[column'[r].job].origin
  BY DEF HasOrigin
<1>2. column'[r].job # 0 /\ column'[r].job = column[r].job
  <2>1. 0 \notin DOMAIN jobs'
    BY JobsTyped, LenProperties
  <2> QED  BY <1>1, <2>1, RowsKept
<1>3. column[r].job \in DOMAIN jobs
  BY <1>2 DEF RowsSound
<1> QED  BY <1>1, <1>2, <1>3, JobsKept DEF HasOrigin

LEMMA ThreadedKept ==
    ASSUME RelayInv, RowsSound, Threaded, [Next]_vars
    PROVE  Threaded'
<1>0. /\ MailIds \subseteq MailIds' /\ \A e \in MailIds : post'[e] = post[e]
      /\ loop \in LoopState /\ loop.todo \subseteq DOMAIN column
      /\ RelayTypeOK /\ AtRelay
  BY Shapes, HistoryGrows DEF RelayInv, RelayTypeOK
<1> SUFFICES ASSUME loop'.pc \in SentPoints, NEW r \in loop'.todo, r = Least(loop'.todo),
                    HasOrigin(r)'
             PROVE  post'[loop'.eid].re = jobs'[column'[r].job].mail
  BY DEF Threaded
<1>1. CASE loop.pc \in SentPoints /\ loop'.todo = loop.todo /\ loop'.eid = loop.eid
  <2>1. HasOrigin(r) /\ jobs'[column'[r].job].mail = jobs[column[r].job].mail
    BY <1>0, <1>1, OriginBack DEF SentPoints
  <2>2. post[loop.eid].re = jobs[column[r].job].mail
    BY <1>1, <2>1 DEF Threaded
  <2>3. loop.eid \in MailIds
    BY <1>0, <1>1 DEF AtRelay, HasSent, Sent
  <2> QED  BY <1>0, <1>1, <2>1, <2>2, <2>3
<1>2. ASSUME NEW q \in loop.todo, Sends(q)
      PROVE  post'[loop'.eid].re = jobs'[column'[r].job].mail
  <2>1. PICK thread \in ThreadOf(q) : post' = Append(post, [kind |-> "relay", re |-> thread, row |-> q])
    BY <1>2 DEF Sends, Relays, Posts
  <2>2. /\ loop'.eid = Len(post) + 1 /\ q = r /\ loop.pc # "stamp"
    BY <1>0, <1>2 DEF Sends, AtHand, LoopState
  <2>3. HasOrigin(r) /\ jobs'[column'[r].job].mail = jobs[column[r].job].mail
    BY <1>0, <2>2, OriginBack
  <2>4. thread = jobs[column[r].job].mail
    BY <2>1, <2>2, <2>3 DEF ThreadOf
  <2>5. post'[Len(post) + 1].re = thread
    BY <1>0, <2>1 DEF RelayTypeOK
  <2> QED  BY <2>2, <2>3, <2>4, <2>5
<1>3. \/ loop.pc \in SentPoints /\ loop'.todo = loop.todo /\ loop'.eid = loop.eid
      \/ \E q \in loop.todo : Sends(q)
  <2>1. CASE UNCHANGED loop
    BY <2>1
  <2>2. CASE RecordRelayed
    BY <1>0, <2>2 DEF RecordRelayed, Goes, LoopState, SentPoints
  <2>3. ASSUME NEW q \in loop.todo, SetEmailMessageId(q)
        PROVE  loop.pc \in SentPoints /\ loop'.todo = loop.todo /\ loop'.eid = loop.eid
    BY <1>0, <2>3 DEF SetEmailMessageId, Goes, LoopState, SentPoints
  <2> QED  BY <2>1, <2>2, <2>3, WhoIsAtRelay
<1> QED  BY <1>1, <1>2, <1>3

\* Who is relayed: a task's row is never drained, unless its mail was cut short.
LEMMA TaskRowsAreRelayed ==
    ASSUME RelayInv, RowsSound, JobsSound, Evidence, NEW r \in DOMAIN messages, ToUser(r),
           column[r].job # 0, jobs[column[r].job].mail \notin cut,
           loop.pc \notin {"route", "router", "stamp"}
    PROVE  /\ ShouldRelay(r)
           /\ jobs[column[r].job].via = "token" => jobs[column[r].job].origin
<1> DEFINE j == column[r].job
<1>1. j \in DOMAIN jobs /\ column[r].from = jobs[j].by
  BY Shapes DEF RowsSound, RelayInv
<1>2. jobs[j].via \in {"mail", "token", "agent"}
  BY <1>1, Shapes DEF RelayInv, Job
<1>3. /\ jobs[j].via = "mail" => jobs[j].origin \/ UserWroteTo(jobs[j].by)
      /\ jobs[j].via = "agent" => jobs[j].origin
      /\ jobs[j].via = "token" => jobs[j].origin
  BY <1>1 DEF Evidence, JobsSound
<1> QED  BY <1>1, <1>2, <1>3 DEF ShouldRelay, HasOrigin

LEMMA MailedKept ==
    ASSUME RelayInv, RowsSound, JobsSound, Evidence, Threaded, Mailed, [Next]_vars
    PROVE  Mailed'
<1>0. /\ RelayTypeOK /\ TodoPending /\ AtRelay /\ DOMAIN column = DOMAIN messages
      /\ \A q \in DOMAIN column : column[q] \in Column
      /\ MailIds \subseteq MailIds' /\ \A e \in MailIds : post'[e] = post[e]
      /\ cut \subseteq cut' /\ outbound \subseteq MailIds
  BY Shapes, HistoryGrows DEF RelayInv, RelayTypeOK
<1> SUFFICES ASSUME NEW r \in DOMAIN messages', ToUser(r)', NEW j, j = column'[r].job, j # 0,
                    messages'[r].status = "delivered", jobs'[j].mail \notin cut'
             PROVE  /\ Answerable(r)'
                    /\ jobs'[j].origin => post'[column'[r].eid].re = jobs'[j].mail
                    /\ jobs'[j].via = "token" => jobs'[j].origin
  BY DEF Mailed
<1>1. r \in DOMAIN messages
  <2>1. DOMAIN column' = DOMAIN messages'
    BY <1>0, WhoWritesRows, RowsMoveFits, LenProperties DEF RowsFit, MessagesOK
  <2> QED  BY <1>0, <2>1, RowIsNew
<1>2. /\ ToUser(r) /\ column[r].job = j /\ j \in DOMAIN jobs
      /\ jobs'[j].mail = jobs[j].mail /\ jobs'[j].via = jobs[j].via
      /\ jobs[j].origin => jobs'[j].origin
      /\ jobs'[j].origin => jobs[j].origin \/ jobs[j].via = "token"
      /\ jobs[j].mail \notin cut
  <2>1. ToUser(r) /\ column[r].job = j
    BY <1>0, <1>1, RowsKept DEF ToUser
  <2>2. j \in DOMAIN jobs
    BY <1>0, <1>1, <2>1 DEF RowsSound
  <2> QED  BY <1>0, <2>1, <2>2, JobsKept
\* It is answerable, in its thread, before the step.
<1>3. SUFFICES /\ Answerable(r) /\ column'[r].eid = column[r].eid
               /\ jobs[j].origin => post[column[r].eid].re = jobs[j].mail
               /\ jobs[j].via = "token" => jobs[j].origin
  <2>1. ASSUME Answerable(r), column'[r].eid = column[r].eid
        PROVE  Answerable(r)' /\ post'[column'[r].eid] = post[column[r].eid]
    <3>1. column[r].eid \in MailIds
      BY <1>0, <2>1 DEF Answerable
    <3> QED  BY <1>0, <1>1, <2>1, <3>1, AnswerableKept
  <2> QED  BY <1>2, <2>1
<1>4. CASE messages[r].status = "delivered"
  <2>1. ~(loop.pc = "sent" /\ r = Least(loop.todo))
    BY <1>0, <1>4 DEF AtRelay, HasSent, TodoPending, SentPoints
  <2>2. column'[r].eid = column[r].eid
    BY <1>0, <1>1, <2>1, RowsKept
  <2> QED  BY <1>1, <1>2, <1>4, <2>2 DEF Mailed
<1>5. CASE messages[r].status # "delivered"
  <2>1. PICK q \in loop.todo, status \in {"delivered", "failed"} : Closes(q, status)
    <3>1. ~ UNCHANGED <<messages, column>> /\ ~ \E q \in loop.todo : Stamps(q)
      BY <1>5 DEF Stamps
    <3>2. ~ NewRow
      BY <1>0, <1>1, <1>5, NewRowFits
    <3> QED  BY <3>1, <3>2, WhoWritesRows DEF RowsMove
  <2>2. q = r /\ status = "delivered"
    BY <1>0, <1>1, <1>5, <2>1, ClosesFits
  <2>3. loop.pc \in {"relay", "recorded"} /\ column' = column
        /\ (~ShouldRelay(r) \/ (loop.pc = "recorded" /\ r = Least(loop.todo)))
    BY <2>1, <2>2 DEF Closes
  <2>4. ShouldRelay(r) /\ (jobs[j].via = "token" => jobs[j].origin)
    BY <1>1, <1>2, <2>3, TaskRowsAreRelayed
  <2>5. HasSent(r)
    BY <1>0, <2>3, <2>4 DEF AtRelay, HasSent, SentPoints
  <2>6. Answerable(r) /\ column[r].eid = loop.eid
    BY <2>3, <2>4, <2>5 DEF HasSent, Answerable, Sent
  <2>7. jobs[j].origin => post[loop.eid].re = jobs[j].mail
    <3>1. jobs[j].origin => HasOrigin(r)
      BY <1>2 DEF HasOrigin
    <3> QED  BY <1>2, <2>1, <2>2, <2>3, <2>4, <3>1 DEF Threaded, SentPoints
  <2> QED  BY <2>3, <2>4, <2>6, <2>7
<1> QED  BY <1>4, <1>5

LEMMA ResultsInvariant ==
    ASSUME OwnNames
    PROVE  RelaySpec => [](RelayInv /\ TablesSound /\ ResultsInv)
<1>1. Init => ResultsInv
  <2> SUFFICES ASSUME Init PROVE ResultsInv
    OBVIOUS
  <2>1. messages = <<>> /\ jobs = <<>> /\ loop.pc = "poll"
    BY DEF Init
  <2> QED  BY <2>1 DEF ResultsInv, Evidence, Queued, Threaded, Mailed, SentPoints
<1>2. RelayInv /\ TablesSound /\ ResultsInv /\ [Next]_vars => ResultsInv'
  BY EvidenceKept, QueuedKept, ThreadedKept, MailedKept DEF ResultsInv, TablesSound
<1> QED  BY <1>1, <1>2, RelayInvInit, RelayInvStep, TablesSoundAlways, PTL DEF RelaySpec

\* If agents have the names of their projects, what a task that a mail started
\* tells the user is mailed, in the thread of that mail if the task has its
\* origin, unless the handling of the mail was cut short: the stamp comes before
\* any relay (process_email, _should_relay, relay_routing.py).
THEOREM ResultsAreMailed ==
    ASSUME OwnNames
    PROVE  RelaySpec => []ResultsReachUser
<1>1. ResultsInv => ResultsReachUser
  BY DEF ResultsInv, Mailed, ResultsReachUser
<1> QED  BY <1>1, ResultsInvariant, PTL
-----------------------------------------------------------------------------
(* How often a row is mailed.  An e-mail that is sent is paid for by a fault *)
(* or by the row's being settled: not pending any more, or about to be.      *)

Settled(r) ==
    /\ r \in DOMAIN messages
    /\ \/ messages[r].status # "pending"
       \/ loop.pc \in SentPoints /\ r = Least(loop.todo)

Sendings ==
    \A r \in RowIds :
        /\ IsFiniteSet(Sent(r))
        /\ Cardinality(Sent(r)) <= faults + (IF Settled(r) THEN 1 ELSE 0)

\* One e-mail more for the row at hand, as the relay goes on or fails.
SendsOne(q) ==
    /\ AtHand(q)
    /\ Sent(q)' = Sent(q) \cup {Len(post) + 1}
    /\ \A r : r # q => Sent(r)' = Sent(r)
    /\ UNCHANGED <<messages, column>>
    /\ \/ loop'.pc = "sent" /\ loop'.todo = loop.todo
       \/ faults' = faults + 1

LEMMA SentOfPost ==
    ASSUME RelayInv, NEW kind, NEW re, NEW row, Posts(kind, re, row)
    PROVE  \A r : Sent(r)' = IF kind = "relay" /\ row = r THEN Sent(r) \cup {Len(post) + 1} ELSE Sent(r)
<1>1. /\ post' = Append(post, [kind |-> kind, re |-> re, row |-> row])
      /\ MailIds = 1 .. Len(post) /\ Len(post) \in Nat
  BY Shapes DEF Posts, RelayInv
<1>2. /\ \A e \in MailIds : post'[e] = post[e]
      /\ post'[Len(post) + 1] = [kind |-> kind, re |-> re, row |-> row]
      /\ MailIds' = MailIds \cup {Len(post) + 1}
  BY <1>1 DEF RelayInv, RelayTypeOK, MailIds
<1>3. Len(post) + 1 \notin MailIds
  BY <1>1
<1> SUFFICES ASSUME NEW r
             PROVE  Sent(r)' = IF kind = "relay" /\ row = r THEN Sent(r) \cup {Len(post) + 1}
                               ELSE Sent(r)
  OBVIOUS
<1>4. ASSUME NEW e
      PROVE  e \in Sent(r)' <=> e \in Sent(r) \/ (e = Len(post) + 1 /\ kind = "relay" /\ row = r)
  BY <1>2, <1>3 DEF Sent
<1> QED  BY <1>4

LEMMA WhoSends ==
    ASSUME RelayInv, [Next]_vars
    PROVE  (\A r : Sent(r)' = Sent(r)) \/ \E q \in loop.todo : SendsOne(q)
<1> DEFINE Goal == (\A r : Sent(r)' = Sent(r)) \/ \E q \in loop.todo : SendsOne(q)
<1> SUFFICES Goal
  OBVIOUS
<1>0. loop \in LoopState
  BY DEF RelayInv, RelayTypeOK
<1>1. ASSUME UNCHANGED post PROVE Goal
  BY <1>1 DEF Sent, MailIds
<1>2. ASSUME NEW q \in loop.todo, Sends(q) \/ TransientError(q) PROVE Goal
  <2>1. CASE UNCHANGED post
    BY <1>1, <2>1
  <2>2. ASSUME NEW thread, Posts("relay", thread, q)
        PROVE  SendsOne(q)
    <3>1. \A r : Sent(r)' = IF q = r THEN Sent(r) \cup {Len(post) + 1} ELSE Sent(r)
      BY <2>2, SentOfPost
    <3>2. /\ AtHand(q) /\ UNCHANGED <<messages, column>>
          /\ \/ loop'.pc = "sent" /\ loop'.todo = loop.todo
             \/ faults' = faults + 1
      BY <1>0, <1>2 DEF Sends, TransientError, Fault, LoopState
    <3> QED  BY <3>1, <3>2 DEF SendsOne
  <2> QED  BY <1>2, <2>1, <2>2 DEF Sends, TransientError, Relays
<1>3. ASSUME NEW kind \in UserKinds, NEW re, UserWrites(kind, re) PROVE Goal
  BY <1>3, SentOfPost DEF UserWrites, UserKinds
<1>4. ASSUME SendAnswer PROVE Goal
  BY <1>4, SentOfPost DEF SendAnswer
<1> HIDE DEF Goal
<1>5. CASE LoopStep
  <2>1. ASSUME NEW m \in loop.batch, HandleMail(m) PROVE UNCHANGED post
    BY <2>1 DEF HandleMail, HandleReply, HandleAgentCommand, HandleJsonCommand,
                HandleReaction, RouteToLiveAgent, AnswerEnvelope, HandleMeta, HandleRestart,
                HandleQuestion, HandleCommand, Reject
  <2>2. ASSUME NEW r \in loop.todo, RelayRow(r) PROVE Goal
    BY <1>1, <1>2, <2>2 DEF RelayRow, Drains, SetEmailMessageId, MarkRelayed
  <2> QED  BY <1>1, <1>4, <1>5, <2>1, <2>2 DEF LoopStep, Polls, Ticks, Sleeps, RecordRelayed,
              QueueReply, QueueRefused, BriefAgent, RecordAnswer, RouterTurn, RouterReturns, StampOrigin
<1>6. CASE Faults
  BY <1>1, <1>2, <1>6 DEF Faults, AnswerFails, StampFails, HandlingFails, RelayFails, Crash,
                    PermanentError
<1>7. CASE Others
  BY <1>1, <1>3, <1>7 DEF Others, NotifyUser, AskUser, RouterEnqueues, NotifyTaskDone, AskGivesUp
<1>8. ASSUME NEW r \in RowIds, AskPolls(r) PROVE Goal
  BY <1>1, <1>8 DEF AskPolls
<1>9. CASE UNCHANGED vars
  BY <1>1, <1>9 DEF vars
<1> QED  BY <1>5, <1>6, <1>7, <1>8, <1>9 DEF Next

\* After an e-mail the relay goes on to the mark, or there is a fault.
LEMMA SentIsMarked ==
    ASSUME RelayInv, [Next]_vars, loop.pc \in SentPoints
    PROVE  \/ loop'.pc \in SentPoints /\ loop'.todo = loop.todo
           \/ \E q \in loop.todo : MarkRelayed(q)
           \/ faults' = faults + 1
<1>0. loop \in LoopState
  BY DEF RelayInv, RelayTypeOK
<1>1. CASE LoopStep
  <2>1. ASSUME NEW m \in loop.batch, HandleMail(m) PROVE FALSE
    BY <2>1 DEF HandleMail, HandleReply, HandleAgentCommand, HandleJsonCommand,
                HandleReaction, RouteToLiveAgent, AnswerEnvelope, HandleMeta, HandleRestart,
                HandleQuestion, HandleCommand, Reject, Takes, SentPoints
  <2>2. ASSUME NEW r \in loop.todo, RelayRow(r)
        PROVE  MarkRelayed(r) \/ (loop'.pc \in SentPoints /\ loop'.todo = loop.todo)
    BY <1>0, <2>2 DEF RelayRow, Drains, Sends, AtHand, SetEmailMessageId, Goes, LoopState, SentPoints
  <2>3. ASSUME RecordRelayed PROVE loop'.pc \in SentPoints /\ loop'.todo = loop.todo
    BY <1>0, <2>3 DEF RecordRelayed, Goes, LoopState, SentPoints
  <2> QED  BY <1>1, <2>1, <2>2, <2>3 DEF LoopStep, Polls, Ticks, Sleeps, QueueReply,
              QueueRefused, BriefAgent, SendAnswer, RecordAnswer, RouterTurn, RouterReturns,
              StampOrigin, SentPoints
<1>2. CASE Faults
  BY <1>2 DEF Faults, AnswerFails, StampFails, HandlingFails, RelayFails, Crash,
              PermanentError, TransientError, Fault
<1>3. CASE Others
  BY <1>3 DEF Others, UserWrites, NotifyUser, AskUser, RouterEnqueues, NotifyTaskDone, AskGivesUp
<1>4. ASSUME NEW r \in RowIds, AskPolls(r) PROVE UNCHANGED loop
  BY <1>4 DEF AskPolls
<1> QED  BY <1>1, <1>2, <1>3, <1>4 DEF Next, vars

LEMMA FaultsGrow ==
    ASSUME RelayInv, [Next]_vars
    PROVE  faults \in Nat /\ faults' \in Nat /\ faults <= faults'
<1>0. faults \in Nat
  BY RelayBoundsAssumption DEF RelayInv, RelayTypeOK
<1> SUFFICES UNCHANGED faults \/ faults' = faults + 1
  BY <1>0
<1>1. CASE LoopStep
  <2>1. ASSUME NEW m \in loop.batch, HandleMail(m) PROVE UNCHANGED faults
    BY <2>1 DEF HandleMail, HandleReply, HandleAgentCommand, HandleJsonCommand,
                HandleReaction, RouteToLiveAgent, AnswerEnvelope, HandleMeta, HandleRestart,
                HandleQuestion, HandleCommand, Reject
  <2>2. ASSUME NEW r \in loop.todo, RelayRow(r) PROVE UNCHANGED faults
    BY <2>2 DEF RelayRow, Drains, Sends, SetEmailMessageId, MarkRelayed
  <2> QED  BY <1>1, <2>1, <2>2 DEF LoopStep, Polls, Ticks, Sleeps, RecordRelayed, QueueReply,
              QueueRefused, BriefAgent, SendAnswer, RecordAnswer, RouterTurn, RouterReturns, StampOrigin
<1>2. CASE Faults
  BY <1>2 DEF Faults, AnswerFails, StampFails, HandlingFails, RelayFails, Crash,
              PermanentError, TransientError, Fault
<1>3. CASE Others
  BY <1>3 DEF Others, UserWrites, NotifyUser, AskUser, RouterEnqueues, NotifyTaskDone, AskGivesUp
<1>4. ASSUME NEW r \in RowIds, AskPolls(r) PROVE UNCHANGED faults
  BY <1>4 DEF AskPolls
<1> QED  BY <1>1, <1>2, <1>3, <1>4 DEF Next, vars

\* A row that is settled stays so, but for a fault.
LEMMA SettledKept ==
    ASSUME RelayInv, [Next]_vars, NEW r, Settled(r)
    PROVE  Settled(r)' \/ faults' = faults + 1
<1>0. /\ RelayTypeOK /\ TodoPending /\ AtRelay /\ r \in DOMAIN messages
      /\ DOMAIN messages \subseteq DOMAIN messages' /\ loop.todo \subseteq DOMAIN messages
  BY WhoWritesRows, RowsMoveFits DEF RelayInv, RowsFit, RelayTypeOK, Settled
<1>1. CASE messages[r].status # "pending"
  <2>1. CASE UNCHANGED <<messages, column>> \/ \E q \in loop.todo : Stamps(q)
    BY <1>0, <1>1, <2>1 DEF Stamps, Settled
  <2>2. CASE NewRow
    BY <1>0, <1>1, <2>2, NewRowFits DEF Settled
  <2>3. ASSUME NEW q \in loop.todo, NEW status \in {"delivered", "failed"}, Closes(q, status)
        PROVE  Settled(r)'
    BY <1>0, <1>1, <2>3, ClosesFits DEF Settled, TodoPending
  <2> QED  BY <2>1, <2>2, <2>3, WhoWritesRows DEF RowsMove
<1>2. CASE loop.pc \in SentPoints /\ r = Least(loop.todo)
  <2>1. CASE loop'.pc \in SentPoints /\ loop'.todo = loop.todo
    BY <1>0, <1>2, <2>1 DEF Settled
  <2>2. ASSUME NEW q \in loop.todo, MarkRelayed(q) PROVE Settled(r)'
    <3>1. q = r /\ messages[r].status = "pending" /\ SetMessages({r}, "delivered")
      BY <1>0, <1>2, <2>2 DEF MarkRelayed, MarkDelivered, TodoPending
    <3>2. messages'[r].status = "delivered"
      BY <1>0, <3>1, SetMessagesEffect DEF RelayTypeOK, MessageStatuses
    <3> QED  BY <1>0, <3>2 DEF Settled
  <2> QED  BY <1>2, <2>1, <2>2, SentIsMarked
<1> QED  BY <1>1, <1>2 DEF Settled

LEMMA SendingsKept ==
    ASSUME RelayInv, Sendings, [Next]_vars
    PROVE  Sendings'
<1>0. faults \in Nat /\ faults' \in Nat /\ faults <= faults'
  BY FaultsGrow
<1> SUFFICES ASSUME NEW r \in RowIds
             PROVE  /\ IsFiniteSet(Sent(r)')
                    /\ Cardinality(Sent(r)') <= faults' + (IF Settled(r)' THEN 1 ELSE 0)
  BY DEF Sendings
<1>1. /\ IsFiniteSet(Sent(r)) /\ Cardinality(Sent(r)) \in Nat
      /\ Cardinality(Sent(r)) <= faults + (IF Settled(r) THEN 1 ELSE 0)
  BY FS_CardinalityType DEF Sendings
<1>2. CASE Sent(r)' = Sent(r)
  <2>1. CASE Settled(r)
    BY <1>0, <1>1, <1>2, <2>1, SettledKept
  <2>2. CASE ~Settled(r)
    BY <1>0, <1>1, <1>2, <2>2
  <2> QED  BY <2>1, <2>2
<1>3. CASE SendsOne(r) /\ r \in loop.todo
  <2>1. /\ Cardinality(Sent(r)') <= Cardinality(Sent(r)) + 1 /\ IsFiniteSet(Sent(r)')
        /\ Cardinality(Sent(r)') \in Nat
    <3> DEFINE more == Sent(r) \cup {Len(post) + 1}
    <3>1. Sent(r)' = more
      BY <1>3 DEF SendsOne
    <3>2. /\ IsFiniteSet(more)
          /\ Cardinality(more) = IF Len(post) + 1 \in Sent(r) THEN Cardinality(Sent(r))
                                 ELSE Cardinality(Sent(r)) + 1
      BY <1>1, FS_AddElement
    <3> HIDE DEF more
    <3> QED  BY <1>1, <3>1, <3>2
  <2>2. r \in DOMAIN messages /\ messages[r].status = "pending"
    BY <1>3 DEF RelayInv, RelayTypeOK, TodoPending
  <2>3. ~Settled(r)
    BY <1>3, <2>2 DEF Settled, SendsOne, AtHand, SentPoints
  <2>4. faults' = faults + 1 \/ Settled(r)'
    BY <1>3, <2>2 DEF Settled, SendsOne, AtHand, SentPoints
  <2> QED  BY <1>0, <1>1, <2>1, <2>3, <2>4
<1> QED  BY <1>2, <1>3, WhoSends DEF SendsOne

\* A row is mailed once, and once more only for an error or a crash, however
\* many there are (relay_outbound_messages).
THEOREM MailedOnce == RelaySpec => []NoDuplicates
<1>1. Init => Sendings
  <2> SUFFICES ASSUME Init, NEW r \in RowIds
               PROVE  IsFiniteSet(Sent(r)) /\ Cardinality(Sent(r)) <= faults + (IF Settled(r) THEN 1 ELSE 0)
    BY DEF Sendings
  <2>1. Sent(r) = {} /\ faults = 0
    BY DEF Init, Sent, MailIds
  <2> QED  BY <2>1, FS_EmptySet
<1>2. RelayInv /\ Sendings /\ [Next]_vars => Sendings'
  BY SendingsKept
<1>3. RelayInv /\ Sendings => NoDuplicates
  <2> SUFFICES ASSUME RelayInv, Sendings, NEW r \in DOMAIN messages
               PROVE  Cardinality(Sent(r)) <= 1 + faults
    BY DEF NoDuplicates
  <2>1. r \in RowIds /\ faults \in Nat
    BY Shapes, RelayBoundsAssumption DEF RelayInv, RelayTypeOK
  <2>2. Cardinality(Sent(r)) \in Nat /\ Cardinality(Sent(r)) <= faults + (IF Settled(r) THEN 1 ELSE 0)
    BY <2>1, FS_CardinalityType DEF Sendings
  <2> QED  BY <2>1, <2>2
<1> QED  BY <1>1, <1>2, <1>3, RelayInvInit, RelayInvStep, PTL DEF RelaySpec
=============================================================================
