------------------------------ MODULE MailRelay ------------------------------
(***************************************************************************)
(* The mail between the user and the agents: what claude-email does with a *)
(* mail it has fetched (process_email of main.py, chat_handlers.py,        *)
(* reply_router.py, json_handler.py, reply_routing_fixup.py), the relay of *)
(* what the bus holds for the user (chat_relay.py, relay_routing.py), and  *)
(* chat_notify and chat_ask of the agents (chat/tools.py).                 *)
(*                                                                         *)
(* claude-email is one thread: it handles the mails of a batch, then       *)
(* relays, then polls again.  Each of its actions is one transaction or    *)
(* one e-mail; agents, tasks and the user act in between.                  *)
(***************************************************************************)
EXTENDS MessageBus, FiniteSets

CONSTANTS
    User, Router,   \* the names "user" and "router"
    ProjectName,    \* ProjectName[a]: build_agent_name of a's project
    MaxMails,       \* bound: e-mails of the user
    MaxSent,        \* bound: rows inserted by agents outside a task
    MaxFaults,      \* bound: errors, crashes
    MaxEvents       \* bound: these three together

Agents == Names \ {User, Router}

ASSUME NamesAssumption == User \in Names /\ Router \in Names /\ User # Router
ASSUME ProjectNameAssumption == ProjectName \in [Agents -> Agents]
ASSUME RelayBoundsAssumption ==
    /\ MaxMails \in Nat /\ MaxSent \in Nat /\ MaxFaults \in Nat /\ MaxEvents \in Nat
    /\ MaxMessages >= 2 * MaxMails + MaxSent

VARIABLES
    column,     \* column[id]: the columns of a row that MessageBus leaves out
    post,       \* the e-mails, in both directions; a Message-ID is the index
    inbox,      \* mails of the user that have not been fetched
    outbound,   \* outbound_emails
    jobs,       \* tasks that stem from a mail, and their origin columns
    loop,       \* claude-email: where it is and what it has at hand
    asks,       \* asks[id]: what became of the chat_ask of a row
    cut,        \* history: mails whose handling was cut short
    faults

vars == <<messages, column, post, inbox, outbound, jobs, loop, asks, cut, faults>>

RowIds == 1 .. MaxMessages
MailIds == DOMAIN post
RowTypes == {"notify", "ask", "reply", "command", "email_inbound"}
UserKinds == {"command", "reply"}

\* re: in_reply_to; eid: email_message_id; mail (history): the mail of the user
\* that brought the row; 0 is NULL.
Column == [from : Names, type : RowTypes, re : 0 .. MaxMessages, eid : Nat,
           job : Nat, mail : Nat]

\* re: In-Reply-To; row: the row an e-mail relays, 0 for the others.
Email == [kind : UserKinds \cup {"relay", "answer"}, re : Nat, row : 0 .. MaxMessages]

\* by: whose name announces the end, or the agent a virtual task is routed to;
\* origin: origin_message_id is set; via: who put the row there.
Job == [by : Agents, mail : Nat, origin : BOOLEAN, via : {"mail", "token", "agent"}]

Points == {"poll", "mail", "queue", "route", "answer", "note", "turn", "router",
           "stamp", "relay", "sent", "known", "recorded"}

\* todo: the rows of get_pending_messages_for; eid: the Message-ID just sent.
LoopState == [pc : Points, batch : SUBSET Nat, mail : Nat, then : {"mail", "turn"},
              todo : SUBSET RowIds, eid : Nat]

Sent(r) == {e \in MailIds : post[e].kind = "relay" /\ post[e].row = r}

RelayTypeOK ==
    /\ MessagesOK
    /\ column \in Seq(Column) /\ Len(column) = Len(messages)
    /\ post \in Seq(Email)
    /\ inbox \subseteq MailIds
    /\ outbound \subseteq MailIds
    /\ jobs \in Seq(Job)
    /\ loop \in LoopState
    /\ loop.todo \subseteq DOMAIN messages
    /\ asks \in [RowIds -> {"none", "waiting", "answered", "gaveup"}]
    /\ cut \subseteq MailIds
    /\ faults \in 0 .. MaxFaults

Init ==
    /\ messages = <<>> /\ column = <<>> /\ post = <<>> /\ jobs = <<>>
    /\ inbox = {} /\ outbound = {} /\ cut = {}
    /\ loop = [pc |-> "poll", batch |-> {}, mail |-> 0, then |-> "mail",
               todo |-> {}, eid |-> 0]
    /\ asks = [r \in RowIds |-> "none"]
    /\ faults = 0

-----------------------------------------------------------------------------
(***************************************************************************)
(* The tables and the post.                                                *)
(***************************************************************************)
Row(from, type, re, eid, job, mail) ==
    [from |-> from, type |-> type, re |-> re, eid |-> eid, job |-> job, mail |-> mail]

Inserts(to, row) == InsertMessage(to) /\ column' = Append(column, row)

\* Mutant: the row is left pending.
MarkNothing(r) == UNCHANGED messages

MarkDelivered(r) == SetMessages({r}, "delivered")

\* find_message_by_email_id.
RowsOf(eid) == {r \in DOMAIN column : eid # 0 /\ column[r].eid = eid}

Queues(by, mail, origin, via) ==
    jobs' = Append(jobs, [by |-> by, mail |-> mail, origin |-> origin, via |-> via])

Posts(kind, re, row) == post' = Append(post, [kind |-> kind, re |-> re, row |-> row])

Least(S) == CHOOSE x \in S : \A y \in S : x <= y

Goes(pc) == loop' = [loop EXCEPT !.pc = pc]

MailsOfUser == {e \in MailIds : post[e].kind \in UserKinds}
RowsOfJob(j) == {r \in DOMAIN column : column[r].job = j}
SentByAgents == {r \in RowsOfJob(0) : column[r].from # User}

MoreMayHappen ==
    Cardinality(MailsOfUser) + Cardinality(SentByAgents) + faults < MaxEvents

Fault == MoreMayHappen /\ faults < MaxFaults /\ faults' = faults + 1

-----------------------------------------------------------------------------
(***************************************************************************)
(* The user, the agents and the tasks.                                     *)
(***************************************************************************)
\* A command, or a reply to any mail of the conversation, the user's own too;
\* what a mail asks for is chosen when it is handled.
UserWrites(kind, re) ==
    /\ MoreMayHappen /\ Cardinality(MailsOfUser) < MaxMails
    /\ (kind = "reply") <=> (re # 0)
    /\ Posts(kind, re, 0)
    /\ inbox' = inbox \cup {Len(post) + 1}
    /\ UNCHANGED <<messages, column, outbound, jobs, loop, asks, cut, faults>>

AgentMaySend == MoreMayHappen /\ Cardinality(SentByAgents) < MaxSent

\* chat_notify outside a task.
NotifyUser(a) ==
    /\ AgentMaySend
    /\ Inserts(User, Row(a, "notify", 0, 0, 0, 0))
    /\ UNCHANGED <<post, inbox, outbound, jobs, loop, asks, cut, faults>>

\* The user's message that carries the number of a virtual task to its agent.
Briefings(j) == {r \in RowsOfJob(j) : column[r].from = User}

\* chat_notify within a task, or the announcement of its end: one per task; an
\* agent knows of a virtual task what its message says.
NotifyTaskDone(j) ==
    /\ RowsOfJob(j) = Briefings(j)
    /\ jobs[j].via = "agent" => Briefings(j) # {}
    /\ Inserts(User, Row(jobs[j].by, "notify", 0, 0, j, 0))
    /\ UNCHANGED <<post, inbox, outbound, jobs, loop, asks, cut, faults>>

AskUser(a) ==
    /\ AgentMaySend
    /\ Inserts(User, Row(a, "ask", 0, 0, 0, 0))
    /\ asks' = [asks EXCEPT ![Len(messages) + 1] = "waiting"]
    /\ UNCHANGED <<post, inbox, outbound, jobs, loop, cut, faults>>

\* get_reply_to_message.
Replies(r) == {q \in DOMAIN column : column[q].re = r /\ column[q].type = "reply"}

AskPolls(r) ==
    /\ asks[r] = "waiting"
    /\ Replies(r) # {}
    /\ asks' = [asks EXCEPT ![r] = "answered"]
    /\ UNCHANGED <<messages, column, post, inbox, outbound, jobs, loop, cut, faults>>

\* The hour is over, or claude-chat restarts.
AskGivesUp(r) ==
    /\ asks[r] = "waiting"
    /\ asks' = [asks EXCEPT ![r] = "gaveup"]
    /\ UNCHANGED <<messages, column, post, inbox, outbound, jobs, loop, cut, faults>>

-----------------------------------------------------------------------------
(***************************************************************************)
(* Inbound: process_email for each mail of the batch.                      *)
(***************************************************************************)
Polls ==
    /\ loop.pc = "poll"
    /\ loop' = [loop EXCEPT !.pc = "mail", !.batch = inbox]
    /\ inbox' = {}
    /\ UNCHANGED <<messages, column, post, outbound, jobs, asks, cut, faults>>

Takes(m, pc, then) ==
    /\ loop.pc = "mail" /\ loop.batch # {} /\ m = Least(loop.batch)
    /\ loop' = [loop EXCEPT !.pc = pc, !.then = then, !.mail = m,
                            !.batch = @ \ {m}]

\* Mutant: the thread is matched by the agent, to the row it sent last.
LatestOfAgent(m) ==
    {r \in DOMAIN column : \E o \in RowsOf(post[m].re) :
        /\ column[r].from = column[o].from
        /\ \A q \in DOMAIN column : column[q].from = column[o].from => q <= r}

\* The row that the user's reply answers.
Original(m) == RowsOf(post[m].re)

\* Route chat_reply: the reply goes to whoever wrote the row, and is queued as
\* a task too when the row was no question.
HandleReply(m) ==
    \E r \in Original(m) :
        /\ Inserts(column[r].from, Row(User, "reply", r, 0, 0, m))
        /\ Takes(m, IF column[r].type # "ask" /\ column[r].from \in Agents
                    THEN "queue" ELSE "answer", "mail")
        /\ UNCHANGED <<post, inbox, outbound, jobs, asks, cut, faults>>

\* apply_reply; a task queued here has no origin.
QueueReply ==
    /\ loop.pc = "queue"
    /\ \E r \in Original(loop.mail) :
           /\ column[r].from \in Agents
           /\ Queues(ProjectName[column[r].from], loop.mail, FALSE, "mail")
    /\ Goes("answer")
    /\ UNCHANGED <<messages, column, post, inbox, outbound, asks, cut, faults>>

\* An agent without a project, a project that is refused.
QueueRefused ==
    /\ loop.pc = "queue"
    /\ Goes("answer")
    /\ UNCHANGED <<messages, column, post, inbox, outbound, jobs, asks, cut, faults>>

\* handle_reaction: the same row, and never a task.
HandleReaction(m) ==
    \E r \in Original(m) :
        /\ Inserts(column[r].from, Row(User, "reply", r, 0, 0, m))
        /\ Takes(m, "answer", "mail")
        /\ UNCHANGED <<post, inbox, outbound, jobs, asks, cut, faults>>

\* Route agent_command.
HandleAgentCommand(m, a) ==
    /\ Original(m) = {}
    /\ Inserts(a, Row(User, "command", 0, 0, 0, m))
    /\ Takes(m, "answer", "mail")
    /\ UNCHANGED <<post, inbox, outbound, jobs, asks, cut, faults>>

\* A JSON envelope of kind command: its task has its origin from the start.
HandleJsonCommand(m, a) ==
    /\ post[m].kind = "command"
    /\ Takes(m, "answer", "mail")
    /\ Queues(ProjectName[a], m, TRUE, "mail")
    /\ UNCHANGED <<messages, column, post, inbox, outbound, asks, cut, faults>>

\* With prefer_live_agent, and an agent that is live: a virtual task, ...
RouteToLiveAgent(m, a) ==
    /\ post[m].kind = "command"
    /\ Takes(m, "route", "mail")
    /\ Queues(a, m, TRUE, "agent")
    /\ UNCHANGED <<messages, column, post, inbox, outbound, asks, cut, faults>>

\* Mutant: nobody is told.
BriefNobody ==
    /\ loop.pc = "route"
    /\ Goes("answer")
    /\ UNCHANGED <<messages, column, post, inbox, outbound, jobs, asks, cut, faults>>

\* ... and then the message that tells the agent of it.
BriefAgent ==
    /\ loop.pc = "route"
    /\ \E j \in DOMAIN jobs :
          j = Len(jobs) /\ Inserts(jobs[j].by, Row(User, "ask", 0, 0, j, loop.mail))
    /\ Goes("answer")
    /\ UNCHANGED <<post, inbox, outbound, jobs, asks, cut, faults>>

\* An envelope that cannot be parsed, that has a wrong meta.auth or lacks what
\* its kind requires, a kind that is not implemented, status, list_projects and
\* cancel: an answer, and no write to these tables.
AnswerEnvelope(m) ==
    /\ post[m].kind = "command"
    /\ Takes(m, "answer", "mail")
    /\ UNCHANGED <<messages, column, post, inbox, outbound, jobs, asks, cut, faults>>

\* status, spawn, restart chat, and their errors.
HandleMeta(m) ==
    /\ Original(m) = {}
    /\ Takes(m, "answer", "mail")
    /\ UNCHANGED <<messages, column, post, inbox, outbound, jobs, asks, cut, faults>>

\* restart self: the signal ends the batch and, after the chores, the process;
\* no answer is sent.
HandleRestart(m) ==
    /\ Original(m) = {}
    /\ loop.pc = "mail" /\ m = Least(loop.batch)
    /\ loop' = [loop EXCEPT !.mail = m, !.then = "mail", !.batch = {}]
    /\ cut' = cut \cup (loop.batch \ {m})
    /\ UNCHANGED <<messages, column, post, inbox, outbound, jobs, asks, faults>>

\* maybe_answer_question.
HandleQuestion(m) ==
    /\ Original(m) = {}
    /\ Takes(m, "answer", "mail")
    /\ UNCHANGED <<messages, column, post, inbox, outbound, jobs, asks, cut, faults>>

\* The way to the LLM router, for commands and for replies to what is not a
\* row of the bus; "Command received. Running" is sent first.
HandleCommand(m) ==
    /\ Original(m) = {}
    /\ Takes(m, "answer", "turn")
    /\ UNCHANGED <<messages, column, post, inbox, outbound, jobs, asks, cut, faults>>

\* A reply to an e-mail that is not on record and that quotes no secret.
Reject(m) ==
    /\ post[m].kind = "reply" /\ Original(m) = {} /\ post[m].re \notin outbound
    /\ Takes(m, "mail", "mail")
    /\ UNCHANGED <<messages, column, post, inbox, outbound, jobs, asks, cut, faults>>

\* send_threaded_reply: the answer, or the ack before the router's turn.
SendAnswer ==
    /\ loop.pc = "answer"
    /\ Posts("answer", loop.mail, 0)
    /\ loop' = [loop EXCEPT !.pc = "note", !.eid = Len(post) + 1]
    /\ UNCHANGED <<messages, column, inbox, outbound, jobs, asks, cut, faults>>

RecordAnswer ==
    /\ loop.pc = "note"
    /\ outbound' = outbound \cup {loop.eid}
    /\ loop' = [loop EXCEPT !.pc = loop.then, !.then = "mail"]
    /\ UNCHANGED <<messages, column, post, inbox, jobs, asks, cut, faults>>

\* The e-mail cannot be sent or recorded; without the ack the router has its
\* turn all the same.
AnswerFails ==
    /\ loop.pc \in {"answer", "note"}
    /\ Fault
    /\ loop' = [loop EXCEPT !.pc = loop.then, !.then = "mail"]
    /\ UNCHANGED <<messages, column, post, inbox, outbound, jobs, asks, cut>>

\* prepare_router_command.
RouterTurn ==
    /\ loop.pc = "turn"
    /\ Inserts(Router, Row(User, "email_inbound", 0, loop.mail, 0, loop.mail))
    /\ Goes("router")
    /\ UNCHANGED <<post, inbox, outbound, jobs, asks, cut, faults>>

\* The router's claude calls chat_enqueue_task with the dispatch token.
RouterEnqueues(a) ==
    /\ loop.pc = "router"
    /\ \A j \in DOMAIN jobs : jobs[j].mail # loop.mail
    /\ Queues(ProjectName[a], loop.mail, FALSE, "token")
    /\ UNCHANGED <<messages, column, post, inbox, outbound, loop, asks, cut, faults>>

\* execute_command: its claude ends, cannot be started, or is killed after the
\* timeout; each gives a text for the answer.
RouterReturns ==
    /\ loop.pc = "router"
    /\ Goes("stamp")
    /\ UNCHANGED <<messages, column, post, inbox, outbound, jobs, asks, cut, faults>>

\* stamp_origin_by_token.
StampOrigin ==
    /\ loop.pc = "stamp"
    /\ jobs' = [j \in DOMAIN jobs |-> [jobs[j] EXCEPT
                  !.origin = @ \/ (jobs[j].via = "token" /\ jobs[j].mail = loop.mail)]]
    /\ Goes("answer")
    /\ UNCHANGED <<messages, column, post, inbox, outbound, asks, cut, faults>>

\* Its exceptions are swallowed.
StampFails ==
    /\ loop.pc = "stamp"
    /\ Fault
    /\ cut' = cut \cup {loop.mail}
    /\ Goes("answer")
    /\ UNCHANGED <<messages, column, post, inbox, outbound, jobs, asks>>

\* process_email raises: the loop goes on to the next mail.
HandlingFails ==
    /\ loop.pc \in {"queue", "route", "turn", "router"}
    /\ Fault
    /\ cut' = cut \cup {loop.mail}
    /\ loop' = [loop EXCEPT !.pc = "mail", !.then = "mail"]
    /\ UNCHANGED <<messages, column, post, inbox, outbound, jobs, asks>>

-----------------------------------------------------------------------------
(***************************************************************************)
(* Outbound: relay_outbound_messages.                                      *)
(***************************************************************************)
Ticks ==
    /\ loop.pc = "mail" /\ loop.batch = {}
    /\ loop' = [loop EXCEPT !.pc = "relay", !.todo = PendingMessages(User), !.mail = 0]
    /\ UNCHANGED <<messages, column, post, inbox, outbound, jobs, asks, cut, faults>>

HasOrigin(r) == column[r].job \in DOMAIN jobs /\ jobs[column[r].job].origin

\* lookup_user_to_agent_message.
UserWroteTo(a) ==
    \E q \in DOMAIN messages : messages[q].to = a /\ column[q].from = User

\* Mutants: only the origin counts; an ask needs evidence like the rest.
RelayIfOrigin(r) == column[r].type = "ask" \/ HasOrigin(r)
RelayIfEvidence(r) == HasOrigin(r) \/ UserWroteTo(column[r].from)

ShouldRelay(r) ==
    column[r].type = "ask" \/ HasOrigin(r) \/ UserWroteTo(column[r].from)

\* get_last_email_message_id_for_agent.
Emailed(a) == {q \in DOMAIN column : column[q].from = a /\ column[q].eid # 0}
LastEmailOf(a) == {column[q].eid : q \in {q \in Emailed(a) : \A p \in Emailed(a) : p <= q}}

\* thread_id_for_message; 0 for a new thread.
ThreadOf(r) ==
    IF HasOrigin(r) THEN {jobs[column[r].job].mail}
    ELSE IF LastEmailOf(column[r].from) = {} THEN {0}
    ELSE LastEmailOf(column[r].from)

Relays(r) == \E thread \in ThreadOf(r) : Posts("relay", thread, r)

AtHand(r) == loop.pc = "relay" /\ loop.todo # {} /\ r = Least(loop.todo)

Done(r) == loop' = [loop EXCEPT !.pc = "relay", !.todo = @ \ {r}, !.eid = 0]

Drains(r) ==
    /\ AtHand(r) /\ ~ShouldRelay(r)
    /\ MarkDelivered(r)
    /\ Done(r)
    /\ UNCHANGED <<column, post, inbox, outbound, jobs, asks, cut, faults>>

Sends(r) ==
    /\ AtHand(r) /\ ShouldRelay(r)
    /\ Relays(r)
    /\ loop' = [loop EXCEPT !.pc = "sent", !.eid = Len(post) + 1]
    /\ UNCHANGED <<messages, column, inbox, outbound, jobs, asks, cut, faults>>

PermanentError(r) ==
    /\ AtHand(r) /\ ShouldRelay(r)
    /\ Fault
    /\ MarkMessageFailed(r)
    /\ Done(r)
    /\ UNCHANGED <<column, post, inbox, outbound, jobs, asks, cut>>

\* The tick is given up; when it is the server's answer that is lost, the
\* e-mail is out all the same.
TransientError(r) ==
    /\ AtHand(r) /\ ShouldRelay(r)
    /\ Fault
    /\ UNCHANGED post \/ Relays(r)
    /\ loop' = [loop EXCEPT !.pc = "poll", !.todo = {}]
    /\ UNCHANGED <<messages, column, inbox, outbound, jobs, asks, cut>>

SetEmailMessageId(r) ==
    /\ loop.pc = "sent" /\ r = Least(loop.todo)
    /\ column' = [column EXCEPT ![r].eid = loop.eid]
    /\ Goes("known")
    /\ UNCHANGED <<messages, post, inbox, outbound, jobs, asks, cut, faults>>

RecordRelayed ==
    /\ loop.pc = "known"
    /\ outbound' = outbound \cup {loop.eid}
    /\ Goes("recorded")
    /\ UNCHANGED <<messages, column, post, inbox, jobs, asks, cut, faults>>

MarkRelayed(r) ==
    /\ loop.pc = "recorded" /\ r = Least(loop.todo)
    /\ MarkDelivered(r)
    /\ Done(r)
    /\ UNCHANGED <<column, post, inbox, outbound, jobs, asks, cut, faults>>

\* The relay is through; the other chores and the sleep follow.
Sleeps ==
    /\ loop.pc = "relay" /\ loop.todo = {}
    /\ Goes("poll")
    /\ UNCHANGED <<messages, column, post, inbox, outbound, jobs, asks, cut, faults>>

\* The table cannot be written: the tick is given up.
RelayFails ==
    /\ loop.pc \in {"sent", "known", "recorded"}
    /\ Fault
    /\ loop' = [loop EXCEPT !.pc = "poll", !.todo = {}, !.eid = 0]
    /\ UNCHANGED <<messages, column, post, inbox, outbound, jobs, asks, cut>>

\* claude-email dies, and with it the router's claude; what it had fetched has
\* its flag and is not fetched again (MailPoller).
Crash ==
    /\ Fault
    /\ cut' = cut \cup loop.batch \cup ({loop.mail} \ {0})
    /\ loop' = [pc |-> "poll", batch |-> {}, mail |-> 0, then |-> "mail",
                todo |-> {}, eid |-> 0]
    /\ UNCHANGED <<messages, column, post, inbox, outbound, jobs, asks>>

-----------------------------------------------------------------------------
HandleMail(m) ==
    \/ HandleReply(m) \/ HandleReaction(m) \/ HandleMeta(m) \/ HandleRestart(m)
    \/ HandleQuestion(m) \/ HandleCommand(m) \/ Reject(m) \/ AnswerEnvelope(m)
    \/ \E a \in Agents :
          HandleAgentCommand(m, a) \/ HandleJsonCommand(m, a) \/ RouteToLiveAgent(m, a)

RelayRow(r) == Drains(r) \/ Sends(r) \/ SetEmailMessageId(r) \/ MarkRelayed(r)

LoopStep ==
    \/ Polls \/ Ticks \/ Sleeps \/ RecordRelayed
    \/ \E m \in loop.batch : HandleMail(m)
    \/ QueueReply \/ QueueRefused \/ BriefAgent \/ SendAnswer \/ RecordAnswer
    \/ RouterTurn \/ RouterReturns \/ StampOrigin
    \/ \E r \in loop.todo : RelayRow(r)

Faults ==
    \/ AnswerFails \/ StampFails \/ HandlingFails \/ RelayFails \/ Crash
    \/ \E r \in loop.todo : PermanentError(r) \/ TransientError(r)

Others ==
    \/ \E kind \in UserKinds, re \in {0} \cup MailIds : UserWrites(kind, re)
    \/ \E a \in Agents : NotifyUser(a) \/ AskUser(a) \/ RouterEnqueues(a)
    \/ \E j \in DOMAIN jobs : NotifyTaskDone(j)
    \/ \E r \in RowIds : AskGivesUp(r)

Next == LoopStep \/ Faults \/ Others \/ (\E r \in RowIds : AskPolls(r))

RelaySpec == Init /\ [][Next]_vars

\* claude-email goes on; a chat_ask looks for its reply every two seconds.
FairRelaySpec ==
    RelaySpec /\ WF_vars(LoopStep) /\ \A r \in RowIds : WF_vars(AskPolls(r))

-----------------------------------------------------------------------------
\* The e-mail eid relays row r, and a reply to it finds its way back.
Answerable(r) ==
    LET eid == column[r].eid IN
    eid \in outbound /\ post[eid].kind = "relay" /\ post[eid].row = r

ToUser(r) == messages[r].to = User

\* A question that is marked delivered has been mailed, and the reply to that
\* mail is accepted and matched to it (relay_outbound_messages, is_authorized).
AsksReachUser ==
    \A r \in DOMAIN messages :
        ToUser(r) /\ column[r].type = "ask" /\ messages[r].status = "delivered"
            => Answerable(r)

\* What a task that a mail started tells the user is mailed, never drained in
\* silence, whichever way the mail took, and a task with an origin is answered in
\* the thread of that mail, unless its handling was cut short: the stamp of the
\* origin comes before any relay (process_email, _should_relay, relay_routing.py).
ResultsReachUser ==
    \A r \in DOMAIN messages :
        LET j == column[r].job IN
        ToUser(r) /\ j # 0 /\ messages[r].status = "delivered"
            => \/ /\ Answerable(r)
                  /\ jobs[j].origin => post[column[r].eid].re = jobs[j].mail
               \/ jobs[j].mail \in cut

\* A command that was answered as routed has reached its agent's inbox: a task
\* that no worker will ever claim is told to somebody, unless its handling was
\* cut short between the two writes (_route_to_live_agent).
RoutedIsBriefed ==
    \A j \in DOMAIN jobs :
        jobs[j].via = "agent" =>
            \/ Briefings(j) # {}
            \/ loop.pc = "route" /\ loop.mail = jobs[j].mail
            \/ jobs[j].mail \in cut

\* The reply that a chat_ask returns is to an e-mail that asked its question
\* (classify_email, get_reply_to_message).
RepliesMatch ==
    \A r \in DOMAIN column : \A q \in Replies(r) :
        column[r].type = "ask" => post[column[q].mail].re \in Sent(r)

\* A row is mailed once, and once more only for an error or a crash.
NoDuplicates ==
    \A r \in DOMAIN messages : Cardinality(Sent(r)) <= 1 + faults

\* What waits for the user leaves the queue: it is empty again and again
\* (relay_outbound_messages).
UserRowsLeave == []<>(PendingMessages(User) = {})

Answers(r) == {m \in MailIds : post[m].kind = "reply" /\ RowsOf(post[m].re) = {r}}

\* The user's reply to the e-mail that put a question, once the question is
\* marked delivered, ends its chat_ask, unless the handling was cut short.
AnswersReturn ==
    \A r \in RowIds :
        (/\ asks[r] = "waiting" /\ messages[r].status = "delivered"
         /\ Answers(r) \cap inbox # {})
            ~> (asks[r] # "waiting" \/ Answers(r) \cap cut # {})
=============================================================================
