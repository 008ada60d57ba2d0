------------------------------- MODULE AgentBus -------------------------------
(***************************************************************************)
(* How mail reaches an agent.  The processes that share the messages and   *)
(* agents tables:                                                          *)
(*                                                                         *)
(*   session   a claude CLI and the hook scripts it runs                   *)
(*                  scripts/chat-register-self.py, chat-drain-inbox.py     *)
(*                  src/chat_pid_reclaim.py                                *)
(*   watch     the wake watcher, a coroutine per agent in claude-chat      *)
(*                  src/wake_watcher.py, src/wake_spawn.py                 *)
(*   server    claude-chat: its rounds, its tools and its restart          *)
(*                  chat/tools.py, chat/server.py, src/proc_reconcile.py   *)
(*   spawner   claude-email: spawn_agent   src/spawner.py, and             *)
(*             reap_dead_agents, in its loop                               *)
(*                                                                         *)
(* All agents here are those of one project directory, as the command      *)
(* "spawn <path> as <agent-name>" makes them.                              *)
(*                                                                         *)
(* The rows of the agents table are those of src/agent_registry_impls.py.  *)
(* Everything in claude-chat is one event loop: between two awaits nothing *)
(* else in that process runs, but hooks and claude-email do.               *)
(***************************************************************************)
EXTENDS MessageBus, FiniteSets

CONSTANTS
    BaseName,       \* the name that the directory's own name gives
    Sessions,       \* slots for claude processes; a slot is reused with a new pid
    Operations,     \* what users and agents do: a subset of AllOperations
    MaxFailures,    \* WAKE_MAX_CONSECUTIVE_FAILURES
    MaxOpened,      \* bound: sessions that users open or spawn
    MaxFaults,      \* bound: restarts and crashes
    NoPid, Dead, Nobody

AllOperations == {"export", "spawn", "check", "register", "rejoin", "deregister", "cleanup"}

ASSUME BaseNameAssumption == BaseName \in Names
ASSUME OperationsAssumption == Operations \subseteq AllOperations
ASSUME MaxFailuresAssumption == MaxFailures \in Nat \ {0}
ASSUME BusBoundsAssumption == MaxOpened \in Nat /\ MaxFaults \in Nat
ASSUME SentinelsAssumption ==
    /\ NoPid # Dead /\ {NoPid, Dead} \cap Sessions = {}
    /\ Nobody \notin Names \cup Sessions

VARIABLES
    agents,         \* the agents table
    session,        \* the claude processes, with the hook each one is in
    watch,          \* process_agent and the failure count, per agent
    server,         \* agents left in the watcher's round, sessions left to reconcile
    spawner,        \* the spawn_agent call under way, and .claude/agent-name
    settled,        \* messages shown to a model, or lost with the claude that held them
    opened,         \* sessions opened so far
    faults          \* restarts and crashes so far

busVars == <<messages, agents, session, watch, server, spawner, settled, opened, faults>>

(* A pid is the slot of the process while it lives and Dead afterwards.     *)
Pids == Sessions \cup {NoPid, Dead}
IsAlive(pid) == pid \in Sessions

AgentRow == [status : {"absent", "running", "disconnected", "deregistered"}, pid : Pids]

(* name: the agent that the process takes itself for.                       *)
(* env: CLAUDE_AGENT_NAME is set to that name.                              *)
(* reg: the SessionStart registration has yet to run.  pid: what the hook   *)
(* read last (stored pid, then the session it found).  hand: messages       *)
(* claimed and not yet given to the model.  older: the sessions that were   *)
(* there before this one.                                                   *)
SessionState ==
    [pc : {"off", "idle", "find", "reclaim", "force", "revive", "own", "claim",
           "print", "recovered", "reply"},
     name : Names \cup {Nobody}, wake : BOOLEAN, env : BOOLEAN,
     reg : BOOLEAN, pid : Pids, hand : SUBSET MessageIds, older : SUBSET Sessions]

(* ids: pre_ids, then the messages left to mark failed.  rc: how the turn   *)
(* ended.  count: consecutive failures.                                     *)
WatchState ==
    [pc : {"idle", "agent", "judge", "await", "escalate", "fail"},
     running : BOOLEAN, pid : Pids, ids : SUBSET MessageIds,
     child : Sessions \cup {Nobody}, rc : {"none", "ok", "err"}, count : 0 .. MaxFailures]

AgentBusTypeOK ==
    /\ MessagesOK
    /\ agents \in [Names -> AgentRow]
    /\ session \in [Sessions -> SessionState]
    /\ watch \in [Names -> WatchState]
    /\ server \in [round : SUBSET Names, boot : SUBSET Sessions]
    /\ spawner \in [pc : {"idle", "register", "setpid"}, name : Names \cup {Nobody},
                    pid : Pids, file : Names]
    /\ settled \subseteq MessageIds
    /\ opened \in 0 .. MaxOpened
    /\ faults \in 0 .. MaxFaults

SessionOff == [pc |-> "off", name |-> Nobody, wake |-> FALSE, env |-> FALSE,
               reg |-> FALSE, pid |-> NoPid, hand |-> {}, older |-> {}]

\* process_agent at rest; the failure count outlives a turn.
Rested(r) == [pc |-> "idle", running |-> FALSE, pid |-> NoPid, ids |-> {},
              child |-> Nobody, rc |-> "none", count |-> r.count]

AgentBusInit ==
    /\ messages = <<>>
    /\ agents = [n \in Names |-> [status |-> "absent", pid |-> NoPid]]
    /\ session = [s \in Sessions |-> SessionOff]
    /\ watch = [n \in Names |-> Rested([count |-> 0])]
    /\ server = [round |-> {}, boot |-> {}]
    /\ spawner = [pc |-> "idle", name |-> Nobody, pid |-> NoPid, file |-> BaseName]
    /\ settled = {}
    /\ opened = 0
    /\ faults = 0

BusFault == faults < MaxFaults /\ faults' = faults + 1
Opens == opened < MaxOpened /\ opened' = opened + 1

-----------------------------------------------------------------------------
(* The agents table.                                                        *)

\* register_agent raises AgentNameTaken: another live process has the name.
NameTaken(n, pid) ==
    /\ pid # NoPid
    /\ agents[n].pid # pid
    /\ IsAlive(agents[n].pid)

\* One transaction: the upsert, with COALESCE on the pid, and the recovery.
RegisterAgent(n, pid) ==
    /\ agents' = [agents EXCEPT ![n] = [status |-> "running",
                                        pid |-> IF pid = NoPid THEN @.pid ELSE pid]]
    /\ RecoverFailedMessages(n)

\* An UPDATE does nothing to a name that has no row.
UpdateStatus(n, status) ==
    agents' = [agents EXCEPT ![n].status = IF @ = "absent" THEN @ ELSE status]
UpdatePid(n, pid) ==
    agents' = [agents EXCEPT ![n].pid = IF agents[n].status = "absent" THEN @ ELSE pid]

(* Processes die: their slots are free and their pids name nobody, in the   *)
(* table and in whatever anybody has read.                                  *)
Buried(pid, S) == IF pid \in S THEN Dead ELSE pid

Die(S, rc) ==
    /\ agents' = [n \in Names |-> [agents[n] EXCEPT !.pid = Buried(@, S)]]
    /\ session' = [s \in Sessions |-> IF s \in S THEN SessionOff
                                      ELSE [session[s] EXCEPT !.pid = Buried(@, S), !.older = @ \ S]]
    /\ watch' = [n \in Names |->
                   [watch[n] EXCEPT !.pid = Buried(@, S),
                                    !.child = IF @ \in S THEN Nobody ELSE @,
                                    !.rc = IF watch[n].child \in S THEN rc ELSE @]]
    /\ server' = [server EXCEPT !.boot = @ \ S]
    /\ spawner' = [spawner EXCEPT !.pid = Buried(@, S)]
    /\ settled' = settled \cup UNION {session[s].hand : s \in S}

\* claude-chat's event loop is at an await.
LoopFree ==
    /\ server.boot = {}
    /\ \A n \in Names : watch[n].pc \in {"idle", "await"}
    /\ \A s \in Sessions : session[s].pc # "recovered"

-----------------------------------------------------------------------------
(* A session and its hooks.                                                 *)

\* caller_name: the environment, or else the file, or else the directory.
CallerName(s) == IF session[s].env THEN session[s].name ELSE spawner.file

SessionGoes(s, pc) == session' = [session EXCEPT ![s].pc = pc]
ToPrompt(s) == session' = [session EXCEPT ![s].pc = "idle", ![s].pid = NoPid]

LiveSessions == {u \in Sessions : session[u].pc # "off"}

Newborn(n, wake, env) ==
    [SessionOff EXCEPT !.pc = "idle", !.name = n, !.wake = wake, !.env = env, !.reg = TRUE,
                       !.older = LiveSessions]

OpenSession(s) ==
    /\ session[s].pc = "off"
    /\ Opens
    /\ \E n \in Names, env \in BOOLEAN :
          /\ IF env THEN "export" \in Operations ELSE n = spawner.file
          /\ session' = [session EXCEPT ![s] = Newborn(n, FALSE, env)]
    /\ UNCHANGED <<messages, agents, watch, server, spawner, settled, faults>>

(* The SessionStart registration, in parallel with the session's other      *)
(* hooks.  Its check that nobody owns the name is that of register_agent,   *)
(* so both are one step.  It does not look at the file.  It may never run:  *)
(* no hook, or the bus is down.                                             *)
RegisterSelf(s) ==
    LET n == IF session[s].env THEN session[s].name ELSE BaseName
    IN  /\ session[s].reg
        /\ session' = [session EXCEPT ![s].reg = FALSE]
        /\ IF NameTaken(n, s) THEN UNCHANGED <<agents, messages>> ELSE RegisterAgent(n, s)
        /\ UNCHANGED <<watch, server, spawner, settled, opened, faults>>

\* reclaim_pid_best_effort: a row that is missing or has our pid is left alone.
DrainStarts(s) ==
    LET n == CallerName(s)
        row == agents[n]
    IN  /\ session[s].pc = "idle"
        /\ session' = [session EXCEPT ![s].name = n,
              ![s].pc = IF row.status = "absent" \/ row.pid = s THEN "own" ELSE "find",
              ![s].pid = IF row.status = "absent" \/ row.pid = s THEN NoPid ELSE row.pid]
        /\ UNCHANGED <<messages, agents, watch, server, spawner, settled, opened, faults>>

(* find_session_pid_for_cwd: the newest session in the directory, whatever  *)
(* its name, or else, when "claude agents" fails, the hook's own ancestor.  *)
FoundFor(s) == {u \in LiveSessions : u = s \/ LiveSessions \ {u} \subseteq session[u].older}

\* Mutant: a stored pid, even a dead one, is kept.
KeepsStored(s) ==
    /\ session[s].pc = "find"
    /\ \E u \in FoundFor(s) :
          IF session[s].pid # NoPid
          THEN session' = [session EXCEPT ![s].pc = "own", ![s].pid = NoPid]
          ELSE session' = [session EXCEPT ![s].pc = "reclaim", ![s].pid = u]
    /\ UNCHANGED <<messages, agents, watch, server, spawner, settled, opened, faults>>

FindsSession(s) ==
    /\ session[s].pc = "find"
    /\ \E u \in FoundFor(s) :
          IF session[s].pid = u
          THEN session' = [session EXCEPT ![s].pc = "own", ![s].pid = NoPid]
          ELSE session' = [session EXCEPT ![s].pc = "reclaim", ![s].pid = u]
    /\ UNCHANGED <<messages, agents, watch, server, spawner, settled, opened, faults>>

ReclaimsPid(s) ==
    LET n == session[s].name
        found == session[s].pid
    IN  /\ session[s].pc = "reclaim"
        /\ IF ~NameTaken(n, found)
           THEN /\ RegisterAgent(n, found)
                /\ session' = [session EXCEPT ![s].pc = "own", ![s].pid = NoPid]
           ELSE /\ UNCHANGED <<agents, messages>>
                /\ session' = IF session[s].env THEN [session EXCEPT ![s].pc = "force"]
                              ELSE [session EXCEPT ![s].pc = "own", ![s].pid = NoPid]
        /\ UNCHANGED <<watch, server, spawner, settled, opened, faults>>

\* CLAUDE_AGENT_NAME says the name is ours: two updates without a check.
ForcesPid(s) ==
    /\ session[s].pc = "force"
    /\ UpdatePid(session[s].name, session[s].pid)
    /\ session' = [session EXCEPT ![s].pc = "revive", ![s].pid = NoPid]
    /\ UNCHANGED <<messages, watch, server, spawner, settled, opened, faults>>

ForcesStatus(s) ==
    /\ session[s].pc = "revive"
    /\ UpdateStatus(session[s].name, "running")
    /\ SessionGoes(s, "own")
    /\ UNCHANGED <<messages, watch, server, spawner, settled, opened, faults>>

\* main, after the reclaim: a sibling that owns the name keeps its mail.
ChecksOwner(s) ==
    LET owner == agents[session[s].name].pid
    IN  /\ session[s].pc = "own"
        /\ IF owner # s /\ IsAlive(owner) THEN ToPrompt(s) ELSE SessionGoes(s, "claim")
        /\ UNCHANGED <<messages, agents, watch, server, spawner, settled, opened, faults>>

\* Mutant: the messages that are printed are read again after the claim.
ClaimsUnread(s) ==
    LET n == session[s].name
    IN  /\ session[s].pc \in {"claim", "recovered"}
        /\ ClaimPendingMessages(n)
        /\ ToPrompt(s)
        /\ UNCHANGED <<agents, watch, server, spawner, settled, opened, faults>>

\* claim_pending_messages_for, in the hook and in chat_check_messages.
ClaimsInbox(s) ==
    LET n == session[s].name
        claimed == PendingMessages(n)
    IN  /\ session[s].pc \in {"claim", "recovered"}
        /\ ClaimPendingMessages(n)
        /\ session' = [session EXCEPT
                         ![s].hand = claimed,
                         ![s].pc = IF claimed = {} THEN "idle"
                                      ELSE IF @ = "claim" THEN "print" ELSE "reply"]
        /\ UNCHANGED <<agents, watch, server, spawner, settled, opened, faults>>

\* The hook's output, or the tool's result, reaches the model.
ShowsMail(s) ==
    /\ session[s].pc \in {"print", "reply"}
    /\ settled' = settled \cup session[s].hand
    /\ session' = [session EXCEPT ![s].pc = "idle", ![s].hand = {}]
    /\ UNCHANGED <<messages, agents, watch, server, spawner, opened, faults>>

\* A model that calls chat_check_messages: failed mail comes back first.
CheckMessages(s) ==
    /\ "check" \in Operations
    /\ session[s].pc = "idle"
    /\ LoopFree
    /\ RecoverFailedMessages(session[s].name)
    /\ SessionGoes(s, "recovered")
    /\ UNCHANGED <<agents, watch, server, spawner, settled, opened, faults>>

\* chat_register passes no pid.
RegisterTool(s) ==
    /\ "register" \in Operations
    /\ session[s].pc = "idle"
    /\ LoopFree
    /\ RegisterAgent(session[s].name, NoPid)
    /\ UNCHANGED <<session, watch, server, spawner, settled, opened, faults>>

(* chat-rejoin-as.py, which a session is told to run: the row is written    *)
(* with the pid of the session, and its hooks go on under the old name.     *)
RejoinAs(s) ==
    /\ "rejoin" \in Operations
    /\ session[s].pc = "idle"
    /\ \E n \in Names : ~NameTaken(n, s) /\ RegisterAgent(n, s)
    /\ UNCHANGED <<session, watch, server, spawner, settled, opened, faults>>

DeregisterTool(s) ==
    /\ "deregister" \in Operations
    /\ session[s].pc = "idle"
    /\ LoopFree
    /\ UpdateStatus(session[s].name, "deregistered")
    /\ UNCHANGED <<messages, session, watch, server, spawner, settled, opened, faults>>

\* The user quits, or the wake turn is over, well or badly.
SessionExits(s) ==
    /\ session[s].pc = "idle"
    /\ \E rc \in {"ok", "err"} : Die({s}, rc)
    /\ UNCHANGED <<messages, opened, faults>>

DrainStep(s) ==
    \/ FindsSession(s) \/ ReclaimsPid(s) \/ ForcesPid(s) \/ ForcesStatus(s)
    \/ ChecksOwner(s) \/ ClaimsInbox(s) \/ ShowsMail(s)

-----------------------------------------------------------------------------
(* The wake watcher.                                                        *)

WatchGoes(n, pc) == watch' = [watch EXCEPT ![n].pc = pc]
TurnDone(n) == watch' = [watch EXCEPT ![n] = Rested(@)]

\* get_distinct_pending_recipients; gather has waited for the last round.
NextRound ==
    /\ LoopFree
    /\ server.round = {}
    /\ \A n \in Names : watch[n].pc = "idle"
    /\ \E n \in Names : PendingMessages(n) # {}
    /\ server' = [server EXCEPT !.round = {n \in Names : PendingMessages(n) # {}}]
    /\ UNCHANGED <<messages, agents, session, watch, spawner, settled, opened, faults>>

\* try_acquire, then the row of the agent.
ReadsAgent(n) ==
    /\ n \in server.round
    /\ LoopFree
    /\ server' = [server EXCEPT !.round = @ \ {n}]
    /\ IF watch[n].pc # "idle" \/ agents[n].status = "absent" THEN UNCHANGED watch
       ELSE watch' = [watch EXCEPT ![n].pc = "agent", ![n].pid = agents[n].pid,
                                   ![n].running = agents[n].status = "running"]
    /\ UNCHANGED <<messages, agents, session, spawner, settled, opened, faults>>

\* pre_ids: nothing left, or a reaped agent whose mail is marked failed.
ReadsPending(n) ==
    LET pre == PendingMessages(n)
    IN  /\ watch[n].pc = "agent"
        /\ IF pre = {} THEN TurnDone(n)
           ELSE watch' = [watch EXCEPT ![n].ids = pre,
                            ![n].pc = IF watch[n].running THEN "judge" ELSE "fail"]
        /\ UNCHANGED <<messages, agents, session, server, spawner, settled, opened, faults>>

\* Mutant: the inbox is never given up.
FailedForEver(n) == watch' = [watch EXCEPT ![n] = Rested(@)]

\* record_failure; from the threshold on the inbox is given up.
Failed(n) ==
    LET count == IF watch[n].count < MaxFailures THEN watch[n].count + 1 ELSE MaxFailures
    IN  watch' = [watch EXCEPT ![n] = [Rested([count |-> count]) EXCEPT
                    !.pc = IF count = MaxFailures THEN "escalate" ELSE "idle"]]

\* The owner of the row that was read is alive: its own hooks drain the inbox.
OwnerWins(n) ==
    /\ watch[n].pc = "judge"
    /\ IsAlive(watch[n].pid)
    /\ TurnDone(n)
    /\ UNCHANGED <<messages, agents, session, server, spawner, settled, opened, faults>>

\* The turn runs in the agent's directory, without its name.
SpawnsTurn(n) ==
    /\ watch[n].pc = "judge"
    /\ ~IsAlive(watch[n].pid)
    /\ \E s \in Sessions :
          /\ session[s].pc = "off"
          /\ session' = [session EXCEPT ![s] = Newborn(spawner.file, TRUE, FALSE)]
          /\ watch' = [watch EXCEPT ![n].pc = "await", ![n].child = s, ![n].pid = NoPid]
    /\ UNCHANGED <<messages, agents, server, spawner, settled, opened, faults>>

\* The claude binary is missing.
SpawnFails(n) ==
    /\ watch[n].pc = "judge"
    /\ ~IsAlive(watch[n].pid)
    /\ Failed(n)
    /\ UNCHANGED <<messages, agents, session, server, spawner, settled, opened, faults>>

\* Mutant: the coroutine goes on and the turn is not killed.
TimeoutWithoutKill(n) ==
    /\ watch[n].pc = "await"
    /\ watch[n].child # Nobody
    /\ watch' = [watch EXCEPT ![n].child = Nobody, ![n].rc = "err"]
    /\ UNCHANGED <<messages, agents, session, server, spawner, settled, opened, faults>>

TurnTimesOut(n) ==
    /\ watch[n].pc = "await"
    /\ watch[n].child # Nobody
    /\ Die({watch[n].child}, "err")
    /\ UNCHANGED <<messages, opened, faults>>

\* Progress is that some message of pre_ids is not pending any more.
TurnReturns(n) ==
    LET progress == ~(watch[n].ids \subseteq PendingMessages(n))
    IN  /\ watch[n].pc = "await"
        /\ watch[n].rc # "none"
        /\ LoopFree
        /\ IF watch[n].rc = "ok" /\ progress
           THEN watch' = [watch EXCEPT ![n] = Rested([count |-> 0])]
           ELSE Failed(n)
        /\ UNCHANGED <<messages, agents, session, server, spawner, settled, opened, faults>>

\* _handle_failure at the threshold: what is pending now.
Escalates(n) ==
    /\ watch[n].pc = "escalate"
    /\ IF PendingMessages(n) = {} THEN TurnDone(n)
       ELSE watch' = [watch EXCEPT ![n].pc = "fail", ![n].ids = PendingMessages(n)]
    /\ UNCHANGED <<messages, agents, session, server, spawner, settled, opened, faults>>

\* One message after the other, each in a transaction of its own.
GivesUp(n) ==
    LET ids == watch[n].ids
    IN  /\ watch[n].pc = "fail"
        /\ \E m \in ids :
              /\ \A k \in ids : m <= k
              /\ MarkMessageFailed(m)
              /\ IF ids = {m} THEN TurnDone(n) ELSE watch' = [watch EXCEPT ![n].ids = @ \ {m}]
        /\ UNCHANGED <<agents, session, server, spawner, settled, opened, faults>>

WatchStep(n) ==
    \/ ReadsAgent(n) \/ ReadsPending(n) \/ OwnerWins(n) \/ SpawnsTurn(n) \/ SpawnFails(n)
    \/ TurnReturns(n) \/ Escalates(n) \/ GivesUp(n)

-----------------------------------------------------------------------------
(* The services.                                                            *)

\* chat_message_agent and the user's mail: only to a name that has a row.
SendMessage(n) ==
    /\ agents[n].status # "absent"
    /\ InsertMessage(n)
    /\ UNCHANGED <<agents, session, watch, server, spawner, settled, opened, faults>>

\* In one transaction: dead pids, and rows without a pid that have idled.
ReapDeadAgents ==
    \E idle \in SUBSET Names :
        LET reaped == {n \in Names : /\ agents[n].status = "running"
                                     /\ \/ agents[n].pid = Dead
                                        \/ agents[n].pid = NoPid /\ n \in idle}
        IN  /\ reaped # {}
            /\ agents' = [n \in Names |-> IF n \in reaped
                                          THEN [agents[n] EXCEPT !.status = "disconnected"]
                                          ELSE agents[n]]
            /\ UNCHANGED <<messages, session, watch, server, spawner, settled, opened, faults>>

Cleanup ==
    /\ "cleanup" \in Operations
    /\ \E M \in SUBSET DOMAIN messages : CleanupOld(M)
    /\ UNCHANGED <<agents, session, watch, server, spawner, settled, opened, faults>>

\* spawn_agent: the process first, then its row, then its pid.
SpawnAgent(s) ==
    /\ "spawn" \in Operations
    /\ spawner.pc = "idle"
    /\ session[s].pc = "off"
    /\ Opens
    /\ \E n \in Names :
          /\ session' = [session EXCEPT ![s] = Newborn(n, FALSE, TRUE)]
          /\ spawner' = [pc |-> "register", name |-> n, pid |-> s, file |-> n]
    /\ UNCHANGED <<messages, agents, watch, server, settled, faults>>

SpawnRegisters ==
    /\ spawner.pc = "register"
    /\ RegisterAgent(spawner.name, NoPid)
    /\ spawner' = [spawner EXCEPT !.pc = "setpid"]
    /\ UNCHANGED <<session, watch, server, settled, opened, faults>>

SpawnSetsPid ==
    /\ spawner.pc = "setpid"
    /\ UpdatePid(spawner.name, spawner.pid)
    /\ spawner' = [spawner EXCEPT !.pc = "idle", !.name = Nobody, !.pid = NoPid]
    /\ UNCHANGED <<messages, session, watch, server, settled, opened, faults>>

SpawnStep == SpawnRegisters \/ SpawnSetsPid

Turns == {s \in Sessions : session[s].wake}
Replying == {s \in Sessions : session[s].pc = "reply"}

(* claude-chat restarts.  Its wake turns die with it (the unit's control    *)
(* group, claude-chat.service) and its tool calls fail; then                *)
(* reconcile_live_agents registers the sessions that run.                   *)
ServerRestarts ==
    /\ BusFault
    /\ agents' = [n \in Names |-> [agents[n] EXCEPT !.pid = Buried(@, Turns)]]
    /\ session' = [s \in Sessions |->
                     IF s \in Turns THEN SessionOff
                     ELSE [session[s] EXCEPT !.pid = Buried(@, Turns), !.older = @ \ Turns,
                             !.pc = IF @ \in {"recovered", "reply"} THEN "idle" ELSE @,
                             !.hand = IF s \in Replying THEN {} ELSE @]]
    /\ watch' = [n \in Names |-> Rested([count |-> 0])]
    /\ server' = [round |-> {}, boot |-> LiveSessions \ Turns]
    /\ spawner' = [spawner EXCEPT !.pid = Buried(@, Turns)]
    /\ settled' = settled \cup UNION {session[s].hand : s \in Turns \cup Replying}
    /\ UNCHANGED <<messages, opened>>

\* A taken name is retried under another, which is nobody's inbox here.
Reconciles(s) ==
    LET n == CallerName(s)
    IN  /\ s \in server.boot
        /\ server' = [server EXCEPT !.boot = @ \ {s}]
        /\ IF NameTaken(n, s) THEN UNCHANGED <<agents, messages>> ELSE RegisterAgent(n, s)
        /\ UNCHANGED <<session, watch, spawner, settled, opened, faults>>

\* A claude dies in the middle of anything, its hook and its hand with it.
SessionCrashes(s) ==
    /\ session[s].pc # "off"
    /\ BusFault
    /\ Die({s}, "err")
    /\ UNCHANGED <<messages, opened>>

Environment ==
    \/ \E s \in Sessions : OpenSession(s) \/ RegisterSelf(s) \/ SessionExits(s) \/ SessionCrashes(s)
    \/ \E s \in Sessions : CheckMessages(s) \/ RegisterTool(s) \/ RejoinAs(s) \/ DeregisterTool(s)
                         \/ SpawnAgent(s)
    \/ \E n \in Names : SendMessage(n)
    \/ Cleanup \/ ServerRestarts

AgentBusNext ==
    \/ \E s \in Sessions : DrainStarts(s) \/ DrainStep(s) \/ Reconciles(s)
    \/ \E n \in Names : WatchStep(n) \/ TurnTimesOut(n)
    \/ NextRound \/ ReapDeadAgents \/ SpawnStep
    \/ Environment

AgentBusSpec == AgentBusInit /\ [][AgentBusNext]_busVars

(* Programs get on; a claude that lives gets a prompt, and thereby runs its *)
(* drain hook, again and again or ends; a wake turn ends or is killed after *)
(* WAKE_SUBPROCESS_TIMEOUT_SECS.  Nobody has to open or quit a session.     *)
BusFairness ==
    /\ \A s \in Sessions : /\ WF_busVars(DrainStep(s)) /\ SF_busVars(DrainStarts(s))
                           /\ WF_busVars(Reconciles(s))
    /\ \A n \in Names : WF_busVars(WatchStep(n)) /\ WF_busVars(TurnTimesOut(n))
    /\ WF_busVars(NextRound) /\ WF_busVars(SpawnStep)

FairBusSpec == AgentBusSpec /\ BusFairness

-----------------------------------------------------------------------------
(* Properties.                                                              *)

(* Mail is not lost between the bus and a model: what is marked delivered   *)
(* was put before a model, is on its way there, or went down with the       *)
(* claude that had claimed it (chat-drain-inbox.py:5-6, tools.py:100).      *)
InHand == UNION {session[s].hand : s \in Sessions}

NothingLost ==
    \A m \in DOMAIN messages :
        messages[m].status = "delivered" => m \in InHand \cup settled

(* One wake turn per agent at a time, through timeouts and restarts: a turn *)
(* that runs is the one its agent's coroutine awaits (wake_helpers.py:47).  *)
OneTurnPerAgent ==
    \A s \in Sessions :
        session[s].wake => \E n \in Names : watch[n].pc = "await" /\ watch[n].child = s

(* Every message leaves the queue: a hook delivers it, a turn does, or the  *)
(* watcher gives it up (wake_watcher.py:127-132).                           *)
MessageStatusOf(m) == IF m \in DOMAIN messages THEN messages[m].status ELSE "none"

PendingLeaves ==
    \A m \in MessageIds : MessageStatusOf(m) = "pending" ~> MessageStatusOf(m) # "pending"

(* A row left with a stale pid, or none, is healed by the drains of the     *)
(* sessions that live, once no session of the agent comes or goes any more  *)
(* (chat_pid_reclaim.py:24-33).                                             *)
SessionsOf(n) == {s \in Sessions : session[s].name = n}

StalePidHealed ==
    \A n \in Names, S \in (SUBSET Sessions) \ {{}} :
        <>[](SessionsOf(n) = S /\ agents[n].status # "absent") => <>[]IsAlive(agents[n].pid)
=============================================================================
