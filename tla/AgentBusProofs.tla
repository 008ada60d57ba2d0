---------------------------- MODULE AgentBusProofs ----------------------------
(* Theorems about the agents' mail, for any number of agents, sessions,     *)
(* messages, failures and faults.                                           *)
EXTENDS AgentBus, MessageBusProofs

-----------------------------------------------------------------------------
(* The inductive invariant.  A claude that runs takes itself for an agent,  *)
(* one that starts another claim has nothing in hand, and a turn's result   *)
(* is set only once its process is gone.                                    *)

HandsHeld ==
    \A s \in Sessions : session[s].hand # {} => session[s].pc \in {"print", "reply"}

Named == \A s \in Sessions : session[s].pc # "off" => session[s].name \in Names

TurnsAwaited ==
    \A n \in Names :
        /\ watch[n].pc # "await" => watch[n].rc = "none"
        /\ watch[n].child # Nobody => watch[n].pc = "await" /\ watch[n].rc = "none"

BusInv ==
    /\ AgentBusTypeOK
    /\ Named
    /\ HandsHeld
    /\ NothingLost
    /\ TurnsAwaited
    /\ OneTurnPerAgent

(* The table changes in three ways, and only a claim delivers.              *)
MessagesMove ==
    \/ UNCHANGED messages
    \/ \E n \in Names : InsertMessage(n)
    \/ \E M \in SUBSET DOMAIN messages, status \in {"pending", "failed", "pruned"} :
          SetMessages(M, status)

LEMMA RecoveryMoves ==
    ASSUME NEW n, RecoverFailedMessages(n)
    PROVE  MessagesMove
<1>1. InboxOf(n, "failed") \in SUBSET DOMAIN messages
  BY DEF InboxOf
<1> QED  BY <1>1 DEF RecoverFailedMessages, MessagesMove

LEMMA WhoWritesMessages ==
    ASSUME BusInv, [AgentBusNext]_busVars
    PROVE  MessagesMove \/ \E s \in Sessions : ClaimsInbox(s)
<1> USE DEF MessagesMove
<1>1. ASSUME NEW n, NEW pid, RegisterAgent(n, pid) PROVE MessagesMove
  BY <1>1, RecoveryMoves DEF RegisterAgent
<1>2. ASSUME NEW s \in Sessions, RegisterSelf(s) \/ ReclaimsPid(s) \/ RegisterTool(s) \/ RejoinAs(s) \/ Reconciles(s)
      PROVE  MessagesMove
  BY <1>1, <1>2 DEF RegisterSelf, ReclaimsPid, RegisterTool, RejoinAs, Reconciles
<1>3. ASSUME SpawnRegisters PROVE MessagesMove
  BY <1>1, <1>3 DEF SpawnRegisters
<1>4. ASSUME NEW s \in Sessions, CheckMessages(s) PROVE MessagesMove
  BY <1>4, RecoveryMoves DEF CheckMessages
<1>5. ASSUME NEW n \in Names, GivesUp(n) PROVE MessagesMove
  <2>1. PICK m \in watch[n].ids : MarkMessageFailed(m)
    BY <1>5 DEF GivesUp
  <2>2. SetMessages({m}, "failed") = SetMessages({m} \cap DOMAIN messages, "failed")
    BY DEF SetMessages
  <2> QED  BY <2>1, <2>2 DEF MarkMessageFailed
<1>6. ASSUME NEW n \in Names, SendMessage(n) PROVE MessagesMove
  BY <1>6 DEF SendMessage
<1>7. ASSUME Cleanup PROVE MessagesMove
  <2>1. PICK M \in SUBSET DOMAIN messages : CleanupOld(M)
    BY <1>7 DEF Cleanup
  <2> QED  BY <2>1 DEF CleanupOld
<1>8. CASE UNCHANGED messages
  BY <1>8
<1> QED
  BY <1>2, <1>3, <1>4, <1>5, <1>6, <1>7, <1>8
     DEF AgentBusNext, DrainStep, WatchStep, SpawnStep, Environment, busVars,
         DrainStarts, FindsSession, ForcesPid, ForcesStatus, ChecksOwner, ShowsMail,
         TurnTimesOut, NextRound, ReadsAgent, ReadsPending, OwnerWins, SpawnsTurn, SpawnFails,
         TurnReturns, Escalates, ReapDeadAgents, SpawnSetsPid, OpenSession, SessionExits,
         SessionCrashes, DeregisterTool, SpawnAgent, ServerRestarts

-----------------------------------------------------------------------------
(* The sessions.                                                            *)

SessionsOK == session \in [Sessions -> SessionState]

\* What a claude holds it keeps, shows or takes down with it.
HandsKept ==
    /\ settled \subseteq settled'
    /\ \A s \in Sessions : session[s].hand \subseteq session'[s].hand \cup settled'

SessionsStep == SessionsOK' /\ Named' /\ HandsHeld' /\ HandsKept

LEMMA OneSession ==
    ASSUME SessionsOK, Named, HandsHeld, NEW s \in Sessions, NEW r \in SessionState,
           session' = [session EXCEPT ![s] = r],
           r.pc # "off" => r.name \in Names,
           r.hand # {} => r.pc \in {"print", "reply"},
           session[s].hand \subseteq r.hand \cup settled', settled \subseteq settled'
    PROVE  SessionsStep
  BY DEF SessionsStep, SessionsOK, Named, HandsHeld, HandsKept

\* A process starts in a free slot.
LEMMA SessionStarts ==
    ASSUME SessionsOK, Named, HandsHeld, NEW s \in Sessions, session[s].pc = "off",
           NEW n \in Names, NEW wake \in BOOLEAN, NEW env \in BOOLEAN,
           session' = [session EXCEPT ![s] = Newborn(n, wake, env)], UNCHANGED settled
    PROVE  SessionsStep
<1>1. /\ Newborn(n, wake, env) \in SessionState
      /\ Newborn(n, wake, env).name = n
      /\ Newborn(n, wake, env).hand = {}
  BY DEF Newborn, SessionOff, SessionState, Pids, LiveSessions
<1>2. session[s].hand = {}
  BY DEF HandsHeld
<1> QED  BY <1>1, <1>2, OneSession

\* A hook or a tool with empty hands goes on.
LEMMA EmptyHanded ==
    ASSUME SessionsOK, Named, HandsHeld, NEW s \in Sessions,
           session[s].pc \notin {"off", "print", "reply"}, NEW r \in SessionState,
           session' = [session EXCEPT ![s] = r],
           r.name \in Names, r.hand = session[s].hand, UNCHANGED settled
    PROVE  SessionsStep
<1>1. session[s].hand = {}
  BY DEF HandsHeld
<1> QED  BY <1>1, OneSession

\* The same where only the program counter and the pid that was read change.
LEMMA HookGoesOn ==
    ASSUME SessionsOK, Named, HandsHeld, NEW s \in Sessions,
           session[s].pc \notin {"off", "print", "reply"},
           NEW pc \in {"idle", "find", "reclaim", "force", "revive", "own", "claim", "recovered"},
           NEW pid \in Pids,
           \/ session' = [session EXCEPT ![s].pc = pc, ![s].pid = pid]
           \/ session' = [session EXCEPT ![s].pc = pc],
           UNCHANGED settled
    PROVE  SessionsStep
<1>1. session[s] \in SessionState /\ session[s].name \in Names
  BY DEF SessionsOK, Named
<1>2. CASE session' = [session EXCEPT ![s].pc = pc, ![s].pid = pid]
  <2> DEFINE r == [session[s] EXCEPT !.pc = pc, !.pid = pid]
  <2>1. r \in SessionState /\ r.name = session[s].name /\ r.hand = session[s].hand
    BY <1>1 DEF SessionState
  <2>2. session' = [session EXCEPT ![s] = r]
    BY <1>2
  <2> QED  BY <1>1, <2>1, <2>2, EmptyHanded
<1>3. CASE session' = [session EXCEPT ![s].pc = pc]
  <2> DEFINE r == [session[s] EXCEPT !.pc = pc]
  <2>1. r \in SessionState /\ r.name = session[s].name /\ r.hand = session[s].hand
    BY <1>1 DEF SessionState
  <2>2. session' = [session EXCEPT ![s] = r]
    BY <1>3
  <2> QED  BY <1>1, <2>1, <2>2, EmptyHanded
<1> QED  BY <1>2, <1>3

LEMMA DeathsSession ==
    ASSUME AgentBusTypeOK, Named, HandsHeld, NEW S \in SUBSET Sessions, NEW rc, Die(S, rc)
    PROVE  SessionsStep
<1>1. SessionsOK
  BY DEF AgentBusTypeOK, SessionsOK
<1>2. /\ session' = [s \in Sessions |-> IF s \in S THEN SessionOff
                                        ELSE [session[s] EXCEPT !.pid = Buried(@, S), !.older = @ \ S]]
      /\ settled' = settled \cup UNION {session[s].hand : s \in S}
  BY DEF Die
<1>3. SessionOff \in SessionState /\ SessionOff.hand = {} /\ SessionOff.pc = "off"
  BY DEF SessionOff, SessionState, Pids
<1>4. ASSUME NEW s \in Sessions
      PROVE  LET r == [session[s] EXCEPT !.pid = Buried(@, S), !.older = @ \ S]
             IN  /\ r \in SessionState
                 /\ r.hand = session[s].hand /\ r.pc = session[s].pc /\ r.name = session[s].name
  <2>1. session[s] \in SessionState
    BY <1>1 DEF SessionsOK
  <2>2. Buried(session[s].pid, S) \in Pids
    BY <2>1 DEF Buried, SessionState, Pids
  <2> QED  BY <2>1, <2>2 DEF SessionState
<1>5. SessionsOK' /\ Named' /\ HandsHeld'
  BY <1>2, <1>3, <1>4 DEF SessionsOK, Named, HandsHeld
<1>6. HandsKept
  <2>1. \A s \in S : session[s].hand \subseteq settled'
    BY <1>2
  <2>2. \A s \in Sessions \ S : session'[s].hand = session[s].hand
    BY <1>2, <1>4
  <2> QED  BY <1>2, <2>1, <2>2 DEF HandsKept
<1> QED  BY <1>5, <1>6 DEF SessionsStep

LEMMA WhoWritesSessions ==
    ASSUME BusInv, [AgentBusNext]_busVars
    PROVE  SessionsStep
<1>0. AgentBusTypeOK /\ SessionsOK /\ Named /\ HandsHeld
  BY DEF BusInv, AgentBusTypeOK, SessionsOK
<1>1. \A s \in Sessions : session[s] \in SessionState
  BY <1>0 DEF SessionsOK
<1>2. LiveSessions \subseteq Sessions /\ Sessions \subseteq Pids /\ NoPid \in Pids
  BY DEF LiveSessions, Pids
<1>3. ASSUME NEW s \in Sessions, OpenSession(s) \/ SpawnAgent(s) PROVE SessionsStep
  BY <1>0, <1>3, SessionStarts DEF OpenSession, SpawnAgent
<1>4. ASSUME NEW n \in Names, SpawnsTurn(n) PROVE SessionsStep
  BY <1>0, <1>4, SessionStarts DEF SpawnsTurn, AgentBusTypeOK
<1>5. ASSUME NEW s \in Sessions, RegisterSelf(s) PROVE SessionsStep
  <2> DEFINE r == [session[s] EXCEPT !.reg = FALSE]
  <2>1. /\ r \in SessionState
        /\ r.hand = session[s].hand /\ r.pc = session[s].pc /\ r.name = session[s].name
    <3>1. session[s] \in SessionState
      BY <1>1
    <3> QED  BY <3>1 DEF SessionState
  <2>2. session' = [session EXCEPT ![s] = r] /\ UNCHANGED settled
    BY <1>5 DEF RegisterSelf
  <2> QED  BY <1>0, <2>1, <2>2, OneSession DEF HandsHeld, Named
<1>6. ASSUME NEW s \in Sessions, DrainStarts(s) PROVE SessionsStep
  <2> DEFINE n == CallerName(s)
             own == agents[n].status = "absent" \/ agents[n].pid = s
             r == [session[s] EXCEPT !.name = n, !.pc = IF own THEN "own" ELSE "find",
                                     !.pid = IF own THEN NoPid ELSE agents[n].pid]
  <2>1. session[s].pc = "idle"
    BY <1>6 DEF DrainStarts
  <2>2. n \in Names
    BY <1>0, <2>1 DEF CallerName, AgentBusTypeOK, Named
  <2>3. agents[n].pid \in Pids
    BY <1>0, <2>2 DEF AgentBusTypeOK, AgentRow
  <2>4. r \in SessionState /\ r.name = n /\ r.hand = session[s].hand
    <3> HIDE DEF n, own
    <3>1. session[s] \in SessionState
      BY <1>1
    <3> QED  BY <1>2, <2>2, <2>3, <3>1 DEF SessionState
  <2>5. session' = [session EXCEPT ![s] = r] /\ UNCHANGED settled
    BY <1>6 DEF DrainStarts
  <2> HIDE DEF r, n
  <2> QED  BY <1>0, <2>1, <2>2, <2>4, <2>5, EmptyHanded
<1>7. ASSUME NEW s \in Sessions, FindsSession(s) PROVE SessionsStep
  BY <1>0, <1>2, <1>7, HookGoesOn DEF FindsSession, FoundFor
<1>8. ASSUME NEW s \in Sessions, ReclaimsPid(s) PROVE SessionsStep
  BY <1>0, <1>2, <1>8, HookGoesOn DEF ReclaimsPid
<1>9. ASSUME NEW s \in Sessions, ForcesPid(s) \/ ForcesStatus(s) \/ ChecksOwner(s) PROVE SessionsStep
  BY <1>0, <1>2, <1>9, HookGoesOn DEF ForcesPid, ForcesStatus, ChecksOwner, SessionGoes, ToPrompt
<1>10. ASSUME NEW s \in Sessions, CheckMessages(s) PROVE SessionsStep
  BY <1>0, <1>2, <1>10, HookGoesOn DEF CheckMessages, SessionGoes
<1>11. ASSUME NEW s \in Sessions, ClaimsInbox(s) PROVE SessionsStep
  <2> DEFINE claimed == PendingMessages(session[s].name)
             pc == IF claimed = {} THEN "idle"
                   ELSE IF session[s].pc = "claim" THEN "print" ELSE "reply"
             r == [session[s] EXCEPT !.hand = claimed, !.pc = pc]
  <2>1. session[s].pc \in {"claim", "recovered"} /\ session[s].hand = {} /\ session[s].name \in Names
    BY <1>0, <1>11 DEF ClaimsInbox, HandsHeld, Named
  <2>2. claimed \subseteq MessageIds
    BY <1>0, MessageRows DEF AgentBusTypeOK, PendingMessages, InboxOf
  <2>3. r \in SessionState /\ r.hand = claimed /\ r.pc = pc /\ r.name = session[s].name
    <3> HIDE DEF claimed
    <3>1. session[s] \in SessionState
      BY <1>1
    <3> QED  BY <2>2, <3>1 DEF SessionState
  <2>4. session' = [session EXCEPT ![s] = r] /\ UNCHANGED settled
    BY <1>11, <2>1 DEF ClaimsInbox
  <2>5. r.hand # {} => r.pc \in {"print", "reply"}
    BY <2>3
  <2> HIDE DEF r
  <2> QED  BY <1>0, <2>1, <2>3, <2>4, <2>5, OneSession
<1>12. ASSUME NEW s \in Sessions, ShowsMail(s) PROVE SessionsStep
  <2> DEFINE r == [session[s] EXCEPT !.pc = "idle", !.hand = {}]
  <2>1. r \in SessionState /\ r.hand = {} /\ r.name = session[s].name
    <3>1. session[s] \in SessionState
      BY <1>1
    <3> QED  BY <3>1 DEF SessionState
  <2>2. session' = [session EXCEPT ![s] = r] /\ settled' = settled \cup session[s].hand
    BY <1>12 DEF ShowsMail
  <2>3. session[s].name \in Names
    BY <1>0, <1>12 DEF ShowsMail, Named
  <2> HIDE DEF r
  <2> QED  BY <1>0, <2>1, <2>2, <2>3, OneSession
<1>13. ASSUME NEW s \in Sessions, SessionExits(s) \/ SessionCrashes(s) PROVE SessionsStep
  BY <1>0, <1>13, DeathsSession DEF SessionExits, SessionCrashes
<1>14. ASSUME NEW n \in Names, TurnTimesOut(n) PROVE SessionsStep
  <2>1. watch[n].child \in Sessions
    BY <1>0, <1>14 DEF TurnTimesOut, AgentBusTypeOK, WatchState
  <2> QED  BY <1>0, <1>14, <2>1, DeathsSession DEF TurnTimesOut
<1>15. ASSUME ServerRestarts PROVE SessionsStep
  <2> DEFINE r(s) == IF s \in Turns THEN SessionOff
                     ELSE [session[s] EXCEPT !.pid = Buried(@, Turns), !.older = @ \ Turns,
                             !.pc = IF @ \in {"recovered", "reply"} THEN "idle" ELSE @,
                             !.hand = IF s \in Replying THEN {} ELSE @]
  <2>1. /\ session' = [s \in Sessions |-> r(s)]
        /\ settled' = settled \cup UNION {session[s].hand : s \in Turns \cup Replying}
    BY <1>15 DEF ServerRestarts
  <2>2. SessionOff \in SessionState /\ SessionOff.hand = {} /\ SessionOff.pc = "off"
    BY DEF SessionOff, SessionState, Pids
  <2>3. ASSUME NEW s \in Sessions \ Turns
        PROVE  /\ r(s) \in SessionState /\ r(s).name = session[s].name
               /\ r(s).hand = IF s \in Replying THEN {} ELSE session[s].hand
               /\ r(s).pc = IF session[s].pc \in {"recovered", "reply"} THEN "idle" ELSE session[s].pc
    <3>1. session[s] \in SessionState
      BY <1>1
    <3>2. Buried(session[s].pid, Turns) \in Pids
      BY <3>1 DEF Buried, SessionState, Pids
    <3> QED  BY <3>1, <3>2 DEF SessionState
  <2>4. \A s \in Turns : r(s) = SessionOff
    OBVIOUS
  <2>5. SessionsOK' /\ Named'
    <3> HIDE DEF r
    <3> QED  BY <1>0, <2>1, <2>2, <2>3, <2>4 DEF SessionsOK, Named
  <2>6. HandsHeld'
    <3> HIDE DEF r
    <3> QED  BY <1>0, <2>1, <2>2, <2>3, <2>4 DEF HandsHeld, Replying
  <2>7. HandsKept
    <3>1. \A s \in Turns \cup Replying : session[s].hand \subseteq settled'
      BY <2>1
    <3>2. \A s \in Sessions \ (Turns \cup Replying) : session'[s].hand = session[s].hand
      <4> HIDE DEF r
      <4> QED  BY <2>1, <2>3
    <3> QED  BY <2>1, <3>1, <3>2 DEF HandsKept
  <2> QED  BY <2>5, <2>6, <2>7 DEF SessionsStep
<1>16. CASE UNCHANGED <<session, settled>>
  BY <1>0, <1>16 DEF SessionsStep, SessionsOK, Named, HandsHeld, HandsKept
<1> QED
  BY <1>3, <1>4, <1>5, <1>6, <1>7, <1>8, <1>9, <1>10, <1>11, <1>12, <1>13, <1>14, <1>15, <1>16
     DEF AgentBusNext, DrainStep, WatchStep, SpawnStep, Environment, busVars,
         RegisterTool, RejoinAs, DeregisterTool, Reconciles, NextRound, ReadsAgent, ReadsPending, OwnerWins,
         SpawnFails, TurnReturns, Escalates, GivesUp, SendMessage, ReapDeadAgents, Cleanup,
         SpawnRegisters, SpawnSetsPid

-----------------------------------------------------------------------------
(* Mail.                                                                    *)

LEMMA MailStep ==
    ASSUME BusInv, [AgentBusNext]_busVars
    PROVE  MessagesOK' /\ NothingLost'
<1>0. /\ MessagesOK /\ NothingLost /\ SessionsOK
      /\ DOMAIN messages \subseteq MessageIds
  BY MessageRows DEF BusInv, AgentBusTypeOK, SessionsOK
<1>1. SessionsStep
  BY WhoWritesSessions
<1>2. InHand \cup settled \subseteq (InHand \cup settled)'
  BY <1>1 DEF SessionsStep, HandsKept, InHand
<1>3. ASSUME /\ DOMAIN messages \subseteq DOMAIN messages'
             /\ \A m \in DOMAIN messages' :
                   messages'[m].status = "delivered" =>
                      m \in DOMAIN messages /\ messages[m].status = "delivered"
      PROVE  NothingLost'
  BY <1>0, <1>2, <1>3 DEF NothingLost
<1>4. CASE UNCHANGED messages
  BY <1>0, <1>3, <1>4 DEF MessagesOK
<1>5. ASSUME NEW n \in Names, InsertMessage(n) PROVE MessagesOK' /\ NothingLost'
  BY <1>0, <1>3, <1>5, InsertMessageEffect
<1>6. ASSUME NEW M \in SUBSET DOMAIN messages, NEW status \in {"pending", "failed", "pruned"},
             SetMessages(M, status)
      PROVE  MessagesOK' /\ NothingLost'
  <2>1. status \in MessageStatuses
    BY DEF MessageStatuses
  <2> QED  BY <1>0, <1>3, <1>6, <2>1, SetMessagesEffect
<1>7. ASSUME NEW s \in Sessions, ClaimsInbox(s) PROVE MessagesOK' /\ NothingLost'
  <2> DEFINE claimed == PendingMessages(session[s].name)
  <2>1. SetMessages(claimed, "delivered") /\ session'[s].hand = claimed
    BY <1>0, <1>7 DEF ClaimsInbox, ClaimPendingMessages, SessionsOK, SessionState
  <2>2. "delivered" \in MessageStatuses
    BY DEF MessageStatuses
  <2>3. /\ MessagesOK'
        /\ DOMAIN messages' = DOMAIN messages
        /\ \A m \in DOMAIN messages :
              messages'[m].status = "delivered" =>
                 m \in claimed \/ messages[m].status = "delivered"
    <3> HIDE DEF claimed
    <3> QED  BY <1>0, <2>1, <2>2, SetMessagesEffect
  <2>4. claimed \subseteq InHand'
    <3> HIDE DEF claimed
    <3> QED  BY <2>1 DEF InHand
  <2> HIDE DEF claimed
  <2> QED  BY <1>0, <1>2, <2>3, <2>4 DEF NothingLost
<1> QED  BY <1>4, <1>5, <1>6, <1>7, WhoWritesMessages DEF MessagesMove

-----------------------------------------------------------------------------
(* The watcher.                                                             *)

WatchOK == watch \in [Names -> WatchState]

LEMMA RestedTyped ==
    ASSUME NEW r, r.count \in 0 .. MaxFailures
    PROVE  /\ Rested(r) \in WatchState
           /\ Rested(r).pc = "idle" /\ Rested(r).rc = "none" /\ Rested(r).child = Nobody
           /\ Rested(r).count = r.count
  BY DEF Rested, WatchState, Pids

\* A coroutine that awaits no turn moves on.
LEMMA OneWatch ==
    ASSUME WatchOK, TurnsAwaited, OneTurnPerAgent, NEW n \in Names, NEW r \in WatchState,
           watch' = [watch EXCEPT ![n] = r],
           watch[n].child = Nobody,
           r.pc # "await" => r.rc = "none",
           r.child # Nobody => r.pc = "await" /\ r.rc = "none",
           \A s \in Sessions : session'[s].wake =>
              session[s].wake \/ (r.pc = "await" /\ r.child = s)
    PROVE  WatchOK' /\ TurnsAwaited' /\ OneTurnPerAgent'
<1>1. WatchOK' /\ TurnsAwaited'
  BY DEF WatchOK, TurnsAwaited
<1>2. ASSUME NEW s \in Sessions, session'[s].wake
      PROVE  \E k \in Names : watch'[k].pc = "await" /\ watch'[k].child = s
  <2>1. CASE r.pc = "await" /\ r.child = s
    BY <2>1 DEF WatchOK
  <2>2. CASE session[s].wake
    <3>1. PICK k \in Names : watch[k].pc = "await" /\ watch[k].child = s
      BY <2>2 DEF OneTurnPerAgent
    <3>2. k # n
      BY <3>1, SentinelsAssumption
    <3> QED  BY <3>1, <3>2 DEF WatchOK
  <2> QED  BY <1>2, <2>1, <2>2
<1> QED  BY <1>1, <1>2 DEF OneTurnPerAgent

LEMMA DeathsWatch ==
    ASSUME BusInv, NEW S \in SUBSET Sessions, NEW rc \in {"ok", "err"}, Die(S, rc)
    PROVE  WatchOK' /\ TurnsAwaited' /\ OneTurnPerAgent'
<1>1. WatchOK /\ TurnsAwaited /\ OneTurnPerAgent /\ SessionsOK
  BY DEF BusInv, AgentBusTypeOK, WatchOK, SessionsOK
<1> DEFINE r(n) == [watch[n] EXCEPT !.pid = Buried(@, S),
                                    !.child = IF @ \in S THEN Nobody ELSE @,
                                    !.rc = IF watch[n].child \in S THEN rc ELSE @]
<1>2. watch' = [n \in Names |-> r(n)]
  BY DEF Die
<1>3. ASSUME NEW n \in Names
      PROVE  /\ r(n) \in WatchState /\ r(n).pc = watch[n].pc
             /\ r(n).child = IF watch[n].child \in S THEN Nobody ELSE watch[n].child
             /\ r(n).rc = IF watch[n].child \in S THEN rc ELSE watch[n].rc
  <2>1. Buried(watch[n].pid, S) \in Pids
    BY <1>1 DEF Buried, WatchOK, WatchState, Pids
  <2> QED  BY <1>1, <2>1 DEF WatchOK, WatchState
<1> HIDE DEF r
<1>4. WatchOK'
  BY <1>2, <1>3 DEF WatchOK
<1>5. TurnsAwaited'
  BY <1>1, <1>2, <1>3, SentinelsAssumption DEF TurnsAwaited
<1>6. ASSUME NEW s \in Sessions, session'[s].wake PROVE s \notin S /\ session[s].wake
  <2>1. session[s] \in SessionState
    BY <1>1 DEF SessionsOK
  <2> QED  BY <1>6, <2>1 DEF Die, SessionOff, SessionState
<1>7. OneTurnPerAgent'
  BY <1>1, <1>2, <1>3, <1>6 DEF OneTurnPerAgent
<1> QED  BY <1>4, <1>5, <1>7

LEMMA WhoWritesWatch ==
    ASSUME BusInv, [AgentBusNext]_busVars
    PROVE  WatchOK' /\ TurnsAwaited' /\ OneTurnPerAgent'
<1>0. AgentBusTypeOK /\ WatchOK /\ TurnsAwaited /\ OneTurnPerAgent /\ SessionsOK
  BY DEF BusInv, AgentBusTypeOK, WatchOK, SessionsOK
<1>1. \A n \in Names : watch[n] \in WatchState /\ watch[n].count \in 0 .. MaxFailures
  BY <1>0 DEF WatchOK, WatchState
<1>2. \A n \in Names : watch[n].pc # "await" => watch[n].rc = "none" /\ watch[n].child = Nobody
  BY <1>0 DEF TurnsAwaited
<1>3. \A n \in Names : PendingMessages(n) \subseteq MessageIds
  BY <1>0, MessageRows DEF AgentBusTypeOK, PendingMessages, InboxOf
<1>4. ASSUME NEW n \in Names, TurnDone(n), watch[n].child = Nobody, UNCHANGED session
      PROVE  WatchOK' /\ TurnsAwaited' /\ OneTurnPerAgent'
  BY <1>0, <1>1, <1>4, RestedTyped, OneWatch DEF TurnDone
<1>5. ASSUME NEW n \in Names, Failed(n), watch[n].child = Nobody, UNCHANGED session
      PROVE  WatchOK' /\ TurnsAwaited' /\ OneTurnPerAgent'
  <2> DEFINE count == IF watch[n].count < MaxFailures THEN watch[n].count + 1 ELSE MaxFailures
             r == [Rested([count |-> count]) EXCEPT
                     !.pc = IF count = MaxFailures THEN "escalate" ELSE "idle"]
  <2>1. count \in 0 .. MaxFailures
    BY <1>1, MaxFailuresAssumption
  <2>2. r \in WatchState /\ r.pc # "await" /\ r.rc = "none" /\ r.child = Nobody
    <3> HIDE DEF count
    <3> QED  BY <2>1 DEF Rested, WatchState, Pids
  <2>3. watch' = [watch EXCEPT ![n] = r]
    BY <1>5 DEF Failed
  <2> HIDE DEF r
  <2> QED  BY <1>0, <1>5, <2>2, <2>3, OneWatch
<1>6. ASSUME NEW n \in Names, ReadsAgent(n) PROVE WatchOK' /\ TurnsAwaited' /\ OneTurnPerAgent'
  <2>1. CASE UNCHANGED watch
    BY <1>0, <1>6, <2>1 DEF ReadsAgent, WatchOK, TurnsAwaited, OneTurnPerAgent
  <2>2. CASE watch[n].pc = "idle" /\ agents[n].status # "absent"
    <3> DEFINE r == [watch[n] EXCEPT !.pc = "agent", !.pid = agents[n].pid,
                                     !.running = agents[n].status = "running"]
    <3>1. agents[n].pid \in Pids
      BY <1>0 DEF AgentBusTypeOK, AgentRow
    <3>2. r \in WatchState /\ r.pc = "agent" /\ r.rc = "none" /\ r.child = Nobody
      BY <1>1, <1>2, <2>2, <3>1 DEF WatchState
    <3>3. watch' = [watch EXCEPT ![n] = r] /\ UNCHANGED session
      BY <1>6, <2>2 DEF ReadsAgent
    <3> HIDE DEF r
    <3> QED  BY <1>0, <1>2, <2>2, <3>2, <3>3, OneWatch
  <2> QED  BY <1>6, <2>1, <2>2 DEF ReadsAgent
<1>7. ASSUME NEW n \in Names, ReadsPending(n) PROVE WatchOK' /\ TurnsAwaited' /\ OneTurnPerAgent'
  <2> DEFINE r == [watch[n] EXCEPT !.ids = PendingMessages(n),
                                   !.pc = IF watch[n].running THEN "judge" ELSE "fail"]
  <2>1. watch[n].child = Nobody /\ watch[n].rc = "none"
    BY <1>2, <1>7 DEF ReadsPending
  <2>2. r \in WatchState /\ r.pc # "await" /\ r.rc = "none" /\ r.child = Nobody
    BY <1>1, <1>3, <2>1 DEF WatchState
  <2>3. (TurnDone(n) \/ watch' = [watch EXCEPT ![n] = r]) /\ UNCHANGED session
    BY <1>7 DEF ReadsPending
  <2> HIDE DEF r
  <2> QED  BY <1>0, <1>4, <2>1, <2>2, <2>3, OneWatch
<1>8. ASSUME NEW n \in Names, OwnerWins(n) PROVE WatchOK' /\ TurnsAwaited' /\ OneTurnPerAgent'
  BY <1>2, <1>4, <1>8 DEF OwnerWins
<1>9. ASSUME NEW n \in Names, SpawnFails(n) PROVE WatchOK' /\ TurnsAwaited' /\ OneTurnPerAgent'
  BY <1>2, <1>5, <1>9 DEF SpawnFails
<1>10. ASSUME NEW n \in Names, SpawnsTurn(n) PROVE WatchOK' /\ TurnsAwaited' /\ OneTurnPerAgent'
  <2>1. PICK s \in Sessions :
           /\ session' = [session EXCEPT ![s] = Newborn(spawner.file, TRUE, FALSE)]
           /\ watch' = [watch EXCEPT ![n].pc = "await", ![n].child = s, ![n].pid = NoPid]
    BY <1>10 DEF SpawnsTurn
  <2> DEFINE r == [watch[n] EXCEPT !.pc = "await", !.child = s, !.pid = NoPid]
  <2>2. watch[n].child = Nobody /\ watch[n].rc = "none"
    BY <1>2, <1>10 DEF SpawnsTurn
  <2>3. r \in WatchState /\ r.pc = "await" /\ r.rc = "none" /\ r.child = s
    BY <1>1, <2>2 DEF WatchState, Pids
  <2>4. watch' = [watch EXCEPT ![n] = r]
    BY <2>1
  <2>5. \A u \in Sessions : session'[u].wake => session[u].wake \/ u = s
    BY <1>0, <2>1 DEF SessionsOK
  <2> HIDE DEF r
  <2> QED  BY <1>0, <2>2, <2>3, <2>4, <2>5, OneWatch
<1>11. ASSUME NEW n \in Names, TurnTimesOut(n) PROVE WatchOK' /\ TurnsAwaited' /\ OneTurnPerAgent'
  <2>1. watch[n].child \in Sessions
    BY <1>1, <1>11 DEF TurnTimesOut, WatchState
  <2> QED  BY <1>11, <2>1, DeathsWatch DEF TurnTimesOut
<1>12. ASSUME NEW n \in Names, TurnReturns(n) PROVE WatchOK' /\ TurnsAwaited' /\ OneTurnPerAgent'
  <2>1. watch[n].child = Nobody
    BY <1>0, <1>12 DEF TurnReturns, TurnsAwaited
  <2>2. CASE watch' = [watch EXCEPT ![n] = Rested([count |-> 0])]
    <3> DEFINE zero == [count |-> 0]
    <3>1. zero.count \in 0 .. MaxFailures
      BY MaxFailuresAssumption
    <3>2. /\ Rested(zero) \in WatchState /\ Rested(zero).pc # "await"
          /\ Rested(zero).rc = "none" /\ Rested(zero).child = Nobody
      <4> HIDE DEF zero
      <4> QED  BY <3>1, RestedTyped
    <3>3. UNCHANGED session
      BY <1>12 DEF TurnReturns
    <3>4. watch' = [watch EXCEPT ![n] = Rested(zero)]
      BY <2>2
    <3> HIDE DEF zero
    <3> QED  BY <1>0, <2>1, <3>2, <3>3, <3>4, OneWatch
  <2> QED  BY <1>5, <1>12, <2>1, <2>2 DEF TurnReturns
<1>13. ASSUME NEW n \in Names, Escalates(n) PROVE WatchOK' /\ TurnsAwaited' /\ OneTurnPerAgent'
  <2> DEFINE r == [watch[n] EXCEPT !.pc = "fail", !.ids = PendingMessages(n)]
  <2>1. watch[n].child = Nobody /\ watch[n].rc = "none"
    BY <1>2, <1>13 DEF Escalates
  <2>2. r \in WatchState /\ r.pc # "await" /\ r.rc = "none" /\ r.child = Nobody
    BY <1>1, <1>3, <2>1 DEF WatchState
  <2>3. (TurnDone(n) \/ watch' = [watch EXCEPT ![n] = r]) /\ UNCHANGED session
    BY <1>13 DEF Escalates
  <2> HIDE DEF r
  <2> QED  BY <1>0, <1>4, <2>1, <2>2, <2>3, OneWatch
<1>14. ASSUME NEW n \in Names, GivesUp(n) PROVE WatchOK' /\ TurnsAwaited' /\ OneTurnPerAgent'
  <2>1. PICK m : TurnDone(n) \/ watch' = [watch EXCEPT ![n].ids = @ \ {m}]
    BY <1>14 DEF GivesUp
  <2> DEFINE r == [watch[n] EXCEPT !.ids = @ \ {m}]
  <2>2. watch[n].pc = "fail" /\ watch[n].child = Nobody /\ watch[n].rc = "none"
    BY <1>2, <1>14 DEF GivesUp
  <2>3. r \in WatchState /\ r.pc = "fail" /\ r.rc = "none" /\ r.child = Nobody
    BY <1>1, <2>2 DEF WatchState
  <2>4. (TurnDone(n) \/ watch' = [watch EXCEPT ![n] = r]) /\ UNCHANGED session
    BY <1>14, <2>1 DEF GivesUp
  <2> HIDE DEF r
  <2> QED  BY <1>0, <1>4, <2>2, <2>3, <2>4, OneWatch
<1>15. ASSUME NEW s \in Sessions, SessionExits(s) \/ SessionCrashes(s)
       PROVE  WatchOK' /\ TurnsAwaited' /\ OneTurnPerAgent'
  BY <1>15, DeathsWatch DEF SessionExits, SessionCrashes
<1>16. ASSUME ServerRestarts PROVE WatchOK' /\ TurnsAwaited' /\ OneTurnPerAgent'
  <2>1. watch' = [n \in Names |-> Rested([count |-> 0])]
    BY <1>16 DEF ServerRestarts
  <2>2. 0 \in 0 .. MaxFailures
    BY MaxFailuresAssumption
  <2>3. WatchOK' /\ TurnsAwaited'
    BY <2>1, <2>2, RestedTyped DEF WatchOK, TurnsAwaited
  <2>4. \A s \in Sessions : ~session'[s].wake
    BY <1>0, <1>16 DEF ServerRestarts, Turns, SessionOff, SessionsOK, SessionState
  <2> QED  BY <2>3, <2>4 DEF OneTurnPerAgent
<1>17. ASSUME UNCHANGED watch, \A s \in Sessions : session'[s].wake => session[s].wake
       PROVE  WatchOK' /\ TurnsAwaited' /\ OneTurnPerAgent'
  BY <1>0, <1>17 DEF WatchOK, TurnsAwaited, OneTurnPerAgent
<1>18. ASSUME NEW s \in Sessions, OpenSession(s) \/ SpawnAgent(s)
       PROVE  WatchOK' /\ TurnsAwaited' /\ OneTurnPerAgent'
  <2>1. \A u \in Sessions : session'[u].wake => session[u].wake
    BY ZenonT(30), <1>0, <1>18 DEF OpenSession, SpawnAgent, Newborn, SessionOff, SessionsOK
  <2> QED  BY <1>17, <1>18, <2>1 DEF OpenSession, SpawnAgent
<1>19. ASSUME NEW s \in Sessions,
              RegisterSelf(s) \/ DrainStarts(s) \/ DrainStep(s) \/ CheckMessages(s)
       PROVE  WatchOK' /\ TurnsAwaited' /\ OneTurnPerAgent'
  <2>1. \A u \in Sessions : session'[u].wake => session[u].wake
    BY <1>0, <1>19 DEF RegisterSelf, DrainStarts, DrainStep, FindsSession, ReclaimsPid, ForcesPid,
       ForcesStatus, ChecksOwner, ClaimsInbox, ShowsMail, CheckMessages, SessionGoes, ToPrompt,
       SessionsOK, SessionState
  <2> QED  BY <1>17, <1>19, <2>1 DEF RegisterSelf, DrainStarts, DrainStep, FindsSession,
       ReclaimsPid, ForcesPid, ForcesStatus, ChecksOwner, ClaimsInbox, ShowsMail, CheckMessages
<1>20. CASE UNCHANGED <<session, watch>>
  BY <1>17, <1>20
<1> QED
  BY <1>6, <1>7, <1>8, <1>9, <1>10, <1>11, <1>12, <1>13, <1>14, <1>15, <1>16, <1>18, <1>19, <1>20
     DEF AgentBusNext, WatchStep, SpawnStep, Environment, busVars, RegisterTool, RejoinAs, DeregisterTool,
         Reconciles, NextRound, SendMessage, ReapDeadAgents, Cleanup, SpawnRegisters, SpawnSetsPid

-----------------------------------------------------------------------------
(* The other variables.                                                     *)

AgentsOK == agents \in [Names -> AgentRow]
ServicesOK ==
    /\ server \in [round : SUBSET Names, boot : SUBSET Sessions]
    /\ spawner \in [pc : {"idle", "register", "setpid"}, name : Names \cup {Nobody},
                    pid : Pids, file : Names]
    /\ opened \in 0 .. MaxOpened
    /\ faults \in 0 .. MaxFaults

LEMMA RegisterTyped ==
    ASSUME AgentsOK, NEW n, NEW pid \in Pids, RegisterAgent(n, pid)
    PROVE  AgentsOK'
<1> DEFINE row == [status |-> "running", pid |-> IF pid = NoPid THEN agents[n].pid ELSE pid]
<1>1. CASE n \in Names
  <2>1. row \in AgentRow
    BY <1>1 DEF AgentsOK, AgentRow
  <2>2. agents' = [agents EXCEPT ![n] = row]
    BY DEF RegisterAgent
  <2> HIDE DEF row
  <2> QED  BY <2>1, <2>2 DEF AgentsOK
<1>2. CASE n \notin Names
  BY <1>2 DEF RegisterAgent, AgentsOK
<1> QED  BY <1>1, <1>2

LEMMA UpdatesTyped ==
    ASSUME AgentsOK, NEW n,
           \/ \E status \in {"running", "disconnected", "deregistered"} : UpdateStatus(n, status)
           \/ \E pid \in Pids : UpdatePid(n, pid)
    PROVE  AgentsOK'
<1>1. CASE n \in Names
  BY <1>1 DEF UpdateStatus, UpdatePid, AgentsOK, AgentRow
<1>2. CASE n \notin Names
  BY <1>2 DEF UpdateStatus, UpdatePid, AgentsOK
<1> QED  BY <1>1, <1>2

LEMMA BuriedTyped ==
    ASSUME NEW pid \in Pids, NEW S PROVE Buried(pid, S) \in Pids
  BY DEF Buried, Pids

LEMMA WhoWritesAgents ==
    ASSUME BusInv, [AgentBusNext]_busVars
    PROVE  AgentsOK'
<1>0. AgentsOK /\ ServicesOK /\ SessionsOK
  BY DEF BusInv, AgentBusTypeOK, AgentsOK, ServicesOK, SessionsOK
<1>1. /\ Sessions \subseteq Pids /\ NoPid \in Pids /\ spawner.pid \in Pids
      /\ \A s \in Sessions : session[s].pid \in Pids
      /\ server.boot \subseteq Sessions
  BY <1>0 DEF ServicesOK, SessionsOK, SessionState, Pids
<1>2. ASSUME NEW S, agents' = [n \in Names |-> [agents[n] EXCEPT !.pid = Buried(@, S)]]
      PROVE  AgentsOK'
  BY <1>0, <1>2, BuriedTyped DEF AgentsOK, AgentRow
<1>3. ASSUME NEW s \in Sessions,
             RegisterSelf(s) \/ ReclaimsPid(s) \/ RegisterTool(s) \/ RejoinAs(s) \/ Reconciles(s)
      PROVE  AgentsOK'
  <2>1. CASE UNCHANGED agents
    BY <1>0, <2>1 DEF AgentsOK
  <2>2. ASSUME NEW n, NEW pid \in Pids, RegisterAgent(n, pid) PROVE AgentsOK'
    BY <1>0, <2>2, RegisterTyped
  <2> QED
    BY <1>1, <1>3, <2>1, <2>2 DEF RegisterSelf, ReclaimsPid, RegisterTool, RejoinAs, Reconciles
<1>4. ASSUME NEW s \in Sessions, ForcesPid(s) \/ ForcesStatus(s) \/ DeregisterTool(s)
      PROVE  AgentsOK'
  BY <1>0, <1>1, <1>4, UpdatesTyped DEF ForcesPid, ForcesStatus, DeregisterTool
<1>5. ASSUME SpawnRegisters PROVE AgentsOK'
  BY <1>0, <1>1, <1>5, RegisterTyped DEF SpawnRegisters
<1>6. ASSUME SpawnSetsPid PROVE AgentsOK'
  BY <1>0, <1>1, <1>6, UpdatesTyped DEF SpawnSetsPid
<1>7. ASSUME ReapDeadAgents PROVE AgentsOK'
  BY <1>0, <1>7 DEF ReapDeadAgents, AgentsOK, AgentRow
<1>8. ASSUME NEW s \in Sessions, SessionExits(s) \/ SessionCrashes(s) PROVE AgentsOK'
  BY <1>2, <1>8 DEF SessionExits, SessionCrashes, Die
<1>9. ASSUME NEW n \in Names, TurnTimesOut(n) PROVE AgentsOK'
  BY <1>2, <1>9 DEF TurnTimesOut, Die
<1>10. ASSUME ServerRestarts PROVE AgentsOK'
  BY <1>2, <1>10 DEF ServerRestarts
<1>11. CASE UNCHANGED agents
  BY <1>0, <1>11 DEF AgentsOK
<1> QED
  BY <1>3, <1>4, <1>5, <1>6, <1>7, <1>8, <1>9, <1>10, <1>11
     DEF AgentBusNext, DrainStep, WatchStep, SpawnStep, Environment, busVars, DrainStarts,
         FindsSession, ChecksOwner, ClaimsInbox, ShowsMail, CheckMessages, OpenSession, SpawnAgent,
         NextRound, ReadsAgent, ReadsPending, OwnerWins, SpawnsTurn, SpawnFails, TurnReturns,
         Escalates, GivesUp, SendMessage, Cleanup

LEMMA WhoWritesServices ==
    ASSUME BusInv, [AgentBusNext]_busVars
    PROVE  ServicesOK' /\ settled' \subseteq MessageIds
<1>0. ServicesOK /\ SessionsOK /\ settled \subseteq MessageIds
  BY DEF BusInv, AgentBusTypeOK, ServicesOK, SessionsOK
<1>1. \A s \in Sessions : session[s].hand \subseteq MessageIds
  BY <1>0 DEF SessionsOK, SessionState
<1>2. BusFault => faults' \in 0 .. MaxFaults
  BY <1>0, BusBoundsAssumption DEF BusFault, ServicesOK
<1>3. Opens => opened' \in 0 .. MaxOpened
  BY <1>0, BusBoundsAssumption DEF Opens, ServicesOK
<1>4. ASSUME NEW S \in SUBSET Sessions, NEW rc, Die(S, rc), UNCHANGED opened,
             faults' \in 0 .. MaxFaults
      PROVE  ServicesOK' /\ settled' \subseteq MessageIds
  BY <1>0, <1>1, <1>4, BuriedTyped DEF Die, ServicesOK
<1>5. ASSUME NEW s \in Sessions, SessionExits(s) \/ SessionCrashes(s)
      PROVE  ServicesOK' /\ settled' \subseteq MessageIds
  BY <1>0, <1>2, <1>4, <1>5 DEF SessionExits, SessionCrashes, ServicesOK
<1>6. ASSUME NEW n \in Names, TurnTimesOut(n)
      PROVE  ServicesOK' /\ settled' \subseteq MessageIds
  <2>1. watch[n].child \in Sessions
    BY <1>6 DEF TurnTimesOut, BusInv, AgentBusTypeOK, WatchState
  <2> QED  BY <1>0, <1>4, <1>6, <2>1 DEF TurnTimesOut, ServicesOK
<1>7. ASSUME ServerRestarts PROVE ServicesOK' /\ settled' \subseteq MessageIds
  BY ZenonT(30), <1>0, <1>1, <1>2, <1>7, BuriedTyped
     DEF ServerRestarts, ServicesOK, LiveSessions, Turns, Replying
<1>8. ASSUME NEW s \in Sessions, OpenSession(s) PROVE ServicesOK' /\ settled' \subseteq MessageIds
  BY <1>0, <1>3, <1>8 DEF OpenSession, ServicesOK
<1>9. ASSUME NEW s \in Sessions, SpawnAgent(s) PROVE ServicesOK' /\ settled' \subseteq MessageIds
  BY <1>0, <1>3, <1>9 DEF SpawnAgent, ServicesOK, Pids
<1>10. ASSUME SpawnStep PROVE ServicesOK' /\ settled' \subseteq MessageIds
  BY <1>0, <1>10 DEF SpawnStep, SpawnRegisters, SpawnSetsPid, ServicesOK, Pids
<1>11. ASSUME NEW s \in Sessions, ShowsMail(s) PROVE ServicesOK' /\ settled' \subseteq MessageIds
  BY <1>0, <1>1, <1>11 DEF ShowsMail, ServicesOK
<1>12. ASSUME NEW s \in Sessions, Reconciles(s) PROVE ServicesOK' /\ settled' \subseteq MessageIds
  BY <1>0, <1>12 DEF Reconciles, ServicesOK
<1>13. ASSUME NextRound \/ \E n \in Names : ReadsAgent(n)
       PROVE  ServicesOK' /\ settled' \subseteq MessageIds
  BY ZenonT(30), <1>0, <1>13 DEF NextRound, ReadsAgent, ServicesOK
<1>14. CASE UNCHANGED <<server, spawner, settled, opened, faults>>
  BY <1>0, <1>14 DEF ServicesOK
<1> QED
  BY <1>5, <1>6, <1>7, <1>8, <1>9, <1>10, <1>11, <1>12, <1>13, <1>14
     DEF AgentBusNext, DrainStep, WatchStep, Environment, busVars, DrainStarts, RegisterSelf,
         FindsSession, ReclaimsPid, ForcesPid, ForcesStatus, ChecksOwner, ClaimsInbox,
         CheckMessages, RegisterTool, RejoinAs, DeregisterTool, ReadsPending, OwnerWins, SpawnsTurn,
         SpawnFails, TurnReturns, Escalates, GivesUp, SendMessage, ReapDeadAgents, Cleanup

-----------------------------------------------------------------------------
(* The theorems.                                                            *)

LEMMA BusInvInit == AgentBusInit => BusInv
<1> SUFFICES ASSUME AgentBusInit PROVE BusInv
  OBVIOUS
<1>1. SessionOff \in SessionState /\ SessionOff.hand = {} /\ SessionOff.pc = "off"
      /\ SessionOff.wake = FALSE
  BY DEF SessionOff, SessionState, Pids
<1>2. SessionsOK /\ Named /\ HandsHeld /\ OneTurnPerAgent
  BY <1>1 DEF AgentBusInit, SessionsOK, Named, HandsHeld, OneTurnPerAgent
<1>3. WatchOK /\ TurnsAwaited
  <2> DEFINE zero == [count |-> 0]
  <2>1. zero.count \in 0 .. MaxFailures
    BY MaxFailuresAssumption
  <2>2. watch = [n \in Names |-> Rested(zero)]
    BY DEF AgentBusInit
  <2> HIDE DEF zero
  <2> QED  BY <2>1, <2>2, RestedTyped DEF WatchOK, TurnsAwaited
<1>4. MessagesOK /\ NothingLost
  BY MaxMessagesAssumption DEF AgentBusInit, MessagesOK, NothingLost
<1>5. AgentsOK /\ ServicesOK /\ settled \subseteq MessageIds
  BY BaseNameAssumption, BusBoundsAssumption DEF AgentBusInit, AgentsOK, AgentRow, ServicesOK, Pids
<1> QED
  BY <1>2, <1>3, <1>4, <1>5 DEF BusInv, AgentBusTypeOK, SessionsOK, WatchOK, AgentsOK, ServicesOK

LEMMA BusInvStep == BusInv /\ [AgentBusNext]_busVars => BusInv'
<1> SUFFICES ASSUME BusInv, [AgentBusNext]_busVars PROVE BusInv'
  OBVIOUS
<1>1. SessionsStep
  BY WhoWritesSessions
<1>2. MessagesOK' /\ NothingLost'
  BY MailStep
<1>3. WatchOK' /\ TurnsAwaited' /\ OneTurnPerAgent'
  BY WhoWritesWatch
<1>4. AgentsOK'
  BY WhoWritesAgents
<1>5. ServicesOK' /\ settled' \subseteq MessageIds
  BY WhoWritesServices
<1> QED
  BY <1>1, <1>2, <1>3, <1>4, <1>5
     DEF BusInv, AgentBusTypeOK, SessionsStep, SessionsOK, WatchOK, AgentsOK, ServicesOK

LEMMA BusInvariant == AgentBusSpec => []BusInv
  BY BusInvInit, BusInvStep, PTL DEF AgentBusSpec

(* Every process and row stays well formed (chat_schema.py:8-29).           *)
THEOREM BusTyped == AgentBusSpec => []AgentBusTypeOK
<1>1. BusInv => AgentBusTypeOK
  BY DEF BusInv
<1> QED  BY <1>1, BusInvariant, PTL

(* However many sessions, turns, tools and restarts interleave, what the    *)
(* bus calls delivered has been in the hands of a claude                    *)
(* (chat-drain-inbox.py:108-137, chat/tools.py:100-116).                    *)
THEOREM MailIsNotLost == AgentBusSpec => []NothingLost
<1>1. BusInv => NothingLost
  BY DEF BusInv
<1> QED  BY <1>1, BusInvariant, PTL

(* Timeouts, crashes and restarts leave no wake turn behind, so that an     *)
(* agent never has two (wake_watcher.py:50, wake_spawn.py:42-51).           *)
THEOREM TurnsAreAwaited == AgentBusSpec => []OneTurnPerAgent
<1>1. BusInv => OneTurnPerAgent
  BY DEF BusInv
<1> QED  BY <1>1, BusInvariant, PTL
=============================================================================
