-------------------------- MODULE ProjectTreeProofs --------------------------
(* The working tree adds nothing to the rows and processes that the         *)
(* contract of TaskLifecycle does not allow, a token opens one reset, and a *)
(* claude that may change the tree works on its row's branch as long as one *)
(* worker at a time is in it and none is lost.                              *)
EXTENDS ProjectTree, TaskLifecycleProofs

-----------------------------------------------------------------------------
(* The refinement.                                                          *)

LEMMA TreeStepsAreLifecycleSteps ==
    ASSUME [TreeNext]_allVars
    PROVE  [LifecycleNext]_vars
<1>1. ASSUME NEW w \in Workers, Claims(w) \/ Prepared(w) \/ AfterLaunch(w)
      PROVE  LifecycleNext
  <2>1. WorkerStep(w)
    BY <1>1 DEF Claims, Prepared, AfterLaunch, WorkerStep
  <2> QED  BY <2>1 DEF LifecycleNext
<1>2. ASSUME NEW w \in Workers, PrepStep(w)
      PROVE  UNCHANGED vars
  BY <1>2 DEF PrepStep, PrepGoes, LooksAtRepo, LooksAtHead, LooksAtStatus, LooksForBranch,
     SwitchesToPrior, CreatesBranch, RecordsBranch
<1>3. ASSUME NEW s \in Services, Asks(s) \/ ConsumesToken(s)
      PROVE  LifecycleNext
  <2>1. SvcStart(s)
    BY <1>3, RequestsAssumption DEF Asks, Replies, ConsumesToken, SvcStart
  <2> QED  BY <2>1 DEF LifecycleNext
<1>4. ASSUME NEW s \in Services, Inserts(s) \/ GoesOn(s) \/ Drains(s)
      PROVE  LifecycleNext
  <2>1. SvcStep(s)
    BY <1>4 DEF Inserts, GoesOn, Drains, SvcStep
  <2> QED  BY <2>1 DEF LifecycleNext
<1>5. ASSUME NEW s \in Services, IssuesToken(s) \/ RefusesToken(s) \/ ResetsTree(s)
      PROVE  UNCHANGED vars
  BY <1>5 DEF IssuesToken, RefusesToken, ResetsTree
<1>6. CASE CommitProject \/ ClaudeWrites \/ UserEdits \/ UserSwitches \/ UserDeletesBranch
  BY <1>6 DEF CommitProject, ClaudeWrites, UserEdits, UserSwitches, UserDeletesBranch
<1>7. CASE TokenExpires \/ TokensLost
  BY <1>7 DEF TokenExpires, TokensLost
<1>8. CASE Dies
  <2>1. Environment
    BY <1>8 DEF Dies, Environment
  <2> QED  BY <2>1 DEF LifecycleNext
<1>9. CASE UNCHANGED allVars
  BY <1>9 DEF allVars
<1> QED
  BY <1>1, <1>2, <1>3, <1>4, <1>5, <1>6, <1>7, <1>8, <1>9 DEF TreeNext

(* Preparation, reset and the hands of others do nothing to the rows and    *)
(* processes that TaskLifecycle does not allow.                             *)
THEOREM TreeImplementsLifecycle == TreeSpec => ImplementsLifecycle
<1>1. TreeInit => LifecycleInit
  BY DEF TreeInit
<1>2. [TreeNext]_allVars => [LifecycleNext]_vars
  BY TreeStepsAreLifecycleSteps
<1> QED  BY <1>1, <1>2, PTL DEF TreeSpec, ImplementsLifecycle, LifecycleSpec

(* Hence what is proved of TaskLifecycle holds in the tree: the order of    *)
(* the queue, one running row, no task run twice, no knowledge gone stale.  *)
THEOREM TreeKeepsTheContract ==
    TreeSpec => /\ [](NothingGoesStale /\ RunsAtMostOnce /\ OnlyEndsAnnounced)
                /\ [](OneRunningPerProject /\ NoOvertaking /\ RetryLineage)
  BY TreeImplementsLifecycle, KnowledgeSound, ClaimedOnce, EndsAnnounced, SystemKeepsTheQueue, PTL
     DEF ImplementsLifecycle

-----------------------------------------------------------------------------
(* Types, and where a worker is.                                            *)

PrepIsUnderWay == \A w \in Workers : prep[w] # "no" <=> worker[w].pc = "prep"

TreeInv == LifecycleInv /\ TreeTypeOK /\ PrepIsUnderWay

LEMMA PrepStepTypes ==
    ASSUME TreeInv, NEW w \in Workers, PrepStep(w)
    PROVE  /\ tree' \in Tree /\ info' \in [TaskIds -> Info]
           /\ prep[w] # "no"
           /\ prep' \in [Workers -> {"no", "repo", "current", "clean", "exists", "checkout",
                                     "newclean", "create", "record", "ready", "fail"}]
           /\ prep'[w] # "no" /\ \A v \in Workers \ {w} : prep'[v] = prep[v]
           /\ UNCHANGED <<vars, held, tokens, reset, confirmed, landed>>
<1>1. /\ tree \in Tree /\ info \in [TaskIds -> Info]
      /\ prep \in [Workers -> {"no", "repo", "current", "clean", "exists", "checkout",
                               "newclean", "create", "record", "ready", "fail"}]
      /\ worker \in [Workers -> WorkerState] /\ WorkerSound(worker[w])
  BY DEF TreeInv, TreeTypeOK, LifecycleInv, LifecycleTypeOK, ProcessTypeOK, NothingGoesStale
<1>2. PICK step \in {"current", "clean", "exists", "checkout", "newclean", "create", "record",
                     "ready", "fail"} : PrepGoes(w, step)
  BY DEF PrepStep, LooksAtRepo, LooksAtHead, LooksAtStatus, LooksForBranch, SwitchesToPrior,
     CreatesBranch, RecordsBranch
<1>3. worker[w].pc = "prep" /\ prep[w] # "no" /\ worker[w].task \in TaskIds
  BY <1>1, <1>2 DEF PrepGoes, TreeInv, PrepIsUnderWay, WorkerSound, WorkerState
<1>4. tree' \in Tree
  <2>1. CASE UNCHANGED tree
    BY <1>1, <2>1
  <2>2. ASSUME NEW b \in TaskIds, CheckOut(b) \/ CheckOutNew(b)
        PROVE  tree' \in Tree
    <3>1. CASE CheckOut(b)
      BY <1>1, <3>1 DEF CheckOut, Tree, Branch
    <3>2. CASE CheckOutNew(b)
      <4>1. b \in Branch /\ tree.branches \cup {b} \in SUBSET TaskIds
        BY <1>1 DEF Tree, Branch
      <4>2. tree' = [tree EXCEPT !.head = b, !.branches = tree.branches \cup {b}]
        BY <3>2 DEF CheckOutNew
      <4> QED  BY <1>1, <4>1, <4>2 DEF Tree
    <3> QED  BY <2>2, <3>1, <3>2
  <2>3. ASSUME CheckOut(Prior(worker[w].task)) PROVE Prior(worker[w].task) \in TaskIds
    BY <1>1, <2>3 DEF CheckOut, BranchExists, Tree
  <2> QED
    BY <1>3, <2>1, <2>2, <2>3 DEF PrepStep, LooksAtRepo, LooksAtHead, LooksAtStatus,
       LooksForBranch, SwitchesToPrior, CreatesBranch, RecordsBranch
<1>5. info' \in [TaskIds -> Info]
  <2>1. CASE UNCHANGED info
    BY <1>1, <2>1
  <2>2. CASE RecordsBranch(w)
    BY <1>1, <1>3, <2>2 DEF RecordsBranch, Info, Branch
  <2> QED
    BY <2>1, <2>2 DEF PrepStep, LooksAtRepo, LooksAtHead, LooksAtStatus,
       LooksForBranch, SwitchesToPrior, CreatesBranch, RecordsBranch
<1> QED  BY <1>1, <1>2, <1>3, <1>4, <1>5 DEF PrepGoes

\* What the actions of the workers and services do to the point of a worker.
LEMMA PointsOfWorkers ==
    ASSUME LifecycleInv, NEW w \in Workers
    PROVE  /\ Claims(w) => worker[w].pc = "poll" /\ worker'[w].pc = "prep"
           /\ Prepared(w) => worker[w].pc = "prep" /\ worker'[w].pc \in {"setpid", "finish"}
                             /\ worker'[w].task = worker[w].task
           /\ AfterLaunch(w) => worker[w].pc # "prep" /\ worker'[w].pc # "prep"
                                /\ (worker'[w].pc \in {"setpid", "wait"} =>
                                       /\ worker[w].pc = "setpid"
                                       /\ worker'[w].task = worker[w].task)
<1>1. worker \in [Workers -> WorkerState] /\ worker[w] \in WorkerState
  BY DEF LifecycleInv, LifecycleTypeOK, ProcessTypeOK
<1>2. Claims(w) => worker[w].pc = "poll" /\ worker'[w].pc = "prep"
  BY <1>1 DEF Claims, WorkerClaim, WorkerState
<1>3. Prepared(w) => worker[w].pc = "prep" /\ worker'[w].pc \in {"setpid", "finish"}
                     /\ worker'[w].task = worker[w].task
  BY <1>1 DEF Prepared, WorkerLaunch, WorkerPrepFails, WorkerGoes, WorkerState
<1>4. CASE WorkerIdles(w) \/ WorkerExits(w) \/ WorkerSetPid(w)
  BY <1>1, <1>2, <1>3, <1>4 DEF WorkerIdles, WorkerExits, WorkerSetPid, WorkerGoes, WorkerOff,
     WorkerState
<1>5. CASE WorkerReaps(w) \/ WorkerTimesOut(w) \/ WorkerChecks(w)
  BY <1>1, <1>2, <1>3, <1>5 DEF WorkerReaps, WorkerTimesOut, WorkerChecks, WorkerGoes,
     GoesToFinish, BackToPoll, WorkerState
<1>6. CASE WorkerMarks(w) \/ WorkerFinishes(w) \/ WorkerNotifies(w)
  BY <1>1, <1>2, <1>3, <1>6 DEF WorkerMarks, WorkerFinishes, WorkerNotifies, GoesToFinish,
     BackToPoll, WorkerState
<1> QED  BY <1>2, <1>3, <1>4, <1>5, <1>6 DEF AfterLaunch

\* Every other action leaves the preparation alone.
LEMMA ServicesLeavePrep ==
    ASSUME LifecycleInv, NEW s \in Services, Asks(s) \/ Inserts(s) \/ GoesOn(s) \/ Drains(s)
                                             \/ ConsumesToken(s)
    PROVE  /\ UNCHANGED <<tree, prep, landed>>
           /\ \A w \in Workers :
                worker'[w] = worker[w] \/ (worker[w].pc = "off" /\ worker'[w].pc = "poll")
           /\ \A t \in TaskIds : claude[t] # "none" => claude'[t] # "none"
           /\ \A t \in Started : info'[t] = info[t]
<1>1. SvcStep(s) \/ SvcStart(s)
  BY RequestsAssumption DEF Asks, Replies, Inserts, GoesOn, Drains, ConsumesToken, SvcStep, SvcStart
<1>2. UNCHANGED <<tree, prep, landed>>
  BY DEF Asks, Inserts, GoesOn, Drains, ConsumesToken, treeVars
<1>3. \A w \in Workers :
         worker'[w] = worker[w] \/ (worker[w].pc = "off" /\ worker'[w].pc = "poll")
  <2>1. worker \in [Workers -> WorkerState]
    BY DEF LifecycleInv, LifecycleTypeOK, ProcessTypeOK
  <2>2. CASE SpawnWorker(s)
    BY <2>1, <2>2 DEF SpawnWorker, WorkerState
  <2> QED  BY <1>1, <2>2, ServiceFrame
<1>4. \A t \in TaskIds : claude[t] # "none" => claude'[t] # "none"
  <2>1. claude \in [TaskIds -> ClaudeStates]
    BY DEF LifecycleInv, LifecycleTypeOK, ProcessTypeOK
  <2>2. CASE CancelKills(s)
    BY <2>1, <2>2 DEF CancelKills, Exits
  <2>3. UNCHANGED claude \/ CancelKills(s)
    BY <1>1 DEF SvcStep, SvcStart, EnsureWorker, SpawnWorker, InsertTask, CancelMarks, SvcReads,
       SvcNotifies, DrainQueue, SweepNext, ReapGhost, StartEnqueue, StartRetry, RouteToAgent,
       StartCancel, StartSweep
  <2> QED  BY <2>2, <2>3
<1>5. \A t \in Started : info'[t] = info[t]
  <2>1. CASE Inserts(s)
    <3>1. TypeOK /\ \A t \in Started : t # Len(tasks) + 1
      BY RowColumns DEF LifecycleInv, LifecycleTypeOK, Started
    <3>2. info' = [info EXCEPT ![Len(tasks) + 1] = held[s]]
      BY <2>1 DEF Inserts
    <3> QED  BY <3>1, <3>2
  <2> QED  BY <2>1 DEF Asks, GoesOn, Drains, ConsumesToken, treeVars
<1> QED  BY <1>2, <1>3, <1>4, <1>5

LEMMA TypesAndPointsKept ==
    ASSUME TreeInv, [TreeNext]_allVars
    PROVE  TreeInv'
<1>1. LifecycleInv'
  BY TreeStepsAreLifecycleSteps, StepsWell DEF TreeInv
<1>2. /\ tree \in Tree /\ info \in [TaskIds -> Info] /\ held \in [Services -> Info]
      /\ tokens \in [Tokens -> Token] /\ confirmed \in [Tokens -> Nat]
      /\ reset \in [Services -> {"no", "cancel", "git"}]
      /\ prep \in [Workers -> {"no", "repo", "current", "clean", "exists", "checkout",
                               "newclean", "create", "record", "ready", "fail"}]
      /\ landed \subseteq TaskIds \X Branch
      /\ DOMAIN tasks \subseteq TaskIds
  BY RowColumns, MaxTasksAssumption DEF TreeInv, TreeTypeOK, LifecycleInv, LifecycleTypeOK, TaskIds
\* A point that changes in step with the preparation.
<1>3. ASSUME \A w \in Workers : (worker'[w].pc = "prep" <=> worker[w].pc = "prep"), UNCHANGED prep
      PROVE  PrepIsUnderWay'
  BY <1>3 DEF TreeInv, PrepIsUnderWay
<1>4. ASSUME UNCHANGED <<worker, prep>> PROVE PrepIsUnderWay'
  BY <1>3, <1>4
<1>5. ASSUME NEW w \in Workers, Claims(w) \/ Prepared(w) \/ AfterLaunch(w)
      PROVE  TreeTypeOK' /\ PrepIsUnderWay'
  <2>1. \A v \in Workers \ {w} : worker'[v] = worker[v]
    <3>1. WorkerStep(w)
      BY <1>5 DEF Claims, Prepared, AfterLaunch, WorkerStep
    <3> QED  BY <3>1, WorkerFrame DEF TreeInv
  <2>2. CASE Claims(w)
    <3>1. prep' = [prep EXCEPT ![w] = "repo"] /\ UNCHANGED <<tree, info, held, tokens, reset, confirmed, landed>>
      BY <2>2 DEF Claims
    <3>2. TreeTypeOK'
      BY <1>2, <3>1 DEF TreeTypeOK
    <3> QED  BY <1>2, <2>1, <2>2, <3>1, <3>2, PointsOfWorkers DEF TreeInv, PrepIsUnderWay
  <2>3. CASE Prepared(w)
    <3>1. prep' = [prep EXCEPT ![w] = "no"] /\ UNCHANGED <<tree, info, held, tokens, reset, confirmed, landed>>
      BY <2>3 DEF Prepared
    <3>2. TreeTypeOK'
      BY <1>2, <3>1 DEF TreeTypeOK
    <3> QED  BY <1>2, <2>1, <2>3, <3>1, <3>2, PointsOfWorkers DEF TreeInv, PrepIsUnderWay
  <2>4. CASE AfterLaunch(w)
    <3>1. UNCHANGED treeVars
      BY <2>4 DEF AfterLaunch
    <3>2. TreeTypeOK'
      BY <1>2, <3>1 DEF TreeTypeOK, treeVars
    <3>3. worker'[w].pc # "prep" /\ worker[w].pc # "prep"
      BY <2>4, PointsOfWorkers DEF TreeInv
    <3> QED  BY <1>3, <2>1, <3>1, <3>2, <3>3 DEF treeVars
  <2> QED  BY <1>5, <2>2, <2>3, <2>4
<1>6. ASSUME NEW w \in Workers, PrepStep(w)
      PROVE  TreeTypeOK' /\ PrepIsUnderWay'
  <2>1. TreeTypeOK'
    BY <1>2, <1>6, PrepStepTypes DEF TreeTypeOK
  <2>2. PrepIsUnderWay'
    BY <1>6, PrepStepTypes DEF TreeInv, PrepIsUnderWay, vars
  <2> QED  BY <2>1, <2>2
<1>7. ASSUME NEW s \in Services, Asks(s) \/ Inserts(s) \/ GoesOn(s) \/ Drains(s) \/ ConsumesToken(s)
      PROVE  TreeTypeOK' /\ PrepIsUnderWay'
  <2>1. /\ UNCHANGED <<tree, prep, landed>>
        /\ \A w \in Workers : (worker'[w].pc = "prep" <=> worker[w].pc = "prep")
    BY <1>7, ServicesLeavePrep DEF TreeInv
  <2>2. PrepIsUnderWay'
    BY <1>3, <2>1
  <2>3. CASE Asks(s)
    <3>1. UNCHANGED <<info, tokens, reset, confirmed>>
      BY <2>3 DEF Asks
    <3>2. \A b \in Branch : Classified(b) \subseteq Info
      BY VerdictsAssumption DEF Classified, Info
    <3>3. PriorBranches \subseteq Branch /\ 0 \in Branch
      BY <1>2 DEF PriorBranches, Prior, Info, Tree, Branch
    <3>4. CASE \E b \in Branch : \E i \in Classified(b) : held' = [held EXCEPT ![s] = i]
      <4>1. held' \in [Services -> Info]
        BY <1>2, <3>2, <3>4
      <4> QED  BY <1>2, <2>1, <2>2, <3>1, <4>1 DEF TreeTypeOK
    <3>5. CASE UNCHANGED held
      BY <1>2, <2>1, <2>2, <3>1, <3>5 DEF TreeTypeOK
    <3>6. CASE StartRetry(s) /\ held' = [held EXCEPT ![s] = info[svc'[s].retry]]
      <4>1. svc \in [Services -> ServiceState]
        BY DEF TreeInv, LifecycleInv, LifecycleTypeOK, ProcessTypeOK
      <4>2. svc'[s].retry \in TaskIds
        BY <1>2, <3>6, <4>1 DEF StartRetry, ServiceState
      <4>3. held' \in [Services -> Info]
        BY <1>2, <3>6, <4>2
      <4> QED  BY <1>2, <2>1, <2>2, <3>1, <4>3 DEF TreeTypeOK
    <3>7. CASE Replies(s)
      BY <3>3, <3>4, <3>7 DEF Replies
    <3> QED  BY <2>3, <3>3, <3>4, <3>5, <3>6, <3>7 DEF Asks
  <2>4. CASE Inserts(s)
    <3>1. /\ info' = [info EXCEPT ![Len(tasks) + 1] = held[s]]
          /\ held' = [held EXCEPT ![s] = NoInfo]
          /\ UNCHANGED <<tree, prep, tokens, reset, confirmed, landed>>
      BY <2>4 DEF Inserts
    <3>2. NoInfo \in Info
      BY DEF NoInfo, Info, Branch
    <3>3. info' \in [TaskIds -> Info] /\ held' \in [Services -> Info]
      BY <1>2, <3>1, <3>2
    <3> QED  BY <1>2, <2>2, <3>1, <3>3 DEF TreeTypeOK
  <2>5. CASE GoesOn(s)
    BY <1>2, <2>2, <2>5 DEF GoesOn, treeVars, TreeTypeOK
  <2>6. CASE Drains(s)
    BY <1>2, <2>2, <2>6 DEF Drains, TreeTypeOK
  <2>7. CASE ConsumesToken(s)
    <3>1. PICK k \in Tokens : /\ tokens' = [tokens EXCEPT ![k].stored = FALSE]
                              /\ confirmed' = [confirmed EXCEPT ![k] = @ + 1]
                              /\ reset' = [reset EXCEPT ![s] = "cancel"]
                              /\ UNCHANGED <<tree, info, prep, held, landed>>
      BY <2>7 DEF ConsumesToken, Consume
    <3>2. tokens' \in [Tokens -> Token]
      <4>1. [tokens[k] EXCEPT !.stored = FALSE] \in Token
        BY <1>2 DEF Token
      <4> QED  BY <1>2, <3>1, <4>1
    <3>3. confirmed' \in [Tokens -> Nat] /\ reset' \in [Services -> {"no", "cancel", "git"}]
      BY <1>2, <3>1
    <3> QED  BY <1>2, <2>2, <3>1, <3>2, <3>3 DEF TreeTypeOK
  <2> QED  BY <1>7, <2>2, <2>3, <2>4, <2>5, <2>6, <2>7
<1>8. ASSUME NEW s \in Services, IssuesToken(s) \/ RefusesToken(s) \/ ResetsTree(s)
      PROVE  TreeTypeOK' /\ PrepIsUnderWay'
  <2>1. PrepIsUnderWay'
    BY <1>4, <1>8 DEF IssuesToken, RefusesToken, ResetsTree, vars
  <2>2. CASE IssuesToken(s)
    <3>1. PICK k \in Tokens, p \in {Home, Elsewhere} :
             tokens' = [tokens EXCEPT ![k] = [for |-> p, stored |-> TRUE, expired |-> FALSE]]
      BY <2>2 DEF IssuesToken
    <3>2. tokens' \in [Tokens -> Token]
      BY <1>2, <3>1 DEF Token
    <3> QED  BY <1>2, <2>1, <2>2, <3>2 DEF IssuesToken, TreeTypeOK
  <2>3. CASE RefusesToken(s)
    <3>1. tokens' \in [Tokens -> Token]
      BY <1>2, <2>3 DEF RefusesToken, NoToken, Token
    <3> QED  BY <1>2, <2>1, <2>3, <3>1 DEF RefusesToken, TreeTypeOK
  <2>4. CASE ResetsTree(s)
    <3>1. PICK left \in SUBSET tree.dirty : tree' = [tree EXCEPT !.dirty = left]
      BY <2>4 DEF ResetsTree
    <3>2. left \in SUBSET (TaskIds \cup {User})
      BY <1>2 DEF Tree
    <3>3. tree' \in Tree
      BY <1>2, <3>1, <3>2 DEF Tree
    <3> QED  BY <1>2, <2>1, <2>4, <3>3 DEF ResetsTree, TreeTypeOK
  <2> QED  BY <1>8, <2>2, <2>3, <2>4
<1>9. CASE CommitProject \/ ClaudeWrites \/ UserEdits \/ UserSwitches \/ UserDeletesBranch
  <2>1. PrepIsUnderWay' /\ UNCHANGED <<info, prep, held, tokens, reset, confirmed>>
    BY <1>4, <1>9 DEF CommitProject, ClaudeWrites, UserEdits, UserSwitches, UserDeletesBranch, vars
  <2>2. ASSUME NEW d \in SUBSET (TaskIds \cup {User}), tree' = [tree EXCEPT !.dirty = d]
        PROVE  tree' \in Tree
    BY <1>2, <2>2 DEF Tree
  <2>3. tree' \in Tree
    <3>1. CASE CommitProject
      BY <2>2, <3>1 DEF CommitProject, Commits
    <3>2. CASE ClaudeWrites \/ UserEdits
      <4>1. PICK d \in TaskIds \cup {User} : tree' = [tree EXCEPT !.dirty = tree.dirty \cup {d}]
        BY <3>2 DEF ClaudeWrites, UserEdits
      <4>2. tree.dirty \cup {d} \in SUBSET (TaskIds \cup {User})
        BY <1>2 DEF Tree
      <4> QED  BY <2>2, <4>1, <4>2
    <3>3. CASE UserSwitches
      BY <1>2, <3>3 DEF UserSwitches, Tree, Branch
    <3>4. CASE UserDeletesBranch
      <4>1. PICK b \in tree.branches : tree' = [tree EXCEPT !.branches = tree.branches \ {b}]
        BY <3>4 DEF UserDeletesBranch
      <4>2. tree.branches \ {b} \in SUBSET TaskIds
        BY <1>2 DEF Tree
      <4> QED  BY <1>2, <4>1, <4>2 DEF Tree
    <3> QED  BY <1>9, <3>1, <3>2, <3>3, <3>4
  <2>4. landed' \subseteq TaskIds \X Branch
    <3>1. CASE CommitProject
      <4>1. tree.dirty \ {User} \subseteq TaskIds /\ tree.head \in Branch
        BY <1>2 DEF Tree
      <4> QED  BY <1>2, <3>1, <4>1 DEF CommitProject, Commits
    <3> QED
      BY <1>2, <1>9, <3>1 DEF ClaudeWrites, UserEdits, UserSwitches, UserDeletesBranch
  <2> QED  BY <1>1, <1>2, <2>1, <2>3, <2>4 DEF TreeTypeOK, TreeInv
<1>10. CASE TokenExpires \/ TokensLost
  <2>1. tokens' \in [Tokens -> Token]
    <3>1. CASE TokenExpires
      <4>1. PICK k \in Tokens : tokens' = [tokens EXCEPT ![k].expired = TRUE]
        BY <3>1 DEF TokenExpires
      <4>2. [tokens[k] EXCEPT !.expired = TRUE] \in Token
        BY <1>2 DEF Token
      <4> QED  BY <1>2, <4>1, <4>2
    <3>2. CASE TokensLost
      <4>1. NoToken \in Token
        BY DEF NoToken, Token
      <4> QED  BY <1>2, <3>2, <4>1 DEF TokensLost
    <3> QED  BY <1>10, <3>1, <3>2
  <2>2. PrepIsUnderWay'
    BY <1>4, <1>10 DEF TokenExpires, TokensLost, vars
  <2> QED  BY <1>1, <1>2, <1>10, <2>1, <2>2 DEF TokenExpires, TokensLost, TreeTypeOK, TreeInv
<1>11. CASE Dies
  <2>1. UNCHANGED <<tree, info, held, tokens, confirmed, landed>>
    BY <1>11 DEF Dies
  <2>2. CASE \E t \in DOMAIN tasks : (ClaudeExits(t) \/ Ages(t)) /\ UNCHANGED <<prep, reset>>
    BY <1>1, <1>2, <1>4, <2>1, <2>2 DEF ClaudeExits, Ages, TreeTypeOK, TreeInv
  <2>3. ASSUME NEW w \in Workers, WorkerCrashes(w), prep' = [prep EXCEPT ![w] = "no"],
               UNCHANGED reset
        PROVE  TreeTypeOK' /\ PrepIsUnderWay'
    <3>1. worker \in [Workers -> WorkerState] /\ worker' = [worker EXCEPT ![w] = WorkerOff]
      BY <2>3 DEF WorkerCrashes, TreeInv, LifecycleInv, LifecycleTypeOK, ProcessTypeOK
    <3> QED
      BY <1>2, <2>1, <2>3, <3>1 DEF WorkerOff, TreeTypeOK, TreeInv, PrepIsUnderWay
  <2>4. ASSUME NEW s \in Services, SvcAborts(s), reset' = [reset EXCEPT ![s] = "no"],
               UNCHANGED prep
        PROVE  TreeTypeOK' /\ PrepIsUnderWay'
    BY <1>2, <1>4, <2>1, <2>4 DEF SvcAborts, TreeTypeOK
  <2> QED  BY <1>1, <1>11, <2>2, <2>3, <2>4 DEF Dies, TreeInv
<1>12. CASE UNCHANGED allVars
  BY <1>1, <1>2, <1>4, <1>12 DEF allVars, treeVars, vars, TreeTypeOK, TreeInv
<1> QED
  BY <1>1, <1>5, <1>6, <1>7, <1>8, <1>9, <1>10, <1>11, <1>12 DEF TreeNext, TreeInv

LEMMA TreeStartsWell == TreeInit => TreeInv
<1> SUFFICES ASSUME TreeInit PROVE TreeInv
  OBVIOUS
<1>1. LifecycleInv
  BY StartsWell DEF TreeInit
<1>2. tree \in Tree
  BY DEF TreeInit, Tree, Branch
<1>3. NoInfo \in Info /\ NoToken \in Token
  BY DEF NoInfo, Info, Branch, NoToken, Token
<1>4. TreeTypeOK
  BY <1>2, <1>3 DEF TreeInit, TreeTypeOK
<1>5. PrepIsUnderWay
  BY DEF TreeInit, LifecycleInit, WorkerOff, PrepIsUnderWay
<1> QED  BY <1>1, <1>4, <1>5 DEF TreeInv

(* The repository, the columns, the tokens and the points of preparation    *)
(* and reset stay well formed.                                              *)
THEOREM TreeTyped == TreeSpec => [](TreeTypeOK /\ PrepIsUnderWay)
<1>1. TreeInit => TreeInv
  BY TreeStartsWell
<1>2. TreeInv /\ [TreeNext]_allVars => TreeInv'
  BY TypesAndPointsKept
<1>3. TreeInv => TreeTypeOK /\ PrepIsUnderWay
  BY DEF TreeInv
<1> QED  BY <1>1, <1>2, <1>3, PTL DEF TreeSpec

-----------------------------------------------------------------------------
(* Tokens.                                                                  *)

\* What is in the store was never used.
StoredIsUnused == \A k \in Tokens : tokens[k].stored => confirmed[k] = 0

TokenInv == ResetsAreConfirmed /\ StoredIsUnused

LEMMA TokensStaySound ==
    ASSUME TreeInv, TokenInv, [TreeNext]_allVars
    PROVE  TokenInv'
<1>1. tokens \in [Tokens -> Token] /\ confirmed \in [Tokens -> Nat]
  BY DEF TreeInv, TreeTypeOK
<1>2. \A k \in Tokens : confirmed[k] \in Nat /\ confirmed[k] <= 1
  BY <1>1 DEF TokenInv, ResetsAreConfirmed
<1>3. ASSUME UNCHANGED <<tokens, confirmed>>
      PROVE  TokenInv'
  BY <1>3 DEF TokenInv, ResetsAreConfirmed, StoredIsUnused
<1>4. ASSUME NEW s \in Services, IssuesToken(s)
      PROVE  TokenInv'
  <2>1. PICK k \in Tokens, p \in {Home, Elsewhere} :
           /\ tokens[k] = NoToken
           /\ tokens' = [tokens EXCEPT ![k] = [for |-> p, stored |-> TRUE, expired |-> FALSE]]
    BY <1>4 DEF IssuesToken
  <2>2. confirmed[k] = 0 /\ UNCHANGED confirmed
    BY <1>2, <1>4, <2>1, NoneAssumption, HomeAssumption
       DEF IssuesToken, NoToken, TokenInv, ResetsAreConfirmed
  <2> QED  BY <1>1, <2>1, <2>2 DEF TokenInv, ResetsAreConfirmed, StoredIsUnused
<1>5. ASSUME NEW s \in Services, ConsumesToken(s)
      PROVE  TokenInv'
  <2>1. PICK k \in Tokens : Consume(k) /\ confirmed' = [confirmed EXCEPT ![k] = @ + 1]
    BY <1>5 DEF ConsumesToken
  <2>2. confirmed[k] = 0 /\ confirmed'[k] = 1
    BY <1>1, <2>1 DEF Consume, TokenInv, StoredIsUnused
  <2>3. tokens'[k].for = Home /\ ~tokens'[k].expired /\ ~tokens'[k].stored
    BY <1>1, <2>1 DEF Consume, Token
  <2>4. \A j \in Tokens \ {k} : tokens'[j] = tokens[j] /\ confirmed'[j] = confirmed[j]
    BY <1>1, <2>1 DEF Consume
  <2> QED  BY <2>2, <2>3, <2>4 DEF TokenInv, ResetsAreConfirmed, StoredIsUnused
<1>6. ASSUME NEW s \in Services, RefusesToken(s)
      PROVE  TokenInv'
  <2>1. PICK k \in Tokens : tokens[k].stored /\ tokens' = [tokens EXCEPT ![k] = NoToken]
    BY <1>6 DEF RefusesToken
  <2>2. UNCHANGED confirmed
    BY <1>6 DEF RefusesToken
  <2>3. confirmed[k] = 0
    BY <2>1 DEF TokenInv, StoredIsUnused
  <2> QED  BY <1>1, <2>1, <2>2, <2>3 DEF NoToken, TokenInv, ResetsAreConfirmed, StoredIsUnused
<1>7. CASE TokenExpires
  <2>1. PICK k \in Tokens : tokens[k].stored /\ tokens' = [tokens EXCEPT ![k].expired = TRUE]
    BY <1>7 DEF TokenExpires
  <2>2. UNCHANGED confirmed
    BY <1>7 DEF TokenExpires
  <2>3. confirmed[k] = 0
    BY <2>1 DEF TokenInv, StoredIsUnused
  <2>4. \A j \in Tokens \ {k} : tokens'[j] = tokens[j]
    BY <1>1, <2>1
  <2> QED  BY <2>2, <2>3, <2>4 DEF TokenInv, ResetsAreConfirmed, StoredIsUnused
<1>8. CASE TokensLost
  <2>1. UNCHANGED confirmed
    BY <1>8 DEF TokensLost
  <2>2. \A k \in Tokens : tokens'[k] = NoToken \/ tokens'[k] = tokens[k]
    BY <1>8 DEF TokensLost
  <2>3. \A k \in Tokens : confirmed[k] # 0 => tokens'[k] = tokens[k]
    BY <1>8 DEF TokensLost
  <2> QED  BY <1>2, <2>1, <2>2, <2>3 DEF NoToken, TokenInv, ResetsAreConfirmed, StoredIsUnused
<1>9. ASSUME NEW w \in Workers, Claims(w) \/ PrepStep(w) \/ Prepared(w) \/ AfterLaunch(w)
      PROVE  UNCHANGED <<tokens, confirmed>>
  BY <1>9, PrepStepTypes DEF Claims, Prepared, AfterLaunch, treeVars
<1>10. ASSUME NEW s \in Services, Asks(s) \/ Inserts(s) \/ GoesOn(s) \/ Drains(s) \/ ResetsTree(s)
       PROVE  UNCHANGED <<tokens, confirmed>>
  BY <1>10 DEF Asks, Inserts, GoesOn, Drains, ResetsTree, treeVars
<1>11. ASSUME CommitProject \/ ClaudeWrites \/ UserEdits \/ UserSwitches \/ UserDeletesBranch \/ Dies
              \/ UNCHANGED allVars
       PROVE  UNCHANGED <<tokens, confirmed>>
  BY <1>11 DEF CommitProject, ClaudeWrites, UserEdits, UserSwitches, UserDeletesBranch, Dies, allVars,
     treeVars
<1> QED
  BY <1>3, <1>4, <1>5, <1>6, <1>7, <1>8, <1>9, <1>10, <1>11 DEF TreeNext

(* A project is reset only for a token that was issued for it, had not      *)
(* expired when it was used and was used for nothing else, however the      *)
(* services interleave and whenever the store is lost.                      *)
THEOREM ConfirmedResets == TreeSpec => []ResetsAreConfirmed
<1>1. TreeInit => TreeInv /\ TokenInv
  <2>1. TreeInit => TokenInv
    BY DEF TreeInit, NoToken, TokenInv, ResetsAreConfirmed, StoredIsUnused
  <2> QED  BY <2>1, TreeStartsWell
<1>2. TreeInv /\ TokenInv /\ [TreeNext]_allVars => (TreeInv /\ TokenInv)'
  BY TypesAndPointsKept, TokensStaySound
<1>3. TokenInv => ResetsAreConfirmed
  BY DEF TokenInv
<1> QED  BY <1>1, <1>2, <1>3, PTL DEF TreeSpec
-----------------------------------------------------------------------------
(* Whose branch is checked out.  prepare_branch looks at the tree, acts on   *)
(* what it saw and launches a claude later: all of it relies on nobody else  *)
(* being at work in the tree, which one service without faults ensures.      *)

\* What the worker has seen of the tree is still so.
PrepSound ==
    \A w \in Workers :
        /\ prep[w] \notin {"no", "repo", "ready", "fail"} => tree.git
        /\ prep[w] \in {"current", "clean", "exists", "checkout"} => Prior(worker[w].task) # 0
        /\ prep[w] \in {"exists", "checkout", "create", "record"} => tree.dirty \subseteq {User}
        /\ prep[w] = "record" => tree.head = worker[w].task

\* From the end of the preparation to the end of the wait.
AtBranch(t) == tree.git /\ (IsMutating(t) \/ Prior(t) # 0) => Prior(t) # 0 /\ tree.head = Prior(t)

ReadySound ==
    \A w \in Workers :
        prep[w] = "ready" \/ worker[w].pc \in {"setpid", "wait"} => AtBranch(worker[w].task)

\* Only a claude that was launched has changes in the tree or in a commit.
ChangesAreOfClaudes ==
    \A t \in TaskIds :
        t \in tree.dirty \/ (\E b \in Branch : <<t, b>> \in landed) => claude[t] # "none"

HeadInv == PrepSound /\ ReadySound /\ ChangesAreOfClaudes /\ WorkStaysOnItsBranch

LEMMA OneAtWork ==
    ASSUME TreeInv, OneWorkerPerProject, NEW v \in Workers, NEW w \in Workers,
           worker[v].pc # "off", worker[w].pc # "off"
    PROVE  v = w
<1>1. worker[v].project = Home /\ worker[w].project = Home
  BY HomeAssumption DEF TreeInv, LifecycleInv, NothingGoesStale, WorkerSound
<1> QED  BY <1>1 DEF OneWorkerPerProject

\* A step that leaves the tree alone.
LEMMA HeadFrame ==
    ASSUME TreeInv, HeadInv, UNCHANGED <<tree, landed>>,
           \A t \in Started : info'[t] = info[t],
           \A t \in TaskIds : claude[t] # "none" => claude'[t] # "none",
           \A w \in Workers :
              /\ prep'[w] \in {"no", "repo"}
                 \/ (prep'[w] = prep[w] /\ worker'[w].task = worker[w].task /\ worker[w].pc = "prep")
              /\ worker'[w].pc \in {"setpid", "wait"} =>
                    /\ prep[w] = "ready" \/ worker[w].pc \in {"setpid", "wait"}
                    /\ worker'[w].task = worker[w].task
    PROVE  HeadInv'
<1>1. /\ \A w \in Workers : worker[w].pc \in {"prep", "setpid", "wait"} => worker[w].task \in Started
      /\ \A w \in Workers : prep[w] = "ready" => worker[w].pc = "prep"
      /\ \A t \in TaskIds : t \notin Started => claude[t] = "none"
  BY DEF TreeInv, PrepIsUnderWay, LifecycleInv, NothingGoesStale, WorkerSound
<1>2. PrepSound'
  BY <1>1 DEF HeadInv, PrepSound, Prior
<1>3. ReadySound'
  BY <1>1 DEF HeadInv, ReadySound, AtBranch, IsMutating, Prior
<1>4. ChangesAreOfClaudes'
  BY DEF HeadInv, ChangesAreOfClaudes, TaskIds, Branch
<1>5. WorkStaysOnItsBranch'
  <2> SUFFICES ASSUME NEW t \in TaskIds, Prior(t)' # 0
               PROVE  /\ tree.git /\ t \in tree.dirty => tree.head = Prior(t)'
                      /\ \A b \in Branch : <<t, b>> \in landed => b = Prior(t)'
    BY DEF WorkStaysOnItsBranch, TaskIds, Branch
  <2>1. CASE t \in Started
    BY <2>1 DEF HeadInv, WorkStaysOnItsBranch, Prior
  <2>2. CASE t \notin Started
    BY <1>1, <2>2 DEF HeadInv, ChangesAreOfClaudes
  <2> QED  BY <2>1, <2>2
<1> QED  BY <1>2, <1>3, <1>4, <1>5 DEF HeadInv
\* The steps of the workers, the services and the processes around the tree.
LEMMA OthersKeepHead ==
    ASSUME NoFaults, TreeInv, HeadInv,
           \/ \E w \in Workers : Claims(w) \/ Prepared(w) \/ AfterLaunch(w)
           \/ \E s \in Services : Asks(s) \/ Inserts(s) \/ GoesOn(s) \/ Drains(s) \/ ConsumesToken(s)
           \/ \E s \in Services : IssuesToken(s) \/ RefusesToken(s)
           \/ TokenExpires \/ TokensLost \/ Dies \/ UNCHANGED allVars
    PROVE  HeadInv'
<1>1. /\ claude \in [TaskIds -> ClaudeStates] /\ worker \in [Workers -> WorkerState]
      /\ prep \in [Workers -> {"no", "repo", "current", "clean", "exists", "checkout",
                               "newclean", "create", "record", "ready", "fail"}]
      /\ \A w \in Workers : prep[w] # "no" <=> worker[w].pc = "prep"
      /\ faults = 0
  BY DEF TreeInv, TreeTypeOK, PrepIsUnderWay, LifecycleInv, LifecycleTypeOK, ProcessTypeOK, NoFaults
<1>2. ASSUME NEW w \in Workers, Claims(w) \/ Prepared(w) \/ AfterLaunch(w)
      PROVE  HeadInv'
  <2>1. WorkerStep(w) /\ UNCHANGED <<tree, info, landed>>
    BY <1>2 DEF Claims, Prepared, AfterLaunch, WorkerStep, treeVars
  <2>2. \A v \in Workers \ {w} : worker'[v] = worker[v]
    BY <2>1, WorkerFrame DEF TreeInv
  <2>3. \A t \in TaskIds : claude[t] # "none" => claude'[t] # "none"
    <3>1. CASE Prepared(w)
      BY <1>1, <3>1 DEF Prepared, WorkerLaunch, WorkerPrepFails
    <3>2. CASE Claims(w) \/ AfterLaunch(w)
      BY <1>1, <3>2 DEF Claims, WorkerClaim, AfterLaunch, WorkerIdles, WorkerExits, WorkerSetPid,
         WorkerReaps, WorkerTimesOut, WorkerChecks, WorkerMarks, WorkerFinishes, WorkerNotifies
    <3> QED  BY <1>2, <3>1, <3>2
  <2>4. \A v \in Workers \ {w} : prep'[v] = prep[v]
    BY <1>1, <1>2 DEF Claims, Prepared, AfterLaunch, treeVars
  <2>5. prep'[w] \in {"no", "repo"}
    BY <1>1, <1>2, PointsOfWorkers DEF Claims, Prepared, AfterLaunch, treeVars, TreeInv
  <2>6. worker'[w].pc \in {"setpid", "wait"} =>
           /\ prep[w] = "ready" \/ worker[w].pc \in {"setpid", "wait"}
           /\ worker'[w].task = worker[w].task
    <3>1. CASE Prepared(w)
      <4>1. prep[w] = "ready" \/ WorkerPrepFails(w)
        BY <3>1 DEF Prepared
      <4>2. WorkerPrepFails(w) => worker'[w].pc = "finish"
        BY <1>1 DEF WorkerPrepFails, WorkerGoes, WorkerState
      <4> QED  BY <3>1, <4>1, <4>2, PointsOfWorkers DEF TreeInv
    <3>2. CASE Claims(w) \/ AfterLaunch(w)
      BY <3>2, PointsOfWorkers DEF TreeInv
    <3> QED  BY <1>2, <3>1, <3>2
  <2> QED  BY <1>1, <2>1, <2>2, <2>3, <2>4, <2>5, <2>6, HeadFrame
<1>3. ASSUME NEW s \in Services, Asks(s) \/ Inserts(s) \/ GoesOn(s) \/ Drains(s) \/ ConsumesToken(s)
      PROVE  HeadInv'
  <2>1. /\ UNCHANGED <<tree, prep, landed>>
        /\ \A w \in Workers :
             worker'[w] = worker[w] \/ (worker[w].pc = "off" /\ worker'[w].pc = "poll")
        /\ \A t \in TaskIds : claude[t] # "none" => claude'[t] # "none"
        /\ \A t \in Started : info'[t] = info[t]
    BY <1>3, ServicesLeavePrep DEF TreeInv
  <2> QED  BY <1>1, <2>1, HeadFrame
<1>4. ASSUME UNCHANGED <<tree, landed, info, prep, worker>>,
             \A t \in TaskIds : claude[t] # "none" => claude'[t] # "none"
      PROVE  HeadInv'
  BY <1>1, <1>4, HeadFrame
<1>5. ASSUME NEW s \in Services, IssuesToken(s) \/ RefusesToken(s)
      PROVE  HeadInv'
  BY <1>4, <1>5 DEF IssuesToken, RefusesToken, vars
<1>6. CASE TokenExpires \/ TokensLost \/ UNCHANGED allVars
  BY <1>4, <1>6 DEF TokenExpires, TokensLost, allVars, treeVars, vars
<1>7. CASE Dies
  <2>1. PICK t \in DOMAIN tasks : (ClaudeExits(t) \/ Ages(t)) /\ UNCHANGED prep
    BY <1>1, <1>7 DEF Dies, WorkerCrashes, SvcAborts, Fault, NoFaults
  <2>2. UNCHANGED <<tree, landed, info, worker>>
    BY <1>7, <2>1 DEF Dies, ClaudeExits, Ages
  <2>3. \A u \in TaskIds : claude[u] # "none" => claude'[u] # "none"
    BY <1>1, <2>1 DEF ClaudeExits, Exits, Ages
  <2> QED  BY <1>4, <2>1, <2>2, <2>3
<1> QED  BY <1>2, <1>3, <1>5, <1>6, <1>7

\* A reset, a commit, an edit or a switch.
LEMMA HandsKeepHead ==
    ASSUME TreeInv, OneWorkerPerProject, LiveAtWork, HeadInv,
           \/ \E s \in Services : ResetsTree(s)
           \/ CommitProject \/ ClaudeWrites \/ UserEdits \/ UserSwitches \/ UserDeletesBranch
    PROVE  HeadInv'
<1>1. /\ tree \in Tree /\ landed \subseteq TaskIds \X Branch
      /\ \A w \in Workers : prep[w] # "no" <=> worker[w].pc = "prep"
      /\ \A w \in Workers : worker[w].pc \in {"prep", "setpid", "wait"} => worker[w].task # 0
      /\ User \notin TaskIds
  <2>1. User \notin TaskIds
    BY UserAssumption DEF TaskIds
  <2>2. \A w \in Workers : worker[w].pc \in {"prep", "setpid", "wait"} => worker[w].task # 0
    BY DEF TreeInv, LifecycleInv, NothingGoesStale, WorkerSound
  <2> QED  BY <2>1, <2>2 DEF TreeInv, TreeTypeOK, PrepIsUnderWay
<1>2. UNCHANGED <<worker, claude, info, prep>> /\ tree'.git = tree.git
  BY <1>1 DEF ResetsTree, CommitProject, Commits, ClaudeWrites, UserEdits, UserSwitches,
     UserDeletesBranch, vars, Tree
\* HEAD stays.
<1>3. ASSUME tree'.head = tree.head,
             tree'.dirty \subseteq tree.dirty \cup {User},
             \A t \in TaskIds, b \in Branch :
                <<t, b>> \in landed' => <<t, b>> \in landed \/ (t \in tree.dirty /\ b = tree.head /\ tree.git)
      PROVE  HeadInv'
  <2>1. PrepSound' /\ ReadySound'
    BY <1>2, <1>3 DEF HeadInv, PrepSound, ReadySound, AtBranch, IsMutating, Prior
  <2>2. ChangesAreOfClaudes'
    BY <1>1, <1>2, <1>3 DEF HeadInv, ChangesAreOfClaudes, TaskIds, Branch
  <2>3. WorkStaysOnItsBranch'
    BY <1>1, <1>2, <1>3 DEF HeadInv, WorkStaysOnItsBranch, Prior, TaskIds, Branch
  <2> QED  BY <2>1, <2>2, <2>3 DEF HeadInv
<1>4. ASSUME NEW s \in Services, ResetsTree(s)
      PROVE  HeadInv'
  BY <1>1, <1>3, <1>4 DEF ResetsTree, Tree
<1>5. CASE CommitProject
  <2>1. tree'.head = tree.head /\ tree'.dirty = {} /\ tree.git
    BY <1>1, <1>5 DEF CommitProject, Commits, Tree
  <2>2. \A t \in TaskIds, b \in Branch :
           <<t, b>> \in landed' => <<t, b>> \in landed \/ (t \in tree.dirty /\ b = tree.head)
    BY <1>5 DEF CommitProject, Commits
  <2> QED  BY <1>3, <2>1, <2>2
<1>6. CASE UserEdits \/ UserDeletesBranch
  BY <1>1, <1>3, <1>6 DEF UserEdits, UserDeletesBranch, Tree
<1>7. CASE ClaudeWrites
  <2>1. PICK t \in TaskIds : claude[t] = "live" /\ tree' = [tree EXCEPT !.dirty = @ \cup {t}]
    BY <1>7 DEF ClaudeWrites
  <2>2. PICK w \in Workers : worker[w].task = t /\ worker[w].pc \in {"setpid", "wait"}
    BY <2>1 DEF LiveAtWork
  <2>3. \A v \in Workers : prep[v] = "no"
    BY <1>1, <2>2, OneAtWork
  <2>4. tree'.head = tree.head /\ tree'.dirty = tree.dirty \cup {t} /\ UNCHANGED landed
    BY <1>1, <1>7, <2>1 DEF ClaudeWrites, Tree
  <2>5. PrepSound' /\ ReadySound'
    BY <1>2, <2>3, <2>4 DEF HeadInv, PrepSound, ReadySound, AtBranch, IsMutating, Prior
  <2>6. ChangesAreOfClaudes'
    BY <1>2, <2>1, <2>4 DEF HeadInv, ChangesAreOfClaudes, TaskIds, Branch
  <2>7. AtBranch(t)
    BY <2>2 DEF HeadInv, ReadySound
  <2>8. WorkStaysOnItsBranch'
    BY <1>2, <2>4, <2>7 DEF HeadInv, WorkStaysOnItsBranch, AtBranch, Prior, TaskIds, Branch
  <2> QED  BY <2>5, <2>6, <2>8 DEF HeadInv
<1>8. CASE UserSwitches
  <2>1. tree'.dirty = {} /\ UNCHANGED landed /\ \A w \in Workers : worker[w].task = 0
    BY <1>1, <1>8 DEF UserSwitches, Clean, Tree
  <2>2. \A w \in Workers : prep[w] = "no" /\ worker[w].pc \notin {"setpid", "wait"}
    BY <1>1, <2>1
  <2>3. PrepSound' /\ ReadySound'
    BY <1>2, <2>2 DEF PrepSound, ReadySound
  <2>4. ChangesAreOfClaudes' /\ WorkStaysOnItsBranch'
    BY <1>2, <2>1 DEF HeadInv, ChangesAreOfClaudes, WorkStaysOnItsBranch, Prior, TaskIds, Branch
  <2> QED  BY <2>3, <2>4 DEF HeadInv
<1> QED  BY <1>4, <1>5, <1>6, <1>7, <1>8
\* The worker in prepare_branch is alone in the tree.
LEMMA PreparationKeepsHead ==
    ASSUME TreeInv, OneWorkerPerProject, HeadInv, NEW w \in Workers, PrepStep(w)
    PROVE  HeadInv'
<1> DEFINE t == worker[w].task
<1>1. /\ UNCHANGED <<vars, landed>>
      /\ prep[w] # "no" /\ \A v \in Workers \ {w} : prep'[v] = prep[v]
  BY PrepStepTypes
<1>2. /\ tree \in Tree /\ info \in [TaskIds -> Info]
      /\ prep \in [Workers -> {"no", "repo", "current", "clean", "exists", "checkout",
                               "newclean", "create", "record", "ready", "fail"}]
      /\ worker[w].pc = "prep"
  BY <1>1 DEF TreeInv, TreeTypeOK, PrepIsUnderWay
<1>3. /\ t \in TaskIds /\ t # 0 /\ claude[t] = "none"
  BY <1>2 DEF TreeInv, LifecycleInv, LifecycleTypeOK, ProcessTypeOK, NothingGoesStale, WorkerSound,
     RunsAtMostOnce, WorkerState
<1>4. UNCHANGED <<tasks, worker, claude>>
  BY <1>1 DEF vars
<1>5. \A v \in Workers \ {w} : worker[v].pc = "off" /\ prep[v] = "no"
  <2>1. \A v \in Workers \ {w} : worker[v].pc = "off"
    BY <1>2, OneAtWork
  <2> QED  BY <2>1 DEF TreeInv, PrepIsUnderWay
<1>6. t \notin tree.dirty /\ \A b \in Branch : <<t, b>> \notin landed
  BY <1>3 DEF HeadInv, ChangesAreOfClaudes
\* What has to be shown of the one step.
<1>7. ASSUME /\ prep'[w] \notin {"no", "repo", "ready", "fail"} => tree'.git
             /\ prep'[w] \in {"current", "clean", "exists", "checkout"} => info'[t].branch # 0
             /\ prep'[w] \in {"exists", "checkout", "create", "record"} => tree'.dirty \subseteq {User}
             /\ prep'[w] = "record" => tree'.head = t,
             prep'[w] = "ready" =>
                (tree'.git /\ (info'[t].verdict # "reads" \/ info'[t].branch # 0)
                    => info'[t].branch # 0 /\ tree'.head = info'[t].branch)
      PROVE  PrepSound' /\ ReadySound'
  <2>1. PrepSound'
    BY <1>1, <1>4, <1>5, <1>7 DEF PrepSound, Prior
  <2>2. ReadySound'
    BY <1>1, <1>2, <1>4, <1>5, <1>7 DEF ReadySound, AtBranch, IsMutating, Prior
  <2> QED  BY <2>1, <2>2
<1>8. ASSUME tree'.dirty = tree.dirty
      PROVE  ChangesAreOfClaudes'
  BY <1>1, <1>4, <1>8 DEF HeadInv, ChangesAreOfClaudes, TaskIds, Branch
<1>9. ASSUME UNCHANGED info, tree'.dirty = tree.dirty, tree'.git = tree.git,
             tree'.head = tree.head \/ tree.dirty \subseteq {User}
      PROVE  WorkStaysOnItsBranch'
  <2>1. User \notin TaskIds
    BY UserAssumption DEF TaskIds
  <2> QED  BY <1>1, <1>9, <2>1 DEF HeadInv, WorkStaysOnItsBranch, Prior, TaskIds, Branch
<1>10. CASE LooksAtRepo(w) \/ LooksAtHead(w) \/ LooksAtStatus(w) \/ LooksForBranch(w)
  <2>1. UNCHANGED <<tree, info>>
    BY <1>10 DEF LooksAtRepo, LooksAtHead, LooksAtStatus, LooksForBranch
  <2>2. CASE LooksAtRepo(w)
    <3>1. prep'[w] = IF ~tree.git \/ (Prior(t) = 0 /\ ~IsMutating(t)) THEN "ready"
                     ELSE IF Prior(t) # 0 THEN "current" ELSE "newclean"
      BY <1>2, <2>2 DEF LooksAtRepo, PrepGoes
    <3> QED  BY <1>7, <1>8, <1>9, <2>1, <3>1 DEF HeadInv, Prior, IsMutating
  <2>3. CASE LooksAtHead(w)
    <3>1. /\ prep[w] = "current"
          /\ prep'[w] = IF tree.head = Prior(t) THEN "ready" ELSE "clean"
      BY <1>2, <2>3 DEF LooksAtHead, PrepGoes
    <3>2. tree.git /\ Prior(t) # 0
      BY <3>1 DEF HeadInv, PrepSound
    <3> QED  BY <1>7, <1>8, <1>9, <2>1, <3>1, <3>2 DEF HeadInv, Prior
  <2>4. CASE LooksAtStatus(w)
    <3>1. \/ prep[w] = "clean" /\ tree.dirty = {} /\ prep'[w] = "exists"
          \/ prep[w] = "newclean" /\ tree.dirty = {} /\ prep'[w] = "create"
          \/ prep'[w] = "fail"
      BY <1>2, <2>4 DEF LooksAtStatus, PrepGoes, Clean
    <3>2. /\ prep[w] \in {"clean", "newclean"} => tree.git
          /\ prep[w] = "clean" => Prior(t) # 0
      BY DEF HeadInv, PrepSound
    <3> QED  BY <1>7, <1>8, <1>9, <2>1, <3>1, <3>2 DEF HeadInv, Prior
  <2>5. CASE LooksForBranch(w)
    <3>1. prep[w] = "exists" /\ prep'[w] \in {"checkout", "newclean"}
      BY <1>2, <2>5 DEF LooksForBranch, PrepGoes
    <3>2. tree.git /\ Prior(t) # 0 /\ tree.dirty \subseteq {User}
      BY <3>1 DEF HeadInv, PrepSound
    <3> QED  BY <1>7, <1>8, <1>9, <2>1, <3>1, <3>2 DEF HeadInv, Prior
  <2> QED  BY <1>10, <2>2, <2>3, <2>4, <2>5
<1>11. CASE SwitchesToPrior(w)
  <2>1. /\ prep[w] = "checkout" /\ UNCHANGED info
        /\ \/ tree' = [tree EXCEPT !.head = Prior(t)] /\ prep'[w] = "ready"
           \/ UNCHANGED tree /\ prep'[w] = "fail"
    BY <1>2, <1>11 DEF SwitchesToPrior, CheckOut, PrepGoes
  <2>2. Prior(t) # 0 /\ tree.dirty \subseteq {User}
    BY <2>1 DEF HeadInv, PrepSound
  <2>3. tree'.dirty = tree.dirty /\ tree'.git = tree.git
    BY <1>2, <2>1 DEF Tree
  <2>4. prep'[w] = "ready" => tree'.head = Prior(t)
    BY <1>2, <2>1 DEF Tree
  <2> QED  BY <1>7, <1>8, <1>9, <2>1, <2>2, <2>3, <2>4 DEF HeadInv, Prior
<1>12. CASE CreatesBranch(w)
  <2>1. /\ prep[w] = "create" /\ UNCHANGED info
        /\ \/ CheckOutNew(t) /\ prep'[w] = "record"
           \/ UNCHANGED tree /\ prep'[w] = "fail"
    BY <1>2, <1>12 DEF CreatesBranch, PrepGoes
  <2>2. tree.git /\ tree.dirty \subseteq {User}
    BY <2>1 DEF HeadInv, PrepSound
  <2>3. tree'.dirty = tree.dirty /\ tree'.git = tree.git
    BY <1>2, <2>1 DEF Tree, CheckOutNew
  <2>4. prep'[w] = "record" => tree'.head = t
    BY <1>2, <2>1 DEF Tree, CheckOutNew
  <2> QED  BY <1>7, <1>8, <1>9, <2>1, <2>2, <2>3, <2>4 DEF HeadInv
<1>13. CASE RecordsBranch(w)
  <2>1. /\ prep[w] = "record" /\ UNCHANGED tree /\ prep'[w] = "ready"
        /\ info' = [info EXCEPT ![t].branch = t]
    BY <1>2, <1>13 DEF RecordsBranch, PrepGoes
  <2>2. /\ info'[t].branch = t /\ tree'.head = t
        /\ \A u \in TaskIds \ {t} : info'[u] = info[u]
    BY <1>2, <1>3, <2>1 DEF HeadInv, PrepSound, Info
  <2>3. WorkStaysOnItsBranch'
    BY <1>1, <1>6, <2>1, <2>2 DEF HeadInv, WorkStaysOnItsBranch, Prior, TaskIds, Branch
  <2> QED  BY <1>3, <1>7, <1>8, <2>1, <2>2, <2>3 DEF HeadInv
<1> QED  BY <1>10, <1>11, <1>12, <1>13 DEF PrepStep

LEMMA HeadKept ==
    ASSUME NoFaults, TreeInv, OneWorkerPerProject, LiveAtWork, HeadInv, [TreeNext]_allVars
    PROVE  HeadInv'
  BY OthersKeepHead, HandsKeepHead, PreparationKeepsHead DEF TreeNext

LEMMA HeadStartsWell == TreeInit => HeadInv
<1> SUFFICES ASSUME TreeInit PROVE HeadInv
  OBVIOUS
<1>1. /\ tree.dirty = {} /\ landed = {}
      /\ \A w \in Workers : prep[w] = "no" /\ worker[w].pc = "off"
  BY DEF TreeInit, LifecycleInit, WorkerOff
<1>2. PrepSound /\ ReadySound
  BY <1>1 DEF PrepSound, ReadySound
<1>3. ChangesAreOfClaudes /\ WorkStaysOnItsBranch
  BY <1>1 DEF ChangesAreOfClaudes, WorkStaysOnItsBranch
<1> QED  BY <1>2, <1>3 DEF HeadInv

\* One service without faults has one worker in the tree, and no claude is left alone.
LEMMA HeadSafe ==
    ASSUME OneService, NoFaults
    PROVE  TreeSpec => [](HeadInv /\ LiveAtWork)
<1>1. TreeInit => TreeInv /\ HeadInv /\ LiveAtWork
  <2>1. TreeInit => LiveAtWork
    BY DEF TreeInit, LifecycleInit, LiveAtWork
  <2> QED  BY <2>1, TreeStartsWell, HeadStartsWell
<1>2. TreeInv /\ OneWorkerPerProject /\ HeadInv /\ LiveAtWork /\ [TreeNext]_allVars
      => (TreeInv /\ HeadInv /\ LiveAtWork)'
  BY HeadKept, TypesAndPointsKept, TreeStepsAreLifecycleSteps, LiveStaysAtWork DEF TreeInv
<1>3. TreeSpec => []OneWorkerPerProject
  BY TreeImplementsLifecycle, OneWorker, PTL DEF ImplementsLifecycle
<1> QED  BY <1>1, <1>2, <1>3, PTL DEF TreeSpec

(* With one service and no process lost, a claude that may change the       *)
(* repository or goes on with earlier work runs on the branch its row       *)
(* names: what prepare_branch saw of the tree still holds when claude is    *)
(* launched and until it exits, through switches, edits, commits, resets    *)
(* and deletions of others (branch_prep.py:3-21).                           *)
THEOREM MutatorsAtTheirBranch ==
    ASSUME OneService, NoFaults
    PROVE  TreeSpec => []MutatorsOnTheirBranch
<1>1. HeadInv /\ LiveAtWork => MutatorsOnTheirBranch
  BY DEF HeadInv, ReadySound, LiveAtWork, AtBranch, MutatorsOnTheirBranch
<1> QED  BY <1>1, HeadSafe, PTL

(* Under the same conditions the work of a task that has a branch is found  *)
(* there and nowhere else, whoever commits it (branch_prep.py:8-13).        *)
THEOREM WorkLandsAtHome ==
    ASSUME OneService, NoFaults
    PROVE  TreeSpec => []WorkStaysOnItsBranch
<1>1. HeadInv => WorkStaysOnItsBranch
  BY DEF HeadInv
<1> QED  BY <1>1, HeadSafe, PTL
=============================================================================
