----------------------------- MODULE ProjectTree -----------------------------
(***************************************************************************)
(* The git working tree of a project, in which every task of the project   *)
(* runs.  TaskLifecycle with what its preparation of a task and the reset  *)
(* of a project leave open:                                                *)
(*                                                                         *)
(*   prep      prepare_branch, one git command at a time                   *)
(*                  src/branch_prep.py, src/git_ops.py                     *)
(*   reset     perform_reset after its cancel and drain                    *)
(*                  src/reset_control.py                                   *)
(*   tokens    TokenStore of claude-chat, chat/project_mutations.py        *)
(*                                                                         *)
(* Users and claudes edit and commit in the tree meanwhile.  Other         *)
(* projects have trees of their own, so there is one project here.         *)
(***************************************************************************)
EXTENDS TaskLifecycle

CONSTANTS
    Home,           \* the project
    Elsewhere,      \* another one, for which a token may have been issued
    Verdicts,       \* what classify_mutation answers
    MaxTokens,      \* bound: confirm tokens in the store or used
    User            \* whoever edits the tree by hand

ASSUME HomeAssumption == Projects = {Home} /\ Elsewhere # Home
ASSUME VerdictsAssumption == Verdicts \subseteq {"mutates", "reads", "unknown"}
ASSUME MaxTokensAssumption == MaxTokens \in Nat
ASSUME UserAssumption == User \notin Nat
\* A reply is enqueued like a request.
ASSUME RequestsAssumption == "reply" \in Requests => "enqueue" \in Requests

VARIABLES
    tree,           \* the repository
    info,           \* the columns branch_name and mutates_repo of each row
    prep,           \* the point each worker has reached in prepare_branch
    held,           \* the two columns of the row a service is about to insert
    tokens,         \* the tokens the store has, and those that were used
    reset,          \* the point each service has reached in perform_reset
    confirmed,      \* how often a token has opened the way to a reset (history)
    landed          \* <<task, branch>>: work committed so far (history)

treeVars == <<tree, info, prep, held, tokens, reset, confirmed, landed>>
allVars == <<vars, treeVars>>

Tokens == 1 .. MaxTokens

(* A task branch carries the id of the task it was made for.  0 is any      *)
(* other HEAD: the trunk or a detached one; in a row it is NULL.            *)
Branch == {0} \cup TaskIds

\* dirty: those whose changes "git status --porcelain" lists.
Tree == [git : BOOLEAN, head : Branch, branches : SUBSET TaskIds,
         dirty : SUBSET (TaskIds \cup {User})]

Info == [branch : Branch, verdict : {"mutates", "reads", "unknown"}]
NoInfo == [branch |-> 0, verdict |-> "unknown"]

\* A token no longer in the store and never used is forgotten.
Token == [for : {Home, Elsewhere, None}, stored : BOOLEAN, expired : BOOLEAN]
NoToken == [for |-> None, stored |-> FALSE, expired |-> FALSE]

TreeTypeOK ==
    /\ tree \in Tree
    /\ info \in [TaskIds -> Info]
    /\ prep \in [Workers -> {"no", "repo", "current", "clean", "exists", "checkout",
                             "newclean", "create", "record", "ready", "fail"}]
    /\ held \in [Services -> Info]
    /\ tokens \in [Tokens -> Token]
    /\ reset \in [Services -> {"no", "cancel", "git"}]
    /\ confirmed \in [Tokens -> Nat]
    /\ landed \subseteq TaskIds \X Branch

TreeInit ==
    /\ LifecycleInit
    /\ \E git \in BOOLEAN :
          tree = [git |-> git, head |-> 0, branches |-> {}, dirty |-> {}]
    /\ info = [t \in TaskIds |-> NoInfo]
    /\ prep = [w \in Workers |-> "no"]
    /\ held = [s \in Services |-> NoInfo]
    /\ tokens = [k \in Tokens |-> NoToken]
    /\ reset = [s \in Services |-> "no"]
    /\ confirmed = [k \in Tokens |-> 0]
    /\ landed = {}

-----------------------------------------------------------------------------
(* git.                                                                     *)

Clean == tree.dirty = {}
BranchExists(b) == b \in tree.branches

\* Uncommitted changes go along, unless git refuses.
CheckOut(b) ==
    /\ BranchExists(b)
    /\ tree' = [tree EXCEPT !.head = b]

CheckOutNew(b) ==
    /\ ~BranchExists(b)
    /\ tree' = [tree EXCEPT !.head = b, !.branches = @ \cup {b}]

\* add -A and commit: what is written between the two is as if written after.
Commits ==
    /\ landed' = landed \cup {<<t, tree.head>> : t \in tree.dirty \ {User}}
    /\ tree' = [tree EXCEPT !.dirty = {}]

\* chat_commit_project, at any time; a claude or the user does the same by hand.
CommitProject ==
    /\ tree.git
    /\ ~Clean
    /\ Commits
    /\ UNCHANGED <<vars, info, prep, held, tokens, reset, confirmed>>

-----------------------------------------------------------------------------
(* prepare_branch.  Each git command is a step: users, claudes and a reset  *)
(* get in between.                                                          *)

\* NULL and 1 are mutating.
IsMutating(t) == info[t].verdict # "reads"

\* Every branch_name of a row was made by task_branch_name and is valid.
Prior(t) == info[t].branch

PrepGoes(w, step) ==
    /\ worker[w].pc = "prep"
    /\ prep' = [prep EXCEPT ![w] = step]
    /\ UNCHANGED <<vars, held, tokens, reset, confirmed, landed>>

LooksAtRepo(w) ==
    LET t == worker[w].task
    IN  /\ prep[w] = "repo"
        /\ PrepGoes(w, IF ~tree.git \/ (Prior(t) = 0 /\ ~IsMutating(t)) THEN "ready"
                       ELSE IF Prior(t) # 0 THEN "current" ELSE "newclean")
        /\ UNCHANGED <<tree, info>>

\* Already on the prior branch: a dirty tree is taken for our own work.
LooksAtHead(w) ==
    /\ prep[w] = "current"
    /\ PrepGoes(w, IF tree.head = Prior(worker[w].task) THEN "ready" ELSE "clean")
    /\ UNCHANGED <<tree, info>>

\* Mutant: the state of the tree is not looked at.
SkipsStatus(w) ==
    /\ \/ prep[w] = "clean" /\ PrepGoes(w, "exists")
       \/ prep[w] = "newclean" /\ PrepGoes(w, "create")
    /\ UNCHANGED <<tree, info>>

\* A failing git status counts as dirty.
LooksAtStatus(w) ==
    /\ \/ prep[w] = "clean" /\ Clean /\ PrepGoes(w, "exists")
       \/ prep[w] = "newclean" /\ Clean /\ PrepGoes(w, "create")
       \/ prep[w] \in {"clean", "newclean"} /\ PrepGoes(w, "fail")
    /\ UNCHANGED <<tree, info>>

LooksForBranch(w) ==
    /\ prep[w] = "exists"
    /\ PrepGoes(w, IF BranchExists(Prior(worker[w].task)) THEN "checkout" ELSE "newclean")
    /\ UNCHANGED <<tree, info>>

\* Mutant: the branch exists, so the task goes on, wherever HEAD is.
StaysOnHead(w) ==
    /\ prep[w] = "checkout"
    /\ PrepGoes(w, "ready")
    /\ UNCHANGED <<tree, info>>

SwitchesToPrior(w) ==
    /\ prep[w] = "checkout"
    /\ \/ CheckOut(Prior(worker[w].task)) /\ PrepGoes(w, "ready")
       \/ UNCHANGED tree /\ PrepGoes(w, "fail")
    /\ UNCHANGED info

CreatesBranch(w) ==
    /\ prep[w] = "create"
    /\ \/ CheckOutNew(worker[w].task) /\ PrepGoes(w, "record")
       \/ UNCHANGED tree /\ PrepGoes(w, "fail")
    /\ UNCHANGED info

\* set_branch
RecordsBranch(w) ==
    /\ prep[w] = "record"
    /\ info' = [info EXCEPT ![worker[w].task].branch = worker[w].task]
    /\ PrepGoes(w, "ready")
    /\ UNCHANGED tree

PrepStep(w) ==
    \/ LooksAtRepo(w) \/ LooksAtHead(w) \/ LooksAtStatus(w) \/ LooksForBranch(w)
    \/ SwitchesToPrior(w) \/ CreatesBranch(w) \/ RecordsBranch(w)

\* The steps of TaskLifecycle between which the preparation takes place.
Claims(w) ==
    /\ WorkerClaim(w)
    /\ prep' = [prep EXCEPT ![w] = "repo"]
    /\ UNCHANGED <<tree, info, held, tokens, reset, confirmed, landed>>

\* Mutant: a refusal is not marked on the row.
RefusesUnmarked(w) ==
    /\ \/ prep[w] = "ready" /\ WorkerLaunch(w)
       \/ prep[w] = "fail" /\ PrepFailsUnmarked(w)
    /\ prep' = [prep EXCEPT ![w] = "no"]
    /\ UNCHANGED <<tree, info, held, tokens, reset, confirmed, landed>>

Prepared(w) ==
    /\ \/ prep[w] = "ready" /\ WorkerLaunch(w)
       \/ prep[w] = "fail" /\ WorkerPrepFails(w)
    /\ prep' = [prep EXCEPT ![w] = "no"]
    /\ UNCHANGED <<tree, info, held, tokens, reset, confirmed, landed>>

AfterLaunch(w) ==
    /\ \/ WorkerIdles(w) \/ WorkerExits(w) \/ WorkerSetPid(w) \/ WorkerReaps(w)
       \/ WorkerTimesOut(w) \/ WorkerChecks(w) \/ WorkerMarks(w) \/ WorkerFinishes(w)
       \/ WorkerNotifies(w)
    /\ UNCHANGED treeVars

-----------------------------------------------------------------------------
(* Enqueue, retry and reply, with the two columns.                          *)

(* perform_reset does not let go of claude-chat's loop.  A cancel that is   *)
(* not part of a reset does to the tree what one does whose git commands    *)
(* fail: it is left to TaskLifecycle.                                       *)
Free(s) == reset[s] = "no"

\* Which bodies classify_mutation takes for read-only is wording.
Classified(branch) == [branch : {branch}, verdict : Verdicts]

(* The branch of the task that the answered mail was about, or for a mail   *)
(* about no task the one that is checked out, if it is a task's; none if   *)
(* the mail is not known, another agent's or of another project.           *)
PriorBranches == {0} \cup {Prior(t) : t \in DOMAIN tasks}
                 \cup (IF tree.git THEN {tree.head} ELSE {})

\* apply_reply: the branch is looked up before the worker is ensured.
Replies(s) ==
    /\ StartEnqueue(s)
    /\ \E b \in PriorBranches : \E i \in Classified(b) : held' = [held EXCEPT ![s] = i]

Asks(s) ==
    /\ Free(s)
    /\ \/ /\ "enqueue" \in Requests
          /\ StartEnqueue(s)
          /\ \E i \in Classified(0) : held' = [held EXCEPT ![s] = i]
       \/ "reply" \in Requests /\ Replies(s)
       \/ /\ "retry" \in Requests
          /\ StartRetry(s)
          /\ held' = [held EXCEPT ![s] = info[svc'[s].retry]]
       \/ "route" \in Requests /\ RouteToAgent(s) /\ UNCHANGED held
       \/ StartSweep(s) /\ UNCHANGED held
    /\ UNCHANGED <<tree, info, prep, tokens, reset, confirmed, landed>>

Inserts(s) ==
    /\ InsertTask(s)
    /\ info' = [info EXCEPT ![Len(tasks) + 1] = held[s]]
    /\ held' = [held EXCEPT ![s] = NoInfo]
    /\ UNCHANGED <<tree, prep, tokens, reset, confirmed, landed>>

GoesOn(s) ==
    /\ \/ EnsureWorker(s) \/ SpawnWorker(s) \/ CancelKills(s) \/ CancelMarks(s)
       \/ SvcReads(s) \/ SvcNotifies(s) \/ SweepNext(s) \/ ReapGhost(s)
    /\ UNCHANGED treeVars

-----------------------------------------------------------------------------
(* The reset in two steps.                                                  *)

IssuesToken(s) ==
    /\ s \notin Reapers
    /\ svc[s].pc = "idle" /\ Free(s)
    /\ \E k \in Tokens, p \in {Home, Elsewhere} :
          /\ tokens[k] = NoToken
          /\ \A j \in Tokens : j < k => tokens[j] # NoToken
          /\ tokens' = [tokens EXCEPT ![k] = [for |-> p, stored |-> TRUE, expired |-> FALSE]]
    /\ UNCHANGED <<vars, tree, info, prep, held, reset, confirmed, landed>>

\* Mutant: the token stays in the store.
ConsumeKeeps(k) ==
    /\ UNCHANGED tokens
    /\ tokens[k].stored /\ tokens[k].for = Home /\ ~tokens[k].expired

Consume(k) ==
    /\ tokens' = [tokens EXCEPT ![k].stored = FALSE]
    /\ tokens[k].stored /\ tokens[k].for = Home /\ ~tokens[k].expired

ConsumesToken(s) ==
    /\ s \notin Reapers
    /\ Free(s)
    /\ \E k \in Tokens :
          /\ Consume(k)
          /\ confirmed' = [confirmed EXCEPT ![k] = @ + 1]
    /\ "cancel" \in Requests
    /\ StartCancel(s)
    /\ svc'[s].drain \/ svc'[s].pc = "drain"
    /\ reset' = [reset EXCEPT ![s] = "cancel"]
    /\ UNCHANGED <<tree, info, prep, held, landed>>

\* A token that is refused is gone as well.
RefusesToken(s) ==
    /\ s \notin Reapers
    /\ svc[s].pc = "idle" /\ Free(s)
    /\ \E k \in Tokens :
          /\ tokens[k].stored
          /\ tokens[k].for # Home \/ tokens[k].expired
          /\ tokens' = [tokens EXCEPT ![k] = NoToken]
    /\ UNCHANGED <<vars, tree, info, prep, held, reset, confirmed, landed>>

\* The last step of cancel_running_task.
Drains(s) ==
    /\ DrainQueue(s)
    /\ reset' = [reset EXCEPT ![s] = IF @ = "cancel" THEN "git" ELSE @]
    /\ UNCHANGED <<tree, info, prep, held, tokens, confirmed, landed>>

(* git reset --hard, then git clean: either fails and ends the reset, with  *)
(* some of the changes gone.  What is written between the two is as if     *)
(* written before or after them.                                            *)
ResetsTree(s) ==
    /\ reset[s] = "git"
    /\ \E left \in SUBSET tree.dirty :
          /\ tree.git \/ left = tree.dirty
          /\ tree' = [tree EXCEPT !.dirty = left]
    /\ reset' = [reset EXCEPT ![s] = "no"]
    /\ UNCHANGED <<vars, info, prep, held, tokens, confirmed, landed>>

-----------------------------------------------------------------------------
(* The environment.                                                         *)

\* A claude writes files, and does not switch branches.
ClaudeWrites ==
    /\ \E t \in TaskIds : claude[t] = "live" /\ tree' = [tree EXCEPT !.dirty = @ \cup {t}]
    /\ UNCHANGED <<vars, info, prep, held, tokens, reset, confirmed, landed>>

UserEdits ==
    /\ tree' = [tree EXCEPT !.dirty = @ \cup {User}]
    /\ UNCHANGED <<vars, info, prep, held, tokens, reset, confirmed, landed>>

\* Nobody switches by hand while a worker is at work or the tree is dirty.
UserSwitches ==
    /\ tree.git
    /\ Clean
    /\ \A w \in Workers : worker[w].task = 0
    /\ \E b \in tree.branches \cup {0} : tree' = [tree EXCEPT !.head = b]
    /\ UNCHANGED <<vars, info, prep, held, tokens, reset, confirmed, landed>>

UserDeletesBranch ==
    /\ \E b \in tree.branches \ {tree.head} : tree' = [tree EXCEPT !.branches = @ \ {b}]
    /\ UNCHANGED <<vars, info, prep, held, tokens, reset, confirmed, landed>>

TokenExpires ==
    /\ \E k \in Tokens :
          /\ tokens[k].stored /\ ~tokens[k].expired
          /\ tokens' = [tokens EXCEPT ![k].expired = TRUE]
    /\ UNCHANGED <<vars, tree, info, prep, held, reset, confirmed, landed>>

\* The store is in the memory of claude-chat.
TokensLost ==
    /\ \A s \in Services : Free(s)
    /\ tokens' = [k \in Tokens |-> IF confirmed[k] = 0 THEN NoToken ELSE tokens[k]]
    /\ UNCHANGED <<vars, tree, info, prep, held, reset, confirmed, landed>>

Dies ==
    /\ \/ \E t \in DOMAIN tasks : (ClaudeExits(t) \/ Ages(t)) /\ UNCHANGED <<prep, reset>>
       \/ \E w \in Workers : /\ WorkerCrashes(w)
                             /\ prep' = [prep EXCEPT ![w] = "no"]
                             /\ UNCHANGED reset
       \/ \E s \in Services : /\ SvcAborts(s)
                              /\ reset' = [reset EXCEPT ![s] = "no"]
                              /\ UNCHANGED prep
    /\ UNCHANGED <<tree, info, held, tokens, confirmed, landed>>

TreeNext ==
    \/ \E w \in Workers : Claims(w) \/ PrepStep(w) \/ Prepared(w) \/ AfterLaunch(w)
    \/ \E s \in Services : Asks(s) \/ Inserts(s) \/ GoesOn(s) \/ Drains(s)
    \/ \E s \in Services : IssuesToken(s) \/ ConsumesToken(s) \/ RefusesToken(s) \/ ResetsTree(s)
    \/ CommitProject \/ ClaudeWrites \/ UserEdits \/ UserSwitches \/ UserDeletesBranch
    \/ TokenExpires \/ TokensLost \/ Dies

TreeSpec == TreeInit /\ [][TreeNext]_allVars

-----------------------------------------------------------------------------
(* Properties.                                                              *)

(* A claude that may change the repository, or goes on with earlier work,   *)
(* runs on the branch its row names, through switches, deletions, resets    *)
(* and edits by others (branch_prep.py:3-21).                               *)
MutatorsOnTheirBranch ==
    \A t \in TaskIds :
        /\ tree.git
        /\ claude[t] = "live"
        /\ IsMutating(t) \/ Prior(t) # 0
        => Prior(t) # 0 /\ tree.head = Prior(t)

(* The work of a task that has a branch is found there and nowhere else:    *)
(* its uncommitted changes are in the tree only while that branch is        *)
(* checked out, and no commit, of whomever, puts them on another one, though *)
(* the next tasks share the tree (branch_prep.py:8-13).                     *)
WorkStaysOnItsBranch ==
    \A t \in TaskIds :
        Prior(t) # 0 =>
            /\ tree.git /\ t \in tree.dirty => tree.head = Prior(t)
            /\ \A b \in Branch : <<t, b>> \in landed => b = Prior(t)

(* A project is reset only for a token that was issued for it, had not      *)
(* expired when it was used and was used for nothing else                   *)
(* (reset_control.py:1-10).                                                 *)
ResetsAreConfirmed ==
    \A k \in Tokens :
        /\ confirmed[k] <= 1
        /\ confirmed[k] = 1 => tokens[k].for = Home /\ ~tokens[k].expired /\ ~tokens[k].stored

(* When git reset runs, no claude is at work in the tree                    *)
(* (reset_control.py:8-10).                                                 *)
NothingRunsAtReset ==
    \A s \in Services : reset[s] = "git" => \A t \in TaskIds : claude[t] # "live"

(* Preparation, reset and the hands of others do nothing to the rows and    *)
(* processes that TaskLifecycle does not allow: what is proved of it holds  *)
(* here as well.                                                            *)
ImplementsLifecycle == LifecycleSpec
=============================================================================
