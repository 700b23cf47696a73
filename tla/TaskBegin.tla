------------------------------- MODULE TaskBegin -------------------------------
(***************************************************************************)
(* task begin: begin_task_worktree gives a task one active attempt with a  *)
(* branch, a worktree and, where the checkout declares a recipe, prepared  *)
(* outputs.  It continues the active attempt, resumes the retained worktree*)
(* of the latest one, or makes a fresh worktree; task cleanup, task close, *)
(* cancel and reopen run beside it.  No lock is held across its steps.     *)
(*                                                                         *)
(* One task.  Its status and attempts are those of TaskLifecycle, which    *)
(* the task runtime implements; the effects of a recipe are those of       *)
(* PreparedEffect, which Preparation implements.  A place is a worktree    *)
(* path with its branch; a tree is what one `git worktree add` made there. *)
(* Setup receipts carry times, so two of two calls are never equal, and    *)
(* start_task never takes a second request for the first.                  *)
(***************************************************************************)
EXTENDS Integers, Sequences

CONSTANTS
    Task,           \* the task that is begun
    AttemptIds,     \* identities for its attempts
    Procs,          \* concurrent commands
    Lineages,       \* an actor with a request and an execution prompt
    Places,         \* worktree paths with their branches
    Home,           \* the default place
    None,
    Recipe,         \* does the checkout declare a worktree-preparation handler?
    MaxWork,        \* bound on the commits of a tree
    MaxTrees,       \* bound on the worktrees made
    MaxMoves,       \* bound on cancels and reopens
    MaxFailures     \* bound on deaths and exceptions

ASSUME HomeAssumption == Home \in Places
ASSUME RecipeAssumption == Recipe \in BOOLEAN
ASSUME BoundsAssumption ==
    /\ MaxWork \in Nat /\ MaxTrees \in Nat /\ MaxMoves \in Nat /\ MaxFailures \in Nat
VARIABLES
    status, history, verdict,   \* of the task (TaskLifecycle)
    info,       \* AttemptIds -> the rest of the attempt's row, or None
    prompts,    \* lineages whose two prompts are stored for exact replay
    branch,     \* Places -> [id, work], the tree whose branch exists, or None
    worktree,   \* Places -> is there a registered worktree directory?
    effect,     \* Places -> the effects of the recipe (PreparedEffect)
    claimedFor, \* Places -> the tree the effects were claimed in, or 0
    trees,      \* worktrees made so far
    local,      \* what each process is doing
    answers,    \* success answers: to whom, for which attempt
    moves, failures

runtime == <<status, history, verdict, prompts>>
git == <<branch, worktree, trees>>
recipe == <<effect, claimedFor>>
vars == <<runtime, info, git, recipe, local, answers, moves, failures>>

Runtime == INSTANCE TaskLifecycle WITH
    TaskIds <- {Task}, Verdicts <- {}, Undecided <- None, intent <- verdict

Effects == INSTANCE PreparedEffect WITH Worktrees <- Places

Trees == [id: 0..MaxTrees, work: 0..MaxWork]
Receipts == [status: {"plain", "pending", "ready", "blocked"}, seen: Trees]
Rows == [place: Places, start: Trees, lineage: Lineages, from: AttemptIds \cup {None},
         receipt: Receipts, started: BOOLEAN]

ASSUME NoneAssumption == None \notin AttemptIds \cup Places \cup Trees \cup Rows

Idle == [at |-> "idle"]
NoTree == [id |-> 0, work |-> 0]
Plain == [status |-> "plain", seen |-> NoTree]
Pending == [status |-> "pending", seen |-> NoTree]

Init ==
    /\ status = [t \in {Task} |-> "absent"]
    /\ history = [t \in {Task} |-> <<>>]
    /\ verdict = [a \in AttemptIds |-> None]
    /\ info = [a \in AttemptIds |-> None]
    /\ prompts = {}
    /\ branch = [pl \in Places |-> None]
    /\ worktree = [pl \in Places |-> FALSE]
    /\ effect = [pl \in Places |-> "none"]
    /\ claimedFor = [pl \in Places |-> 0]
    /\ trees = 0
    /\ local = [p \in Procs |-> Idle]
    /\ answers = {}
    /\ moves = 0 /\ failures = 0

-----------------------------------------------------------------------------
(***************************************************************************)
(* What the command reads.                                                 *)
(***************************************************************************)
Attempts == history[Task]
Active == {Attempts[i].id : i \in {j \in DOMAIN Attempts : Attempts[j].outcome = "in_progress"}}
Latest == IF Attempts = <<>> THEN None ELSE Attempts[Len(Attempts)].id

\* Every tree starts at the target branch, which is not rewritten: a start
\* without work of its own is an ancestor of every tree.
Descends(start, head) ==
    start.work > 0 => start.id = head.id /\ start.work <= head.work

\* inspect_task_worktree
Proven(a) ==
    LET pl == info[a].place IN
    /\ worktree[pl] /\ branch[pl] # None
    /\ Descends(info[a].start, branch[pl])

At(p, stage) == local[p].at = stage
My(p) == local[p]
Goto(p, stage) == local' = [local EXCEPT ![p].at = stage]

\* The call answers "blocked" or raises: nothing was changed since the step before.
Refuse(p) == local' = [local EXCEPT ![p] = Idle]

Succeed(p, a) ==
    /\ local' = [local EXCEPT ![p] = Idle]
    /\ answers' = answers \cup {[to |-> local[p].lineage, attempt |-> a]}

\* An exception in the block that makes a fresh worktree: its handler goes by
\* the place and by whether the call made the worktree, and drops the rest.
Raise(p) ==
    local' = [local EXCEPT ![p].at = "caught", ![p].start = NoTree, ![p].expected = Plain,
                           ![p].result = Plain, ![p].attempt = None]

-----------------------------------------------------------------------------
(***************************************************************************)
(* The state of the task is loaded once; what it said decides the route.   *)
(***************************************************************************)
Call(lineage, place) ==
    [at |-> "", lineage |-> lineage, place |-> place, new |-> status[Task] = "absent",
     attempt |-> None, from |-> None, made |-> FALSE, start |-> NoTree,
     expected |-> Plain, result |-> Plain]

SameLineage_any(a, lineage) == TRUE                               \* mutant

SameLineage(a, lineage) == info[a].lineage = lineage

LoadActive(p, lineage, place) ==
    \E a \in Active :
       /\ SameLineage(a, lineage)
       /\ local' = [local EXCEPT ![p] = [Call(lineage, info[a].place)
             EXCEPT !.at = "active", !.attempt = a, !.expected = info[a].receipt]]

\* place is None when neither --path nor --branch was given.
LoadIdle(p, lineage, place) ==
    /\ Active = {} /\ status[Task] \in {"absent", "planned"}
    /\ local' = [local EXCEPT ![p] = [Call(lineage, place)
          EXCEPT !.at = "guard", !.from = Latest]]

\* A call in any other state of the task raises at once.
Load(p) ==
    /\ local[p] = Idle
    /\ \E lineage \in Lineages, place \in Places \cup {None} :
          LoadActive(p, lineage, place) \/ LoadIdle(p, lineage, place)
    /\ UNCHANGED <<runtime, info, git, recipe, answers, moves, failures>>

(***************************************************************************)
(* The guards of the repository: commands that may pass the request, block *)
(* it, or fail in any way.  Only a passed result lets the call go on.      *)
(***************************************************************************)
GuardResults == {"passed", "blocked", "failed"}

Admits(result) == result = "passed"

Guard(p) ==
    /\ At(p, "guard")
    /\ \E result \in GuardResults :
          IF Admits(result) THEN Goto(p, IF My(p).from = None THEN "check" ELSE "latest")
          ELSE Refuse(p)
    /\ UNCHANGED <<runtime, info, git, recipe, answers, moves, failures>>

ProveActive(p) ==
    /\ At(p, "active")
    /\ IF Proven(My(p).attempt) THEN Goto(p, "validate") ELSE Refuse(p)
    /\ UNCHANGED <<runtime, info, git, recipe, answers, moves, failures>>

\* A retained worktree that is not proven is preserved, not replaced.
ProveLatest(p) ==
    LET a == My(p).from  pl == info[a].place IN
    /\ At(p, "latest")
    /\ IF Proven(a)
       THEN IF SameLineage(a, My(p).lineage) /\ My(p).place \in {None, pl}
            THEN local' = [local EXCEPT ![p].at = "retained", ![p].place = pl]
            ELSE Refuse(p)
       ELSE IF worktree[pl] THEN Refuse(p)
       ELSE local' = [local EXCEPT ![p].at = "check", ![p].from = None]
    /\ UNCHANGED <<runtime, info, git, recipe, answers, moves, failures>>

-----------------------------------------------------------------------------
(***************************************************************************)
(* Verification of retained handler outputs.  It is ready only with the    *)
(* completed effects of this very tree; a changed input, tool or output, a *)
(* failing check or a removed handler blocks it at any time.               *)
(***************************************************************************)
Retained_any_tree(pl) == worktree[pl] /\ (Recipe => effect[pl] = "done")     \* mutant

Retained(pl) ==
    /\ worktree[pl]
    /\ Recipe => effect[pl] = "done" /\ claimedFor[pl] = branch[pl].id

Ready == IF Recipe THEN "ready" ELSE "plain"

\* What the read-only check of a handler finds: the Python environment and the
\* Blackdog launcher can be changed by anybody at any time.
OverlayFinds == BOOLEAN
RuntimeFinds == BOOLEAN
PreparationFinds(pl) == IF Retained(pl) THEN BOOLEAN ELSE {FALSE}

\* The worktree is ready when no handler blocks it.
Findings(pl, unseen) ==
    {[status |-> IF overlay /\ launcher /\ prepared THEN Ready ELSE "blocked",
      seen   |-> IF worktree[pl] THEN branch[pl] ELSE unseen] :
        overlay \in OverlayFinds, launcher \in RuntimeFinds, prepared \in PreparationFinds(pl)}

\* The lock of the preparation is held while its effects run.
Validate(p) ==
    LET pl == My(p).place IN
    /\ At(p, "validate")
    /\ effect[pl] # "claimed"
    /\ \E found \in Findings(pl, My(p).expected.seen) :
          local' = [local EXCEPT ![p].at = IF Recipe THEN "record" ELSE "repair",
                                 ![p].result = found]
    /\ UNCHANGED <<runtime, info, git, recipe, answers, moves, failures>>

Overwritable_unread(a, expected, result) == TRUE                  \* mutant

Overwritable(a, expected, result) == info[a].receipt \in {expected, result}

\* record_task_setup
Recordable(p) ==
    /\ My(p).attempt \in Active
    /\ Overwritable(My(p).attempt, My(p).expected, My(p).result)

WriteReceipt(p) == info' = [info EXCEPT ![My(p).attempt].receipt = My(p).result]

RecordSetup(p) ==
    /\ At(p, "record") /\ Recordable(p)
    /\ WriteReceipt(p)
    /\ Goto(p, "repair")
    /\ UNCHANGED <<runtime, git, recipe, answers, moves, failures>>

RejectRecord(p) ==
    /\ At(p, "record") /\ ~Recordable(p)
    /\ Refuse(p)
    /\ UNCHANGED <<runtime, info, git, recipe, answers, moves, failures>>

Answer(p) ==
    IF My(p).result.status = "blocked" THEN Refuse(p) /\ UNCHANGED answers
    ELSE Succeed(p, My(p).attempt)

RepairStart_skipped(p) ==                                         \* mutant
    /\ At(p, "repair")
    /\ Answer(p)
    /\ UNCHANGED <<runtime, info, git, recipe, moves, failures>>

\* repair_task_start_events, then the answer.
RepairStart(p) ==
    LET a == My(p).attempt IN
    /\ At(p, "repair")
    /\ IF a \in Active
       THEN info' = [info EXCEPT ![a].started = TRUE] /\ Answer(p)
       ELSE Refuse(p) /\ UNCHANGED <<info, answers>>
    /\ UNCHANGED <<runtime, git, recipe, moves, failures>>

-----------------------------------------------------------------------------
(***************************************************************************)
(* A retained worktree is validated, then the prompts are stored.           *)
(***************************************************************************)
ValidateRetained(p) ==
    LET pl == My(p).place IN
    /\ At(p, "retained")
    /\ effect[pl] # "claimed"
    /\ \E found \in Findings(pl, NoTree) :
          IF found.status = "blocked" THEN Refuse(p)
          ELSE local' = [local EXCEPT ![p].at = "persist", ![p].result = found]
    /\ UNCHANGED <<runtime, info, git, recipe, answers, moves, failures>>

NextStage(p) ==
    IF My(p).from # None
    THEN IF worktree[My(p).place]
         THEN local' = [local EXCEPT ![p].at = "start", ![p].start = branch[My(p).place]]
         ELSE Refuse(p)
    ELSE Goto(p, IF My(p).new THEN "create" ELSE "start")

PersistPrompts_resumed_only(p) ==                                 \* mutant
    /\ At(p, "persist")
    /\ prompts' = IF My(p).from = None THEN prompts ELSE prompts \cup {My(p).lineage}
    /\ NextStage(p)
    /\ UNCHANGED <<status, history, verdict, info, git, recipe, answers, moves, failures>>

\* persist_prompt_receipts: content-addressed files, linked into place whole;
\* then the HEAD of a retained worktree is read.
PersistPrompts(p) ==
    /\ At(p, "persist")
    /\ prompts' = prompts \cup {My(p).lineage}
    /\ NextStage(p)
    /\ UNCHANGED <<status, history, verdict, info, git, recipe, answers, moves, failures>>

-----------------------------------------------------------------------------
(***************************************************************************)
(* A fresh worktree.                                                       *)
(***************************************************************************)
CheckFresh(p) ==
    LET pl == IF My(p).place = None THEN Home ELSE My(p).place IN
    /\ At(p, "check")
    /\ IF worktree[pl] THEN Refuse(p)
       ELSE local' = [local EXCEPT ![p].at = "add", ![p].place = pl]
    /\ UNCHANGED <<runtime, info, git, recipe, answers, moves, failures>>

\* git worktree add refuses a path or a branch that exists.
AddWorktree(p) ==
    LET pl == My(p).place  tree == [id |-> trees + 1, work |-> 0] IN
    /\ At(p, "add")
    /\ IF worktree[pl] \/ branch[pl] # None
       THEN Raise(p) /\ UNCHANGED git
       ELSE /\ trees < MaxTrees
            /\ trees' = trees + 1
            /\ branch' = [branch EXCEPT ![pl] = tree]
            /\ worktree' = [worktree EXCEPT ![pl] = TRUE]
            /\ local' = [local EXCEPT ![p].at = "persist", ![p].made = TRUE, ![p].start = tree,
                                      ![p].result = IF Recipe THEN Pending ELSE Plain]
    /\ UNCHANGED <<runtime, info, recipe, answers, moves, failures>>

\* create_task adopts a task that is there already.
CreateTask(p) ==
    /\ At(p, "create")
    /\ IF status[Task] = "absent" THEN Runtime!AbsCreate(Task)
       ELSE UNCHANGED <<status, history, verdict>>
    /\ Goto(p, "start")
    /\ UNCHANGED <<prompts, info, git, recipe, answers, moves, failures>>

\* task_resume_attempt_id names an attempt by its predecessor and its lineage.
Taken(p) ==
    /\ My(p).from # None
    /\ \E a \in AttemptIds : /\ info[a] # None
                             /\ info[a].from = My(p).from
                             /\ SameLineage(a, My(p).lineage)

Startable(p) == status[Task] = "planned" /\ Active = {} /\ ~Taken(p)

\* start_task: the row is saved, its events follow.
StartTask(p) ==
    /\ At(p, "start") /\ Startable(p)
    /\ \E a \in AttemptIds :
          /\ Runtime!AbsStart(Task, a)
          /\ info' = [info EXCEPT ![a] =
                [place |-> My(p).place, start |-> My(p).start, lineage |-> My(p).lineage,
                 from |-> My(p).from, receipt |-> My(p).result, started |-> FALSE]]
          /\ local' = [local EXCEPT ![p].at = "events", ![p].attempt = a,
                                    ![p].expected = My(p).result]
    /\ UNCHANGED <<prompts, git, recipe, answers, moves, failures>>

RefuseStart(p) ==
    /\ At(p, "start") /\ ~Startable(p)
    /\ IF My(p).from = None THEN Raise(p) ELSE Refuse(p)
    /\ UNCHANGED <<runtime, info, git, recipe, answers, moves, failures>>

StartEvents(p) ==
    LET a == My(p).attempt IN
    /\ At(p, "events")
    /\ info' = [info EXCEPT ![a].started = TRUE]
    /\ IF Recipe /\ My(p).from = None
       THEN Goto(p, "claim") /\ UNCHANGED answers
       ELSE Succeed(p, a)
    /\ UNCHANGED <<runtime, git, recipe, moves, failures>>

(***************************************************************************)
(* The recipe runs once the attempt is active (prepare_worktree, as        *)
(* PreparedEffect).  Its evidence is filed under the path of the worktree. *)
(***************************************************************************)
ClaimEffect(p) ==
    LET pl == My(p).place IN
    /\ At(p, "claim") /\ worktree[pl]
    /\ Effects!Trans(pl, "none", "claimed")
    /\ claimedFor' = [claimedFor EXCEPT ![pl] = branch[pl].id]
    /\ Goto(p, "run")
    /\ UNCHANGED <<runtime, info, git, answers, moves, failures>>

\* The preparation is not admitted, or its evidence is there already: it is
\* verified, or blocks; or a handler after it blocks.
VerifyEffect(p) ==
    LET pl == My(p).place IN
    /\ At(p, "claim") /\ worktree[pl]
    /\ effect[pl] # "claimed"
    /\ \E found \in Findings(pl, NoTree) :
          local' = [local EXCEPT ![p].at = "recorded", ![p].result = found]
    /\ UNCHANGED <<runtime, info, git, recipe, answers, moves, failures>>

\* The checkout is gone, and with it the recipe.
MissEffect(p) ==
    /\ At(p, "claim") /\ ~worktree[My(p).place]
    /\ Raise(p)
    /\ UNCHANGED <<runtime, info, git, recipe, answers, moves, failures>>

\* The effects are completed, though a handler after them may block, or fail.
RunEffect(p) ==
    LET pl == My(p).place IN
    /\ At(p, "run")
    /\ \/ /\ worktree[pl] /\ branch[pl].id = claimedFor[pl]
          /\ Effects!Trans(pl, "claimed", "done")
          /\ \E result \in {"ready", "blocked"} :
               local' = [local EXCEPT ![p].at = "recorded",
                  ![p].result = [status |-> result, seen |-> branch[pl]]]
       \/ /\ Effects!Trans(pl, "claimed", "unknown")
          /\ local' = [local EXCEPT ![p].at = "recorded",
                ![p].result = [status |-> "blocked", seen |-> My(p).start]]
    /\ UNCHANGED <<runtime, info, git, claimedFor, answers, moves, failures>>

RecordFresh(p) ==
    /\ At(p, "recorded")
    /\ IF Recordable(p) THEN WriteReceipt(p) /\ Answer(p)
       ELSE Raise(p) /\ UNCHANGED <<info, answers>>
    /\ UNCHANGED <<runtime, git, recipe, moves, failures>>

-----------------------------------------------------------------------------
(***************************************************************************)
(* The exception branch: an active attempt makes the answer "partial",     *)
(* otherwise the worktree this call added is removed by force.             *)
(***************************************************************************)
Caught(p) ==
    /\ At(p, "caught")
    /\ IF Active = {} /\ My(p).made THEN Goto(p, "remove") ELSE Refuse(p)
    /\ UNCHANGED <<runtime, info, git, recipe, answers, moves, failures>>

ForceRemove(p) ==
    /\ At(p, "remove")
    /\ worktree' = [worktree EXCEPT ![My(p).place] = FALSE]
    /\ Goto(p, "unbranch")
    /\ UNCHANGED <<runtime, info, branch, trees, recipe, answers, moves, failures>>

\* git branch -D refuses a branch that is checked out.
DeleteBranch(p) ==
    LET pl == My(p).place IN
    /\ At(p, "unbranch")
    /\ branch' = IF worktree[pl] THEN branch ELSE [branch EXCEPT ![pl] = None]
    /\ Refuse(p)
    /\ UNCHANGED <<runtime, info, worktree, trees, recipe, answers, moves, failures>>

(***************************************************************************)
(* task cleanup: without a lock, and with one look at the runtime.         *)
(***************************************************************************)
CleanupLoad(p) ==
    /\ local[p] = Idle
    /\ Active = {} /\ Latest # None
    /\ local' = [local EXCEPT ![p] = [Call(None, info[Latest].place) EXCEPT !.at = "cleanup"]]
    /\ UNCHANGED <<runtime, info, git, recipe, answers, moves, failures>>

\* Nothing is landed here: a branch is contained in the target while it has
\* no work.
CleanupProve(p) ==
    LET pl == My(p).place IN
    /\ At(p, "cleanup")
    /\ IF branch[pl] # None /\ branch[pl].work > 0 THEN Refuse(p)
       ELSE Goto(p, IF worktree[pl] THEN "remove" ELSE "unbranch")
    /\ UNCHANGED <<runtime, info, git, recipe, answers, moves, failures>>

(***************************************************************************)
(* A death, or an exception: caught in the block that makes a fresh        *)
(* worktree, reported everywhere else.  Running effects are unknown then.  *)
(* At "claim" it is also a handler before the preparation that blocks: a   *)
(* setup without the evidence of the preparation is no receipt.            *)
(***************************************************************************)
Guarded == {"add", "persist", "create", "start", "events", "claim", "run", "recorded"}

Fail(p) ==
    /\ local[p] # Idle
    /\ failures < MaxFailures
    /\ failures' = failures + 1
    /\ IF At(p, "run")
       THEN Effects!Trans(My(p).place, "claimed", "unknown")
       ELSE UNCHANGED effect
    /\ \/ Refuse(p)
       \/ My(p).at \in Guarded /\ My(p).from = None /\ Raise(p)
    /\ UNCHANGED <<runtime, info, git, claimedFor, answers, moves>>

(***************************************************************************)
(* Around task begin: the agent commits in the worktree of an active       *)
(* attempt, task close ends it, cancel and reopen make it startable again. *)
(***************************************************************************)
Work(a) ==
    LET pl == info[a].place IN
    /\ a \in Active
    /\ worktree[pl] /\ branch[pl].work < MaxWork
    /\ branch' = [branch EXCEPT ![pl].work = @ + 1]
    /\ UNCHANGED <<runtime, info, worktree, trees, recipe, local, answers, moves, failures>>

\* task close: AbsDecide and AbsFinish in one step.
Close(a) ==
    /\ a \in Active
    /\ verdict' = [verdict EXCEPT ![a] = [status |-> "failed"]]
    /\ history' = [history EXCEPT ![Task][Len(Attempts)].outcome = "failed"]
    /\ status' = [status EXCEPT ![Task] = Runtime!AbsTaskStatus("failed")]
    /\ UNCHANGED <<prompts, info, git, recipe, local, answers, moves, failures>>

Moved(from, to) ==
    /\ moves < MaxMoves /\ moves' = moves + 1
    /\ status[Task] \in from
    /\ status' = [status EXCEPT ![Task] = to]
    /\ UNCHANGED <<history, verdict, prompts, info, git, recipe, local, answers, failures>>

\* task cancel and task reopen; a repeated one changes nothing.
Cancel == Active = {} /\ Moved({"planned", "blocked"}, "canceled")

Reopen == Active = {} /\ Moved({"canceled"}, "planned")

Step(p) ==
    \/ Load(p) \/ Guard(p) \/ ProveActive(p) \/ Validate(p) \/ RecordSetup(p) \/ RejectRecord(p)
    \/ RepairStart(p)
    \/ ProveLatest(p) \/ ValidateRetained(p) \/ PersistPrompts(p)
    \/ CheckFresh(p) \/ AddWorktree(p) \/ CreateTask(p)
    \/ StartTask(p) \/ RefuseStart(p) \/ StartEvents(p)
    \/ ClaimEffect(p) \/ VerifyEffect(p) \/ MissEffect(p) \/ RunEffect(p) \/ RecordFresh(p)
    \/ Caught(p) \/ ForceRemove(p) \/ DeleteBranch(p)
    \/ CleanupLoad(p) \/ CleanupProve(p)

Next ==
    \/ \E p \in Procs : Step(p) \/ Fail(p)
    \/ \E a \in AttemptIds : Work(a) \/ Close(a)
    \/ Cancel \/ Reopen

Spec == Init /\ [][Next]_vars

-----------------------------------------------------------------------------
(***************************************************************************)
(* Properties                                                              *)
(***************************************************************************)
\* verify_prompt_artifact: the private file under the hash of a prompt holds it.
Stored(lineage) == lineage \in prompts

\* _canonical_execution_replay: a request that names the stored artifact of an
\* attempt's execution prompt is recognised as the request that started it.
Replayable(a) == info[a] # None /\ Stored(info[a].lineage)

\* Types; rows and their attempts come together, and the prompts a row names
\* are stored, so that its begin can be repeated exactly.
TypeOK ==
    /\ \A a \in AttemptIds : info[a] # None <=> Runtime!Attempted(a)
    /\ \A a \in AttemptIds : info[a] # None => info[a] \in Rows /\ Replayable(a)
    /\ prompts \subseteq Lineages
    /\ branch \in [Places -> Trees \cup {None}]
    /\ worktree \in [Places -> BOOLEAN]
    /\ \A pl \in Places : worktree[pl] => branch[pl] # None
    /\ effect \in [Places -> {"none", "claimed", "done", "unknown"}]
    /\ trees \in 0..MaxTrees

\* "succeeded" is answered only to the actor and the prompts the attempt was
\* started with, and only once its start evidence is recorded, whatever other
\* calls did between the steps of this one (begin_task_worktree).
AnswersOwn ==
    \A r \in answers : info[r.attempt].lineage = r.to /\ info[r.attempt].started

\* A receipt that says ready names the tree in which the recorded effects of
\* its recipe were completed, also when the path was used by an earlier
\* worktree (prepare_worktree, record_task_setup).
ReadyIsPrepared ==
    \A a \in AttemptIds : info[a] # None /\ info[a].receipt.status = "ready" =>
        LET pl == info[a].place IN
        effect[pl] = "done" /\ claimedFor[pl] = info[a].receipt.seen.id

\* A receipt is never replaced by one that saw less of the same tree: a slow
\* verification does not bury a later one (the expected receipt of
\* record_task_setup).
ReceiptsAdvance ==
    [][\A a \in AttemptIds : info[a] # None =>
          LET before == info[a].receipt.seen  after == info'[a].receipt.seen IN
          before.id = after.id => before.work <= after.work]_info

\* "Failure preserves the attempt, workspace and evidence": no commit of an
\* attempt goes with a branch that task begin deletes.  The rollback of a begin
\* looks only for an active attempt, so it takes the workspace of an attempt
\* that was started, worked in and closed meanwhile: see the run begin_closed.
FailureKeepsWork ==
    [][\A pl \in Places : branch[pl] # None /\ branch'[pl] = None => branch[pl].work = 0]_branch

\* The preparation of a fresh worktree is not decided by what an earlier
\* worktree at its path left.  The code files intent and receipt under the
\* path and nothing removes them: see TaskBegin_again.cfg.
FreshIsPrepared ==
    \A a \in AttemptIds : info[a] # None /\ info[a].receipt.status = "blocked" =>
        claimedFor[info[a].place] \in {0, info[a].receipt.seen.id}
=============================================================================
