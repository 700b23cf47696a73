------------------------------- MODULE Landing -------------------------------
(***************************************************************************)
(* The landing transaction of blackdog/landing.py and blackdog/wtam.py:    *)
(* task land freezes the work of an attempt, makes one canonical commit of *)
(* it in a temporary worktree, moves the target branch to that commit,     *)
(* ends the attempt and removes the task workspace, recording a phase in   *)
(* the ledger after each effect.  A failure before the target moves turns  *)
(* the transaction into an abort.  task close, task recover, task cleanup  *)
(* and task reconcile-landing run beside it.                               *)
(*                                                                         *)
(* One task.  Its status, attempts and verdicts are those of TaskLifecycle,*)
(* which the task runtime implements: finish_task is AbsDecide followed by *)
(* AbsFinish, and a verdict other than the recorded one is refused.        *)
(*                                                                         *)
(* A commit of the target branch is a foreign commit or a canonical commit *)
(* [of, n]: the n-th one made for attempt `of`.  The branch only grows, so *)
(* its length names its head and a base is a length.  The work of an       *)
(* attempt is the number of commits on its branch.                         *)
(***************************************************************************)
EXTENDS Integers, Sequences, FiniteSets

CONSTANTS
    Task,           \* the task whose attempts are landed
    AttemptIds,     \* its attempts
    Procs,          \* concurrent CLI processes
    None,           \* no intent, no verdict
    Free,           \* value of a lock nobody holds
    Calls,          \* the commands processes run, a subset of Commands
    EndStatuses,    \* statuses task close and task recover are called with
    LateEdits,      \* may the agent commit once the attempt is being landed?
    MaxEdits,       \* bound on the commits of an attempt
    MaxForeign,     \* bound on commits others put on the target branch
    MaxMoves,       \* bound on cancels and reopens
    MaxFailures     \* bound on process deaths and failing commands

Commands == {"land", "reconcile", "close", "recover", "cleanup"}

ASSUME CallsAssumption == Calls \subseteq Commands
ASSUME EndAssumption == EndStatuses \subseteq {"blocked", "failed", "abandoned"}
ASSUME SwitchAssumption == LateEdits \in BOOLEAN
ASSUME BoundsAssumption ==
    MaxEdits \in Nat /\ MaxForeign \in Nat /\ MaxMoves \in Nat /\ MaxFailures \in Nat
ASSUME FreeAssumption == Free \notin Procs

(***************************************************************************)
(* LANDING_PHASES and the abort stages, by their place in the order.       *)
(***************************************************************************)
IntentRecorded == 1
SourcePrepared == 2
CanonicalCreated == 3
TargetUpdated == 4
TemporaryCleaned == 5
RuntimeFinalized == 6
LandEventRecorded == 7
TaskCleaned == 8
Complete == 9

AbortRequested == 1
AbortCleaned == 2
AbortFinalized == 3
AbortClosed == 4
AbortComplete == 5

VARIABLES
    status,         \* {Task} -> status (TaskLifecycle)
    history,        \* {Task} -> attempts in order (TaskLifecycle)
    verdict,        \* AttemptIds -> finalization request, or None (TaskLifecycle)
    rows,           \* AttemptIds -> its landing rows in the ledger, in order
    tx,             \* AttemptIds -> the landing transaction those rows mean
    landEvents,     \* attempts with a worktree.land event
    target,         \* the target branch
    source,         \* AttemptIds -> task branch and workspace
    temp,           \* AttemptIds -> temporary landing branch and worktree
    made,           \* AttemptIds -> canonical commits made
    lock,           \* AttemptIds -> holder of the attempt lifecycle lock
    local,          \* what each process is about to do
    moves,          \* cancels and reopens so far
    failures        \* failures so far

runtime == <<status, history, verdict>>
git == <<target, source, temp, made>>
evidence == <<rows, tx, landEvents>>
vars == <<runtime, evidence, git, lock, local, moves, failures>>

Runtime == INSTANCE TaskLifecycle WITH
    TaskIds <- {Task}, Verdicts <- {}, Undecided <- None, intent <- verdict

Idle == [at |-> "idle"]

Foreign == [of |-> None, n |-> 0]
Canonical(a, n) == [of |-> a, n |-> n]

NoTransaction == [intent |-> None, phase |-> 0, abort |-> 0, canonical |-> 0]

Init ==
    /\ status = [t \in {Task} |-> "planned"]
    /\ history = [t \in {Task} |-> <<>>]
    /\ verdict = [a \in AttemptIds |-> None]
    /\ rows = [a \in AttemptIds |-> <<>>]
    /\ tx = [a \in AttemptIds |-> NoTransaction]
    /\ landEvents = {}
    /\ target = <<>>
    /\ source = [a \in AttemptIds |-> [commits |-> 0, branch |-> FALSE, worktree |-> FALSE]]
    /\ temp = [a \in AttemptIds |-> "none"]
    /\ made = [a \in AttemptIds |-> 0]
    /\ lock = [a \in AttemptIds |-> Free]
    /\ local = [p \in Procs |-> Idle]
    /\ moves = 0
    /\ failures = 0

-----------------------------------------------------------------------------
(***************************************************************************)
(* What the commands read.                                                 *)
(***************************************************************************)
Attempts == history[Task]
Started(a) == \E i \in DOMAIN Attempts : Attempts[i].id = a
Latest(a) == Attempts # <<>> /\ Attempts[Len(Attempts)].id = a
OutcomeOf(a) == Attempts[CHOOSE i \in DOMAIN Attempts : Attempts[i].id = a].outcome
Active(a) == Started(a) /\ OutcomeOf(a) = "in_progress"
NoneActive == \A a \in AttemptIds : ~Active(a)

HasIntent(a) == tx[a].intent # None
AbortSeen(a) == tx[a].abort >= AbortRequested

Terminal(a) == tx[a].phase = Complete \/ tx[a].abort = AbortComplete
Incomplete(a) == HasIntent(a) /\ ~Terminal(a)

\* _first_incomplete_landing: the newest attempt whose transaction is open.
FirstIncomplete(a) ==
    \E i \in DOMAIN Attempts :
      /\ Attempts[i].id = a
      /\ Incomplete(a)
      /\ \A j \in DOMAIN Attempts : j > i => ~Incomplete(Attempts[j].id)

OnTarget(commit) == \E i \in DOMAIN target : target[i] = commit

\* The canonical commit recorded for attempt a is on the target branch.
Landed(a) == tx[a].canonical > 0 /\ OnTarget(Canonical(a, tx[a].canonical))

\* The squash of a source that was not rebased onto its frozen base does not
\* have the frozen tree.
Verified(intent) == intent.rebased = intent.base

\* _validate_landing_transaction
ValidTransaction(a, row) ==
    /\ row.phase >= SourcePrepared /\ source[a].worktree =>
          source[a].branch /\ source[a].commits = row.intent.head
    /\ row.phase >= CanonicalCreated => Verified(row.intent)
    /\ row.phase >= TargetUpdated => OnTarget(Canonical(a, row.canonical))
    /\ row.phase >= TemporaryCleaned => temp[a] = "none"
    /\ row.phase >= RuntimeFinalized => OutcomeOf(a) = "success"
    /\ row.phase >= LandEventRecorded => a \in landEvents
    /\ row.phase >= TaskCleaned /\ row.intent.cleanup =>
          ~source[a].worktree /\ ~source[a].branch

-----------------------------------------------------------------------------
(***************************************************************************)
(* load_landing_transaction: what it makes of the rows of a transaction,   *)
(* and the order of rows it insists on.                                    *)
(***************************************************************************)
Positions(ledger, kind) == {i \in DOMAIN ledger : ledger[i].kind = kind}

\* The rows of a kind are the first of their order, each once and in place.
StrictPrefix(ledger, kind) ==
    \A i \in Positions(ledger, kind) :
       ledger[i].n = Cardinality({j \in Positions(ledger, kind) : j <= i})

\* Abort stages have no gap and follow the intent; no phase follows an abort,
\* and no abort a target update.
AbortInPlace(ledger) ==
    /\ StrictPrefix(ledger, "abort")
    /\ \A i, j \in DOMAIN ledger : ledger[i].kind = "abort" =>
          /\ ledger[1].kind = "phase"
          /\ ledger[j].kind = "phase" => j < i /\ ledger[j].n < TargetUpdated

Loadable(ledger) == StrictPrefix(ledger, "phase") /\ AbortInPlace(ledger)

Loaded(ledger) ==
    [phase |-> Cardinality(Positions(ledger, "phase")),
     abort |-> Cardinality(Positions(ledger, "abort"))]

DurableTx(a) == [phase |-> tx[a].phase, abort |-> tx[a].abort]

-----------------------------------------------------------------------------
(***************************************************************************)
(* Process control.  A job is the rest of a command: where it stands, the  *)
(* command, its attempt, and the intent it read or froze.                  *)
(***************************************************************************)
Job(at, op, a, intent) == [at |-> at, op |-> op, a |-> a, intent |-> intent, k |-> 0]

\* An abort; its k tells whether the abort was durable when it was read.
AbortJob(a) ==
    [Job("abort_enter", "abort", a, tx[a].intent)
        EXCEPT !.k = IF AbortSeen(a) THEN AbortRequested ELSE 0]

Engaged(p, a) == local[p] # Idle /\ local[p].a = a
At(p, stage) == local[p].at = stage
Goto(p, job) == local' = [local EXCEPT ![p] = job]
Continue(p, stage) == Goto(p, [local[p] EXCEPT !.at = stage, !.k = 0])
ToRecord(p, phase) == Goto(p, [local[p] EXCEPT !.at = "record", !.k = phase])

Lock(p, a) == lock[a] = Free /\ lock' = [lock EXCEPT ![a] = p]

Unlock(p) == lock' = [a \in AttemptIds |-> IF lock[a] = p THEN Free ELSE lock[a]]
Leave(p) == Goto(p, Idle) /\ Unlock(p)

\* Every command but task land reports what is durable, with the request to
\* repeat, and changes nothing more.
Report(p) == Goto(p, Idle)

\* An exception leaves the locked section.  task land then decides on what
\* the ledger holds.
Raise(p, fault) ==
    /\ IF local[p].op = "land"
       THEN Goto(p, [at |-> "caught", op |-> "land", a |-> local[p].a, fault |-> fault])
       ELSE Report(p)
    /\ Unlock(p)

\* Where a run of transaction row goes on: after its last durable phase.
Proceed(p, row) ==
    LET a == local[p].a
    IN  IF row.phase = Complete THEN Leave(p)
        ELSE /\ UNCHANGED lock
             /\ CASE row.phase = IntentRecorded    -> ToRecord(p, SourcePrepared)
                  [] row.phase = SourcePrepared    -> Continue(p, "temp_add")
                  [] row.phase = CanonicalCreated  -> Continue(p, "target")
                  [] row.phase = TargetUpdated     -> Continue(p, "temp_remove")
                  [] row.phase = TemporaryCleaned  -> Continue(p, "finish")
                  [] row.phase = RuntimeFinalized  -> Continue(p, "land_event")
                  [] row.phase = LandEventRecorded -> IF row.intent.cleanup
                                                      THEN Continue(p, "prove")
                                                      ELSE ToRecord(p, TaskCleaned)
                  [] row.phase = TaskCleaned       -> ToRecord(p, Complete)

-----------------------------------------------------------------------------
(***************************************************************************)
(* The task and the world around it.                                       *)
(***************************************************************************)
\* task begin, as far as landing sees it: an attempt with its branch and
\* workspace.
Begin(a) ==
    /\ Runtime!AbsStart(Task, a)
    /\ source' = [source EXCEPT ![a] = [commits |-> 0, branch |-> TRUE, worktree |-> TRUE]]
    /\ UNCHANGED <<evidence, target, temp, made, lock, local, moves, failures>>

Moved(from, to) ==
    /\ moves < MaxMoves
    /\ moves' = moves + 1
    /\ status[Task] \in from
    /\ status' = [status EXCEPT ![Task] = to]
    /\ UNCHANGED <<history, verdict, evidence, git, lock, local, failures>>

\* task cancel.  A repeated cancel or reopen changes nothing.
Cancel == NoneActive /\ Moved({"planned", "blocked"}, "canceled")

\* task reopen.
Reopen == NoneActive /\ Moved({"canceled"}, "planned")

\* The agent commits in the task workspace, though never while a cleanup of
\* it is in hand, and once the landing began only if LateEdits.
AgentCommit(a) ==
    /\ source[a].worktree
    /\ source[a].commits < MaxEdits
    /\ \A p \in Procs : Engaged(p, a) => local[p].at \notin {"remove", "branch"}
    /\ LateEdits \/ (~HasIntent(a) /\ \A p \in Procs : ~Engaged(p, a))
    /\ source' = [source EXCEPT ![a].commits = @ + 1]
    /\ UNCHANGED <<runtime, evidence, target, temp, made, lock, local, moves, failures>>

\* Somebody else moves the target branch.
ForeignCommit ==
    /\ Cardinality({i \in DOMAIN target : target[i] = Foreign}) < MaxForeign
    /\ target' = Append(target, Foreign)
    /\ UNCHANGED <<runtime, evidence, source, temp, made, lock, local, moves, failures>>

-----------------------------------------------------------------------------
(***************************************************************************)
(* task land up to the lock.                                               *)
(***************************************************************************)
\* The attempt's worktree is registered with its branch checked out.
Workspace(a) == source[a].worktree /\ source[a].branch

\* _prepare_source: the branch is rebased onto the head of the target where it
\* does not hold it, validated again, and what is uncommitted is committed.
Rebased == Len(target)

\* A first call.
LandFresh(p, a) ==
    /\ "land" \in Calls
    /\ local[p] = Idle
    /\ Active(a)
    /\ \A b \in AttemptIds : ~FirstIncomplete(b)
    /\ Workspace(a)
    /\ Goto(p, [at |-> "freeze", op |-> "land", a |-> a, rebased |-> Rebased])
    /\ UNCHANGED <<runtime, evidence, git, lock, moves, failures>>

\* What the first row of a transaction says, and every retry repeats.
LandingIntent(head, rebased, base, cleanup) ==
    [head |-> head, rebased |-> rebased, base |-> base, cleanup |-> cleanup]

\* _landing_intent reads both heads again and freezes the request.
LandFreeze(p) ==
    LET my == local[p]
    IN  /\ At(p, "freeze")
        /\ IF source[my.a].commits = 0
           THEN Goto(p, Idle)
           ELSE \E cleanup \in BOOLEAN :
                  Goto(p, Job("enter", "land", my.a,
                              LandingIntent(source[my.a].commits, my.rebased,
                                            Len(target), cleanup)))
        /\ UNCHANGED <<runtime, evidence, git, lock, moves, failures>>

\* The exact retry: it adopts the intent of the open transaction, or goes on
\* with its abort; an abort that ended is only confirmed.
LandRetry(p, a) ==
    /\ "land" \in Calls
    /\ local[p] = Idle
    /\ Started(a)
    /\ \A b \in AttemptIds : Active(b) => b = a
    /\ \/ FirstIncomplete(a)
       \/ /\ \A b \in AttemptIds : ~FirstIncomplete(b)
          /\ NoneActive /\ Latest(a) /\ AbortSeen(a)
    /\ Goto(p, IF AbortSeen(a) THEN AbortJob(a) ELSE Job("enter", "land", a, tx[a].intent))
    /\ UNCHANGED <<runtime, evidence, git, lock, moves, failures>>

\* The open transaction belongs to an older attempt than the active one: the
\* call raises; an abort in progress only loses its temporary state.
LandForeign(p, a) ==
    /\ "land" \in Calls
    /\ local[p] = Idle
    /\ FirstIncomplete(a) /\ AbortSeen(a)
    /\ \E b \in AttemptIds : Active(b) /\ b # a /\ lock[b] = Free
    /\ temp' = [temp EXCEPT ![a] = "none"]
    /\ UNCHANGED <<runtime, evidence, target, source, made, lock, local, moves, failures>>

LandEnter(p) ==
    /\ At(p, "enter") /\ local[p].op = "land"
    /\ Lock(p, local[p].a)
    /\ ToRecord(p, IntentRecorded)
    /\ UNCHANGED <<runtime, evidence, git, moves, failures>>

-----------------------------------------------------------------------------
(***************************************************************************)
(* _run_landing_transaction, under the attempt lock: one durable effect or *)
(* one recorded phase at a time.                                           *)
(***************************************************************************)
Recorded_without_commit(row, phase, intent, commit) ==            \* mutant
    [row EXCEPT !.phase = phase,
                !.intent = IF phase = IntentRecorded THEN intent ELSE @,
                !.canonical = IF phase = CanonicalCreated THEN None ELSE @]

AppendRow(a, kind, n) == rows' = [rows EXCEPT ![a] = Append(@, [kind |-> kind, n |-> n])]

\* What recording `phase` makes of transaction row.
Recorded(row, phase, intent, commit) ==
    [row EXCEPT !.phase = phase,
                !.intent = IF phase = IntentRecorded THEN intent ELSE @,
                !.canonical = IF phase = CanonicalCreated THEN commit ELSE @]

\* The phases after which the transaction is loaded and validated again.
Revalidated(p, phase) == phase = Complete \/ (local[p].op = "land" /\ phase # TaskCleaned)

\* _record_phase: a phase already durable must hold the same evidence, and
\* no phase follows an abort.
RecordPhase(p) ==
    LET my == local[p]
        row == tx[my.a]
        next == Recorded(row, my.k, my.intent, made[my.a])
    IN  /\ At(p, "record")
        /\ IF row.phase >= my.k
           THEN /\ row.intent = my.intent /\ ValidTransaction(my.a, row)
                /\ Proceed(p, row)
                /\ UNCHANGED <<rows, tx>>
           ELSE /\ ~AbortSeen(my.a)
                /\ tx' = [tx EXCEPT ![my.a] = next]
                /\ AppendRow(my.a, "phase", my.k)
                /\ IF ~Revalidated(p, my.k) \/ ValidTransaction(my.a, next)
                   THEN Proceed(p, next)
                   ELSE Raise(p, "fatal")
        /\ UNCHANGED <<runtime, landEvents, git, moves, failures>>

RecordRefuse(p) ==
    LET my == local[p]
        row == tx[my.a]
    IN  /\ At(p, "record")
        /\ IF row.phase >= my.k
           THEN row.intent # my.intent \/ ~ValidTransaction(my.a, row)
           ELSE AbortSeen(my.a)
        /\ Raise(p, "fatal")
        /\ UNCHANGED <<runtime, evidence, git, moves, failures>>

\* git worktree add -b: a canonical commit an earlier call left is adopted.
TempAdd(p) ==
    LET a == local[p].a
    IN  /\ At(p, "temp_add")
        /\ temp[a] # "branch"
        /\ temp' = [temp EXCEPT ![a] = IF @ = "none" THEN "base" ELSE @]
        /\ Continue(p, IF temp[a] = "commit" THEN "verify" ELSE "commit")
        /\ UNCHANGED <<runtime, evidence, target, source, made, lock, moves, failures>>

\* The temporary branch is there without its worktree.
TempRefuse(p) ==
    /\ At(p, "temp_add")
    /\ temp[local[p].a] = "branch"
    /\ Raise(p, "fatal")
    /\ UNCHANGED <<runtime, evidence, git, moves, failures>>

\* git merge --squash and git commit.
MakeCommit(p) ==
    LET a == local[p].a
    IN  /\ At(p, "commit")
        /\ temp' = [temp EXCEPT ![a] = "commit"]
        /\ made' = [made EXCEPT ![a] = @ + 1]
        /\ Continue(p, "verify")
        /\ UNCHANGED <<runtime, evidence, target, source, lock, moves, failures>>

\* _verify_canonical_commit
VerifyCommit(p) ==
    /\ At(p, "verify")
    /\ IF Verified(local[p].intent)
       THEN ToRecord(p, CanonicalCreated) /\ UNCHANGED lock
       ELSE Raise(p, "fatal")
    /\ UNCHANGED <<runtime, evidence, git, moves, failures>>

UpdateTarget_merges(p) ==                                         \* mutant
    LET a == local[p].a
        commit == Canonical(a, tx[a].canonical)
    IN  /\ At(p, "target")
        /\ target' = IF OnTarget(commit) THEN target ELSE Append(target, commit)
        /\ ToRecord(p, TargetUpdated)
        /\ UNCHANGED <<runtime, evidence, source, temp, made, lock, moves, failures>>

\* git merge --ff-only: the compare-and-swap of the target branch.
UpdateTarget(p) ==
    LET a == local[p].a
        commit == Canonical(a, tx[a].canonical)
    IN  /\ At(p, "target")
        /\ IF Len(target) = local[p].intent.base
           THEN target' = Append(target, commit)
           ELSE OnTarget(commit) /\ UNCHANGED target
        /\ ToRecord(p, TargetUpdated)
        /\ UNCHANGED <<runtime, evidence, source, temp, made, lock, moves, failures>>

StaleTarget(p) ==
    /\ At(p, "target")
    /\ Len(target) # local[p].intent.base
    /\ ~Landed(local[p].a)
    /\ Raise(p, "fatal")
    /\ UNCHANGED <<runtime, evidence, git, moves, failures>>

\* The worktree of the target branch has uncommitted changes.
DirtyTarget(p) ==
    /\ At(p, "target")
    /\ Raise(p, "fatal")
    /\ UNCHANGED <<runtime, evidence, git, moves, failures>>

\* The temporary worktree is removed first, its branch after it.
TempRemove(p) ==
    LET my   == local[p]
        left == IF temp[my.a] \in {"base", "commit"} THEN "branch" ELSE "none"
    IN  /\ At(p, "temp_remove")
        /\ temp' = [temp EXCEPT ![my.a] = left]
        /\ CASE left = "branch" -> UNCHANGED local
             [] left = "none" /\ my.op = "abort" ->
                  Goto(p, [my EXCEPT !.at = "record_abort", !.k = AbortCleaned])
             [] left = "none" /\ my.op # "abort" -> ToRecord(p, TemporaryCleaned)
        /\ UNCHANGED <<runtime, evidence, target, source, made, lock, moves, failures>>

-----------------------------------------------------------------------------
(***************************************************************************)
(* finish_task, as every command calls it under its finalization identity. *)
(***************************************************************************)
Verdict(my) ==
    [by |-> my.op,
     status |-> CASE my.op \in {"land", "reconcile"} -> "success"
                  [] my.op = "abort" -> "blocked"
                  [] my.op \in {"close", "recover"} -> my.status]

FinishRequest_any_verdict(p) ==                                   \* mutant
    LET my == local[p]
    IN  /\ At(p, "finish")
        /\ IF verdict[my.a] = None
           THEN Runtime!AbsDecide(Task, my.a, Verdict(my))
           ELSE UNCHANGED runtime
        /\ Continue(p, "finish_save")
        /\ UNCHANGED <<evidence, git, lock, moves, failures>>

FinishRequest(p) ==
    LET my == local[p]
    IN  /\ At(p, "finish")
        /\ IF verdict[my.a] = None
           THEN Runtime!AbsDecide(Task, my.a, Verdict(my))
           ELSE verdict[my.a] = Verdict(my) /\ UNCHANGED runtime
        /\ Continue(p, "finish_save")
        /\ UNCHANGED <<evidence, git, lock, moves, failures>>

\* Another finalization request is durable for the attempt.
FinishConflict(p) ==
    LET my == local[p]
    IN  /\ At(p, "finish")
        /\ verdict[my.a] # None /\ verdict[my.a] # Verdict(my)
        /\ Raise(p, "fatal")
        /\ UNCHANGED <<runtime, evidence, git, moves, failures>>

\* task close goes on to the workspace where --cleanup was given.
Closed(p) ==
    \E cleanup \in BOOLEAN :
       IF cleanup THEN Continue(p, "prove") /\ UNCHANGED lock ELSE Leave(p)

FinishSave(p) ==
    LET my == local[p]
    IN  /\ At(p, "finish_save")
        /\ IF Active(my.a) THEN Runtime!AbsFinish(Task, my.a) ELSE UNCHANGED runtime
        /\ CASE my.op \in {"land", "reconcile"} ->
                  ToRecord(p, RuntimeFinalized) /\ UNCHANGED lock
             [] my.op = "abort" ->
                  /\ Goto(p, [my EXCEPT !.at = "record_abort", !.k = AbortFinalized])
                  /\ UNCHANGED lock
             [] my.op = "close" -> Closed(p)
             [] my.op = "recover" -> Leave(p)
        /\ UNCHANGED <<evidence, git, moves, failures>>

\* append_worktree_land_once
LandEvent(p) ==
    /\ At(p, "land_event")
    /\ landEvents' = landEvents \cup {local[p].a}
    /\ ToRecord(p, LandEventRecorded)
    /\ UNCHANGED <<runtime, rows, tx, git, lock, moves, failures>>

-----------------------------------------------------------------------------
(***************************************************************************)
(* _cleanup_workspace: read-only proof, then the worktree, then the branch.*)
(***************************************************************************)
CleanupProven_any_head(a) ==                                      \* mutant
    \/ source[a].commits = 0
    \/ tx[a].phase >= TargetUpdated /\ Landed(a)

\* _branch_cleanup_is_proven: the branch is contained in the target, or is
\* the frozen source of a commit that is on it.
CleanupProven(a) ==
    \/ source[a].commits = 0
    \/ /\ tx[a].phase >= TargetUpdated
       /\ Landed(a)
       /\ source[a].commits = tx[a].intent.head

Refused(a) ==
    \/ source[a].worktree /\ ~source[a].branch
    \/ source[a].branch /\ ~CleanupProven(a)

AfterCleanup(p) ==
    IF local[p].op \in {"land", "reconcile"}
    THEN ToRecord(p, TaskCleaned) /\ UNCHANGED lock
    ELSE Leave(p)

ProveCleanup(p) ==
    LET a == local[p].a
    IN  /\ At(p, "prove")
        /\ ~Refused(a)
        /\ Continue(p, "remove")
        /\ UNCHANGED <<runtime, evidence, git, lock, moves, failures>>

\* task close retains unlanded work and reports it; others refuse.
RefuseCleanup(p) ==
    LET my == local[p]
    IN  /\ At(p, "prove")
        /\ Refused(my.a)
        /\ Raise(p, "fatal")
        /\ UNCHANGED <<runtime, evidence, git, moves, failures>>

RemoveWorktree(p) ==
    /\ At(p, "remove")
    /\ source' = [source EXCEPT ![local[p].a].worktree = FALSE]
    /\ Continue(p, "branch")
    /\ UNCHANGED <<runtime, evidence, target, temp, made, lock, moves, failures>>

\* git branch -D; the task.cleanup event follows.
DeleteBranch(p) ==
    /\ At(p, "branch")
    /\ source' = [source EXCEPT ![local[p].a].branch = FALSE]
    /\ AfterCleanup(p)
    /\ UNCHANGED <<runtime, evidence, target, temp, made, moves, failures>>

-----------------------------------------------------------------------------
(***************************************************************************)
(* The except branch of task land, and the abort.                          *)
(***************************************************************************)
Caught_never_aborts(p) ==                                         \* mutant
    /\ At(p, "caught")
    /\ Goto(p, IF AbortSeen(local[p].a) THEN AbortJob(local[p].a) ELSE Idle)
    /\ UNCHANGED <<runtime, evidence, git, lock, moves, failures>>

\* The ledger is read after the lock is gone.
Caught(p) ==
    LET my  == local[p]
        row == tx[my.a]
    IN  /\ At(p, "caught")
        /\ IF row.intent = None
              \/ (~AbortSeen(my.a) /\ (row.phase >= TargetUpdated \/ my.fault = "recoverable"))
           THEN Goto(p, Idle)
           ELSE Goto(p, AbortJob(my.a))
        /\ UNCHANGED <<runtime, evidence, git, lock, moves, failures>>

AbortEnter(p) ==
    /\ At(p, "abort_enter")
    /\ Lock(p, local[p].a)
    /\ Goto(p, [local[p] EXCEPT !.at = "abort"])
    /\ UNCHANGED <<runtime, evidence, git, moves, failures>>

AbortRequest_unchecked(p) ==                                      \* mutant
    LET my == local[p]
    IN  /\ At(p, "abort")
        /\ tx' = [tx EXCEPT ![my.a].abort = IF @ = 0 THEN AbortRequested ELSE @]
        /\ IF AbortSeen(my.a) THEN UNCHANGED rows ELSE AppendRow(my.a, "abort", AbortRequested)
        /\ Continue(p, "temp_remove")
        /\ UNCHANGED <<runtime, landEvents, git, lock, moves, failures>>

\* _abort_pre_target_landing: a call that did not read the abort records it,
\* unless the target was updated meanwhile.
AbortRequest(p) ==
    LET my == local[p]
    IN  /\ At(p, "abort")
        /\ IF my.k = AbortRequested \/ AbortSeen(my.a)
           THEN UNCHANGED <<rows, tx>>
           ELSE /\ tx[my.a].phase < TargetUpdated
                /\ tx' = [tx EXCEPT ![my.a].abort = AbortRequested]
                /\ AppendRow(my.a, "abort", AbortRequested)
        /\ Continue(p, "temp_remove")
        /\ UNCHANGED <<runtime, landEvents, git, lock, moves, failures>>

\* The target was updated, or another call recorded another reason.
AbortRefuse(p) ==
    LET my == local[p]
    IN  /\ At(p, "abort")
        /\ my.k # AbortRequested
        /\ tx[my.a].phase >= TargetUpdated \/ AbortSeen(my.a)
        /\ Raise(p, "fatal")
        /\ UNCHANGED <<runtime, evidence, git, moves, failures>>

\* record_landing_abort_cleanup, _runtime, _close_event and _complete.
RecordAbort(p) ==
    LET my == local[p]
    IN  /\ At(p, "record_abort")
        /\ IF tx[my.a].abort >= my.k
           THEN UNCHANGED <<rows, tx>>
           ELSE /\ tx' = [tx EXCEPT ![my.a].abort = my.k]
                /\ AppendRow(my.a, "abort", my.k)
        /\ CASE my.k = AbortCleaned  -> Continue(p, "finish") /\ UNCHANGED lock
             [] my.k = AbortComplete -> Leave(p)
             [] my.k \in {AbortFinalized, AbortClosed} ->
                  Goto(p, [my EXCEPT !.k = @ + 1]) /\ UNCHANGED lock
        /\ UNCHANGED <<runtime, landEvents, git, moves, failures>>

-----------------------------------------------------------------------------
(***************************************************************************)
(* The commands beside task land.                                          *)
(***************************************************************************)
\* task reconcile-landing --apply: exact ownership is checked unlocked, the
\* transaction again under the lock, before the first effect.
Reconcilable(a) ==
    /\ tx[a].phase \in TargetUpdated .. (Complete - 1)
    /\ tx[a].phase < TaskCleaned =>
          source[a].worktree /\ source[a].commits = tx[a].intent.head
    /\ ValidTransaction(a, tx[a])

Reconcile(p, a) ==
    /\ "reconcile" \in Calls
    /\ local[p] = Idle
    /\ Reconcilable(a)
    /\ Goto(p, Job("enter", "reconcile", a, tx[a].intent))
    /\ UNCHANGED <<runtime, evidence, git, lock, moves, failures>>

ReconcileEnter(p) ==
    /\ At(p, "enter") /\ local[p].op = "reconcile"
    /\ Lock(p, local[p].a)
    /\ ToRecord(p, TargetUpdated)
    /\ UNCHANGED <<runtime, evidence, git, moves, failures>>

\* task close --status, of the active attempt or again of the latest one: the
\* attempt is chosen before the lock is waited for.
Close(p, a) ==
    /\ "close" \in Calls
    /\ local[p] = Idle
    /\ Active(a) \/ (NoneActive /\ Latest(a))
    /\ \E s \in EndStatuses :
         Goto(p, [at |-> "enter", op |-> "close", a |-> a, k |-> 0, status |-> s])
    /\ UNCHANGED <<runtime, evidence, git, lock, moves, failures>>

CloseEnter(p) ==
    /\ At(p, "enter") /\ local[p].op = "close"
    /\ Lock(p, local[p].a)
    /\ Continue(p, "finish")
    /\ UNCHANGED <<runtime, evidence, git, moves, failures>>

\* task recover --status takes no attempt lock.
Recover(p, a) ==
    /\ "recover" \in Calls
    /\ local[p] = Idle
    /\ \E s \in EndStatuses :
         /\ \/ Active(a)
            \/ NoneActive /\ Latest(a) /\ OutcomeOf(a) = s
         /\ Goto(p, [at |-> "finish", op |-> "recover", a |-> a, k |-> 0, status |-> s])
    /\ UNCHANGED <<runtime, evidence, git, lock, moves, failures>>

\* task cleanup takes no attempt lock either.
Cleanup(p, a) ==
    /\ "cleanup" \in Calls
    /\ local[p] = Idle
    /\ NoneActive /\ Latest(a)
    /\ Goto(p, Job("prove", "cleanup", a, None))
    /\ UNCHANGED <<runtime, evidence, git, lock, moves, failures>>

-----------------------------------------------------------------------------
(***************************************************************************)
(* Failures: a command raises instead of its next effect, with an OSError  *)
(* or an interrupted finalization (recoverable) or with anything else; or  *)
(* its process dies, and its lock goes with it.                            *)
(***************************************************************************)
Failing(p) ==
    /\ local[p] # Idle
    /\ failures < MaxFailures
    /\ failures' = failures + 1

Fault(p) ==
    /\ Failing(p)
    /\ local[p].at \notin {"freeze", "enter", "abort_enter", "caught"}
    /\ \E fault \in {"fatal", "recoverable"} : Raise(p, fault)
    /\ UNCHANGED <<runtime, evidence, git, moves>>

Die(p) ==
    /\ Failing(p)
    /\ Leave(p)
    /\ UNCHANGED <<runtime, evidence, git, moves>>

Step(p) ==
    \/ LandFreeze(p) \/ LandEnter(p) \/ ReconcileEnter(p) \/ CloseEnter(p)
    \/ RecordPhase(p) \/ RecordRefuse(p)
    \/ TempAdd(p) \/ TempRefuse(p) \/ MakeCommit(p) \/ VerifyCommit(p)
    \/ UpdateTarget(p) \/ StaleTarget(p) \/ TempRemove(p)
    \/ FinishRequest(p) \/ FinishConflict(p) \/ FinishSave(p) \/ LandEvent(p)
    \/ ProveCleanup(p) \/ RefuseCleanup(p) \/ RemoveWorktree(p) \/ DeleteBranch(p)
    \/ Caught(p) \/ AbortEnter(p) \/ AbortRequest(p) \/ AbortRefuse(p) \/ RecordAbort(p)

Call(p, a) ==
    \/ LandFresh(p, a) \/ LandRetry(p, a) \/ LandForeign(p, a)
    \/ Reconcile(p, a) \/ Close(p, a) \/ Recover(p, a) \/ Cleanup(p, a)

Next ==
    \/ Cancel \/ Reopen \/ ForeignCommit
    \/ \E a \in AttemptIds : Begin(a) \/ AgentCommit(a)
    \/ \E p \in Procs :
         \/ Step(p) \/ DirtyTarget(p) \/ Fault(p) \/ Die(p)
         \/ \E a \in AttemptIds : Call(p, a)

Spec == Init /\ [][Next]_vars

(***************************************************************************)
(* A live process goes on, and the exact land request is repeated while    *)
(* its transaction is open, which is the next_action every partial result  *)
(* carries.                                                                *)
(***************************************************************************)
Resume(p) == \E a \in AttemptIds : Incomplete(a) /\ LandRetry(p, a)

LiveSpec == Spec /\ \A p \in Procs : WF_vars(Step(p)) /\ SF_vars(Resume(p))

-----------------------------------------------------------------------------
(***************************************************************************)
(* Types.                                                                  *)
(***************************************************************************)
Intents == [head: Nat, rebased: Nat, base: Nat, cleanup: BOOLEAN]
Commits == {Foreign} \cup [of: AttemptIds, n: Nat]
Outcomes == {"in_progress", "success", "blocked", "failed", "abandoned"}
Verdicts == [by: Commands \cup {"abort"}, status: Outcomes \ {"in_progress"}]
Operations == Commands \cup {"abort"}

\* A recorded intent or verdict is not the absent one.
ASSUME NoneAssumption == None \notin Intents \cup Verdicts

Stages ==
    {"enter", "record", "temp_add", "commit", "verify", "target", "temp_remove",
     "finish", "finish_save", "land_event", "prove", "remove", "branch",
     "abort_enter", "abort", "record_abort"}

Locals ==
    {Idle}
    \cup [at: {"freeze"}, op: {"land"}, a: AttemptIds, rebased: Nat]
    \cup [at: {"caught"}, op: {"land"}, a: AttemptIds, fault: {"fatal", "recoverable"}]
    \cup [at: Stages, op: Operations \ {"close", "recover"}, a: AttemptIds,
          k: 0 .. Complete, intent: Intents \cup {None}]
    \cup [at: Stages, op: {"close", "recover"}, a: AttemptIds, k: {0}, status: EndStatuses]

\* Every variable holds what the code stores in it.
TypeOK ==
    /\ status \in [{Task} -> {"planned", "in_progress", "blocked", "done", "canceled"}]
    /\ history \in [{Task} -> Seq([id: AttemptIds, outcome: Outcomes])]
    /\ verdict \in [AttemptIds -> Verdicts \cup {None}]
    /\ rows \in [AttemptIds -> Seq([kind: {"phase", "abort"}, n: 1 .. Complete])]
    /\ tx \in [AttemptIds -> [intent: Intents \cup {None}, phase: 0 .. Complete,
                              abort: 0 .. AbortComplete, canonical: Nat]]
    /\ landEvents \subseteq AttemptIds
    /\ target \in Seq(Commits)
    /\ source \in [AttemptIds -> [commits: Nat, branch: BOOLEAN, worktree: BOOLEAN]]
    /\ temp \in [AttemptIds -> {"none", "branch", "base", "commit"}]
    /\ made \in [AttemptIds -> Nat]
    /\ lock \in [AttemptIds -> Procs \cup {Free}]
    /\ local \in [Procs -> Locals]
    /\ moves \in Nat
    /\ failures \in Nat

(***************************************************************************)
(* Safety.                                                                 *)
(***************************************************************************)
\* Landing is a compare-and-swap that happens once: however calls race, fail
\* and are repeated, the target branch has at most one commit of an attempt,
\* it is the one the ledger records, and it sits on the base frozen with the
\* source that was rebased onto it, so it never undoes a foreign commit.
LandsOnceOnItsBase ==
    \A i \in DOMAIN target : target[i] # Foreign =>
      LET a == target[i].of
      IN  /\ HasIntent(a)
          /\ target[i] = Canonical(a, tx[a].canonical)
          /\ i = tx[a].intent.base + 1
          /\ Verified(tx[a].intent)

\* The ledger can be loaded, and says what the commands went by: whatever calls
\* append side by side, between failures and repetitions, the rows of a
\* transaction pass load_landing_transaction, and it returns tx.
LedgerLoads == \A a \in AttemptIds : Loadable(rows[a]) /\ Loaded(rows[a]) = DurableTx(a)

\* An attempt succeeds only when its commit is on the target branch, and
\* worktree.land is reported only for an attempt that succeeded.
SuccessIsLanded ==
    \A a \in AttemptIds :
      /\ Started(a) /\ OutcomeOf(a) = "success" => Landed(a)
      /\ a \in landEvents => Started(a) /\ OutcomeOf(a) = "success"

\* No work is lost: a task branch that is gone held no commit, or exactly the
\* work that was frozen and landed.
NoWorkLost ==
    \A a \in AttemptIds : Started(a) /\ ~source[a].branch =>
      \/ source[a].commits = 0
      \/ Landed(a) /\ source[a].commits = tx[a].intent.head

\* A settled transaction agrees with the runtime and with Git: complete means
\* landed, done and cleaned as requested; abort-complete means that the
\* abort, and nothing else, ended the attempt as blocked.
SettledAgree ==
    \A a \in AttemptIds :
      /\ tx[a].phase = Complete =>
            /\ OutcomeOf(a) = "success"
            /\ Landed(a)
            /\ a \in landEvents
            /\ temp[a] = "none"
            /\ tx[a].intent.cleanup => ~source[a].worktree /\ ~source[a].branch
      /\ tx[a].abort >= AbortFinalized =>
            verdict[a] = [by |-> "abort", status |-> "blocked"] /\ OutcomeOf(a) = "blocked"

\* "Make a pre-CAS landing failure terminal": work whose landing is aborted is
\* not on the target branch.
AbortedNeverLanded ==
    \A a \in AttemptIds : tx[a].abort >= AbortRequested =>
      \A i \in DOMAIN target : target[i].of # a

\* An attempt that ended otherwise than by success did not land its work.
EndedOtherwiseNotLanded ==
    \A a \in AttemptIds :
      Started(a) /\ OutcomeOf(a) \notin {"in_progress", "success"} => ~Landed(a)

\* While an attempt is active the transactions of earlier attempts are
\* settled; otherwise task land can neither resume them nor land its own.
PredecessorsSettled ==
    \A a, b \in AttemptIds : Active(a) /\ b # a => ~Incomplete(b)

(***************************************************************************)
(* Convergence.                                                            *)
(***************************************************************************)
\* A recorded intent ends complete or abort-complete once the exact request
\* is repeated after each failure.
LandingSettles == \A a \in AttemptIds : HasIntent(a) ~> Terminal(a)

=============================================================================
