# A verification development for Blackdog

Blackdog keeps a repository's development tasks: an agent begins a task in a Git
worktree of its own, works there, and lands or closes it. Everything it knows is in
two files, `runtime.json` (the canonical task store) and `events.jsonl` (the
append-only ledger), and in Git. Every command is a short-lived process; several
run at once, any of them may die between two durable effects, and the answer of a
command that did not finish is the exact command to repeat. The modules here model
that core, TLC checks them on small instances, and TLAPS proves their safety
properties for every instance.

Source paths are relative to the package directories: `tasks.py` and `state.py` are in
`src/blackdog_core/`, `wtam.py`, `landing.py` and the others in `src/blackdog/`.

Contents: [inventory](#inventory), [plan](#plan), [the task runtime](#the-task-runtime),
[landing](#landing), [preparation](#preparation-and-its-cache), [task begin](#task-begin),
[evidence](#evidence), [store migration](#store-migration),
[repository membership](#repository-membership), [runs](#runs-and-bounds),
[fairness](#fairness), [proofs](#proofs), [where code and documents disagree](#where-code-and-documents-disagree),
[what is not covered](#what-is-not-covered).

## Inventory

| Component | State it keeps | Operations | Interacts with | What is hard | Correct means |
|---|---|---|---|---|---|
| Task store (`state.py`) | `runtime.json`, `events.jsonl`, the lock file beside each | load, `_validate_state`, atomic save, `append_event_once`, `exclusive_file_lock` | everything | writers racing, torn last line, stale lock directory | a reader sees an old or a new store, one content per event identity |
| Task runtime (`tasks.py`) | the rows of the store, the `task.*` events | `create_task`, `start_task`, `record_task_setup`, `finish_task`, `set_task_runtime_status` and their repairs | task store; called by every product command | store and ledger are two files: each operation is a small write-ahead protocol | one verdict per attempt, evidence ahead of the store, exact retries converge |
| Task begin and show (`wtam.py`, `git_worktrees.py`) | task branch and worktree, the setup receipt | `task begin` (active, retained or fresh workspace), `task show` | task runtime, guards, handlers, preparation, Git | no lock across its steps; a rollback that removes what others may use | success is answered for one's own attempt; a receipt says what was prepared |
| Task cancel and reopen (`wtam.py`) | task status | `task cancel`, `task reopen` | task runtime | exact retries of interrupted transitions | never takes over an active attempt |
| Landing (`landing.py`, `wtam.py`) | the transaction (a chain of ledger events), a temporary branch and worktree, the target branch, the attempt lock | `task land`, its abort, `task reconcile-landing` | task runtime, Git, cleanup | nine durable phases around Git effects, failures in between, other commands beside it | landed once, on the frozen base, or aborted and not landed |
| Close, recover, cleanup (`wtam.py`) | verdict, workspace | `task close`, `task recover`, `task cleanup` | landing, task runtime, Git | two of them take no attempt lock; removal is two Git commands | no unlanded work is deleted; a verdict is final |
| Lifecycle decisions (`lifecycle.py`) | none (pure) | payload types, classification of exceptions | every result | nothing that runs: the decision table has no caller | outside |
| Worktree preparation (`preparation.py`, `preparation_files.py`) | `intent.json`, `completed.json`, owned outputs | `prepare_worktree`: run once, or verify | task begin, cache | effects whose completion is unknown after a death; files that change meanwhile | an unknown effect blocks, it is not repeated; a receipt describes what was used |
| Preparation cache (`preparation_cache.py`) | immutable generations, `current.json`, a lock per key | acquire, materialize | preparation | death between rename and pointer, damaged bytes, inputs that change during a build | the pointer names a bundle built from its key |
| Handlers (`handlers.py`) | overlay environments, installed runtime | plan, execute, validate | task begin, repository lifecycle | mostly processes and paths | outside, but for what begin makes of their findings |
| Store migration (`store_migration.py`) | the two files, a pending marker, an archive | preview, apply, replay | task store, the previous runtime | two replacements, one intention | readers never see one half, nothing unarchived is overwritten |
| Outcome evidence, validation (`evidence.py`, `validation.py`, `measurement.py`) | evidence events, the attempt lock | record definition, assessment, intervention; validate; measure | ledger and both store locks, Git | Git and commands run between two admissions | the stream stays readable, commands run once, what is cited did run |
| Repository lifecycle (`repo_lifecycle.py`, `repo_membership.py`) | profile, `AGENTS.md` block, skill directory, control root | install, update, refresh, archive, unarchive, unbind | profile, guidance, distribution | sequences of file writes without a lock | a refresh converges, an unbind can be finished and keeps the user's text |
| Guidance (`guidance.py`, `profile.py`) | registrations in the profile, the catalog | `guidance add` | repository lifecycle | only this command takes the lock | no registration is dropped |
| Registry (`local_registry.py`), distribution and user installation, guards and prompts, Codex import, observability, read models, command line | a user-local list, releases, prompt files, transcripts, best-effort rows, none | list, copy, compose, import, report, dispatch | inputs and outputs of the above | mostly parsing and formatting | outside this development, see below |

Three kinds of lock matter. The lock beside `runtime.json` (with the ledger's own inside
it) is held from a load to the save that depends on it, for milliseconds. The *attempt
lifecycle lock* is held by land, close, reconcile-landing and the evidence commands
across Git commands and validations. Preparation and guidance have locks of their own.
`task begin`, `task recover`, `task cleanup` and the `repo` commands hold none across
their steps. Nothing else is shared but files and the repository.

## Plan

Built, in order of importance; each component's theorems are in the module named after
it with `Proofs`:

1. `TaskStore`, `TaskRuntime`, `TaskLifecycle`: the write-ahead protocols of the task
   runtime and the abstract lifecycle they implement.
2. `Landing`: the land transaction on top of `TaskLifecycle`, with every command that
   ends an attempt or removes a workspace beside it.
3. `Preparation`, with its cache, implementing `PreparedEffect`.
4. `TaskBegin`: begin on top of `TaskLifecycle` and `PreparedEffect`, with cleanup, close,
   cancel and reopen beside it.
5. `Evidence`: outcome records and validations.
6. `StoreMigration`: two files and a marker.
7. `RepoMembership`: the commands that write a repository's managed files.

Left:

8. `EventLedger` and `FileLock`: the ledger as a log whose last line may be torn, and
   the lock with its reentrancy and its lock-directory fallback.
9. The Python overlay of `handlers.py`, whose state is an environment directory.

An earlier plan had a module for `decide_next_action` of `lifecycle.py`. Nothing calls
that function, so a model of it would say nothing about the program.

No module meant to be proved about declares a RECURSIVE operator.

## The task runtime

Modules: `TaskStore` (rows of `runtime.json` and the pure functions on them),
`TaskRuntime` (the operations), `TaskLifecycle` (what they promise).

*State.* `tasks` is `runtime.json`: for each task a row with its status, times, owner
and attempts, or `NoTask`. The ledger is kept as one set per event family
(`createEvents` … `trEvents`), each event an identity with a content, because
`append_event_once` is keyed by identity: the same content again is a no-op, another
content under a known identity raises (`MayAppend`). The order of families in the file
is never read. `lock` is the lock beside `runtime.json`, `local` what each process
does next, `clock` the whole-second wall clock of `now_iso`.

*Steps.* An operation is cut where the code makes something durable, because a process
may die there: `create_task` is `CreateAppend` (event) then `CreateSave` (row);
`start_task` is `StartCall` (reads the clock before the lock), `StartSave`,
`StartAppend`; `record_task_setup` is `SetupRepair`, `SetupSave`, `SetupAppend`;
`finish_task` is `FinishRequest`, `FinishDecide`, `FinishSave`, `FinishAppend`, with
`FinishReplay` and `FinishRefuse` for what a retry finds; `set_task_runtime_status` is
`TransitionRequest`, `TransitionDecide`, `TransitionApply`, `TransitionAppend`. `Fail`
is a death or a failing write before the next of these steps: the operating system
releases the lock, everything durable stays. A save that `_validate_state` refuses is
the guard of `Save`, and the refusals are actions of their own.

*Data.* The hash of a row is the row itself (the code takes SHA-256 of its canonical
payload; two rows have one hash exactly when they are equal). Titles, summaries, actors
and receipts are model values. `MaxTime`, `MaxTransitions` and `MaxFailures` bound the
clock, the transition requests and the failures. One constant is a switch for what the
environment does: `ClockSteps` (may the clock be set back). Nothing keeps two calls out of
one second.

*Promise.* `TaskLifecycle` has no lock, ledger or crash: a status per task,
append-ordered attempts of which at most one is active, and `AbsDecide` before
`AbsFinish`. `ImplementsLifecycle` maps the rows to it, and the first finalization
request of an attempt to its verdict.

## Landing

Module: `Landing`, on top of `TaskLifecycle` (instance `Runtime`), which the task
runtime implements; `finish_task` is therefore two steps here, `FinishRequest` and
`FinishSave`, and a second verdict is refused (`FinishConflict`).

*State.* `rows` are the landing rows of the ledger in order. `tx` is what the commands go
by: the frozen intent, the last of the nine phases, the last of the five abort stages,
the number of the recorded canonical commit. `Loadable` and `Loaded` are
`load_landing_transaction`, the conditions on the rows and what they mean, over the
`Positions` of the rows of a kind; `LedgerLoads` says that whatever calls append side by side, the rows load and mean `tx`. `target` is the target branch, `source` the task branch
and worktree, `temp` the temporary branch and worktree, `made` counts canonical commits
made, `lock` is the attempt lifecycle lock, `landEvents` the `worktree.land` events.

*Data.* A commit of the target is `Foreign` or `Canonical(a, n)`. The branch only
grows, so its length names its head and a base commit is a length. The work of an
attempt is the number of its commits. `_verify_canonical_commit` compares trees and
trailers; of the ways it can fail the model keeps the one that races produce, a source
that was not rebased onto the frozen base (`Verified`).

*Steps.* `LandFresh` rebases, `LandFreeze` freezes the request, both without a lock as
in the code; `LandRetry` adopts an open transaction; `LandEnter` takes the lock;
`RecordPhase` is `_record_phase` followed by the re-validation that the code does after
it (`_validate_landing_transaction` is `ValidTransaction`); between the phases stand the
Git effects, each a step: `TempAdd`, `MakeCommit`, `VerifyCommit`, `UpdateTarget`,
`TempRemove` (twice: worktree, branch), `FinishRequest`, `FinishSave`, `LandEvent`,
`ProveCleanup`, `RemoveWorktree`, `DeleteBranch`. Whatever raises goes through `Raise`
to `Caught`, the `except` branch of `land_task`, which reads the ledger after the lock
is gone and reports, resumes or aborts; `AbortRequest` and `RecordAbort` are the abort.
`Close`, `Recover`, `Cleanup` and `Reconcile` share the finish and cleanup steps. Close
chooses its attempt before it waits for the lock (`Close`, then `CloseEnter`), as land does.
`Fault` raises instead of the next effect, `Die` ends a process anywhere.

*Environment.* `AgentCommit` (an agent commits in the worktree), `ForeignCommit`
(somebody else moves the target), `DirtyTarget` (the target worktree has uncommitted
changes). Assumed: the target branch is never rewound; a Git command takes effect
whole or not at all; nobody but Blackdog touches `blackdog/land-*`; the agent does not
commit between the proof of a cleanup and the removal; uncommitted changes of the
source are part of the commit that `_prepare_source` makes. Loading a transaction and
appending its next phase or abort stage is one step (`RecordPhase`, `AbortRequest`,
`RecordAbort`), although the lock of the ledger is released between the two: every caller
holds the attempt lock, and nobody appends to a transaction without it (`wtam.py:2962`, `3144`,
`3475`). `Begin` gives every attempt a fresh branch and worktree; the code can also begin on
the retained workspace of the predecessor (`wtam.py:1019-1083`), which would matter to the run
with two attempts only and is part of `TaskBegin`. `Cancel` and `Reopen` are the abstract moves of `TaskLifecycle`. The
abort-superseded event has a reader in
`landing.py` and no caller, so the model has no such stage.

## Preparation and its cache

Module: `Preparation`, implementing `PreparedEffect`.

*State.* What survives a process is per worktree `intent` (is there an `intent.json`?),
`completed` (the receipt), `outputs` (the owned directories), and per key the published
`generations` with the number of the one `current.json` names. `local` is what one call
observed. Contents are versions: of the tracked files, of the declared inputs, of the
toolchain; a bundle is named by what it was built from, and bytes may be `damaged`.

*Steps.* `Call` takes the lock of the worktree and observes. Admission verifies a receipt
(`VerifyRetained`) or admits a setup (`AdmitSetup`: neither intent nor outputs may be
there), or blocks. `AcquireBundle` uses the published generation or builds under the key's
lock: `CopyBuildInputs`, `BuildBundle`, `PublishGeneration` (rename), `MovePointer`. Then
`ClaimIntent`, `MakeOutputs`, `CopyInputs`, `Materialize`, `RunSetup`, `SnapshotOutputs`;
`RunChecks`, `Recheck` (everything observed is observed again), `Complete`. `Fail` is a
death, an exhausted deadline or a failing command before any of them.

*Environment.* Tracked files, inputs and outputs are edited, the toolchain is upgraded
(never back: what changes and changes back between two observations is undetectable), copies
and any published generation are damaged. `Call` and `Recheck` observe the files, the inputs
and the tools in one step each, which the code does one after the other. The recipes modelled share an artifact; without
one the cache steps fall away.

*Promise.* Per worktree an effect is `none`, `claimed`, `done` or `unknown`
(`EffectOf`); it is claimed once, and completed by its claimant or by nobody.

## Task begin

Module: `TaskBegin`, on top of `TaskLifecycle` and `PreparedEffect`. It has none of the
locks: `begin_task_worktree` holds none from one step to the next.

*State.* The row of an attempt beyond its status is `info`: place, start, lineage, receipt,
and whether its start events are appended. A *place* is a worktree path with its branch, a
*tree* is what one `git worktree add` made there, so that a path used twice can be told
apart; `branch` and `worktree` are Git's part of it, `effect` and `claimedFor` that of the
preparation, `answers` the success answers given.

*Steps.* `Load` reads the store once. With an active attempt: `ProveActive`, `Validate`,
`RecordSetup`, `RepairStart`, `Answer`. With a retained worktree of the latest attempt:
`Guard`, `ProveLatest`, `ValidateRetained`, `PersistPrompts`, `StartTask`, `StartEvents`.
Otherwise: `CheckFresh`, `AddWorktree`, `PersistPrompts`, `CreateTask`, `StartTask`,
`StartEvents`, `ClaimEffect`, `RunEffect`, `RecordFresh`. Exceptions go to `Caught`, which looks
for an active attempt and otherwise rolls back with `ForceRemove` and `DeleteBranch`.
What the handlers find (`OverlayFinds`, `RuntimeFinds`) is any finding; `PreparationFinds`
can only be true of a recorded effect. A handler that blocks before the preparation leaves no
preparation result, so that recording raises and the receipt stays pending: this is `Fail` at
the stage `claim`. One that blocks after it makes the result of `RunEffect` blocked. `Raise`
drops what the exception branch does not look at. Setup receipts carry times, so two are never equal.
Beside it run `Commit` by the agent, task cleanup (without a lock, so proof and removal are
steps), `Close` as one step, `Cancel` and `Reopen`.

## Evidence

Module: `Evidence`, one task.

*State.* `ledger` is the evidence stream, `status` and `artifact` what admission reads of
the runtime, `workspace` and `environment` what a binding observes, `lock` the attempt
lifecycle lock, `executed` the command sets that really ran, `answers` the completed
answers.

*Steps.* What the code does under both store locks is one step (`AdmitRecord`,
`AppendRecord`, `AdmitRun`, `AppendIntent`, `AppendResult`); between two of them Git is read
(`ObserveTree`, `Bind`) and commands run (`RunCommands`). The attempt lock is taken together
with the first read under it. `Readable` is `read_evidence`: each row must be admitted by
those before it. Callers write documents from anything they can have read so far
(`Documents`), so supersessions that have become stale and runs of a predecessor occur.
`CallEnd`, `EndLocked`, `Measure` are land, close and cleanup with their measurement,
`Recover` the command that ends an attempt without the lock.

*Data.* The digest of an event identity is the tuple it hashes. A `not_assessed` result is
admitted as `not_met` is. Actors, sizes, byte streams and report bindings are left out. Two
edits that cancel out between two observations are undetectable for the code too, and
nothing is claimed about them. In the instances every tree has commands of its own
(`OwnCommands`): the profile is a file of the tree.

## Store migration

Module: `StoreMigration`. The digest of a snapshot is the snapshot, and conversion a function
of it: what rows become is not modelled, which bytes are replaced when is. `preview`
reads without a lock in two steps; `apply` takes both store locks, inspects (`Admit`), and
makes one effect after the other durable: six archive parts, the marker, prompts, ledger,
runtime, planning file, marker removed. `Replayable` and `Allowed` are what a repeated command
demands of the archive and of each file. `OldRuntime` is a process of the previous release,
which takes the lock and ignores the marker; `Command` is one of the current release.
Four things are simpler than the code. The prompts, several files named by their content, are
persisted in one step. `Loads` looks at the marker and reads `runtime.json` in one step, where
the code does one after the other without a lock (`state.py:1043`, `1046`). `OldRuntime` is not
in this repository: that it takes the lock for the planning file too is assumed, although
`migrate_store` itself locks only the runtime and the ledger. And a preview that meets a
marker written while it reads raises in the code; here it answers. It changes nothing
either way.

## Repository membership

Module: `RepoMembership`: repo install, update, refresh, archive, unarchive, unbind and
guidance add, each cut at every write but one: the files of the managed skill (`SKILL.md`,
`openai.yaml`, the guides) are written by one step, `WriteCore`. `profile`, `agents`, `skill`, `legacy` and
`runtime` are the files; a *release* stands for every text that only the release decides.
An unbind compares stats: `local[p].fresh` is the set of entries nobody changed since the
inspection, `local[p].calm` says that nobody disturbed the call at all; for an add it says
so from the moment it takes its lock. A write in place is one step, with the check before it:
what is edited between the check of `AGENTS.md` and its write is lost in the code
(`repo_membership.py:1128-1133`), and the model has no such moment. Only guidance add takes
a lock, which an unbind may delete with the control root (that taking it creates the control
root is not modelled). Adds do not disturb each other
(`Registered`): each reads the profile under that lock. Any other write of the profile does,
and the property `RegistrationsKept` speaks of undisturbed adds: an archive that writes back
the profile it read before can drop a registration, or bring a removed one back, between
the read and the write of an add.
Left out: analysis and scaffolding of a repository, legacy launchers, the registry, project
names; the history file that an unbind keeps is not a variable.

## Runs and bounds

`tlc -config X.cfg M` checks module M under X; the MC modules only name constant values.
`CHECK_DEADLOCK FALSE` everywhere: bounded clocks, calls, edits and failures and finished
tasks stop every model, as they should.

| Run | Instance | Shows |
|---|---|---|
| `history` (`MCTaskRuntime`) | 1 task, 2 attempts, 2 receipts, 1 finalization identity, 2 processes, 1 transition, 1 failure, clock 0..1 | types; history only grows; every durable step implements the lifecycle |
| `inspected` | 1 attempt, 1 receipt, 2 processes, 2 transitions, 1 failure, clock 0..2 | interrupted transitions stay inspectable unless one was decided no later than the row it replaced (`TransitionsInspectable`) |
| `converges` | 1 attempt, 2 receipts, 2 finalization identities, 2 processes, 2 failures, clock 0..1 that may be set back, `LiveSpec` | one verdict per attempt (`OneVerdict`); request and decision precede the terminal row with the decided time (`WriteAhead`); the ledger reports only what the store holds (`FinishReported`); a replaced receipt was recorded; only another receipt or the clock overtakes a decision (`DecisionStands`); every request ends in `task.finish` or is obstructed |
| `landing_beside` (`MCLanding`) | 1 attempt, 2 processes, all commands, 2 agent commits, 1 foreign commit, 2 failures | types; landed once on the frozen base; the landing rows load and mean what the commands act on (`LedgerLoads`); success means landed; no unlanded work deleted |
| `landing_successor` | 2 attempts, 1 process, all commands, cancel and reopen, 2 failures | what is settled agrees with runtime and Git (`SettledAgree`) |
| `landing_settles` | 1 attempt, 2 processes calling land, 2 failures, `LiveSpec`, no late commits | every intent ends complete or abort-complete |
| `prepared` (`MCPreparation`) | 2 worktrees, 2 processes, 2 versions of files, 1 upgrade of tools, 2 changes, 1 failure | a receipt is evidence of one setup on the inputs it names with a whole bundle (`ReceiptSound`); the pointer names what was built from its key; answers agree with the receipt; an effect is claimed once (`ImplementsEffect`) |
| `begin` (`MCTaskBegin`) | 2 attempts, 2 processes, 2 lineages, 1 place, a recipe, 2 trees, 2 cancels or reopens, 1 failure | success is answered to the attempt's own lineage with its start recorded (`AnswersOwn`); ready means the effects were completed in that very tree (`ReadyIsPrepared`); no receipt replaces one that saw more |
| `begin_closed` | 1 attempt, 1 process, no failure | violation of `FailureKeepsWork`, see below |
| `admitted` (`MCEvidence`) | 2 attempts, 2 processes, 2 requests, 1 definition, 1 criterion, 2 trees, 5 events, 2 calls, 2 edits, 1 failure | the stream stays readable (`EvidenceLoads`); commands of an identity run once (`RunsOnce`); a met assessment cites runs of its own tree that passed; one made after the end is about the tree that was left |
| `replayed` (`MCStoreMigration`) | 2 processes, 1 write of the old runtime, 2 cutover times, 1 write of the new one, 2 failures | readers find one whole migration (`ReadersSeeWhole`); only archived bytes are replaced; an undisturbed partial migration is finished (`MigrationResolves`) |
| `bound` (`MCRepoMembership`) | 2 processes, 2 releases, 2 guides, 3 calls, 1 user edit, 1 failure | an undisturbed refresh or update converges; an undisturbed unbind removes the profile last; no step of an unbind removes user text or the user's own skill; no registration is dropped by an undisturbed add |

Why these bounds are enough to be interesting.

- Runtime: its hazards are between a request and its save, and a failure can strike before
  any step. Two finalization identities (the loser must lose), two receipts (one to replace
  after a decision) and a clock set back meet in `converges`, on one attempt, where the exact
  retry can be obstructed too; two attempts (the second must leave the first alone) in
  `history`; in `inspected` a second transition is asked for while the first is at any stage or was
  left there, over seconds that may be the same or not. A row comes back only with a third one
  in the same second, which is the instance of `TaskRuntime_same_second.cfg`. A second task adds no interference, since every event
  identity contains the task; the proofs hold for any number of tasks and any clock.
- Landing: two processes and two agent commits give the races (a late commit needs one
  commit that is frozen and one that is not), two failures let a retry of a retry happen.
  The successor attempt needs cancel and reopen, so that run pays for a second attempt with
  one process; interleavings of two processes on one attempt are in `landing_beside`.
- Preparation: two worktrees with two processes share a key, or a worktree, or neither; two
  changes let something be edited and something damaged in one call, or be edited
  before and after the setup. A failure leaves an intent or a half-published generation
  for the other process.
- Begin: two lineages make one of two callers foreign; two trees use one path twice; two
  moves are one cancel and one reopen, so a second attempt follows a closed first one.
- Evidence: a run with its intent and result, a definition and an assessment are four events;
  the fifth is a competing correction or the measurement. Two commands at once with an
  edit on either side of an observation are the races the code guards against; a third
  command finds no new stage to interleave with.
- Migration: the first failure makes a partial apply, the second a partial replay; two
  cutover times let the target event be written again before a marker names it; the one
  write of the old runtime can fall on each of the three files at each stage.
- Membership: three calls are an install, an unbind and one command beside it, or two commands
  that race after an install; two releases tell an update from what it replaces.

Symmetry (processes, attempts, requests, trees and the like, where nothing orders them and
no assumption tells one from the others) is used in runs without liveness only.

Each property of a passing run has a mutant: a definition in the module whose name is
the mutated definition's with a suffix and which is marked as a mutant. Put in its place
it makes the run fail on that property.

## Fairness

`LiveSpec` of `TaskRuntime` and of `Landing` is `Spec` with, for each process, weak fairness of `Step`
(a live process executes its next instruction; locks are held for finite sections and
are freed by a death) and strong fairness of `Resume`, the exact repetition of an
unfinished request. The code justifies the second only as advice: a partial result
carries the exact command in `next_action` (`_landing_resume_action`,
`retry_task_close_finalization`), and callers are told to execute it. The failures are bounded, the
environment is under no fairness at all: nothing forces an agent to commit, a target to
be clean or a task to be begun. `FinishConverges` ends in a finish or in `Obstructed`: no
retry gets past a clock behind the start of the attempt, nor past a decision whose row
got another receipt or is not valid. `LandingSettles` is checked without commits by the agent
after the freeze (`LateEdits` FALSE): with one, a landing past its target update refuses
to validate its source as long as the worktree differs, by design.

`Spec` of `StoreMigration` has weak fairness of the reads of a preview and of the effects of
an apply, strong fairness of `Enter` (a store lock that is free again and again is got) and
of `Resume`, the owner repeating a partial apply. `MigrationResolves` speaks of the time in
which no task is open and the old runtime is silent; `Disturbed` ends its obligation, since
the code then refuses until somebody restores the files.

The other modules have no liveness: their commands are repeated by hand or not at all.

## Proofs

Every safety property the runs check is proved: each theorem holds for every choice of the constants, finite or infinite, under the assumptions
the modules name, and so for every bound on commits, edits, calls and failures. Every
component has an inductive invariant (`IInv`), which TLC evaluates on its instance before it
is proved and which each theorem is read off. The assumptions are of three kinds: the absent
value is none of the values (`None`, `Free`, `NoTask`), the bounds are natural numbers, the
switches are Booleans. Assumptions beyond these are named below.

### The task runtime

`TaskStoreProofs` states what the functions on rows return; `TaskRuntimeProofs` proves:

| Theorem | Says |
|---|---|
| `TypeCorrect` | `Spec => []TypeOK` |
| `LockExclusion` | `Spec => []LockHeld` |
| `NoStaleRead` | `Spec => []InHand` |
| `OneVerdictAlways` | `Spec => []OneVerdict` |
| `HistoryIsAppendOnly` | `Spec => HistoryAppendOnly` |
| `FinishIsReported` | `Spec => []FinishReported` |
| `WriteAheadAlways` | `Spec => []WriteAhead` |
| `SetupsAlwaysRecorded` | `Spec => SetupRecordedBeforeReplaced` |
| `RuntimeImplementsLifecycle` | `Spec => ImplementsLifecycle` |
| `DecisionAlwaysStands` | `Spec => []DecisionStands` |
| `TransitionsAlwaysInspectable` | `Spec => []TransitionsInspectable` |

Assumed besides: the initial receipt is a receipt.

The inductive invariant is `IInv == TypeOK /\ LockHeld /\ InHand /\ ValidState(tasks)`.
`TypeOK` alone is not inductive: `FinishSave` computes a row from the attempt its
request names, and that the attempt is there is what `InHand` says; that it still is
when the lock was released and taken again by nobody is `LockHeld`; that the look-up
finds one attempt and not two is the uniqueness in `ValidState`, which `Save` guards.
Every operation is proved through one lemma (`ProcessStep`): a step of one process
under the lock keeps what the others hold, because their stages exclude the lock or
hold only facts that never become false (`OthersKeepInHand`). `OneVerdict` is inductive
by itself: the guards read the durable ledger. `FinishReported` and `WriteAhead` use
`IInv` and a lemma that an ended attempt never changes (`HistoryKept`).
`SetupsAlwaysRecorded` needs one fact more, that a process about to replace a receipt has
seen the event of the one in place.

The refinement maps a row to its status, its attempts to their outcomes, and the first
request of an attempt to its verdict, and every step to one step of `TaskLifecycle` or
to none. `IInv` does not suffice: that a save of a finished row is `AbsFinish` with the
verdict recorded takes `OneVerdict`; that every request names an attempt of its task is
`RequestsNamed`; that a transition applied is one of `AbsMoves` is `TransitionsAllowed`,
which holds because the decision was made of the very row it replaces; that the creation
replaces nothing is `CreateInHand`. Their conjunction is `RInv`.

A decision names the row it was taken on, so whether it can be applied depends on
everything that can write that row afterwards. `RowMoves` lists it: a row is created, starts
an attempt, is saved with the active attempt's receipt or end, or makes a transition when
nothing is active. Of these only `record_task_setup` overtakes the decision of an active
attempt, and `DecisionStands` says exactly that: the row differs in the receipt of that
attempt at most. (The code allows that, see `TaskRuntime_pending.cfg` below.) The other half
is that the store accepts the decided row; the clock is its only obstacle, when it was set
back behind the start of the attempt or of the task. The invariant is `DInv`: `RInv`,
whoever is about to decide has seen, at some time, that the row it leads to is valid
(`Ripe`), and a decision of an active attempt was taken on the row in place but for the receipt
(`DecisionsSound`).

`TransitionsInspectable` is about the past: a request is finished or not depending on
whether the row in place is the one before or after it, so no row may come back. Attempts
are only added, and between two attempts the time of a row grows (`Before`) as long as each
transition was decided later than the row it replaced (`InTime`). Where one was not, the
property promises nothing for that task. The invariant `TInv` has therefore a part
that always holds, `BInv` (`RInv`, and that requests and decisions are of rows without an
active attempt), and a part per task, `InTime(t) => InPast(t)`: requests were made on rows the
task has or had (`RequestsPast`), a decision is pending or past (`DecisionsPast`), an event
is only of what was applied (`EventsGone`), and two requests cannot both be unfinished
(`OneUnfinished`). Without its exception the property is false
(`TaskRuntime_same_second.cfg`).

### Landing

`LandingProofs` proves of the landing transaction, with every command beside it:

| Theorem | Says |
|---|---|
| `InvariantHolds` | `Spec => []IInv` |
| `TypeCorrect` | `Spec => []TypeOK` |
| `LandsAlwaysOnceOnItsBase` | `Spec => []LandsOnceOnItsBase` |
| `LedgerAlwaysLoads` | `Spec => []LedgerLoads` |
| `SuccessAlwaysLanded` | `Spec => []SuccessIsLanded` |
| `NoWorkIsEverLost` | `Spec => []NoWorkLost` |
| `SettledAlwaysAgree` | `Spec => []SettledAgree` |

Assumed besides: the end statuses of close and recover are the three of the command line.

`IInv` has five parts. `LockSound`: the attempt lock is held exactly by the process in the
locked section of land, reconcile, abort or close. `Shape`: the rows of a transaction are
its phases in order and then the stages of its abort. `TransactionSound`: what a recorded
phase or stage claims is so in Git and in the runtime, and an abort follows at most
`canonical_created`. `AttemptSound`: a verdict of success was given after the target
moved, an ended attempt ended by its verdict, and a missing branch loses nothing (`Kept`).
`TargetSound`: a canonical commit on the target is the recorded one at the frozen base.
`JobsFit` is the part that carries the interleavings: what a process has read before
a wait, an effect or a failure still fits when it goes on. A landing in its section finds its phase
as it left it, since nobody else writes the transaction without the lock (`Exclusive`); what close,
recover and cleanup hold without a lock is only what never goes back (`AdvancesAt`): phases,
verdicts, ended outcomes, commits on the target, removed branches. Each effect, such as the
move of the target, is proved to establish what its phase will claim (`Due`), since the phase
is recorded in a later step and a death may lie between. `LedgerAlwaysLoads` then counts
the rows of each kind in their `Shape`.

What failing landings leave behind is not excluded by these theorems: that an aborted or
closed attempt has nothing on the target is false (below).

### Preparation

`PreparationProofs` proves of `prepare_worktree` and its cache:

| Theorem | Says |
|---|---|
| `InvariantHolds` | `Spec => []IInv` |
| `TypeCorrect` | `Spec => []TypeOK` |
| `ReceiptsAreSound` | `Spec => []ReceiptSound` |
| `PointersAreSound` | `Spec => []PointerSound` |
| `AnswersAlwaysAgree` | `Spec => []AnswersAgree` |
| `PreparationImplementsEffect` | `Spec => ImplementsEffect` |

Besides the types, `IInv` says who holds the lock of a worktree and of a key (`Locked`,
`KeyLocked`), that every generation, and not only the one pointed to, was built from its key
(`CacheSound`), that without an intent nothing was set up and a receipt is of one setup
(`FilesSound`), and what a call knows at each stage (`JobSound`): before the intent it has
found none, from then on it alone has claimed it, and its bundle was built from its key
although the toolchain may be upgraded and copies be damaged meanwhile. Versions of
tools only grow: that is what makes a build that read them twice sound. The
refinement uses the same invariant: a claim is made by the one call that holds the worktree.

### Task begin

`TaskBeginProofs` proves of `task begin`, which takes no lock:

| Theorem | Says |
|---|---|
| `InvariantHolds` | `Spec => []IInv` |
| `TypeCorrect` | `Spec => []TypeOK` |
| `AnswersAreOwn` | `Spec => []AnswersOwn` |
| `ReadyIsAlwaysPrepared` | `Spec => []ReadyIsPrepared` |
| `ReceiptsAlwaysAdvance` | `Spec => ReceiptsAdvance` |

Without a lock nothing that was read is known to be still so; `Sound` keeps of it what time
cannot take away (`Later`): rows and their lineage stay, effects done stay done for their
tree, a tree seen has no less work now. Two parts were found by failing attempts. Trees have
identities of their own (`TreesSound`): without that, a receipt of a removed tree could be
taken for one of the tree now in its place. And a fresh begin expects a receipt that has
seen no tree: its own recording must not count as going back.

### Evidence

`EvidenceProofs` proves of outcome evidence and validation:

| Theorem | Says |
|---|---|
| `InvariantHolds` | `Spec => []IInv` |
| `TypeCorrect` | `Spec => []TypeOK` |
| `EvidenceAlwaysLoads` | `Spec => []EvidenceLoads` |
| `CommandsRunOnce` | `Spec => []RunsOnce` |
| `CitedRunsAreSound` | `Spec => []CitedRunsSound` |
| `AlwaysAssessesWhatEnded` | `Spec => AssessesWhatEnded` |

Assumed besides: an environment that cannot be observed is one of the environments.
`EvidenceLoads` is about every prefix of the ledger, and the invariant says it that way: each
row is admitted by the rows before it (`LedgerSound`), so an append needs one admission and
keeps the others. `RunsSound` ties results to what really ran: an intent precedes the
commands, a result names those that ran, and an assessment that says met cites such results.
A process between two admissions is covered by `JobSound`: what it computed under the lock
of the attempt (`Mutex`) is still what the ledger lacks.

### Store migration

`StoreMigrationProofs` proves of `repo migrate`, for any processes, deaths, cutover times
and writes of either runtime:

| Theorem | Says |
|---|---|
| `InvariantHolds` | `Spec => []IInv` |
| `ReadersAlwaysSeeWhole` | `Spec => []ReadersSeeWhole` |
| `NothingIsOverwritten` | `Spec => NothingOverwritten` |
| `TypeCorrect` | `Spec => []TypeOK` |

`ReadersSeeWhole` is not inductive: it says nothing while a marker blocks the readers,
and the store becomes readable again in one step, `UnlinkPending`. Its strengthening
`IInv` says what holds meanwhile. An archive holds the original bytes under their digest
(`ArchiveSound`); a marker names a complete archive, and the runtime file is current under
it only when the ledger and the prompts are already (`MarkerSound`, the order in which
`migrate_store` writes); what the process under the lock has checked or written still
stands at its stage (`HolderSound`), because whoever writes needs the lock free (`Mutex`)
or, as the current runtime, no marker. A death loses the stage and keeps the rest, which
is all that a repeated command relies on. There is one lemma per durable effect.
`NothingOverwritten` follows from the same invariant: what `apply` replaces was `Allowed`
when the locks were taken.

### Repository membership

`RepoMembershipProofs` proves of the commands that write managed files:

| Theorem | Says |
|---|---|
| `InvariantHolds` | `Spec => []IInv` |
| `TypeCorrect` | `Spec => []TypeOK` |
| `RefreshAlwaysConverges` | `Spec => []RefreshConverges` |
| `UnbindAlwaysFinishes` | `Spec => UnbindFinishes` |
| `UnbindAlwaysKeepsWork` | `Spec => UnbindKeepsWork` |
| `RegistrationsAlwaysKept` | `Spec => RegistrationsKept` |

Assumed besides: a legacy skill is absent, managed or the user's own.
The invariant follows each command through its files: what an undisturbed refresh has
passed is as it left it (`Converging`), what an undisturbed unbind has passed is gone and what
remains is planned (`Finishing`), what is fresh is what was inspected (`Inspected`), an
undisturbed add holds the lock and every registration there is (`Appending`, `Holding`).
The last property was stated of every add at first. The proof did not go through, and TLC
found why outside the bounds of the run: with three processes and four calls, an
archive that read the profile early restores an older list between the read and the write
of an add. It is now stated of the adds nobody disturbs, which is what their lock can give.

### Model-checked only

Liveness (`FinishConverges`, `LandingSettles`, `MigrationResolves`) is out of the prover's
reach: it would need ENABLED. Every other property of the passing runs is the statement of a
theorem.

## Where code and documents disagree

The run `begin_closed` reports a violation on every check: a task begin with a recipe
starts the attempt, runs the recipe and then records its receipt. When the attempt is worked
in and closed meanwhile, recording raises, the handler finds no active attempt and removes
the worktree it had made, with `git worktree remove --force` and `git branch -D`: the
commits of a closed attempt are gone. `docs/CLI.md` says that failure preserves the attempt,
workspace and evidence.

The configurations below are kept beside the runs, to be checked by hand; each ends in a
violation after a short trace.

- `TaskRuntime_pending.cfg`: `record_task_setup` replaces a receipt although a finalization decision for
  the attempt is durable and not yet applied (`PendingGenerationBlocks`). The decision then
  names a row that no longer exists and no finish of the attempt succeeds again.
  `docs/FILE_FORMATS.md` says that a pending generation blocks competing mutation for its
  task. `DecisionStands` says that nothing else does this.
- `TaskRuntime_same_second.cfg` (`TransitionsAnswered`): a row is identified by its hash and its times are whole seconds. Cancel,
  reopen and cancel again inside one second bring a hash back, and the inspection that
  cancel and reopen begin with raises from then on.
- `Landing_aborted.cfg`: the process dies after `git merge --ff-only` and before
  `target_updated` is recorded; the retry looks at the cleanliness of the target
  worktree before it looks at the target's head, raises, and the transaction is aborted
  as `blocked_before_target_update` with its commit on the target. An exact retry that
  read the transaction before another call aborted it gets to the same state, and makes
  a second canonical commit on the way.
- `Landing_ended.cfg`: `task land` reads the attempt before it takes the attempt lock and
  not again under it; a `task close` in between ends the attempt, the landing moves the
  target nevertheless, and its own finalization conflicts for ever.
- `Landing_orphaned.cfg`: cancel, reopen and begin do not look at an unfinished abort of the
  previous attempt. Once a new attempt is active, `task land` pairs it with the old
  transaction and raises.
- `TaskBegin_again.cfg` (`FreshIsPrepared`): intent and receipt of a preparation are filed
  under the path of the worktree and nothing removes them. A fresh worktree at a path that
  was cleaned finds those of the removed one and is blocked.
  `docs/WORKTREE_PREPARATION.md` says that completed setup is reused only in the same
  worktree.
- `RepoMembership_status.cfg` (`ProfileTextKept`): guidance add writes back the profile it
  has read, under its lock; archive, unarchive and the handler refresh write the same file
  without it, so what one of them wrote in between is undone.

## What is not covered

- The components in the last row of the inventory and lifecycle decisions, each with its
  reason in `PROJECT.json`: the registry is one best-effort list without a promise to
  others, the Codex import and the read models compute rows from files and are re-run,
  distribution and the command line copy and dispatch, observability never fails a command,
  and `decide_next_action` has no caller.
- Handlers: what an overlay environment contains and how it is built; a task begin sees their
  findings as free choices, a repository command sees the release they install.
- In preparation: recipes without a shared artifact, size limits, symbolic links, the
  processes a command leaves behind.
- In task begin: more than one task (the default place contains the task, so two tasks meet
  only when a path is given by hand), guards beyond their verdict, the prompts' text.
- In migration: what a row is converted to, and stores that do not convert.
- In the task store: parsing and validation of payload fields that no modelled
  operation computes with, `fsync` failures, a torn last line of the ledger, the
  lock-directory fallback where `flock` is missing, reentrancy of the lock.
- In landing: more than one task (transactions of different tasks share only the target
  branch, which `ForeignCommit` moves), rewound targets, half-done Git commands other
  than the two-step removals, payloads of phases (`data_for`) beyond what validation
  compares, the observe-only form of reconcile-landing, the `task.cleanup` event, and
  dirty or foreign workspaces in `_cleanup_workspace` (they only refuse).
- Liveness of `task close` and `task cleanup`: they have no retry bookkeeping of their
  own and are repeated by hand.
