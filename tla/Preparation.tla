----------------------------- MODULE Preparation -----------------------------
(***************************************************************************)
(* Worktree preparation: prepare_worktree runs a reviewed recipe once in a *)
(* task worktree, or verifies what an earlier run retained, and acquires   *)
(* the dependency bundle of the recipe from the repository-local cache of  *)
(* immutable generations.                                                  *)
(*                                                                         *)
(* Files survive a process; everything a process observed dies with it.    *)
(* Contents are versions: the tracked files of a worktree, the declared    *)
(* inputs of its recipe, the toolchain.  A bundle is named by what it was  *)
(* built from.  The recipes modelled have a shared artifact; without one   *)
(* the steps between AcquireBundle and ClaimIntent, and Materialize, fall  *)
(* away.                                                                   *)
(***************************************************************************)
EXTENDS Sequences, Integers

CONSTANTS
    Worktrees,      \* task worktrees of the repository
    Procs,          \* concurrent commands
    Versions,       \* contents of tracked files and of declared inputs
    Free,           \* value of a lock nobody holds
    None,           \* no file
    MaxTools,       \* bound on the upgrades of the toolchain
    MaxChanges,     \* bound on the edits of files
    MaxFailures     \* bound on deaths, timeouts and failing commands

ASSUME VersionsAssumption == 0 \in Versions
ASSUME FreeAssumption == Free \notin Procs
ASSUME BoundsAssumption == MaxTools \in Nat /\ MaxChanges \in Nat /\ MaxFailures \in Nat

VARIABLES
    source,         \* Worktrees -> version of the tracked files
    inputs,         \* Worktrees -> version of the declared inputs
    tools,          \* version of the toolchain
    intent,         \* Worktrees -> is there an intent.json?
    completed,      \* Worktrees -> completed.json, or None
    outputs,        \* Worktrees -> the owned output directories, or None
    generations,    \* Keys -> the published generations, in order
    current,        \* Keys -> number of the generation current.json names, or 0
    lock,           \* Worktrees -> holder of the lock beside completed.json
    keyLock,        \* Keys -> holder of publication.lock
    answers,        \* Worktrees -> what calls that answered "ready" had verified
    local,          \* what each process is doing
    setups,         \* Worktrees -> how often setup commands were started
    changes, failures

world == <<source, inputs, tools>>
cache == <<generations, current, keyLock>>
counters == <<changes, failures>>
history == <<setups, answers>>
vars == <<world, intent, completed, outputs, cache, lock, local, history, counters>>

Tools == 0..MaxTools
Keys == [inputs: Versions, tools: Tools]
Identity == [source: Versions, inputs: Versions, tools: Tools]
KeyOf(seen) == [inputs |-> seen.inputs, tools |-> seen.tools]

\* The bytes of a bundle: what they were built from, and whether they were damaged.
Bundle == [inputs: Versions, tools: Tools, damaged: BOOLEAN]
Output == [inputs: Versions \cup {None}, bundle: Bundle \cup {None},
           setup: BOOLEAN, edited: BOOLEAN]
Receipt == [seen: Identity, bundle: Bundle, outputs: Output]

ASSUME NoneAssumption == None \notin Receipt \cup Output \cup Bundle

Idle == [at |-> "idle"]

Init ==
    /\ source = [w \in Worktrees |-> 0]
    /\ inputs = [w \in Worktrees |-> 0]
    /\ tools = 0
    /\ intent = [w \in Worktrees |-> FALSE]
    /\ completed = [w \in Worktrees |-> None]
    /\ outputs = [w \in Worktrees |-> None]
    /\ generations = [k \in Keys |-> <<>>]
    /\ current = [k \in Keys |-> 0]
    /\ lock = [w \in Worktrees |-> Free]
    /\ keyLock = [k \in Keys |-> Free]
    /\ local = [p \in Procs |-> Idle]
    /\ setups = [w \in Worktrees |-> 0]
    /\ answers = [w \in Worktrees |-> {}]
    /\ changes = 0 /\ failures = 0

Observed(w) == [source |-> source[w], inputs |-> inputs[w], tools |-> tools]

(***************************************************************************)
(* One call is a sequence of stages.  A call that returns, for whatever    *)
(* reason, releases its locks; a death does the same through the operating *)
(* system, so both are Return.                                             *)
(***************************************************************************)
At(p, stage) == local[p].at = stage
My(p) == local[p].w
Key(p) == KeyOf(local[p].seen)
To(p, stage) == local' = [local EXCEPT ![p].at = stage]

Released(held, p) == [x \in DOMAIN held |-> IF held[x] = p THEN Free ELSE held[x]]

Return(p) ==
    /\ local' = [local EXCEPT ![p] = Idle]
    /\ lock' = Released(lock, p)
    /\ keyLock' = Released(keyLock, p)

\* The call answers "blocked" and changes no file.
Blocked(p) ==
    /\ Return(p)
    /\ UNCHANGED <<world, intent, completed, outputs, generations, current, history, counters>>

Enter(w) == lock[w] = Free

\* The lock is taken, then source, inputs and toolchain are observed.
Call(p, w, execute) ==
    /\ local[p] = Idle
    /\ Enter(w)
    /\ lock' = [lock EXCEPT ![w] = p]
    /\ local' = [local EXCEPT ![p] =
          [at |-> "admission", w |-> w, execute |-> execute, seen |-> Observed(w),
           prior |-> completed[w] # None, generation |-> 0,
           bundle |-> None, outputs |-> None]]
    /\ UNCHANGED <<world, intent, completed, outputs, cache, history, counters>>

(***************************************************************************)
(* Admission: a retained receipt is verified, otherwise setup is admitted. *)
(***************************************************************************)
Retained_any_outputs(p) == KeyOf(completed[My(p)].seen) = Key(p)  \* mutant

Retained(p) ==
    LET w == My(p) IN
    /\ KeyOf(completed[w].seen) = Key(p)
    /\ outputs[w] = completed[w].outputs

VerifyRetained(p) ==
    /\ At(p, "admission") /\ local[p].prior /\ Retained(p)
    /\ local' = [local EXCEPT ![p].at = "checks",
                              ![p].bundle = completed[My(p)].bundle,
                              ![p].outputs = outputs[My(p)]]
    /\ UNCHANGED <<world, intent, completed, outputs, cache, lock, history, counters>>

RejectRetained(p) ==
    /\ At(p, "admission") /\ local[p].prior /\ ~Retained(p)
    /\ Blocked(p)

Admissible_after_crash(p) ==                                      \* mutant
    /\ local[p].execute
    /\ outputs[My(p)] = None

\* An intent without a receipt is an effect nobody knows the outcome of.
Admissible(p) ==
    /\ ~intent[My(p)]
    /\ local[p].execute
    /\ outputs[My(p)] = None

AdmitSetup(p) ==
    /\ At(p, "admission") /\ ~local[p].prior /\ Admissible(p)
    /\ To(p, "acquire")
    /\ UNCHANGED <<world, intent, completed, outputs, cache, lock, history, counters>>

RejectSetup(p) ==
    /\ At(p, "admission") /\ ~local[p].prior /\ ~Admissible(p)
    /\ Blocked(p)

(***************************************************************************)
(* The cache: one generation per successful build, never changed, and a    *)
(* pointer that is moved only to a complete one.                           *)
(***************************************************************************)
Generation(k) == generations[k][current[k]]

Published(k) == current[k] # 0 /\ Generation(k).payload = Generation(k).manifest

\* publication.lock is polled until the deadline: Fail is the deadline.
AcquireBundle(p) ==
    LET k == Key(p) IN
    /\ At(p, "acquire") /\ keyLock[k] = Free
    /\ \/ /\ Published(k)
          /\ local' = [local EXCEPT ![p].at = "intent", ![p].generation = current[k],
                                    ![p].bundle = Generation(k).manifest]
          /\ UNCHANGED keyLock
       \/ /\ ~Published(k)
          /\ To(p, "build")
          /\ keyLock' = [keyLock EXCEPT ![k] = p]
    /\ UNCHANGED <<world, intent, completed, outputs, generations, current, lock, history, counters>>

\* Declared inputs are copied to a scratch directory and compared with what
\* was observed; the recipe builds from the copies and from the live toolchain.
CopyBuildInputs(p) ==
    /\ At(p, "build") /\ inputs[My(p)] = local[p].seen.inputs
    /\ To(p, "building")
    /\ UNCHANGED <<world, intent, completed, outputs, cache, lock, history, counters>>

BuildBundle(p) ==
    /\ At(p, "building")
    /\ local' = [local EXCEPT ![p].at = "built", ![p].bundle =
          [inputs |-> local[p].seen.inputs, tools |-> tools, damaged |-> FALSE]]
    /\ UNCHANGED <<world, intent, completed, outputs, cache, lock, history, counters>>

BuildStands_unchecked(p) == TRUE                                  \* mutant

\* The comparisons at the end of _build_artifact.
BuildStands(p) == Observed(My(p)) = local[p].seen

\* mutant
PublishGeneration_pointer_first(p) ==
    /\ At(p, "built") /\ BuildStands(p)
    /\ current' = [current EXCEPT ![Key(p)] = Len(generations[Key(p)]) + 1]
    /\ To(p, "point")
    /\ UNCHANGED <<world, intent, completed, outputs, generations, keyLock, lock, history, counters>>

PublishGeneration(p) ==
    LET k == Key(p) IN
    /\ At(p, "built") /\ BuildStands(p)
    /\ generations' = [generations EXCEPT ![k] =
          Append(@, [manifest |-> local[p].bundle, payload |-> local[p].bundle])]
    /\ To(p, "point")
    /\ UNCHANGED <<world, intent, completed, outputs, current, keyLock, lock, history, counters>>

\* current.json is replaced, read back and verified; then the lock is released.
MovePointer(p) ==
    LET k == Key(p)  n == Len(generations[k]) IN
    /\ At(p, "point")
    /\ current' = [current EXCEPT ![k] = n]
    /\ IF generations[k][n].payload = generations[k][n].manifest
       THEN /\ local' = [local EXCEPT ![p].at = "intent", ![p].generation = n]
            /\ keyLock' = [keyLock EXCEPT ![k] = Free]
            /\ UNCHANGED lock
       ELSE Return(p)
    /\ UNCHANGED <<world, intent, completed, outputs, generations, history, counters>>

RejectBuild(p) ==
    /\ \/ At(p, "build") /\ inputs[My(p)] # local[p].seen.inputs
       \/ At(p, "built") /\ ~BuildStands(p)
    /\ Blocked(p)

(***************************************************************************)
(* Setup, between the durable intent and the durable receipt.              *)
(***************************************************************************)
ClaimIntent(p) ==
    /\ At(p, "intent")
    /\ intent' = [intent EXCEPT ![My(p)] = TRUE]
    /\ To(p, "outputs")
    /\ UNCHANGED <<world, completed, outputs, cache, lock, history, counters>>

Empty == [inputs |-> None, bundle |-> None, setup |-> FALSE, edited |-> FALSE]

MakeOutputs(p) ==
    /\ At(p, "outputs")
    /\ outputs[My(p)] = None
    /\ outputs' = [outputs EXCEPT ![My(p)] = Empty]
    /\ To(p, "inputs")
    /\ UNCHANGED <<world, intent, completed, cache, lock, history, counters>>

\* mutant
CopyInputs_uncompared(p) ==
    /\ At(p, "inputs")
    /\ outputs' = [outputs EXCEPT ![My(p)].inputs = inputs[My(p)]]
    /\ To(p, "materialize")
    /\ UNCHANGED <<world, intent, completed, cache, lock, history, counters>>

\* Bytes are copied first and compared with the recipe afterwards.
CopyInputs(p) ==
    LET w == My(p) IN
    /\ At(p, "inputs")
    /\ outputs' = [outputs EXCEPT ![w].inputs = inputs[w]]
    /\ IF inputs[w] = local[p].seen.inputs
       THEN To(p, "materialize") /\ UNCHANGED <<lock, keyLock>>
       ELSE Return(p)
    /\ UNCHANGED <<world, intent, completed, generations, current, history, counters>>

\* The payload of the acquired generation must still be what its pointer names.
Acquired(p) == generations[Key(p)][local[p].generation].payload = local[p].bundle

Materialize(p) ==
    /\ At(p, "materialize") /\ Acquired(p)
    /\ outputs' = [outputs EXCEPT ![My(p)].bundle = local[p].bundle]
    /\ To(p, "setup")
    /\ UNCHANGED <<world, intent, completed, cache, lock, history, counters>>

\* The output directories appeared after admission, or the bundle was damaged.
RejectOutputs(p) ==
    /\ \/ At(p, "outputs") /\ outputs[My(p)] # None
       \/ At(p, "materialize") /\ ~Acquired(p)
    /\ Blocked(p)

RunSetup(p) ==
    LET w == My(p) IN
    /\ At(p, "setup")
    /\ setups' = [setups EXCEPT ![w] = @ + 1]
    /\ outputs' = [outputs EXCEPT ![w].setup = TRUE]
    /\ To(p, "snapshot")
    /\ UNCHANGED <<world, intent, completed, cache, lock, answers, counters>>

SnapshotOutputs(p) ==
    /\ At(p, "snapshot")
    /\ local' = [local EXCEPT ![p].at = "checks", ![p].outputs = outputs[My(p)]]
    /\ UNCHANGED <<world, intent, completed, outputs, cache, lock, history, counters>>

(***************************************************************************)
(* Readiness: the checks run, everything observed is observed again, and   *)
(* only then is a receipt written and "ready" answered.                    *)
(***************************************************************************)
RunChecks(p) ==
    /\ At(p, "checks")
    /\ To(p, "recheck")
    /\ UNCHANGED <<world, intent, completed, outputs, cache, lock, history, counters>>

Stands(p) ==
    LET w == My(p) IN
    /\ Observed(w) = local[p].seen
    /\ outputs[w] = local[p].outputs
    /\ outputs[w].bundle = local[p].bundle

Recheck(p) ==
    /\ At(p, "recheck") /\ Stands(p)
    /\ To(p, "complete")
    /\ UNCHANGED <<world, intent, completed, outputs, cache, lock, history, counters>>

DiscardReadiness(p) ==
    /\ At(p, "recheck") /\ ~Stands(p)
    /\ Blocked(p)

Complete(p) ==
    LET w == My(p) IN
    /\ At(p, "complete")
    /\ IF local[p].prior THEN UNCHANGED completed
       ELSE completed' = [completed EXCEPT ![w] =
              [seen |-> local[p].seen, bundle |-> local[p].bundle, outputs |-> local[p].outputs]]
    /\ answers' = [answers EXCEPT ![w] =
          @ \cup {[key |-> Key(p), outputs |-> local[p].outputs]}]
    /\ Return(p)
    /\ UNCHANGED <<world, intent, outputs, generations, current, setups, counters>>

(***************************************************************************)
(* A death, an OSError, an exhausted deadline or a failing command, before *)
(* the next step.  A setup command that fails has had its effects.         *)
(***************************************************************************)
Fail(p) ==
    /\ local[p] # Idle
    /\ failures < MaxFailures
    /\ failures' = failures + 1
    /\ IF At(p, "setup")
       THEN setups' = [setups EXCEPT ![My(p)] = @ + 1]
       ELSE UNCHANGED setups
    /\ Return(p)
    /\ UNCHANGED <<world, intent, completed, outputs, generations, current, answers, changes>>

(***************************************************************************)
(* The environment: whoever works in a worktree edits its files, outputs   *)
(* and the primary's inputs, the machine's tools are upgraded, and bytes   *)
(* of a published generation are damaged.                                  *)
(***************************************************************************)
Change == changes < MaxChanges /\ changes' = changes + 1

EditFiles(w) ==
    /\ Change
    /\ \E v \in Versions :
          \/ v # source[w] /\ source' = [source EXCEPT ![w] = v] /\ UNCHANGED inputs
          \/ v # inputs[w] /\ inputs' = [inputs EXCEPT ![w] = v] /\ UNCHANGED source
    /\ UNCHANGED <<tools, intent, completed, outputs, cache, lock, local, history, failures>>

UpgradeTools ==
    /\ Change
    /\ tools < MaxTools /\ tools' = tools + 1
    /\ UNCHANGED <<source, inputs, intent, completed, outputs, cache, lock, local, history, failures>>

EditOutputs(w) ==
    /\ Change
    /\ outputs' = [outputs EXCEPT ![w] =
          IF @ = None THEN [Empty EXCEPT !.edited = TRUE]
          ELSE [@ EXCEPT !.edited = TRUE]]
    /\ UNCHANGED <<world, intent, completed, cache, lock, local, history, failures>>

DamageCopy(w) ==
    /\ Change
    /\ outputs[w] # None /\ outputs[w].bundle # None
    /\ outputs' = [outputs EXCEPT ![w].bundle.damaged = TRUE]
    /\ UNCHANGED <<world, intent, completed, cache, lock, local, history, failures>>

DamageGeneration(k, n) ==
    /\ Change
    /\ generations' = [generations EXCEPT ![k][n].payload.damaged = TRUE]
    /\ UNCHANGED <<world, intent, completed, outputs, current, lock, keyLock, local, history, failures>>

Environment ==
    \/ UpgradeTools
    \/ \E w \in Worktrees : EditFiles(w) \/ EditOutputs(w) \/ DamageCopy(w)
    \/ \E k \in Keys : \E n \in DOMAIN generations[k] : DamageGeneration(k, n)

Step(p) ==
    \/ VerifyRetained(p) \/ RejectRetained(p) \/ AdmitSetup(p) \/ RejectSetup(p)
    \/ AcquireBundle(p) \/ CopyBuildInputs(p) \/ BuildBundle(p) \/ RejectBuild(p)
    \/ PublishGeneration(p) \/ MovePointer(p)
    \/ ClaimIntent(p) \/ MakeOutputs(p) \/ CopyInputs(p) \/ Materialize(p) \/ RejectOutputs(p)
    \/ RunSetup(p) \/ SnapshotOutputs(p)
    \/ RunChecks(p) \/ Recheck(p) \/ DiscardReadiness(p) \/ Complete(p)

Next ==
    \/ \E p \in Procs :
          \/ \E w \in Worktrees, x \in BOOLEAN : Call(p, w, x)
          \/ Step(p)
          \/ Fail(p)
    \/ Environment

Spec == Init /\ [][Next]_vars

-----------------------------------------------------------------------------
(***************************************************************************)
(* Properties                                                              *)
(***************************************************************************)
Stages == {"idle", "admission", "acquire", "build", "building", "built", "point",
           "intent", "outputs", "inputs", "materialize", "setup", "snapshot",
           "checks", "recheck", "complete"}

\* Types of the files, the locks and the calls.
TypeOK ==
    /\ source \in [Worktrees -> Versions] /\ inputs \in [Worktrees -> Versions] /\ tools \in Tools
    /\ intent \in [Worktrees -> BOOLEAN]
    /\ completed \in [Worktrees -> Receipt \cup {None}]
    /\ outputs \in [Worktrees -> Output \cup {None}]
    /\ \A k \in Keys : /\ current[k] \in 0..Len(generations[k])
                       /\ \A n \in DOMAIN generations[k] :
                             generations[k][n] \in [manifest: Bundle, payload: Bundle]
    /\ lock \in [Worktrees -> Procs \cup {Free}]
    /\ keyLock \in [Keys -> Procs \cup {Free}]
    /\ \A p \in Procs : local[p].at \in Stages

BuiltFrom(bundle, key) ==
    bundle = [inputs |-> key.inputs, tools |-> key.tools, damaged |-> FALSE]

\* A receipt is evidence of exactly one start of the setup commands, on the
\* inputs it names, with a bundle that was built from its own identity and was
\* whole when the receipt was written, whatever was edited, upgraded or damaged
\* meanwhile (prepare_worktree, _build_artifact, materialize).
ReceiptSound ==
    \A w \in Worktrees : completed[w] # None =>
        LET r == completed[w] IN
        /\ setups[w] = 1
        /\ r.outputs.setup
        /\ r.outputs.inputs = r.seen.inputs
        /\ r.outputs.bundle = r.bundle
        /\ BuiltFrom(r.bundle, KeyOf(r.seen))

\* current.json names a generation that was built from the key it is filed
\* under and was whole when it was published, although builders die between
\* rename and pointer and the toolchain changes during a build (acquire).
PointerSound ==
    \A k \in Keys : current[k] # 0 => BuiltFrom(Generation(k).manifest, k)

\* Every "ready" of one worktree was given for the same declared inputs, tools
\* and output contents: those of its one receipt.
AnswersAgree ==
    \A w \in Worktrees : \A r \in answers[w] :
        /\ completed[w] # None
        /\ r = [key |-> KeyOf(completed[w].seen), outputs |-> completed[w].outputs]

(***************************************************************************)
(* Implementation of PreparedEffect.                                       *)
(***************************************************************************)
Claiming == {"outputs", "inputs", "materialize", "setup", "snapshot", "checks", "recheck", "complete"}

Claimant(w) == \E p \in Procs : lock[w] = p /\ local[p].at \in Claiming /\ ~local[p].prior

EffectOf(w) ==
    CASE completed[w] # None -> "done"
      [] completed[w] = None /\ ~intent[w] -> "none"
      [] completed[w] = None /\ intent[w] /\ Claimant(w) -> "claimed"
      [] OTHER -> "unknown"

Effects == INSTANCE PreparedEffect WITH effect <- [w \in Worktrees |-> EffectOf(w)]

\* The effects of a recipe are claimed once per worktree and completed by their
\* claimant or never: a death between intent.json and completed.json blocks
\* every later call and is not repeated.
ImplementsEffect == Effects!AbsSpec
=============================================================================
