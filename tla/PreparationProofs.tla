-------------------------- MODULE PreparationProofs --------------------------
(***************************************************************************)
(* What TLAPS proves of worktree preparation, for any number of worktrees, *)
(* commands, versions, edits, upgrades, damages and deaths: receipts and   *)
(* cache pointers are sound, the answers agree, and the whole implements   *)
(* the promise PreparedEffect.                                             *)
(***************************************************************************)
EXTENDS Preparation, TLAPS

(***************************************************************************)
(* The inductive invariant.                                                *)
(***************************************************************************)
Active == Stages \ {"idle"}

Job ==
    [at: Active, w: Worktrees, execute: BOOLEAN, seen: Identity, prior: BOOLEAN,
     generation: Nat, bundle: Bundle \cup {None}, outputs: Output \cup {None}]

Built == [manifest: Bundle, payload: Bundle]

Answer == [key: Keys, outputs: Output]

Typed ==
    /\ source \in [Worktrees -> Versions] /\ inputs \in [Worktrees -> Versions] /\ tools \in Tools
    /\ intent \in [Worktrees -> BOOLEAN]
    /\ completed \in [Worktrees -> Receipt \cup {None}]
    /\ outputs \in [Worktrees -> Output \cup {None}]
    /\ generations \in [Keys -> Seq(Built)]
    /\ current \in [Keys -> Nat]
    /\ \A k \in Keys : current[k] <= Len(generations[k])
    /\ lock \in [Worktrees -> Procs \cup {Free}]
    /\ keyLock \in [Keys -> Procs \cup {Free}]
    /\ local \in [Procs -> Job \cup {Idle}]
    /\ setups \in [Worktrees -> Nat]
    /\ answers \in [Worktrees -> SUBSET Answer]

\* A call holds the lock of its worktree from its first stage to its last, and
\* no other; publication.lock belongs to whoever builds for that key.
Building == {"build", "building", "built", "point"}

Locked ==
    \A p \in Procs, w \in Worktrees :
        lock[w] = p <=> local[p] # Idle /\ local[p].w = w

KeyLocked ==
    \A p \in Procs, k \in Keys :
        keyLock[k] = p <=> local[p] # Idle /\ local[p].at \in Building /\ KeyOf(local[p].seen) = k

\* Every generation was built from the key it is filed under.
CacheSound ==
    \A k \in Keys : \A n \in DOMAIN generations[k] : BuiltFrom(generations[k][n].manifest, k)

\* Without an intent nothing has happened; a receipt and the answers are sound.
ReceiptOf(w) ==
    LET r == completed[w] IN
    /\ setups[w] = 1
    /\ r.outputs.setup
    /\ r.outputs.inputs = r.seen.inputs
    /\ r.outputs.bundle = r.bundle
    /\ BuiltFrom(r.bundle, KeyOf(r.seen))

FilesSound ==
    \A w \in Worktrees :
        /\ ~intent[w] => setups[w] = 0 /\ completed[w] = None
        /\ completed[w] # None => ReceiptOf(w)
        /\ \A r \in answers[w] :
              /\ completed[w] # None
              /\ r = [key |-> KeyOf(completed[w].seen), outputs |-> completed[w].outputs]

\* What a call has verified, done and copied still stands at its stage.
BeforeIntent == {"acquire", "intent"} \cup Building
Fresh == {"outputs", "inputs", "materialize", "setup", "snapshot"}
Ready == {"checks", "recheck", "complete"}
HasBundle == {"point", "intent"} \cup Fresh \cup Ready

JobSound(j) ==
    /\ j.prior <=> completed[j.w] # None
    /\ j.seen.tools <= tools
    /\ j.at \in BeforeIntent => ~j.prior /\ ~intent[j.w]
    /\ j.at \in Fresh => ~j.prior
    /\ j.at \in Fresh \cup Ready /\ ~j.prior => intent[j.w]
    /\ j.at \in Fresh \ {"snapshot"} => setups[j.w] = 0
    /\ j.at \in {"snapshot"} \cup Ready /\ ~j.prior => setups[j.w] = 1
    /\ j.at = "built" =>
          /\ j.bundle \in Bundle /\ j.bundle.inputs = j.seen.inputs /\ ~j.bundle.damaged
          /\ j.seen.tools <= j.bundle.tools /\ j.bundle.tools <= tools
    /\ j.at \in HasBundle /\ ~j.prior => BuiltFrom(j.bundle, KeyOf(j.seen))
    /\ j.at \in {"inputs", "materialize", "setup", "snapshot"} => outputs[j.w] # None
    /\ j.at \in {"materialize", "setup", "snapshot"} => outputs[j.w].inputs = j.seen.inputs
    /\ j.at = "snapshot" => outputs[j.w].setup
    /\ j.at \in Ready => j.outputs # None
    /\ j.at \in Ready /\ j.prior =>
          /\ KeyOf(completed[j.w].seen) = KeyOf(j.seen)
          /\ j.outputs = completed[j.w].outputs
    /\ j.at \in Ready /\ ~j.prior =>
          j.outputs.setup /\ j.outputs.inputs = j.seen.inputs
    /\ j.at = "complete" => j.outputs.bundle = j.bundle

JobsSound == \A p \in Procs : local[p] # Idle => JobSound(local[p])

IInv == Typed /\ Locked /\ KeyLocked /\ CacheSound /\ FilesSound /\ JobsSound

(***************************************************************************)
(* Initially.                                                              *)
(***************************************************************************)
\* Nothing is claimed, stored, published or held.
LEMMA InitHolds == Init => IInv
  <1> SUFFICES ASSUME Init PROVE IInv
    OBVIOUS
  <1>1. Typed
    BY VersionsAssumption, BoundsAssumption DEF Init, Typed, Tools
  <1>2. Locked /\ KeyLocked
    BY FreeAssumption DEF Init, Locked, KeyLocked
  <1>3. CacheSound /\ FilesSound /\ JobsSound
    BY DEF Init, CacheSound, FilesSound, JobsSound
  <1> QED
    BY <1>1, <1>2, <1>3 DEF IInv

(***************************************************************************)
(* A call between its first stage and its last.                            *)
(***************************************************************************)
\* An active call is a job, and it holds the lock of its worktree.
LEMMA ActiveJob ==
    ASSUME IInv, NEW p \in Procs, local[p] # Idle
    PROVE  /\ local[p] \in Job
           /\ lock[local[p].w] = p
           /\ \A q \in Procs : q # p /\ local[q] # Idle => local[q].w # local[p].w
           /\ JobSound(local[p])
  <1>1. \A q \in Procs : local[q] # Idle => local[q] \in Job
    BY DEF IInv, Typed
  <1>2. \A q \in Procs : local[q] # Idle => lock[local[q].w] = q
    BY <1>1 DEF IInv, Locked, Job
  <1> QED
    BY <1>1, <1>2 DEF IInv, JobsSound

\* The step of a call concerns one worktree: all other calls keep what they know.
LEMMA OthersSound ==
    ASSUME IInv, NEW p \in Procs, NEW w \in Worktrees,
           \A q \in Procs : q # p => local'[q] = local[q],
           \A q \in Procs : q # p /\ local[q] # Idle => local[q].w # w,
           tools' = tools,
           \A x \in Worktrees : x # w =>
               /\ intent'[x] = intent[x] /\ completed'[x] = completed[x]
               /\ outputs'[x] = outputs[x] /\ setups'[x] = setups[x],
           local'[p] # Idle => JobSound(local[p])'
    PROVE  JobsSound'
  <1> SUFFICES ASSUME NEW q \in Procs, q # p, local'[q] # Idle
               PROVE  JobSound(local[q])'
    BY DEF JobsSound
  <1>1. local'[q] = local[q] /\ local[q] \in Job /\ JobSound(local[q])
    BY DEF IInv, Typed, JobsSound
  <1>2. local[q].w \in Worktrees /\ local[q].w # w
    BY <1>1 DEF Job
  <1> QED
    BY <1>1, <1>2 DEF JobSound

\* A call that goes on keeps its worktree and its locks.
LEMMA GoesOn ==
    ASSUME IInv, NEW p \in Procs, local[p] # Idle,
           NEW j \in Job, j.w = local[p].w, j.seen = local[p].seen,
           local' = [local EXCEPT ![p] = j],
           j.at \in Building <=> local[p].at \in Building,
           UNCHANGED <<lock, keyLock>>
    PROVE  /\ local' \in [Procs -> Job \cup {Idle}]
           /\ local'[p] = j /\ j # Idle
           /\ \A q \in Procs : q # p => local'[q] = local[q]
           /\ Locked' /\ KeyLocked'
  <1>1. j # Idle
    BY DEF Job, Idle, Active
  <1>2. local' \in [Procs -> Job \cup {Idle}] /\ local'[p] = j
        /\ \A q \in Procs : q # p => local'[q] = local[q]
    BY DEF IInv, Typed
  <1>3. Locked'
    BY <1>1, <1>2 DEF IInv, Locked
  <1>4. KeyLocked'
    BY <1>1, <1>2 DEF IInv, KeyLocked
  <1> QED
    BY <1>1, <1>2, <1>3, <1>4

\* A call that returns releases what it holds.
LEMMA Returns ==
    ASSUME IInv, NEW p \in Procs, Return(p)
    PROVE  /\ local' \in [Procs -> Job \cup {Idle}]
           /\ local'[p] = Idle
           /\ \A q \in Procs : q # p => local'[q] = local[q]
           /\ lock' \in [Worktrees -> Procs \cup {Free}]
           /\ keyLock' \in [Keys -> Procs \cup {Free}]
           /\ Locked' /\ KeyLocked'
  <1>1. /\ local' \in [Procs -> Job \cup {Idle}] /\ local'[p] = Idle
        /\ \A q \in Procs : q # p => local'[q] = local[q]
    BY DEF IInv, Typed, Return
  <1>2. /\ lock' = [w \in Worktrees |-> IF lock[w] = p THEN Free ELSE lock[w]]
        /\ keyLock' = [k \in Keys |-> IF keyLock[k] = p THEN Free ELSE keyLock[k]]
    BY DEF IInv, Typed, Return, Released
  <1>3. /\ lock' \in [Worktrees -> Procs \cup {Free}]
        /\ keyLock' \in [Keys -> Procs \cup {Free}]
    BY <1>2 DEF IInv, Typed
  <1>4. Locked'
    BY <1>1, <1>2, FreeAssumption DEF IInv, Locked
  <1>5. KeyLocked'
    BY <1>1, <1>2, FreeAssumption DEF IInv, KeyLocked
  <1> QED
    BY <1>1, <1>3, <1>4, <1>5

(***************************************************************************)
(* Steps that change no file.                                              *)
(***************************************************************************)
files == <<world, intent, completed, outputs, generations, current, history>>

\* A call goes on with a job that stands.
LEMMA LocalStep ==
    ASSUME IInv, NEW p \in Procs, local[p] # Idle,
           NEW j \in Job, j.w = local[p].w, j.seen = local[p].seen,
           local' = [local EXCEPT ![p] = j],
           j.at \in Building <=> local[p].at \in Building,
           UNCHANGED <<files, lock, keyLock>>,
           JobSound(j)
    PROVE  IInv'
  <1>1. /\ local' \in [Procs -> Job \cup {Idle}]
        /\ local'[p] = j
        /\ \A q \in Procs : q # p => local'[q] = local[q]
        /\ Locked' /\ KeyLocked'
    BY GoesOn
  <1>2. UNCHANGED <<source, inputs, tools, intent, completed, outputs, generations, current,
                    setups, answers>>
    BY DEF files, world, history
  <1>3. JobSound(local[p])'
    BY <1>1, <1>2 DEF JobSound
  <1>4. JobsSound'
    BY <1>1, <1>2, <1>3, ActiveJob, OthersSound DEF Job
  <1>5. Typed'
    BY <1>1, <1>2 DEF IInv, Typed
  <1>6. CacheSound' /\ FilesSound'
    BY <1>2 DEF IInv, CacheSound, FilesSound, ReceiptOf, BuiltFrom
  <1> QED
    BY <1>1, <1>4, <1>5, <1>6 DEF IInv

\* A call that is refused, finds something changed or dies.
LEMMA ReturnStep ==
    ASSUME IInv, NEW p \in Procs, local[p] # Idle, Return(p), UNCHANGED files
    PROVE  IInv'
  <1>1. /\ local' \in [Procs -> Job \cup {Idle}]
        /\ local'[p] = Idle
        /\ \A q \in Procs : q # p => local'[q] = local[q]
        /\ lock' \in [Worktrees -> Procs \cup {Free}]
        /\ keyLock' \in [Keys -> Procs \cup {Free}]
        /\ Locked' /\ KeyLocked'
    BY Returns
  <1>2. UNCHANGED <<source, inputs, tools, intent, completed, outputs, generations, current,
                    setups, answers>>
    BY DEF files, world, history
  <1>3. JobsSound'
    BY <1>1, <1>2, ActiveJob, OthersSound DEF Job
  <1>4. Typed'
    BY <1>1, <1>2 DEF IInv, Typed
  <1>5. CacheSound' /\ FilesSound'
    BY <1>2 DEF IInv, CacheSound, FilesSound, ReceiptOf, BuiltFrom
  <1> QED
    BY <1>1, <1>3, <1>4, <1>5 DEF IInv

LEMMA VerifyRetainedStep ==
    ASSUME IInv, NEW p \in Procs, VerifyRetained(p)
    PROVE  IInv'
  <1> DEFINE j == [local[p] EXCEPT !.at = "checks", !.bundle = completed[My(p)].bundle,
                                   !.outputs = outputs[My(p)]]
  <1>1. local[p] # Idle /\ local[p].at = "admission" /\ local[p].prior /\ Retained(p)
    BY DEF VerifyRetained, At, Idle
  <1>2. local[p] \in Job /\ JobSound(local[p])
    BY <1>1, ActiveJob
  <1>3. completed[My(p)] \in Receipt /\ outputs[My(p)] = completed[My(p)].outputs
    BY <1>1, <1>2 DEF IInv, Typed, JobSound, My, Job, Retained
  <1>4. outputs[My(p)] \in Output /\ completed[My(p)].bundle \in Bundle
        /\ outputs[My(p)] # None
    BY <1>3, NoneAssumption DEF Receipt
  <1>5. /\ j \in Job /\ j.w = local[p].w /\ j.seen = local[p].seen /\ j.prior
        /\ j.at = "checks" /\ j.outputs = outputs[My(p)]
    BY <1>1, <1>2, <1>4 DEF Job, Active, Stages
  <1>6. JobSound(j)
    BY <1>1, <1>2, <1>3, <1>4, <1>5
    DEF JobSound, Retained, Key, My, BeforeIntent, Building, Fresh, Ready, HasBundle
  <1>7. local' = [local EXCEPT ![p] = j]
    BY DEF VerifyRetained
  <1>8. UNCHANGED <<files, lock, keyLock>>
    BY DEF VerifyRetained, files, cache
  <1> HIDE DEF j
  <1> QED
    BY <1>1, <1>5, <1>6, <1>7, <1>8, LocalStep DEF Building

LEMMA AdmitSetupStep ==
    ASSUME IInv, NEW p \in Procs, AdmitSetup(p)
    PROVE  IInv'
  <1> DEFINE j == [local[p] EXCEPT !.at = "acquire"]
  <1>1. local[p] # Idle /\ local[p].at = "admission" /\ ~local[p].prior /\ ~intent[My(p)]
    BY DEF AdmitSetup, At, Idle, Admissible
  <1>2. local[p] \in Job /\ JobSound(local[p])
    BY <1>1, ActiveJob
  <1>3. /\ j \in Job /\ j.w = local[p].w /\ j.seen = local[p].seen /\ j.prior = local[p].prior
        /\ j.at = "acquire"
    BY <1>2 DEF Job, Active, Stages
  <1>4. JobSound(j)
    BY <1>1, <1>2, <1>3 DEF JobSound, My, BeforeIntent, Building, Fresh, Ready, HasBundle
  <1>5. local' = [local EXCEPT ![p] = j] /\ UNCHANGED <<files, lock, keyLock>>
    BY DEF AdmitSetup, To, files, cache
  <1> HIDE DEF j
  <1> QED
    BY <1>1, <1>3, <1>4, <1>5, LocalStep DEF Building

\* What current.json names is a generation of its key.
LEMMA GenerationFound ==
    ASSUME IInv, NEW k \in Keys, current[k] # 0
    PROVE  /\ current[k] \in DOMAIN generations[k]
           /\ Generation(k) \in Built
           /\ BuiltFrom(Generation(k).manifest, k)
  <1>1. generations[k] \in Seq(Built) /\ current[k] \in 1..Len(generations[k])
    BY DEF IInv, Typed
  <1> QED
    BY <1>1 DEF IInv, CacheSound, Generation

LEMMA AcquireBundleStep ==
    ASSUME IInv, NEW p \in Procs, AcquireBundle(p)
    PROVE  IInv'
  <1> DEFINE k == Key(p)
  <1>1. local[p] # Idle /\ local[p].at = "acquire" /\ keyLock[k] = Free
    BY DEF AcquireBundle, At, Idle
  <1>2. local[p] \in Job /\ JobSound(local[p])
    BY <1>1, ActiveJob
  <1>3. k \in Keys
    BY <1>2 DEF Key, KeyOf, Job, Identity, Keys
  <1>4. CASE Published(k) /\ keyLock' = keyLock
             /\ local' = [local EXCEPT ![p].at = "intent", ![p].generation = current[k],
                                       ![p].bundle = Generation(k).manifest]
    <2> DEFINE j == [local[p] EXCEPT !.at = "intent", !.generation = current[k],
                                     !.bundle = Generation(k).manifest]
    <2>1. Generation(k).manifest \in Bundle /\ BuiltFrom(Generation(k).manifest, k)
          /\ current[k] \in Nat
      BY <1>3, <1>4, GenerationFound DEF Published, Built, IInv, Typed
    <2>2. /\ j \in Job /\ j.w = local[p].w /\ j.seen = local[p].seen /\ j.prior = local[p].prior
          /\ j.at = "intent" /\ j.bundle = Generation(k).manifest
      BY <1>2, <2>1 DEF Job, Active, Stages
    <2>3. JobSound(j)
      BY <1>1, <1>2, <2>1, <2>2
      DEF JobSound, Key, BeforeIntent, Building, Fresh, Ready, HasBundle
    <2>4. local' = [local EXCEPT ![p] = j] /\ UNCHANGED <<files, lock, keyLock>>
      BY <1>4 DEF AcquireBundle, files, cache
    <2> HIDE DEF j
    <2> QED
      BY <1>1, <2>2, <2>3, <2>4, LocalStep DEF Building
  <1>5. CASE To(p, "build") /\ keyLock' = [keyLock EXCEPT ![k] = p]
    <2> DEFINE j == [local[p] EXCEPT !.at = "build"]
    <2>1. /\ j \in Job /\ j.w = local[p].w /\ j.seen = local[p].seen /\ j.prior = local[p].prior
          /\ j.at = "build" /\ j # Idle
      BY <1>2 DEF Job, Active, Stages, Idle
    <2>2. /\ local' \in [Procs -> Job \cup {Idle}] /\ local'[p] = j
          /\ \A q \in Procs : q # p => local'[q] = local[q]
      BY <1>5, <2>1 DEF To, IInv, Typed
    <2>3. /\ UNCHANGED <<source, inputs, tools, intent, completed, outputs, generations, current,
                         lock, setups, answers>>
          /\ keyLock' \in [Keys -> Procs \cup {Free}]
      BY <1>3, <1>5 DEF AcquireBundle, world, history, IInv, Typed
    <2>4. JobSound(local[p])'
      BY <1>1, <1>2, <2>1, <2>2, <2>3
      DEF JobSound, Key, BeforeIntent, Building, Fresh, Ready, HasBundle
    <2>5. JobsSound'
      BY <1>1, <1>2, <2>2, <2>3, <2>4, ActiveJob, OthersSound DEF Job
    <2>6. Typed'
      BY <2>2, <2>3 DEF IInv, Typed
    <2>7. CacheSound' /\ FilesSound'
      BY <2>3 DEF IInv, CacheSound, FilesSound, ReceiptOf, BuiltFrom
    <2>8. Locked'
      <3> HIDE DEF j
      <3>1. \A q \in Procs : /\ local'[q] # Idle <=> local[q] # Idle
                             /\ local[q] # Idle => local'[q].w = local[q].w
        BY <1>1, <2>1, <2>2
      <3> QED
        BY <2>3, <3>1 DEF IInv, Locked
    <2>9. KeyLocked'
      <3>1. \A x \in Keys : keyLock'[x] = IF x = k THEN p ELSE keyLock[x]
        BY <1>3, <1>5 DEF IInv, Typed
      <3>2. KeyOf(j.seen) = k
        BY <2>1 DEF Key
      <3> HIDE DEF j, k
      <3> QED
        BY <1>1, <2>1, <2>2, <3>1, <3>2, FreeAssumption DEF IInv, KeyLocked, Building
    <2> QED
      BY <2>5, <2>6, <2>7, <2>8, <2>9 DEF IInv
  <1> QED
    BY <1>4, <1>5 DEF AcquireBundle

LEMMA CopyBuildInputsStep ==
    ASSUME IInv, NEW p \in Procs, CopyBuildInputs(p)
    PROVE  IInv'
  <1> DEFINE j == [local[p] EXCEPT !.at = "building"]
  <1>1. local[p] # Idle /\ local[p].at = "build"
    BY DEF CopyBuildInputs, At, Idle
  <1>2. local[p] \in Job /\ JobSound(local[p])
    BY <1>1, ActiveJob
  <1>3. /\ j \in Job /\ j.w = local[p].w /\ j.seen = local[p].seen /\ j.prior = local[p].prior
        /\ j.at = "building"
    BY <1>2 DEF Job, Active, Stages
  <1>4. JobSound(j)
    BY <1>1, <1>2, <1>3 DEF JobSound, BeforeIntent, Building, Fresh, Ready, HasBundle
  <1>5. local' = [local EXCEPT ![p] = j] /\ UNCHANGED <<files, lock, keyLock>>
    BY DEF CopyBuildInputs, To, files, cache
  <1> HIDE DEF j
  <1> QED
    BY <1>1, <1>3, <1>4, <1>5, LocalStep DEF Building

\* The recipe builds from the copies and from the tools there are by now.
LEMMA BuildBundleStep ==
    ASSUME IInv, NEW p \in Procs, BuildBundle(p)
    PROVE  IInv'
  <1> DEFINE b == [inputs |-> local[p].seen.inputs, tools |-> tools, damaged |-> FALSE]
             j == [local[p] EXCEPT !.at = "built", !.bundle = b]
  <1>1. local[p] # Idle /\ local[p].at = "building"
    BY DEF BuildBundle, At, Idle
  <1>2. local[p] \in Job /\ JobSound(local[p])
    BY <1>1, ActiveJob
  <1>3. b \in Bundle /\ tools \in Nat
    BY <1>2 DEF IInv, Typed, Job, Identity, Bundle, Tools
  <1>4. /\ j \in Job /\ j.w = local[p].w /\ j.seen = local[p].seen /\ j.prior = local[p].prior
        /\ j.at = "built" /\ j.bundle = b
    BY <1>2, <1>3 DEF Job, Active, Stages
  <1>5. JobSound(j)
    BY <1>1, <1>2, <1>3, <1>4 DEF JobSound, BeforeIntent, Building, Fresh, Ready, HasBundle
  <1>6. local' = [local EXCEPT ![p] = j] /\ UNCHANGED <<files, lock, keyLock>>
    BY DEF BuildBundle, files, cache
  <1> HIDE DEF j
  <1> QED
    BY <1>1, <1>4, <1>5, <1>6, LocalStep DEF Building

LEMMA SnapshotOutputsStep ==
    ASSUME IInv, NEW p \in Procs, SnapshotOutputs(p)
    PROVE  IInv'
  <1> DEFINE j == [local[p] EXCEPT !.at = "checks", !.outputs = outputs[My(p)]]
  <1>1. local[p] # Idle /\ local[p].at = "snapshot"
    BY DEF SnapshotOutputs, At, Idle
  <1>2. local[p] \in Job /\ JobSound(local[p])
    BY <1>1, ActiveJob
  <1>3. outputs[My(p)] \in Output /\ outputs[My(p)] # None
        /\ outputs[My(p)].setup /\ outputs[My(p)].inputs = local[p].seen.inputs
    BY <1>1, <1>2 DEF IInv, Typed, JobSound, My, Job
  <1>4. /\ j \in Job /\ j.w = local[p].w /\ j.seen = local[p].seen /\ j.prior = local[p].prior
        /\ j.at = "checks" /\ j.bundle = local[p].bundle /\ j.outputs = outputs[My(p)]
    BY <1>2, <1>3 DEF Job, Active, Stages
  <1>5. JobSound(j)
    BY <1>1, <1>2, <1>3, <1>4 DEF JobSound, BeforeIntent, Building, Fresh, Ready, HasBundle
  <1>6. local' = [local EXCEPT ![p] = j] /\ UNCHANGED <<files, lock, keyLock>>
    BY DEF SnapshotOutputs, files, cache
  <1> HIDE DEF j
  <1> QED
    BY <1>1, <1>4, <1>5, <1>6, LocalStep DEF Building

\* The checks run; then everything observed is observed again.
LEMMA ReadinessStep ==
    ASSUME IInv, NEW p \in Procs, RunChecks(p) \/ Recheck(p)
    PROVE  IInv'
  <1> DEFINE stage == IF local[p].at = "checks" THEN "recheck" ELSE "complete"
             j == [local[p] EXCEPT !.at = stage]
  <1>1. /\ local[p] # Idle /\ local[p].at \in {"checks", "recheck"}
        /\ stage = "complete" => Stands(p)
    BY DEF RunChecks, Recheck, At, Idle
  <1>2. local[p] \in Job /\ JobSound(local[p])
    BY <1>1, ActiveJob
  <1>3. /\ j \in Job /\ j.w = local[p].w /\ j.seen = local[p].seen /\ j.prior = local[p].prior
        /\ j.at = stage /\ j.bundle = local[p].bundle /\ j.outputs = local[p].outputs
    BY <1>1, <1>2 DEF Job, Active, Stages
  <1>4. JobSound(j)
    BY <1>1, <1>2, <1>3 DEF JobSound, Stands, BeforeIntent, Building, Fresh, Ready, HasBundle
  <1>5. local' = [local EXCEPT ![p] = j] /\ UNCHANGED <<files, lock, keyLock>>
    BY DEF RunChecks, Recheck, To, At, files, cache
  <1> HIDE DEF j
  <1> QED
    BY <1>1, <1>3, <1>4, <1>5, LocalStep DEF Building

\* Everything that answers "blocked" changes no file.
LEMMA BlockedStep ==
    ASSUME IInv, NEW p \in Procs,
           \/ RejectRetained(p) \/ RejectSetup(p) \/ RejectBuild(p)
           \/ RejectOutputs(p) \/ DiscardReadiness(p)
    PROVE  IInv'
  <1>1. local[p] # Idle /\ Blocked(p)
    BY DEF RejectRetained, RejectSetup, RejectBuild, RejectOutputs, DiscardReadiness, At, Idle
  <1> QED
    BY <1>1, ReturnStep DEF Blocked, files

(***************************************************************************)
(* Steps that change the cache.                                            *)
(***************************************************************************)
\* A generation is appended that was built from the key it is filed under:
\* the tools only grow, so the build ran with those that were observed.
LEMMA PublishGenerationStep ==
    ASSUME IInv, NEW p \in Procs, PublishGeneration(p)
    PROVE  IInv'
  <1> DEFINE k == Key(p)
             g == [manifest |-> local[p].bundle, payload |-> local[p].bundle]
             j == [local[p] EXCEPT !.at = "point"]
  <1>1. local[p] # Idle /\ local[p].at = "built" /\ BuildStands(p)
    BY DEF PublishGeneration, At, Idle
  <1>2. local[p] \in Job /\ JobSound(local[p])
    BY <1>1, ActiveJob
  <1>3. k \in Keys
    BY <1>2 DEF Key, KeyOf, Job, Identity, Keys
  <1>4. BuiltFrom(local[p].bundle, k)
    <2>1. /\ local[p].bundle \in Bundle /\ local[p].bundle.inputs = local[p].seen.inputs
          /\ ~local[p].bundle.damaged
          /\ local[p].seen.tools <= local[p].bundle.tools /\ local[p].bundle.tools <= tools
      BY <1>1, <1>2 DEF JobSound
    <2>2. tools = local[p].seen.tools
      BY <1>1 DEF BuildStands, Observed
    <2>3. local[p].bundle.tools \in Nat /\ tools \in Nat /\ local[p].bundle.damaged = FALSE
      BY <2>1, BoundsAssumption DEF Bundle, Tools, IInv, Typed
    <2>4. local[p].bundle.tools = local[p].seen.tools
      BY <2>1, <2>2, <2>3
    <2> QED
      BY <2>1, <2>3, <2>4 DEF BuiltFrom, Key, KeyOf, Bundle
  <1>5. g \in Built
    BY <1>1, <1>2 DEF JobSound, Built
  <1>6. /\ j \in Job /\ j.w = local[p].w /\ j.seen = local[p].seen /\ j.prior = local[p].prior
        /\ j.at = "point" /\ j.bundle = local[p].bundle
    BY <1>2 DEF Job, Active, Stages
  <1>7. /\ local' = [local EXCEPT ![p] = j]
        /\ generations' = [generations EXCEPT ![k] = Append(generations[k], g)]
        /\ UNCHANGED <<source, inputs, tools, intent, completed, outputs, current, lock, keyLock,
                       setups, answers>>
    BY DEF PublishGeneration, To, world, history
  <1> HIDE DEF j, g
  <1>8. /\ local' \in [Procs -> Job \cup {Idle}]
        /\ local'[p] = j /\ j # Idle
        /\ \A q \in Procs : q # p => local'[q] = local[q]
        /\ Locked' /\ KeyLocked'
    BY <1>1, <1>6, <1>7, GoesOn DEF Building
  <1>9. JobSound(local[p])'
    BY <1>1, <1>2, <1>4, <1>6, <1>7, <1>8
    DEF JobSound, Key, BeforeIntent, Building, Fresh, Ready, HasBundle
  <1>10. JobsSound'
    BY <1>1, <1>2, <1>7, <1>8, <1>9, ActiveJob, OthersSound DEF Job
  <1>11. \A x \in Keys :
            /\ generations'[x] \in Seq(Built)
            /\ Len(generations[x]) <= Len(generations'[x])
            /\ Len(generations[x]) \in Nat /\ Len(generations'[x]) \in Nat
            /\ \A n \in DOMAIN generations'[x] :
                  \/ n \in DOMAIN generations[x] /\ generations'[x][n] = generations[x][n]
                  \/ x = k /\ generations'[x][n] = g
    <2> TAKE x \in Keys
    <2>1. generations[x] \in Seq(Built)
      BY DEF IInv, Typed
    <2>2. CASE x = k
      <3>1. generations'[x] = Append(generations[x], g)
        BY <1>3, <1>7, <2>2 DEF IInv, Typed
      <3> HIDE DEF k
      <3> QED
        BY <1>5, <2>1, <2>2, <3>1
    <2>3. CASE x # k
      <3>1. generations'[x] = generations[x]
        BY <1>3, <1>7, <2>3 DEF IInv, Typed
      <3> QED
        BY <2>1, <3>1
    <2> QED
      BY <2>2, <2>3
  <1>12. CacheSound'
    <2>1. g.manifest = local[p].bundle
      BY DEF g
    <2> HIDE DEF k
    <2> SUFFICES ASSUME NEW x \in Keys, NEW n \in DOMAIN generations'[x]
                 PROVE  BuiltFrom(generations'[x][n].manifest, x)
      BY DEF CacheSound, BuiltFrom
    <2>2. CASE n \in DOMAIN generations[x] /\ generations'[x][n] = generations[x][n]
      BY <2>2 DEF IInv, CacheSound
    <2>3. CASE x = k /\ generations'[x][n] = g
      BY <1>4, <2>1, <2>3
    <2> QED
      BY <1>11, <2>2, <2>3
  <1>13. Typed'
    <2>1. generations' \in [Keys -> Seq(Built)]
      BY <1>3, <1>7, <1>11 DEF IInv, Typed
    <2>2. \A x \in Keys : current'[x] <= Len(generations'[x])
      BY <1>7, <1>11 DEF IInv, Typed
    <2> QED
      BY <1>7, <1>8, <2>1, <2>2 DEF IInv, Typed
  <1>14. FilesSound'
    BY <1>7 DEF IInv, FilesSound, ReceiptOf, BuiltFrom
  <1> QED
    BY <1>8, <1>10, <1>12, <1>13, <1>14 DEF IInv

LEMMA MovePointerStep ==
    ASSUME IInv, NEW p \in Procs, MovePointer(p)
    PROVE  IInv'
  <1> DEFINE k == Key(p)
             n == Len(generations[k])
             j == [local[p] EXCEPT !.at = "intent", !.generation = n]
  <1>1. local[p] # Idle /\ local[p].at = "point"
    BY DEF MovePointer, At, Idle
  <1>2. local[p] \in Job /\ JobSound(local[p])
    BY <1>1, ActiveJob
  <1>3. k \in Keys /\ n \in Nat
    BY <1>2 DEF Key, KeyOf, Job, Identity, Keys, IInv, Typed
  <1>4. /\ current' = [current EXCEPT ![k] = n]
        /\ UNCHANGED <<source, inputs, tools, intent, completed, outputs, generations,
                       setups, answers>>
    BY DEF MovePointer, world, history
  <1>5. /\ current' \in [Keys -> Nat]
        /\ \A x \in Keys : current'[x] <= Len(generations'[x])
    BY <1>3, <1>4 DEF IInv, Typed
  <1>6. CacheSound' /\ FilesSound'
    BY <1>4 DEF IInv, CacheSound, FilesSound, ReceiptOf, BuiltFrom
  <1>7. CASE Return(p)
    <2>1. /\ local' \in [Procs -> Job \cup {Idle}]
          /\ local'[p] = Idle
          /\ \A q \in Procs : q # p => local'[q] = local[q]
          /\ lock' \in [Worktrees -> Procs \cup {Free}]
          /\ keyLock' \in [Keys -> Procs \cup {Free}]
          /\ Locked' /\ KeyLocked'
      BY <1>7, Returns
    <2>2. JobsSound'
      BY <1>1, <1>2, <1>4, <2>1, ActiveJob, OthersSound DEF Job
    <2> QED
      BY <1>4, <1>5, <1>6, <2>1, <2>2 DEF IInv, Typed
  <1>8. CASE /\ local' = [local EXCEPT ![p].at = "intent", ![p].generation = n]
             /\ keyLock' = [keyLock EXCEPT ![k] = Free]
             /\ UNCHANGED lock
    <2>1. /\ j \in Job /\ j.w = local[p].w /\ j.seen = local[p].seen /\ j.prior = local[p].prior
          /\ j.at = "intent" /\ j # Idle /\ j.bundle = local[p].bundle
      BY <1>2, <1>3 DEF Job, Active, Stages, Idle
    <2> HIDE DEF n
    <2>2. /\ local' \in [Procs -> Job \cup {Idle}] /\ local'[p] = j
          /\ \A q \in Procs : q # p => local'[q] = local[q]
      BY <1>8, <2>1 DEF IInv, Typed
    <2>3. keyLock' \in [Keys -> Procs \cup {Free}]
          /\ \A x \in Keys : keyLock'[x] = IF x = k THEN Free ELSE keyLock[x]
      BY <1>3, <1>8 DEF IInv, Typed
    <2> HIDE DEF j
    <2>4. JobSound(local[p])'
      BY <1>1, <1>2, <1>4, <2>1, <2>2
      DEF JobSound, Key, BeforeIntent, Building, Fresh, Ready, HasBundle
    <2>5. JobsSound'
      BY <1>1, <1>2, <1>4, <2>2, <2>4, ActiveJob, OthersSound DEF Job
    <2>6. Locked'
      <3>1. \A q \in Procs : /\ local'[q] # Idle <=> local[q] # Idle
                             /\ local[q] # Idle => local'[q].w = local[q].w
        BY <1>1, <2>1, <2>2
      <3>2. lock' = lock
        BY <1>8
      <3> QED
        BY <3>1, <3>2 DEF IInv, Locked
    <2>7. KeyLocked'
      <3>1. KeyOf(local[p].seen) = k
        BY DEF Key
      <3>2. keyLock[k] = p
        BY <1>1, <1>3, <3>1 DEF IInv, KeyLocked, Building
      <3> HIDE DEF k
      <3> QED
        BY <1>1, <2>1, <2>2, <2>3, <3>1, <3>2, FreeAssumption DEF IInv, KeyLocked, Building
    <2> QED
      BY <1>4, <1>5, <1>6, <1>8, <2>2, <2>3, <2>5, <2>6, <2>7 DEF IInv, Typed
  <1> QED
    BY <1>7, <1>8 DEF MovePointer

(***************************************************************************)
(* Steps that change the files of one worktree, before there is a receipt. *)
(***************************************************************************)
LEMMA CacheKept ==
    ASSUME CacheSound, generations' = generations
    PROVE  CacheSound'
  BY DEF CacheSound, BuiltFrom

LEMMA WorktreeStep ==
    ASSUME IInv, NEW p \in Procs, local[p] # Idle,
           NEW w \in Worktrees, w = local[p].w,
           UNCHANGED <<world, completed, generations, current, answers>>,
           completed[w] = None, intent'[w],
           intent' \in [Worktrees -> BOOLEAN],
           outputs' \in [Worktrees -> Output \cup {None}],
           setups' \in [Worktrees -> Nat],
           \A x \in Worktrees : x # w =>
               intent'[x] = intent[x] /\ outputs'[x] = outputs[x] /\ setups'[x] = setups[x],
           local' \in [Procs -> Job \cup {Idle}],
           \A q \in Procs : q # p => local'[q] = local[q],
           lock' \in [Worktrees -> Procs \cup {Free}],
           keyLock' \in [Keys -> Procs \cup {Free}],
           Locked', KeyLocked',
           local'[p] # Idle => JobSound(local[p])'
    PROVE  IInv'
  <1>1. UNCHANGED <<source, inputs, tools, completed, generations, current, answers>>
    BY DEF world
  <1>2. JobsSound'
    BY <1>1, ActiveJob, OthersSound
  <1>3. Typed'
    BY <1>1 DEF IInv, Typed
  <1>4. CacheSound'
    BY <1>1, CacheKept DEF IInv
  <1>5. FilesSound'
    BY <1>1 DEF IInv, FilesSound, ReceiptOf, BuiltFrom
  <1> QED
    BY <1>2, <1>3, <1>4, <1>5 DEF IInv

LEMMA ClaimIntentStep ==
    ASSUME IInv, NEW p \in Procs, ClaimIntent(p)
    PROVE  IInv'
  <1> DEFINE w == local[p].w
             j == [local[p] EXCEPT !.at = "outputs"]
  <1>1. local[p] # Idle /\ local[p].at = "intent"
    BY DEF ClaimIntent, At, Idle
  <1>2. local[p] \in Job /\ JobSound(local[p]) /\ w \in Worktrees
    BY <1>1, ActiveJob DEF Job
  <1>3. /\ j \in Job /\ j.w = local[p].w /\ j.seen = local[p].seen /\ j.prior = local[p].prior
        /\ j.at = "outputs" /\ j.bundle = local[p].bundle
    BY <1>2 DEF Job, Active, Stages
  <1>4. /\ local' = [local EXCEPT ![p] = j]
        /\ intent' = [intent EXCEPT ![w] = TRUE]
        /\ UNCHANGED <<world, completed, outputs, generations, current, lock, keyLock,
                       answers, setups>>
    BY DEF ClaimIntent, To, My, cache, history
  <1>5. ~local[p].prior /\ ~intent[w] /\ completed[w] = None /\ setups[w] = 0
    BY <1>1, <1>2 DEF JobSound, BeforeIntent, IInv, FilesSound
  <1>6. /\ intent' \in [Worktrees -> BOOLEAN] /\ intent'[w]
        /\ \A x \in Worktrees : x # w => intent'[x] = intent[x]
        /\ outputs' \in [Worktrees -> Output \cup {None}]
        /\ setups' \in [Worktrees -> Nat]
        /\ lock' \in [Worktrees -> Procs \cup {Free}]
        /\ keyLock' \in [Keys -> Procs \cup {Free}]
    BY <1>2, <1>4 DEF IInv, Typed
  <1> HIDE DEF j
  <1>7. /\ local' \in [Procs -> Job \cup {Idle}]
        /\ local'[p] = j /\ j # Idle
        /\ \A q \in Procs : q # p => local'[q] = local[q]
        /\ Locked' /\ KeyLocked'
    BY <1>1, <1>3, <1>4, GoesOn DEF Building
  <1>8. JobSound(local[p])'
    BY <1>1, <1>2, <1>3, <1>4, <1>5, <1>6, <1>7
    DEF JobSound, BeforeIntent, Building, Fresh, Ready, HasBundle, world
  <1> QED
    BY <1>1, <1>2, <1>4, <1>5, <1>6, <1>7, <1>8, WorktreeStep

LEMMA EmptyOutput == Empty \in Output /\ Empty # None
  <1>1. Empty \in Output
    BY DEF Empty, Output
  <1> QED
    BY <1>1, NoneAssumption

\* What a call with an intent of its own knows.
LEMMA ClaimedJob ==
    ASSUME IInv, NEW p \in Procs, local[p] # Idle, local[p].at \in Fresh
    PROVE  /\ local[p] \in Job /\ JobSound(local[p]) /\ local[p].w \in Worktrees
           /\ ~local[p].prior /\ intent[local[p].w] /\ completed[local[p].w] = None
           /\ intent \in [Worktrees -> BOOLEAN] /\ setups \in [Worktrees -> Nat]
           /\ outputs \in [Worktrees -> Output \cup {None}]
           /\ lock \in [Worktrees -> Procs \cup {Free}]
           /\ keyLock \in [Keys -> Procs \cup {Free}]
  <1>1. local[p] \in Job /\ JobSound(local[p])
    BY ActiveJob
  <1> QED
    BY <1>1 DEF JobSound, Job, IInv, Typed

LEMMA MakeOutputsStep ==
    ASSUME IInv, NEW p \in Procs, MakeOutputs(p)
    PROVE  IInv'
  <1> DEFINE w == local[p].w
             j == [local[p] EXCEPT !.at = "inputs"]
  <1>1. local[p] # Idle /\ local[p].at = "outputs"
    BY DEF MakeOutputs, At, Idle
  <1>2. /\ local[p] \in Job /\ JobSound(local[p]) /\ w \in Worktrees
        /\ ~local[p].prior /\ intent[w] /\ completed[w] = None
        /\ intent \in [Worktrees -> BOOLEAN] /\ setups \in [Worktrees -> Nat]
        /\ outputs \in [Worktrees -> Output \cup {None}]
        /\ lock \in [Worktrees -> Procs \cup {Free}]
        /\ keyLock \in [Keys -> Procs \cup {Free}]
    BY <1>1, ClaimedJob DEF Fresh
  <1>3. /\ j \in Job /\ j.w = local[p].w /\ j.seen = local[p].seen /\ j.prior = local[p].prior
        /\ j.at = "inputs" /\ j.bundle = local[p].bundle
    BY <1>2 DEF Job, Active, Stages
  <1>4. /\ local' = [local EXCEPT ![p] = j]
        /\ outputs' = [outputs EXCEPT ![w] = Empty]
        /\ UNCHANGED <<world, intent, completed, generations, current, lock, keyLock,
                       answers, setups>>
    BY DEF MakeOutputs, To, My, cache, history
  <1>5. /\ outputs' \in [Worktrees -> Output \cup {None}] /\ outputs'[w] = Empty
        /\ \A x \in Worktrees : x # w => outputs'[x] = outputs[x]
    BY <1>2, <1>4, EmptyOutput
  <1> HIDE DEF j
  <1>6. /\ local' \in [Procs -> Job \cup {Idle}]
        /\ local'[p] = j /\ j # Idle
        /\ \A q \in Procs : q # p => local'[q] = local[q]
        /\ Locked' /\ KeyLocked'
    BY <1>1, <1>3, <1>4, GoesOn DEF Building
  <1>7. JobSound(local[p])'
    BY <1>1, <1>2, <1>3, <1>4, <1>5, <1>6, EmptyOutput
    DEF JobSound, BeforeIntent, Building, Fresh, Ready, HasBundle, world
  <1> QED
    BY <1>1, <1>2, <1>4, <1>5, <1>6, <1>7, WorktreeStep

\* The bytes are copied first: a difference is found when they are there.
LEMMA CopyInputsStep ==
    ASSUME IInv, NEW p \in Procs, CopyInputs(p)
    PROVE  IInv'
  <1> DEFINE w == local[p].w
             o == [outputs[w] EXCEPT !.inputs = inputs[w]]
             j == [local[p] EXCEPT !.at = "materialize"]
  <1>1. local[p] # Idle /\ local[p].at = "inputs"
    BY DEF CopyInputs, At, Idle
  <1>2. /\ local[p] \in Job /\ JobSound(local[p]) /\ w \in Worktrees
        /\ ~local[p].prior /\ intent[w] /\ completed[w] = None
        /\ intent \in [Worktrees -> BOOLEAN] /\ setups \in [Worktrees -> Nat]
        /\ outputs \in [Worktrees -> Output \cup {None}]
        /\ lock \in [Worktrees -> Procs \cup {Free}]
        /\ keyLock \in [Keys -> Procs \cup {Free}]
    BY <1>1, ClaimedJob DEF Fresh
  <1>3. outputs[w] \in Output /\ inputs[w] \in Versions
    BY <1>1, <1>2 DEF JobSound, IInv, Typed
  <1>4. o \in Output /\ o # None /\ o.inputs = inputs[w]
    BY <1>3, NoneAssumption DEF Output
  <1>5. /\ outputs' = [outputs EXCEPT ![w] = o]
        /\ UNCHANGED <<world, intent, completed, generations, current, answers, setups>>
    BY DEF CopyInputs, My, cache, history
  <1> HIDE DEF o
  <1>6. /\ outputs' \in [Worktrees -> Output \cup {None}] /\ outputs'[w] = o
        /\ \A x \in Worktrees : x # w => outputs'[x] = outputs[x]
    BY <1>2, <1>4, <1>5
  <1>7. CASE inputs[w] = local[p].seen.inputs /\ To(p, "materialize") /\ UNCHANGED <<lock, keyLock>>
    <2>1. /\ j \in Job /\ j.w = local[p].w /\ j.seen = local[p].seen /\ j.prior = local[p].prior
          /\ j.at = "materialize" /\ j.bundle = local[p].bundle
      BY <1>2 DEF Job, Active, Stages
    <2>2. local' = [local EXCEPT ![p] = j]
      BY <1>7 DEF To
    <2> HIDE DEF j
    <2>3. /\ local' \in [Procs -> Job \cup {Idle}]
          /\ local'[p] = j /\ j # Idle
          /\ \A q \in Procs : q # p => local'[q] = local[q]
          /\ Locked' /\ KeyLocked'
      BY <1>1, <1>7, <2>1, <2>2, GoesOn DEF Building
    <2>4. JobSound(local[p])'
      BY <1>1, <1>2, <1>4, <1>5, <1>6, <1>7, <2>1, <2>3
      DEF JobSound, BeforeIntent, Building, Fresh, Ready, HasBundle, world
    <2> QED
      BY <1>1, <1>2, <1>5, <1>6, <1>7, <2>3, <2>4, WorktreeStep
  <1>8. CASE Return(p)
    <2>1. /\ local' \in [Procs -> Job \cup {Idle}]
          /\ local'[p] = Idle
          /\ \A q \in Procs : q # p => local'[q] = local[q]
          /\ lock' \in [Worktrees -> Procs \cup {Free}]
          /\ keyLock' \in [Keys -> Procs \cup {Free}]
          /\ Locked' /\ KeyLocked'
      BY <1>8, Returns
    <2> QED
      BY <1>1, <1>2, <1>5, <1>6, <2>1, WorktreeStep
  <1> QED
    BY <1>7, <1>8 DEF CopyInputs, My

LEMMA MaterializeStep ==
    ASSUME IInv, NEW p \in Procs, Materialize(p)
    PROVE  IInv'
  <1> DEFINE w == local[p].w
             o == [outputs[w] EXCEPT !.bundle = local[p].bundle]
             j == [local[p] EXCEPT !.at = "setup"]
  <1>1. local[p] # Idle /\ local[p].at = "materialize"
    BY DEF Materialize, At, Idle
  <1>2. /\ local[p] \in Job /\ JobSound(local[p]) /\ w \in Worktrees
        /\ ~local[p].prior /\ intent[w] /\ completed[w] = None
        /\ intent \in [Worktrees -> BOOLEAN] /\ setups \in [Worktrees -> Nat]
        /\ outputs \in [Worktrees -> Output \cup {None}]
        /\ lock \in [Worktrees -> Procs \cup {Free}]
        /\ keyLock \in [Keys -> Procs \cup {Free}]
    BY <1>1, ClaimedJob DEF Fresh
  <1>3. outputs[w] \in Output /\ outputs[w].inputs = local[p].seen.inputs
        /\ local[p].bundle \in Bundle \cup {None}
    BY <1>1, <1>2 DEF JobSound, Job
  <1>4. o \in Output /\ o # None /\ o.inputs = local[p].seen.inputs
    BY <1>3, NoneAssumption DEF Output
  <1>5. /\ j \in Job /\ j.w = local[p].w /\ j.seen = local[p].seen /\ j.prior = local[p].prior
        /\ j.at = "setup" /\ j.bundle = local[p].bundle
    BY <1>2 DEF Job, Active, Stages
  <1>6. /\ local' = [local EXCEPT ![p] = j]
        /\ outputs' = [outputs EXCEPT ![w] = o]
        /\ UNCHANGED <<world, intent, completed, generations, current, lock, keyLock,
                       answers, setups>>
    BY DEF Materialize, To, My, cache, history
  <1> HIDE DEF j, o
  <1>7. /\ outputs' \in [Worktrees -> Output \cup {None}] /\ outputs'[w] = o
        /\ \A x \in Worktrees : x # w => outputs'[x] = outputs[x]
    BY <1>2, <1>4, <1>6
  <1>8. /\ local' \in [Procs -> Job \cup {Idle}]
        /\ local'[p] = j /\ j # Idle
        /\ \A q \in Procs : q # p => local'[q] = local[q]
        /\ Locked' /\ KeyLocked'
    BY <1>1, <1>5, <1>6, GoesOn DEF Building
  <1>9. JobSound(local[p])'
    BY <1>1, <1>2, <1>4, <1>5, <1>6, <1>7, <1>8
    DEF JobSound, BeforeIntent, Building, Fresh, Ready, HasBundle, world
  <1> QED
    BY <1>1, <1>2, <1>6, <1>7, <1>8, <1>9, WorktreeStep

\* The setup commands start, once.
LEMMA RunSetupStep ==
    ASSUME IInv, NEW p \in Procs, RunSetup(p)
    PROVE  IInv'
  <1> DEFINE w == local[p].w
             o == [outputs[w] EXCEPT !.setup = TRUE]
             j == [local[p] EXCEPT !.at = "snapshot"]
  <1>1. local[p] # Idle /\ local[p].at = "setup"
    BY DEF RunSetup, At, Idle
  <1>2. /\ local[p] \in Job /\ JobSound(local[p]) /\ w \in Worktrees
        /\ ~local[p].prior /\ intent[w] /\ completed[w] = None
        /\ intent \in [Worktrees -> BOOLEAN] /\ setups \in [Worktrees -> Nat]
        /\ outputs \in [Worktrees -> Output \cup {None}]
        /\ lock \in [Worktrees -> Procs \cup {Free}]
        /\ keyLock \in [Keys -> Procs \cup {Free}]
    BY <1>1, ClaimedJob DEF Fresh
  <1>3. outputs[w] \in Output /\ outputs[w].inputs = local[p].seen.inputs /\ setups[w] = 0
    BY <1>1, <1>2 DEF JobSound, Fresh
  <1>4. o \in Output /\ o # None /\ o.inputs = local[p].seen.inputs /\ o.setup
    BY <1>3, NoneAssumption DEF Output
  <1>5. /\ j \in Job /\ j.w = local[p].w /\ j.seen = local[p].seen /\ j.prior = local[p].prior
        /\ j.at = "snapshot" /\ j.bundle = local[p].bundle
    BY <1>2 DEF Job, Active, Stages
  <1>6. /\ local' = [local EXCEPT ![p] = j]
        /\ outputs' = [outputs EXCEPT ![w] = o]
        /\ setups' = [setups EXCEPT ![w] = setups[w] + 1]
        /\ UNCHANGED <<world, intent, completed, generations, current, lock, keyLock, answers>>
    BY DEF RunSetup, To, My, cache
  <1> HIDE DEF j, o
  <1>7. /\ outputs' \in [Worktrees -> Output \cup {None}] /\ outputs'[w] = o
        /\ setups' \in [Worktrees -> Nat] /\ setups'[w] = 1
        /\ \A x \in Worktrees : x # w => outputs'[x] = outputs[x] /\ setups'[x] = setups[x]
    BY <1>2, <1>3, <1>4, <1>6
  <1>8. /\ local' \in [Procs -> Job \cup {Idle}]
        /\ local'[p] = j /\ j # Idle
        /\ \A q \in Procs : q # p => local'[q] = local[q]
        /\ Locked' /\ KeyLocked'
    BY <1>1, <1>5, <1>6, GoesOn DEF Building
  <1>9. JobSound(local[p])'
    BY <1>1, <1>2, <1>4, <1>5, <1>6, <1>7, <1>8
    DEF JobSound, BeforeIntent, Building, Fresh, Ready, HasBundle, world
  <1> QED
    BY <1>1, <1>2, <1>6, <1>7, <1>8, <1>9, WorktreeStep

(***************************************************************************)
(* The receipt and the answer, the call, and the death.                    *)
(***************************************************************************)
LEMMA ReceiptKept ==
    ASSUME NEW w \in Worktrees, ReceiptOf(w),
           completed'[w] = completed[w], setups'[w] = setups[w]
    PROVE  ReceiptOf(w)'
  BY DEF ReceiptOf, BuiltFrom

\* The receipt that is written is sound.
LEMMA ReceiptWritten ==
    ASSUME NEW w \in Worktrees, NEW c, completed'[w] = c, setups'[w] = 1,
           c.outputs.setup, c.outputs.inputs = c.seen.inputs, c.outputs.bundle = c.bundle,
           BuiltFrom(c.bundle, KeyOf(c.seen))
    PROVE  ReceiptOf(w)'
  BY DEF ReceiptOf, BuiltFrom, KeyOf

LEMMA CompleteStep ==
    ASSUME IInv, NEW p \in Procs, Complete(p)
    PROVE  IInv'
  <1>0. PICK w : w = local[p].w
    OBVIOUS
  <1> DEFINE c == [seen |-> local[p].seen, bundle |-> local[p].bundle,
                   outputs |-> local[p].outputs]
             r == [key |-> Key(p), outputs |-> local[p].outputs]
  <1>1. local[p] # Idle /\ local[p].at = "complete"
    BY DEF Complete, At, Idle
  <1>2. local[p] \in Job /\ JobSound(local[p]) /\ w \in Worktrees
    BY <1>0, <1>1, ActiveJob DEF Job
  <1>3. /\ UNCHANGED <<source, inputs, tools, intent, outputs, generations, current, setups>>
        /\ answers' = [answers EXCEPT ![w] = answers[w] \cup {r}]
        /\ Return(p)
    BY <1>0 DEF Complete, My, world
  <1>4. local[p].outputs \in Output /\ r \in Answer
    BY <1>1, <1>2 DEF JobSound, Ready, Job, Answer, Key, KeyOf, Keys, Identity
  <1>5. /\ local' \in [Procs -> Job \cup {Idle}]
        /\ local'[p] = Idle
        /\ \A q \in Procs : q # p => local'[q] = local[q]
        /\ lock' \in [Worktrees -> Procs \cup {Free}]
        /\ keyLock' \in [Keys -> Procs \cup {Free}]
        /\ Locked' /\ KeyLocked'
    BY <1>3, Returns
  <1>6. /\ answers' \in [Worktrees -> SUBSET Answer]
        /\ answers'[w] = answers[w] \cup {r}
        /\ \A x \in Worktrees : x # w => answers'[x] = answers[x]
    BY <1>2, <1>3, <1>4 DEF IInv, Typed
  <1>7. /\ completed' \in [Worktrees -> Receipt \cup {None}]
        /\ completed'[w] # None
        /\ \A x \in Worktrees : x # w => completed'[x] = completed[x]
        /\ r = [key |-> KeyOf(completed'[w].seen), outputs |-> completed'[w].outputs]
        /\ answers[w] # {} => completed'[w] = completed[w]
        /\ intent[w]
        /\ (ReceiptOf(w))'
    <2>1. CASE local[p].prior
      <3>1. completed' = completed /\ completed[w] # None
        BY <1>0, <1>1, <1>2, <2>1 DEF Complete, JobSound
      <3>2. ReceiptOf(w) /\ intent[w]
        BY <1>2, <3>1 DEF IInv, FilesSound
      <3>3. r = [key |-> KeyOf(completed[w].seen), outputs |-> completed[w].outputs]
        BY <1>0, <1>1, <1>2, <2>1 DEF JobSound, Ready, Key
      <3>4. completed \in [Worktrees -> Receipt \cup {None}]
        BY DEF IInv, Typed
      <3>5. (ReceiptOf(w))'
        BY <1>2, <1>3, <3>1, <3>2, ReceiptKept
      <3> QED
        BY <3>1, <3>2, <3>3, <3>4, <3>5
    <2>2. CASE ~local[p].prior
      <3>1. completed' = [completed EXCEPT ![w] = c]
        BY <1>0, <2>2 DEF Complete, My
      <3>2. /\ completed[w] = None /\ intent[w] /\ setups[w] = 1
            /\ local[p].outputs.setup /\ local[p].outputs.inputs = local[p].seen.inputs
            /\ local[p].outputs.bundle = local[p].bundle
            /\ BuiltFrom(local[p].bundle, KeyOf(local[p].seen))
        BY <1>0, <1>1, <1>2, <2>2 DEF JobSound, Ready, HasBundle
      <3>3. local[p].seen \in Identity /\ local[p].bundle \in Bundle
        BY <1>2, <3>2 DEF Job, Identity, Bundle, BuiltFrom, KeyOf
      <3>4. c \in Receipt /\ c # None
        <4>1. c \in Receipt
          BY <1>4, <3>3 DEF Receipt
        <4> QED
          BY <4>1, NoneAssumption
      <3>5. /\ completed' \in [Worktrees -> Receipt \cup {None}] /\ completed'[w] = c
            /\ \A x \in Worktrees : x # w => completed'[x] = completed[x]
        BY <1>2, <3>1, <3>4 DEF IInv, Typed
      <3>6. answers[w] = {}
        BY <1>2, <3>2 DEF IInv, FilesSound
      <3>7. r = [key |-> KeyOf(c.seen), outputs |-> c.outputs]
        BY DEF Key
      <3>8. (ReceiptOf(w))'
        BY <1>2, <1>3, <3>2, <3>5, ReceiptWritten
      <3> QED
        BY <3>2, <3>4, <3>5, <3>6, <3>7, <3>8
    <2> QED
      BY <2>1, <2>2
  <1> HIDE DEF r
  <1>8. FilesSound'
    <2> SUFFICES ASSUME NEW x \in Worktrees
                 PROVE  /\ ~intent'[x] => setups'[x] = 0 /\ completed'[x] = None
                        /\ completed'[x] # None => (ReceiptOf(x))'
                        /\ \A a \in answers'[x] :
                              /\ completed'[x] # None
                              /\ a = [key |-> KeyOf(completed'[x].seen),
                                      outputs |-> completed'[x].outputs]
      BY DEF FilesSound, ReceiptOf, BuiltFrom
    <2>1. CASE x = w
      <3>2. \A a \in answers[w] :
                a = [key |-> KeyOf(completed[w].seen), outputs |-> completed[w].outputs]
        BY <1>2 DEF IInv, FilesSound
      <3>3. \A a \in answers'[w] :
                a = [key |-> KeyOf(completed'[w].seen), outputs |-> completed'[w].outputs]
        BY <1>6, <1>7, <3>2
      <3>4. (ReceiptOf(w))'
        BY <1>7
      <3>5. (ReceiptOf(x))'
        BY <2>1, <3>4 DEF ReceiptOf, BuiltFrom, KeyOf
      <3>6. intent'[x] /\ completed'[x] # None
        BY <1>3, <1>7, <2>1
      <3> QED
        BY <2>1, <3>3, <3>5, <3>6
    <2>2. CASE x # w
      <3>1. /\ completed'[x] = completed[x] /\ setups'[x] = setups[x]
            /\ intent'[x] = intent[x] /\ answers'[x] = answers[x]
        BY <1>3, <1>6, <1>7, <2>2
      <3>2. completed'[x] # None => (ReceiptOf(x))'
        BY <3>1, ReceiptKept DEF IInv, FilesSound
      <3> QED
        BY <3>1, <3>2 DEF IInv, FilesSound
    <2> QED
      BY <2>1, <2>2
  <1>9. JobsSound'
    BY <1>0, <1>1, <1>2, <1>3, <1>5, <1>7, ActiveJob, OthersSound
  <1>10. Typed'
    BY <1>3, <1>5, <1>6, <1>7 DEF IInv, Typed
  <1>11. CacheSound'
    BY <1>3, CacheKept DEF IInv
  <1> QED
    BY <1>5, <1>8, <1>9, <1>10, <1>11 DEF IInv

LEMMA CallStep ==
    ASSUME IInv, NEW p \in Procs, NEW w \in Worktrees, NEW x \in BOOLEAN, Call(p, w, x)
    PROVE  IInv'
  <1> DEFINE j == [at |-> "admission", w |-> w, execute |-> x, seen |-> Observed(w),
                   prior |-> completed[w] # None, generation |-> 0,
                   bundle |-> None, outputs |-> None]
  <1>1. /\ local[p] = Idle /\ lock[w] = Free
        /\ lock' = [lock EXCEPT ![w] = p]
        /\ local' = [local EXCEPT ![p] = j]
        /\ UNCHANGED <<source, inputs, tools, intent, completed, outputs, generations, current,
                       keyLock, setups, answers>>
    BY DEF Call, Enter, world, cache, history
  <1>2. Observed(w) \in Identity /\ Observed(w).tools = tools
    BY DEF IInv, Typed, Observed, Identity
  <1>3. j \in Job /\ j # Idle
    BY <1>2 DEF Job, Active, Stages, Idle
  <1>4. /\ j.at = "admission" /\ j.w = w /\ j.seen = Observed(w)
        /\ j.prior <=> completed[w] # None
    OBVIOUS
  <1> HIDE DEF j
  <1>5. /\ local' \in [Procs -> Job \cup {Idle}] /\ local'[p] = j
        /\ \A q \in Procs : q # p => local'[q] = local[q]
        /\ lock' \in [Worktrees -> Procs \cup {Free}]
        /\ \A y \in Worktrees : lock'[y] = IF y = w THEN p ELSE lock[y]
    BY <1>1, <1>3 DEF IInv, Typed
  <1>6. Locked'
    BY <1>1, <1>3, <1>4, <1>5, FreeAssumption DEF IInv, Locked
  <1>7. KeyLocked'
    BY <1>1, <1>3, <1>4, <1>5 DEF IInv, KeyLocked, Building
  <1>8. tools \in Nat
    BY BoundsAssumption DEF IInv, Typed, Tools
  <1>9. JobSound(local[p])'
    BY <1>1, <1>2, <1>4, <1>5, <1>8
    DEF JobSound, BeforeIntent, Building, Fresh, Ready, HasBundle
  <1>10. \A q \in Procs : q # p /\ local[q] # Idle => local[q].w # w
    BY <1>1, FreeAssumption DEF IInv, Locked
  <1>11. JobsSound'
    BY <1>1, <1>5, <1>9, <1>10, OthersSound
  <1>12. Typed'
    BY <1>1, <1>5 DEF IInv, Typed
  <1>13. CacheSound' /\ FilesSound'
    BY <1>1 DEF IInv, CacheSound, FilesSound, ReceiptOf, BuiltFrom
  <1> QED
    BY <1>6, <1>7, <1>11, <1>12, <1>13 DEF IInv

\* A death at "setup" has had the effects of a start.
LEMMA FailStep ==
    ASSUME IInv, NEW p \in Procs, Fail(p)
    PROVE  IInv'
  <1>1. /\ local[p] # Idle /\ Return(p)
        /\ UNCHANGED <<world, intent, completed, outputs, generations, current, answers>>
    BY DEF Fail
  <1>2. CASE local[p].at # "setup"
    <2>1. UNCHANGED files
      BY <1>1, <1>2 DEF Fail, At, files, history
    <2> QED
      BY <1>1, <2>1, ReturnStep
  <1>3. CASE local[p].at = "setup"
    <2> DEFINE w == local[p].w
    <2>1. /\ w \in Worktrees /\ intent[w] /\ completed[w] = None
          /\ intent \in [Worktrees -> BOOLEAN] /\ setups \in [Worktrees -> Nat]
          /\ outputs \in [Worktrees -> Output \cup {None}]
      BY <1>1, <1>3, ClaimedJob DEF Fresh
    <2>2. setups' = [setups EXCEPT ![w] = setups[w] + 1]
      BY <1>3 DEF Fail, At, My
    <2>3. /\ setups' \in [Worktrees -> Nat]
          /\ \A x \in Worktrees : x # w => setups'[x] = setups[x]
      BY <2>1, <2>2
    <2>4. /\ local' \in [Procs -> Job \cup {Idle}]
          /\ local'[p] = Idle
          /\ \A q \in Procs : q # p => local'[q] = local[q]
          /\ lock' \in [Worktrees -> Procs \cup {Free}]
          /\ keyLock' \in [Keys -> Procs \cup {Free}]
          /\ Locked' /\ KeyLocked'
      BY <1>1, Returns
    <2> QED
      BY <1>1, <2>1, <2>3, <2>4, WorktreeStep
  <1> QED
    BY <1>2, <1>3

(***************************************************************************)
(* The environment.                                                        *)
(***************************************************************************)
\* Files are edited, tools upgraded: no call's knowledge is about their present
\* contents, and the tools only grow.
LEMMA WorldStep ==
    ASSUME IInv, UpgradeTools \/ \E w \in Worktrees : EditFiles(w)
    PROVE  IInv'
  <1>1. /\ UNCHANGED <<intent, completed, outputs, generations, current, keyLock, lock, local,
                       setups, answers>>
        /\ source' \in [Worktrees -> Versions] /\ inputs' \in [Worktrees -> Versions]
        /\ tools' \in Tools /\ tools <= tools' /\ tools \in Nat /\ tools' \in Nat
    <2>1. tools \in Nat /\ tools \in Tools /\ source \in [Worktrees -> Versions]
          /\ inputs \in [Worktrees -> Versions]
      BY BoundsAssumption DEF IInv, Typed, Tools
    <2>2. CASE UpgradeTools
      BY <2>1, <2>2, BoundsAssumption DEF UpgradeTools, cache, history, Tools
    <2>3. ASSUME NEW w \in Worktrees, EditFiles(w)
          PROVE  /\ UNCHANGED <<intent, completed, outputs, generations, current, keyLock, lock,
                                local, setups, answers>>
                 /\ source' \in [Worktrees -> Versions] /\ inputs' \in [Worktrees -> Versions]
                 /\ tools' = tools
      BY <2>1, <2>3 DEF EditFiles, cache, history
    <2> QED
      BY <2>1, <2>2, <2>3
  <1>2. JobsSound'
    <2> SUFFICES ASSUME NEW p \in Procs, local[p] # Idle
                 PROVE  JobSound(local[p])'
      BY <1>1 DEF JobsSound
    <2>1. local[p] \in Job /\ JobSound(local[p])
      BY DEF IInv, Typed, JobsSound
    <2>2. local[p].seen.tools \in Nat
      BY <2>1, BoundsAssumption DEF Job, Identity, Tools
    <2>3. local[p].bundle \in Bundle => local[p].bundle.tools \in Nat
      BY BoundsAssumption DEF Bundle, Tools
    <2> QED
      BY <1>1, <2>1, <2>2, <2>3 DEF JobSound
  <1>3. Typed'
    BY <1>1 DEF IInv, Typed
  <1>4. Locked' /\ KeyLocked'
    BY <1>1 DEF IInv, Locked, KeyLocked
  <1>5. CacheSound' /\ FilesSound'
    BY <1>1 DEF IInv, CacheSound, FilesSound, ReceiptOf, BuiltFrom
  <1> QED
    BY <1>2, <1>3, <1>4, <1>5 DEF IInv

\* An edit of the outputs leaves them there, with the inputs that were copied
\* and the mark of the setup.
LEMMA OutputsStep ==
    ASSUME IInv, NEW w \in Worktrees, EditOutputs(w) \/ DamageCopy(w)
    PROVE  IInv'
  <1>1. UNCHANGED <<source, inputs, tools, intent, completed, generations, current, keyLock,
                    lock, local, setups, answers>>
    BY DEF EditOutputs, DamageCopy, world, cache, history
  <1>2. PICK o \in Output :
           /\ outputs' = [outputs EXCEPT ![w] = o]
           /\ outputs[w] # None => o.inputs = outputs[w].inputs /\ o.setup = outputs[w].setup
    <2>1. outputs[w] \in Output \cup {None}
      BY DEF IInv, Typed
    <2>2. CASE EditOutputs(w) /\ outputs[w] = None
      <3> DEFINE o == [Empty EXCEPT !.edited = TRUE]
      <3>1. o \in Output /\ outputs' = [outputs EXCEPT ![w] = o]
        BY <2>2, EmptyOutput DEF EditOutputs, Output
      <3> QED
        BY <2>2, <3>1
    <2>3. CASE EditOutputs(w) /\ outputs[w] # None
      <3> DEFINE o == [outputs[w] EXCEPT !.edited = TRUE]
      <3>1. o \in Output /\ outputs' = [outputs EXCEPT ![w] = o]
            /\ o.inputs = outputs[w].inputs /\ o.setup = outputs[w].setup
        BY <2>1, <2>3 DEF EditOutputs, Output
      <3> QED
        BY <3>1
    <2>4. CASE DamageCopy(w)
      <3> DEFINE b == [outputs[w].bundle EXCEPT !.damaged = TRUE]
                 o == [outputs[w] EXCEPT !.bundle = b]
      <3>1. outputs[w] \in Output /\ outputs[w].bundle \in Bundle
        BY <2>1, <2>4 DEF DamageCopy, Output
      <3>2. b \in Bundle
        BY <3>1 DEF Bundle
      <3>3. outputs' = [outputs EXCEPT ![w] = o]
        BY <2>4 DEF DamageCopy
      <3> HIDE DEF b
      <3>4. o \in Output /\ o.inputs = outputs[w].inputs /\ o.setup = outputs[w].setup
        BY <3>1, <3>2 DEF Output
      <3> QED
        BY <3>3, <3>4
    <2> QED
      BY <2>2, <2>3, <2>4
  <1>3. /\ outputs' \in [Worktrees -> Output \cup {None}]
        /\ outputs'[w] = o /\ o # None
        /\ \A x \in Worktrees : x # w => outputs'[x] = outputs[x]
    BY <1>2, NoneAssumption DEF IInv, Typed
  <1>4. JobsSound'
    <2> SUFFICES ASSUME NEW p \in Procs, local[p] # Idle
                 PROVE  JobSound(local[p])'
      BY <1>1 DEF JobsSound
    <2>1. local[p] \in Job /\ JobSound(local[p]) /\ local[p].w \in Worktrees
      BY DEF IInv, Typed, JobsSound, Job
    <2>2. outputs[local[p].w] # None =>
             /\ outputs'[local[p].w] # None
             /\ outputs'[local[p].w].inputs = outputs[local[p].w].inputs
             /\ outputs'[local[p].w].setup = outputs[local[p].w].setup
      BY <1>2, <1>3, <2>1
    <2> QED
      BY <1>1, <2>1, <2>2 DEF JobSound
  <1>5. Typed'
    BY <1>1, <1>3 DEF IInv, Typed
  <1>6. Locked' /\ KeyLocked'
    BY <1>1 DEF IInv, Locked, KeyLocked
  <1>7. CacheSound' /\ FilesSound'
    BY <1>1 DEF IInv, CacheSound, FilesSound, ReceiptOf, BuiltFrom
  <1> QED
    BY <1>4, <1>5, <1>6, <1>7 DEF IInv

\* Damage of a generation is in its payload.
LEMMA DamageGenerationStep ==
    ASSUME IInv, NEW k \in Keys, NEW n \in DOMAIN generations[k], DamageGeneration(k, n)
    PROVE  IInv'
  <1> DEFINE b == [generations[k][n].payload EXCEPT !.damaged = TRUE]
             g == [generations[k][n] EXCEPT !.payload = b]
  <1>1. UNCHANGED <<source, inputs, tools, intent, completed, outputs, current, keyLock,
                    lock, local, setups, answers>>
    BY DEF DamageGeneration, world, history
  <1>2. generations[k] \in Seq(Built) /\ generations[k][n] \in Built
    BY DEF IInv, Typed
  <1>3. b \in Bundle
    BY <1>2 DEF Built, Bundle
  <1>4. generations' = [generations EXCEPT ![k] = [generations[k] EXCEPT ![n] = g]]
    BY DEF DamageGeneration
  <1> HIDE DEF b
  <1>5. g \in Built /\ g.manifest = generations[k][n].manifest
    BY <1>2, <1>3 DEF Built
  <1> HIDE DEF g
  <1>6. \A x \in Keys :
           /\ generations'[x] \in Seq(Built) /\ Len(generations'[x]) = Len(generations[x])
           /\ DOMAIN generations'[x] = DOMAIN generations[x]
           /\ \A i \in DOMAIN generations[x] :
                 generations'[x][i].manifest = generations[x][i].manifest
    <2> TAKE x \in Keys
    <2>1. generations[x] \in Seq(Built)
      BY DEF IInv, Typed
    <2>2. CASE x = k
      <3>1. generations'[x] = [generations[x] EXCEPT ![n] = g]
        BY <1>4, <2>2 DEF IInv, Typed
      <3>2. n \in DOMAIN generations[x] /\ g.manifest = generations[x][n].manifest
        BY <1>2, <1>5, <2>2
      <3> QED
        BY <1>5, <2>1, <3>1, <3>2
    <2>3. CASE x # k
      <3>1. generations'[x] = generations[x]
        BY <1>4, <2>3 DEF IInv, Typed
      <3> QED
        BY <2>1, <3>1
    <2> QED
      BY <2>2, <2>3
  <1>7. Typed'
    <2>1. generations' \in [Keys -> Seq(Built)]
      BY <1>4, <1>6 DEF IInv, Typed
    <2>2. \A x \in Keys : current'[x] <= Len(generations'[x])
      BY <1>1, <1>6 DEF IInv, Typed
    <2> QED
      BY <1>1, <2>1, <2>2 DEF IInv, Typed
  <1>8. CacheSound'
    BY <1>6 DEF IInv, CacheSound, BuiltFrom
  <1>9. JobsSound'
    BY <1>1 DEF IInv, JobsSound, JobSound
  <1>10. Locked' /\ KeyLocked'
    BY <1>1 DEF IInv, Locked, KeyLocked
  <1>11. FilesSound'
    BY <1>1 DEF IInv, FilesSound, ReceiptOf, BuiltFrom
  <1> QED
    BY <1>7, <1>8, <1>9, <1>10, <1>11 DEF IInv

(***************************************************************************)
(* The invariant, and what follows from it.                                *)
(***************************************************************************)
LEMMA Stutter == ASSUME IInv, UNCHANGED vars PROVE IInv'
  <1>1. UNCHANGED <<source, inputs, tools, intent, completed, outputs, generations, current,
                    keyLock, lock, local, setups, answers>>
    BY DEF vars, world, cache, history
  <1> QED
    BY <1>1
    DEF IInv, Typed, Locked, KeyLocked, CacheSound, FilesSound, ReceiptOf, BuiltFrom,
        JobsSound, JobSound

LEMMA Inductive == IInv /\ [Next]_vars => IInv'
  <1> SUFFICES ASSUME IInv, [Next]_vars PROVE IInv'
    OBVIOUS
  <1>1. ASSUME NEW p \in Procs, NEW w \in Worktrees, NEW x \in BOOLEAN, Call(p, w, x)
        PROVE  IInv'
    BY <1>1, CallStep
  <1>2. ASSUME NEW p \in Procs, Step(p) PROVE IInv'
    BY <1>2, VerifyRetainedStep, AdmitSetupStep, AcquireBundleStep, CopyBuildInputsStep,
       BuildBundleStep, PublishGenerationStep, MovePointerStep, ClaimIntentStep,
       MakeOutputsStep, CopyInputsStep, MaterializeStep, RunSetupStep, SnapshotOutputsStep,
       ReadinessStep, CompleteStep, BlockedStep
    DEF Step
  <1>3. ASSUME NEW p \in Procs, Fail(p) PROVE IInv'
    BY <1>3, FailStep
  <1>4. CASE Environment
    BY <1>4, WorldStep, OutputsStep, DamageGenerationStep DEF Environment
  <1>5. CASE UNCHANGED vars
    BY <1>5, Stutter
  <1> QED
    BY <1>1, <1>2, <1>3, <1>4, <1>5 DEF Next

\* Every reachable state has all of the above.
THEOREM InvariantHolds == Spec => []IInv
  BY InitHolds, Inductive, PTL DEF Spec

\* Files, locks and calls keep their types.
THEOREM TypeCorrect == Spec => []TypeOK
  <1>1. IInv => TypeOK
    <2> SUFFICES ASSUME IInv PROVE TypeOK
      OBVIOUS
    <2>1. \A k \in Keys :
             /\ current[k] \in 0..Len(generations[k])
             /\ \A n \in DOMAIN generations[k] :
                   generations[k][n] \in [manifest: Bundle, payload: Bundle]
      <3> TAKE k \in Keys
      <3>1. generations[k] \in Seq(Built) /\ current[k] \in Nat
            /\ current[k] <= Len(generations[k])
        BY DEF IInv, Typed
      <3>2. current[k] \in 0..Len(generations[k])
        <4> DEFINE l == Len(generations[k])
        <4>1. l \in Nat /\ current[k] \in Nat /\ current[k] <= l
          BY <3>1
        <4> HIDE DEF l
        <4>2. current[k] \in 0..l
          BY <4>1
        <4> QED
          BY <4>2 DEF l
      <3>3. \A n \in DOMAIN generations[k] : generations[k][n] \in Built
        BY <3>1
      <3> QED
        BY <3>2, <3>3 DEF Built
    <2>2. \A p \in Procs : local[p].at \in Stages
      BY DEF IInv, Typed, Job, Idle, Active, Stages
    <2> QED
      BY <2>1, <2>2 DEF IInv, Typed, TypeOK
  <1> QED
    BY <1>1, InvariantHolds, PTL

\* A receipt is evidence of one start of its setup commands, of the inputs it
\* names and of a whole bundle, in every state.
THEOREM ReceiptsAreSound == Spec => []ReceiptSound
  <1>1. IInv => ReceiptSound
    BY DEF IInv, FilesSound, ReceiptOf, ReceiptSound
  <1> QED
    BY <1>1, InvariantHolds, PTL

\* current.json names a generation built from its key, in every state.
THEOREM PointersAreSound == Spec => []PointerSound
  <1>1. IInv => PointerSound
    BY GenerationFound DEF PointerSound
  <1> QED
    BY <1>1, InvariantHolds, PTL

\* All "ready" answers of a worktree are those of its one receipt.
THEOREM AnswersAlwaysAgree == Spec => []AnswersAgree
  <1>1. IInv => AnswersAgree
    BY DEF IInv, FilesSound, AnswersAgree
  <1> QED
    BY <1>1, InvariantHolds, PTL

(***************************************************************************)
(* Implementation of PreparedEffect: what each step does to the effects.   *)
(***************************************************************************)
Claims(p) == local[p].at \in Claiming /\ ~local[p].prior

\* The effect in a worktree is a matter of its files and its claimant.
LEMMA EffectKept ==
    ASSUME NEW w \in Worktrees, completed'[w] = completed[w], intent'[w] = intent[w],
           Claimant(w)' <=> Claimant(w)
    PROVE  EffectOf(w)' = EffectOf(w)
  BY DEF EffectOf

\* A call whose standing as a claimant does not change changes no effect.
LEMMA StandingKept ==
    ASSUME NEW p \in Procs, UNCHANGED <<intent, completed, lock>>,
           \A q \in Procs : q # p => local'[q] = local[q],
           Claims(p)' <=> Claims(p)
    PROVE  \A w \in Worktrees : EffectOf(w)' = EffectOf(w)
  <1> SUFFICES ASSUME NEW w \in Worktrees PROVE EffectOf(w)' = EffectOf(w)
    OBVIOUS
  <1>1. Claimant(w)' <=> Claimant(w)
    BY DEF Claimant, Claims
  <1> QED
    BY <1>1, EffectKept

\* A call is the claimant of its own worktree only.
LEMMA ElsewhereKept ==
    ASSUME IInv, NEW p \in Procs, local[p] # Idle,
           NEW w \in Worktrees, w # local[p].w,
           completed'[w] = completed[w], intent'[w] = intent[w], lock'[w] = lock[w],
           \A q \in Procs : q # p => local'[q] = local[q]
    PROVE  EffectOf(w)' = EffectOf(w)
  <1>1. lock[w] # p
    BY DEF IInv, Locked
  <1>2. Claimant(w)' <=> Claimant(w)
    BY <1>1 DEF Claimant
  <1> QED
    BY <1>2, EffectKept

\* The state of one effect changes, that of the others does not.
LEMMA EffectMoves ==
    ASSUME NEW w \in Worktrees, NEW from, NEW to,
           EffectOf(w) = from, EffectOf(w)' = to,
           \A x \in Worktrees : x # w => EffectOf(x)' = EffectOf(x)
    PROVE  Effects!Trans(w, from, to)
  BY DEF Effects!Trans

\* An unfinished call that holds its worktree is its only possible claimant.
LEMMA ClaimantIsHolder ==
    ASSUME IInv, NEW p \in Procs, local[p] # Idle
    PROVE  Claimant(local[p].w) <=> Claims(p)
  BY ActiveJob DEF Claimant, Claims

\* intent.json claims the effects.
LEMMA ClaimIntentMoves ==
    ASSUME IInv, NEW p \in Procs, ClaimIntent(p)
    PROVE  \E w \in Worktrees : Effects!Trans(w, "none", "claimed")
  <1>1. PICK w : w = local[p].w
    OBVIOUS
  <1>2. local[p] # Idle /\ local[p].at = "intent"
    BY DEF ClaimIntent, At, Idle
  <1>3. local[p] \in Job /\ JobSound(local[p]) /\ w \in Worktrees /\ lock[w] = p
    BY <1>1, <1>2, ActiveJob DEF Job
  <1>4. ~local[p].prior /\ ~intent[w] /\ completed[w] = None
    BY <1>1, <1>2, <1>3 DEF JobSound, BeforeIntent
  <1>5. /\ intent'[w] /\ UNCHANGED <<completed, lock>>
        /\ \A x \in Worktrees : x # w => intent'[x] = intent[x]
    BY <1>1, <1>3 DEF ClaimIntent, My, IInv, Typed
  <1>6. /\ local'[p].at = "outputs" /\ local'[p].prior = local[p].prior
        /\ \A q \in Procs : q # p => local'[q] = local[q]
    BY <1>3 DEF ClaimIntent, To, IInv, Typed, Job
  <1>7. Claimant(w)'
    BY <1>3, <1>4, <1>5, <1>6 DEF Claimant, Claiming
  <1>8. EffectOf(w) = "none" /\ EffectOf(w)' = "claimed"
    BY <1>4, <1>5, <1>7 DEF EffectOf
  <1>9. \A x \in Worktrees : x # w => EffectOf(x)' = EffectOf(x)
    BY <1>1, <1>2, <1>5, <1>6, ElsewhereKept
  <1> QED
    BY <1>3, <1>8, <1>9, EffectMoves

\* completed.json completes what its claimant claimed; verifying what was
\* retained claims nothing.
LEMMA CompleteMoves ==
    ASSUME IInv, NEW p \in Procs, Complete(p)
    PROVE  \/ \E w \in Worktrees : Effects!Trans(w, "claimed", "done")
           \/ \A x \in Worktrees : EffectOf(x)' = EffectOf(x)
  <1>1. PICK w : w = local[p].w
    OBVIOUS
  <1>2. local[p] # Idle /\ local[p].at = "complete"
    BY DEF Complete, At, Idle
  <1>3. local[p] \in Job /\ JobSound(local[p]) /\ w \in Worktrees /\ lock[w] = p
    BY <1>1, <1>2, ActiveJob DEF Job
  <1>4. Return(p) /\ intent' = intent
    BY DEF Complete
  <1>5. /\ \A q \in Procs : q # p => local'[q] = local[q]
        /\ \A x \in Worktrees : x # w => lock'[x] = lock[x]
    <2>1. \A x \in Worktrees : x # w => lock[x] # p
      BY <1>1, <1>2 DEF IInv, Locked
    <2> QED
      BY <1>4, <2>1 DEF Return, Released, IInv, Typed
  <1>6. CASE local[p].prior
    <2>1. completed' = completed /\ completed[w] # None
      BY <1>1, <1>2, <1>3, <1>6 DEF Complete, JobSound
    <2>2. EffectOf(w)' = EffectOf(w)
      BY <2>1 DEF EffectOf
    <2>3. \A x \in Worktrees : x # w => EffectOf(x)' = EffectOf(x)
      BY <1>1, <1>2, <1>4, <1>5, <2>1, ElsewhereKept
    <2> QED
      BY <2>2, <2>3
  <1>7. CASE ~local[p].prior
    <2>1. completed[w] = None /\ intent[w]
      BY <1>1, <1>2, <1>3, <1>7 DEF JobSound, Ready
    <2>2. Claimant(w)
      BY <1>1, <1>2, <1>7, ClaimantIsHolder DEF Claims, Claiming
    <2>3. /\ completed'[w] # None
          /\ \A x \in Worktrees : x # w => completed'[x] = completed[x]
      <3> DEFINE c == [seen |-> local[p].seen, bundle |-> local[p].bundle,
                       outputs |-> local[p].outputs]
      <3>1. completed' = [completed EXCEPT ![w] = c]
        BY <1>1, <1>7 DEF Complete, My
      <3>2. BuiltFrom(local[p].bundle, KeyOf(local[p].seen)) /\ local[p].outputs # None
        BY <1>2, <1>3, <1>7 DEF JobSound, Ready, HasBundle
      <3>3. local[p].seen \in Identity /\ local[p].bundle \in Bundle
            /\ local[p].outputs \in Output
        BY <1>3, <3>2 DEF Job, Identity, Bundle, BuiltFrom, KeyOf
      <3>4. c \in Receipt
        BY <3>3 DEF Receipt
      <3>5. c # None
        BY <3>4, NoneAssumption
      <3> HIDE DEF c
      <3> QED
        BY <1>3, <3>1, <3>5 DEF IInv, Typed
    <2>4. EffectOf(w) = "claimed" /\ EffectOf(w)' = "done"
      BY <2>1, <2>2, <2>3 DEF EffectOf
    <2>5. \A x \in Worktrees : x # w => EffectOf(x)' = EffectOf(x)
      BY <1>1, <1>2, <1>4, <1>5, <2>3, ElsewhereKept
    <2> QED
      BY <1>3, <2>4, <2>5, EffectMoves
  <1> QED
    BY <1>6, <1>7

\* A claimant that returns without a receipt, or dies, leaves an effect nobody
\* knows the outcome of; any other call leaves the effects alone.
LEMMA ReturnMoves ==
    ASSUME IInv, NEW p \in Procs, local[p] # Idle, Return(p), UNCHANGED <<intent, completed>>
    PROVE  \/ \E w \in Worktrees : Effects!Trans(w, "claimed", "unknown")
           \/ \A x \in Worktrees : EffectOf(x)' = EffectOf(x)
  <1>1. PICK w : w = local[p].w
    OBVIOUS
  <1>2. local[p] \in Job /\ JobSound(local[p]) /\ w \in Worktrees /\ lock[w] = p
    BY <1>1, ActiveJob DEF Job
  <1>3. /\ lock'[w] = Free
        /\ \A q \in Procs : q # p => local'[q] = local[q]
        /\ \A x \in Worktrees : x # w => lock'[x] = lock[x]
    <2>1. \A x \in Worktrees : x # w => lock[x] # p
      BY <1>1 DEF IInv, Locked
    <2> QED
      BY <1>2, <2>1 DEF Return, Released, IInv, Typed
  <1>4. \A x \in Worktrees : x # w => EffectOf(x)' = EffectOf(x)
    BY <1>1, <1>3, ElsewhereKept
  <1>5. ~Claimant(w)'
    BY <1>3, FreeAssumption DEF Claimant
  <1>6. CASE Claims(p)
    <2>1. completed[w] = None /\ intent[w]
      BY <1>1, <1>2, <1>6 DEF Claims, Claiming, JobSound, Fresh, Ready
    <2>2. Claimant(w)
      BY <1>1, <1>6, ClaimantIsHolder
    <2>3. EffectOf(w) = "claimed" /\ EffectOf(w)' = "unknown"
      BY <1>5, <2>1, <2>2 DEF EffectOf
    <2> QED
      BY <1>2, <1>4, <2>3, EffectMoves
  <1>7. CASE ~Claims(p)
    <2>1. ~Claimant(w)
      BY <1>1, <1>7, ClaimantIsHolder
    <2>2. EffectOf(w)' = EffectOf(w)
      BY <1>2, <1>5, <2>1, EffectKept
    <2> QED
      BY <1>4, <2>2
  <1> QED
    BY <1>6, <1>7

\* A call that has only taken its lock claims nothing.
LEMMA CallMoves ==
    ASSUME IInv, NEW p \in Procs, NEW w \in Worktrees, NEW x \in BOOLEAN, Call(p, w, x)
    PROVE  \A y \in Worktrees : EffectOf(y)' = EffectOf(y)
  <1>1. /\ local[p] = Idle /\ lock[w] = Free
        /\ lock' = [lock EXCEPT ![w] = p]
        /\ UNCHANGED <<intent, completed>>
    BY DEF Call, Enter
  <1>2. /\ local'[p].at = "admission"
        /\ \A q \in Procs : q # p => local'[q] = local[q]
    BY DEF Call, IInv, Typed
  <1>3. \A y \in Worktrees : lock[y] # p
    BY <1>1 DEF IInv, Locked
  <1>4. \A y \in Worktrees : lock'[y] = IF y = w THEN p ELSE lock[y]
    BY <1>1 DEF IInv, Typed
  <1>5. ASSUME NEW y \in Worktrees PROVE Claimant(y)' <=> Claimant(y)
    BY <1>1, <1>2, <1>3, <1>4, FreeAssumption DEF Claimant, Claiming
  <1> QED
    BY <1>1, <1>5, EffectKept

\* The stages before intent.json, those after it, and the environment.
LEMMA NoMove ==
    ASSUME IInv, NEW p \in Procs,
           \/ VerifyRetained(p) \/ AdmitSetup(p) \/ AcquireBundle(p) \/ CopyBuildInputs(p)
           \/ BuildBundle(p) \/ PublishGeneration(p)
           \/ MakeOutputs(p) \/ Materialize(p) \/ RunSetup(p) \/ SnapshotOutputs(p)
           \/ RunChecks(p) \/ Recheck(p)
    PROVE  \A x \in Worktrees : EffectOf(x)' = EffectOf(x)
  <1>1. local[p] # Idle
    BY DEF VerifyRetained, AdmitSetup, AcquireBundle, CopyBuildInputs, BuildBundle,
           PublishGeneration, MakeOutputs, Materialize, RunSetup, SnapshotOutputs,
           RunChecks, Recheck, At, Idle
  <1>2. local[p] \in Job /\ local \in [Procs -> Job \cup {Idle}]
    BY <1>1, ActiveJob DEF IInv, Typed
  <1>3. UNCHANGED <<intent, completed, lock>>
    BY DEF VerifyRetained, AdmitSetup, AcquireBundle, CopyBuildInputs, BuildBundle,
           PublishGeneration, MakeOutputs, Materialize, RunSetup, SnapshotOutputs,
           RunChecks, Recheck
  <1>4. \A q \in Procs : q # p => local'[q] = local[q]
    BY <1>2
    DEF VerifyRetained, AdmitSetup, AcquireBundle, CopyBuildInputs, BuildBundle,
        PublishGeneration, MakeOutputs, Materialize, RunSetup, SnapshotOutputs,
        RunChecks, Recheck, To
  <1>5. Claims(p)' <=> Claims(p)
    <2>1. CASE VerifyRetained(p)
      BY <1>2, <2>1 DEF VerifyRetained, At, Claims, Claiming, Job
    <2>2. CASE AdmitSetup(p) \/ AcquireBundle(p) \/ CopyBuildInputs(p) \/ BuildBundle(p)
               \/ PublishGeneration(p)
      BY <1>2, <2>2
      DEF AdmitSetup, AcquireBundle, CopyBuildInputs, BuildBundle, PublishGeneration,
          At, To, Claims, Claiming, Job
    <2>3. CASE MakeOutputs(p) \/ Materialize(p) \/ RunSetup(p) \/ SnapshotOutputs(p)
               \/ RunChecks(p) \/ Recheck(p)
      BY <1>2, <2>3
      DEF MakeOutputs, Materialize, RunSetup, SnapshotOutputs, RunChecks, Recheck,
          At, To, Claims, Claiming, Job
    <2> QED
      BY <2>1, <2>2, <2>3
  <1> QED
    BY <1>3, <1>4, <1>5, StandingKept

\* Moving the pointer, and copying the inputs, go on or return.
LEMMA EitherMoves ==
    ASSUME IInv, NEW p \in Procs, MovePointer(p) \/ CopyInputs(p), ~Return(p)
    PROVE  \A x \in Worktrees : EffectOf(x)' = EffectOf(x)
  <1>1. local[p] # Idle
    BY DEF MovePointer, CopyInputs, At, Idle
  <1>2. local[p] \in Job /\ local \in [Procs -> Job \cup {Idle}]
    BY <1>1, ActiveJob DEF IInv, Typed
  <1>3. UNCHANGED <<intent, completed, lock>>
    BY DEF MovePointer, CopyInputs
  <1>4. \A q \in Procs : q # p => local'[q] = local[q]
    BY <1>2 DEF MovePointer, CopyInputs, To
  <1>5. Claims(p)' <=> Claims(p)
    BY <1>2 DEF MovePointer, CopyInputs, To, At, Claims, Claiming, Job
  <1> QED
    BY <1>3, <1>4, <1>5, StandingKept

\* Every step moves one effect the way PreparedEffect allows, or none.
LEMMA StepImplements ==
    ASSUME IInv, [Next]_vars
    PROVE  \/ Effects!AbsNext
           \/ \A x \in Worktrees : EffectOf(x)' = EffectOf(x)
  <1>1. ASSUME NEW p \in Procs, NEW w \in Worktrees, NEW x \in BOOLEAN, Call(p, w, x)
        PROVE  \A y \in Worktrees : EffectOf(y)' = EffectOf(y)
    BY <1>1, CallMoves
  <1>2. ASSUME NEW p \in Procs, local[p] # Idle, Return(p), UNCHANGED <<intent, completed>>
        PROVE  \/ Effects!AbsNext
               \/ \A x \in Worktrees : EffectOf(x)' = EffectOf(x)
    BY <1>2, ReturnMoves DEF Effects!AbsNext
  <1>3. ASSUME NEW p \in Procs, Step(p)
        PROVE  \/ Effects!AbsNext
               \/ \A x \in Worktrees : EffectOf(x)' = EffectOf(x)
    <2>1. CASE ClaimIntent(p)
      BY <2>1, ClaimIntentMoves DEF Effects!AbsNext
    <2>2. CASE Complete(p)
      BY <2>2, CompleteMoves DEF Effects!AbsNext
    <2>3. CASE MovePointer(p) \/ CopyInputs(p)
      <3>1. local[p] # Idle /\ UNCHANGED <<intent, completed>>
        BY <2>3 DEF MovePointer, CopyInputs, At, Idle
      <3> QED
        BY <1>2, <2>3, <3>1, EitherMoves
    <2>4. CASE \/ RejectRetained(p) \/ RejectSetup(p) \/ RejectBuild(p) \/ RejectOutputs(p)
               \/ DiscardReadiness(p)
      <3>1. local[p] # Idle /\ Blocked(p)
        BY <2>4
        DEF RejectRetained, RejectSetup, RejectBuild, RejectOutputs, DiscardReadiness, At, Idle
      <3> QED
        BY <1>2, <3>1 DEF Blocked
    <2> QED
      BY <1>3, <2>1, <2>2, <2>3, <2>4, NoMove DEF Step
  <1>4. ASSUME NEW p \in Procs, Fail(p)
        PROVE  \/ Effects!AbsNext
               \/ \A x \in Worktrees : EffectOf(x)' = EffectOf(x)
    BY <1>2, <1>4 DEF Fail
  <1>5. ASSUME UNCHANGED <<intent, completed, lock, local>>
        PROVE  \A x \in Worktrees : EffectOf(x)' = EffectOf(x)
    BY <1>5 DEF EffectOf, Claimant
  <1>6. CASE Environment \/ UNCHANGED vars
    BY <1>5, <1>6
    DEF Environment, UpgradeTools, EditFiles, EditOutputs, DamageCopy, DamageGeneration, vars
  <1> QED
    BY <1>1, <1>3, <1>4, <1>6 DEF Next

\* Preparation implements its promise: effects are claimed once per worktree and
\* completed by their claimant or never, whoever dies where.
THEOREM PreparationImplementsEffect == Spec => ImplementsEffect
  <1>1. Init => Effects!AbsInit
    BY DEF Init, Effects!AbsInit, EffectOf
  <1>2. IInv /\ [Next]_vars =>
            [Effects!AbsNext]_([w \in Worktrees |-> EffectOf(w)])
    BY StepImplements
  <1> QED
    BY <1>1, <1>2, InvariantHolds, PTL DEF Spec, ImplementsEffect, Effects!AbsSpec

===============================================================================
