---------------------------- MODULE LandingProofs ----------------------------
(***************************************************************************)
(* What TLAPS proves of the landing transaction for every set of attempts, *)
(* processes, commands and end statuses, and for every bound on commits,   *)
(* moves and failures.                                                     *)
(***************************************************************************)
EXTENDS Landing, FiniteSetTheorems, SequenceTheorems, TLAPS

USE DEF IntentRecorded, SourcePrepared, CanonicalCreated, TargetUpdated, TemporaryCleaned,
        RuntimeFinalized, LandEventRecorded, TaskCleaned, Complete,
        AbortRequested, AbortCleaned, AbortFinalized, AbortClosed, AbortComplete

(***************************************************************************)
(* The inductive invariant.                                                *)
(***************************************************************************)
Lands == {"land", "reconcile"}

\* The locked part of a command that takes the attempt lock.
Section(job) ==
    job.at \in Stages \ {"enter", "abort_enter"} /\ job.op \in Lands \cup {"abort", "close"}

LockSound ==
    \A p \in Procs, a \in AttemptIds :
       lock[a] = p <=> Section(local[p]) /\ local[p].a = a

HistorySound ==
    \A i, j \in DOMAIN Attempts : Attempts[i].id = Attempts[j].id => i = j

Gone(a) == ~source[a].worktree /\ ~source[a].branch

\* Removing the branch of attempt a loses nothing.
Kept(a) ==
    \/ source[a].commits = 0
    \/ tx[a].phase >= TargetUpdated /\ source[a].commits = tx[a].intent.head

\* The rows of a transaction: its phases, and the stages of its abort.
Shape(a) ==
    /\ Len(rows[a]) = tx[a].phase + tx[a].abort
    /\ \A i \in 1 .. tx[a].phase : rows[a][i] = [kind |-> "phase", n |-> i]
    /\ \A i \in 1 .. tx[a].abort : rows[a][tx[a].phase + i] = [kind |-> "abort", n |-> i]

\* What a phase, or an abort stage, of the ledger says is so.
TransactionSound(a) ==
    /\ (tx[a].phase >= IntentRecorded) <=> HasIntent(a)
    /\ HasIntent(a) => Started(a)
    /\ (tx[a].phase >= CanonicalCreated) <=> (tx[a].canonical >= 1)
    /\ tx[a].phase >= CanonicalCreated => Verified(tx[a].intent)
    /\ tx[a].phase >= TargetUpdated => Landed(a)
    /\ tx[a].phase >= TemporaryCleaned => temp[a] = "none"
    /\ tx[a].phase >= RuntimeFinalized => OutcomeOf(a) = "success"
    /\ tx[a].phase >= LandEventRecorded => a \in landEvents
    /\ tx[a].phase >= TaskCleaned /\ tx[a].intent.cleanup => Gone(a)
    /\ AbortSeen(a) => tx[a].phase \in IntentRecorded .. CanonicalCreated
    /\ tx[a].abort >= AbortFinalized =>
          verdict[a] = [by |-> "abort", status |-> "blocked"] /\ OutcomeOf(a) = "blocked"

\* What the attempt, its verdict and its workspace say of each other.
AttemptSound(a) ==
    /\ verdict[a] # None => Started(a)
    /\ verdict[a] # None /\ verdict[a].status = "success" => tx[a].phase >= TargetUpdated
    /\ Started(a) /\ OutcomeOf(a) # "in_progress" =>
          verdict[a] # None /\ OutcomeOf(a) = verdict[a].status
    /\ a \in landEvents => Started(a) /\ OutcomeOf(a) = "success"
    /\ Started(a) /\ ~source[a].branch => Gone(a) /\ Kept(a)
    /\ temp[a] = "commit" => made[a] >= 1

Sound(a) == Shape(a) /\ TransactionSound(a) /\ AttemptSound(a)

TargetSound ==
    \A i \in DOMAIN target : target[i] # Foreign =>
      LET a == target[i].of
      IN  /\ a \in AttemptIds
          /\ tx[a].phase >= CanonicalCreated
          /\ target[i] = Canonical(a, tx[a].canonical)
          /\ i = tx[a].intent.base + 1

\* The last phase recorded when a landing reaches a stage.
Reached(at) ==
    CASE at \in {"temp_add", "commit", "verify"} -> SourcePrepared
      [] at = "target" -> CanonicalCreated
      [] at = "temp_remove" -> TargetUpdated
      [] at \in {"finish", "finish_save"} -> TemporaryCleaned
      [] at = "land_event" -> RuntimeFinalized
      [] at \in {"prove", "remove", "branch"} -> LandEventRecorded

OpsAt(at) ==
    CASE at \in {"record", "temp_add", "commit", "verify", "target", "land_event"} -> Lands
      [] at = "enter" -> Lands \cup {"close"}
      [] at = "temp_remove" -> Lands \cup {"abort"}
      [] at \in {"finish", "finish_save"} -> Lands \cup {"abort", "close", "recover"}
      [] at \in {"prove", "remove", "branch"} -> Lands \cup {"close", "cleanup"}
      [] at \in {"abort_enter", "abort", "record_abort"} -> {"abort"}

\* What a phase about to be recorded will say is so.
Due(my) ==
    /\ my.k = CanonicalCreated => Verified(my.intent) /\ made[my.a] >= 1
    /\ my.k = TargetUpdated => Landed(my.a)
    /\ my.k = TemporaryCleaned => temp[my.a] = "none"
    /\ my.k = RuntimeFinalized => OutcomeOf(my.a) = "success"
    /\ my.k = LandEventRecorded => my.a \in landEvents
    /\ my.k = TaskCleaned /\ my.intent.cleanup => Gone(my.a)

LandFits(my) ==
    /\ my.intent \in Intents
    /\ my.at = "enter" /\ my.op = "reconcile" =>
          tx[my.a].phase >= TargetUpdated /\ my.intent = tx[my.a].intent
    /\ my.at = "record" =>
          /\ my.k >= 1 /\ tx[my.a].phase >= my.k - 1
          /\ my.k > 1 => my.intent = tx[my.a].intent
          /\ tx[my.a].phase = my.k - 1 => Due(my)
    /\ my.at \notin {"enter", "record"} =>
          tx[my.a].phase = Reached(my.at) /\ my.intent = tx[my.a].intent
    /\ my.at = "verify" => made[my.a] >= 1

AbortFits(my) ==
    /\ HasIntent(my.a)
    /\ my.at \in {"abort_enter", "abort"} /\ my.k = AbortRequested => AbortSeen(my.a)
    /\ my.at = "temp_remove" => AbortSeen(my.a)
    /\ my.at \in {"finish", "finish_save"} => tx[my.a].abort >= AbortCleaned
    /\ my.at = "record_abort" =>
          /\ my.k \in AbortCleaned .. AbortComplete
          /\ tx[my.a].abort >= my.k - 1
          /\ my.k = AbortFinalized => verdict[my.a] = [by |-> "abort", status |-> "blocked"] /\ OutcomeOf(my.a) = "blocked"

\* What a command has in hand still fits the ledger, the runtime and Git.
Fits(my) ==
    /\ my # Idle => Started(my.a)
    /\ my.at \in Stages =>
          /\ my.op \in OpsAt(my.at)
          /\ my.op \in Lands => LandFits(my)
          /\ my.op = "abort" => AbortFits(my)
          /\ my.at = "finish_save" => verdict[my.a] = Verdict(my)
          /\ my.at \in {"remove", "branch"} => Kept(my.a)
          /\ my.at = "branch" => ~source[my.a].worktree

JobsFit == \A p \in Procs, my \in Locals : local[p] = my => Fits(my)

IInv ==
    /\ TypeOK /\ LockSound /\ HistorySound /\ TargetSound
    /\ \A a \in AttemptIds : Sound(a)
    /\ JobsFit

-----------------------------------------------------------------------------
(***************************************************************************)
(* What never goes back, and so what a command may rely on.                *)
(***************************************************************************)
Shared ==
    /\ status \in [{Task} -> {"planned", "in_progress", "blocked", "done", "canceled"}]
    /\ history \in [{Task} -> Seq([id: AttemptIds, outcome: Outcomes])]
    /\ verdict \in [AttemptIds -> Verdicts \cup {None}]
    /\ rows \in [AttemptIds -> Seq([kind: {"phase", "abort"}, n: 1 .. Complete])]
    /\ tx \in [AttemptIds -> [intent: Intents \cup {None}, phase: 0 .. Complete,
                              abort: 0 .. AbortComplete, canonical: Nat]]
    /\ landEvents \subseteq AttemptIds
    /\ target \in Seq(Commits)
    /\ source \in [AttemptIds -> [commits: Nat, branch: BOOLEAN, worktree: BOOLEAN]]
    /\ temp \in [AttemptIds -> {"none", "branch", "base", "commit"}]
    /\ made \in [AttemptIds -> Nat]
    /\ moves \in Nat
    /\ failures \in Nat

AdvancesAt(b) ==
    /\ Started(b) => Started(b)'
    /\ Started(b) /\ OutcomeOf(b) # "in_progress" => OutcomeOf(b)' = OutcomeOf(b)
    /\ verdict[b] # None => verdict'[b] = verdict[b]
    /\ tx'[b].phase >= tx[b].phase /\ tx'[b].abort >= tx[b].abort
    /\ tx[b].phase >= IntentRecorded => tx'[b].intent = tx[b].intent
    /\ tx[b].phase >= CanonicalCreated => tx'[b].canonical = tx[b].canonical
    /\ b \in landEvents => b \in landEvents'
    /\ made'[b] >= made[b]
    /\ Started(b) /\ ~source[b].worktree => ~source'[b].worktree
    /\ Started(b) /\ ~source[b].branch => ~source'[b].branch

Untouched(b) ==
    /\ tx'[b] = tx[b] /\ rows'[b] = rows[b] /\ verdict'[b] = verdict[b]
    /\ source'[b] = source[b] /\ made'[b] = made[b] /\ temp'[b] \in {temp[b], "none"}
    /\ b \in landEvents' <=> b \in landEvents
    /\ Started(b)' <=> Started(b)
    /\ Started(b) => OutcomeOf(b)' = OutcomeOf(b)

TargetGrows == \A i \in DOMAIN target : i \in DOMAIN target' /\ target'[i] = target[i]

LEMMA TypeParts == TypeOK <=> Shared /\ lock \in [AttemptIds -> Procs \cup {Free}]
                                     /\ local \in [Procs -> Locals]
  BY DEF TypeOK, Shared

\* The transaction row of an attempt.
LEMMA TxFields ==
    ASSUME Shared, NEW b \in AttemptIds
    PROVE  /\ tx[b].phase \in 0 .. Complete /\ tx[b].abort \in 0 .. AbortComplete
           /\ tx[b].canonical \in Nat /\ tx[b].intent \in Intents \cup {None}
           /\ HasIntent(b) <=> tx[b].intent \in Intents
  BY NoneAssumption DEF Shared, HasIntent

LEMMA UntouchedAdvances ==
    ASSUME Shared, NEW b \in AttemptIds, Untouched(b)
    PROVE  AdvancesAt(b)
  <1>1. tx[b].phase \in 0 .. Complete /\ tx[b].abort \in 0 .. AbortComplete
    BY TxFields
  <1>2. made[b] \in Nat
    BY DEF Shared
  <1> QED
    BY <1>1, <1>2 DEF Untouched, AdvancesAt, Complete, AbortComplete

\* A commit on the target branch stays there.
LEMMA LandedStays ==
    ASSUME Shared, NEW b \in AttemptIds, Sound(b), AdvancesAt(b), TargetGrows, Landed(b)
    PROVE  Landed(b)'
  <1>1. tx[b].canonical > 0 /\ OnTarget(Canonical(b, tx[b].canonical))
    BY DEF Landed
  <1>2. tx[b].canonical >= 1
    BY <1>1, TxFields
  <1>3. tx'[b].canonical = tx[b].canonical
    BY <1>2 DEF Sound, TransactionSound, AdvancesAt
  <1>4. PICK i \in DOMAIN target : target[i] = Canonical(b, tx[b].canonical)
    BY <1>1 DEF OnTarget
  <1>5. i \in DOMAIN target' /\ target'[i] = Canonical(b, tx'[b].canonical)
    BY <1>3, <1>4 DEF TargetGrows, Canonical
  <1> QED
    BY <1>1, <1>3, <1>5 DEF Landed, OnTarget, Canonical

LEMMA TargetStays ==
    ASSUME Shared, Shared', TargetSound, target' = target, \A b \in AttemptIds : AdvancesAt(b)
    PROVE  TargetSound'
  <1> SUFFICES ASSUME NEW i \in DOMAIN target, target[i] # Foreign
               PROVE  LET a == target[i].of
                      IN  /\ a \in AttemptIds
                          /\ tx'[a].phase >= CanonicalCreated
                          /\ target[i] = Canonical(a, tx'[a].canonical)
                          /\ i = tx'[a].intent.base + 1
    BY DEF TargetSound, Foreign, Canonical
  <1>1. PICK a : a = target[i].of
    OBVIOUS
  <1>2. /\ a \in AttemptIds /\ tx[a].phase >= CanonicalCreated
        /\ target[i] = Canonical(a, tx[a].canonical) /\ i = tx[a].intent.base + 1
    BY <1>1 DEF TargetSound
  <1>3. tx[a].phase \in 0 .. Complete
    BY <1>2, TxFields
  <1>4. tx'[a].phase \in 0 .. Complete
    BY <1>2 DEF Shared
  <1>5. /\ tx'[a].phase >= CanonicalCreated /\ tx'[a].canonical = tx[a].canonical
        /\ tx'[a].intent = tx[a].intent
    BY <1>2, <1>3, <1>4 DEF AdvancesAt, CanonicalCreated, IntentRecorded, Complete
  <1> QED
    BY <1>1, <1>2, <1>5

\* An attempt the step does not touch stays as it should be.
LEMMA UntouchedSound ==
    ASSUME Shared, NEW b \in AttemptIds, Sound(b), Untouched(b), TargetGrows
    PROVE  Sound(b)'
  <1>1. AdvancesAt(b)
    BY UntouchedAdvances
  <1>2. /\ HasIntent(b)' <=> HasIntent(b)
        /\ AbortSeen(b)' <=> AbortSeen(b)
        /\ Gone(b)' <=> Gone(b)
        /\ Kept(b)' <=> Kept(b)
    BY DEF Untouched, HasIntent, AbortSeen, Gone, Kept
  <1>3. Landed(b) => Landed(b)'
    BY <1>1, LandedStays
  <1>4. Shape(b)'
    <2>1. Shape(b)
      BY DEF Sound
    <2> QED
      BY <2>1 DEF Untouched, Shape
  <1>5. TransactionSound(b)'
    <2>1. TransactionSound(b)
      BY DEF Sound
    <2>2. tx[b].phase \in 0 .. Complete /\ tx[b].abort \in 0 .. AbortComplete
      BY TxFields
    <2>3. tx[b].phase >= RuntimeFinalized => OutcomeOf(b)' = "success"
      BY <2>1, <2>2 DEF TransactionSound, Untouched
    <2>4. tx[b].abort >= AbortFinalized => OutcomeOf(b)' = "blocked"
      BY <2>1, <2>2 DEF TransactionSound, Untouched, AbortSeen
    <2> HIDE DEF Complete
    <2> QED
      BY <1>2, <1>3, <2>1, <2>3, <2>4 DEF TransactionSound, Untouched
  <1>6. AttemptSound(b)'
    <2>1. AttemptSound(b)
      BY DEF Sound
    <2> QED
      BY <1>2, <2>1 DEF AttemptSound, Untouched
  <1> QED
    BY <1>4, <1>5, <1>6 DEF Sound

\* What another process may do under the feet of a command.
Undisturbed(my) ==
    /\ Section(my) => tx'[my.a] = tx[my.a] /\ temp'[my.a] \in {temp[my.a], "none"}
    /\ my.at \in {"remove", "branch"} => source'[my.a].commits = source[my.a].commits

LEMMA JobAttempt ==
    ASSUME NEW my \in Locals
    PROVE  my = Idle \/ my.a \in AttemptIds
  BY DEF Locals

LEMMA FitsStays ==
    ASSUME Shared, Shared', NEW my \in Locals, Fits(my), \A b \in AttemptIds : Sound(b),
           \A b \in AttemptIds : AdvancesAt(b), TargetGrows, Undisturbed(my)
    PROVE  Fits(my)'
  <1>1. CASE my = Idle
    BY <1>1 DEF Fits, Idle, Stages
  <1>2. CASE my # Idle
    <2>1. PICK a : a = my.a /\ a \in AttemptIds
      BY <1>2, JobAttempt
    <2>2. /\ tx[a].phase \in 0 .. Complete /\ tx[a].abort \in 0 .. AbortComplete
          /\ tx'[a].phase \in 0 .. Complete /\ tx'[a].abort \in 0 .. AbortComplete
          /\ made[a] \in Nat /\ made'[a] \in Nat
      BY <2>1 DEF Shared
    <2>3. AdvancesAt(a) /\ Sound(a) /\ Started(a)
      BY <1>2, <2>1 DEF Fits
    <2>4. /\ Started(a)'
          /\ HasIntent(a) => HasIntent(a)' /\ tx'[a].intent = tx[a].intent
          /\ AbortSeen(a) => AbortSeen(a)'
          /\ Landed(a) => Landed(a)'
      <3>1. HasIntent(a) => tx'[a].intent = tx[a].intent
        BY <2>3 DEF AdvancesAt, Sound, TransactionSound
      <3>2. HasIntent(a) => HasIntent(a)'
        BY <3>1 DEF HasIntent
      <3>3. AbortSeen(a) => AbortSeen(a)'
        BY <2>2, <2>3 DEF AbortSeen, AdvancesAt
      <3> QED
        BY <2>1, <2>3, <3>1, <3>2, <3>3, LandedStays DEF AdvancesAt
    <2>5. my.op \in Lands /\ my.at \in Stages => LandFits(my)'
      <3> SUFFICES ASSUME my.op \in Lands, my.at \in Stages
                   PROVE  LandFits(my)'
        OBVIOUS
      <3>1. LandFits(my)
        BY DEF Fits
      <3>2. CASE my.at = "enter"
        BY <2>1, <2>2, <2>3, <3>1, <3>2 DEF LandFits, AdvancesAt
      <3>3. CASE my.at # "enter"
        <4>1. Section(my)
          BY <3>3 DEF Section, OpsAt, Lands, Fits
        <4>2. tx'[a] = tx[a] /\ temp'[a] \in {temp[a], "none"}
          BY <2>1, <4>1 DEF Undisturbed
        <4>3. Gone(a) => Gone(a)'
          BY <2>3 DEF Gone, AdvancesAt
        <4>4. Due(my) => Due(my)'
          BY <2>1, <2>2, <2>3, <2>4, <4>2, <4>3 DEF Due, AdvancesAt
        <4>5. made[a] >= 1 => made'[a] >= 1
          BY <2>2, <2>3 DEF AdvancesAt
        <4> QED
          BY <2>1, <3>1, <3>3, <4>2, <4>4, <4>5 DEF LandFits
      <3> QED
        BY <3>2, <3>3
    <2>6. my.op = "abort" /\ my.at \in Stages => AbortFits(my)'
      <3> SUFFICES ASSUME my.op = "abort", my.at \in Stages
                   PROVE  AbortFits(my)'
        OBVIOUS
      <3>1. AbortFits(my)
        BY DEF Fits
      <3>2. my.k \in 0 .. Complete
        BY DEF Locals, Stages, Idle, Operations, Commands
      <3>3. tx'[a].abort >= tx[a].abort
        BY <2>3 DEF AdvancesAt
      <3>4. verdict[a] = [by |-> "abort", status |-> "blocked"] /\ OutcomeOf(a) = "blocked"
              => verdict'[a] = [by |-> "abort", status |-> "blocked"] /\ OutcomeOf(a)' = "blocked"
        <4>1. [by |-> "abort", status |-> "blocked"] # None
          <5>1. [by |-> "abort", status |-> "blocked"] \in Verdicts
            BY DEF Verdicts, Commands, Outcomes
          <5> QED
            BY <5>1, NoneAssumption
        <4> QED
          BY <2>3, <4>1 DEF AdvancesAt
      <3>5. my.at = "record_abort" => tx'[a].abort >= my.k - 1
        BY <2>1, <2>2, <3>1, <3>2, <3>3 DEF AbortFits
      <3>6. my.at \in {"finish", "finish_save"} => tx'[a].abort >= AbortCleaned
        BY <2>1, <2>2, <3>1, <3>3 DEF AbortFits
      <3> HIDE DEF AbortRequested, AbortCleaned, AbortFinalized, AbortComplete
      <3> QED
        BY <2>1, <2>4, <3>1, <3>4, <3>5, <3>6 DEF AbortFits
    <2>7. my.at = "finish_save" => verdict'[a] = Verdict(my)
      <3> SUFFICES ASSUME my.at = "finish_save"
                   PROVE  verdict'[a] = Verdict(my)
        OBVIOUS
      <3>1. verdict[a] = Verdict(my)
        BY <2>1 DEF Fits, Stages
      <3>2. Verdict(my) # None
        <4>1. Verdict(my) \in Verdicts
          BY EndAssumption DEF Fits, Stages, OpsAt, Lands, Verdict, Verdicts, Commands, Outcomes, Locals, Idle, Operations
        <4> QED
          BY <4>1, NoneAssumption
      <3> QED
        BY <2>3, <3>1, <3>2 DEF AdvancesAt
    <2>8. my.at \in {"remove", "branch"} => Kept(a)'
      <3>1. my.at \in {"remove", "branch"} => Kept(a) /\ source'[a].commits = source[a].commits
        BY <2>1 DEF Fits, Stages, Undisturbed
      <3> QED
        BY <2>2, <2>3, <3>1 DEF Kept, AdvancesAt
    <2>9. my.at = "branch" => ~source'[a].worktree
      BY <2>1, <2>3 DEF Fits, Stages, AdvancesAt
    <2> QED
      BY <2>1, <2>4, <2>5, <2>6, <2>7, <2>8, <2>9 DEF Fits
  <1> QED
    BY <1>1, <1>2

-----------------------------------------------------------------------------
(***************************************************************************)
(* The shapes of a step.                                                   *)
(***************************************************************************)
LEMMA InHandFits ==
    ASSUME IInv, NEW p \in Procs
    PROVE  local[p] \in Locals /\ Fits(local[p])
  BY DEF IInv, TypeOK, JobsFit

LEMMA IdleFits == Idle \in Locals /\ Fits(Idle) /\ ~Section(Idle) /\ Idle.at = "idle"
  BY DEF Locals, Fits, Section, Idle, Stages

\* How a step leaves the lock of the attempt.
LockMoves(p, job) ==
    \/ /\ lock' = lock /\ (Section(job) <=> Section(local[p]))
       /\ Section(job) => job.a = local[p].a
    \/ \E a \in AttemptIds :
          /\ lock[a] = Free /\ lock' = [lock EXCEPT ![a] = p]
          /\ ~Section(local[p]) /\ Section(job) /\ job.a = a
    \/ Unlock(p) /\ ~Section(job)

LEMMA LockStep ==
    ASSUME IInv, NEW p \in Procs, NEW job, Goto(p, job), LockMoves(p, job)
    PROVE  LockSound' /\ lock' \in [AttemptIds -> Procs \cup {Free}]
  <1>1. /\ lock \in [AttemptIds -> Procs \cup {Free}] /\ local \in [Procs -> Locals] /\ LockSound
        /\ Free \notin Procs
    BY FreeAssumption DEF IInv, TypeOK
  <1>2. \A q \in Procs : local'[q] = IF q = p THEN job ELSE local[q]
    BY <1>1 DEF Goto
  <1>3. CASE /\ lock' = lock /\ (Section(job) <=> Section(local[p]))
             /\ Section(job) => job.a = local[p].a
    BY <1>1, <1>2, <1>3 DEF LockSound, Section
  <1>4. ASSUME NEW a \in AttemptIds, lock[a] = Free, lock' = [lock EXCEPT ![a] = p],
               ~Section(local[p]), Section(job), job.a = a
        PROVE  LockSound' /\ lock' \in [AttemptIds -> Procs \cup {Free}]
    <2>1. \A b \in AttemptIds : lock'[b] = IF b = a THEN p ELSE lock[b]
      BY <1>1, <1>4
    <2> QED
      BY <1>1, <1>2, <1>4, <2>1 DEF LockSound, Section
  <1>5. CASE Unlock(p) /\ ~Section(job)
    <2>1. \A b \in AttemptIds : lock'[b] = IF lock[b] = p THEN Free ELSE lock[b]
      BY <1>5 DEF Unlock
    <2>2. lock' \in [AttemptIds -> Procs \cup {Free}]
      BY <1>1, <1>5 DEF Unlock
    <2> QED
      BY <1>1, <1>2, <1>5, <2>1, <2>2 DEF LockSound, Section
  <1> QED
    BY <1>1, <1>3, <1>4, <1>5 DEF LockMoves

\* Two processes are never in locked sections of one attempt.
LEMMA Exclusive ==
    ASSUME IInv, NEW p \in Procs, NEW q \in Procs, p # q, Section(local[p]), Section(local[q])
    PROVE  local[p].a # local[q].a
  <1>1. local[p].a \in AttemptIds
    <2>1. local[p] # Idle
      BY IdleFits
    <2> QED
      BY <2>1, InHandFits, JobAttempt
  <1> QED
    BY <1>1 DEF IInv, LockSound

LEMMA JobStep ==
    ASSUME IInv, NEW p \in Procs, NEW job \in Locals, Goto(p, job), LockMoves(p, job),
           Shared', HistorySound', TargetSound', \A b \in AttemptIds : Sound(b)',
           \A b \in AttemptIds : AdvancesAt(b), TargetGrows,
           \A q \in Procs : q # p => Undisturbed(local[q]), Fits(job)'
    PROVE  IInv'
  <1>1. LockSound' /\ lock' \in [AttemptIds -> Procs \cup {Free}]
    BY LockStep
  <1>2. /\ local' \in [Procs -> Locals]
        /\ \A q \in Procs : local'[q] = IF q = p THEN job ELSE local[q]
    BY DEF Goto, IInv, TypeOK
  <1>3. Shared /\ \A b \in AttemptIds : Sound(b)
    BY TypeParts DEF IInv
  <1>4. ASSUME NEW q \in Procs, q # p, NEW my \in Locals, local[q] = my
        PROVE  Fits(my)'
    <2>1. Fits(my) /\ Undisturbed(my)
      BY <1>4, InHandFits
    <2> QED
      BY <1>3, <2>1, FitsStays
  <1>5. JobsFit'
    BY <1>2, <1>4 DEF JobsFit
  <1>6. TypeOK'
    BY <1>1, <1>2 DEF TypeOK, Shared
  <1> QED
    BY <1>1, <1>5, <1>6 DEF IInv

\* A step that only moves its process on.
LEMMA ReadStep ==
    ASSUME IInv, NEW p \in Procs, NEW job \in Locals, Goto(p, job), LockMoves(p, job),
           UNCHANGED <<runtime, evidence, git, moves>>, failures' \in Nat, Fits(job)
    PROVE  IInv'
  <1> USE DEF runtime, evidence, git
  <1>1. Shared /\ Shared'
    BY TypeParts DEF IInv, Shared
  <1>2. ASSUME NEW b \in AttemptIds
        PROVE  Untouched(b)
    <2>1. (Started(b)' <=> Started(b)) /\ OutcomeOf(b)' = OutcomeOf(b)
      BY DEF Started, OutcomeOf, Attempts
    <2> QED
      BY <2>1 DEF Untouched
  <1>3. TargetGrows
    BY DEF TargetGrows
  <1>4. \A b \in AttemptIds : AdvancesAt(b) /\ Sound(b)' /\ Sound(b)
    BY <1>1, <1>2, <1>3, UntouchedAdvances, UntouchedSound DEF IInv
  <1>5. HistorySound'
    BY DEF IInv, HistorySound, Attempts
  <1>6. TargetSound'
    BY <1>1, <1>4, TargetStays DEF IInv
  <1>7. \A my : Undisturbed(my)
    BY DEF Undisturbed
  <1>8. Fits(job)'
    BY <1>1, <1>3, <1>4, <1>7, FitsStays
  <1> QED
    BY <1>1, <1>3, <1>4, <1>5, <1>6, <1>7, <1>8, JobStep

\* A step of a command on its attempt.
LEMMA EffectStep ==
    ASSUME IInv, NEW p \in Procs, NEW job \in Locals, Goto(p, job), LockMoves(p, job),
           NEW a \in AttemptIds, local[p].a = a,
           \A b \in AttemptIds \ {a} : Untouched(b), AdvancesAt(a), Sound(a)',
           Section(local[p]) \/ (tx'[a] = tx[a] /\ temp'[a] = temp[a]),
           source'[a].commits = source[a].commits, TargetGrows,
           Shared', HistorySound', TargetSound', Fits(job)'
    PROVE  IInv'
  <1>1. Shared /\ \A b \in AttemptIds : Sound(b)
    BY TypeParts DEF IInv
  <1>2. \A b \in AttemptIds : AdvancesAt(b) /\ Sound(b)'
    BY <1>1, UntouchedAdvances, UntouchedSound
  <1>3. ASSUME NEW q \in Procs, q # p
        PROVE  Undisturbed(local[q])
    <2>1. PICK my : my = local[q]
      OBVIOUS
    <2> SUFFICES Undisturbed(my)
      BY <2>1
    <2>2. my = Idle \/ my.a \in AttemptIds
      BY <2>1, InHandFits, JobAttempt
    <2>3. CASE my = Idle
      BY <2>3, IdleFits DEF Undisturbed
    <2>4. CASE my.a \in AttemptIds
      <3>1. source'[my.a].commits = source[my.a].commits
        BY <2>4 DEF Untouched
      <3>2. CASE my.a # a
        BY <2>4, <3>1, <3>2 DEF Untouched, Undisturbed
      <3>3. CASE my.a = a
        <4>1. ~(Section(local[p]) /\ Section(my))
          BY <1>3, <2>1, <3>3, Exclusive
        <4> QED
          BY <3>1, <3>3, <4>1 DEF Undisturbed
      <3> QED
        BY <3>2, <3>3
    <2> QED
      BY <2>2, <2>3, <2>4
  <1> QED
    BY <1>2, <1>3, JobStep

-----------------------------------------------------------------------------
(***************************************************************************)
(* The next job of a command.                                              *)
(***************************************************************************)
Like(job, my) ==
    /\ job.op = my.op /\ job.a = my.a
    /\ my.op \notin {"close", "recover"} => job.intent = my.intent
    /\ my.op \in {"close", "recover"} => job.status = my.status

GeneralJobs ==
    [at: Stages, op: Operations \ {"close", "recover"}, a: AttemptIds,
     k: 0 .. Complete, intent: Intents \cup {None}]
CloseJobs ==
    [at: Stages, op: {"close"}, a: AttemptIds, k: {0}, status: EndStatuses]
RecoverJobs ==
    [at: Stages, op: {"recover"}, a: AttemptIds, k: {0}, status: EndStatuses]

\* The jobs at a stage, by their command.
LEMMA JobKinds ==
    /\ GeneralJobs \subseteq Locals /\ CloseJobs \subseteq Locals /\ RecoverJobs \subseteq Locals
    /\ \A my \in Locals : my.at \in Stages =>
          my \in GeneralJobs \/ my \in CloseJobs \/ my \in RecoverJobs
  BY DEF Locals, GeneralJobs, CloseJobs, RecoverJobs, Stages, Idle

MovedTo(my, at, k) == [my EXCEPT !.at = at, !.k = k]

LEMMA NextJob ==
    ASSUME NEW my \in Locals, my.at \in Stages, NEW at \in Stages, NEW k \in 0 .. Complete,
           k = 0 \/ my.op \notin {"close", "recover"}
    PROVE  \E job \in Locals :
              /\ job = MovedTo(my, at, k)
              /\ job.at = at /\ job.k = k /\ Like(job, my)
  <1>1. PICK job : job = MovedTo(my, at, k)
    OBVIOUS
  <1>2. CASE my \in GeneralJobs
    <2>1. job \in GeneralJobs /\ job.at = at /\ job.k = k /\ job.op = my.op /\ job.a = my.a
          /\ job.intent = my.intent /\ my.op \notin {"close", "recover"}
      BY ONLY <1>1, <1>2, at \in Stages, k \in 0 .. Complete DEF GeneralJobs, MovedTo
    <2> QED
      BY <1>1, <2>1, JobKinds DEF Like
  <1>3. CASE my \in CloseJobs
    <2>1. my.op = "close" /\ k = 0
      BY <1>3 DEF CloseJobs
    <2>2. job \in CloseJobs /\ job.at = at /\ job.k = k /\ job.op = my.op /\ job.a = my.a
          /\ job.status = my.status
      BY ONLY <1>1, <1>3, <2>1, at \in Stages DEF CloseJobs, MovedTo
    <2> QED
      BY <1>1, <2>1, <2>2, JobKinds DEF Like
  <1>4. CASE my \in RecoverJobs
    <2>1. my.op = "recover" /\ k = 0
      BY <1>4 DEF RecoverJobs
    <2>2. job \in RecoverJobs /\ job.at = at /\ job.k = k /\ job.op = my.op /\ job.a = my.a
          /\ job.status = my.status
      BY ONLY <1>1, <1>4, <2>1, at \in Stages DEF RecoverJobs, MovedTo
    <2> QED
      BY <1>1, <2>1, <2>2, JobKinds DEF Like
  <1> QED
    BY <1>2, <1>3, <1>4, JobKinds

\* A step of the world around the commands.
LEMMA WorldStep ==
    ASSUME IInv, lock' = lock, local' = local, Shared', HistorySound', TargetSound',
           \A b \in AttemptIds : Sound(b)', \A b \in AttemptIds : AdvancesAt(b), TargetGrows,
           \A q \in Procs : Undisturbed(local[q])
    PROVE  IInv'
  <1>1. Shared /\ \A b \in AttemptIds : Sound(b)
    BY TypeParts DEF IInv
  <1>2. LockSound' /\ lock' \in [AttemptIds -> Procs \cup {Free}] /\ local' \in [Procs -> Locals]
    BY DEF IInv, TypeOK, LockSound
  <1>3. ASSUME NEW q \in Procs, NEW my \in Locals, local[q] = my
        PROVE  Fits(my)'
    <2>1. Fits(my) /\ Undisturbed(my)
      BY <1>3, InHandFits
    <2> QED
      BY <1>1, <2>1, FitsStays
  <1>4. JobsFit'
    BY <1>2, <1>3 DEF JobsFit
  <1>5. TypeOK'
    BY <1>2 DEF TypeOK, Shared
  <1> QED
    BY <1>2, <1>4, <1>5 DEF IInv

LEMMA NaturalFailures ==
    ASSUME IInv
    PROVE  failures \in Nat /\ failures + 1 \in Nat /\ moves \in Nat /\ moves + 1 \in Nat
  BY DEF IInv, TypeOK

\* The command ends.
LEMMA LeaveStep ==
    ASSUME IInv, NEW p \in Procs, Goto(p, Idle), Unlock(p) \/ (lock' = lock /\ ~Section(local[p])),
           UNCHANGED <<runtime, evidence, git, moves>>, failures' \in Nat
    PROVE  IInv'
  <1>1. LockMoves(p, Idle)
    BY IdleFits DEF LockMoves
  <1> QED
    BY <1>1, IdleFits, ReadStep

LEMMA RaiseStep ==
    ASSUME IInv, NEW p \in Procs, NEW fault \in {"fatal", "recoverable"}, Raise(p, fault),
           local[p] # Idle, UNCHANGED <<runtime, evidence, git, moves>>, failures' \in Nat
    PROVE  IInv'
  <1>1. CASE local[p].op = "land"
    <2>1. PICK my \in Locals : my = local[p]
      BY InHandFits
    <2>2. my.a \in AttemptIds /\ Started(my.a)
      BY <2>1, InHandFits, JobAttempt DEF Fits
    <2>3. PICK job : job = [at |-> "caught", op |-> "land", a |-> my.a, fault |-> fault]
      OBVIOUS
    <2>4. job \in Locals /\ Fits(job) /\ ~Section(job)
      <3>1. job \in [at: {"caught"}, op: {"land"}, a: AttemptIds, fault: {"fatal", "recoverable"}]
        BY ONLY <2>2, <2>3, fault \in {"fatal", "recoverable"}
      <3>2. job.at = "caught" /\ job.a = my.a
        BY <2>3
      <3> QED
        BY <2>2, <3>1, <3>2 DEF Locals, Fits, Section, Stages
    <2>5. Goto(p, job) /\ Unlock(p)
      BY <1>1, <2>1, <2>3 DEF Raise
    <2>6. LockMoves(p, job)
      BY <2>4, <2>5 DEF LockMoves
    <2> QED
      BY <2>4, <2>5, <2>6, ReadStep
  <1>2. CASE local[p].op # "land"
    BY <1>2, LeaveStep DEF Raise, Report
  <1> QED
    BY <1>1, <1>2

Inside == Stages \ {"enter", "abort_enter"}

LEMMA SectionLike ==
    ASSUME NEW my, NEW job, my.at \in Inside, job.at \in Inside, Like(job, my)
    PROVE  (Section(job) <=> Section(my)) /\ job.a = my.a
  BY DEF Section, Like, Inside

LEMMA MovedJob ==
    ASSUME NEW p \in Procs, NEW my \in Locals, my = local[p], my.at \in Inside,
           NEW at \in Inside, NEW k \in 0 .. Complete, k = 0 \/ my.op \notin {"close", "recover"},
           lock' = lock
    PROVE  \E job \in Locals : /\ job = MovedTo(my, at, k)
                               /\ job.at = at /\ job.k = k /\ Like(job, my)
                               /\ LockMoves(p, job)
  <1>1. my.at \in Stages /\ at \in Stages
    BY DEF Inside
  <1>2. PICK job \in Locals : /\ job = MovedTo(my, at, k)
                              /\ job.at = at /\ job.k = k /\ Like(job, my)
    <2> HIDE DEF Complete
    <2> QED
      BY ONLY <1>1, my \in Locals, k \in 0 .. Complete, k = 0 \/ my.op \notin {"close", "recover"}, NextJob
  <1>3. (Section(job) <=> Section(my)) /\ job.a = my.a
    BY ONLY <1>2, my.at \in Inside, at \in Inside, SectionLike
  <1>4. LockMoves(p, job)
    BY <1>3 DEF LockMoves
  <1> QED
    BY <1>2, <1>4

\* The command goes on to another stage, having changed nothing.
LEMMA MoveStep ==
    ASSUME IInv, NEW p \in Procs, NEW my \in Locals, my = local[p], my.at \in Inside,
           NEW at \in Inside, NEW k \in 0 .. Complete, k = 0 \/ my.op \notin {"close", "recover"},
           Goto(p, MovedTo(my, at, k)), lock' = lock,
           UNCHANGED <<runtime, evidence, git, moves>>, failures' \in Nat,
           \A job \in Locals : job.at = at /\ job.k = k /\ Like(job, my) => Fits(job)
    PROVE  IInv'
  <1>2. PICK job \in Locals : /\ job = MovedTo(my, at, k)
                              /\ job.at = at /\ job.k = k /\ Like(job, my)
                              /\ LockMoves(p, job)
    BY MovedJob
  <1> QED
    BY <1>2, ReadStep

\* The command goes on to another stage, with an effect on its attempt.
LEMMA MoveEffect ==
    ASSUME IInv, NEW p \in Procs, NEW my \in Locals, my = local[p], my.at \in Inside,
           NEW at \in Inside, NEW k \in 0 .. Complete, k = 0 \/ my.op \notin {"close", "recover"},
           Goto(p, MovedTo(my, at, k)), lock' = lock,
           NEW a \in AttemptIds, my.a = a,
           \A b \in AttemptIds \ {a} : Untouched(b), AdvancesAt(a), Sound(a)',
           Section(my) \/ (tx'[a] = tx[a] /\ temp'[a] = temp[a]),
           source'[a].commits = source[a].commits, TargetGrows,
           Shared', HistorySound', TargetSound',
           \A job \in Locals : job.at = at /\ job.k = k /\ Like(job, my) => Fits(job)'
    PROVE  IInv'
  <1>2. PICK job \in Locals : /\ job = MovedTo(my, at, k)
                              /\ job.at = at /\ job.k = k /\ Like(job, my)
                              /\ LockMoves(p, job)
    BY MovedJob
  <1>4. Fits(job)'
    BY <1>2
  <1> QED
    BY <1>2, <1>4, EffectStep

-----------------------------------------------------------------------------
(***************************************************************************)
(* The calls, and the steps that only read.                                *)
(***************************************************************************)
LEMMA InHand ==
    ASSUME IInv, NEW p \in Procs, NEW my \in Locals, my = local[p], my # Idle
    PROVE  /\ my.a \in AttemptIds /\ Started(my.a) /\ Fits(my) /\ Sound(my.a) /\ Shared
           /\ tx[my.a].phase \in 0 .. Complete /\ tx[my.a].abort \in 0 .. AbortComplete
           /\ tx[my.a].canonical \in Nat /\ tx[my.a].intent \in Intents \cup {None}
           /\ HasIntent(my.a) <=> tx[my.a].intent \in Intents
  <1>1. my.a \in AttemptIds /\ Fits(my) /\ Started(my.a)
    BY InHandFits, JobAttempt DEF Fits
  <1>2. Shared /\ Sound(my.a)
    BY <1>1, TypeParts DEF IInv
  <1> QED
    BY <1>1, <1>2, TxFields

LEMMA StagesIn ==
    /\ \A at \in Inside : at \in Stages /\ at \notin {"enter", "abort_enter", "idle", "freeze", "caught"}
    /\ Idle.at = "idle"
  BY DEF Inside, Stages, Idle

\* An idle process takes up a job.
LEMMA CallStep ==
    ASSUME IInv, NEW p \in Procs, local[p] = Idle, NEW job \in Locals, Goto(p, job), Fits(job),
           \/ lock' = lock /\ ~Section(job)
           \/ job.a \in AttemptIds /\ Lock(p, job.a) /\ Section(job),
           UNCHANGED <<runtime, evidence, git, moves, failures>>
    PROVE  IInv'
  <1>1. LockMoves(p, job)
    BY IdleFits DEF LockMoves, Lock
  <1>2. failures' \in Nat
    BY NaturalFailures
  <1> QED
    BY <1>1, <1>2, ReadStep

LEMMA LandFreshStep ==
    ASSUME IInv, NEW p \in Procs, NEW a \in AttemptIds, LandFresh(p, a)
    PROVE  IInv'
  <1>1. Rebased \in Nat
    BY DEF IInv, TypeOK, Rebased
  <1>2. PICK job : job = [at |-> "freeze", op |-> "land", a |-> a, rebased |-> Rebased]
    OBVIOUS
  <1>3. job \in [at: {"freeze"}, op: {"land"}, a: AttemptIds, rebased: Nat]
    BY ONLY <1>1, <1>2, a \in AttemptIds
  <1>4. job \in Locals /\ job.at = "freeze" /\ job.a = a
    BY <1>2, <1>3 DEF Locals
  <1>5. Fits(job) /\ ~Section(job)
    BY <1>4 DEF Fits, Section, Stages, LandFresh, Active
  <1> QED
    BY <1>2, <1>4, <1>5, CallStep DEF LandFresh

\* The first job of a call.
LEMMA NewJob ==
    ASSUME NEW at \in Stages, NEW op \in Operations \ {"close", "recover"}, NEW a \in AttemptIds,
           NEW intent \in Intents \cup {None}
    PROVE  \E job \in Locals :
              /\ job = Job(at, op, a, intent)
              /\ job.at = at /\ job.op = op /\ job.a = a /\ job.intent = intent /\ job.k = 0
  <1>1. PICK job : job = Job(at, op, a, intent)
    OBVIOUS
  <1>2. job \in GeneralJobs /\ job.at = at /\ job.op = op /\ job.a = a /\ job.intent = intent
        /\ job.k = 0
    BY ONLY <1>1, at \in Stages, op \in Operations \ {"close", "recover"}, a \in AttemptIds,
            intent \in Intents \cup {None}
       DEF Job, GeneralJobs, Complete
  <1> QED
    BY <1>1, <1>2, JobKinds

LEMMA NewAbort ==
    ASSUME IInv, NEW a \in AttemptIds, HasIntent(a)
    PROVE  \E job \in Locals :
              job = AbortJob(a) /\ job.at = "abort_enter" /\ Fits(job) /\ ~Section(job)
  <1>1. PICK job : job = AbortJob(a)
    OBVIOUS
  <1>2. PICK intent : intent = tx[a].intent
    OBVIOUS
  <1>3. Sound(a) /\ intent \in Intents \cup {None}
    BY <1>2, TypeParts, TxFields DEF IInv
  <1>4. PICK k : k = IF AbortSeen(a) THEN AbortRequested ELSE 0
    OBVIOUS
  <1>5. k \in 0 .. Complete /\ (k = AbortRequested => AbortSeen(a))
    BY <1>4
  <1>6. job = [Job("abort_enter", "abort", a, intent) EXCEPT !.k = k]
    BY <1>1, <1>2, <1>4 DEF AbortJob
  <1>7. job \in GeneralJobs /\ job.at = "abort_enter" /\ job.op = "abort" /\ job.a = a /\ job.k = k
    <2>1. "abort_enter" \in Stages /\ "abort" \in Operations \ {"close", "recover"}
      BY DEF Stages, Operations, Commands
    <2>2. k \in 0 .. Complete
      BY <1>5
    <2> QED
      BY ONLY <1>3, <1>6, <2>1, <2>2, a \in AttemptIds DEF Job, GeneralJobs
  <1>8. Started(a)
    BY <1>3 DEF Sound, TransactionSound
  <1>9. AbortFits(job)
    BY <1>5, <1>7 DEF AbortFits
  <1>10. Fits(job)
    BY <1>7, <1>8, <1>9 DEF Fits, OpsAt, Lands
  <1> QED
    BY <1>1, <1>7, <1>10, JobKinds DEF Section

LEMMA LandRetryStep ==
    ASSUME IInv, NEW p \in Procs, NEW a \in AttemptIds, LandRetry(p, a)
    PROVE  IInv'
  <1>1. HasIntent(a) /\ Started(a) /\ tx[a].intent \in Intents
    <2>1. Sound(a) /\ Shared
      BY TypeParts DEF IInv
    <2>2. Incomplete(a) \/ AbortSeen(a)
      BY DEF LandRetry, FirstIncomplete
    <2>3. AbortSeen(a) => tx[a].phase >= IntentRecorded
      BY <2>1, TxFields DEF Sound, TransactionSound
    <2> QED
      BY <2>1, <2>2, <2>3, TxFields DEF Incomplete, LandRetry, Sound, TransactionSound
  <1>2. local[p] = Idle /\ lock' = lock /\ UNCHANGED <<runtime, evidence, git, moves, failures>>
    BY DEF LandRetry
  <1>3. CASE AbortSeen(a)
    <2>1. PICK job \in Locals : job = AbortJob(a) /\ Fits(job) /\ ~Section(job)
      BY <1>1, NewAbort
    <2>2. Goto(p, job)
      BY <1>3, <2>1 DEF LandRetry
    <2> QED
      BY <1>2, <2>1, <2>2, CallStep
  <1>4. CASE ~AbortSeen(a)
    <2>1. PICK intent : intent = tx[a].intent
      OBVIOUS
    <2>2. PICK job \in Locals : /\ job = Job("enter", "land", a, intent)
                                /\ job.at = "enter" /\ job.op = "land" /\ job.a = a
                                /\ job.intent = intent
      <3>1. "enter" \in Stages /\ "land" \in Operations \ {"close", "recover"} /\ intent \in Intents \cup {None}
        BY <1>1, <2>1 DEF Stages, Operations, Commands
      <3> QED
        BY <3>1, NewJob
    <2>3. Goto(p, job)
      BY <1>4, <2>1, <2>2 DEF LandRetry
    <2>4. LandFits(job)
      BY <1>1, <2>1, <2>2 DEF LandFits
    <2>5. Fits(job) /\ ~Section(job)
      BY <1>1, <2>2, <2>4 DEF Fits, Section, OpsAt, Lands
    <2> QED
      BY <1>2, <2>3, <2>5, CallStep
  <1> QED
    BY <1>3, <1>4

LEMMA LatestStarted ==
    ASSUME IInv, NEW a \in AttemptIds, Active(a) \/ Latest(a)
    PROVE  Started(a)
  <1>1. Attempts \in Seq([id: AttemptIds, outcome: Outcomes])
    BY DEF IInv, TypeOK, Attempts
  <1>2. PICK s : s = Attempts
    OBVIOUS
  <1>3. s # <<>> => Len(s) \in DOMAIN s
    BY <1>1, <1>2
  <1> QED
    BY <1>2, <1>3 DEF Active, Latest, Started

LEMMA ReconcileStep ==
    ASSUME IInv, NEW p \in Procs, NEW a \in AttemptIds, Reconcile(p, a)
    PROVE  IInv'
  <1>1. Sound(a) /\ Shared
    BY TypeParts DEF IInv
  <1>2. tx[a].phase \in 0 .. Complete
    BY <1>1, TxFields
  <1>3. tx[a].phase >= TargetUpdated
    BY <1>2 DEF Reconcile, Reconcilable
  <1>4. HasIntent(a) /\ Started(a) /\ tx[a].intent \in Intents
    BY <1>1, <1>2, <1>3, TxFields DEF Sound, TransactionSound
  <1>5. PICK intent : intent = tx[a].intent
    OBVIOUS
  <1>6. PICK job \in Locals : /\ job = Job("enter", "reconcile", a, intent)
                              /\ job.at = "enter" /\ job.op = "reconcile" /\ job.a = a
                              /\ job.intent = intent
    <2>1. "enter" \in Stages /\ "reconcile" \in Operations \ {"close", "recover"} /\ intent \in Intents \cup {None}
      BY <1>4, <1>5 DEF Stages, Operations, Commands
    <2> QED
      BY <2>1, NewJob
  <1>7. Goto(p, job)
    BY <1>5, <1>6 DEF Reconcile
  <1>8. LandFits(job)
    BY <1>3, <1>4, <1>5, <1>6 DEF LandFits
  <1>9. Fits(job) /\ ~Section(job)
    BY <1>4, <1>6, <1>8 DEF Fits, Section, OpsAt, Lands
  <1> QED
    BY <1>7, <1>9, CallStep DEF Reconcile

LEMMA CloseStep ==
    ASSUME IInv, NEW p \in Procs, NEW a \in AttemptIds, Close(p, a)
    PROVE  IInv'
  <1>1. Started(a)
    BY LatestStarted DEF Close
  <1>2. PICK s \in EndStatuses :
           Goto(p, [at |-> "enter", op |-> "close", a |-> a, k |-> 0, status |-> s])
    BY DEF Close
  <1>3. PICK job : job = [at |-> "enter", op |-> "close", a |-> a, k |-> 0, status |-> s]
    OBVIOUS
  <1>4. "enter" \in Stages
    BY DEF Stages
  <1>5. job \in CloseJobs /\ job.at = "enter" /\ job.op = "close" /\ job.a = a
    BY ONLY <1>3, <1>4, a \in AttemptIds, s \in EndStatuses DEF CloseJobs
  <1>6. Fits(job) /\ ~Section(job)
    BY <1>1, <1>5 DEF Fits, OpsAt, Lands, Section, Stages
  <1> QED
    BY <1>2, <1>3, <1>5, <1>6, JobKinds, CallStep DEF Close

LEMMA RecoverStep ==
    ASSUME IInv, NEW p \in Procs, NEW a \in AttemptIds, Recover(p, a)
    PROVE  IInv'
  <1>1. Started(a)
    BY LatestStarted DEF Recover
  <1>2. PICK s \in EndStatuses :
           Goto(p, [at |-> "finish", op |-> "recover", a |-> a, k |-> 0, status |-> s])
    BY DEF Recover
  <1>3. PICK job : job = [at |-> "finish", op |-> "recover", a |-> a, k |-> 0, status |-> s]
    OBVIOUS
  <1>4. "finish" \in Stages
    BY DEF Stages
  <1>5. job \in RecoverJobs /\ job.at = "finish" /\ job.op = "recover" /\ job.a = a
    BY ONLY <1>3, <1>4, a \in AttemptIds, s \in EndStatuses DEF RecoverJobs
  <1>6. Fits(job) /\ ~Section(job)
    BY <1>1, <1>5 DEF Fits, OpsAt, Lands, Section, Stages
  <1> QED
    BY <1>2, <1>3, <1>5, <1>6, JobKinds, CallStep DEF Recover

LEMMA CleanupStep ==
    ASSUME IInv, NEW p \in Procs, NEW a \in AttemptIds, Cleanup(p, a)
    PROVE  IInv'
  <1>1. Started(a)
    BY LatestStarted DEF Cleanup
  <1>2. "prove" \in Stages /\ "cleanup" \in Operations \ {"close", "recover"}
        /\ None \in Intents \cup {None}
    BY DEF Stages, Operations, Commands
  <1>3. PICK job \in Locals : /\ job = Job("prove", "cleanup", a, None)
                              /\ job.at = "prove" /\ job.op = "cleanup" /\ job.a = a
    BY <1>2, NewJob
  <1>4. Fits(job) /\ ~Section(job)
    BY <1>1, <1>3 DEF Fits, OpsAt, Lands, Section, Stages
  <1> QED
    BY <1>3, <1>4, CallStep DEF Cleanup

LEMMA LandFreezeStep ==
    ASSUME IInv, NEW p \in Procs, LandFreeze(p)
    PROVE  IInv'
  <1>1. PICK my \in Locals : my = local[p]
    BY InHandFits
  <1>2. my.at = "freeze" /\ lock' = lock /\ UNCHANGED <<runtime, evidence, git, moves, failures>>
    BY <1>1 DEF LandFreeze, At
  <1>3. my \in [at: {"freeze"}, op: {"land"}, a: AttemptIds, rebased: Nat]
    BY <1>2 DEF Locals, Stages, Idle
  <1>4. my # Idle /\ my.rebased \in Nat /\ ~Section(my)
    BY <1>2, <1>3 DEF Idle, Section, Stages
  <1>5. my.a \in AttemptIds /\ Started(my.a)
    BY <1>1, <1>4, InHand
  <1>6. failures' \in Nat
    BY <1>2, NaturalFailures
  <1>7. CASE Goto(p, Idle)
    BY <1>1, <1>2, <1>4, <1>6, <1>7, LeaveStep
  <1>8. CASE \E cleanup \in BOOLEAN :
               Goto(p, Job("enter", "land", my.a,
                           LandingIntent(source[my.a].commits, my.rebased, Len(target), cleanup)))
    <2>1. PICK cleanup \in BOOLEAN :
               Goto(p, Job("enter", "land", my.a,
                           LandingIntent(source[my.a].commits, my.rebased, Len(target), cleanup)))
      BY <1>8
    <2>2. PICK intent : intent = LandingIntent(source[my.a].commits, my.rebased, Len(target), cleanup)
      OBVIOUS
    <2>3. intent \in Intents
      <3>1. source[my.a].commits \in Nat /\ Len(target) \in Nat
        BY <1>5 DEF IInv, TypeOK
      <3> QED
        BY ONLY <1>4, <2>2, <3>1, cleanup \in BOOLEAN DEF LandingIntent, Intents
    <2>4. PICK a \in AttemptIds : a = my.a
      BY <1>5
    <2>5. PICK job \in Locals : /\ job = Job("enter", "land", a, intent)
                                /\ job.at = "enter" /\ job.op = "land" /\ job.a = a
                                /\ job.intent = intent
      <3>1. "enter" \in Stages /\ "land" \in Operations \ {"close", "recover"} /\ intent \in Intents \cup {None}
        BY <2>3 DEF Stages, Operations, Commands
      <3> QED
        BY <3>1, NewJob
    <2>6. Goto(p, job)
      BY <2>1, <2>2, <2>4, <2>5
    <2>7. LandFits(job)
      BY <2>3, <2>5 DEF LandFits
    <2>8. Fits(job) /\ ~Section(job)
      BY <1>5, <2>4, <2>5, <2>7 DEF Fits, Section, OpsAt, Lands
    <2>9. LockMoves(p, job)
      BY <1>1, <1>2, <1>4, <2>8 DEF LockMoves
    <2> QED
      BY <1>2, <1>6, <2>6, <2>8, <2>9, ReadStep
  <1> QED
    BY <1>1, <1>7, <1>8 DEF LandFreeze

\* A command takes the lock of its attempt.
LEMMA EnterStep ==
    ASSUME IInv, NEW p \in Procs, NEW my \in Locals, my = local[p], my.at \in {"enter", "abort_enter"},
           NEW at \in Inside, NEW k \in 0 .. Complete, Goto(p, MovedTo(my, at, k)), Lock(p, my.a),
           my.op \in Lands \cup {"abort", "close"}, k = 0 \/ my.op # "close",
           UNCHANGED <<runtime, evidence, git, moves, failures>>,
           \A job \in Locals : job.at = at /\ job.k = k /\ Like(job, my) => Fits(job)
    PROVE  IInv'
  <1>1. /\ my.at \in Stages /\ at \in Stages /\ my # Idle
        /\ k = 0 \/ my.op \notin {"close", "recover"}
    BY DEF Inside, Stages, Lands, Idle
  <1>2. PICK job \in Locals : /\ job = MovedTo(my, at, k)
                              /\ job.at = at /\ job.k = k /\ Like(job, my)
    BY ONLY <1>1, my \in Locals, k \in 0 .. Complete, NextJob
  <1>3. my.a \in AttemptIds
    BY <1>1, JobAttempt
  <1>4. ~Section(my) /\ Section(job) /\ job.a = my.a
    BY <1>2 DEF Section, Like, Inside
  <1>5. LockMoves(p, job)
    BY <1>3, <1>4 DEF LockMoves, Lock
  <1>6. failures' \in Nat
    BY NaturalFailures
  <1> QED
    BY <1>2, <1>5, <1>6, ReadStep

LEMMA LandEnterStep ==
    ASSUME IInv, NEW p \in Procs, LandEnter(p)
    PROVE  IInv'
  <1>1. PICK my \in Locals : my = local[p]
    BY InHandFits
  <1>2. my.at = "enter" /\ my.op = "land" /\ my # Idle
    BY <1>1 DEF LandEnter, At, Idle
  <1>3. Goto(p, MovedTo(my, "record", IntentRecorded)) /\ Lock(p, my.a)
    BY <1>1 DEF LandEnter, ToRecord, MovedTo
  <1>4. my.a \in AttemptIds /\ Started(my.a) /\ Fits(my) /\ tx[my.a].phase \in 0 .. Complete
    BY <1>1, <1>2, InHand
  <1>5. my.intent \in Intents
    BY <1>2, <1>4 DEF Fits, LandFits, Stages, Lands
  <1>6. ASSUME NEW job \in Locals, job.at = "record", job.k = IntentRecorded, Like(job, my)
        PROVE  Fits(job)
    <2>1. job.op = "land" /\ job.a = my.a /\ job.intent = my.intent
      BY <1>2, <1>6 DEF Like
    <2>2. Due(job)
      BY <1>6 DEF Due
    <2>3. LandFits(job)
      BY <1>4, <1>5, <1>6, <2>1, <2>2 DEF LandFits
    <2> QED
      BY <1>4, <1>6, <2>1, <2>3 DEF Fits, OpsAt, Lands
  <1>7. "record" \in Inside /\ IntentRecorded \in 0 .. Complete
    BY DEF Inside, Stages
  <1> QED
    BY <1>1, <1>2, <1>3, <1>6, <1>7, EnterStep DEF LandEnter, Lands

LEMMA ReconcileEnterStep ==
    ASSUME IInv, NEW p \in Procs, ReconcileEnter(p)
    PROVE  IInv'
  <1>1. PICK my \in Locals : my = local[p]
    BY InHandFits
  <1>2. my.at = "enter" /\ my.op = "reconcile" /\ my # Idle
    BY <1>1 DEF ReconcileEnter, At, Idle
  <1>3. Goto(p, MovedTo(my, "record", TargetUpdated)) /\ Lock(p, my.a)
    BY <1>1 DEF ReconcileEnter, ToRecord, MovedTo
  <1>4. my.a \in AttemptIds /\ Started(my.a) /\ Fits(my) /\ tx[my.a].phase \in 0 .. Complete
    BY <1>1, <1>2, InHand
  <1>5. my.intent \in Intents /\ my.intent = tx[my.a].intent /\ tx[my.a].phase >= TargetUpdated
    BY <1>2, <1>4 DEF Fits, LandFits, Stages, Lands
  <1>6. ASSUME NEW job \in Locals, job.at = "record", job.k = TargetUpdated, Like(job, my)
        PROVE  Fits(job)
    <2>1. job.op = "reconcile" /\ job.a = my.a /\ job.intent = my.intent
      BY <1>2, <1>6 DEF Like
    <2>2. LandFits(job)
      BY <1>4, <1>5, <1>6, <2>1 DEF LandFits
    <2> QED
      BY <1>4, <1>6, <2>1, <2>2 DEF Fits, OpsAt, Lands
  <1>7. "record" \in Inside /\ TargetUpdated \in 0 .. Complete
    BY DEF Inside, Stages
  <1> QED
    BY <1>1, <1>2, <1>3, <1>6, <1>7, EnterStep DEF ReconcileEnter, Lands

LEMMA CloseEnterStep ==
    ASSUME IInv, NEW p \in Procs, CloseEnter(p)
    PROVE  IInv'
  <1>1. PICK my \in Locals : my = local[p]
    BY InHandFits
  <1>2. my.at = "enter" /\ my.op = "close" /\ my # Idle
    BY <1>1 DEF CloseEnter, At, Idle
  <1>3. Goto(p, MovedTo(my, "finish", 0)) /\ Lock(p, my.a)
    BY <1>1 DEF CloseEnter, Continue, MovedTo
  <1>4. Started(my.a)
    BY <1>1, <1>2, InHand
  <1>5. ASSUME NEW job \in Locals, job.at = "finish", job.k = 0, Like(job, my)
        PROVE  Fits(job)
    <2>1. job.op = "close" /\ job.a = my.a
      BY <1>2, <1>5 DEF Like
    <2> QED
      BY <1>4, <1>5, <2>1 DEF Fits, OpsAt, Lands
  <1>6. "finish" \in Inside /\ 0 \in 0 .. Complete
    BY DEF Inside, Stages
  <1> QED
    BY <1>1, <1>2, <1>3, <1>5, <1>6, EnterStep DEF CloseEnter

LEMMA RefuseSteps ==
    ASSUME IInv, NEW p \in Procs,
           \/ RecordRefuse(p) \/ TempRefuse(p) \/ StaleTarget(p) \/ DirtyTarget(p)
           \/ FinishConflict(p) \/ RefuseCleanup(p) \/ AbortRefuse(p)
    PROVE  IInv'
  <1>1. /\ \E at \in {"record", "temp_add", "target", "finish", "prove", "abort"} : At(p, at)
        /\ Raise(p, "fatal") /\ UNCHANGED <<runtime, evidence, git, moves, failures>>
    <2>1. CASE RecordRefuse(p)
      BY <2>1 DEF RecordRefuse
    <2>2. CASE TempRefuse(p)
      BY <2>2 DEF TempRefuse
    <2>3. CASE StaleTarget(p) \/ DirtyTarget(p)
      BY <2>3 DEF StaleTarget, DirtyTarget
    <2>4. CASE FinishConflict(p)
      BY <2>4 DEF FinishConflict
    <2>5. CASE RefuseCleanup(p)
      BY <2>5 DEF RefuseCleanup
    <2>6. CASE AbortRefuse(p)
      BY <2>6 DEF AbortRefuse
    <2> QED
      BY <2>1, <2>2, <2>3, <2>4, <2>5, <2>6
  <1>2. local[p] # Idle
    BY <1>1 DEF At, Idle
  <1>3. failures' \in Nat
    BY <1>1, NaturalFailures
  <1> QED
    BY <1>1, <1>2, <1>3, RaiseStep

LEMMA FailureSteps ==
    ASSUME IInv, NEW p \in Procs, Fault(p) \/ Die(p)
    PROVE  IInv'
  <1>1. local[p] # Idle /\ failures' \in Nat /\ UNCHANGED <<runtime, evidence, git, moves>>
    BY NaturalFailures DEF Fault, Die, Failing
  <1>2. CASE Fault(p)
    BY <1>1, <1>2, RaiseStep DEF Fault
  <1>3. CASE Die(p)
    BY <1>1, <1>3, LeaveStep DEF Die, Leave
  <1> QED
    BY <1>2, <1>3

LEMMA CaughtStep ==
    ASSUME IInv, NEW p \in Procs, Caught(p)
    PROVE  IInv'
  <1>1. PICK my \in Locals : my = local[p]
    BY InHandFits
  <1>2. my.at = "caught" /\ lock' = lock /\ UNCHANGED <<runtime, evidence, git, moves, failures>>
    BY <1>1 DEF Caught, At
  <1>3. my # Idle /\ ~Section(my)
    BY <1>2 DEF Idle, Section, Stages
  <1>4. my.a \in AttemptIds
    BY <1>1, <1>3, InHand
  <1>5. failures' \in Nat
    BY <1>2, NaturalFailures
  <1>6. CASE Goto(p, Idle)
    BY <1>1, <1>2, <1>3, <1>5, <1>6, LeaveStep
  <1>7. CASE HasIntent(my.a) /\ Goto(p, AbortJob(my.a))
    <2>1. PICK a \in AttemptIds : a = my.a
      BY <1>4
    <2>2. HasIntent(a) /\ Goto(p, AbortJob(a))
      BY <1>7, <2>1
    <2>3. PICK job \in Locals : job = AbortJob(a) /\ Fits(job) /\ ~Section(job)
      BY <2>2, NewAbort
    <2>4. LockMoves(p, job)
      BY <1>1, <1>2, <1>3, <2>3 DEF LockMoves
    <2> QED
      BY <1>2, <1>5, <2>2, <2>3, <2>4, ReadStep
  <1> QED
    BY <1>1, <1>6, <1>7 DEF Caught, HasIntent

LEMMA SameStage ==
    ASSUME NEW my \in GeneralJobs, NEW at \in Stages
    PROVE  /\ [my EXCEPT !.at = at] = MovedTo(my, at, my.k)
           /\ my.k \in 0 .. Complete
  BY ONLY my \in GeneralJobs, at \in Stages DEF GeneralJobs, MovedTo

LEMMA AbortEnterStep ==
    ASSUME IInv, NEW p \in Procs, AbortEnter(p)
    PROVE  IInv'
  <1>1. PICK my \in Locals : my = local[p]
    BY InHandFits
  <1>2. my.at = "abort_enter" /\ my # Idle /\ my.at \in Stages
    BY <1>1 DEF AbortEnter, At, Idle, Stages
  <1>3. my.a \in AttemptIds /\ Started(my.a) /\ Fits(my)
    BY <1>1, <1>2, InHand
  <1>4. my.op = "abort" /\ AbortFits(my)
    BY <1>2, <1>3 DEF Fits, OpsAt
  <1>5. my \in GeneralJobs
    <2>1. my \notin CloseJobs /\ my \notin RecoverJobs
      BY <1>4 DEF CloseJobs, RecoverJobs
    <2> QED
      BY <1>2, <2>1, JobKinds
  <1>6. "abort" \in Inside /\ "abort" \in Stages
    BY DEF Inside, Stages
  <1>7. PICK k \in 0 .. Complete : k = my.k
    BY <1>5, <1>6, SameStage
  <1>8. Goto(p, MovedTo(my, "abort", k)) /\ Lock(p, my.a)
    BY <1>1, <1>5, <1>7, <1>6, SameStage DEF AbortEnter
  <1>9. ASSUME NEW job \in Locals, job.at = "abort", job.k = k, Like(job, my)
        PROVE  Fits(job)
    <2>1. job.op = "abort" /\ job.a = my.a
      BY <1>4, <1>9 DEF Like
    <2>2. AbortFits(job)
      BY <1>2, <1>4, <1>7, <1>9, <2>1 DEF AbortFits
    <2> QED
      BY <1>3, <1>9, <2>1, <2>2 DEF Fits, OpsAt, Lands
  <1>10. UNCHANGED <<runtime, evidence, git, moves, failures>>
    BY DEF AbortEnter
  <1> QED
    BY <1>1, <1>2, <1>4, <1>6, <1>8, <1>9, <1>10, EnterStep

LEMMA VerifyCommitStep ==
    ASSUME IInv, NEW p \in Procs, VerifyCommit(p)
    PROVE  IInv'
  <1>1. PICK my \in Locals : my = local[p]
    BY InHandFits
  <1>2. my.at = "verify" /\ my # Idle /\ my.at \in Stages /\ my.at \in Inside
    BY <1>1 DEF VerifyCommit, At, Idle, Stages, Inside
  <1>3. /\ my.a \in AttemptIds /\ Started(my.a) /\ Fits(my) /\ tx[my.a].phase \in 0 .. Complete
        /\ UNCHANGED <<runtime, evidence, git, moves, failures>> /\ failures' \in Nat
    BY <1>1, <1>2, InHand, NaturalFailures DEF VerifyCommit
  <1>4. my.op \in Lands /\ LandFits(my)
    BY <1>2, <1>3 DEF Fits, OpsAt
  <1>5. /\ tx[my.a].phase = SourcePrepared /\ my.intent = tx[my.a].intent /\ my.intent \in Intents
        /\ made[my.a] >= 1
    BY <1>2, <1>4 DEF LandFits, Reached
  <1>6. CASE Verified(my.intent)
    <2>1. Goto(p, MovedTo(my, "record", CanonicalCreated)) /\ lock' = lock
      BY <1>1, <1>6 DEF VerifyCommit, ToRecord, MovedTo
    <2>2. ASSUME NEW job \in Locals, job.at = "record", job.k = CanonicalCreated, Like(job, my)
          PROVE  Fits(job)
      <3>1. job.op = my.op /\ job.a = my.a /\ job.intent = my.intent
        BY <1>4, <2>2 DEF Like, Lands
      <3>2. Due(job)
        BY <1>5, <1>6, <2>2, <3>1 DEF Due
      <3>3. LandFits(job)
        BY <1>3, <1>5, <2>2, <3>1, <3>2 DEF LandFits
      <3> QED
        BY <1>3, <1>4, <2>2, <3>1, <3>3 DEF Fits, OpsAt, Lands
    <2>3. "record" \in Inside /\ CanonicalCreated \in 0 .. Complete /\ my.op \notin {"close", "recover"}
      BY <1>4 DEF Inside, Stages, Lands
    <2> QED
      BY <1>1, <1>2, <1>3, <2>1, <2>2, <2>3, MoveStep
  <1>7. CASE ~Verified(my.intent)
    <2>1. Raise(p, "fatal")
      BY <1>1, <1>7 DEF VerifyCommit
    <2> QED
      BY <1>1, <1>2, <1>3, <2>1, RaiseStep
  <1> QED
    BY <1>6, <1>7

LEMMA ProveCleanupStep ==
    ASSUME IInv, NEW p \in Procs, ProveCleanup(p)
    PROVE  IInv'
  <1>1. PICK my \in Locals : my = local[p]
    BY InHandFits
  <1>2. my.at = "prove" /\ my # Idle /\ my.at \in Stages /\ my.at \in Inside
    BY <1>1 DEF ProveCleanup, At, Idle, Stages, Inside
  <1>3. /\ my.a \in AttemptIds /\ Started(my.a) /\ Fits(my) /\ Sound(my.a)
        /\ UNCHANGED <<runtime, evidence, git, lock, moves, failures>> /\ failures' \in Nat
    BY <1>1, <1>2, InHand, NaturalFailures DEF ProveCleanup
  <1>4. my.op \in Lands \cup {"close", "cleanup"} /\ (my.op \in Lands => LandFits(my))
    BY <1>2, <1>3 DEF Fits, OpsAt
  <1>5. Kept(my.a)
    <2>1. source[my.a].branch \in BOOLEAN /\ source[my.a].worktree \in BOOLEAN
      BY <1>3 DEF IInv, TypeOK
    <2>2. ~Refused(my.a)
      BY <1>1 DEF ProveCleanup
    <2>3. CASE source[my.a].branch
      BY <2>2, <2>3 DEF Refused, CleanupProven, Kept
    <2>4. CASE ~source[my.a].branch
      BY <1>3, <2>4 DEF Sound, AttemptSound
    <2> QED
      BY <2>3, <2>4
  <1>6. Goto(p, MovedTo(my, "remove", 0))
    BY <1>1 DEF ProveCleanup, Continue, MovedTo
  <1>7. ASSUME NEW job \in Locals, job.at = "remove", job.k = 0, Like(job, my)
        PROVE  Fits(job)
    <2>1. job.op = my.op /\ job.a = my.a
      BY <1>7 DEF Like
    <2>2. my.op \in Lands => LandFits(job)
      BY <1>2, <1>4, <1>7, <2>1 DEF LandFits, Like, Lands, Reached
    <2> QED
      BY <1>3, <1>4, <1>5, <1>7, <2>1, <2>2 DEF Fits, OpsAt, Lands
  <1>8. "remove" \in Inside /\ 0 \in 0 .. Complete
    BY DEF Inside, Stages
  <1> QED
    BY <1>1, <1>2, <1>3, <1>6, <1>7, <1>8, MoveStep

-----------------------------------------------------------------------------
(***************************************************************************)
(* The world around the commands.                                          *)
(***************************************************************************)
LEMMA SameRuntime ==
    ASSUME history' = history
    PROVE  /\ \A b \in AttemptIds : (Started(b)' <=> Started(b)) /\ OutcomeOf(b)' = OutcomeOf(b)
           /\ HistorySound => HistorySound'
  BY DEF Started, OutcomeOf, Attempts, HistorySound

\* A command cannot be disturbed where no attempt is.
LEMMA AttemptsUndisturbed ==
    ASSUME IInv, NEW q \in Procs, NEW my \in Locals, local[q] = my,
           \A b \in AttemptIds : Started(b) => Untouched(b)
    PROVE  Undisturbed(my)
  <1>1. CASE my = Idle
    BY <1>1, IdleFits DEF Undisturbed
  <1>2. CASE my # Idle
    <2>1. my.a \in AttemptIds /\ Started(my.a)
      BY <1>2, InHand
    <2> QED
      BY <2>1 DEF Untouched, Undisturbed
  <1> QED
    BY <1>1, <1>2

LEMMA StillStep ==
    ASSUME IInv, lock' = lock, local' = local, Shared', HistorySound', TargetSound', TargetGrows,
           \A b \in AttemptIds : Untouched(b)
    PROVE  IInv'
  <1>1. Shared /\ \A b \in AttemptIds : Sound(b)
    BY TypeParts DEF IInv
  <1>2. \A b \in AttemptIds : AdvancesAt(b) /\ Sound(b)'
    BY <1>1, UntouchedAdvances, UntouchedSound
  <1>3. ASSUME NEW q \in Procs
        PROVE  Undisturbed(local[q])
    <2>1. PICK my \in Locals : my = local[q]
      BY InHandFits
    <2>2. Undisturbed(my)
      BY <2>1, AttemptsUndisturbed
    <2> QED
      BY <2>1, <2>2
  <1> QED
    BY <1>2, <1>3, WorldStep

LEMMA MoveTaskStep ==
    ASSUME IInv, Cancel \/ Reopen
    PROVE  IInv'
  <1> USE DEF runtime, evidence, git
  <1>2. Shared
    BY TypeParts DEF IInv
  <1>3. PICK to \in {"planned", "canceled"} :
           /\ moves' = moves + 1 /\ status' = [status EXCEPT ![Task] = to]
           /\ UNCHANGED <<history, verdict, evidence, git, lock, local, failures>>
    BY DEF Cancel, Reopen, Moved
  <1>4. status' \in [{Task} -> {"planned", "in_progress", "blocked", "done", "canceled"}]
    BY <1>2, <1>3 DEF Shared
  <1>5. Shared'
    BY <1>2, <1>3, <1>4 DEF Shared
  <1>6. \A b \in AttemptIds : Untouched(b)
    BY <1>3, SameRuntime DEF Untouched
  <1>7. TargetGrows
    BY <1>3 DEF TargetGrows
  <1>8. HistorySound'
    BY <1>3, SameRuntime DEF IInv
  <1>9. TargetSound'
    BY <1>2, <1>3, <1>5, <1>6, UntouchedAdvances, TargetStays DEF IInv
  <1> QED
    BY <1>3, <1>5, <1>6, <1>7, <1>8, <1>9, StillStep

LEMMA ForeignCommitStep ==
    ASSUME IInv, ForeignCommit
    PROVE  IInv'
  <1> USE DEF runtime, evidence
  <1>1. Shared
    BY TypeParts DEF IInv
  <1>2. /\ UNCHANGED <<runtime, evidence, source, temp, made, lock, local, moves, failures>>
        /\ target' = Append(target, Foreign)
    BY DEF ForeignCommit
  <1>3. /\ target \in Seq(Commits) /\ Foreign \in Commits
    BY <1>1 DEF Shared, Commits
  <1>4. /\ target' \in Seq(Commits) /\ DOMAIN target' = 1 .. Len(target) + 1
        /\ \A i \in 1 .. Len(target) : target'[i] = target[i]
        /\ target'[Len(target) + 1] = Foreign
        /\ DOMAIN target = 1 .. Len(target) /\ Len(target) \in Nat
    BY ONLY <1>2, <1>3
  <1>5. Shared'
    BY <1>1, <1>2, <1>4 DEF Shared
  <1>6. \A b \in AttemptIds : Untouched(b)
    BY <1>2, SameRuntime DEF Untouched
  <1>7. TargetGrows
    BY <1>4 DEF TargetGrows
  <1>8. HistorySound'
    BY <1>2, SameRuntime DEF IInv
  <1>9. TargetSound'
    <2>1. ASSUME NEW i \in DOMAIN target', target'[i] # Foreign
          PROVE  i \in DOMAIN target /\ target'[i] = target[i]
      BY <1>4, <2>1
    <2>2. TargetSound
      BY DEF IInv
    <2> QED
      BY <1>2, <2>1, <2>2 DEF TargetSound, Foreign, Canonical
  <1> QED
    BY <1>2, <1>5, <1>6, <1>7, <1>8, <1>9, StillStep

LEMMA LandForeignStep ==
    ASSUME IInv, NEW p \in Procs, NEW a \in AttemptIds, LandForeign(p, a)
    PROVE  IInv'
  <1> USE DEF runtime, evidence
  <1>1. Shared
    BY TypeParts DEF IInv
  <1>2. /\ UNCHANGED <<runtime, evidence, target, source, made, lock, local, moves, failures>>
        /\ temp' = [temp EXCEPT ![a] = "none"]
    BY DEF LandForeign
  <1>3. temp' \in [AttemptIds -> {"none", "branch", "base", "commit"}]
    BY <1>1, <1>2 DEF Shared
  <1>4. \A b \in AttemptIds : temp'[b] \in {temp[b], "none"}
    BY <1>1, <1>2 DEF Shared
  <1>5. Shared'
    BY <1>1, <1>2, <1>3 DEF Shared
  <1>6. \A b \in AttemptIds : Untouched(b)
    BY <1>2, <1>4, SameRuntime DEF Untouched
  <1>7. TargetGrows
    BY <1>2 DEF TargetGrows
  <1>8. HistorySound'
    BY <1>2, SameRuntime DEF IInv
  <1>9. TargetSound'
    BY <1>1, <1>2, <1>5, <1>6, UntouchedAdvances, TargetStays DEF IInv
  <1> QED
    BY <1>2, <1>5, <1>6, <1>7, <1>8, <1>9, StillStep

\* The outcome an attempt of a history has, and histories without repetition.
OutcomeIn(s, b) == s[CHOOSE i \in DOMAIN s : s[i].id = b].outcome
Within(s, b) == \E i \in DOMAIN s : s[i].id = b
Distinct(s) == \A i, j \in DOMAIN s : s[i].id = s[j].id => i = j
Histories == Seq([id: AttemptIds, outcome: Outcomes])

LEMMA OutcomeAt ==
    ASSUME NEW s, Distinct(s), NEW i \in DOMAIN s
    PROVE  OutcomeIn(s, s[i].id) = s[i].outcome
  <1>1. PICK j : j = CHOOSE k \in DOMAIN s : s[k].id = s[i].id
    OBVIOUS
  <1>2. j \in DOMAIN s /\ s[j].id = s[i].id
    BY <1>1
  <1>3. j = i
    BY <1>2 DEF Distinct
  <1> QED
    BY <1>1, <1>3 DEF OutcomeIn

LEMMA HistoryIs ==
    ASSUME Shared, NEW b
    PROVE  /\ Attempts \in Histories
           /\ Started(b) <=> Within(Attempts, b)
           /\ OutcomeOf(b) = OutcomeIn(Attempts, b)
           /\ HistorySound <=> Distinct(Attempts)
  BY DEF Shared, Attempts, Started, Within, OutcomeOf, OutcomeIn, HistorySound, Distinct, Histories

WithAttempt(s, a) == Append(s, [id |-> a, outcome |-> "in_progress"])

LEMMA HistoryAppended ==
    ASSUME NEW s \in Histories, NEW r, Distinct(s), NEW a \in AttemptIds, ~Within(s, a),
           r = WithAttempt(s, a)
    PROVE  /\ r \in Histories /\ Distinct(r)
           /\ Within(r, a) /\ OutcomeIn(r, a) = "in_progress"
           /\ \A b : b # a => (Within(r, b) <=> Within(s, b))
           /\ \A b : Within(s, b) => OutcomeIn(r, b) = OutcomeIn(s, b)
  <1>1. PICK row : row = [id |-> a, outcome |-> "in_progress"]
    OBVIOUS
  <1>2. row \in [id: AttemptIds, outcome: Outcomes] /\ row.id = a /\ row.outcome = "in_progress"
    BY <1>1 DEF Outcomes
  <1>3. /\ r \in Histories /\ DOMAIN r = 1 .. Len(s) + 1 /\ DOMAIN s = 1 .. Len(s) /\ Len(s) \in Nat
        /\ \A i \in 1 .. Len(s) : r[i] = s[i]
        /\ r[Len(s) + 1] = row
    BY <1>1, <1>2 DEF Histories, WithAttempt
  <1>4. \A i \in DOMAIN s : s[i].id # a
    BY DEF Within
  <1>5. Distinct(r)
    <2> SUFFICES ASSUME NEW i \in DOMAIN r, NEW j \in DOMAIN r, r[i].id = r[j].id
                 PROVE  i = j
      BY DEF Distinct
    <2>1. (i \in DOMAIN s /\ r[i] = s[i]) \/ (i = Len(s) + 1 /\ r[i] = row)
      BY <1>3
    <2>2. (j \in DOMAIN s /\ r[j] = s[j]) \/ (j = Len(s) + 1 /\ r[j] = row)
      BY <1>3
    <2> QED
      BY <1>2, <1>4, <2>1, <2>2 DEF Distinct
  <1>6. Within(r, a) /\ OutcomeIn(r, a) = "in_progress"
    <2>1. Len(s) + 1 \in DOMAIN r /\ r[Len(s) + 1].id = a
      BY <1>2, <1>3
    <2>2. OutcomeIn(r, r[Len(s) + 1].id) = r[Len(s) + 1].outcome
      BY <1>5, <2>1, OutcomeAt
    <2> QED
      BY <1>2, <1>3, <2>1, <2>2 DEF Within
  <1>7. ASSUME NEW b, b # a
        PROVE  Within(r, b) <=> Within(s, b)
    <2>1. ASSUME NEW i \in DOMAIN r, r[i].id = b
          PROVE  i \in DOMAIN s /\ s[i].id = b
      BY <1>2, <1>3, <1>7, <2>1
    <2>2. \A i \in DOMAIN s : i \in DOMAIN r /\ r[i] = s[i]
      BY <1>3
    <2> QED
      BY <2>1, <2>2 DEF Within
  <1>8. ASSUME NEW b, Within(s, b)
        PROVE  OutcomeIn(r, b) = OutcomeIn(s, b)
    <2>1. PICK i \in DOMAIN s : s[i].id = b
      BY <1>8 DEF Within
    <2>2. i \in DOMAIN r /\ r[i] = s[i]
      BY <1>3
    <2>3. OutcomeIn(s, s[i].id) = s[i].outcome /\ OutcomeIn(r, r[i].id) = r[i].outcome
      BY <1>5, <2>2, OutcomeAt
    <2> QED
      BY <2>1, <2>2, <2>3
  <1> QED
    BY <1>3, <1>5, <1>6, <1>7, <1>8

WithOutcome(s, i, outcome) == [s EXCEPT ![i].outcome = outcome]

LEMMA HistoryFinished ==
    ASSUME NEW s \in Histories, NEW r, Distinct(s), NEW i \in DOMAIN s,
           NEW outcome \in Outcomes, r = WithOutcome(s, i, outcome)
    PROVE  /\ r \in Histories /\ Distinct(r)
           /\ OutcomeIn(r, s[i].id) = outcome
           /\ \A b : Within(r, b) <=> Within(s, b)
           /\ \A b : Within(s, b) /\ b # s[i].id => OutcomeIn(r, b) = OutcomeIn(s, b)
  <1>1. PICK row : row = [s[i] EXCEPT !.outcome = outcome]
    OBVIOUS
  <1>2. s[i] \in [id: AttemptIds, outcome: Outcomes]
    <2>1. PICK R : R = [id: AttemptIds, outcome: Outcomes]
      OBVIOUS
    <2>2. s \in Seq(R)
      BY ONLY <2>1, s \in Histories DEF Histories
    <2>3. s[i] \in R
      BY ONLY <2>2, i \in DOMAIN s
    <2> QED
      BY ONLY <2>1, <2>3
  <1>3. row \in [id: AttemptIds, outcome: Outcomes] /\ row.id = s[i].id /\ row.outcome = outcome
    BY ONLY <1>1, <1>2, outcome \in Outcomes
  <1>4. r = [s EXCEPT ![i] = row]
    BY ONLY <1>1, r = WithOutcome(s, i, outcome) DEF WithOutcome
  <1>5. /\ r \in Histories /\ DOMAIN r = DOMAIN s
        /\ \A j \in DOMAIN s : r[j] = IF j = i THEN row ELSE s[j]
    <2>1. PICK R : R = [id: AttemptIds, outcome: Outcomes]
      OBVIOUS
    <2>2. s \in Seq(R) /\ row \in R
      BY ONLY <1>3, <2>1, s \in Histories DEF Histories
    <2>3. /\ r \in Seq(R) /\ DOMAIN r = DOMAIN s
          /\ \A j \in DOMAIN s : r[j] = IF j = i THEN row ELSE s[j]
      BY ONLY <1>4, <2>2, i \in DOMAIN s
    <2> QED
      BY ONLY <2>1, <2>3 DEF Histories
  <1>6. \A j \in DOMAIN s : r[j].id = s[j].id
    BY <1>3, <1>5
  <1>7. Distinct(r)
    BY <1>5, <1>6 DEF Distinct
  <1>8. OutcomeIn(r, s[i].id) = outcome
    <2>1. OutcomeIn(r, r[i].id) = r[i].outcome
      BY <1>5, <1>7, OutcomeAt
    <2> QED
      BY <1>3, <1>5, <1>6, <2>1
  <1>9. \A b : Within(r, b) <=> Within(s, b)
    BY <1>5, <1>6 DEF Within
  <1>10. ASSUME NEW b, Within(s, b), b # s[i].id
         PROVE  OutcomeIn(r, b) = OutcomeIn(s, b)
    <2>1. PICK j \in DOMAIN s : s[j].id = b
      BY <1>10 DEF Within
    <2>2. j \in DOMAIN r /\ r[j] = s[j]
      BY <1>5, <1>10, <2>1
    <2>3. OutcomeIn(s, s[j].id) = s[j].outcome /\ OutcomeIn(r, r[j].id) = r[j].outcome
      BY <1>7, <2>2, OutcomeAt
    <2> QED
      BY <2>1, <2>2, <2>3
  <1> QED
    BY <1>5, <1>7, <1>8, <1>9, <1>10

LEMMA HistoryBecomes ==
    ASSUME Shared', NEW b
    PROVE  /\ Started(b)' <=> Within(Attempts', b)
           /\ OutcomeOf(b)' = OutcomeIn(Attempts', b)
           /\ HistorySound' <=> Distinct(Attempts')
  BY DEF Attempts, Started, Within, OutcomeOf, OutcomeIn, HistorySound, Distinct

LEMMA BeginStep ==
    ASSUME IInv, NEW a \in AttemptIds, Begin(a)
    PROVE  IInv'
  <1> USE DEF evidence
  <1>1. Shared /\ Sound(a) /\ HistorySound
    BY TypeParts DEF IInv
  <1>2. /\ status' = [status EXCEPT ![Task] = "in_progress"] /\ verdict' = verdict
        /\ source' = [source EXCEPT ![a] = [commits |-> 0, branch |-> TRUE, worktree |-> TRUE]]
        /\ UNCHANGED <<rows, tx, landEvents, target, temp, made, lock, local, moves, failures>>
    BY DEF Begin, Runtime!AbsStart
  <1>3. /\ ~Started(a)
        /\ history' = [history EXCEPT ![Task] = Append(@, [id |-> a, outcome |-> "in_progress"])]
    BY DEF Begin, Runtime!AbsStart, Runtime!Attempted, Started, Attempts
  <1>4. PICK s : s = Attempts
    OBVIOUS
  <1>5. PICK r : r = WithAttempt(s, a)
    OBVIOUS
  <1>6. history \in [{Task} -> Histories] /\ s \in Histories /\ Distinct(s) /\ ~Within(s, a)
    BY <1>1, <1>3, <1>4, HistoryIs DEF Shared, Histories
  <1>7. history' = [history EXCEPT ![Task] = r] /\ Attempts' = r
    BY <1>3, <1>4, <1>5, <1>6 DEF Attempts, WithAttempt
  <1>8. /\ r \in Histories /\ Distinct(r)
        /\ Within(r, a) /\ OutcomeIn(r, a) = "in_progress"
        /\ \A b : b # a => (Within(r, b) <=> Within(s, b))
        /\ \A b : Within(s, b) => OutcomeIn(r, b) = OutcomeIn(s, b)
    <2>1. s \in Histories /\ Distinct(s) /\ ~Within(s, a)
      BY <1>6
    <2> QED
      BY ONLY <1>5, <2>1, a \in AttemptIds, HistoryAppended
  <1>9. Shared'
    <2>1. history' \in [{Task} -> Histories]
      BY <1>6, <1>7, <1>8
    <2>2. status' \in [{Task} -> {"planned", "in_progress", "blocked", "done", "canceled"}]
      BY <1>1, <1>2 DEF Shared
    <2>3. source' \in [AttemptIds -> [commits: Nat, branch: BOOLEAN, worktree: BOOLEAN]]
      <3>1. source \in [AttemptIds -> [commits: Nat, branch: BOOLEAN, worktree: BOOLEAN]]
        BY <1>1 DEF Shared
      <3> QED
        BY ONLY <1>2, <3>1
    <2> QED
      BY <1>1, <1>2, <2>1, <2>2, <2>3 DEF Shared, Histories
  <1>10. HistorySound' /\ Started(a)' /\ OutcomeOf(a)' = "in_progress"
    BY <1>7, <1>8, <1>9, HistoryBecomes
  <1>11. source'[a].branch /\ \A b \in AttemptIds : b # a => source'[b] = source[b]
    BY <1>1, <1>2 DEF Shared
  <1>12. ASSUME NEW b \in AttemptIds, b # a
         PROVE  Untouched(b)
    <2>1. (Started(b)' <=> Started(b)) /\ (Started(b) => OutcomeOf(b)' = OutcomeOf(b))
      BY <1>1, <1>4, <1>7, <1>8, <1>9, <1>12, HistoryIs, HistoryBecomes
    <2> QED
      BY <1>2, <1>11, <1>12, <2>1 DEF Untouched
  <1>13. /\ tx[a].phase = 0 /\ tx[a].abort = 0 /\ ~HasIntent(a) /\ tx[a].canonical = 0
         /\ verdict[a] = None /\ a \notin landEvents
    BY <1>1, <1>3, TxFields DEF Sound, TransactionSound, AttemptSound, AbortSeen
  <1>14. Sound(a)'
    <2>1. Shape(a)'
      BY <1>1, <1>2 DEF Sound, Shape
    <2>2. TransactionSound(a)'
      BY <1>2, <1>13 DEF TransactionSound, HasIntent, AbortSeen
    <2>3. AttemptSound(a)'
      BY <1>1, <1>2, <1>10, <1>11, <1>13 DEF Sound, AttemptSound
    <2> QED
      BY <2>1, <2>2, <2>3 DEF Sound
  <1>15. TargetGrows
    BY <1>2 DEF TargetGrows
  <1>16. \A b \in AttemptIds : AdvancesAt(b) /\ Sound(b)'
    <2>1. AdvancesAt(a)
      BY <1>1, <1>2, <1>3, <1>13, TxFields DEF AdvancesAt, Shared
    <2> QED
      BY <1>1, <1>12, <1>14, <1>15, <2>1, UntouchedAdvances, UntouchedSound DEF IInv
  <1>17. TargetSound'
    BY <1>1, <1>2, <1>9, <1>16, TargetStays DEF IInv
  <1>18. ASSUME NEW q \in Procs
         PROVE  Undisturbed(local[q])
    <2>1. PICK my \in Locals : my = local[q]
      BY InHandFits
    <2>2. Undisturbed(my)
      BY <1>3, <1>12, <2>1, AttemptsUndisturbed
    <2> QED
      BY <2>1, <2>2
  <1> QED
    BY <1>2, <1>9, <1>10, <1>15, <1>16, <1>17, <1>18, WorldStep

LEMMA AgentCommitStep ==
    ASSUME IInv, NEW a \in AttemptIds, AgentCommit(a)
    PROVE  IInv'
  <1> USE DEF evidence, runtime
  <1>1. Shared /\ Sound(a) /\ HistorySound
    BY TypeParts DEF IInv
  <1>2. /\ source' = [source EXCEPT ![a].commits = @ + 1] /\ source[a].worktree
        /\ UNCHANGED <<runtime, rows, tx, landEvents, target, temp, made, lock, local, moves, failures>>
    BY DEF AgentCommit
  <1>3. PICK work : work = [source[a] EXCEPT !.commits = @ + 1]
    OBVIOUS
  <1>4. /\ work \in [commits: Nat, branch: BOOLEAN, worktree: BOOLEAN]
        /\ work.branch = source[a].branch /\ work.worktree = source[a].worktree
    <2>1. source[a] \in [commits: Nat, branch: BOOLEAN, worktree: BOOLEAN]
      BY <1>1 DEF Shared
    <2> QED
      BY ONLY <1>3, <2>1
  <1>5. source' = [source EXCEPT ![a] = work]
    BY ONLY <1>2, <1>3
  <1>6. /\ source' \in [AttemptIds -> [commits: Nat, branch: BOOLEAN, worktree: BOOLEAN]]
        /\ source'[a].branch = source[a].branch /\ source'[a].worktree = source[a].worktree
        /\ \A b \in AttemptIds : b # a => source'[b] = source[b]
    <2>1. source \in [AttemptIds -> [commits: Nat, branch: BOOLEAN, worktree: BOOLEAN]]
      BY <1>1 DEF Shared
    <2> QED
      BY ONLY <1>4, <1>5, <2>1, a \in AttemptIds
  <1>7. Shared'
    BY <1>1, <1>2, <1>6 DEF Shared
  <1>8. \A b \in AttemptIds : b # a => Untouched(b)
    BY <1>2, <1>6, SameRuntime DEF Untouched
  <1>9. HistorySound' /\ (Started(a)' <=> Started(a)) /\ OutcomeOf(a)' = OutcomeOf(a)
    BY <1>1, <1>2, SameRuntime
  <1>10. TargetGrows
    BY <1>2 DEF TargetGrows
  <1>11. AdvancesAt(a)
    <2>1. tx[a].phase \in 0 .. Complete /\ tx[a].abort \in 0 .. AbortComplete /\ made[a] \in Nat
      BY <1>1, TxFields DEF Shared
    <2>2. tx[a].phase >= tx[a].phase /\ tx[a].abort >= tx[a].abort /\ made[a] >= made[a]
      BY <2>1
    <2> QED
      BY <1>2, <1>6, <1>9, <2>2 DEF AdvancesAt
  <1>12. Sound(a)'
    <2>1. Shape(a)'
      BY <1>1, <1>2 DEF Sound, Shape
    <2>2. TransactionSound(a)'
      <3>1. (Gone(a)' <=> Gone(a)) /\ (Landed(a)' <=> Landed(a)) /\ (HasIntent(a)' <=> HasIntent(a))
            /\ (AbortSeen(a)' <=> AbortSeen(a))
        BY <1>2, <1>6 DEF Gone, Landed, OnTarget, HasIntent, AbortSeen
      <3>2. TransactionSound(a)
        BY <1>1 DEF Sound
      <3> QED
        BY <1>2, <1>9, <3>1, <3>2 DEF TransactionSound
    <2>3. AttemptSound(a)'
      <3>1. AttemptSound(a)
        BY <1>1 DEF Sound
      <3>2. ~Gone(a)
        BY <1>2 DEF Gone
      <3> QED
        BY <1>2, <1>6, <1>9, <3>1, <3>2 DEF AttemptSound
    <2> QED
      BY <2>1, <2>2, <2>3 DEF Sound
  <1>13. \A b \in AttemptIds : AdvancesAt(b) /\ Sound(b)'
    BY <1>1, <1>8, <1>10, <1>11, <1>12, UntouchedAdvances, UntouchedSound DEF IInv
  <1>14. TargetSound'
    BY <1>1, <1>2, <1>7, <1>13, TargetStays DEF IInv
  <1>15. ASSUME NEW q \in Procs
         PROVE  Undisturbed(local[q])
    <2>1. PICK my \in Locals : my = local[q]
      BY InHandFits
    <2>2. CASE my = Idle
      BY <2>1, <2>2, IdleFits DEF Undisturbed
    <2>3. CASE my # Idle
      <3>1. my.a \in AttemptIds
        BY <2>3, JobAttempt
      <3>2. my.a = a => my.at \notin {"remove", "branch"}
        BY <2>1, <2>3 DEF AgentCommit, Engaged
      <3>3. Undisturbed(my)
        BY <1>2, <1>6, <3>1, <3>2 DEF Undisturbed
      <3> QED
        BY <2>1, <3>3
    <2> QED
      BY <2>2, <2>3
  <1> QED
    BY <1>2, <1>7, <1>9, <1>10, <1>13, <1>14, <1>15, WorldStep

-----------------------------------------------------------------------------
(***************************************************************************)
(* The temporary worktree and the canonical commit.                        *)
(***************************************************************************)
LEMMA TempSound ==
    ASSUME NEW a \in AttemptIds, Sound(a), UNCHANGED <<runtime, evidence, target, source>>,
           tx[a].phase < TemporaryCleaned, tx[a].phase \in 0 .. Complete,
           temp'[a] = "commit" => made'[a] >= 1
    PROVE  Sound(a)'
  <1> USE DEF runtime, evidence
  <1>1. Shape(a)'
    BY DEF Sound, Shape
  <1>2. /\ (Gone(a)' <=> Gone(a)) /\ (Landed(a)' <=> Landed(a)) /\ (HasIntent(a)' <=> HasIntent(a))
        /\ (AbortSeen(a)' <=> AbortSeen(a)) /\ (Kept(a)' <=> Kept(a))
        /\ (Started(a)' <=> Started(a)) /\ OutcomeOf(a)' = OutcomeOf(a)
    BY DEF Gone, Landed, OnTarget, HasIntent, AbortSeen, Kept, Started, OutcomeOf, Attempts
  <1>3. TransactionSound(a)'
    <2>1. TransactionSound(a)
      BY DEF Sound
    <2>2. ~(tx[a].phase >= TemporaryCleaned)
      OBVIOUS
    <2> QED
      BY <1>2, <2>1, <2>2 DEF TransactionSound
  <1>4. AttemptSound(a)'
    BY <1>2 DEF Sound, AttemptSound
  <1> QED
    BY <1>1, <1>3, <1>4 DEF Sound

LEMMA TempStep ==
    ASSUME IInv, NEW p \in Procs, NEW my \in Locals, my = local[p], my # Idle, Section(my),
           NEW job \in Locals, Goto(p, job), LockMoves(p, job),
           NEW a \in AttemptIds, my.a = a,
           UNCHANGED <<runtime, evidence, target, source, moves, failures>>,
           tx[a].phase < TemporaryCleaned,
           NEW left \in {"none", "branch", "base", "commit"}, temp' = [temp EXCEPT ![a] = left],
           NEW n \in Nat, n >= made[a], made' = [made EXCEPT ![a] = n],
           left = "commit" => n >= 1, Fits(job)'
    PROVE  IInv'
  <1> USE DEF runtime, evidence
  <1>1. Shared /\ Sound(a) /\ tx[a].phase \in 0 .. Complete /\ tx[a].abort \in 0 .. AbortComplete
    BY InHand
  <1>2. /\ temp' \in [AttemptIds -> {"none", "branch", "base", "commit"}] /\ temp'[a] = left
        /\ made' \in [AttemptIds -> Nat] /\ made'[a] = n
        /\ \A b \in AttemptIds \ {a} : temp'[b] = temp[b] /\ made'[b] = made[b]
    BY <1>1 DEF Shared
  <1>3. Shared'
    BY <1>1, <1>2 DEF Shared
  <1>4. Sound(a)'
    BY <1>1, <1>2, TempSound
  <1>5. \A b \in AttemptIds \ {a} : Untouched(b)
    BY <1>2, SameRuntime DEF Untouched
  <1>6. TargetGrows
    BY DEF TargetGrows
  <1>7. AdvancesAt(a)
    <2>1. tx[a].phase >= tx[a].phase /\ tx[a].abort >= tx[a].abort
      BY <1>1
    <2> QED
      BY <1>2, <2>1, SameRuntime DEF AdvancesAt
  <1>8. HistorySound'
    BY SameRuntime DEF IInv
  <1>9. TargetSound'
    BY <1>1, <1>3, <1>5, <1>7, UntouchedAdvances, TargetStays DEF IInv
  <1>10. source'[a].commits = source[a].commits
    OBVIOUS
  <1> QED
    BY <1>3, <1>4, <1>5, <1>6, <1>7, <1>8, <1>9, <1>10, EffectStep

\* The facts a landing stage starts from.
LEMMA LandStage ==
    ASSUME IInv, NEW p \in Procs, NEW my \in Locals, my = local[p],
           my.at \in {"temp_add", "commit", "verify", "target", "land_event"}
    PROVE  /\ my.at \in Inside /\ my # Idle /\ my.op \in Lands /\ Section(my) /\ LandFits(my)
           /\ my.op \notin {"close", "recover", "abort"}
           /\ tx[my.a].phase = Reached(my.at) /\ my.intent = tx[my.a].intent /\ my.intent \in Intents
  <1>1. my.at \in Inside /\ my.at \in Stages /\ my # Idle
    BY DEF Inside, Stages, Idle
  <1>2. my.op \in Lands
    BY <1>1, InHandFits DEF Fits, OpsAt
  <1>3. LandFits(my)
    BY <1>1, <1>2, InHandFits DEF Fits
  <1> QED
    BY <1>1, <1>2, <1>3 DEF Section, Inside, Lands, LandFits

LEMMA TempAddStep ==
    ASSUME IInv, NEW p \in Procs, TempAdd(p)
    PROVE  IInv'
  <1>1. PICK my \in Locals : my = local[p]
    BY InHandFits
  <1>2. my.at = "temp_add"
    BY <1>1 DEF TempAdd, At
  <1>3. /\ my.at \in Inside /\ my # Idle /\ my.op \in Lands /\ Section(my) /\ LandFits(my)
        /\ my.op \notin {"close", "recover"}
        /\ tx[my.a].phase = SourcePrepared /\ my.intent = tx[my.a].intent /\ my.intent \in Intents
    BY <1>1, <1>2, LandStage DEF Reached
  <1>4. PICK a \in AttemptIds : a = my.a
    BY <1>1, <1>3, InHand
  <1>5. /\ Started(a) /\ Shared /\ Sound(a)
    BY <1>1, <1>3, <1>4, InHand
  <1>6. PICK left : left = IF temp[a] = "none" THEN "base" ELSE temp[a]
    OBVIOUS
  <1>7. PICK at : at = IF temp[a] = "commit" THEN "verify" ELSE "commit"
    OBVIOUS
  <1>8. /\ UNCHANGED <<runtime, evidence, target, source, made, lock, moves, failures>>
        /\ temp' = [temp EXCEPT ![a] = left] /\ Goto(p, MovedTo(my, at, 0))
    BY <1>1, <1>4, <1>6, <1>7 DEF TempAdd, Continue, MovedTo
  <1>9. at \in Inside /\ 0 \in 0 .. Complete
    BY <1>7 DEF Inside, Stages
  <1>10. PICK job \in Locals : /\ job = MovedTo(my, at, 0)
                               /\ job.at = at /\ job.k = 0 /\ Like(job, my) /\ LockMoves(p, job)
    BY <1>1, <1>3, <1>8, <1>9, MovedJob
  <1>11. left \in {"none", "branch", "base", "commit"} /\ (left = "commit" => temp[a] = "commit")
    BY <1>5, <1>6 DEF Shared
  <1>12. PICK n \in Nat : n = made[a]
    BY <1>5 DEF Shared
  <1>13. temp[a] = "commit" => n >= 1
    BY <1>5, <1>12 DEF Sound, AttemptSound
  <1>14. made' = [made EXCEPT ![a] = n] /\ n >= made[a]
    BY <1>5, <1>8, <1>12 DEF Shared
  <1>15. Fits(job)'
    <2>1. job.op = my.op /\ job.a = a /\ job.intent = my.intent /\ tx' = tx /\ made' = made
          /\ (Started(a)' <=> Started(a))
      BY <1>3, <1>4, <1>8, <1>10, SameRuntime DEF Like, evidence, runtime
    <2>2. LandFits(job)'
      BY <1>3, <1>4, <1>7, <1>10, <1>12, <1>13, <2>1 DEF LandFits, Reached
    <2> QED
      BY <1>3, <1>5, <1>7, <1>10, <2>1, <2>2 DEF Fits, OpsAt, Lands
  <1>16. tx[a].phase < TemporaryCleaned
    BY <1>3, <1>4
  <1>17. Goto(p, job) /\ (left = "commit" => n >= 1)
    BY <1>8, <1>10, <1>11, <1>13
  <1> QED
    BY <1>1, <1>3, <1>4, <1>8, <1>10, <1>11, <1>14, <1>15, <1>16, <1>17, TempStep

LEMMA MakeCommitStep ==
    ASSUME IInv, NEW p \in Procs, MakeCommit(p)
    PROVE  IInv'
  <1>1. PICK my \in Locals : my = local[p]
    BY InHandFits
  <1>2. my.at = "commit"
    BY <1>1 DEF MakeCommit, At
  <1>3. /\ my.at \in Inside /\ my # Idle /\ my.op \in Lands /\ Section(my) /\ LandFits(my)
        /\ my.op \notin {"close", "recover"}
        /\ tx[my.a].phase = SourcePrepared /\ my.intent = tx[my.a].intent /\ my.intent \in Intents
    BY <1>1, <1>2, LandStage DEF Reached
  <1>4. PICK a \in AttemptIds : a = my.a
    BY <1>1, <1>3, InHand
  <1>5. Started(a) /\ Shared
    BY <1>1, <1>3, <1>4, InHand
  <1>6. PICK n : n = made[a] + 1
    OBVIOUS
  <1>7. n \in Nat /\ n >= made[a] /\ n >= 1
    BY <1>5, <1>6 DEF Shared
  <1>8. /\ UNCHANGED <<runtime, evidence, target, source, lock, moves, failures>>
        /\ temp' = [temp EXCEPT ![a] = "commit"] /\ made' = [made EXCEPT ![a] = n]
        /\ Goto(p, MovedTo(my, "verify", 0))
    BY <1>1, <1>4, <1>6 DEF MakeCommit, Continue, MovedTo
  <1>9. "verify" \in Inside /\ 0 \in 0 .. Complete
    BY DEF Inside, Stages
  <1>10. PICK job \in Locals : /\ job = MovedTo(my, "verify", 0)
                               /\ job.at = "verify" /\ job.k = 0 /\ Like(job, my) /\ LockMoves(p, job)
    BY <1>1, <1>3, <1>8, <1>9, MovedJob
  <1>11. Fits(job)'
    <2>1. job.op = my.op /\ job.a = a /\ job.intent = my.intent /\ tx' = tx /\ made'[a] >= 1
          /\ (Started(a)' <=> Started(a))
      BY <1>3, <1>4, <1>5, <1>7, <1>8, <1>10, SameRuntime DEF Like, evidence, runtime, Shared
    <2>2. LandFits(job)'
      BY <1>3, <1>4, <1>10, <2>1 DEF LandFits, Reached
    <2> QED
      BY <1>3, <1>5, <1>10, <2>1, <2>2 DEF Fits, OpsAt, Lands
  <1>12. tx[a].phase < TemporaryCleaned /\ Goto(p, job)
    BY <1>3, <1>4, <1>8, <1>10
  <1> QED
    BY <1>1, <1>3, <1>4, <1>7, <1>8, <1>10, <1>11, <1>12, TempStep

-----------------------------------------------------------------------------
(***************************************************************************)
(* The target branch, the land event, and the removal of the temporary     *)
(* worktree and of the workspace.                                          *)
(***************************************************************************)
LEMMA UpdateTargetStep ==
    ASSUME IInv, NEW p \in Procs, UpdateTarget(p)
    PROVE  IInv'
  <1> USE DEF runtime, evidence
  <1>1. PICK my \in Locals : my = local[p]
    BY InHandFits
  <1>2. my.at = "target"
    BY <1>1 DEF UpdateTarget, At
  <1>3. /\ my.at \in Inside /\ my # Idle /\ my.op \in Lands /\ Section(my) /\ LandFits(my)
        /\ my.op \notin {"close", "recover"}
        /\ tx[my.a].phase = CanonicalCreated /\ my.intent = tx[my.a].intent /\ my.intent \in Intents
    BY <1>1, <1>2, LandStage DEF Reached
  <1>4. PICK a \in AttemptIds : a = my.a
    BY <1>1, <1>3, InHand
  <1>5. Started(a) /\ Shared /\ Sound(a) /\ tx[a].canonical \in Nat /\ TargetSound
    BY <1>1, <1>3, <1>4, InHand DEF IInv
  <1>6. PICK commit : commit = Canonical(a, tx[a].canonical)
    OBVIOUS
  <1>7. /\ UNCHANGED <<runtime, evidence, source, temp, made, lock, moves, failures>>
        /\ Goto(p, MovedTo(my, "record", TargetUpdated))
        /\ \/ Len(target) = tx[a].intent.base /\ target' = Append(target, commit)
           \/ OnTarget(commit) /\ target' = target
    BY <1>1, <1>3, <1>4, <1>6 DEF UpdateTarget, ToRecord, MovedTo
  <1>8. commit \in Commits /\ commit.of = a /\ commit = Canonical(a, tx[a].canonical)
    BY <1>5, <1>6 DEF Canonical, Commits
  <1>9. \A b \in AttemptIds : Untouched(b)
    BY <1>7, SameRuntime DEF Untouched
  <1>10. target' \in Seq(Commits) /\ TargetGrows /\ OnTarget(commit)' /\ TargetSound'
    <2>1. CASE Len(target) = tx[a].intent.base /\ target' = Append(target, commit)
      <3>1. target \in Seq(Commits)
        BY <1>5 DEF Shared
      <3>2. /\ target' \in Seq(Commits) /\ DOMAIN target' = 1 .. Len(target) + 1
            /\ \A i \in 1 .. Len(target) : target'[i] = target[i]
            /\ target'[Len(target) + 1] = commit
            /\ DOMAIN target = 1 .. Len(target) /\ Len(target) \in Nat
        BY ONLY <1>8, <2>1, <3>1
      <3>3. TargetGrows
        BY <3>2 DEF TargetGrows
      <3>4. OnTarget(commit)'
        BY <3>2 DEF OnTarget
      <3>5. ASSUME NEW i \in DOMAIN target', target'[i] # Foreign
            PROVE  /\ target'[i].of \in AttemptIds
                   /\ tx[target'[i].of].phase >= CanonicalCreated
                   /\ target'[i] = Canonical(target'[i].of, tx[target'[i].of].canonical)
                   /\ i = tx[target'[i].of].intent.base + 1
        <4>1. CASE i \in DOMAIN target
          BY <1>5, <3>2, <3>5, <4>1 DEF TargetSound
        <4>2. CASE i = Len(target) + 1
          <5>1. target'[i] = commit /\ target'[i].of = a
            BY <1>8, <3>2, <4>2
          <5> QED
            BY <1>3, <1>4, <1>8, <2>1, <4>2, <5>1
        <4> QED
          BY <3>2, <4>1, <4>2
      <3>6. TargetSound'
        BY <1>7, <3>5 DEF TargetSound, Foreign, Canonical
      <3> QED
        BY <3>2, <3>3, <3>4, <3>6
    <2>2. CASE OnTarget(commit) /\ target' = target
      <3>1. target' \in Seq(Commits)
        BY <1>5, <2>2 DEF Shared
      <3>2. TargetSound'
        BY <1>5, <1>7, <2>2 DEF TargetSound, Foreign, Canonical
      <3> QED
        BY <2>2, <3>1, <3>2 DEF TargetGrows, OnTarget
    <2> QED
      BY <1>7, <2>1, <2>2
  <1>11. Shared'
    BY <1>5, <1>7, <1>10 DEF Shared
  <1>12. AdvancesAt(a) /\ Sound(a)'
    BY <1>5, <1>9, <1>10, UntouchedAdvances, UntouchedSound
  <1>13. HistorySound'
    BY <1>7, SameRuntime DEF IInv
  <1>14. "record" \in Inside /\ TargetUpdated \in 0 .. Complete
    BY DEF Inside, Stages
  <1>15. ASSUME NEW job \in Locals, job.at = "record", job.k = TargetUpdated, Like(job, my)
         PROVE  Fits(job)'
    <2>1. job.op = my.op /\ job.a = a /\ job.intent = my.intent /\ tx' = tx
          /\ (Started(a)' <=> Started(a))
      BY <1>3, <1>4, <1>7, <1>15, SameRuntime DEF Like
    <2>2. tx[a].canonical > 0
      BY <1>3, <1>4, <1>5 DEF Sound, TransactionSound
    <2>3. Landed(a)'
      BY <1>6, <1>7, <1>10, <2>2 DEF Landed, Canonical, OnTarget
    <2>4. Due(job)'
      BY <1>15, <2>1, <2>3 DEF Due
    <2>5. LandFits(job)'
      BY <1>3, <1>4, <1>15, <2>1, <2>4 DEF LandFits
    <2> QED
      BY <1>3, <1>5, <1>15, <2>1, <2>5 DEF Fits, OpsAt, Lands
  <1>16. source'[a].commits = source[a].commits
    BY <1>7
  <1> QED
    BY <1>1, <1>3, <1>4, <1>7, <1>9, <1>10, <1>11, <1>12, <1>13, <1>14, <1>15, <1>16, MoveEffect

LEMMA LandEventStep ==
    ASSUME IInv, NEW p \in Procs, LandEvent(p)
    PROVE  IInv'
  <1> USE DEF runtime, git
  <1>1. PICK my \in Locals : my = local[p]
    BY InHandFits
  <1>2. my.at = "land_event"
    BY <1>1 DEF LandEvent, At
  <1>3. /\ my.at \in Inside /\ my # Idle /\ my.op \in Lands /\ Section(my) /\ LandFits(my)
        /\ my.op \notin {"close", "recover"}
        /\ tx[my.a].phase = RuntimeFinalized /\ my.intent = tx[my.a].intent /\ my.intent \in Intents
    BY <1>1, <1>2, LandStage DEF Reached
  <1>4. PICK a \in AttemptIds : a = my.a
    BY <1>1, <1>3, InHand
  <1>5. Started(a) /\ Shared /\ Sound(a) /\ TargetSound /\ OutcomeOf(a) = "success"
    BY <1>1, <1>3, <1>4, InHand DEF IInv, Sound, TransactionSound
  <1>6. /\ UNCHANGED <<runtime, rows, tx, git, lock, moves, failures>>
        /\ landEvents' = landEvents \cup {a}
        /\ Goto(p, MovedTo(my, "record", LandEventRecorded))
    BY <1>1, <1>4 DEF LandEvent, ToRecord, MovedTo
  <1>7. Shared'
    BY <1>5, <1>6 DEF Shared
  <1>8. \A b \in AttemptIds \ {a} : Untouched(b)
    BY <1>6, SameRuntime DEF Untouched
  <1>9. TargetGrows
    BY <1>6 DEF TargetGrows
  <1>10. HistorySound' /\ (Started(a)' <=> Started(a)) /\ OutcomeOf(a)' = OutcomeOf(a)
    BY <1>6, SameRuntime DEF IInv
  <1>11. AdvancesAt(a)
    <2>1. tx[a].phase \in 0 .. Complete /\ tx[a].abort \in 0 .. AbortComplete /\ made[a] \in Nat
      BY <1>5, TxFields DEF Shared
    <2>2. tx[a].phase >= tx[a].phase /\ tx[a].abort >= tx[a].abort /\ made[a] >= made[a]
      BY <2>1
    <2> QED
      BY <1>6, <1>10, <2>2 DEF AdvancesAt
  <1>12. Sound(a)'
    <2>1. Shape(a)'
      BY <1>5, <1>6 DEF Sound, Shape
    <2>2. /\ (Gone(a)' <=> Gone(a)) /\ (Landed(a)' <=> Landed(a)) /\ (HasIntent(a)' <=> HasIntent(a))
          /\ (AbortSeen(a)' <=> AbortSeen(a)) /\ (Kept(a)' <=> Kept(a))
      BY <1>6 DEF Gone, Landed, OnTarget, HasIntent, AbortSeen, Kept
    <2>3. TransactionSound(a)'
      BY <1>5, <1>6, <1>10, <2>2 DEF Sound, TransactionSound
    <2>4. AttemptSound(a)'
      BY <1>5, <1>6, <1>10, <2>2 DEF Sound, AttemptSound
    <2> QED
      BY <2>1, <2>3, <2>4 DEF Sound
  <1>13. TargetSound'
    BY <1>5, <1>6, <1>7, <1>8, <1>11, UntouchedAdvances, TargetStays
  <1>14. "record" \in Inside /\ LandEventRecorded \in 0 .. Complete
    BY DEF Inside, Stages
  <1>15. ASSUME NEW job \in Locals, job.at = "record", job.k = LandEventRecorded, Like(job, my)
         PROVE  Fits(job)'
    <2>1. job.op = my.op /\ job.a = a /\ job.intent = my.intent
      BY <1>3, <1>4, <1>15 DEF Like
    <2>2. Due(job)'
      BY <1>6, <1>15, <2>1 DEF Due
    <2>3. LandFits(job)'
      BY <1>3, <1>4, <1>6, <1>15, <2>1, <2>2 DEF LandFits
    <2> QED
      BY <1>3, <1>5, <1>10, <1>15, <2>1, <2>3 DEF Fits, OpsAt, Lands
  <1>16. source'[a].commits = source[a].commits
    BY <1>6
  <1> QED
    BY <1>1, <1>3, <1>4, <1>6, <1>7, <1>8, <1>9, <1>10, <1>11, <1>12, <1>13, <1>14, <1>15, <1>16,
       MoveEffect

LEMMA TempRemoveStep ==
    ASSUME IInv, NEW p \in Procs, TempRemove(p)
    PROVE  IInv'
  <1> USE DEF runtime, evidence
  <1>1. PICK my \in Locals : my = local[p]
    BY InHandFits
  <1>2. my.at = "temp_remove" /\ my # Idle /\ my.at \in Stages /\ my.at \in Inside
    BY <1>1 DEF TempRemove, At, Idle, Stages, Inside
  <1>3. PICK a \in AttemptIds : a = my.a
    BY <1>1, <1>2, InHand
  <1>4. /\ Started(a) /\ Shared /\ Sound(a) /\ Fits(my)
        /\ tx[a].phase \in 0 .. Complete /\ tx[a].abort \in 0 .. AbortComplete
    BY <1>1, <1>2, <1>3, InHand
  <1>5. /\ my.op \in Lands \cup {"abort"} /\ my.op \notin {"close", "recover"}
        /\ (my.op \in Lands => LandFits(my)) /\ (my.op = "abort" => AbortFits(my))
    BY <1>2, <1>4 DEF Fits, OpsAt, Lands
  <1>6. /\ my.op \in Lands =>
             tx[a].phase = TargetUpdated /\ my.intent = tx[a].intent /\ my.intent \in Intents
        /\ my.op = "abort" => AbortSeen(a) /\ HasIntent(a)
    BY <1>2, <1>3, <1>5 DEF LandFits, AbortFits, Reached
  <1>7. tx[a].phase < TemporaryCleaned
    BY <1>4, <1>5, <1>6 DEF Sound, TransactionSound
  <1>8. Section(my)
    BY <1>2, <1>5 DEF Section, Inside
  <1>9. PICK left : left = IF temp[a] \in {"base", "commit"} THEN "branch" ELSE "none"
    OBVIOUS
  <1>10. left \in {"none", "branch", "base", "commit"} /\ left # "commit"
    BY <1>9
  <1>11. PICK n \in Nat : n = made[a]
    BY <1>4 DEF Shared
  <1>12. /\ UNCHANGED <<runtime, evidence, target, source, made, lock, moves, failures>>
         /\ temp' = [temp EXCEPT ![a] = left] /\ n >= made[a] /\ made' = [made EXCEPT ![a] = n]
         /\ temp'[a] = left
    BY <1>1, <1>3, <1>4, <1>9, <1>11 DEF TempRemove, Shared
  <1>13. (Started(a)' <=> Started(a)) /\ tx' = tx
    BY <1>12, SameRuntime
  <1>14. CASE left = "branch"
    <2>1. local' = local
      BY <1>1, <1>3, <1>9, <1>14 DEF TempRemove
    <2>2. Goto(p, my) /\ LockMoves(p, my)
      <3>1. local' = [local EXCEPT ![p] = my]
        BY <1>1, <2>1 DEF IInv, TypeOK
      <3> QED
        BY <1>1, <1>12, <3>1 DEF Goto, LockMoves
    <2>3. Fits(my)'
      <3>1. my.op \in Lands => LandFits(my)'
        BY <1>2, <1>3, <1>6, <1>13 DEF LandFits, Reached
      <3>2. my.op = "abort" => AbortFits(my)'
        BY <1>2, <1>3, <1>6, <1>13 DEF AbortFits, AbortSeen, HasIntent
      <3> QED
        BY <1>2, <1>3, <1>4, <1>5, <1>13, <3>1, <3>2 DEF Fits, OpsAt, Lands
    <2> QED
      BY <1>1, <1>2, <1>3, <1>7, <1>8, <1>10, <1>12, <2>2, <2>3, TempStep
  <1>15. CASE left = "none"
    <2>1. PICK at, k : /\ at = IF my.op = "abort" THEN "record_abort" ELSE "record"
                       /\ k = IF my.op = "abort" THEN AbortCleaned ELSE TemporaryCleaned
      OBVIOUS
    <2>2. at \in Inside /\ k \in 0 .. Complete
      BY <2>1 DEF Inside, Stages
    <2>3. Goto(p, MovedTo(my, at, k))
      BY <1>1, <1>3, <1>9, <1>15, <2>1 DEF TempRemove, ToRecord, MovedTo
    <2>4. PICK job \in Locals : /\ job = MovedTo(my, at, k)
                                /\ job.at = at /\ job.k = k /\ Like(job, my) /\ LockMoves(p, job)
      BY <1>1, <1>2, <1>5, <1>12, <2>2, MovedJob
    <2>5. job.op = my.op /\ job.a = a /\ job.intent = my.intent
      BY <1>3, <1>5, <2>4 DEF Like
    <2>6. my.op \in Lands => LandFits(job)'
      <3>1. Due(job)'
        BY <1>12, <1>15, <2>1, <2>4, <2>5 DEF Due
      <3> QED
        BY <1>6, <1>13, <2>1, <2>4, <2>5, <3>1 DEF LandFits, Lands
    <2>7. my.op = "abort" => AbortFits(job)'
      BY <1>4, <1>6, <1>13, <2>1, <2>4, <2>5 DEF AbortFits, AbortSeen, HasIntent
    <2>8. Fits(job)'
      BY <1>4, <1>5, <1>13, <2>1, <2>4, <2>5, <2>6, <2>7 DEF Fits, OpsAt, Lands
    <2>9. Goto(p, job)
      BY <2>3, <2>4
    <2> QED
      BY <1>1, <1>2, <1>3, <1>7, <1>8, <1>10, <1>12, <2>4, <2>8, <2>9, TempStep
  <1> QED
    BY <1>9, <1>14, <1>15

\* What is left of the workspace of an attempt changes, its commits do not.
LEMMA WorkspaceSound ==
    ASSUME NEW a \in AttemptIds, Sound(a), UNCHANGED <<runtime, evidence, target, temp, made>>,
           source'[a].commits = source[a].commits, Gone(a) => Gone(a)',
           Started(a) /\ ~source'[a].branch => Gone(a)' /\ Kept(a)
    PROVE  Sound(a)'
  <1> USE DEF runtime, evidence
  <1>1. Shape(a)'
    BY DEF Sound, Shape
  <1>2. /\ (Landed(a)' <=> Landed(a)) /\ (HasIntent(a)' <=> HasIntent(a))
        /\ (AbortSeen(a)' <=> AbortSeen(a)) /\ (Kept(a)' <=> Kept(a))
        /\ (Started(a)' <=> Started(a)) /\ OutcomeOf(a)' = OutcomeOf(a)
    BY DEF Landed, OnTarget, HasIntent, AbortSeen, Kept, Started, OutcomeOf, Attempts
  <1>3. TransactionSound(a)'
    BY <1>2 DEF Sound, TransactionSound
  <1>4. AttemptSound(a)'
    BY <1>2 DEF Sound, AttemptSound
  <1> QED
    BY <1>1, <1>3, <1>4 DEF Sound

LEMMA WorkspaceStep ==
    ASSUME IInv, NEW p \in Procs, NEW my \in Locals, my = local[p], my # Idle,
           NEW job \in Locals, Goto(p, job), LockMoves(p, job),
           NEW a \in AttemptIds, my.a = a,
           UNCHANGED <<runtime, evidence, target, temp, made, moves, failures>>,
           NEW left \in [commits: Nat, branch: BOOLEAN, worktree: BOOLEAN],
           source' = [source EXCEPT ![a] = left], left.commits = source[a].commits,
           left.branch => source[a].branch, left.worktree => source[a].worktree,
           ~left.branch => ~left.worktree /\ Kept(a), Fits(job)'
    PROVE  IInv'
  <1> USE DEF runtime, evidence
  <1>1. /\ Shared /\ Sound(a) /\ tx[a].phase \in 0 .. Complete /\ tx[a].abort \in 0 .. AbortComplete
        /\ made[a] \in Nat
    BY InHand DEF Shared
  <1>2. /\ source' \in [AttemptIds -> [commits: Nat, branch: BOOLEAN, worktree: BOOLEAN]]
        /\ source'[a] = left /\ \A b \in AttemptIds \ {a} : source'[b] = source[b]
    <2>1. source \in [AttemptIds -> [commits: Nat, branch: BOOLEAN, worktree: BOOLEAN]]
      BY <1>1 DEF Shared
    <2>2. PICK R : R = [commits: Nat, branch: BOOLEAN, worktree: BOOLEAN]
      OBVIOUS
    <2>3. left \in R /\ source \in [AttemptIds -> R]
      BY <2>1, <2>2
    <2> QED
      BY ONLY <2>2, <2>3, a \in AttemptIds, source' = [source EXCEPT ![a] = left]
  <1>3. Shared'
    BY <1>1, <1>2 DEF Shared
  <1>4. Sound(a)'
    <2>1. Gone(a) => Gone(a)'
      BY <1>2 DEF Gone
    <2>2. ~source'[a].branch => Gone(a)' /\ Kept(a)
      BY <1>2 DEF Gone
    <2>3. source'[a].commits = source[a].commits
      BY <1>2
    <2> QED
      BY <1>1, <2>1, <2>2, <2>3, WorkspaceSound
  <1>5. \A b \in AttemptIds \ {a} : Untouched(b)
    BY <1>2, SameRuntime DEF Untouched
  <1>6. TargetGrows
    BY DEF TargetGrows
  <1>7. AdvancesAt(a)
    <2>1. tx[a].phase >= tx[a].phase /\ tx[a].abort >= tx[a].abort /\ made[a] >= made[a]
      BY <1>1
    <2> QED
      BY <1>2, <2>1, SameRuntime DEF AdvancesAt
  <1>8. HistorySound'
    BY SameRuntime DEF IInv
  <1>9. TargetSound'
    BY <1>1, <1>3, <1>5, <1>7, UntouchedAdvances, TargetStays DEF IInv
  <1>10. source'[a].commits = source[a].commits
    BY <1>2
  <1> QED
    BY <1>3, <1>4, <1>5, <1>6, <1>7, <1>8, <1>9, <1>10, EffectStep

\* The facts a stage of the cleanup starts from.
LEMMA CleanupStage ==
    ASSUME IInv, NEW p \in Procs, NEW my \in Locals, my = local[p], my.at \in {"remove", "branch"}
    PROVE  /\ my.at \in Inside /\ my # Idle /\ my.a \in AttemptIds /\ Started(my.a) /\ Kept(my.a)
           /\ my.op \in Lands \cup {"close", "cleanup"}
           /\ my.op \in Lands => /\ tx[my.a].phase = LandEventRecorded
                                 /\ my.intent = tx[my.a].intent /\ my.intent \in Intents
           /\ my.at = "branch" => ~source[my.a].worktree
           /\ source[my.a] \in [commits: Nat, branch: BOOLEAN, worktree: BOOLEAN]
  <1>1. my.at \in Inside /\ my.at \in Stages /\ my # Idle
    BY DEF Inside, Stages, Idle
  <1>2. my.a \in AttemptIds /\ Started(my.a) /\ Fits(my) /\ Shared
    BY <1>1, InHand
  <1>3. my.op \in Lands => LandFits(my)
    BY <1>1, <1>2 DEF Fits
  <1>4. /\ my.op \in Lands \cup {"close", "cleanup"} /\ Kept(my.a)
        /\ (my.at = "branch" => ~source[my.a].worktree)
    BY <1>1, <1>2 DEF Fits, OpsAt
  <1>5. source[my.a] \in [commits: Nat, branch: BOOLEAN, worktree: BOOLEAN]
    BY <1>2 DEF Shared
  <1> QED
    BY <1>1, <1>2, <1>3, <1>4, <1>5 DEF LandFits, Reached

LEMMA RemoveWorktreeStep ==
    ASSUME IInv, NEW p \in Procs, RemoveWorktree(p)
    PROVE  IInv'
  <1>1. PICK my \in Locals : my = local[p]
    BY InHandFits
  <1>2. my.at = "remove"
    BY <1>1 DEF RemoveWorktree, At
  <1>3. PICK a \in AttemptIds : a = my.a
    BY <1>1, <1>2, CleanupStage
  <1>4. /\ my.at \in Inside /\ my # Idle /\ Started(a) /\ Kept(a)
        /\ my.op \in Lands \cup {"close", "cleanup"}
        /\ my.op \in Lands => /\ tx[a].phase = LandEventRecorded
                              /\ my.intent = tx[a].intent /\ my.intent \in Intents
        /\ source[a] \in [commits: Nat, branch: BOOLEAN, worktree: BOOLEAN]
    BY <1>1, <1>2, <1>3, CleanupStage
  <1>5. /\ UNCHANGED <<runtime, evidence, target, temp, made, lock, moves, failures>>
        /\ Goto(p, MovedTo(my, "branch", 0))
        /\ source' = [source EXCEPT ![a].worktree = FALSE]
    BY <1>1, <1>3 DEF RemoveWorktree, Continue, MovedTo
  <1>6. PICK left : left = [source[a] EXCEPT !.worktree = FALSE]
    OBVIOUS
  <1>7. /\ left \in [commits: Nat, branch: BOOLEAN, worktree: BOOLEAN] /\ ~left.worktree
        /\ left.commits = source[a].commits /\ left.branch = source[a].branch
    BY ONLY <1>4, <1>6
  <1>8. source' = [source EXCEPT ![a] = left]
    <2>1. source' = [source EXCEPT ![a].worktree = FALSE]
      BY <1>5
    <2> QED
      BY ONLY <2>1, <1>6
  <1>9. Kept(a)' /\ (Started(a)' <=> Started(a)) /\ tx' = tx /\ ~source'[a].worktree
    <2>1. source'[a] = left
      BY <1>3, <1>8 DEF IInv, TypeOK
    <2> QED
      BY <1>4, <1>5, <1>7, <2>1, SameRuntime DEF Kept, runtime, evidence
  <1>10. "branch" \in Inside /\ 0 \in 0 .. Complete
    BY DEF Inside, Stages
  <1>11. PICK job \in Locals : /\ job = MovedTo(my, "branch", 0)
                               /\ job.at = "branch" /\ job.k = 0 /\ Like(job, my) /\ LockMoves(p, job)
    BY <1>1, <1>4, <1>5, <1>10, MovedJob
  <1>12. Fits(job)'
    <2>1. job.op = my.op /\ job.a = a /\ (my.op \in Lands => job.intent = my.intent)
      BY <1>3, <1>11 DEF Like, Lands
    <2>2. my.op \in Lands => LandFits(job)'
      BY <1>4, <1>9, <1>11, <2>1 DEF LandFits, Reached
    <2> QED
      BY <1>4, <1>9, <1>11, <2>1, <2>2 DEF Fits, OpsAt, Lands
  <1>13. Goto(p, job) /\ (left.branch => source[a].branch) /\ (left.worktree => source[a].worktree)
    BY <1>5, <1>7, <1>11
  <1>14. ~left.branch => ~left.worktree /\ Kept(a)
    BY <1>4, <1>7
  <1>15. UNCHANGED <<runtime, evidence, target, temp, made, moves, failures>>
    BY <1>5
  <1>16. my # Idle /\ LockMoves(p, job) /\ left.commits = source[a].commits
         /\ left \in [commits: Nat, branch: BOOLEAN, worktree: BOOLEAN]
    BY <1>4, <1>7, <1>11
  <1> QED
    BY ONLY IInv, <1>1, <1>3, <1>8, <1>12, <1>13, <1>14, <1>15, <1>16, WorkspaceStep

LEMMA DeleteBranchStep ==
    ASSUME IInv, NEW p \in Procs, DeleteBranch(p)
    PROVE  IInv'
  <1>1. PICK my \in Locals : my = local[p]
    BY InHandFits
  <1>2. my.at = "branch"
    BY <1>1 DEF DeleteBranch, At
  <1>3. PICK a \in AttemptIds : a = my.a
    BY <1>1, <1>2, CleanupStage
  <1>4. /\ my.at \in Inside /\ my # Idle /\ Started(a) /\ Kept(a)
        /\ my.op \in Lands \cup {"close", "cleanup"}
        /\ my.op \in Lands => /\ tx[a].phase = LandEventRecorded
                              /\ my.intent = tx[a].intent /\ my.intent \in Intents
        /\ ~source[a].worktree
        /\ source[a] \in [commits: Nat, branch: BOOLEAN, worktree: BOOLEAN]
    BY <1>1, <1>2, <1>3, CleanupStage
  <1>5. /\ UNCHANGED <<runtime, evidence, target, temp, made, moves, failures>>
        /\ AfterCleanup(p) /\ source' = [source EXCEPT ![a].branch = FALSE]
    BY <1>1, <1>3 DEF DeleteBranch
  <1>6. PICK left : left = [source[a] EXCEPT !.branch = FALSE]
    OBVIOUS
  <1>7. /\ left \in [commits: Nat, branch: BOOLEAN, worktree: BOOLEAN] /\ ~left.branch
        /\ left.commits = source[a].commits /\ left.worktree = source[a].worktree
    BY ONLY <1>4, <1>6
  <1>8. source' = [source EXCEPT ![a] = left]
    <2>1. source' = [source EXCEPT ![a].branch = FALSE]
      BY <1>5
    <2> QED
      BY ONLY <2>1, <1>6
  <1>9. Gone(a)' /\ (Started(a)' <=> Started(a)) /\ tx' = tx
    <2>1. source'[a] = left
      BY <1>3, <1>8 DEF IInv, TypeOK
    <2> QED
      BY <1>4, <1>5, <1>7, <2>1, SameRuntime DEF Gone, runtime, evidence
  <1>10. PICK job \in Locals : Goto(p, job) /\ LockMoves(p, job) /\ Fits(job)'
    <2>1. CASE my.op \in Lands
      <3>1. Goto(p, MovedTo(my, "record", TaskCleaned)) /\ lock' = lock
        BY <1>1, <1>5, <2>1 DEF AfterCleanup, Lands, ToRecord, MovedTo
      <3>2. "record" \in Inside /\ TaskCleaned \in 0 .. Complete /\ my.op \notin {"close", "recover"}
        BY <2>1 DEF Inside, Stages, Lands
      <3>3. PICK job \in Locals : /\ job = MovedTo(my, "record", TaskCleaned)
                                  /\ job.at = "record" /\ job.k = TaskCleaned /\ Like(job, my)
                                  /\ LockMoves(p, job)
        BY <1>1, <1>4, <3>1, <3>2, MovedJob
      <3>4. job.op = my.op /\ job.a = a /\ job.intent = my.intent
        BY <1>3, <3>2, <3>3 DEF Like
      <3>5. Due(job)'
        BY <1>9, <3>3, <3>4 DEF Due
      <3>6. LandFits(job)'
        BY <1>4, <1>9, <2>1, <3>3, <3>4, <3>5 DEF LandFits
      <3>7. Fits(job)'
        BY <1>4, <1>9, <2>1, <3>3, <3>4, <3>6 DEF Fits, OpsAt, Lands
      <3> QED
        BY <3>1, <3>3, <3>7
    <2>2. CASE my.op \notin Lands
      <3>1. Goto(p, Idle) /\ Unlock(p)
        BY <1>1, <1>5, <2>2 DEF AfterCleanup, Lands, Leave
      <3>2. LockMoves(p, Idle)
        BY <3>1, IdleFits DEF LockMoves
      <3>3. Fits(Idle)'
        BY DEF Fits, Idle, Stages
      <3> QED
        BY <3>1, <3>2, <3>3, IdleFits
    <2> QED
      BY <2>1, <2>2
  <1>11. (left.branch => source[a].branch) /\ (left.worktree => source[a].worktree)
    BY <1>7
  <1>12. ~left.branch => ~left.worktree /\ Kept(a)
    BY <1>4, <1>7
  <1>13. UNCHANGED <<runtime, evidence, target, temp, made, moves, failures>>
    BY <1>5
  <1>14. my # Idle /\ left.commits = source[a].commits
         /\ left \in [commits: Nat, branch: BOOLEAN, worktree: BOOLEAN]
    BY <1>4, <1>7
  <1> QED
    BY ONLY IInv, <1>1, <1>3, <1>8, <1>10, <1>11, <1>12, <1>13, <1>14, WorkspaceStep

-----------------------------------------------------------------------------
(***************************************************************************)
(* The end of an attempt.                                                  *)
(***************************************************************************)
LEMMA VerdictOf ==
    ASSUME NEW my \in Locals, my.at \in Stages, my.op \in Lands \cup {"abort", "close", "recover"}
    PROVE  /\ Verdict(my) \in Verdicts /\ Verdict(my) # None
           /\ Verdict(my).status = "success" => my.op \in Lands
           /\ my.op \in Lands => Verdict(my).status = "success"
           /\ my.op = "abort" => Verdict(my) = [by |-> "abort", status |-> "blocked"]
  <1>1. my.op \in {"close", "recover"} => my.status \in {"blocked", "failed", "abandoned"}
    <2>1. my \in GeneralJobs => my.op \notin {"close", "recover"}
      BY DEF GeneralJobs
    <2>2. my \in CloseJobs \/ my \in RecoverJobs => my.status \in EndStatuses
      BY DEF CloseJobs, RecoverJobs
    <2> QED
      BY <2>1, <2>2, JobKinds, EndAssumption
  <1>2. /\ my.op \in Lands => Verdict(my) = [by |-> my.op, status |-> "success"]
        /\ my.op = "abort" => Verdict(my) = [by |-> "abort", status |-> "blocked"]
        /\ my.op \in {"close", "recover"} => Verdict(my) = [by |-> my.op, status |-> my.status]
    BY DEF Verdict, Lands
  <1>3. Verdict(my) \in Verdicts
    BY <1>1, <1>2 DEF Verdicts, Commands, Outcomes, Lands
  <1> QED
    BY <1>1, <1>2, <1>3, NoneAssumption

LEMMA FinishStage ==
    ASSUME IInv, NEW p \in Procs, NEW my \in Locals, my = local[p],
           my.at \in {"finish", "finish_save"}
    PROVE  /\ my.at \in Inside /\ my # Idle /\ my.a \in AttemptIds /\ Started(my.a)
           /\ Shared /\ Sound(my.a)
           /\ my.op \in Lands \cup {"abort", "close", "recover"}
           /\ my.op \in Lands => /\ tx[my.a].phase = TemporaryCleaned
                                 /\ my.intent = tx[my.a].intent /\ my.intent \in Intents
           /\ my.op = "abort" => HasIntent(my.a) /\ tx[my.a].abort >= AbortCleaned
           /\ my.at = "finish_save" => verdict[my.a] = Verdict(my)
           /\ Verdict(my) \in Verdicts /\ Verdict(my) # None
           /\ Verdict(my).status = "success" => my.op \in Lands
           /\ my.op \in Lands => Verdict(my).status = "success"
           /\ my.op = "abort" => Verdict(my) = [by |-> "abort", status |-> "blocked"]
  <1>1. my.at \in Inside /\ my.at \in Stages /\ my # Idle
    BY DEF Inside, Stages, Idle
  <1>2. my.a \in AttemptIds /\ Started(my.a) /\ Fits(my) /\ Shared /\ Sound(my.a)
    BY <1>1, InHand
  <1>3. /\ my.op \in Lands \cup {"abort", "close", "recover"}
        /\ (my.at = "finish_save" => verdict[my.a] = Verdict(my))
        /\ (my.op \in Lands => LandFits(my)) /\ (my.op = "abort" => AbortFits(my))
    BY <1>1, <1>2 DEF Fits, OpsAt
  <1>4. my.op \in Lands => /\ tx[my.a].phase = TemporaryCleaned
                           /\ my.intent = tx[my.a].intent /\ my.intent \in Intents
    BY <1>3 DEF LandFits, Reached
  <1>5. my.op = "abort" => HasIntent(my.a) /\ tx[my.a].abort >= AbortCleaned
    BY <1>3 DEF AbortFits
  <1>6. /\ Verdict(my) \in Verdicts /\ Verdict(my) # None
        /\ Verdict(my).status = "success" => my.op \in Lands
        /\ my.op \in Lands => Verdict(my).status = "success"
        /\ my.op = "abort" => Verdict(my) = [by |-> "abort", status |-> "blocked"]
    BY <1>1, <1>3, VerdictOf
  <1> QED
    BY <1>1, <1>2, <1>3, <1>4, <1>5, <1>6

LEMMA SameAttempts ==
    ASSUME Shared, NEW a \in AttemptIds, UNCHANGED <<rows, tx, landEvents, target, source, temp, made>>
    PROVE  /\ TargetGrows
           /\ (Landed(a)' <=> Landed(a)) /\ (HasIntent(a)' <=> HasIntent(a))
           /\ (AbortSeen(a)' <=> AbortSeen(a)) /\ (Kept(a)' <=> Kept(a)) /\ (Gone(a)' <=> Gone(a))
           /\ tx[a].phase >= tx[a].phase /\ tx[a].abort >= tx[a].abort /\ made[a] >= made[a]
  <1>1. tx[a].phase \in 0 .. Complete /\ tx[a].abort \in 0 .. AbortComplete /\ made[a] \in Nat
    BY TxFields DEF Shared
  <1>2. tx[a].phase >= tx[a].phase /\ tx[a].abort >= tx[a].abort /\ made[a] >= made[a]
    BY <1>1
  <1> QED
    BY <1>2 DEF TargetGrows, Landed, OnTarget, HasIntent, AbortSeen, Kept, Gone

LEMMA FinishRequestStep ==
    ASSUME IInv, NEW p \in Procs, FinishRequest(p)
    PROVE  IInv'
  <1>1. PICK my \in Locals : my = local[p]
    BY InHandFits
  <1>2. my.at = "finish"
    BY <1>1 DEF FinishRequest, At
  <1>3. PICK a \in AttemptIds : a = my.a
    BY <1>1, <1>2, FinishStage
  <1>4. /\ my.at \in Inside /\ my # Idle /\ Started(a) /\ Shared /\ Sound(a)
        /\ my.op \in Lands \cup {"abort", "close", "recover"}
        /\ my.op \in Lands => /\ tx[a].phase = TemporaryCleaned
                              /\ my.intent = tx[a].intent /\ my.intent \in Intents
        /\ my.op = "abort" => HasIntent(a) /\ tx[a].abort >= AbortCleaned
    BY <1>1, <1>2, <1>3, FinishStage
  <1>5. PICK v : v = Verdict(my)
    OBVIOUS
  <1>6. v \in Verdicts /\ v # None /\ (v.status = "success" => my.op \in Lands)
    BY <1>1, <1>2, <1>5, FinishStage
  <1>7. /\ UNCHANGED <<evidence, git, lock, moves, failures>>
        /\ Goto(p, MovedTo(my, "finish_save", 0))
    BY <1>1 DEF FinishRequest, Continue, MovedTo
  <1>8. "finish_save" \in Inside /\ 0 \in 0 .. Complete
    BY DEF Inside, Stages
  <1>9. ASSUME NEW job \in Locals, job.at = "finish_save", job.k = 0, Like(job, my)
        PROVE  /\ job.op = my.op /\ job.a = a /\ (my.op \in Lands => job.intent = my.intent)
               /\ Verdict(job) = v
    BY <1>3, <1>4, <1>5, <1>9 DEF Like, Lands, Verdict
  <1>10. CASE verdict[a] = v /\ UNCHANGED runtime
    <2>1. ASSUME NEW job \in Locals, job.at = "finish_save", job.k = 0, Like(job, my)
          PROVE  Fits(job)
      <3>1. job.op = my.op /\ job.a = a /\ (my.op \in Lands => job.intent = my.intent) /\ Verdict(job) = v
        BY <1>9, <2>1
      <3>2. my.op \in Lands => LandFits(job)
        BY <1>4, <2>1, <3>1 DEF LandFits, Reached
      <3>3. my.op = "abort" => AbortFits(job)
        BY <1>4, <2>1, <3>1 DEF AbortFits
      <3> QED
        BY <1>4, <1>10, <2>1, <3>1, <3>2, <3>3 DEF Fits, OpsAt, Lands
    <2>2. failures' \in Nat
      BY <1>7, NaturalFailures
    <2> QED
      BY <1>1, <1>4, <1>7, <1>8, <1>10, <2>1, <2>2, MoveStep
  <1>11. CASE verdict[a] = None /\ Runtime!AbsDecide(Task, a, v)
    <2> USE DEF evidence, git
    <2>1. verdict' = [verdict EXCEPT ![a] = v] /\ UNCHANGED <<status, history>>
      BY <1>11 DEF Runtime!AbsDecide
    <2>2. OutcomeOf(a) = "in_progress"
      <3>1. PICK i \in DOMAIN Attempts : Attempts[i].id = a /\ Attempts[i].outcome = "in_progress"
        BY <1>11 DEF Runtime!AbsDecide, Runtime!Running, Attempts
      <3>2. Distinct(Attempts) /\ OutcomeOf(a) = OutcomeIn(Attempts, a)
        BY <1>4, HistoryIs DEF IInv
      <3> QED
        BY <3>1, <3>2, OutcomeAt
    <2>3. /\ verdict' \in [AttemptIds -> Verdicts \cup {None}] /\ verdict'[a] = v
          /\ \A b \in AttemptIds \ {a} : verdict'[b] = verdict[b]
      BY <1>4, <1>6, <2>1 DEF Shared
    <2>4. Shared'
      BY <1>4, <1>7, <2>1, <2>3 DEF Shared
    <2>5. \A b \in AttemptIds \ {a} : Untouched(b)
      BY <1>7, <2>1, <2>3, SameRuntime DEF Untouched
    <2>6. HistorySound' /\ (Started(a)' <=> Started(a)) /\ OutcomeOf(a)' = OutcomeOf(a)
      BY <2>1, SameRuntime DEF IInv
    <2>7. /\ TargetGrows
          /\ (Landed(a)' <=> Landed(a)) /\ (HasIntent(a)' <=> HasIntent(a))
          /\ (AbortSeen(a)' <=> AbortSeen(a)) /\ (Kept(a)' <=> Kept(a)) /\ (Gone(a)' <=> Gone(a))
          /\ tx[a].phase >= tx[a].phase /\ tx[a].abort >= tx[a].abort /\ made[a] >= made[a]
      BY <1>4, <1>7, SameAttempts
    <2>8. AdvancesAt(a)
      BY <1>7, <1>11, <2>2, <2>6, <2>7 DEF AdvancesAt
    <2>9. Sound(a)'
      <3>1. Shape(a)'
        BY <1>4, <1>7 DEF Sound, Shape
      <3>2. [by |-> "abort", status |-> "blocked"] # None
        <4>1. [by |-> "abort", status |-> "blocked"] \in Verdicts
          BY DEF Verdicts, Commands, Outcomes
        <4> QED
          BY <4>1, NoneAssumption
      <3>3. TransactionSound(a)'
        BY <1>4, <1>7, <1>11, <2>6, <2>7, <3>2 DEF Sound, TransactionSound
      <3>4. AttemptSound(a)'
        BY <1>4, <1>6, <1>7, <2>2, <2>3, <2>6, <2>7 DEF Sound, AttemptSound
      <3> QED
        BY <3>1, <3>3, <3>4 DEF Sound
    <2>10. TargetSound'
      BY <1>4, <1>7, <2>4, <2>5, <2>8, UntouchedAdvances, TargetStays DEF IInv
    <2>11. ASSUME NEW job \in Locals, job.at = "finish_save", job.k = 0, Like(job, my)
          PROVE  Fits(job)'
      <3>1. job.op = my.op /\ job.a = a /\ (my.op \in Lands => job.intent = my.intent) /\ Verdict(job) = v
        BY <1>9, <2>11
      <3>2. my.op \in Lands => LandFits(job)'
        BY <1>4, <1>7, <2>11, <3>1 DEF LandFits, Reached
      <3>3. my.op = "abort" => AbortFits(job)'
        BY <1>4, <1>7, <2>7, <2>11, <3>1 DEF AbortFits
      <3>4. verdict'[a] = Verdict(job)
        BY <2>3, <3>1
      <3> QED
        BY <1>4, <2>6, <2>11, <3>1, <3>2, <3>3, <3>4 DEF Fits, OpsAt, Lands
    <2>12. source'[a].commits = source[a].commits /\ tx'[a] = tx[a] /\ temp'[a] = temp[a]
      BY <1>7
    <2> QED
      BY <1>1, <1>3, <1>4, <1>7, <1>8, <2>4, <2>5, <2>6, <2>7, <2>8, <2>9, <2>10, <2>11, <2>12,
         MoveEffect
  <1> QED
    BY <1>1, <1>3, <1>5, <1>10, <1>11 DEF FinishRequest

\* What finish_task leaves behind, whether the attempt ended before or ends now.
LEMMA FinishEffect ==
    ASSUME IInv, NEW a \in AttemptIds, Started(a), verdict[a] \in Verdicts,
           IF Active(a) THEN Runtime!AbsFinish(Task, a) ELSE UNCHANGED runtime,
           UNCHANGED <<evidence, git, moves, failures>>
    PROVE  /\ Shared' /\ HistorySound' /\ TargetSound' /\ TargetGrows
           /\ \A b \in AttemptIds \ {a} : Untouched(b)
           /\ AdvancesAt(a) /\ Sound(a)'
           /\ verdict' = verdict /\ Started(a)' /\ OutcomeOf(a)' = verdict[a].status
  <1> USE DEF evidence, git
  <1>1. Shared /\ Sound(a) /\ HistorySound /\ TargetSound /\ verdict[a] # None
    BY TypeParts, NoneAssumption DEF IInv
  <1>2. /\ TargetGrows
        /\ (Landed(a)' <=> Landed(a)) /\ (HasIntent(a)' <=> HasIntent(a))
        /\ (AbortSeen(a)' <=> AbortSeen(a)) /\ (Kept(a)' <=> Kept(a)) /\ (Gone(a)' <=> Gone(a))
        /\ tx[a].phase >= tx[a].phase /\ tx[a].abort >= tx[a].abort /\ made[a] >= made[a]
    BY <1>1, SameAttempts
  <1>3. Shape(a)'
    BY <1>1 DEF Sound, Shape
  <1>4. CASE ~Active(a)
    <2>1. UNCHANGED runtime /\ UNCHANGED <<status, history, verdict>>
      BY <1>4 DEF runtime
    <2>2. OutcomeOf(a) = verdict[a].status
      BY <1>1, <1>4 DEF Active, Sound, AttemptSound
    <2>3. HistorySound' /\ (Started(a)' <=> Started(a)) /\ OutcomeOf(a)' = OutcomeOf(a)
      BY <1>1, <2>1, SameRuntime
    <2>4. Shared'
      BY <1>1, <2>1 DEF Shared
    <2>5. \A b \in AttemptIds : Untouched(b)
      BY <2>1, SameRuntime DEF Untouched
    <2>6. AdvancesAt(a) /\ Sound(a)'
      BY <1>1, <1>2, <2>5, UntouchedAdvances, UntouchedSound
    <2>7. TargetSound'
      BY <1>1, <2>4, <2>5, UntouchedAdvances, TargetStays
    <2> QED
      BY <1>2, <2>1, <2>2, <2>3, <2>4, <2>5, <2>6, <2>7
  <1>5. CASE Active(a)
    <2>1. PICK s : s = Attempts
      OBVIOUS
    <2>2. PICK outcome : outcome = verdict[a].status
      OBVIOUS
    <2>3. outcome \in Outcomes /\ outcome # "in_progress"
      BY <2>2 DEF Verdicts
    <2>4. PICK i : /\ i \in Runtime!Running(Task) /\ history[Task][i].id = a
                   /\ history' = [history EXCEPT ![Task][i].outcome = Runtime!Outcome(verdict[a])]
      BY <1>5 DEF Runtime!AbsFinish
    <2>5. i \in DOMAIN s /\ s[i].id = a /\ s[i].outcome = "in_progress"
      BY <2>1, <2>4 DEF Runtime!Running, Attempts
    <2>6. PICK r : r = WithOutcome(s, i, outcome)
      OBVIOUS
    <2>7. history \in [{Task} -> Histories] /\ s \in Histories /\ Distinct(s)
      BY <1>1, <2>1, HistoryIs DEF Shared, Histories
    <2>8. history' = [history EXCEPT ![Task] = r] /\ Attempts' = r
      <3>1. history' = [history EXCEPT ![Task][i].outcome = outcome]
        BY <2>2, <2>4 DEF Runtime!Outcome
      <3>2. s = history[Task]
        BY <2>1 DEF Attempts
      <3>3. history' = [history EXCEPT ![Task] = r]
        BY ONLY <2>6, <3>1, <3>2 DEF WithOutcome
      <3> QED
        BY <2>7, <3>3 DEF Attempts
    <2>9. /\ r \in Histories /\ Distinct(r) /\ OutcomeIn(r, s[i].id) = outcome
          /\ \A b : Within(r, b) <=> Within(s, b)
          /\ \A b : Within(s, b) /\ b # s[i].id => OutcomeIn(r, b) = OutcomeIn(s, b)
      <3>1. s \in Histories /\ Distinct(s) /\ i \in DOMAIN s /\ outcome \in Outcomes
        BY <2>3, <2>5, <2>7
      <3> QED
        BY ONLY <2>6, <3>1, HistoryFinished
    <2>10. PICK to : status' = [status EXCEPT ![Task] = to] /\ to \in {"done", "canceled", "blocked"}
      <3>1. status' = [status EXCEPT ![Task] = Runtime!AbsTaskStatus(outcome)]
        BY <1>5, <2>2 DEF Runtime!AbsFinish, Runtime!Outcome
      <3>2. Runtime!AbsTaskStatus(outcome) \in {"done", "canceled", "blocked"}
        BY <2>3 DEF Outcomes, Runtime!AbsTaskStatus
      <3> QED
        BY <3>1, <3>2
    <2>11. verdict' = verdict
      BY <1>5 DEF Runtime!AbsFinish
    <2>12. Shared'
      <3>1. history' \in [{Task} -> Histories]
        BY <2>7, <2>8, <2>9
      <3>2. status' \in [{Task} -> {"planned", "in_progress", "blocked", "done", "canceled"}]
        BY <1>1, <2>10 DEF Shared
      <3> QED
        BY <1>1, <2>11, <3>1, <3>2 DEF Shared, Histories
    <2>13. HistorySound' /\ Started(a)' /\ OutcomeOf(a)' = verdict[a].status
      <3>1. Within(r, a)
        BY <1>1, <2>1, <2>9, HistoryIs
      <3> QED
        BY <2>2, <2>5, <2>8, <2>9, <2>12, <3>1, HistoryBecomes
    <2>14. ASSUME NEW b \in AttemptIds \ {a}
           PROVE  Untouched(b)
      <3>1. (Started(b)' <=> Started(b)) /\ (Started(b) => OutcomeOf(b)' = OutcomeOf(b))
        BY <1>1, <2>1, <2>5, <2>8, <2>9, <2>12, <2>14, HistoryIs, HistoryBecomes
      <3> QED
        BY <2>11, <3>1 DEF Untouched
    <2>15. OutcomeOf(a) = "in_progress"
      BY <1>5 DEF Active
    <2>16. AdvancesAt(a)
      BY <1>2, <2>11, <2>13, <2>15 DEF AdvancesAt
    <2>17. Sound(a)'
      <3>1. TransactionSound(a)'
        BY <1>1, <1>2, <2>11, <2>13, <2>15 DEF Sound, TransactionSound
      <3>2. AttemptSound(a)'
        BY <1>1, <1>2, <2>11, <2>13, <2>15 DEF Sound, AttemptSound
      <3> QED
        BY <1>3, <3>1, <3>2 DEF Sound
    <2>18. TargetSound'
      BY <1>1, <2>12, <2>14, <2>16, UntouchedAdvances, TargetStays
    <2> QED
      BY <1>2, <2>11, <2>12, <2>13, <2>14, <2>16, <2>17, <2>18
  <1> QED
    BY <1>4, <1>5

LEMMA FinishSaveStep ==
    ASSUME IInv, NEW p \in Procs, FinishSave(p)
    PROVE  IInv'
  <1>1. PICK my \in Locals : my = local[p]
    BY InHandFits
  <1>2. my.at = "finish_save"
    BY <1>1 DEF FinishSave, At
  <1>3. PICK a \in AttemptIds : a = my.a
    BY <1>1, <1>2, FinishStage
  <1>4. /\ my.at \in Inside /\ my # Idle /\ Started(a)
        /\ my.op \in Lands \cup {"abort", "close", "recover"}
        /\ my.op \in Lands => /\ tx[a].phase = TemporaryCleaned
                              /\ my.intent = tx[a].intent /\ my.intent \in Intents
        /\ my.op = "abort" => HasIntent(a) /\ tx[a].abort >= AbortCleaned
    BY <1>1, <1>2, <1>3, FinishStage
  <1>5. /\ verdict[a] \in Verdicts
        /\ my.op \in Lands => verdict[a].status = "success"
        /\ my.op = "abort" => verdict[a] = [by |-> "abort", status |-> "blocked"]
    BY <1>1, <1>2, <1>3, FinishStage
  <1>6. /\ UNCHANGED <<evidence, git, moves, failures>>
        /\ IF Active(a) THEN Runtime!AbsFinish(Task, a) ELSE UNCHANGED runtime
    BY <1>1, <1>3 DEF FinishSave
  <1>7. /\ Shared' /\ HistorySound' /\ TargetSound' /\ TargetGrows
        /\ \A b \in AttemptIds \ {a} : Untouched(b)
        /\ AdvancesAt(a) /\ Sound(a)'
        /\ verdict' = verdict /\ Started(a)' /\ OutcomeOf(a)' = verdict[a].status
    BY <1>4, <1>5, <1>6, FinishEffect
  <1>8. tx' = tx /\ temp' = temp /\ source' = source
    BY <1>6 DEF evidence, git
  <1>9. \/ my.op \in Lands /\ Goto(p, MovedTo(my, "record", RuntimeFinalized)) /\ lock' = lock
        \/ my.op = "abort" /\ Goto(p, MovedTo(my, "record_abort", AbortFinalized)) /\ lock' = lock
        \/ my.op = "close" /\ Goto(p, MovedTo(my, "prove", 0)) /\ lock' = lock
        \/ Goto(p, Idle) /\ Unlock(p)
    <2>1. my.op \in Lands => Goto(p, MovedTo(my, "record", RuntimeFinalized)) /\ lock' = lock
      BY <1>1 DEF FinishSave, ToRecord, MovedTo, Lands
    <2>2. my.op = "abort" => Goto(p, MovedTo(my, "record_abort", AbortFinalized)) /\ lock' = lock
      BY <1>1 DEF FinishSave, MovedTo
    <2>3. my.op = "close" => \/ Goto(p, MovedTo(my, "prove", 0)) /\ lock' = lock
                             \/ Goto(p, Idle) /\ Unlock(p)
      BY <1>1 DEF FinishSave, Closed, Continue, MovedTo, Leave
    <2>4. my.op = "recover" => Goto(p, Idle) /\ Unlock(p)
      BY <1>1 DEF FinishSave, Leave
    <2> QED
      BY <1>4, <2>1, <2>2, <2>3, <2>4
  <1>10. /\ "record" \in Inside /\ "record_abort" \in Inside /\ "prove" \in Inside
         /\ RuntimeFinalized \in 0 .. Complete /\ AbortFinalized \in 0 .. Complete /\ 0 \in 0 .. Complete
    BY DEF Inside, Stages
  <1>11. PICK job \in Locals : Goto(p, job) /\ LockMoves(p, job) /\ Fits(job)'
    <2>1. CASE my.op \in Lands /\ Goto(p, MovedTo(my, "record", RuntimeFinalized)) /\ lock' = lock
      <3>1. my.op \notin {"close", "recover"}
        BY <2>1 DEF Lands
      <3>2. PICK job \in Locals : /\ job = MovedTo(my, "record", RuntimeFinalized)
                                  /\ job.at = "record" /\ job.k = RuntimeFinalized /\ Like(job, my)
                                  /\ LockMoves(p, job)
        BY <1>1, <1>4, <1>10, <2>1, <3>1, MovedJob
      <3>3. job.op = my.op /\ job.a = a /\ job.intent = my.intent
        BY <1>3, <3>1, <3>2 DEF Like
      <3>4. Due(job)'
        BY <1>5, <1>7, <2>1, <3>2, <3>3 DEF Due
      <3>5. LandFits(job)'
        BY <1>4, <1>8, <2>1, <3>2, <3>3, <3>4 DEF LandFits
      <3>6. Fits(job)'
        BY <1>7, <2>1, <3>2, <3>3, <3>5 DEF Fits, OpsAt, Lands
      <3> QED
        BY <2>1, <3>2, <3>6
    <2>2. CASE my.op = "abort" /\ Goto(p, MovedTo(my, "record_abort", AbortFinalized)) /\ lock' = lock
      <3>1. my.op \notin {"close", "recover"}
        BY <2>2
      <3>2. PICK job \in Locals : /\ job = MovedTo(my, "record_abort", AbortFinalized)
                                  /\ job.at = "record_abort" /\ job.k = AbortFinalized /\ Like(job, my)
                                  /\ LockMoves(p, job)
        BY <1>1, <1>4, <1>10, <2>2, <3>1, MovedJob
      <3>3. job.op = my.op /\ job.a = a
        BY <1>3, <3>2 DEF Like
      <3>4. HasIntent(a)'
        BY <1>4, <1>8, <2>2 DEF HasIntent
      <3>5. verdict[a].status = "blocked"
        BY <1>5, <2>2
      <3>6. AbortFits(job)'
        BY <1>4, <1>5, <1>7, <1>8, <2>2, <3>2, <3>3, <3>4, <3>5 DEF AbortFits
      <3>7. Fits(job)'
        BY <1>7, <2>2, <3>2, <3>3, <3>6 DEF Fits, OpsAt, Lands
      <3> QED
        BY <2>2, <3>2, <3>7
    <2>3. CASE my.op = "close" /\ Goto(p, MovedTo(my, "prove", 0)) /\ lock' = lock
      <3>1. PICK job \in Locals : /\ job = MovedTo(my, "prove", 0)
                                  /\ job.at = "prove" /\ job.k = 0 /\ Like(job, my)
                                  /\ LockMoves(p, job)
        BY <1>1, <1>4, <1>10, <2>3, MovedJob
      <3>2. job.op = "close" /\ job.a = a
        BY <1>3, <2>3, <3>1 DEF Like
      <3>3. Fits(job)'
        BY <1>7, <3>1, <3>2 DEF Fits, OpsAt, Lands
      <3> QED
        BY <2>3, <3>1, <3>3
    <2>4. CASE Goto(p, Idle) /\ Unlock(p)
      <3>1. LockMoves(p, Idle)
        BY <2>4, IdleFits DEF LockMoves
      <3>2. Fits(Idle)'
        BY DEF Fits, Idle, Stages
      <3> QED
        BY <2>4, <3>1, <3>2, IdleFits
    <2> QED
      BY <1>9, <2>1, <2>2, <2>3, <2>4
  <1>12. /\ local[p].a = a /\ source'[a].commits = source[a].commits
         /\ tx'[a] = tx[a] /\ temp'[a] = temp[a]
    BY <1>1, <1>3, <1>8
  <1> QED
    BY ONLY IInv, <1>7, <1>11, <1>12, EffectStep

-----------------------------------------------------------------------------
(***************************************************************************)
(* The rows of the ledger.                                                 *)
(***************************************************************************)
\* A row is appended: the next phase before any abort, or the next stage.
LEMMA RowAppended ==
    ASSUME Shared, NEW a \in AttemptIds, Shape(a), NEW phase \in 0 .. Complete,
           NEW abort \in 0 .. AbortComplete, NEW kind \in {"phase", "abort"}, NEW n \in 1 .. Complete,
           AppendRow(a, kind, n), tx'[a].phase = phase, tx'[a].abort = abort,
           \/ kind = "phase" /\ tx[a].abort = 0 /\ abort = 0 /\ n = phase /\ phase = tx[a].phase + 1
           \/ kind = "abort" /\ phase = tx[a].phase /\ n = abort /\ abort = tx[a].abort + 1
    PROVE  /\ Shape(a)'
           /\ rows' \in [AttemptIds -> Seq([kind: {"phase", "abort"}, n: 1 .. Complete])]
           /\ \A b \in AttemptIds \ {a} : rows'[b] = rows[b]
  <1>1. PICK R : R = [kind: {"phase", "abort"}, n: 1 .. Complete]
    OBVIOUS
  <1>2. PICK row : row = [kind |-> kind, n |-> n]
    OBVIOUS
  <1>3. row \in R
    BY ONLY <1>1, <1>2, kind \in {"phase", "abort"}, n \in 1 .. Complete
  <1>4. PICK s : s = rows[a]
    OBVIOUS
  <1>5. PICK r : r = Append(s, row)
    OBVIOUS
  <1>6. rows \in [AttemptIds -> Seq(R)] /\ s \in Seq(R)
    BY <1>1, <1>4 DEF Shared
  <1>7. rows' = [rows EXCEPT ![a] = r]
    BY <1>2, <1>4, <1>5, <1>6 DEF AppendRow
  <1>8. /\ r \in Seq(R) /\ Len(r) = Len(s) + 1 /\ Len(s) \in Nat
        /\ \A i \in 1 .. Len(s) : r[i] = s[i]
        /\ r[Len(s) + 1] = row
    BY ONLY <1>3, <1>5, <1>6
  <1>9. rows' \in [AttemptIds -> Seq(R)] /\ rows'[a] = r /\ \A b \in AttemptIds \ {a} : rows'[b] = rows[b]
    BY ONLY <1>6, <1>7, <1>8, a \in AttemptIds
  <1>10. PICK f \in 0 .. Complete, g \in 0 .. AbortComplete : f = tx[a].phase /\ g = tx[a].abort
    BY TxFields
  <1>11. /\ Len(s) = f + g
         /\ \A i \in 1 .. f : s[i] = [kind |-> "phase", n |-> i]
         /\ \A i \in 1 .. g : s[f + i] = [kind |-> "abort", n |-> i]
    BY <1>4, <1>10 DEF Shape
  <1>12. f \in Nat /\ g \in Nat /\ phase \in Nat /\ abort \in Nat
    OBVIOUS
  <1>13. /\ Len(r) = phase + abort
         /\ \A i \in 1 .. phase : r[i] = [kind |-> "phase", n |-> i]
         /\ \A i \in 1 .. abort : r[phase + i] = [kind |-> "abort", n |-> i]
    <2>1. CASE kind = "phase" /\ g = 0 /\ abort = 0 /\ n = phase /\ phase = f + 1
      <3>1. ASSUME NEW i \in 1 .. phase
            PROVE  r[i] = [kind |-> "phase", n |-> i]
        <4>1. CASE i \in 1 .. f
          <5>1. i \in 1 .. Len(s)
            BY ONLY <1>10, <1>11, <4>1
          <5> QED
            BY ONLY <1>8, <1>11, <4>1, <5>1
        <4>2. CASE i = f + 1
          BY <1>2, <1>8, <1>11, <2>1, <4>2
        <4> QED
          BY <2>1, <4>1, <4>2
      <3> QED
        BY <1>8, <1>11, <2>1, <3>1
    <2>2. CASE kind = "abort" /\ phase = f /\ n = abort /\ abort = g + 1
      <3>1. ASSUME NEW i \in 1 .. abort
            PROVE  r[phase + i] = [kind |-> "abort", n |-> i]
        <4>1. CASE i \in 1 .. g
          <5>1. f + i \in 1 .. Len(s) /\ phase + i = f + i
            BY ONLY <1>11, <1>12, <2>2, <4>1
          <5> QED
            BY ONLY <1>8, <1>11, <4>1, <5>1
        <4>2. CASE i = g + 1
          <5>1. phase + i = Len(s) + 1 /\ n = i
            BY ONLY <1>11, <1>12, <1>8, <2>2, <4>2
          <5> QED
            BY ONLY <1>2, <1>8, <2>2, <5>1
        <4>3. i \in 1 .. g \/ i = g + 1
          BY ONLY <1>12, <2>2, i \in 1 .. abort
        <4> QED
          BY <4>1, <4>2, <4>3
      <3>2. Len(r) = phase + abort
        BY ONLY <1>8, <1>12, <1>11, <2>2
      <3>3. \A i \in 1 .. phase : r[i] = [kind |-> "phase", n |-> i]
        <4>1. 1 .. phase \subseteq 1 .. Len(s)
          BY ONLY <1>12, <1>11, <2>2
        <4> QED
          BY ONLY <1>8, <1>11, <2>2, <4>1
      <3> QED
        BY <3>1, <3>2, <3>3
    <2> QED
      BY <1>10, <2>1, <2>2
  <1> QED
    BY <1>1, <1>9, <1>13 DEF Shape

Transactions ==
    [intent: Intents \cup {None}, phase: 0 .. Complete, abort: 0 .. AbortComplete, canonical: Nat]

LEMMA RowEffect ==
    ASSUME IInv, NEW a \in AttemptIds, NEW row \in Transactions, tx' = [tx EXCEPT ![a] = row],
           rows' \in [AttemptIds -> Seq([kind: {"phase", "abort"}, n: 1 .. Complete])],
           \A b \in AttemptIds \ {a} : rows'[b] = rows[b],
           UNCHANGED <<runtime, landEvents, git, moves, failures>>,
           row.phase >= tx[a].phase, row.abort >= tx[a].abort,
           tx[a].phase >= IntentRecorded => row.intent = tx[a].intent,
           tx[a].phase >= CanonicalCreated => row.canonical = tx[a].canonical
    PROVE  /\ Shared' /\ HistorySound' /\ TargetSound' /\ TargetGrows
           /\ \A b \in AttemptIds \ {a} : Untouched(b)
           /\ AdvancesAt(a) /\ AttemptSound(a)' /\ tx'[a] = row
           /\ Landed(a) => Landed(a)'
           /\ (Started(a)' <=> Started(a)) /\ OutcomeOf(a)' = OutcomeOf(a)
           /\ (Gone(a)' <=> Gone(a)) /\ verdict' = verdict /\ temp' = temp /\ source' = source
           /\ made' = made /\ target' = target /\ landEvents' = landEvents
  <1> USE DEF runtime, git
  <1>1. Shared /\ Sound(a) /\ HistorySound /\ TargetSound
    BY TypeParts DEF IInv
  <1>2. tx' \in [AttemptIds -> Transactions] /\ tx'[a] = row /\ \A b \in AttemptIds \ {a} : tx'[b] = tx[b]
    <2>1. tx \in [AttemptIds -> Transactions]
      BY <1>1 DEF Shared, Transactions
    <2> QED
      BY ONLY <2>1, a \in AttemptIds, row \in Transactions, tx' = [tx EXCEPT ![a] = row]
  <1>3. Shared'
    BY <1>1, <1>2 DEF Shared, Transactions
  <1>4. \A b \in AttemptIds \ {a} : Untouched(b)
    BY <1>2, SameRuntime DEF Untouched
  <1>5. TargetGrows
    BY DEF TargetGrows
  <1>6. HistorySound' /\ (Started(a)' <=> Started(a)) /\ OutcomeOf(a)' = OutcomeOf(a)
    BY <1>1, SameRuntime
  <1>7. AdvancesAt(a)
    <2>1. made[a] \in Nat
      BY <1>1 DEF Shared
    <2>2. made[a] >= made[a]
      BY <2>1
    <2> QED
      BY <1>2, <1>6, <2>2 DEF AdvancesAt
  <1>8. TargetSound'
    BY <1>1, <1>3, <1>4, <1>7, UntouchedAdvances, TargetStays
  <1>9. Landed(a) => Landed(a)'
    BY <1>1, <1>5, <1>7, LandedStays
  <1>10. Gone(a)' <=> Gone(a)
    BY DEF Gone
  <1>11. tx[a].phase >= TargetUpdated => row.phase >= TargetUpdated /\ row.intent = tx[a].intent
    <2>1. tx[a].phase \in 0 .. Complete /\ row.phase \in 0 .. Complete
      BY <1>1, TxFields DEF Transactions
    <2> QED
      BY <2>1
  <1>12. AttemptSound(a)'
    <2>1. Kept(a) => Kept(a)'
      BY <1>2, <1>11 DEF Kept
    <2> QED
      BY <1>1, <1>2, <1>6, <1>10, <1>11, <2>1 DEF Sound, AttemptSound
  <1> QED
    BY <1>2, <1>3, <1>4, <1>5, <1>6, <1>7, <1>8, <1>9, <1>10, <1>12

LEMMA AbortStage ==
    ASSUME IInv, NEW p \in Procs, NEW my \in Locals, my = local[p], my.at \in {"abort", "record_abort"}
    PROVE  /\ my.at \in Inside /\ my # Idle /\ my.a \in AttemptIds /\ Started(my.a) /\ Section(my)
           /\ Sound(my.a) /\ Shared /\ my.op = "abort" /\ AbortFits(my)
           /\ tx[my.a] \in Transactions /\ my \in GeneralJobs
  <1>1. my.at \in Inside /\ my.at \in Stages /\ my # Idle
    BY DEF Inside, Stages, Idle
  <1>2. my.a \in AttemptIds /\ Started(my.a) /\ Fits(my) /\ Sound(my.a) /\ Shared
    BY <1>1, InHand
  <1>3. my.op = "abort" /\ AbortFits(my)
    BY <1>1, <1>2 DEF Fits, OpsAt
  <1>4. my \in GeneralJobs
    <2>1. my \notin CloseJobs /\ my \notin RecoverJobs
      BY <1>3 DEF CloseJobs, RecoverJobs
    <2> QED
      BY <1>1, <2>1, JobKinds
  <1>5. tx[my.a] \in Transactions
    BY <1>2 DEF Shared, Transactions
  <1> QED
    BY <1>1, <1>2, <1>3, <1>4, <1>5 DEF Section, Inside

LEMMA AbortRow ==
    ASSUME IInv, NEW a \in AttemptIds, HasIntent(a), NEW n \in 1 .. AbortComplete,
           tx[a].abort = n - 1, tx[a].phase \in IntentRecorded .. CanonicalCreated,
           n >= AbortFinalized =>
              verdict[a] = [by |-> "abort", status |-> "blocked"] /\ OutcomeOf(a) = "blocked",
           tx' = [tx EXCEPT ![a].abort = n], AppendRow(a, "abort", n),
           UNCHANGED <<runtime, landEvents, git, moves, failures>>
    PROVE  /\ Shared' /\ HistorySound' /\ TargetSound' /\ TargetGrows
           /\ \A b \in AttemptIds \ {a} : Untouched(b)
           /\ AdvancesAt(a) /\ Sound(a)' /\ tx'[a].abort = n /\ HasIntent(a)'
           /\ (Started(a)' <=> Started(a)) /\ OutcomeOf(a)' = OutcomeOf(a)
           /\ verdict' = verdict /\ source' = source
  <1>1. Shared /\ Sound(a)
    BY TypeParts DEF IInv
  <1>2. PICK row : row = [tx[a] EXCEPT !.abort = n]
    OBVIOUS
  <1>3. tx[a] \in Transactions
    BY <1>1 DEF Shared, Transactions
  <1>4. /\ row \in Transactions /\ row.phase = tx[a].phase /\ row.abort = n
        /\ row.intent = tx[a].intent /\ row.canonical = tx[a].canonical
    BY ONLY <1>2, <1>3, n \in 1 .. AbortComplete DEF Transactions
  <1>5. tx' = [tx EXCEPT ![a] = row] /\ tx'[a] = row
    <2>1. tx' = [tx EXCEPT ![a] = row]
      BY ONLY <1>2, tx' = [tx EXCEPT ![a].abort = n]
    <2> QED
      BY <1>1, <2>1 DEF Shared
  <1>6. PICK phase \in 0 .. Complete : phase = tx[a].phase
    BY <1>1, TxFields
  <1>7. /\ Shape(a)'
        /\ rows' \in [AttemptIds -> Seq([kind: {"phase", "abort"}, n: 1 .. Complete])]
        /\ \A b \in AttemptIds \ {a} : rows'[b] = rows[b]
    <2>1. n \in 0 .. AbortComplete /\ n \in 1 .. Complete /\ n = tx[a].abort + 1
      <3>1. tx[a].abort \in 0 .. AbortComplete
        BY <1>1, TxFields
      <3> QED
        BY <3>1
    <2>2. tx'[a].phase = phase /\ tx'[a].abort = n /\ Shape(a)
      BY <1>1, <1>4, <1>5, <1>6 DEF Sound
    <2> QED
      BY <1>1, <1>6, <2>1, <2>2, RowAppended
  <1>8. row.phase >= tx[a].phase /\ row.abort >= tx[a].abort
    <2>1. tx[a].phase \in 0 .. Complete /\ tx[a].abort \in 0 .. AbortComplete
      BY <1>1, TxFields
    <2> QED
      BY <1>4, <2>1
  <1>9. /\ Shared' /\ HistorySound' /\ TargetSound' /\ TargetGrows
        /\ \A b \in AttemptIds \ {a} : Untouched(b)
        /\ AdvancesAt(a) /\ AttemptSound(a)' /\ tx'[a] = row
        /\ Landed(a) => Landed(a)'
        /\ (Started(a)' <=> Started(a)) /\ OutcomeOf(a)' = OutcomeOf(a)
        /\ (Gone(a)' <=> Gone(a)) /\ verdict' = verdict /\ temp' = temp /\ source' = source
        /\ made' = made /\ target' = target /\ landEvents' = landEvents
    BY <1>4, <1>5, <1>7, <1>8, RowEffect
  <1>10. HasIntent(a)'
    BY <1>4, <1>9 DEF HasIntent
  <1>11. TransactionSound(a)'
    <2>1. TransactionSound(a)
      BY <1>1 DEF Sound
    <2> QED
      BY <1>4, <1>9, <1>10, <2>1 DEF TransactionSound
  <1>12. Sound(a)'
    BY <1>7, <1>9, <1>11 DEF Sound
  <1> QED
    BY <1>4, <1>9, <1>10, <1>12

LEMMA AbortRequestStep ==
    ASSUME IInv, NEW p \in Procs, AbortRequest(p)
    PROVE  IInv'
  <1>1. PICK my \in Locals : my = local[p]
    BY InHandFits
  <1>2. my.at = "abort"
    BY <1>1 DEF AbortRequest, At
  <1>3. PICK a \in AttemptIds : a = my.a
    BY <1>1, <1>2, AbortStage
  <1>4. /\ my.at \in Inside /\ my # Idle /\ Started(a) /\ Section(my) /\ Sound(a) /\ Shared
        /\ my.op = "abort" /\ AbortFits(my) /\ my.op \notin {"close", "recover"}
    BY <1>1, <1>2, <1>3, AbortStage
  <1>5. HasIntent(a) /\ (my.k = AbortRequested => AbortSeen(a))
    BY <1>2, <1>3, <1>4 DEF AbortFits
  <1>6. /\ Goto(p, MovedTo(my, "temp_remove", 0)) /\ lock' = lock
        /\ UNCHANGED <<runtime, landEvents, git, moves, failures>> /\ failures' \in Nat
    BY <1>1, NaturalFailures DEF AbortRequest, Continue, MovedTo
  <1>7. "temp_remove" \in Inside /\ 0 \in 0 .. Complete
    BY DEF Inside, Stages
  <1>8. ASSUME NEW job \in Locals, job.at = "temp_remove", job.k = 0, Like(job, my)
        PROVE  job.op = "abort" /\ job.a = a
    BY <1>3, <1>4, <1>8 DEF Like
  <1>9. CASE AbortSeen(a) /\ UNCHANGED <<rows, tx>>
    <2>1. ASSUME NEW job \in Locals, job.at = "temp_remove", job.k = 0, Like(job, my)
          PROVE  Fits(job)
      <3>1. job.op = "abort" /\ job.a = a
        BY <1>8, <2>1
      <3>2. AbortFits(job)
        BY <1>5, <1>9, <2>1, <3>1 DEF AbortFits
      <3> QED
        BY <1>4, <2>1, <3>1, <3>2 DEF Fits, OpsAt, Lands
    <2>2. UNCHANGED <<runtime, evidence, git, moves>>
      BY <1>6, <1>9 DEF evidence
    <2> QED
      BY <1>1, <1>4, <1>6, <1>7, <2>1, <2>2, MoveStep
  <1>10. CASE /\ ~AbortSeen(a) /\ tx[a].phase < TargetUpdated
              /\ tx' = [tx EXCEPT ![a].abort = AbortRequested]
              /\ AppendRow(a, "abort", AbortRequested)
    <2>1. tx[a].abort = 0 /\ tx[a].phase \in IntentRecorded .. CanonicalCreated
      BY <1>4, <1>5, <1>10, TxFields DEF AbortSeen, Sound, TransactionSound
    <2>2. /\ Shared' /\ HistorySound' /\ TargetSound' /\ TargetGrows
          /\ \A b \in AttemptIds \ {a} : Untouched(b)
          /\ AdvancesAt(a) /\ Sound(a)' /\ tx'[a].abort = AbortRequested /\ HasIntent(a)'
          /\ (Started(a)' <=> Started(a)) /\ OutcomeOf(a)' = OutcomeOf(a)
          /\ verdict' = verdict /\ source' = source
      <3>1. PICK n \in 1 .. AbortComplete : n = AbortRequested
        OBVIOUS
      <3>2. /\ tx' = [tx EXCEPT ![a].abort = n] /\ AppendRow(a, "abort", n) /\ tx[a].abort = n - 1
            /\ ~(n >= AbortFinalized) /\ UNCHANGED <<runtime, landEvents, git, moves, failures>>
        BY <1>6, <1>10, <2>1, <3>1
      <3>3. /\ Shared' /\ HistorySound' /\ TargetSound' /\ TargetGrows
            /\ \A b \in AttemptIds \ {a} : Untouched(b)
            /\ AdvancesAt(a) /\ Sound(a)' /\ tx'[a].abort = n /\ HasIntent(a)'
            /\ (Started(a)' <=> Started(a)) /\ OutcomeOf(a)' = OutcomeOf(a)
            /\ verdict' = verdict /\ source' = source
        BY ONLY IInv, <1>5, <2>1, <3>2, AbortRow
      <3> QED
        BY <3>1, <3>3
    <2>3. ASSUME NEW job \in Locals, job.at = "temp_remove", job.k = 0, Like(job, my)
          PROVE  Fits(job)'
      <3>1. job.op = "abort" /\ job.a = a
        BY <1>8, <2>3
      <3>2. AbortFits(job)'
        BY <2>2, <2>3, <3>1 DEF AbortFits, AbortSeen
      <3> QED
        BY <1>4, <2>2, <2>3, <3>1, <3>2 DEF Fits, OpsAt, Lands
    <2>4. source'[a].commits = source[a].commits
      BY <2>2
    <2> QED
      BY <1>1, <1>3, <1>4, <1>6, <1>7, <2>2, <2>3, <2>4, MoveEffect
  <1> QED
    BY <1>1, <1>3, <1>5, <1>9, <1>10 DEF AbortRequest

LEMMA RecordAbortStep ==
    ASSUME IInv, NEW p \in Procs, RecordAbort(p)
    PROVE  IInv'
  <1>1. PICK my \in Locals : my = local[p]
    BY InHandFits
  <1>2. my.at = "record_abort"
    BY <1>1 DEF RecordAbort, At
  <1>3. PICK a \in AttemptIds : a = my.a
    BY <1>1, <1>2, AbortStage
  <1>4. /\ my.at \in Inside /\ my # Idle /\ Started(a) /\ Section(my) /\ Sound(a) /\ Shared
        /\ my.op = "abort" /\ AbortFits(my) /\ my.op \notin {"close", "recover"} /\ my \in GeneralJobs
    BY <1>1, <1>2, <1>3, AbortStage
  <1>5. PICK k \in AbortCleaned .. AbortComplete : k = my.k
    BY <1>2, <1>4 DEF AbortFits
  <1>6. /\ HasIntent(a) /\ tx[a].abort >= k - 1
        /\ k = AbortFinalized => verdict[a] = [by |-> "abort", status |-> "blocked"] /\ OutcomeOf(a) = "blocked"
    BY <1>2, <1>3, <1>4, <1>5 DEF AbortFits
  <1>7. tx[a].abort \in 0 .. AbortComplete /\ tx[a].phase \in 0 .. Complete
    BY <1>4, TxFields
  <1>8. UNCHANGED <<runtime, landEvents, git, moves, failures>>
    BY DEF RecordAbort
  <1>9. /\ Shared' /\ HistorySound' /\ TargetSound' /\ TargetGrows
        /\ \A b \in AttemptIds \ {a} : Untouched(b)
        /\ AdvancesAt(a) /\ Sound(a)' /\ tx'[a].abort >= k /\ HasIntent(a)'
        /\ (Started(a)' <=> Started(a)) /\ source' = source
    <2>1. CASE tx[a].abort >= k /\ UNCHANGED <<rows, tx>>
      <3> USE DEF runtime, git
      <3>1. Shared'
        BY <1>4, <1>8, <2>1 DEF Shared
      <3>2. \A b \in AttemptIds : Untouched(b)
        BY <1>8, <2>1, SameRuntime DEF Untouched
      <3>3. TargetGrows
        BY <1>8 DEF TargetGrows
      <3>4. AdvancesAt(a) /\ Sound(a)'
        BY <1>4, <3>2, <3>3, UntouchedAdvances, UntouchedSound
      <3>5. TargetSound' /\ HistorySound'
        BY <1>4, <1>8, <3>1, <3>2, UntouchedAdvances, TargetStays, SameRuntime DEF IInv
      <3>6. HasIntent(a)'
        BY <1>6, <2>1 DEF HasIntent
      <3> QED
        BY <1>8, <2>1, <3>1, <3>2, <3>3, <3>4, <3>5, <3>6, SameRuntime
    <2>2. CASE /\ ~(tx[a].abort >= k) /\ tx' = [tx EXCEPT ![a].abort = k]
               /\ AppendRow(a, "abort", k)
      <3>1. PICK n \in 1 .. AbortComplete : n = k
        OBVIOUS
      <3>2. tx[a].abort = n - 1 /\ AbortSeen(a)
        BY <1>6, <1>7, <2>2, <3>1 DEF AbortSeen
      <3>3. tx[a].phase \in IntentRecorded .. CanonicalCreated
        BY <1>4, <3>2 DEF Sound, TransactionSound
      <3>4. n >= AbortFinalized =>
               verdict[a] = [by |-> "abort", status |-> "blocked"] /\ OutcomeOf(a) = "blocked"
        <4>1. n > AbortFinalized => tx[a].abort >= AbortFinalized
          BY <3>2
        <4>2. n >= AbortFinalized => n = AbortFinalized \/ n > AbortFinalized
          OBVIOUS
        <4> HIDE DEF AbortFinalized
        <4> QED
          BY <1>4, <1>6, <3>1, <4>1, <4>2 DEF Sound, TransactionSound
      <3>5. tx' = [tx EXCEPT ![a].abort = n] /\ AppendRow(a, "abort", n)
        BY <2>2, <3>1
      <3>6. /\ Shared' /\ HistorySound' /\ TargetSound' /\ TargetGrows
            /\ \A b \in AttemptIds \ {a} : Untouched(b)
            /\ AdvancesAt(a) /\ Sound(a)' /\ tx'[a].abort = n /\ HasIntent(a)'
            /\ (Started(a)' <=> Started(a)) /\ OutcomeOf(a)' = OutcomeOf(a)
            /\ verdict' = verdict /\ source' = source
        BY ONLY IInv, <1>6, <1>8, <3>2, <3>3, <3>4, <3>5, AbortRow
      <3> QED
        BY <3>1, <3>6
    <2> QED
      BY <1>1, <1>3, <1>5, <2>1, <2>2 DEF RecordAbort
  <1>10. PICK job \in Locals : Goto(p, job) /\ LockMoves(p, job) /\ Fits(job)'
    <2>1. CASE k = AbortComplete
      <3>1. Goto(p, Idle) /\ Unlock(p)
        BY <1>1, <1>5, <2>1 DEF RecordAbort, Leave
      <3>2. LockMoves(p, Idle)
        BY <3>1, IdleFits DEF LockMoves
      <3>3. Fits(Idle)'
        BY DEF Fits, Idle, Stages
      <3> QED
        BY <3>1, <3>2, <3>3, IdleFits
    <2>2. CASE k # AbortComplete
      <3>1. PICK at, n : /\ at = IF k = AbortCleaned THEN "finish" ELSE "record_abort"
                         /\ n = IF k = AbortCleaned THEN 0 ELSE k + 1
        OBVIOUS
      <3>2. at \in Inside /\ n \in 0 .. Complete
        BY <3>1 DEF Inside, Stages
      <3>3. Goto(p, MovedTo(my, at, n)) /\ lock' = lock
        <4>1. CASE k = AbortCleaned
          BY <1>1, <1>5, <3>1, <4>1 DEF RecordAbort, Continue, MovedTo
        <4>2. CASE k # AbortCleaned
          <5>1. Goto(p, [my EXCEPT !.k = @ + 1]) /\ lock' = lock
            <6>1. /\ local[p].k \in {AbortFinalized, AbortClosed}
                  /\ local[p].k # AbortCleaned /\ local[p].k # AbortComplete
              BY <1>1, <1>5, <2>2, <4>2
            <6> HIDE DEF AbortCleaned, AbortFinalized, AbortClosed, AbortComplete
            <6>2. RecordAbort(p)
              OBVIOUS
            <6>3. Goto(p, [local[p] EXCEPT !.k = @ + 1]) /\ lock' = lock
              BY ONLY <6>1, <6>2 DEF RecordAbort
            <6> QED
              BY ONLY <1>1, <6>3
          <5>2. at = my.at /\ n = my.k + 1
            BY <1>2, <1>5, <3>1, <4>2
          <5>3. [my EXCEPT !.k = @ + 1] = MovedTo(my, at, n)
            BY ONLY <1>4, <5>2 DEF GeneralJobs, MovedTo
          <5> QED
            BY <5>1, <5>3
        <4> QED
          BY <4>1, <4>2
      <3>4. PICK job \in Locals : /\ job = MovedTo(my, at, n)
                                  /\ job.at = at /\ job.k = n /\ Like(job, my) /\ LockMoves(p, job)
        BY <1>1, <1>4, <3>2, <3>3, MovedJob
      <3>5. job.op = "abort" /\ job.a = a
        BY <1>3, <1>4, <3>4 DEF Like
      <3>6. tx'[a].abort \in 0 .. AbortComplete
        BY <1>9 DEF Shared
      <3>7. AbortFits(job)'
        <4>1. CASE k = AbortCleaned
          BY <1>9, <3>1, <3>4, <3>5, <4>1 DEF AbortFits
        <4>2. CASE k # AbortCleaned
          <5>1. n \in AbortCleaned .. AbortComplete /\ n # AbortFinalized /\ tx'[a].abort >= n - 1
            BY <1>9, <2>2, <3>1, <3>6, <4>2
          <5> QED
            BY <1>9, <3>1, <3>4, <3>5, <4>2, <5>1 DEF AbortFits
        <4> QED
          BY <4>1, <4>2
      <3>8. Fits(job)'
        BY <1>4, <1>9, <3>1, <3>4, <3>5, <3>7 DEF Fits, OpsAt, Lands
      <3>9. Goto(p, job)
        BY <3>3, <3>4
      <3> QED
        BY <3>4, <3>8, <3>9
    <2> QED
      BY <2>1, <2>2
  <1>11. /\ local[p].a = a /\ source'[a].commits = source[a].commits /\ Section(local[p])
    BY <1>1, <1>3, <1>4, <1>9
  <1> QED
    BY ONLY IInv, <1>9, <1>10, <1>11, EffectStep

\* The stage a landing goes on to after its last durable phase.
LEMMA ProceedTo ==
    ASSUME NEW p \in Procs, NEW my, my = local[p], NEW row, row.phase \in 1 .. Complete, Proceed(p, row)
    PROVE  \/ Goto(p, Idle) /\ Unlock(p)
           \/ \E at \in Inside, k \in 0 .. Complete :
                 /\ Goto(p, MovedTo(my, at, k)) /\ lock' = lock
                 /\ \/ /\ at = "record" /\ k = row.phase + 1
                       /\ row.phase \in {IntentRecorded, LandEventRecorded, TaskCleaned}
                       /\ row.phase = LandEventRecorded => ~row.intent.cleanup
                    \/ /\ at \in {"temp_add", "target", "temp_remove", "finish", "land_event", "prove"}
                       /\ k = 0 /\ row.phase = Reached(at)
  <1>1. \A at \in {"record", "temp_add", "target", "temp_remove", "finish", "land_event", "prove"} :
           at \in Inside
    BY DEF Inside, Stages
  <1>2. CASE row.phase = Complete
    BY <1>2 DEF Proceed, Leave
  <1>3. CASE row.phase = IntentRecorded
    <2>1. Goto(p, MovedTo(my, "record", SourcePrepared)) /\ lock' = lock
      BY <1>3 DEF Proceed, ToRecord, MovedTo
    <2> QED
      BY <1>1, <1>3, <2>1
  <1>4. CASE row.phase = SourcePrepared
    <2>1. Goto(p, MovedTo(my, "temp_add", 0)) /\ lock' = lock
      BY <1>4 DEF Proceed, Continue, MovedTo
    <2> QED
      BY <1>1, <1>4, <2>1 DEF Reached
  <1>5. CASE row.phase = CanonicalCreated
    <2>1. Goto(p, MovedTo(my, "target", 0)) /\ lock' = lock
      BY <1>5 DEF Proceed, Continue, MovedTo
    <2> QED
      BY <1>1, <1>5, <2>1 DEF Reached
  <1>6. CASE row.phase = TargetUpdated
    <2>1. Goto(p, MovedTo(my, "temp_remove", 0)) /\ lock' = lock
      BY <1>6 DEF Proceed, Continue, MovedTo
    <2> QED
      BY <1>1, <1>6, <2>1 DEF Reached
  <1>7. CASE row.phase = TemporaryCleaned
    <2>1. Goto(p, MovedTo(my, "finish", 0)) /\ lock' = lock
      BY <1>7 DEF Proceed, Continue, MovedTo
    <2> QED
      BY <1>1, <1>7, <2>1 DEF Reached
  <1>8. CASE row.phase = RuntimeFinalized
    <2>1. Goto(p, MovedTo(my, "land_event", 0)) /\ lock' = lock
      BY <1>8 DEF Proceed, Continue, MovedTo
    <2> QED
      BY <1>1, <1>8, <2>1 DEF Reached
  <1>9. CASE row.phase = LandEventRecorded /\ row.intent.cleanup
    <2>1. Goto(p, MovedTo(my, "prove", 0)) /\ lock' = lock
      BY <1>9 DEF Proceed, Continue, MovedTo
    <2> QED
      BY <1>1, <1>9, <2>1 DEF Reached
  <1>10. CASE row.phase = LandEventRecorded /\ ~row.intent.cleanup
    <2>1. Goto(p, MovedTo(my, "record", TaskCleaned)) /\ lock' = lock
      BY <1>10 DEF Proceed, ToRecord, MovedTo
    <2> QED
      BY <1>1, <1>10, <2>1
  <1>11. CASE row.phase = TaskCleaned
    <2>1. Goto(p, MovedTo(my, "record", Complete)) /\ lock' = lock
      BY <1>11 DEF Proceed, ToRecord, MovedTo
    <2> QED
      BY <1>1, <1>11, <2>1
  <1> QED
    BY <1>2, <1>3, <1>4, <1>5, <1>6, <1>7, <1>8, <1>9, <1>10, <1>11

LEMMA ProceedJob ==
    ASSUME NEW p \in Procs, NEW my \in Locals, my = local[p], my.at \in Inside,
           my.op \in Lands, NEW row \in Transactions, row.phase >= 1, Proceed(p, row),
           tx'[my.a] = row, row.intent = my.intent, my.intent \in Intents, Started(my.a)'
    PROVE  \E job \in Locals : Goto(p, job) /\ LockMoves(p, job) /\ Fits(job)'
  <1>1. row.phase \in 1 .. Complete
    BY DEF Transactions
  <1>2. CASE Goto(p, Idle) /\ Unlock(p)
    <2>1. LockMoves(p, Idle)
      BY <1>2, IdleFits DEF LockMoves
    <2>2. Fits(Idle)'
      BY DEF Fits, Idle, Stages
    <2> QED
      BY <1>2, <2>1, <2>2, IdleFits
  <1>3. ASSUME NEW at \in Inside, NEW k \in 0 .. Complete,
               Goto(p, MovedTo(my, at, k)), lock' = lock,
               \/ /\ at = "record" /\ k = row.phase + 1
                  /\ row.phase \in {IntentRecorded, LandEventRecorded, TaskCleaned}
                  /\ row.phase = LandEventRecorded => ~row.intent.cleanup
               \/ /\ at \in {"temp_add", "target", "temp_remove", "finish", "land_event", "prove"}
                  /\ k = 0 /\ row.phase = Reached(at)
        PROVE  \E job \in Locals : Goto(p, job) /\ LockMoves(p, job) /\ Fits(job)'
    <2>1. my.op \notin {"close", "recover"}
      BY DEF Lands
    <2>2. PICK job \in Locals : /\ job = MovedTo(my, at, k)
                                /\ job.at = at /\ job.k = k /\ Like(job, my) /\ LockMoves(p, job)
      BY <1>3, <2>1, MovedJob
    <2>3. job.op = my.op /\ job.a = my.a /\ job.intent = my.intent
      BY <2>1, <2>2 DEF Like
    <2>4. PICK a : a = my.a
      OBVIOUS
    <2>5. tx'[a] = row /\ Started(a)' /\ job.a = a
      BY <2>3, <2>4
    <2>12. /\ tx'[job.a].intent = job.intent /\ tx'[job.a].phase = row.phase
           /\ job.intent \in Intents /\ job.op \in Lands /\ Started(job.a)'
      BY <2>3, <2>5
    <2>6. ASSUME at = "record", k = row.phase + 1,
                 row.phase \in {IntentRecorded, LandEventRecorded, TaskCleaned},
                 row.phase = LandEventRecorded => ~row.intent.cleanup
          PROVE  Fits(job)'
      <3>1. /\ job.at = "record" /\ job.k = row.phase + 1 /\ job.k \in {2, 8, 9}
            /\ job.k = 8 => ~job.intent.cleanup
        BY <2>2, <2>3, <2>6
      <3>2. Due(job)'
        BY ONLY <3>1 DEF Due
      <3>3. /\ job.k >= 1 /\ tx'[job.a].phase >= job.k - 1 /\ job.k > 1
        BY ONLY <1>1, <2>12, <3>1
      <3>4. LandFits(job)'
        BY ONLY <2>12, <3>1, <3>2, <3>3 DEF LandFits
      <3>5. job.op \in OpsAt(job.at) /\ job.op # "abort"
        BY ONLY <2>12, <3>1 DEF OpsAt, Lands
      <3> QED
        BY ONLY <2>12, <3>1, <3>4, <3>5 DEF Fits
    <2>7. ASSUME at \in {"temp_add", "target", "temp_remove", "finish", "land_event", "prove"},
                 row.phase = Reached(at)
          PROVE  Fits(job)'
      <3>1. /\ job.at \in {"temp_add", "target", "temp_remove", "finish", "land_event", "prove"}
            /\ row.phase = Reached(job.at)
        BY <2>2, <2>7
      <3>2. LandFits(job)'
        BY ONLY <2>12, <3>1 DEF LandFits
      <3>3. job.op \in OpsAt(job.at) /\ job.op # "abort"
        BY ONLY <2>12, <3>1 DEF OpsAt, Lands
      <3> QED
        BY ONLY <2>12, <3>1, <3>2, <3>3 DEF Fits
    <2>8. Fits(job)'
      BY <1>3, <2>6, <2>7
    <2>9. Goto(p, job)
      BY <1>3, <2>2
    <2> QED
      BY <2>2, <2>8, <2>9
  <1> QED
    BY <1>1, <1>2, <1>3, ProceedTo

LEMMA RaiseJob ==
    ASSUME NEW p \in Procs, NEW my \in Locals, my = local[p], my.a \in AttemptIds,
           NEW fault \in {"fatal", "recoverable"}, Raise(p, fault), Started(my.a)'
    PROVE  \E job \in Locals : Goto(p, job) /\ LockMoves(p, job) /\ Fits(job)'
  <1>1. CASE my.op = "land"
    <2>1. PICK a \in AttemptIds : a = my.a
      OBVIOUS
    <2>2. PICK job : job = [at |-> "caught", op |-> "land", a |-> a, fault |-> fault]
      OBVIOUS
    <2>3. job \in [at: {"caught"}, op: {"land"}, a: AttemptIds, fault: {"fatal", "recoverable"}]
          /\ job.at = "caught" /\ job.a = a
      BY ONLY <2>2, a \in AttemptIds, fault \in {"fatal", "recoverable"}
    <2>4. job \in Locals /\ ~Section(job)
      BY <2>3 DEF Locals, Section, Stages
    <2>5. Fits(job)'
      BY <2>1, <2>3 DEF Fits, Stages
    <2>6. Goto(p, job) /\ Unlock(p)
      BY <1>1, <2>1, <2>2 DEF Raise
    <2> QED
      BY <2>4, <2>5, <2>6 DEF LockMoves
  <1>2. CASE my.op # "land"
    <2>1. Goto(p, Idle) /\ Unlock(p)
      BY <1>2 DEF Raise, Report
    <2>2. Fits(Idle)'
      BY DEF Fits, Idle, Stages
    <2> QED
      BY <2>1, <2>2, IdleFits DEF LockMoves
  <1> QED
    BY <1>1, <1>2

\* A landing that is about to record a phase.
LEMMA RecordStage ==
    ASSUME IInv, NEW p \in Procs, NEW my \in Locals, my = local[p], my.at = "record"
    PROVE  /\ my.at \in Inside /\ my # Idle /\ my.a \in AttemptIds /\ Started(my.a) /\ Section(my)
           /\ Sound(my.a) /\ Shared /\ my.op \in Lands /\ LandFits(my)
           /\ my.k \in 1 .. Complete /\ my.intent \in Intents
  <1>1. my.at \in Inside /\ my.at \in Stages /\ my # Idle
    BY DEF Inside, Stages, Idle
  <1>2. my.a \in AttemptIds /\ Started(my.a) /\ Fits(my) /\ Sound(my.a) /\ Shared
    BY <1>1, InHand
  <1>3. my.op \in Lands /\ LandFits(my)
    BY <1>1, <1>2 DEF Fits, OpsAt
  <1>4. my \in GeneralJobs
    <2>1. my \notin CloseJobs /\ my \notin RecoverJobs
      BY <1>3 DEF CloseJobs, RecoverJobs, Lands
    <2> QED
      BY <1>1, <2>1, JobKinds
  <1>5. my.k \in 0 .. Complete
    BY <1>4 DEF GeneralJobs
  <1>6. my.k \in 1 .. Complete /\ my.intent \in Intents
    BY <1>3, <1>5 DEF LandFits
  <1> QED
    BY <1>1, <1>2, <1>3, <1>6 DEF Section, Inside

\* A step that leaves everything durable alone.
LEMMA NothingDone ==
    ASSUME IInv, NEW a \in AttemptIds, UNCHANGED <<runtime, evidence, git, moves, failures>>
    PROVE  /\ Shared' /\ HistorySound' /\ TargetSound' /\ TargetGrows
           /\ \A b \in AttemptIds \ {a} : Untouched(b)
           /\ AdvancesAt(a) /\ Sound(a)'
           /\ (Started(a)' <=> Started(a)) /\ source' = source
  <1> USE DEF runtime, evidence, git
  <1>1. Shared /\ Sound(a) /\ TargetSound
    BY TypeParts DEF IInv
  <1>2. Shared'
    BY <1>1 DEF Shared
  <1>3. \A b \in AttemptIds : Untouched(b)
    BY SameRuntime DEF Untouched
  <1>4. TargetGrows
    BY DEF TargetGrows
  <1>5. AdvancesAt(a) /\ Sound(a)'
    BY <1>1, <1>3, <1>4, UntouchedAdvances, UntouchedSound
  <1>6. TargetSound' /\ HistorySound'
    BY <1>1, <1>2, <1>3, UntouchedAdvances, TargetStays, SameRuntime DEF IInv
  <1> QED
    BY <1>2, <1>3, <1>4, <1>5, <1>6, SameRuntime

\* What phase k of attempt a will say is so.
PhaseDue(a, k, intent) ==
    /\ k = CanonicalCreated => Verified(intent) /\ made[a] >= 1
    /\ k = TargetUpdated => Landed(a)
    /\ k = TemporaryCleaned => temp[a] = "none"
    /\ k = RuntimeFinalized => OutcomeOf(a) = "success"
    /\ k = LandEventRecorded => a \in landEvents
    /\ k = TaskCleaned /\ intent.cleanup => Gone(a)

PhaseRecorded(a, row, k) ==
    /\ tx' = [tx EXCEPT ![a] = row]
    /\ AppendRow(a, "phase", k)
    /\ UNCHANGED <<runtime, landEvents, git, moves, failures>>

\* The next phase is recorded, and what it says is so.
LEMMA PhaseRow ==
    ASSUME IInv, NEW a \in AttemptIds, Started(a), NEW k \in 1 .. Complete, NEW intent \in Intents,
           tx[a].phase = k - 1, tx[a].abort = 0, k > 1 => intent = tx[a].intent,
           PhaseDue(a, k, intent), NEW row, row = Recorded(tx[a], k, intent, made[a]),
           PhaseRecorded(a, row, k)
    PROVE  /\ Shared' /\ HistorySound' /\ TargetSound' /\ TargetGrows
           /\ \A b \in AttemptIds \ {a} : Untouched(b)
           /\ AdvancesAt(a) /\ Sound(a)'
           /\ (Started(a)' <=> Started(a)) /\ source' = source
           /\ tx'[a] = row /\ row \in Transactions /\ row.phase = k /\ row.intent = intent
  <1>1. Shared /\ Sound(a)
    BY TypeParts DEF IInv
  <1>2. /\ tx' = [tx EXCEPT ![a] = row] /\ AppendRow(a, "phase", k)
        /\ UNCHANGED <<runtime, landEvents, git, moves, failures>>
    BY DEF PhaseRecorded
  <1>3. tx[a] \in Transactions /\ made[a] \in Nat
    BY <1>1 DEF Shared, Transactions
  <1>4. /\ row \in Transactions /\ row.phase = k /\ row.abort = 0 /\ row.intent = intent
        /\ row.canonical = IF k = CanonicalCreated THEN made[a] ELSE tx[a].canonical
    <2>1. PICK old, commit : old = tx[a] /\ commit = made[a]
      OBVIOUS
    <2>2. old \in Transactions /\ commit \in Nat /\ old.abort = 0
      BY <1>3, <2>1
    <2>3. k # IntentRecorded => old.intent = intent
      BY <2>1
    <2>4. row = Recorded(old, k, intent, commit)
      BY <2>1
    <2>5. PICK c : c = IF k = CanonicalCreated THEN commit ELSE old.canonical
      OBVIOUS
    <2>6. c \in Nat
      BY ONLY <2>2, <2>5 DEF Transactions
    <2>7. intent = IF k = IntentRecorded THEN intent ELSE old.intent
      BY ONLY <2>3
    <2>8. row = [old EXCEPT !.phase = k, !.intent = intent, !.canonical = c]
      BY ONLY <2>4, <2>5, <2>7 DEF Recorded
    <2>9. /\ row \in Transactions /\ row.phase = k /\ row.abort = 0 /\ row.intent = intent
          /\ row.canonical = c
      <3>1. intent \in Intents \cup {None} /\ k \in 0 .. Complete
        OBVIOUS
      <3>2. PICK I, F, B : I = Intents \cup {None} /\ F = 0 .. Complete /\ B = 0 .. AbortComplete
        OBVIOUS
      <3>3. old \in [intent: I, phase: F, abort: B, canonical: Nat] /\ intent \in I /\ k \in F
        BY ONLY <2>2, <3>1, <3>2 DEF Transactions
      <3>4. /\ row \in [intent: I, phase: F, abort: B, canonical: Nat]
            /\ row.phase = k /\ row.abort = old.abort /\ row.intent = intent /\ row.canonical = c
        BY ONLY <2>6, <2>8, <3>3
      <3> QED
        BY ONLY <2>2, <3>2, <3>4 DEF Transactions
    <2> QED
      BY <2>1, <2>5, <2>9
  <1>6. tx'[a] = row
    BY <1>1, <1>2 DEF Shared
  <1>7. /\ Shape(a)'
        /\ rows' \in [AttemptIds -> Seq([kind: {"phase", "abort"}, n: 1 .. Complete])]
        /\ \A b \in AttemptIds \ {a} : rows'[b] = rows[b]
    <2>1. k \in 0 .. Complete /\ 0 \in 0 .. AbortComplete /\ k = tx[a].phase + 1
      OBVIOUS
    <2>2. tx'[a].phase = k /\ tx'[a].abort = 0 /\ Shape(a)
      BY <1>1, <1>4, <1>6 DEF Sound
    <2> QED
      BY <1>1, <1>2, <2>1, <2>2, RowAppended
  <1>8. /\ row.phase >= tx[a].phase /\ row.abort >= tx[a].abort
        /\ tx[a].phase >= IntentRecorded => row.intent = tx[a].intent
        /\ tx[a].phase >= CanonicalCreated => row.canonical = tx[a].canonical
    BY <1>4
  <1>9. /\ Shared' /\ HistorySound' /\ TargetSound' /\ TargetGrows
        /\ \A b \in AttemptIds \ {a} : Untouched(b)
        /\ AdvancesAt(a) /\ AttemptSound(a)' /\ tx'[a] = row
        /\ Landed(a) => Landed(a)'
        /\ (Started(a)' <=> Started(a)) /\ OutcomeOf(a)' = OutcomeOf(a)
        /\ (Gone(a)' <=> Gone(a)) /\ verdict' = verdict /\ temp' = temp /\ source' = source
        /\ made' = made /\ target' = target /\ landEvents' = landEvents
    BY ONLY IInv, a \in AttemptIds, <1>2, <1>4, <1>7, <1>8, RowEffect
  <1>10. TransactionSound(a)'
    <2> USE DEF PhaseDue
    <2>1. TransactionSound(a)
      BY <1>1 DEF Sound
    <2>2. ASSUME NEW n \in 1 .. Complete, k >= n
          PROVE  k = n \/ tx[a].phase >= n
      BY <2>2
    <2>3. HasIntent(a)' /\ ~AbortSeen(a)'
      BY <1>4, <1>9, NoneAssumption DEF HasIntent, AbortSeen
    <2>4. (k >= CanonicalCreated) <=> (row.canonical >= 1)
      BY <1>3, <1>4, <2>1, <2>2 DEF TransactionSound
    <2>5. k >= CanonicalCreated => Verified(intent)
      BY <1>8, <1>4, <2>1, <2>2 DEF TransactionSound
    <2>6. k >= TargetUpdated => Landed(a)'
      BY <1>9, <2>1, <2>2 DEF TransactionSound
    <2>7. k >= TemporaryCleaned => temp[a] = "none"
      BY <2>1, <2>2 DEF TransactionSound
    <2>8. k >= RuntimeFinalized => OutcomeOf(a) = "success"
      BY <2>1, <2>2 DEF TransactionSound
    <2>9. k >= LandEventRecorded => a \in landEvents
      BY <2>1, <2>2 DEF TransactionSound
    <2>10. k >= TaskCleaned /\ intent.cleanup => Gone(a)
      BY <1>4, <1>8, <2>1, <2>2 DEF TransactionSound
    <2>11. k >= IntentRecorded
      OBVIOUS
    <2>12. ~(row.abort >= AbortFinalized)
      BY <1>4
    <2> QED
      BY ONLY <1>4, <1>6, <1>9, <2>3, <2>4, <2>5, <2>6, <2>7, <2>8, <2>9, <2>10, <2>11, <2>12, Started(a)
         DEF TransactionSound
  <1>11. Sound(a)'
    BY <1>7, <1>9, <1>10 DEF Sound
  <1> QED
    BY <1>4, <1>9, <1>11

LEMMA RecordPhaseStep ==
    ASSUME IInv, NEW p \in Procs, RecordPhase(p)
    PROVE  IInv'
  <1>1. PICK my \in Locals : my = local[p]
    BY InHandFits
  <1>2. my.at = "record"
    BY <1>1 DEF RecordPhase, At
  <1>3. PICK a \in AttemptIds : a = my.a
    BY <1>1, <1>2, RecordStage
  <1>4. /\ my.at \in Inside /\ my # Idle /\ Started(a) /\ Section(my) /\ Sound(a) /\ Shared
        /\ my.op \in Lands /\ LandFits(my)
    BY <1>1, <1>2, <1>3, RecordStage
  <1>5. PICK k \in 1 .. Complete, intent \in Intents : k = my.k /\ intent = my.intent
    BY <1>1, <1>2, RecordStage
  <1>6. /\ tx[a].phase >= k - 1
        /\ k > 1 => intent = tx[a].intent
        /\ tx[a].phase = k - 1 => Due(my)
    BY <1>2, <1>3, <1>4, <1>5 DEF LandFits
  <1>7. tx[a].abort \in 0 .. AbortComplete /\ tx[a].phase \in 0 .. Complete /\ tx[a] \in Transactions
    BY <1>4, TxFields DEF Shared, Transactions
  <1>8. UNCHANGED <<runtime, landEvents, git, moves, failures>>
    BY DEF RecordPhase
  <1>9. CASE tx[a].phase >= k
    <2>1. tx[a].intent = intent /\ Proceed(p, tx[a]) /\ UNCHANGED <<rows, tx>>
      BY <1>1, <1>3, <1>5, <1>9 DEF RecordPhase
    <2>2. /\ Shared' /\ HistorySound' /\ TargetSound' /\ TargetGrows
          /\ \A b \in AttemptIds \ {a} : Untouched(b)
          /\ AdvancesAt(a) /\ Sound(a)'
          /\ (Started(a)' <=> Started(a)) /\ source' = source
      <3>1. UNCHANGED <<runtime, evidence, git, moves, failures>>
        BY <1>8, <2>1 DEF evidence
      <3> QED
        BY <3>1, NothingDone
    <2>3. PICK row \in Transactions : row = tx[a]
      BY <1>7
    <2>4. /\ row.phase >= 1 /\ Proceed(p, row) /\ tx'[my.a] = row /\ row.intent = my.intent
          /\ my.intent \in Intents /\ Started(my.a)'
      BY <1>3, <1>4, <1>5, <1>7, <1>9, <2>1, <2>2, <2>3
    <2>5. PICK job \in Locals : Goto(p, job) /\ LockMoves(p, job) /\ Fits(job)'
      BY ONLY <1>1, <1>4, <2>3, <2>4, p \in Procs, ProceedJob
    <2>6. local[p].a = a /\ source'[a].commits = source[a].commits /\ Section(local[p])
      BY <1>1, <1>3, <1>4, <2>2
    <2> QED
      BY ONLY IInv, p \in Procs, a \in AttemptIds, <2>2, <2>5, <2>6, EffectStep
  <1>10. CASE ~(tx[a].phase >= k)
    <2>1. tx[a].phase = k - 1
      BY <1>6, <1>7, <1>10
    <2>2. PICK next : next = Recorded(tx[a], k, intent, made[a])
      OBVIOUS
    <2>3. /\ ~AbortSeen(a) /\ tx' = [tx EXCEPT ![a] = next] /\ AppendRow(a, "phase", k)
          /\ Proceed(p, next) \/ Raise(p, "fatal")
      <3>1. ~(tx[my.a].phase >= my.k)
        BY <1>3, <1>5, <1>10
      <3>2. next = Recorded(tx[my.a], my.k, my.intent, made[my.a])
        BY <1>3, <1>5, <2>2
      <3>3. /\ ~AbortSeen(my.a) /\ tx' = [tx EXCEPT ![my.a] = next] /\ AppendRow(my.a, "phase", my.k)
            /\ Proceed(p, next) \/ Raise(p, "fatal")
        BY ONLY <1>1, <3>1, <3>2, RecordPhase(p) DEF RecordPhase
      <3> QED
        BY ONLY <1>3, <1>5, <3>3
    <2>4. tx[a].abort = 0
      BY <1>7, <2>3 DEF AbortSeen
    <2>5. PhaseDue(a, k, intent)
      BY ONLY <1>3, <1>5, <1>6, <2>1 DEF Due, PhaseDue
    <2>6. PhaseRecorded(a, next, k)
      BY ONLY <1>8, <2>3 DEF PhaseRecorded
    <2>7. /\ Shared' /\ HistorySound' /\ TargetSound' /\ TargetGrows
          /\ \A b \in AttemptIds \ {a} : Untouched(b)
          /\ AdvancesAt(a) /\ Sound(a)'
          /\ (Started(a)' <=> Started(a)) /\ source' = source
          /\ tx'[a] = next /\ next \in Transactions /\ next.phase = k /\ next.intent = intent
      BY ONLY IInv, a \in AttemptIds, k \in 1 .. Complete, intent \in Intents,
              <1>4, <1>6, <2>1, <2>2, <2>4, <2>5, <2>6, PhaseRow
    <2>8. next \in Transactions
      BY <2>7
    <2>9. /\ next.phase >= 1 /\ tx'[my.a] = next /\ next.intent = my.intent
          /\ my.intent \in Intents /\ Started(my.a)' /\ my.a \in AttemptIds
      BY <1>3, <1>4, <1>5, <2>7
    <2>10. PICK job \in Locals : Goto(p, job) /\ LockMoves(p, job) /\ Fits(job)'
      <3>1. CASE Proceed(p, next)
        BY ONLY <1>1, <1>4, <2>8, <2>9, <3>1, p \in Procs, ProceedJob
      <3>2. CASE Raise(p, "fatal")
        BY ONLY <1>1, <2>9, <3>2, p \in Procs, "fatal" \in {"fatal", "recoverable"}, RaiseJob
      <3> QED
        BY <2>3, <3>1, <3>2
    <2>11. local[p].a = a /\ source'[a].commits = source[a].commits /\ Section(local[p])
      BY <1>1, <1>3, <1>4, <2>7
    <2> QED
      BY ONLY IInv, p \in Procs, a \in AttemptIds, <2>7, <2>10, <2>11, EffectStep
  <1> QED
    BY <1>9, <1>10

-----------------------------------------------------------------------------
(***************************************************************************)
(* The invariant holds.                                                    *)
(***************************************************************************)
LEMMA InitHolds == Init => IInv
  <1> SUFFICES ASSUME Init
               PROVE  IInv
    OBVIOUS
  <1>1. Attempts = <<>> /\ \A a : ~Started(a)
    BY DEF Init, Attempts, Started
  <1>2. \A p \in Procs : local[p] = Idle
    BY DEF Init
  <1>3. TypeOK
    BY IdleFits, NoneAssumption DEF Init, TypeOK, NoTransaction
  <1>4. LockSound
    BY <1>2, IdleFits, FreeAssumption DEF Init, LockSound
  <1>5. HistorySound /\ TargetSound
    BY <1>1 DEF Init, HistorySound, TargetSound
  <1>6. ASSUME NEW a \in AttemptIds
        PROVE  Sound(a)
    <2>1. /\ tx[a].intent = None /\ tx[a].phase = 0 /\ tx[a].abort = 0 /\ tx[a].canonical = 0
          /\ rows[a] = <<>> /\ verdict[a] = None /\ temp[a] = "none" /\ landEvents = {}
      BY DEF Init, NoTransaction
    <2>2. Shape(a)
      BY <2>1 DEF Shape
    <2>3. TransactionSound(a)
      BY <2>1 DEF TransactionSound, HasIntent, AbortSeen
    <2>4. AttemptSound(a)
      BY <1>1, <2>1 DEF AttemptSound
    <2> QED
      BY <2>2, <2>3, <2>4 DEF Sound
  <1>7. JobsFit
    BY <1>2, IdleFits DEF JobsFit
  <1> QED
    BY <1>3, <1>4, <1>5, <1>6, <1>7 DEF IInv

LEMMA NextHolds ==
    ASSUME IInv, Next
    PROVE  IInv'
  <1>1. CASE Cancel \/ Reopen
    BY <1>1, MoveTaskStep
  <1>2. CASE ForeignCommit
    BY <1>2, ForeignCommitStep
  <1>3. ASSUME NEW a \in AttemptIds, Begin(a) \/ AgentCommit(a)
        PROVE  IInv'
    BY <1>3, BeginStep, AgentCommitStep
  <1>4. ASSUME NEW p \in Procs, Step(p)
        PROVE  IInv'
    <2>1. CASE LandFreeze(p) \/ LandEnter(p) \/ ReconcileEnter(p) \/ CloseEnter(p)
      BY <2>1, LandFreezeStep, LandEnterStep, ReconcileEnterStep, CloseEnterStep
    <2>2. CASE RecordPhase(p)
      BY <2>2, RecordPhaseStep
    <2>3. CASE \/ RecordRefuse(p) \/ TempRefuse(p) \/ StaleTarget(p)
               \/ FinishConflict(p) \/ RefuseCleanup(p) \/ AbortRefuse(p)
      BY <2>3, RefuseSteps
    <2>4. CASE TempAdd(p) \/ MakeCommit(p) \/ VerifyCommit(p) \/ UpdateTarget(p) \/ TempRemove(p)
      BY <2>4, TempAddStep, MakeCommitStep, VerifyCommitStep, UpdateTargetStep, TempRemoveStep
    <2>5. CASE FinishRequest(p) \/ FinishSave(p) \/ LandEvent(p)
      BY <2>5, FinishRequestStep, FinishSaveStep, LandEventStep
    <2>6. CASE ProveCleanup(p) \/ RemoveWorktree(p) \/ DeleteBranch(p)
      BY <2>6, ProveCleanupStep, RemoveWorktreeStep, DeleteBranchStep
    <2>7. CASE Caught(p) \/ AbortEnter(p) \/ AbortRequest(p) \/ RecordAbort(p)
      BY <2>7, CaughtStep, AbortEnterStep, AbortRequestStep, RecordAbortStep
    <2> QED
      BY <1>4, <2>1, <2>2, <2>3, <2>4, <2>5, <2>6, <2>7 DEF Step
  <1>5. ASSUME NEW p \in Procs, DirtyTarget(p) \/ Fault(p) \/ Die(p)
        PROVE  IInv'
    BY <1>5, RefuseSteps, FailureSteps
  <1>6. ASSUME NEW p \in Procs, NEW a \in AttemptIds, Call(p, a)
        PROVE  IInv'
    <2>1. CASE LandFresh(p, a) \/ LandRetry(p, a) \/ LandForeign(p, a)
      BY <2>1, LandFreshStep, LandRetryStep, LandForeignStep
    <2>2. CASE Reconcile(p, a) \/ Close(p, a) \/ Recover(p, a) \/ Cleanup(p, a)
      BY <2>2, ReconcileStep, CloseStep, RecoverStep, CleanupStep
    <2> QED
      BY <1>6, <2>1, <2>2 DEF Call
  <1> QED
    BY <1>1, <1>2, <1>3, <1>4, <1>5, <1>6 DEF Next

LEMMA StutterHolds ==
    ASSUME IInv, UNCHANGED vars
    PROVE  IInv'
  <1>1. UNCHANGED <<runtime, evidence, git, moves, failures>> /\ lock' = lock /\ local' = local
    BY DEF vars, runtime, evidence, git
  <1>2. \A b \in AttemptIds : Sound(b)'
    BY <1>1, NothingDone
  <1>3. Shared /\ Shared' /\ HistorySound' /\ TargetSound' /\ TargetGrows
    <2> USE DEF runtime, evidence, git
    <2>1. Shared
      BY TypeParts DEF IInv
    <2>2. Shared'
      BY <1>1, <2>1 DEF Shared
    <2>3. HistorySound'
      BY <1>1 DEF IInv, HistorySound, Attempts
    <2>4. TargetSound'
      BY <1>1 DEF IInv, TargetSound, Canonical
    <2> QED
      BY <1>1, <2>1, <2>2, <2>3, <2>4 DEF TargetGrows
  <1>4. \A b \in AttemptIds : Untouched(b)
    BY <1>1, SameRuntime DEF runtime, evidence, git, Untouched
  <1> QED
    BY <1>1, <1>3, <1>4, StillStep

\* Calls, failures, deaths and repetitions in any order keep the ledger, the
\* runtime, Git and what every command has in hand in step with each other.
THEOREM InvariantHolds == Spec => []IInv
  <1>1. IInv /\ [Next]_vars => IInv'
    BY NextHolds, StutterHolds
  <1> QED
    BY <1>1, InitHolds, PTL DEF Spec

-----------------------------------------------------------------------------
(***************************************************************************)
(* What the invariant says of the properties.                              *)
(***************************************************************************)
\* Every variable holds what the code stores in it.
THEOREM TypeCorrect == Spec => []TypeOK
  <1>1. IInv => TypeOK
    BY DEF IInv
  <1> QED
    BY <1>1, InvariantHolds, PTL

\* A commit of an attempt on the target branch is the one its transaction
\* records, directly on the frozen base, of a source rebased onto that base.
THEOREM LandsAlwaysOnceOnItsBase == Spec => []LandsOnceOnItsBase
  <1>1. ASSUME IInv, NEW i \in DOMAIN target, target[i] # Foreign
        PROVE  LET a == target[i].of
               IN  /\ HasIntent(a)
                   /\ target[i] = Canonical(a, tx[a].canonical)
                   /\ i = tx[a].intent.base + 1
                   /\ Verified(tx[a].intent)
    <2>1. PICK a : a = target[i].of
      OBVIOUS
    <2>2. /\ a \in AttemptIds /\ tx[a].phase >= CanonicalCreated
          /\ target[i] = Canonical(a, tx[a].canonical) /\ i = tx[a].intent.base + 1
      BY <1>1, <2>1 DEF IInv, TargetSound
    <2>3. TransactionSound(a) /\ tx[a].phase \in 0 .. Complete
      BY <1>1, <2>2, TypeParts, TxFields DEF IInv, Sound
    <2>4. HasIntent(a) /\ Verified(tx[a].intent)
      BY <2>2, <2>3 DEF TransactionSound
    <2> QED
      BY <2>1, <2>2, <2>4
  <1>2. IInv => LandsOnceOnItsBase
    BY <1>1 DEF LandsOnceOnItsBase
  <1> QED
    BY <1>2, InvariantHolds, PTL

RowsAre(ledger, phase, abort) ==
    /\ DOMAIN ledger = 1 .. phase + abort
    /\ \A i \in 1 .. phase : ledger[i] = [kind |-> "phase", n |-> i]
    /\ \A i \in 1 .. abort : ledger[phase + i] = [kind |-> "abort", n |-> i]
    /\ abort >= 1 => phase \in IntentRecorded .. CanonicalCreated

\* Rows of the shape the invariant gives them pass the loader, and it counts
\* the phases and abort stages of the transaction.
LEMMA ShapeLoads ==
    ASSUME NEW ledger, NEW phase \in 0 .. Complete, NEW abort \in 0 .. AbortComplete,
           RowsAre(ledger, phase, abort)
    PROVE  Loadable(ledger) /\ Loaded(ledger) = [phase |-> phase, abort |-> abort]
  <1> USE DEF RowsAre
  <1>1. phase \in Nat /\ abort \in Nat /\ DOMAIN ledger = 1 .. phase + abort
    OBVIOUS
  <1>2. ASSUME NEW i \in 1 .. phase + abort
        PROVE  \/ i \in 1 .. phase /\ ledger[i].kind = "phase" /\ ledger[i].n = i
               \/ /\ i \in phase + 1 .. phase + abort
                  /\ ledger[i].kind = "abort" /\ ledger[i].n = i - phase
    <2>1. CASE i \in 1 .. phase
      <3>1. ledger[i] = [kind |-> "phase", n |-> i]
        BY <2>1
      <3> QED
        BY ONLY <2>1, <3>1
    <2>2. CASE i \in phase + 1 .. phase + abort
      <3>1. PICK j \in 1 .. abort : j = i - phase
        BY ONLY <1>1, <2>2
      <3>2. i = phase + j
        BY ONLY <1>1, <2>2, <3>1
      <3>3. ledger[i] = [kind |-> "abort", n |-> j]
        BY <3>2
      <3> QED
        BY ONLY <2>2, <3>1, <3>3
    <2>3. i \in 1 .. phase \/ i \in phase + 1 .. phase + abort
      BY ONLY <1>1, i \in 1 .. phase + abort
    <2> QED
      BY <2>1, <2>2, <2>3
  <1>3. 1 .. phase \subseteq 1 .. phase + abort /\ phase + 1 .. phase + abort \subseteq 1 .. phase + abort
    BY ONLY <1>1
  <1>4. Positions(ledger, "phase") = 1 .. phase
    <2>1. ASSUME NEW i \in 1 .. phase + abort
          PROVE  ledger[i].kind = "phase" <=> i \in 1 .. phase
      BY ONLY <1>1, <1>2, i \in 1 .. phase + abort
    <2>2. \A i \in 1 .. phase : i \in DOMAIN ledger
      BY ONLY <1>1, <1>3
    <2> QED
      BY ONLY <1>1, <2>1, <2>2 DEF Positions
  <1>5. Positions(ledger, "abort") = phase + 1 .. phase + abort
    <2>1. ASSUME NEW i \in 1 .. phase + abort
          PROVE  ledger[i].kind = "abort" <=> i \in phase + 1 .. phase + abort
      BY ONLY <1>1, <1>2, i \in 1 .. phase + abort
    <2>2. \A i \in phase + 1 .. phase + abort : i \in DOMAIN ledger
      BY ONLY <1>1, <1>3
    <2> QED
      BY ONLY <1>1, <2>1, <2>2 DEF Positions
  <1>6. StrictPrefix(ledger, "phase")
    <2>1. ASSUME NEW i \in 1 .. phase
          PROVE  ledger[i].n = Cardinality({j \in 1 .. phase : j <= i})
      <3>1. {j \in 1 .. phase : j <= i} = 1 .. i
        BY ONLY <1>1, i \in 1 .. phase
      <3>2. Cardinality(1 .. i) = i
        BY ONLY FS_Interval, i \in 1 .. phase, <1>1
      <3>3. ledger[i].n = i
        BY ONLY <1>1, <1>2, <1>3, i \in 1 .. phase
      <3> QED
        BY ONLY <3>1, <3>2, <3>3
    <2> QED
      BY ONLY <1>4, <2>1 DEF StrictPrefix
  <1>7. StrictPrefix(ledger, "abort")
    <2>1. ASSUME NEW i \in phase + 1 .. phase + abort
          PROVE  ledger[i].n = Cardinality({j \in phase + 1 .. phase + abort : j <= i})
      <3>1. {j \in phase + 1 .. phase + abort : j <= i} = phase + 1 .. i
        BY ONLY <1>1, i \in phase + 1 .. phase + abort
      <3>2. Cardinality(phase + 1 .. i) = i - phase
        <4>1. phase + 1 \in Int /\ i \in Int /\ ~(phase + 1 > i) /\ i - (phase + 1) + 1 = i - phase
          BY ONLY <1>1, i \in phase + 1 .. phase + abort
        <4> QED
          BY ONLY <4>1, FS_Interval
      <3>3. ledger[i].n = i - phase
        <4>1. i \in 1 .. phase + abort /\ i \notin 1 .. phase
          BY ONLY <1>1, i \in phase + 1 .. phase + abort
        <4> QED
          BY ONLY <1>2, <4>1
      <3> QED
        BY ONLY <3>1, <3>2, <3>3
    <2> QED
      BY ONLY <1>5, <2>1 DEF StrictPrefix
  <1>8. AbortInPlace(ledger)
    <2>1. ASSUME NEW i \in 1 .. phase + abort, NEW j \in 1 .. phase + abort, ledger[i].kind = "abort"
          PROVE  /\ ledger[1].kind = "phase"
                 /\ ledger[j].kind = "phase" => j < i /\ ledger[j].n < TargetUpdated
      <3>1. i \in phase + 1 .. phase + abort
        BY ONLY <1>2, <2>1
      <3>2. abort >= 1
        BY ONLY <1>1, <3>1
      <3>3. phase \in IntentRecorded .. CanonicalCreated
        BY <3>2
      <3>4. ledger[1].kind = "phase"
        BY <1>2, <1>3, <3>3
      <3>5. ASSUME ledger[j].kind = "phase"
            PROVE  j < i /\ ledger[j].n < TargetUpdated
        <4>1. j \in 1 .. phase /\ ledger[j].n = j
          BY ONLY <1>2, <3>5
        <4> QED
          BY <3>1, <3>3, <4>1
      <3> QED
        BY <3>4, <3>5
    <2> QED
      BY ONLY <1>1, <1>7, <2>1 DEF AbortInPlace
  <1>9. Cardinality(1 .. phase) = phase /\ Cardinality(phase + 1 .. phase + abort) = abort
    <2>1. Cardinality(1 .. phase) = phase
      <3>1. 1 \in Int /\ phase \in Int /\ (1 > phase => phase = 0) /\ phase - 1 + 1 = phase
        BY ONLY <1>1
      <3> QED
        BY ONLY <3>1, FS_Interval
    <2>2. Cardinality(phase + 1 .. phase + abort) = abort
      <3>1. PICK lo, hi : lo = phase + 1 /\ hi = phase + abort
        OBVIOUS
      <3>2. lo \in Int /\ hi \in Int /\ (lo > hi => abort = 0) /\ hi - lo + 1 = abort
        BY ONLY <1>1, <3>1
      <3>3. Cardinality(lo .. hi) = abort
        BY ONLY <3>2, FS_Interval
      <3> QED
        BY <3>1, <3>3
    <2> QED
      BY <2>1, <2>2
  <1> QED
    BY <1>4, <1>5, <1>6, <1>8, <1>9 DEF Loadable, Loaded

\* Whatever calls append side by side, load_landing_transaction accepts the
\* rows of every transaction and returns what the commands went by.
THEOREM LedgerAlwaysLoads == Spec => []LedgerLoads
  <1>1. ASSUME IInv, NEW a \in AttemptIds
        PROVE  Loadable(rows[a]) /\ Loaded(rows[a]) = DurableTx(a)
    <2>1. Shape(a) /\ TransactionSound(a) /\ Shared
      BY <1>1, TypeParts DEF IInv, Sound
    <2>2. PICK phase \in 0 .. Complete, abort \in 0 .. AbortComplete :
             phase = tx[a].phase /\ abort = tx[a].abort
      BY <2>1, TxFields
    <2>3. PICK ledger : ledger = rows[a]
      OBVIOUS
    <2>4. DOMAIN ledger = 1 .. phase + abort
      <3>1. PICK R : R = [kind: {"phase", "abort"}, n: 1 .. Complete]
        OBVIOUS
      <3>2. ledger \in Seq(R)
        BY <2>1, <2>3, <3>1 DEF Shared
      <3>3. Len(ledger) = phase + abort
        BY <2>1, <2>2, <2>3 DEF Shape
      <3> QED
        BY ONLY <3>2, <3>3
    <2>5. /\ \A i \in 1 .. phase : ledger[i] = [kind |-> "phase", n |-> i]
          /\ \A i \in 1 .. abort : ledger[phase + i] = [kind |-> "abort", n |-> i]
      BY <2>1, <2>2, <2>3 DEF Shape
    <2>6. abort >= 1 => phase \in IntentRecorded .. CanonicalCreated
      BY <2>1, <2>2 DEF TransactionSound, AbortSeen
    <2>7. RowsAre(ledger, phase, abort)
      BY ONLY <2>4, <2>5, <2>6 DEF RowsAre
    <2>8. Loadable(ledger) /\ Loaded(ledger) = [phase |-> phase, abort |-> abort]
      BY ONLY phase \in 0 .. Complete, abort \in 0 .. AbortComplete, <2>7, ShapeLoads
    <2> QED
      BY <2>2, <2>3, <2>8 DEF DurableTx
  <1>2. IInv => LedgerLoads
    BY <1>1 DEF LedgerLoads
  <1> QED
    BY <1>2, InvariantHolds, PTL

\* An attempt ends in success only with its commit on the target branch, and
\* worktree.land is reported only of such an attempt.
THEOREM SuccessAlwaysLanded == Spec => []SuccessIsLanded
  <1>1. ASSUME IInv, NEW a \in AttemptIds
        PROVE  /\ Started(a) /\ OutcomeOf(a) = "success" => Landed(a)
               /\ a \in landEvents => Started(a) /\ OutcomeOf(a) = "success"
    BY <1>1 DEF IInv, Sound, AttemptSound, TransactionSound
  <1>2. IInv => SuccessIsLanded
    BY <1>1 DEF SuccessIsLanded
  <1> QED
    BY <1>2, InvariantHolds, PTL

\* A task branch that is gone held no commit, or exactly what was frozen and
\* landed.
THEOREM NoWorkIsEverLost == Spec => []NoWorkLost
  <1>1. ASSUME IInv, NEW a \in AttemptIds, Started(a), ~source[a].branch
        PROVE  \/ source[a].commits = 0
               \/ Landed(a) /\ source[a].commits = tx[a].intent.head
    BY <1>1 DEF IInv, Sound, AttemptSound, TransactionSound, Kept
  <1>2. IInv => NoWorkLost
    BY <1>1 DEF NoWorkLost
  <1> QED
    BY <1>2, InvariantHolds, PTL

\* A complete transaction is landed, done and cleaned as requested, and an
\* abort past its runtime stage is what ended its attempt as blocked.
THEOREM SettledAlwaysAgree == Spec => []SettledAgree
  <1>1. ASSUME IInv, NEW a \in AttemptIds
        PROVE  /\ tx[a].phase = Complete =>
                     /\ OutcomeOf(a) = "success"
                     /\ Landed(a)
                     /\ a \in landEvents
                     /\ temp[a] = "none"
                     /\ tx[a].intent.cleanup => ~source[a].worktree /\ ~source[a].branch
               /\ tx[a].abort >= AbortFinalized =>
                     verdict[a] = [by |-> "abort", status |-> "blocked"] /\ OutcomeOf(a) = "blocked"
    BY <1>1 DEF IInv, Sound, TransactionSound, Gone
  <1>2. IInv => SettledAgree
    BY <1>1 DEF SettledAgree
  <1> QED
    BY <1>2, InvariantHolds, PTL
=============================================================================
