---------------------------- MODULE TaskBeginProofs ----------------------------
(***************************************************************************)
(* What TLAPS proves of task begin, for any number of commands, lineages,  *)
(* attempts and places, with or without a recipe, whatever runs beside it: *)
(* types, whom a success is answered to, what a ready receipt is evidence  *)
(* of, and that receipts only advance.                                     *)
(***************************************************************************)
EXTENDS TaskBegin, TLAPS

(***************************************************************************)
(* The inductive invariant.                                                *)
(***************************************************************************)
Entry == [id: AttemptIds, outcome: {"in_progress", "failed"}]

Before == {"guard", "latest", "check"}
Recording == {"active", "validate", "record", "repair", "events", "claim", "run", "recorded"}
Rest == {"retained", "add", "persist", "create", "start", "caught", "remove", "unbranch", "cleanup"}

Job ==
    [at: Before \cup Recording \cup Rest, lineage: Lineages \cup {None}, place: Places \cup {None},
     new: BOOLEAN, attempt: AttemptIds \cup {None}, from: AttemptIds \cup {None}, made: BOOLEAN,
     start: Trees, expected: Receipts, result: Receipts]

Typed ==
    /\ history \in [{Task} -> Seq(Entry)]
    /\ info \in [AttemptIds -> Rows \cup {None}]
    /\ prompts \in SUBSET Lineages
    /\ branch \in [Places -> Trees \cup {None}]
    /\ worktree \in [Places -> BOOLEAN]
    /\ effect \in [Places -> {"none", "claimed", "done", "unknown"}]
    /\ claimedFor \in [Places -> 0..MaxTrees]
    /\ trees \in 0..MaxTrees
    /\ local \in [Procs -> Job \cup {Idle}]
    /\ answers \in SUBSET [to: Lineages, attempt: AttemptIds]

\* What was seen of a tree is no more than is there now.
Old(seen) ==
    /\ seen.id <= trees
    /\ \A pl \in Places : branch[pl] # None /\ branch[pl].id = seen.id => seen.work <= branch[pl].work

\* A ready receipt is evidence of completed effects.
Backed(receipt, pl) ==
    receipt.status = "ready" => effect[pl] = "done" /\ claimedFor[pl] = receipt.seen.id

RowsSound ==
    \A a \in AttemptIds :
        /\ info[a] # None <=> Runtime!Attempted(a)
        /\ info[a] # None => /\ info[a].lineage \in prompts
                             /\ Backed(info[a].receipt, info[a].place)
                             /\ Old(info[a].receipt.seen)

TreesSound ==
    \A pl \in Places :
        /\ worktree[pl] => branch[pl] # None
        /\ branch[pl] # None => branch[pl].id <= trees
        /\ \A pm \in Places : branch[pl] # None /\ branch[pm] # None /\ branch[pl].id = branch[pm].id => pl = pm

AnswersSound ==
    \A r \in answers : info[r.attempt] # None /\ info[r.attempt].lineage = r.to /\ info[r.attempt].started

\* What a command has read, made or found so far.
Sound(l) ==
    /\ l.at \in (Before \cup Recording \cup Rest) \ {"remove", "unbranch", "cleanup"} => l.lineage \in Lineages
    /\ l.at \in Recording \cup Rest => l.place \in Places
    /\ l.at \in Before \cup {"retained"} => l.result = Plain
    /\ l.at \in Recording \cup Rest => Backed(l.result, l.place)
    /\ l.at \in Before \cup Recording \cup Rest =>
           /\ l.from # None => info[l.from] # None
           /\ Old(l.start) /\ Old(l.expected.seen) /\ Old(l.result.seen)
    /\ l.at \in {"latest", "retained"} => l.from # None
    /\ l.at \in {"add", "persist", "create", "start"} /\ l.from = None => l.result.seen = NoTree
    /\ l.at = "events" /\ l.from = None => l.expected.seen = NoTree
    /\ l.at \in {"create", "start"} => l.lineage \in prompts
    /\ l.at \in Recording =>
           /\ l.attempt \in AttemptIds /\ info[l.attempt] # None
           /\ info[l.attempt].lineage = l.lineage /\ info[l.attempt].place = l.place
    /\ l.at \in {"claim", "run", "recorded"} => info[l.attempt].started /\ l.expected.seen = NoTree
    /\ l.at = "record" /\ l.expected.seen.id = l.result.seen.id =>
           l.expected.seen.work <= l.result.seen.work

IInv == Typed /\ RowsSound /\ TreesSound /\ AnswersSound /\ \A p \in Procs : Sound(local[p])

(***************************************************************************)
(* What never goes back, and so what a command may rely on.                *)
(***************************************************************************)
Later ==
    /\ \A a \in AttemptIds : info[a] # None =>
           /\ info'[a] # None
           /\ info'[a].lineage = info[a].lineage /\ info'[a].place = info[a].place
           /\ info[a].started => info'[a].started
    /\ prompts \subseteq prompts'
    /\ \A pl \in Places : effect[pl] = "done" => effect'[pl] = "done" /\ claimedFor'[pl] = claimedFor[pl]
    /\ trees \in Nat /\ trees' \in Nat /\ trees <= trees'
    /\ \A pl \in Places : branch'[pl] # None =>
           \/ branch'[pl].id > trees
           \/ /\ branch[pl] # None /\ branch'[pl].id = branch[pl].id
              /\ branch'[pl] \in Trees /\ branch[pl] \in Trees /\ branch[pl].work <= branch'[pl].work

LEMMA OldStays ==
    ASSUME NEW s \in Trees, Old(s), Later
    PROVE  Old(s)'
<1>1. s.id \in Nat /\ s.work \in Nat
  BY BoundsAssumption DEF Trees
<1>2. s.id <= trees'
  BY <1>1 DEF Old, Later
<1>3. ASSUME NEW pl \in Places, branch'[pl] # None, branch'[pl].id = s.id
      PROVE  s.work <= branch'[pl].work
  <2>1. /\ branch[pl] # None /\ branch'[pl].id = branch[pl].id
        /\ branch'[pl] \in Trees /\ branch[pl] \in Trees /\ branch[pl].work <= branch'[pl].work
    BY <1>1, <1>3 DEF Later, Old
  <2>2. branch'[pl].work \in Nat /\ branch[pl].work \in Nat
    BY <2>1, BoundsAssumption DEF Trees
  <2>3. s.work <= branch[pl].work
    BY <1>3, <2>1 DEF Old
  <2> QED
    BY <1>1, <2>1, <2>2, <2>3
<1> QED
  BY <1>2, <1>3 DEF Old

LEMMA BackedStays ==
    ASSUME NEW r, NEW pl \in Places, Backed(r, pl), Later
    PROVE  Backed(r, pl)'
BY DEF Backed, Later

LEMMA SoundStays ==
    ASSUME NEW l \in Job \cup {Idle}, Sound(l), Later
    PROVE  Sound(l)'
<1>1. CASE l = Idle
  BY <1>1 DEF Sound, Idle, Before, Recording, Rest
<1>2. CASE l \in Job
  <2>1. l.start \in Trees /\ l.expected.seen \in Trees /\ l.result.seen \in Trees
    BY <1>2 DEF Job, Receipts
  <2>2. l.at \in Before \cup Recording \cup Rest =>
            (Old(l.start) /\ Old(l.expected.seen) /\ Old(l.result.seen))'
    BY <2>1, OldStays DEF Sound
  <2>3. l.at \in Recording \cup Rest => Backed(l.result, l.place)'
    BY BackedStays DEF Sound
  <2>4. l.from \in AttemptIds \cup {None} /\ l.attempt \in AttemptIds \cup {None}
    BY <1>2 DEF Job
  <2>5. l.at \in Before \cup Recording \cup Rest => (l.from # None => info'[l.from] # None)
    BY <2>4 DEF Sound, Later
  <2>6. l.at \in Recording =>
           /\ l.attempt \in AttemptIds /\ info'[l.attempt] # None
           /\ info'[l.attempt].lineage = l.lineage /\ info'[l.attempt].place = l.place
    BY DEF Sound, Later
  <2>7. l.at \in {"claim", "run", "recorded"} => info'[l.attempt].started /\ l.expected.seen = NoTree
    BY DEF Sound, Later, Recording
  <2>8. l.at \in {"create", "start"} => l.lineage \in prompts'
    BY DEF Sound, Later
  <2> HIDE DEF Before, Recording, Rest
  <2> QED
    BY <2>2, <2>3, <2>5, <2>6, <2>7, <2>8 DEF Sound
<1> QED
  BY <1>1, <1>2

(***************************************************************************)
(* The shapes of a step.                                                   *)
(***************************************************************************)
LEMMA IdleSound == Sound(Idle) /\ Idle \notin Job /\ Idle.at = "idle"
BY DEF Sound, Idle, Job, Before, Recording, Rest

LEMMA JobOf ==
    ASSUME IInv, NEW p \in Procs, local[p].at # "idle"
    PROVE  local[p] \in Job /\ Sound(local[p]) /\ local[p] # Idle
BY DEF IInv, Typed, Idle

Shared ==
    /\ history \in [{Task} -> Seq(Entry)]
    /\ info \in [AttemptIds -> Rows \cup {None}]
    /\ prompts \in SUBSET Lineages
    /\ branch \in [Places -> Trees \cup {None}]
    /\ worktree \in [Places -> BOOLEAN]
    /\ effect \in [Places -> {"none", "claimed", "done", "unknown"}]
    /\ claimedFor \in [Places -> 0..MaxTrees]
    /\ trees \in 0..MaxTrees
    /\ answers \in SUBSET [to: Lineages, attempt: AttemptIds]

LEMMA LocalStep ==
    ASSUME IInv, NEW p \in Procs, NEW n \in Job \cup {Idle}, local' = [local EXCEPT ![p] = n],
           Later, Shared', RowsSound', TreesSound', AnswersSound', Sound(n)'
    PROVE  IInv'
<1>1. local' \in [Procs -> Job \cup {Idle}]
  BY DEF IInv, Typed
<1>2. \A q \in Procs : local'[q] = IF q = p THEN n ELSE local[q]
  BY DEF IInv, Typed
<1>3. ASSUME NEW q \in Procs PROVE Sound(local[q])'
  <2>1. PICK l : l = local[q]
    OBVIOUS
  <2>2. l \in Job \cup {Idle} /\ Sound(l)
    BY <2>1 DEF IInv, Typed
  <2>3. Sound(l)'
    BY <2>2, SoundStays
  <2>4. local'[q] = l \/ local'[q] = n
    BY <1>2, <2>1
  <2>5. CASE local'[q] = l
    BY <2>3, <2>5 DEF Sound
  <2>6. CASE local'[q] = n
    BY <2>6 DEF Sound
  <2> QED
    BY <2>4, <2>5, <2>6
<1>4. Typed'
  BY <1>1 DEF Typed, Shared
<1> QED
  BY <1>3, <1>4 DEF IInv

LEMMA SameLater ==
    ASSUME IInv, UNCHANGED <<history, info, prompts, git, recipe>>
    PROVE  Later
<1>1. \A pl \in Places : branch[pl] # None => branch[pl] \in Trees /\ branch[pl].work \in Nat
  BY BoundsAssumption DEF IInv, Typed, Trees
<1>2. trees \in Nat
  BY BoundsAssumption DEF IInv, Typed
<1> QED
  BY <1>1, <1>2 DEF Later, git, recipe

LEMMA SameShared ==
    ASSUME IInv, UNCHANGED <<history, info, prompts, git, recipe>>
    PROVE  /\ RowsSound' /\ TreesSound'
           /\ answers' \in SUBSET [to: Lineages, attempt: AttemptIds] => Shared'
           /\ answers' = answers => AnswersSound'
<1> USE DEF git, recipe
<1>1. RowsSound'
  <2> SUFFICES ASSUME NEW a \in AttemptIds
               PROVE  /\ info[a] # None <=> Runtime!Attempted(a)'
                      /\ info[a] # None => /\ info[a].lineage \in prompts
                                           /\ Backed(info[a].receipt, info[a].place)'
                                           /\ Old(info[a].receipt.seen)'
    BY DEF RowsSound
  <2> QED
    BY DEF IInv, RowsSound, Runtime!Attempted, Backed, Old
<1>2. TreesSound'
  BY DEF IInv, TreesSound
<1>3. answers' \in SUBSET [to: Lineages, attempt: AttemptIds] => Shared'
  BY DEF IInv, Typed, Shared
<1>4. answers' = answers => AnswersSound'
  BY DEF IInv, AnswersSound
<1> QED
  BY <1>1, <1>2, <1>3, <1>4

\* A step that only moves its process on.
LEMMA ReadStep ==
    ASSUME IInv, NEW p \in Procs, NEW n \in Job \cup {Idle}, local' = [local EXCEPT ![p] = n],
           Sound(n), UNCHANGED <<history, info, prompts, git, recipe, answers>>
    PROVE  IInv'
<1>1. Later
  BY SameLater
<1>2. answers' \in SUBSET [to: Lineages, attempt: AttemptIds]
  BY DEF IInv, Typed
<1>3. RowsSound' /\ TreesSound' /\ Shared' /\ AnswersSound'
  BY <1>2, SameShared
<1>4. Sound(n)'
  BY <1>1, SoundStays
<1> QED
  BY <1>1, <1>3, <1>4, LocalStep

LEMMA RefuseStep ==
    ASSUME IInv, NEW p \in Procs, Refuse(p), UNCHANGED <<history, info, prompts, git, recipe, answers>>
    PROVE  IInv'
BY ReadStep, IdleSound DEF Refuse

(***************************************************************************)
(* Facts for the steps.                                                    *)
(***************************************************************************)
LEMMA PlainOld ==
    ASSUME IInv
    PROVE  /\ NoTree \in Trees /\ Plain \in Receipts /\ Pending \in Receipts /\ Old(NoTree)
           /\ \A pl : Backed(Plain, pl) /\ Backed(Pending, pl)
           /\ Plain.seen = NoTree /\ Pending.seen = NoTree
<1>1. NoTree \in Trees /\ NoTree.id = 0 /\ NoTree.work = 0
  BY BoundsAssumption DEF NoTree, Trees
<1>2. Plain \in Receipts /\ Pending \in Receipts
  BY <1>1 DEF Plain, Pending, Receipts
<1>3. 0 <= trees
  BY BoundsAssumption DEF IInv, Typed
<1>4. \A pl \in Places : branch[pl] # None => 0 <= branch[pl].work
  BY BoundsAssumption DEF IInv, Typed, Trees
<1>5. Old(NoTree)
  BY <1>1, <1>3, <1>4 DEF Old
<1>6. \A pl : Backed(Plain, pl) /\ Backed(Pending, pl)
  BY DEF Backed, Plain, Pending
<1> QED
  BY <1>1, <1>2, <1>5, <1>6 DEF Plain, Pending

\* The row of an attempt.
LEMMA RowOf ==
    ASSUME IInv, NEW a \in AttemptIds, info[a] # None
    PROVE  /\ info[a] \in Rows /\ info[a].place \in Places /\ info[a].receipt \in Receipts
           /\ info[a].lineage \in prompts /\ info[a].lineage \in Lineages
           /\ Backed(info[a].receipt, info[a].place) /\ Old(info[a].receipt.seen)
<1>1. info[a] \in Rows
  BY DEF IInv, Typed
<1> QED
  BY <1>1 DEF IInv, RowsSound, Rows

LEMMA EntryOf ==
    ASSUME IInv, NEW i \in DOMAIN Attempts
    PROVE  Attempts[i].id \in AttemptIds /\ info[Attempts[i].id] # None
<1>1. history[Task] \in Seq(Entry)
  BY DEF IInv, Typed
<1>2. Attempts[i] \in Entry
  BY <1>1 DEF Attempts
<1>3. Attempts[i].id \in AttemptIds
  BY <1>2 DEF Entry
<1>4. Runtime!Attempted(Attempts[i].id)
  BY DEF Runtime!Attempted, Attempts
<1> QED
  BY <1>3, <1>4 DEF IInv, RowsSound

LEMMA ActiveHas ==
    ASSUME IInv, NEW a \in Active
    PROVE  a \in AttemptIds /\ info[a] # None
BY EntryOf DEF Active

LEMMA LatestHas ==
    ASSUME IInv, Latest # None
    PROVE  Latest \in AttemptIds /\ info[Latest] # None
<1>1. history[Task] \in Seq(Entry) /\ Attempts # <<>>
  BY DEF IInv, Typed, Latest
<1>2. Len(Attempts) \in DOMAIN Attempts
  BY <1>1 DEF Attempts
<1> QED
  BY <1>1, <1>2, EntryOf DEF Latest

\* One job is like another but for its stage.
Like(n, l) ==
    /\ n.lineage = l.lineage /\ n.place = l.place /\ n.attempt = l.attempt /\ n.from = l.from
    /\ n.made = l.made /\ n.start = l.start /\ n.expected = l.expected /\ n.result = l.result

LEMMA GotoJob ==
    ASSUME IInv, NEW p \in Procs, local[p].at # "idle", NEW s \in Before \cup Recording \cup Rest, Goto(p, s)
    PROVE  \E n \in Job : n.at = s /\ Like(n, local[p]) /\ local' = [local EXCEPT ![p] = n]
<1>1. PICK l : l = local[p]
  OBVIOUS
<1>2. PICK n : n = [l EXCEPT !.at = s]
  OBVIOUS
<1>3. l \in Job
  BY <1>1, JobOf
<1>4. n \in Job /\ n.at = s /\ Like(n, l)
  BY <1>2, <1>3 DEF Job, Like
<1>5. local' = [local EXCEPT ![p] = n]
  BY <1>1, <1>2 DEF Goto
<1> QED
  BY <1>1, <1>4, <1>5

LEMMA GotoStep ==
    ASSUME IInv, NEW p \in Procs, local[p].at # "idle", NEW s \in Before \cup Recording \cup Rest, Goto(p, s),
           UNCHANGED <<history, info, prompts, git, recipe, answers>>,
           \A n \in Job : n.at = s /\ Like(n, local[p]) => Sound(n)
    PROVE  IInv'
BY GotoJob, ReadStep

\* An exception keeps the place, and forgets what the call has found.
LEMMA RaiseJob ==
    ASSUME IInv, NEW p \in Procs, local[p].at \in Guarded, Raise(p)
    PROVE  \E n \in Job : Sound(n) /\ local' = [local EXCEPT ![p] = n]
<1>1. PICK l : l = local[p]
  OBVIOUS
<1>2. PICK n : n = [l EXCEPT !.at = "caught", !.start = NoTree, !.expected = Plain,
                             !.result = Plain, !.attempt = None]
  OBVIOUS
<1>3. l \in Job /\ Sound(l) /\ l.at \in Guarded
  BY <1>1, JobOf DEF Guarded
<1>4. /\ n \in Job /\ n.at = "caught" /\ n.start = NoTree /\ n.expected = Plain /\ n.result = Plain
      /\ n.lineage = l.lineage /\ n.place = l.place /\ n.from = l.from
  BY <1>2, <1>3, PlainOld DEF Job, Before, Recording, Rest
<1>5. /\ l.lineage \in Lineages /\ l.place \in Places
      /\ l.from # None => info[l.from] # None
  BY <1>3 DEF Sound, Guarded, Before, Recording, Rest
<1>6. Sound(n)
  BY <1>4, <1>5, PlainOld DEF Sound, Before, Recording, Rest
<1>7. local' = [local EXCEPT ![p] = n]
  BY <1>1, <1>2 DEF Raise
<1> QED
  BY <1>4, <1>6, <1>7

LEMMA RaiseStep ==
    ASSUME IInv, NEW p \in Procs, local[p].at \in Guarded, Raise(p),
           UNCHANGED <<history, info, prompts, git, recipe, answers>>
    PROVE  IInv'
BY RaiseJob, ReadStep

\* A fresh call, whatever its route makes of it.
LEMMA CallFields ==
    ASSUME NEW lineage, NEW place
    PROVE  Call(lineage, place) =
              [at |-> "", lineage |-> lineage, place |-> place, new |-> status[Task] = "absent",
               attempt |-> None, from |-> None, made |-> FALSE, start |-> NoTree,
               expected |-> Plain, result |-> Plain]
BY DEF Call

(***************************************************************************)
(* The routes.                                                             *)
(***************************************************************************)
LEMMA LoadStep ==
    ASSUME IInv, NEW p \in Procs, Load(p)
    PROVE  IInv'
<1>1. UNCHANGED <<history, info, prompts, git, recipe, answers>>
  BY DEF Load, runtime
<1>2. PICK lineage \in Lineages, place \in Places \cup {None} :
          LoadActive(p, lineage, place) \/ LoadIdle(p, lineage, place)
  BY DEF Load
<1>3. CASE LoadActive(p, lineage, place)
  <2>1. PICK a \in Active :
            /\ info[a].lineage = lineage
            /\ local' = [local EXCEPT ![p] = [Call(lineage, info[a].place)
                  EXCEPT !.at = "active", !.attempt = a, !.expected = info[a].receipt]]
    BY <1>3 DEF LoadActive, SameLineage
  <2>2. a \in AttemptIds /\ info[a] # None
    BY ActiveHas
  <2>3. info[a].place \in Places /\ info[a].receipt \in Receipts /\ Old(info[a].receipt.seen)
    BY <2>2, RowOf
  <2>4. PICK place_, expected_ : place_ = info[a].place /\ expected_ = info[a].receipt
    OBVIOUS
  <2>5. PICK n : n = [Call(lineage, place_) EXCEPT !.at = "active", !.attempt = a, !.expected = expected_]
    OBVIOUS
  <2>6. /\ n.at = "active" /\ n.lineage = lineage /\ n.place = place_ /\ n.attempt = a
        /\ n.from = None /\ n.expected = expected_ /\ n.start = NoTree /\ n.result = Plain
    BY <2>5, CallFields
  <2>7. n \in Job
    <3>1. place_ \in Places /\ expected_ \in Receipts
      BY <2>3, <2>4
    <3>2. "active" \in Before \cup Recording \cup Rest
      BY DEF Recording
    <3>3. NoTree \in Trees /\ Plain \in Receipts
      BY PlainOld
    <3> HIDE DEF Before, Recording, Rest, Plain, NoTree
    <3> QED
      BY <2>2, <2>5, <3>1, <3>2, <3>3, CallFields DEF Job
  <2>8. local' = [local EXCEPT ![p] = n]
    BY <2>1, <2>4, <2>5
  <2>9. Sound(n)
    BY <2>1, <2>2, <2>3, <2>4, <2>6, PlainOld DEF Sound, Before, Recording, Rest
  <2> QED
    BY <1>1, <2>7, <2>8, <2>9, ReadStep
<1>4. CASE LoadIdle(p, lineage, place)
  <2>1. PICK from : from = Latest
    OBVIOUS
  <2>2. from # None => from \in AttemptIds /\ info[from] # None
    BY <2>1, LatestHas
  <2>3. PICK n : n = [Call(lineage, place) EXCEPT !.at = "guard", !.from = from]
    OBVIOUS
  <2>4. /\ n.at = "guard" /\ n.lineage = lineage /\ n.place = place /\ n.attempt = None
        /\ n.from = from /\ n.expected = Plain /\ n.start = NoTree /\ n.result = Plain
    BY <2>3, CallFields
  <2>5. n \in Job
    <3>1. "guard" \in Before \cup Recording \cup Rest
      BY DEF Before
    <3>2. NoTree \in Trees /\ Plain \in Receipts
      BY PlainOld
    <3> HIDE DEF Before, Recording, Rest, Plain, NoTree
    <3> QED
      BY <2>2, <2>3, <3>1, <3>2, CallFields DEF Job
  <2>6. local' = [local EXCEPT ![p] = n]
    BY <1>4, <2>1, <2>3 DEF LoadIdle
  <2>7. Sound(n)
    BY <2>2, <2>4, PlainOld DEF Sound, Before, Recording, Rest
  <2> QED
    BY <1>1, <2>5, <2>6, <2>7, ReadStep
<1> QED
  BY <1>2, <1>3, <1>4

LEMMA GuardStep ==
    ASSUME IInv, NEW p \in Procs, Guard(p)
    PROVE  IInv'
<1>1. UNCHANGED <<history, info, prompts, git, recipe, answers>> /\ local[p].at = "guard"
  BY DEF Guard, runtime, At
<1>2. Sound(local[p])
  BY <1>1, JobOf
<1>3. CASE Refuse(p)
  BY <1>1, <1>3, RefuseStep
<1>4. CASE Goto(p, IF My(p).from = None THEN "check" ELSE "latest")
  <2>1. PICK s \in {"check", "latest"} : Goto(p, s) /\ (s = "latest" => local[p].from # None)
    BY <1>4 DEF My
  <2>2. \A n \in Job : n.at = s /\ Like(n, local[p]) => Sound(n)
    BY <1>1, <1>2, <2>1 DEF Sound, Like, Before, Recording, Rest
  <2> QED
    BY <1>1, <2>1, <2>2, GotoStep DEF Before
<1> QED
  BY <1>3, <1>4 DEF Guard

LEMMA ProveActiveStep ==
    ASSUME IInv, NEW p \in Procs, ProveActive(p)
    PROVE  IInv'
<1>1. UNCHANGED <<history, info, prompts, git, recipe, answers>> /\ local[p].at = "active"
  BY DEF ProveActive, runtime, At
<1>2. Sound(local[p])
  BY <1>1, JobOf
<1>3. CASE Refuse(p)
  BY <1>1, <1>3, RefuseStep
<1>4. CASE Goto(p, "validate")
  <2>1. \A n \in Job : n.at = "validate" /\ Like(n, local[p]) => Sound(n)
    BY <1>1, <1>2 DEF Sound, Like, Before, Recording, Rest
  <2> QED
    BY <1>1, <1>4, <2>1, GotoStep DEF Recording
<1> QED
  BY <1>3, <1>4 DEF ProveActive

LEMMA ProveLatestStep ==
    ASSUME IInv, NEW p \in Procs, ProveLatest(p)
    PROVE  IInv'
<1>1. UNCHANGED <<history, info, prompts, git, recipe, answers>> /\ local[p].at = "latest"
  BY DEF ProveLatest, runtime, At
<1>2. PICK l : l = local[p]
  OBVIOUS
<1>3. l \in Job /\ Sound(l)
  BY <1>1, <1>2, JobOf
<1>4. PICK pl : pl = info[l.from].place
  OBVIOUS
<1>5. l.from \in AttemptIds /\ info[l.from] # None
  BY <1>1, <1>2, <1>3 DEF Sound, Job, Before, Recording, Rest
<1>6. pl \in Places
  BY <1>4, <1>5, RowOf
<1>7. CASE Refuse(p)
  BY <1>1, <1>7, RefuseStep
<1>8. CASE local' = [local EXCEPT ![p].at = "retained", ![p].place = pl]
  <2>1. PICK n : n = [l EXCEPT !.at = "retained", !.place = pl]
    OBVIOUS
  <2>2. /\ n \in Job /\ n.at = "retained" /\ n.place = pl /\ n.lineage = l.lineage /\ n.from = l.from
        /\ n.start = l.start /\ n.expected = l.expected /\ n.result = l.result
    BY <1>3, <1>6, <2>1 DEF Job, Rest
  <2>3. Sound(n)
    BY <1>1, <1>2, <1>3, <1>5, <1>6, <2>2, PlainOld DEF Sound, Before, Recording, Rest
  <2>4. local' = [local EXCEPT ![p] = n]
    BY <1>2, <1>8, <2>1 DEF IInv, Typed
  <2> QED
    BY <1>1, <2>2, <2>3, <2>4, ReadStep
<1>9. CASE local' = [local EXCEPT ![p].at = "check", ![p].from = None]
  <2>1. PICK n : n = [l EXCEPT !.at = "check", !.from = None]
    OBVIOUS
  <2>2. /\ n \in Job /\ n.at = "check" /\ n.place = l.place /\ n.lineage = l.lineage /\ n.from = None
        /\ n.start = l.start /\ n.expected = l.expected /\ n.result = l.result
    BY <1>3, <2>1 DEF Job, Before
  <2>3. Sound(n)
    BY <1>1, <1>2, <1>3, <2>2 DEF Sound, Before, Recording, Rest
  <2>4. local' = [local EXCEPT ![p] = n]
    BY <1>2, <1>9, <2>1 DEF IInv, Typed
  <2> QED
    BY <1>1, <2>2, <2>3, <2>4, ReadStep
<1> QED
  BY <1>2, <1>4, <1>7, <1>8, <1>9 DEF ProveLatest, My

(***************************************************************************)
(* Verification, and what is recorded of it.                               *)
(***************************************************************************)
\* A finding is evidence, and no older than what was seen before.
LEMMA FoundSound ==
    ASSUME IInv, NEW pl \in Places, NEW unseen \in Trees, Old(unseen), NEW found \in Findings(pl, unseen)
    PROVE  /\ found \in Receipts /\ Backed(found, pl) /\ Old(found.seen)
           /\ found.seen.id = unseen.id => unseen.work <= found.seen.work
<1>1. PICK overlay \in BOOLEAN, launcher \in BOOLEAN, prepared \in PreparationFinds(pl) :
          found = [status |-> IF overlay /\ launcher /\ prepared THEN Ready ELSE "blocked",
                   seen   |-> IF worktree[pl] THEN branch[pl] ELSE unseen]
  BY DEF Findings, OverlayFinds, RuntimeFinds
<1>2. worktree[pl] => branch[pl] # None /\ branch[pl] \in Trees /\ branch[pl].id <= trees
  BY DEF IInv, TreesSound, Typed
<1>3. found.seen \in Trees
  BY <1>1, <1>2
<1>4. found.status \in {"plain", "ready", "blocked"}
  BY <1>1 DEF Ready
<1>5. found = [status |-> found.status, seen |-> found.seen]
  BY <1>1
<1>6. found \in Receipts
  BY <1>3, <1>4, <1>5 DEF Receipts
<1>7. Backed(found, pl)
  <2> SUFFICES ASSUME found.status = "ready"
               PROVE  effect[pl] = "done" /\ claimedFor[pl] = found.seen.id
    BY DEF Backed
  <2>1. Recipe /\ prepared
    BY <1>1, RecipeAssumption DEF Ready
  <2>2. Retained(pl)
    BY <2>1 DEF PreparationFinds
  <2> QED
    BY <1>1, <2>1, <2>2 DEF Retained
<1>8. CASE worktree[pl]
  <2>1. found.seen = branch[pl]
    BY <1>1, <1>8
  <2>2. branch[pl].work \in Nat
    BY <1>2, <1>8, BoundsAssumption DEF Trees
  <2>3. Old(found.seen)
    BY <1>2, <1>8, <2>1, <2>2 DEF Old, IInv, TreesSound
  <2>4. found.seen.id = unseen.id => unseen.work <= found.seen.work
    BY <1>2, <1>8, <2>1 DEF Old
  <2> QED
    BY <1>2, <1>6, <1>7, <2>3, <2>4
<1>9. CASE ~worktree[pl]
  <2>1. found.seen = unseen /\ unseen.work \in Nat
    BY <1>1, <1>9, BoundsAssumption DEF Trees
  <2> QED
    BY <1>6, <1>7, <2>1
<1> QED
  BY <1>8, <1>9

\* A process moves on with a result.
Resulting(n, l, s, r) ==
    /\ n.at = s /\ n.result = r /\ n.lineage = l.lineage /\ n.place = l.place
    /\ n.attempt = l.attempt /\ n.from = l.from /\ n.start = l.start /\ n.expected = l.expected

LEMMA ResultJob ==
    ASSUME IInv, NEW p \in Procs, local[p].at # "idle", NEW s \in Before \cup Recording \cup Rest,
           NEW r \in Receipts, local' = [local EXCEPT ![p].at = s, ![p].result = r]
    PROVE  \E n \in Job : Resulting(n, local[p], s, r) /\ local' = [local EXCEPT ![p] = n]
<1>1. PICK l : l = local[p]
  OBVIOUS
<1>2. PICK n : n = [l EXCEPT !.at = s, !.result = r]
  OBVIOUS
<1>3. l \in Job
  BY <1>1, JobOf
<1>4. n \in Job /\ Resulting(n, l, s, r)
  BY <1>2, <1>3 DEF Job, Resulting
<1>5. local' = [local EXCEPT ![p] = n]
  BY <1>1, <1>2 DEF IInv, Typed
<1> QED
  BY <1>1, <1>4, <1>5

LEMMA ValidateStep ==
    ASSUME IInv, NEW p \in Procs, Validate(p)
    PROVE  IInv'
<1>1. UNCHANGED <<history, info, prompts, git, recipe, answers>> /\ local[p].at = "validate"
  BY DEF Validate, runtime, At
<1>2. PICK l : l = local[p]
  OBVIOUS
<1>3. l \in Job /\ Sound(l)
  BY <1>1, <1>2, JobOf
<1>4. l.place \in Places /\ l.expected.seen \in Trees /\ Old(l.expected.seen)
  BY <1>1, <1>2, <1>3 DEF Sound, Job, Receipts, Before, Recording, Rest
<1>5. PICK found \in Findings(l.place, l.expected.seen), s \in {"record", "repair"} :
          local' = [local EXCEPT ![p].at = s, ![p].result = found]
  BY <1>2 DEF Validate, My
<1>6. /\ found \in Receipts /\ Backed(found, l.place) /\ Old(found.seen)
      /\ found.seen.id = l.expected.seen.id => l.expected.seen.work <= found.seen.work
  BY <1>4, FoundSound
<1>7. PICK n \in Job :
          Resulting(n, local[p], s, found) /\ local' = [local EXCEPT ![p] = n]
  <2>1. local[p].at # "idle" /\ s \in Before \cup Recording \cup Rest
    BY <1>1 DEF Recording
  <2> QED
    BY <1>2, <1>5, <1>6, <2>1, ResultJob
<1>8. Sound(n)
  BY <1>1, <1>2, <1>3, <1>6, <1>7 DEF Resulting, Sound, Before, Recording, Rest
<1> QED
  BY <1>1, <1>7, <1>8, ReadStep

LEMMA ValidateRetainedStep ==
    ASSUME IInv, NEW p \in Procs, ValidateRetained(p)
    PROVE  IInv'
<1>1. UNCHANGED <<history, info, prompts, git, recipe, answers>> /\ local[p].at = "retained"
  BY DEF ValidateRetained, runtime, At
<1>2. PICK l : l = local[p]
  OBVIOUS
<1>3. l \in Job /\ Sound(l)
  BY <1>1, <1>2, JobOf
<1>4. l.place \in Places
  BY <1>1, <1>2, <1>3 DEF Sound, Rest
<1>5. PICK found \in Findings(l.place, NoTree) :
          Refuse(p) \/ local' = [local EXCEPT ![p].at = "persist", ![p].result = found]
  BY <1>2 DEF ValidateRetained, My
<1>6. CASE Refuse(p)
  BY <1>1, <1>6, RefuseStep
<1>7. CASE local' = [local EXCEPT ![p].at = "persist", ![p].result = found]
  <2>1. found \in Receipts /\ Backed(found, l.place) /\ Old(found.seen)
    BY <1>4, FoundSound, PlainOld
  <2>2. PICK n \in Job :
            Resulting(n, local[p], "persist", found) /\ local' = [local EXCEPT ![p] = n]
    <3>1. local[p].at # "idle" /\ "persist" \in Before \cup Recording \cup Rest
      BY <1>1 DEF Rest
    <3> QED
      BY <1>2, <1>7, <2>1, <3>1, ResultJob
  <2>3. Sound(n)
    BY <1>1, <1>2, <1>3, <1>4, <2>1, <2>2 DEF Resulting, Sound, Before, Recording, Rest
  <2> QED
    BY <1>1, <2>2, <2>3, ReadStep
<1> QED
  BY <1>5, <1>6, <1>7

(***************************************************************************)
(* Steps that write the row of an attempt.                                 *)
(***************************************************************************)
\* A row may replace another of the same attempt.
Follows(row, before) ==
    /\ row.lineage = before.lineage /\ row.place = before.place
    /\ before.started => row.started
    /\ Backed(row.receipt, row.place) /\ Old(row.receipt.seen)

LEMMA RowStep ==
    ASSUME IInv, NEW a \in AttemptIds, info[a] # None, NEW row \in Rows, Follows(row, info[a]),
           info' = [info EXCEPT ![a] = row], UNCHANGED <<history, prompts, git, recipe>>
    PROVE  /\ Later /\ RowsSound' /\ TreesSound'
           /\ answers' \in SUBSET [to: Lineages, attempt: AttemptIds] => Shared'
           /\ answers' = answers => AnswersSound'
<1> USE DEF git, recipe
<1>1. info' \in [AttemptIds -> Rows \cup {None}] /\ info'[a] = row /\ row # None
  BY NoneAssumption DEF IInv, Typed
<1>2. \A b \in AttemptIds : b # a => info'[b] = info[b]
  BY DEF IInv, Typed
<1>3. \A b \in AttemptIds : info[b] # None =>
          /\ info'[b] # None /\ info'[b].lineage = info[b].lineage /\ info'[b].place = info[b].place
          /\ info[b].started => info'[b].started
  BY <1>1, <1>2 DEF Follows
<1>4. Later
  <2>1. \A pl \in Places : branch[pl] # None => branch[pl] \in Trees /\ branch[pl].work \in Nat
    BY BoundsAssumption DEF IInv, Typed, Trees
  <2>2. trees \in Nat
    BY BoundsAssumption DEF IInv, Typed
  <2> QED
    BY <1>3, <2>1, <2>2 DEF Later
<1>5. RowsSound'
  <2> SUFFICES ASSUME NEW b \in AttemptIds
               PROVE  /\ info'[b] # None <=> Runtime!Attempted(b)'
                      /\ info'[b] # None => /\ info'[b].lineage \in prompts
                                            /\ Backed(info[b].receipt, info[b].place)'
                                            /\ Old(info[b].receipt.seen)'
    BY DEF RowsSound
  <2>1. Runtime!Attempted(b)' <=> info[b] # None
    BY DEF IInv, RowsSound, Runtime!Attempted
  <2>2. CASE b = a
    <3>1. row.lineage \in prompts /\ Backed(row.receipt, row.place) /\ Old(row.receipt.seen)
      BY RowOf DEF Follows
    <3> QED
      BY <1>1, <2>1, <2>2, <3>1 DEF Backed, Old
  <2>3. CASE b # a
    <3>1. info[b] # None => /\ info[b].lineage \in prompts /\ Backed(info[b].receipt, info[b].place)
                            /\ Old(info[b].receipt.seen)
      BY RowOf
    <3> QED
      BY <1>2, <2>1, <2>3, <3>1 DEF Backed, Old
  <2> QED
    BY <2>2, <2>3
<1>6. TreesSound'
  BY DEF IInv, TreesSound
<1>7. answers' \in SUBSET [to: Lineages, attempt: AttemptIds] => Shared'
  BY <1>1 DEF IInv, Typed, Shared
<1>8. answers' = answers => AnswersSound'
  <2>1. \A r \in answers : r.attempt \in AttemptIds
    BY DEF IInv, Typed
  <2> QED
    BY <1>3, <2>1 DEF IInv, AnswersSound
<1> QED
  BY <1>4, <1>5, <1>6, <1>7, <1>8

\* A success is answered for an attempt that is the caller's and started.
LEMMA AnswerSound ==
    ASSUME IInv, Later, NEW a \in AttemptIds, NEW to \in Lineages,
           answers' = answers \cup {[to |-> to, attempt |-> a]},
           info'[a] # None, info'[a].lineage = to, info'[a].started
    PROVE  AnswersSound' /\ answers' \in SUBSET [to: Lineages, attempt: AttemptIds]
<1>1. answers \in SUBSET [to: Lineages, attempt: AttemptIds]
  BY DEF IInv, Typed
<1>2. ASSUME NEW r \in answers'
      PROVE  info'[r.attempt] # None /\ info'[r.attempt].lineage = r.to /\ info'[r.attempt].started
  <2>1. CASE r \in answers
    <3>1. r.attempt \in AttemptIds /\ info[r.attempt] # None /\ info[r.attempt].lineage = r.to
          /\ info[r.attempt].started
      BY <1>1, <2>1 DEF IInv, AnswersSound
    <3> QED
      BY <3>1 DEF Later
  <2>2. CASE r = [to |-> to, attempt |-> a]
    BY <2>2
  <2> QED
    BY <1>2, <2>1, <2>2
<1> QED
  BY <1>1, <1>2 DEF AnswersSound

\* A call that answers, or refuses to.
LEMMA AnsweringStep ==
    ASSUME IInv, NEW p \in Procs, Later, RowsSound', TreesSound',
           answers' \in SUBSET [to: Lineages, attempt: AttemptIds] => Shared',
           answers' = answers => AnswersSound',
           NEW a \in AttemptIds, local[p].lineage \in Lineages,
           info'[a] # None, info'[a].lineage = local[p].lineage, info'[a].started,
           Succeed(p, a) \/ (Refuse(p) /\ UNCHANGED answers)
    PROVE  IInv'
<1>1. Sound(Idle)'
  BY DEF Sound, Idle, Before, Recording, Rest
<1>2. local' = [local EXCEPT ![p] = Idle]
  BY DEF Succeed, Refuse
<1>3. CASE Succeed(p, a)
  <2>1. AnswersSound' /\ Shared'
    BY <1>3, AnswerSound DEF Succeed
  <2> QED
    BY <1>1, <1>2, <2>1, LocalStep
<1>4. CASE Refuse(p) /\ UNCHANGED answers
  <2>1. AnswersSound' /\ Shared'
    BY <1>4 DEF IInv, Typed
  <2> QED
    BY <1>1, <1>2, <2>1, LocalStep
<1> QED
  BY <1>3, <1>4

\* record_task_setup keeps all of a row but its receipt.
LEMMA ReceiptFollows ==
    ASSUME IInv, NEW p \in Procs, local[p].at \in Recording, WriteReceipt(p)
    PROVE  \E row \in Rows : /\ Follows(row, info[local[p].attempt])
                             /\ row.started = info[local[p].attempt].started
                             /\ info' = [info EXCEPT ![local[p].attempt] = row]
<1>1. PICK l : l = local[p]
  OBVIOUS
<1>2. PICK before : before = info[l.attempt]
  OBVIOUS
<1>3. PICK row : row = [before EXCEPT !.receipt = l.result]
  OBVIOUS
<1>4. l \in Job /\ Sound(l)
  BY <1>1, JobOf DEF Recording
<1>5. /\ l.attempt \in AttemptIds /\ before # None /\ before.place = l.place /\ l.place \in Places
      /\ Backed(l.result, l.place) /\ Old(l.result.seen)
  BY <1>1, <1>2, <1>4 DEF Sound
<1>6. before \in Rows /\ l.result \in Receipts
  BY <1>2, <1>4, <1>5, RowOf DEF Job
<1>7. /\ row \in Rows /\ row.receipt = l.result /\ row.started = before.started
      /\ row.lineage = before.lineage /\ row.place = before.place
  BY <1>3, <1>6 DEF Rows
<1>8. info' = [info EXCEPT ![l.attempt] = row]
  BY <1>1, <1>2, <1>3 DEF WriteReceipt, My
<1>9. Follows(row, before)
  BY <1>5, <1>7 DEF Follows
<1> QED
  BY <1>1, <1>2, <1>7, <1>8, <1>9

LEMMA RecordSetupStep ==
    ASSUME IInv, NEW p \in Procs, RecordSetup(p)
    PROVE  IInv'
<1>1. /\ UNCHANGED <<history, prompts, git, recipe, answers>> /\ local[p].at = "record"
      /\ WriteReceipt(p) /\ Goto(p, "repair")
  BY DEF RecordSetup, runtime, At
<1>2. PICK l : l = local[p]
  OBVIOUS
<1>3. l \in Job /\ Sound(l) /\ l.at = "record"
  BY <1>1, <1>2, JobOf
<1>4. l.attempt \in AttemptIds /\ info[l.attempt] # None
  BY <1>3 DEF Sound, Recording
<1>5. PICK row \in Rows : Follows(row, info[l.attempt]) /\ info' = [info EXCEPT ![l.attempt] = row]
  <2>1. local[p].at \in Recording
    BY <1>1 DEF Recording
  <2> QED
    BY <1>1, <1>2, <2>1, ReceiptFollows
<1>6. /\ Later /\ RowsSound' /\ TreesSound'
      /\ answers' \in SUBSET [to: Lineages, attempt: AttemptIds] => Shared'
      /\ answers' = answers => AnswersSound'
  BY <1>1, <1>4, <1>5, RowStep
<1>7. PICK n \in Job : n.at = "repair" /\ Like(n, l) /\ local' = [local EXCEPT ![p] = n]
  <2>1. local[p].at # "idle" /\ "repair" \in Before \cup Recording \cup Rest
    BY <1>1 DEF Recording
  <2> QED
    BY <1>1, <1>2, <2>1, GotoJob
<1>8. Sound(n)
  BY <1>3, <1>7 DEF Sound, Like, Before, Recording, Rest
<1>9. Sound(n)'
  BY <1>6, <1>8, SoundStays
<1>10. answers' = answers /\ answers' \in SUBSET [to: Lineages, attempt: AttemptIds]
  BY <1>1 DEF IInv, Typed
<1> QED
  BY <1>6, <1>7, <1>9, <1>10, LocalStep

LEMMA RejectRecordStep ==
    ASSUME IInv, NEW p \in Procs, RejectRecord(p)
    PROVE  IInv'
BY RefuseStep DEF RejectRecord, runtime

\* The start evidence of an attempt is recorded.
LEMMA StartedFollows ==
    ASSUME IInv, NEW a \in AttemptIds, info[a] # None, info' = [info EXCEPT ![a].started = TRUE]
    PROVE  \E row \in Rows : /\ Follows(row, info[a]) /\ row.started
                             /\ info' = [info EXCEPT ![a] = row]
<1>1. PICK before : before = info[a]
  OBVIOUS
<1>2. PICK row : row = [before EXCEPT !.started = TRUE]
  OBVIOUS
<1>3. before \in Rows /\ Backed(before.receipt, before.place) /\ Old(before.receipt.seen)
  BY <1>1, RowOf
<1>4. /\ row \in Rows /\ row.receipt = before.receipt /\ row.started
      /\ row.lineage = before.lineage /\ row.place = before.place
  BY <1>2, <1>3 DEF Rows
<1>5. info' = [info EXCEPT ![a] = row]
  BY <1>1, <1>2
<1> QED
  BY <1>1, <1>3, <1>4, <1>5 DEF Follows

LEMMA RepairStartStep ==
    ASSUME IInv, NEW p \in Procs, RepairStart(p)
    PROVE  IInv'
<1>1. UNCHANGED <<history, prompts, git, recipe>> /\ local[p].at = "repair"
  BY DEF RepairStart, runtime, At
<1>2. PICK l : l = local[p]
  OBVIOUS
<1>3. l \in Job /\ Sound(l) /\ l.at = "repair"
  BY <1>1, <1>2, JobOf
<1>4. l.attempt \in AttemptIds /\ info[l.attempt] # None /\ info[l.attempt].lineage = l.lineage /\ l.lineage \in Lineages
  BY <1>3 DEF Sound, Recording
<1>5. CASE info' = [info EXCEPT ![l.attempt].started = TRUE] /\ Answer(p)
  <2>1. PICK row \in Rows : /\ Follows(row, info[l.attempt]) /\ row.started
                            /\ info' = [info EXCEPT ![l.attempt] = row]
    BY <1>4, <1>5, StartedFollows
  <2>2. /\ Later /\ RowsSound' /\ TreesSound'
        /\ answers' \in SUBSET [to: Lineages, attempt: AttemptIds] => Shared'
        /\ answers' = answers => AnswersSound'
    BY <1>1, <1>4, <2>1, RowStep
  <2>3. info'[l.attempt] = row
    BY <1>4, <2>1 DEF IInv, Typed
  <2>4. info'[l.attempt] # None /\ info'[l.attempt].lineage = l.lineage /\ info'[l.attempt].started
    BY <1>4, <2>1, <2>2, <2>3 DEF Later
  <2>5. Succeed(p, l.attempt) \/ (Refuse(p) /\ UNCHANGED answers)
    BY <1>2, <1>5 DEF Answer, My
  <2> QED
    BY <1>2, <1>4, <2>2, <2>4, <2>5, AnsweringStep
<1>6. CASE Refuse(p) /\ UNCHANGED <<info, answers>>
  BY <1>1, <1>6, RefuseStep
<1> QED
  BY <1>2, <1>5, <1>6 DEF RepairStart, My

LEMMA StartEventsStep ==
    ASSUME IInv, NEW p \in Procs, StartEvents(p)
    PROVE  IInv'
<1>1. UNCHANGED <<history, prompts, git, recipe>> /\ local[p].at = "events"
  BY DEF StartEvents, runtime, At
<1>2. PICK l : l = local[p]
  OBVIOUS
<1>3. l \in Job /\ Sound(l) /\ l.at = "events"
  BY <1>1, <1>2, JobOf
<1>4. l.attempt \in AttemptIds /\ info[l.attempt] # None /\ info[l.attempt].lineage = l.lineage /\ l.lineage \in Lineages
  BY <1>3 DEF Sound, Recording
<1>5. PICK row \in Rows : /\ Follows(row, info[l.attempt]) /\ row.started
                          /\ info' = [info EXCEPT ![l.attempt] = row]
  <2>1. info' = [info EXCEPT ![l.attempt].started = TRUE]
    BY <1>2 DEF StartEvents, My
  <2> QED
    BY <1>4, <2>1, StartedFollows
<1>6. /\ Later /\ RowsSound' /\ TreesSound'
      /\ answers' \in SUBSET [to: Lineages, attempt: AttemptIds] => Shared'
      /\ answers' = answers => AnswersSound'
  BY <1>1, <1>4, <1>5, RowStep
<1>7. info'[l.attempt] = row
  BY <1>4, <1>5 DEF IInv, Typed
<1>8. info'[l.attempt] # None /\ info'[l.attempt].lineage = l.lineage /\ info'[l.attempt].started
  BY <1>4, <1>5, <1>6, <1>7 DEF Later
<1>9. CASE Goto(p, "claim") /\ UNCHANGED answers /\ Recipe /\ l.from = None
  <2>1. PICK n \in Job : n.at = "claim" /\ Like(n, l) /\ local' = [local EXCEPT ![p] = n]
    <3>1. local[p].at # "idle" /\ "claim" \in Before \cup Recording \cup Rest
      BY <1>1 DEF Recording
    <3> QED
      BY <1>2, <1>9, <3>1, GotoJob
  <2>2. Sound(l)'
    BY <1>3, <1>6, SoundStays
  <2>3. l.expected.seen = NoTree
    BY <1>3, <1>9 DEF Sound
  <2>4. Sound(n)'
    BY <1>3, <1>8, <2>1, <2>2, <2>3 DEF Sound, Like, Before, Recording, Rest
  <2>5. answers' = answers /\ answers' \in SUBSET [to: Lineages, attempt: AttemptIds]
    BY <1>9 DEF IInv, Typed
  <2> QED
    BY <1>6, <2>1, <2>4, <2>5, LocalStep
<1>10. CASE Succeed(p, l.attempt)
  BY <1>2, <1>4, <1>6, <1>8, <1>10, AnsweringStep
<1> QED
  BY <1>2, <1>9, <1>10 DEF StartEvents, My

LEMMA RecordFreshStep ==
    ASSUME IInv, NEW p \in Procs, RecordFresh(p)
    PROVE  IInv'
<1>1. UNCHANGED <<history, prompts, git, recipe>> /\ local[p].at = "recorded"
  BY DEF RecordFresh, runtime, At
<1>2. PICK l : l = local[p]
  OBVIOUS
<1>3. l \in Job /\ Sound(l) /\ l.at = "recorded"
  BY <1>1, <1>2, JobOf
<1>4. /\ l.attempt \in AttemptIds /\ info[l.attempt] # None /\ info[l.attempt].lineage = l.lineage
      /\ l.lineage \in Lineages /\ info[l.attempt].started
  BY <1>3 DEF Sound, Recording
<1>5. CASE WriteReceipt(p) /\ Answer(p)
  <2>1. PICK row \in Rows : /\ Follows(row, info[l.attempt]) /\ row.started
                            /\ info' = [info EXCEPT ![l.attempt] = row]
    <3>1. local[p].at \in Recording
      BY <1>1 DEF Recording
    <3> QED
      BY <1>2, <1>4, <1>5, <3>1, ReceiptFollows
  <2>2. /\ Later /\ RowsSound' /\ TreesSound'
        /\ answers' \in SUBSET [to: Lineages, attempt: AttemptIds] => Shared'
        /\ answers' = answers => AnswersSound'
    BY <1>1, <1>4, <2>1, RowStep
  <2>3. info'[l.attempt] # None /\ info'[l.attempt].lineage = l.lineage /\ info'[l.attempt].started
    BY <1>4, <2>2 DEF Later
  <2>4. Succeed(p, l.attempt) \/ (Refuse(p) /\ UNCHANGED answers)
    BY <1>2, <1>5 DEF Answer, My
  <2> QED
    BY <1>2, <1>4, <2>2, <2>3, <2>4, AnsweringStep
<1>6. CASE Raise(p) /\ UNCHANGED <<info, answers>>
  BY <1>1, <1>6, RaiseStep DEF Guarded
<1> QED
  BY <1>5, <1>6 DEF RecordFresh

(***************************************************************************)
(* Steps that keep every row: the prompts, the trees and the effects.      *)
(***************************************************************************)
LEMMA KeepsLater ==
    ASSUME IInv, UNCHANGED <<info, branch, trees>>, prompts \subseteq prompts',
           \A pl \in Places : effect[pl] = "done" => effect'[pl] = "done" /\ claimedFor'[pl] = claimedFor[pl]
    PROVE  Later
<1>1. \A pl \in Places : branch[pl] # None => branch[pl] \in Trees /\ branch[pl].work \in Nat
  BY BoundsAssumption DEF IInv, Typed, Trees
<1>2. trees \in Nat
  BY BoundsAssumption DEF IInv, Typed
<1> QED
  BY <1>1, <1>2 DEF Later

LEMMA LaterStep ==
    ASSUME IInv, Later, UNCHANGED <<history, info, answers>>
    PROVE  RowsSound' /\ AnswersSound'
<1>1. ASSUME NEW a \in AttemptIds
      PROVE  /\ info[a] # None <=> Runtime!Attempted(a)'
             /\ info[a] # None => /\ info[a].lineage \in prompts'
                                  /\ Backed(info[a].receipt, info[a].place)'
                                  /\ Old(info[a].receipt.seen)'
  <2>1. info[a] # None <=> Runtime!Attempted(a)'
    BY DEF IInv, RowsSound, Runtime!Attempted
  <2>2. CASE info[a] # None
    <3>1. PICK r, pl : r = info[a].receipt /\ pl = info[a].place
      OBVIOUS
    <3>2. r \in Receipts /\ pl \in Places /\ Backed(r, pl) /\ Old(r.seen) /\ info[a].lineage \in prompts
      BY <2>2, <3>1, RowOf
    <3>3. r.seen \in Trees
      BY <3>2 DEF Receipts
    <3>4. Backed(r, pl)' /\ Old(r.seen)'
      BY <3>2, <3>3, BackedStays, OldStays
    <3> QED
      BY <2>1, <3>1, <3>2, <3>4 DEF Later, Backed, Old
  <2> QED
    BY <2>1, <2>2
<1> QED
  BY <1>1 DEF RowsSound, IInv, AnswersSound

LEMMA BranchOld ==
    ASSUME IInv, NEW pl \in Places, branch[pl] # None
    PROVE  branch[pl] \in Trees /\ Old(branch[pl])
<1>1. branch[pl] \in Trees
  BY DEF IInv, Typed
<1>2. branch[pl].work \in Nat
  BY <1>1, BoundsAssumption DEF Trees
<1> QED
  BY <1>1, <1>2 DEF Old, IInv, TreesSound

LEMMA PersistPromptsStep ==
    ASSUME IInv, NEW p \in Procs, PersistPrompts(p)
    PROVE  IInv'
<1>1. /\ UNCHANGED <<history, info, git, recipe, answers>> /\ local[p].at = "persist"
      /\ prompts' = prompts \cup {local[p].lineage} /\ NextStage(p)
  BY DEF PersistPrompts, At, My
<1>2. PICK l : l = local[p]
  OBVIOUS
<1>3. l \in Job /\ Sound(l) /\ l.at = "persist"
  BY <1>1, <1>2, JobOf
<1>4. l.lineage \in Lineages /\ l.place \in Places
  BY <1>3 DEF Sound, Rest
<1>5. Later
  BY <1>1, KeepsLater DEF git, recipe
<1>6. RowsSound' /\ AnswersSound'
  BY <1>1, <1>5, LaterStep
<1>7. TreesSound'
  BY <1>1 DEF IInv, TreesSound, git
<1>8. Shared'
  BY <1>1, <1>2, <1>4 DEF IInv, Typed, Shared, git, recipe
<1>9. l.lineage \in prompts'
  BY <1>1, <1>2
<1>10. Sound(l)'
  BY <1>3, <1>5, SoundStays
<1>11. CASE Refuse(p)
  BY <1>5, <1>6, <1>7, <1>8, <1>11, LocalStep, IdleSound, SoundStays DEF Refuse
<1>12. CASE l.from = None /\ \E s \in {"create", "start"} : Goto(p, s)
  <2>1. PICK s \in {"create", "start"} : Goto(p, s)
    BY <1>12
  <2>2. local[p].at # "idle" /\ s \in Before \cup Recording \cup Rest
    BY <1>1 DEF Rest
  <2>3. PICK n \in Job : n.at = s /\ Like(n, local[p]) /\ local' = [local EXCEPT ![p] = n]
    BY <2>1, <2>2, GotoJob
  <2>4. Sound(n)'
    BY <1>2, <1>3, <1>9, <1>10, <2>3 DEF Sound, Like, Before, Recording, Rest
  <2> QED
    BY <1>5, <1>6, <1>7, <1>8, <2>3, <2>4, LocalStep
<1>13. CASE /\ l.from # None /\ worktree[l.place]
            /\ local' = [local EXCEPT ![p].at = "start", ![p].start = branch[l.place]]
  <2>1. PICK tree : tree = branch[l.place]
    OBVIOUS
  <2>2. tree \in Trees /\ Old(tree)
    BY <1>4, <1>13, <2>1, BranchOld DEF IInv, TreesSound
  <2>3. Old(tree)'
    BY <1>5, <2>2, OldStays
  <2>4. PICK n : n = [l EXCEPT !.at = "start", !.start = tree]
    OBVIOUS
  <2>5. /\ n.at = "start" /\ n.start = tree /\ n.lineage = l.lineage /\ n.place = l.place
        /\ n.attempt = l.attempt /\ n.from = l.from /\ n.expected = l.expected /\ n.result = l.result
    BY <1>3, <2>4 DEF Job
  <2>6. n \in Job
    BY <1>3, <2>2, <2>4 DEF Job, Rest
  <2>7. local' = [local EXCEPT ![p] = n]
    BY <1>2, <1>13, <2>1, <2>4 DEF IInv, Typed
  <2>8. Sound(n)'
    BY <1>3, <1>9, <1>10, <1>13, <2>3, <2>5 DEF Sound, Before, Recording, Rest
  <2> QED
    BY <1>5, <1>6, <1>7, <1>8, <2>6, <2>7, <2>8, LocalStep
<1> QED
  BY <1>1, <1>2, <1>11, <1>12, <1>13 DEF NextStage, My

LEMMA CheckFreshStep ==
    ASSUME IInv, NEW p \in Procs, CheckFresh(p)
    PROVE  IInv'
<1>1. UNCHANGED <<history, info, prompts, git, recipe, answers>> /\ local[p].at = "check"
  BY DEF CheckFresh, runtime, At
<1>2. PICK l : l = local[p]
  OBVIOUS
<1>3. l \in Job /\ Sound(l) /\ l.at = "check"
  BY <1>1, <1>2, JobOf
<1>4. PICK pl \in Places : Refuse(p) \/ local' = [local EXCEPT ![p].at = "add", ![p].place = pl]
  <2>1. l.place \in Places \cup {None}
    BY <1>3 DEF Job
  <2> QED
    BY <1>2, <2>1, HomeAssumption DEF CheckFresh, My
<1>5. CASE Refuse(p)
  BY <1>1, <1>5, RefuseStep
<1>6. CASE local' = [local EXCEPT ![p].at = "add", ![p].place = pl]
  <2>1. PICK n : n = [l EXCEPT !.at = "add", !.place = pl]
    OBVIOUS
  <2>2. /\ n.at = "add" /\ n.place = pl /\ n.lineage = l.lineage /\ n.from = l.from /\ n.attempt = l.attempt
        /\ n.start = l.start /\ n.expected = l.expected /\ n.result = l.result
    BY <1>3, <2>1 DEF Job
  <2>3. n \in Job
    BY <1>3, <2>1 DEF Job, Rest
  <2>4. local' = [local EXCEPT ![p] = n]
    BY <1>2, <1>6, <2>1 DEF IInv, Typed
  <2>5. Sound(n)
    BY <1>3, <2>2, PlainOld DEF Sound, Before, Recording, Rest
  <2> QED
    BY <1>1, <2>3, <2>4, <2>5, ReadStep
<1> QED
  BY <1>4, <1>5, <1>6

LEMMA AddWorktreeStep ==
    ASSUME IInv, NEW p \in Procs, AddWorktree(p)
    PROVE  IInv'
<1>1. UNCHANGED <<history, info, prompts, recipe, answers>> /\ local[p].at = "add"
  BY DEF AddWorktree, runtime, At
<1>2. PICK l : l = local[p]
  OBVIOUS
<1>3. l \in Job /\ Sound(l) /\ l.at = "add"
  BY <1>1, <1>2, JobOf
<1>4. PICK pl, tree : pl = l.place /\ tree = [id |-> trees + 1, work |-> 0]
  OBVIOUS
<1>5. pl \in Places
  BY <1>3, <1>4 DEF Sound, Rest
<1>6. CASE Raise(p) /\ UNCHANGED git
  BY <1>1, <1>6, RaiseStep DEF Guarded
<1>7. CASE /\ ~(worktree[pl] \/ branch[pl] # None)
           /\ trees < MaxTrees /\ trees' = trees + 1
           /\ branch' = [branch EXCEPT ![pl] = tree]
           /\ worktree' = [worktree EXCEPT ![pl] = TRUE]
           /\ local' = [local EXCEPT ![p].at = "persist", ![p].made = TRUE, ![p].start = tree,
                                     ![p].result = IF Recipe THEN Pending ELSE Plain]
  <2>1. trees \in Nat /\ trees' \in Nat /\ trees' = trees + 1 /\ trees' \in 0..MaxTrees
    BY <1>7, BoundsAssumption DEF IInv, Typed
  <2>2. tree \in Trees /\ tree.id = trees + 1 /\ tree.work = 0 /\ tree # None
    BY <1>4, <2>1, BoundsAssumption, NoneAssumption DEF Trees
  <2>3. branch'[pl] = tree /\ \A pm \in Places : pm # pl => branch'[pm] = branch[pm]
    BY <1>5, <1>7 DEF IInv, Typed
  <2>4. \A pm \in Places : branch[pm] # None =>
            branch[pm] \in Trees /\ branch[pm].work \in Nat /\ branch[pm].id \in Nat /\ branch[pm].id <= trees
    BY BoundsAssumption DEF IInv, Typed, TreesSound, Trees
  <2>5. Later
    <3>1. \A pm \in Places : branch'[pm] # None =>
              \/ branch'[pm].id > trees
              \/ /\ branch[pm] # None /\ branch'[pm].id = branch[pm].id
                 /\ branch'[pm] \in Trees /\ branch[pm] \in Trees /\ branch[pm].work <= branch'[pm].work
      BY <2>1, <2>2, <2>3, <2>4
    <3> QED
      BY <1>1, <2>1, <3>1 DEF Later, recipe
  <2>6. RowsSound' /\ AnswersSound'
    BY <1>1, <2>5, LaterStep
  <2>7. TreesSound'
    <3>1. ASSUME NEW pm \in Places
          PROVE  /\ worktree'[pm] => branch'[pm] # None
                 /\ branch'[pm] # None => branch'[pm].id <= trees'
      BY <1>5, <1>7, <2>1, <2>2, <2>3, <2>4 DEF IInv, Typed, TreesSound
    <3>2. ASSUME NEW pm \in Places, NEW po \in Places, branch'[pm] # None, branch'[po] # None,
                 branch'[pm].id = branch'[po].id
          PROVE  pm = po
      <4>1. CASE pm # pl /\ po # pl
        BY <2>3, <3>2, <4>1 DEF IInv, TreesSound
      <4>2. CASE pm = pl \/ po = pl
        BY <2>1, <2>2, <2>3, <2>4, <3>2, <4>2
      <4> QED
        BY <4>1, <4>2
    <3> QED
      BY <3>1, <3>2 DEF TreesSound
  <2>8. Shared'
    BY <1>1, <1>5, <1>7, <2>1, <2>2 DEF IInv, Typed, Shared, recipe
  <2>9. PICK r \in {Pending, Plain} : r = IF Recipe THEN Pending ELSE Plain
    OBVIOUS
  <2>10. PICK n : n = [l EXCEPT !.at = "persist", !.made = TRUE, !.start = tree, !.result = r]
    OBVIOUS
  <2>11. /\ n.at = "persist" /\ n.place = pl /\ n.lineage = l.lineage /\ n.from = l.from /\ n.attempt = l.attempt
         /\ n.start = tree /\ n.expected = l.expected /\ n.result = r
    BY <1>3, <1>4, <2>10 DEF Job
  <2>12. n \in Job
    <3>1. r \in Receipts
      BY <2>9, PlainOld
    <3> QED
      BY <1>3, <2>2, <2>10, <3>1 DEF Job, Rest
  <2>13. local' = [local EXCEPT ![p] = n]
    BY <1>2, <1>7, <2>9, <2>10 DEF IInv, Typed
  <2>14. Old(tree)'
    <3>1. ASSUME NEW pm \in Places, branch'[pm] # None PROVE tree.work <= branch'[pm].work
      BY <2>2, <2>3, <2>4, <3>1
    <3> QED
      BY <2>1, <2>2, <3>1 DEF Old
  <2>15. Old(r.seen)' /\ Backed(r, pl)' /\ r.seen = NoTree
    <3>1. r.seen = NoTree /\ NoTree \in Trees /\ Old(NoTree) /\ Backed(r, pl)
      BY <2>9, PlainOld
    <3>2. Old(NoTree)' /\ Backed(r, pl)'
      BY <1>5, <2>5, <3>1, OldStays, BackedStays
    <3> QED
      BY <3>1, <3>2 DEF Old
  <2>16. Sound(l)'
    BY <1>3, <2>5, SoundStays
  <2>17. Sound(n)'
    BY <1>3, <1>5, <2>11, <2>14, <2>15, <2>16 DEF Sound, Before, Recording, Rest
  <2> QED
    BY <2>5, <2>6, <2>7, <2>8, <2>12, <2>13, <2>17, LocalStep
<1> QED
  BY <1>2, <1>4, <1>6, <1>7 DEF AddWorktree, My

LEMMA CreateTaskStep ==
    ASSUME IInv, NEW p \in Procs, CreateTask(p)
    PROVE  IInv'
<1>1. UNCHANGED <<history, info, prompts, git, recipe, answers>> /\ local[p].at = "create" /\ Goto(p, "start")
  BY DEF CreateTask, At, Runtime!AbsCreate
<1>2. Sound(local[p])
  BY <1>1, JobOf
<1>3. \A n \in Job : n.at = "start" /\ Like(n, local[p]) => Sound(n)
  BY <1>1, <1>2 DEF Sound, Like, Before, Recording, Rest
<1>4. local[p].at # "idle" /\ "start" \in Before \cup Recording \cup Rest
  BY <1>1 DEF Rest
<1> QED
  BY <1>1, <1>3, <1>4, GotoStep

LEMMA RefuseStartStep ==
    ASSUME IInv, NEW p \in Procs, RefuseStart(p)
    PROVE  IInv'
<1>1. UNCHANGED <<history, info, prompts, git, recipe, answers>> /\ local[p].at = "start"
  BY DEF RefuseStart, runtime, At
<1>2. Sound(local[p])
  BY <1>1, JobOf
<1>3. CASE Refuse(p)
  BY <1>1, <1>3, RefuseStep
<1>4. CASE Raise(p)
  BY <1>1, <1>4, RaiseStep DEF Guarded
<1> QED
  BY <1>3, <1>4 DEF RefuseStart

LEMMA StartTaskStep ==
    ASSUME IInv, NEW p \in Procs, StartTask(p)
    PROVE  IInv'
<1>1. UNCHANGED <<prompts, git, recipe, answers>> /\ local[p].at = "start"
  BY DEF StartTask, At
<1>2. PICK l : l = local[p]
  OBVIOUS
<1>3. l \in Job /\ Sound(l) /\ l.at = "start"
  BY <1>1, <1>2, JobOf
<1>4. PICK a \in AttemptIds :
          /\ Runtime!AbsStart(Task, a)
          /\ info' = [info EXCEPT ![a] =
                [place |-> l.place, start |-> l.start, lineage |-> l.lineage,
                 from |-> l.from, receipt |-> l.result, started |-> FALSE]]
          /\ local' = [local EXCEPT ![p].at = "events", ![p].attempt = a, ![p].expected = l.result]
  BY <1>2 DEF StartTask, My
<1>5. PICK row : row = [place |-> l.place, start |-> l.start, lineage |-> l.lineage,
                        from |-> l.from, receipt |-> l.result, started |-> FALSE]
  OBVIOUS
<1>6. PICK entry : entry = [id |-> a, outcome |-> "in_progress"]
  OBVIOUS
<1>7. PICK old : old = history[Task]
  OBVIOUS
<1>8. /\ l.place \in Places /\ l.lineage \in prompts /\ l.lineage \in Lineages
      /\ l.result \in Receipts /\ l.result.seen \in Trees /\ l.start \in Trees /\ l.from \in AttemptIds \cup {None}
      /\ Backed(l.result, l.place) /\ Old(l.result.seen)
  BY <1>3 DEF Sound, Job, Receipts, Before, Recording, Rest
<1>9. row \in Rows /\ row # None
  <2>1. row \in Rows
    BY ONLY <1>5, <1>8 DEF Rows
  <2> QED
    BY <2>1, NoneAssumption
<1>10. info[a] = None
  BY <1>4 DEF IInv, RowsSound, Runtime!AbsStart
<1>11. info'[a] = row /\ \A b \in AttemptIds : b # a => info'[b] = info[b]
  BY <1>4, <1>5 DEF IInv, Typed
<1>12. old \in Seq(Entry) /\ entry \in Entry /\ history'[Task] = Append(old, entry)
  BY <1>4, <1>6, <1>7 DEF IInv, Typed, Entry, Runtime!AbsStart
<1>13. history' \in [{Task} -> Seq(Entry)]
  <2>1. Append(old, entry) \in Seq(Entry)
    BY <1>12
  <2> QED
    BY <1>4, <1>6, <1>7, <2>1 DEF IInv, Typed, Runtime!AbsStart
<1>14. \A b \in AttemptIds : Runtime!Attempted(b)' <=> Runtime!Attempted(b) \/ b = a
  <2>1. ASSUME NEW b \in AttemptIds PROVE Runtime!Attempted(b)' <=> Runtime!Attempted(b) \/ b = a
    <3>1. Runtime!Attempted(b) <=> \E i \in DOMAIN old : old[i].id = b
      BY <1>7 DEF Runtime!Attempted
    <3>2. Runtime!Attempted(b)' <=> \E i \in DOMAIN Append(old, entry) : Append(old, entry)[i].id = b
      BY <1>12 DEF Runtime!Attempted
    <3>3. entry.id = a
      BY <1>6
    <3>4. (\E i \in DOMAIN Append(old, entry) : Append(old, entry)[i].id = b)
              <=> (\E i \in DOMAIN old : old[i].id = b) \/ b = entry.id
      <4>1. DOMAIN old = 1..Len(old) /\ Len(old) \in Nat /\ DOMAIN Append(old, entry) = 1..(Len(old) + 1)
        BY <1>12
      <4>2. Append(old, entry)[Len(old) + 1] = entry /\ \A i \in 1..Len(old) : Append(old, entry)[i] = old[i]
        BY <1>12
      <4>3. \A i \in 1..(Len(old) + 1) : i \in 1..Len(old) \/ i = Len(old) + 1
        BY <4>1
      <4>4. Len(old) + 1 \in 1..(Len(old) + 1) /\ \A i \in 1..Len(old) : i \in 1..(Len(old) + 1)
        BY <4>1
      <4> QED
        BY <4>1, <4>2, <4>3, <4>4
    <3> QED
      BY <3>1, <3>2, <3>3, <3>4
  <2> QED
    BY <2>1
<1>15. Later
  <2>1. \A pl \in Places : branch[pl] # None => branch[pl] \in Trees /\ branch[pl].work \in Nat
    BY BoundsAssumption DEF IInv, Typed, Trees
  <2>2. trees \in Nat
    BY BoundsAssumption DEF IInv, Typed
  <2>3. \A b \in AttemptIds : info[b] # None => info'[b] = info[b]
    BY <1>10, <1>11
  <2> QED
    BY <1>1, <2>1, <2>2, <2>3 DEF Later, git, recipe
<1>16. RowsSound'
  <2>1. ASSUME NEW b \in AttemptIds
        PROVE  /\ info'[b] # None <=> Runtime!Attempted(b)'
               /\ info'[b] # None => /\ info'[b].lineage \in prompts
                                     /\ Backed(info[b].receipt, info[b].place)'
                                     /\ Old(info[b].receipt.seen)'
    <3>1. CASE b = a
      <4>1. row.lineage = l.lineage /\ row.receipt = l.result /\ row.place = l.place
        BY <1>5
      <4>2. info'[b] = row /\ Runtime!Attempted(b)'
        BY <1>11, <1>14, <3>1
      <4> QED
        BY <1>1, <1>8, <1>9, <4>1, <4>2 DEF Backed, Old, git, recipe
    <3>2. CASE b # a
      <4>1. info'[b] = info[b] /\ (Runtime!Attempted(b)' <=> Runtime!Attempted(b))
        BY <1>11, <1>14, <3>2
      <4>2. info[b] # None <=> Runtime!Attempted(b)
        BY DEF IInv, RowsSound
      <4>3. info[b] # None => /\ info[b].lineage \in prompts /\ Backed(info[b].receipt, info[b].place)
                              /\ Old(info[b].receipt.seen)
        BY RowOf
      <4> QED
        BY <1>1, <4>1, <4>2, <4>3 DEF Backed, Old, git, recipe
    <3> QED
      BY <3>1, <3>2
  <2> QED
    BY <1>1, <2>1 DEF RowsSound
<1>17. TreesSound'
  BY <1>1 DEF IInv, TreesSound, git
<1>18. AnswersSound'
  <2>1. ASSUME NEW r \in answers
        PROVE  info'[r.attempt] # None /\ info'[r.attempt].lineage = r.to /\ info'[r.attempt].started
    <3>1. r.attempt \in AttemptIds /\ info[r.attempt] # None /\ info[r.attempt].lineage = r.to
          /\ info[r.attempt].started
      BY DEF IInv, Typed, AnswersSound
    <3> QED
      BY <3>1, <1>15 DEF Later
  <2> QED
    BY <1>1, <2>1 DEF AnswersSound
<1>19. Shared'
  <2>1. info' \in [AttemptIds -> Rows \cup {None}]
    BY <1>4, <1>5, <1>9 DEF IInv, Typed
  <2> QED
    BY <1>1, <1>13, <2>1 DEF IInv, Typed, Shared, git, recipe
<1>20. PICK r : r = l.result
  OBVIOUS
<1>21. PICK n : n = [l EXCEPT !.at = "events", !.attempt = a, !.expected = r]
  OBVIOUS
<1>22. /\ n.at = "events" /\ n.place = l.place /\ n.lineage = l.lineage /\ n.from = l.from /\ n.attempt = a
       /\ n.start = l.start /\ n.expected = l.result /\ n.result = l.result
  BY <1>3, <1>20, <1>21 DEF Job
<1>23. n \in Job
  BY <1>3, <1>8, <1>20, <1>21 DEF Job, Recording
<1>24. local' = [local EXCEPT ![p] = n]
  BY <1>2, <1>4, <1>20, <1>21 DEF IInv, Typed
<1>25. Sound(l)'
  BY <1>3, <1>15, SoundStays
<1>26. info'[a] # None /\ info'[a].lineage = l.lineage /\ info'[a].place = l.place
  BY <1>5, <1>9, <1>11
<1>27. Sound(n)'
  BY <1>3, <1>8, <1>22, <1>25, <1>26 DEF Sound, Before, Recording, Rest
<1> QED
  BY <1>15, <1>16, <1>17, <1>18, <1>19, <1>23, <1>24, <1>27, LocalStep

(***************************************************************************)
(* The recipe.                                                             *)
(***************************************************************************)
LEMMA ClaimEffectStep ==
    ASSUME IInv, NEW p \in Procs, ClaimEffect(p)
    PROVE  IInv'
<1>1. UNCHANGED <<history, info, prompts, git, answers>> /\ local[p].at = "claim" /\ Goto(p, "run")
  BY DEF ClaimEffect, runtime, At
<1>2. PICK l : l = local[p]
  OBVIOUS
<1>3. l \in Job /\ Sound(l) /\ l.at = "claim"
  BY <1>1, <1>2, JobOf
<1>4. PICK pl : pl = l.place
  OBVIOUS
<1>5. /\ pl \in Places /\ worktree[pl] /\ effect[pl] = "none"
      /\ effect' = [effect EXCEPT ![pl] = "claimed"]
      /\ claimedFor' = [claimedFor EXCEPT ![pl] = branch[pl].id]
  <2>1. l.place \in Places
    BY <1>3 DEF Sound, Recording
  <2> QED
    BY <1>2, <1>4, <2>1 DEF ClaimEffect, My, Effects!Trans
<1>6. \A pm \in Places : effect[pm] = "done" => effect'[pm] = "done" /\ claimedFor'[pm] = claimedFor[pm]
  BY <1>5 DEF IInv, Typed
<1>7. Later
  BY <1>1, <1>6, KeepsLater DEF git
<1>8. RowsSound' /\ AnswersSound'
  BY <1>1, <1>7, LaterStep
<1>9. TreesSound'
  BY <1>1 DEF IInv, TreesSound, git
<1>10. Shared'
  <2>1. branch[pl].id \in 0..MaxTrees
    BY <1>5, BranchOld DEF IInv, TreesSound, Trees
  <2> QED
    BY <1>1, <1>5, <2>1 DEF IInv, Typed, Shared, git
<1>11. PICK n \in Job : n.at = "run" /\ Like(n, l) /\ local' = [local EXCEPT ![p] = n]
  <2>1. local[p].at # "idle" /\ "run" \in Before \cup Recording \cup Rest
    BY <1>1 DEF Recording
  <2> QED
    BY <1>1, <1>2, <2>1, GotoJob
<1>12. Sound(n)
  BY <1>3, <1>11 DEF Sound, Like, Before, Recording, Rest
<1>13. Sound(n)'
  BY <1>7, <1>12, SoundStays
<1> QED
  BY <1>7, <1>8, <1>9, <1>10, <1>11, <1>13, LocalStep

LEMMA VerifyEffectStep ==
    ASSUME IInv, NEW p \in Procs, VerifyEffect(p)
    PROVE  IInv'
<1>1. UNCHANGED <<history, info, prompts, git, recipe, answers>> /\ local[p].at = "claim"
  BY DEF VerifyEffect, runtime, At
<1>2. PICK l : l = local[p]
  OBVIOUS
<1>3. l \in Job /\ Sound(l) /\ l.at = "claim"
  BY <1>1, <1>2, JobOf
<1>4. l.place \in Places
  BY <1>3 DEF Sound, Recording
<1>5. PICK found \in Findings(l.place, NoTree) : local' = [local EXCEPT ![p].at = "recorded", ![p].result = found]
  BY <1>2 DEF VerifyEffect, My
<1>6. found \in Receipts /\ Backed(found, l.place) /\ Old(found.seen)
  BY <1>4, FoundSound, PlainOld
<1>7. PICK n \in Job : Resulting(n, local[p], "recorded", found) /\ local' = [local EXCEPT ![p] = n]
  <2>1. local[p].at # "idle" /\ "recorded" \in Before \cup Recording \cup Rest
    BY <1>1 DEF Recording
  <2> QED
    BY <1>2, <1>5, <1>6, <2>1, ResultJob
<1>8. Sound(n)
  BY <1>2, <1>3, <1>6, <1>7 DEF Resulting, Sound, Before, Recording, Rest
<1> QED
  BY <1>1, <1>7, <1>8, ReadStep

LEMMA MissEffectStep ==
    ASSUME IInv, NEW p \in Procs, MissEffect(p)
    PROVE  IInv'
<1>1. UNCHANGED <<history, info, prompts, git, recipe, answers>> /\ local[p].at = "claim" /\ Raise(p)
  BY DEF MissEffect, runtime, At
<1> QED
  BY <1>1, RaiseStep DEF Guarded

LEMMA RunEffectStep ==
    ASSUME IInv, NEW p \in Procs, RunEffect(p)
    PROVE  IInv'
<1>1. UNCHANGED <<history, info, prompts, git, claimedFor, answers>> /\ local[p].at = "run"
  BY DEF RunEffect, runtime, At
<1>2. PICK l : l = local[p]
  OBVIOUS
<1>3. l \in Job /\ Sound(l) /\ l.at = "run"
  BY <1>1, <1>2, JobOf
<1>4. PICK pl, tree : pl = l.place /\ tree = branch[pl]
  OBVIOUS
<1>5. pl \in Places /\ l.start \in Trees /\ Old(l.start)
  BY <1>3, <1>4 DEF Sound, Job, Recording
<1>6. PICK status_ \in {"ready", "blocked"}, seen_ \in Trees, to \in {"done", "unknown"} :
          /\ Old(seen_) /\ effect[pl] = "claimed" /\ effect' = [effect EXCEPT ![pl] = to]
          /\ local' = [local EXCEPT ![p].at = "recorded", ![p].result = [status |-> status_, seen |-> seen_]]
          /\ status_ = "ready" => to = "done" /\ claimedFor[pl] = seen_.id
  <2>1. CASE /\ worktree[pl] /\ branch[pl].id = claimedFor[pl]
             /\ Effects!Trans(pl, "claimed", "done")
             /\ \E result \in {"ready", "blocked"} :
                  local' = [local EXCEPT ![p].at = "recorded",
                     ![p].result = [status |-> result, seen |-> branch[pl]]]
    <3>1. tree \in Trees /\ Old(tree)
      BY <1>4, <1>5, <2>1, BranchOld DEF IInv, TreesSound
    <3> QED
      BY <1>4, <2>1, <3>1 DEF Effects!Trans
  <2>2. CASE /\ Effects!Trans(pl, "claimed", "unknown")
             /\ local' = [local EXCEPT ![p].at = "recorded",
                   ![p].result = [status |-> "blocked", seen |-> l.start]]
    BY <1>5, <2>2 DEF Effects!Trans
  <2> QED
    BY <1>2, <1>4, <2>1, <2>2 DEF RunEffect, My
<1>7. PICK found : found = [status |-> status_, seen |-> seen_]
  OBVIOUS
<1>8. found \in Receipts /\ found.seen = seen_ /\ found.status = status_
  BY <1>7 DEF Receipts
<1>9. \A pm \in Places : effect[pm] = "done" => effect'[pm] = "done" /\ claimedFor'[pm] = claimedFor[pm]
  BY <1>1, <1>5, <1>6 DEF IInv, Typed
<1>10. Later
  BY <1>1, <1>9, KeepsLater DEF git
<1>11. RowsSound' /\ AnswersSound'
  BY <1>1, <1>10, LaterStep
<1>12. TreesSound'
  BY <1>1 DEF IInv, TreesSound, git
<1>13. Shared'
  BY <1>1, <1>5, <1>6 DEF IInv, Typed, Shared, git
<1>14. PICK n \in Job : Resulting(n, local[p], "recorded", found) /\ local' = [local EXCEPT ![p] = n]
  <2>1. local[p].at # "idle" /\ "recorded" \in Before \cup Recording \cup Rest
    BY <1>1 DEF Recording
  <2>2. local' = [local EXCEPT ![p].at = "recorded", ![p].result = found]
    BY <1>6, <1>7
  <2>3. found \in Receipts
    BY <1>8
  <2> HIDE <1>6, <1>8
  <2> QED
    BY <2>1, <2>2, <2>3, ResultJob
<1>15. Backed(found, pl)' /\ Old(found.seen)'
  <2>1. effect'[pl] = to
    BY <1>5, <1>6 DEF IInv, Typed
  <2>2. Old(seen_)'
    BY <1>6, <1>10, OldStays
  <2> QED
    BY <1>1, <1>6, <1>8, <2>1, <2>2 DEF Backed, Old
<1>16. Sound(l)'
  BY <1>3, <1>10, SoundStays
<1>17. Sound(n)'
  BY <1>2, <1>3, <1>4, <1>14, <1>15, <1>16 DEF Resulting, Sound, Before, Recording, Rest
<1> QED
  BY <1>10, <1>11, <1>12, <1>13, <1>14, <1>17, LocalStep

(***************************************************************************)
(* The exception branch and task cleanup.                                  *)
(***************************************************************************)
LEMMA CaughtStep ==
    ASSUME IInv, NEW p \in Procs, Caught(p)
    PROVE  IInv'
<1>1. UNCHANGED <<history, info, prompts, git, recipe, answers>> /\ local[p].at = "caught"
  BY DEF Caught, runtime, At
<1>2. Sound(local[p])
  BY <1>1, JobOf
<1>3. CASE Refuse(p)
  BY <1>1, <1>3, RefuseStep
<1>4. CASE Goto(p, "remove")
  <2>1. \A n \in Job : n.at = "remove" /\ Like(n, local[p]) => Sound(n)
    BY <1>1, <1>2 DEF Sound, Like, Before, Recording, Rest
  <2>2. local[p].at # "idle" /\ "remove" \in Before \cup Recording \cup Rest
    BY <1>1 DEF Rest
  <2> QED
    BY <1>1, <1>4, <2>1, <2>2, GotoStep
<1> QED
  BY <1>3, <1>4 DEF Caught

LEMMA ForceRemoveStep ==
    ASSUME IInv, NEW p \in Procs, ForceRemove(p)
    PROVE  IInv'
<1>1. /\ UNCHANGED <<history, info, prompts, branch, trees, recipe, answers>> /\ local[p].at = "remove"
      /\ worktree' = [worktree EXCEPT ![local[p].place] = FALSE] /\ Goto(p, "unbranch")
  BY DEF ForceRemove, runtime, At, My
<1>2. Sound(local[p])
  BY <1>1, JobOf
<1>3. Later
  BY <1>1, KeepsLater DEF recipe
<1>4. RowsSound' /\ AnswersSound'
  BY <1>1, <1>3, LaterStep
<1>5. TreesSound' /\ Shared'
  BY <1>1 DEF IInv, Typed, TreesSound, Shared, recipe
<1>6. PICK n \in Job : n.at = "unbranch" /\ Like(n, local[p]) /\ local' = [local EXCEPT ![p] = n]
  <2>1. local[p].at # "idle" /\ "unbranch" \in Before \cup Recording \cup Rest
    BY <1>1 DEF Rest
  <2> QED
    BY <1>1, <2>1, GotoJob
<1>7. Sound(n)
  BY <1>1, <1>2, <1>6 DEF Sound, Like, Before, Recording, Rest
<1>8. Sound(n)'
  BY <1>3, <1>7, SoundStays
<1> QED
  BY <1>3, <1>4, <1>5, <1>6, <1>8, LocalStep

LEMMA DeleteBranchStep ==
    ASSUME IInv, NEW p \in Procs, DeleteBranch(p)
    PROVE  IInv'
<1>1. /\ UNCHANGED <<history, info, prompts, worktree, trees, recipe, answers>> /\ Refuse(p)
      /\ branch' = IF worktree[local[p].place] THEN branch ELSE [branch EXCEPT ![local[p].place] = None]
  BY DEF DeleteBranch, runtime, My
<1>2. \A pl \in Places : branch'[pl] = branch[pl] \/ (branch'[pl] = None /\ ~worktree[pl])
  BY <1>1 DEF IInv, Typed
<1>3. Later
  <2>1. \A pl \in Places : branch[pl] # None => branch[pl] \in Trees /\ branch[pl].work \in Nat
    BY BoundsAssumption DEF IInv, Typed, Trees
  <2>2. trees \in Nat
    BY BoundsAssumption DEF IInv, Typed
  <2> QED
    BY <1>1, <1>2, <2>1, <2>2 DEF Later, recipe
<1>4. RowsSound' /\ AnswersSound'
  BY <1>1, <1>3, LaterStep
<1>5. TreesSound'
  BY <1>1, <1>2 DEF IInv, TreesSound
<1>6. Shared'
  <2>1. branch' \in [Places -> Trees \cup {None}]
    BY <1>1 DEF IInv, Typed
  <2> QED
    BY <1>1, <2>1 DEF IInv, Typed, Shared, recipe
<1>7. Sound(Idle)'
  BY <1>3, IdleSound, SoundStays
<1> QED
  BY <1>1, <1>3, <1>4, <1>5, <1>6, <1>7, LocalStep DEF Refuse

LEMMA CleanupLoadStep ==
    ASSUME IInv, NEW p \in Procs, CleanupLoad(p)
    PROVE  IInv'
<1>1. UNCHANGED <<history, info, prompts, git, recipe, answers>> /\ Latest # None
  BY DEF CleanupLoad, runtime
<1>2. PICK pl : pl = info[Latest].place
  OBVIOUS
<1>3. pl \in Places
  BY <1>1, <1>2, LatestHas, RowOf
<1>4. PICK n : n = [Call(None, pl) EXCEPT !.at = "cleanup"]
  OBVIOUS
<1>5. /\ n.at = "cleanup" /\ n.place = pl /\ n.from = None /\ n.start = NoTree
      /\ n.expected = Plain /\ n.result = Plain
  BY <1>4, CallFields
<1>6. n \in Job
  <2>1. "cleanup" \in Before \cup Recording \cup Rest
    BY DEF Rest
  <2>2. NoTree \in Trees /\ Plain \in Receipts
    BY PlainOld
  <2> HIDE DEF Before, Recording, Rest, Plain, NoTree
  <2> QED
    BY <1>3, <1>4, <2>1, <2>2, CallFields DEF Job
<1>7. local' = [local EXCEPT ![p] = n]
  BY <1>2, <1>4 DEF CleanupLoad
<1>8. Sound(n)
  BY <1>3, <1>5, PlainOld DEF Sound, Before, Recording, Rest
<1> QED
  BY <1>1, <1>6, <1>7, <1>8, ReadStep

LEMMA CleanupProveStep ==
    ASSUME IInv, NEW p \in Procs, CleanupProve(p)
    PROVE  IInv'
<1>1. UNCHANGED <<history, info, prompts, git, recipe, answers>> /\ local[p].at = "cleanup"
  BY DEF CleanupProve, runtime, At
<1>2. Sound(local[p])
  BY <1>1, JobOf
<1>3. CASE Refuse(p)
  BY <1>1, <1>3, RefuseStep
<1>4. CASE \E s \in {"remove", "unbranch"} : Goto(p, s)
  <2>1. PICK s \in {"remove", "unbranch"} : Goto(p, s)
    BY <1>4
  <2>2. \A n \in Job : n.at = s /\ Like(n, local[p]) => Sound(n)
    BY <1>1, <1>2 DEF Sound, Like, Before, Recording, Rest
  <2>3. local[p].at # "idle" /\ s \in Before \cup Recording \cup Rest
    BY <1>1 DEF Rest
  <2> QED
    BY <1>1, <2>1, <2>2, <2>3, GotoStep
<1> QED
  BY <1>3, <1>4 DEF CleanupProve

(***************************************************************************)
(* Failures, and what happens around task begin.                           *)
(***************************************************************************)
LEMMA FailStep ==
    ASSUME IInv, NEW p \in Procs, Fail(p)
    PROVE  IInv'
<1>1. UNCHANGED <<history, info, prompts, git, claimedFor, answers>> /\ local[p] # Idle
  BY DEF Fail, runtime
<1>2. PICK l : l = local[p]
  OBVIOUS
<1>3. l \in Job /\ Sound(l)
  BY <1>1, <1>2 DEF IInv, Typed
<1>4. /\ effect' \in [Places -> {"none", "claimed", "done", "unknown"}]
      /\ \A pl \in Places : effect[pl] = "done" => effect'[pl] = "done"
  BY DEF Fail, Effects!Trans, IInv, Typed
<1>5. Later
  BY <1>1, <1>4, KeepsLater DEF git
<1>6. RowsSound' /\ AnswersSound'
  BY <1>1, <1>5, LaterStep
<1>7. TreesSound' /\ Shared'
  BY <1>1, <1>4 DEF IInv, Typed, TreesSound, Shared, git
<1>8. CASE Refuse(p)
  BY <1>5, <1>6, <1>7, <1>8, IdleSound, SoundStays, LocalStep DEF Refuse
<1>9. CASE l.at \in Guarded /\ Raise(p)
  <2>1. PICK n \in Job : Sound(n) /\ local' = [local EXCEPT ![p] = n]
    BY <1>2, <1>9, RaiseJob
  <2>2. Sound(n)'
    BY <1>5, <2>1, SoundStays
  <2> QED
    BY <1>5, <1>6, <1>7, <2>1, <2>2, LocalStep
<1> QED
  BY <1>2, <1>8, <1>9 DEF Fail, My

\* A step of nobody's call.
LEMMA StillStep ==
    ASSUME IInv, UNCHANGED local, Later, Shared', RowsSound', TreesSound', AnswersSound'
    PROVE  IInv'
<1>1. ASSUME NEW q \in Procs PROVE Sound(local[q])'
  <2>1. PICK l : l = local[q]
    OBVIOUS
  <2>2. l \in Job \cup {Idle} /\ Sound(l)
    BY <2>1 DEF IInv, Typed
  <2>3. Sound(l)'
    BY <2>2, SoundStays
  <2> QED
    BY <2>1, <2>3 DEF Sound
<1>2. Typed'
  BY DEF IInv, Typed, Shared
<1> QED
  BY <1>1, <1>2 DEF IInv

LEMMA WorkStep ==
    ASSUME IInv, NEW a \in AttemptIds, Work(a)
    PROVE  IInv'
<1>1. UNCHANGED <<history, info, prompts, worktree, trees, recipe, local, answers>>
  BY DEF Work, runtime
<1>2. PICK pl : pl = info[a].place
  OBVIOUS
<1>3. /\ pl \in Places /\ worktree[pl] /\ branch[pl].work < MaxWork
      /\ branch' = [branch EXCEPT ![pl].work = @ + 1]
  <2>1. info[a].place \in Places
    BY ActiveHas, RowOf DEF Work
  <2> QED
    BY <1>2, <2>1 DEF Work
<1>4. PICK before : before = branch[pl]
  OBVIOUS
<1>5. before # None /\ before \in Trees /\ before.id \in 0..MaxTrees /\ before.work \in Nat /\ before.work < MaxWork
  BY <1>3, <1>4, BoundsAssumption DEF IInv, TreesSound, Typed, Trees
<1>6. PICK after : after = [before EXCEPT !.work = @ + 1]
  OBVIOUS
<1>7. after \in Trees /\ after.id = before.id /\ after.work = before.work + 1
  <2>1. before.work + 1 \in 0..MaxWork
    BY <1>5, BoundsAssumption
  <2> QED
    BY <1>5, <1>6, <2>1 DEF Trees
<1>8. after # None
  BY <1>7, NoneAssumption
<1>9. branch' = [branch EXCEPT ![pl] = after]
  BY <1>3, <1>4, <1>6
<1>10. branch'[pl] = after /\ \A pm \in Places : pm # pl => branch'[pm] = branch[pm]
  BY <1>3, <1>9 DEF IInv, Typed
<1>11. \A pm \in Places : branch[pm] # None => branch[pm] \in Trees /\ branch[pm].work \in Nat
  BY BoundsAssumption DEF IInv, Typed, Trees
<1>12. Later
  <2>1. \A pm \in Places : branch'[pm] # None =>
              /\ branch[pm] # None /\ branch'[pm].id = branch[pm].id
              /\ branch'[pm] \in Trees /\ branch[pm] \in Trees /\ branch[pm].work <= branch'[pm].work
    BY <1>4, <1>5, <1>7, <1>10, <1>11
  <2>2. trees \in Nat
    BY BoundsAssumption DEF IInv, Typed
  <2> QED
    BY <1>1, <2>1, <2>2 DEF Later, recipe
<1>13. RowsSound' /\ AnswersSound'
  BY <1>1, <1>12, LaterStep
<1>14. \A pm \in Places : (branch'[pm] # None <=> branch[pm] # None) /\ (branch[pm] # None => branch'[pm].id = branch[pm].id)
  BY <1>4, <1>5, <1>7, <1>8, <1>10
<1>15. TreesSound'
  BY <1>1, <1>14 DEF IInv, TreesSound
<1>16. Shared'
  <2>1. branch' \in [Places -> Trees \cup {None}]
    BY <1>3, <1>7, <1>9 DEF IInv, Typed
  <2> QED
    BY <1>1, <2>1 DEF IInv, Typed, Shared, recipe
<1> QED
  BY <1>1, <1>12, <1>13, <1>15, <1>16, StillStep

LEMMA CloseStep ==
    ASSUME IInv, NEW a \in AttemptIds, Close(a)
    PROVE  IInv'
<1>1. UNCHANGED <<info, prompts, git, recipe, local, answers>> /\ a \in Active
  BY DEF Close
<1>2. PICK old, k : old = history[Task] /\ k = Len(old)
  OBVIOUS
<1>3. old \in Seq(Entry) /\ history' = [history EXCEPT ![Task][k].outcome = "failed"]
  BY <1>2 DEF Close, Attempts, IInv, Typed
<1>4. k \in DOMAIN old
  <2>1. \E i \in DOMAIN old : TRUE
    BY <1>1, <1>2 DEF Active, Attempts
  <2> QED
    BY <1>2, <1>3, <2>1
<1>5. PICK entry : entry = [old[k] EXCEPT !.outcome = "failed"]
  OBVIOUS
<1>6. old[k] \in Entry /\ entry \in Entry /\ entry.id = old[k].id
  <2>1. old[k] \in Entry
    BY <1>3, <1>4
  <2> QED
    BY <1>5, <2>1 DEF Entry
<1>7. PICK new : new = [old EXCEPT ![k] = entry]
  OBVIOUS
<1>8. new \in Seq(Entry) /\ DOMAIN new = DOMAIN old /\ \A i \in DOMAIN old : new[i].id = old[i].id
  BY <1>3, <1>4, <1>6, <1>7
<1>9. history' = [history EXCEPT ![Task] = new]
  BY <1>2, <1>3, <1>5, <1>7
<1>10. history' \in [{Task} -> Seq(Entry)] /\ history'[Task] = new
  BY <1>8, <1>9 DEF IInv, Typed
<1>11. \A b \in AttemptIds : Runtime!Attempted(b)' <=> Runtime!Attempted(b)
  BY <1>2, <1>8, <1>10 DEF Runtime!Attempted
<1>12. Later
  BY <1>1, KeepsLater DEF git, recipe
<1>13. RowsSound'
  <2>1. ASSUME NEW b \in AttemptIds
        PROVE  /\ info[b] # None <=> Runtime!Attempted(b)'
               /\ info[b] # None => /\ info[b].lineage \in prompts
                                    /\ Backed(info[b].receipt, info[b].place)'
                                    /\ Old(info[b].receipt.seen)'
    BY <1>1, <1>11 DEF IInv, RowsSound, Backed, Old, git, recipe
  <2> QED
    BY <1>1, <2>1 DEF RowsSound
<1>14. TreesSound' /\ AnswersSound' /\ Shared'
  BY <1>1, <1>10 DEF IInv, Typed, TreesSound, AnswersSound, Shared, git, recipe
<1> QED
  BY <1>1, <1>12, <1>13, <1>14, StillStep

LEMMA UnchangedStep ==
    ASSUME IInv, UNCHANGED <<history, info, prompts, git, recipe, local, answers>>
    PROVE  IInv'
<1>1. answers' \in SUBSET [to: Lineages, attempt: AttemptIds]
  BY DEF IInv, Typed
<1> QED
  BY <1>1, SameLater, SameShared, StillStep

(***************************************************************************)
(* The invariant holds.                                                    *)
(***************************************************************************)
LEMMA IInvInit == Init => IInv
<1> SUFFICES ASSUME Init PROVE IInv
  OBVIOUS
<1>1. Typed
  BY BoundsAssumption DEF Init, Typed
<1>2. RowsSound
  BY DEF Init, RowsSound, Runtime!Attempted
<1>3. TreesSound /\ AnswersSound
  BY DEF Init, TreesSound, AnswersSound
<1>4. \A p \in Procs : Sound(local[p])
  BY IdleSound DEF Init, Sound
<1> QED
  BY <1>1, <1>2, <1>3, <1>4 DEF IInv

LEMMA IInvStep == IInv /\ [Next]_vars => IInv'
<1> SUFFICES ASSUME IInv, [Next]_vars PROVE IInv'
  OBVIOUS
<1>1. ASSUME NEW p \in Procs, Step(p) PROVE IInv'
  BY <1>1, LoadStep, GuardStep, ProveActiveStep, ValidateStep, RecordSetupStep, RejectRecordStep,
     RepairStartStep, ProveLatestStep, ValidateRetainedStep, PersistPromptsStep,
     CheckFreshStep, AddWorktreeStep, CreateTaskStep, StartTaskStep, RefuseStartStep,
     StartEventsStep, ClaimEffectStep, VerifyEffectStep, MissEffectStep, RunEffectStep,
     RecordFreshStep, CaughtStep, ForceRemoveStep, DeleteBranchStep, CleanupLoadStep,
     CleanupProveStep
  DEF Step
<1>2. ASSUME NEW p \in Procs, Fail(p) PROVE IInv'
  BY <1>2, FailStep
<1>3. ASSUME NEW a \in AttemptIds, Work(a) \/ Close(a) PROVE IInv'
  BY <1>3, WorkStep, CloseStep
<1>4. CASE Cancel \/ Reopen
  BY <1>4, UnchangedStep DEF Cancel, Reopen, Moved
<1>5. CASE UNCHANGED vars
  BY <1>5, UnchangedStep DEF vars, runtime
<1> QED
  BY <1>1, <1>2, <1>3, <1>4, <1>5 DEF Next

\* The inductive invariant holds: what every command has read, made or found
\* stays true of the shared state while the others go on (wtam.py).
THEOREM InvariantHolds == Spec => []IInv
<1>1. Init => IInv
  BY IInvInit
<1>2. IInv /\ [Next]_vars => IInv'
  BY IInvStep
<1> QED
  BY <1>1, <1>2, PTL DEF Spec

\* Rows and attempts come together, and the prompts a row names are stored, so
\* that its begin can be repeated exactly (begin_task_worktree).
THEOREM TypeCorrect == Spec => []TypeOK
<1>1. IInv => TypeOK
  <2> SUFFICES ASSUME IInv PROVE TypeOK
    OBVIOUS
  <2>1. \A a \in AttemptIds : info[a] # None => info[a] \in Rows /\ Replayable(a)
    BY RowOf DEF Replayable, Stored
  <2>2. \A a \in AttemptIds : info[a] # None <=> Runtime!Attempted(a)
    BY DEF IInv, RowsSound
  <2>3. \A pl \in Places : worktree[pl] => branch[pl] # None
    BY DEF IInv, TreesSound
  <2> QED
    BY <2>1, <2>2, <2>3 DEF IInv, Typed, TypeOK
<1> QED
  BY <1>1, InvariantHolds, PTL

\* A success is only answered to the actor and the prompts that the attempt was
\* started with, and after its start evidence (begin_task_worktree).
THEOREM AnswersAreOwn == Spec => []AnswersOwn
<1>1. IInv => AnswersOwn
  BY DEF IInv, AnswersSound, AnswersOwn
<1> QED
  BY <1>1, InvariantHolds, PTL

\* A ready receipt is evidence of completed effects in the tree it names, for
\* any use of the path before (prepare_worktree, record_task_setup).
THEOREM ReadyIsAlwaysPrepared == Spec => []ReadyIsPrepared
<1>1. IInv => ReadyIsPrepared
  BY DEF IInv, RowsSound, Backed, ReadyIsPrepared
<1> QED
  BY <1>1, InvariantHolds, PTL

(***************************************************************************)
(* Receipts advance.                                                       *)
(***************************************************************************)
\* What one step does to the receipts.
Advancing ==
    \A a \in AttemptIds : info[a] # None /\ info'[a].receipt.seen.id = info[a].receipt.seen.id =>
            info[a].receipt.seen.work <= info'[a].receipt.seen.work

LEMMA SameReceipts ==
    ASSUME IInv, \A a \in AttemptIds : info[a] # None => info'[a].receipt = info[a].receipt
    PROVE  Advancing
<1>1. \A a \in AttemptIds : info[a] # None => info[a].receipt.seen.work \in Nat
  BY RowOf, BoundsAssumption DEF Receipts, Trees
<1> QED
  BY <1>1 DEF Advancing

LEMMA StartedReceipts ==
    ASSUME IInv, NEW a \in AttemptIds, info' = [info EXCEPT ![a].started = TRUE]
    PROVE  Advancing
<1>1. \A b \in AttemptIds : info[b] # None => info[b] \in Rows
  BY RowOf
<1>2. \A b \in AttemptIds : info[b] # None => info'[b].receipt = info[b].receipt
  BY <1>1 DEF Rows, IInv, Typed
<1> QED
  BY <1>2, SameReceipts

LEMMA RecordedReceipts ==
    ASSUME IInv, NEW p \in Procs, local[p].at \in {"record", "recorded"}, Recordable(p), WriteReceipt(p)
    PROVE  Advancing
<1>1. PICK l : l = local[p]
  OBVIOUS
<1>2. l \in Job /\ Sound(l) /\ l.at \in {"record", "recorded"}
  BY <1>1, JobOf
<1>3. l.attempt \in AttemptIds /\ info[l.attempt] # None
  BY <1>2 DEF Sound, Recording
<1>4. info[l.attempt].receipt \in {l.expected, l.result}
  BY <1>1 DEF Recordable, Overwritable, My
<1>5. l.result.seen.work \in Nat
  BY <1>2, BoundsAssumption DEF Job, Receipts, Trees
<1>6. info[l.attempt].receipt.seen.id = l.result.seen.id => info[l.attempt].receipt.seen.work <= l.result.seen.work
  BY <1>2, <1>4, <1>5 DEF Sound, NoTree
<1>7. PICK row \in Rows : info' = [info EXCEPT ![l.attempt] = row] /\ row.receipt = l.result
  <2>1. info[l.attempt] \in Rows /\ l.result \in Receipts
    BY <1>2, <1>3, RowOf DEF Job
  <2>2. PICK row : row = [info[l.attempt] EXCEPT !.receipt = l.result]
    OBVIOUS
  <2>3. row \in Rows /\ row.receipt = l.result
    BY <2>1, <2>2 DEF Rows
  <2> QED
    BY <1>1, <2>2, <2>3 DEF WriteReceipt, My
<1>8. ASSUME NEW a \in AttemptIds, info[a] # None, info'[a].receipt.seen.id = info[a].receipt.seen.id
      PROVE  info[a].receipt.seen.work <= info'[a].receipt.seen.work
  <2>1. CASE a = l.attempt
    <3>1. info'[a].receipt = l.result
      BY <1>7, <2>1 DEF IInv, Typed
    <3> QED
      BY <1>6, <1>8, <2>1, <3>1
  <2>2. CASE a # l.attempt
    <3>1. info'[a] = info[a]
      BY <1>7, <2>2 DEF IInv, Typed
    <3>2. info[a].receipt.seen.work \in Nat
      BY <1>8, RowOf, BoundsAssumption DEF Receipts, Trees
    <3> QED
      BY <3>1, <3>2
  <2> QED
    BY <2>1, <2>2
<1> QED
  BY <1>8 DEF Advancing

LEMMA AdvancingStep == IInv /\ [Next]_vars => Advancing \/ UNCHANGED info
<1> SUFFICES ASSUME IInv, [Next]_vars PROVE Advancing \/ UNCHANGED info
  OBVIOUS
<1>1. ASSUME NEW p \in Procs, RecordSetup(p) PROVE Advancing
  BY <1>1, RecordedReceipts DEF RecordSetup, At
<1>2. ASSUME NEW p \in Procs, RecordFresh(p) PROVE Advancing \/ UNCHANGED info
  BY <1>2, RecordedReceipts DEF RecordFresh, At
<1>3. ASSUME NEW p \in Procs, RepairStart(p) PROVE Advancing \/ UNCHANGED info
  BY <1>3, ActiveHas, StartedReceipts DEF RepairStart
<1>4. ASSUME NEW p \in Procs, StartEvents(p) PROVE Advancing
  <2>1. My(p).attempt \in AttemptIds
    BY <1>4, JobOf DEF StartEvents, At, My, Sound, Recording
  <2> QED
    BY <1>4, <2>1, StartedReceipts DEF StartEvents
<1>5. ASSUME NEW p \in Procs, StartTask(p) PROVE Advancing
  <2>a. PICK a \in AttemptIds :
            /\ Runtime!AbsStart(Task, a)
            /\ \E row : info' = [info EXCEPT ![a] = row]
    BY <1>5 DEF StartTask
  <2>b. PICK row : info' = [info EXCEPT ![a] = row]
    BY <2>a
  <2>1. Runtime!AbsStart(Task, a) /\ info' = [info EXCEPT ![a] = row]
    BY <2>a, <2>b
  <2>2. info[a] = None
    BY <2>1 DEF IInv, RowsSound, Runtime!AbsStart
  <2>3. \A b \in AttemptIds : info[b] # None => info'[b] = info[b]
    BY <2>1, <2>2 DEF IInv, Typed
  <2> QED
    BY <2>3, SameReceipts
<1>6. ASSUME NEW p \in Procs, Step(p) PROVE Advancing \/ UNCHANGED info
  <2> USE <1>6
  <2>1. CASE RecordSetup(p) \/ RecordFresh(p) \/ RepairStart(p) \/ StartEvents(p) \/ StartTask(p)
    BY <1>1, <1>2, <1>3, <1>4, <1>5, <2>1
  <2>2. CASE Load(p) \/ Guard(p) \/ ProveActive(p) \/ Validate(p) \/ RejectRecord(p)
             \/ ProveLatest(p) \/ ValidateRetained(p) \/ PersistPrompts(p) \/ CheckFresh(p)
             \/ AddWorktree(p) \/ CreateTask(p) \/ RefuseStart(p)
    BY <2>2 DEF Load, Guard, ProveActive, Validate, RejectRecord, ProveLatest, ValidateRetained,
        PersistPrompts, CheckFresh, AddWorktree, CreateTask, RefuseStart
  <2>3. CASE ClaimEffect(p) \/ VerifyEffect(p) \/ MissEffect(p) \/ RunEffect(p) \/ Caught(p)
             \/ ForceRemove(p) \/ DeleteBranch(p) \/ CleanupLoad(p) \/ CleanupProve(p)
    BY <2>3 DEF ClaimEffect, VerifyEffect, MissEffect, RunEffect, Caught, ForceRemove, DeleteBranch,
        CleanupLoad, CleanupProve
  <2> QED
    BY <2>1, <2>2, <2>3 DEF Step
<1>7. ASSUME NEW p \in Procs, Fail(p) PROVE UNCHANGED info
  BY <1>7 DEF Fail
<1>8. ASSUME NEW a \in AttemptIds, Work(a) \/ Close(a) PROVE UNCHANGED info
  BY <1>8 DEF Work, Close
<1>9. CASE Cancel \/ Reopen
  BY <1>9 DEF Cancel, Reopen, Moved
<1>10. CASE UNCHANGED vars
  BY <1>10 DEF vars
<1> QED
  BY <1>6, <1>7, <1>8, <1>9, <1>10 DEF Next

\* A receipt is never replaced by one that saw less of the same tree, whoever
\* verified when (the expected receipt of record_task_setup).
THEOREM ReceiptsAlwaysAdvance == Spec => ReceiptsAdvance
<1>1. IInv /\ [Next]_vars =>
          [\A a \in AttemptIds : info[a] # None =>
              LET before == info[a].receipt.seen  after == info'[a].receipt.seen IN
              before.id = after.id => before.work <= after.work]_info
  BY AdvancingStep DEF Advancing
<1> QED
  BY <1>1, InvariantHolds, PTL DEF Spec, ReceiptsAdvance
=============================================================================
