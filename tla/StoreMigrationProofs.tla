------------------------- MODULE StoreMigrationProofs -------------------------
(***************************************************************************)
(* What TLAPS proves of repo migrate, for any number of processes, deaths, *)
(* writes of the previous and of the current runtime, and cutover times.   *)
(***************************************************************************)
EXTENDS StoreMigration, TLAPS

Locked == {"inspect", "archive", "mark", "prompts", "events", "runtime", "planning", "unmark"}

\* A marker is there from "prompts" on; each later stage has done one more write.
Marked == {"prompts", "events", "runtime", "planning", "unmark"}
AfterPrompts == {"events", "runtime", "planning", "unmark"}
AfterEvents == {"runtime", "planning", "unmark"}
AfterRuntime == {"planning", "unmark"}

Originals == {"runtime", "planning", "events"}
PartNames == Originals \cup {"manifest", "identity-map", "target-events"}

\* The current rows of the runtime and of the ledger.
RuntimeRows == [schema : {4}, of : Snapshots, work : Nat]
EventRows == [schema : {4}, of : Snapshots, at : Nat, work : Nat]
TargetEvents(d) == {Events4(d, t) : t \in 1..MaxTimes}

(***************************************************************************)
(* The inductive invariant.                                                *)
(***************************************************************************)
\* Whoever is past Enter holds the lock, and nobody else.
Mutex == \A p \in Procs : local[p].at \in Locked <=> lock = p

JobsTyped ==
    /\ DOMAIN local = Procs
    /\ \A p \in Procs :
          \/ local[p] = Idle
          \/ local[p].at = "read"
          \/ local[p] \in [at : {"recheck", "wait"} \cup Locked, digest : Snapshots]

CountersTyped ==
    /\ version \in 0..MaxVersions /\ time \in 0..MaxTimes /\ work \in Nat
    /\ lock \in Procs \cup {None}
    /\ previews \subseteq Snapshots

FilesTyped == file = [f \in Files |-> file[f]]

\* An archive holds the original bytes under their digest.
ArchiveSound ==
    \A d \in DOMAIN archive :
        /\ d \in Snapshots
        /\ \A f \in Originals : Archived(d, f) => archive[d][f] = d[f]
        /\ Archived(d, "target-events") => archive[d]["target-events"] \in TargetEvents(d)

Complete(d) == \A part \in PartNames : Archived(d, part)

\* A marker names a complete archive; under it the runtime is converted last
\* but for the plan, after prompts and ledger.
MarkerSound ==
    pending # None =>
        LET d == pending.digest IN
        /\ pending.digest \in Snapshots
        /\ Complete(d)
        /\ pending.events = archive[d]["target-events"]
        /\ file["runtime"].schema = 4 =>
              /\ file["runtime"] = Runtime4(d)
              /\ file["events"] = pending.events
              /\ d \in prompts

\* What the process under the lock has checked or written still stands.
HolderOf(p) ==
    LET d == local[p].digest IN
    /\ local[p].at \in {"archive", "mark"} => pending = None /\ d = file
    /\ local[p].at = "mark" => Complete(d)
    /\ local[p].at \in Marked =>
          /\ pending # None /\ pending.digest = d
          /\ \A f \in Files : Allowed(f, d)
    /\ local[p].at \in AfterPrompts => d \in prompts
    /\ local[p].at \in AfterEvents => file["events"] = pending.events
    /\ local[p].at \in AfterRuntime => file["runtime"] = Runtime4(d)
    /\ local[p].at = "unmark" => file["planning"] = None

HolderSound == \A p \in Procs : HolderOf(p)

Whole ==
    Loads =>
        LET d == file["runtime"].of IN
        /\ file["runtime"] \in RuntimeRows
        /\ file["events"] \in EventRows
        /\ file["events"].of = d
        /\ file["events"].work = file["runtime"].work
        /\ file["planning"] = None
        /\ d \in prompts
        /\ \A f \in Files : Archived(d, f)

IInv ==
    /\ Mutex /\ JobsTyped /\ CountersTyped /\ FilesTyped
    /\ ArchiveSound /\ MarkerSound /\ HolderSound /\ Whole

USE DEF Idle, Files, Originals

\* A legacy store at rest, nothing archived, nobody inside.
LEMMA InitHolds == Init => IInv
  BY BoundsAssumption, NoneAssumption
  DEF Init, IInv, Mutex, JobsTyped, CountersTyped, FilesTyped, ArchiveSound, MarkerSound,
      HolderSound, HolderOf, Whole, Loads, Legacy, Locked, Marked, AfterPrompts, AfterEvents, AfterRuntime

(***************************************************************************)
(* Steps of a process outside the lock: nothing durable changes.           *)
(***************************************************************************)
LEMMA OutsideStep ==
    ASSUME IInv, NEW p \in Procs,
           UNCHANGED <<store, busy, lock, counters, failures>>,
           previews' \subseteq Snapshots,
           local[p].at \notin Locked,
           NEW next, Go(p, next), next.at \notin Locked,
           \/ next = Idle \/ next.at = "read"
           \/ next \in [at : {"recheck", "wait"} \cup Locked, digest : Snapshots]
    PROVE  IInv'
  <1>1. local' = [local EXCEPT ![p] = next] /\ DOMAIN local = Procs
    BY DEF Go, IInv, JobsTyped
  <1>2. \A q \in Procs : local'[q] = IF q = p THEN next ELSE local[q]
    BY <1>1
  <1>3. UNCHANGED <<file, pending, archive, prompts, version, time, work, lock>>
    BY DEF store, counters
  <1>4. Mutex'
    BY <1>2, <1>3 DEF IInv, Mutex
  <1>5. JobsTyped'
    BY <1>1, <1>2 DEF IInv, JobsTyped
  <1>6. HolderSound'
    BY <1>2, <1>3 DEF IInv, HolderSound, HolderOf, Allowed, Complete, Archived, Locked, Marked,
                      AfterPrompts, AfterEvents, AfterRuntime
  <1> QED
    BY <1>3, <1>4, <1>5, <1>6
    DEF IInv, CountersTyped, FilesTyped, ArchiveSound, MarkerSound, Whole, Loads, Complete, Archived

\* The holder releases the locks, or dies.
LEMMA LeaveStep ==
    ASSUME IInv, NEW p \in Procs, Leave(p), lock = p,
           UNCHANGED <<store, busy, previews, counters>>
    PROVE  IInv'
  <1>1. /\ local' = [local EXCEPT ![p] = Idle] /\ DOMAIN local = Procs
        /\ lock' = None
    BY DEF Leave, Go, IInv, JobsTyped
  <1>2. \A q \in Procs : local'[q] = IF q = p THEN Idle ELSE local[q]
    BY <1>1
  <1>3. UNCHANGED <<file, pending, archive, prompts, version, time, work>>
    BY DEF store, counters
  <1>4. Mutex'
    BY <1>1, <1>2, NoneAssumption DEF IInv, Mutex, Locked
  <1>5. JobsTyped'
    BY <1>1, <1>2 DEF IInv, JobsTyped
  <1>6. HolderSound'
    BY <1>2, <1>3 DEF IInv, HolderSound, HolderOf, Allowed, Complete, Archived, Locked, Marked,
                      AfterPrompts, AfterEvents, AfterRuntime
  <1> QED
    BY <1>1, <1>3, <1>4, <1>5, <1>6
    DEF IInv, CountersTyped, FilesTyped, ArchiveSound, MarkerSound, Whole, Loads, Complete, Archived

LEMMA EnterStep ==
    ASSUME IInv, NEW p \in Procs, Enter(p)
    PROVE  IInv'
  <1>1. local[p] \in [at : {"recheck", "wait"} \cup Locked, digest : Snapshots]
    BY DEF Enter, IInv, JobsTyped
  <1>2. /\ local' = [local EXCEPT ![p] = [local[p] EXCEPT !.at = "inspect"]]
        /\ DOMAIN local = Procs
        /\ lock = None /\ lock' = p
    BY DEF Enter, Go, IInv, JobsTyped
  <1>3. \A q \in Procs : local'[q] = IF q = p THEN [local[p] EXCEPT !.at = "inspect"] ELSE local[q]
    BY <1>2
  <1>4. local'[p] \in [at : {"recheck", "wait"} \cup Locked, digest : Snapshots] /\ local'[p].at = "inspect"
    BY <1>1, <1>3 DEF Locked
  <1>5. UNCHANGED <<file, pending, archive, prompts, previews, version, time, work>>
    BY DEF Enter, store, counters
  <1>6. Mutex'
    BY <1>2, <1>3, <1>4, NoneAssumption DEF IInv, Mutex, Locked
  <1>7. JobsTyped'
    BY <1>2, <1>3, <1>4 DEF IInv, JobsTyped
  <1>8. HolderSound'
    BY <1>3, <1>4, <1>5 DEF IInv, HolderSound, HolderOf, Allowed, Complete, Archived, Locked, Marked,
                      AfterPrompts, AfterEvents, AfterRuntime
  <1> QED
    BY <1>2, <1>5, <1>6, <1>7, <1>8
    DEF IInv, CountersTyped, FilesTyped, ArchiveSound, MarkerSound, Whole, Loads, Complete, Archived

(***************************************************************************)
(* Steps of the holder that go on: the others are outside, and what the    *)
(* step must establish is about the holder's next stage and the store.     *)
(***************************************************************************)
LEMMA HolderGoesOn ==
    ASSUME IInv, NEW p \in Procs, local[p].at \in Locked,
           NEW stage \in Locked, Go(p, [local[p] EXCEPT !.at = stage]),
           UNCHANGED lock
    PROVE  /\ Mutex' /\ JobsTyped'
           /\ local'[p].at = stage /\ local'[p].digest = local[p].digest
           /\ local[p].digest \in Snapshots
           /\ \A q \in Procs : q # p => local'[q].at \notin Locked
  <1>1. local[p] \in [at : {"recheck", "wait"} \cup Locked, digest : Snapshots]
    BY DEF IInv, JobsTyped, Locked
  <1>2. local' = [local EXCEPT ![p] = [local[p] EXCEPT !.at = stage]] /\ DOMAIN local = Procs
    BY DEF Go, IInv, JobsTyped
  <1>3. \A q \in Procs : local'[q] = IF q = p THEN [local[p] EXCEPT !.at = stage] ELSE local[q]
    BY <1>2
  <1>4. local'[p] \in [at : {"recheck", "wait"} \cup Locked, digest : Snapshots] /\ local'[p].at = stage
        /\ local'[p].digest = local[p].digest
    BY <1>1, <1>3
  <1>5. JobsTyped'
    BY <1>2, <1>3, <1>4 DEF IInv, JobsTyped
  <1>6. Mutex'
    BY <1>3, <1>4 DEF IInv, Mutex
  <1> QED
    BY <1>1, <1>3, <1>4, <1>5, <1>6 DEF IInv, Mutex

\* Nothing is left to show of the processes that do not hold the lock.
LEMMA HolderAlone ==
    ASSUME NEW p \in Procs,
           \A q \in Procs : q # p => local'[q].at \notin Locked,
           HolderOf(p)'
    PROVE  HolderSound'
  BY DEF HolderSound, HolderOf, Locked, Marked, AfterPrompts, AfterEvents, AfterRuntime

LEMMA AdmitStep ==
    ASSUME IInv, NEW p \in Procs, Admit(p)
    PROVE  IInv'
  <1> DEFINE d == local[p].digest
             next == IF pending = None THEN "archive" ELSE "prompts"
  <1>1. /\ local[p].at = "inspect" /\ Admissible(d)
        /\ Go(p, [local[p] EXCEPT !.at = next])
        /\ UNCHANGED <<file, pending, archive, prompts, lock, previews, version, time, work>>
    BY DEF Admit, store, counters
  <1>2. next \in Locked /\ local[p].at \in Locked
    BY <1>1 DEF Locked
  <1>3. /\ Mutex' /\ JobsTyped'
        /\ local'[p].at = next /\ local'[p].digest = d /\ d \in Snapshots
        /\ \A q \in Procs : q # p => local'[q].at \notin Locked
    BY <1>1, <1>2, HolderGoesOn
  <1>4. pending = None => d = file
    BY <1>1 DEF Admissible, Snapshot, IInv, FilesTyped
  <1>5. pending # None => pending.digest = d /\ \A f \in Files : Allowed(f, d)
    BY <1>1 DEF Admissible, Untouched
  <1>6. HolderOf(p)'
    BY <1>1, <1>3, <1>4, <1>5
    DEF HolderOf, Marked, AfterPrompts, AfterEvents, AfterRuntime, Allowed
  <1> QED
    BY <1>1, <1>3, <1>6, HolderAlone
    DEF IInv, CountersTyped, FilesTyped, ArchiveSound, MarkerSound, Whole, Loads, Complete, Archived

LEMMA NextPartMissing ==
    ASSUME NEW p \in Procs
    PROVE  /\ NextPart(p) \in 1..6
           /\ \A i \in 1..6 : i < NextPart(p) => Archived(local[p].digest, Parts[i])
  <1> DEFINE missing == {i \in 1..6 : ~Archived(local[p].digest, Parts[i])}
  <1>1. DOMAIN Parts = 1..6 /\ Len(Parts) = 6
    BY DEF Parts
  <1>2. CASE missing = {}
    BY <1>1, <1>2 DEF NextPart
  <1>3. CASE missing # {}
    <2>1. \E i \in missing : \A j \in missing : i <= j
      <3>1. \A i \in missing : i \in 1..6
        OBVIOUS
      <3> QED
        BY <1>3, <3>1
    <2>2. NextPart(p) \in missing /\ \A j \in missing : NextPart(p) <= j
      BY <1>1, <1>3, <2>1 DEF NextPart
    <2> QED
      BY <2>2
  <1> QED
    BY <1>2, <1>3

LEMMA ArchivePartStep ==
    ASSUME IInv, NEW p \in Procs, ArchivePart(p)
    PROVE  IInv'
  <1>0. PICK d, part : d = local[p].digest /\ part = Parts[NextPart(p)]
    OBVIOUS
  <1>1. /\ local[p].at = "archive" /\ lock = p
        /\ Put(d, part, Content(d, part))
        /\ UNCHANGED <<file, pending, prompts, lock, previews, version, work>>
    BY <1>0 DEF ArchivePart, IInv, Mutex, Locked
  <1>2. /\ pending = None /\ d = file /\ d \in Snapshots
    BY <1>0, <1>1 DEF IInv, HolderSound, HolderOf, JobsTyped
  <1>3. /\ DOMAIN archive' = DOMAIN archive \cup {d}
        /\ \A x, y : Archived(x, y)' <=> Archived(x, y) \/ (x = d /\ y = part)
        /\ \A x, y : Archived(x, y) /\ <<x, y>> # <<d, part>> => archive'[x][y] = archive[x][y]
        /\ archive'[d][part] = Content(d, part)
    <2> DEFINE content == Content(d, part)
    <2>1. Put(d, part, content)
      BY <1>1
    <2> HIDE DEF content
    <2>2. /\ DOMAIN archive' = DOMAIN archive \cup {d}
          /\ \A x, y : Archived(x, y)' <=> Archived(x, y) \/ (x = d /\ y = part)
          /\ \A x, y : Archived(x, y) /\ <<x, y>> # <<d, part>> => archive'[x][y] = archive[x][y]
          /\ archive'[d][part] = content
      BY <2>1 DEF Put, Archived
    <2> QED
      BY <2>2 DEF content
  <1>4. NextPart(p) \in 1..6 /\ \A i \in 1..6 : i < NextPart(p) => Archived(d, Parts[i])
    BY <1>0, NextPartMissing
  <1>5. part = "target-events" => \A y \in PartNames : Archived(d, y)'
    <2>1. ASSUME part = "target-events" PROVE NextPart(p) = 6
      BY <1>0, <1>4, <2>1 DEF Parts
    <2> QED
      <3>1. ASSUME part = "target-events", NEW y \in PartNames, y # "target-events"
            PROVE  Archived(d, y)
        <4>1. PICK i \in 1..5 : y = Parts[i]
          <5>1. /\ Parts[1] = "runtime" /\ Parts[2] = "planning" /\ Parts[3] = "events"
                /\ Parts[4] = "manifest" /\ Parts[5] = "identity-map"
            BY DEF Parts
          <5>2. y \in {Parts[1], Parts[2], Parts[3], Parts[4], Parts[5]}
            BY <3>1, <5>1 DEF PartNames
          <5> QED
            BY <5>2
        <4> QED
          BY <1>4, <2>1, <3>1, <4>1
      <3>2. ASSUME part = "target-events", NEW y \in PartNames
            PROVE  Archived(d, y)'
        BY <1>3, <3>1, <3>2
      <3> QED
        BY <3>2
  <1>6. /\ time' \in 0..MaxTimes
        /\ part = "target-events" =>
              /\ Content(d, part) \in TargetEvents(d)
              /\ Go(p, [local[p] EXCEPT !.at = "mark"])
        /\ part # "target-events" => local' = local
    BY <1>0, <1>1, BoundsAssumption DEF ArchivePart, Content, TargetEvents, IInv, CountersTyped
  <1>7. part \in Originals => Content(d, part) = d[part]
    BY DEF Content
  <1>8. ArchiveSound'
    <2> SUFFICES ASSUME NEW x \in DOMAIN archive'
                 PROVE  /\ x \in Snapshots
                        /\ \A f \in Originals : Archived(x, f)' => archive'[x][f] = x[f]
                        /\ Archived(x, "target-events")' => archive'[x]["target-events"] \in TargetEvents(x)
      BY DEF ArchiveSound, Archived, TargetEvents, Events4
    <2>1. x \in Snapshots
      BY <1>2, <1>3 DEF IInv, ArchiveSound
    <2>2. ASSUME NEW f \in Originals, Archived(x, f)' PROVE archive'[x][f] = x[f]
      <3>1. CASE x = d /\ f = part
        BY <1>3, <1>7, <3>1
      <3>2. CASE ~(x = d /\ f = part)
        <4>1. Archived(x, f) /\ archive'[x][f] = archive[x][f]
          BY <1>3, <2>2, <3>2
        <4> QED
          BY <4>1 DEF IInv, ArchiveSound, Archived
      <3> QED
        BY <3>1, <3>2
    <2>3. ASSUME Archived(x, "target-events")' PROVE archive'[x]["target-events"] \in TargetEvents(x)
      <3>1. CASE x = d /\ part = "target-events"
        BY <1>3, <1>6, <3>1
      <3>2. CASE ~(x = d /\ part = "target-events")
        <4>1. Archived(x, "target-events") /\ archive'[x]["target-events"] = archive[x]["target-events"]
          BY <1>3, <2>3, <3>2
        <4> QED
          BY <4>1 DEF IInv, ArchiveSound, Archived
      <3> QED
        BY <3>1, <3>2
    <2> QED
      BY <2>1, <2>2, <2>3
  <1>9. MarkerSound' /\ FilesTyped' /\ CountersTyped'
    BY <1>1, <1>2, <1>6 DEF IInv, MarkerSound, FilesTyped, CountersTyped
  <1>10. Whole'
    BY <1>1, <1>3 DEF IInv, Whole, Loads
  <1>11. CASE part = "target-events"
    <2>1. /\ Mutex' /\ JobsTyped'
          /\ local'[p].at = "mark" /\ local'[p].digest = d
          /\ \A q \in Procs : q # p => local'[q].at \notin Locked
      BY <1>0, <1>1, <1>6, <1>11, HolderGoesOn DEF Locked
    <2>2. HolderOf(p)'
      BY <1>0, <1>1, <1>2, <1>5, <1>11, <2>1
      DEF HolderOf, Complete, Marked, AfterPrompts, AfterEvents, AfterRuntime
    <2> QED
      BY <1>8, <1>9, <1>10, <2>1, <2>2, HolderAlone DEF IInv
  <1>12. CASE part # "target-events"
    <2>1. Mutex' /\ JobsTyped' /\ local' = local
      BY <1>1, <1>6, <1>12 DEF IInv, Mutex, JobsTyped
    <2>2. \A q \in Procs : q # p => local'[q].at \notin Locked
      BY <1>1, <2>1 DEF IInv, Mutex
    <2>3. HolderOf(p)'
      BY <1>0, <1>1, <1>2, <2>1 DEF HolderOf, Marked, AfterPrompts, AfterEvents, AfterRuntime
    <2> QED
      BY <1>8, <1>9, <1>10, <2>1, <2>2, <2>3, HolderAlone DEF IInv
  <1> QED
    BY <1>11, <1>12

LEMMA WritePendingStep ==
    ASSUME IInv, NEW p \in Procs, WritePending(p)
    PROVE  IInv'
  <1> DEFINE d == local[p].digest
  <1>1. /\ local[p].at = "mark" /\ lock = p
        /\ pending' = Marker(d, archive[d]["target-events"])
        /\ Go(p, [local[p] EXCEPT !.at = "prompts"])
        /\ UNCHANGED <<file, archive, prompts, lock, previews, version, time, work>>
    BY DEF WritePending, counters, IInv, Mutex, Locked
  <1>2. /\ Mutex' /\ JobsTyped'
        /\ local'[p].at = "prompts" /\ local'[p].digest = d /\ d \in Snapshots
        /\ \A q \in Procs : q # p => local'[q].at \notin Locked
    BY <1>1, HolderGoesOn DEF Locked
  <1>3. d = file /\ Complete(d)
    BY <1>1 DEF IInv, HolderSound, HolderOf
  <1>4. PICK t \in 1..MaxTimes : archive[d]["target-events"] = Events4(d, t)
    BY <1>3 DEF Complete, PartNames, Archived, IInv, ArchiveSound, TargetEvents
  <1>5. pending' # None /\ pending'.digest = d /\ pending'.events = archive[d]["target-events"]
    BY <1>1, <1>2, <1>4, MarkerAssumption DEF Marker
  <1>6. HolderOf(p)'
    BY <1>1, <1>2, <1>3, <1>5
    DEF HolderOf, Marked, AfterPrompts, AfterEvents, AfterRuntime, Allowed
  <1>7. file["runtime"].schema = 3
    BY <1>2, <1>3 DEF Snapshots, Legacy
  <1>8. MarkerSound'
    BY <1>1, <1>2, <1>3, <1>5, <1>7 DEF MarkerSound, Complete, Archived
  <1> QED
    BY <1>1, <1>2, <1>5, <1>6, <1>8, HolderAlone
    DEF IInv, CountersTyped, FilesTyped, ArchiveSound, Whole, Loads, Archived

LEMMA PersistPromptsStep ==
    ASSUME IInv, NEW p \in Procs, PersistPrompts(p)
    PROVE  IInv'
  <1>1. /\ local[p].at = "prompts"
        /\ prompts' = prompts \cup {local[p].digest}
        /\ Go(p, [local[p] EXCEPT !.at = "events"])
        /\ UNCHANGED <<file, pending, archive, lock, previews, version, time, work>>
    BY DEF PersistPrompts, counters
  <1>2. /\ Mutex' /\ JobsTyped'
        /\ local'[p].at = "events" /\ local'[p].digest = local[p].digest
        /\ \A q \in Procs : q # p => local'[q].at \notin Locked
    BY <1>1, HolderGoesOn DEF Locked
  <1>3. HolderOf(p)'
    BY <1>1, <1>2
    DEF IInv, HolderSound, HolderOf, Marked, AfterPrompts, AfterEvents, AfterRuntime, Allowed
  <1> QED
    BY <1>1, <1>2, <1>3, HolderAlone
    DEF IInv, CountersTyped, FilesTyped, ArchiveSound, MarkerSound, Whole, Loads, Complete, Archived

\* The three replacements: each writes one file of the marker's migration.
LEMMA WriteStep ==
    ASSUME IInv, NEW p \in Procs, NEW f \in Files, NEW content, NEW next \in Locked,
           local[p].at \in AfterPrompts, Write(p, local[p].at, f, content, next),
           HolderOf(p)', MarkerSound'
    PROVE  IInv'
  <1>1. /\ file' = [file EXCEPT ![f] = content]
        /\ Go(p, [local[p] EXCEPT !.at = next])
        /\ UNCHANGED <<pending, archive, prompts, lock, previews, version, time, work>>
    BY DEF Write, counters
  <1>2. /\ Mutex' /\ JobsTyped'
        /\ \A q \in Procs : q # p => local'[q].at \notin Locked
    BY <1>1, HolderGoesOn DEF Locked, AfterPrompts
  <1>3. pending # None
    BY DEF IInv, HolderSound, HolderOf, AfterPrompts, Marked
  <1>4. FilesTyped' /\ Whole'
    BY <1>1, <1>3 DEF IInv, FilesTyped, Whole, Loads
  <1> QED
    BY <1>1, <1>2, <1>4, HolderAlone DEF IInv, CountersTyped, ArchiveSound, Archived

LEMMA ReplaceStep ==
    ASSUME IInv, NEW p \in Procs, WriteEvents(p) \/ WriteRuntime(p) \/ UnlinkPlanning(p)
    PROVE  IInv'
  <1>0. PICK d : d = local[p].digest
    OBVIOUS
  <1>1. /\ pending # None /\ pending.digest = d /\ d \in prompts
        /\ \A f \in Files : Allowed(f, d)
        /\ local[p].at \in AfterEvents => file["events"] = pending.events
        /\ local[p].at \in AfterRuntime => file["runtime"] = Runtime4(d)
        /\ local[p].at \in AfterPrompts
        /\ file = [f \in Files |-> file[f]]
        /\ d \in Snapshots
    BY <1>0 DEF WriteEvents, WriteRuntime, UnlinkPlanning, Write, IInv, HolderSound, HolderOf,
                MarkerSound, FilesTyped, Marked, AfterPrompts, AfterEvents, AfterRuntime
  <1>2. ASSUME NEW from \in AfterPrompts, NEW f \in Files, NEW content, NEW next \in Locked,
               Write(p, from, f, content, next)
        PROVE  /\ local[p].at = from /\ local'[p].at = next /\ local'[p].digest = d
               /\ file' = [file EXCEPT ![f] = content]
               /\ UNCHANGED <<pending, archive, prompts>>
    BY <1>0, <1>2, HolderGoesOn DEF Write, Locked, AfterPrompts
  <1>3. CASE WriteEvents(p)
    <2>1. /\ local[p].at = "events" /\ local'[p].at = "runtime" /\ local'[p].digest = d
          /\ file' = [file EXCEPT !["events"] = pending.events]
          /\ UNCHANGED <<pending, archive, prompts>>
          /\ Write(p, local[p].at, "events", pending.events, "runtime")
      BY <1>2, <1>3 DEF WriteEvents, Write, Locked, AfterPrompts
    <2>2. HolderOf(p)'
      BY <1>1, <2>1 DEF HolderOf, Marked, AfterPrompts, AfterEvents, AfterRuntime, Allowed, Runtime4
    <2>3. MarkerSound'
      BY <1>1, <2>1 DEF IInv, MarkerSound, Complete, Archived, Runtime4
    <2> QED
      BY <1>1, <2>1, <2>2, <2>3, WriteStep DEF Locked
  <1>4. CASE WriteRuntime(p)
    <2>1. /\ local[p].at = "runtime" /\ local'[p].at = "planning" /\ local'[p].digest = d
          /\ file' = [file EXCEPT !["runtime"] = Runtime4(d)]
          /\ UNCHANGED <<pending, archive, prompts>>
          /\ Write(p, local[p].at, "runtime", Runtime4(d), "planning")
      BY <1>0, <1>2, <1>4 DEF WriteRuntime, Write, Locked, AfterPrompts
    <2>2. file["events"] = pending.events
      BY <1>1, <2>1 DEF AfterEvents
    <2>3. HolderOf(p)'
      BY <1>1, <2>1, <2>2 DEF HolderOf, Marked, AfterPrompts, AfterEvents, AfterRuntime, Allowed, Runtime4
    <2>4. MarkerSound'
      BY <1>1, <2>1, <2>2 DEF IInv, MarkerSound, Complete, Archived, Runtime4
    <2> QED
      BY <1>1, <2>1, <2>3, <2>4, WriteStep DEF Locked
  <1>5. CASE UnlinkPlanning(p)
    <2>1. /\ local[p].at = "planning" /\ local'[p].at = "unmark" /\ local'[p].digest = d
          /\ file' = [file EXCEPT !["planning"] = None]
          /\ UNCHANGED <<pending, archive, prompts>>
          /\ Write(p, local[p].at, "planning", None, "unmark")
      BY <1>2, <1>5 DEF UnlinkPlanning, Write, Locked, AfterPrompts
    <2>2. file["events"] = pending.events /\ file["runtime"] = Runtime4(d)
      BY <1>1, <2>1 DEF AfterEvents, AfterRuntime
    <2>3. HolderOf(p)'
      BY <1>1, <2>1, <2>2 DEF HolderOf, Marked, AfterPrompts, AfterEvents, AfterRuntime, Allowed, Runtime4
    <2>4. MarkerSound'
      BY <1>1, <2>1, <2>2 DEF IInv, MarkerSound, Complete, Archived, Runtime4
    <2> QED
      BY <1>1, <2>1, <2>3, <2>4, WriteStep DEF Locked
  <1> QED
    BY <1>3, <1>4, <1>5

LEMMA UnlinkPendingStep ==
    ASSUME IInv, NEW p \in Procs, UnlinkPending(p)
    PROVE  IInv'
  <1> DEFINE d == local[p].digest
  <1>1. /\ local[p].at = "unmark" /\ lock = p /\ pending' = None
        /\ local' = [local EXCEPT ![p] = Idle] /\ DOMAIN local = Procs
        /\ lock' = None
        /\ UNCHANGED <<file, archive, prompts, previews, version, time, work>>
    BY DEF UnlinkPending, Leave, Go, counters, IInv, Mutex, Locked, JobsTyped
  <1>2. \A q \in Procs : local'[q] = IF q = p THEN Idle ELSE local[q]
    BY <1>1
  <1>3. Mutex' /\ JobsTyped'
    BY <1>1, <1>2, NoneAssumption DEF IInv, Mutex, JobsTyped, Locked
  <1>4. \A q \in Procs : local'[q].at \notin Locked
    BY <1>1, <1>2 DEF IInv, Mutex, Locked
  <1>5. HolderSound'
    BY <1>4 DEF HolderSound, HolderOf, Locked, Marked, AfterPrompts, AfterEvents, AfterRuntime
  <1>6. /\ pending # None /\ pending.digest = d /\ d \in prompts /\ d \in Snapshots
        /\ file["events"] = pending.events /\ file["runtime"] = Runtime4(d)
        /\ file["planning"] = None
        /\ Complete(d) /\ pending.events = archive[d]["target-events"]
    BY <1>1 DEF IInv, HolderSound, HolderOf, MarkerSound, Marked, AfterPrompts, AfterEvents, AfterRuntime
  <1>7. PICK t \in 1..MaxTimes : file["events"] = Events4(d, t)
    BY <1>6 DEF Complete, PartNames, Archived, IInv, ArchiveSound, TargetEvents
  <1>8. Whole'
    <2>1. file["runtime"] \in RuntimeRows /\ file["runtime"].of = d /\ file["runtime"].work = 0
      BY <1>6 DEF Runtime4, RuntimeRows
    <2>2. file["events"] \in EventRows /\ file["events"].of = d /\ file["events"].work = 0
      BY <1>6, <1>7, BoundsAssumption DEF Events4, EventRows
    <2>3. \A f \in Files : Archived(d, f)
      BY <1>6 DEF Complete, PartNames
    <2> QED
      BY <1>1, <1>6, <2>1, <2>2, <2>3 DEF Whole, Loads, Archived
  <1> QED
    BY <1>1, <1>3, <1>5, <1>8
    DEF IInv, CountersTyped, FilesTyped, ArchiveSound, MarkerSound, Archived

(***************************************************************************)
(* Everyone else: what is written is written with the lock free.           *)
(***************************************************************************)
LEMMA FreeLock ==
    ASSUME IInv, lock = None, UNCHANGED local
    PROVE  HolderSound'
  <1>1. \A p \in Procs : local'[p].at \notin Locked
    BY NoneAssumption DEF IInv, Mutex
  <1> QED
    BY <1>1 DEF HolderSound, HolderOf, Locked, Marked, AfterPrompts, AfterEvents, AfterRuntime

LEMMA OldRuntimeStep ==
    ASSUME IInv, NEW f \in Files, OldRuntime(f)
    PROVE  IInv'
  <1>1. /\ lock = None /\ file["runtime"].schema = 3
        /\ version < MaxVersions /\ version' = version + 1
        /\ file' = [file EXCEPT ![f] = Legacy(version + 1)]
        /\ UNCHANGED <<pending, archive, prompts, lock, local, previews, time, work>>
    BY DEF OldRuntime
  <1>2. FilesTyped' /\ file'["runtime"].schema = 3
    BY <1>1 DEF IInv, FilesTyped, Legacy
  <1>3. HolderSound'
    BY <1>1, FreeLock
  <1>4. CountersTyped' /\ Mutex' /\ JobsTyped'
    BY <1>1, BoundsAssumption DEF IInv, CountersTyped, Mutex, JobsTyped
  <1> QED
    BY <1>1, <1>2, <1>3, <1>4
    DEF IInv, ArchiveSound, MarkerSound, Whole, Loads, Complete, Archived

LEMMA CommandStep ==
    ASSUME IInv, Command
    PROVE  IInv'
  <1>1. /\ lock = None /\ Loads /\ work' = work + 1
        /\ file' = [file EXCEPT !["runtime"].work = work + 1, !["events"].work = work + 1]
        /\ UNCHANGED <<pending, archive, prompts, lock, local, previews, version, time>>
    BY DEF Command
  <1>2. /\ file["runtime"] \in RuntimeRows /\ file["events"] \in EventRows
        /\ work \in Nat /\ pending = None /\ file = [f \in Files |-> file[f]]
    BY <1>1 DEF IInv, Whole, CountersTyped, Loads, FilesTyped
  <1>3. /\ file'["runtime"] = [file["runtime"] EXCEPT !.work = work + 1]
        /\ file'["events"] = [file["events"] EXCEPT !.work = work + 1]
        /\ file'["planning"] = file["planning"]
        /\ file' = [f \in Files |-> file'[f]]
    BY <1>1, <1>2
  <1>4. /\ file'["runtime"] \in RuntimeRows /\ file'["runtime"].of = file["runtime"].of
        /\ file'["events"] \in EventRows /\ file'["events"].of = file["events"].of
        /\ file'["runtime"].work = work + 1 /\ file'["events"].work = work + 1
    BY <1>2, <1>3 DEF RuntimeRows, EventRows
  <1>5. Whole'
    BY <1>1, <1>3, <1>4 DEF IInv, Whole, Archived
  <1>6. HolderSound'
    BY <1>1, FreeLock
  <1> QED
    BY <1>1, <1>2, <1>3, <1>5, <1>6
    DEF IInv, CountersTyped, Mutex, JobsTyped, FilesTyped, ArchiveSound, MarkerSound, Archived

LEMMA QuietStep ==
    ASSUME IInv, UNCHANGED <<store, lock, local, previews, counters>>
    PROVE  IInv'
  BY DEF IInv, Mutex, JobsTyped, CountersTyped, FilesTyped, ArchiveSound, MarkerSound,
         HolderSound, HolderOf, Whole, Loads, Complete, Archived, Allowed, store, counters

LEMMA PreviewStep ==
    ASSUME IInv, NEW p \in Procs, Preview(p) \/ PreviewRead(p) \/ PreviewAnswer(p)
    PROVE  IInv'
  <1>1. CASE Preview(p)
    <2>1. CASE pending # None
      <3>1. Go(p, [at |-> "recheck", digest |-> pending.digest]) /\ pending.digest \in Snapshots
        BY <1>1, <2>1 DEF Preview, IInv, MarkerSound
      <3> QED
        BY <1>1, <3>1, OutsideStep DEF Preview, Locked, IInv, CountersTyped
    <2>2. CASE pending = None
      <3>1. Go(p, [at |-> "read", runtime |-> file["runtime"]])
        BY <1>1, <2>2 DEF Preview
      <3> QED
        BY <1>1, <3>1, OutsideStep DEF Preview, Locked, IInv, CountersTyped
    <2> QED
      BY <2>1, <2>2
  <1>2. CASE PreviewRead(p)
    <2> DEFINE d == [Snapshot EXCEPT !["runtime"] = local[p].runtime]
    <2>1. CASE Convertible(d)
      <3>1. Go(p, [at |-> "recheck", digest |-> d]) /\ d \in Snapshots
        BY <1>2, <2>1 DEF PreviewRead, Convertible
      <3> HIDE DEF d
      <3> QED
        BY <1>2, <3>1, OutsideStep DEF PreviewRead, Locked, IInv, CountersTyped
    <2>2. CASE ~Convertible(d)
      <3>1. Go(p, Idle)
        BY <1>2, <2>2 DEF PreviewRead
      <3> QED
        BY <1>2, <3>1, OutsideStep DEF PreviewRead, Locked, IInv, CountersTyped
    <2> QED
      BY <2>1, <2>2
  <1>3. CASE PreviewAnswer(p)
    <2>1. previews' \subseteq Snapshots /\ local[p].at = "recheck" /\ Go(p, Idle)
      BY <1>3 DEF PreviewAnswer, IInv, CountersTyped, JobsTyped
    <2> QED
      BY <1>3, <2>1, OutsideStep DEF PreviewAnswer, Locked
  <1> QED
    BY <1>1, <1>2, <1>3

LEMMA CallApplyStep ==
    ASSUME IInv, NEW p \in Procs, NEW d \in Snapshots, CallApply(p, d)
    PROVE  IInv'
  <1>1. Go(p, [at |-> "wait", digest |-> d]) /\ local[p].at = "idle"
    BY DEF CallApply
  <1> QED
    BY <1>1, OutsideStep DEF CallApply, Locked, IInv, CountersTyped

LEMMA Inductive == IInv /\ [Next]_vars => IInv'
  <1> SUFFICES ASSUME IInv, [Next]_vars PROVE IInv'
    OBVIOUS
  <1>1. CASE UNCHANGED vars
    BY <1>1, QuietStep DEF vars
  <1>2. ASSUME NEW p \in Procs, Preview(p) \/ PreviewRead(p) \/ PreviewAnswer(p) PROVE IInv'
    BY <1>2, PreviewStep
  <1>3. ASSUME NEW p \in Procs, Repeat(p) \/ Resume(p) PROVE IInv'
    BY <1>3, CallApplyStep DEF Repeat, Resume, IInv, CountersTyped, MarkerSound
  <1>4. ASSUME NEW p \in Procs, Enter(p) PROVE IInv'
    BY <1>4, EnterStep
  <1>5. ASSUME NEW p \in Procs, Apply(p) PROVE IInv'
    <2>1. CASE Refuse(p)
      BY <2>1, LeaveStep DEF Refuse, IInv, Mutex, Locked
    <2>2. CASE UnlinkPending(p)
      BY <2>2, UnlinkPendingStep
    <2> QED
      BY <1>5, <2>1, <2>2, AdmitStep, ArchivePartStep, WritePendingStep, PersistPromptsStep, ReplaceStep
      DEF Apply
  <1>6. ASSUME NEW p \in Procs, Fail(p) PROVE IInv'
    BY <1>6, LeaveStep DEF Fail
  <1>7. ASSUME NEW f \in Files, OldRuntime(f) PROVE IInv'
    BY <1>7, OldRuntimeStep
  <1>8. CASE Settle
    BY <1>8, QuietStep DEF Settle
  <1>9. CASE Command
    BY <1>9, CommandStep
  <1> QED
    BY <1>1, <1>2, <1>3, <1>4, <1>5, <1>6, <1>7, <1>8, <1>9 DEF Next

\* Every reachable state, whatever died or was written meanwhile, has all of the
\* above: the lock, the archive, the marker and the stage of its holder agree.
THEOREM InvariantHolds == Spec => []IInv
  BY InitHolds, Inductive, PTL DEF Spec

\* Whoever the store lets in finds the whole of one migration, through any
\* number of deaths, repeats and writes of the previous runtime.
THEOREM ReadersAlwaysSeeWhole == Spec => []ReadersSeeWhole
  <1>1. IInv => ReadersSeeWhole
    BY DEF IInv, Whole, ReadersSeeWhole, ArchiveSound, EventRows, Archived
  <1> QED
    BY <1>1, InvariantHolds, PTL

\* Only bytes that the marker's archive holds are ever replaced by a migration.
THEOREM NothingIsOverwritten == Spec => NothingOverwritten
  <1> DEFINE Kept ==
        \A f \in Files :
           file'[f] # file[f] /\ version' = version /\ work' = work =>
               /\ pending # None
               /\ file[f] \in {archive[pending.digest][f], Runtime4(pending.digest), pending.events}
  <1>1. ASSUME IInv, [Next]_vars PROVE [Kept]_vars
    <2>1. ASSUME NEW p \in Procs, WriteEvents(p) \/ WriteRuntime(p) \/ UnlinkPlanning(p)
          PROVE  Kept
      <3>1. local[p].at \in Marked
        BY <2>1 DEF WriteEvents, WriteRuntime, UnlinkPlanning, Write, Marked
      <3>2. /\ pending # None
            /\ \A f \in Files : Allowed(f, pending.digest)
        BY <1>1, <3>1 DEF IInv, HolderSound, HolderOf
      <3>3. \A f \in Files : archive[pending.digest][f] = pending.digest[f]
        BY <1>1, <3>2 DEF IInv, MarkerSound, Complete, PartNames, ArchiveSound, Archived
      <3>4. /\ WriteEvents(p) \/ WriteRuntime(p) => file'["planning"] = file["planning"]
            /\ UnlinkPlanning(p) => file'["planning"] = None
        BY <1>1, <2>1 DEF WriteEvents, WriteRuntime, UnlinkPlanning, Write, IInv, FilesTyped
      <3>5. file'["planning"] = file["planning"] \/ file'["planning"] = None
        BY <2>1, <3>4
      <3> QED
        BY <3>2, <3>3, <3>5 DEF Allowed
    <2>2. ASSUME NEW f \in Files, OldRuntime(f) PROVE version' # version
      BY <1>1, <2>2 DEF OldRuntime, IInv, CountersTyped
    <2>3. ASSUME Command PROVE work' # work
      BY <1>1, <2>3 DEF Command, IInv, CountersTyped
    <2>4. ASSUME NEW p \in Procs,
                 \/ Preview(p) \/ PreviewRead(p) \/ PreviewAnswer(p)
                 \/ Repeat(p) \/ Resume(p) \/ Enter(p) \/ Fail(p)
                 \/ Admit(p) \/ Refuse(p) \/ ArchivePart(p) \/ WritePending(p)
                 \/ PersistPrompts(p) \/ UnlinkPending(p)
          PROVE  file' = file
      BY <2>4 DEF Preview, PreviewRead, PreviewAnswer, Repeat, Resume, CallApply, Enter, Fail,
                  Admit, Refuse, ArchivePart, WritePending, PersistPrompts, UnlinkPending, store
    <2>5. CASE Settle
      BY <2>5 DEF Settle, store
    <2> QED
      BY <1>1, <2>1, <2>2, <2>3, <2>4, <2>5 DEF Next, Apply
  <1> QED
    BY <1>1, InvariantHolds, PTL DEF Spec, NothingOverwritten

(***************************************************************************)
(* Types, by an invariant relative to the first.                           *)
(***************************************************************************)
Known ==
    /\ \A f \in Files : file[f] = None \/ file[f].schema \in {3, 4}
    /\ busy \in BOOLEAN
    /\ work \in 0..MaxWork

\* A ledger that a marker names has the current schema.
LEMMA MarkedLedger == ASSUME IInv, pending # None PROVE pending.events.schema = 4
  <1>1. PICK d \in Snapshots : /\ d = pending.digest /\ Archived(d, "target-events")
                               /\ pending.events = archive[d]["target-events"]
    BY DEF IInv, MarkerSound, Complete, PartNames
  <1>2. pending.events \in TargetEvents(d)
    BY <1>1 DEF IInv, ArchiveSound, Archived
  <1> QED
    BY <1>2 DEF TargetEvents, Events4

\* Every step writes rows of a schema somebody knows.
LEMMA KnownStep == ASSUME IInv, Known, [Next]_vars PROVE Known'
  <1>1. DOMAIN file = Files /\ work \in Nat /\ MaxWork \in Nat
    BY BoundsAssumption DEF IInv, FilesTyped, CountersTyped
  <1>2. CASE UNCHANGED <<file, work>> /\ busy' \in BOOLEAN
    BY <1>2 DEF Known
  <1>3. ASSUME NEW p \in Procs, WriteEvents(p) PROVE Known'
    <2>1. pending.events.schema = 4
      BY <1>3, MarkedLedger DEF WriteEvents, Write, IInv, HolderSound, HolderOf, Marked
    <2> HIDE DEF Files
    <2>2. \A f \in Files : file'[f] = IF f = "events" THEN pending.events ELSE file[f]
      BY <1>1, <1>3 DEF WriteEvents, Write
    <2> QED
      BY <1>3, <2>1, <2>2 DEF WriteEvents, Write, counters, Known
  <1>4. ASSUME NEW p \in Procs, WriteRuntime(p) PROVE Known'
    BY <1>1, <1>4 DEF WriteRuntime, Write, counters, Runtime4, Known
  <1>5. ASSUME NEW p \in Procs, UnlinkPlanning(p) PROVE Known'
    BY <1>1, <1>5 DEF UnlinkPlanning, Write, counters, Known
  <1>6. ASSUME NEW f \in Files, OldRuntime(f) PROVE Known'
    BY <1>1, <1>6 DEF OldRuntime, Legacy, Known
  <1>7. CASE Command
    <2>1. file["runtime"] \in RuntimeRows /\ file["events"] \in EventRows
      BY <1>7 DEF Command, IInv, Whole
    <2>2. /\ file'["runtime"].schema = 4 /\ file'["events"].schema = 4
          /\ file'["planning"] = file["planning"]
      BY <1>1, <1>7, <2>1 DEF Command, RuntimeRows, EventRows
    <2>3. work' \in 0..MaxWork /\ busy' = busy
      BY <1>1, <1>7 DEF Command
    <2> QED
      BY <2>2, <2>3 DEF Known
  <1>8. ASSUME NEW p \in Procs,
               \/ Preview(p) \/ PreviewRead(p) \/ PreviewAnswer(p)
               \/ Repeat(p) \/ Resume(p) \/ Enter(p) \/ Fail(p)
               \/ Admit(p) \/ Refuse(p) \/ ArchivePart(p) \/ WritePending(p)
               \/ PersistPrompts(p) \/ UnlinkPending(p)
        PROVE  UNCHANGED <<file, work, busy>>
    BY <1>8 DEF Preview, PreviewRead, PreviewAnswer, Repeat, Resume, CallApply, Enter, Fail,
                Admit, Refuse, ArchivePart, WritePending, PersistPrompts, UnlinkPending,
                store, counters
  <1>9. CASE Settle \/ UNCHANGED vars
    BY <1>2, <1>9 DEF Settle, vars, store, counters, Known
  <1> QED
    BY <1>2, <1>3, <1>4, <1>5, <1>6, <1>7, <1>8, <1>9 DEF Next, Apply, Known

\* Files, archive, marker, lock and counters keep their types.
THEOREM TypeCorrect == Spec => []TypeOK
  <1>1. Init => Known
    BY BoundsAssumption DEF Init, Known, Legacy
  <1>2. IInv /\ Known => TypeOK
    <2> SUFFICES ASSUME IInv, Known PROVE TypeOK
      OBVIOUS
    <2>1. pending # None => pending.digest \in Snapshots /\ pending.digest \in DOMAIN archive
      BY DEF IInv, MarkerSound, Complete, PartNames, Archived
    <2>2. \A d \in DOMAIN archive : \A f \in Files \cap DOMAIN archive[d] : archive[d][f] = d[f]
      BY DEF IInv, ArchiveSound, Archived
    <2>3. lock \in Procs \cup {None} /\ \A p \in Procs : lock = p => local[p] # Idle
      BY DEF IInv, CountersTyped, Mutex, Locked
    <2> QED
      BY <2>1, <2>2, <2>3 DEF IInv, CountersTyped, Known, TypeOK
  <1> QED
    BY <1>1, <1>2, KnownStep, InvariantHolds, PTL DEF Spec

===============================================================================
