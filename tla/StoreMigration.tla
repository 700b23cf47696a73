---------------------------- MODULE StoreMigration ----------------------------
(***************************************************************************)
(* repo migrate: migrate_store replaces a legacy store (schema 3) by the   *)
(* current one.  apply writes under both store locks, one durable effect   *)
(* after the other, behind a pending marker that blocks every reader; the  *)
(* same command, repeated after a death, verifies the archive and every    *)
(* file before it goes on.  preview reads without a lock.                  *)
(*                                                                         *)
(* The digest of a snapshot is the snapshot; the archive is filed under    *)
(* it.  Conversion of rows is not modelled: the target of a snapshot is a  *)
(* function of it, and so is the identity map.                             *)
(***************************************************************************)
EXTENDS Integers, Sequences

CONSTANTS
    Procs,          \* concurrent repo migrate commands
    None,           \* no file, no holder
    MaxVersions,    \* bound on the writes of the previous runtime
    MaxTimes,       \* bound on the cutover times
    MaxWork,        \* bound on the writes of the current runtime
    MaxFailures     \* bound on deaths

ASSUME BoundsAssumption ==
    /\ MaxVersions \in Nat /\ MaxTimes \in Nat /\ MaxWork \in Nat /\ MaxFailures \in Nat
ASSUME NoneAssumption == None \notin Procs

VARIABLES
    file,       \* _FILES -> its content, or None
    pending,    \* migration-pending.json, or None
    archive,    \* snapshot digests -> the parts archived under them
    prompts,    \* snapshots whose inline prompts are artifacts
    busy,       \* are there open legacy tasks or linked worktrees?
    lock,       \* the holder of both store locks, or None
    local,      \* what each process is doing
    previews,   \* digests the owner has been shown
    version, time, work, failures

store == <<file, pending, archive, prompts>>
counters == <<version, time, work>>
vars == <<store, busy, lock, local, previews, counters, failures>>

Files == {"runtime", "planning", "events"}
Legacy(v) == [schema |-> 3, version |-> v]
Runtime4(d) == [schema |-> 4, of |-> d, work |-> 0]
Events4(d, t) == [schema |-> 4, of |-> d, at |-> t, work |-> 0]

\* The parts of an archive, in the order apply writes them.
Parts == <<"runtime", "planning", "events", "manifest", "identity-map", "target-events">>

Idle == [at |-> "idle"]
Snapshots == [Files -> {Legacy(v) : v \in 0..MaxVersions}]
Marker(d, events) == [digest |-> d, events |-> events]

ASSUME MarkerAssumption ==
    \A d \in Snapshots, t \in 1..MaxTimes : Marker(d, Events4(d, t)) # None

Init ==
    /\ file = [f \in Files |-> Legacy(0)]
    /\ pending = None
    /\ archive = << >>
    /\ prompts = {}
    /\ busy \in BOOLEAN
    /\ lock = None
    /\ local = [p \in Procs |-> Idle]
    /\ previews = {}
    /\ version = 0 /\ time = 0 /\ work = 0 /\ failures = 0

Go(p, next) == local' = [local EXCEPT ![p] = next]

Leave(p) ==
    /\ Go(p, Idle)
    /\ lock' = IF lock = p THEN None ELSE lock

Archived(d, part) == d \in DOMAIN archive /\ part \in DOMAIN archive[d]

Put(d, part, content) ==
    archive' = [x \in DOMAIN archive \cup {d} |->
        IF x # d THEN archive[x]
        ELSE LET old == IF d \in DOMAIN archive THEN archive[d] ELSE << >> IN
             [y \in DOMAIN old \cup {part} |-> IF y = part THEN content ELSE old[y]]]

(***************************************************************************)
(* What both modes read, and what they demand of it.                       *)
(***************************************************************************)
\* With a marker: the journal and its archive, complete and of that digest.
Replayable(d) ==
    /\ \A part \in Files : Archived(d, part) /\ archive[d][part] = d[part]
    /\ \A part \in {"manifest", "identity-map", "target-events"} : Archived(d, part)
    /\ archive[d]["target-events"] = pending.events

\* Mutant: A replay demands the original files.
Allowed_original(f, d) == file[f] = d[f]

\* The contents a file may have when apply goes on.
Allowed(f, d) ==
    \/ file[f] = d[f]
    \/ pending # None /\ f = "runtime" /\ file[f] = Runtime4(d)
    \/ pending # None /\ f = "events" /\ file[f] = pending.events
    \/ pending # None /\ f = "planning" /\ file[f] = None

Untouched(d) == \A f \in Files : Allowed(f, d)

Current == pending = None /\ file["runtime"] # None /\ file["runtime"].schema = 4

\* Fresh snapshots are of three legacy files and convert only when all is at rest.
Snapshot == [f \in Files |-> file[f]]
Convertible(d) == d \in Snapshots /\ ~busy

(***************************************************************************)
(* preview: no lock, so the files may change between two reads.            *)
(***************************************************************************)
Preview(p) ==
    /\ local[p] = Idle
    /\ ~Current
    /\ IF pending # None
       THEN Go(p, [at |-> "recheck", digest |-> pending.digest])
       ELSE Go(p, [at |-> "read", runtime |-> file["runtime"]])
    /\ UNCHANGED <<store, busy, lock, previews, counters, failures>>

PreviewRead(p) ==
    /\ local[p].at = "read"
    /\ LET d == [Snapshot EXCEPT !["runtime"] = local[p].runtime] IN
       IF Convertible(d) THEN Go(p, [at |-> "recheck", digest |-> d]) ELSE Go(p, Idle)
    /\ UNCHANGED <<store, busy, lock, previews, counters, failures>>

PreviewAnswer(p) ==
    /\ local[p].at = "recheck"
    /\ LET d == local[p].digest IN
       previews' = IF ~busy /\ Untouched(d) THEN previews \cup {d} ELSE previews
    /\ Go(p, Idle)
    /\ UNCHANGED <<store, busy, lock, counters, failures>>

(***************************************************************************)
(* apply.                                                                  *)
(***************************************************************************)
CallApply(p, d) ==
    /\ local[p] = Idle
    /\ Go(p, [at |-> "wait", digest |-> d])
    /\ UNCHANGED <<store, busy, lock, previews, counters, failures>>

\* Locked, then inspected: nothing is read before the locks are held.
Enter(p) ==
    /\ local[p].at = "wait"
    /\ lock = None
    /\ lock' = p
    /\ Go(p, [local[p] EXCEPT !.at = "inspect"])
    /\ UNCHANGED <<store, busy, previews, counters, failures>>

\* Mutant: A digest that was shown is applied without reading the files again.
Admissible_shown(d) ==
    /\ ~busy
    /\ IF pending # None THEN pending.digest = d /\ Replayable(d) ELSE d \in previews

Admissible(d) ==
    /\ ~busy /\ Untouched(d)
    /\ IF pending # None THEN pending.digest = d /\ Replayable(d)
       ELSE d \in Snapshots /\ d = Snapshot

\* Mutant: A replay takes the ledger for written because the marker is there.
Admit_ledger_written(p) ==
    /\ local[p].at = "inspect"
    /\ ~Current /\ Admissible(local[p].digest)
    /\ Go(p, [local[p] EXCEPT !.at = IF pending = None THEN "archive" ELSE "runtime"])
    /\ UNCHANGED <<store, busy, lock, previews, counters, failures>>

Admit(p) ==
    /\ local[p].at = "inspect"
    /\ ~Current /\ Admissible(local[p].digest)
    /\ Go(p, [local[p] EXCEPT !.at = IF pending = None THEN "archive" ELSE "prompts"])
    /\ UNCHANGED <<store, busy, lock, previews, counters, failures>>

Refuse(p) ==
    /\ local[p].at = "inspect"
    /\ Current \/ ~Admissible(local[p].digest)
    /\ Leave(p)
    /\ UNCHANGED <<store, busy, previews, counters, failures>>

\* _archive_write keeps what is there; only the target event is written again,
\* with a new time, while no marker names it.
NextPart(p) ==
    LET missing == {i \in DOMAIN Parts : ~Archived(local[p].digest, Parts[i])} IN
    IF missing = {} THEN Len(Parts) ELSE CHOOSE i \in missing : \A j \in missing : i <= j

\* Mutant: The converted rows are archived in place of the original bytes.
Content_converted(d, part) ==
    CASE part = "runtime" -> Runtime4(d)
      [] part \in Files -> d[part]
      [] part = "target-events" -> Events4(d, time + 1)
      [] OTHER -> d

Content(d, part) ==
    CASE part \in Files -> d[part]
      [] part = "target-events" -> Events4(d, time + 1)
      [] OTHER -> d

ArchivePart(p) ==
    /\ local[p].at = "archive"
    /\ LET d == local[p].digest  part == Parts[NextPart(p)] IN
       /\ Put(d, part, Content(d, part))
       /\ IF part = "target-events"
          THEN /\ time < MaxTimes /\ time' = time + 1
               /\ Go(p, [local[p] EXCEPT !.at = "mark"])
          ELSE UNCHANGED <<time, local>>
    /\ UNCHANGED <<file, pending, prompts, busy, lock, previews, version, work, failures>>

WritePending(p) ==
    /\ local[p].at = "mark"
    /\ LET d == local[p].digest IN
       pending' = Marker(d, archive[d]["target-events"])
    /\ Go(p, [local[p] EXCEPT !.at = "prompts"])
    /\ UNCHANGED <<file, archive, prompts, busy, lock, previews, counters, failures>>

PersistPrompts(p) ==
    /\ local[p].at = "prompts"
    /\ prompts' = prompts \cup {local[p].digest}
    /\ Go(p, [local[p] EXCEPT !.at = "events"])
    /\ UNCHANGED <<file, pending, archive, busy, lock, previews, counters, failures>>

Write(p, from, f, content, next) ==
    /\ local[p].at = from
    /\ file' = [file EXCEPT ![f] = content]
    /\ Go(p, [local[p] EXCEPT !.at = next])
    /\ UNCHANGED <<pending, archive, prompts, busy, lock, previews, counters, failures>>

WriteEvents(p) == Write(p, "events", "events", pending.events, "runtime")
WriteRuntime(p) == Write(p, "runtime", "runtime", Runtime4(local[p].digest), "planning")
UnlinkPlanning(p) == Write(p, "planning", "planning", None, "unmark")

UnlinkPending(p) ==
    /\ local[p].at = "unmark"
    /\ pending' = None
    /\ Leave(p)
    /\ UNCHANGED <<file, archive, prompts, busy, previews, counters, failures>>

(***************************************************************************)
(* Everyone else.                                                          *)
(***************************************************************************)
\* The previous runtime writes its store, and knows nothing of the marker.  It
\* is taken to hold the lock whichever file it writes.
OldRuntime(f) ==
    /\ lock = None
    /\ file[f] # None /\ file[f].schema = 3 /\ file["runtime"].schema = 3
    /\ version < MaxVersions
    /\ version' = version + 1
    /\ file' = [file EXCEPT ![f] = Legacy(version + 1)]
    /\ busy' \in BOOLEAN
    /\ UNCHANGED <<pending, archive, prompts, lock, local, previews, time, work, failures>>

\* Tasks and worktrees are opened and finished.
Settle ==
    /\ file["runtime"].schema = 3
    /\ busy' = ~busy
    /\ UNCHANGED <<store, lock, local, previews, counters, failures>>

\* JsonRuntimeStore.load: no marker, and the current schema, looked at together.
Loads == pending = None /\ file["runtime"].schema = 4

\* A command of the current runtime saves the store and appends its event.
Command ==
    /\ lock = None /\ Loads
    /\ work < MaxWork
    /\ work' = work + 1
    /\ file' = [file EXCEPT !["runtime"].work = work + 1, !["events"].work = work + 1]
    /\ UNCHANGED <<pending, archive, prompts, busy, lock, local, previews, version, time, failures>>

Fail(p) ==
    /\ lock = p
    /\ failures < MaxFailures
    /\ failures' = failures + 1
    /\ Leave(p)
    /\ UNCHANGED <<store, busy, previews, counters>>

Apply(p) ==
    \/ Admit(p) \/ Refuse(p) \/ ArchivePart(p) \/ WritePending(p) \/ PersistPrompts(p)
    \/ WriteEvents(p) \/ WriteRuntime(p) \/ UnlinkPlanning(p) \/ UnlinkPending(p)

\* The command a preview answers with, and a partial apply before it.
Repeat(p) == \E d \in previews : CallApply(p, d)
Resume(p) == pending # None /\ CallApply(p, pending.digest)

Next ==
    \/ \E p \in Procs :
           \/ Preview(p) \/ PreviewRead(p) \/ PreviewAnswer(p)
           \/ Repeat(p) \/ Resume(p) \/ Enter(p) \/ Apply(p) \/ Fail(p)
    \/ \E f \in Files : OldRuntime(f)
    \/ Settle \/ Command

Fairness ==
    \A p \in Procs :
        /\ WF_vars(PreviewRead(p)) /\ WF_vars(PreviewAnswer(p))
        /\ SF_vars(Enter(p)) /\ WF_vars(Apply(p))
        /\ SF_vars(Resume(p))

Spec == Init /\ [][Next]_vars /\ Fairness

(***************************************************************************)
(* Properties.                                                             *)
(***************************************************************************)
TypeOK ==
    /\ \A f \in Files : file[f] = None \/ file[f].schema \in {3, 4}
    /\ pending # None => pending.digest \in Snapshots /\ pending.digest \in DOMAIN archive
    /\ \A d \in DOMAIN archive : \A f \in Files \cap DOMAIN archive[d] : archive[d][f] = d[f]
    /\ busy \in BOOLEAN /\ lock \in Procs \cup {None}
    /\ \A p \in Procs : lock = p => local[p] # Idle
    /\ version \in 0..MaxVersions /\ time \in 0..MaxTimes /\ work \in 0..MaxWork

\* Whoever the store lets in finds one migration and all of it: runtime and
\* ledger of the same snapshot, its prompts published, no legacy plan left, and
\* the original bytes in the archive (migrate_store, JsonRuntimeStore.load).
ReadersSeeWhole ==
    Loads =>
        LET d == file["runtime"].of IN
        /\ file["events"].schema = 4 /\ file["events"].of = d
        /\ file["events"].work = file["runtime"].work
        /\ file["planning"] = None
        /\ d \in prompts
        /\ \A f \in Files : archive[d][f] = d[f]

\* No step replaces legacy bytes that the archive of the pending snapshot does
\* not hold, or touches what the current runtime has written since.
NothingOverwritten ==
    [][\A f \in Files :
           file'[f] # file[f] /\ version' = version /\ work' = work =>
               /\ pending # None
               /\ file[f] \in {archive[pending.digest][f], Runtime4(pending.digest), pending.events}]_vars

\* A partial migration is finished by repeating its command, however often the
\* process dies in between, unless the previous runtime writes once more or
\* work is opened (the replay accepts every intermediate file of migrate_store).
Disturbed ==
    \/ busy
    \/ \E f \in Files : file[f] # None /\ file[f].schema = 3 /\ file[f] # pending.digest[f]

MigrationResolves == pending # None /\ ~Disturbed ~> pending = None \/ Disturbed
===============================================================================
