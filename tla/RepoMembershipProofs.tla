------------------------ MODULE RepoMembershipProofs ------------------------
(***************************************************************************)
(* What TLAPS proves of the commands that write a repository's managed     *)
(* files, for any number of processes, calls, releases, guides, edits and  *)
(* deaths: an undisturbed refresh converges, an undisturbed unbind removes *)
(* the profile last, user text survives and no add drops a registration.   *)
(***************************************************************************)
EXTENDS RepoMembership, TLAPS

(***************************************************************************)
(* The inductive invariant: types, what a command carries at each stage,   *)
(* who holds the registration lock, and what a command may rely on.        *)
(***************************************************************************)
Entries == {"agents", "skill", "legacy", "control", "profile"}
Profile == [status : Statuses, guidance : SUBSET Guides, pinned : BOOLEAN]
Agents == [text : 0..MaxEdits, block : Releases \cup {None}]

Managing == {"install", "refresh", "update"}
Rendering == {"agents", "block", "core", "catalog", "prune", "obsolete", "done"}
Selecting == {"publish", "select", "spawn"}
Active ==
    {"check", "default", "pin", "read", "rewrite", "load", "wait", "inspect"}
    \cup Selecting \cup Rendering \cup Registering \cup Unbinding

Job ==
    [cmd : Managing \cup {"status", "add", "unbind"}, at : Active,
     release : Releases \cup {None},
     argument : {None} \cup Statuses \cup Guides \cup BOOLEAN \cup Agents,
     seen : {None} \cup Profile \cup Agents,
     plan : SUBSET Entries, fresh : SUBSET Entries, calm : BOOLEAN]

Files ==
    /\ profile \in Profile \cup {None}
    /\ agents \in Agents
    /\ skill \in [core : Releases \cup {None}, catalog : (SUBSET Guides) \cup {None}, aux : BOOLEAN]
    /\ legacy \in {"none", "managed", "own"}
    /\ runtime \in [archives : SUBSET Releases, selected : Releases \cup {None}]

Counts == calls \in 0..MaxCalls /\ edits \in 0..MaxEdits /\ failures \in 0..MaxFailures

\* What a command carries at each stage.
Fits(l) ==
    /\ l.at \in {"check", "default", "pin"} => l.cmd = "install"
    /\ l.at \in {"load"} \cup Selecting \cup Rendering => l.cmd \in Managing
    /\ l.at = "rewrite" => l.cmd \in {"install", "status"}
    /\ l.at = "spawn" => l.cmd = "update"
    /\ l.at \in Active /\ l.cmd \in Managing => l.release \in Releases
    /\ l.at \in Registering \cup {"wait"} => l.cmd = "add" /\ l.argument \in Guides
    /\ l.at = "read" => l.cmd = "status" /\ l.argument \in Statuses
    /\ l.at \in Unbinding \cup {"inspect"} => l.cmd = "unbind" /\ l.argument \in BOOLEAN
    /\ l.at \in Selecting \cup Rendering \cup {"rewrite", "append", "index"} => l.seen \in Profile
    /\ l.at \in {"recheck", "agents-"} => l.seen \in Agents
    /\ l.at = "block" => l.argument \in Agents

\* An undisturbed refresh or update finds what it left.
Converging(l) ==
    l.at \in Selecting \cup Rendering /\ l.calm /\ l.cmd \in {"refresh", "update"} =>
        /\ l.seen = profile
        /\ l.at = "select" => l.release \in runtime.archives
        /\ l.at \in Rendering \cup {"spawn"} /\ l.cmd = "update" =>
               runtime.selected = l.release /\ l.release \in runtime.archives
        /\ l.at = "block" => l.argument = agents
        /\ l.at \in {"core", "catalog", "prune", "obsolete", "done"} => agents.block = l.release
        /\ l.at \in {"catalog", "prune", "obsolete", "done"} => skill.core = l.release
        /\ l.at \in {"prune", "obsolete", "done"} => skill.catalog = profile.guidance
        /\ l.at \in {"obsolete", "done"} => skill.aux = FALSE
        /\ l.at = "done" => legacy = "none"

\* An undisturbed add still has every registration there is.
Appending(l) ==
    l.at = "append" /\ l.calm => profile # None /\ profile.guidance \subseteq l.seen.guidance

\* What is fresh is what was inspected; the user's own skill is never planned.
Inspected(l) ==
    /\ l.at \in {"recheck", "agents-"} /\ "agents" \in l.fresh => l.seen = agents
    /\ l.at \in Unbinding /\ "legacy" \in l.plan => legacy # "own"

\* An undisturbed unbind has planned what is left and removed what it has passed.
Finishing(l) ==
    l.at \in Unbinding /\ l.calm =>
        /\ l.fresh = l.plan
        /\ IF l.at \in {"recheck", "agents-"} THEN agents.block # None => "agents" \in l.plan
           ELSE agents.block = None
        /\ IF l.at \in {"recheck", "agents-", "skill-"} THEN skill # NoSkill => "skill" \in l.plan
           ELSE skill = NoSkill
        /\ IF l.at \in {"control-", "profile-"} THEN legacy # "managed"
           ELSE legacy = "managed" => "legacy" \in l.plan
        /\ l.argument = FALSE =>
               IF l.at = "profile-" THEN runtime = NoRuntime
               ELSE runtime # NoRuntime => "control" \in l.plan

Sound(l) == Converging(l) /\ Appending(l) /\ Inspected(l) /\ Finishing(l)

Locals ==
    /\ local \in [Procs -> Job \cup {Idle}]
    /\ \A p \in Procs : Fits(local[p])
    /\ \A p \in Procs : Sound(local[p])

\* The lock belongs to an add between its read and its index; an undisturbed one has it.
Holding ==
    /\ guideLock \in Procs \cup {None}
    /\ \A p \in Procs : guideLock = p => local[p].at \in Registering
    /\ \A p \in Procs : local[p].at \in Registering /\ local[p].calm => guideLock = p

IInv == Files /\ Counts /\ Locals /\ Holding

(***************************************************************************)
(* Facts about the records.                                                *)
(***************************************************************************)
\* A process that is doing something has a record of what it does.
LEMMA JobOf ==
    ASSUME IInv, NEW p \in Procs, local[p].at # "idle"
    PROVE  local[p] \in Job /\ local[p] # Idle /\ Fits(local[p]) /\ Sound(local[p])
BY DEF IInv, Locals, Idle

\* Idle is no job, and nothing is expected of it.
LEMMA IdleFits == Idle \notin Job /\ Idle.at = "idle" /\ Fits(Idle) /\ Sound(Idle)
<1>1. Idle.at = "idle"
  BY DEF Idle
<1>2. "idle" \notin Active
  BY DEF Active, Selecting, Rendering, Registering, Unbinding
<1>3. Idle \notin Job
  BY <1>1, <1>2 DEF Job
<1>4. Fits(Idle)
  BY <1>1 DEF Fits, Active, Selecting, Rendering, Registering, Unbinding
<1>5. Sound(Idle)
  BY <1>1 DEF Sound, Converging, Appending, Inspected, Finishing, Selecting, Rendering, Unbinding
<1> QED
  BY <1>1, <1>3, <1>4, <1>5

\* The next stage changes the stage only.
LEMMA ToStage ==
    ASSUME IInv, NEW p \in Procs, local[p].at # "idle", NEW stage \in Active
    PROVE  /\ To(p, stage) \in Job
           /\ To(p, stage).at = stage
           /\ To(p, stage).cmd = local[p].cmd
           /\ To(p, stage).release = local[p].release
           /\ To(p, stage).argument = local[p].argument
           /\ To(p, stage).seen = local[p].seen
           /\ To(p, stage).plan = local[p].plan
           /\ To(p, stage).fresh = local[p].fresh
           /\ To(p, stage).calm = local[p].calm
<1>1. local[p] \in Job
  BY JobOf
<1> QED
  BY <1>1 DEF Job, To

\* What one has read, and what one was told.
LEMMA WithSeen ==
    ASSUME NEW l \in Job, NEW x \in {None} \cup Profile \cup Agents, NEW m, m = [l EXCEPT !.seen = x]
    PROVE  /\ m \in Job
           /\ m.seen = x /\ m.at = l.at /\ m.cmd = l.cmd /\ m.release = l.release
           /\ m.argument = l.argument /\ m.plan = l.plan /\ m.fresh = l.fresh /\ m.calm = l.calm
BY DEF Job

LEMMA WithArgument ==
    ASSUME NEW l \in Job, NEW x \in {None} \cup Agents, NEW m, m = [l EXCEPT !.argument = x]
    PROVE  /\ m \in Job
           /\ m.argument = x /\ m.at = l.at /\ m.cmd = l.cmd /\ m.release = l.release
           /\ m.seen = l.seen /\ m.plan = l.plan /\ m.fresh = l.fresh /\ m.calm = l.calm
BY DEF Job

\* The write of another leaves a command what it carries, disturbed.
LEMMA SeenJob ==
    ASSUME NEW l \in Job, NEW entries
    PROVE  /\ Seen(l, entries) \in Job
           /\ Seen(l, entries).at = l.at
           /\ Seen(l, entries).cmd = l.cmd
           /\ Seen(l, entries).release = l.release
           /\ Seen(l, entries).argument = l.argument
           /\ Seen(l, entries).seen = l.seen
           /\ Seen(l, entries).plan = l.plan
           /\ Seen(l, entries).fresh = l.fresh \ entries
           /\ Seen(l, entries).calm = FALSE
<1>1. l # Idle
  BY IdleFits
<1>2. Seen(l, entries) = [l EXCEPT !.calm = FALSE, !.fresh = l.fresh \ entries]
  BY <1>1 DEF Seen
<1>3. l.fresh \ entries \in SUBSET Entries
  BY DEF Job
<1> QED
  BY <1>2, <1>3 DEF Job

LEMMA SeenFits ==
    ASSUME NEW l \in Job \cup {Idle}, NEW entries, Fits(l)
    PROVE  Fits(Seen(l, entries)) /\ Seen(l, entries) \in Job \cup {Idle}
<1>1. CASE l = Idle
  BY <1>1, IdleFits DEF Seen
<1>2. CASE l # Idle
  <2>1. l \in Job
    BY <1>2
  <2>2. PICK m : m = Seen(l, entries)
    OBVIOUS
  <2>3. /\ m.at = l.at /\ m.cmd = l.cmd /\ m.release = l.release
        /\ m.argument = l.argument /\ m.seen = l.seen /\ m \in Job
    BY <2>1, <2>2, SeenJob
  <2>4. Fits(m)
    BY <2>3 DEF Fits
  <2> QED
    BY <2>2, <2>3, <2>4
<1> QED
  BY <1>1, <1>2

(***************************************************************************)
(* The steps of a process, seen by the others.                             *)
(***************************************************************************)
\* A step that writes no file leaves every other command as it is.
LEMMA ReadStep ==
    ASSUME IInv, NEW p \in Procs, NEW next, local' = [local EXCEPT ![p] = next],
           UNCHANGED <<profile, agents, skill, legacy, runtime>>,
           next \in Job \cup {Idle}, Fits(next), Sound(next)
    PROVE  Files' /\ Locals'
<1>1. local' \in [Procs -> Job \cup {Idle}]
  BY DEF IInv, Locals
<1>2. \A q \in Procs : local'[q] = IF q = p THEN next ELSE local[q]
  BY DEF IInv, Locals
<1>3. ASSUME NEW q \in Procs PROVE Fits(local[q])'
  <2>1. PICK l : l = local'[q]
    OBVIOUS
  <2>2. Fits(local[q]) /\ (l = next \/ l = local[q])
    BY <1>2, <2>1 DEF IInv, Locals
  <2>3. Fits(l)
    BY <2>2
  <2> QED
    BY ONLY <2>1, <2>3 DEF Fits
<1>5. \A q \in Procs : Sound(local'[q])
  BY <1>2 DEF IInv, Locals
<1>6. ASSUME NEW q \in Procs PROVE Sound(local[q])'
  <2>1. Sound(local'[q])
    BY <1>5
  <2>2. Converging(local[q])'
    BY <2>1 DEF Sound, Converging
  <2>3. Appending(local[q])' /\ Inspected(local[q])'
    BY <2>1 DEF Sound, Appending, Inspected
  <2>4. Finishing(local[q])'
    BY <2>1 DEF Sound, Finishing
  <2> QED
    BY <2>2, <2>3, <2>4 DEF Sound
<1>7. Files'
  BY DEF IInv, Files
<1> QED
  BY <1>1, <1>3, <1>6, <1>7 DEF Locals

\* A write disturbs every other command, which may no longer rely on the entry.
LEMMA Disturbed ==
    ASSUME IInv, NEW q \in Procs, NEW entries, local'[q] = Seen(local[q], entries),
           agents' = agents \/ "agents" \in entries,
           legacy' \in {legacy, "none"}
    PROVE  /\ Fits(local[q])' /\ Sound(local[q])'
           /\ local'[q] \in Job \cup {Idle} /\ local'[q].at = local[q].at
           /\ local[q].at \in Registering => local'[q].calm = FALSE
<1>1. PICK l : l = local[q]
  OBVIOUS
<1>2. PICK m : m = Seen(l, entries)
  OBVIOUS
<1>3. l \in Job \cup {Idle} /\ Fits(l) /\ Sound(l) /\ local'[q] = m
  BY <1>1, <1>2 DEF IInv, Locals
<1>4. Fits(m) /\ m \in Job \cup {Idle}
  BY <1>2, <1>3, SeenFits
<1>5. CASE l = Idle
  <2>1. m = Idle
    BY <1>2, <1>5 DEF Seen
  <2>2. local'[q].at = "idle"
    BY <1>3, <2>1, IdleFits
  <2>3. (Fits(local[q]) /\ Sound(local[q]))'
    BY <1>3, <1>4, <2>2
    DEF Fits, Sound, Converging, Appending, Inspected, Finishing, Selecting, Rendering, Unbinding
  <2> QED
    BY <1>1, <1>3, <1>4, <1>5, <2>1, <2>2, <2>3 DEF Registering
<1>6. CASE l # Idle
  <2>1. l \in Job
    BY <1>3, <1>6
  <2>2. /\ m.at = l.at /\ m.plan = l.plan /\ m.fresh = l.fresh \ entries
        /\ m.calm = FALSE /\ m.seen = l.seen
    BY <1>2, <2>1, SeenJob
  <2>3. Inspected(l)
    BY <1>3 DEF Sound
  <2>4. legacy' # "own" \/ legacy = "own"
    OBVIOUS
  <2>5. Inspected(local[q])'
    BY <1>3, <2>2, <2>3 DEF Inspected
  <2>6. (Converging(local[q]) /\ Appending(local[q]) /\ Finishing(local[q]))'
    BY <1>3, <2>2 DEF Converging, Appending, Finishing
  <2>7. Fits(local[q])'
    BY <1>3, <1>4 DEF Fits
  <2> QED
    BY <1>1, <1>3, <1>4, <2>2, <2>5, <2>6, <2>7 DEF Sound
<1> QED
  BY <1>5, <1>6

LEMMA WroteStep ==
    ASSUME IInv, NEW p \in Procs, NEW entries,
           local' \in [Procs -> Job \cup {Idle}],
           \A q \in Procs \ {p} : local'[q] = Seen(local[q], entries),
           agents' = agents \/ "agents" \in entries,
           legacy' \in {legacy, "none"},
           Fits(local'[p]), Sound(local[p])'
    PROVE  Locals'
<1>1. ASSUME NEW q \in Procs \ {p} PROVE Fits(local[q])' /\ Sound(local[q])'
  BY Disturbed
<1>2. Fits(local[p])'
  BY DEF Fits
<1> QED
  BY <1>1, <1>2 DEF Locals

\* What is to be shown of a command is what concerns its stage.
LEMMA SoundCases ==
    ASSUME NEW l
    PROVE  /\ l.at \in {"check", "default", "pin", "read", "rewrite", "load", "wait", "inspect",
                        "register", "index", "idle"} => Sound(l)
           /\ l.at \in Selecting \cup Rendering /\ Converging(l) => Sound(l)
           /\ l.at = "append" /\ Appending(l) => Sound(l)
           /\ l.at \in Unbinding /\ Inspected(l) /\ Finishing(l) => Sound(l)
<1> USE DEF Selecting, Rendering, Unbinding
<1>1. l.at \in {"check", "default", "pin", "read", "rewrite", "load", "wait", "inspect",
                "register", "index", "idle"} => Sound(l)
  BY DEF Sound, Converging, Appending, Inspected, Finishing
<1>2. l.at \in Selecting \cup Rendering /\ Converging(l) => Sound(l)
  BY DEF Sound, Appending, Inspected, Finishing
<1>3. l.at = "append" /\ Appending(l) => Sound(l)
  BY DEF Sound, Converging, Inspected, Finishing
<1>4. l.at \in Unbinding /\ Inspected(l) /\ Finishing(l) => Sound(l)
  BY DEF Sound, Converging, Appending
<1> QED
  BY <1>1, <1>2, <1>3, <1>4

(***************************************************************************)
(* The lock.                                                               *)
(***************************************************************************)
LEMMA ReadHolding ==
    ASSUME IInv, NEW p \in Procs, NEW next, local' = [local EXCEPT ![p] = next],
           guideLock' = guideLock,
           guideLock = p => next.at \in Registering,
           next.at \in Registering /\ next.calm => guideLock = p
    PROVE  Holding'
<1>1. \A q \in Procs : local'[q] = IF q = p THEN next ELSE local[q]
  BY DEF IInv, Locals
<1> QED
  BY <1>1 DEF IInv, Holding

LEMMA LeaveHolding ==
    ASSUME IInv, NEW p \in Procs, Leave(p)
    PROVE  Holding'
<1>1. \A q \in Procs : local'[q] = IF q = p THEN Idle ELSE local[q]
  BY DEF IInv, Locals, Leave, Go
<1>2. Idle.at \notin Registering
  BY IdleFits DEF Registering
<1>3. guideLock' = IF guideLock = p THEN None ELSE guideLock
  BY DEF Leave
<1> QED
  BY <1>1, <1>2, <1>3, NoneAssumption DEF IInv, Holding

LEMMA WroteHolding ==
    ASSUME IInv, NEW p \in Procs, NEW next, NEW entries,
           \A q \in Procs : local'[q] = IF q = p THEN next ELSE Seen(local[q], entries),
           guideLock' \in {guideLock, None},
           guideLock' = p => next.at \in Registering,
           next.at \in Registering /\ next.calm => guideLock' = p
    PROVE  Holding'
<1>1. ASSUME NEW q \in Procs \ {p}
      PROVE  local'[q].at = local[q].at /\ (local[q].at \in Registering => local'[q].calm = FALSE)
  <2>1. local'[q] = Seen(local[q], entries)
    OBVIOUS
  <2>2. CASE local[q] = Idle
    BY <2>1, <2>2, IdleFits DEF Seen, Registering
  <2>3. CASE local[q] \in Job
    <3>1. PICK l : l = local[q]
      OBVIOUS
    <3>2. Seen(l, entries).at = l.at /\ Seen(l, entries).calm = FALSE
      BY <2>3, <3>1, SeenJob
    <3> QED
      BY <2>1, <3>1, <3>2
  <2> QED
    BY <2>2, <2>3 DEF IInv, Locals
<1>2. local'[p] = next
  OBVIOUS
<1>3. guideLock' \in Procs \cup {None}
  BY DEF IInv, Holding
<1>4. ASSUME NEW q \in Procs, guideLock' = q PROVE local'[q].at \in Registering
  <2>1. q # None
    BY NoneAssumption
  <2>2. guideLock = q
    BY <1>4, <2>1
  <2> QED
    BY <1>1, <1>2, <1>4, <2>2 DEF IInv, Holding
<1>5. ASSUME NEW q \in Procs, local'[q].at \in Registering, local'[q].calm PROVE guideLock' = q
  <2>1. q = p
    BY <1>1, <1>5
  <2> QED
    BY <1>2, <1>5, <2>1
<1> QED
  BY <1>3, <1>4, <1>5 DEF Holding

(***************************************************************************)
(* The three shapes of a step: it reads, it writes, it leaves.             *)
(***************************************************************************)
LEMMA LeaveStep ==
    ASSUME IInv, NEW p \in Procs, Leave(p), UNCHANGED <<profile, agents, skill, legacy, runtime>>,
           Counts'
    PROVE  IInv'
<1>1. local' = [local EXCEPT ![p] = Idle]
  BY DEF Leave, Go
<1>2. Files' /\ Locals'
  BY <1>1, ReadStep, IdleFits
<1>3. Holding'
  BY LeaveHolding
<1> QED
  BY <1>2, <1>3 DEF IInv

LEMMA RefuseStep ==
    ASSUME IInv, NEW p \in Procs, Refuse(p)
    PROVE  IInv'
<1>1. Counts'
  BY DEF Refuse, counters, IInv, Counts
<1> QED
  BY <1>1, LeaveStep DEF Refuse

LEMMA ReadsStep ==
    ASSUME IInv, NEW p \in Procs, local[p].at # "idle", NEW next \in Job, Read(p, next),
           Fits(next), Sound(next),
           next.at \in Registering <=> local[p].at \in Registering,
           next.calm = local[p].calm
    PROVE  IInv'
<1>1. local' = [local EXCEPT ![p] = next] /\ UNCHANGED <<files, counters>>
  BY DEF Read, Go
<1>2. Files' /\ Locals'
  BY <1>1, ReadStep DEF files
<1>3. Holding'
  BY <1>1, ReadHolding DEF files, IInv, Holding
<1>4. Counts'
  BY <1>1 DEF counters, IInv, Counts
<1> QED
  BY <1>2, <1>3, <1>4 DEF IInv

LEMMA WritesStep ==
    ASSUME IInv, NEW p \in Procs, NEW next \in Job \cup {Idle}, NEW entries,
           Wrote(p, next, entries), Files', Counts', Fits(next), Sound(local[p])',
           guideLock' \in {guideLock, None},
           guideLock' = p => next.at \in Registering,
           next.at \in Registering /\ next.calm => guideLock' = p,
           agents' = agents \/ "agents" \in entries,
           legacy' \in {legacy, "none"}
    PROVE  IInv'
<1>1. \A q \in Procs : local'[q] = IF q = p THEN next ELSE Seen(local[q], entries)
  BY DEF Wrote
<1>2. local' \in [Procs -> Job \cup {Idle}]
  <2>1. ASSUME NEW q \in Procs PROVE Seen(local[q], entries) \in Job \cup {Idle}
    BY SeenFits DEF IInv, Locals
  <2> QED
    BY <2>1 DEF Wrote
<1>3. Locals'
  <2>1. local'[p] = next
    BY <1>1
  <2> QED
    BY <1>1, <1>2, <2>1, WroteStep
<1>4. Holding'
  BY <1>1, WroteHolding
<1> QED
  BY <1>3, <1>4 DEF IInv

(***************************************************************************)
(* repo install, archive and unarchive.                                    *)
(***************************************************************************)
LEMMA CallStep ==
    ASSUME IInv, NEW p \in Procs, NEW command \in Commands, Call(p, command)
    PROVE  IInv'
<1>1. command \in Job /\ Fits(command) /\ command.at \in {"check", "load", "read", "wait", "inspect"}
  <2>1. CASE \E r \in Releases : command = Command("install", "check", r, None)
    <3> PICK r \in Releases : command = Command("install", "check", r, None)
      BY <2>1
    <3> QED
      BY DEF Command, Job, Fits, Active, Managing, Selecting, Rendering, Registering, Unbinding
  <2>2. CASE \E c \in {"refresh", "update"}, r \in Releases : command = Command(c, "load", r, None)
    <3> PICK c \in {"refresh", "update"}, r \in Releases : command = Command(c, "load", r, None)
      BY <2>2
    <3> QED
      BY DEF Command, Job, Fits, Active, Managing, Selecting, Rendering, Registering, Unbinding
  <2>3. CASE \E s \in Statuses : command = Command("status", "read", None, s)
    <3> PICK s \in Statuses : command = Command("status", "read", None, s)
      BY <2>3
    <3> QED
      BY DEF Command, Job, Fits, Active, Managing, Selecting, Rendering, Registering, Unbinding
  <2>4. CASE \E g \in Guides : command = Command("add", "wait", None, g)
    <3> PICK g \in Guides : command = Command("add", "wait", None, g)
      BY <2>4
    <3> QED
      BY DEF Command, Job, Fits, Active, Managing, Selecting, Rendering, Registering, Unbinding
  <2>5. CASE \E keep \in BOOLEAN : command = Command("unbind", "inspect", None, keep)
    <3> PICK keep \in BOOLEAN : command = Command("unbind", "inspect", None, keep)
      BY <2>5
    <3> QED
      BY DEF Command, Job, Fits, Active, Managing, Selecting, Rendering, Registering, Unbinding
  <2> QED
    BY <2>1, <2>2, <2>3, <2>4, <2>5 DEF Commands
<1>2. Sound(command)
  BY <1>1, SoundCases
<1>3. command.at \notin Registering
  BY <1>1 DEF Registering
<1>4. local[p] = Idle /\ local' = [local EXCEPT ![p] = command] /\ UNCHANGED files
  BY DEF Call, Go, files
<1>5. Files' /\ Locals'
  BY <1>1, <1>2, <1>4, ReadStep DEF files
<1>6. guideLock # p
  BY <1>4, IdleFits DEF IInv, Holding, Registering
<1>7. Holding'
  BY <1>3, <1>4, <1>6, ReadHolding DEF files
<1>8. Counts'
  BY BoundsAssumption DEF Call, IInv, Counts
<1> QED
  BY <1>5, <1>7, <1>8 DEF IInv

\* Outside the registration one does not hold the lock.
LEMMA NotHolder ==
    ASSUME IInv, NEW p \in Procs, local[p].at \notin Registering
    PROVE  guideLock # p
BY DEF IInv, Holding

LEMMA InstallStep ==
    ASSUME IInv, NEW p \in Procs, Install(p)
    PROVE  IInv'
<1> USE DEF Active, Managing, Selecting, Rendering, Registering, Unbinding
<1>1. CASE CheckProfile(p)
  <2>1. local[p].at = "check"
    BY <1>1 DEF CheckProfile, At
  <2>2. PICK stage \in {"default", "pin"} : Read(p, To(p, stage))
    BY <1>1 DEF CheckProfile
  <2>3. PICK n : n = To(p, stage)
    OBVIOUS
  <2>4. /\ n \in Job /\ n.at = stage /\ n.cmd = local[p].cmd /\ n.release = local[p].release
        /\ n.calm = local[p].calm
    BY <2>1, <2>3, ToStage
  <2>5. Fits(local[p])
    BY <2>1, JobOf
  <2>6. Fits(n)
    BY <2>1, <2>4, <2>5 DEF Fits
  <2> QED
    BY <2>1, <2>2, <2>3, <2>4, <2>6, SoundCases, ReadsStep
<1>2. CASE WriteDefault(p) /\ profile = None
  <2>1. local[p].at = "default" /\ profile' = Default /\ Wrote(p, To(p, "pin"), {"profile"})
        /\ UNCHANGED <<agents, skill, legacy, runtime, guideLock, counters>>
    BY <1>2 DEF WriteDefault, At
  <2>3. PICK n : n = To(p, "pin")
    OBVIOUS
  <2>4. /\ n \in Job /\ n.at = "pin" /\ n.cmd = local[p].cmd /\ n.release = local[p].release
        /\ n.calm = local[p].calm
    BY <2>1, <2>3, ToStage
  <2>5. Fits(local[p])
    BY <2>1, JobOf
  <2>6. Fits(n)
    BY <2>1, <2>4, <2>5 DEF Fits
  <2>7. local'[p] = n
    BY <2>1, <2>3 DEF Wrote
  <2>8. Sound(local[p])'
    BY <2>4, <2>7 DEF Sound, Converging, Appending, Inspected, Finishing
  <2>9. Files' /\ Counts'
    BY <2>1 DEF IInv, Files, Counts, counters, Default, Profile, Statuses
  <2>10. guideLock # p
    BY <2>1, NotHolder
  <2> HIDE DEF Active, Managing, Selecting, Rendering, Unbinding
  <2> QED
    BY <2>1, <2>3, <2>4, <2>6, <2>8, <2>9, <2>10, WritesStep
<1>3. CASE ReadHandlers(p)
  <2>1. local[p].at = "pin"
    BY <1>3 DEF ReadHandlers, At
  <2>2. CASE Refuse(p)
    BY <2>2, RefuseStep
  <2>3. CASE Read(p, To(p, "load"))
    <3>3. PICK n : n = To(p, "load")
      OBVIOUS
    <3>4. /\ n \in Job /\ n.at = "load" /\ n.cmd = local[p].cmd /\ n.release = local[p].release
          /\ n.calm = local[p].calm
      BY <2>1, <3>3, ToStage
    <3>5. Fits(local[p])
      BY <2>1, JobOf
    <3>6. Fits(n)
      BY <2>1, <3>4, <3>5 DEF Fits
    <3> QED
      BY <2>1, <2>3, <3>3, <3>4, <3>6, SoundCases, ReadsStep
  <2>4. CASE /\ profile # None
             /\ Read(p, [To(p, "rewrite") EXCEPT !.seen = [profile EXCEPT !.pinned = TRUE]])
    <3>1. PICK m : m = To(p, "rewrite")
      OBVIOUS
    <3>2. PICK x : x = [profile EXCEPT !.pinned = TRUE]
      OBVIOUS
    <3>3. x \in Profile
      BY <2>4, <3>2 DEF IInv, Files, Profile
    <3>4. PICK n : n = [m EXCEPT !.seen = x]
      OBVIOUS
    <3>5. /\ m \in Job /\ m.at = "rewrite" /\ m.cmd = local[p].cmd /\ m.release = local[p].release
          /\ m.calm = local[p].calm
      BY <2>1, <3>1, ToStage
    <3>6. /\ n \in Job /\ n.at = "rewrite" /\ n.cmd = local[p].cmd /\ n.release = local[p].release
          /\ n.calm = local[p].calm /\ n.seen = x
      BY <3>3, <3>4, <3>5, WithSeen
    <3>7. Fits(local[p])
      BY <2>1, JobOf
    <3>8. Fits(n)
      BY <2>1, <3>3, <3>6, <3>7 DEF Fits
    <3>9. Read(p, n)
      BY <2>4, <3>1, <3>2, <3>4
    <3> QED
      BY <2>1, <3>6, <3>8, <3>9, SoundCases, ReadsStep
  <2> QED
    BY <1>3, <2>2, <2>3, <2>4 DEF ReadHandlers
<1>4. CASE WriteDefault(p) /\ profile # None
  BY <1>4, RefuseStep DEF WriteDefault
<1> QED
  BY <1>1, <1>2, <1>3, <1>4 DEF Install

LEMMA SetStatusStep ==
    ASSUME IInv, NEW p \in Procs, SetStatus(p)
    PROVE  IInv'
<1> USE DEF Active, Managing, Selecting, Rendering, Registering, Unbinding
<1>1. CASE ReadStatus(p)
  <2>1. local[p].at = "read"
    BY <1>1 DEF ReadStatus, At
  <2>2. CASE Refuse(p)
    BY <2>2, RefuseStep
  <2>3. CASE /\ profile # None
             /\ Read(p, [To(p, "rewrite") EXCEPT !.seen = [profile EXCEPT !.status = local[p].argument]])
    <3>1. PICK m : m = To(p, "rewrite")
      OBVIOUS
    <3>2. PICK x : x = [profile EXCEPT !.status = local[p].argument]
      OBVIOUS
    <3>3. Fits(local[p])
      BY <2>1, JobOf
    <3>4. x \in Profile
      <4>1. local[p].argument \in Statuses
        BY <2>1, <3>3 DEF Fits
      <4> QED
        BY <2>3, <3>2, <4>1 DEF IInv, Files, Profile
    <3>5. PICK n : n = [m EXCEPT !.seen = x]
      OBVIOUS
    <3>6. /\ m \in Job /\ m.at = "rewrite" /\ m.cmd = local[p].cmd /\ m.release = local[p].release
          /\ m.calm = local[p].calm
      BY <2>1, <3>1, ToStage
    <3>7. /\ n \in Job /\ n.at = "rewrite" /\ n.cmd = local[p].cmd /\ n.release = local[p].release
          /\ n.calm = local[p].calm /\ n.seen = x
      BY <3>4, <3>5, <3>6, WithSeen
    <3>8. Fits(n)
      BY <2>1, <3>4, <3>7, <3>3 DEF Fits
    <3>9. Read(p, n)
      BY <2>3, <3>1, <3>2, <3>5
    <3> QED
      BY <2>1, <3>7, <3>8, <3>9, SoundCases, ReadsStep
  <2> QED
    BY <1>1, <2>2, <2>3 DEF ReadStatus
<1>2. CASE Rewrite(p)
  <2>1. local[p].at = "rewrite" /\ profile' = local[p].seen
        /\ Wrote(p, IF local[p].cmd = "install" THEN To(p, "load") ELSE Idle, {"profile"})
        /\ UNCHANGED <<agents, skill, legacy, runtime, guideLock, counters>>
    BY <1>2 DEF Rewrite, At
  <2>2. PICK n : n = IF local[p].cmd = "install" THEN To(p, "load") ELSE Idle
    OBVIOUS
  <2>3. Fits(local[p])
    BY <2>1, JobOf
  <2>4. n \in Job \cup {Idle} /\ n.at \in {"load", "idle"} /\ Fits(n)
    <3>1. CASE local[p].cmd = "install"
      <4>1. /\ n \in Job /\ n.at = "load" /\ n.cmd = local[p].cmd /\ n.release = local[p].release
        BY <2>1, <2>2, <3>1, ToStage
      <4>2. Fits(n)
        BY <2>1, <2>3, <4>1, <3>1 DEF Fits
      <4> QED
        BY <4>1, <4>2
    <3>2. CASE local[p].cmd # "install"
      BY <2>2, <3>2, IdleFits
    <3> QED
      BY <3>1, <3>2
  <2>5. local'[p] = n
    BY <2>1, <2>2 DEF Wrote
  <2>6. Sound(local[p])'
    BY <2>4, <2>5 DEF Sound, Converging, Appending, Inspected, Finishing
  <2>7. local[p].seen \in Profile
    BY <2>1, <2>3 DEF Fits
  <2>8. Files' /\ Counts'
    BY <2>1, <2>7 DEF IInv, Files, Counts, counters
  <2>9. guideLock # p
    BY <2>1, NotHolder
  <2>10. Wrote(p, n, {"profile"})
    BY <2>1, <2>2
  <2>11. n.at \notin Registering
    BY <2>4
  <2> HIDE DEF Active, Managing, Selecting, Rendering, Unbinding, Registering
  <2> QED
    BY <2>1, <2>4, <2>6, <2>8, <2>9, <2>10, <2>11, WritesStep
<1> QED
  BY <1>1, <1>2 DEF SetStatus

(***************************************************************************)
(* Handlers.                                                               *)
(***************************************************************************)
LEMMA LoadStep ==
    ASSUME IInv, NEW p \in Procs, Load(p)
    PROVE  IInv'
<1> USE DEF Active, Managing, Selecting, Rendering, Registering, Unbinding
<1>1. local[p].at = "load"
  BY DEF Load, At
<1>2. CASE Refuse(p)
  BY <1>2, RefuseStep
<1>3. ASSUME profile # None,
             NEW stage \in {"agents", "publish"},
             Read(p, [To(p, stage) EXCEPT !.seen = profile]),
             stage = "agents" => local[p].cmd = "refresh"
      PROVE  IInv'
  <2>1. PICK m : m = To(p, stage)
    OBVIOUS
  <2>2. PICK n : n = [m EXCEPT !.seen = profile]
    OBVIOUS
  <2>3. Fits(local[p])
    BY <1>1, JobOf
  <2>4. profile \in Profile
    BY <1>3 DEF IInv, Files
  <2>5. /\ m \in Job /\ m.at = stage /\ m.cmd = local[p].cmd /\ m.release = local[p].release
        /\ m.calm = local[p].calm
    BY <1>1, <2>1, ToStage
  <2>6. /\ n \in Job /\ n.at = stage /\ n.cmd = local[p].cmd /\ n.release = local[p].release
        /\ n.calm = local[p].calm /\ n.seen = profile
    BY <2>2, <2>4, <2>5, WithSeen
  <2>7. Fits(n)
    BY <1>1, <2>3, <2>4, <2>6 DEF Fits
  <2>8. Converging(n)
    BY <1>3, <2>6 DEF Converging
  <2>9. Read(p, n)
    BY <1>3, <2>1, <2>2
  <2> QED
    BY <1>1, <2>6, <2>7, <2>8, <2>9, SoundCases, ReadsStep
<1>4. CASE /\ profile # None
           /\ Read(p, [To(p, IF local[p].cmd = "refresh" THEN "agents" ELSE "publish")
                         EXCEPT !.seen = profile])
  <2>1. PICK stage : stage = IF local[p].cmd = "refresh" THEN "agents" ELSE "publish"
    OBVIOUS
  <2> QED
    BY <1>3, <1>4, <2>1
<1> QED
  BY <1>2, <1>4 DEF Load

\* What a publication or a selection may rely on afterwards.
LEMMA SelectingTo ==
    ASSUME IInv, NEW p \in Procs, local[p].at \in Selecting,
           NEW stage \in {"select", "spawn", "agents"}, stage = "spawn" => local[p].cmd = "update",
           NEW n, n = To(p, stage)
    PROVE  /\ n \in Job /\ n.at = stage /\ n.cmd = local[p].cmd /\ n.release = local[p].release
           /\ n.seen = local[p].seen /\ n.calm = local[p].calm /\ Fits(n)
           /\ local[p].release \in Releases
<1> USE DEF Active, Managing, Selecting, Rendering, Registering, Unbinding
<1>1. Fits(local[p])
  BY JobOf
<1>2. /\ n \in Job /\ n.at = stage /\ n.cmd = local[p].cmd /\ n.release = local[p].release
      /\ n.seen = local[p].seen /\ n.calm = local[p].calm
  BY ToStage
<1>3. Fits(n)
  BY <1>1, <1>2 DEF Fits
<1>4. local[p].release \in Releases
  BY <1>1 DEF Fits
<1> QED
  BY <1>2, <1>3, <1>4

LEMMA PublishStep ==
    ASSUME IInv, NEW p \in Procs, Publish(p)
    PROVE  IInv'
<1>1. local[p].at = "publish" /\ local[p].at \in Selecting
  BY DEF Publish, At, Selecting
<1>2. CASE Refuse(p)
  BY <1>2, RefuseStep
<1>3. CASE local[p].cmd = "install" /\ Read(p, To(p, "agents"))
  <2>1. PICK n : n = To(p, "agents")
    OBVIOUS
  <2>2. n \in Job /\ n.at = "agents" /\ n.cmd = "install" /\ n.calm = local[p].calm /\ Fits(n)
    BY <1>1, <1>3, <2>1, SelectingTo
  <2>3. Converging(n)
    BY <2>2 DEF Converging
  <2> QED
    BY <1>1, <1>3, <2>1, <2>2, <2>3, SoundCases, ReadsStep DEF Rendering, Registering
<1>4. CASE /\ runtime' = [runtime EXCEPT !.archives = @ \cup {local[p].release}]
           /\ Wrote(p, To(p, "select"), IF runtime.archives = {} THEN {"control"} ELSE {})
           /\ UNCHANGED <<profile, agents, skill, legacy, guideLock, counters>>
  <2>1. PICK n : n = To(p, "select")
    OBVIOUS
  <2>2. /\ n \in Job /\ n.at = "select" /\ n.cmd = local[p].cmd /\ n.release = local[p].release
        /\ n.seen = local[p].seen /\ n.calm = local[p].calm /\ Fits(n)
        /\ local[p].release \in Releases
    BY <1>1, <2>1, SelectingTo
  <2>3. PICK entries : entries = IF runtime.archives = {} THEN {"control"} ELSE {}
    OBVIOUS
  <2>4. Wrote(p, n, entries)
    BY <1>4, <2>1, <2>3
  <2>5. local'[p] = n
    BY <2>4 DEF Wrote
  <2>6. Files' /\ Counts'
    BY <1>4, <2>2 DEF IInv, Files, Counts, counters
  <2>7. local[p].release \in runtime'.archives
    BY <1>4 DEF IInv, Files
  <2>8. Converging(local[p])
    BY <1>1, JobOf DEF Sound, Selecting
  <2>9. Converging(local[p])'
    BY <1>1, <1>4, <2>2, <2>5, <2>7, <2>8 DEF Converging, Selecting, Rendering
  <2>10. Sound(local[p])'
    BY <2>2, <2>5, <2>9 DEF Sound, Appending, Inspected, Finishing, Unbinding
  <2>11. guideLock # p /\ n.at \notin Registering
    BY <1>1, <2>2, NotHolder DEF Registering
  <2> QED
    BY <1>4, <2>2, <2>4, <2>6, <2>10, <2>11, WritesStep
<1> QED
  BY <1>2, <1>3, <1>4 DEF Publish

LEMMA SelectStep ==
    ASSUME IInv, NEW p \in Procs, Select(p)
    PROVE  IInv'
<1>1. /\ local[p].at = "select" /\ local[p].at \in Selecting
      /\ runtime' = [runtime EXCEPT !.selected = local[p].release]
      /\ UNCHANGED <<profile, agents, skill, legacy, guideLock, counters>>
  BY DEF Select, At, Selecting
<1>2. PICK stage : stage = IF local[p].cmd = "update" THEN "spawn" ELSE "agents"
  OBVIOUS
<1>3. PICK n : n = To(p, stage)
  OBVIOUS
<1>4. PICK entries : entries = IF runtime.selected = None THEN {"control"} ELSE {}
  OBVIOUS
<1>5. /\ n \in Job /\ n.at = stage /\ n.cmd = local[p].cmd /\ n.release = local[p].release
      /\ n.seen = local[p].seen /\ n.calm = local[p].calm /\ Fits(n)
      /\ local[p].release \in Releases
  BY <1>1, <1>2, <1>3, SelectingTo
<1>6. Wrote(p, n, entries)
  BY <1>2, <1>3, <1>4 DEF Select
<1>7. local'[p] = n
  BY <1>6 DEF Wrote
<1>8. Files' /\ Counts'
  BY <1>1, <1>5 DEF IInv, Files, Counts, counters
<1>9. runtime'.archives = runtime.archives /\ runtime'.selected = local[p].release
  BY <1>1 DEF IInv, Files
<1>10. Fits(local[p]) /\ Converging(local[p])
  BY <1>1, JobOf DEF Sound, Selecting
<1>11. local[p].cmd # "refresh" \/ stage = "agents"
  BY <1>2
<1>12. Converging(local[p])'
  <2>1. CASE local[p].cmd = "update"
    BY <1>1, <1>2, <1>5, <1>7, <1>9, <1>10, <2>1 DEF Converging, Selecting, Rendering
  <2>2. CASE local[p].cmd # "update"
    BY <1>1, <1>2, <1>5, <1>7, <1>10, <2>2 DEF Converging, Selecting, Rendering
  <2> QED
    BY <2>1, <2>2
<1>13. Sound(local[p])'
  BY <1>2, <1>5, <1>7, <1>12 DEF Sound, Appending, Inspected, Finishing, Unbinding
<1>14. guideLock # p /\ n.at \notin Registering
  BY <1>1, <1>2, <1>5, NotHolder DEF Registering
<1> QED
  BY <1>1, <1>5, <1>6, <1>8, <1>13, <1>14, WritesStep

LEMMA SpawnStep ==
    ASSUME IInv, NEW p \in Procs, Spawn(p)
    PROVE  IInv'
<1>1. local[p].at = "spawn" /\ local[p].at \in Selecting
  BY DEF Spawn, At, Selecting
<1>2. CASE Refuse(p)
  BY <1>2, RefuseStep
<1>3. CASE /\ profile # None /\ runtime.selected \in runtime.archives
           /\ Read(p, [To(p, "agents") EXCEPT !.seen = profile, !.release = runtime.selected])
  <2>1. PICK m : m = To(p, "agents")
    OBVIOUS
  <2>2. PICK r : r = runtime.selected
    OBVIOUS
  <2>3. PICK n : n = [m EXCEPT !.seen = profile, !.release = r]
    OBVIOUS
  <2>4. m \in Job /\ m.at = "agents" /\ m.cmd = local[p].cmd /\ m.calm = local[p].calm
    BY <1>1, <2>1, SelectingTo
  <2>5. profile \in Profile /\ r \in Releases
    BY <1>3, <2>2 DEF IInv, Files
  <2>6. /\ n \in Job /\ n.at = "agents" /\ n.cmd = local[p].cmd /\ n.calm = local[p].calm
        /\ n.seen = profile /\ n.release = r
    BY <2>3, <2>4, <2>5 DEF Job
  <2>7. Fits(local[p])
    BY <1>1, JobOf
  <2>8. Fits(n)
    BY <1>1, <2>5, <2>6, <2>7 DEF Fits, Active, Managing, Selecting, Rendering, Registering, Unbinding
  <2>9. Converging(n)
    BY <1>3, <2>2, <2>6 DEF Converging
  <2>10. Read(p, n)
    BY <1>3, <2>1, <2>2, <2>3
  <2> QED
    BY <1>1, <2>6, <2>8, <2>9, <2>10, SoundCases, ReadsStep DEF Rendering, Registering
<1> QED
  BY <1>2, <1>3 DEF Spawn

LEMMA HandlersStep ==
    ASSUME IInv, NEW p \in Procs, Handlers(p)
    PROVE  IInv'
BY LoadStep, PublishStep, SelectStep, SpawnStep DEF Handlers

(***************************************************************************)
(* Managed instructions.                                                   *)
(***************************************************************************)
\* From one of these stages to the next.
LEMMA RenderingTo ==
    ASSUME IInv, NEW p \in Procs, local[p].at \in Rendering,
           NEW stage \in Rendering \ {"block"}, NEW n, n = To(p, stage)
    PROVE  /\ n \in Job /\ n.at = stage /\ n.cmd = local[p].cmd /\ n.release = local[p].release
           /\ n.seen = local[p].seen /\ n.calm = local[p].calm /\ Fits(n)
           /\ local[p].release \in Releases /\ local[p].seen \in Profile
           /\ Converging(local[p]) /\ Fits(local[p]) /\ guideLock # p /\ n.at \notin Registering
<1>1. Fits(local[p]) /\ Converging(local[p]) /\ local[p].at \notin Registering
  BY JobOf DEF Sound, Rendering, Registering
<1>2. /\ n \in Job /\ n.at = stage /\ n.cmd = local[p].cmd /\ n.release = local[p].release
      /\ n.seen = local[p].seen /\ n.calm = local[p].calm
  BY ToStage DEF Rendering, Active
<1>3. Fits(n)
  BY <1>1, <1>2 DEF Fits, Active, Managing, Selecting, Rendering, Registering, Unbinding
<1>4. local[p].release \in Releases /\ local[p].seen \in Profile
  BY <1>1 DEF Fits, Active, Managing, Selecting, Rendering, Registering, Unbinding
<1> QED
  BY <1>1, <1>2, <1>3, <1>4, NotHolder DEF Rendering, Registering

\* What these stages carry.
LEMMA RenderingHas ==
    ASSUME IInv, NEW p \in Procs, local[p].at \in Rendering
    PROVE  /\ local[p].release \in Releases /\ local[p].seen \in Profile
           /\ Converging(local[p]) /\ Fits(local[p])
<1>1. Fits(local[p]) /\ Converging(local[p])
  BY JobOf DEF Sound, Rendering
<1> QED
  BY <1>1 DEF Fits, Active, Managing, Selecting, Rendering, Registering, Unbinding

LEMMA ReadAgentsStep ==
    ASSUME IInv, NEW p \in Procs, ReadAgents(p)
    PROVE  IInv'
<1>1. local[p].at = "agents" /\ local[p].at \in Rendering
  BY DEF ReadAgents, At, Rendering
<1>2. PICK m : m = To(p, "block")
  OBVIOUS
<1>3. PICK n : n = [m EXCEPT !.argument = agents]
  OBVIOUS
<1>4. /\ m \in Job /\ m.at = "block" /\ m.cmd = local[p].cmd /\ m.release = local[p].release
      /\ m.seen = local[p].seen /\ m.calm = local[p].calm
  BY <1>1, <1>2, ToStage DEF Rendering, Active
<1>5. agents \in Agents
  BY DEF IInv, Files
<1>6. /\ n \in Job /\ n.at = "block" /\ n.cmd = local[p].cmd /\ n.release = local[p].release
      /\ n.seen = local[p].seen /\ n.calm = local[p].calm /\ n.argument = agents
  BY <1>3, <1>4, <1>5, WithArgument
<1>7. Fits(local[p]) /\ Converging(local[p])
  BY <1>1, JobOf DEF Sound, Rendering
<1>8. Fits(n)
  BY <1>1, <1>5, <1>6, <1>7 DEF Fits, Active, Managing, Selecting, Rendering, Registering, Unbinding
<1>9. Converging(n)
  BY <1>1, <1>6, <1>7 DEF Converging, Rendering
<1>10. Read(p, n)
  BY <1>2, <1>3 DEF ReadAgents
<1> QED
  BY <1>1, <1>6, <1>8, <1>9, <1>10, SoundCases, ReadsStep DEF Rendering, Registering

LEMMA WriteBlockStep ==
    ASSUME IInv, NEW p \in Procs, WriteBlock(p)
    PROVE  IInv'
<1>1. local[p].at = "block" /\ local[p].at \in Rendering
  BY DEF WriteBlock, At, Rendering
<1>2. PICK read : read = local[p].argument
  OBVIOUS
<1>3. PICK m : m = To(p, "core")
  OBVIOUS
<1>4. PICK n : n = [m EXCEPT !.argument = None]
  OBVIOUS
<1>5. /\ m \in Job /\ m.at = "core" /\ m.cmd = local[p].cmd /\ m.release = local[p].release
      /\ m.seen = local[p].seen /\ m.calm = local[p].calm /\ Fits(m)
      /\ local[p].release \in Releases /\ local[p].seen \in Profile
      /\ Converging(local[p]) /\ Fits(local[p]) /\ guideLock # p
  BY <1>1, <1>3, RenderingTo DEF Rendering
<1>6. /\ n \in Job /\ n.at = "core" /\ n.cmd = local[p].cmd /\ n.release = local[p].release
      /\ n.seen = local[p].seen /\ n.calm = local[p].calm
  BY <1>4, <1>5, WithArgument
<1>7. Fits(n)
  BY <1>5, <1>6 DEF Fits, Active, Managing, Selecting, Rendering, Registering, Unbinding
<1>8. read \in Agents
  BY <1>1, <1>2, <1>5 DEF Fits
<1>9. PICK rendered : rendered = Rendered(read, local[p].release)
  OBVIOUS
<1>10. rendered \in Agents /\ rendered.block = local[p].release
  BY <1>5, <1>8, <1>9 DEF Rendered, Agents
<1>11. n.at \notin Registering
  BY <1>6 DEF Registering
<1>12. CASE rendered = read /\ Read(p, n)
  <2>1. Converging(n)
    BY <1>1, <1>2, <1>5, <1>6, <1>10, <1>12 DEF Converging, Rendering
  <2> QED
    BY <1>1, <1>6, <1>7, <1>12, <2>1, SoundCases, ReadsStep DEF Rendering, Registering
<1>13. CASE /\ agents' = rendered /\ Wrote(p, n, {"agents"})
            /\ UNCHANGED <<profile, skill, legacy, runtime, guideLock, counters>>
  <2>1. local'[p] = n
    BY <1>13 DEF Wrote
  <2>2. Files' /\ Counts'
    BY <1>10, <1>13 DEF IInv, Files, Counts, counters
  <2>3. Converging(local[p])'
    BY <1>1, <1>5, <1>6, <1>10, <1>13, <2>1 DEF Converging, Rendering
  <2>4. Sound(local[p])'
    BY <1>6, <2>1, <2>3 DEF Sound, Appending, Inspected, Finishing, Unbinding
  <2> QED
    BY <1>5, <1>6, <1>7, <1>11, <1>13, <2>2, <2>4, WritesStep
<1> QED
  BY <1>2, <1>3, <1>4, <1>9, <1>12, <1>13 DEF WriteBlock

Skill == [core : Releases \cup {None}, catalog : (SUBSET Guides) \cup {None}, aux : BOOLEAN]

\* A write of the skill directory, when the new one is what the stage requires.
LEMMA WriteSkillStep ==
    ASSUME IInv, NEW p \in Procs, local[p].at \in {"core", "catalog", "prune"},
           NEW new \in Skill, NEW stage \in {"catalog", "prune", "obsolete", "done"}, NEW entries,
           WriteSkill(p, new, stage, entries),
           local[p].calm /\ local[p].cmd \in {"refresh", "update"} =>
               /\ stage # "done"
               /\ new.core = local[p].release
               /\ stage \in {"prune", "obsolete"} => new.catalog = profile.guidance
               /\ stage = "obsolete" => new.aux = FALSE
    PROVE  IInv'
<1>1. local[p].at \in Rendering
  BY DEF Rendering
<1>2. PICK n : n = To(p, stage)
  OBVIOUS
<1>3. /\ n \in Job /\ n.at = stage /\ n.cmd = local[p].cmd /\ n.release = local[p].release
      /\ n.seen = local[p].seen /\ n.calm = local[p].calm /\ Fits(n)
      /\ Converging(local[p]) /\ guideLock # p /\ n.at \notin Registering
  BY <1>1, <1>2, RenderingTo DEF Rendering
<1>4. CASE new = skill /\ Read(p, n)
  <2>1. Converging(n)
    BY <1>1, <1>3, <1>4 DEF Converging, Rendering
  <2> QED
    BY <1>1, <1>3, <1>4, <2>1, SoundCases, ReadsStep DEF Rendering, Registering
<1>5. CASE /\ skill' = new /\ Wrote(p, n, entries)
           /\ UNCHANGED <<profile, agents, legacy, runtime, guideLock, counters>>
  <2>1. local'[p] = n
    BY <1>5 DEF Wrote
  <2>2. Files' /\ Counts'
    BY <1>5 DEF IInv, Files, Counts, counters, Skill
  <2>3. Converging(local[p])'
    BY <1>1, <1>3, <1>5, <2>1 DEF Converging, Rendering
  <2>4. Sound(local[p])'
    BY <1>3, <2>1, <2>3 DEF Sound, Appending, Inspected, Finishing, Unbinding
  <2> QED
    BY <1>3, <1>5, <2>2, <2>4, WritesStep
<1> QED
  BY <1>2, <1>4, <1>5 DEF WriteSkill

LEMMA WriteCoreStep ==
    ASSUME IInv, NEW p \in Procs, WriteCore(p)
    PROVE  IInv'
<1>1. local[p].at = "core" /\ local[p].at \in Rendering
  BY DEF WriteCore, At, Rendering
<1>2. Fits(local[p]) /\ local[p].release \in Releases
  BY <1>1, RenderingHas
<1>3. PICK new : new = IF skill.core # None /\ ~Overwrite(p) THEN skill
                       ELSE [skill EXCEPT !.core = local[p].release]
  OBVIOUS
<1>4. new \in Skill
  BY <1>2, <1>3 DEF IInv, Files, Skill
<1>5. local[p].cmd \in {"refresh", "update"} => new.core = local[p].release
  BY <1>3 DEF Overwrite, IInv, Files
<1>6. PICK entries : entries = IF skill.core = None THEN {"skill"} ELSE {}
  OBVIOUS
<1>7. WriteSkill(p, new, "catalog", entries)
  BY <1>3, <1>6 DEF WriteCore
<1> QED
  BY <1>1, <1>4, <1>5, <1>7, WriteSkillStep

LEMMA WriteCatalogStep ==
    ASSUME IInv, NEW p \in Procs, WriteCatalog(p)
    PROVE  IInv'
<1>1. local[p].at = "catalog" /\ local[p].at \in Rendering
  BY DEF WriteCatalog, At, Rendering
<1>2. Fits(local[p]) /\ Converging(local[p]) /\ local[p].seen \in Profile
  BY <1>1, RenderingHas
<1>3. PICK new : new = IF skill.catalog # None /\ ~Overwrite(p) THEN skill
                       ELSE [skill EXCEPT !.catalog = local[p].seen.guidance]
  OBVIOUS
<1>4. new \in Skill
  <2>1. local[p].seen.guidance \in SUBSET Guides
    BY <1>2 DEF Profile
  <2> QED
    BY <1>3, <2>1 DEF IInv, Files, Skill
<1>5. PICK stage : stage = IF Overwrite(p) THEN "prune" ELSE "done"
  OBVIOUS
<1>6. local[p].calm /\ local[p].cmd \in {"refresh", "update"} =>
          stage = "prune" /\ new.core = local[p].release /\ new.catalog = profile.guidance
  BY <1>1, <1>2, <1>3, <1>5 DEF Overwrite, IInv, Files, Converging
<1>7. WriteSkill(p, new, stage, {})
  BY <1>3, <1>5 DEF WriteCatalog
<1>8. stage \in {"prune", "done"}
  BY <1>5
<1> QED
  BY <1>1, <1>4, <1>6, <1>7, <1>8, WriteSkillStep

LEMMA PruneAuxiliaryStep ==
    ASSUME IInv, NEW p \in Procs, PruneAuxiliary(p)
    PROVE  IInv'
<1>1. local[p].at = "prune" /\ local[p].at \in Rendering
  BY DEF PruneAuxiliary, At, Rendering
<1>2. Converging(local[p])
  BY <1>1, JobOf DEF Sound, Rendering
<1>3. PICK new : new = [skill EXCEPT !.aux = FALSE]
  OBVIOUS
<1>4. new \in Skill /\ new.core = skill.core /\ new.catalog = skill.catalog /\ new.aux = FALSE
  BY <1>3 DEF IInv, Files, Skill
<1>5. local[p].calm /\ local[p].cmd \in {"refresh", "update"} =>
          new.core = local[p].release /\ new.catalog = profile.guidance
  BY <1>1, <1>2, <1>4 DEF Converging, Rendering
<1>6. WriteSkill(p, new, "obsolete", {"skill"})
  BY <1>3 DEF PruneAuxiliary
<1> QED
  BY <1>1, <1>4, <1>5, <1>6, WriteSkillStep

LEMMA PruneObsoleteStep ==
    ASSUME IInv, NEW p \in Procs, PruneObsolete(p)
    PROVE  IInv'
<1>1. local[p].at = "obsolete" /\ local[p].at \in Rendering
  BY DEF PruneObsolete, At, Rendering
<1>2. PICK n : n = To(p, "done")
  OBVIOUS
<1>3. /\ n \in Job /\ n.at = "done" /\ n.cmd = local[p].cmd /\ n.release = local[p].release
      /\ n.seen = local[p].seen /\ n.calm = local[p].calm /\ Fits(n)
      /\ Converging(local[p]) /\ guideLock # p /\ n.at \notin Registering
  BY <1>1, <1>2, RenderingTo DEF Rendering
<1>4. CASE legacy = "none" /\ Read(p, n)
  <2>1. Converging(n)
    BY <1>1, <1>3, <1>4 DEF Converging, Rendering
  <2> QED
    BY <1>1, <1>3, <1>4, <2>1, SoundCases, ReadsStep DEF Rendering, Registering
<1>5. CASE /\ legacy' = "none" /\ Wrote(p, n, {"legacy"})
           /\ UNCHANGED <<profile, agents, skill, runtime, guideLock, counters>>
  <2>1. local'[p] = n
    BY <1>5 DEF Wrote
  <2>2. Files' /\ Counts'
    BY <1>5 DEF IInv, Files, Counts, counters
  <2>3. Converging(local[p])'
    BY <1>1, <1>3, <1>5, <2>1 DEF Converging, Rendering
  <2>4. Sound(local[p])'
    BY <1>3, <2>1, <2>3 DEF Sound, Appending, Inspected, Finishing, Unbinding
  <2> QED
    BY <1>3, <1>5, <2>2, <2>4, WritesStep
<1> QED
  BY <1>2, <1>4, <1>5 DEF PruneObsolete

LEMMA InstructionsStep ==
    ASSUME IInv, NEW p \in Procs, Instructions(p)
    PROVE  IInv'
BY ReadAgentsStep, WriteBlockStep, WriteCoreStep, WriteCatalogStep, PruneAuxiliaryStep,
   PruneObsoleteStep, RefuseStep DEF Instructions, Answer

(***************************************************************************)
(* guidance add.                                                           *)
(***************************************************************************)
LEMMA LockStep ==
    ASSUME IInv, NEW p \in Procs, Lock(p)
    PROVE  IInv'
<1>1. /\ local[p].at = "wait" /\ guideLock = None /\ guideLock' = p
      /\ UNCHANGED <<profile, agents, skill, legacy, runtime, counters>>
  BY DEF Lock, At
<1>2. PICK m : m = To(p, "register")
  OBVIOUS
<1>3. PICK n : n = [m EXCEPT !.calm = TRUE]
  OBVIOUS
<1>4. local' = [local EXCEPT ![p] = n]
  BY <1>2, <1>3 DEF Lock, Go
<1>5. m \in Job /\ m.at = "register" /\ m.cmd = local[p].cmd /\ m.argument = local[p].argument
  BY <1>1, <1>2, ToStage DEF Active, Registering
<1>6. n \in Job /\ n.at = "register" /\ n.cmd = local[p].cmd /\ n.argument = local[p].argument
  BY <1>3, <1>5 DEF Job
<1>7. Fits(local[p])
  BY <1>1, JobOf
<1>8. Fits(n)
  BY <1>1, <1>6, <1>7 DEF Fits, Active, Managing, Selecting, Rendering, Registering, Unbinding
<1>9. Files' /\ Locals'
  BY <1>1, <1>4, <1>6, <1>8, SoundCases, ReadStep
<1>10. \A q \in Procs : local'[q] = IF q = p THEN n ELSE local[q]
  BY <1>4 DEF IInv, Locals
<1>11. \A q \in Procs : q # None
  BY NoneAssumption
<1>12. Holding'
  BY <1>1, <1>6, <1>10, <1>11 DEF IInv, Holding, Registering
<1>13. Counts'
  BY <1>1 DEF IInv, Counts, counters
<1> QED
  BY <1>9, <1>12, <1>13 DEF IInv

\* What an add carries.
LEMMA RegisteringHas ==
    ASSUME IInv, NEW p \in Procs, local[p].at \in Registering
    PROVE  /\ local[p].argument \in Guides /\ local[p].cmd = "add"
           /\ local[p].at \in {"append", "index"} => local[p].seen \in Profile
           /\ Fits(local[p]) /\ Appending(local[p])
<1>1. Fits(local[p]) /\ Appending(local[p])
  BY JobOf DEF Sound, Registering
<1> QED
  BY <1>1 DEF Fits, Selecting, Rendering, Registering

LEMMA ReadRegisteredStep ==
    ASSUME IInv, NEW p \in Procs, ReadRegistered(p)
    PROVE  IInv'
<1>1. local[p].at = "register" /\ local[p].at \in Registering
  BY DEF ReadRegistered, At, Registering
<1>2. PICK name : name = local[p].argument
  OBVIOUS
<1>3. name \in Guides /\ Fits(local[p])
  BY <1>1, <1>2, RegisteringHas
<1>4. CASE Refuse(p)
  BY <1>4, RefuseStep
<1>5. CASE /\ profile # None
           /\ Read(p, [To(p, "append") EXCEPT !.seen = [profile EXCEPT !.guidance = @ \cup {name}]])
  <2>1. PICK m : m = To(p, "append")
    OBVIOUS
  <2>2. PICK x : x = [profile EXCEPT !.guidance = @ \cup {name}]
    OBVIOUS
  <2>3. x \in Profile /\ profile.guidance \subseteq x.guidance
    BY <1>3, <1>5, <2>2 DEF IInv, Files, Profile
  <2>4. PICK n : n = [m EXCEPT !.seen = x]
    OBVIOUS
  <2>5. /\ m \in Job /\ m.at = "append" /\ m.cmd = local[p].cmd /\ m.argument = local[p].argument
        /\ m.calm = local[p].calm
    BY <1>1, <2>1, ToStage DEF Active, Registering
  <2>6. /\ n \in Job /\ n.at = "append" /\ n.cmd = local[p].cmd /\ n.argument = local[p].argument
        /\ n.calm = local[p].calm /\ n.seen = x
    BY <2>3, <2>4, <2>5, WithSeen
  <2>7. Fits(n)
    BY <1>1, <1>3, <2>3, <2>6
    DEF Fits, Active, Managing, Selecting, Rendering, Registering, Unbinding
  <2>8. Appending(n)
    BY <1>5, <2>3, <2>6 DEF Appending
  <2>9. Read(p, n)
    BY <1>5, <2>1, <2>2, <2>4
  <2>10. n.at \in Registering
    BY <2>6 DEF Registering
  <2> QED
    BY <1>1, <2>6, <2>7, <2>8, <2>9, <2>10, SoundCases, ReadsStep
<1> QED
  BY <1>2, <1>4, <1>5 DEF ReadRegistered, Registrable

LEMMA AppendGuidanceStep ==
    ASSUME IInv, NEW p \in Procs, AppendGuidance(p)
    PROVE  IInv'
<1>1. /\ local[p].at = "append" /\ local[p].at \in Registering
      /\ profile' = local[p].seen
      /\ UNCHANGED <<agents, skill, legacy, runtime, guideLock, counters>>
  BY DEF AppendGuidance, At, Registering
<1>2. PICK n : n = To(p, "index")
  OBVIOUS
<1>3. /\ n \in Job /\ n.at = "index" /\ n.cmd = local[p].cmd /\ n.argument = local[p].argument
      /\ n.calm = local[p].calm /\ n.seen = local[p].seen
  BY <1>1, <1>2, ToStage DEF Active, Registering
<1>4. /\ local[p].argument \in Guides /\ local[p].cmd = "add" /\ local[p].seen \in Profile
      /\ Fits(local[p])
  BY <1>1, RegisteringHas
<1>5. Fits(n)
  BY <1>3, <1>4 DEF Fits, Active, Managing, Selecting, Rendering, Registering, Unbinding
<1>6. local' = [q \in Procs |-> IF q = p THEN n
                                ELSE IF local[q].at \in Registering /\ local[p].calm THEN local[q]
                                ELSE Seen(local[q], {"profile"})]
  BY <1>2 DEF AppendGuidance, Registered
<1>7. local'[p] = n
  BY <1>6
<1>8. ASSUME NEW q \in Procs \ {p}
      PROVE  /\ local'[q] \in Job \cup {Idle} /\ Fits(local[q])' /\ Sound(local[q])'
             /\ local'[q].at = local[q].at
             /\ local[q].at \in Registering => local'[q].calm = FALSE \/ ~local[q].calm
  <2>1. PICK l : l = local[q]
    OBVIOUS
  <2>2. l \in Job \cup {Idle} /\ Fits(l) /\ Sound(l)
    BY <2>1 DEF IInv, Locals
  <2>3. CASE l.at \in Registering /\ local[p].calm
    <3>1. local'[q] = l
      BY <1>6, <2>1, <2>3
    <3>2. ~l.calm
      BY <1>1, <2>1, <2>3 DEF IInv, Holding
    <3>3. Sound(local[q])'
      BY <2>3, <3>1, <3>2
      DEF Sound, Converging, Appending, Inspected, Finishing, Selecting, Rendering, Registering, Unbinding
    <3>4. Fits(local[q])'
      BY <2>2, <3>1 DEF Fits
    <3> QED
      BY <2>1, <2>2, <3>1, <3>2, <3>3, <3>4
  <2>4. CASE ~(l.at \in Registering /\ local[p].calm)
    <3>1. local'[q] = Seen(local[q], {"profile"})
      BY <1>6, <2>1, <2>4
    <3> QED
      BY <1>1, <3>1, Disturbed
  <2> QED
    BY <2>3, <2>4
<1>9. (Fits(local[p]) /\ Sound(local[p]))'
  <2>1. Fits(local[p])'
    BY <1>5, <1>7 DEF Fits
  <2>2. Sound(local[p])'
    BY <1>3, <1>7 DEF Sound, Converging, Appending, Inspected, Finishing, Selecting, Rendering, Unbinding
  <2> QED
    BY <2>1, <2>2
<1>10. Locals'
  <2>1. \A q \in Procs : local'[q] \in Job \cup {Idle}
    BY <1>3, <1>7, <1>8
  <2>2. local' \in [Procs -> Job \cup {Idle}]
    BY <1>6, <2>1
  <2> QED
    BY <1>8, <1>9, <2>2 DEF Locals
<1>11. Holding'
  <2>1. n.at \in Registering
    BY <1>3 DEF Registering
  <2>2. ASSUME NEW q \in Procs PROVE guideLock' = q => local'[q].at \in Registering
    BY <1>1, <1>7, <1>8, <2>1 DEF IInv, Holding
  <2>3. ASSUME NEW q \in Procs, local'[q].at \in Registering, local'[q].calm PROVE guideLock' = q
    <3>1. CASE q = p
      BY <1>1, <1>3, <1>7, <2>3, <3>1 DEF IInv, Holding
    <3>2. CASE q # p
      <4>1. local[q].at \in Registering /\ (local'[q].calm = FALSE \/ ~local[q].calm)
        BY <1>8, <2>3, <3>2
      <4>2. local'[q] = local[q] \/ local'[q] = Seen(local[q], {"profile"})
        BY <1>6, <3>2
      <4>3. local[q] \in Job
        BY <4>1, JobOf DEF Registering
      <4>4. PICK l : l = local[q]
        OBVIOUS
      <4>5. Seen(l, {"profile"}).calm = FALSE
        BY <4>3, <4>4, SeenJob
      <4> QED
        BY <2>3, <4>1, <4>2, <4>4, <4>5
    <3> QED
      BY <3>1, <3>2
  <2> QED
    BY <1>1, <2>2, <2>3 DEF IInv, Holding
<1>12. Files' /\ Counts'
  BY <1>1, <1>4 DEF IInv, Files, Counts, counters
<1> QED
  BY <1>10, <1>11, <1>12 DEF IInv

LEMMA WriteIndexStep ==
    ASSUME IInv, NEW p \in Procs, WriteIndex(p)
    PROVE  IInv'
<1>1. /\ local[p].at = "index" /\ local[p].at \in Registering
      /\ skill' = [skill EXCEPT !.catalog = local[p].seen.guidance]
      /\ guideLock' = IF guideLock = p THEN None ELSE guideLock
      /\ UNCHANGED <<profile, agents, legacy, runtime, counters>>
  BY DEF WriteIndex, At, Registering
<1>2. PICK entries : entries = IF skill.core = None THEN {"skill"} ELSE {}
  OBVIOUS
<1>3. Wrote(p, Idle, entries)
  BY <1>2 DEF WriteIndex
<1>4. local[p].seen.guidance \in SUBSET Guides
  <2>1. local[p].seen \in Profile
    BY <1>1, RegisteringHas
  <2> QED
    BY <2>1 DEF Profile
<1>5. Files' /\ Counts'
  BY <1>1, <1>4 DEF IInv, Files, Counts, counters
<1>6. local'[p] = Idle
  BY <1>3 DEF Wrote
<1>7. Sound(local[p])'
  BY <1>6, IdleFits DEF Sound, Converging, Appending, Inspected, Finishing, Selecting, Rendering, Unbinding
<1>8. Idle.at \notin Registering
  BY IdleFits DEF Registering
<1>9. guideLock' \in {guideLock, None} /\ guideLock' # p
  <2>1. p # None
    BY NoneAssumption
  <2> QED
    BY <1>1, <2>1
<1> QED
  BY <1>1, <1>3, <1>5, <1>7, <1>8, <1>9, IdleFits, WritesStep

LEMMA AddGuidanceStep ==
    ASSUME IInv, NEW p \in Procs, AddGuidance(p)
    PROVE  IInv'
BY LockStep, ReadRegisteredStep, AppendGuidanceStep, WriteIndexStep DEF AddGuidance

(***************************************************************************)
(* repo unbind.                                                            *)
(***************************************************************************)
LEMMA PresentIs ==
    /\ Present("agents") <=> agents.block # None
    /\ Present("skill") <=> skill # NoSkill
    /\ Present("legacy") <=> legacy # "none"
    /\ Present("control") <=> runtime # NoRuntime
    /\ Present("profile") <=> profile # None
BY DEF Present

LEMMA InspectStep ==
    ASSUME IInv, NEW p \in Procs, Inspect(p)
    PROVE  IInv'
<1>1. local[p].at = "inspect"
  BY DEF Inspect, At
<1>2. CASE Refuse(p)
  BY <1>2, RefuseStep
<1>3. PICK plan : plan = Plan(local[p].argument)
  OBVIOUS
<1>4. CASE Read(p, [To(p, "recheck") EXCEPT !.plan = plan, !.fresh = plan, !.seen = agents])
  <2>1. PICK m : m = To(p, "recheck")
    OBVIOUS
  <2>2. PICK n : n = [m EXCEPT !.plan = plan, !.fresh = plan, !.seen = agents]
    OBVIOUS
  <2>3. /\ m \in Job /\ m.at = "recheck" /\ m.cmd = local[p].cmd /\ m.argument = local[p].argument
        /\ m.calm = local[p].calm
    BY <1>1, <2>1, ToStage DEF Active, Unbinding
  <2>4. plan \in SUBSET Entries /\ agents \in Agents
    BY <1>3 DEF Plan, Entries, IInv, Files
  <2>5. /\ n \in Job /\ n.at = "recheck" /\ n.cmd = local[p].cmd /\ n.argument = local[p].argument
        /\ n.calm = local[p].calm /\ n.plan = plan /\ n.fresh = plan /\ n.seen = agents
    BY <2>2, <2>3, <2>4 DEF Job
  <2>6. Fits(local[p])
    BY <1>1, JobOf
  <2>7. Fits(n) /\ n.argument \in BOOLEAN
    BY <1>1, <2>4, <2>5, <2>6 DEF Fits, Active, Managing, Selecting, Rendering, Registering, Unbinding
  <2>8. /\ agents.block # None => "agents" \in plan
        /\ skill # NoSkill => "skill" \in plan
        /\ legacy = "managed" <=> "legacy" \in plan
        /\ n.argument = FALSE /\ runtime # NoRuntime => "control" \in plan
    BY <1>3, <2>5, PresentIs DEF Plan, LegacyManaged
  <2>9. Inspected(n)
    BY <2>5, <2>8 DEF Inspected
  <2>10. Finishing(n)
    BY <2>5, <2>8 DEF Finishing
  <2>11. Read(p, n)
    BY <1>4, <2>1, <2>2
  <2> QED
    BY <1>1, <2>5, <2>7, <2>9, <2>10, <2>11, SoundCases, ReadsStep DEF Unbinding, Registering
<1> QED
  BY <1>2, <1>3, <1>4 DEF Inspect

\* What an unbind carries.
LEMMA UnbindingHas ==
    ASSUME IInv, NEW p \in Procs, local[p].at \in Unbinding
    PROVE  /\ local[p] \in Job /\ local[p].argument \in BOOLEAN /\ local[p].cmd = "unbind"
           /\ local[p].at \in {"recheck", "agents-"} => local[p].seen \in Agents
           /\ Fits(local[p]) /\ Inspected(local[p]) /\ Finishing(local[p]) /\ guideLock # p
<1>1. /\ local[p] \in Job /\ Fits(local[p]) /\ Inspected(local[p]) /\ Finishing(local[p])
      /\ local[p].at \notin Registering
  BY JobOf DEF Sound, Unbinding, Registering
<1>2. guideLock # p
  BY <1>1, NotHolder
<1> QED
  BY <1>1, <1>2 DEF Fits, Unbinding

\* From one entry to the next.
LEMMA PastEntry ==
    ASSUME IInv, NEW p \in Procs, local[p].at \in Unbinding,
           NEW entry, NEW stage \in {"skill-", "legacy-", "control-", "profile-"},
           NEW n, n = Past(p, entry, stage)
    PROVE  /\ n \in Job /\ n.at = stage /\ n.argument = local[p].argument /\ n.calm = local[p].calm
           /\ n.plan = local[p].plan \ {entry} /\ n.fresh = local[p].fresh \ {entry}
           /\ Fits(n) /\ n.at \notin Registering
<1>1. PICK m : m = To(p, stage)
  OBVIOUS
<1>2. local[p].argument \in BOOLEAN /\ local[p].cmd = "unbind" /\ local[p] \in Job
  BY UnbindingHas
<1>3. /\ m \in Job /\ m.at = stage /\ m.cmd = "unbind" /\ m.argument = local[p].argument
      /\ m.calm = local[p].calm /\ m.plan = local[p].plan /\ m.fresh = local[p].fresh
  BY <1>1, <1>2, ToStage DEF Active, Unbinding
<1>4. n = [m EXCEPT !.plan = m.plan \ {entry}, !.fresh = m.fresh \ {entry}, !.seen = None]
  BY <1>1, <1>3 DEF Past
<1>5. m.plan \ {entry} \in SUBSET Entries /\ m.fresh \ {entry} \in SUBSET Entries
  BY <1>3 DEF Job
<1>6. /\ n \in Job /\ n.at = stage /\ n.cmd = "unbind" /\ n.argument = local[p].argument
      /\ n.calm = local[p].calm /\ n.plan = m.plan \ {entry} /\ n.fresh = m.fresh \ {entry}
  BY <1>3, <1>4, <1>5 DEF Job
<1>7. Fits(n)
  BY <1>2, <1>6 DEF Fits, Active, Managing, Selecting, Rendering, Registering, Unbinding
<1> QED
  BY <1>3, <1>6, <1>7 DEF Registering

LEMMA RecheckStep ==
    ASSUME IInv, NEW p \in Procs, Recheck(p)
    PROVE  IInv'
<1>1. local[p].at = "recheck" /\ local[p].at \in Unbinding
  BY DEF Recheck, At, Unbinding
<1>2. CASE Refuse(p)
  BY <1>2, RefuseStep
<1>3. CASE Read(p, To(p, "agents-"))
  <2>1. PICK n : n = To(p, "agents-")
    OBVIOUS
  <2>2. /\ n \in Job /\ n.at = "agents-" /\ n.cmd = local[p].cmd /\ n.argument = local[p].argument
        /\ n.calm = local[p].calm /\ n.plan = local[p].plan /\ n.fresh = local[p].fresh
        /\ n.seen = local[p].seen
    BY <1>1, <2>1, ToStage DEF Active, Unbinding
  <2>3. /\ local[p].argument \in BOOLEAN /\ local[p].cmd = "unbind" /\ local[p].seen \in Agents
        /\ Inspected(local[p]) /\ Finishing(local[p])
    BY <1>1, UnbindingHas
  <2>4. Fits(n)
    BY <2>2, <2>3 DEF Fits, Active, Managing, Selecting, Rendering, Registering, Unbinding
  <2>5. Inspected(n) /\ Finishing(n)
    BY <1>1, <2>2, <2>3 DEF Inspected, Finishing, Unbinding
  <2> QED
    BY <1>1, <1>3, <2>1, <2>2, <2>4, <2>5, SoundCases, ReadsStep DEF Unbinding, Registering
<1> QED
  BY <1>2, <1>3 DEF Recheck

\* To go on without writing, when what is there is not to be removed.
LEMMA SkipStep ==
    ASSUME IInv, NEW p \in Procs, local[p].at \in Unbinding,
           NEW entry, NEW stage \in {"skill-", "legacy-", "control-", "profile-"},
           Skip(p, entry, stage),
           ~Stale(p, entry) /\ ~Removable(p, entry) =>
               \A n : n = Past(p, entry, stage) => Finishing(n)
    PROVE  IInv'
<1>1. CASE Refuse(p)
  BY <1>1, RefuseStep
<1>2. CASE ~Stale(p, entry) /\ ~Removable(p, entry) /\ Read(p, Past(p, entry, stage))
  <2>1. PICK n : n = Past(p, entry, stage)
    OBVIOUS
  <2>2. /\ n \in Job /\ n.at = stage /\ n.calm = local[p].calm /\ n.plan = local[p].plan \ {entry}
        /\ Fits(n) /\ n.at \notin Registering
    BY <2>1, PastEntry
  <2>3. Finishing(n)
    BY <1>2, <2>1
  <2>4. Inspected(n)
    <3>1. Inspected(local[p])
      BY UnbindingHas
    <3> QED
      BY <2>2, <3>1 DEF Inspected, Unbinding
  <2> QED
    BY <1>2, <2>1, <2>2, <2>3, <2>4, SoundCases, ReadsStep DEF Unbinding, Registering
<1> QED
  BY <1>1, <1>2 DEF Skip

\* Undisturbed, what is passed over was not planned or is not there.
LEMMA SkippedIs ==
    ASSUME IInv, NEW p \in Procs, local[p].at \in Unbinding, local[p].calm,
           NEW entry, ~Stale(p, entry), ~Removable(p, entry)
    PROVE  entry \notin local[p].plan \/ ~Present(entry)
BY UnbindingHas DEF Finishing, Stale, Removable

LEMMA StripAgentsStep ==
    ASSUME IInv, NEW p \in Procs, StripAgents(p)
    PROVE  IInv'
<1>1. local[p].at = "agents-" /\ local[p].at \in Unbinding
  BY DEF StripAgents, At, Unbinding
<1>2. /\ local[p].argument \in BOOLEAN /\ local[p].seen \in Agents
      /\ Inspected(local[p]) /\ Finishing(local[p]) /\ guideLock # p
  BY <1>1, UnbindingHas
<1>3. CASE Skip(p, "agents", "skill-")
  <2>1. ASSUME ~Stale(p, "agents"), ~Removable(p, "agents"), NEW n, n = Past(p, "agents", "skill-")
        PROVE  Finishing(n)
    <3>1. /\ n.at = "skill-" /\ n.argument = local[p].argument /\ n.calm = local[p].calm
          /\ n.plan = local[p].plan \ {"agents"} /\ n.fresh = local[p].fresh \ {"agents"}
      BY <1>1, <2>1, PastEntry
    <3>2. local[p].calm => "agents" \notin local[p].plan \/ agents.block = None
      BY <1>1, <2>1, SkippedIs, PresentIs
    <3> QED
      BY <1>1, <1>2, <3>1, <3>2 DEF Finishing, Unbinding
  <2> QED
    BY <1>1, <1>3, <2>1, SkipStep
<1>4. CASE /\ Removable(p, "agents") /\ agents' = [local[p].seen EXCEPT !.block = None]
           /\ Wrote(p, Past(p, "agents", "skill-"), {"agents"})
           /\ UNCHANGED <<profile, skill, legacy, runtime, guideLock, counters>>
  <2>1. PICK n : n = Past(p, "agents", "skill-")
    OBVIOUS
  <2>2. /\ n \in Job /\ n.at = "skill-" /\ n.argument = local[p].argument /\ n.calm = local[p].calm
        /\ n.plan = local[p].plan \ {"agents"} /\ n.fresh = local[p].fresh \ {"agents"}
        /\ Fits(n) /\ n.at \notin Registering
    BY <1>1, <2>1, PastEntry
  <2>3. local'[p] = n
    BY <1>4, <2>1 DEF Wrote
  <2>4. Files' /\ Counts'
    BY <1>2, <1>4 DEF IInv, Files, Counts, counters, Agents
  <2>5. agents'.block = None
    BY <1>2, <1>4 DEF Agents
  <2>6. Finishing(local[p])'
    BY <1>1, <1>2, <1>4, <2>2, <2>3, <2>5 DEF Finishing, Unbinding
  <2>7. Inspected(local[p])'
    BY <1>1, <1>2, <1>4, <2>2, <2>3 DEF Inspected, Unbinding
  <2>8. Sound(local[p])'
    BY <2>2, <2>3, <2>6, <2>7 DEF Sound, Converging, Appending, Selecting, Rendering
  <2> QED
    BY <1>2, <1>4, <2>1, <2>2, <2>4, <2>8, WritesStep
<1>5. CASE Refuse(p)
  BY <1>5, RefuseStep
<1> QED
  BY <1>3, <1>4, <1>5 DEF StripAgents, Skip, Stale, Removable

LEMMA RemoveSkillStep ==
    ASSUME IInv, NEW p \in Procs, RemoveSkill(p)
    PROVE  IInv'
<1>1. local[p].at = "skill-" /\ local[p].at \in Unbinding
  BY DEF RemoveSkill, At, Unbinding
<1>2. /\ local[p].argument \in BOOLEAN
      /\ Inspected(local[p]) /\ Finishing(local[p]) /\ guideLock # p
  BY <1>1, UnbindingHas
<1>3. CASE Skip(p, "skill", "legacy-")
  <2>1. ASSUME ~Stale(p, "skill"), ~Removable(p, "skill"), NEW n, n = Past(p, "skill", "legacy-")
        PROVE  Finishing(n)
    <3>1. /\ n.at = "legacy-" /\ n.argument = local[p].argument /\ n.calm = local[p].calm
          /\ n.plan = local[p].plan \ {"skill"} /\ n.fresh = local[p].fresh \ {"skill"}
      BY <1>1, <2>1, PastEntry
    <3>2. local[p].calm => "skill" \notin local[p].plan \/ skill = NoSkill
      BY <1>1, <2>1, SkippedIs, PresentIs
    <3> QED
      BY <1>1, <1>2, <3>1, <3>2 DEF Finishing, Unbinding
  <2> QED
    BY <1>1, <1>3, <2>1, SkipStep
<1>4. CASE /\ skill' = NoSkill
           /\ Wrote(p, Past(p, "skill", "legacy-"), {"skill"})
           /\ UNCHANGED <<profile, agents, legacy, runtime, guideLock, counters>>
  <2>1. PICK n : n = Past(p, "skill", "legacy-")
    OBVIOUS
  <2>2. /\ n \in Job /\ n.at = "legacy-" /\ n.argument = local[p].argument /\ n.calm = local[p].calm
        /\ n.plan = local[p].plan \ {"skill"} /\ n.fresh = local[p].fresh \ {"skill"}
        /\ Fits(n) /\ n.at \notin Registering
    BY <1>1, <2>1, PastEntry
  <2>3. local'[p] = n
    BY <1>4, <2>1 DEF Wrote
  <2>4. Files' /\ Counts'
    BY <1>4 DEF IInv, Files, Counts, counters, NoSkill
  <2>5. Finishing(local[p])'
    BY <1>1, <1>2, <1>4, <2>2, <2>3 DEF Finishing, Unbinding
  <2>6. Inspected(local[p])'
    BY <1>1, <1>2, <1>4, <2>2, <2>3 DEF Inspected, Unbinding
  <2>7. Sound(local[p])'
    BY <2>2, <2>3, <2>5, <2>6 DEF Sound, Converging, Appending, Selecting, Rendering
  <2> QED
    BY <1>2, <1>4, <2>1, <2>2, <2>4, <2>7, WritesStep
<1> QED
  BY <1>3, <1>4 DEF RemoveSkill

LEMMA RemoveLegacyStep ==
    ASSUME IInv, NEW p \in Procs, RemoveLegacy(p)
    PROVE  IInv'
<1>1. local[p].at = "legacy-" /\ local[p].at \in Unbinding
  BY DEF RemoveLegacy, At, Unbinding
<1>2. /\ local[p].argument \in BOOLEAN
      /\ Inspected(local[p]) /\ Finishing(local[p]) /\ guideLock # p
  BY <1>1, UnbindingHas
<1>3. CASE Skip(p, "legacy", "control-")
  <2>1. ASSUME ~Stale(p, "legacy"), ~Removable(p, "legacy"), NEW n, n = Past(p, "legacy", "control-")
        PROVE  Finishing(n)
    <3>1. /\ n.at = "control-" /\ n.argument = local[p].argument /\ n.calm = local[p].calm
          /\ n.plan = local[p].plan \ {"legacy"} /\ n.fresh = local[p].fresh \ {"legacy"}
      BY <1>1, <2>1, PastEntry
    <3>2. local[p].calm => "legacy" \notin local[p].plan \/ legacy = "none"
      BY <1>1, <2>1, SkippedIs, PresentIs
    <3> QED
      BY <1>1, <1>2, <3>1, <3>2 DEF Finishing, Unbinding
  <2> QED
    BY <1>1, <1>3, <2>1, SkipStep
<1>4. CASE /\ legacy' = "none"
           /\ Wrote(p, Past(p, "legacy", "control-"), {"legacy"})
           /\ UNCHANGED <<profile, agents, skill, runtime, guideLock, counters>>
  <2>1. PICK n : n = Past(p, "legacy", "control-")
    OBVIOUS
  <2>2. /\ n \in Job /\ n.at = "control-" /\ n.argument = local[p].argument /\ n.calm = local[p].calm
        /\ n.plan = local[p].plan \ {"legacy"} /\ n.fresh = local[p].fresh \ {"legacy"}
        /\ Fits(n) /\ n.at \notin Registering
    BY <1>1, <2>1, PastEntry
  <2>3. local'[p] = n
    BY <1>4, <2>1 DEF Wrote
  <2>4. Files' /\ Counts'
    BY <1>4 DEF IInv, Files, Counts, counters
  <2>5. Finishing(local[p])'
    BY <1>1, <1>2, <1>4, <2>2, <2>3 DEF Finishing, Unbinding
  <2>6. Inspected(local[p])'
    BY <1>4, <2>2, <2>3 DEF Inspected
  <2>7. Sound(local[p])'
    BY <2>2, <2>3, <2>5, <2>6 DEF Sound, Converging, Appending, Selecting, Rendering
  <2> QED
    BY <1>2, <1>4, <2>1, <2>2, <2>4, <2>7, WritesStep
<1> QED
  BY <1>3, <1>4 DEF RemoveLegacy

LEMMA RemoveControlStep ==
    ASSUME IInv, NEW p \in Procs, RemoveControl(p)
    PROVE  IInv'
<1>1. local[p].at = "control-" /\ local[p].at \in Unbinding
  BY DEF RemoveControl, At, Unbinding
<1>2. /\ local[p].argument \in BOOLEAN
      /\ Inspected(local[p]) /\ Finishing(local[p]) /\ guideLock # p
  BY <1>1, UnbindingHas
<1>3. CASE Skip(p, "control", "profile-")
  <2>1. ASSUME ~Stale(p, "control"), ~Removable(p, "control"), NEW n, n = Past(p, "control", "profile-")
        PROVE  Finishing(n)
    <3>1. /\ n.at = "profile-" /\ n.argument = local[p].argument /\ n.calm = local[p].calm
          /\ n.plan = local[p].plan \ {"control"} /\ n.fresh = local[p].fresh \ {"control"}
      BY <1>1, <2>1, PastEntry
    <3>2. local[p].calm => "control" \notin local[p].plan \/ runtime = NoRuntime
      BY <1>1, <2>1, SkippedIs, PresentIs
    <3> QED
      BY <1>1, <1>2, <3>1, <3>2 DEF Finishing, Unbinding
  <2> QED
    BY <1>1, <1>3, <2>1, SkipStep
<1>4. CASE /\ runtime' = NoRuntime /\ guideLock' = None
           /\ Wrote(p, Past(p, "control", "profile-"), {"control"})
           /\ UNCHANGED <<profile, agents, skill, legacy, counters>>
  <2>1. PICK n : n = Past(p, "control", "profile-")
    OBVIOUS
  <2>2. /\ n \in Job /\ n.at = "profile-" /\ n.argument = local[p].argument /\ n.calm = local[p].calm
        /\ n.plan = local[p].plan \ {"control"} /\ n.fresh = local[p].fresh \ {"control"}
        /\ Fits(n) /\ n.at \notin Registering
    BY <1>1, <2>1, PastEntry
  <2>3. local'[p] = n
    BY <1>4, <2>1 DEF Wrote
  <2>4. Files' /\ Counts'
    BY <1>4 DEF IInv, Files, Counts, counters, NoRuntime
  <2>5. Finishing(local[p])'
    BY <1>1, <1>2, <1>4, <2>2, <2>3 DEF Finishing, Unbinding
  <2>6. Inspected(local[p])'
    BY <1>1, <1>2, <1>4, <2>2, <2>3 DEF Inspected, Unbinding
  <2>7. Sound(local[p])'
    BY <2>2, <2>3, <2>5, <2>6 DEF Sound, Converging, Appending, Selecting, Rendering
  <2>8. p # None
    BY NoneAssumption
  <2> QED
    BY <1>4, <2>1, <2>2, <2>4, <2>7, <2>8, WritesStep
<1> QED
  BY <1>3, <1>4 DEF RemoveControl

\* A step that ends the unbind, writing as it goes.
LEMMA EndStep ==
    ASSUME IInv, NEW p \in Procs, local[p].at \in Unbinding, NEW entries, Wrote(p, Idle, entries),
           Files', Counts', UNCHANGED <<agents, legacy>>, guideLock' \in {guideLock, None}
    PROVE  IInv'
<1>1. local'[p] = Idle
  BY DEF Wrote
<1>2. Sound(local[p])'
  BY <1>1, IdleFits DEF Sound, Converging, Appending, Inspected, Finishing, Selecting, Rendering, Unbinding
<1>3. Idle.at \notin Registering
  BY IdleFits DEF Registering
<1>4. guideLock' # p
  BY UnbindingHas, NoneAssumption
<1> QED
  BY <1>2, <1>3, <1>4, IdleFits, WritesStep

LEMMA RemoveProfileStep ==
    ASSUME IInv, NEW p \in Procs, RemoveProfile(p)
    PROVE  IInv'
<1>1. local[p].at \in Unbinding
  BY DEF RemoveProfile, At, Unbinding
<1>2. CASE Refuse(p)
  BY <1>2, RefuseStep
<1>3. CASE /\ profile' = None /\ Wrote(p, Idle, {"profile"})
           /\ UNCHANGED <<agents, skill, legacy, runtime, guideLock, counters>>
  <2>1. Files' /\ Counts'
    BY <1>3 DEF IInv, Files, Counts, counters
  <2> QED
    BY <1>1, <1>3, <2>1, EndStep
<1> QED
  BY <1>2, <1>3 DEF RemoveProfile

LEMMA UnbindStep ==
    ASSUME IInv, NEW p \in Procs, Unbind(p)
    PROVE  IInv'
BY InspectStep, RecheckStep, StripAgentsStep, RemoveSkillStep, RemoveLegacyStep,
   RemoveControlStep, RemoveProfileStep DEF Unbind

LEMMA RemovePartlyStep ==
    ASSUME IInv, NEW p \in Procs, RemovePartly(p)
    PROVE  IInv'
<1>1. Counts'
  BY BoundsAssumption DEF RemovePartly, IInv, Counts
<1>2. CASE /\ At(p, "skill-")
           /\ \E core \in {skill.core, None}, catalog \in {skill.catalog, None}, aux \in {skill.aux, FALSE} :
                 skill' = [core |-> core, catalog |-> catalog, aux |-> aux]
           /\ Wrote(p, Idle, {"skill"})
           /\ UNCHANGED <<runtime, guideLock>>
  <2>1. skill' \in Skill
    <3>1. PICK core \in {skill.core, None}, catalog \in {skill.catalog, None}, aux \in {skill.aux, FALSE} :
              skill' = [core |-> core, catalog |-> catalog, aux |-> aux]
      BY <1>2
    <3>2. skill.core \in Releases \cup {None} /\ skill.catalog \in (SUBSET Guides) \cup {None}
          /\ skill.aux \in BOOLEAN
      BY DEF IInv, Files
    <3>3. core \in Releases \cup {None} /\ catalog \in (SUBSET Guides) \cup {None} /\ aux \in BOOLEAN
      BY <3>2
    <3> QED
      BY <3>1, <3>3 DEF Skill
  <2>2. Files' /\ UNCHANGED <<agents, legacy>>
    BY <1>2, <2>1 DEF RemovePartly, IInv, Files, Skill
  <2> QED
    BY <1>1, <1>2, <2>2, EndStep DEF At, Unbinding
<1>3. CASE /\ At(p, "control-")
           /\ \E archives \in SUBSET runtime.archives, selected \in {runtime.selected, None} :
                 runtime' = [archives |-> archives, selected |-> selected]
           /\ guideLock' \in {guideLock, None}
           /\ Wrote(p, Idle, {"control"})
           /\ UNCHANGED skill
  <2>1. Files' /\ UNCHANGED <<agents, legacy>>
    BY <1>3 DEF RemovePartly, IInv, Files
  <2> QED
    BY <1>1, <1>3, <2>1, EndStep DEF At, Unbinding
<1> QED
  BY <1>2, <1>3 DEF RemovePartly

(***************************************************************************)
(* Everyone else, and the theorem.                                         *)
(***************************************************************************)
LEMMA FailStep ==
    ASSUME IInv, NEW p \in Procs, Fail(p)
    PROVE  IInv'
<1>1. Counts'
  BY BoundsAssumption DEF Fail, IInv, Counts
<1> QED
  BY <1>1, LeaveStep DEF Fail

LEMMA UserStep ==
    ASSUME IInv, NEW entry, User(entry), agents' = agents \/ entry = "agents", Files'
    PROVE  IInv'
<1>1. local' = [q \in Procs |-> Seen(local[q], {entry})] /\ UNCHANGED <<legacy, guideLock>>
  BY DEF User
<1>2. ASSUME NEW q \in Procs
      PROVE  /\ Fits(local[q])' /\ Sound(local[q])'
             /\ local'[q] \in Job \cup {Idle} /\ local'[q].at = local[q].at
             /\ local[q].at \in Registering => local'[q].calm = FALSE
  <2>1. local'[q] = Seen(local[q], {entry})
    BY <1>1
  <2>2. agents' = agents \/ "agents" \in {entry}
    OBVIOUS
  <2> QED
    BY <1>1, <2>1, <2>2, Disturbed
<1>3. local' \in [Procs -> Job \cup {Idle}]
  BY <1>1, <1>2
<1>4. Locals'
  BY <1>2, <1>3 DEF Locals
<1>5. Holding'
  BY <1>1, <1>2 DEF IInv, Holding
<1>6. Counts'
  BY BoundsAssumption DEF User, IInv, Counts
<1> QED
  BY <1>4, <1>5, <1>6 DEF IInv

LEMMA UsersStep ==
    ASSUME IInv, EditAgents \/ DropFile
    PROVE  IInv'
<1>1. CASE EditAgents
  <2>1. edits + 1 \in 0..MaxEdits
    BY <1>1, BoundsAssumption DEF EditAgents, User, IInv, Counts
  <2>2. Files'
    BY <1>1, <2>1 DEF EditAgents, User, IInv, Files, Agents
  <2> QED
    BY <1>1, <2>2, UserStep DEF EditAgents
<1>2. CASE DropFile
  <2>1. Files'
    BY <1>2 DEF DropFile, User, IInv, Files
  <2> QED
    BY <1>2, <2>1, UserStep DEF DropFile
<1> QED
  BY <1>1, <1>2

LEMMA QuietStep ==
    ASSUME IInv, UNCHANGED vars
    PROVE  IInv'
<1> USE DEF vars, files, counters
<1>1. Files' /\ Counts' /\ Holding'
  BY DEF IInv, Files, Counts, Holding
<1>2. ASSUME NEW p \in Procs PROVE Fits(local[p])' /\ Sound(local[p])'
  <2>1. Fits(local[p]) /\ Sound(local[p])
    BY DEF IInv, Locals
  <2>2. Fits(local[p])'
    BY <2>1 DEF Fits
  <2>3. Converging(local[p])'
    BY <2>1 DEF Sound, Converging
  <2>4. Appending(local[p])' /\ Inspected(local[p])'
    BY <2>1 DEF Sound, Appending, Inspected
  <2>5. Finishing(local[p])'
    BY <2>1 DEF Sound, Finishing
  <2> QED
    BY <2>2, <2>3, <2>4, <2>5 DEF Sound
<1>3. Locals'
  BY <1>2 DEF IInv, Locals
<1> QED
  BY <1>1, <1>3 DEF IInv

LEMMA IInvStep ==
    ASSUME IInv, [Next]_vars
    PROVE  IInv'
<1>1. ASSUME NEW p \in Procs,
             \/ \E command \in Commands : Call(p, command)
             \/ Install(p) \/ SetStatus(p) \/ Handlers(p) \/ Instructions(p)
             \/ AddGuidance(p) \/ Unbind(p) \/ RemovePartly(p) \/ Fail(p)
      PROVE  IInv'
  BY <1>1, CallStep, InstallStep, SetStatusStep, HandlersStep, InstructionsStep, AddGuidanceStep,
     UnbindStep, RemovePartlyStep, FailStep
<1> QED
  BY <1>1, UsersStep, QuietStep DEF Next

\* IInv holds in every reachable state.
LEMMA InvariantHolds == Spec => []IInv
<1>1. Init => IInv
  <2> SUFFICES ASSUME Init PROVE IInv
    OBVIOUS
  <2>1. Files /\ Counts
    <3>1. 0 \in 0..MaxEdits
      BY BoundsAssumption
    <3>2. profile \in Profile \cup {None}
      BY DEF Init, Profile, Default, Statuses
    <3>3. agents \in Agents
      BY <3>1 DEF Init, Agents
    <3>4. /\ skill \in [core : Releases \cup {None}, catalog : (SUBSET Guides) \cup {None}, aux : BOOLEAN]
          /\ legacy \in {"none", "managed", "own"}
      BY LegaciesAssumption DEF Init, NoSkill
    <3>5. runtime \in [archives : SUBSET Releases, selected : Releases \cup {None}]
      BY DEF Init, NoRuntime
    <3> QED
      BY <3>2, <3>3, <3>4, <3>5, BoundsAssumption DEF Init, Files, Counts
  <2>2. Locals /\ Holding
    <3>1. \A p \in Procs : local[p] = Idle
      BY DEF Init
    <3>2. \A p \in Procs : p # None
      BY NoneAssumption
    <3> QED
      BY <3>1, <3>2, IdleFits DEF Init, Locals, Holding, Registering
  <2> QED
    BY <2>1, <2>2 DEF IInv
<1>2. IInv /\ [Next]_vars => IInv'
  BY IInvStep
<1> QED
  BY <1>1, <1>2, PTL DEF Spec

\* The files and the lock are well typed in every reachable state.
THEOREM TypeCorrect == Spec => []TypeOK
<1>1. IInv => TypeOK
  BY DEF IInv, Files, Counts, Holding, TypeOK, Profile, Agents
<1> QED
  BY <1>1, InvariantHolds, PTL

\* A refresh or update that nobody disturbed ends with everything rendered by
\* one release from the profile as it is (refresh_repo, update_repo).
THEOREM RefreshAlwaysConverges == Spec => []RefreshConverges
<1>1. IInv => RefreshConverges
  <2> SUFFICES ASSUME IInv, NEW p \in Procs,
                      At(p, "done"), local[p].calm, local[p].cmd \in {"refresh", "update"}
               PROVE  /\ agents.block = local[p].release
                      /\ skill = [core |-> local[p].release, catalog |-> profile.guidance, aux |-> FALSE]
                      /\ legacy = "none"
                      /\ local[p].cmd = "update" => runtime.selected = local[p].release /\ Resolves
    BY DEF RefreshConverges
  <2>1. local[p].at = "done" /\ local[p].at \in Rendering
    BY DEF At, Rendering
  <2>2. Converging(local[p])
    BY <2>1, RenderingHas
  <2>3. /\ agents.block = local[p].release /\ skill.core = local[p].release
        /\ skill.catalog = profile.guidance /\ skill.aux = FALSE /\ legacy = "none"
        /\ local[p].cmd = "update" =>
               runtime.selected = local[p].release /\ local[p].release \in runtime.archives
    BY <2>1, <2>2 DEF Converging
  <2>4. skill = [core |-> skill.core, catalog |-> skill.catalog, aux |-> skill.aux]
    BY DEF IInv, Files
  <2> QED
    BY <2>3, <2>4 DEF Resolves
<1> QED
  BY <1>1, InvariantHolds, PTL

\* An unbind that nobody disturbed removes the profile last, also one that
\* finishes another (unbind_repo).
THEOREM UnbindAlwaysFinishes == Spec => UnbindFinishes
<1>1. IInv /\ [Next]_vars =>
          [\A p \in Procs :
               Steps(p, {"profile-"}) /\ profile' = None /\ local[p].calm =>
                   /\ agents.block = None /\ skill = NoSkill /\ legacy # "managed"
                   /\ ~local[p].argument => runtime = NoRuntime]_vars
  <2> SUFFICES ASSUME IInv, NEW p \in Procs, Steps(p, {"profile-"}), local[p].calm
               PROVE  /\ agents.block = None /\ skill = NoSkill /\ legacy # "managed"
                      /\ ~local[p].argument => runtime = NoRuntime
    OBVIOUS
  <2>1. local[p].at = "profile-" /\ local[p].at \in Unbinding
    BY DEF Steps, Unbinding
  <2>2. Finishing(local[p]) /\ local[p].argument \in BOOLEAN
    BY <2>1, UnbindingHas
  <2> QED
    BY <2>1, <2>2 DEF Finishing, Unbinding
<1> QED
  BY <1>1, InvariantHolds, PTL DEF Spec, UnbindFinishes

(***************************************************************************)
(* A process moves by its own steps.                                       *)
(***************************************************************************)
LEMMA SeenStage ==
    ASSUME IInv, NEW q \in Procs, NEW entries
    PROVE  Seen(local[q], entries).at = local[q].at
<1>1. PICK l : l = local[q]
  OBVIOUS
<1>2. CASE l = Idle
  BY <1>1, <1>2 DEF Seen
<1>3. CASE l \in Job
  BY <1>1, <1>3, SeenJob
<1> QED
  BY <1>1, <1>2, <1>3 DEF IInv, Locals

LEMMA GoesAlone ==
    ASSUME IInv, NEW p \in Procs, NEW q \in Procs \ {p}, NEW next, Go(q, next)
    PROVE  local'[p].at = local[p].at
BY DEF Go, IInv, Locals

LEMMA WritesAlone ==
    ASSUME IInv, NEW p \in Procs, NEW q \in Procs \ {p}, NEW next, NEW entries, Wrote(q, next, entries)
    PROVE  local'[p].at = local[p].at
BY SeenStage DEF Wrote

LEMMA ReadsAlone ==
    ASSUME IInv, NEW p \in Procs, NEW q \in Procs \ {p}, NEW next, Read(q, next) \/ Leave(q) \/ Refuse(q)
    PROVE  local'[p].at = local[p].at
BY GoesAlone DEF Read, Leave, Refuse

LEMMA StepsAlone ==
    ASSUME IInv, NEW p \in Procs, NEW q \in Procs \ {p},
           \/ \E command \in Commands : Call(q, command)
           \/ Install(q) \/ SetStatus(q) \/ Handlers(q) \/ Instructions(q)
           \/ AddGuidance(q) \/ Unbind(q) \/ RemovePartly(q) \/ Fail(q)
    PROVE  local'[p].at = local[p].at
<1> USE GoesAlone, WritesAlone, ReadsAlone
<1>1. CASE \E command \in Commands : Call(q, command)
  BY <1>1 DEF Call
<1>2. CASE Install(q)
  BY <1>2 DEF Install, CheckProfile, WriteDefault, ReadHandlers
<1>3. CASE SetStatus(q)
  BY <1>3 DEF SetStatus, ReadStatus, Rewrite
<1>4. CASE Handlers(q)
  BY <1>4 DEF Handlers, Load, Publish, Select, Spawn
<1>5. CASE Instructions(q)
  BY <1>5 DEF Instructions, ReadAgents, WriteBlock, WriteCore, WriteCatalog, WriteSkill, PruneAuxiliary,
              PruneObsolete, Answer
<1>6. CASE AddGuidance(q)
  <2>1. CASE AppendGuidance(q)
    BY <2>1, SeenStage DEF AppendGuidance, Registered
  <2> QED
    BY <1>6, <2>1 DEF AddGuidance, Lock, ReadRegistered, WriteIndex
<1>7. CASE Unbind(q)
  BY <1>7 DEF Unbind, Inspect, Recheck, Skip, StripAgents, RemoveSkill, RemoveLegacy, RemoveControl,
              RemoveProfile
<1>8. CASE RemovePartly(q)
  BY <1>8 DEF RemovePartly
<1>9. CASE Fail(q)
  BY <1>9 DEF Fail
<1> QED
  BY <1>1, <1>2, <1>3, <1>4, <1>5, <1>6, <1>7, <1>8, <1>9

LEMMA OwnStep ==
    ASSUME IInv, [Next]_vars, NEW p \in Procs, local[p].at \in Unbinding \cup {"append"},
           local'[p].at # local[p].at
    PROVE  AppendGuidance(p) \/ Unbind(p) \/ RemovePartly(p) \/ Fail(p)
<1>1. ~UNCHANGED vars
  BY DEF vars
<1>2. ~(EditAgents \/ DropFile)
  BY SeenStage DEF EditAgents, DropFile, User
<1>3. \/ \E command \in Commands : Call(p, command)
      \/ Install(p) \/ SetStatus(p) \/ Handlers(p) \/ Instructions(p)
      \/ AddGuidance(p) \/ Unbind(p) \/ RemovePartly(p) \/ Fail(p)
  BY <1>1, <1>2, StepsAlone DEF Next
<1>4. ~\E command \in Commands : Call(p, command)
  BY IdleFits DEF Call, Unbinding
<1>5. ~(Install(p) \/ SetStatus(p))
  BY DEF Install, CheckProfile, WriteDefault, ReadHandlers, SetStatus, ReadStatus, Rewrite, At, Unbinding
<1>6. ~(Handlers(p) \/ Instructions(p))
  BY DEF Handlers, Load, Publish, Select, Spawn, Instructions, ReadAgents, WriteBlock, WriteCore,
         WriteCatalog, PruneAuxiliary, PruneObsolete, Answer, At, Unbinding
<1>7. AddGuidance(p) => AppendGuidance(p)
  BY DEF AddGuidance, Lock, ReadRegistered, WriteIndex, At, Unbinding
<1> QED
  BY <1>3, <1>4, <1>5, <1>6, <1>7

\* No step of an unbind changes the user's text or removes the user's own skill
\* directory, whoever edits meanwhile (_strip_unbind_agents).
THEOREM UnbindAlwaysKeepsWork == Spec => UnbindKeepsWork
<1>1. IInv /\ [Next]_vars =>
          [\A p \in Procs :
               Steps(p, Unbinding) =>
                   agents'.text = agents.text /\ (legacy = "own" => legacy' = "own")]_vars
  <2> SUFFICES ASSUME IInv, [Next]_vars, NEW p \in Procs, Steps(p, Unbinding)
               PROVE  agents'.text = agents.text /\ (legacy = "own" => legacy' = "own")
    OBVIOUS
  <2>1. local[p].at \in Unbinding /\ local'[p].at # local[p].at
    BY DEF Steps
  <2>2. Inspected(local[p]) /\ (local[p].at \in {"recheck", "agents-"} => local[p].seen \in Agents)
    BY <2>1, UnbindingHas
  <2>3. AppendGuidance(p) \/ Unbind(p) \/ RemovePartly(p) \/ Fail(p)
    BY <2>1, OwnStep
  <2>4. CASE UNCHANGED <<agents, legacy>>
    BY <2>4
  <2>5. CASE StripAgents(p)
    <3>1. local[p].at = "agents-"
      BY <2>5 DEF StripAgents, At
    <3>2. CASE Skip(p, "agents", "skill-")
      BY <3>2, <2>4 DEF Skip, Refuse, Read, files
    <3>3. CASE /\ Removable(p, "agents") /\ agents' = [local[p].seen EXCEPT !.block = None]
               /\ UNCHANGED legacy
      <4>1. local[p].seen = agents
        BY <2>2, <3>1, <3>3 DEF Inspected, Removable
      <4> QED
        BY <3>3, <4>1 DEF IInv, Files, Agents
    <3>4. CASE Refuse(p)
      BY <3>4, <2>4 DEF Refuse
    <3> QED
      BY <2>5, <3>2, <3>3, <3>4 DEF StripAgents, Skip, Stale, Removable
  <2>6. CASE RemoveLegacy(p)
    <3>1. CASE Skip(p, "legacy", "control-")
      BY <3>1, <2>4 DEF Skip, Refuse, Read, files
    <3>2. CASE Removable(p, "legacy") /\ UNCHANGED agents
      BY <2>1, <2>2, <3>2 DEF Inspected, Removable
    <3> QED
      BY <2>6, <3>1, <3>2 DEF RemoveLegacy
  <2>7. Unbind(p) => StripAgents(p) \/ RemoveLegacy(p) \/ UNCHANGED <<agents, legacy>>
    BY DEF Unbind, Inspect, Recheck, Skip, RemoveSkill, RemoveControl, RemoveProfile, Refuse, Read, files
  <2>8. AppendGuidance(p) \/ RemovePartly(p) \/ Fail(p) => UNCHANGED <<agents, legacy>>
    BY DEF AppendGuidance, RemovePartly, Fail
  <2> QED
    BY <2>3, <2>4, <2>5, <2>6, <2>7, <2>8
<1> QED
  BY <1>1, InvariantHolds, PTL DEF Spec, UnbindKeepsWork

\* A guidance add that only other adds run beside drops no registration
\* (add_guidance, under its lock).
THEOREM RegistrationsAlwaysKept == Spec => RegistrationsKept
<1>1. IInv /\ [Next]_vars =>
          [\A p \in Procs :
               Steps(p, {"append"}) /\ local[p].calm =>
                   profile # None /\ profile.guidance \subseteq profile'.guidance]_vars
  <2> SUFFICES ASSUME IInv, [Next]_vars, NEW p \in Procs, Steps(p, {"append"}), local[p].calm
               PROVE  profile # None /\ profile.guidance \subseteq profile'.guidance
    OBVIOUS
  <2>1. local[p].at = "append" /\ local'[p].at # local[p].at
    BY DEF Steps
  <2>2. Appending(local[p])
    BY <2>1, RegisteringHas DEF Registering
  <2>3. AppendGuidance(p) \/ Unbind(p) \/ RemovePartly(p) \/ Fail(p)
    BY <2>1, OwnStep
  <2>4. AppendGuidance(p) \/ Fail(p)
    BY <2>1, <2>3 DEF Unbind, Inspect, Recheck, StripAgents, RemoveSkill, RemoveLegacy, RemoveControl,
                      RemoveProfile, RemovePartly, At
  <2> QED
    BY <2>1, <2>2, <2>4 DEF AppendGuidance, Fail, Appending
<1> QED
  BY <1>1, InvariantHolds, PTL DEF Spec, RegistrationsKept
=============================================================================
