---------------------------- MODULE RepoMembership ----------------------------
(***************************************************************************)
(* The files Blackdog manages in a repository and the commands that write  *)
(* them: repo install (bind), update, refresh, archive, unarchive, unbind  *)
(* and guidance add.  No command but guidance add takes a lock; each is a  *)
(* sequence of reads and writes, and may die after any of them.            *)
(*                                                                         *)
(* A release stands for every text that only the runtime release decides:  *)
(* the managed block, SKILL.md and its guides.  The catalog is the set of  *)
(* registrations it was rendered from.  An entry is fresh for an unbind    *)
(* as long as its stat (inode, mode, mtime, size) is the inspected one.    *)
(***************************************************************************)
EXTENDS Integers

CONSTANTS
    Procs,
    Releases,       \* release archives an executable may carry
    Guides,         \* names guidance add may register
    None,
    Legacies,       \* what .codex/skills/blackdog may be at first
    MaxCalls, MaxEdits, MaxFailures     \* bounds

ASSUME NoneAssumption == None \notin Procs \cup Releases \cup Guides
ASSUME LegaciesAssumption == Legacies \subseteq {"none", "managed", "own"}
ASSUME BoundsAssumption == MaxCalls \in Nat /\ MaxEdits \in Nat /\ MaxFailures \in Nat

VARIABLES
    profile,    \* blackdog.toml, or None
    agents,     \* AGENTS.md: the user's text and the release of the managed block
    skill,      \* the managed skill directory: core files, catalog, left-over file
    legacy,     \* .codex/skills/blackdog: "none", "managed", or the user's "own"
    runtime,    \* the control root: published archives and the selected one
    guideLock,  \* the holder of locks/guidance-registration, or None
    local,      \* what each process is doing
    calls, edits, failures

files == <<profile, agents, skill, legacy, runtime, guideLock>>
counters == <<calls, edits, failures>>
vars == <<files, local, counters>>

Statuses == {"active", "archived"}
Default == [status |-> "active", guidance |-> {}, pinned |-> TRUE]
NoSkill == [core |-> None, catalog |-> None, aux |-> FALSE]
NoRuntime == [archives |-> {}, selected |-> None]
Idle == [at |-> "idle"]

Init ==
    /\ profile \in {None, [Default EXCEPT !.pinned = FALSE]}
    /\ agents = [text |-> 0, block |-> None]
    /\ skill = NoSkill
    /\ legacy \in Legacies
    /\ runtime = NoRuntime
    /\ guideLock = None
    /\ local = [p \in Procs |-> Idle]
    /\ calls = 0 /\ edits = 0 /\ failures = 0

(***************************************************************************)
(* Steps of a process.  A write of one process is seen by every other:     *)
(* the entry is no longer fresh, and the other is no longer undisturbed.   *)
(***************************************************************************)
Unbinding == {"recheck", "agents-", "skill-", "legacy-", "control-", "profile-"}

At(p, stage) == local[p].at = stage

Seen(l, entries) ==
    IF l = Idle THEN l
    ELSE [l EXCEPT !.calm = FALSE, !.fresh = @ \ entries]

Go(p, next) == local' = [local EXCEPT ![p] = next]

Wrote(p, next, entries) ==
    local' = [q \in Procs |-> IF q = p THEN next ELSE Seen(local[q], entries)]

To(p, stage) == [local[p] EXCEPT !.at = stage]

\* Mutant: a refusal keeps the registration lock.
Leave_locked(p) == Go(p, Idle) /\ UNCHANGED guideLock

\* The end of a command, by an answer, an exception or a death.
Leave(p) ==
    /\ Go(p, Idle)
    /\ guideLock' = IF guideLock = p THEN None ELSE guideLock

Refuse(p) ==
    /\ Leave(p)
    /\ UNCHANGED <<profile, agents, skill, legacy, runtime, counters>>

Read(p, next) == Go(p, next) /\ UNCHANGED <<files, counters>>

Command(cmd, stage, release, argument) ==
    [cmd |-> cmd, at |-> stage, release |-> release, argument |-> argument,
     seen |-> None, plan |-> {}, fresh |-> {}, calm |-> cmd \in {"refresh", "update", "unbind"}]

Commands ==
    {Command("install", "check", r, None) : r \in Releases} \cup
    {Command(c, "load", r, None) : c \in {"refresh", "update"}, r \in Releases} \cup
    {Command("status", "read", None, s) : s \in Statuses} \cup
    {Command("add", "wait", None, g) : g \in Guides} \cup
    {Command("unbind", "inspect", None, keep) : keep \in BOOLEAN}

Call(p, command) ==
    /\ local[p] = Idle /\ calls < MaxCalls
    /\ calls' = calls + 1
    /\ Go(p, command)
    /\ UNCHANGED <<files, edits, failures>>

(***************************************************************************)
(* repo install: the profile, when there is none, and its handlers.        *)
(***************************************************************************)
CheckProfile(p) ==
    /\ At(p, "check")
    /\ Read(p, To(p, IF profile = None THEN "default" ELSE "pin"))

WriteDefault(p) ==
    /\ At(p, "default")
    /\ \/ profile # None /\ Refuse(p)
       \/ /\ profile = None
          /\ profile' = Default
          /\ Wrote(p, To(p, "pin"), {"profile"})
          /\ UNCHANGED <<agents, skill, legacy, runtime, guideLock, counters>>

ReadHandlers(p) ==
    /\ At(p, "pin")
    /\ \/ profile = None /\ Refuse(p)
       \/ profile # None /\ profile.pinned /\ Read(p, To(p, "load"))
       \/ profile # None /\ ~profile.pinned
          /\ Read(p, [To(p, "rewrite") EXCEPT !.seen = [profile EXCEPT !.pinned = TRUE]])

(***************************************************************************)
(* repo archive and unarchive.  The text read is the text written, edited; *)
(* Rewrite writes it in place, whatever is there by then.                  *)
(***************************************************************************)
ReadStatus(p) ==
    /\ At(p, "read")
    /\ LET status == local[p].argument IN
       \/ ~(profile # None /\ profile.status # status) /\ Refuse(p)
       \/ profile # None /\ profile.status # status
          /\ Read(p, [To(p, "rewrite") EXCEPT !.seen = [profile EXCEPT !.status = status]])

Rewrite(p) ==
    /\ At(p, "rewrite")
    /\ profile' = local[p].seen
    /\ Wrote(p, IF local[p].cmd = "install" THEN To(p, "load") ELSE Idle, {"profile"})
    /\ UNCHANGED <<agents, skill, legacy, runtime, guideLock, counters>>

(***************************************************************************)
(* Handlers: the runtime archive, then the launcher that selects it.       *)
(***************************************************************************)
Resolves == runtime.selected # None => runtime.selected \in runtime.archives

Load(p) ==
    /\ At(p, "load")
    /\ \/ ~(profile # None /\ Resolves) /\ Refuse(p)
       \/ profile # None /\ Resolves
          /\ Read(p, [To(p, IF local[p].cmd = "refresh" THEN "agents" ELSE "publish")
                        EXCEPT !.seen = profile])

\* install keeps the selected runtime, update replaces it.
Publish(p) ==
    /\ At(p, "publish")
    /\ \/ ~Resolves /\ Refuse(p)
       \/ /\ Resolves /\ runtime.selected # None /\ local[p].cmd = "install"
          /\ Read(p, To(p, "agents"))
       \/ /\ Resolves /\ ~(runtime.selected # None /\ local[p].cmd = "install")
          /\ runtime' = [runtime EXCEPT !.archives = @ \cup {local[p].release}]
          /\ Wrote(p, To(p, "select"), IF runtime.archives = {} THEN {"control"} ELSE {})
          /\ UNCHANGED <<profile, agents, skill, legacy, guideLock, counters>>

Select(p) ==
    /\ At(p, "select")
    /\ runtime' = [runtime EXCEPT !.selected = local[p].release]
    /\ Wrote(p, To(p, IF local[p].cmd = "update" THEN "spawn" ELSE "agents"),
             IF runtime.selected = None THEN {"control"} ELSE {})
    /\ UNCHANGED <<profile, agents, skill, legacy, guideLock, counters>>

\* update hands the refresh to the selected release, which loads the profile again.
Spawn(p) ==
    /\ At(p, "spawn")
    /\ LET ready == profile # None /\ runtime.selected \in runtime.archives IN
       \/ ~ready /\ Refuse(p)
       \/ ready /\ Read(p, [To(p, "agents") EXCEPT !.seen = profile,
                                                   !.release = runtime.selected])

(***************************************************************************)
(* Managed instructions.  install writes what is missing, refresh all.     *)
(***************************************************************************)
\* Mutant: refresh, too, writes only what is missing.
Overwrite_never(p) == FALSE

Overwrite(p) == local[p].cmd # "install"

ReadAgents(p) ==
    /\ At(p, "agents")
    /\ Read(p, [To(p, "block") EXCEPT !.argument = agents])

\* _render_repo_agents_file: the managed block between its markers, the rest of
\* the file as it was read.
Rendered(text, release) == [text EXCEPT !.block = release]

\* _write_repo_agents, over whatever the file has become since it was read.
WriteBlock(p) ==
    /\ At(p, "block")
    /\ LET read == local[p].argument
           rendered == Rendered(read, local[p].release)
           next == [To(p, "core") EXCEPT !.argument = None] IN
       \/ rendered = read /\ Read(p, next)
       \/ /\ rendered # read
          /\ agents' = rendered
          /\ Wrote(p, next, {"agents"})
          /\ UNCHANGED <<profile, skill, legacy, runtime, guideLock, counters>>

WriteSkill(p, new, next, entries) ==
    \/ new = skill /\ Read(p, To(p, next))
    \/ /\ new # skill
       /\ skill' = new
       /\ Wrote(p, To(p, next), entries)
       /\ UNCHANGED <<profile, agents, legacy, runtime, guideLock, counters>>

WriteCore(p) ==
    /\ At(p, "core")
    /\ WriteSkill(p,
           IF skill.core # None /\ ~Overwrite(p) THEN skill
           ELSE [skill EXCEPT !.core = local[p].release],
           "catalog", IF skill.core = None THEN {"skill"} ELSE {})

WriteCatalog(p) ==
    /\ At(p, "catalog")
    /\ WriteSkill(p,
           IF skill.catalog # None /\ ~Overwrite(p) THEN skill
           ELSE [skill EXCEPT !.catalog = local[p].seen.guidance],
           IF Overwrite(p) THEN "prune" ELSE "done", {})

PruneAuxiliary(p) ==
    /\ At(p, "prune")
    /\ WriteSkill(p, [skill EXCEPT !.aux = FALSE], "obsolete", {"skill"})

\* Obsolete directories are known by their name.
PruneObsolete(p) ==
    /\ At(p, "obsolete")
    /\ \/ legacy = "none" /\ Read(p, To(p, "done"))
       \/ /\ legacy # "none"
          /\ legacy' = "none"
          /\ Wrote(p, To(p, "done"), {"legacy"})
          /\ UNCHANGED <<profile, agents, skill, runtime, guideLock, counters>>

Answer(p) == At(p, "done") /\ Refuse(p)

(***************************************************************************)
(* guidance add: profile and catalog, under the registration lock.         *)
(***************************************************************************)
Registering == {"register", "append", "index"}

\* Mutant: one lock for each name that is registered.
Lock_by_name(p) ==
    /\ At(p, "wait")
    /\ \A q \in Procs \ {p} : ~(guideLock = q /\ local[q].argument = local[p].argument)
    /\ guideLock' = p
    /\ Go(p, [To(p, "register") EXCEPT !.calm = TRUE])
    /\ UNCHANGED <<profile, agents, skill, legacy, runtime, counters>>

Lock(p) ==
    /\ At(p, "wait")
    /\ guideLock = None
    /\ guideLock' = p
    /\ Go(p, [To(p, "register") EXCEPT !.calm = TRUE])
    /\ UNCHANGED <<profile, agents, skill, legacy, runtime, counters>>

\* The catalog takes the name: no guide and no registration has it.
Registrable(name) == profile # None /\ name \notin profile.guidance

ReadRegistered(p) ==
    /\ At(p, "register")
    /\ LET name == local[p].argument IN
       \/ ~Registrable(name) /\ Refuse(p)
       \/ Registrable(name)
          /\ Read(p, [To(p, "append") EXCEPT !.seen = [profile EXCEPT !.guidance = @ \cup {name}]])

\* To keep adds apart is the lock's work: an add that nobody disturbed is not
\* counted as disturbing another.
Registered(p, next) ==
    local' = [q \in Procs |-> IF q = p THEN next
                             ELSE IF local[q].at \in Registering /\ local[p].calm THEN local[q]
                             ELSE Seen(local[q], {"profile"})]

AppendGuidance(p) ==
    /\ At(p, "append")
    /\ profile' = local[p].seen
    /\ Registered(p, To(p, "index"))
    /\ UNCHANGED <<agents, skill, legacy, runtime, guideLock, counters>>

WriteIndex(p) ==
    /\ At(p, "index")
    /\ skill' = [skill EXCEPT !.catalog = local[p].seen.guidance]
    /\ Wrote(p, Idle, IF skill.core = None THEN {"skill"} ELSE {})
    /\ guideLock' = IF guideLock = p THEN None ELSE guideLock
    /\ UNCHANGED <<profile, agents, legacy, runtime, counters>>

(***************************************************************************)
(* repo unbind --confirm: inspect, recheck everything, then the block, the *)
(* skills, the control root unless it is kept, and the profile last.       *)
(***************************************************************************)
Present(entry) ==
    CASE entry = "agents" -> agents.block # None
      [] entry = "skill" -> skill # NoSkill
      [] entry = "legacy" -> legacy # "none"
      [] entry = "control" -> runtime # NoRuntime
      [] entry = "profile" -> profile # None

\* Signs of a skill that Blackdog wrote: its manifest or the text of SKILL.md.
LegacyManaged == legacy = "managed"

Plan(keep) ==
    {e \in {"agents", "skill", "legacy", "control", "profile"} :
        /\ Present(e)
        /\ e = "legacy" => LegacyManaged
        /\ e = "control" => ~keep}

Inspect(p) ==
    /\ At(p, "inspect")
    /\ \/ profile = None /\ Refuse(p)
       \/ /\ profile # None
          /\ LET plan == Plan(local[p].argument) IN
             Read(p, [To(p, "recheck") EXCEPT !.plan = plan, !.fresh = plan, !.seen = agents])

\* Mutant: the profile is removed before everything else.
Recheck_profile_first(p) ==
    /\ At(p, "recheck")
    /\ \/ local[p].plan \subseteq local[p].fresh /\ Read(p, To(p, "profile-"))
       \/ ~(local[p].plan \subseteq local[p].fresh) /\ Refuse(p)

Recheck(p) ==
    /\ At(p, "recheck")
    /\ \/ local[p].plan \subseteq local[p].fresh /\ Read(p, To(p, "agents-"))
       \/ ~(local[p].plan \subseteq local[p].fresh) /\ Refuse(p)

\* May the entry be changed: planned, there, and still the one inspected?
Removable(p, entry) == entry \in local[p].plan /\ Present(entry) /\ entry \in local[p].fresh

Stale(p, entry) == entry \in local[p].plan /\ Present(entry) /\ entry \notin local[p].fresh

\* The next entry in turn; nothing looks back at this one.
Past(p, entry, next) ==
    [To(p, next) EXCEPT !.plan = @ \ {entry}, !.fresh = @ \ {entry}, !.seen = None]

Skip(p, entry, next) ==
    \/ Stale(p, entry) /\ Refuse(p)
    \/ ~Stale(p, entry) /\ ~Removable(p, entry) /\ Read(p, Past(p, entry, next))

\* Mutant: the block is stripped from the text of the inspection.
StripAgents_inspected(p) ==
    /\ At(p, "agents-")
    /\ \/ "agents" \notin local[p].plan /\ Read(p, Past(p, "agents", "skill-"))
       \/ /\ "agents" \in local[p].plan
          /\ agents' = [local[p].seen EXCEPT !.block = None]
          /\ Wrote(p, Past(p, "agents", "skill-"), {"agents"})
          /\ UNCHANGED <<profile, skill, legacy, runtime, guideLock, counters>>

\* A planned block that is gone or changed refuses the call; other entries
\* that are gone are passed over.
StripAgents(p) ==
    /\ At(p, "agents-")
    /\ \/ "agents" \notin local[p].plan /\ Read(p, Past(p, "agents", "skill-"))
       \/ "agents" \in local[p].plan /\ ~Removable(p, "agents") /\ Refuse(p)
       \/ /\ Removable(p, "agents")
          /\ agents' = [local[p].seen EXCEPT !.block = None]
          /\ Wrote(p, Past(p, "agents", "skill-"), {"agents"})
          /\ UNCHANGED <<profile, skill, legacy, runtime, guideLock, counters>>

RemoveSkill(p) ==
    /\ At(p, "skill-")
    /\ \/ Skip(p, "skill", "legacy-")
       \/ /\ Removable(p, "skill")
          /\ skill' = NoSkill
          /\ Wrote(p, Past(p, "skill", "legacy-"), {"skill"})
          /\ UNCHANGED <<profile, agents, legacy, runtime, guideLock, counters>>

RemoveLegacy(p) ==
    /\ At(p, "legacy-")
    /\ \/ Skip(p, "legacy", "control-")
       \/ /\ Removable(p, "legacy")
          /\ legacy' = "none"
          /\ Wrote(p, Past(p, "legacy", "control-"), {"legacy"})
          /\ UNCHANGED <<profile, agents, skill, runtime, guideLock, counters>>

\* The lock file goes with the control root: whoever holds it holds a lost one.
RemoveControl(p) ==
    /\ At(p, "control-")
    /\ \/ Skip(p, "control", "profile-")
       \/ /\ Removable(p, "control")
          /\ runtime' = NoRuntime /\ guideLock' = None
          /\ Wrote(p, Past(p, "control", "profile-"), {"control"})
          /\ UNCHANGED <<profile, agents, skill, legacy, counters>>

RemoveProfile(p) ==
    /\ At(p, "profile-")
    /\ \/ ~Removable(p, "profile") /\ Refuse(p)
       \/ /\ Removable(p, "profile")
          /\ profile' = None
          /\ Wrote(p, Idle, {"profile"})
          /\ UNCHANGED <<agents, skill, legacy, runtime, guideLock, counters>>

\* A removal that stops half way leaves any part of the directory.
RemovePartly(p) ==
    /\ failures < MaxFailures
    /\ failures' = failures + 1
    /\ \/ /\ At(p, "skill-") /\ Removable(p, "skill")
          /\ \E core \in {skill.core, None}, catalog \in {skill.catalog, None}, aux \in {skill.aux, FALSE} :
                skill' = [core |-> core, catalog |-> catalog, aux |-> aux]
          /\ Wrote(p, Idle, {"skill"})
          /\ UNCHANGED <<runtime, guideLock>>
       \/ /\ At(p, "control-") /\ Removable(p, "control")
          /\ \E archives \in SUBSET runtime.archives, selected \in {runtime.selected, None} :
                runtime' = [archives |-> archives, selected |-> selected]
          /\ guideLock' \in {guideLock, None}
          /\ Wrote(p, Idle, {"control"})
          /\ UNCHANGED skill
    /\ UNCHANGED <<profile, agents, legacy, calls, edits>>

(***************************************************************************)
(* Everyone else.                                                          *)
(***************************************************************************)
Fail(p) ==
    /\ local[p] # Idle /\ ~At(p, "done")
    /\ failures < MaxFailures
    /\ failures' = failures + 1
    /\ Leave(p)
    /\ UNCHANGED <<profile, agents, skill, legacy, runtime, calls, edits>>

User(entry) ==
    /\ edits < MaxEdits
    /\ edits' = edits + 1
    /\ local' = [q \in Procs |-> Seen(local[q], {entry})]
    /\ UNCHANGED <<profile, legacy, runtime, guideLock, calls, failures>>

EditAgents ==
    /\ agents' = [agents EXCEPT !.text = edits + 1]
    /\ User("agents")
    /\ UNCHANGED skill

DropFile ==
    /\ skill.core # None
    /\ skill' = [skill EXCEPT !.aux = TRUE]
    /\ User("skill")
    /\ UNCHANGED agents

Install(p) == CheckProfile(p) \/ WriteDefault(p) \/ ReadHandlers(p)
SetStatus(p) == ReadStatus(p) \/ Rewrite(p)
Handlers(p) == Load(p) \/ Publish(p) \/ Select(p) \/ Spawn(p)
Instructions(p) ==
    \/ ReadAgents(p) \/ WriteBlock(p) \/ WriteCore(p) \/ WriteCatalog(p)
    \/ PruneAuxiliary(p) \/ PruneObsolete(p) \/ Answer(p)
AddGuidance(p) == Lock(p) \/ ReadRegistered(p) \/ AppendGuidance(p) \/ WriteIndex(p)
Unbind(p) ==
    \/ Inspect(p) \/ Recheck(p) \/ StripAgents(p) \/ RemoveSkill(p) \/ RemoveLegacy(p)
    \/ RemoveControl(p) \/ RemoveProfile(p)

Next ==
    \/ \E p \in Procs :
           \/ \E command \in Commands : Call(p, command)
           \/ Install(p) \/ SetStatus(p) \/ Handlers(p) \/ Instructions(p)
           \/ AddGuidance(p) \/ Unbind(p) \/ RemovePartly(p) \/ Fail(p)
    \/ EditAgents \/ DropFile

Spec == Init /\ [][Next]_vars

(***************************************************************************)
(* Properties.                                                             *)
(***************************************************************************)
TypeOK ==
    /\ profile \in [status : Statuses, guidance : SUBSET Guides, pinned : BOOLEAN] \cup {None}
    /\ agents \in [text : 0..MaxEdits, block : Releases \cup {None}]
    /\ skill \in [core : Releases \cup {None}, catalog : (SUBSET Guides) \cup {None}, aux : BOOLEAN]
    /\ legacy \in {"none", "managed", "own"}
    /\ runtime \in [archives : SUBSET Releases, selected : Releases \cup {None}]
    /\ guideLock \in Procs \cup {None}
    /\ \A p \in Procs : guideLock = p => local[p].at \in Registering
    /\ calls \in 0..MaxCalls /\ edits \in 0..MaxEdits /\ failures \in 0..MaxFailures

Steps(p, stages) == local[p].at \in stages /\ local'[p].at # local[p].at

\* The profile outlives everything else: an unbind that nobody disturbed removes
\* it only when the block, the skills and the control root it may remove are
\* gone, also when it finishes one that stopped half way; until then the owner
\* can run it again (unbind_repo).
UnbindFinishes ==
    [][\A p \in Procs :
           Steps(p, {"profile-"}) /\ profile' = None /\ local[p].calm =>
               /\ agents.block = None /\ skill = NoSkill /\ legacy # "managed"
               /\ ~local[p].argument => runtime = NoRuntime]_vars

\* No step of an unbind changes the user's text, whatever was edited since the
\* inspection, or removes a skill directory of the user (_strip_unbind_agents).
UnbindKeepsWork ==
    [][\A p \in Procs :
           Steps(p, Unbinding) =>
               agents'.text = agents.text /\ (legacy = "own" => legacy' = "own")]_vars

\* A guidance add drops no registration, however many adds run beside it, unless
\* a command of another kind has written the profile or removed the lock file
\* since it took the lock (add_guidance).
RegistrationsKept ==
    [][\A p \in Procs :
           Steps(p, {"append"}) /\ local[p].calm =>
               profile # None /\ profile.guidance \subseteq profile'.guidance]_vars

\* A refresh or update that nobody disturbed ends with everything rendered by
\* one release from the profile as it is, whatever half-finished command came
\* before; an update has selected that release (refresh_repo, update_repo).
RefreshConverges ==
    \A p \in Procs :
        At(p, "done") /\ local[p].calm /\ local[p].cmd \in {"refresh", "update"} =>
            LET release == local[p].release IN
            /\ agents.block = release
            /\ skill = [core |-> release, catalog |-> profile.guidance, aux |-> FALSE]
            /\ legacy = "none"
            /\ local[p].cmd = "update" => runtime.selected = release /\ Resolves

\* guidance add keeps the profile it appends to.
ProfileTextKept ==
    [][\A p \in Procs :
           Steps(p, {"append"}) /\ profile' # profile /\ profile # None =>
               profile' = [profile EXCEPT !.guidance = @ \cup {local[p].argument}]]_vars
===============================================================================
