------------------------------- MODULE Evidence -------------------------------
(***************************************************************************)
(* Outcome evidence and machine validation of one task: record_outcome     *)
(* (definitions, assessments, interventions), validate_task, and the phase *)
(* measurements of lifecycle commands.  Every admission reads the runtime  *)
(* and the ledger under both store locks; Git and the configured commands  *)
(* run between two admissions, under the lock of the attempt alone.        *)
(*                                                                         *)
(* The event identity digest of a request is the tuple it hashes.  What is *)
(* done under both store locks is one step: nobody else writes meanwhile.  *)
(* An assessment that is not_assessed is admitted as a not_met one.        *)
(***************************************************************************)
EXTENDS Integers, Sequences, FiniteSets

CONSTANTS
    Attempts,       \* identities of the task's attempts
    Procs,          \* concurrent commands
    Requests,       \* assessment, measurement and run identities
    Definitions,    \* outcome definitions, by digest
    Criteria,       \* the criteria every definition lists
    Trees,          \* contents of a task workspace
    CommandsOf(_),  \* the validation commands of the profile in a tree
    Environments,   \* runtime environment descriptors
    Unknown,        \* the descriptor without a runtime identity
    None,
    MaxEvents,      \* bound on the evidence ledger
    MaxCalls,       \* bound on the commands called
    MaxEdits,       \* bound on edits of a workspace and changes of environment
    MaxFailures     \* bound on deaths and exceptions

ASSUME NoneAssumption == None \notin Attempts \cup Procs \cup Trees
ASSUME UnknownAssumption == Unknown \in Environments
ASSUME BoundsAssumption == MaxEvents \in Nat /\ MaxCalls \in Nat /\ MaxEdits \in Nat /\ MaxFailures \in Nat

VARIABLES
    status,         \* Attempts -> "none", "in_progress" or "ended"
    artifact,       \* Attempts -> the tree an ended attempt left, or None
    workspace,      \* Attempts -> the tree in its worktree
    environment,    \* the environment commands run in
    ledger,         \* the evidence events, oldest first
    lock,           \* Attempts -> the holder of attempt_lifecycle_lock, or None
    local,          \* what each process is doing
    executed,       \* Attempts -> Requests -> the command sets run for it
    answers,        \* completed answers of validate_task
    calls, edits, failures

runtime == <<status, artifact>>
content == <<workspace, environment, edits>>
vars == <<runtime, content, ledger, lock, local, executed, answers, calls, failures>>

Idle == [at |-> "idle"]
Bindings == [tree : Trees, commands : {CommandsOf(t) : t \in Trees}, environment : Environments]
Row(a) == <<status[a], artifact[a]>>
Observed(a) ==
    [tree |-> workspace[a], commands |-> CommandsOf(workspace[a]), environment |-> environment]

Definition(a, d) == [kind |-> "definition", attempt |-> a, request |-> d]

\* The first attempt has begun; its outcome is defined already, or not yet.
Init ==
    /\ \E first \in Attempts :
           /\ status = [a \in Attempts |-> IF a = first THEN "in_progress" ELSE "none"]
           /\ ledger \in {<< >>} \cup {<<Definition(first, d)>> : d \in Definitions}
    /\ artifact = [a \in Attempts |-> None]
    /\ \E t \in Trees : workspace = [a \in Attempts |-> t]
    /\ environment \in Environments \ {Unknown}
    /\ lock = [a \in Attempts |-> None]
    /\ local = [p \in Procs |-> Idle]
    /\ executed = [a \in Attempts |-> [r \in Requests |-> << >>]]
    /\ answers = {}
    /\ calls = 0 /\ edits = 0 /\ failures = 0

(***************************************************************************)
(* The ledger: what read_evidence accepts.                                 *)
(***************************************************************************)
EventId(e) == <<e.kind, e.attempt, e.request>>

Events(l) == {l[i] : i \in DOMAIN l}

Find(l, id) == {e \in Events(l) : EventId(e) = id}

\* Commit is lineage only: identical trees, commands and environment match.
Matching(left, right) == left = right

\* The latest assessment of a criterion, or None.
HeadOf(l, c) ==
    LET at == {i \in DOMAIN l : l[i].kind = "assessment" /\ l[i].criterion = c}
    IN  IF at = {} THEN None
        ELSE EventId(l[CHOOSE i \in at : \A j \in at : j <= i])

IntentOf(e) == <<"intent", e.attempt, e.request>>

\* Mutant: the tree the receipt is about is not compared with the assessed one.
Citable_any_tree(l, e, ref) ==
    \E receipt \in Find(l, ref) : \E intent \in Find(l, IntentOf(receipt)) :
        /\ receipt.kind = "result" /\ receipt.attempt = e.attempt
        /\ intent.binding.environment # Unknown
        /\ receipt.after # None /\ Matching(receipt.after, intent.binding)
        /\ e.result = "met" => receipt.passed

\* May an assessment cite this receipt?
Citable(l, e, ref) ==
    \E receipt \in Find(l, ref) : \E intent \in Find(l, IntentOf(receipt)) :
        /\ receipt.kind = "result" /\ receipt.attempt = e.attempt
        /\ intent.binding.environment # Unknown
        /\ receipt.after # None /\ Matching(receipt.after, intent.binding)
        /\ receipt.after.tree = e.tree
        /\ e.result = "met" => receipt.passed

AdmitsDefinition(l, e) ==
    e.kind = "definition" => ~\E d \in Events(l) : d.kind = "definition"

AdmitsAssessment(l, e) ==
    e.kind = "assessment" =>
        /\ \E d \in Events(l) : d.kind = "definition" /\ d.request = e.definition
        /\ e.supersedes = HeadOf(l, e.criterion)
        /\ \A ref \in e.refs : Citable(l, e, ref)

AdmitsResult(l, e) ==
    e.kind = "result" =>
        \E intent \in Find(l, IntentOf(e)) : intent.binding.commands = e.commands

\* Request identities of these kinds are unique in the task, not only in the attempt.
Fresh(l, e) ==
    /\ Find(l, EventId(e)) = {}
    /\ e.kind \in {"assessment", "intervention", "intent", "result"} =>
           ~\E other \in Events(l) : other.kind = e.kind /\ other.request = e.request

Admits(l, e) ==
    /\ status[e.attempt] # "none"
    /\ Fresh(l, e)
    /\ AdmitsDefinition(l, e) /\ AdmitsAssessment(l, e) /\ AdmitsResult(l, e)

Readable(l) == \A i \in DOMAIN l : Admits(SubSeq(l, 1, i - 1), l[i])

\* Mutant: the stream was validated when the call was admitted, not again.
Append1_unread(e) ==
    IF Find(ledger, EventId(e)) = {}
    THEN Len(ledger) < MaxEvents /\ ledger' = Append(ledger, e)
    ELSE e \in Events(ledger) /\ UNCHANGED ledger

\* _append: a new event that the whole stream admits, or a repeated one.
Append1(e) ==
    IF Find(ledger, EventId(e)) = {}
    THEN /\ Len(ledger) < MaxEvents
         /\ Admits(ledger, e)
         /\ ledger' = Append(ledger, e)
    ELSE e \in Events(ledger) /\ UNCHANGED ledger

Conflicts(e) ==
    IF Find(ledger, EventId(e)) = {} THEN ~Admits(ledger, e) ELSE e \notin Events(ledger)

(***************************************************************************)
(* The lock of the attempt.                                                *)
(***************************************************************************)
\* Acquired together with the first thing read under it: what others do in
\* between could as well come before.
Locked(p, a) ==
    /\ lock[a] = None
    /\ lock' = [lock EXCEPT ![a] = p]

Called(p) ==
    /\ local[p] = Idle
    /\ calls < MaxCalls /\ calls' = calls + 1

Released(p) == [a \in Attempts |-> IF lock[a] = p THEN None ELSE lock[a]]

Leave(p) ==
    /\ lock' = Released(p)
    /\ local' = [local EXCEPT ![p] = Idle]

Now(p, next) == local' = [local EXCEPT ![p] = next]

Keep(p, next) == Now(p, next) /\ UNCHANGED lock

Refused(p) == Now(p, Idle) /\ UNCHANGED lock

(***************************************************************************)
(* record_outcome.                                                         *)
(***************************************************************************)
IdsOf(kind) == {EventId(e) : e \in {x \in Events(ledger) : x.kind = kind}}

\* A caller writes its document from what it has read of the ledger by now; the
\* tree an assessment is about is not the caller's to name.
Documents(a) ==
    {Definition(a, d) : d \in Definitions}
        \cup [kind : {"intervention"}, attempt : {a}, request : Requests]
        \cup [kind : {"assessment"}, attempt : {a}, request : Requests,
              definition : Definitions, criterion : Criteria, result : {"met", "not_met"},
              refs : {{}} \cup {{id} : id \in IdsOf("result")},
              supersedes : {None} \cup IdsOf("assessment"), tree : {None}]

CallRecord(p) ==
    /\ Called(p)
    /\ \E a \in Attempts : \E d \in Documents(a) :
           local' = [local EXCEPT ![p] =
               [at |-> "admit", attempt |-> a, document |-> d]]
    /\ UNCHANGED <<runtime, content, ledger, lock, executed, answers, failures>>

\* A new definition needs the active attempt; everything needs an attempt.
Recordable(d) ==
    /\ status[d.attempt] # "none"
    /\ d.kind = "definition" /\ Find(ledger, EventId(d)) = {} => status[d.attempt] = "in_progress"

AdmitRecord(p) ==
    /\ local[p].at = "admit"
    /\ LET d == local[p].document IN
       IF Recordable(d)
       THEN /\ Locked(p, d.attempt)
            /\ Now(p, [at |-> IF d.kind = "assessment" THEN "observe" ELSE "append",
                       attempt |-> d.attempt, document |-> d, row |-> Row(d.attempt),
                       recorded |-> Find(ledger, EventId(d))])
       ELSE lock[d.attempt] = None /\ Refused(p)
    /\ UNCHANGED <<runtime, content, ledger, executed, answers, calls, failures>>

\* The tree an assessment is about: of its first record, of the workspace of
\* an active attempt, or the one an ended attempt left.
SourceTree(l) ==
    IF l.recorded # {} THEN (CHOOSE e \in l.recorded : TRUE).tree
    ELSE IF l.row[1] = "in_progress" THEN workspace[l.attempt]
    ELSE l.row[2]

\* Mutant: an attempt that left no tree is assessed all the same.
ObserveTree_untold(p) ==
    /\ local[p].at = "observe"
    /\ LET l == local[p] IN
       Keep(p, [l EXCEPT !.at = "append", !.document.tree = SourceTree(l)])
    /\ UNCHANGED <<runtime, content, ledger, executed, answers, calls, failures>>

ObserveTree(p) ==
    /\ local[p].at = "observe"
    /\ LET l == local[p]  t == SourceTree(l) IN
       IF t = None THEN Leave(p)
       ELSE Keep(p, [l EXCEPT !.at = "append", !.document.tree = t])
    /\ UNCHANGED <<runtime, content, ledger, executed, answers, calls, failures>>

\* Mutant: the attempt is not compared with the one that was admitted.
Unchanged_assumed(l) == TRUE

Unchanged(l) == Row(l.attempt) = l.row

AppendRecord(p) ==
    /\ local[p].at = "append"
    /\ Unchanged(local[p])
    /\ Append1(local[p].document)
    /\ Leave(p)
    /\ UNCHANGED <<runtime, content, executed, answers, calls, failures>>

RefuseRecord(p) ==
    /\ local[p].at = "append"
    /\ ~Unchanged(local[p]) \/ Conflicts(local[p].document)
    /\ Leave(p)
    /\ UNCHANGED <<runtime, content, ledger, executed, answers, calls, failures>>

(***************************************************************************)
(* validate_task.                                                          *)
(***************************************************************************)
CallValidate(p) ==
    /\ Called(p)
    /\ \E a \in Attempts, r \in Requests :
           local' = [local EXCEPT ![p] =
               [at |-> "admit_run", attempt |-> a, run |-> r]]
    /\ UNCHANGED <<runtime, content, ledger, lock, executed, answers, failures>>

IntentId(l) == <<"intent", l.attempt, l.run>>
ResultId(l) == <<"result", l.attempt, l.run>>

\* A recorded receipt is replayed, without running anything.
ReplayRun(p) ==
    /\ local[p].at = "admit_run"
    /\ lock[local[p].attempt] = None
    /\ \E receipt \in Find(ledger, ResultId(local[p])) : answers' = answers \cup {receipt}
    /\ Refused(p)
    /\ UNCHANGED <<runtime, content, ledger, executed, calls, failures>>

\* Mutant: an interrupted run starts again when its inputs are the same.
Runnable_again(l) == status[l.attempt] = "in_progress"

\* A new run needs the active attempt; an interrupted one stays indeterminate.
Runnable(l) ==
    /\ Find(ledger, IntentId(l)) = {}
    /\ status[l.attempt] = "in_progress"

RefuseRun(p) ==
    /\ local[p].at = "admit_run"
    /\ lock[local[p].attempt] = None
    /\ Find(ledger, ResultId(local[p])) = {} /\ ~Runnable(local[p])
    /\ Refused(p)
    /\ UNCHANGED <<runtime, content, ledger, executed, answers, calls, failures>>

AdmitRun(p) ==
    /\ local[p].at = "admit_run"
    /\ Find(ledger, ResultId(local[p])) = {} /\ Runnable(local[p])
    /\ LET l == local[p] IN
       /\ Locked(p, l.attempt)
       /\ Now(p, [at |-> "bind", attempt |-> l.attempt, run |-> l.run, row |-> Row(l.attempt),
                  commands |-> CommandsOf(workspace[l.attempt])])
    /\ UNCHANGED <<runtime, content, ledger, executed, answers, calls, failures>>

\* The profile was loaded before the binding: both must name the same commands.
SameCommands(l) == CommandsOf(workspace[l.attempt]) = l.commands

Bind(p) ==
    /\ local[p].at = "bind"
    /\ LET l == local[p] IN
       IF SameCommands(l)
       THEN Keep(p, [at |-> "intend", attempt |-> l.attempt, run |-> l.run, row |-> l.row,
                     commands |-> l.commands, binding |-> Observed(l.attempt)])
       ELSE Leave(p)
    /\ UNCHANGED <<runtime, content, ledger, executed, answers, calls, failures>>

Intent(l) ==
    [kind |-> "intent", attempt |-> l.attempt, request |-> l.run, binding |-> l.binding]

AppendIntent(p) ==
    /\ local[p].at = "intend"
    /\ Unchanged(local[p])
    /\ Append1(Intent(local[p]))
    /\ Keep(p, [local[p] EXCEPT !.at = "run"])
    /\ UNCHANGED <<runtime, content, executed, answers, calls, failures>>

RefuseIntent(p) ==
    /\ local[p].at = "intend"
    /\ ~Unchanged(local[p]) \/ Conflicts(Intent(local[p]))
    /\ Leave(p)
    /\ UNCHANGED <<runtime, content, ledger, executed, answers, calls, failures>>

\* run_validation_commands stops after the first command that does not pass;
\* then the binding is observed again.  A workspace that cannot be observed any
\* more leaves None.
Receipt(l, passed, after) ==
    [kind |-> "result", attempt |-> l.attempt, request |-> l.run,
     after |-> after, passed |-> passed, commands |-> l.commands]

RunCommands(p) ==
    /\ local[p].at = "run"
    /\ LET l == local[p] IN
       /\ executed' = [executed EXCEPT ![l.attempt][l.run] = Append(@, l.commands)]
       /\ \E passed \in BOOLEAN, after \in {Observed(l.attempt), None} :
              Keep(p, [at |-> "receipt", attempt |-> l.attempt, run |-> l.run,
                       receipt |-> Receipt(l, passed, after)])
    /\ UNCHANGED <<runtime, content, ledger, answers, calls, failures>>

AppendResult(p) ==
    /\ local[p].at = "receipt"
    /\ Append1(local[p].receipt)
    /\ answers' = answers \cup {local[p].receipt}
    /\ Leave(p)
    /\ UNCHANGED <<runtime, content, executed, calls, failures>>

(***************************************************************************)
(* The lifecycle around it: commands that begin and end attempts, agents   *)
(* that edit, environments that change, deaths.                            *)
(***************************************************************************)
Begin(a) ==
    /\ status[a] = "none"
    /\ \A other \in Attempts : status[other] # "in_progress"
    /\ status' = [status EXCEPT ![a] = "in_progress"]
    /\ UNCHANGED <<artifact, content, ledger, lock, local, executed, answers, calls, failures>>

\* The row of an ended attempt names the tree it committed, if it did.
Ended(a, left) ==
    /\ status[a] = "in_progress"
    /\ status' = [status EXCEPT ![a] = "ended"]
    /\ artifact' = [artifact EXCEPT ![a] = left]

CallEnd(p) ==
    /\ Called(p)
    /\ \E a \in Attempts :
           /\ status[a] = "in_progress"
           /\ local' = [local EXCEPT ![p] = [at |-> "end", attempt |-> a]]
    /\ UNCHANGED <<runtime, content, ledger, lock, executed, answers, failures>>

\* task land, close and cleanup end an attempt under its lock.
EndLocked(p) ==
    /\ local[p].at = "end"
    /\ lock[local[p].attempt] = None
    /\ \E left \in {None, workspace[local[p].attempt]} : Ended(local[p].attempt, left)
    /\ UNCHANGED lock
    /\ local' = [local EXCEPT ![p] = [at |-> "measure", attempt |-> local[p].attempt]]
    /\ UNCHANGED <<content, ledger, executed, answers, calls, failures>>

TooLate(p) ==
    /\ local[p].at = "end"
    /\ lock[local[p].attempt] = None
    /\ status[local[p].attempt] = "ended"
    /\ Refused(p)
    /\ UNCHANGED <<runtime, content, ledger, executed, answers, calls, failures>>

\* measure_task_phase: the first completed invocation of a phase is kept.
Measure(p) ==
    /\ local[p].at = "measure"
    /\ LET a == local[p].attempt IN
       Append1([kind |-> "phase", attempt |-> a, request |-> "close"])
    /\ Leave(p)
    /\ UNCHANGED <<runtime, content, executed, answers, calls, failures>>

\* task recover finishes a landed attempt without the lock of the attempt.
Recover(a) ==
    /\ Ended(a, workspace[a])
    /\ UNCHANGED <<content, ledger, lock, local, executed, answers, calls, failures>>

\* An agent edits the workspace, or the environment changes.
Edit(a) ==
    /\ edits < MaxEdits
    /\ \E t \in Trees, e \in Environments :
           /\ <<t, e>> # <<workspace[a], environment>>
           /\ workspace' = [workspace EXCEPT ![a] = t]
           /\ environment' = e
    /\ edits' = edits + 1
    /\ UNCHANGED <<runtime, ledger, lock, local, executed, answers, calls, failures>>

\* A death before the lock is held has done nothing, and is no step.
Fail(p) ==
    /\ \E a \in Attempts : lock[a] = p
    /\ failures < MaxFailures
    /\ failures' = failures + 1
    /\ Leave(p)
    /\ UNCHANGED <<runtime, content, ledger, executed, answers, calls>>

Next ==
    \/ \E p \in Procs :
           \/ CallRecord(p) \/ CallValidate(p) \/ CallEnd(p)
           \/ AdmitRecord(p) \/ ObserveTree(p) \/ AppendRecord(p) \/ RefuseRecord(p)
           \/ ReplayRun(p) \/ RefuseRun(p) \/ AdmitRun(p) \/ Bind(p)
           \/ AppendIntent(p) \/ RefuseIntent(p) \/ RunCommands(p)
           \/ AppendResult(p)
           \/ EndLocked(p) \/ TooLate(p) \/ Measure(p) \/ Fail(p)
    \/ \E a \in Attempts : Begin(a) \/ Recover(a) \/ Edit(a)

Spec == Init /\ [][Next]_vars

(***************************************************************************)
(* Properties.                                                             *)
(***************************************************************************)
TypeOK ==
    /\ status \in [Attempts -> {"none", "in_progress", "ended"}]
    /\ artifact \in [Attempts -> Trees \cup {None}]
    /\ workspace \in [Attempts -> Trees] /\ environment \in Environments
    /\ \A e \in Events(ledger) :
           /\ e.kind \in {"definition", "assessment", "intervention", "intent", "result", "phase"}
           /\ e.attempt \in Attempts
           /\ e.kind = "assessment" => e.tree \in Trees
           /\ e.kind = "intent" => e.binding \in Bindings
           /\ e.kind = "result" => e.after \in Bindings \cup {None}
    /\ \A a \in Attempts :
           lock[a] # None => local[lock[a]] # Idle /\ local[lock[a]].attempt = a
    /\ calls \in 0..MaxCalls /\ edits \in 0..MaxEdits /\ failures \in 0..MaxFailures

\* Readers reject the whole stream when one row breaks a reference or competes
\* with another: no interleaving of commands may append a row that makes every
\* later command of the task fail (read_evidence).
EvidenceLoads == Readable(ledger)

\* The configured commands of a run identity start once at most, and only after
\* its intent is durable, across deaths, repeats and concurrent callers; every
\* completed answer is the one durable receipt (validate_task).
RunsOnce ==
    /\ \A a \in Attempts, r \in Requests :
           /\ Len(executed[a][r]) <= 1
           /\ executed[a][r] # << >> => Find(ledger, <<"intent", a, r>>) # {}
           /\ Find(ledger, <<"result", a, r>>) # {} => executed[a][r] # << >>
    /\ answers \subseteq Events(ledger)

\* What a met assessment cites did run: the commands of the very tree it is
\* about, in one environment, and they passed (read_evidence, observe_binding).
CitedRunsSound ==
    \A e \in Events(ledger) : e.kind = "assessment" /\ e.result = "met" =>
        \A ref \in e.refs :
            /\ executed[ref[2]][ref[3]] = << CommandsOf(e.tree) >>
            /\ \E receipt \in Events(ledger) : EventId(receipt) = ref /\ receipt.passed

\* An assessment admitted once its attempt has ended is about the tree the
\* attempt left, though its tree was observed earlier (record_outcome).
AssessesWhatEnded ==
    [][ledger' # ledger =>
           LET e == ledger'[Len(ledger')] IN
           e.kind = "assessment" /\ status[e.attempt] = "ended" => e.tree = artifact[e.attempt]]_vars
===============================================================================
