---------------------------- MODULE EvidenceProofs ----------------------------
(***************************************************************************)
(* What TLAPS proves of outcome evidence and validation, for any number of *)
(* attempts, commands, requests, edits and deaths: the ledger stays        *)
(* readable, the commands of a run identity start once, citations are of   *)
(* runs that happened, and terminal assessments are of what was left.      *)
(***************************************************************************)
EXTENDS Evidence, TLAPS

(***************************************************************************)
(* Rows of the ledger and jobs of the processes.                           *)
(***************************************************************************)
Commands == {CommandsOf(t) : t \in Trees}
Bound == {b \in Bindings : b.commands = CommandsOf(b.tree)}
Rows == {"none", "in_progress", "ended"} \X (Trees \cup {None})
Kinds == {"definition", "assessment", "intervention", "intent", "result", "phase"}
Ids == Kinds \X Attempts \X (Requests \cup Definitions \cup {"close"})

DefinitionRow == [kind : {"definition"}, attempt : Attempts, request : Definitions]
InterventionRow == [kind : {"intervention"}, attempt : Attempts, request : Requests]
AssessmentRow(trees) ==
    [kind : {"assessment"}, attempt : Attempts, request : Requests, definition : Definitions,
     criterion : Criteria, result : {"met", "not_met"}, refs : SUBSET Ids,
     supersedes : Ids \cup {None}, tree : trees]
IntentRow == [kind : {"intent"}, attempt : Attempts, request : Requests, binding : Bound]
ResultRow ==
    [kind : {"result"}, attempt : Attempts, request : Requests, after : Bound \cup {None},
     passed : BOOLEAN, commands : Commands]
PhaseRow == [kind : {"phase"}, attempt : Attempts, request : {"close"}]

Document == DefinitionRow \cup InterventionRow \cup AssessmentRow(Trees \cup {None})
Event ==
    DefinitionRow \cup InterventionRow \cup AssessmentRow(Trees) \cup IntentRow \cup ResultRow
        \cup PhaseRow

Calling == [at : {"admit"}, attempt : Attempts, document : Document]
Writing ==
    [at : {"observe", "append"}, attempt : Attempts, document : Document, row : Rows,
     recorded : SUBSET Event]
Asking == [at : {"admit_run"}, attempt : Attempts, run : Requests]
Binding == [at : {"bind"}, attempt : Attempts, run : Requests, row : Rows, commands : Commands]
Running ==
    [at : {"intend", "run"}, attempt : Attempts, run : Requests, row : Rows,
     commands : Commands, binding : Bound]
Answering == [at : {"receipt"}, attempt : Attempts, run : Requests, receipt : ResultRow]
Ending == [at : {"end", "measure"}, attempt : Attempts]

Job == Calling \cup Writing \cup Asking \cup Binding \cup Running \cup Answering \cup Ending

Typed ==
    /\ status \in [Attempts -> {"none", "in_progress", "ended"}]
    /\ artifact \in [Attempts -> Trees \cup {None}]
    /\ workspace \in [Attempts -> Trees] /\ environment \in Environments
    /\ ledger \in Seq(Event)
    /\ lock \in [Attempts -> Procs \cup {None}]
    /\ local \in [Procs -> Job \cup {Idle}]
    /\ executed \in [Attempts -> [Requests -> {<< >>} \cup {<< c >> : c \in Commands}]]
    /\ calls \in 0..MaxCalls /\ edits \in 0..MaxEdits /\ failures \in 0..MaxFailures

(***************************************************************************)
(* The inductive invariant.                                                *)
(***************************************************************************)
\* Under the lock of an attempt from the first thing read to the last written.
Holding == {"observe", "append", "bind", "intend", "run", "receipt"}

Mutex ==
    \A p \in Procs, a \in Attempts :
        lock[a] = p <=> local[p] # Idle /\ local[p].at \in Holding /\ local[p].attempt = a

\* Every row was admitted after the rows before it, for an attempt that had begun.
RowAdmits(l, e) ==
    Fresh(l, e) /\ AdmitsDefinition(l, e) /\ AdmitsAssessment(l, e) /\ AdmitsResult(l, e)

LedgerSound ==
    /\ \A i \in DOMAIN ledger : RowAdmits(SubSeq(ledger, 1, i - 1), ledger[i])
    /\ \A e \in Events(ledger) : status[e.attempt] # "none"
    /\ \A e, f \in Events(ledger) : EventId(e) = EventId(f) => e = f

\* What is said to have run did run, once; an assessment cites what did.
Ran(e) == executed[e.attempt][e.request] = << e.commands >>

Cited(e, ref) ==
    /\ executed[ref[2]][ref[3]] = << CommandsOf(e.tree) >>
    /\ \E receipt \in Events(ledger) :
           receipt.kind = "result" /\ EventId(receipt) = ref /\ receipt.passed

Intended(e) ==
    \E intent \in Events(ledger) :
        /\ EventId(intent) = IntentOf(e) /\ intent.binding.commands = e.commands

RunsSound ==
    /\ \A e \in Events(ledger) : e.kind = "result" => Ran(e) /\ Intended(e)
    /\ \A e \in Events(ledger) : e.kind = "assessment" /\ e.result = "met" =>
           \A ref \in e.refs : Cited(e, ref)
    /\ \A a \in Attempts, r \in Requests :
           executed[a][r] # << >> => Find(ledger, <<"intent", a, r>>) # {}
    /\ answers \subseteq Events(ledger)

\* What a process has read or done under the lock still stands.
WriterSound(j) ==
    /\ j.document.attempt = j.attempt
    /\ j.row[1] # "none"
    /\ j.recorded \subseteq Events(ledger)
    /\ \A e \in j.recorded : EventId(e) = EventId(j.document)
    /\ j.at = "observe" => j.document.kind = "assessment"
    /\ j.at = "append" /\ j.document.kind = "assessment" =>
           /\ j.document.tree \in Trees
           /\ j.recorded = {} /\ j.row[1] # "in_progress" => j.document.tree = j.row[2]

JobSound(j) ==
    /\ j.at \in {"observe", "append"} => WriterSound(j)
    /\ j.at \in {"bind", "intend"} => Find(ledger, <<"intent", j.attempt, j.run>>) = {}
    /\ j.at = "run" =>
           /\ Find(ledger, <<"intent", j.attempt, j.run>>) # {}
           /\ executed[j.attempt][j.run] = << >>
    /\ j.at = "receipt" =>
           /\ j.receipt.attempt = j.attempt /\ j.receipt.request = j.run
           /\ Ran(j.receipt)
    /\ j.at = "measure" => status[j.attempt] # "none"

JobsSound == \A p \in Procs : local[p] # Idle => JobSound(local[p])

IInv == Typed /\ Mutex /\ LedgerSound /\ RunsSound /\ JobsSound

(***************************************************************************)
(* Initially.                                                              *)
(***************************************************************************)
\* One event is a ledger.
LEMMA OneRow == ASSUME NEW e \in Event PROVE <<e>> \in Seq(Event)
  OBVIOUS

\* A definition, if any, is all there is.
LEMMA InitHolds == Init => IInv
  <1> SUFFICES ASSUME Init PROVE IInv
    OBVIOUS
  <1>1. PICK first \in Attempts :
           /\ status = [a \in Attempts |-> IF a = first THEN "in_progress" ELSE "none"]
           /\ ledger \in {<< >>} \cup {<<Definition(first, d)>> : d \in Definitions}
    BY DEF Init
  <1>2. \A d \in Definitions : Definition(first, d) \in DefinitionRow
    BY DEF Definition, DefinitionRow
  <1>3. ledger = << >> \/ \E e \in DefinitionRow : ledger = <<e>> /\ e.attempt = first
    BY <1>1, <1>2 DEF Definition
  <1>4. ledger \in Seq(Event)
    <2>1. \A e \in Event : <<e>> \in Seq(Event)
      BY OneRow
    <2>2. DefinitionRow \subseteq Event
      BY DEF Event
    <2>3. << >> \in Seq(Event)
      OBVIOUS
    <2>4. ASSUME NEW e \in DefinitionRow PROVE <<e>> \in Seq(Event)
      BY <2>1, <2>2
    <2> QED
      BY <1>3, <2>3, <2>4
  <1>5. Events(ledger) \subseteq DefinitionRow /\ \A e, f \in Events(ledger) : e = f
    BY <1>3 DEF Events
  <1>6. \A e \in Events(ledger) : e.attempt = first /\ e.kind = "definition"
    BY <1>3 DEF Events, DefinitionRow
  <1>7. Typed
    BY <1>1, <1>4, BoundsAssumption DEF Init, Typed
  <1>8. Mutex
    BY NoneAssumption DEF Init, Mutex
  <1>9. LedgerSound
    <2>1. ASSUME NEW i \in DOMAIN ledger PROVE RowAdmits(SubSeq(ledger, 1, i - 1), ledger[i])
      <3>1. i = 1 /\ ledger[i].kind = "definition"
        BY <1>3 DEF DefinitionRow
      <3>2. SubSeq(ledger, 1, i - 1) = << >>
        BY <3>1
      <3>3. Events(<< >>) = {}
        BY DEF Events
      <3> QED
        BY <3>1, <3>2, <3>3
        DEF RowAdmits, Fresh, Find, AdmitsDefinition, AdmitsAssessment, AdmitsResult
    <2> QED
      BY <1>1, <1>5, <1>6, <2>1 DEF LedgerSound
  <1>10. RunsSound
    BY <1>6 DEF Init, RunsSound
  <1>11. JobsSound
    BY DEF Init, JobsSound
  <1> QED
    BY <1>7, <1>8, <1>9, <1>10, <1>11 DEF IInv

(***************************************************************************)
(* The ledger and what is found in it.                                     *)
(***************************************************************************)
\* What an append adds.
LEMMA EventsAppend ==
    ASSUME NEW l \in Seq(Event), NEW e \in Event
    PROVE  /\ Append(l, e) \in Seq(Event)
           /\ Events(Append(l, e)) = Events(l) \cup {e}
  <1> DEFINE m == Append(l, e)
  <1>1. /\ m \in Seq(Event) /\ Len(m) = Len(l) + 1
        /\ m[Len(l) + 1] = e /\ \A i \in 1..Len(l) : m[i] = l[i]
    OBVIOUS
  <1>2. DOMAIN m = 1..(Len(l) + 1) /\ DOMAIN l = 1..Len(l) /\ Len(l) \in Nat
    BY <1>1
  <1> HIDE DEF m
  <1>3. \A i \in DOMAIN m : m[i] = e \/ (i \in DOMAIN l /\ m[i] = l[i])
    BY <1>1, <1>2
  <1>4. \A i \in DOMAIN l : i \in DOMAIN m /\ m[i] = l[i]
    BY <1>1, <1>2
  <1>5. Len(l) + 1 \in DOMAIN m
    BY <1>2
  <1>6. Events(m) = Events(l) \cup {e}
    BY <1>1, <1>3, <1>4, <1>5 DEF Events
  <1> QED
    BY <1>1, <1>6 DEF m

\* The rows before a row are the same after an append.
LEMMA RowsAppend ==
    ASSUME NEW l \in Seq(Event), NEW e \in Event, RowAdmits(l, e),
           \A i \in DOMAIN l : RowAdmits(SubSeq(l, 1, i - 1), l[i])
    PROVE  \A i \in DOMAIN Append(l, e) :
               RowAdmits(SubSeq(Append(l, e), 1, i - 1), Append(l, e)[i])
  <1> SUFFICES ASSUME NEW i \in DOMAIN Append(l, e)
               PROVE  RowAdmits(SubSeq(Append(l, e), 1, i - 1), Append(l, e)[i])
    OBVIOUS
  <1>1. i \in 1..(Len(l) + 1) /\ Len(l) \in Nat
    OBVIOUS
  <1>2. SubSeq(Append(l, e), 1, i - 1) = SubSeq(l, 1, i - 1)
    BY <1>1
  <1>3. CASE i \in 1..Len(l)
    <2>1. i \in DOMAIN l /\ Append(l, e)[i] = l[i]
      BY <1>3
    <2> QED
      BY <1>2, <2>1
  <1>4. CASE i = Len(l) + 1
    <2>1. SubSeq(l, 1, i - 1) = l /\ Append(l, e)[i] = e
      BY <1>4
    <2> QED
      BY <1>2, <2>1
  <1> QED
    BY <1>1, <1>3, <1>4

\* A row of another identity changes nothing about one.
LEMMA FindOther ==
    ASSUME NEW l, NEW m, NEW e, Events(m) = Events(l) \cup {e}, NEW id, EventId(e) # id
    PROVE  Find(m, id) = Find(l, id)
  BY DEF Find

\* An event of the ledger has an identity, and a kind that tells its fields.
LEMMA EventFields ==
    ASSUME NEW e \in Event
    PROVE  /\ EventId(e) \in Ids
           /\ e.kind \in Kinds /\ e.attempt \in Attempts
           /\ e.kind = "assessment" => e \in AssessmentRow(Trees)
           /\ e.kind = "intent" => e \in IntentRow
           /\ e.kind = "result" => e \in ResultRow
  <1>1. /\ e.kind \in Kinds /\ e.attempt \in Attempts
        /\ e.request \in Requests \cup Definitions \cup {"close"}
    BY DEF Event, DefinitionRow, InterventionRow, AssessmentRow, IntentRow, ResultRow, PhaseRow,
           Kinds
  <1>2. /\ e.kind = "assessment" => e \in AssessmentRow(Trees)
        /\ e.kind = "intent" => e \in IntentRow
        /\ e.kind = "result" => e \in ResultRow
    BY DEF Event, DefinitionRow, InterventionRow, AssessmentRow, IntentRow, ResultRow, PhaseRow
  <1> QED
    BY <1>1, <1>2 DEF EventId, Ids

\* All events of the ledger are events.
LEMMA EventsTyped == ASSUME NEW l \in Seq(Event) PROVE Events(l) \subseteq Event
  BY DEF Events

\* _append, new or repeated, leaves a sound ledger that holds the event.
LEMMA AppendSound ==
    ASSUME IInv, status' = status, NEW e \in Event, Append1(e)
    PROVE  /\ ledger' \in Seq(Event)
           /\ Events(ledger') = Events(ledger) \cup {e}
           /\ LedgerSound'
  <1>1. ledger \in Seq(Event) /\ LedgerSound
    BY DEF IInv, Typed
  <1>2. CASE Find(ledger, EventId(e)) = {}
    <2>1. Admits(ledger, e) /\ ledger' = Append(ledger, e)
      BY <1>2 DEF Append1
    <2>2. ledger' \in Seq(Event) /\ Events(ledger') = Events(ledger) \cup {e}
      BY <1>1, <2>1, EventsAppend
    <2>3. RowAdmits(ledger, e)
      BY <2>1 DEF Admits, RowAdmits
    <2>4. \A i \in DOMAIN ledger' : RowAdmits(SubSeq(ledger', 1, i - 1), ledger'[i])
      BY <1>1, <2>1, <2>3, RowsAppend DEF LedgerSound
    <2>5. \A f \in Events(ledger) : EventId(f) # EventId(e)
      BY <1>2 DEF Find
    <2>6. \A f, g \in Events(ledger') : EventId(f) = EventId(g) => f = g
      BY <1>1, <2>2, <2>5 DEF LedgerSound
    <2>7. \A f \in Events(ledger') : status[f.attempt] # "none"
      BY <1>1, <2>1, <2>2 DEF LedgerSound, Admits
    <2> QED
      BY <2>2, <2>4, <2>6, <2>7
      DEF LedgerSound, RowAdmits, Fresh, AdmitsDefinition, AdmitsAssessment, AdmitsResult
  <1>3. CASE Find(ledger, EventId(e)) # {}
    <2>1. ledger' = ledger /\ e \in Events(ledger)
      BY <1>3 DEF Append1
    <2>2. Events(ledger') = Events(ledger) \cup {e}
      BY <2>1
    <2> QED
      BY <1>1, <2>1, <2>2
      DEF LedgerSound, RowAdmits, Fresh, AdmitsDefinition, AdmitsAssessment, AdmitsResult
  <1> QED
    BY <1>2, <1>3

(***************************************************************************)
(* What processes do beside the ledger.                                    *)
(***************************************************************************)
\* A process goes from one job to the next.
LEMMA Moves ==
    ASSUME IInv, NEW p \in Procs, NEW j \in Job \cup {Idle}, Now(p, j)
    PROVE  /\ local' \in [Procs -> Job \cup {Idle}]
           /\ local'[p] = j
           /\ \A q \in Procs : q # p => local'[q] = local[q]
  BY DEF IInv, Typed, Now

\* A job is a record; only some are under the lock.
LEMMA IdleIsNoJob == Idle \notin Job
  BY DEF Idle, Job, Calling, Writing, Asking, Binding, Running, Answering, Ending

\* What stands of an active process.
LEMMA ActiveJob ==
    ASSUME IInv, NEW p \in Procs, local[p] # Idle
    PROVE  local[p] \in Job /\ JobSound(local[p])
  BY DEF IInv, Typed, JobsSound

\* A process keeps, or does without, the lock.
LEMMA MutexKept ==
    ASSUME IInv, NEW p \in Procs, NEW j \in Job \cup {Idle}, Now(p, j), UNCHANGED lock,
           \A a \in Attempts :
              (local[p] # Idle /\ local[p].at \in Holding /\ local[p].attempt = a)
                  <=> (j # Idle /\ j.at \in Holding /\ j.attempt = a)
    PROVE  Mutex' /\ lock' \in [Attempts -> Procs \cup {None}]
  BY Moves DEF IInv, Mutex, Typed

\* The lock of an attempt is taken when it is free.
LEMMA MutexTaken ==
    ASSUME IInv, NEW p \in Procs, NEW j \in Job, Now(p, j), NEW a \in Attempts, Locked(p, a),
           \A b \in Attempts : lock[b] # p,
           j.at \in Holding, j.attempt = a
    PROVE  Mutex' /\ lock' \in [Attempts -> Procs \cup {None}]
  <1>1. /\ lock' \in [Attempts -> Procs \cup {None}]
        /\ \A b \in Attempts : lock'[b] = IF b = a THEN p ELSE lock[b]
    BY DEF IInv, Typed, Locked
  <1>2. /\ local'[p] = j /\ j # Idle
        /\ \A q \in Procs : q # p => local'[q] = local[q]
    BY Moves, IdleIsNoJob
  <1>3. lock[a] = None /\ None \notin Procs
    BY NoneAssumption DEF Locked
  <1>4. ASSUME NEW q \in Procs, NEW b \in Attempts
        PROVE  lock'[b] = q <=> local'[q] # Idle /\ local'[q].at \in Holding /\ local'[q].attempt = b
    <2>1. lock[b] = q <=> local[q] # Idle /\ local[q].at \in Holding /\ local[q].attempt = b
      BY DEF IInv, Mutex
    <2>2. CASE q = p
      BY <1>1, <1>2, <2>2
    <2>3. CASE q # p
      BY <1>1, <1>2, <1>3, <2>1, <2>3
    <2> QED
      BY <2>2, <2>3
  <1> QED
    BY <1>1, <1>4 DEF Mutex

\* A process that leaves releases what it holds.
LEMMA MutexLeft ==
    ASSUME IInv, NEW p \in Procs, Leave(p)
    PROVE  /\ Mutex' /\ lock' \in [Attempts -> Procs \cup {None}]
           /\ local' \in [Procs -> Job \cup {Idle}]
           /\ local'[p] = Idle
           /\ \A q \in Procs : q # p => local'[q] = local[q]
  <1>1. /\ local' \in [Procs -> Job \cup {Idle}] /\ local'[p] = Idle
        /\ \A q \in Procs : q # p => local'[q] = local[q]
    BY DEF IInv, Typed, Leave
  <1>2. \A a \in Attempts : lock'[a] = IF lock[a] = p THEN None ELSE lock[a]
    BY DEF Leave, Released
  <1>3. lock' \in [Attempts -> Procs \cup {None}]
    BY DEF Leave, Released, IInv, Typed
  <1>4. Mutex'
    BY <1>1, <1>2, NoneAssumption DEF IInv, Mutex
  <1> QED
    BY <1>1, <1>3, <1>4

\* The other processes keep what they know: rows only come, and what concerns
\* an attempt under a lock is left to the holder.
LEMMA OthersSound ==
    ASSUME IInv, NEW p \in Procs,
           \A q \in Procs : q # p => local'[q] = local[q],
           \A a \in Attempts : status[a] # "none" => status'[a] # "none",
           Events(ledger) \subseteq Events(ledger'),
           \A a \in Attempts : lock[a] # p =>
              /\ executed'[a] = executed[a]
              /\ \A r \in Requests :
                    Find(ledger', <<"intent", a, r>>) = Find(ledger, <<"intent", a, r>>),
           local'[p] # Idle => JobSound(local[p])'
    PROVE  JobsSound'
  <1> SUFFICES ASSUME NEW q \in Procs, q # p, local'[q] # Idle
               PROVE  JobSound(local[q])'
    BY DEF JobsSound
  <1>1. local'[q] = local[q] /\ local[q] \in Job /\ JobSound(local[q])
    BY ActiveJob
  <1>2. local[q].at \in Holding => lock[local[q].attempt] # p /\ local[q].attempt \in Attempts
    BY <1>1 DEF IInv, Mutex, Job, Calling, Writing, Asking, Binding, Running, Answering, Ending
  <1>3. CASE local[q].at \in {"observe", "append"}
    BY <1>1, <1>3 DEF JobSound, WriterSound
  <1>4. CASE local[q].at \in {"bind", "intend", "run"}
    <2>1. local[q].run \in Requests
      BY <1>1, <1>4 DEF Job, Calling, Writing, Asking, Binding, Running, Answering, Ending
    <2> QED
      BY <1>1, <1>2, <1>4, <2>1 DEF JobSound, Holding
  <1>5. CASE local[q].at = "receipt"
    <2>1. executed'[local[q].attempt] = executed[local[q].attempt]
      BY <1>2, <1>5 DEF Holding
    <2> QED
      BY <1>1, <1>5, <2>1 DEF JobSound, Ran
  <1>6. CASE local[q].at \notin Holding
    <2>1. local[q].attempt \in Attempts
      BY <1>1 DEF Job, Calling, Writing, Asking, Binding, Running, Answering, Ending
    <2> QED
      BY <1>1, <1>6, <2>1 DEF JobSound, Holding
  <1> QED
    BY <1>3, <1>4, <1>5, <1>6 DEF Holding

(***************************************************************************)
(* Steps that leave runtime, ledger and runs alone.                        *)
(***************************************************************************)
records == <<status, artifact, ledger, executed>>

\* Whoever goes on or leaves, the ledger and the runs are sound as before.
LEMMA QuietStep ==
    ASSUME IInv, NEW p \in Procs, UNCHANGED records,
           workspace' \in [Attempts -> Trees], environment' \in Environments,
           answers' \subseteq Events(ledger),
           calls' \in 0..MaxCalls, edits' \in 0..MaxEdits, failures' \in 0..MaxFailures,
           Mutex', lock' \in [Attempts -> Procs \cup {None}],
           local' \in [Procs -> Job \cup {Idle}],
           \A q \in Procs : q # p => local'[q] = local[q],
           NEW j, local'[p] = j, j # Idle => JobSound(j)
    PROVE  IInv'
  <1>1. UNCHANGED <<status, artifact, ledger, executed>>
    BY DEF records
  <1>2. Typed'
    BY <1>1 DEF IInv, Typed
  <1>3. LedgerSound'
    BY <1>1 DEF IInv, LedgerSound, RowAdmits, Fresh, AdmitsDefinition, AdmitsAssessment,
                AdmitsResult
  <1>4. RunsSound'
    BY <1>1 DEF IInv, RunsSound, Ran, Intended, Cited
  <1>5. local'[p] # Idle => JobSound(local[p])'
    BY <1>1 DEF JobSound, WriterSound, Ran
  <1>6. JobsSound'
    BY <1>1, <1>5, OthersSound
  <1> QED
    BY <1>2, <1>3, <1>4, <1>6 DEF IInv

\* Refusals, answers from the ledger, and deaths.
LEMMA LeaveStep ==
    ASSUME IInv, NEW p \in Procs, Leave(p), UNCHANGED <<records, content, calls, answers>>,
           failures' \in 0..MaxFailures
    PROVE  IInv'
  <1>1. /\ Mutex' /\ lock' \in [Attempts -> Procs \cup {None}]
        /\ local' \in [Procs -> Job \cup {Idle}]
        /\ local'[p] = Idle
        /\ \A q \in Procs : q # p => local'[q] = local[q]
    BY MutexLeft
  <1>2. /\ UNCHANGED <<records, calls, edits, answers>>
        /\ workspace' \in [Attempts -> Trees] /\ environment' \in Environments
        /\ calls \in 0..MaxCalls /\ edits \in 0..MaxEdits
        /\ answers \subseteq Events(ledger)
    BY DEF content, IInv, Typed, RunsSound
  <1> QED
    BY <1>1, <1>2, QuietStep

\* A process outside the lock goes on outside, or is done.
LEMMA OutsideStep ==
    ASSUME IInv, NEW p \in Procs, local[p] # Idle => local[p].at \notin Holding,
           NEW j \in Job \cup {Idle}, Now(p, j), j # Idle => j.at \notin Holding,
           UNCHANGED <<records, content, lock, failures>>,
           calls' \in 0..MaxCalls, answers' \subseteq Events(ledger),
           j # Idle => JobSound(j)
    PROVE  IInv'
  <1>1. Mutex' /\ lock' \in [Attempts -> Procs \cup {None}]
    BY MutexKept
  <1>2. /\ local' \in [Procs -> Job \cup {Idle}]
        /\ local'[p] = j
        /\ \A q \in Procs : q # p => local'[q] = local[q]
    BY Moves
  <1>3. /\ UNCHANGED records
        /\ workspace' \in [Attempts -> Trees] /\ environment' \in Environments
        /\ edits' \in 0..MaxEdits /\ failures' \in 0..MaxFailures
    BY DEF content, IInv, Typed
  <1> QED
    BY <1>1, <1>2, <1>3, QuietStep

\* A process takes the lock of an attempt.
LEMMA TakeStep ==
    ASSUME IInv, NEW p \in Procs, local[p].at \notin Holding,
           NEW j \in Job, Now(p, j), NEW a \in Attempts, Locked(p, a),
           j.at \in Holding, j.attempt = a,
           UNCHANGED <<records, content, calls, failures, answers>>,
           JobSound(j)
    PROVE  IInv'
  <1>1. \A b \in Attempts : lock[b] # p
    BY DEF IInv, Mutex
  <1>2. Mutex' /\ lock' \in [Attempts -> Procs \cup {None}]
    BY <1>1, MutexTaken
  <1>3. /\ local' \in [Procs -> Job \cup {Idle}]
        /\ local'[p] = j
        /\ \A q \in Procs : q # p => local'[q] = local[q]
    BY Moves
  <1>4. /\ UNCHANGED records
        /\ workspace' \in [Attempts -> Trees] /\ environment' \in Environments
        /\ calls' \in 0..MaxCalls /\ edits' \in 0..MaxEdits /\ failures' \in 0..MaxFailures
        /\ answers' \subseteq Events(ledger)
    BY DEF content, IInv, Typed, RunsSound
  <1> QED
    BY <1>2, <1>3, <1>4, QuietStep

\* The holder of a lock goes on.
LEMMA HolderStep ==
    ASSUME IInv, NEW p \in Procs, local[p] # Idle, local[p].at \in Holding,
           NEW j \in Job, Keep(p, j), j.at \in Holding, j.attempt = local[p].attempt,
           UNCHANGED <<records, content, calls, failures, answers>>,
           JobSound(j)
    PROVE  IInv'
  <1>1. Now(p, j) /\ UNCHANGED lock /\ j # Idle
    BY IdleIsNoJob DEF Keep
  <1>2. Mutex' /\ lock' \in [Attempts -> Procs \cup {None}]
    BY <1>1, MutexKept
  <1>3. /\ local' \in [Procs -> Job \cup {Idle}]
        /\ local'[p] = j
        /\ \A q \in Procs : q # p => local'[q] = local[q]
    BY <1>1, Moves
  <1>4. /\ UNCHANGED records
        /\ workspace' \in [Attempts -> Trees] /\ environment' \in Environments
        /\ calls' \in 0..MaxCalls /\ edits' \in 0..MaxEdits /\ failures' \in 0..MaxFailures
        /\ answers' \subseteq Events(ledger)
    BY DEF content, IInv, Typed, RunsSound
  <1> QED
    BY <1>2, <1>3, <1>4, QuietStep

(***************************************************************************)
(* Calls.                                                                  *)
(***************************************************************************)
\* The identities of one kind of event.
LEMMA IdsTyped == ASSUME IInv, NEW kind PROVE IdsOf(kind) \subseteq Ids
  <1>1. \A e \in Events(ledger) : EventId(e) \in Ids
    BY EventsTyped, EventFields DEF IInv, Typed
  <1> QED
    BY <1>1 DEF IdsOf

\* Whatever a caller writes is a document.
LEMMA DocumentsTyped == ASSUME IInv, NEW a \in Attempts PROVE Documents(a) \subseteq Document
  <1> SUFFICES ASSUME NEW d \in Documents(a) PROVE d \in Document
    OBVIOUS
  <1>1. IdsOf("result") \subseteq Ids /\ IdsOf("assessment") \subseteq Ids
    BY IdsTyped
  <1>2. {{}} \cup {{id} : id \in IdsOf("result")} \subseteq SUBSET Ids
    BY <1>1
  <1>3. CASE d \in {Definition(a, x) : x \in Definitions}
    BY <1>3 DEF Definition, Document, DefinitionRow
  <1>4. CASE d \in [kind : {"intervention"}, attempt : {a}, request : Requests]
    BY <1>4 DEF Document, InterventionRow
  <1>5. CASE d \in [kind : {"assessment"}, attempt : {a}, request : Requests,
                    definition : Definitions, criterion : Criteria, result : {"met", "not_met"},
                    refs : {{}} \cup {{id} : id \in IdsOf("result")},
                    supersedes : {None} \cup IdsOf("assessment"), tree : {None}]
    <2> DEFINE refs == {{}} \cup {{id} : id \in IdsOf("result")}
               heads == {None} \cup IdsOf("assessment")
    <2>1. refs \subseteq SUBSET Ids /\ heads \subseteq Ids \cup {None}
      BY <1>1, <1>2
    <2>2. d \in [kind : {"assessment"}, attempt : {a}, request : Requests,
                    definition : Definitions, criterion : Criteria, result : {"met", "not_met"},
                    refs : refs, supersedes : heads, tree : {None}]
      BY <1>5
    <2> HIDE DEF refs, heads
    <2>3. d \in AssessmentRow(Trees \cup {None})
      BY <2>1, <2>2 DEF AssessmentRow
    <2> QED
      BY <2>3 DEF Document
  <1> QED
    BY <1>3, <1>4, <1>5 DEF Documents

LEMMA CallStep ==
    ASSUME IInv, NEW p \in Procs, CallRecord(p) \/ CallValidate(p) \/ CallEnd(p)
    PROVE  IInv'
  <1>1. /\ local[p] = Idle /\ calls' \in 0..MaxCalls
        /\ UNCHANGED <<records, content, lock, failures, answers>>
    BY BoundsAssumption DEF CallRecord, CallValidate, CallEnd, Called, runtime, records,
                            IInv, Typed
  <1>2. answers' \subseteq Events(ledger)
    BY <1>1 DEF IInv, RunsSound
  <1>3. \E j \in Job : Now(p, j) /\ j.at \in {"admit", "admit_run", "end"}
    <2>1. CASE CallRecord(p)
      <3>1. PICK a \in Attempts : \E d \in Documents(a) :
                Now(p, [at |-> "admit", attempt |-> a, document |-> d])
        BY <2>1 DEF CallRecord, Now
      <3>2. PICK d \in Document : Now(p, [at |-> "admit", attempt |-> a, document |-> d])
        BY <3>1, DocumentsTyped
      <3>3. [at |-> "admit", attempt |-> a, document |-> d] \in Job
        BY DEF Job, Calling
      <3> QED
        BY <3>2, <3>3
    <2>2. CASE CallValidate(p)
      <3>1. PICK a \in Attempts, r \in Requests :
                Now(p, [at |-> "admit_run", attempt |-> a, run |-> r])
        BY <2>2 DEF CallValidate, Now
      <3>2. [at |-> "admit_run", attempt |-> a, run |-> r] \in Job
        BY DEF Job, Asking
      <3> QED
        BY <3>1, <3>2
    <2>3. CASE CallEnd(p)
      <3>1. PICK a \in Attempts : Now(p, [at |-> "end", attempt |-> a])
        BY <2>3 DEF CallEnd, Now
      <3>2. [at |-> "end", attempt |-> a] \in Job
        BY DEF Job, Ending
      <3> QED
        BY <3>1, <3>2
    <2> QED
      BY <2>1, <2>2, <2>3
  <1>4. PICK j \in Job : Now(p, j) /\ j.at \in {"admit", "admit_run", "end"}
    BY <1>3
  <1>5. JobSound(j) /\ j.at \notin Holding
    BY <1>4 DEF JobSound, Holding
  <1> QED
    BY <1>1, <1>2, <1>4, <1>5, OutsideStep

(***************************************************************************)
(* Admissions and observations.                                            *)
(***************************************************************************)
\* The record a process holds, by its stage.
LEMMA StageJob ==
    ASSUME IInv, NEW p \in Procs, local[p].at # "idle"
    PROVE  /\ local[p] # Idle /\ JobSound(local[p])
           /\ local[p].at = "admit" => local[p] \in Calling
           /\ local[p].at \in {"observe", "append"} => local[p] \in Writing
           /\ local[p].at = "admit_run" => local[p] \in Asking
           /\ local[p].at = "bind" => local[p] \in Binding
           /\ local[p].at \in {"intend", "run"} => local[p] \in Running
           /\ local[p].at = "receipt" => local[p] \in Answering
           /\ local[p].at \in {"end", "measure"} => local[p] \in Ending
  <1>1. local[p] # Idle
    BY DEF Idle
  <1>2. local[p] \in Job /\ JobSound(local[p])
    BY <1>1, ActiveJob
  <1> QED
    BY <1>1, <1>2
    DEF Job, Calling, Writing, Asking, Binding, Running, Answering, Ending

LEMMA RowTyped == ASSUME IInv, NEW a \in Attempts PROVE Row(a) \in Rows /\ Row(a)[1] = status[a] /\ Row(a)[2] = artifact[a]
  BY DEF IInv, Typed, Row, Rows

LEMMA AdmitRecordStep ==
    ASSUME IInv, NEW p \in Procs, AdmitRecord(p)
    PROVE  IInv'
  <1>1. local[p].at = "admit" /\ local[p] # Idle /\ local[p] \in Calling
    BY StageJob DEF AdmitRecord
  <1>2. PICK d \in Document : d = local[p].document
    BY <1>1 DEF Calling
  <1>3. d.attempt \in Attempts
    BY DEF Document, DefinitionRow, InterventionRow, AssessmentRow
  <1>4. UNCHANGED <<records, content, calls, failures, answers>>
    BY DEF AdmitRecord, runtime, records
  <1>5. CASE Recordable(d)
    <2>1. PICK a \in Attempts, row \in Rows, found \in SUBSET Event, at \in {"observe", "append"} :
              /\ a = d.attempt /\ row = Row(a) /\ found = Find(ledger, EventId(d))
              /\ at = IF d.kind = "assessment" THEN "observe" ELSE "append"
      <3>1. Find(ledger, EventId(d)) \in SUBSET Event
        BY EventsTyped DEF Find, IInv, Typed
      <3>2. Row(d.attempt) \in Rows
        BY <1>3, RowTyped
      <3> QED
        BY <1>3, <3>1, <3>2
    <2>2. PICK j : j = [at |-> at, attempt |-> a, document |-> d, row |-> row, recorded |-> found]
      OBVIOUS
    <2>3. j \in Job /\ j.at \in Holding /\ j.attempt = a
      BY <2>2 DEF Job, Writing, Holding
    <2>4. Locked(p, a) /\ Now(p, j)
      BY <1>2, <1>5, <2>1, <2>2 DEF AdmitRecord
    <2>5. status[a] # "none" /\ row[1] = status[a]
      BY <1>5, <2>1, RowTyped DEF Recordable
    <2>6. found \subseteq Events(ledger) /\ \A e \in found : EventId(e) = EventId(d)
      BY <2>1 DEF Find
    <2>7. JobSound(j)
      BY <2>1, <2>2, <2>5, <2>6 DEF JobSound, WriterSound
    <2> QED
      BY <1>1, <1>4, <2>3, <2>4, <2>7, TakeStep DEF Holding
  <1>6. CASE ~Recordable(d)
    <2>1. Now(p, Idle) /\ UNCHANGED lock
      BY <1>2, <1>6 DEF AdmitRecord, Refused
    <2>2. calls' \in 0..MaxCalls /\ answers' \subseteq Events(ledger)
      BY <1>4 DEF IInv, Typed, RunsSound
    <2> QED
      BY <1>1, <1>4, <2>1, <2>2, OutsideStep DEF Holding
  <1> QED
    BY <1>5, <1>6

\* A tree that was found is one.
LEMMA SourceTreeFound ==
    ASSUME IInv, NEW p \in Procs, local[p].at = "observe", SourceTree(local[p]) # None
    PROVE  /\ SourceTree(local[p]) \in Trees
           /\ local[p].recorded = {} /\ local[p].row[1] # "in_progress" =>
                  SourceTree(local[p]) = local[p].row[2]
  <1>1. local[p] \in Writing /\ JobSound(local[p])
    BY StageJob
  <1>2. PICK l : l = local[p]
    OBVIOUS
  <1>3. l.recorded \subseteq Event /\ l.row[2] \in Trees \cup {None} /\ l.attempt \in Attempts
    BY <1>1, <1>2 DEF Writing, Rows
  <1>4. l.document.kind = "assessment" /\ \A e \in l.recorded : EventId(e) = EventId(l.document)
    BY <1>1, <1>2 DEF JobSound, WriterSound
  <1>5. \A e \in l.recorded : e.kind = "assessment" /\ e.tree \in Trees
    <2>1. \A e \in l.recorded : e.kind = "assessment"
      BY <1>4 DEF EventId
    <2> QED
      BY <1>3, <2>1, EventFields DEF AssessmentRow
  <1>6. CASE l.recorded # {}
    <2>1. (CHOOSE e \in l.recorded : TRUE) \in l.recorded
      BY <1>6
    <2> QED
      BY <1>2, <1>5, <1>6, <2>1 DEF SourceTree
  <1>7. CASE l.recorded = {}
    <2>1. workspace[l.attempt] \in Trees
      BY <1>3 DEF IInv, Typed
    <2> QED
      BY <1>2, <1>3, <1>7, <2>1 DEF SourceTree
  <1> QED
    BY <1>6, <1>7

LEMMA ObserveTreeStep ==
    ASSUME IInv, NEW p \in Procs, ObserveTree(p)
    PROVE  IInv'
  <1>1. local[p].at = "observe" /\ local[p] # Idle /\ local[p] \in Writing /\ JobSound(local[p])
    BY StageJob DEF ObserveTree
  <1>2. UNCHANGED <<records, content, calls, failures, answers>>
    BY DEF ObserveTree, runtime, records
  <1>3. CASE SourceTree(local[p]) = None
    <2>1. Leave(p)
      BY <1>3 DEF ObserveTree
    <2>2. failures' \in 0..MaxFailures
      BY <1>2 DEF IInv, Typed
    <2> QED
      BY <1>2, <2>1, <2>2, LeaveStep
  <1>4. CASE SourceTree(local[p]) # None
    <2>1. PICK l \in Writing, t \in Trees :
              /\ l = local[p] /\ t = SourceTree(l)
              /\ l.recorded = {} /\ l.row[1] # "in_progress" => t = l.row[2]
      BY <1>1, <1>4, SourceTreeFound
    <2>2. PICK d : d = l.document
      OBVIOUS
    <2>3. d \in AssessmentRow(Trees \cup {None})
      <3>1. d \in Document /\ d.kind = "assessment"
        BY <1>1, <2>1, <2>2 DEF Writing, JobSound, WriterSound
      <3> QED
        BY <3>1 DEF Document, DefinitionRow, InterventionRow, AssessmentRow
    <2>4. PICK c : c = [d EXCEPT !.tree = t]
      OBVIOUS
    <2>5. /\ c \in AssessmentRow(Trees \cup {None})
          /\ c.kind = d.kind /\ c.attempt = d.attempt /\ c.request = d.request /\ c.tree = t
      BY <2>3, <2>4 DEF AssessmentRow
    <2>6. PICK j : j = [l EXCEPT !.at = "append", !.document = c]
      OBVIOUS
    <2>7. /\ j \in Writing /\ j.at = "append" /\ j.attempt = l.attempt
          /\ j.document = c /\ j.row = l.row /\ j.recorded = l.recorded
      BY <2>5, <2>6 DEF Writing, Document
    <2>8. Keep(p, j)
      BY <1>4, <2>1, <2>2, <2>4, <2>6 DEF ObserveTree, Writing
    <2>9. WriterSound(l)
      BY <1>1, <2>1 DEF JobSound
    <2>10. JobSound(j)
      BY <2>1, <2>2, <2>5, <2>7, <2>9 DEF JobSound, WriterSound, EventId
    <2> QED
      BY <1>1, <1>2, <2>1, <2>7, <2>8, <2>10, HolderStep DEF Job, Holding
  <1> QED
    BY <1>3, <1>4

LEMMA AdmitRunStep ==
    ASSUME IInv, NEW p \in Procs, AdmitRun(p)
    PROVE  IInv'
  <1>1. local[p].at = "admit_run" /\ local[p] \in Asking
    BY StageJob DEF AdmitRun
  <1>2. PICK l \in Asking : l = local[p]
    BY <1>1
  <1>3. UNCHANGED <<records, content, calls, failures, answers>>
    BY DEF AdmitRun, runtime, records
  <1>4. l.attempt \in Attempts /\ l.run \in Requests
    BY DEF Asking
  <1>5. PICK row \in Rows, c \in Commands :
            row = Row(l.attempt) /\ c = CommandsOf(workspace[l.attempt])
    <2>1. workspace[l.attempt] \in Trees
      BY <1>4 DEF IInv, Typed
    <2>2. CommandsOf(workspace[l.attempt]) \in Commands
      BY <2>1 DEF Commands
    <2> QED
      BY <1>4, <2>2, RowTyped
  <1>6. PICK j : j = [at |-> "bind", attempt |-> l.attempt, run |-> l.run, row |-> row, commands |-> c]
    OBVIOUS
  <1>7. j \in Job /\ j.at = "bind" /\ j.attempt = l.attempt /\ j.run = l.run
    BY <1>4, <1>6 DEF Job, Binding
  <1>8. Locked(p, l.attempt) /\ Now(p, j)
    BY <1>2, <1>5, <1>6 DEF AdmitRun
  <1>9. Find(ledger, <<"intent", l.attempt, l.run>>) = {}
    BY <1>2 DEF AdmitRun, Runnable, IntentId
  <1>10. JobSound(j)
    BY <1>7, <1>9 DEF JobSound
  <1> QED
    BY <1>1, <1>3, <1>4, <1>7, <1>8, <1>10, TakeStep DEF Holding

LEMMA BindStep ==
    ASSUME IInv, NEW p \in Procs, Bind(p)
    PROVE  IInv'
  <1>1. local[p].at = "bind" /\ local[p] # Idle /\ local[p] \in Binding /\ JobSound(local[p])
    BY StageJob DEF Bind
  <1>2. UNCHANGED <<records, content, calls, failures, answers>>
    BY DEF Bind, runtime, records
  <1>3. CASE ~SameCommands(local[p])
    <2>1. Leave(p) /\ failures' \in 0..MaxFailures
      BY <1>2, <1>3 DEF Bind, IInv, Typed
    <2> QED
      BY <1>2, <2>1, LeaveStep
  <1>4. CASE SameCommands(local[p])
    <2>1. PICK l \in Binding : l = local[p]
      BY <1>1
    <2>2. l.attempt \in Attempts /\ l.run \in Requests /\ l.row \in Rows /\ l.commands \in Commands
      BY DEF Binding
    <2>3. PICK b \in Bound : b = Observed(l.attempt)
      <3>1. workspace[l.attempt] \in Trees /\ environment \in Environments
        BY <2>2 DEF IInv, Typed
      <3> QED
        BY <3>1 DEF Bound, Bindings, Observed
    <2>4. PICK j : j = [at |-> "intend", attempt |-> l.attempt, run |-> l.run, row |-> l.row,
                        commands |-> l.commands, binding |-> b]
      OBVIOUS
    <2>5. j \in Job /\ j.at = "intend" /\ j.attempt = l.attempt /\ j.run = l.run
      BY <2>2, <2>4 DEF Job, Running
    <2>6. Keep(p, j)
      BY <1>4, <2>1, <2>3, <2>4 DEF Bind
    <2>7. JobSound(j)
      BY <1>1, <2>1, <2>5 DEF JobSound
    <2> QED
      BY <1>1, <1>2, <2>1, <2>5, <2>6, <2>7, HolderStep DEF Holding
  <1> QED
    BY <1>3, <1>4

(***************************************************************************)
(* Appends.                                                                *)
(***************************************************************************)
\* A receipt that may be cited is of a run of the assessed tree's commands.
LEMMA CitesWhatRan ==
    ASSUME IInv, NEW e \in AssessmentRow(Trees), e.result = "met", NEW ref,
           Citable(ledger, e, ref)
    PROVE  Cited(e, ref)
  <1>1. PICK receipt \in Find(ledger, ref) : \E intent \in Find(ledger, IntentOf(receipt)) :
            /\ receipt.kind = "result"
            /\ receipt.after # None /\ Matching(receipt.after, intent.binding)
            /\ receipt.after.tree = e.tree
            /\ receipt.passed
    BY DEF Citable
  <1>2. PICK intent \in Find(ledger, IntentOf(receipt)) :
            receipt.after # None /\ receipt.after = intent.binding
    BY <1>1 DEF Matching
  <1>3. /\ receipt \in Events(ledger) /\ EventId(receipt) = ref
        /\ intent \in Events(ledger) /\ EventId(intent) = IntentOf(receipt)
    BY DEF Find
  <1>4. receipt \in ResultRow
    BY <1>1, <1>3, EventsTyped, EventFields DEF IInv, Typed
  <1>5. receipt.after \in Bound
    BY <1>2, <1>4 DEF ResultRow
  <1>6. receipt.after.commands = CommandsOf(e.tree)
    BY <1>1, <1>5 DEF Bound
  <1>7. Ran(receipt) /\ Intended(receipt)
    BY <1>1, <1>3 DEF IInv, RunsSound
  <1>8. intent.binding.commands = receipt.commands
    BY <1>3, <1>7 DEF Intended, IInv, LedgerSound
  <1>9. receipt.commands = CommandsOf(e.tree)
    BY <1>2, <1>6, <1>8
  <1>10. ref[2] = receipt.attempt /\ ref[3] = receipt.request
    BY <1>3 DEF EventId
  <1> QED
    BY <1>1, <1>3, <1>7, <1>9, <1>10 DEF Cited, Ran

\* An event that comes leaves what ran, and what is cited, sound.
LEMMA RunsKept ==
    ASSUME IInv, executed' = executed, NEW e,
           Events(ledger') = Events(ledger) \cup {e},
           e.kind = "result" => Ran(e) /\ Intended(e),
           e.kind = "assessment" /\ e.result = "met" => \A ref \in e.refs : Cited(e, ref),
           answers' \subseteq Events(ledger')
    PROVE  RunsSound'
  <1>1. \A f \in Events(ledger') : f.kind = "result" => Ran(f) /\ Intended(f)
    BY DEF IInv, RunsSound
  <1>2. \A f \in Events(ledger') : f.kind = "result" => (Ran(f) /\ Intended(f))'
    BY <1>1 DEF Ran, Intended
  <1>3. \A f \in Events(ledger') : f.kind = "assessment" /\ f.result = "met" =>
            \A ref \in f.refs : Cited(f, ref)
    BY DEF IInv, RunsSound
  <1>4. \A f \in Events(ledger') : f.kind = "assessment" /\ f.result = "met" =>
            \A ref \in f.refs : (Cited(f, ref))'
    BY <1>3 DEF Cited
  <1>5. \A a \in Attempts, r \in Requests :
            executed[a][r] # << >> => Find(ledger', <<"intent", a, r>>) # {}
    BY DEF IInv, RunsSound, Find
  <1> QED
    BY <1>2, <1>4, <1>5 DEF RunsSound

\* An event that was there, or was admitted, cites runs that happened.
LEMMA AppendCites ==
    ASSUME IInv, NEW e \in Event, Append1(e), e.kind = "assessment", e.result = "met"
    PROVE  \A ref \in e.refs : Cited(e, ref)
  <1>1. CASE e \in Events(ledger)
    BY <1>1 DEF IInv, RunsSound
  <1>2. CASE e \notin Events(ledger)
    <2>1. \A ref \in e.refs : Citable(ledger, e, ref)
      BY <1>2 DEF Append1, Admits, AdmitsAssessment
    <2>2. e \in AssessmentRow(Trees)
      BY EventFields
    <2> QED
      BY <2>1, <2>2, CitesWhatRan
  <1> QED
    BY <1>1, <1>2

\* A receipt that was there, or was admitted, has its intent.
LEMMA AppendIntended ==
    ASSUME IInv, NEW e \in Event, Append1(e), e.kind = "result"
    PROVE  Intended(e)
  <1>1. CASE e \in Events(ledger)
    BY <1>1 DEF IInv, RunsSound
  <1>2. CASE e \notin Events(ledger)
    BY <1>2 DEF Append1, Admits, AdmitsResult, Intended, Find
  <1> QED
    BY <1>1, <1>2

\* An append with which a process leaves.
LEMMA LastAppendStep ==
    ASSUME IInv, NEW p \in Procs, Leave(p), NEW e \in Event, e.kind # "intent", Append1(e),
           e.kind = "result" => Ran(e),
           UNCHANGED <<runtime, content, executed, calls, failures>>,
           answers' \subseteq answers \cup {e}
    PROVE  IInv'
  <1>1. /\ Mutex' /\ lock' \in [Attempts -> Procs \cup {None}]
        /\ local' \in [Procs -> Job \cup {Idle}] /\ local'[p] = Idle
        /\ \A q \in Procs : q # p => local'[q] = local[q]
    BY MutexLeft
  <1>2. UNCHANGED <<status, artifact, workspace, environment, edits, executed, calls, failures>>
    BY DEF runtime, content
  <1>3. /\ ledger' \in Seq(Event)
        /\ Events(ledger') = Events(ledger) \cup {e}
        /\ LedgerSound'
    BY <1>2, AppendSound
  <1>4. answers' \subseteq Events(ledger')
    BY <1>3 DEF IInv, RunsSound
  <1>5. RunsSound'
    BY <1>2, <1>3, <1>4, AppendCites, AppendIntended, RunsKept
  <1>6. \A a \in Attempts, r \in Requests :
            Find(ledger', <<"intent", a, r>>) = Find(ledger, <<"intent", a, r>>)
    <2>1. \A a \in Attempts, r \in Requests : EventId(e) # <<"intent", a, r>>
      BY DEF EventId
    <2> QED
      BY <1>3, <2>1, FindOther
  <1>7. JobsSound'
    BY <1>1, <1>2, <1>3, <1>6, OthersSound
  <1>8. Typed'
    BY <1>1, <1>2, <1>3 DEF IInv, Typed
  <1> QED
    BY <1>1, <1>3, <1>5, <1>7, <1>8 DEF IInv

\* A document that is appended is an event.
LEMMA WrittenEvent ==
    ASSUME IInv, NEW p \in Procs, local[p].at = "append"
    PROVE  /\ local[p].document \in Event
           /\ local[p].document.kind \in {"definition", "intervention", "assessment"}
  <1>1. local[p] \in Writing /\ JobSound(local[p])
    BY StageJob
  <1>2. PICK d \in Document : d = local[p].document
    BY <1>1 DEF Writing
  <1>3. d.kind \in {"definition", "intervention", "assessment"}
    BY DEF Document, DefinitionRow, InterventionRow, AssessmentRow
  <1>4. d.kind = "assessment" => d.tree \in Trees
    BY <1>1, <1>2 DEF JobSound, WriterSound
  <1>5. d \in DefinitionRow \cup InterventionRow \cup AssessmentRow(Trees)
    BY <1>4 DEF Document, DefinitionRow, InterventionRow, AssessmentRow
  <1> QED
    BY <1>2, <1>3, <1>5 DEF Event

LEMMA AppendRecordStep ==
    ASSUME IInv, NEW p \in Procs, AppendRecord(p)
    PROVE  IInv'
  BY WrittenEvent, LastAppendStep DEF AppendRecord

LEMMA AppendResultStep ==
    ASSUME IInv, NEW p \in Procs, AppendResult(p)
    PROVE  IInv'
  <1>1. local[p].at = "receipt" /\ local[p] \in Answering /\ JobSound(local[p])
    BY StageJob DEF AppendResult
  <1>2. PICK e \in ResultRow : e = local[p].receipt
    BY <1>1 DEF Answering
  <1>3. e \in Event /\ e.kind = "result"
    BY DEF Event, ResultRow
  <1>4. Ran(e)
    BY <1>1, <1>2 DEF JobSound
  <1> QED
    BY <1>2, <1>3, <1>4, LastAppendStep DEF AppendResult

LEMMA MeasureStep ==
    ASSUME IInv, NEW p \in Procs, Measure(p)
    PROVE  IInv'
  <1>1. local[p] \in Ending
    BY StageJob DEF Measure
  <1>2. PICK e : e = [kind |-> "phase", attempt |-> local[p].attempt, request |-> "close"]
    OBVIOUS
  <1>3. e \in PhaseRow /\ e.kind = "phase"
    BY <1>1, <1>2 DEF Ending, PhaseRow
  <1>4. e \in Event
    BY <1>3 DEF Event
  <1>5. Leave(p) /\ Append1(e) /\ UNCHANGED <<runtime, content, executed, answers, calls, failures>>
    BY <1>2 DEF Measure
  <1> QED
    BY <1>3, <1>4, <1>5, LastAppendStep

LEMMA AppendIntentStep ==
    ASSUME IInv, NEW p \in Procs, AppendIntent(p)
    PROVE  IInv'
  <1>1. local[p].at = "intend" /\ local[p] # Idle /\ local[p] \in Running /\ JobSound(local[p])
    BY StageJob DEF AppendIntent
  <1>2. PICK l \in Running : l = local[p]
    BY <1>1
  <1>3. l.attempt \in Attempts /\ l.run \in Requests /\ l.binding \in Bound /\ l.at = "intend"
    BY <1>1, <1>2 DEF Running
  <1>4. PICK e : e = Intent(l)
    OBVIOUS
  <1>5. e \in IntentRow /\ e.kind = "intent" /\ EventId(e) = <<"intent", l.attempt, l.run>>
    BY <1>3, <1>4 DEF Intent, IntentRow, EventId
  <1>6. e \in Event
    BY <1>5 DEF Event
  <1>7. PICK j : j = [l EXCEPT !.at = "run"]
    OBVIOUS
  <1>8. /\ j \in Job /\ j # Idle /\ j.at = "run" /\ j.attempt = l.attempt /\ j.run = l.run
    BY <1>7, IdleIsNoJob DEF Running, Job
  <1>9. /\ Append1(e) /\ Now(p, j) /\ UNCHANGED lock
        /\ UNCHANGED <<status, artifact, workspace, environment, edits, executed, answers, calls,
                       failures>>
    BY <1>2, <1>4, <1>7 DEF AppendIntent, Keep, runtime, content
  <1>10. Mutex' /\ lock' \in [Attempts -> Procs \cup {None}]
    BY <1>1, <1>2, <1>3, <1>8, <1>9, MutexKept DEF Holding
  <1>11. /\ local' \in [Procs -> Job \cup {Idle}] /\ local'[p] = j
         /\ \A q \in Procs : q # p => local'[q] = local[q]
    BY <1>8, <1>9, Moves
  <1>12. /\ ledger' \in Seq(Event)
         /\ Events(ledger') = Events(ledger) \cup {e}
         /\ LedgerSound'
    BY <1>6, <1>9, AppendSound
  <1>13. RunsSound'
    <2>1. answers' \subseteq Events(ledger')
      BY <1>9, <1>12 DEF IInv, RunsSound
    <2> QED
      BY <1>5, <1>9, <1>12, <2>1, RunsKept
  <1>14. executed[l.attempt][l.run] = << >>
    BY <1>1, <1>2, <1>3 DEF JobSound, IInv, RunsSound
  <1>15. Find(ledger', <<"intent", l.attempt, l.run>>) # {}
    BY <1>5, <1>12 DEF Find
  <1>16. JobSound(local[p])'
    BY <1>8, <1>9, <1>11, <1>14, <1>15 DEF JobSound
  <1>17. lock[l.attempt] = p
    BY <1>1, <1>2, <1>3 DEF IInv, Mutex, Holding
  <1>18. ASSUME NEW a \in Attempts, lock[a] # p, NEW r \in Requests
         PROVE  Find(ledger', <<"intent", a, r>>) = Find(ledger, <<"intent", a, r>>)
    <2>1. EventId(e) # <<"intent", a, r>>
      BY <1>5, <1>17, <1>18
    <2> QED
      BY <1>12, <2>1, FindOther
  <1>19. JobsSound'
    BY <1>9, <1>11, <1>12, <1>16, <1>18, OthersSound
  <1>20. Typed'
    BY <1>9, <1>10, <1>11, <1>12 DEF IInv, Typed
  <1> QED
    BY <1>10, <1>12, <1>13, <1>19, <1>20 DEF IInv

LEMMA RunCommandsStep ==
    ASSUME IInv, NEW p \in Procs, RunCommands(p)
    PROVE  IInv'
  <1>1. local[p].at = "run" /\ local[p] # Idle /\ local[p] \in Running /\ JobSound(local[p])
    BY StageJob DEF RunCommands
  <1>2. PICK l \in Running : l = local[p]
    BY <1>1
  <1>3. l.attempt \in Attempts /\ l.run \in Requests /\ l.commands \in Commands /\ l.at = "run"
    BY <1>1, <1>2 DEF Running
  <1>4. Observed(l.attempt) \in Bound
    <2>1. workspace[l.attempt] \in Trees /\ environment \in Environments
      BY <1>3 DEF IInv, Typed
    <2> QED
      BY <2>1 DEF Bound, Bindings, Observed
  <1>5. PICK e \in ResultRow :
            /\ e.attempt = l.attempt /\ e.request = l.run /\ e.commands = l.commands
            /\ Keep(p, [at |-> "receipt", attempt |-> l.attempt, run |-> l.run, receipt |-> e])
    <2>1. PICK passed \in BOOLEAN, after \in {Observed(l.attempt), None} :
              Keep(p, [at |-> "receipt", attempt |-> l.attempt, run |-> l.run,
                       receipt |-> Receipt(l, passed, after)])
      BY <1>2 DEF RunCommands
    <2>2. after \in Bound \cup {None}
      BY <1>4
    <2>3. Receipt(l, passed, after) \in ResultRow
      BY <1>3, <2>2 DEF Receipt, ResultRow
    <2>4. /\ Receipt(l, passed, after).attempt = l.attempt
          /\ Receipt(l, passed, after).request = l.run
          /\ Receipt(l, passed, after).commands = l.commands
      BY DEF Receipt
    <2> QED
      BY <2>1, <2>3, <2>4
  <1>6. PICK j : j = [at |-> "receipt", attempt |-> l.attempt, run |-> l.run, receipt |-> e]
    OBVIOUS
  <1>7. /\ j \in Job /\ j # Idle /\ j.at = "receipt" /\ j.attempt = l.attempt /\ j.run = l.run
        /\ j.receipt = e
    BY <1>3, <1>6, IdleIsNoJob DEF Job, Answering
  <1>8. /\ Now(p, j) /\ UNCHANGED lock
        /\ UNCHANGED <<status, artifact, workspace, environment, edits, ledger, answers, calls,
                       failures>>
    BY <1>5, <1>6 DEF RunCommands, Keep, runtime, content
  <1>9. Find(ledger, <<"intent", l.attempt, l.run>>) # {} /\ executed[l.attempt][l.run] = << >>
    BY <1>1, <1>2 DEF JobSound
  <1>10. executed' = [executed EXCEPT ![l.attempt][l.run] = << l.commands >>]
    <2>1. executed' = [executed EXCEPT ![l.attempt][l.run] =
                           Append(executed[l.attempt][l.run], l.commands)]
      BY <1>2 DEF RunCommands
    <2>2. Append(<< >>, l.commands) = << l.commands >>
      OBVIOUS
    <2> QED
      BY <1>9, <2>1, <2>2
  <1>11. /\ executed' \in [Attempts -> [Requests -> {<< >>} \cup {<< c >> : c \in Commands}]]
         /\ executed'[l.attempt][l.run] = << l.commands >>
         /\ \A a \in Attempts : a # l.attempt => executed'[a] = executed[a]
         /\ \A a \in Attempts, r \in Requests :
               executed[a][r] # << >> => executed'[a][r] = executed[a][r]
         /\ \A a \in Attempts, r \in Requests :
               a # l.attempt \/ r # l.run => executed'[a][r] = executed[a][r]
    BY <1>3, <1>9, <1>10 DEF IInv, Typed
  <1>12. Mutex' /\ lock' \in [Attempts -> Procs \cup {None}]
    BY <1>1, <1>2, <1>3, <1>7, <1>8, MutexKept DEF Holding
  <1>13. /\ local' \in [Procs -> Job \cup {Idle}] /\ local'[p] = j
         /\ \A q \in Procs : q # p => local'[q] = local[q]
    BY <1>7, <1>8, Moves
  <1>14. LedgerSound'
    BY <1>8 DEF IInv, LedgerSound, RowAdmits, Fresh, AdmitsDefinition, AdmitsAssessment,
                AdmitsResult
  <1>15. RunsSound'
    <2>1. \A f \in Events(ledger) : f \in Event
      BY EventsTyped DEF IInv, Typed
    <2>2. ASSUME NEW f \in Events(ledger), f.kind = "result" PROVE (Ran(f) /\ Intended(f))'
      <3>1. f \in ResultRow /\ Ran(f) /\ Intended(f)
        BY <2>1, <2>2, EventFields DEF IInv, RunsSound
      <3>2. executed[f.attempt][f.request] # << >> /\ f.attempt \in Attempts /\ f.request \in Requests
        BY <3>1 DEF Ran, ResultRow
      <3>3. executed'[f.attempt][f.request] = executed[f.attempt][f.request]
        BY <1>11, <3>2
      <3> QED
        BY <1>8, <3>1, <3>3 DEF Ran, Intended
    <2>3. ASSUME NEW f \in Events(ledger), f.kind = "assessment", f.result = "met",
                 NEW ref \in f.refs
          PROVE  (Cited(f, ref))'
      <3>1. Cited(f, ref)
        BY <2>3 DEF IInv, RunsSound
      <3>2. ref[2] \in Attempts /\ ref[3] \in Requests
        <4>1. PICK receipt \in Events(ledger) : receipt.kind = "result" /\ EventId(receipt) = ref
          BY <3>1 DEF Cited
        <4> QED
          BY <2>1, <4>1, EventFields DEF EventId, ResultRow
      <3>3. executed'[ref[2]][ref[3]] = executed[ref[2]][ref[3]]
        BY <1>11, <3>1, <3>2 DEF Cited
      <3> QED
        BY <1>8, <3>1, <3>3 DEF Cited
    <2>4. \A a \in Attempts, r \in Requests :
              executed'[a][r] # << >> => Find(ledger', <<"intent", a, r>>) # {}
      <3> TAKE a \in Attempts, r \in Requests
      <3>1. CASE a = l.attempt /\ r = l.run
        BY <1>8, <1>9, <3>1
      <3>2. CASE a # l.attempt \/ r # l.run
        <4>1. executed'[a][r] = executed[a][r]
          BY <1>11, <3>2
        <4> QED
          BY <1>8, <4>1 DEF IInv, RunsSound
      <3> QED
        BY <3>1, <3>2
    <2> QED
      BY <1>8, <2>2, <2>3, <2>4 DEF IInv, RunsSound
  <1>16. JobSound(local[p])'
    BY <1>5, <1>7, <1>11, <1>13 DEF JobSound, Ran
  <1>17. lock[l.attempt] = p
    BY <1>1, <1>2, <1>3 DEF IInv, Mutex, Holding
  <1>18. JobsSound'
    BY <1>8, <1>11, <1>13, <1>16, <1>17, OthersSound
  <1>19. Typed'
    BY <1>8, <1>11, <1>12, <1>13 DEF IInv, Typed
  <1> QED
    BY <1>12, <1>14, <1>15, <1>18, <1>19 DEF IInv

(***************************************************************************)
(* The lifecycle and the environment.                                      *)
(***************************************************************************)
\* An attempt that begins or ends, an edit: no process does anything.
LEMMA WorldStep ==
    ASSUME IInv, UNCHANGED <<ledger, executed, answers, lock, local, calls, failures>>,
           status' \in [Attempts -> {"none", "in_progress", "ended"}],
           artifact' \in [Attempts -> Trees \cup {None}],
           workspace' \in [Attempts -> Trees], environment' \in Environments,
           edits' \in 0..MaxEdits,
           \A a \in Attempts : status[a] # "none" => status'[a] # "none"
    PROVE  IInv'
  <1>1. Typed' /\ Mutex'
    BY DEF IInv, Typed, Mutex
  <1>2. Events(ledger) \subseteq Event
    BY EventsTyped DEF IInv, Typed
  <1>3. \A e \in Events(ledger) : e.attempt \in Attempts
    BY <1>2, EventFields
  <1>4. LedgerSound'
    BY <1>3 DEF IInv, LedgerSound, RowAdmits, Fresh, AdmitsDefinition, AdmitsAssessment,
                AdmitsResult
  <1>5. RunsSound'
    BY DEF IInv, RunsSound, Ran, Intended, Cited
  <1>6. ASSUME NEW p \in Procs, local[p] # Idle PROVE JobSound(local[p])'
    <2>1. JobSound(local[p]) /\ local[p].attempt \in Attempts
      BY <1>6, ActiveJob
      DEF Job, Calling, Writing, Asking, Binding, Running, Answering, Ending
    <2> QED
      BY <2>1 DEF JobSound, WriterSound, Ran
  <1>7. JobsSound'
    BY <1>6 DEF JobsSound
  <1> QED
    BY <1>1, <1>4, <1>5, <1>7 DEF IInv

LEMMA EndedKept ==
    ASSUME IInv, NEW a \in Attempts, NEW left \in Trees \cup {None}, Ended(a, left)
    PROVE  /\ status' \in [Attempts -> {"none", "in_progress", "ended"}]
           /\ artifact' \in [Attempts -> Trees \cup {None}]
           /\ status'[a] = "ended"
           /\ \A b \in Attempts : status[b] # "none" => status'[b] # "none"
  BY DEF IInv, Typed, Ended

LEMMA EnvironmentStep ==
    ASSUME IInv, NEW a \in Attempts, Begin(a) \/ Recover(a) \/ Edit(a)
    PROVE  IInv'
  <1>1. /\ status \in [Attempts -> {"none", "in_progress", "ended"}]
        /\ artifact \in [Attempts -> Trees \cup {None}]
        /\ workspace \in [Attempts -> Trees] /\ environment \in Environments
        /\ edits \in 0..MaxEdits
    BY DEF IInv, Typed
  <1>2. CASE Begin(a)
    <2>1. /\ status' \in [Attempts -> {"none", "in_progress", "ended"}]
          /\ \A b \in Attempts : status[b] # "none" => status'[b] # "none"
      BY <1>1, <1>2 DEF Begin
    <2> QED
      BY <1>1, <1>2, <2>1, WorldStep DEF Begin, content
  <1>3. CASE Recover(a)
    <2>1. workspace[a] \in Trees \cup {None} /\ Ended(a, workspace[a])
      BY <1>1, <1>3 DEF Recover
    <2> QED
      BY <1>1, <1>3, <2>1, EndedKept, WorldStep DEF Recover, content
  <1>4. CASE Edit(a)
    <2>1. /\ workspace' \in [Attempts -> Trees] /\ environment' \in Environments
          /\ edits' \in 0..MaxEdits
      BY <1>1, <1>4, BoundsAssumption DEF Edit
    <2> QED
      BY <1>1, <1>4, <2>1, WorldStep DEF Edit, runtime
  <1> QED
    BY <1>2, <1>3, <1>4

LEMMA EndLockedStep ==
    ASSUME IInv, NEW p \in Procs, EndLocked(p)
    PROVE  IInv'
  <1>1. local[p].at = "end" /\ local[p] # Idle /\ local[p] \in Ending
    BY StageJob DEF EndLocked
  <1>2. PICK a \in Attempts : a = local[p].attempt
    BY <1>1 DEF Ending
  <1>3. PICK j : j = [at |-> "measure", attempt |-> a]
    OBVIOUS
  <1>4. j \in Job /\ j # Idle /\ j.at = "measure" /\ j.attempt = a
    BY <1>3, IdleIsNoJob DEF Job, Ending
  <1>5. /\ Now(p, j)
        /\ UNCHANGED <<workspace, environment, edits, ledger, lock, executed, answers, calls,
                       failures>>
    BY <1>2, <1>3 DEF EndLocked, Now, content
  <1>6. PICK left \in Trees \cup {None} : Ended(a, left)
    <2>1. workspace[a] \in Trees
      BY DEF IInv, Typed
    <2> QED
      BY <1>2, <2>1 DEF EndLocked
  <1>7. /\ status' \in [Attempts -> {"none", "in_progress", "ended"}]
        /\ artifact' \in [Attempts -> Trees \cup {None}]
        /\ status'[a] = "ended"
        /\ \A b \in Attempts : status[b] # "none" => status'[b] # "none"
    BY <1>6, EndedKept
  <1>8. Mutex' /\ lock' \in [Attempts -> Procs \cup {None}]
    BY <1>1, <1>4, <1>5, MutexKept DEF Holding
  <1>9. /\ local' \in [Procs -> Job \cup {Idle}] /\ local'[p] = j
        /\ \A q \in Procs : q # p => local'[q] = local[q]
    BY <1>4, <1>5, Moves
  <1>10. \A e \in Events(ledger) : e.attempt \in Attempts
    BY EventsTyped, EventFields DEF IInv, Typed
  <1>11. LedgerSound'
    BY <1>5, <1>7, <1>10
    DEF IInv, LedgerSound, RowAdmits, Fresh, AdmitsDefinition, AdmitsAssessment, AdmitsResult
  <1>12. RunsSound'
    BY <1>5 DEF IInv, RunsSound, Ran, Intended, Cited
  <1>13. JobSound(local[p])'
    BY <1>4, <1>7, <1>9 DEF JobSound
  <1>14. JobsSound'
    BY <1>5, <1>7, <1>9, <1>13, OthersSound
  <1>15. Typed'
    BY <1>5, <1>7, <1>8, <1>9 DEF IInv, Typed
  <1> QED
    BY <1>8, <1>11, <1>12, <1>14, <1>15 DEF IInv

\* Refusals, replays and deaths.
LEMMA RefuseStep ==
    ASSUME IInv, NEW p \in Procs,
           RefuseRecord(p) \/ RefuseIntent(p) \/ ReplayRun(p) \/ RefuseRun(p) \/ TooLate(p) \/ Fail(p)
    PROVE  IInv'
  <1>1. /\ failures \in 0..MaxFailures /\ calls \in 0..MaxCalls /\ MaxFailures \in Nat
        /\ answers \subseteq Events(ledger)
    BY BoundsAssumption DEF IInv, Typed, RunsSound
  <1>2. CASE RefuseRecord(p) \/ RefuseIntent(p)
    BY <1>1, <1>2, LeaveStep DEF RefuseRecord, RefuseIntent, records, runtime
  <1>3. CASE Fail(p)
    BY <1>1, <1>3, LeaveStep DEF Fail, records, runtime
  <1>4. CASE RefuseRun(p) \/ TooLate(p)
    <2>1. /\ local[p].at \notin Holding /\ Now(p, Idle)
          /\ UNCHANGED <<records, content, lock, failures, calls, answers>>
      BY <1>4 DEF RefuseRun, TooLate, Refused, Holding, records, runtime
    <2> QED
      BY <1>1, <2>1, OutsideStep
  <1>5. CASE ReplayRun(p)
    <2>1. /\ local[p].at \notin Holding /\ Now(p, Idle)
          /\ UNCHANGED <<records, content, lock, failures, calls>>
      BY <1>5 DEF ReplayRun, Refused, Holding, records, runtime
    <2>2. answers' \subseteq Events(ledger)
      BY <1>1, <1>5 DEF ReplayRun, Find
    <2> QED
      BY <1>1, <2>1, <2>2, OutsideStep
  <1> QED
    BY <1>2, <1>3, <1>4, <1>5

LEMMA Stutter == ASSUME IInv, UNCHANGED vars PROVE IInv'
  <1>1. UNCHANGED <<status, artifact, workspace, environment, edits, ledger, executed, answers,
                    lock, local, calls, failures>>
    BY DEF vars, runtime, content
  <1>2. /\ status' \in [Attempts -> {"none", "in_progress", "ended"}]
        /\ artifact' \in [Attempts -> Trees \cup {None}]
        /\ workspace' \in [Attempts -> Trees] /\ environment' \in Environments
        /\ edits' \in 0..MaxEdits
    BY <1>1 DEF IInv, Typed
  <1> QED
    BY <1>1, <1>2, WorldStep

LEMMA Inductive == IInv /\ [Next]_vars => IInv'
  <1> SUFFICES ASSUME IInv, [Next]_vars PROVE IInv'
    OBVIOUS
  <1>1. ASSUME NEW p \in Procs,
               \/ CallRecord(p) \/ CallValidate(p) \/ CallEnd(p)
               \/ AdmitRecord(p) \/ ObserveTree(p) \/ AdmitRun(p) \/ Bind(p)
        PROVE  IInv'
    BY <1>1, CallStep, AdmitRecordStep, ObserveTreeStep, AdmitRunStep, BindStep
  <1>2. ASSUME NEW p \in Procs,
               \/ AppendRecord(p) \/ AppendIntent(p) \/ RunCommands(p) \/ AppendResult(p)
               \/ Measure(p) \/ EndLocked(p)
        PROVE  IInv'
    BY <1>2, AppendRecordStep, AppendIntentStep, RunCommandsStep, AppendResultStep, MeasureStep,
       EndLockedStep
  <1>3. ASSUME NEW p \in Procs,
               RefuseRecord(p) \/ RefuseIntent(p) \/ ReplayRun(p) \/ RefuseRun(p) \/ TooLate(p) \/ Fail(p)
        PROVE  IInv'
    BY <1>3, RefuseStep
  <1>4. ASSUME NEW a \in Attempts, Begin(a) \/ Recover(a) \/ Edit(a) PROVE IInv'
    BY <1>4, EnvironmentStep
  <1>5. CASE UNCHANGED vars
    BY <1>5, Stutter
  <1> QED
    BY <1>1, <1>2, <1>3, <1>4, <1>5 DEF Next

(***************************************************************************)
(* The invariant, and what follows from it.                                *)
(***************************************************************************)
\* Every reachable state has all of the above.
THEOREM InvariantHolds == Spec => []IInv
  BY InitHolds, Inductive, PTL DEF Spec

\* Rows, locks and counters keep their types.
THEOREM TypeCorrect == Spec => []TypeOK
  <1>1. IInv => TypeOK
    <2> SUFFICES ASSUME IInv PROVE TypeOK
      OBVIOUS
    <2>1. ASSUME NEW e \in Events(ledger)
          PROVE  /\ e.kind \in Kinds /\ e.attempt \in Attempts
                 /\ e.kind = "assessment" => e.tree \in Trees
                 /\ e.kind = "intent" => e.binding \in Bindings
                 /\ e.kind = "result" => e.after \in Bindings \cup {None}
      BY EventsTyped, EventFields DEF IInv, Typed, AssessmentRow, IntentRow, ResultRow, Bound
    <2>2. ASSUME NEW a \in Attempts, lock[a] # None
          PROVE  local[lock[a]] # Idle /\ local[lock[a]].attempt = a
      BY <2>2 DEF IInv, Typed, Mutex
    <2> QED
      BY <2>1, <2>2 DEF IInv, Typed, TypeOK, Kinds
  <1> QED
    BY <1>1, InvariantHolds, PTL

\* No interleaving of commands appends a row that makes later readers fail.
THEOREM EvidenceAlwaysLoads == Spec => []EvidenceLoads
  <1>1. IInv => EvidenceLoads
    <2> SUFFICES ASSUME IInv PROVE EvidenceLoads
      OBVIOUS
    <2>1. \A i \in DOMAIN ledger : ledger[i] \in Events(ledger)
      BY DEF Events
    <2> QED
      BY <2>1 DEF IInv, LedgerSound, RowAdmits, EvidenceLoads, Readable, Admits
  <1> QED
    BY <1>1, InvariantHolds, PTL

\* One start is not none.
LEMMA OneStart == ASSUME NEW c PROVE Len(<< c >>) = 1 /\ Len(<< c >>) <= 1 /\ << c >> # << >>
  OBVIOUS

\* The commands of a run identity start once, after the intent, whoever dies or
\* asks again; answers are the receipts of the ledger.
THEOREM CommandsRunOnce == Spec => []RunsOnce
  <1>1. IInv => RunsOnce
    <2> SUFFICES ASSUME IInv PROVE RunsOnce
      OBVIOUS
    <2>1. ASSUME NEW a \in Attempts, NEW r \in Requests
          PROVE  /\ Len(executed[a][r]) <= 1
                 /\ executed[a][r] # << >> => Find(ledger, <<"intent", a, r>>) # {}
                 /\ Find(ledger, <<"result", a, r>>) # {} => executed[a][r] # << >>
      <3>1. executed[a][r] \in {<< >>} \cup {<< c >> : c \in Commands}
        BY DEF IInv, Typed
      <3>2. Len(executed[a][r]) <= 1
        <4>1. CASE executed[a][r] = << >>
          BY <4>1
        <4>2. ASSUME NEW c \in Commands, executed[a][r] = << c >> PROVE Len(executed[a][r]) <= 1
          BY <4>2, OneStart
        <4> QED
          BY <3>1, <4>1, <4>2
      <3>3. ASSUME Find(ledger, <<"result", a, r>>) # {} PROVE executed[a][r] # << >>
        <4>1. PICK e \in Events(ledger) : EventId(e) = <<"result", a, r>>
          BY <3>3 DEF Find
        <4>2. Ran(e) /\ e.attempt = a /\ e.request = r
          BY <4>1 DEF EventId, IInv, RunsSound
        <4>3. executed[a][r] = << e.commands >>
          BY <4>2 DEF Ran
        <4> QED
          BY <4>3, OneStart
      <3> QED
        BY <3>2, <3>3 DEF IInv, RunsSound
    <2> QED
      BY <2>1 DEF IInv, RunsSound, RunsOnce
  <1> QED
    BY <1>1, InvariantHolds, PTL

\* What a met assessment cites did run on its tree, and passed.
THEOREM CitedRunsAreSound == Spec => []CitedRunsSound
  <1>1. IInv => CitedRunsSound
    BY DEF IInv, RunsSound, Cited, CitedRunsSound
  <1> QED
    BY <1>1, InvariantHolds, PTL

\* A terminal assessment is about the tree its attempt left.
THEOREM AlwaysAssessesWhatEnded == Spec => AssessesWhatEnded
  <1> DEFINE Told == ledger' # ledger =>
           LET e == ledger'[Len(ledger')] IN
           e.kind = "assessment" /\ status[e.attempt] = "ended" => e.tree = artifact[e.attempt]
  <1>1. ASSUME IInv, [Next]_vars PROVE [Told]_vars
    <2>0. \A e \in Event : ledger' = Append(ledger, e) => ledger'[Len(ledger')] = e
      <3>1. ledger \in Seq(Event)
        BY <1>1 DEF IInv, Typed
      <3> QED
        BY <3>1
    <2>1. ASSUME NEW p \in Procs, AppendRecord(p) PROVE Told
      <3>1. local[p].at = "append" /\ local[p] \in Writing /\ JobSound(local[p])
        BY <1>1, <2>1, StageJob DEF AppendRecord
      <3>2. PICK l \in Writing : l = local[p]
        BY <3>1
      <3>3. PICK e \in Event : e = l.document
        BY <1>1, <3>1, <3>2, WrittenEvent
      <3>4. WriterSound(l) /\ l.at = "append"
        BY <3>1, <3>2 DEF JobSound
      <3>5. Append1(e) /\ Unchanged(l)
        BY <2>1, <3>2, <3>3 DEF AppendRecord
      <3>6. CASE Find(ledger, EventId(e)) # {}
        BY <3>5, <3>6 DEF Append1
      <3>7. CASE Find(ledger, EventId(e)) = {}
        <4>1. ledger' = Append(ledger, e) /\ ledger'[Len(ledger')] = e
          BY <2>0, <3>5, <3>7 DEF Append1
        <4>2. l.recorded = {}
          BY <3>3, <3>4, <3>7 DEF WriterSound, Find
        <4>3. l.row[1] = status[l.attempt] /\ l.row[2] = artifact[l.attempt]
          BY <3>5 DEF Unchanged, Row
        <4>4. e.attempt = l.attempt
          BY <3>3, <3>4 DEF WriterSound
        <4>5. e.kind = "assessment" /\ status[e.attempt] = "ended" => e.tree = artifact[e.attempt]
          BY <3>3, <3>4, <4>2, <4>3, <4>4 DEF WriterSound
        <4> QED
          BY <4>1, <4>5
      <3> QED
        BY <3>6, <3>7
    <2>2. ASSUME NEW e \in Event, e.kind # "assessment", Append1(e) PROVE Told
      BY <2>0, <2>2 DEF Append1
    <2>3. ASSUME NEW p \in Procs, AppendIntent(p) PROVE Told
      <3>1. local[p] \in Running
        BY <1>1, <2>3, StageJob DEF AppendIntent
      <3>2. Intent(local[p]) \in IntentRow /\ Intent(local[p]).kind = "intent"
        BY <3>1 DEF Running, Intent, IntentRow
      <3> QED
        BY <2>2, <2>3, <3>2 DEF AppendIntent, Event
    <2>4. ASSUME NEW p \in Procs, AppendResult(p) PROVE Told
      <3>1. local[p] \in Answering
        BY <1>1, <2>4, StageJob DEF AppendResult
      <3>2. local[p].receipt \in ResultRow /\ local[p].receipt.kind = "result"
        BY <3>1 DEF Answering, ResultRow
      <3> QED
        BY <2>2, <2>4, <3>2 DEF AppendResult, Event
    <2>5. ASSUME NEW p \in Procs, Measure(p) PROVE Told
      <3>1. PICK e : e = [kind |-> "phase", attempt |-> local[p].attempt, request |-> "close"]
        OBVIOUS
      <3>2. e \in PhaseRow /\ e.kind = "phase"
        BY <1>1, <2>5, <3>1, StageJob DEF Measure, Ending, PhaseRow
      <3> QED
        BY <2>2, <2>5, <3>1, <3>2 DEF Measure, Event
    <2>6. ASSUME NEW p \in Procs,
                 \/ CallRecord(p) \/ CallValidate(p) \/ CallEnd(p)
                 \/ AdmitRecord(p) \/ ObserveTree(p) \/ RefuseRecord(p)
                 \/ ReplayRun(p) \/ RefuseRun(p) \/ AdmitRun(p) \/ Bind(p)
                 \/ RefuseIntent(p) \/ RunCommands(p)
                 \/ EndLocked(p) \/ TooLate(p) \/ Fail(p)
          PROVE  ledger' = ledger
      BY <2>6 DEF CallRecord, CallValidate, CallEnd, AdmitRecord, ObserveTree, RefuseRecord,
                  ReplayRun, RefuseRun, AdmitRun, Bind, RefuseIntent, RunCommands, EndLocked,
                  TooLate, Fail
    <2>7. ASSUME NEW a \in Attempts, Begin(a) \/ Recover(a) \/ Edit(a) PROVE ledger' = ledger
      BY <2>7 DEF Begin, Recover, Edit
    <2> QED
      BY <1>1, <2>1, <2>3, <2>4, <2>5, <2>6, <2>7 DEF Next
  <1> QED
    BY <1>1, InvariantHolds, PTL DEF Spec, AssessesWhatEnded

===============================================================================
