----------------------------- MODULE TaskRuntime -----------------------------
(***************************************************************************)
(* The task runtime of blackdog_core: create, start, setup, finish and     *)
(* explicit status transitions over runtime.json and events.jsonl, run by  *)
(* concurrent CLI processes that may fail between any two durable effects. *)
(*                                                                         *)
(* An operation holds the lock of runtime.json from its load to its save,  *)
(* so what it loaded cannot change under it; its ledger appends before the *)
(* save are visible, and survive, if it dies.  The append that closes an   *)
(* operation happens after the lock is released.  Each action below is     *)
(* therefore one durable effect together with the checks that precede it:  *)
(* local[p].at names the effect process p is about to perform.             *)
(*                                                                         *)
(* The ledger events.jsonl is kept by event family: a family is a set of   *)
(* rows [id, body], and append_event_once refuses a second body for an id. *)
(* A call the code refuses before its first effect changes nothing and is  *)
(* not a step.                                                             *)
(***************************************************************************)
EXTENDS TaskStore, FiniteSets

CONSTANTS
    Procs,          \* concurrent CLI processes
    Finalizations,  \* finalization identities a caller may supply
    MaxTime,        \* bound on the clock
    MaxFailures,    \* bound on process deaths and failed writes
    MaxTransitions, \* bound on the transition requests ever recorded
    Free,           \* value of the lock nobody holds
    ClockSteps      \* does the wall clock get set back?

ASSUME BoundsAssumption == MaxTime \in Nat /\ MaxFailures \in Nat /\ MaxTransitions \in Nat
ASSUME LockAssumption == Free \notin Procs
ASSUME ClockAssumption == ClockSteps \in BOOLEAN

VARIABLES
    clock,          \* now_iso()
    failures,       \* failures injected so far
    tasks,          \* runtime.json: TaskIds -> row or NoTask
    lock,           \* holder of the lock adjacent to runtime.json
    local,          \* what each process is about to do
    createEvents,   \* task.create
    startEvents,    \* task.start
    setupEvents,    \* task.setup
    finRequests,    \* task.finalization.request
    finDecisions,   \* task.finalization.decision
    finEvents,      \* task.finish
    trRequests,     \* task.runtime-transition.request
    trDecisions,    \* task.runtime-transition.decision
    trEvents        \* task.transition

finLedger == <<finRequests, finDecisions, finEvents>>
trLedger == <<trRequests, trDecisions, trEvents>>
setupLedger == <<createEvents, startEvents, setupEvents>>
ledger == <<setupLedger, finLedger, trLedger>>
vars == <<clock, failures, tasks, lock, local, ledger>>

Idle == [at |-> "idle"]

(***************************************************************************)
(* append_event_once: the identity is new, or already has this content.    *)
(***************************************************************************)
Event(id, body) == [id |-> id, body |-> body]

MayAppend(log, e) == \A x \in log : x.id = e.id => x = e

Init ==
    /\ clock = 0
    /\ failures = 0
    /\ tasks = [t \in TaskIds |-> NoTask]
    /\ lock = Free
    /\ local = [p \in Procs |-> Idle]
    /\ createEvents = {} /\ startEvents = {} /\ setupEvents = {}
    /\ finRequests = {} /\ finDecisions = {} /\ finEvents = {}
    /\ trRequests = {} /\ trDecisions = {} /\ trEvents = {}

Exists(t) == tasks[t] # NoTask

\* A call begins: process p is idle and enters the section of the store lock.
Enter(p) == local[p] = Idle /\ lock = Free

Goto(p, next) == local' = [local EXCEPT ![p] = next]

Hold(p) == lock' = p
Release == lock' = Free

\* Process p leaves the locked section of an operation that raises.
Refuse(p) ==
    /\ Goto(p, Idle)
    /\ Release
    /\ UNCHANGED <<clock, failures, tasks, ledger>>

\* save: the file is replaced atomically, and only by a state that validates.
Save(t, row) ==
    /\ ValidState([tasks EXCEPT ![t] = row])
    /\ tasks' = [tasks EXCEPT ![t] = row]

-----------------------------------------------------------------------------
(***************************************************************************)
(* create_task: the event precedes the row, and a retry adopts the         *)
(* creation time of an event whose row was never saved.                    *)
(***************************************************************************)
CreatedAt(t) ==
    IF \E e \in createEvents : e.id = t
    THEN (CHOOSE e \in createEvents : e.id = t).body.created
    ELSE clock

CreatedRow(t, title) == NewRow(title, CreatedAt(t))

CreateAppend(p, t, title) ==
    LET e == Event(t, [title |-> title, created |-> CreatedAt(t)])
    IN  /\ Enter(p)
        /\ ~Exists(t)
        /\ MayAppend(createEvents, e)
        /\ createEvents' = createEvents \cup {e}
        /\ Goto(p, [at |-> "create_save", task |-> t, next |-> CreatedRow(t, title)])
        /\ Hold(p)
        /\ UNCHANGED <<clock, failures, tasks, startEvents, setupEvents, finLedger, trLedger>>

CreateSave(p) ==
    LET my == local[p]
    IN  /\ my.at = "create_save"
        /\ Save(my.task, my.next)
        /\ Goto(p, Idle)
        /\ Release
        /\ UNCHANGED <<clock, failures, ledger>>

-----------------------------------------------------------------------------
(***************************************************************************)
(* start_task: the row is saved first, and the deterministic start event   *)
(* follows.  A retry that names the active attempt only repairs the event. *)
(***************************************************************************)
StartEvent(t, attempt) ==
    Event(attempt.id, [task |-> t, actor |-> attempt.actor, started |-> attempt.started])

\* started_at is read before the call waits for the lock.
StartCall(p, t, a, actor) ==
    /\ local[p] = Idle
    /\ Exists(t)
    /\ Goto(p, [at |-> "start_save", task |-> t, attempt |-> NewAttempt(a, actor, clock)])
    /\ UNCHANGED <<clock, failures, tasks, lock, ledger>>

Startable(t, attempt) ==
    /\ \A s \in TaskIds : Exists(s) => ~HasAttempt(tasks[s], attempt.id)
    /\ ActiveIn(tasks[t]) = {}
    /\ tasks[t].status = "planned"
    /\ ValidState([tasks EXCEPT ![t] = StartedRow(tasks[t], attempt)])

StartSave(p) ==
    LET my == local[p]
    IN  /\ my.at = "start_save"
        /\ lock = Free
        /\ Startable(my.task, my.attempt)
        /\ Save(my.task, StartedRow(tasks[my.task], my.attempt))
        /\ Goto(p, [at |-> "start_append", event |-> StartEvent(my.task, my.attempt)])
        /\ UNCHANGED <<clock, failures, lock, ledger>>

StartRefuse(p) ==
    LET my == local[p]
    IN  /\ my.at = "start_save"
        /\ lock = Free
        /\ ~Startable(my.task, my.attempt)
        /\ Refuse(p)

\* The exact request again, or repair_task_start_events on a begin replay.
RepairStart(p, t, a) ==
    /\ local[p] = Idle
    /\ Exists(t) /\ HasAttempt(tasks[t], a)
    /\ IsActive(AttemptOf(tasks[t], a))
    /\ Goto(p, [at |-> "start_append", event |-> StartEvent(t, AttemptOf(tasks[t], a))])
    /\ UNCHANGED <<clock, failures, tasks, lock, ledger>>

StartAppend(p) ==
    LET my == local[p]
    IN  /\ my.at = "start_append"
        /\ MayAppend(startEvents, my.event)
        /\ startEvents' = startEvents \cup {my.event}
        /\ Goto(p, Idle)
        /\ UNCHANGED <<clock, failures, tasks, lock, createEvents, setupEvents,
                       finLedger, trLedger>>

-----------------------------------------------------------------------------
(***************************************************************************)
(* record_task_setup: repair the event of the receipt in place, then       *)
(* compare and set, then append the event of the new receipt.              *)
(***************************************************************************)
SetupEvent(t, attempt) ==
    Event(<<attempt.id, attempt.setup>>, [task |-> t, actor |-> attempt.actor])

WithSetup_skipped(t, attempt) == setupEvents                      \* mutant

\* The ledger once the event of the receipt in place is appended.
WithSetup(t, attempt) == setupEvents \cup {SetupEvent(t, attempt)}

SetupRepair(p, t, a, actor, expected, receipt) ==
    /\ Enter(p)
    /\ Exists(t) /\ tasks[t].status = "in_progress" /\ HasAttempt(tasks[t], a)
    /\ LET attempt == AttemptOf(tasks[t], a)
       IN  /\ IsActive(attempt)
           /\ attempt.actor = actor
           /\ MayAppend(setupEvents, SetupEvent(t, attempt))
           /\ setupEvents' = WithSetup(t, attempt)
           /\ IF attempt.setup # receipt /\ attempt.setup = expected
              THEN /\ Goto(p, [at |-> "setup_save", task |-> t, attempt |-> a,
                               receipt |-> receipt])
                   /\ Hold(p)
              ELSE UNCHANGED <<local, lock>>
    /\ UNCHANGED <<clock, failures, tasks, createEvents, startEvents, finLedger, trLedger>>

SetupSave(p) ==
    LET my == local[p]
    IN  /\ my.at = "setup_save"
        /\ Save(my.task, SetupRow(tasks[my.task], my.attempt, my.receipt))
        /\ Goto(p, [at |-> "setup_append", task |-> my.task, attempt |-> my.attempt])
        /\ UNCHANGED <<clock, failures, lock, ledger>>

SetupAppend(p) ==
    LET my == local[p]
        attempt == AttemptOf(tasks[my.task], my.attempt)
    IN  /\ my.at = "setup_append"
        /\ MayAppend(setupEvents, SetupEvent(my.task, attempt))
        /\ setupEvents' = WithSetup(my.task, attempt)
        /\ Goto(p, Idle)
        /\ Release
        /\ UNCHANGED <<clock, failures, tasks, createEvents, startEvents, finLedger, trLedger>>

-----------------------------------------------------------------------------
(***************************************************************************)
(* finish_task: an immutable request, a decision that binds the row it was *)
(* taken on and the row it leads to, the save, and the finish event.       *)
(***************************************************************************)
RequestsFor_unread(t, a) == {}                                    \* mutant

RequestsFor(t, a) == {e \in finRequests : e.id.task = t /\ e.id.attempt = a}

DecisionsFor_unread(request) == {}                                \* mutant

DecisionsFor(request) == {e \in finDecisions : e.id.request = request.id}

TerminalRow_at_save_time(t, request, ended) ==                    \* mutant
    FinishedRow(tasks[t], request.id.attempt, request.body.actor,
                request.body.status, request.body.summary, clock)

TerminalRow(t, request, ended) ==
    FinishedRow(tasks[t], request.id.attempt, request.body.actor,
                request.body.status, request.body.summary, ended)

MatchesRequest(attempt, request) ==
    /\ attempt.status = request.body.status
    /\ attempt.summary = request.body.summary

FinishRequest(p, t, a, fid, actor, status, summary) ==
    LET request == Event([task |-> t, attempt |-> a, finalization |-> fid],
                         [actor |-> actor, status |-> status, summary |-> summary])
    IN  /\ Enter(p)
        /\ Exists(t) /\ HasAttempt(tasks[t], a)
        /\ AttemptOf(tasks[t], a).actor = actor
        /\ \A e \in RequestsFor(t, a) : e.id = request.id
        /\ RequestsFor(t, a) = {} => IsActive(AttemptOf(tasks[t], a))
        /\ IsActive(AttemptOf(tasks[t], a)) =>
              ValidState([tasks EXCEPT ![t] = TerminalRow(t, request, clock)])
        /\ MayAppend(finRequests, request)
        /\ finRequests' = finRequests \cup {request}
        /\ Goto(p, [at |-> "fin_decide", request |-> request])
        /\ Hold(p)
        /\ UNCHANGED <<clock, failures, tasks, setupLedger, finDecisions, finEvents, trLedger>>

Decision_hashes_after_update(t, request) ==                       \* mutant
    LET row == TerminalRow(t, request, clock)
    IN  Event([request |-> request.id, pre |-> row], [ended |-> clock, post |-> row])

Decision(t, request) ==
    Event([request |-> request.id, pre |-> tasks[t]],
          [ended |-> clock, post |-> TerminalRow(t, request, clock)])

FinishDecide(p) ==
    LET my == local[p]
        t  == my.request.id.task
        decision == Decision(t, my.request)
    IN  /\ my.at = "fin_decide"
        /\ DecisionsFor(my.request) = {}
        /\ IsActive(AttemptOf(tasks[t], my.request.id.attempt))
        /\ MayAppend(finDecisions, decision)
        /\ finDecisions' = finDecisions \cup {decision}
        /\ Goto(p, [at |-> "fin_save", request |-> my.request, decision |-> decision])
        /\ UNCHANGED <<clock, failures, tasks, lock, setupLedger, finRequests, finEvents,
                       trLedger>>

FinishEvent_task_status(request, decision, attempt) ==            \* mutant
    Event(decision.id, [task |-> request.id.task, attempt |-> request.id.attempt,
                        status |-> TerminalTaskStatus(request.body.status),
                        ended |-> attempt.ended])

FinishEvent(request, decision, attempt) ==
    Event(decision.id, [task |-> request.id.task, attempt |-> request.id.attempt,
                        status |-> request.body.status, ended |-> attempt.ended])

\* A decision survived an earlier call: take it up again if it still names
\* the active generation, or only close the ledger if it was already saved.
FinishReplay(p) ==
    LET my == local[p]
        t  == my.request.id.task
    IN  /\ my.at = "fin_decide"
        /\ \E decision \in DecisionsFor(my.request) :
             LET attempt == AttemptOf(tasks[t], my.request.id.attempt)
             IN  IF IsActive(attempt)
                 THEN /\ decision.id.pre = tasks[t]
                      /\ decision.body.post = TerminalRow(t, my.request, decision.body.ended)
                      /\ Goto(p, [at |-> "fin_save", request |-> my.request,
                                  decision |-> decision])
                      /\ UNCHANGED lock
                 ELSE /\ MatchesRequest(attempt, my.request)
                      /\ Goto(p, [at |-> "fin_append",
                                  event |-> FinishEvent(my.request, decision, attempt)])
                      /\ Release
        /\ UNCHANGED <<clock, failures, tasks, ledger>>

\* The call raises: an earlier decision names another generation of the
\* task, or the attempt ended without a decision of this request.
FinishRefuse(p) ==
    LET my == local[p]
        t  == my.request.id.task
        decisions == DecisionsFor(my.request)
        attempt == AttemptOf(tasks[t], my.request.id.attempt)
    IN  /\ my.at = "fin_decide"
        /\ IF IsActive(attempt)
           THEN \E d \in decisions :
                   \/ d.id.pre # tasks[t]
                   \/ d.body.post # TerminalRow(t, my.request, d.body.ended)
           ELSE \A d \in decisions : ~MatchesRequest(attempt, my.request)
        /\ Refuse(p)

FinishSave(p) ==
    LET my  == local[p]
        t   == my.request.id.task
        row == TerminalRow(t, my.request, my.decision.body.ended)
    IN  /\ my.at = "fin_save"
        /\ Save(t, row)
        /\ Goto(p, [at |-> "fin_append",
                    event |-> FinishEvent(my.request, my.decision,
                                          AttemptOf(row, my.request.id.attempt))])
        /\ Release
        /\ UNCHANGED <<clock, failures, ledger>>

\* ended_at was read again after the preview: save may reject the row.
FinishSaveRefuse(p) ==
    LET my == local[p]
        t  == my.request.id.task
        row == TerminalRow(t, my.request, my.decision.body.ended)
    IN  /\ my.at = "fin_save"
        /\ ~ValidState([tasks EXCEPT ![t] = row])
        /\ Refuse(p)

FinishAppend(p) ==
    LET my == local[p]
    IN  /\ my.at = "fin_append"
        /\ MayAppend(finEvents, my.event)
        /\ finEvents' = finEvents \cup {my.event}
        /\ Goto(p, Idle)
        /\ UNCHANGED <<clock, failures, tasks, lock, setupLedger, finRequests, finDecisions,
                       trLedger>>

-----------------------------------------------------------------------------
(***************************************************************************)
(* set_task_runtime_status: the same request, decision, save and owned     *)
(* event; the request that belongs to the row in hand is found by the      *)
(* hashes of the rows before and after it.                                 *)
(***************************************************************************)
TrDecisionsFor(request) == {e \in trDecisions : e.id.request = request.id}

Owned(request) == \E e \in trEvents : e.body.request = request.id

Post(request) == {d.body.post : d \in TrDecisionsFor(request)}

\* Requests whose rows before or after are the current row of the task.
CurrentRequests(t) ==
    {q \in trRequests : q.id.task = t /\ tasks[t] \in {q.id.pre} \cup Post(q)}

Unfinished(t) == {q \in CurrentRequests(t) : ~Owned(q)}

Competing_decided_only(t, same) ==                                \* mutant
    {q \in Unfinished(t) \ same : TrDecisionsFor(q) # {}}

\* Unfinished requests of the task that ask for something else.
Competing(t, same) == Unfinished(t) \ same

\* _inspect_task_runtime_transition_rows raises instead of answering.
InspectionRaises(t) ==
    \/ \E q \in CurrentRequests(t) : Owned(q) /\ tasks[t] \notin Post(q)
    \/ \E q, r \in Unfinished(t) : q # r

Desired(request) == [request.id EXCEPT !.pre = NoTask]

Requested(t, actor, status, summary, pre) ==
    [task |-> t, actor |-> actor, status |-> status, summary |-> summary, pre |-> pre]

AlreadyMatches(row, request) ==
    /\ row.status = request.id.status
    /\ row.actor = request.id.actor
    /\ row.note = request.id.summary

TransitionRequest(p, t, actor, status, summary) ==
    LET fresh   == Event(Requested(t, actor, status, summary, tasks[t]), [owner |-> actor])
        same    == {q \in CurrentRequests(t) : Desired(q) = Desired(fresh)}
        request == IF same = {} THEN fresh ELSE CHOOSE q \in same : TRUE
        decided == {d \in trDecisions : \E q \in same : d.id.request = q.id}
        updated == TransitionedRow(tasks[t], actor, status, summary, clock)
    IN  /\ Enter(p)
        /\ Exists(t)
        /\ ActiveIn(tasks[t]) = {}
        /\ tasks[t].status \in TransitionSources(status)
        /\ ~InspectionRaises(t)
        /\ Competing(t, same) = {}
        /\ \A q, r \in same : q = r
        /\ same = {} => ~AlreadyMatches(tasks[t], fresh)
        /\ IF decided # {}
           THEN /\ Goto(p, [at |-> "tr_apply", request |-> request,
                            decision |-> CHOOSE d \in decided : TRUE])
                /\ UNCHANGED trRequests
           ELSE /\ request \in trRequests \/ Cardinality(trRequests) < MaxTransitions
                /\ ValidState([tasks EXCEPT ![t] = updated])
                /\ trRequests' = trRequests \cup {request}
                /\ Goto(p, [at |-> "tr_decide", request |-> request, next |-> updated])
        /\ Hold(p)
        /\ UNCHANGED <<clock, failures, tasks, setupLedger, finLedger, trDecisions, trEvents>>

TransitionDecide(p) ==
    LET my == local[p]
        decision == Event([request |-> my.request.id, pre |-> my.request.id.pre],
                          [updated |-> my.next.updated, post |-> my.next])
    IN  /\ my.at = "tr_decide"
        /\ MayAppend(trDecisions, decision)
        /\ trDecisions' = trDecisions \cup {decision}
        /\ Goto(p, [at |-> "tr_apply", request |-> my.request, decision |-> decision])
        /\ UNCHANGED <<clock, failures, tasks, lock, setupLedger, finLedger, trRequests,
                       trEvents>>

TransitionEvent(request, decision) ==
    Event(decision.id, [request |-> request.id, status |-> request.id.status,
                        updated |-> decision.body.updated])

TransitionApply(p) ==
    LET my == local[p]
        t  == my.request.id.task
        row == TransitionedRow(tasks[t], my.request.id.actor, my.request.id.status,
                               my.request.id.summary, my.decision.body.updated)
    IN  /\ my.at = "tr_apply"
        /\ \/ /\ tasks[t] = my.decision.id.pre
              /\ row = my.decision.body.post
              /\ Save(t, row)
           \/ /\ tasks[t] # my.decision.id.pre
              /\ tasks[t] = my.decision.body.post
              /\ UNCHANGED tasks
        /\ Goto(p, [at |-> "tr_append", event |-> TransitionEvent(my.request, my.decision)])
        /\ Release
        /\ UNCHANGED <<clock, failures, ledger>>

TransitionAppend(p) ==
    LET my == local[p]
    IN  /\ my.at = "tr_append"
        /\ MayAppend(trEvents, my.event)
        /\ trEvents' = trEvents \cup {my.event}
        /\ Goto(p, Idle)
        /\ UNCHANGED <<clock, failures, tasks, lock, setupLedger, finLedger, trRequests,
                       trDecisions>>

-----------------------------------------------------------------------------
\* The process dies, or the write it was about to do fails and the call
\* raises: the kernel or the context manager releases the lock.
Fail(p) ==
    /\ failures < MaxFailures
    /\ local[p] # Idle
    /\ failures' = failures + 1
    /\ Goto(p, Idle)
    /\ lock' = IF lock = p THEN Free ELSE lock
    /\ UNCHANGED <<clock, tasks, ledger>>

Tick ==
    /\ clock' \in {now \in 0..MaxTime : now = clock + 1 \/ ClockSteps}
    /\ UNCHANGED <<failures, tasks, lock, local, ledger>>

Create(p) == CreateSave(p) \/ \E t \in TaskIds, title \in Notes : CreateAppend(p, t, title)

StartTask(p) ==
    \/ StartSave(p) \/ StartRefuse(p) \/ StartAppend(p)
    \/ \E t \in TaskIds, a \in AttemptIds :
         RepairStart(p, t, a) \/ \E actor \in Actors : StartCall(p, t, a, actor)

RecordSetup(p) ==
    \/ SetupSave(p) \/ SetupAppend(p)
    \/ \E t \in TaskIds, a \in AttemptIds, actor \in Actors, expected, receipt \in Receipts :
         SetupRepair(p, t, a, actor, expected, receipt)

FinishStep(p) ==
    \/ FinishDecide(p) \/ FinishReplay(p) \/ FinishRefuse(p)
    \/ FinishSave(p) \/ FinishSaveRefuse(p) \/ FinishAppend(p)

FinishCall(p) ==
    \E t \in TaskIds, a \in AttemptIds, fid \in Finalizations, actor \in Actors,
       status \in TerminalStatuses, summary \in Notes :
         FinishRequest(p, t, a, fid, actor, status, summary)

TransitionStep(p) == TransitionDecide(p) \/ TransitionApply(p) \/ TransitionAppend(p)

TransitionCall(p) ==
    \E t \in TaskIds, actor \in Actors, status \in TransitionStatuses, summary \in Notes :
         TransitionRequest(p, t, actor, status, summary)

Next ==
    \/ Tick
    \/ \E p \in Procs :
         \/ Create(p) \/ StartTask(p) \/ RecordSetup(p)
         \/ FinishCall(p) \/ FinishStep(p)
         \/ TransitionCall(p) \/ TransitionStep(p)
         \/ Fail(p)

Spec == Init /\ [][Next]_vars

-----------------------------------------------------------------------------
(***************************************************************************)
(* Types.                                                                  *)
(***************************************************************************)
CreateRows == [id: TaskIds, body: [title: Notes, created: Nat]]
StartRows == [id: AttemptIds, body: [task: TaskIds, actor: Actors, started: Nat]]
SetupRows == [id: AttemptIds \X Receipts, body: [task: TaskIds, actor: Actors]]

RequestIds == [task: TaskIds, attempt: AttemptIds, finalization: Finalizations]
Verdicts == [actor: Actors, status: TerminalStatuses, summary: Notes]

\* No recorded verdict is the absent one.
ASSUME VerdictAssumption == None \notin Verdicts

FinRequestRows == [id: RequestIds, body: Verdicts]
FinDecisionIds == [request: RequestIds, pre: TaskRows]
FinDecisionRows == [id: FinDecisionIds, body: [ended: Nat, post: TaskRows]]
FinEventRows == [id: FinDecisionIds,
                 body: [task: TaskIds, attempt: AttemptIds, status: TerminalStatuses,
                        ended: Nat \cup {Never}]]

TrRequestIds == [task: TaskIds, actor: Actors, status: TransitionStatuses,
                 summary: Notes, pre: TaskRows]
TrRequestRows == [id: TrRequestIds, body: [owner: Actors]]
TrDecisionIds == [request: TrRequestIds, pre: TaskRows]
TrDecisionRows == [id: TrDecisionIds, body: [updated: Nat, post: TaskRows]]
TrEventRows == [id: TrDecisionIds,
                body: [request: TrRequestIds, status: TransitionStatuses, updated: Nat]]

Locals ==
    {Idle}
    \cup [at: {"create_save"}, task: TaskIds, next: TaskRows]
    \cup [at: {"start_save"}, task: TaskIds, attempt: AttemptRows]
    \cup [at: {"start_append"}, event: StartRows]
    \cup [at: {"setup_save"}, task: TaskIds, attempt: AttemptIds, receipt: Receipts]
    \cup [at: {"setup_append"}, task: TaskIds, attempt: AttemptIds]
    \cup [at: {"fin_decide"}, request: FinRequestRows]
    \cup [at: {"fin_save"}, request: FinRequestRows, decision: FinDecisionRows]
    \cup [at: {"fin_append"}, event: FinEventRows]
    \cup [at: {"tr_decide"}, request: TrRequestRows, next: TaskRows]
    \cup [at: {"tr_apply"}, request: TrRequestRows, decision: TrDecisionRows]
    \cup [at: {"tr_append"}, event: TrEventRows]

\* Every variable holds what the code stores in it.
TypeOK ==
    /\ clock \in Nat
    /\ failures \in Nat
    /\ tasks \in [TaskIds -> TaskRows \cup {NoTask}]
    /\ lock \in Procs \cup {Free}
    /\ local \in [Procs -> Locals]
    /\ createEvents \subseteq CreateRows
    /\ startEvents \subseteq StartRows
    /\ setupEvents \subseteq SetupRows
    /\ finRequests \subseteq FinRequestRows
    /\ finDecisions \subseteq FinDecisionRows
    /\ finEvents \subseteq FinEventRows
    /\ trRequests \subseteq TrRequestRows
    /\ trDecisions \subseteq TrDecisionRows
    /\ trEvents \subseteq TrEventRows

(***************************************************************************)
(* Safety.                                                                 *)
(***************************************************************************)
\* A process between its load and its save, and only it, holds the lock.
LockedStages == {"create_save", "setup_save", "setup_append", "fin_decide",
                 "fin_save", "tr_decide", "tr_apply"}

\* A process in a locked stage of an operation is the holder of the lock, so
\* no two processes are ever between a load and the save that depends on it.
LockHeld == \A p \in Procs : local[p].at \in LockedStages <=> lock = p

\* An attempt gets one verdict: finish_task never leaves two finalization
\* requests for an attempt, nor two decisions for a request, whatever calls
\* race, die and are retried.
OneVerdict ==
    /\ \A q, r \in finRequests :
          q.id.task = r.id.task /\ q.id.attempt = r.id.attempt => q = r
    /\ \A d, e \in finDecisions : d.id.request = e.id.request => d = e

\* An attempt is terminal in the store only if its request and decision were
\* durable before, and it ended with that verdict at the decided second.
WriteAhead ==
    \A t \in TaskIds : Exists(t) =>
      \A i \in DOMAIN tasks[t].attempts :
        LET attempt == tasks[t].attempts[i]
        IN  ~IsActive(attempt) =>
              \E q \in finRequests, d \in finDecisions :
                /\ q.id.task = t /\ q.id.attempt = attempt.id
                /\ d.id.request = q.id
                /\ MatchesRequest(attempt, q)
                /\ attempt.ended = d.body.ended

\* What a task.finish event says is what the store holds of its attempt.
Reported(e) ==
    /\ Exists(e.body.task) /\ HasAttempt(tasks[e.body.task], e.body.attempt)
    /\ LET attempt == AttemptOf(tasks[e.body.task], e.body.attempt)
       IN  attempt.status = e.body.status /\ attempt.ended = e.body.ended

\* The ledger never reports a finish the store does not hold: the attempt of
\* a task.finish event is terminal, with the status and time of the event.
FinishReported == \A e \in finEvents : Reported(e)

\* What process p loaded and decided still fits the store and the ledger when
\* it acts on it.
InHandOf(p) ==
    LET my == local[p]
    IN  /\ my.at = "create_save" => ~Exists(my.task) /\ my.next.attempts = <<>>
        /\ my.at = "start_save" => Exists(my.task) /\ IsActive(my.attempt)
        /\ my.at \in {"setup_save", "setup_append"} =>
              /\ Exists(my.task) /\ HasAttempt(tasks[my.task], my.attempt)
              /\ IsActive(AttemptOf(tasks[my.task], my.attempt))
        /\ my.at \in {"fin_decide", "fin_save"} =>
              /\ my.request \in finRequests
              /\ Exists(my.request.id.task)
              /\ HasAttempt(tasks[my.request.id.task], my.request.id.attempt)
        /\ my.at = "fin_save" =>
              /\ my.decision \in finDecisions
              /\ my.decision.id = [request |-> my.request.id,
                                   pre |-> tasks[my.request.id.task]]
              /\ IsActive(AttemptOf(tasks[my.request.id.task], my.request.id.attempt))
        /\ my.at = "fin_append" => Reported(my.event)
        /\ my.at \in {"tr_decide", "tr_apply"} =>
              my.request \in trRequests /\ Exists(my.request.id.task)
        /\ my.at = "tr_apply" =>
              my.decision \in trDecisions /\ my.decision.id.request = my.request.id

\* No call acts on a stale read: between its load and its save the row it
\* decided on does not change, and the evidence it acts on is durable.
InHand == \A p \in Procs : InHandOf(p)

\* Nothing but another setup receipt overtakes a durable finalization decision:
\* while its attempt is active, the row is the one it was taken on but for the
\* receipt of that attempt; and the store accepts the row it leads to, unless
\* the clock was set back and the attempt would end before it, or its task,
\* began.  Whatever else wrote the row, every retry of the finish would raise.
DecisionStands ==
    \A d \in finDecisions :
      LET t == d.id.request.task
          a == d.id.request.attempt
          decided == AttemptOf(d.id.pre, a)
      IN  IsActive(AttemptOf(tasks[t], a)) =>
            /\ SetupRow(tasks[t], a, decided.setup) = d.id.pre
            /\ d.body.ended >= decided.started /\ d.body.ended >= d.id.pre.created =>
                  ValidState([tasks EXCEPT ![t] = d.body.post])

\* "A pending generation blocks competing mutation for its task": between its
\* decision and its save, nothing but that decision changes the row.
PendingGenerationBlocks ==
    [][\A d \in finDecisions :
         LET t == d.id.request.task
         IN  tasks[t] = d.id.pre => tasks'[t] \in {d.id.pre, d.body.post}]_tasks

\* A task that is not executing answers the transition inspection, so that cancel
\* and reopen can tell what is unfinished.  The one exception: a transition of the
\* task was decided no later than the row it replaced, as when cancel, reopen and
\* cancel share a second; then a row may come back and be taken for an earlier one.
TransitionsInspectable ==
    \A t \in TaskIds :
      Exists(t) /\ ActiveIn(tasks[t]) = {} /\ InspectionRaises(t) =>
        \E d \in trDecisions :
          d.id.request.task = t /\ d.body.post.updated <= d.id.pre.updated

\* The same without the exception.
TransitionsAnswered ==
    \A t \in TaskIds : Exists(t) /\ ActiveIn(tasks[t]) = {} => ~InspectionRaises(t)

\* The history of a task only grows: attempts keep their place, identity,
\* owner and start, and an attempt that ended never changes again.
HistoryKept ==
    \A t \in TaskIds : Exists(t) =>
      /\ tasks'[t] # NoTask
      /\ \A i \in DOMAIN tasks[t].attempts :
           LET old == tasks[t].attempts[i]
               new == tasks'[t].attempts[i]
           IN  /\ i \in DOMAIN tasks'[t].attempts
               /\ IF IsActive(old)
                  THEN new.id = old.id /\ new.actor = old.actor /\ new.started = old.started
                  ELSE new = old

HistoryAppendOnly == [][HistoryKept]_tasks

\* A setup receipt is replaced only after its task.setup event is durable.
SetupRecordedBeforeReplaced ==
    [][\A t \in TaskIds : Exists(t) =>
         \A i \in DOMAIN tasks[t].attempts :
           LET old == tasks[t].attempts[i]
           IN  tasks'[t].attempts[i].setup # old.setup =>
                 SetupEvent(t, old) \in setupEvents]_tasks

(***************************************************************************)
(* The runtime implements the lifecycle it promises.                       *)
(***************************************************************************)
absStatus == [t \in TaskIds |-> IF Exists(t) THEN tasks[t].status ELSE "absent"]

absHistory ==
    [t \in TaskIds |->
       IF Exists(t)
       THEN [i \in DOMAIN tasks[t].attempts |->
               [id |-> tasks[t].attempts[i].id, outcome |-> tasks[t].attempts[i].status]]
       ELSE <<>>]

absIntent ==
    [a \in AttemptIds |->
       IF \E q \in finRequests : q.id.attempt = a
       THEN (CHOOSE q \in finRequests : q.id.attempt = a).body
       ELSE None]

Lifecycle == INSTANCE TaskLifecycle WITH
    status <- absStatus, history <- absHistory, intent <- absIntent, Undecided <- None

\* Every durable step of the runtime is a step of the promised lifecycle, or
\* changes nothing the promise speaks of.
ImplementsLifecycle == Lifecycle!AbsSpec

(***************************************************************************)
(* Convergence.  A live process carries its operation on, and the caller   *)
(* repeats the exact request an interrupted finish was made with, which is *)
(* what the returned next_action asks for.                                 *)
(***************************************************************************)
Resume(p) ==
    \E q \in finRequests :
      /\ \A e \in finEvents : e.id.request # q.id
      /\ FinishRequest(p, q.id.task, q.id.attempt, q.id.finalization,
                       q.body.actor, q.body.status, q.body.summary)

Step(p) ==
    \/ CreateSave(p) \/ StartSave(p) \/ StartRefuse(p) \/ StartAppend(p)
    \/ SetupSave(p) \/ SetupAppend(p)
    \/ FinishStep(p) \/ TransitionStep(p)

Fairness == \A p \in Procs : WF_vars(Step(p)) /\ SF_vars(Resume(p))

LiveSpec == Spec /\ Fairness

\* What an exact retry cannot get past: the clock is behind the start of the
\* attempt or of its task, or a decision cannot be applied any more.
Obstructed(t, a) ==
    LET attempt == AttemptOf(tasks[t], a)
    IN  /\ Exists(t) /\ HasAttempt(tasks[t], a) /\ IsActive(attempt)
        /\ \/ clock < attempt.started \/ clock < tasks[t].created
           \/ \E d \in finDecisions :
                /\ d.id.request.task = t /\ d.id.request.attempt = a
                /\ d.id.pre # tasks[t] \/ ~ValidState([tasks EXCEPT ![t] = d.body.post])

\* A recorded finalization request ends in a task.finish event, provided the
\* exact request is repeated after a failure, unless it comes to be obstructed.
FinishConverges ==
    \A t \in TaskIds, a \in AttemptIds :
      (\E q \in finRequests : q.id.task = t /\ q.id.attempt = a)
        ~> \/ \E e \in finEvents : e.body.task = t /\ e.body.attempt = a
           \/ Obstructed(t, a)

==============================================================================
