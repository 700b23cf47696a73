-------------------------- MODULE TaskRuntimeProofs --------------------------
(***************************************************************************)
(* What TLAPS proves of the task runtime for every set of tasks, attempts, *)
(* actors, receipts, processes and finalization identities, for every      *)
(* bound on time and failures, and for clocks that may be set back.        *)
(***************************************************************************)
EXTENDS TaskRuntime, TaskStoreProofs, TLAPS

USE DEF Idle

(***************************************************************************)
(* finish_task: one verdict.  The guards of FinishRequest and FinishDecide *)
(* read the durable ledger, so the property is inductive by itself.        *)
(***************************************************************************)
\* Which actions write the finalization families and the store.
LEMMA Writers ==
    ASSUME [Next]_vars
    PROVE  /\ finRequests' = finRequests \/ \E p \in Procs : FinishCall(p)
           /\ finDecisions' = finDecisions \/ \E p \in Procs : FinishDecide(p)
           /\ finEvents' = finEvents \/ \E p \in Procs : FinishAppend(p)
           /\ \/ tasks' = tasks
              \/ \E p \in Procs :
                   \/ CreateSave(p) \/ StartSave(p) \/ SetupSave(p) \/ FinishSave(p)
                   \/ TransitionApply(p)
  <1>1. CASE UNCHANGED vars
    BY <1>1 DEF vars, ledger, finLedger
  <1>2. CASE Tick
    BY <1>2 DEF Tick, ledger, finLedger
  <1>3. ASSUME NEW p \in Procs, Create(p)
        PROVE  UNCHANGED finLedger /\ (tasks' = tasks \/ CreateSave(p))
    BY <1>3 DEF Create, CreateSave, CreateAppend, ledger
  <1>4. ASSUME NEW p \in Procs, StartTask(p)
        PROVE  UNCHANGED finLedger /\ (tasks' = tasks \/ StartSave(p))
    BY <1>4 DEF StartTask, StartCall, StartSave, StartRefuse, RepairStart, StartAppend,
                Refuse, ledger
  <1>5. ASSUME NEW p \in Procs, RecordSetup(p)
        PROVE  UNCHANGED finLedger /\ (tasks' = tasks \/ SetupSave(p))
    BY <1>5 DEF RecordSetup, SetupRepair, SetupSave, SetupAppend, ledger
  <1>6. ASSUME NEW p \in Procs, FinishCall(p)
        PROVE  UNCHANGED <<tasks, finDecisions, finEvents>>
    BY <1>6 DEF FinishCall, FinishRequest
  <1>7. ASSUME NEW p \in Procs, FinishStep(p)
        PROVE  /\ finRequests' = finRequests
               /\ finDecisions' = finDecisions \/ FinishDecide(p)
               /\ finEvents' = finEvents \/ FinishAppend(p)
               /\ tasks' = tasks \/ FinishSave(p)
    BY <1>7 DEF FinishStep, FinishDecide, FinishReplay, FinishRefuse, FinishSave,
                FinishSaveRefuse, FinishAppend, Refuse, ledger, finLedger
  <1>8. ASSUME NEW p \in Procs, TransitionCall(p)
        PROVE  UNCHANGED <<finLedger, tasks>>
    <2>1. PICK t \in TaskIds, actor \in Actors, status \in TransitionStatuses,
               summary \in Notes : TransitionRequest(p, t, actor, status, summary)
      BY <1>8 DEF TransitionCall
    <2> QED
      BY ONLY <2>1, Zenon DEF TransitionRequest
  <1>9. ASSUME NEW p \in Procs, TransitionStep(p)
        PROVE  UNCHANGED finLedger /\ (tasks' = tasks \/ TransitionApply(p))
    BY <1>9 DEF TransitionStep, TransitionDecide, TransitionApply, TransitionAppend, ledger
  <1>10. ASSUME NEW p \in Procs, Fail(p)
         PROVE  UNCHANGED <<finLedger, tasks>>
    BY <1>10 DEF Fail, ledger
  <1> QED
    BY <1>1, <1>2, <1>3, <1>4, <1>5, <1>6, <1>7, <1>8, <1>9, <1>10 DEF Next, finLedger

LEMMA OneVerdictStep ==
    ASSUME OneVerdict, [Next]_vars
    PROVE  OneVerdict'
  <1>1. \A q, r \in finRequests' :
           q.id.task = r.id.task /\ q.id.attempt = r.id.attempt => q = r
    <2>1. CASE finRequests' = finRequests
      BY <2>1 DEF OneVerdict
    <2>2. ASSUME NEW p \in Procs, FinishCall(p)
          PROVE  \A q, r \in finRequests' :
                    q.id.task = r.id.task /\ q.id.attempt = r.id.attempt => q = r
      <3>1. PICK t \in TaskIds, a \in AttemptIds, fid \in Finalizations, actor \in Actors,
                 status \in TerminalStatuses, summary \in Notes :
                   FinishRequest(p, t, a, fid, actor, status, summary)
        BY <2>2 DEF FinishCall
      <3> DEFINE new == Event([task |-> t, attempt |-> a, finalization |-> fid],
                              [actor |-> actor, status |-> status, summary |-> summary])
      <3>2. finRequests' = finRequests \cup {new}
        BY <3>1 DEF FinishRequest
      <3>3. new.id.task = t /\ new.id.attempt = a
        BY DEF Event
      <3>4. ASSUME NEW r \in finRequests, r.id.task = t, r.id.attempt = a
            PROVE  r = new
        BY <3>1, <3>4 DEF FinishRequest, RequestsFor, MayAppend
      <3> QED
        BY <3>2, <3>3, <3>4 DEF OneVerdict
    <2> QED
      BY <2>1, <2>2, Writers
  <1>2. \A d, e \in finDecisions' : d.id.request = e.id.request => d = e
    <2>1. CASE finDecisions' = finDecisions
      BY <2>1 DEF OneVerdict
    <2>2. ASSUME NEW p \in Procs, FinishDecide(p)
          PROVE  \A d, e \in finDecisions' : d.id.request = e.id.request => d = e
      <3> DEFINE new == Decision(local[p].request.id.task, local[p].request)
      <3>1. finDecisions' = finDecisions \cup {new}
        BY <2>2 DEF FinishDecide
      <3>2. new.id.request = local[p].request.id
        BY DEF Decision, Event
      <3>3. ASSUME NEW e \in finDecisions
            PROVE  e.id.request # local[p].request.id
        BY <2>2 DEF FinishDecide, DecisionsFor
      <3> HIDE DEF new
      <3> QED
        BY <3>1, <3>2, <3>3 DEF OneVerdict
    <2> QED
      BY <2>1, <2>2, Writers
  <1> QED
    BY <1>1, <1>2 DEF OneVerdict

\* finish_task: whatever calls race, die and are retried, an attempt never has
\* two finalization requests, nor a request two decisions.
THEOREM OneVerdictAlways == Spec => []OneVerdict
  <1>1. Init => OneVerdict
    BY DEF Init, OneVerdict
  <1>2. OneVerdict /\ [Next]_vars => OneVerdict'
    BY OneVerdictStep
  <1> QED
    BY <1>1, <1>2, PTL DEF Spec

-----------------------------------------------------------------------------
(***************************************************************************)
(* The inductive invariant.  Types alone are not inductive: that a save    *)
(* writes a row needs the row to be there, which needs the lock, which     *)
(* needs the stage each process is in.                                     *)
(***************************************************************************)
IInv == TypeOK /\ LockHeld /\ InHand /\ ValidState(tasks)

LEMMA LocalFields ==
    ASSUME NEW my \in Locals
    PROVE  /\ my.at = "create_save" => my.task \in TaskIds /\ my.next \in TaskRows
           /\ my.at = "start_save" => my.task \in TaskIds /\ my.attempt \in AttemptRows
           /\ my.at = "start_append" => my.event \in StartRows
           /\ my.at = "setup_save" =>
                my.task \in TaskIds /\ my.attempt \in AttemptIds /\ my.receipt \in Receipts
           /\ my.at = "setup_append" => my.task \in TaskIds /\ my.attempt \in AttemptIds
           /\ my.at \in {"fin_decide", "fin_save"} => my.request \in FinRequestRows
           /\ my.at = "fin_save" => my.decision \in FinDecisionRows
           /\ my.at = "fin_append" => my.event \in FinEventRows
           /\ my.at \in {"tr_decide", "tr_apply"} => my.request \in TrRequestRows
           /\ my.at = "tr_decide" => my.next \in TaskRows
           /\ my.at = "tr_apply" => my.decision \in TrDecisionRows
           /\ my.at = "tr_append" => my.event \in TrEventRows
  BY DEF Locals

\* Goto moves one process.
LEMMA GotoMoves ==
    ASSUME local \in [Procs -> Locals], NEW p \in Procs, NEW next \in Locals, Goto(p, next)
    PROVE  /\ local' \in [Procs -> Locals]
           /\ local'[p] = next
           /\ \A q \in Procs : q # p => local'[q] = local[q]
  BY DEF Goto

\* A row that is there has the type of a row, and names each attempt once.
LEMMA RowThere ==
    ASSUME TypeOK, ValidState(tasks), NEW t \in TaskIds, Exists(t)
    PROVE  tasks[t] \in TaskRows /\ UniqueIds(tasks[t])
  BY ValidRowUniqueIds DEF TypeOK, ValidState, Exists

\* A process in a locked stage is alone in one.
LEMMA LockExcludes ==
    ASSUME LockHeld, NEW p \in Procs, NEW q \in Procs, q # p,
           lock = p \/ lock = Free
    PROVE  local[q].at \notin LockedStages
  BY LockAssumption DEF LockHeld

LEMMA UnchangedKeepsHistory ==
    ASSUME tasks' = tasks
    PROVE  HistoryKept
  BY DEF HistoryKept, Exists

\* Replacing one row by a row with the same attempts keeps the history.
LEMMA SaveKeepsHistory ==
    ASSUME TypeOK, NEW t \in TaskIds, NEW row \in TaskRows, Save(t, row),
           Exists(t) => SameAttempts(tasks[t], row)
    PROVE  HistoryKept
  <1> SUFFICES ASSUME NEW s \in TaskIds, Exists(s)
               PROVE  /\ tasks'[s] # NoTask
                      /\ SameAttempts(tasks[s], tasks'[s])
    BY DEF HistoryKept, SameAttempts
  <1>1. CASE s = t
    BY <1>1, NoTaskAssumption DEF Save, TypeOK
  <1>2. CASE s # t
    BY <1>2 DEF Save, TypeOK, Exists, SameAttempts
  <1> QED
    BY <1>1, <1>2

\* What an event reports of an ended attempt stays true.
LEMMA ReportedStays ==
    ASSUME IInv, TypeOK', ValidState(tasks)', HistoryKept,
           NEW e \in FinEventRows, Reported(e)
    PROVE  Reported(e)'
  <1> DEFINE t == e.body.task
             a == e.body.attempt
  <1>1. t \in TaskIds /\ Exists(t) /\ HasAttempt(tasks[t], a)
    BY DEF Reported, FinEventRows
  <1>2. tasks[t] \in TaskRows /\ UniqueIds(tasks[t])
    BY <1>1, RowThere DEF IInv
  <1>3. PICK i \in DOMAIN tasks[t].attempts : tasks[t].attempts[i] = AttemptOf(tasks[t], a)
    BY <1>1, <1>2, AttemptOfFound
  <1>4. ~IsActive(tasks[t].attempts[i])
    BY <1>3 DEF Reported, FinEventRows, TerminalStatuses, IsActive
  <1>5. /\ tasks'[t] # NoTask
        /\ i \in DOMAIN tasks'[t].attempts
        /\ tasks'[t].attempts[i] = tasks[t].attempts[i]
    BY <1>1, <1>4 DEF HistoryKept
  <1>6. UniqueIds(tasks'[t]) /\ tasks'[t] \in TaskRows
    BY <1>1, <1>5, ValidRowUniqueIds DEF TypeOK, ValidState
  <1>7. tasks'[t].attempts[i].id = a
    BY <1>1, <1>2, <1>3, <1>5, AttemptOfFound
  <1>8. HasAttempt(tasks'[t], a) /\ AttemptOf(tasks'[t], a) = tasks[t].attempts[i]
    BY <1>5, <1>6, <1>7, AttemptOfUnique
  <1> QED
    BY <1>3, <1>5, <1>8 DEF Reported, Exists

\* Whoever does not move keeps what it has in hand.
LEMMA OthersKeepInHand ==
    ASSUME IInv, TypeOK', ValidState(tasks)', HistoryKept, NEW q \in Procs,
           local'[q] = local[q],
           tasks' = tasks \/ local[q].at \notin LockedStages,
           finRequests \subseteq finRequests', finDecisions \subseteq finDecisions',
           trRequests \subseteq trRequests', trDecisions \subseteq trDecisions'
    PROVE  InHandOf(q)'
  <1>1. InHandOf(q)
    BY DEF IInv, InHand
  <1>2. local[q] \in Locals
    BY DEF IInv, TypeOK
  <1>3. CASE local[q].at \in LockedStages
    BY <1>1, <1>3 DEF InHandOf, LockedStages, Exists
  <1>4. CASE local[q].at = "start_save"
    <2>1. local[q].task \in TaskIds
      BY <1>2, <1>4, LocalFields
    <2> QED
      BY <1>1, <1>4, <2>1 DEF InHandOf, HistoryKept, Exists
  <1>5. CASE local[q].at = "fin_append"
    <2>1. local[q].event \in FinEventRows /\ Reported(local[q].event)
      BY <1>1, <1>2, <1>5, LocalFields DEF InHandOf
    <2>2. Reported(local[q].event)'
      BY <2>1, ReportedStays
    <2> QED
      BY <1>5, <2>2 DEF InHandOf
  <1>6. CASE local[q].at \notin LockedStages \cup {"start_save", "fin_append"}
    BY <1>6 DEF InHandOf, LockedStages
  <1> QED
    BY <1>3, <1>4, <1>5, <1>6

\* The shape every step of a process has, and why it keeps the invariant.
LEMMA ProcessStep ==
    ASSUME IInv, TypeOK', ValidState(tasks)', HistoryKept,
           NEW p \in Procs, NEW next \in Locals, Goto(p, next), InHandOf(p)',
           tasks' = tasks \/ lock = p \/ lock = Free,
           \/ /\ lock = p \/ lock = Free
              /\ lock' = IF next.at \in LockedStages THEN p ELSE Free
           \/ /\ local[p].at \notin LockedStages
              /\ next.at \notin LockedStages
              /\ lock' = lock,
           finRequests \subseteq finRequests', finDecisions \subseteq finDecisions',
           trRequests \subseteq trRequests', trDecisions \subseteq trDecisions'
    PROVE  IInv' /\ HistoryKept
  <1>1. /\ local'[p] = next
        /\ \A q \in Procs : q # p => local'[q] = local[q]
    BY GotoMoves DEF IInv, TypeOK
  <1>2. LockHeld'
    <2> SUFFICES ASSUME NEW q \in Procs
                 PROVE  local'[q].at \in LockedStages <=> lock' = q
      BY DEF LockHeld
    <2>1. local[q].at \in LockedStages <=> lock = q
      BY DEF IInv, LockHeld
    <2>2. CASE q = p
      BY <1>1, <2>1, <2>2, LockAssumption
    <2>3. CASE q # p
      BY <1>1, <2>1, <2>3, LockAssumption
    <2> QED
      BY <2>2, <2>3
  <1>3. InHand'
    <2> SUFFICES ASSUME NEW q \in Procs, q # p
                 PROVE  InHandOf(q)'
      BY DEF InHand
    <2>1. tasks' = tasks \/ local[q].at \notin LockedStages
      BY LockExcludes DEF IInv
    <2> QED
      BY <1>1, <2>1, OthersKeepInHand
  <1> QED
    BY <1>2, <1>3 DEF IInv

-----------------------------------------------------------------------------
(***************************************************************************)
(* create_task.                                                            *)
(***************************************************************************)
LEMMA CreateAppendStep ==
    ASSUME IInv, NEW p \in Procs, NEW t \in TaskIds, NEW title \in Notes,
           CreateAppend(p, t, title)
    PROVE  IInv' /\ HistoryKept
  <1> DEFINE next == [at |-> "create_save", task |-> t, next |-> CreatedRow(t, title)]
             e == Event(t, [title |-> title, created |-> CreatedAt(t)])
  <1>1. CreatedAt(t) \in Nat
    BY DEF IInv, TypeOK, CreatedAt, CreateRows
  <1>2. next \in Locals /\ CreatedRow(t, title).attempts = <<>>
    BY <1>1, NewRowType DEF Locals, CreatedRow
  <1>3. e \in CreateRows
    BY <1>1 DEF Event, CreateRows
  <1>4. /\ Goto(p, next) /\ lock = Free /\ lock' = p /\ ~Exists(t)
        /\ createEvents' = createEvents \cup {e}
        /\ UNCHANGED <<clock, failures, tasks, startEvents, setupEvents, finLedger, trLedger>>
    BY DEF CreateAppend, Enter, Hold
  <1> HIDE DEF e
  <1>5. TypeOK'
    BY <1>2, <1>3, <1>4, GotoMoves DEF IInv, TypeOK, finLedger, trLedger
  <1>6. InHandOf(p)'
    <2>1. local'[p] = next
      BY <1>2, <1>4, GotoMoves DEF IInv, TypeOK
    <2> QED
      BY <1>2, <1>4, <2>1 DEF InHandOf, Exists
  <1>7. next.at \in LockedStages
    BY DEF LockedStages
  <1> QED
    BY <1>2, <1>4, <1>5, <1>6, <1>7, ProcessStep, UnchangedKeepsHistory
       DEF IInv, finLedger, trLedger

LEMMA IdleStep ==
    ASSUME IInv, NEW p \in Procs, local[p].at \in LockedStages, TypeOK', ValidState(tasks)',
           HistoryKept, Goto(p, Idle), Release, ledger' = ledger
    PROVE  IInv' /\ HistoryKept
  <1>1. Idle \in Locals /\ Idle.at \notin LockedStages
    BY DEF Locals, LockedStages
  <1>2. local'[p] = Idle
    BY <1>1, GotoMoves DEF IInv, TypeOK
  <1>3. InHandOf(p)'
    BY <1>2 DEF InHandOf
  <1>4. lock = p
    BY DEF IInv, LockHeld
  <1> QED
    BY <1>1, <1>3, <1>4, ProcessStep DEF ledger, finLedger, trLedger, Release

LEMMA CreateSaveStep ==
    ASSUME IInv, NEW p \in Procs, CreateSave(p)
    PROVE  IInv' /\ HistoryKept
  <1> DEFINE my == local[p]
  <1>1. my.task \in TaskIds /\ my.next \in TaskRows
    BY LocalFields DEF CreateSave, IInv, TypeOK
  <1>2. ~Exists(my.task)
    BY DEF CreateSave, IInv, InHand, InHandOf
  <1>3. HistoryKept
    BY <1>1, <1>2, SaveKeepsHistory DEF CreateSave, IInv
  <1>4. Idle \in Locals
    BY DEF Locals
  <1>5. TypeOK'
    BY <1>1, <1>4, GotoMoves
       DEF CreateSave, Save, Release, IInv, TypeOK, ledger, setupLedger, finLedger, trLedger
  <1>6. ValidState(tasks)'
    BY DEF CreateSave, Save
  <1>7. local[p].at \in LockedStages
    BY DEF CreateSave, LockedStages
  <1> QED
    BY <1>3, <1>5, <1>6, <1>7, IdleStep DEF CreateSave

-----------------------------------------------------------------------------
(***************************************************************************)
(* start_task.                                                             *)
(***************************************************************************)
\* The first action of a call changes its process and nothing else.
LEMMA CallStep ==
    ASSUME IInv, NEW p \in Procs, NEW next \in Locals, Goto(p, next), InHandOf(p)',
           local[p].at \notin LockedStages, next.at \notin LockedStages,
           UNCHANGED <<clock, failures, tasks, lock, ledger>>
    PROVE  IInv' /\ HistoryKept
  <1>1. TypeOK'
    BY GotoMoves DEF IInv, TypeOK, ledger, setupLedger, finLedger, trLedger
  <1> QED
    BY <1>1, ProcessStep, UnchangedKeepsHistory DEF IInv, ledger, finLedger, trLedger

LEMMA StartCallStep ==
    ASSUME IInv, NEW p \in Procs, NEW t \in TaskIds, NEW a \in AttemptIds,
           NEW actor \in Actors, StartCall(p, t, a, actor)
    PROVE  IInv' /\ HistoryKept
  <1> DEFINE next == [at |-> "start_save", task |-> t, attempt |-> NewAttempt(a, actor, clock)]
  <1>1. next \in Locals
    BY NewAttemptType DEF Locals, IInv, TypeOK
  <1>2. Goto(p, next) /\ Exists(t) /\ local[p] = Idle
    BY DEF StartCall
  <1>3. InHandOf(p)'
    <2>1. local'[p] = next /\ tasks' = tasks
      BY <1>1, <1>2, GotoMoves DEF IInv, TypeOK, StartCall
    <2>2. IsActive(NewAttempt(a, actor, clock))
      BY DEF NewAttempt, IsActive
    <2> QED
      BY <1>2, <2>1, <2>2 DEF InHandOf, Exists
  <1> QED
    BY <1>1, <1>2, <1>3, CallStep DEF StartCall, LockedStages

LEMMA StartEventType ==
    ASSUME NEW t \in TaskIds, NEW attempt \in AttemptRows
    PROVE  StartEvent(t, attempt) \in StartRows
  BY DEF StartEvent, Event, StartRows, AttemptRows

LEMMA RepairStartStep ==
    ASSUME IInv, NEW p \in Procs, NEW t \in TaskIds, NEW a \in AttemptIds,
           RepairStart(p, t, a)
    PROVE  IInv' /\ HistoryKept
  <1> DEFINE next == [at |-> "start_append",
                      event |-> StartEvent(t, AttemptOf(tasks[t], a))]
  <1>1. AttemptOf(tasks[t], a) \in AttemptRows
    BY RowThere, AttemptOfFound DEF RepairStart, IInv
  <1>2. next \in Locals
    BY <1>1, StartEventType DEF Locals
  <1>3. InHandOf(p)'
    <2>1. local'[p] = next
      BY <1>2, GotoMoves DEF IInv, TypeOK, RepairStart
    <2> QED
      BY <2>1 DEF InHandOf
  <1> QED
    BY <1>2, <1>3, CallStep DEF RepairStart, LockedStages

\* Appending a new attempt keeps the attempts before it.
LEMMA StartKeepsHistory ==
    ASSUME TypeOK, NEW t \in TaskIds, Exists(t), NEW attempt \in AttemptRows,
           Save(t, StartedRow(tasks[t], attempt))
    PROVE  HistoryKept
  <1> DEFINE row == StartedRow(tasks[t], attempt)
  <1>1. tasks[t] \in TaskRows
    BY DEF TypeOK, Exists
  <1>2. row \in TaskRows /\ row.attempts = Append(tasks[t].attempts, attempt)
    BY <1>1, StartedRowType
  <1>3. \A i \in DOMAIN tasks[t].attempts :
          i \in DOMAIN row.attempts /\ row.attempts[i] = tasks[t].attempts[i]
    BY <1>1, <1>2, AttemptsAreRows DEF TaskRows
  <1> SUFFICES ASSUME NEW s \in TaskIds, Exists(s)
               PROVE  /\ tasks'[s] # NoTask
                      /\ \A i \in DOMAIN tasks[s].attempts :
                           /\ i \in DOMAIN tasks'[s].attempts
                           /\ tasks'[s].attempts[i] = tasks[s].attempts[i]
    BY DEF HistoryKept
  <1>4. CASE s = t
    <2>1. tasks'[s] = row
      BY <1>4 DEF Save, TypeOK
    <2> HIDE DEF row
    <2> QED
      BY <1>2, <1>3, <1>4, <2>1, NoTaskAssumption
  <1>5. CASE s # t
    BY <1>5 DEF Save, TypeOK, Exists
  <1> QED
    BY <1>4, <1>5

LEMMA StartSaveStep ==
    ASSUME IInv, NEW p \in Procs, StartSave(p)
    PROVE  IInv' /\ HistoryKept
  <1> DEFINE my == local[p]
             next == [at |-> "start_append", event |-> StartEvent(my.task, my.attempt)]
  <1>1. my.task \in TaskIds /\ my.attempt \in AttemptRows
    BY LocalFields DEF StartSave, IInv, TypeOK
  <1>2. Exists(my.task)
    BY DEF StartSave, IInv, InHand, InHandOf
  <1>3. StartedRow(tasks[my.task], my.attempt) \in TaskRows
    BY <1>1, <1>2, RowThere, StartedRowType DEF IInv
  <1>4. HistoryKept
    BY <1>1, <1>2, StartKeepsHistory DEF StartSave, IInv
  <1>5. next \in Locals
    BY <1>1, StartEventType DEF Locals
  <1>6. local'[p] = next /\ local' \in [Procs -> Locals]
    BY <1>5, GotoMoves DEF StartSave, IInv, TypeOK
  <1>7. TypeOK'
    BY <1>1, <1>3, <1>6
       DEF StartSave, Save, IInv, TypeOK, ledger, setupLedger, finLedger, trLedger
  <1>8. InHandOf(p)'
    BY <1>6 DEF InHandOf
  <1>9. ValidState(tasks)'
    BY DEF StartSave, Save
  <1> QED
    BY <1>4, <1>5, <1>7, <1>8, <1>9, ProcessStep
       DEF StartSave, LockedStages, ledger, finLedger, trLedger

LEMMA StartRefuseStep ==
    ASSUME IInv, NEW p \in Procs, StartRefuse(p)
    PROVE  IInv' /\ HistoryKept
  <1>1. Idle \in Locals
    BY DEF Locals
  <1>2. lock' = lock /\ local[p].at = "start_save" /\ Goto(p, Idle)
    BY DEF StartRefuse, Refuse, Release
  <1>3. InHandOf(p)'
    <2>1. local'[p] = Idle
      BY <1>1, <1>2, GotoMoves DEF IInv, TypeOK
    <2> QED
      BY <2>1 DEF InHandOf
  <1> QED
    BY <1>1, <1>2, <1>3, CallStep DEF StartRefuse, Refuse, LockedStages

LEMMA StartAppendStep ==
    ASSUME IInv, NEW p \in Procs, StartAppend(p)
    PROVE  IInv' /\ HistoryKept
  <1>1. Idle \in Locals /\ Idle.at \notin LockedStages /\ local[p].at \notin LockedStages
    BY DEF Locals, LockedStages, StartAppend
  <1>2. local' \in [Procs -> Locals] /\ local'[p] = Idle
    BY <1>1, GotoMoves DEF StartAppend, IInv, TypeOK
  <1>3. local[p].event \in StartRows
    BY LocalFields DEF StartAppend, IInv, TypeOK
  <1>4. TypeOK'
    BY <1>2, <1>3 DEF StartAppend, IInv, TypeOK, finLedger, trLedger
  <1>5. InHandOf(p)'
    BY <1>2 DEF InHandOf
  <1> QED
    BY <1>1, <1>4, <1>5, ProcessStep, UnchangedKeepsHistory
       DEF StartAppend, IInv, finLedger, trLedger

-----------------------------------------------------------------------------
(***************************************************************************)
(* record_task_setup.                                                      *)
(***************************************************************************)
LEMMA SetupEventType ==
    ASSUME NEW t \in TaskIds, NEW attempt \in AttemptRows
    PROVE  SetupEvent(t, attempt) \in SetupRows
  BY DEF SetupEvent, Event, SetupRows, AttemptRows

LEMMA SetupRepairStep ==
    ASSUME IInv, NEW p \in Procs, NEW t \in TaskIds, NEW a \in AttemptIds,
           NEW actor \in Actors, NEW expected \in Receipts, NEW receipt \in Receipts,
           SetupRepair(p, t, a, actor, expected, receipt)
    PROVE  IInv' /\ HistoryKept
  <1> DEFINE attempt == AttemptOf(tasks[t], a)
             next == [at |-> "setup_save", task |-> t, attempt |-> a, receipt |-> receipt]
  <1>1. /\ Exists(t) /\ HasAttempt(tasks[t], a) /\ IsActive(attempt)
        /\ lock = Free /\ local[p] = Idle
        /\ setupEvents' = WithSetup(t, attempt)
        /\ UNCHANGED <<clock, failures, tasks, createEvents, startEvents, finLedger, trLedger>>
        /\ \/ Goto(p, next) /\ lock' = p
           \/ UNCHANGED <<local, lock>>
    BY DEF SetupRepair, Enter, Hold
  <1>2. attempt \in AttemptRows
    BY <1>1, RowThere, AttemptOfFound DEF IInv
  <1>3. setupEvents' \subseteq SetupRows
    BY <1>1, <1>2, SetupEventType DEF WithSetup, IInv, TypeOK
  <1>4. next \in Locals /\ next.at \in LockedStages
    BY DEF Locals, LockedStages
  <1>5. CASE Goto(p, next) /\ lock' = p
    <2>1. local'[p] = next /\ local' \in [Procs -> Locals]
      BY <1>4, <1>5, GotoMoves DEF IInv, TypeOK
    <2>2. TypeOK'
      BY <1>1, <1>3, <1>5, <2>1 DEF IInv, TypeOK, finLedger, trLedger
    <2>3. InHandOf(p)'
      BY <1>1, <2>1 DEF InHandOf, Exists
    <2> QED
      BY <1>1, <1>4, <1>5, <2>2, <2>3, ProcessStep, UnchangedKeepsHistory
         DEF IInv, finLedger, trLedger
  <1>6. CASE UNCHANGED <<local, lock>>
    <2>1. Goto(p, Idle)
      BY <1>1, <1>6 DEF Goto, IInv, TypeOK
    <2>2. Idle \in Locals /\ Idle.at \notin LockedStages
      BY DEF Locals, LockedStages
    <2>3. TypeOK'
      BY <1>1, <1>3, <1>6 DEF IInv, TypeOK, finLedger, trLedger
    <2>4. InHandOf(p)'
      BY <1>1, <1>6 DEF InHandOf
    <2> QED
      BY <1>1, <1>6, <2>1, <2>2, <2>3, <2>4, ProcessStep, UnchangedKeepsHistory
         DEF IInv, finLedger, trLedger
  <1> QED
    BY <1>1, <1>5, <1>6

LEMMA SetupSaveStep ==
    ASSUME IInv, NEW p \in Procs, SetupSave(p)
    PROVE  IInv' /\ HistoryKept
  <1> DEFINE my == local[p]
             t == my.task
             row == SetupRow(tasks[t], my.attempt, my.receipt)
             new == [AttemptOf(tasks[t], my.attempt) EXCEPT !.setup = my.receipt]
             next == [at |-> "setup_append", task |-> t, attempt |-> my.attempt]
  <1>1. t \in TaskIds /\ my.attempt \in AttemptIds /\ my.receipt \in Receipts
    BY LocalFields DEF SetupSave, IInv, TypeOK
  <1>2. /\ Exists(t) /\ HasAttempt(tasks[t], my.attempt)
        /\ IsActive(AttemptOf(tasks[t], my.attempt))
    BY DEF SetupSave, IInv, InHand, InHandOf
  <1>3. tasks[t] \in TaskRows /\ UniqueIds(tasks[t])
    BY <1>1, <1>2, RowThere DEF IInv
  <1>4. /\ row \in TaskRows
        /\ row.attempts = [i \in DOMAIN tasks[t].attempts |->
                             IF tasks[t].attempts[i].id = my.attempt
                             THEN new ELSE tasks[t].attempts[i]]
    BY <1>1, <1>2, <1>3, SetupRowType
  <1>5. /\ new.id = my.attempt
        /\ new.actor = AttemptOf(tasks[t], my.attempt).actor
        /\ new.started = AttemptOf(tasks[t], my.attempt).started
        /\ IsActive(new)
    BY <1>2, <1>3, AttemptOfFound DEF AttemptRows, IsActive
  <1>6. Save(t, row) /\ Goto(p, next) /\ UNCHANGED <<clock, failures, lock, ledger>>
    BY DEF SetupSave
  <1> HIDE DEF new, row
  <1>7. HistoryKept
    <2>1. SameAttempts(tasks[t], row)
      BY <1>2, <1>3, <1>4, <1>5, SingleChangeKeepsAttempts
    <2> QED
      BY <1>1, <1>4, <1>6, <2>1, SaveKeepsHistory DEF IInv
  <1>8. next \in Locals /\ next.at \in LockedStages
    BY <1>1 DEF Locals, LockedStages
  <1>9. local'[p] = next /\ local' \in [Procs -> Locals]
    BY <1>6, <1>8, GotoMoves DEF IInv, TypeOK
  <1>10. TypeOK'
    BY <1>1, <1>4, <1>6, <1>9 DEF Save, IInv, TypeOK, ledger, setupLedger, finLedger, trLedger
  <1>11. ValidState(tasks)' /\ tasks'[t] = row
    BY <1>1, <1>6 DEF Save, IInv, TypeOK
  <1>12. InHandOf(p)'
    <2>1. PICK i \in DOMAIN tasks[t].attempts : tasks[t].attempts[i].id = my.attempt
      BY <1>2 DEF HasAttempt
    <2>2. i \in DOMAIN row.attempts /\ row.attempts[i] = new
      BY <1>4, <2>1
    <2>3. UniqueIds(row)
      BY <1>1, <1>4, <1>11, NoTaskAssumption, ValidRowUniqueIds DEF ValidState
    <2>4. HasAttempt(row, my.attempt) /\ AttemptOf(row, my.attempt) = new
      BY <1>5, <2>2, <2>3, AttemptOfUnique
    <2>5. tasks'[t] # NoTask
      BY <1>4, <1>11, NoTaskAssumption
    <2> QED
      BY <1>5, <1>9, <1>11, <2>4, <2>5 DEF InHandOf, Exists
  <1>13. lock = p
    BY DEF SetupSave, IInv, LockHeld, LockedStages
  <1> QED
    BY <1>6, <1>7, <1>8, <1>10, <1>11, <1>12, <1>13, ProcessStep
       DEF ledger, finLedger, trLedger

LEMMA SetupAppendStep ==
    ASSUME IInv, NEW p \in Procs, SetupAppend(p)
    PROVE  IInv' /\ HistoryKept
  <1> DEFINE my == local[p]
             attempt == AttemptOf(tasks[my.task], my.attempt)
  <1>1. my.task \in TaskIds
    BY LocalFields DEF SetupAppend, IInv, TypeOK
  <1>2. Exists(my.task) /\ HasAttempt(tasks[my.task], my.attempt)
    BY DEF SetupAppend, IInv, InHand, InHandOf
  <1>3. attempt \in AttemptRows
    BY <1>1, <1>2, RowThere, AttemptOfFound DEF IInv
  <1>4. setupEvents' \subseteq SetupRows
    BY <1>1, <1>3, SetupEventType DEF SetupAppend, WithSetup, IInv, TypeOK
  <1>5. Idle \in Locals /\ Idle.at \notin LockedStages
    BY DEF Locals, LockedStages
  <1>6. local'[p] = Idle /\ local' \in [Procs -> Locals]
    BY <1>5, GotoMoves DEF SetupAppend, IInv, TypeOK
  <1>7. TypeOK'
    BY <1>4, <1>6 DEF SetupAppend, Release, IInv, TypeOK, finLedger, trLedger
  <1>8. InHandOf(p)'
    BY <1>6 DEF InHandOf
  <1>9. lock = p
    BY DEF SetupAppend, IInv, LockHeld, LockedStages
  <1> QED
    BY <1>5, <1>7, <1>8, <1>9, ProcessStep, UnchangedKeepsHistory
       DEF SetupAppend, Release, IInv, finLedger, trLedger

-----------------------------------------------------------------------------
(***************************************************************************)
(* finish_task.                                                            *)
(***************************************************************************)
LEMMA TerminalRowType ==
    ASSUME IInv, NEW request \in FinRequestRows, NEW ended \in Nat,
           Exists(request.id.task),
           HasAttempt(tasks[request.id.task], request.id.attempt)
    PROVE  LET t == request.id.task
               a == request.id.attempt
           IN  /\ TerminalRow(t, request, ended) \in TaskRows
               /\ TerminalRow(t, request, ended).attempts =
                    [i \in DOMAIN tasks[t].attempts |->
                       IF tasks[t].attempts[i].id = a
                       THEN FinishedAttempt(AttemptOf(tasks[t], a), request.body.status,
                                            request.body.summary, ended)
                       ELSE tasks[t].attempts[i]]
  <1>1. /\ request.id.task \in TaskIds
        /\ request.body.actor \in Actors
        /\ request.body.status \in TerminalStatuses
        /\ request.body.summary \in Notes
    BY DEF FinRequestRows, RequestIds, Verdicts
  <1>2. tasks[request.id.task] \in TaskRows
    BY <1>1, RowThere DEF IInv
  <1> QED
    BY <1>1, <1>2, FinishedRowType DEF TerminalRow

LEMMA FinishRequestStep ==
    ASSUME IInv, NEW p \in Procs, NEW t \in TaskIds, NEW a \in AttemptIds,
           NEW fid \in Finalizations, NEW actor \in Actors,
           NEW status \in TerminalStatuses, NEW summary \in Notes,
           FinishRequest(p, t, a, fid, actor, status, summary)
    PROVE  IInv' /\ HistoryKept
  <1> DEFINE request == Event([task |-> t, attempt |-> a, finalization |-> fid],
                              [actor |-> actor, status |-> status, summary |-> summary])
             next == [at |-> "fin_decide", request |-> request]
  <1>1. request \in FinRequestRows /\ request.id.task = t /\ request.id.attempt = a
    BY DEF Event, FinRequestRows, RequestIds, Verdicts
  <1>2. /\ Goto(p, next) /\ lock = Free /\ lock' = p
        /\ Exists(t) /\ HasAttempt(tasks[t], a)
        /\ finRequests' = finRequests \cup {request}
        /\ UNCHANGED <<clock, failures, tasks, setupLedger, finDecisions, finEvents, trLedger>>
    BY DEF FinishRequest, Enter, Hold
  <1> HIDE DEF request
  <1>3. next \in Locals /\ next.at \in LockedStages
    BY <1>1 DEF Locals, LockedStages
  <1>4. local'[p] = next /\ local' \in [Procs -> Locals]
    BY <1>2, <1>3, GotoMoves DEF IInv, TypeOK
  <1>5. TypeOK'
    BY <1>1, <1>2, <1>4 DEF IInv, TypeOK, setupLedger, trLedger
  <1>6. InHandOf(p)'
    BY <1>1, <1>2, <1>4 DEF InHandOf, Exists
  <1> QED
    BY <1>2, <1>3, <1>5, <1>6, ProcessStep, UnchangedKeepsHistory DEF IInv, trLedger

\* What a process between the request and the save has in hand.
LEMMA FinishInHand ==
    ASSUME IInv, NEW p \in Procs, local[p].at \in {"fin_decide", "fin_save"}
    PROVE  LET request == local[p].request
               t == request.id.task
               a == request.id.attempt
           IN  /\ request \in FinRequestRows /\ t \in TaskIds /\ a \in AttemptIds
               /\ Exists(t) /\ HasAttempt(tasks[t], a)
               /\ tasks[t] \in TaskRows /\ UniqueIds(tasks[t])
               /\ AttemptOf(tasks[t], a) \in AttemptRows /\ AttemptOf(tasks[t], a).id = a
               /\ request \in finRequests
               /\ lock = p
  <1> DEFINE request == local[p].request
             t == request.id.task
             a == request.id.attempt
  <1>1. request \in FinRequestRows
    BY LocalFields DEF IInv, TypeOK
  <1>2. t \in TaskIds /\ a \in AttemptIds
    BY <1>1 DEF FinRequestRows, RequestIds
  <1>3. Exists(t) /\ HasAttempt(tasks[t], a) /\ request \in finRequests
    BY DEF IInv, InHand, InHandOf
  <1>4. tasks[t] \in TaskRows /\ UniqueIds(tasks[t])
    BY <1>2, <1>3, RowThere DEF IInv
  <1>5. AttemptOf(tasks[t], a) \in AttemptRows /\ AttemptOf(tasks[t], a).id = a
    BY <1>3, <1>4, AttemptOfFound
  <1>6. lock = p
    BY DEF IInv, LockHeld, LockedStages
  <1> QED
    BY <1>1, <1>2, <1>3, <1>4, <1>5, <1>6

LEMMA FinishDecideStep ==
    ASSUME IInv, NEW p \in Procs, FinishDecide(p)
    PROVE  IInv' /\ HistoryKept
  <1> DEFINE request == local[p].request
             t == request.id.task
             a == request.id.attempt
             decision == Decision(t, request)
             next == [at |-> "fin_save", request |-> request, decision |-> decision]
  <1>1. /\ local[p].at = "fin_decide" /\ Goto(p, next)
        /\ IsActive(AttemptOf(tasks[t], a))
        /\ finDecisions' = finDecisions \cup {decision}
        /\ UNCHANGED <<clock, failures, tasks, lock, setupLedger, finRequests, finEvents,
                       trLedger>>
    BY DEF FinishDecide
  <1>2. /\ request \in FinRequestRows /\ Exists(t) /\ HasAttempt(tasks[t], a)
        /\ tasks[t] \in TaskRows /\ request \in finRequests /\ lock = p
    BY <1>1, FinishInHand
  <1>3. TerminalRow(t, request, clock) \in TaskRows
    BY <1>2, TerminalRowType DEF IInv, TypeOK
  <1>4. /\ decision \in FinDecisionRows
        /\ decision.id = [request |-> request.id, pre |-> tasks[t]]
    BY <1>2, <1>3 DEF Decision, Event, FinDecisionRows, FinDecisionIds, FinRequestRows,
                      IInv, TypeOK
  <1> HIDE DEF decision
  <1>5. next \in Locals /\ next.at \in LockedStages
    BY <1>2, <1>4 DEF Locals, LockedStages
  <1>6. local'[p] = next /\ local' \in [Procs -> Locals]
    BY <1>1, <1>5, GotoMoves DEF IInv, TypeOK
  <1>7. TypeOK'
    BY <1>1, <1>4, <1>6 DEF IInv, TypeOK, setupLedger, trLedger
  <1>8. InHandOf(p)'
    BY <1>1, <1>2, <1>4, <1>6 DEF InHandOf, Exists
  <1> QED
    BY <1>1, <1>2, <1>5, <1>7, <1>8, ProcessStep, UnchangedKeepsHistory DEF IInv, trLedger

LEMMA FinishEventType ==
    ASSUME NEW request \in FinRequestRows, NEW decision \in FinDecisionRows,
           NEW attempt \in AttemptRows
    PROVE  /\ FinishEvent(request, decision, attempt) \in FinEventRows
           /\ FinishEvent(request, decision, attempt).body =
                [task |-> request.id.task, attempt |-> request.id.attempt,
                 status |-> request.body.status, ended |-> attempt.ended]
  BY DEF FinishEvent, Event, FinEventRows, FinRequestRows, FinDecisionRows, RequestIds,
         Verdicts, AttemptRows

LEMMA FinishReplayStep ==
    ASSUME IInv, NEW p \in Procs, FinishReplay(p)
    PROVE  IInv' /\ HistoryKept
  <1> DEFINE request == local[p].request
             t == request.id.task
             a == request.id.attempt
             attempt == AttemptOf(tasks[t], a)
  <1>1. local[p].at = "fin_decide" /\ UNCHANGED <<clock, failures, tasks, ledger>>
    BY DEF FinishReplay
  <1>2. /\ request \in FinRequestRows /\ Exists(t) /\ HasAttempt(tasks[t], a)
        /\ t \in TaskIds /\ request \in finRequests /\ lock = p
        /\ attempt \in AttemptRows
    BY <1>1, FinishInHand
  <1>3. PICK decision \in DecisionsFor(request) :
          IF IsActive(attempt)
          THEN /\ decision.id.pre = tasks[t]
               /\ Goto(p, [at |-> "fin_save", request |-> request, decision |-> decision])
               /\ UNCHANGED lock
          ELSE /\ MatchesRequest(attempt, request)
               /\ Goto(p, [at |-> "fin_append",
                           event |-> FinishEvent(request, decision, attempt)])
               /\ Release
    BY DEF FinishReplay
  <1>4. /\ decision \in finDecisions /\ decision \in FinDecisionRows
        /\ decision.id.request = request.id
    BY DEF DecisionsFor, IInv, TypeOK
  <1>5. CASE IsActive(attempt)
    <2> DEFINE next == [at |-> "fin_save", request |-> request, decision |-> decision]
    <2>1. decision.id = [request |-> request.id, pre |-> tasks[t]]
      BY <1>3, <1>4, <1>5 DEF FinDecisionRows, FinDecisionIds
    <2>2. next \in Locals /\ next.at \in LockedStages
      BY <1>2, <1>4 DEF Locals, LockedStages
    <2>3. local'[p] = next /\ local' \in [Procs -> Locals]
      BY <1>3, <1>5, <2>2, GotoMoves DEF IInv, TypeOK
    <2>4. TypeOK'
      BY <1>1, <1>3, <1>5, <2>3
         DEF IInv, TypeOK, ledger, setupLedger, finLedger, trLedger
    <2>5. InHandOf(p)'
      BY <1>1, <1>2, <1>4, <1>5, <2>1, <2>3 DEF InHandOf, Exists, ledger, finLedger
    <2> QED
      BY <1>1, <1>2, <1>3, <1>5, <2>2, <2>4, <2>5, ProcessStep, UnchangedKeepsHistory
         DEF IInv, ledger, finLedger, trLedger
  <1>6. CASE ~IsActive(attempt)
    <2> DEFINE e == FinishEvent(request, decision, attempt)
               next == [at |-> "fin_append", event |-> e]
    <2>1. /\ e \in FinEventRows
          /\ e.body = [task |-> t, attempt |-> a, status |-> request.body.status,
                       ended |-> attempt.ended]
      BY <1>2, <1>4, FinishEventType
    <2> HIDE DEF e
    <2>2. next \in Locals /\ next.at \notin LockedStages
      BY <2>1 DEF Locals, LockedStages
    <2>3. local'[p] = next /\ local' \in [Procs -> Locals]
      BY <1>3, <1>6, <2>2, GotoMoves DEF IInv, TypeOK, e
    <2>4. TypeOK'
      BY <1>1, <1>3, <1>6, <2>3
         DEF Release, IInv, TypeOK, ledger, setupLedger, finLedger, trLedger
    <2>5. Reported(e)
      <3>1. MatchesRequest(attempt, request)
        BY <1>3, <1>6
      <3>2. attempt.status = request.body.status
        BY <3>1 DEF MatchesRequest
      <3>3. /\ e.body.task = t /\ e.body.attempt = a
            /\ e.body.status = attempt.status /\ e.body.ended = attempt.ended
        BY <2>1, <3>2
      <3>4. Exists(t) /\ HasAttempt(tasks[t], a)
        BY <1>2
      <3> HIDE DEF t, a, attempt, request
      <3>5. AttemptOf(tasks[t], a) = attempt
        BY DEF attempt
      <3> QED
        BY <3>3, <3>4, <3>5 DEF Reported
    <2>6. InHandOf(p)'
      BY <1>1, <2>3, <2>5 DEF InHandOf, Reported, Exists
    <2>7. Goto(p, next) /\ Release
      BY <1>3, <1>6 DEF e
    <2> QED
      BY <1>1, <1>2, <2>2, <2>4, <2>6, <2>7, ProcessStep, UnchangedKeepsHistory
         DEF Release, IInv, ledger, finLedger, trLedger
  <1> QED
    BY <1>5, <1>6

\* A refusal in the locked section changes nothing.
LEMMA RefuseStep ==
    ASSUME IInv, NEW p \in Procs, local[p].at \in LockedStages, Refuse(p)
    PROVE  IInv' /\ HistoryKept
  <1>1. Idle \in Locals
    BY DEF Locals
  <1>2. TypeOK'
    BY <1>1, GotoMoves
       DEF Refuse, Release, IInv, TypeOK, ledger, setupLedger, finLedger, trLedger
  <1> QED
    BY <1>2, IdleStep, UnchangedKeepsHistory DEF Refuse, IInv

\* FinishedRow names the attempt it ended.
LEMMA FinishSaveStep ==
    ASSUME IInv, NEW p \in Procs, FinishSave(p)
    PROVE  IInv' /\ HistoryKept
  <1> DEFINE my == local[p]
             request == my.request
             t == request.id.task
             a == request.id.attempt
             old == AttemptOf(tasks[t], a)
             row == TerminalRow(t, request, my.decision.body.ended)
             done == FinishedAttempt(old, request.body.status, request.body.summary,
                                     my.decision.body.ended)
             e == FinishEvent(request, my.decision, AttemptOf(row, a))
             next == [at |-> "fin_append", event |-> e]
  <1>1. /\ my.at = "fin_save" /\ Save(t, row) /\ Goto(p, next) /\ Release
        /\ UNCHANGED <<clock, failures, ledger>>
    BY DEF FinishSave
  <1>2. /\ request \in FinRequestRows /\ t \in TaskIds
        /\ Exists(t) /\ HasAttempt(tasks[t], a)
        /\ tasks[t] \in TaskRows /\ UniqueIds(tasks[t])
        /\ old \in AttemptRows /\ old.id = a /\ lock = p
    BY <1>1, FinishInHand
  <1>3. my.decision \in FinDecisionRows /\ IsActive(old)
    BY <1>1, LocalFields DEF IInv, TypeOK, InHand, InHandOf
  <1>4. my.decision.body.ended \in Nat
    BY <1>3 DEF FinDecisionRows
  <1>5. /\ row \in TaskRows
        /\ row.attempts = [i \in DOMAIN tasks[t].attempts |->
                             IF tasks[t].attempts[i].id = a
                             THEN done ELSE tasks[t].attempts[i]]
    BY <1>2, <1>4, TerminalRowType
  <1>6. /\ done.id = a /\ done.actor = old.actor /\ done.started = old.started
        /\ done.status = request.body.status /\ done.ended = my.decision.body.ended
    BY <1>2 DEF FinishedAttempt, AttemptRows
  <1> HIDE DEF done, row
  <1>7. HistoryKept
    <2>1. /\ done.id = a /\ done.actor = AttemptOf(tasks[t], a).actor
          /\ done.started = AttemptOf(tasks[t], a).started
      BY <1>6
    <2>2. IsActive(AttemptOf(tasks[t], a)) /\ HasAttempt(tasks[t], a)
      BY <1>2, <1>3
    <2>3. UniqueIds(tasks[t]) /\ tasks[t] \in TaskRows
      BY <1>2
    <2> HIDE DEF t, a
    <2>4. SameAttempts(tasks[t], row)
      BY ONLY <1>5, <2>1, <2>2, <2>3, SingleChangeKeepsAttempts
    <2> QED
      BY <1>1, <1>2, <1>5, <2>4, SaveKeepsHistory DEF IInv
  <1>8. tasks'[t] = row /\ ValidState(tasks)'
    BY <1>1, <1>2 DEF Save, IInv, TypeOK
  <1>9. /\ HasAttempt(row, a) /\ AttemptOf(row, a) = done
        /\ AttemptOf(row, a) \in AttemptRows
    <2>1. PICK i \in DOMAIN tasks[t].attempts : tasks[t].attempts[i].id = a
      BY <1>2 DEF HasAttempt
    <2>2. i \in DOMAIN row.attempts /\ row.attempts[i] = done
      BY <1>5, <2>1
    <2>3. UniqueIds(row)
      BY <1>2, <1>5, <1>8, NoTaskAssumption, ValidRowUniqueIds DEF ValidState
    <2>4. row.attempts[i].id = a
      BY <1>6, <2>2
    <2>5. HasAttempt(row, a) /\ AttemptOf(row, a) = done
      BY <2>2, <2>3, <2>4, AttemptOfUnique
    <2> QED
      BY <1>5, <2>5, AttemptOfFound
  <1>10. /\ e \in FinEventRows
         /\ e.body = [task |-> t, attempt |-> a, status |-> request.body.status,
                      ended |-> done.ended]
    BY <1>2, <1>3, <1>9, FinishEventType
  <1> HIDE DEF e
  <1>11. next \in Locals /\ next.at \notin LockedStages
    BY <1>10 DEF Locals, LockedStages
  <1>12. local'[p] = next /\ local' \in [Procs -> Locals]
    BY <1>1, <1>11, GotoMoves DEF IInv, TypeOK
  <1>13. TypeOK'
    BY <1>1, <1>2, <1>5, <1>12
       DEF Save, Release, IInv, TypeOK, ledger, setupLedger, finLedger, trLedger
  <1>14. InHandOf(p)'
    <2>1. tasks'[t] # NoTask
      BY <1>5, <1>8, NoTaskAssumption
    <2> QED
      BY <1>6, <1>8, <1>9, <1>10, <1>12, <2>1 DEF InHandOf, Reported, Exists
  <1> QED
    BY <1>1, <1>2, <1>7, <1>8, <1>11, <1>13, <1>14, ProcessStep
       DEF Release, ledger, finLedger, trLedger

LEMMA FinishAppendStep ==
    ASSUME IInv, NEW p \in Procs, FinishAppend(p)
    PROVE  IInv' /\ HistoryKept
  <1>1. Idle \in Locals /\ Idle.at \notin LockedStages /\ local[p].at \notin LockedStages
    BY DEF Locals, LockedStages, FinishAppend
  <1>2. local' \in [Procs -> Locals] /\ local'[p] = Idle
    BY <1>1, GotoMoves DEF FinishAppend, IInv, TypeOK
  <1>3. local[p].event \in FinEventRows
    BY LocalFields DEF FinishAppend, IInv, TypeOK
  <1>4. TypeOK'
    BY <1>2, <1>3 DEF FinishAppend, IInv, TypeOK, setupLedger, trLedger
  <1>5. InHandOf(p)'
    BY <1>2 DEF InHandOf
  <1> QED
    BY <1>1, <1>4, <1>5, ProcessStep, UnchangedKeepsHistory
       DEF FinishAppend, IInv, setupLedger, trLedger

-----------------------------------------------------------------------------
(***************************************************************************)
(* set_task_runtime_status.                                                *)
(***************************************************************************)
LEMMA TransitionRequestStep ==
    ASSUME IInv, NEW p \in Procs, NEW t \in TaskIds, NEW actor \in Actors,
           NEW status \in TransitionStatuses, NEW summary \in Notes,
           TransitionRequest(p, t, actor, status, summary)
    PROVE  IInv' /\ HistoryKept
  <1> DEFINE fresh == Event(Requested(t, actor, status, summary, tasks[t]), [owner |-> actor])
             same == {q \in CurrentRequests(t) : Desired(q) = Desired(fresh)}
             request == IF same = {} THEN fresh ELSE CHOOSE q \in same : TRUE
             decided == {d \in trDecisions : \E q \in same : d.id.request = q.id}
             updated == TransitionedRow(tasks[t], actor, status, summary, clock)
             taken == CHOOSE d \in decided : TRUE
             apply == [at |-> "tr_apply", request |-> request, decision |-> taken]
             decide == [at |-> "tr_decide", request |-> request, next |-> updated]
  <1>1. /\ local[p] = Idle /\ lock = Free /\ lock' = p /\ Exists(t)
        /\ \A q, r \in same : q = r
        /\ UNCHANGED <<clock, failures, tasks, setupLedger, finLedger, trDecisions, trEvents>>
        /\ IF decided # {}
           THEN Goto(p, apply) /\ UNCHANGED trRequests
           ELSE trRequests' = trRequests \cup {request} /\ Goto(p, decide)
    BY Zenon DEF TransitionRequest, Enter, Hold
  <1>2. tasks[t] \in TaskRows
    BY <1>1, RowThere DEF IInv
  <1>3. fresh \in TrRequestRows /\ fresh.id.task = t
    BY <1>2 DEF Event, Requested, TrRequestRows, TrRequestIds
  <1>4. same \subseteq trRequests /\ \A q \in same : q.id.task = t
    BY DEF CurrentRequests
  <1> HIDE DEF fresh, same
  <1>5. /\ request \in TrRequestRows /\ request.id.task = t
        /\ same # {} => request \in same
    BY <1>3, <1>4 DEF IInv, TypeOK
  <1>6. updated \in TaskRows
    BY <1>2, TransitionedRowType DEF IInv, TypeOK
  <1> HIDE DEF updated
  <1>7. CASE decided # {}
    <2>1. taken \in decided
      BY <1>7
    <2>2. /\ taken \in trDecisions /\ request \in same
          /\ taken.id.request = request.id
      BY <1>1, <1>5, <2>1
    <2> HIDE DEF taken, decided, request
    <2>3. apply \in Locals /\ apply.at \in LockedStages
      BY <1>5, <2>2 DEF Locals, LockedStages, IInv, TypeOK
    <2>4. local'[p] = apply /\ local' \in [Procs -> Locals]
      BY <1>1, <1>7, <2>3, GotoMoves DEF IInv, TypeOK
    <2>5. TypeOK'
      BY <1>1, <1>7, <2>4 DEF IInv, TypeOK, setupLedger, finLedger
    <2>6. InHandOf(p)'
      BY <1>1, <1>4, <1>5, <1>7, <2>2, <2>4 DEF InHandOf, Exists
    <2> QED
      BY <1>1, <1>7, <2>3, <2>5, <2>6, ProcessStep, UnchangedKeepsHistory
         DEF IInv, finLedger
  <1>8. CASE decided = {}
    <2> HIDE DEF decided, request
    <2>1. decide \in Locals /\ decide.at \in LockedStages
      BY <1>5, <1>6 DEF Locals, LockedStages
    <2>2. local'[p] = decide /\ local' \in [Procs -> Locals]
      BY <1>1, <1>8, <2>1, GotoMoves DEF IInv, TypeOK
    <2>3. TypeOK'
      BY <1>1, <1>5, <1>8, <2>2 DEF IInv, TypeOK, setupLedger, finLedger
    <2>4. InHandOf(p)'
      BY <1>1, <1>5, <1>8, <2>2 DEF InHandOf, Exists
    <2> QED
      BY <1>1, <1>8, <2>1, <2>3, <2>4, ProcessStep, UnchangedKeepsHistory
         DEF IInv, finLedger
  <1> QED
    BY <1>7, <1>8

\* What a process between a transition request and its save has in hand.
LEMMA TransitionInHand ==
    ASSUME IInv, NEW p \in Procs, local[p].at \in {"tr_decide", "tr_apply"}
    PROVE  LET request == local[p].request
               t == request.id.task
           IN  /\ request \in TrRequestRows /\ request \in trRequests
               /\ t \in TaskIds /\ Exists(t) /\ tasks[t] \in TaskRows
               /\ request.id.actor \in Actors /\ request.id.status \in TransitionStatuses
               /\ request.id.summary \in Notes /\ request.id.pre \in TaskRows
               /\ request.id \in TrRequestIds
               /\ lock = p
  <1> DEFINE request == local[p].request
  <1>1. request \in TrRequestRows
    BY LocalFields DEF IInv, TypeOK
  <1>2. request.id \in TrRequestIds
    BY <1>1 DEF TrRequestRows
  <1>3. request \in trRequests /\ Exists(request.id.task)
    BY DEF IInv, InHand, InHandOf
  <1>4. tasks[request.id.task] \in TaskRows
    BY <1>2, <1>3, RowThere DEF IInv, TrRequestIds
  <1>5. lock = p
    BY DEF IInv, LockHeld, LockedStages
  <1> QED
    BY <1>1, <1>2, <1>3, <1>4, <1>5 DEF TrRequestIds

LEMMA TransitionDecideStep ==
    ASSUME IInv, NEW p \in Procs, TransitionDecide(p)
    PROVE  IInv' /\ HistoryKept
  <1> DEFINE my == local[p]
             decision == Event([request |-> my.request.id, pre |-> my.request.id.pre],
                               [updated |-> my.next.updated, post |-> my.next])
             next == [at |-> "tr_apply", request |-> my.request, decision |-> decision]
  <1>1. /\ my.at = "tr_decide" /\ Goto(p, next)
        /\ trDecisions' = trDecisions \cup {decision}
        /\ UNCHANGED <<clock, failures, tasks, lock, setupLedger, finLedger, trRequests,
                       trEvents>>
    BY DEF TransitionDecide
  <1>2. /\ my.request \in TrRequestRows /\ my.request \in trRequests
        /\ Exists(my.request.id.task) /\ my.request.id.pre \in TaskRows
        /\ my.request.id \in TrRequestIds /\ lock = p
    BY <1>1, TransitionInHand
  <1>3. my.next \in TaskRows
    BY <1>1, LocalFields DEF IInv, TypeOK
  <1>4. decision \in TrDecisionRows /\ decision.id.request = my.request.id
    BY <1>2, <1>3 DEF Event, TrDecisionRows, TrDecisionIds, TaskRows
  <1> HIDE DEF decision
  <1>5. next \in Locals /\ next.at \in LockedStages
    BY <1>2, <1>4 DEF Locals, LockedStages
  <1>6. local'[p] = next /\ local' \in [Procs -> Locals]
    BY <1>1, <1>5, GotoMoves DEF IInv, TypeOK
  <1>7. TypeOK'
    BY <1>1, <1>4, <1>6 DEF IInv, TypeOK, setupLedger, finLedger
  <1>8. InHandOf(p)'
    BY <1>1, <1>2, <1>4, <1>6 DEF InHandOf, Exists
  <1> QED
    BY <1>1, <1>2, <1>5, <1>7, <1>8, ProcessStep, UnchangedKeepsHistory DEF IInv, finLedger

LEMMA TransitionApplyStep ==
    ASSUME IInv, NEW p \in Procs, TransitionApply(p)
    PROVE  IInv' /\ HistoryKept
  <1> DEFINE my == local[p]
             t == my.request.id.task
             row == TransitionedRow(tasks[t], my.request.id.actor, my.request.id.status,
                                    my.request.id.summary, my.decision.body.updated)
             e == TransitionEvent(my.request, my.decision)
             next == [at |-> "tr_append", event |-> e]
  <1>1. /\ my.at = "tr_apply" /\ Goto(p, next) /\ lock' = Free
        /\ Save(t, row) \/ UNCHANGED tasks
        /\ UNCHANGED <<clock, failures, ledger>>
    BY DEF TransitionApply, Release
  <1>2. /\ t \in TaskIds /\ Exists(t) /\ tasks[t] \in TaskRows
        /\ my.request.id.actor \in Actors /\ my.request.id.status \in TransitionStatuses
        /\ my.request.id.summary \in Notes /\ my.request.id \in TrRequestIds
        /\ lock = p
    BY <1>1, TransitionInHand
  <1>3. my.decision \in TrDecisionRows
    BY <1>1, LocalFields DEF IInv, TypeOK
  <1>4. my.decision.body.updated \in Nat /\ my.decision.id \in TrDecisionIds
    BY <1>3 DEF TrDecisionRows
  <1>5. row \in TaskRows /\ row.attempts = tasks[t].attempts
    BY <1>2, <1>4, TransitionedRowType
  <1>6. e \in TrEventRows
    BY <1>2, <1>4 DEF TransitionEvent, Event, TrEventRows
  <1> HIDE DEF row, e
  <1>7. HistoryKept
    <2>1. SameAttempts(tasks[t], row)
      BY <1>5 DEF SameAttempts
    <2> QED
      BY <1>1, <1>2, <1>5, <2>1, SaveKeepsHistory, UnchangedKeepsHistory DEF IInv
  <1>8. ValidState(tasks)' /\ tasks' \in [TaskIds -> TaskRows \cup {NoTask}]
    BY <1>1, <1>2, <1>5 DEF Save, IInv, TypeOK
  <1>9. next \in Locals /\ next.at \notin LockedStages
    BY <1>6 DEF Locals, LockedStages
  <1>10. local'[p] = next /\ local' \in [Procs -> Locals]
    BY <1>1, <1>9, GotoMoves DEF IInv, TypeOK
  <1>11. TypeOK'
    BY <1>1, <1>8, <1>10 DEF IInv, TypeOK, ledger, setupLedger, finLedger, trLedger
  <1>12. InHandOf(p)'
    BY <1>10 DEF InHandOf
  <1> QED
    BY <1>1, <1>2, <1>7, <1>8, <1>9, <1>11, <1>12, ProcessStep
       DEF ledger, finLedger, trLedger

LEMMA TransitionAppendStep ==
    ASSUME IInv, NEW p \in Procs, TransitionAppend(p)
    PROVE  IInv' /\ HistoryKept
  <1>1. Idle \in Locals /\ Idle.at \notin LockedStages /\ local[p].at \notin LockedStages
    BY DEF Locals, LockedStages, TransitionAppend
  <1>2. local' \in [Procs -> Locals] /\ local'[p] = Idle
    BY <1>1, GotoMoves DEF TransitionAppend, IInv, TypeOK
  <1>3. local[p].event \in TrEventRows
    BY LocalFields DEF TransitionAppend, IInv, TypeOK
  <1>4. TypeOK'
    BY <1>2, <1>3 DEF TransitionAppend, IInv, TypeOK, setupLedger, finLedger
  <1>5. InHandOf(p)'
    BY <1>2 DEF InHandOf
  <1> QED
    BY <1>1, <1>4, <1>5, ProcessStep, UnchangedKeepsHistory
       DEF TransitionAppend, IInv, finLedger

-----------------------------------------------------------------------------
(***************************************************************************)
(* Failures and time, and the theorems.                                    *)
(***************************************************************************)
LEMMA FailStep ==
    ASSUME IInv, NEW p \in Procs, Fail(p)
    PROVE  IInv' /\ HistoryKept
  <1>1. Idle \in Locals /\ Idle.at \notin LockedStages
    BY DEF Locals, LockedStages
  <1>2. /\ Goto(p, Idle) /\ failures' = failures + 1
        /\ lock' = IF lock = p THEN Free ELSE lock
        /\ UNCHANGED <<clock, tasks, ledger>>
    BY DEF Fail
  <1>3. local'[p] = Idle /\ local' \in [Procs -> Locals]
    BY <1>1, <1>2, GotoMoves DEF IInv, TypeOK
  <1>4. TypeOK'
    BY <1>2, <1>3 DEF IInv, TypeOK, ledger, setupLedger, finLedger, trLedger
  <1>5. InHandOf(p)'
    BY <1>3 DEF InHandOf
  <1>6. local[p].at \in LockedStages <=> lock = p
    BY DEF IInv, LockHeld
  <1> QED
    BY <1>1, <1>2, <1>4, <1>5, <1>6, ProcessStep, UnchangedKeepsHistory
       DEF IInv, ledger, finLedger, trLedger

LEMMA QuietStep ==
    ASSUME IInv, UNCHANGED <<failures, tasks, lock, local, ledger>>, clock' \in Nat
    PROVE  IInv' /\ HistoryKept
  <1>1. TypeOK'
    BY DEF IInv, TypeOK, ledger, setupLedger, finLedger, trLedger
  <1>2. LockHeld'
    BY DEF IInv, LockHeld
  <1>3. InHand'
    <2> SUFFICES ASSUME NEW q \in Procs
                 PROVE  InHandOf(q)'
      BY DEF InHand
    <2> QED
      BY <1>1, OthersKeepInHand, UnchangedKeepsHistory
         DEF IInv, ledger, finLedger, trLedger
  <1> QED
    BY <1>1, <1>2, <1>3, UnchangedKeepsHistory DEF IInv

LEMMA IInvStep ==
    ASSUME IInv, [Next]_vars
    PROVE  IInv' /\ HistoryKept
  <1>1. CASE UNCHANGED vars
    BY <1>1, QuietStep DEF vars, IInv, TypeOK
  <1>2. CASE Tick
    <2>1. clock' \in Nat
      BY <1>2, BoundsAssumption DEF Tick
    <2> QED
      BY <1>2, <2>1, QuietStep DEF Tick
  <1>3. ASSUME NEW p \in Procs, Create(p)
        PROVE  IInv' /\ HistoryKept
    BY <1>3, CreateAppendStep, CreateSaveStep DEF Create
  <1>4. ASSUME NEW p \in Procs, StartTask(p)
        PROVE  IInv' /\ HistoryKept
    BY <1>4, StartCallStep, RepairStartStep, StartSaveStep, StartRefuseStep,
       StartAppendStep DEF StartTask
  <1>5. ASSUME NEW p \in Procs, RecordSetup(p)
        PROVE  IInv' /\ HistoryKept
    BY <1>5, SetupRepairStep, SetupSaveStep, SetupAppendStep DEF RecordSetup
  <1>6. ASSUME NEW p \in Procs, FinishCall(p)
        PROVE  IInv' /\ HistoryKept
    BY <1>6, FinishRequestStep DEF FinishCall
  <1>7. ASSUME NEW p \in Procs, FinishStep(p)
        PROVE  IInv' /\ HistoryKept
    <2>1. ASSUME FinishRefuse(p) \/ FinishSaveRefuse(p)
          PROVE  IInv' /\ HistoryKept
      BY <2>1, RefuseStep DEF FinishRefuse, FinishSaveRefuse, LockedStages
    <2> QED
      BY <1>7, <2>1, FinishDecideStep, FinishReplayStep, FinishSaveStep, FinishAppendStep
         DEF FinishStep
  <1>8. ASSUME NEW p \in Procs, TransitionCall(p)
        PROVE  IInv' /\ HistoryKept
    BY <1>8, TransitionRequestStep DEF TransitionCall
  <1>9. ASSUME NEW p \in Procs, TransitionStep(p)
        PROVE  IInv' /\ HistoryKept
    BY <1>9, TransitionDecideStep, TransitionApplyStep, TransitionAppendStep
       DEF TransitionStep
  <1>10. ASSUME NEW p \in Procs, Fail(p)
         PROVE  IInv' /\ HistoryKept
    BY <1>10, FailStep
  <1> QED
    BY <1>1, <1>2, <1>3, <1>4, <1>5, <1>6, <1>7, <1>8, <1>9, <1>10 DEF Next

LEMMA InvariantHolds == Spec => []IInv
  <1>1. Init => IInv
    <2> SUFFICES ASSUME Init
                 PROVE  IInv
      OBVIOUS
    <2>1. TypeOK
      BY DEF Init, TypeOK, Locals
    <2>2. LockHeld
      BY LockAssumption DEF Init, LockHeld, LockedStages
    <2>3. InHand
      BY DEF Init, InHand, InHandOf
    <2>4. ValidState(tasks)
      BY DEF Init, ValidState
    <2> QED
      BY <2>1, <2>2, <2>3, <2>4 DEF IInv
  <1>2. IInv /\ [Next]_vars => IInv'
    BY IInvStep
  <1> QED
    BY <1>1, <1>2, PTL DEF Spec

\* Type correctness: every variable holds what the code stores in it.
THEOREM TypeCorrect == Spec => []TypeOK
  <1>1. IInv => TypeOK
    BY DEF IInv
  <1> QED
    BY <1>1, InvariantHolds, PTL

\* Mutual exclusion: the lock of runtime.json has exactly the holder that is
\* between its load and its save, whoever dies and whenever.
THEOREM LockExclusion == Spec => []LockHeld
  <1>1. IInv => LockHeld
    BY DEF IInv
  <1> QED
    BY <1>1, InvariantHolds, PTL

\* No stale read: what a process loaded and decided still fits the store and
\* the ledger when it acts on it.
THEOREM NoStaleRead == Spec => []InHand
  <1>1. IInv => InHand
    BY DEF IInv
  <1> QED
    BY <1>1, InvariantHolds, PTL

\* The history of a task only grows: attempts keep their place, identity,
\* owner and start, and an attempt that ended never changes again.
THEOREM HistoryIsAppendOnly == Spec => HistoryAppendOnly
  <1>1. IInv /\ [Next]_vars => [HistoryKept]_tasks
    BY IInvStep
  <1> QED
    BY <1>1, InvariantHolds, PTL DEF Spec, HistoryAppendOnly

-----------------------------------------------------------------------------
(***************************************************************************)
(* Store and ledger agree on how an attempt ended.                         *)
(***************************************************************************)
LEMMA FinishReportedStep ==
    ASSUME IInv, FinishReported, [Next]_vars
    PROVE  FinishReported'
  <1>1. IInv' /\ HistoryKept
    BY IInvStep
  <1>2. ASSUME NEW e \in FinEventRows, Reported(e)
        PROVE  Reported(e)'
    BY <1>1, <1>2, ReportedStays DEF IInv
  <1>3. CASE finEvents' = finEvents
    BY <1>2, <1>3 DEF FinishReported, IInv, TypeOK
  <1>4. ASSUME NEW p \in Procs, FinishAppend(p)
        PROVE  FinishReported'
    <2>1. finEvents' = finEvents \cup {local[p].event}
      BY <1>4 DEF FinishAppend
    <2>2. local[p].event \in FinEventRows /\ Reported(local[p].event)
      BY <1>4, LocalFields DEF FinishAppend, IInv, TypeOK, InHand, InHandOf
    <2> SUFFICES ASSUME NEW e \in finEvents'
                 PROVE  Reported(e)'
      BY DEF FinishReported
    <2>3. e \in FinEventRows /\ Reported(e)
      BY <2>1, <2>2 DEF FinishReported, IInv, TypeOK
    <2> QED
      BY <1>2, <2>3
  <1> QED
    BY <1>3, <1>4, Writers

\* The ledger never reports a finish the store does not hold.
THEOREM FinishIsReported == Spec => []FinishReported
  <1>1. Init => FinishReported
    BY DEF Init, FinishReported
  <1>2. IInv /\ FinishReported /\ [Next]_vars => FinishReported'
    BY FinishReportedStep
  <1> QED
    BY <1>1, <1>2, InvariantHolds, PTL DEF Spec

\* The evidence of one ended attempt: its request and decision are durable.
Evidenced(t, attempt) ==
    \E q \in finRequests, d \in finDecisions :
      /\ q.id.task = t /\ q.id.attempt = attempt.id
      /\ d.id.request = q.id
      /\ MatchesRequest(attempt, q)
      /\ attempt.ended = d.body.ended

\* Attempts of a saved row that are active, or end like one of the row before.
Inherited(t, attempt) ==
    \/ IsActive(attempt)
    \/ /\ Exists(t)
       /\ \E i \in DOMAIN tasks[t].attempts :
            LET old == tasks[t].attempts[i]
            IN  /\ old.id = attempt.id /\ old.status = attempt.status
                /\ old.summary = attempt.summary /\ old.ended = attempt.ended

LEMMA InheritedEvidence ==
    ASSUME WriteAhead, finRequests \subseteq finRequests', finDecisions \subseteq finDecisions',
           NEW t \in TaskIds, NEW attempt, ~IsActive(attempt),
           Inherited(t, attempt) \/ Evidenced(t, attempt)
    PROVE  Evidenced(t, attempt)'
  <1>1. Evidenced(t, attempt)
    <2>1. CASE Inherited(t, attempt)
      BY <2>1 DEF WriteAhead, Inherited, Evidenced, MatchesRequest, IsActive
    <2> QED
      BY <2>1
  <1>2. PICK q \in finRequests, d \in finDecisions :
          /\ q.id.task = t /\ q.id.attempt = attempt.id
          /\ d.id.request = q.id
          /\ MatchesRequest(attempt, q)
          /\ attempt.ended = d.body.ended
    BY <1>1 DEF Evidenced
  <1>3. q \in finRequests' /\ d \in finDecisions'
    BY <1>2
  <1> QED
    BY <1>2, <1>3 DEF Evidenced, MatchesRequest

\* A save whose row inherits or evidences each of its ended attempts.
LEMMA SaveKeepsWriteAhead ==
    ASSUME IInv, WriteAhead,
           finRequests \subseteq finRequests', finDecisions \subseteq finDecisions',
           NEW t \in TaskIds, NEW row \in TaskRows, tasks' = [tasks EXCEPT ![t] = row],
           \A i \in DOMAIN row.attempts :
              Inherited(t, row.attempts[i]) \/ Evidenced(t, row.attempts[i])
    PROVE  WriteAhead'
  <1> SUFFICES ASSUME NEW s \in TaskIds, tasks'[s] # NoTask,
                      NEW i \in DOMAIN tasks'[s].attempts, NEW attempt,
                      attempt = tasks'[s].attempts[i], ~IsActive(attempt)
               PROVE  Evidenced(s, attempt)'
    BY DEF WriteAhead, Evidenced, Exists
  <1>1. CASE s = t
    <2>1. tasks'[s] = row
      BY <1>1 DEF IInv, TypeOK
    <2>2. Inherited(t, attempt) \/ Evidenced(t, attempt)
      BY <2>1
    <2> QED
      BY <1>1, <2>2, InheritedEvidence
  <1>2. CASE s # t
    <2>1. tasks'[s] = tasks[s]
      BY <1>2 DEF IInv, TypeOK
    <2>2. Inherited(s, attempt)
      BY <2>1 DEF Inherited, Exists
    <2> QED
      BY <2>2, InheritedEvidence
  <1> QED
    BY <1>1, <1>2

LEMMA WriteAheadStep ==
    ASSUME IInv, WriteAhead, [Next]_vars
    PROVE  WriteAhead'
  <1>1. finRequests \subseteq finRequests' /\ finDecisions \subseteq finDecisions'
    <2>1. ASSUME NEW p \in Procs, FinishCall(p)
          PROVE  finRequests \subseteq finRequests'
      BY <2>1 DEF FinishCall, FinishRequest
    <2>2. ASSUME NEW p \in Procs, FinishDecide(p)
          PROVE  finDecisions \subseteq finDecisions'
      BY <2>2 DEF FinishDecide
    <2> QED
      BY <2>1, <2>2, Writers
  <1>2. CASE tasks' = tasks
    <2> SUFFICES ASSUME NEW s \in TaskIds, Exists(s), NEW i \in DOMAIN tasks[s].attempts,
                        NEW attempt, attempt = tasks[s].attempts[i], ~IsActive(attempt)
                 PROVE  Evidenced(s, attempt)'
      BY <1>2 DEF WriteAhead, Evidenced, Exists
    <2>1. Inherited(s, attempt)
      BY DEF Inherited
    <2> QED
      BY <1>1, <2>1, InheritedEvidence
  <1>3. ASSUME NEW p \in Procs, CreateSave(p)
        PROVE  WriteAhead'
    <2>1. local[p].task \in TaskIds /\ local[p].next \in TaskRows
      BY <1>3, LocalFields DEF CreateSave, IInv, TypeOK
    <2>2. DOMAIN local[p].next.attempts = {}
      <3>1. local[p].next.attempts = <<>>
        BY <1>3 DEF CreateSave, IInv, InHand, InHandOf
      <3> QED
        BY <3>1
    <2>3. tasks' = [tasks EXCEPT ![local[p].task] = local[p].next]
      BY <1>3 DEF CreateSave, Save
    <2> QED
      BY <1>1, <2>1, <2>2, <2>3, SaveKeepsWriteAhead
  <1>4. ASSUME NEW p \in Procs, StartSave(p)
        PROVE  WriteAhead'
    <2> DEFINE t == local[p].task
               attempt == local[p].attempt
               row == StartedRow(tasks[t], attempt)
    <2>1. t \in TaskIds /\ attempt \in AttemptRows /\ Exists(t) /\ IsActive(attempt)
      BY <1>4, LocalFields DEF StartSave, IInv, TypeOK, InHand, InHandOf
    <2>2. tasks[t] \in TaskRows
      BY <2>1, RowThere DEF IInv
    <2>3. row \in TaskRows /\ row.attempts = Append(tasks[t].attempts, attempt)
      BY <2>1, <2>2, StartedRowType
    <2>4. ASSUME NEW i \in DOMAIN row.attempts
          PROVE  Inherited(t, row.attempts[i])
      <3>1. \/ row.attempts[i] = attempt
            \/ i \in DOMAIN tasks[t].attempts /\ row.attempts[i] = tasks[t].attempts[i]
        BY <2>2, <2>3 DEF TaskRows
      <3> QED
        BY <2>1, <3>1 DEF Inherited
    <2> QED
      BY <1>1, <1>4, <2>1, <2>3, <2>4, SaveKeepsWriteAhead DEF StartSave, Save
  <1>5. ASSUME NEW p \in Procs, SetupSave(p)
        PROVE  WriteAhead'
    <2> DEFINE t == local[p].task
               a == local[p].attempt
               old == AttemptOf(tasks[t], a)
               row == SetupRow(tasks[t], a, local[p].receipt)
    <2>1. t \in TaskIds /\ local[p].receipt \in Receipts
      BY <1>5, LocalFields DEF SetupSave, IInv, TypeOK
    <2>2. Exists(t) /\ HasAttempt(tasks[t], a) /\ IsActive(old)
      BY <1>5 DEF SetupSave, IInv, InHand, InHandOf
    <2>3. tasks[t] \in TaskRows
      BY <2>1, <2>2, RowThere DEF IInv
    <2>4. /\ row \in TaskRows
          /\ row.attempts = [i \in DOMAIN tasks[t].attempts |->
                               IF tasks[t].attempts[i].id = a
                               THEN [old EXCEPT !.setup = local[p].receipt]
                               ELSE tasks[t].attempts[i]]
      BY <2>1, <2>2, <2>3, SetupRowType
    <2>5. IsActive([old EXCEPT !.setup = local[p].receipt])
      BY <2>2, <2>3, AttemptOfFound DEF AttemptRows, IsActive
    <2>6. ASSUME NEW i \in DOMAIN row.attempts
          PROVE  Inherited(t, row.attempts[i])
      BY <2>2, <2>4, <2>5 DEF Inherited
    <2> QED
      BY <1>1, <1>5, <2>1, <2>4, <2>6, SaveKeepsWriteAhead DEF SetupSave, Save
  <1>6. ASSUME NEW p \in Procs, FinishSave(p)
        PROVE  WriteAhead'
    <2> DEFINE request == local[p].request
               decision == local[p].decision
               t == request.id.task
               a == request.id.attempt
               row == TerminalRow(t, request, decision.body.ended)
               done == FinishedAttempt(AttemptOf(tasks[t], a), request.body.status,
                                       request.body.summary, decision.body.ended)
    <2>1. /\ request \in FinRequestRows /\ t \in TaskIds /\ request \in finRequests
          /\ Exists(t) /\ HasAttempt(tasks[t], a)
          /\ AttemptOf(tasks[t], a) \in AttemptRows /\ AttemptOf(tasks[t], a).id = a
      BY <1>6, FinishInHand DEF FinishSave
    <2>2. /\ decision \in finDecisions /\ decision \in FinDecisionRows
          /\ decision.id.request = request.id
      <3>1. local[p].at = "fin_save"
        BY <1>6 DEF FinishSave
      <3>2. /\ decision \in finDecisions
            /\ decision.id = [request |-> request.id, pre |-> tasks[t]]
        BY <3>1 DEF IInv, InHand, InHandOf
      <3> QED
        BY <3>2 DEF IInv, TypeOK
    <2>3. decision.body.ended \in Nat
      BY <2>2 DEF FinDecisionRows
    <2>4. /\ row \in TaskRows
          /\ row.attempts = [i \in DOMAIN tasks[t].attempts |->
                               IF tasks[t].attempts[i].id = a
                               THEN done ELSE tasks[t].attempts[i]]
      BY <2>1, <2>3, TerminalRowType
    <2>5. Evidenced(t, done)
      <3>1. /\ done.id = a /\ done.ended = decision.body.ended
            /\ MatchesRequest(done, request)
        BY <2>1 DEF FinishedAttempt, MatchesRequest, AttemptRows
      <3> QED
        BY <2>1, <2>2, <3>1 DEF Evidenced
    <2> HIDE DEF done
    <2>6. ASSUME NEW i \in DOMAIN row.attempts
          PROVE  Inherited(t, row.attempts[i]) \/ Evidenced(t, row.attempts[i])
      BY <2>1, <2>4, <2>5 DEF Inherited
    <2>7. tasks' = [tasks EXCEPT ![t] = row]
      BY <1>6 DEF FinishSave, Save
    <2> HIDE DEF row, t
    <2> QED
      BY <1>1, <2>1, <2>4, <2>6, <2>7, SaveKeepsWriteAhead
  <1>7. ASSUME NEW p \in Procs, TransitionApply(p)
        PROVE  WriteAhead'
    <2> DEFINE my == local[p]
               t == my.request.id.task
               row == TransitionedRow(tasks[t], my.request.id.actor, my.request.id.status,
                                      my.request.id.summary, my.decision.body.updated)
    <2>1. /\ t \in TaskIds /\ Exists(t) /\ tasks[t] \in TaskRows
          /\ my.request.id.actor \in Actors /\ my.request.id.status \in TransitionStatuses
          /\ my.request.id.summary \in Notes
      BY <1>7, TransitionInHand DEF TransitionApply
    <2>2. my.decision.body.updated \in Nat
      BY <1>7, LocalFields DEF TransitionApply, IInv, TypeOK, TrDecisionRows
    <2>3. row \in TaskRows /\ row.attempts = tasks[t].attempts
      BY <2>1, <2>2, TransitionedRowType
    <2>4. ASSUME NEW i \in DOMAIN row.attempts
          PROVE  Inherited(t, row.attempts[i])
      BY <2>1, <2>3 DEF Inherited
    <2>5. tasks' = [tasks EXCEPT ![t] = row] \/ tasks' = tasks
      BY <1>7 DEF TransitionApply, Save
    <2> HIDE DEF row, t
    <2> QED
      BY <1>1, <1>2, <2>1, <2>3, <2>4, <2>5, SaveKeepsWriteAhead
  <1> QED
    BY <1>2, <1>3, <1>4, <1>5, <1>6, <1>7, Writers

\* An attempt is terminal in the store only by a verdict whose request and
\* decision were durable before, and with the time that was decided.
THEOREM WriteAheadAlways == Spec => []WriteAhead
  <1>1. Init => WriteAhead
    BY DEF Init, WriteAhead, Exists
  <1>2. IInv /\ WriteAhead /\ [Next]_vars => WriteAhead'
    BY WriteAheadStep
  <1> QED
    BY <1>1, <1>2, InvariantHolds, PTL DEF Spec

-----------------------------------------------------------------------------
(***************************************************************************)
(* What a saver carries, and what the ledger holds of its rows.            *)
(***************************************************************************)
\* Whoever moves, moves to no save of a row it read or made before.
Elsewhere == \A q \in Procs : local'[q] = local[q] \/ local'[q].at \notin {"create_save", "setup_save"}

LEMMA GotoElsewhere ==
    ASSUME TypeOK, NEW p \in Procs, NEW next, Goto(p, next), next.at \notin {"create_save", "setup_save"}
    PROVE  Elsewhere
  BY DEF TypeOK, Goto, Elsewhere

LEMMA StartElsewhere ==
    ASSUME TypeOK, NEW p \in Procs, StartTask(p)
    PROVE  Elsewhere /\ UNCHANGED <<setupEvents, trRequests, trDecisions>>
  <1> USE DEF ledger, setupLedger, finLedger, trLedger
  <1>1. CASE StartSave(p) \/ StartRefuse(p) \/ StartAppend(p)
    BY <1>1, GotoElsewhere DEF StartSave, StartRefuse, StartAppend, Refuse
  <1>2. ASSUME NEW t \in TaskIds, NEW a \in AttemptIds,
               RepairStart(p, t, a) \/ \E actor \in Actors : StartCall(p, t, a, actor)
        PROVE  Elsewhere /\ UNCHANGED <<setupEvents, trRequests, trDecisions>>
    BY <1>2, GotoElsewhere DEF RepairStart, StartCall
  <1> QED
    BY <1>1, <1>2 DEF StartTask

LEMMA FinishElsewhere ==
    ASSUME TypeOK, NEW p \in Procs, FinishCall(p) \/ FinishStep(p)
    PROVE  Elsewhere /\ UNCHANGED <<setupEvents, trRequests, trDecisions>>
  <1> USE DEF ledger, setupLedger, finLedger, trLedger
  <1>1. CASE FinishCall(p)
    BY <1>1, GotoElsewhere DEF FinishCall, FinishRequest
  <1>2. CASE FinishDecide(p) \/ FinishSave(p) \/ FinishAppend(p)
    BY <1>2, GotoElsewhere DEF FinishDecide, FinishSave, FinishAppend
  <1>3. CASE FinishReplay(p)
    BY <1>3, GotoElsewhere DEF FinishReplay
  <1>4. CASE FinishRefuse(p) \/ FinishSaveRefuse(p)
    BY <1>4, GotoElsewhere DEF FinishRefuse, FinishSaveRefuse, Refuse
  <1> QED
    BY <1>1, <1>2, <1>3, <1>4 DEF FinishStep

LEMMA TransitionElsewhere ==
    ASSUME TypeOK, NEW p \in Procs, TransitionCall(p) \/ TransitionStep(p)
    PROVE  /\ Elsewhere /\ setupEvents' = setupEvents
           /\ \/ trRequests' = trRequests
              \/ \E t \in TaskIds, actor \in Actors, status \in TransitionStatuses,
                    summary \in Notes : TransitionRequest(p, t, actor, status, summary)
           /\ trDecisions' = trDecisions \/ TransitionDecide(p)
  <1> USE DEF ledger, setupLedger, finLedger, trLedger
  <1>1. CASE TransitionStep(p)
    BY <1>1, GotoElsewhere DEF TransitionStep, TransitionDecide, TransitionApply, TransitionAppend
  <1>2. CASE TransitionCall(p)
    <2>1. PICK t \in TaskIds, actor \in Actors, status \in TransitionStatuses,
               summary \in Notes : TransitionRequest(p, t, actor, status, summary)
      BY <1>2 DEF TransitionCall
    <2>2. /\ \/ \E r, d : Goto(p, [at |-> "tr_apply", request |-> r, decision |-> d])
             \/ \E r, n : Goto(p, [at |-> "tr_decide", request |-> r, next |-> n])
          /\ UNCHANGED <<setupLedger, trDecisions>>
      BY ONLY <2>1, Zenon DEF TransitionRequest
    <2>3. Elsewhere
      BY <2>2, GotoElsewhere
    <2> QED
      BY <2>1, <2>2, <2>3
  <1> QED
    BY <1>1, <1>2

\* Which actions take a process to a save, and which write the other families.
LEMMA Carriers ==
    ASSUME TypeOK, [Next]_vars
    PROVE  /\ \/ Elsewhere
              \/ \E p \in Procs, t \in TaskIds, title \in Notes : CreateAppend(p, t, title)
              \/ \E p \in Procs, t \in TaskIds, a \in AttemptIds, actor \in Actors,
                    expected, receipt \in Receipts : SetupRepair(p, t, a, actor, expected, receipt)
           /\ setupEvents \subseteq setupEvents'
           /\ \/ trRequests' = trRequests
              \/ \E p \in Procs, t \in TaskIds, actor \in Actors, status \in TransitionStatuses,
                    summary \in Notes : TransitionRequest(p, t, actor, status, summary)
           /\ trDecisions' = trDecisions \/ \E p \in Procs : TransitionDecide(p)
  <1>1. CASE UNCHANGED vars
    BY <1>1 DEF vars, Elsewhere, ledger, setupLedger, trLedger
  <1>2. CASE Tick
    BY <1>2 DEF Tick, Elsewhere, ledger, setupLedger, trLedger
  <1>3. ASSUME NEW p \in Procs, Create(p)
        PROVE  /\ Elsewhere \/ \E t \in TaskIds, title \in Notes : CreateAppend(p, t, title)
               /\ UNCHANGED <<setupEvents, trRequests, trDecisions>>
    BY <1>3, GotoElsewhere DEF Create, CreateSave, CreateAppend, ledger, setupLedger, trLedger
  <1>4. ASSUME NEW p \in Procs, RecordSetup(p)
        PROVE  /\ \/ Elsewhere
                  \/ \E t \in TaskIds, a \in AttemptIds, actor \in Actors,
                        expected, receipt \in Receipts : SetupRepair(p, t, a, actor, expected, receipt)
               /\ setupEvents \subseteq setupEvents'
               /\ UNCHANGED <<trRequests, trDecisions>>
    <2>1. CASE SetupSave(p) \/ SetupAppend(p)
      BY <2>1, GotoElsewhere DEF SetupSave, SetupAppend, WithSetup, ledger, setupLedger, trLedger
    <2>2. ASSUME NEW t \in TaskIds, NEW a \in AttemptIds, NEW actor \in Actors, NEW expected \in Receipts,
                 NEW receipt \in Receipts, SetupRepair(p, t, a, actor, expected, receipt)
          PROVE  setupEvents \subseteq setupEvents' /\ UNCHANGED <<trRequests, trDecisions>>
      BY <2>2 DEF SetupRepair, WithSetup, trLedger
    <2> QED
      BY <1>4, <2>1, <2>2 DEF RecordSetup
  <1>5. ASSUME NEW p \in Procs, Fail(p)
        PROVE  Elsewhere /\ UNCHANGED <<setupEvents, trRequests, trDecisions>>
    BY <1>5, GotoElsewhere DEF Fail, ledger, setupLedger, trLedger
  <1> QED
    BY <1>1, <1>2, <1>3, <1>4, <1>5, StartElsewhere, FinishElsewhere, TransitionElsewhere DEF Next

\* While a process that holds the lock stays where it is, nobody saves.
LEMMA HolderFreezesStore ==
    ASSUME IInv, [Next]_vars, NEW q \in Procs, local[q].at \in LockedStages, local'[q] = local[q]
    PROVE  tasks' = tasks
  <1>1. lock = q
    BY DEF IInv, LockHeld
  <1>2. ASSUME NEW p \in Procs, StartSave(p)
        PROVE  FALSE
    BY <1>1, <1>2, LockAssumption DEF StartSave
  <1>3. ASSUME NEW p \in Procs, CreateSave(p) \/ SetupSave(p) \/ FinishSave(p) \/ TransitionApply(p)
        PROVE  FALSE
    <2>1. local[p].at \in {"create_save", "setup_save", "fin_save", "tr_apply"}
      BY <1>3 DEF CreateSave, SetupSave, FinishSave, TransitionApply
    <2>2. lock = p
      BY <2>1 DEF IInv, LockHeld, LockedStages
    <2>3. local'[p].at \in {"idle", "setup_append", "fin_append", "tr_append"}
      BY <1>3 DEF CreateSave, SetupSave, FinishSave, TransitionApply, Goto, IInv, TypeOK
    <2> QED
      BY <1>1, <2>1, <2>2, <2>3
  <1> QED
    BY <1>2, <1>3, Writers

\* A row in hand to be created is planned.
CreateInHand == \A q \in Procs : local[q].at = "create_save" => local[q].next.status = "planned"

LEMMA CreateInHandStep ==
    ASSUME IInv, CreateInHand, [Next]_vars
    PROVE  CreateInHand'
  <1>1. CASE Elsewhere
    BY <1>1 DEF Elsewhere, CreateInHand
  <1>2. ASSUME NEW p \in Procs, NEW t \in TaskIds, NEW title \in Notes, CreateAppend(p, t, title)
        PROVE  CreateInHand'
    BY <1>2 DEF CreateAppend, Goto, CreatedRow, NewRow, CreateInHand, IInv, TypeOK
  <1>3. ASSUME NEW p \in Procs, NEW t \in TaskIds, NEW a \in AttemptIds, NEW actor \in Actors,
               NEW expected \in Receipts, NEW receipt \in Receipts,
               SetupRepair(p, t, a, actor, expected, receipt)
        PROVE  CreateInHand'
    BY <1>3 DEF SetupRepair, Goto, CreateInHand, IInv, TypeOK
  <1> QED
    BY <1>1, <1>2, <1>3, Carriers DEF IInv

\* The event of the receipt about to be replaced is in the ledger.
SetupInHand ==
    \A q \in Procs : local[q].at = "setup_save" =>
        SetupEvent(local[q].task, AttemptOf(tasks[local[q].task], local[q].attempt)) \in setupEvents

LEMMA SetupInHandStep ==
    ASSUME IInv, SetupInHand, [Next]_vars
    PROVE  SetupInHand'
  <1>1. setupEvents \subseteq setupEvents'
    BY Carriers DEF IInv
  <1>2. ASSUME NEW q \in Procs, local'[q] = local[q], local'[q].at = "setup_save"
        PROVE  SetupEvent(local'[q].task, AttemptOf(tasks'[local'[q].task], local'[q].attempt)) \in setupEvents'
    <2>1. tasks' = tasks
      BY <1>2, HolderFreezesStore DEF LockedStages
    <2> QED
      BY <1>1, <1>2, <2>1 DEF SetupInHand
  <1>3. CASE Elsewhere
    BY <1>2, <1>3 DEF Elsewhere, SetupInHand, SetupEvent, Event
  <1>4. ASSUME NEW p \in Procs, NEW t \in TaskIds, NEW title \in Notes, CreateAppend(p, t, title)
        PROVE  SetupInHand'
    <2>1. \A q \in Procs : local'[q] = local[q] \/ local'[q].at = "create_save"
      BY <1>4 DEF CreateAppend, Goto, IInv, TypeOK
    <2> QED
      BY <1>2, <2>1 DEF SetupInHand, SetupEvent, Event
  <1>5. ASSUME NEW p \in Procs, NEW t \in TaskIds, NEW a \in AttemptIds, NEW actor \in Actors,
               NEW expected \in Receipts, NEW receipt \in Receipts,
               SetupRepair(p, t, a, actor, expected, receipt)
        PROVE  SetupInHand'
    <2>1. /\ tasks' = tasks /\ SetupEvent(t, AttemptOf(tasks[t], a)) \in setupEvents'
          /\ \/ Goto(p, [at |-> "setup_save", task |-> t, attempt |-> a, receipt |-> receipt])
             \/ local' = local
      BY <1>5 DEF SetupRepair, WithSetup
    <2>2. \A q \in Procs : \/ local'[q] = local[q]
                           \/ local'[q].task = t /\ local'[q].attempt = a
      BY <2>1 DEF Goto, IInv, TypeOK
    <2> QED
      BY <1>2, <2>1, <2>2 DEF SetupInHand, SetupEvent, Event
  <1> QED
    BY <1>3, <1>4, <1>5, Carriers DEF IInv

\* What a step does to the receipts of a task.
SetupsRecorded ==
    \A t \in TaskIds : Exists(t) =>
       \A i \in DOMAIN tasks[t].attempts :
         tasks'[t].attempts[i].setup # tasks[t].attempts[i].setup =>
             SetupEvent(t, tasks[t].attempts[i]) \in setupEvents

\* A save that keeps the receipts of its row.
LEMMA SaveKeepsSetups ==
    ASSUME TypeOK, NEW t \in TaskIds, NEW row, Save(t, row),
           Exists(t) => \A i \in DOMAIN tasks[t].attempts :
                            \/ row.attempts[i].setup = tasks[t].attempts[i].setup
                            \/ SetupEvent(t, tasks[t].attempts[i]) \in setupEvents
    PROVE  SetupsRecorded
  <1>1. tasks'[t] = row /\ \A s \in TaskIds : s # t => tasks'[s] = tasks[s]
    BY DEF Save, TypeOK
  <1> QED
    BY <1>1 DEF SetupsRecorded

LEMMA SetupsRecordedStep ==
    ASSUME IInv, SetupInHand, [Next]_vars
    PROVE  SetupsRecorded
  <1>1. CASE tasks' = tasks
    BY <1>1 DEF SetupsRecorded
  <1>2. ASSUME NEW p \in Procs, CreateSave(p)
        PROVE  SetupsRecorded
    <2>1. local[p].task \in TaskIds /\ ~Exists(local[p].task)
      BY <1>2, LocalFields DEF CreateSave, IInv, TypeOK, InHand, InHandOf
    <2> QED
      BY <1>2, <2>1, SaveKeepsSetups DEF CreateSave, IInv
  <1>3. ASSUME NEW p \in Procs, StartSave(p)
        PROVE  SetupsRecorded
    <2>1. PICK t, attempt, row : t = local[p].task /\ attempt = local[p].attempt /\ row = StartedRow(tasks[t], attempt)
      OBVIOUS
    <2>2. t \in TaskIds /\ attempt \in AttemptRows /\ Exists(t)
      BY <1>3, <2>1, LocalFields DEF StartSave, IInv, TypeOK, InHand, InHandOf
    <2>3. tasks[t] \in TaskRows
      BY <2>2, RowThere DEF IInv
    <2>4. row.attempts = Append(tasks[t].attempts, attempt)
      BY <2>1, <2>2, <2>3, StartedRowType
    <2>5. \A i \in DOMAIN tasks[t].attempts : row.attempts[i] = tasks[t].attempts[i]
      BY <2>3, <2>4, AttemptsAreRows DEF TaskRows
    <2>6. Save(t, row)
      BY <1>3, <2>1 DEF StartSave
    <2> QED
      BY <2>2, <2>5, <2>6, SaveKeepsSetups DEF IInv
  <1>4. ASSUME NEW p \in Procs, SetupSave(p)
        PROVE  SetupsRecorded
    <2>1. PICK t, a, r : t = local[p].task /\ a = local[p].attempt /\ r = local[p].receipt
      OBVIOUS
    <2>2. /\ t \in TaskIds /\ r \in Receipts /\ Exists(t) /\ HasAttempt(tasks[t], a)
          /\ SetupEvent(t, AttemptOf(tasks[t], a)) \in setupEvents
      BY <1>4, <2>1, LocalFields DEF SetupSave, IInv, TypeOK, InHand, InHandOf, SetupInHand
    <2>3. tasks[t] \in TaskRows /\ UniqueIds(tasks[t])
      BY <2>2, RowThere DEF IInv
    <2>4. PICK row : row = SetupRow(tasks[t], a, r)
      OBVIOUS
    <2>5. row.attempts = [i \in DOMAIN tasks[t].attempts |->
                             IF tasks[t].attempts[i].id = a
                             THEN [AttemptOf(tasks[t], a) EXCEPT !.setup = r]
                             ELSE tasks[t].attempts[i]]
      BY <2>2, <2>3, <2>4, SetupRowType
    <2>6. \A i \in DOMAIN tasks[t].attempts :
              tasks[t].attempts[i].id = a => tasks[t].attempts[i] = AttemptOf(tasks[t], a)
      BY <2>3, AttemptOfUnique
    <2>7. \A i \in DOMAIN tasks[t].attempts :
              \/ row.attempts[i] = tasks[t].attempts[i]
              \/ SetupEvent(t, tasks[t].attempts[i]) \in setupEvents
      BY <2>2, <2>5, <2>6
    <2>8. Save(t, row)
      BY <1>4, <2>1, <2>4 DEF SetupSave
    <2> QED
      BY <2>2, <2>7, <2>8, SaveKeepsSetups DEF IInv
  <1>5. ASSUME NEW p \in Procs, FinishSave(p)
        PROVE  SetupsRecorded
    <2>1. PICK request, decision, t, a :
              /\ request = local[p].request /\ decision = local[p].decision
              /\ t = request.id.task /\ a = request.id.attempt
      OBVIOUS
    <2>2. /\ request \in FinRequestRows /\ t \in TaskIds
          /\ Exists(t) /\ HasAttempt(tasks[t], a) /\ decision \in FinDecisionRows
          /\ AttemptOf(tasks[t], a) \in AttemptRows
      BY <1>5, <2>1, FinishInHand, LocalFields DEF FinishSave, IInv, TypeOK
    <2>3. tasks[t] \in TaskRows /\ UniqueIds(tasks[t])
      BY <2>2, RowThere DEF IInv
    <2>4. PICK row, done :
              /\ row = TerminalRow(t, request, decision.body.ended)
              /\ done = FinishedAttempt(AttemptOf(tasks[t], a), request.body.status,
                                        request.body.summary, decision.body.ended)
      OBVIOUS
    <2>5. row.attempts = [i \in DOMAIN tasks[t].attempts |->
                             IF tasks[t].attempts[i].id = a THEN done ELSE tasks[t].attempts[i]]
      <3>1. decision.body.ended \in Nat
        BY <2>2 DEF FinDecisionRows
      <3>2. t = request.id.task /\ a = request.id.attempt
        BY <2>1
      <3>3. Exists(request.id.task) /\ HasAttempt(tasks[request.id.task], request.id.attempt)
        BY <2>2, <3>2
      <3>4. TerminalRow(request.id.task, request, decision.body.ended).attempts =
              [i \in DOMAIN tasks[request.id.task].attempts |->
                 IF tasks[request.id.task].attempts[i].id = request.id.attempt
                 THEN FinishedAttempt(AttemptOf(tasks[request.id.task], request.id.attempt),
                                      request.body.status, request.body.summary,
                                      decision.body.ended)
                 ELSE tasks[request.id.task].attempts[i]]
        BY <2>2, <3>1, <3>3, TerminalRowType
      <3> QED
        BY <2>4, <3>2, <3>4
    <2>6. \A i \in DOMAIN tasks[t].attempts :
              tasks[t].attempts[i].id = a => tasks[t].attempts[i] = AttemptOf(tasks[t], a)
      BY <2>3, AttemptOfUnique
    <2>7. done.setup = AttemptOf(tasks[t], a).setup
      BY <2>2, <2>4 DEF FinishedAttempt, AttemptRows
    <2>8. \A i \in DOMAIN tasks[t].attempts : row.attempts[i].setup = tasks[t].attempts[i].setup
      BY <2>5, <2>6, <2>7
    <2>9. Save(t, row)
      BY <1>5, <2>1, <2>4 DEF FinishSave
    <2> QED
      BY <2>2, <2>8, <2>9, SaveKeepsSetups DEF IInv
  <1>6. ASSUME NEW p \in Procs, TransitionApply(p)
        PROVE  SetupsRecorded
    <2>1. PICK my, t, row :
              /\ my = local[p] /\ t = my.request.id.task
              /\ row = TransitionedRow(tasks[t], my.request.id.actor, my.request.id.status,
                                       my.request.id.summary, my.decision.body.updated)
      OBVIOUS
    <2>2. /\ t \in TaskIds /\ tasks[t] \in TaskRows
          /\ my.request.id.actor \in Actors /\ my.request.id.status \in TransitionStatuses
          /\ my.request.id.summary \in Notes
      BY <1>6, <2>1, TransitionInHand DEF TransitionApply
    <2>3. my.decision.body.updated \in Nat
      BY <1>6, <2>1, LocalFields DEF TransitionApply, IInv, TypeOK, TrDecisionRows
    <2>4. row.attempts = tasks[t].attempts
      BY <2>1, <2>2, <2>3, TransitionedRowType
    <2>5. Save(t, row) \/ tasks' = tasks
      BY <1>6, <2>1 DEF TransitionApply
    <2> QED
      BY <1>1, <2>2, <2>4, <2>5, SaveKeepsSetups DEF IInv
  <1> QED
    BY <1>1, <1>2, <1>3, <1>4, <1>5, <1>6, Writers

\* A setup receipt is replaced only after its task.setup event is durable, in
\* record_task_setup as everywhere else.
THEOREM SetupsAlwaysRecorded == Spec => SetupRecordedBeforeReplaced
  <1>1. Init => SetupInHand
    BY DEF Init, SetupInHand
  <1>2. IInv /\ SetupInHand /\ [Next]_vars => SetupInHand'
    BY SetupInHandStep
  <1>3. IInv /\ SetupInHand /\ [Next]_vars =>
            [\A t \in TaskIds : Exists(t) =>
               \A i \in DOMAIN tasks[t].attempts :
                 LET old == tasks[t].attempts[i]
                 IN  tasks'[t].attempts[i].setup # old.setup =>
                       SetupEvent(t, old) \in setupEvents]_tasks
    BY SetupsRecordedStep DEF SetupsRecorded
  <1> QED
    BY <1>1, <1>2, <1>3, InvariantHolds, PTL DEF Spec, SetupRecordedBeforeReplaced

-----------------------------------------------------------------------------
(***************************************************************************)
(* The runtime implements TaskLifecycle.  The verdict recorded for an      *)
(* attempt is looked up by the attempt alone, so the map needs that no two *)
(* requests of the ledger name one attempt: each names an attempt its task *)
(* has, no two tasks have one attempt, and an attempt has one verdict.     *)
(***************************************************************************)
RequestsNamed ==
    \A q \in finRequests : Exists(q.id.task) /\ HasAttempt(tasks[q.id.task], q.id.attempt)

\* A transition was admitted from the row its request names, and its decision
\* was taken on that row.
TransitionsAllowed ==
    /\ \A q \in trRequests : q.id.pre.status \in TransitionSources(q.id.status)
    /\ \A d \in trDecisions : d.id.pre = d.id.request.pre

RInv == IInv /\ OneVerdict /\ CreateInHand /\ RequestsNamed /\ TransitionsAllowed

LEMMA RequestsNamedStep ==
    ASSUME IInv, RequestsNamed, [Next]_vars
    PROVE  RequestsNamed'
  <1>1. ASSUME NEW t \in TaskIds, NEW a, Exists(t), HasAttempt(tasks[t], a)
        PROVE  (Exists(t) /\ HasAttempt(tasks[t], a))'
    <2>1. CASE tasks' = tasks
      BY <1>1, <2>1 DEF Exists, HasAttempt
    <2>2. CASE HistoryKept
      BY <1>1, <2>2 DEF HistoryKept, Exists, HasAttempt
    <2> QED
      BY <2>1, <2>2, IInvStep
  <1>2. \A q \in finRequests' : q.id.task \in TaskIds
    <2>1. finRequests' \subseteq FinRequestRows
      BY IInvStep DEF IInv, TypeOK
    <2> QED
      BY <2>1 DEF FinRequestRows, RequestIds
  <1>3. CASE finRequests' = finRequests
    BY <1>1, <1>2, <1>3 DEF RequestsNamed
  <1>4. ASSUME NEW p \in Procs, FinishCall(p)
        PROVE  RequestsNamed'
    <2>1. PICK t \in TaskIds, a \in AttemptIds, fid \in Finalizations, actor \in Actors,
               status \in TerminalStatuses, summary \in Notes :
                 FinishRequest(p, t, a, fid, actor, status, summary)
      BY <1>4 DEF FinishCall
    <2>2. PICK new : new = Event([task |-> t, attempt |-> a, finalization |-> fid],
                                 [actor |-> actor, status |-> status, summary |-> summary])
      OBVIOUS
    <2>3. /\ finRequests' = finRequests \cup {new} /\ Exists(t) /\ HasAttempt(tasks[t], a)
      BY <2>1, <2>2 DEF FinishRequest
    <2>4. new.id.task = t /\ new.id.attempt = a
      BY <2>2 DEF Event
    <2> QED
      BY <1>1, <1>2, <2>3, <2>4 DEF RequestsNamed
  <1> QED
    BY <1>3, <1>4, Writers

LEMMA TransitionsAllowedStep ==
    ASSUME IInv, TransitionsAllowed, [Next]_vars
    PROVE  TransitionsAllowed'
  <1>1. \A q \in trRequests' : q.id.pre.status \in TransitionSources(q.id.status)
    <2>1. CASE trRequests' = trRequests
      BY <2>1 DEF TransitionsAllowed
    <2>2. ASSUME NEW p \in Procs, NEW t \in TaskIds, NEW actor \in Actors,
                 NEW status \in TransitionStatuses, NEW summary \in Notes,
                 TransitionRequest(p, t, actor, status, summary)
          PROVE  \A q \in trRequests' : q.id.pre.status \in TransitionSources(q.id.status)
      <3>1. PICK fresh, same :
                  /\ fresh = Event(Requested(t, actor, status, summary, tasks[t]), [owner |-> actor])
                  /\ same = {q \in CurrentRequests(t) : Desired(q) = Desired(fresh)}
        OBVIOUS
      <3>2. PICK request : request = IF same = {} THEN fresh ELSE CHOOSE q \in same : TRUE
        OBVIOUS
      <3>3. /\ trRequests' = trRequests \/ trRequests' = trRequests \cup {request}
            /\ tasks[t].status \in TransitionSources(status)
        BY <2>2, <3>1, <3>2 DEF TransitionRequest
      <3>4. fresh.id.pre = tasks[t] /\ fresh.id.status = status
        BY <3>1 DEF Event, Requested
      <3>5. same \subseteq trRequests
        BY <3>1 DEF CurrentRequests
      <3>6. request = fresh \/ request \in trRequests
        BY <3>2, <3>5
      <3> QED
        BY <3>3, <3>4, <3>6 DEF TransitionsAllowed
    <2> QED
      BY <2>1, <2>2, Carriers DEF IInv
  <1>2. \A d \in trDecisions' : d.id.pre = d.id.request.pre
    <2>1. CASE trDecisions' = trDecisions
      BY <2>1 DEF TransitionsAllowed
    <2>2. ASSUME NEW p \in Procs, TransitionDecide(p)
          PROVE  \A d \in trDecisions' : d.id.pre = d.id.request.pre
      BY <2>2 DEF TransitionDecide, Event, TransitionsAllowed
    <2> QED
      BY <2>1, <2>2, Carriers DEF IInv
  <1> QED
    BY <1>1, <1>2 DEF TransitionsAllowed

LEMMA RInvHolds == Spec => []RInv
  <1>1. Init => OneVerdict /\ CreateInHand /\ RequestsNamed /\ TransitionsAllowed
    BY DEF Init, OneVerdict, CreateInHand, RequestsNamed, TransitionsAllowed
  <1>2. RInv /\ [Next]_vars => (OneVerdict /\ CreateInHand /\ RequestsNamed /\ TransitionsAllowed)'
    BY OneVerdictStep, CreateInHandStep, RequestsNamedStep, TransitionsAllowedStep DEF RInv
  <1> QED
    BY <1>1, <1>2, InvariantHolds, PTL DEF Spec, RInv

\* No two requests of the ledger name one attempt.
LEMMA OneRequest ==
    ASSUME RInv, NEW q \in finRequests, NEW r \in finRequests, q.id.attempt = r.id.attempt
    PROVE  q = r
  <1>1. /\ q.id.task \in TaskIds /\ r.id.task \in TaskIds /\ q.id.attempt \in AttemptIds
    BY DEF RInv, IInv, TypeOK, FinRequestRows, RequestIds
  <1>2. q.id.task = r.id.task
    BY <1>1 DEF RInv, IInv, ValidState, RequestsNamed, Exists
  <1> QED
    BY <1>2 DEF RInv, OneVerdict

\* The verdict the map gives an attempt.
LEMMA IntentOf ==
    ASSUME RInv, NEW a \in AttemptIds
    PROVE  /\ \A q \in finRequests : q.id.attempt = a => absIntent[a] = q.body
           /\ (\A q \in finRequests : q.id.attempt # a) => absIntent[a] = None
  <1>1. ASSUME NEW q \in finRequests, q.id.attempt = a
        PROVE  absIntent[a] = q.body
    <2>1. PICK chosen : chosen = CHOOSE r \in finRequests : r.id.attempt = a
      OBVIOUS
    <2>2. chosen \in finRequests /\ chosen.id.attempt = a
      BY <1>1, <2>1
    <2>3. chosen = q
      BY <1>1, <2>2, OneRequest
    <2> QED
      BY <1>1, <2>1, <2>3 DEF absIntent
  <1> QED
    BY <1>1 DEF absIntent

\* What the lifecycle sees of the attempts of a row.
Outcomes(row) ==
    [i \in DOMAIN row.attempts |->
       [id |-> row.attempts[i].id, outcome |-> row.attempts[i].status]]

\* A save changes the image of its task, to the image of the row it saves.
LEMMA SaveImage ==
    ASSUME TypeOK, NEW t \in TaskIds, NEW row \in TaskRows, Save(t, row)
    PROVE  /\ absStatus' = [absStatus EXCEPT ![t] = row.status]
           /\ absHistory' = [absHistory EXCEPT ![t] = Outcomes(row)]
  <1>1. tasks' \in [TaskIds -> TaskRows \cup {NoTask}] /\ tasks'[t] = row
        /\ \A s \in TaskIds : s # t => tasks'[s] = tasks[s]
    BY DEF TypeOK, Save
  <1>2. row # NoTask
    BY NoTaskAssumption
  <1>3. absStatus' = [absStatus EXCEPT ![t] = row.status]
    BY <1>1, <1>2 DEF absStatus, Exists
  <1>4. absHistory' = [absHistory EXCEPT ![t] = Outcomes(row)]
    BY <1>1, <1>2 DEF absHistory, Outcomes, Exists
  <1> QED
    BY <1>3, <1>4

\* The image of a task that is there, and of one that is not.
LEMMA Image ==
    ASSUME NEW t \in TaskIds
    PROVE  /\ Exists(t) => absStatus[t] = tasks[t].status /\ absHistory[t] = Outcomes(tasks[t])
           /\ ~Exists(t) => absStatus[t] = "absent" /\ absHistory[t] = <<>>
  BY DEF absStatus, absHistory, Outcomes

\* A save of a row with the same image is not seen.
LEMMA SaveUnseen ==
    ASSUME TypeOK, NEW t \in TaskIds, NEW row \in TaskRows, Save(t, row), Exists(t),
           row.status = tasks[t].status, Outcomes(row) = Outcomes(tasks[t])
    PROVE  UNCHANGED <<absStatus, absHistory>>
  <1>1. absStatus[t] = row.status /\ absHistory[t] = Outcomes(row)
    BY Image
  <1>2. absStatus' = [absStatus EXCEPT ![t] = absStatus[t]]
        /\ absHistory' = [absHistory EXCEPT ![t] = absHistory[t]]
    BY <1>1, SaveImage
  <1>3. DOMAIN absStatus = TaskIds /\ DOMAIN absHistory = TaskIds
    BY DEF absStatus, absHistory
  <1>4. absStatus = [s \in TaskIds |-> absStatus[s]] /\ absHistory = [s \in TaskIds |-> absHistory[s]]
    BY DEF absStatus, absHistory
  <1> QED
    BY <1>2, <1>3, <1>4

LEMMA Unseen ==
    ASSUME tasks' = tasks
    PROVE  UNCHANGED <<absStatus, absHistory>>
  BY DEF absStatus, absHistory, Exists

LEMMA IntentUnseen ==
    ASSUME finRequests' = finRequests
    PROVE  absIntent' = absIntent
  BY DEF absIntent

LEMMA CreateImplements ==
    ASSUME RInv, NEW p \in Procs, CreateSave(p), finRequests' = finRequests
    PROVE  \E t \in TaskIds : Lifecycle!AbsCreate(t)
  <1>1. PICK t, row : t = local[p].task /\ row = local[p].next
    OBVIOUS
  <1>2. /\ t \in TaskIds /\ row \in TaskRows /\ Save(t, row)
        /\ ~Exists(t) /\ row.attempts = <<>> /\ row.status = "planned"
    BY <1>1, LocalFields DEF RInv, CreateInHand, CreateSave, IInv, TypeOK, InHand, InHandOf
  <1>3. Outcomes(row) = <<>>
    BY <1>2 DEF Outcomes
  <1>4. absStatus[t] = "absent" /\ absHistory[t] = <<>>
    BY <1>2, Image
  <1>5. absHistory = [absHistory EXCEPT ![t] = <<>>]
    BY <1>4 DEF absHistory
  <1>6. /\ absStatus' = [absStatus EXCEPT ![t] = "planned"]
        /\ absHistory' = absHistory /\ absIntent' = absIntent
    BY <1>2, <1>3, <1>5, SaveImage, IntentUnseen DEF RInv, IInv
  <1> QED
    BY <1>2, <1>4, <1>6 DEF Lifecycle!AbsCreate

Images == [id: AttemptIds, outcome: AttemptStatuses]

\* The image of the attempts of a row is a sequence of images.
LEMMA OutcomesType ==
    ASSUME NEW row \in TaskRows
    PROVE  /\ Outcomes(row) \in Seq(Images)
           /\ Len(Outcomes(row)) = Len(row.attempts)
           /\ \A i \in 1..Len(row.attempts) :
                Outcomes(row)[i] = [id |-> row.attempts[i].id, outcome |-> row.attempts[i].status]
  <1>1. PICK n, seen : n = Len(row.attempts) /\ seen = Outcomes(row)
    OBVIOUS
  <1>2. /\ n \in Nat /\ DOMAIN row.attempts = 1..n
        /\ \A i \in 1..n : row.attempts[i] \in AttemptRows
    BY <1>1, AttemptsAreRows
  <1>3. seen = [i \in 1..n |-> [id |-> row.attempts[i].id, outcome |-> row.attempts[i].status]]
    BY <1>1, <1>2 DEF Outcomes
  <1>4. \A i \in 1..n : [id |-> row.attempts[i].id, outcome |-> row.attempts[i].status] \in Images
    <2>1. \A i \in 1..n : row.attempts[i].id \in AttemptIds /\ row.attempts[i].status \in AttemptStatuses
      BY <1>2 DEF AttemptRows
    <2> QED
      BY <2>1 DEF Images
  <1>5. seen \in [1..n -> Images]
    BY <1>3, <1>4
  <1>6. seen \in Seq(Images)
    BY <1>2, <1>5, SeqDef
  <1>7. Len(seen) = n
    BY <1>2, <1>5, <1>6
  <1> QED
    BY <1>1, <1>3, <1>6, <1>7

\* The image of a row with one attempt more.
LEMMA OutcomesAppend ==
    ASSUME NEW row \in TaskRows, NEW attempt \in AttemptRows
    PROVE  Outcomes(StartedRow(row, attempt)) =
             Append(Outcomes(row), [id |-> attempt.id, outcome |-> attempt.status])
  <1>1. PICK started, n, old, new, last :
            /\ started = StartedRow(row, attempt) /\ n = Len(row.attempts)
            /\ old = Outcomes(row) /\ new = Outcomes(started)
            /\ last = [id |-> attempt.id, outcome |-> attempt.status]
    OBVIOUS
  <1>2. started \in TaskRows /\ started.attempts = Append(row.attempts, attempt)
    BY <1>1, StartedRowType
  <1>3. /\ n \in Nat /\ Len(started.attempts) = n + 1 /\ started.attempts[n + 1] = attempt
        /\ \A i \in 1..n : started.attempts[i] = row.attempts[i]
    <2>1. row.attempts \in Seq(AttemptRows)
      BY DEF TaskRows
    <2> QED
      BY <1>1, <1>2, <2>1, AppendProperties
  <1>4. /\ old \in Seq(Images) /\ Len(old) = n
        /\ \A i \in 1..n : old[i] = [id |-> row.attempts[i].id, outcome |-> row.attempts[i].status]
    BY <1>1, OutcomesType
  <1>5. /\ new \in Seq(Images) /\ Len(new) = n + 1
        /\ \A i \in 1..(n + 1) :
             new[i] = [id |-> started.attempts[i].id, outcome |-> started.attempts[i].status]
    BY <1>1, <1>2, <1>3, OutcomesType
  <1>6. last \in Images
    BY <1>1 DEF AttemptRows, Images
  <1>7. /\ Append(old, last) \in Seq(Images)
        /\ Len(Append(old, last)) = n + 1
        /\ Append(old, last)[n + 1] = last
        /\ \A i \in 1..n : Append(old, last)[i] = old[i]
    BY <1>4, <1>6, AppendProperties
  <1>8. \A i \in 1..(n + 1) : new[i] = Append(old, last)[i]
    <2>1. \A i \in 1..n : new[i] = old[i]
      BY <1>3, <1>4, <1>5
    <2>2. new[n + 1] = last
      BY <1>1, <1>3, <1>5
    <2> QED
      BY <1>3, <1>7, <2>1, <2>2
  <1> HIDE DEF Images
  <1>9. new = Append(old, last)
    BY <1>5, <1>7, <1>8, SeqEqual
  <1> QED
    BY <1>1, <1>9

LEMMA StartImplements ==
    ASSUME RInv, NEW p \in Procs, StartSave(p), finRequests' = finRequests
    PROVE  \E t \in TaskIds, a \in AttemptIds : Lifecycle!AbsStart(t, a)
  <1>1. PICK t, attempt, row :
            t = local[p].task /\ attempt = local[p].attempt /\ row = StartedRow(tasks[t], attempt)
    OBVIOUS
  <1>2. /\ t \in TaskIds /\ attempt \in AttemptRows /\ Exists(t) /\ IsActive(attempt)
        /\ Save(t, row) /\ Startable(t, attempt)
    BY <1>1, LocalFields DEF RInv, StartSave, IInv, TypeOK, InHand, InHandOf
  <1>3. PICK a : a = attempt.id /\ a \in AttemptIds
    BY <1>2 DEF AttemptRows
  <1>4. tasks[t] \in TaskRows
    BY <1>2, RowThere DEF RInv, IInv
  <1>5. row \in TaskRows /\ row.status = "in_progress"
    BY <1>1, <1>2, <1>4, StartedRowType DEF StartedRow, TaskRows
  <1>6. Outcomes(row) = Append(Outcomes(tasks[t]), [id |-> a, outcome |-> "in_progress"])
    BY <1>1, <1>2, <1>3, <1>4, OutcomesAppend DEF IsActive
  <1>7. absStatus[t] = "planned" /\ absHistory[t] = Outcomes(tasks[t])
    BY <1>2, Image DEF Startable
  <1>8. ~Lifecycle!Attempted(a)
    <2>1. ASSUME NEW s \in TaskIds, NEW i \in DOMAIN absHistory[s], absHistory[s][i].id = a
          PROVE  FALSE
      <3>1. CASE Exists(s)
        <4>1. absHistory[s] = Outcomes(tasks[s])
          BY <3>1, Image
        <4>2. i \in DOMAIN tasks[s].attempts /\ tasks[s].attempts[i].id = a
          BY <2>1, <4>1 DEF Outcomes
        <4> QED
          BY <1>2, <1>3, <3>1, <4>2 DEF Startable, HasAttempt
      <3>2. CASE ~Exists(s)
        BY <2>1, <3>2, Image
      <3> QED
        BY <3>1, <3>2
    <2> QED
      BY <2>1 DEF Lifecycle!Attempted
  <1>9. /\ absStatus' = [absStatus EXCEPT ![t] = "in_progress"]
        /\ absHistory' = [absHistory EXCEPT ![t] =
                            Append(absHistory[t], [id |-> a, outcome |-> "in_progress"])]
        /\ absIntent' = absIntent
    BY <1>2, <1>5, <1>6, <1>7, SaveImage, IntentUnseen DEF RInv, IInv
  <1> QED
    BY <1>2, <1>3, <1>7, <1>8, <1>9 DEF Lifecycle!AbsStart

LEMMA Chosen ==
    ASSUME NEW requests, NEW q \in requests, NEW a, q.id.attempt = a,
           \A r, s \in requests : r.id.attempt = s.id.attempt => r = s
    PROVE  (CHOOSE r \in requests : r.id.attempt = a) = q
  OBVIOUS

LEMMA DecideImplements ==
    ASSUME RInv, NEW p \in Procs, NEW t \in TaskIds, NEW a \in AttemptIds,
           NEW fid \in Finalizations, NEW actor \in Actors, NEW status \in TerminalStatuses,
           NEW summary \in Notes, FinishRequest(p, t, a, fid, actor, status, summary)
    PROVE  \/ UNCHANGED <<absStatus, absHistory, absIntent>>
           \/ \E v \in Verdicts : Lifecycle!AbsDecide(t, a, v)
  <1>1. PICK new, v : /\ v = [actor |-> actor, status |-> status, summary |-> summary]
                      /\ new = Event([task |-> t, attempt |-> a, finalization |-> fid], v)
    OBVIOUS
  <1>2. /\ finRequests' = finRequests \cup {new} /\ tasks' = tasks
        /\ Exists(t) /\ HasAttempt(tasks[t], a)
        /\ \A e \in RequestsFor(t, a) : e.id = new.id
        /\ RequestsFor(t, a) = {} => IsActive(AttemptOf(tasks[t], a))
        /\ MayAppend(finRequests, new)
    BY <1>1 DEF FinishRequest
  <1>3. new.id.task = t /\ new.id.attempt = a /\ new.body = v /\ v \in Verdicts
    BY <1>1 DEF Event, Verdicts
  <1>4. CASE RequestsFor(t, a) # {}
    <2>1. PICK e \in finRequests : e.id = new.id
      BY <1>2, <1>4 DEF RequestsFor
    <2>2. finRequests' = finRequests
      BY <1>2, <2>1 DEF MayAppend
    <2> QED
      BY <1>2, <2>2, Unseen, IntentUnseen
  <1>5. CASE RequestsFor(t, a) = {}
    <2>1. ASSUME NEW q \in finRequests, q.id.attempt = a
          PROVE  FALSE
      <3>1. q.id.task \in TaskIds
        BY DEF RInv, IInv, TypeOK, FinRequestRows, RequestIds
      <3>2. Exists(q.id.task) /\ HasAttempt(tasks[q.id.task], a)
        BY <2>1 DEF RInv, RequestsNamed
      <3>3. q.id.task = t
        BY <1>2, <3>1, <3>2 DEF RInv, IInv, ValidState, Exists
      <3> QED
        BY <1>5, <2>1, <3>3 DEF RequestsFor
    <2>2. absIntent[a] = None
      BY <2>1, IntentOf
    <2>3. \A r, s \in finRequests' : r.id.attempt = s.id.attempt => r = s
      BY <1>2, <1>3, <2>1, OneRequest
    <2>4. absIntent' = [absIntent EXCEPT ![a] = v]
      <3>1. ASSUME NEW b \in AttemptIds
            PROVE  absIntent'[b] = [absIntent EXCEPT ![a] = v][b]
        <4>1. absIntent'[b] = IF \E q \in finRequests' : q.id.attempt = b
                              THEN (CHOOSE q \in finRequests' : q.id.attempt = b).body
                              ELSE None
          BY DEF absIntent
        <4>2. CASE b = a
          <5>1. new \in finRequests'
            BY <1>2
          <5>2. (CHOOSE q \in finRequests' : q.id.attempt = b) = new
            BY <1>3, <2>3, <4>2, <5>1, Chosen
          <5> QED
            BY <1>3, <4>1, <4>2, <5>1, <5>2 DEF absIntent
        <4>3. ASSUME b # a, NEW q \in finRequests, q.id.attempt = b
              PROVE  absIntent'[b] = absIntent[b]
          <5>1. q \in finRequests'
            BY <1>2, <4>3
          <5>2. (CHOOSE r \in finRequests' : r.id.attempt = b) = q
            BY <2>3, <4>3, <5>1, Chosen
          <5>3. absIntent[b] = q.body
            BY <4>3, IntentOf
          <5> QED
            BY <4>1, <4>3, <5>1, <5>2, <5>3
        <4>4. ASSUME b # a, \A q \in finRequests : q.id.attempt # b
              PROVE  absIntent'[b] = absIntent[b]
          BY <1>2, <1>3, <4>1, <4>4, IntentOf
        <4>5. b # a => [absIntent EXCEPT ![a] = v][b] = absIntent[b]
          BY DEF absIntent
        <4>6. b # a => absIntent'[b] = absIntent[b]
          BY <4>3, <4>4
        <4> QED
          BY <4>2, <4>5, <4>6
      <3> QED
        BY <3>1 DEF absIntent
    <2>5. \E i \in Lifecycle!Running(t) : absHistory[t][i].id = a
      <3>1. tasks[t] \in TaskRows
        BY <1>2, RowThere DEF RInv, IInv
      <3>2. PICK i \in DOMAIN tasks[t].attempts : tasks[t].attempts[i] = AttemptOf(tasks[t], a)
        BY <1>2, <3>1, AttemptOfFound
      <3>3. tasks[t].attempts[i].id = a /\ tasks[t].attempts[i].status = "in_progress"
        BY <1>2, <1>5, <3>1, <3>2, AttemptOfFound DEF IsActive
      <3>4. absHistory[t] = Outcomes(tasks[t])
        BY <1>2, Image
      <3>5. /\ i \in DOMAIN absHistory[t] /\ absHistory[t][i].id = a
            /\ absHistory[t][i].outcome = "in_progress"
        BY <3>3, <3>4 DEF Outcomes
      <3> QED
        BY <3>5 DEF Lifecycle!Running
    <2> QED
      BY <1>2, <1>3, <2>2, <2>4, <2>5, Unseen DEF Lifecycle!AbsDecide
  <1> QED
    BY <1>4, <1>5

LEMMA FinishImplements ==
    ASSUME RInv, NEW p \in Procs, FinishSave(p), finRequests' = finRequests
    PROVE  \E t \in TaskIds, a \in AttemptIds : Lifecycle!AbsFinish(t, a)
  <1>1. PICK request, decision, t, a :
            /\ request = local[p].request /\ decision = local[p].decision
            /\ t = request.id.task /\ a = request.id.attempt
    OBVIOUS
  <1>2. local[p].at = "fin_save"
    BY DEF FinishSave
  <1>3. /\ request \in FinRequestRows /\ t \in TaskIds /\ a \in AttemptIds /\ Exists(t)
        /\ HasAttempt(tasks[t], a) /\ tasks[t] \in TaskRows /\ UniqueIds(tasks[t])
        /\ AttemptOf(tasks[t], a) \in AttemptRows /\ request \in finRequests
    BY <1>1, <1>2, FinishInHand DEF RInv
  <1>4. decision.body.ended \in Nat /\ IsActive(AttemptOf(tasks[t], a))
    BY <1>1, <1>2, LocalFields DEF RInv, IInv, TypeOK, InHand, InHandOf, FinDecisionRows
  <1>5. PICK row, done :
            /\ row = TerminalRow(t, request, decision.body.ended)
            /\ done = FinishedAttempt(AttemptOf(tasks[t], a), request.body.status,
                                      request.body.summary, decision.body.ended)
    OBVIOUS
  <1>6. Save(t, row)
    BY <1>1, <1>5 DEF FinishSave
  <1>7. /\ row \in TaskRows
        /\ row.attempts = [i \in DOMAIN tasks[t].attempts |->
                             IF tasks[t].attempts[i].id = a THEN done ELSE tasks[t].attempts[i]]
    <2>1. Exists(request.id.task) /\ HasAttempt(tasks[request.id.task], request.id.attempt)
      BY <1>1, <1>3
    <2>2. /\ TerminalRow(request.id.task, request, decision.body.ended) \in TaskRows
          /\ TerminalRow(request.id.task, request, decision.body.ended).attempts =
              [i \in DOMAIN tasks[request.id.task].attempts |->
                 IF tasks[request.id.task].attempts[i].id = request.id.attempt
                 THEN FinishedAttempt(AttemptOf(tasks[request.id.task], request.id.attempt),
                                      request.body.status, request.body.summary,
                                      decision.body.ended)
                 ELSE tasks[request.id.task].attempts[i]]
      BY <1>3, <1>4, <2>1, TerminalRowType DEF RInv
    <2> QED
      BY <1>1, <1>5, <2>2
  <1>8. PICK outcome : outcome = request.body.status /\ outcome \in TerminalStatuses
    BY <1>3 DEF FinRequestRows, Verdicts
  <1>9. row.status = TerminalTaskStatus(outcome)
    <2>1. ReplaceAttempt(tasks[t], done) \in TaskRows
      <3>1. done \in AttemptRows
        BY <1>3, <1>4, <1>5 DEF FinishedAttempt, AttemptRows, FinRequestRows, Verdicts,
                                TerminalStatuses
      <3> QED
        BY <1>3, <3>1, ReplaceAttemptType
    <2>2. row = [ReplaceAttempt(tasks[t], done)
                   EXCEPT !.status = TerminalTaskStatus(outcome), !.updated = decision.body.ended,
                          !.actor = request.body.actor, !.note = request.body.summary]
      BY <1>1, <1>5, <1>8 DEF TerminalRow, FinishedRow
    <2> QED
      BY <2>1, <2>2 DEF TaskRows
  <1>10. done.id = a /\ done.status = outcome
    BY <1>3, <1>5, <1>8, AttemptOfFound DEF FinishedAttempt, AttemptRows
  <1>11. PICK i \in DOMAIN tasks[t].attempts : tasks[t].attempts[i] = AttemptOf(tasks[t], a)
    BY <1>3, AttemptOfFound
  <1>12. /\ tasks[t].attempts[i].id = a /\ tasks[t].attempts[i].status = "in_progress"
         /\ \A j \in DOMAIN tasks[t].attempts : tasks[t].attempts[j].id = a => j = i
    BY <1>3, <1>4, <1>11, AttemptOfFound DEF IsActive, UniqueIds
  <1>13. absHistory[t] = Outcomes(tasks[t])
    BY <1>3, Image
  <1>14. i \in Lifecycle!Running(t) /\ absHistory[t][i].id = a
    BY <1>12, <1>13 DEF Outcomes, Lifecycle!Running
  <1>15. absIntent[a] = request.body /\ request.body \in Verdicts
    BY <1>1, <1>3, IntentOf DEF FinRequestRows
  <1>16. absIntent[a] # None /\ Lifecycle!Outcome(absIntent[a]) = outcome
    BY <1>8, <1>15, VerdictAssumption DEF Lifecycle!Outcome
  <1>17. Outcomes(row) = [Outcomes(tasks[t]) EXCEPT ![i].outcome = outcome]
    <2>1. DOMAIN row.attempts = DOMAIN tasks[t].attempts
      BY <1>7
    <2>2. ASSUME NEW j \in DOMAIN tasks[t].attempts
          PROVE  [id |-> row.attempts[j].id, outcome |-> row.attempts[j].status] =
                   [Outcomes(tasks[t]) EXCEPT ![i].outcome = outcome][j]
      <3>1. CASE j = i
        <4>1. row.attempts[j] = done
          BY <1>7, <1>12, <3>1
        <4>2. [Outcomes(tasks[t]) EXCEPT ![i].outcome = outcome][j] =
                [Outcomes(tasks[t])[i] EXCEPT !.outcome = outcome]
          BY <3>1 DEF Outcomes
        <4>3. Outcomes(tasks[t])[i] = [id |-> a, outcome |-> "in_progress"]
          BY <1>12 DEF Outcomes
        <4> QED
          BY <1>10, <4>1, <4>2, <4>3
      <3>2. CASE j # i
        BY <1>7, <1>12, <3>2 DEF Outcomes
      <3> QED
        BY <3>1, <3>2
    <2> QED
      BY <2>1, <2>2 DEF Outcomes
  <1>18. absHistory' = [absHistory EXCEPT ![t][i].outcome = outcome]
    BY <1>3, <1>6, <1>7, <1>13, <1>17, SaveImage DEF RInv, IInv
  <1>19. absStatus' = [absStatus EXCEPT ![t] = Lifecycle!AbsTaskStatus(outcome)]
    <2>1. TerminalTaskStatus(outcome) = Lifecycle!AbsTaskStatus(outcome)
      BY <1>8 DEF TerminalTaskStatus, Lifecycle!AbsTaskStatus, TerminalStatuses, AttemptStatuses
    <2> QED
      BY <1>3, <1>6, <1>7, <1>9, <2>1, SaveImage DEF RInv, IInv
  <1>20. absIntent' = absIntent
    BY IntentUnseen
  <1> QED
    BY <1>3, <1>14, <1>16, <1>18, <1>19, <1>20 DEF Lifecycle!AbsFinish

LEMMA SetupUnseen ==
    ASSUME RInv, NEW p \in Procs, SetupSave(p)
    PROVE  UNCHANGED <<absStatus, absHistory>>
  <1>1. PICK t, a, r : t = local[p].task /\ a = local[p].attempt /\ r = local[p].receipt
    OBVIOUS
  <1>2. PICK row, new : /\ row = SetupRow(tasks[t], a, r)
                        /\ new = [AttemptOf(tasks[t], a) EXCEPT !.setup = r]
    OBVIOUS
  <1>3. /\ t \in TaskIds /\ r \in Receipts /\ Exists(t) /\ HasAttempt(tasks[t], a)
        /\ Save(t, row)
    BY <1>1, <1>2, LocalFields DEF SetupSave, RInv, IInv, TypeOK, InHand, InHandOf
  <1>4. tasks[t] \in TaskRows /\ UniqueIds(tasks[t])
    BY <1>3, RowThere DEF RInv, IInv
  <1>5. /\ row \in TaskRows
        /\ row.attempts = [i \in DOMAIN tasks[t].attempts |->
                             IF tasks[t].attempts[i].id = a THEN new ELSE tasks[t].attempts[i]]
    BY <1>2, <1>3, <1>4, SetupRowType
  <1>6. row.status = tasks[t].status
    <2>1. PICK attempts : row = [tasks[t] EXCEPT !.attempts = attempts]
      BY <1>2 DEF SetupRow, ReplaceAttempt
    <2> QED
      BY <1>4, <2>1 DEF TaskRows
  <1>7. \A i \in DOMAIN tasks[t].attempts :
           tasks[t].attempts[i].id = a => tasks[t].attempts[i] = AttemptOf(tasks[t], a)
    BY <1>4, AttemptOfUnique
  <1>8. new.id = AttemptOf(tasks[t], a).id /\ new.status = AttemptOf(tasks[t], a).status
    BY <1>2, <1>3, <1>4, AttemptOfFound DEF AttemptRows
  <1>9. Outcomes(row) = Outcomes(tasks[t])
    <2>1. \A i \in DOMAIN tasks[t].attempts :
             /\ row.attempts[i].id = tasks[t].attempts[i].id
             /\ row.attempts[i].status = tasks[t].attempts[i].status
      BY <1>5, <1>7, <1>8
    <2>2. DOMAIN row.attempts = DOMAIN tasks[t].attempts
      BY <1>5
    <2> QED
      BY <2>1, <2>2 DEF Outcomes
  <1> QED
    BY <1>3, <1>5, <1>6, <1>9, SaveUnseen DEF RInv, IInv

LEMMA TransitionImplements ==
    ASSUME RInv, NEW p \in Procs, TransitionApply(p), finRequests' = finRequests
    PROVE  \/ UNCHANGED <<absStatus, absHistory, absIntent>>
           \/ \E t \in TaskIds : Lifecycle!AbsMove(t)
  <1>1. PICK my, request, decision, t, row :
            /\ my = local[p] /\ request = my.request /\ decision = my.decision
            /\ t = request.id.task
            /\ row = TransitionedRow(tasks[t], request.id.actor, request.id.status,
                                     request.id.summary, decision.body.updated)
    OBVIOUS
  <1>2. /\ my.at = "tr_apply"
        /\ (tasks[t] = decision.id.pre /\ Save(t, row)) \/ tasks' = tasks
    BY <1>1 DEF TransitionApply
  <1>3. /\ t \in TaskIds /\ Exists(t) /\ tasks[t] \in TaskRows /\ request \in trRequests
        /\ request.id.actor \in Actors /\ request.id.status \in TransitionStatuses
        /\ request.id.summary \in Notes
    BY <1>1, <1>2, TransitionInHand DEF RInv
  <1>4. /\ decision \in trDecisions /\ decision.id.request = request.id
        /\ decision.body.updated \in Nat
    BY <1>1, <1>2, LocalFields DEF RInv, IInv, TypeOK, InHand, InHandOf, TrDecisionRows
  <1>5. CASE tasks' = tasks
    BY <1>5, Unseen, IntentUnseen
  <1>6. CASE tasks[t] = decision.id.pre /\ Save(t, row)
    <2>1. PICK status : status = request.id.status /\ status \in TransitionStatuses
      BY <1>3
    <2>2. tasks[t].status \in TransitionSources(status)
      <3>1. decision.id.pre = request.id.pre
        BY <1>4 DEF RInv, TransitionsAllowed
      <3> QED
        BY <1>3, <1>6, <2>1, <3>1 DEF RInv, TransitionsAllowed
    <2>3. row \in TaskRows /\ row.attempts = tasks[t].attempts
      BY <1>1, <1>3, <1>4, TransitionedRowType
    <2>4. row.status = status
      BY <1>1, <1>3, <2>1 DEF TransitionedRow, TaskRows
    <2>5. PICK move : move = <<tasks[t].status, status>>
      OBVIOUS
    <2>6. move \in Lifecycle!AbsMoves
      BY <2>1, <2>2, <2>5 DEF TransitionSources, TransitionStatuses, Lifecycle!AbsMoves
    <2>7. absStatus[t] = move[1] /\ absHistory[t] = Outcomes(tasks[t])
      BY <1>3, <2>5, Image
    <2>8. absStatus' = [absStatus EXCEPT ![t] = move[2]]
      BY <1>3, <1>6, <2>3, <2>4, <2>5, SaveImage DEF RInv, IInv
    <2>9. absHistory' = absHistory
      <3>1. Outcomes(row) = absHistory[t]
        BY <2>3, <2>7 DEF Outcomes
      <3>2. absHistory' = [absHistory EXCEPT ![t] = absHistory[t]]
        BY <1>3, <1>6, <2>3, <3>1, SaveImage DEF RInv, IInv
      <3>3. absHistory = [s \in TaskIds |-> absHistory[s]]
        BY DEF absHistory
      <3> QED
        BY <3>2, <3>3
    <2> QED
      BY <1>3, <2>6, <2>7, <2>8, <2>9, IntentUnseen DEF Lifecycle!AbsMove
  <1> QED
    BY <1>2, <1>5, <1>6

\* One step of the runtime.
LEMMA StepImplementsLifecycle ==
    ASSUME RInv, [Next]_vars
    PROVE  [Lifecycle!AbsNext]_<<absStatus, absHistory, absIntent>>
  <1> DEFINE Seen == Lifecycle!AbsNext \/ UNCHANGED <<absStatus, absHistory, absIntent>>
  <1>1. CASE tasks' = tasks /\ finRequests' = finRequests
    BY <1>1, Unseen, IntentUnseen
  <1>2. ASSUME NEW p \in Procs, FinishCall(p)
        PROVE  Seen
    <2>1. PICK t \in TaskIds, a \in AttemptIds, fid \in Finalizations, actor \in Actors,
               status \in TerminalStatuses, summary \in Notes :
                 FinishRequest(p, t, a, fid, actor, status, summary)
      BY <1>2 DEF FinishCall
    <2>2. \/ UNCHANGED <<absStatus, absHistory, absIntent>>
          \/ \E v \in Verdicts : Lifecycle!AbsDecide(t, a, v)
      BY <2>1, DecideImplements
    <2> QED
      BY <2>2 DEF Lifecycle!AbsNext
  <1>3. ASSUME finRequests' = finRequests, NEW p \in Procs,
               \/ CreateSave(p) \/ StartSave(p) \/ SetupSave(p) \/ FinishSave(p)
               \/ TransitionApply(p)
        PROVE  Seen
    <2>1. CASE CreateSave(p)
      BY <1>3, <2>1, CreateImplements DEF Lifecycle!AbsNext
    <2>2. CASE StartSave(p)
      BY <1>3, <2>2, StartImplements DEF Lifecycle!AbsNext
    <2>3. CASE SetupSave(p)
      BY <1>3, <2>3, SetupUnseen, IntentUnseen
    <2>4. CASE FinishSave(p)
      BY <1>3, <2>4, FinishImplements DEF Lifecycle!AbsNext
    <2>5. CASE TransitionApply(p)
      BY <1>3, <2>5, TransitionImplements DEF Lifecycle!AbsNext
    <2> QED
      BY <1>3, <2>1, <2>2, <2>3, <2>4, <2>5
  <1> QED
    BY <1>1, <1>2, <1>3, Writers

\* The task runtime implements the lifecycle it promises: every durable step,
\* whoever dies, waits or retries around it, is one step of TaskLifecycle or
\* changes nothing that specification speaks of.
THEOREM RuntimeImplementsLifecycle == Spec => ImplementsLifecycle
  <1>1. Init => Lifecycle!AbsInit
    BY DEF Init, Lifecycle!AbsInit, absStatus, absHistory, absIntent, Exists
  <1>2. RInv /\ [Next]_vars => [Lifecycle!AbsNext]_<<absStatus, absHistory, absIntent>>
    BY StepImplementsLifecycle
  <1> QED
    BY <1>1, <1>2, RInvHolds, PTL
       DEF Spec, ImplementsLifecycle, Lifecycle!AbsSpec, Lifecycle!absVars
-----------------------------------------------------------------------------
(***************************************************************************)
(* Rows under a decision.  How a row that is there can change, and which   *)
(* actions a process passes on its way to a decision.                      *)
(***************************************************************************)
\* Whoever moves, moves to no decision and to no transition event.
Entered ==
    \A q \in Procs :
        local'[q] = local[q] \/ local'[q].at \notin {"fin_decide", "tr_decide", "tr_append"}

LEMMA GotoEntered ==
    ASSUME TypeOK, NEW p \in Procs, NEW next, Goto(p, next),
           next.at \notin {"fin_decide", "tr_decide", "tr_append"}
    PROVE  Entered
  BY DEF TypeOK, Goto, Entered

\* Which actions take a process there, and which write the transition events.
LEMMA Entries ==
    ASSUME TypeOK, [Next]_vars
    PROVE  /\ \/ Entered
              \/ \E p \in Procs : FinishCall(p) \/ TransitionCall(p) \/ TransitionApply(p)
           /\ trEvents' = trEvents \/ \E p \in Procs : TransitionAppend(p)
  <1> USE DEF ledger, setupLedger, finLedger, trLedger
  <1>1. CASE UNCHANGED vars
    BY <1>1 DEF vars, Entered
  <1>2. CASE Tick
    BY <1>2 DEF Tick, Entered
  <1>3. ASSUME NEW p \in Procs, Create(p)
        PROVE  Entered /\ trEvents' = trEvents
    BY <1>3, GotoEntered DEF Create, CreateSave, CreateAppend
  <1>4. ASSUME NEW p \in Procs, StartTask(p)
        PROVE  Entered /\ trEvents' = trEvents
    <2>1. CASE StartSave(p) \/ StartRefuse(p) \/ StartAppend(p)
      BY <2>1, GotoEntered DEF StartSave, StartRefuse, StartAppend, Refuse
    <2>2. ASSUME NEW t \in TaskIds, NEW a \in AttemptIds,
                 RepairStart(p, t, a) \/ \E actor \in Actors : StartCall(p, t, a, actor)
          PROVE  Entered /\ trEvents' = trEvents
      BY <2>2, GotoEntered DEF RepairStart, StartCall
    <2> QED
      BY <1>4, <2>1, <2>2 DEF StartTask
  <1>5. ASSUME NEW p \in Procs, RecordSetup(p)
        PROVE  Entered /\ trEvents' = trEvents
    <2>1. CASE SetupSave(p) \/ SetupAppend(p)
      BY <2>1, GotoEntered DEF SetupSave, SetupAppend
    <2>2. ASSUME NEW t \in TaskIds, NEW a \in AttemptIds, NEW actor \in Actors,
                 NEW expected \in Receipts, NEW receipt \in Receipts,
                 SetupRepair(p, t, a, actor, expected, receipt)
          PROVE  Entered /\ trEvents' = trEvents
      <3>1. \/ local' = local
            \/ Goto(p, [at |-> "setup_save", task |-> t, attempt |-> a, receipt |-> receipt])
        BY <2>2 DEF SetupRepair
      <3>2. Entered
        BY <3>1, GotoEntered DEF Entered
      <3> QED
        BY <2>2, <3>2 DEF SetupRepair
    <2> QED
      BY <1>5, <2>1, <2>2 DEF RecordSetup
  <1>6. ASSUME NEW p \in Procs, FinishCall(p)
        PROVE  trEvents' = trEvents
    BY <1>6 DEF FinishCall, FinishRequest
  <1>7. ASSUME NEW p \in Procs, FinishStep(p)
        PROVE  Entered /\ trEvents' = trEvents
    <2>1. CASE FinishDecide(p) \/ FinishSave(p) \/ FinishAppend(p)
      BY <2>1, GotoEntered DEF FinishDecide, FinishSave, FinishAppend
    <2>2. CASE FinishReplay(p)
      BY <2>2, GotoEntered DEF FinishReplay
    <2>3. CASE FinishRefuse(p) \/ FinishSaveRefuse(p)
      BY <2>3, GotoEntered DEF FinishRefuse, FinishSaveRefuse, Refuse
    <2> QED
      BY <1>7, <2>1, <2>2, <2>3 DEF FinishStep
  <1>8. ASSUME NEW p \in Procs, TransitionCall(p)
        PROVE  trEvents' = trEvents
    <2>1. PICK t \in TaskIds, actor \in Actors, status \in TransitionStatuses,
               summary \in Notes : TransitionRequest(p, t, actor, status, summary)
      BY <1>8 DEF TransitionCall
    <2> QED
      BY ONLY <2>1, Zenon DEF TransitionRequest
  <1>9. ASSUME NEW p \in Procs, TransitionStep(p)
        PROVE  /\ Entered \/ TransitionApply(p)
               /\ trEvents' = trEvents \/ TransitionAppend(p)
    BY <1>9, GotoEntered DEF TransitionStep, TransitionDecide, TransitionApply, TransitionAppend
  <1>10. ASSUME NEW p \in Procs, Fail(p)
         PROVE  Entered /\ trEvents' = trEvents
    BY <1>10, GotoEntered DEF Fail
  <1> QED
    BY <1>1, <1>2, <1>3, <1>4, <1>5, <1>6, <1>7, <1>8, <1>9, <1>10 DEF Next

\* Two rows with attempts at the same places have equally many.
LEMMA SameLength ==
    ASSUME NEW old \in TaskRows, NEW new \in TaskRows, DOMAIN new.attempts = DOMAIN old.attempts
    PROVE  Len(new.attempts) = Len(old.attempts)
  BY AttemptsAreRows

\* An active attempt of a row makes the row an active one.
LEMMA ActiveFound ==
    ASSUME NEW row \in TaskRows, NEW a, HasAttempt(row, a), IsActive(AttemptOf(row, a))
    PROVE  \E i \in ActiveIn(row) : row.attempts[i] = AttemptOf(row, a) /\ row.attempts[i].id = a
  BY AttemptOfFound DEF ActiveIn

\* A row has one active attempt.
LEMMA OnlyActive ==
    ASSUME NEW row \in TaskRows, ValidRow(row),
           NEW a, HasAttempt(row, a), IsActive(AttemptOf(row, a)),
           NEW b, HasAttempt(row, b), IsActive(AttemptOf(row, b))
    PROVE  a = b
  BY ActiveFound DEF ValidRow

\* The step saves another receipt of task t, or ends its attempt.
Carried(t) ==
    \E p \in Procs : \/ SetupSave(p) /\ local[p].task = t
                     \/ FinishSave(p) /\ local[p].request.id.task = t

\* The step applies the decision of a transition of task t.
Moved(t) ==
    \E p \in Procs :
        /\ TransitionApply(p) /\ local[p].request.id.task = t
        /\ tasks[t] = local[p].decision.id.pre /\ tasks'[t] = local[p].decision.body.post

\* How the row of a task can change: an attempt is added to a row without an
\* active one, the active one changes, or a transition is applied.
LEMMA RowMoves ==
    ASSUME IInv, TransitionsAllowed, [Next]_vars,
           NEW t \in TaskIds, Exists(t), tasks'[t] # tasks[t]
    PROVE  \/ /\ ActiveIn(tasks[t]) = {}
              /\ Len(tasks'[t].attempts) = Len(tasks[t].attempts) + 1
           \/ /\ ActiveIn(tasks[t]) # {}
              /\ Len(tasks'[t].attempts) = Len(tasks[t].attempts)
              /\ Carried(t)
           \/ /\ ActiveIn(tasks[t]) = {}
              /\ tasks'[t].attempts = tasks[t].attempts
              /\ Moved(t)
  <1>1. tasks[t] \in TaskRows /\ ValidRow(tasks[t])
    BY RowThere DEF IInv, ValidState, Exists
  <1>2. ASSUME NEW s, NEW row, Save(s, row)
        PROVE  s = t /\ tasks'[t] = row
    BY <1>2 DEF Save, IInv, TypeOK
  <1>3. ASSUME NEW p \in Procs, CreateSave(p)
        PROVE  FALSE
    BY <1>2, <1>3 DEF CreateSave, IInv, InHand, InHandOf
  <1>4. ASSUME NEW p \in Procs, StartSave(p)
        PROVE  /\ ActiveIn(tasks[t]) = {}
               /\ Len(tasks'[t].attempts) = Len(tasks[t].attempts) + 1
    <2>1. local[p].task = t /\ tasks'[t] = StartedRow(tasks[t], local[p].attempt)
      BY <1>2, <1>4 DEF StartSave
    <2>2. ActiveIn(tasks[t]) = {}
      BY <1>4, <2>1 DEF StartSave, Startable
    <2>3. local[p].attempt \in AttemptRows
      BY <1>4, LocalFields DEF StartSave, IInv, TypeOK
    <2>4. tasks'[t].attempts = Append(tasks[t].attempts, local[p].attempt)
      BY <1>1, <2>1, <2>3, StartedRowType
    <2>5. tasks[t].attempts \in Seq(AttemptRows)
      BY <1>1 DEF TaskRows
    <2>6. Len(Append(tasks[t].attempts, local[p].attempt)) = Len(tasks[t].attempts) + 1
      BY ONLY <2>3, <2>5, AppendProperties
    <2> QED
      BY <2>2, <2>4, <2>6
  <1>5. ASSUME NEW p \in Procs, SetupSave(p)
        PROVE  /\ ActiveIn(tasks[t]) # {} /\ Carried(t)
               /\ Len(tasks'[t].attempts) = Len(tasks[t].attempts)
    <2>1. /\ local[p].at = "setup_save" /\ local[p].task = t
          /\ tasks'[t] = SetupRow(tasks[t], local[p].attempt, local[p].receipt)
      BY <1>2, <1>5 DEF SetupSave
    <2>2. HasAttempt(tasks[t], local[p].attempt) /\ IsActive(AttemptOf(tasks[t], local[p].attempt))
      BY <2>1 DEF IInv, InHand, InHandOf
    <2>3. local[p].receipt \in Receipts
      BY <2>1, LocalFields DEF IInv, TypeOK
    <2>4. tasks'[t] \in TaskRows /\ DOMAIN tasks'[t].attempts = DOMAIN tasks[t].attempts
      <3>1. PICK row, a, receipt : /\ row = tasks[t] /\ a = local[p].attempt
                                   /\ receipt = local[p].receipt
        OBVIOUS
      <3>2. row \in TaskRows /\ HasAttempt(row, a) /\ receipt \in Receipts
        BY <1>1, <2>2, <2>3, <3>1
      <3>3. /\ SetupRow(row, a, receipt) \in TaskRows
            /\ SetupRow(row, a, receipt).attempts =
                 [i \in DOMAIN row.attempts |->
                    IF row.attempts[i].id = a
                    THEN [AttemptOf(row, a) EXCEPT !.setup = receipt]
                    ELSE row.attempts[i]]
        BY <3>2, SetupRowType
      <3>4. tasks'[t] = SetupRow(row, a, receipt)
        BY <2>1, <3>1
      <3> QED
        BY <3>1, <3>3, <3>4
    <2>5. ActiveIn(tasks[t]) # {}
      BY <1>1, <2>2, ActiveFound
    <2>6. Len(tasks'[t].attempts) = Len(tasks[t].attempts)
      BY <1>1, <2>4, SameLength
    <2>7. Carried(t)
      BY <1>5, <2>1 DEF Carried
    <2> QED
      BY <2>5, <2>6, <2>7
  <1>6. ASSUME NEW p \in Procs, FinishSave(p)
        PROVE  /\ ActiveIn(tasks[t]) # {} /\ Carried(t)
               /\ Len(tasks'[t].attempts) = Len(tasks[t].attempts)
    <2>1. PICK q, ended : q = local[p].request /\ ended = local[p].decision.body.ended
      OBVIOUS
    <2>2. /\ local[p].at = "fin_save" /\ q.id.task = t
          /\ tasks'[t] = TerminalRow(t, q, ended)
      BY <1>2, <1>6, <2>1 DEF FinishSave
    <2>3. q \in FinRequestRows /\ HasAttempt(tasks[t], q.id.attempt)
      BY <2>1, <2>2, FinishInHand
    <2>4. IsActive(AttemptOf(tasks[t], q.id.attempt)) /\ local[p].decision \in FinDecisionRows
      BY <2>1, <2>2, LocalFields DEF IInv, TypeOK, InHand, InHandOf
    <2>5. ended \in Nat
      BY <2>1, <2>4 DEF FinDecisionRows
    <2>6. tasks'[t] \in TaskRows /\ DOMAIN tasks'[t].attempts = DOMAIN tasks[t].attempts
      BY <1>1, <2>2, <2>3, <2>5, TerminalRowType
    <2>7. ActiveIn(tasks[t]) # {}
      BY <1>1, <2>3, <2>4, ActiveFound
    <2>8. Len(tasks'[t].attempts) = Len(tasks[t].attempts)
      BY <1>1, <2>6, SameLength
    <2>9. Carried(t)
      BY <1>6, <2>1, <2>2 DEF Carried
    <2> QED
      BY <2>7, <2>8, <2>9
  <1>7. ASSUME NEW p \in Procs, TransitionApply(p)
        PROVE  /\ ActiveIn(tasks[t]) = {} /\ Moved(t)
               /\ tasks'[t].attempts = tasks[t].attempts
    <2>1. PICK q, d, row :
              /\ q = local[p].request /\ d = local[p].decision
              /\ row = TransitionedRow(tasks[q.id.task], q.id.actor, q.id.status, q.id.summary,
                                       d.body.updated)
      OBVIOUS
    <2>2. /\ local[p].at = "tr_apply"
          /\ \/ tasks[q.id.task] = d.id.pre /\ row = d.body.post /\ Save(q.id.task, row)
             \/ UNCHANGED tasks
      BY <1>7, <2>1 DEF TransitionApply
    <2>3. q.id.task = t /\ tasks[t] = d.id.pre /\ tasks'[t] = row /\ row = d.body.post
      BY <1>2, <2>2, SMTT(30)
    <2>4. /\ q \in trRequests /\ q.id.actor \in Actors /\ q.id.status \in TransitionStatuses
          /\ q.id.summary \in Notes
      BY <2>1, <2>2, TransitionInHand, SMTT(30)
    <2>5. /\ d \in trDecisions /\ d.id.request = q.id /\ d.body.updated \in Nat
      BY <2>1, <2>2, LocalFields DEF IInv, TypeOK, InHand, InHandOf, TrDecisionRows
    <2>6. tasks'[t].attempts = tasks[t].attempts
      BY <1>1, <2>1, <2>3, <2>4, <2>5, TransitionedRowType
    <2>7. q.id.pre = tasks[t]
      BY <2>3, <2>5 DEF TransitionsAllowed
    <2>8. tasks[t].status # "in_progress"
      BY <2>4, <2>7 DEF TransitionsAllowed, TransitionSources, TransitionStatuses
    <2>9. ActiveIn(tasks[t]) = {}
      BY <1>1, <2>8 DEF ValidRow
    <2> QED
      BY <1>7, <2>1, <2>3, <2>6, <2>9 DEF Moved
  <1> QED
    BY <1>3, <1>4, <1>5, <1>6, <1>7, Writers

-----------------------------------------------------------------------------
(***************************************************************************)
(* finish_task: what may overtake a durable decision.  It names the row it *)
(* was taken on, so it applies as long as nothing else writes the row; of  *)
(* all that writes rows only record_task_setup does, which replaces the    *)
(* receipt of an attempt that is about to end.                             *)
(***************************************************************************)
\* Whoever is about to decide saw, at some time, that the row it leads to was valid.
Ripe ==
    \A p \in Procs : local[p].at = "fin_decide" =>
        LET q == local[p].request
        IN  IsActive(AttemptOf(tasks[q.id.task], q.id.attempt)) =>
                \E now \in Nat : ValidRow(TerminalRow(q.id.task, q, now))

\* The row in hand with the receipt another row has for attempt a.
WithReceiptOf(row, a, other) == SetupRow(row, a, AttemptOf(other, a).setup)

\* The end of attempt a at a time is not before it or its task began.
InOrder(row, a, ended) == ended >= AttemptOf(row, a).started /\ ended >= row.created

\* A decision belongs to a request and leads, in order, to a valid row with the
\* attempts of the row it was taken on; while its attempt is active that is
\* the row in place, but for the receipt of the attempt.
Sound(d) ==
    /\ \E q \in finRequests : q.id = d.id.request
    /\ HasAttempt(d.id.pre, d.id.request.attempt)
    /\ InOrder(d.id.pre, d.id.request.attempt, d.body.ended) => ValidRow(d.body.post)
    /\ \A a \in AttemptIds : HasAttempt(d.body.post, a) <=> HasAttempt(d.id.pre, a)
    /\ IsActive(AttemptOf(tasks[d.id.request.task], d.id.request.attempt)) =>
          WithReceiptOf(tasks[d.id.request.task], d.id.request.attempt, d.id.pre) = d.id.pre

DecisionsSound == \A d \in finDecisions : Sound(d)

DInv == RInv /\ Ripe /\ DecisionsSound

\* The same attempts ended at another time, in order, make a valid row too.
LEMMA LaterRowValid ==
    ASSUME NEW early \in TaskRows, NEW late \in TaskRows, ValidRow(early),
           late.status = early.status, late.updated >= late.created,
           DOMAIN late.attempts = DOMAIN early.attempts,
           \A i \in DOMAIN early.attempts :
              \/ late.attempts[i] = early.attempts[i]
              \/ /\ late.attempts[i].id = early.attempts[i].id
                 /\ late.attempts[i].status = early.attempts[i].status
                 /\ late.attempts[i].started = early.attempts[i].started
                 /\ ~IsActive(early.attempts[i])
                 /\ late.attempts[i].ended >= late.attempts[i].started
    PROVE  ValidRow(late)
  <1>1. PICK n \in Nat : /\ n = Len(early.attempts) /\ n = Len(late.attempts)
                         /\ DOMAIN early.attempts = 1..n
    BY AttemptsAreRows, SameLength
  <1>2. PICK e, l : e = early.attempts /\ l = late.attempts
    OBVIOUS
  <1>3. \A i \in 1..n : e[i] \in AttemptRows /\ l[i] \in AttemptRows
    BY <1>1, <1>2, AttemptsAreRows
  <1>4. \A i \in 1..n : /\ l[i].id = e[i].id /\ l[i].status = e[i].status
                        /\ l[i].started = e[i].started
    BY <1>1, <1>2
  <1>5. \A i \in 1..n : ValidAttempt(e[i])
    BY <1>1, <1>2 DEF ValidRow
  <1>6. \A i \in 1..n : ValidAttempt(l[i])
    <2> SUFFICES ASSUME NEW i \in 1..n
                 PROVE  ValidAttempt(l[i])
      OBVIOUS
    <2>1. CASE l[i] = e[i]
      BY <1>5, <2>1
    <2>2. CASE ~IsActive(e[i]) /\ l[i].ended >= l[i].started
      BY <1>4, <2>2 DEF ValidAttempt, IsActive
    <2> QED
      BY <1>1, <1>2, <2>1, <2>2
  <1>7. ActiveIn(late) = ActiveIn(early)
    BY <1>1, <1>2, <1>4 DEF ActiveIn, IsActive
  <1> QED
    BY <1>1, <1>2, <1>4, <1>6, <1>7 DEF ValidRow

\* The row a request leads to: its attempts keep their identities.
LEMMA TerminalNames ==
    ASSUME IInv, NEW q \in FinRequestRows, NEW ended \in Nat, Exists(q.id.task),
           HasAttempt(tasks[q.id.task], q.id.attempt), NEW a
    PROVE  HasAttempt(TerminalRow(q.id.task, q, ended), a) <=> HasAttempt(tasks[q.id.task], a)
  <1>1. PICK old, new, done :
            /\ old = tasks[q.id.task] /\ new = TerminalRow(q.id.task, q, ended)
            /\ done = FinishedAttempt(AttemptOf(old, q.id.attempt), q.body.status,
                                      q.body.summary, ended)
    OBVIOUS
  <1>2. old \in TaskRows
    BY <1>1, RowThere DEF IInv, FinRequestRows, RequestIds
  <1>3. AttemptOf(old, q.id.attempt) \in AttemptRows /\ AttemptOf(old, q.id.attempt).id = q.id.attempt
    BY <1>1, <1>2, AttemptOfFound
  <1>4. done.id = q.id.attempt
    BY <1>1, <1>3 DEF FinishedAttempt, AttemptRows
  <1>5. new.attempts = [i \in DOMAIN old.attempts |->
                          IF old.attempts[i].id = q.id.attempt THEN done ELSE old.attempts[i]]
    BY <1>1, TerminalRowType
  <1>6. /\ DOMAIN new.attempts = DOMAIN old.attempts
        /\ \A i \in DOMAIN old.attempts : new.attempts[i].id = old.attempts[i].id
    BY <1>4, <1>5
  <1> QED
    BY <1>1, <1>6 DEF HasAttempt

\* A request that leads to a valid row at some time does so at any, in order.
LEMMA TerminalLater ==
    ASSUME IInv, NEW q \in FinRequestRows, Exists(q.id.task),
           HasAttempt(tasks[q.id.task], q.id.attempt),
           NEW now \in Nat, NEW later \in Nat,
           InOrder(tasks[q.id.task], q.id.attempt, later),
           ValidRow(TerminalRow(q.id.task, q, now))
    PROVE  ValidRow(TerminalRow(q.id.task, q, later))
  <1>1. PICK old, a, early, late, done, finished :
            /\ old = tasks[q.id.task] /\ a = q.id.attempt
            /\ early = TerminalRow(q.id.task, q, now) /\ late = TerminalRow(q.id.task, q, later)
            /\ done = FinishedAttempt(AttemptOf(old, a), q.body.status, q.body.summary, now)
            /\ finished = FinishedAttempt(AttemptOf(old, a), q.body.status, q.body.summary, later)
    OBVIOUS
  <1>2. old \in TaskRows
    BY <1>1, RowThere DEF IInv, FinRequestRows, RequestIds
  <1>3. AttemptOf(old, a) \in AttemptRows /\ AttemptOf(old, a).id = a
    BY <1>1, <1>2, AttemptOfFound
  <1>4. q.body.status \in TerminalStatuses
    BY DEF FinRequestRows, Verdicts
  <1>5. /\ finished.id = done.id /\ finished.status = done.status
        /\ finished.started = done.started /\ ~IsActive(done)
        /\ finished.ended = later /\ later >= finished.started
    BY <1>1, <1>3, <1>4 DEF InOrder, FinishedAttempt, AttemptRows, TerminalStatuses, IsActive
  <1>6. /\ early \in TaskRows /\ late \in TaskRows
        /\ early.attempts = [i \in DOMAIN old.attempts |->
                               IF old.attempts[i].id = a THEN done ELSE old.attempts[i]]
        /\ late.attempts = [i \in DOMAIN old.attempts |->
                              IF old.attempts[i].id = a THEN finished ELSE old.attempts[i]]
    <2>1. /\ early \in TaskRows
          /\ early.attempts = [i \in DOMAIN old.attempts |->
                                 IF old.attempts[i].id = a THEN done ELSE old.attempts[i]]
      BY <1>1, TerminalRowType
    <2>2. /\ late \in TaskRows
          /\ late.attempts = [i \in DOMAIN old.attempts |->
                                IF old.attempts[i].id = a THEN finished ELSE old.attempts[i]]
      BY <1>1, TerminalRowType
    <2> QED
      BY <2>1, <2>2
  <1>7. /\ late.status = early.status /\ late.created = old.created
        /\ late.updated = later
    <2>1. PICK f, g : /\ f = ReplaceAttempt(old, done) /\ g = ReplaceAttempt(old, finished)
      OBVIOUS
    <2>2. /\ early = [f EXCEPT !.status = TerminalTaskStatus(q.body.status), !.updated = now,
                               !.actor = q.body.actor, !.note = q.body.summary]
          /\ late = [g EXCEPT !.status = TerminalTaskStatus(q.body.status), !.updated = later,
                              !.actor = q.body.actor, !.note = q.body.summary]
      BY <1>1, <2>1 DEF TerminalRow, FinishedRow
    <2>3. /\ DOMAIN f = DOMAIN old /\ DOMAIN g = DOMAIN old
          /\ f.created = old.created /\ g.created = old.created
      BY <1>2, <2>1 DEF ReplaceAttempt, TaskRows
    <2>4. DOMAIN old = {"title", "created", "status", "updated", "actor", "note", "attempts"}
      BY <1>2 DEF TaskRows
    <2> QED
      BY <2>2, <2>3, <2>4
  <1>8. /\ DOMAIN late.attempts = DOMAIN early.attempts
        /\ \A i \in DOMAIN early.attempts :
             \/ late.attempts[i] = early.attempts[i]
             \/ early.attempts[i] = done /\ late.attempts[i] = finished
    BY <1>6
  <1>9. \A i \in DOMAIN early.attempts :
           \/ late.attempts[i] = early.attempts[i]
           \/ /\ late.attempts[i].id = early.attempts[i].id
              /\ late.attempts[i].status = early.attempts[i].status
              /\ late.attempts[i].started = early.attempts[i].started
              /\ ~IsActive(early.attempts[i])
              /\ late.attempts[i].ended >= late.attempts[i].started
    BY <1>5, <1>8
  <1>10. late.updated >= late.created
    BY <1>1, <1>7 DEF InOrder
  <1>11. ValidRow(early)
    BY <1>1
  <1>12. ValidRow(late)
    BY ONLY <1>6, <1>7, <1>8, <1>9, <1>10, <1>11, LaterRowValid
  <1> QED
    BY <1>1, <1>12

LEMMA RipeStep ==
    ASSUME IInv, Ripe, [Next]_vars
    PROVE  Ripe'
  <1> SUFFICES ASSUME NEW p \in Procs, local'[p].at = "fin_decide", NEW q, q = local'[p].request,
                      IsActive(AttemptOf(tasks'[q.id.task], q.id.attempt))
               PROVE  \E now \in Nat : ValidRow(TerminalRow(q.id.task, q, now)')
    BY DEF Ripe
  <1>1. ASSUME local'[p] = local[p]
        PROVE  \E now \in Nat : ValidRow(TerminalRow(q.id.task, q, now)')
    <2>1. tasks' = tasks
      BY <1>1, HolderFreezesStore DEF LockedStages
    <2>2. PICK now \in Nat : ValidRow(TerminalRow(q.id.task, q, now))
      BY <1>1, <2>1 DEF Ripe
    <2> QED
      BY <2>1, <2>2 DEF TerminalRow
  <1>2. ASSUME NEW r \in Procs, FinishCall(r), local'[p] # local[p]
        PROVE  \E now \in Nat : ValidRow(TerminalRow(q.id.task, q, now)')
    <2>1. PICK t \in TaskIds, a \in AttemptIds, fid \in Finalizations, actor \in Actors,
               status \in TerminalStatuses, summary \in Notes :
                 FinishRequest(r, t, a, fid, actor, status, summary)
      BY <1>2 DEF FinishCall
    <2>2. PICK new : new = Event([task |-> t, attempt |-> a, finalization |-> fid],
                                 [actor |-> actor, status |-> status, summary |-> summary])
      OBVIOUS
    <2>3. /\ Exists(t) /\ HasAttempt(tasks[t], a)
          /\ IsActive(AttemptOf(tasks[t], a)) =>
                ValidState([tasks EXCEPT ![t] = TerminalRow(t, new, clock)])
          /\ Goto(r, [at |-> "fin_decide", request |-> new])
          /\ UNCHANGED <<clock, tasks>>
      BY <2>1, <2>2 DEF FinishRequest
    <2>4. q = new
      BY <1>2, <2>3 DEF Goto, IInv, TypeOK
    <2>5. new \in FinRequestRows /\ new.id.task = t /\ new.id.attempt = a
      BY <2>2 DEF Event, FinRequestRows, RequestIds, Verdicts
    <2>6. TerminalRow(t, new, clock) \in TaskRows
      BY <2>3, <2>5, TerminalRowType DEF IInv, TypeOK
    <2>7. ValidState([tasks EXCEPT ![t] = TerminalRow(t, new, clock)])
      BY <2>3, <2>4, <2>5
    <2>8. ValidRow(TerminalRow(t, new, clock))
      BY <2>6, <2>7, NoTaskAssumption DEF ValidState, IInv, TypeOK
    <2>9. clock \in Nat
      BY DEF IInv, TypeOK
    <2> QED
      BY <2>3, <2>4, <2>5, <2>8, <2>9 DEF TerminalRow
  <1>3. ASSUME NEW r \in Procs, TransitionCall(r) \/ TransitionApply(r), local'[p] # local[p]
        PROVE  FALSE
    <2>1. CASE TransitionApply(r)
      BY <1>3, <2>1 DEF TransitionApply, Goto, IInv, TypeOK
    <2>2. CASE TransitionCall(r)
      <3>1. PICK t \in TaskIds, actor \in Actors, status \in TransitionStatuses,
                 summary \in Notes : TransitionRequest(r, t, actor, status, summary)
        BY <2>2 DEF TransitionCall
      <3>2. \/ \E q2, d : Goto(r, [at |-> "tr_apply", request |-> q2, decision |-> d])
            \/ \E q2, n : Goto(r, [at |-> "tr_decide", request |-> q2, next |-> n])
        BY ONLY <3>1, Zenon DEF TransitionRequest
      <3> QED
        BY <1>3, <3>2 DEF Goto, IInv, TypeOK
    <2> QED
      BY <1>3, <2>1, <2>2, SMTT(30)
  <1> QED
    BY <1>1, <1>2, <1>3, Entries DEF Entered, IInv

\* What a durable decision names is there.
LEMMA DecisionNames ==
    ASSUME RInv, DecisionsSound, NEW d \in finDecisions
    PROVE  LET t == d.id.request.task
               a == d.id.request.attempt
           IN  /\ t \in TaskIds /\ a \in AttemptIds /\ Exists(t) /\ HasAttempt(tasks[t], a)
               /\ tasks[t] \in TaskRows /\ ValidRow(tasks[t]) /\ UniqueIds(tasks[t])
               /\ d.id.pre \in TaskRows /\ d.body.post \in TaskRows
  <1>1. PICK q \in finRequests : q.id = d.id.request
    BY DEF DecisionsSound, Sound
  <1>2. /\ q.id.task \in TaskIds /\ q.id.attempt \in AttemptIds
        /\ Exists(q.id.task) /\ HasAttempt(tasks[q.id.task], q.id.attempt)
    BY DEF RInv, RequestsNamed, IInv, TypeOK, FinRequestRows, RequestIds
  <1>3. /\ tasks[q.id.task] \in TaskRows /\ UniqueIds(tasks[q.id.task])
        /\ ValidRow(tasks[q.id.task])
    BY <1>2, RowThere DEF RInv, IInv, ValidState, Exists
  <1>4. d.id.pre \in TaskRows /\ d.body.post \in TaskRows
    BY DEF RInv, IInv, TypeOK, FinDecisionRows, FinDecisionIds
  <1> QED
    BY <1>1, <1>2, <1>3, <1>4

\* An attempt that is active after a step was active before.
LEMMA ActiveBefore ==
    ASSUME IInv, [Next]_vars, NEW t \in TaskIds, Exists(t), NEW a, HasAttempt(tasks[t], a),
           IsActive(AttemptOf(tasks'[t], a))
    PROVE  IsActive(AttemptOf(tasks[t], a))
  <1> SUFFICES ASSUME ~IsActive(AttemptOf(tasks[t], a))
               PROVE  FALSE
    OBVIOUS
  <1>1. tasks[t] \in TaskRows /\ HistoryKept /\ TypeOK' /\ ValidState(tasks)'
    BY RowThere, IInvStep DEF IInv
  <1>2. PICK i \in DOMAIN tasks[t].attempts :
            tasks[t].attempts[i] = AttemptOf(tasks[t], a) /\ AttemptOf(tasks[t], a).id = a
    BY <1>1, AttemptOfFound
  <1>3. /\ tasks'[t] # NoTask /\ i \in DOMAIN tasks'[t].attempts
        /\ tasks'[t].attempts[i] = tasks[t].attempts[i]
    BY <1>1, <1>2 DEF HistoryKept
  <1>4. UniqueIds(tasks'[t])
    BY <1>1, <1>3, ValidRowUniqueIds DEF TypeOK, ValidState
  <1>5. AttemptOf(tasks'[t], a) = tasks[t].attempts[i]
    BY <1>2, <1>3, <1>4, AttemptOfUnique
  <1> QED
    BY <1>2, <1>5

\* The save of a finish ends the attempt of its request.
LEMMA FinishSaveEnds ==
    ASSUME IInv, [Next]_vars, NEW p \in Procs, FinishSave(p)
    PROVE  LET q == local[p].request
           IN  /\ IsActive(AttemptOf(tasks[q.id.task], q.id.attempt))
               /\ HasAttempt(tasks[q.id.task], q.id.attempt)
               /\ ~IsActive(AttemptOf(tasks'[q.id.task], q.id.attempt))
  <1>1. PICK q, t, a, ended :
            /\ q = local[p].request /\ ended = local[p].decision.body.ended
            /\ t = q.id.task /\ a = q.id.attempt
    OBVIOUS
  <1>2. local[p].at = "fin_save" /\ Save(t, TerminalRow(t, q, ended))
    BY <1>1 DEF FinishSave
  <1>3. /\ q \in FinRequestRows /\ t \in TaskIds /\ Exists(t) /\ HasAttempt(tasks[t], a)
        /\ tasks[t] \in TaskRows
        /\ AttemptOf(tasks[t], a) \in AttemptRows /\ AttemptOf(tasks[t], a).id = a
    BY <1>1, <1>2, FinishInHand
  <1>4. IsActive(AttemptOf(tasks[t], a)) /\ ended \in Nat
    BY <1>1, <1>2, LocalFields, Zenon DEF IInv, TypeOK, InHand, InHandOf, FinDecisionRows
  <1>5. PICK row, done :
            /\ row = TerminalRow(t, q, ended)
            /\ done = FinishedAttempt(AttemptOf(tasks[t], a), q.body.status, q.body.summary, ended)
    OBVIOUS
  <1>6. /\ row \in TaskRows
        /\ row.attempts = [i \in DOMAIN tasks[t].attempts |->
                             IF tasks[t].attempts[i].id = a THEN done ELSE tasks[t].attempts[i]]
    <2>1. Exists(q.id.task) /\ HasAttempt(tasks[q.id.task], q.id.attempt)
      BY <1>1, <1>3
    <2>2. /\ TerminalRow(q.id.task, q, ended) \in TaskRows
          /\ TerminalRow(q.id.task, q, ended).attempts =
              [i \in DOMAIN tasks[q.id.task].attempts |->
                 IF tasks[q.id.task].attempts[i].id = q.id.attempt
                 THEN FinishedAttempt(AttemptOf(tasks[q.id.task], q.id.attempt),
                                      q.body.status, q.body.summary, ended)
                 ELSE tasks[q.id.task].attempts[i]]
      BY <1>3, <1>4, <2>1, TerminalRowType
    <2> QED
      BY <1>1, <1>5, <2>2, Zenon
  <1>7. done.id = a /\ done.status \in TerminalStatuses
    BY <1>3, <1>5 DEF FinishedAttempt, AttemptRows, FinRequestRows, Verdicts
  <1>8. tasks'[t] = row
    BY <1>2, <1>3, <1>5 DEF Save, IInv, TypeOK
  <1>9. UniqueIds(row)
    <2>1. ValidState(tasks)'
      BY IInvStep DEF IInv
    <2> QED
      BY <1>3, <1>6, <1>8, <2>1, NoTaskAssumption, ValidRowUniqueIds DEF ValidState
  <1>10. PICK i \in DOMAIN tasks[t].attempts : tasks[t].attempts[i].id = a
    BY <1>3 DEF HasAttempt
  <1>11. i \in DOMAIN row.attempts /\ row.attempts[i] = done
    BY <1>6, <1>10
  <1>12. AttemptOf(row, a) = done
    BY <1>7, <1>9, <1>11, AttemptOfUnique
  <1> QED
    BY <1>1, <1>3, <1>4, <1>7, <1>8, <1>12 DEF TerminalStatuses, IsActive

\* A row is itself with the receipt it has.
LEMMA OwnReceipt ==
    ASSUME NEW row \in TaskRows, UniqueIds(row), NEW a, HasAttempt(row, a)
    PROVE  WithReceiptOf(row, a, row) = row
  <1>1. AttemptOf(row, a) \in AttemptRows /\ AttemptOf(row, a).id = a
    BY AttemptOfFound
  <1>2. [AttemptOf(row, a) EXCEPT !.setup = AttemptOf(row, a).setup] = AttemptOf(row, a)
    BY <1>1 DEF AttemptRows
  <1>3. \A i \in DOMAIN row.attempts : row.attempts[i].id = a => row.attempts[i] = AttemptOf(row, a)
    BY AttemptOfUnique
  <1>4. [i \in DOMAIN row.attempts |->
           IF row.attempts[i].id = a THEN AttemptOf(row, a) ELSE row.attempts[i]] = row.attempts
    <2>1. row.attempts = [i \in DOMAIN row.attempts |-> row.attempts[i]]
      BY DEF TaskRows
    <2> QED
      BY <1>3, <2>1
  <1>5. [row EXCEPT !.attempts = row.attempts] = row
    BY DEF TaskRows
  <1> QED
    BY <1>1, <1>2, <1>4, <1>5 DEF WithReceiptOf, SetupRow, ReplaceAttempt

\* Of two receipts set one after the other the second remains.
LEMMA LastReceipt ==
    ASSUME NEW row \in TaskRows, UniqueIds(row), NEW a, HasAttempt(row, a),
           NEW receipt \in Receipts, NEW other \in Receipts
    PROVE  SetupRow(SetupRow(row, a, receipt), a, other) = SetupRow(row, a, other)
  <1>1. PICK attempt, mid, atts :
            /\ attempt = AttemptOf(row, a) /\ mid = SetupRow(row, a, receipt)
            /\ atts = row.attempts
    OBVIOUS
  <1>2. attempt \in AttemptRows /\ attempt.id = a
    BY <1>1, AttemptOfFound
  <1>3. PICK set, reset : /\ set = [attempt EXCEPT !.setup = receipt]
                          /\ reset = [attempt EXCEPT !.setup = other]
    OBVIOUS
  <1>4. set.id = a /\ reset.id = a /\ [set EXCEPT !.setup = other] = reset
    BY <1>2, <1>3 DEF AttemptRows
  <1>5. /\ mid \in TaskRows
        /\ mid.attempts = [i \in DOMAIN atts |-> IF atts[i].id = a THEN set ELSE atts[i]]
    BY <1>1, <1>3, SetupRowType
  <1>6. DOMAIN mid.attempts = DOMAIN atts
    BY <1>5
  <1>7. UniqueIds(mid)
    BY <1>1, <1>4, <1>5 DEF UniqueIds
  <1>8. PICK k \in DOMAIN atts : atts[k].id = a
    BY <1>1 DEF HasAttempt
  <1>9. AttemptOf(mid, a) = set
    BY <1>4, <1>5, <1>6, <1>7, <1>8, AttemptOfUnique
  <1>10. SetupRow(mid, a, other) =
           [mid EXCEPT !.attempts = [i \in DOMAIN @ |-> IF @[i].id = a THEN reset ELSE @[i]]]
    BY <1>4, <1>9 DEF SetupRow, ReplaceAttempt
  <1>11. SetupRow(row, a, other) =
           [row EXCEPT !.attempts = [i \in DOMAIN atts |-> IF atts[i].id = a THEN reset ELSE atts[i]]]
    BY <1>1, <1>3, <1>4 DEF SetupRow, ReplaceAttempt
  <1>12. mid = [row EXCEPT !.attempts = mid.attempts]
    BY <1>1, <1>3, <1>4, <1>5 DEF SetupRow, ReplaceAttempt
  <1>13. [i \in DOMAIN mid.attempts |-> IF mid.attempts[i].id = a THEN reset ELSE mid.attempts[i]]
            = [i \in DOMAIN atts |-> IF atts[i].id = a THEN reset ELSE atts[i]]
    BY <1>4, <1>5, <1>6
  <1>14. SetupRow(mid, a, other) = [mid EXCEPT !.attempts =
             [i \in DOMAIN atts |-> IF atts[i].id = a THEN reset ELSE atts[i]]]
    BY <1>10, <1>13
  <1>15. \A f : [mid EXCEPT !.attempts = f] = [row EXCEPT !.attempts = f]
    <2>1. DOMAIN mid = DOMAIN row
      BY <1>12
    <2>2. \A x \in DOMAIN row : x # "attempts" => mid[x] = row[x]
      BY <1>12
    <2> QED
      BY <2>1, <2>2
  <1> QED
    BY <1>1, <1>11, <1>14, <1>15

\* The receipt of an attempt has no part in which attempts a row has.
LEMMA ReceiptNames ==
    ASSUME NEW row \in TaskRows, NEW a, HasAttempt(row, a), NEW receipt \in Receipts, NEW b
    PROVE  HasAttempt(SetupRow(row, a, receipt), b) <=> HasAttempt(row, b)
  <1>1. PICK new, set : /\ new = SetupRow(row, a, receipt)
                        /\ set = [AttemptOf(row, a) EXCEPT !.setup = receipt]
    OBVIOUS
  <1>2. AttemptOf(row, a) \in AttemptRows /\ AttemptOf(row, a).id = a
    BY AttemptOfFound
  <1>3. set.id = a
    BY <1>1, <1>2 DEF AttemptRows
  <1>4. new.attempts = [i \in DOMAIN row.attempts |->
                          IF row.attempts[i].id = a THEN set ELSE row.attempts[i]]
    BY <1>1, SetupRowType
  <1>5. /\ DOMAIN new.attempts = DOMAIN row.attempts
        /\ \A i \in DOMAIN row.attempts : new.attempts[i].id = row.attempts[i].id
    BY <1>3, <1>4
  <1> QED
    BY <1>1, <1>5 DEF HasAttempt

\* The row under a decision stays but for the receipt, while its attempt is active.
LEMMA DecidedRowStays ==
    ASSUME RInv, DecisionsSound, [Next]_vars, NEW d \in finDecisions,
           IsActive(AttemptOf(tasks'[d.id.request.task], d.id.request.attempt))
    PROVE  WithReceiptOf(tasks'[d.id.request.task], d.id.request.attempt, d.id.pre) = d.id.pre
  <1>1. PICK t, a, s : /\ t = d.id.request.task /\ a = d.id.request.attempt
                       /\ s = AttemptOf(d.id.pre, a).setup
    OBVIOUS
  <1>2. /\ t \in TaskIds /\ Exists(t) /\ HasAttempt(tasks[t], a)
        /\ tasks[t] \in TaskRows /\ ValidRow(tasks[t]) /\ UniqueIds(tasks[t])
        /\ d.id.pre \in TaskRows
    BY <1>1, DecisionNames
  <1>3. IsActive(AttemptOf(tasks[t], a))
    BY <1>1, <1>2, ActiveBefore DEF RInv
  <1>4. SetupRow(tasks[t], a, s) = d.id.pre
    BY <1>1, <1>3 DEF DecisionsSound, Sound, WithReceiptOf
  <1>5. ActiveIn(tasks[t]) # {}
    BY <1>2, <1>3, ActiveFound
  <1>6. ASSUME tasks'[t] # tasks[t]
        PROVE  Carried(t)
    BY <1>2, <1>5, <1>6, RowMoves DEF RInv
  <1>7. ASSUME NEW p \in Procs, SetupSave(p), local[p].task = t
        PROVE  SetupRow(tasks'[t], a, s) = d.id.pre
    <2>1. PICK r : r = local[p].receipt
      OBVIOUS
    <2>2. /\ local[p].at = "setup_save"
          /\ Save(t, SetupRow(tasks[t], local[p].attempt, r))
      BY <1>7, <2>1 DEF SetupSave
    <2>3. /\ HasAttempt(tasks[t], local[p].attempt)
          /\ IsActive(AttemptOf(tasks[t], local[p].attempt))
      BY <1>7, <2>2 DEF RInv, IInv, InHand, InHandOf
    <2>4. local[p].attempt = a
      BY <1>2, <1>3, <2>3, OnlyActive
    <2>5. tasks'[t] = SetupRow(tasks[t], a, r)
      BY <1>2, <2>2, <2>4 DEF Save, RInv, IInv, TypeOK
    <2>6. r \in Receipts
      BY <2>1, <2>2, LocalFields DEF RInv, IInv, TypeOK
    <2>7. s \in Receipts
      <3>1. AttemptOf(d.id.pre, a) \in AttemptRows
        BY <1>1, <1>2, AttemptOfFound DEF DecisionsSound, Sound
      <3> QED
        BY <1>1, <3>1 DEF AttemptRows
    <2> QED
      BY <1>2, <1>4, <2>5, <2>6, <2>7, LastReceipt
  <1>8. ASSUME NEW p \in Procs, FinishSave(p), local[p].request.id.task = t
        PROVE  FALSE
    <2>1. PICK b : b = local[p].request.id.attempt
      OBVIOUS
    <2>2. /\ IsActive(AttemptOf(tasks[t], b)) /\ HasAttempt(tasks[t], b)
          /\ ~IsActive(AttemptOf(tasks'[t], b))
      BY <1>8, <2>1, FinishSaveEnds DEF RInv
    <2>3. a = b
      BY <1>2, <1>3, <2>2, OnlyActive
    <2> QED
      BY <1>1, <2>2, <2>3
  <1>9. SetupRow(tasks'[t], a, s) = d.id.pre
    BY <1>4, <1>6, <1>7, <1>8 DEF Carried
  <1> QED
    BY <1>1, <1>9 DEF WithReceiptOf

LEMMA DecisionsSoundStep ==
    ASSUME DInv, [Next]_vars
    PROVE  DecisionsSound'
  <1> DEFINE Sound2(d) ==
        /\ \E q \in finRequests' : q.id = d.id.request
        /\ HasAttempt(d.id.pre, d.id.request.attempt)
        /\ InOrder(d.id.pre, d.id.request.attempt, d.body.ended) => ValidRow(d.body.post)
        /\ \A a \in AttemptIds : HasAttempt(d.body.post, a) <=> HasAttempt(d.id.pre, a)
        /\ IsActive(AttemptOf(tasks'[d.id.request.task], d.id.request.attempt)) =>
              WithReceiptOf(tasks'[d.id.request.task], d.id.request.attempt, d.id.pre) = d.id.pre
  <1>1. finRequests \subseteq finRequests'
    <2>1. ASSUME NEW p \in Procs, FinishCall(p)
          PROVE  finRequests \subseteq finRequests'
      <3>1. PICK t \in TaskIds, a \in AttemptIds, fid \in Finalizations, actor \in Actors,
                 status \in TerminalStatuses, summary \in Notes :
                   FinishRequest(p, t, a, fid, actor, status, summary)
        BY <2>1 DEF FinishCall
      <3>2. \E new : finRequests' = finRequests \cup {new}
        BY ONLY <3>1, Zenon DEF FinishRequest
      <3> QED
        BY <3>2
    <2> QED
      BY <2>1, Writers
  <1>2. ASSUME NEW d \in finDecisions
        PROVE  Sound2(d)
    <2>1. IsActive(AttemptOf(tasks'[d.id.request.task], d.id.request.attempt)) =>
              WithReceiptOf(tasks'[d.id.request.task], d.id.request.attempt, d.id.pre) = d.id.pre
      BY DecidedRowStays DEF DInv
    <2>2. Sound(d)
      BY Zenon DEF DInv, DecisionsSound
    <2> QED
      BY <1>1, <2>1, <2>2 DEF Sound
  <1>3. ASSUME NEW p \in Procs, FinishDecide(p), NEW d, d = Decision(local[p].request.id.task, local[p].request)
        PROVE  Sound2(d)
    <2>1. PICK q, t : q = local[p].request /\ t = q.id.task
      OBVIOUS
    <2>2. /\ local[p].at = "fin_decide" /\ IsActive(AttemptOf(tasks[t], q.id.attempt))
          /\ tasks' = tasks
      BY <1>3, <2>1 DEF FinishDecide
    <2>3. /\ q \in FinRequestRows /\ q \in finRequests /\ Exists(t)
          /\ HasAttempt(tasks[t], q.id.attempt) /\ UniqueIds(tasks[t]) /\ tasks[t] \in TaskRows
      BY <2>1, <2>2, FinishInHand DEF DInv, RInv
    <2>4. /\ d.id.request = q.id /\ d.id.pre = tasks[t]
          /\ d.body.ended = clock /\ d.body.post = TerminalRow(t, q, clock)
      BY <1>3, <2>1 DEF Decision, Event
    <2>5. clock \in Nat
      BY DEF DInv, RInv, IInv, TypeOK
    <2>6. InOrder(d.id.pre, q.id.attempt, d.body.ended) => ValidRow(d.body.post)
      <3>1. PICK now \in Nat : ValidRow(TerminalRow(t, q, now))
        BY <2>1, <2>2 DEF DInv, Ripe
      <3>2. IInv
        BY DEF DInv, RInv
      <3> QED
        BY <2>1, <2>3, <2>4, <2>5, <3>1, <3>2, TerminalLater
    <2>7. \A a \in AttemptIds : HasAttempt(d.body.post, a) <=> HasAttempt(d.id.pre, a)
      BY <2>1, <2>3, <2>4, <2>5, TerminalNames DEF DInv, RInv
    <2>8. WithReceiptOf(tasks'[t], q.id.attempt, d.id.pre) = d.id.pre
      BY <2>2, <2>3, <2>4, OwnReceipt
    <2> QED
      BY <1>1, <2>1, <2>2, <2>3, <2>4, <2>6, <2>7, <2>8, Zenon
  <1>4. \A d \in finDecisions' : d \in finDecisions
            \/ \E p \in Procs : FinishDecide(p) /\ d = Decision(local[p].request.id.task, local[p].request)
    BY Writers DEF FinishDecide
  <1>5. \A d \in finDecisions' : Sound2(d)
    BY <1>2, <1>3, <1>4
  <1> QED
    BY <1>5 DEF DecisionsSound, Sound, InOrder, WithReceiptOf

LEMMA DecisionsStandNow ==
    ASSUME DInv
    PROVE  DecisionStands
  <1> SUFFICES ASSUME NEW d \in finDecisions, NEW t, t = d.id.request.task,
                      NEW a, a = d.id.request.attempt, IsActive(AttemptOf(tasks[t], a))
               PROVE  /\ SetupRow(tasks[t], a, AttemptOf(d.id.pre, a).setup) = d.id.pre
                      /\ d.body.ended >= AttemptOf(d.id.pre, a).started
                            /\ d.body.ended >= d.id.pre.created =>
                              ValidState([tasks EXCEPT ![t] = d.body.post])
    BY DEF DecisionStands
  <1>1. Sound(d)
    BY DEF DInv, DecisionsSound
  <1>2. /\ t \in TaskIds /\ tasks[t] # NoTask /\ HasAttempt(tasks[t], a)
        /\ tasks[t] \in TaskRows /\ d.id.pre \in TaskRows
    BY DecisionNames DEF DInv, Exists
  <1>3. SetupRow(tasks[t], a, AttemptOf(d.id.pre, a).setup) = d.id.pre
    BY <1>1 DEF Sound, WithReceiptOf
  <1>4. AttemptOf(d.id.pre, a).setup \in Receipts
    <2>1. AttemptOf(d.id.pre, a) \in AttemptRows
      BY <1>1, <1>2, AttemptOfFound DEF Sound
    <2> QED
      BY <2>1 DEF AttemptRows
  <1>5. \A b \in AttemptIds : HasAttempt(d.body.post, b) <=> HasAttempt(tasks[t], b)
    <2>1. \A b : HasAttempt(d.id.pre, b) <=> HasAttempt(tasks[t], b)
      BY <1>2, <1>3, <1>4, ReceiptNames
    <2> QED
      BY <1>1, <2>1 DEF Sound
  <1>6. ASSUME d.body.ended >= AttemptOf(d.id.pre, a).started, d.body.ended >= d.id.pre.created
        PROVE  ValidState([tasks EXCEPT ![t] = d.body.post])
    <2>1. ValidRow(d.body.post)
      BY <1>1, <1>6 DEF Sound, InOrder
    <2>2. PICK store : store = [tasks EXCEPT ![t] = d.body.post]
      OBVIOUS
    <2>3. /\ store[t] = d.body.post /\ \A s \in TaskIds : s # t => store[s] = tasks[s]
      BY <1>2, <2>2 DEF DInv, RInv, IInv, TypeOK
    <2>4. ValidState(tasks)
      BY DEF DInv, RInv, IInv
    <2>5. \A s \in TaskIds : store[s] # NoTask => ValidRow(store[s])
      BY <2>1, <2>3, <2>4 DEF ValidState
    <2>6. \A s \in TaskIds, b \in AttemptIds :
              store[s] # NoTask /\ HasAttempt(store[s], b) => tasks[s] # NoTask /\ HasAttempt(tasks[s], b)
      BY <1>2, <1>5, <2>3
    <2>7. ValidState(store)
      BY <2>4, <2>5, <2>6 DEF ValidState
    <2> QED
      BY <2>2, <2>7
  <1> QED
    BY <1>3, <1>6

\* finish_task: whatever dies, retries and races with it, only another setup
\* receipt overtakes a durable decision of an active attempt, and the store
\* accepts the row it leads to unless the attempt would end before it began.
THEOREM DecisionAlwaysStands == Spec => []DecisionStands
  <1>1. Init => Ripe /\ DecisionsSound
    BY DEF Init, Ripe, DecisionsSound
  <1>2. ASSUME DInv, [Next]_vars
        PROVE  (Ripe /\ DecisionsSound)'
    BY <1>2, RipeStep, DecisionsSoundStep DEF DInv, RInv
  <1>3. DInv => DecisionStands
    BY DecisionsStandNow
  <1> QED
    BY <1>1, <1>2, <1>3, RInvHolds, PTL DEF Spec, DInv

-----------------------------------------------------------------------------
(***************************************************************************)
(* set_task_runtime_status: a task that is not executing can be inspected. *)
(* A request is found by the rows before and after it, so the inspection   *)
(* is sound only if a row never comes back: attempts are only added, and   *)
(* between two attempts the time of the row grows, unless a transition was *)
(* decided at or before the time of the row it replaced.  So what keeps a  *)
(* task inspectable is an invariant under that condition, task by task.    *)
(***************************************************************************)
\* Row old was a row of the task before row new was.
Before(old, new) ==
    \/ Len(old.attempts) < Len(new.attempts)
    \/ old.attempts = new.attempts /\ old.updated < new.updated

Past(old, new) == old = new \/ Before(old, new)

\* The row a request was made on is not the row of its task any more.
Gone(id) ==
    Exists(id.task) /\ ActiveIn(id.pre) = {} /\ Before(id.pre, tasks[id.task])

\* Every request was made on a row of its task without an active attempt.
RequestsSeen ==
    \A q \in trRequests : Exists(q.id.task) /\ ActiveIn(q.id.pre) = {}

\* A decision belongs to a request, keeps the attempts, and is alone under its
\* identity.
DecisionsOwned ==
    /\ \A d \in trDecisions :
          /\ \E q \in trRequests : q.id = d.id.request
          /\ d.body.post.attempts = d.id.pre.attempts
    /\ \A d, e \in trDecisions : d.id = e.id => d = e

\* Whoever is about to decide holds the request of the current row.
DecidingInHand ==
    \A p \in Procs : local[p].at = "tr_decide" =>
        LET now == tasks[local[p].request.id.task]
        IN  /\ local[p].request.id.pre = now
            /\ local[p].next.attempts = now.attempts

BInv == RInv /\ RequestsSeen /\ DecisionsOwned /\ DecidingInHand

\* Every transition of task t was decided later than the row it replaced.
InTime(t) ==
    \A d \in trDecisions : d.id.request.task = t => d.id.pre.updated < d.body.post.updated

\* What holds of a task whose transitions are in time.
\* Every request was made on a row the task has or had.
RequestsPast(t) == \A q \in trRequests : q.id.task = t => Past(q.id.pre, tasks[t])

\* A decision is pending on the row it was taken on, or leads to a row the task
\* has or had.
DecisionsPast(t) ==
    \A d \in trDecisions : d.id.request.task = t =>
        d.id.pre = tasks[t] \/ Past(d.body.post, tasks[t])

\* The request of an event, in the ledger or in hand, has been applied.
EventsGone(t) ==
    /\ \A e \in trEvents : e.body.request.task = t => Gone(e.body.request)
    /\ \A p \in Procs :
          local[p].at = "tr_append" /\ local[p].event.body.request.task = t =>
              Gone(local[p].event.body.request)

\* The task has one unfinished request.
OneUnfinished(t) == \A q, r \in Unfinished(t) : q = r

InPast(t) == RequestsPast(t) /\ DecisionsPast(t) /\ EventsGone(t) /\ OneUnfinished(t)

TInv == BInv /\ \A t \in TaskIds : InTime(t) => InPast(t)

LEMMA BeforeDiffers ==
    ASSUME NEW old \in TaskRows, NEW new \in TaskRows, Before(old, new)
    PROVE  old # new
  BY AttemptsAreRows DEF Before, TaskRows

\* The types of what the transition families hold.
LEMMA TransitionTypes ==
    ASSUME BInv
    PROVE  /\ \A q \in trRequests :
                /\ q.id.task \in TaskIds /\ Exists(q.id.task) /\ q.id.pre \in TaskRows
                /\ tasks[q.id.task] \in TaskRows
           /\ \A d \in trDecisions :
                /\ d.id.request.task \in TaskIds /\ Exists(d.id.request.task)
                /\ tasks[d.id.request.task] \in TaskRows
                /\ d.id.pre \in TaskRows /\ d.body.post \in TaskRows
                /\ ActiveIn(d.id.pre) = {} /\ ActiveIn(d.body.post) = {}
                /\ d.id = [request |-> d.id.request, pre |-> d.id.request.pre]
           /\ \A e \in trEvents :
                e.body.request.task \in TaskIds /\ e.body.request.pre \in TaskRows
  <1>1. \A q \in trRequests : /\ q.id.task \in TaskIds /\ Exists(q.id.task)
                              /\ q.id.pre \in TaskRows
    BY DEF BInv, RInv, IInv, TypeOK, TrRequestRows, TrRequestIds, RequestsSeen
  <1>2. \A t \in TaskIds : Exists(t) => tasks[t] \in TaskRows
    BY RowThere DEF BInv, RInv, IInv
  <1>3. ASSUME NEW d \in trDecisions
        PROVE  /\ d.id.request.task \in TaskIds /\ Exists(d.id.request.task)
               /\ d.id.pre \in TaskRows /\ d.body.post \in TaskRows
               /\ ActiveIn(d.id.pre) = {} /\ ActiveIn(d.body.post) = {}
               /\ d.id = [request |-> d.id.request, pre |-> d.id.request.pre]
    <2>1. PICK q \in trRequests : q.id = d.id.request
      BY DEF BInv, DecisionsOwned
    <2>2. d.id.pre = q.id.pre
      BY <2>1 DEF BInv, RInv, TransitionsAllowed
    <2>3. d.id \in TrDecisionIds /\ d.body.post \in TaskRows
      BY DEF BInv, RInv, IInv, TypeOK, TrDecisionRows
    <2>4. d.id = [request |-> d.id.request, pre |-> d.id.pre]
      BY <2>3 DEF TrDecisionIds
    <2>5. ActiveIn(d.id.pre) = {}
      BY <2>2 DEF BInv, RequestsSeen
    <2>6. d.body.post.attempts = d.id.pre.attempts
      BY DEF BInv, DecisionsOwned
    <2>7. ActiveIn(d.body.post) = {}
      BY <2>5, <2>6 DEF ActiveIn
    <2> QED
      BY <1>1, <2>1, <2>2, <2>3, <2>4, <2>5, <2>7
  <1>4. \A e \in trEvents : e.body.request.task \in TaskIds /\ e.body.request.pre \in TaskRows
    BY DEF BInv, RInv, IInv, TypeOK, TrEventRows, TrRequestIds
  <1> QED
    BY <1>1, <1>2, <1>3, <1>4

\* A row a task has or had never comes back while its transitions are in time.
LEMMA PastMoves ==
    ASSUME BInv, [Next]_vars, NEW t \in TaskIds, InTime(t), Exists(t),
           tasks'[t] # tasks[t],
           NEW old \in TaskRows, ActiveIn(old) = {}, Past(old, tasks[t])
    PROVE  Before(old, tasks'[t])
  <1>1. PICK now, new : now = tasks[t] /\ new = tasks'[t]
    OBVIOUS
  <1>2. HistoryKept /\ TypeOK'
    BY IInvStep DEF BInv, RInv, IInv
  <1>3. now \in TaskRows /\ new \in TaskRows
    BY <1>1, <1>2, RowThere DEF BInv, RInv, IInv, HistoryKept, TypeOK
  <1>4. /\ Len(old.attempts) \in Nat /\ Len(now.attempts) \in Nat /\ Len(new.attempts) \in Nat
        /\ old.updated \in Nat /\ now.updated \in Nat /\ new.updated \in Nat
    BY <1>3, AttemptsAreRows DEF TaskRows
  <1>5. \/ old.attempts = now.attempts /\ old.updated <= now.updated
        \/ Len(old.attempts) < Len(now.attempts)
    BY <1>1, <1>4 DEF Past, Before
  <1>6. CASE Len(new.attempts) = Len(now.attempts) + 1
    BY <1>1, <1>4, <1>5, <1>6 DEF Before
  <1>7. CASE ActiveIn(now) # {} /\ Len(new.attempts) = Len(now.attempts)
    <2>1. old.attempts # now.attempts
      BY <1>7 DEF ActiveIn
    <2> QED
      BY <1>1, <1>4, <1>5, <1>7, <2>1 DEF Before
  <1>8. CASE new.attempts = now.attempts /\ Moved(t)
    <2>1. PICK p \in Procs : /\ TransitionApply(p) /\ local[p].request.id.task = t
                             /\ now = local[p].decision.id.pre
                             /\ new = local[p].decision.body.post
      BY <1>1, <1>8 DEF Moved
    <2>2. local[p].decision \in trDecisions /\ local[p].decision.id.request.task = t
      BY <2>1 DEF TransitionApply, BInv, RInv, IInv, InHand, InHandOf
    <2>3. now.updated < new.updated
      BY <2>1, <2>2 DEF InTime
    <2> QED
      BY <1>1, <1>4, <1>5, <1>8, <2>3 DEF Before
  <1> QED
    BY <1>1, <1>6, <1>7, <1>8, RowMoves DEF BInv, RInv

LEMMA GoneStays ==
    ASSUME BInv, [Next]_vars, NEW id, id.task \in TaskIds, id.pre \in TaskRows,
           InTime(id.task), Gone(id)
    PROVE  Gone(id)'
  <1>1. HistoryKept
    BY IInvStep DEF BInv, RInv
  <1>2. Exists(id.task)'
    BY <1>1 DEF HistoryKept, Gone, Exists
  <1>3. Before(id.pre, tasks'[id.task])
    BY PastMoves DEF Gone, Past
  <1>4. ActiveIn(id.pre) = {}
    BY DEF Gone
  <1> QED
    BY <1>2, <1>3, <1>4 DEF Gone, ActiveIn, Before

\* A call that asks for a transition, what it has seen of the requests that are
\* the same, and the request it takes up.
Asks(p, t, fresh, same, request) ==
    /\ fresh.id.task = t /\ fresh.id.pre = tasks[t]
    /\ same = {q \in CurrentRequests(t) : Desired(q) = Desired(fresh)}
    /\ (same = {} /\ request = fresh) \/ request \in same
    /\ UNCHANGED <<tasks, trDecisions, trEvents>>
    /\ Exists(t) /\ ActiveIn(tasks[t]) = {}
    /\ \A q \in Unfinished(t) : q \in same
    /\ \A q, r \in same : q = r
    /\ \/ /\ trRequests' = trRequests
          /\ \E d : Goto(p, [at |-> "tr_apply", request |-> request, decision |-> d])
       \/ /\ \A d \in trDecisions, q \in same : d.id.request # q.id
          /\ trRequests' = trRequests \cup {request}
          /\ \E actor \in Actors, status \in TransitionStatuses, summary \in Notes :
                Goto(p, [at |-> "tr_decide", request |-> request,
                         next |-> TransitionedRow(tasks[t], actor, status, summary, clock)])

LEMMA TransitionAsks ==
    ASSUME NEW p \in Procs, TransitionCall(p)
    PROVE  \E t, fresh, same, request : t \in TaskIds /\ Asks(p, t, fresh, same, request)
  <1>0. PICK t \in TaskIds, actor \in Actors, status \in TransitionStatuses,
             summary \in Notes : TransitionRequest(p, t, actor, status, summary)
    BY DEF TransitionCall
  <1>1. PICK fresh, same, decided, updated :
            /\ fresh = Event(Requested(t, actor, status, summary, tasks[t]), [owner |-> actor])
            /\ same = {q \in CurrentRequests(t) : Desired(q) = Desired(fresh)}
            /\ decided = {d \in trDecisions : \E q \in same : d.id.request = q.id}
            /\ updated = TransitionedRow(tasks[t], actor, status, summary, clock)
    OBVIOUS
  <1>2. PICK request : request = IF same = {} THEN fresh ELSE CHOOSE q \in same : TRUE
    OBVIOUS
  <1>3. /\ Exists(t) /\ ActiveIn(tasks[t]) = {}
        /\ \A q \in Unfinished(t) : q \in same
        /\ \A q, r \in same : q = r
        /\ IF decided # {}
           THEN /\ Goto(p, [at |-> "tr_apply", request |-> request,
                            decision |-> CHOOSE d \in decided : TRUE])
                /\ UNCHANGED trRequests
           ELSE /\ trRequests' = trRequests \cup {request}
                /\ Goto(p, [at |-> "tr_decide", request |-> request, next |-> updated])
        /\ UNCHANGED <<tasks, trDecisions, trEvents>>
    BY ONLY <1>0, <1>1, <1>2 DEF TransitionRequest, Competing
  <1>4. (same = {} /\ request = fresh) \/ request \in same
    BY <1>2
  <1>5. decided = {} => \A d \in trDecisions, q \in same : d.id.request # q.id
    BY <1>1
  <1>6. fresh.id.task = t /\ fresh.id.pre = tasks[t]
    BY <1>1 DEF Event, Requested
  <1>7. Asks(p, t, fresh, same, request)
    BY <1>1, <1>3, <1>4, <1>5, <1>6 DEF Asks
  <1> QED
    BY <1>7

\* What a call asks for was made on a row of the task.
LEMMA AskedRequest ==
    ASSUME NEW p, NEW t, NEW fresh, NEW same, NEW request, Asks(p, t, fresh, same, request)
    PROVE  /\ same \subseteq trRequests
           /\ request.id.task = t
           /\ request \in trRequests \/ request.id.pre = tasks[t]
  BY DEF Asks, CurrentRequests

\* A request that is new in the ledger was made on the row of its task.
LEMMA NewRequest ==
    ASSUME BInv, [Next]_vars, NEW q \in trRequests', q \notin trRequests
    PROVE  /\ tasks' = tasks /\ q.id.task \in TaskIds /\ Exists(q.id.task)
           /\ q.id.pre = tasks[q.id.task] /\ ActiveIn(q.id.pre) = {}
  <1>1. PICK p \in Procs : TransitionCall(p)
    BY Carriers DEF BInv, RInv, IInv, TransitionCall
  <1>2. PICK t, fresh, same, request : t \in TaskIds /\ Asks(p, t, fresh, same, request)
    BY <1>1, TransitionAsks
  <1>3. q = request /\ tasks' = tasks /\ Exists(t) /\ ActiveIn(tasks[t]) = {}
    BY <1>2 DEF Asks
  <1>4. q.id.task = t /\ q.id.pre = tasks[t]
    BY <1>2, <1>3, AskedRequest
  <1> QED
    BY <1>2, <1>3, <1>4

LEMMA RequestsSeenStep ==
    ASSUME BInv, [Next]_vars
    PROVE  RequestsSeen'
  <1>1. ASSUME NEW q \in trRequests'
        PROVE  tasks'[q.id.task] # NoTask /\ ActiveIn(q.id.pre) = {}
    <2>1. CASE q \in trRequests
      <3>1. q.id.task \in TaskIds /\ Exists(q.id.task) /\ ActiveIn(q.id.pre) = {}
        BY <2>1, TransitionTypes DEF BInv, RequestsSeen
      <3>2. HistoryKept
        BY IInvStep DEF BInv, RInv
      <3> QED
        BY <3>1, <3>2 DEF HistoryKept
    <2>2. CASE q \notin trRequests
      BY <1>1, <2>2, NewRequest DEF Exists
    <2> QED
      BY <2>1, <2>2
  <1> QED
    BY <1>1 DEF RequestsSeen, Exists, ActiveIn

LEMMA RequestsPastStep ==
    ASSUME BInv, NEW t \in TaskIds, InTime(t), RequestsPast(t), [Next]_vars
    PROVE  RequestsPast(t)'
  <1>1. ASSUME NEW q \in trRequests', q.id.task = t
        PROVE  Past(q.id.pre, tasks'[t])
    <2>1. CASE q \in trRequests
      <3>1. /\ Exists(t) /\ q.id.pre \in TaskRows /\ ActiveIn(q.id.pre) = {}
            /\ Past(q.id.pre, tasks[t])
        BY <1>1, <2>1, TransitionTypes DEF BInv, RequestsSeen, RequestsPast
      <3> QED
        BY <3>1, PastMoves DEF Past
    <2>2. CASE q \notin trRequests
      BY <1>1, <2>2, NewRequest DEF Past
    <2> QED
      BY <2>1, <2>2
  <1> QED
    BY <1>1 DEF RequestsPast, Past, Before

\* The request a decision in the ledger is pending on, is unfinished.
LEMMA PendingUnfinished ==
    ASSUME BInv, NEW t \in TaskIds, EventsGone(t),
           NEW q \in trRequests, q.id.task = t, q.id.pre = tasks[t]
    PROVE  q \in Unfinished(t)
  <1>1. q \in CurrentRequests(t)
    BY DEF CurrentRequests
  <1>2. ~Owned(q)
    <2> SUFFICES ASSUME NEW e \in trEvents, e.body.request = q.id
                 PROVE  FALSE
      BY DEF Owned
    <2>1. Before(q.id.pre, tasks[t])
      BY DEF EventsGone, Gone
    <2> QED
      BY <2>1, BeforeDiffers, TransitionTypes
  <1> QED
    BY <1>1, <1>2 DEF Unfinished

\* A decision in the ledger stays pending on the row, or leads to one before.
LEMMA DecisionStays ==
    ASSUME BInv, NEW t \in TaskIds, InTime(t), InPast(t), [Next]_vars,
           NEW d \in trDecisions, d.id.request.task = t
    PROVE  d.id.pre = tasks'[t] \/ Past(d.body.post, tasks'[t])
  <1>1. PICK q \in trRequests : q.id = d.id.request
    BY DEF BInv, DecisionsOwned
  <1>2. /\ t \in TaskIds /\ Exists(t) /\ tasks[t] \in TaskRows /\ q.id.task = t
        /\ d.id.pre \in TaskRows /\ d.body.post \in TaskRows
        /\ ActiveIn(d.id.pre) = {} /\ ActiveIn(d.body.post) = {}
        /\ d.id = [request |-> d.id.request, pre |-> d.id.request.pre]
    BY <1>1, TransitionTypes
  <1>3. d.id.pre = q.id.pre
    BY <1>1, <1>2
  <1>4. d.body.post.attempts = d.id.pre.attempts
    BY DEF BInv, DecisionsOwned
  <1>5. CASE tasks'[t] = tasks[t]
    BY <1>5 DEF InPast, DecisionsPast
  <1>6. CASE tasks'[t] # tasks[t] /\ Past(d.body.post, tasks[t])
    BY <1>1, <1>2, <1>6, PastMoves DEF Past
  <1>7. CASE tasks'[t] # tasks[t] /\ d.id.pre = tasks[t]
    <2>1. CASE Len(tasks'[t].attempts) = Len(tasks[t].attempts) + 1
      <3>1. Len(tasks[t].attempts) \in Nat
        BY <1>2, AttemptsAreRows
      <3>2. Len(d.body.post.attempts) < Len(tasks'[t].attempts)
        BY <1>4, <1>7, <2>1, <3>1
      <3> QED
        BY <1>1, <3>2 DEF Past, Before
    <2>2. CASE Moved(t)
      <3>1. PICK p \in Procs :
                /\ TransitionApply(p) /\ local[p].request.id.task = t
                /\ tasks[t] = local[p].decision.id.pre /\ tasks'[t] = local[p].decision.body.post
        BY <2>2 DEF Moved
      <3>2. PICK r, e : r = local[p].request /\ e = local[p].decision
        OBVIOUS
      <3>3. local[p].at = "tr_apply"
        BY <3>1 DEF TransitionApply
      <3>4. r \in trRequests /\ e \in trDecisions /\ e.id.request = r.id
        BY <3>2, <3>3 DEF BInv, RInv, IInv, InHand, InHandOf
      <3>5. e.id = [request |-> e.id.request, pre |-> e.id.request.pre]
        BY <3>4, TransitionTypes
      <3>6. r.id.pre = tasks[t] /\ r.id.task = t
        BY <3>1, <3>2, <3>4, <3>5
      <3>7. r \in Unfinished(t) /\ q \in Unfinished(t)
        BY <1>1, <1>2, <1>3, <1>7, <3>4, <3>6, PendingUnfinished DEF InPast
      <3>8. q = r
        BY <3>7 DEF InPast, OneUnfinished
      <3>9. d.id = e.id
        BY <1>1, <1>2, <3>4, <3>5, <3>8
      <3>10. d = e
        BY <3>4, <3>9 DEF BInv, DecisionsOwned
      <3> QED
        BY <1>1, <3>1, <3>2, <3>10 DEF Past
    <2>3. ActiveIn(tasks[t]) = {}
      BY <1>2, <1>7
    <2> QED
      BY <1>2, <1>7, <2>1, <2>2, <2>3, RowMoves DEF BInv, RInv
  <1>8. d.id.pre = tasks[t] \/ Past(d.body.post, tasks[t])
    BY DEF InPast, DecisionsPast
  <1> QED
    BY <1>5, <1>6, <1>7, <1>8

\* The decision a process makes.
LEMMA DecisionMade ==
    ASSUME BInv, NEW p \in Procs, TransitionDecide(p)
    PROVE  \E d :
             /\ trDecisions' = trDecisions \cup {d} /\ MayAppend(trDecisions, d)
             /\ \E q \in trRequests : q.id = d.id.request
             /\ d.id.pre = d.id.request.pre
             /\ d.body.post.attempts = d.id.pre.attempts
             /\ d.id.pre = tasks[d.id.request.task]
             /\ tasks' = tasks /\ trRequests' = trRequests /\ trEvents' = trEvents
  <1>1. PICK my : my = local[p]
    OBVIOUS
  <1>2. PICK d : d = Event([request |-> my.request.id, pre |-> my.request.id.pre],
                           [updated |-> my.next.updated, post |-> my.next])
    OBVIOUS
  <1>3. /\ my.at = "tr_decide" /\ MayAppend(trDecisions, d)
        /\ trDecisions' = trDecisions \cup {d}
        /\ UNCHANGED <<tasks, trRequests, trEvents>>
    BY <1>1, <1>2 DEF TransitionDecide
  <1>4. my.request \in trRequests
    BY <1>1, <1>3 DEF BInv, RInv, IInv, InHand, InHandOf
  <1>5. /\ my.request.id.pre = tasks[my.request.id.task]
        /\ my.next.attempts = tasks[my.request.id.task].attempts
    BY <1>1, <1>3 DEF BInv, DecidingInHand
  <1>6. d.id.request = my.request.id /\ d.id.pre = my.request.id.pre /\ d.body.post = my.next
    BY <1>2 DEF Event
  <1> QED
    BY <1>3, <1>4, <1>5, <1>6

LEMMA DecisionsOwnedStep ==
    ASSUME BInv, [Next]_vars
    PROVE  DecisionsOwned'
  <1> DEFINE Good(d) == /\ \E q \in trRequests' : q.id = d.id.request
                        /\ d.body.post.attempts = d.id.pre.attempts
  <1>1. trRequests \subseteq trRequests'
    <2>1. ASSUME NEW p \in Procs, TransitionCall(p)
          PROVE  trRequests \subseteq trRequests'
      BY <2>1, TransitionAsks DEF Asks
    <2> QED
      BY <2>1, Carriers DEF BInv, RInv, IInv, TransitionCall
  <1>2. ASSUME NEW d \in trDecisions
        PROVE  Good(d)
    BY <1>1 DEF BInv, DecisionsOwned
  <1>3. CASE trDecisions' = trDecisions
    BY <1>2, <1>3 DEF BInv, DecisionsOwned
  <1>4. ASSUME NEW p \in Procs, TransitionDecide(p)
        PROVE  DecisionsOwned'
    <2>1. PICK new :
             /\ trDecisions' = trDecisions \cup {new} /\ MayAppend(trDecisions, new)
             /\ \E q \in trRequests : q.id = new.id.request
             /\ new.body.post.attempts = new.id.pre.attempts
      BY <1>4, DecisionMade
    <2>2. \A d \in trDecisions' : Good(d)
      BY <1>1, <1>2, <2>1
    <2>3. \A d, e \in trDecisions' : d.id = e.id => d = e
      BY <2>1 DEF BInv, DecisionsOwned, MayAppend
    <2> QED
      BY <2>2, <2>3 DEF DecisionsOwned
  <1> QED
    BY <1>3, <1>4, Carriers DEF BInv, RInv, IInv

\* Decisions stay in the ledger.
LEMMA InTimeBefore ==
    ASSUME BInv, [Next]_vars, NEW t \in TaskIds, InTime(t)'
    PROVE  InTime(t)
  <1>1. trDecisions \subseteq trDecisions'
    BY Carriers, DecisionMade DEF BInv, RInv, IInv
  <1> QED
    BY <1>1 DEF InTime

LEMMA DecisionsPastStep ==
    ASSUME BInv, NEW t \in TaskIds, InTime(t), InPast(t), [Next]_vars
    PROVE  DecisionsPast(t)'
  <1>1. ASSUME NEW d \in trDecisions', d.id.request.task = t
        PROVE  d.id.pre = tasks'[t] \/ Past(d.body.post, tasks'[t])
    <2>1. CASE d \in trDecisions
      BY <1>1, <2>1, DecisionStays
    <2>2. ASSUME NEW p \in Procs, TransitionDecide(p), d \notin trDecisions
          PROVE  d.id.pre = tasks'[t]
      BY <1>1, <2>2, DecisionMade
    <2> QED
      BY <2>1, <2>2, Carriers DEF BInv, RInv, IInv
  <1> QED
    BY <1>1 DEF DecisionsPast, Past, Before

\* The event of an applied transition names a request that is gone.
LEMMA AppliedGone ==
    ASSUME BInv, [Next]_vars, NEW t \in TaskIds, InTime(t), RequestsPast(t),
           NEW p \in Procs, TransitionApply(p), local'[p].event.body.request.task = t
    PROVE  \E id : local'[p].event.body.request = id /\ Gone(id)'
  <1>1. PICK q, d : q = local[p].request /\ d = local[p].decision
    OBVIOUS
  <1>2. /\ local[p].at = "tr_apply"
        /\ Goto(p, [at |-> "tr_append", event |-> TransitionEvent(q, d)])
        /\ \/ tasks[q.id.task] = d.id.pre /\ Save(q.id.task, d.body.post)
           \/ tasks[q.id.task] # d.id.pre /\ tasks' = tasks
    BY <1>1 DEF TransitionApply
  <1>3. local'[p].event.body.request = q.id /\ q.id.task = t
    BY <1>2 DEF Goto, TransitionEvent, Event, BInv, RInv, IInv, TypeOK
  <1>4. q \in trRequests /\ d \in trDecisions /\ d.id.request = q.id
    BY <1>1, <1>2 DEF BInv, RInv, IInv, InHand, InHandOf
  <1>5. /\ t \in TaskIds /\ Exists(t) /\ q.id.pre \in TaskRows /\ tasks[t] \in TaskRows
        /\ d.id.pre = q.id.pre /\ d.body.post \in TaskRows
    <2>1. /\ t \in TaskIds /\ Exists(t) /\ q.id.pre \in TaskRows /\ tasks[t] \in TaskRows
      BY <1>3, <1>4, TransitionTypes
    <2>2. d.body.post \in TaskRows
      BY <1>4, TransitionTypes
    <2>3. d.id.pre = q.id.pre
      BY <1>4 DEF BInv, RInv, TransitionsAllowed
    <2> QED
      BY <2>1, <2>2, <2>3
  <1>6. ActiveIn(q.id.pre) = {} /\ Past(q.id.pre, tasks[t])
    BY <1>3, <1>4 DEF BInv, RequestsSeen, RequestsPast
  <1>7. tasks'[t] # NoTask
    <2>1. HistoryKept
      BY IInvStep DEF BInv, RInv
    <2> QED
      BY <1>5, <2>1 DEF HistoryKept
  <1>8. Before(q.id.pre, tasks'[t])
    <2>1. CASE tasks[t] = d.id.pre /\ Save(t, d.body.post)
      <3>1. tasks'[t] = d.body.post
        BY <1>5, <2>1 DEF Save, BInv, RInv, IInv, TypeOK
      <3>2. d.body.post.attempts = d.id.pre.attempts
        BY <1>4 DEF BInv, DecisionsOwned
      <3>3. d.id.pre.updated < d.body.post.updated
        BY <1>3, <1>4 DEF InTime
      <3> QED
        BY <1>5, <3>1, <3>2, <3>3 DEF Before
    <2>2. CASE tasks[t] # d.id.pre /\ tasks' = tasks
      BY <1>5, <1>6, <2>2 DEF Past
    <2> QED
      BY <1>2, <1>3, <2>1, <2>2
  <1>9. PICK id : id = q.id
    OBVIOUS
  <1>10. Gone(id)'
    BY <1>3, <1>6, <1>7, <1>8, <1>9 DEF Gone, Exists, ActiveIn, Before
  <1> QED
    BY <1>3, <1>9, <1>10

LEMMA EventsGoneStep ==
    ASSUME BInv, NEW t \in TaskIds, InTime(t), InPast(t), [Next]_vars
    PROVE  EventsGone(t)'
  <1>1. ASSUME NEW e \in TrEventRows, e.body.request.task = t, Gone(e.body.request)
        PROVE  Gone(e.body.request)'
    <2>1. e.body.request.task \in TaskIds /\ e.body.request.pre \in TaskRows
      BY DEF TrEventRows, TrRequestIds
    <2> QED
      BY <1>1, <2>1, GoneStays
  <1>2. ASSUME NEW p \in Procs, local[p].at = "tr_append", local[p].event.body.request.task = t
        PROVE  local[p].event \in TrEventRows /\ Gone(local[p].event.body.request)
    BY <1>2, LocalFields DEF BInv, RInv, IInv, TypeOK, InPast, EventsGone
  <1>3. ASSUME NEW e \in trEvents', e.body.request.task = t
        PROVE  Gone(e.body.request)'
    <2>1. e \in TrEventRows /\ Gone(e.body.request)
      <3>1. CASE e \in trEvents
        BY <1>3, <3>1 DEF BInv, RInv, IInv, TypeOK, InPast, EventsGone
      <3>2. ASSUME NEW p \in Procs, TransitionAppend(p), e \notin trEvents
            PROVE  e \in TrEventRows /\ Gone(e.body.request)
        BY <1>2, <1>3, <3>2 DEF TransitionAppend
      <3> QED
        BY <3>1, <3>2, Entries DEF BInv, RInv, IInv
    <2> QED
      BY <1>1, <1>3, <2>1
  <1>4. ASSUME NEW p \in Procs, local'[p].at = "tr_append",
               NEW e, e = local'[p].event, e.body.request.task = t
        PROVE  Gone(e.body.request)'
    <2>1. CASE local'[p] = local[p]
      <3>1. e \in TrEventRows /\ Gone(e.body.request)
        BY <1>2, <1>4, <2>1
      <3> QED
        BY <1>1, <1>4, <3>1
    <2>2. CASE TransitionApply(p)
      <3>1. PICK id : e.body.request = id /\ Gone(id)'
        BY <1>4, <2>2, AppliedGone DEF InPast
      <3> QED
        BY <3>1
    <2>3. ASSUME NEW r \in Procs, FinishCall(r) \/ TransitionCall(r) \/ TransitionApply(r),
                 local'[p] # local[p]
          PROVE  TransitionApply(p)
      <3>1. CASE FinishCall(r)
        <4>1. PICK s \in TaskIds, a \in AttemptIds, fid \in Finalizations, actor \in Actors,
                   status \in TerminalStatuses, summary \in Notes :
                     FinishRequest(r, s, a, fid, actor, status, summary)
          BY <3>1 DEF FinishCall
        <4>2. \E q : Goto(r, [at |-> "fin_decide", request |-> q])
          BY ONLY <4>1, Zenon DEF FinishRequest
        <4> QED
          BY <1>4, <2>3, <4>2 DEF Goto, BInv, RInv, IInv, TypeOK
      <3>2. CASE TransitionCall(r)
        <4>1. PICK s, fresh, same, request : s \in TaskIds /\ Asks(r, s, fresh, same, request)
          BY <3>2, TransitionAsks
        <4>2. \/ \E q, d : Goto(r, [at |-> "tr_apply", request |-> q, decision |-> d])
              \/ \E q, n : Goto(r, [at |-> "tr_decide", request |-> q, next |-> n])
          BY <4>1 DEF Asks
        <4> QED
          BY <1>4, <2>3, <4>2 DEF Goto, BInv, RInv, IInv, TypeOK
      <3>3. CASE TransitionApply(r)
        BY <2>3, <3>3 DEF TransitionApply, Goto, BInv, RInv, IInv, TypeOK
      <3> QED
        BY <2>3, <3>1, <3>2, <3>3
    <2> QED
      BY <1>4, <2>1, <2>2, <2>3, Entries DEF Entered, BInv, RInv, IInv
  <1> QED
    BY <1>3, <1>4 DEF EventsGone

LEMMA DecidingInHandStep ==
    ASSUME BInv, [Next]_vars
    PROVE  DecidingInHand'
  <1> SUFFICES ASSUME NEW p \in Procs, local'[p].at = "tr_decide",
                      NEW my, my = local'[p], NEW now, now = tasks'[my.request.id.task]
               PROVE  /\ my.request.id.pre = now
                      /\ my.next.attempts = now.attempts
    BY DEF DecidingInHand
  <1>1. CASE local'[p] = local[p]
    <2>1. tasks' = tasks
      BY <1>1, HolderFreezesStore DEF LockedStages, BInv, RInv
    <2> QED
      BY <1>1, <2>1 DEF BInv, DecidingInHand
  <1>2. ASSUME NEW r \in Procs, FinishCall(r) \/ TransitionCall(r) \/ TransitionApply(r),
               local'[p] # local[p]
        PROVE  TransitionCall(p)
    <2>1. CASE FinishCall(r)
      <3>1. PICK t \in TaskIds, a \in AttemptIds, fid \in Finalizations, actor \in Actors,
                 status \in TerminalStatuses, summary \in Notes :
                   FinishRequest(r, t, a, fid, actor, status, summary)
        BY <2>1 DEF FinishCall
      <3>2. \E q : Goto(r, [at |-> "fin_decide", request |-> q])
        BY ONLY <3>1, Zenon DEF FinishRequest
      <3> QED
        BY <1>2, <3>2 DEF Goto, BInv, RInv, IInv, TypeOK
    <2>2. CASE TransitionApply(r)
      BY <1>2, <2>2 DEF TransitionApply, Goto, BInv, RInv, IInv, TypeOK
    <2>3. CASE TransitionCall(r)
      <3>1. PICK t, fresh, same, request : t \in TaskIds /\ Asks(r, t, fresh, same, request)
        BY <2>3, TransitionAsks
      <3>2. \E n : Goto(r, n)
        BY <3>1 DEF Asks
      <3>3. r = p
        BY <1>2, <3>2 DEF Goto, BInv, RInv, IInv, TypeOK
      <3> QED
        BY <2>3, <3>3
    <2> QED
      BY <1>2, <2>1, <2>2, <2>3
  <1>3. CASE TransitionCall(p) /\ local'[p] # local[p]
    <2>1. PICK t, fresh, same, request : t \in TaskIds /\ Asks(p, t, fresh, same, request)
      BY <1>3, TransitionAsks
    <2>2. /\ tasks' = tasks /\ Exists(t) /\ fresh.id.pre = tasks[t]
          /\ (same = {} /\ request = fresh) \/ request \in same
      BY <2>1 DEF Asks
    <2>3. /\ \A d \in trDecisions, q \in same : d.id.request # q.id
          /\ \E actor \in Actors, status \in TransitionStatuses, summary \in Notes :
                Goto(p, [at |-> "tr_decide", request |-> request,
                         next |-> TransitionedRow(tasks[t], actor, status, summary, clock)])
      <3>1. ~\E d : Goto(p, [at |-> "tr_apply", request |-> request, decision |-> d])
        BY DEF Goto, BInv, RInv, IInv, TypeOK
      <3> QED
        BY <2>1, <3>1 DEF Asks
    <2>4. PICK actor \in Actors, status \in TransitionStatuses, summary \in Notes :
             my = [at |-> "tr_decide", request |-> request,
                   next |-> TransitionedRow(tasks[t], actor, status, summary, clock)]
      BY <2>3 DEF Goto, BInv, RInv, IInv, TypeOK
    <2>5. my.request = request /\ my.next = TransitionedRow(tasks[t], actor, status, summary, clock)
      BY <2>4
    <2>6. request.id.task = t /\ now = tasks[t]
      <3>1. request.id.task = t
        BY <2>1, AskedRequest
      <3> QED
        BY <2>2, <2>5, <3>1
    <2>7. request.id.pre = tasks[t]
      <3>1. CASE request \in same
        <4>1. request \in CurrentRequests(t)
          BY <2>1, <3>1 DEF Asks
        <4>2. Post(request) = {}
          BY <2>3, <3>1 DEF Post, TrDecisionsFor
        <4> QED
          BY <4>1, <4>2 DEF CurrentRequests
      <3> QED
        BY <2>2, <3>1
    <2>8. my.next.attempts = tasks[t].attempts
      <3>1. tasks[t] \in TaskRows
        BY <2>1, <2>2, RowThere DEF BInv, RInv, IInv
      <3> QED
        BY <2>5, <3>1 DEF TransitionedRow, TaskRows
    <2> QED
      BY <2>5, <2>6, <2>7, <2>8
  <1> QED
    BY <1>1, <1>2, <1>3, Entries DEF Entered, BInv, RInv, IInv

LEMMA OneUnfinishedStep ==
    ASSUME BInv, NEW t \in TaskIds, InTime(t), InPast(t), [Next]_vars
    PROVE  OneUnfinished(t)'
  <1> SUFFICES ASSUME NEW q \in Unfinished(t)', NEW r \in Unfinished(t)'
               PROVE  q = r
    BY DEF OneUnfinished
  <1>1. ASSUME NEW u \in Unfinished(t)'
        PROVE  /\ u \in trRequests' /\ u.id.task = t
               /\ \/ tasks'[t] = u.id.pre
                  \/ \E d \in trDecisions' : d.id.request = u.id /\ tasks'[t] = d.body.post
               /\ \A e \in trEvents' : e.body.request # u.id
    BY <1>1 DEF Unfinished, CurrentRequests, Owned, Post, TrDecisionsFor
  <1>2. ASSUME NEW u \in trRequests, u.id.task = t, \A e \in trEvents : e.body.request # u.id,
               \/ tasks[t] = u.id.pre
               \/ \E d \in trDecisions : d.id.request = u.id /\ tasks[t] = d.body.post
        PROVE  u \in Unfinished(t)
    BY <1>2 DEF Unfinished, CurrentRequests, Owned, Post, TrDecisionsFor
  <1>3. trEvents \subseteq trEvents'
    BY Entries DEF TransitionAppend, BInv, RInv, IInv
  <1>4. CASE trRequests' = trRequests /\ trDecisions' = trDecisions /\ tasks'[t] = tasks[t]
    <2>1. ASSUME NEW u \in Unfinished(t)'
          PROVE  u \in Unfinished(t)
      BY <1>1, <1>2, <1>3, <1>4, <2>1
    <2> QED
      BY <2>1 DEF InPast, OneUnfinished
  <1>5. ASSUME tasks'[t] # tasks[t], trRequests' = trRequests, trDecisions' = trDecisions
        PROVE  q = r
    <2>1. ASSUME NEW u \in Unfinished(t)'
          PROVE  u \in Unfinished(t)
      <3>1. /\ u \in trRequests /\ u.id.task = t /\ \A e \in trEvents : e.body.request # u.id
        BY <1>1, <1>3, <1>5, <2>1
      <3>2. /\ Exists(t) /\ u.id.pre \in TaskRows /\ tasks[t] \in TaskRows
            /\ ActiveIn(u.id.pre) = {} /\ Past(u.id.pre, tasks[t])
        BY <3>1, TransitionTypes DEF BInv, RequestsSeen, InPast, RequestsPast
      <3>3. tasks'[t] \in TaskRows
        <4>1. TypeOK' /\ HistoryKept
          BY IInvStep DEF BInv, RInv, IInv
        <4> QED
          BY <3>2, <4>1 DEF TypeOK, HistoryKept
      <3>4. tasks'[t] # u.id.pre
        BY <1>5, <3>2, <3>3, PastMoves, BeforeDiffers
      <3>5. PICK d \in trDecisions : d.id.request = u.id /\ tasks'[t] = d.body.post
        BY <1>1, <1>5, <2>1, <3>4
      <3>6. /\ d.body.post \in TaskRows /\ ActiveIn(d.body.post) = {}
            /\ d.id.pre = u.id.pre
        BY <3>5, TransitionTypes DEF BInv, RInv, TransitionsAllowed
      <3>7. ~Past(d.body.post, tasks[t])
        BY <1>5, <3>2, <3>3, <3>5, <3>6, PastMoves, BeforeDiffers
      <3>8. d.id.pre = tasks[t]
        BY <3>1, <3>5, <3>7 DEF InPast, DecisionsPast
      <3> QED
        BY <1>2, <3>1, <3>6, <3>8
    <2> QED
      BY <2>1 DEF InPast, OneUnfinished
  <1>6. ASSUME NEW p \in Procs, TransitionDecide(p)
        PROVE  q = r
    <2>1. PICK new :
             /\ trDecisions' = trDecisions \cup {new}
             /\ new.id.pre = new.id.request.pre
             /\ new.id.pre = tasks[new.id.request.task]
             /\ tasks' = tasks /\ trRequests' = trRequests /\ trEvents' = trEvents
      BY <1>6, DecisionMade
    <2>2. ASSUME NEW u \in Unfinished(t)'
          PROVE  u \in Unfinished(t)
      <3>1. /\ u \in trRequests /\ u.id.task = t /\ \A e \in trEvents : e.body.request # u.id
        BY <1>1, <2>1, <2>2
      <3>2. CASE new.id.request = u.id
        BY <1>2, <2>1, <3>1, <3>2
      <3>3. CASE new.id.request # u.id
        BY <1>1, <1>2, <2>1, <2>2, <3>1, <3>3
      <3> QED
        BY <3>2, <3>3
    <2> QED
      BY <2>2 DEF InPast, OneUnfinished
  <1>7. ASSUME NEW p \in Procs, TransitionCall(p)
        PROVE  q = r
    <2>1. PICK s, fresh, same, request : s \in TaskIds /\ Asks(p, s, fresh, same, request)
      BY <1>7, TransitionAsks
    <2>2. /\ UNCHANGED <<tasks, trDecisions, trEvents>>
          /\ trRequests' = trRequests \/ trRequests' = trRequests \cup {request}
          /\ (same = {} /\ request = fresh) \/ request \in same
          /\ \A u \in Unfinished(s) : u \in same
          /\ \A u, v \in same : u = v
      BY <2>1 DEF Asks
    <2>3. same \subseteq trRequests /\ request.id.task = s
      BY <2>1, AskedRequest
    <2>4. ASSUME NEW u \in Unfinished(t)'
          PROVE  u \in Unfinished(t) \/ (u = request /\ s = t)
      BY <1>1, <1>2, <2>2, <2>3, <2>4
    <2>5. CASE s # t
      BY <2>4, <2>5 DEF InPast, OneUnfinished
    <2>6. CASE s = t
      <3>1. \A u \in Unfinished(t)' : u \in same \/ u = request
        BY <2>2, <2>4, <2>6
      <3> QED
        BY <2>2, <3>1
    <2> QED
      BY <2>5, <2>6
  <1> QED
    BY <1>4, <1>5, <1>6, <1>7, Carriers DEF BInv, RInv, IInv, TransitionCall

LEMMA InPastStep ==
    ASSUME BInv, NEW t \in TaskIds, InTime(t), InPast(t), [Next]_vars
    PROVE  InPast(t)'
  BY RequestsPastStep, DecisionsPastStep, EventsGoneStep, OneUnfinishedStep DEF InPast

LEMMA BInvHolds == Spec => []BInv
  <1> DEFINE Rest == RequestsSeen /\ DecisionsOwned /\ DecidingInHand
  <1>1. Init => Rest
    BY DEF Init, RequestsSeen, DecisionsOwned, DecidingInHand
  <1>2. ASSUME RInv, Rest, [Next]_vars
        PROVE  Rest'
    BY <1>2, RequestsSeenStep, DecisionsOwnedStep, DecidingInHandStep DEF BInv
  <1> QED
    BY <1>1, <1>2, RInvHolds, PTL DEF Spec, BInv

LEMMA TInvHolds == Spec => []TInv
  <1> DEFINE Rest == \A t \in TaskIds : InTime(t) => InPast(t)
  <1>1. Init => Rest
    BY DEF Init, InPast, RequestsPast, DecisionsPast, EventsGone, OneUnfinished, Unfinished,
           CurrentRequests
  <1>2. ASSUME BInv, Rest, [Next]_vars
        PROVE  Rest'
    <2>1. ASSUME NEW t \in TaskIds, InTime(t)'
          PROVE  InPast(t)'
      <3>1. InTime(t) /\ InPast(t)
        BY <1>2, <2>1, InTimeBefore
      <3> QED
        BY <1>2, <3>1, InPastStep
    <2> QED
      BY <2>1
  <1> QED
    BY <1>1, <1>2, BInvHolds, PTL DEF Spec, TInv

\* set_task_runtime_status: whatever dies and is retried, and wherever the clock
\* goes, the inspection of a task that is not executing can raise only if one of
\* its own transitions was decided no later than the row it replaced.
THEOREM TransitionsAlwaysInspectable == Spec => []TransitionsInspectable
  <1>1. ASSUME BInv, NEW t \in TaskIds, InPast(t)
        PROVE  ~InspectionRaises(t)
    <2>1. ASSUME NEW q \in CurrentRequests(t), Owned(q), tasks[t] \notin Post(q)
          PROVE  FALSE
      <3>1. q \in trRequests /\ q.id.task = t /\ q.id.pre = tasks[t]
        BY <2>1 DEF CurrentRequests
      <3>2. q \in Unfinished(t)
        BY <1>1, <3>1, PendingUnfinished DEF InPast
      <3> QED
        BY <2>1, <3>2 DEF Unfinished
    <2>2. \A q, r \in Unfinished(t) : q = r
      BY <1>1 DEF InPast, OneUnfinished
    <2> QED
      BY <2>1, <2>2 DEF InspectionRaises
  <1>2. ASSUME TInv, NEW t \in TaskIds, InspectionRaises(t)
        PROVE  \E d \in trDecisions :
                 d.id.request.task = t /\ d.body.post.updated <= d.id.pre.updated
    <2>1. ~InTime(t)
      BY <1>1, <1>2 DEF TInv
    <2>2. PICK d \in trDecisions :
             d.id.request.task = t /\ ~(d.id.pre.updated < d.body.post.updated)
      BY <2>1 DEF InTime
    <2>3. d.id.pre \in TaskRows /\ d.body.post \in TaskRows
      BY <1>2, TransitionTypes DEF TInv
    <2>4. d.id.pre.updated \in Nat /\ d.body.post.updated \in Nat
      BY <2>3 DEF TaskRows
    <2> QED
      BY <2>2, <2>4
  <1>3. TInv => TransitionsInspectable
    BY <1>2 DEF TransitionsInspectable
  <1> QED
    BY <1>3, TInvHolds, PTL
=============================================================================
