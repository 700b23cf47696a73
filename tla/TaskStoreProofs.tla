--------------------------- MODULE TaskStoreProofs ---------------------------
(***************************************************************************)
(* Lemmas about the row operations of the task store: what each of them    *)
(* returns, and what it keeps of the attempts already in the row.          *)
(***************************************************************************)
EXTENDS TaskStore, SequenceTheorems, TLAPS

\* The attempts of a row before and after an operation: same length, same
\* identities, owners and starts, and nothing of an ended attempt changed.
SameAttempts(old, new) ==
    /\ DOMAIN new.attempts = DOMAIN old.attempts
    /\ \A i \in DOMAIN old.attempts :
         IF IsActive(old.attempts[i])
         THEN /\ new.attempts[i].id = old.attempts[i].id
              /\ new.attempts[i].actor = old.attempts[i].actor
              /\ new.attempts[i].started = old.attempts[i].started
         ELSE new.attempts[i] = old.attempts[i]

UniqueIds(row) ==
    \A i, j \in DOMAIN row.attempts : row.attempts[i].id = row.attempts[j].id => i = j

LEMMA AttemptsAreRows ==
    ASSUME NEW row \in TaskRows
    PROVE  /\ Len(row.attempts) \in Nat
           /\ DOMAIN row.attempts = 1..Len(row.attempts)
           /\ \A i \in DOMAIN row.attempts : row.attempts[i] \in AttemptRows
  BY DEF TaskRows

\* A row the store accepts names an attempt once.
LEMMA ValidRowUniqueIds ==
    ASSUME NEW row \in TaskRows, ValidRow(row)
    PROVE  UniqueIds(row)
  BY AttemptsAreRows DEF ValidRow, UniqueIds

\* A look-up by identity finds an attempt of the row with that identity.
LEMMA AttemptOfFound ==
    ASSUME NEW row \in TaskRows, NEW a, HasAttempt(row, a)
    PROVE  /\ AttemptOf(row, a) \in AttemptRows
           /\ AttemptOf(row, a).id = a
           /\ \E i \in DOMAIN row.attempts : row.attempts[i] = AttemptOf(row, a)
  BY AttemptsAreRows DEF HasAttempt, AttemptOf

\* In a row without repeated identities the look-up finds the one attempt.
LEMMA AttemptOfUnique ==
    ASSUME NEW row, UniqueIds(row), NEW i \in DOMAIN row.attempts
    PROVE  /\ HasAttempt(row, row.attempts[i].id)
           /\ AttemptOf(row, row.attempts[i].id) = row.attempts[i]
  BY DEF UniqueIds, HasAttempt, AttemptOf

\* _replace_attempt on an attempt of the row: the attempts keep their places.
LEMMA ReplaceAttemptType ==
    ASSUME NEW row \in TaskRows, NEW attempt \in AttemptRows
    PROVE  /\ ReplaceAttempt(row, attempt) \in TaskRows
           /\ ReplaceAttempt(row, attempt).attempts =
                [i \in DOMAIN row.attempts |->
                   IF row.attempts[i].id = attempt.id THEN attempt ELSE row.attempts[i]]
  <1> DEFINE new == [i \in DOMAIN row.attempts |->
                      IF row.attempts[i].id = attempt.id THEN attempt ELSE row.attempts[i]]
  <1>1. new \in Seq(AttemptRows)
    <2>1. new \in [1..Len(row.attempts) -> AttemptRows]
      BY AttemptsAreRows
    <2> QED
      BY <2>1, AttemptsAreRows, SeqDef
  <1>2. ReplaceAttempt(row, attempt) = [row EXCEPT !.attempts = new]
    BY DEF ReplaceAttempt
  <1> HIDE DEF new
  <1> QED
    BY <1>1, <1>2 DEF TaskRows, new

LEMMA NewRowType ==
    ASSUME NEW title \in Notes, NEW now \in Nat
    PROVE  NewRow(title, now) \in TaskRows /\ NewRow(title, now).attempts = <<>>
  BY DEF NewRow, TaskRows, TaskStatuses

LEMMA NewAttemptType ==
    ASSUME NEW a \in AttemptIds, NEW actor \in Actors, NEW now \in Nat
    PROVE  NewAttempt(a, actor, now) \in AttemptRows
  BY InitReceiptAssumption DEF NewAttempt, AttemptRows, AttemptStatuses

\* start_task appends the attempt and keeps the history.
LEMMA StartedRowType ==
    ASSUME NEW row \in TaskRows, NEW attempt \in AttemptRows
    PROVE  /\ StartedRow(row, attempt) \in TaskRows
           /\ StartedRow(row, attempt).attempts = Append(row.attempts, attempt)
  <1>1. Append(row.attempts, attempt) \in Seq(AttemptRows)
    BY DEF TaskRows
  <1>2. attempt.started \in Nat /\ attempt.actor \in Actors
    BY DEF AttemptRows
  <1> QED
    BY <1>1, <1>2 DEF StartedRow, TaskRows, TaskStatuses

\* finish_task ends the attempts named by the request and keeps the others.
LEMMA FinishedRowType ==
    ASSUME NEW row \in TaskRows, NEW a, HasAttempt(row, a), NEW actor \in Actors,
           NEW status \in TerminalStatuses, NEW summary \in Notes, NEW ended \in Nat
    PROVE  /\ FinishedRow(row, a, actor, status, summary, ended) \in TaskRows
           /\ FinishedRow(row, a, actor, status, summary, ended).attempts =
                [i \in DOMAIN row.attempts |->
                   IF row.attempts[i].id = a
                   THEN FinishedAttempt(AttemptOf(row, a), status, summary, ended)
                   ELSE row.attempts[i]]
  <1> DEFINE done == FinishedAttempt(AttemptOf(row, a), status, summary, ended)
  <1>1. done \in AttemptRows /\ done.id = a
    <2> DEFINE old == AttemptOf(row, a)
    <2>1. old \in AttemptRows /\ old.id = a
      BY AttemptOfFound
    <2>2. status \in AttemptStatuses
      BY DEF TerminalStatuses
    <2> HIDE DEF old
    <2>3. /\ FinishedAttempt(old, status, summary, ended) \in AttemptRows
          /\ FinishedAttempt(old, status, summary, ended).id = a
      BY <2>1, <2>2 DEF FinishedAttempt, AttemptRows
    <2> QED
      BY <2>3 DEF old
  <1>2. TerminalTaskStatus(status) \in TaskStatuses
    BY DEF TerminalTaskStatus, TaskStatuses
  <1> HIDE DEF done
  <1>3. /\ ReplaceAttempt(row, done) \in TaskRows
        /\ ReplaceAttempt(row, done).attempts =
             [i \in DOMAIN row.attempts |->
                IF row.attempts[i].id = a THEN done ELSE row.attempts[i]]
    BY <1>1, ReplaceAttemptType
  <1>4. FinishedRow(row, a, actor, status, summary, ended) =
          [ReplaceAttempt(row, done)
             EXCEPT !.status = TerminalTaskStatus(status), !.updated = ended,
                    !.actor = actor, !.note = summary]
    BY DEF FinishedRow, done
  <1>5. /\ FinishedRow(row, a, actor, status, summary, ended) \in TaskRows
        /\ FinishedRow(row, a, actor, status, summary, ended).attempts =
             ReplaceAttempt(row, done).attempts
    BY <1>2, <1>3, <1>4 DEF TaskRows
  <1> QED
    BY <1>3, <1>5 DEF done

\* record_task_setup changes the receipt of its attempt only.
LEMMA SetupRowType ==
    ASSUME NEW row \in TaskRows, NEW a, HasAttempt(row, a), NEW receipt \in Receipts
    PROVE  /\ SetupRow(row, a, receipt) \in TaskRows
           /\ SetupRow(row, a, receipt).attempts =
                [i \in DOMAIN row.attempts |->
                   IF row.attempts[i].id = a
                   THEN [AttemptOf(row, a) EXCEPT !.setup = receipt]
                   ELSE row.attempts[i]]
  <1> DEFINE new == [AttemptOf(row, a) EXCEPT !.setup = receipt]
  <1>1. new \in AttemptRows /\ new.id = a
    BY AttemptOfFound DEF AttemptRows
  <1> HIDE DEF new
  <1>2. SetupRow(row, a, receipt) = ReplaceAttempt(row, new)
    BY DEF SetupRow, new
  <1>3. /\ SetupRow(row, a, receipt) \in TaskRows
        /\ SetupRow(row, a, receipt).attempts =
             [i \in DOMAIN row.attempts |->
                IF row.attempts[i].id = a THEN new ELSE row.attempts[i]]
    BY <1>1, <1>2, ReplaceAttemptType
  <1> QED
    BY <1>3 DEF new

LEMMA TransitionedRowType ==
    ASSUME NEW row \in TaskRows, NEW actor \in Actors, NEW status \in TransitionStatuses,
           NEW note \in Notes, NEW now \in Nat
    PROVE  /\ TransitionedRow(row, actor, status, note, now) \in TaskRows
           /\ TransitionedRow(row, actor, status, note, now).attempts = row.attempts
  BY DEF TransitionedRow, TaskRows, TransitionStatuses, TaskStatuses

\* Finishing the active attempt, or changing its receipt, keeps the history.
LEMMA SingleChangeKeepsAttempts ==
    ASSUME NEW row \in TaskRows, UniqueIds(row), NEW a, HasAttempt(row, a),
           IsActive(AttemptOf(row, a)), NEW new, NEW attempt,
           new.attempts = [i \in DOMAIN row.attempts |->
                             IF row.attempts[i].id = a THEN attempt ELSE row.attempts[i]],
           attempt.id = a, attempt.actor = AttemptOf(row, a).actor,
           attempt.started = AttemptOf(row, a).started
    PROVE  SameAttempts(row, new)
  <1>1. \A i \in DOMAIN row.attempts :
           row.attempts[i].id = a => row.attempts[i] = AttemptOf(row, a)
    BY AttemptOfUnique
  <1> QED
    BY <1>1 DEF SameAttempts

==============================================================================
