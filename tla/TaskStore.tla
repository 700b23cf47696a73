------------------------------ MODULE TaskStore ------------------------------
(***************************************************************************)
(* The rows of the canonical task store (runtime.json, schema 4) and the   *)
(* pure row operations of blackdog_core: what a store must satisfy to be   *)
(* saved, and the row each lifecycle operation would save.                 *)
(*                                                                         *)
(* A row keeps what the lifecycle decides on.  The title, the summary of a *)
(* request and a setup receipt are opaque values.  A time is a second,     *)
(* because now_iso() renders seconds.  A row hash is the row itself: the   *)
(* code hashes the whole canonical payload.                                *)
(***************************************************************************)
EXTENDS Integers, Sequences

CONSTANTS
    TaskIds,        \* canonical task identities
    AttemptIds,     \* canonical attempt identities
    Actors,         \* actors that own attempts and sign transitions
    Notes,          \* titles and summaries: data an exact retry must repeat
    Receipts,       \* setup receipts
    InitReceipt,    \* the receipt an attempt starts with (preparation pending)
    None,           \* an absent optional value
    NoTask          \* the value of a task identity that has no row

ASSUME InitReceiptAssumption == InitReceipt \in Receipts
ASSUME NoneAssumption == None \notin Actors \cup Notes

TaskStatuses == {"planned", "in_progress", "blocked", "done", "canceled"}
AttemptStatuses == {"in_progress", "success", "blocked", "failed", "abandoned"}
TerminalStatuses == AttemptStatuses \ {"in_progress"}
TransitionStatuses == {"planned", "blocked", "canceled"}

Never == -1                         \* ended_at of an attempt still running

AttemptRows ==
    [id: AttemptIds, actor: Actors, status: AttemptStatuses, started: Nat,
     ended: Nat \cup {Never}, summary: Notes \cup {None}, setup: Receipts]

TaskRows ==
    [title: Notes, created: Nat, status: TaskStatuses, updated: Nat,
     actor: Actors \cup {None}, note: Notes \cup {None}, attempts: Seq(AttemptRows)]

ASSUME NoTaskAssumption == NoTask \notin TaskRows

IsActive(attempt) == attempt.status = "in_progress"

ActiveIn(row) == {i \in DOMAIN row.attempts : IsActive(row.attempts[i])}

HasAttempt(row, a) == \E i \in DOMAIN row.attempts : row.attempts[i].id = a

AttemptOf(row, a) ==
    row.attempts[CHOOSE i \in DOMAIN row.attempts : row.attempts[i].id = a]

(***************************************************************************)
(* _validate_state for one row and for the store.                          *)
(***************************************************************************)
ValidAttempt(attempt) ==
    IF IsActive(attempt) THEN attempt.ended = Never
                         ELSE attempt.ended >= attempt.started

ValidRow(row) ==
    LET rows == row.attempts
        n    == Len(rows)
    IN  /\ row.updated >= row.created
        /\ \A i, j \in ActiveIn(row) : i = j
        /\ (ActiveIn(row) # {}) <=> (row.status = "in_progress")
        /\ \A i \in 1..n : rows[i].status = "success" => i = n /\ row.status = "done"
        /\ row.status = "done" /\ n > 0 => rows[n].status = "success"
        /\ \A i \in 1..n : ValidAttempt(rows[i])
        /\ \A i, j \in 1..n : i < j => rows[i].id # rows[j].id
        /\ \A i, j \in 1..n : i < j => rows[i].started <= rows[j].started

ValidState(store) ==
    /\ \A t \in TaskIds : store[t] # NoTask => ValidRow(store[t])
    /\ \A s, t \in TaskIds : \A a \in AttemptIds :
          /\ store[s] # NoTask /\ HasAttempt(store[s], a)
          /\ store[t] # NoTask /\ HasAttempt(store[t], a)
          => s = t

(***************************************************************************)
(* The rows the operations save.                                           *)
(***************************************************************************)
NewRow(title, now) ==
    [title |-> title, created |-> now, status |-> "planned", updated |-> now,
     actor |-> None, note |-> None, attempts |-> <<>>]

NewAttempt_without_end(a, actor, now) ==                          \* mutant
    [id |-> a, actor |-> actor, status |-> "in_progress", started |-> now,
     ended |-> None, summary |-> None, setup |-> InitReceipt]

NewAttempt(a, actor, now) ==
    [id |-> a, actor |-> actor, status |-> "in_progress", started |-> now,
     ended |-> Never, summary |-> None, setup |-> InitReceipt]

StartedRow_forgets_history(row, attempt) ==                       \* mutant
    [row EXCEPT !.status = "in_progress", !.updated = attempt.started,
                !.actor = attempt.actor, !.note = None, !.attempts = <<attempt>>]

StartedRow(row, attempt) ==
    [row EXCEPT !.status = "in_progress", !.updated = attempt.started,
                !.actor = attempt.actor, !.note = None,
                !.attempts = Append(@, attempt)]

ReplaceAttempt(row, attempt) ==
    [row EXCEPT !.attempts =
        [i \in DOMAIN @ |-> IF @[i].id = attempt.id THEN attempt ELSE @[i]]]

TerminalTaskStatus(status) ==
    IF status = "success" THEN "done"
    ELSE IF status = "abandoned" THEN "canceled" ELSE "blocked"

FinishedAttempt(attempt, status, summary, ended) ==
    [attempt EXCEPT !.status = status, !.ended = ended, !.summary = summary]

FinishedRow(row, a, actor, status, summary, ended) ==
    [ReplaceAttempt(row, FinishedAttempt(AttemptOf(row, a), status, summary, ended))
        EXCEPT !.status = TerminalTaskStatus(status), !.updated = ended,
               !.actor = actor, !.note = summary]

SetupRow(row, a, receipt) ==
    ReplaceAttempt(row, [AttemptOf(row, a) EXCEPT !.setup = receipt])

TransitionSources_reopens_blocked(status) ==                      \* mutant
    CASE status = "planned"  -> {"planned", "canceled", "blocked"}
      [] status = "blocked"  -> {"planned", "blocked"}
      [] status = "canceled" -> {"planned", "blocked", "canceled"}

TransitionSources(status) ==
    CASE status = "planned"  -> {"planned", "canceled"}
      [] status = "blocked"  -> {"planned", "blocked"}
      [] status = "canceled" -> {"planned", "blocked", "canceled"}

TransitionedRow(row, actor, status, note, now) ==
    [row EXCEPT !.status = status, !.updated = now, !.actor = actor, !.note = note]

==============================================================================
