---------------------------- MODULE TaskLifecycle ----------------------------
(***************************************************************************)
(* What the task runtime promises, without locks, ledgers or crashes: one  *)
(* task has one status and append-ordered attempts, at most one of them    *)
(* active, and an attempt ends only by the first verdict recorded for it.  *)
(* TaskRuntime is checked to implement this specification.                 *)
(***************************************************************************)
EXTENDS Sequences, Integers

CONSTANTS TaskIds, AttemptIds, Verdicts, Undecided

VARIABLES
    status,     \* TaskIds -> status of the task, or "absent"
    history,    \* TaskIds -> sequence of [id, outcome]
    intent      \* AttemptIds -> the verdict recorded for it, or Undecided

absVars == <<status, history, intent>>

Outcome(v) == v.status

AbsTaskStatus(outcome) ==
    CASE outcome = "success" -> "done"
      [] outcome = "abandoned" -> "canceled"
      [] outcome \in {"blocked", "failed"} -> "blocked"

Attempted(a) == \E t \in TaskIds : \E i \in DOMAIN history[t] : history[t][i].id = a

Running(t) == {i \in DOMAIN history[t] : history[t][i].outcome = "in_progress"}

AbsInit ==
    /\ status = [t \in TaskIds |-> "absent"]
    /\ history = [t \in TaskIds |-> <<>>]
    /\ intent = [a \in AttemptIds |-> Undecided]

AbsCreate(t) ==
    /\ status[t] = "absent"
    /\ status' = [status EXCEPT ![t] = "planned"]
    /\ UNCHANGED <<history, intent>>

AbsStart(t, a) ==
    /\ status[t] = "planned"
    /\ ~Attempted(a)
    /\ status' = [status EXCEPT ![t] = "in_progress"]
    /\ history' = [history EXCEPT ![t] = Append(@, [id |-> a, outcome |-> "in_progress"])]
    /\ UNCHANGED intent

\* The verdict is fixed while the attempt runs, before the attempt ends.
AbsDecide(t, a, v) ==
    /\ \E i \in Running(t) : history[t][i].id = a
    /\ intent[a] = Undecided
    /\ intent' = [intent EXCEPT ![a] = v]
    /\ UNCHANGED <<status, history>>

AbsFinish(t, a) ==
    /\ intent[a] # Undecided
    /\ \E i \in Running(t) :
          /\ history[t][i].id = a
          /\ history' = [history EXCEPT ![t][i].outcome = Outcome(intent[a])]
    /\ status' = [status EXCEPT ![t] = AbsTaskStatus(Outcome(intent[a]))]
    /\ UNCHANGED intent

AbsMoves == {<<"planned", "planned">>, <<"canceled", "planned">>,
             <<"planned", "blocked">>, <<"blocked", "blocked">>,
             <<"planned", "canceled">>, <<"blocked", "canceled">>,
             <<"canceled", "canceled">>}

AbsMove(t) ==
    /\ \E move \in AbsMoves :
          /\ status[t] = move[1]
          /\ status' = [status EXCEPT ![t] = move[2]]
    /\ UNCHANGED <<history, intent>>

AbsNext ==
    \E t \in TaskIds :
       \/ AbsCreate(t) \/ AbsMove(t)
       \/ \E a \in AttemptIds :
            \/ AbsStart(t, a) \/ AbsFinish(t, a)
            \/ \E v \in Verdicts : AbsDecide(t, a, v)

AbsSpec == AbsInit /\ [][AbsNext]_absVars

==============================================================================
