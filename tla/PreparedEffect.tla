--------------------------- MODULE PreparedEffect ---------------------------
(***************************************************************************)
(* What worktree preparation promises about the effects of a recipe in one *)
(* worktree: they are claimed once, and either completed by whoever        *)
(* claimed them or unknown for ever.  Preparation implements this.         *)
(***************************************************************************)
CONSTANT Worktrees

VARIABLE effect     \* Worktrees -> "none", "claimed", "done" or "unknown"

Trans(w, from, to) ==
    /\ effect[w] = from
    /\ effect' = [effect EXCEPT ![w] = to]

AbsInit == effect = [w \in Worktrees |-> "none"]

AbsNext ==
    \E w \in Worktrees :
        \/ Trans(w, "none", "claimed")
        \/ Trans(w, "claimed", "done")
        \/ Trans(w, "claimed", "unknown")

AbsSpec == AbsInit /\ [][AbsNext]_effect
=============================================================================
