---------------------------- MODULE MCPreparation ----------------------------
EXTENDS Preparation, TLC

Symmetry == Permutations(Procs) \cup Permutations(Worktrees)
=============================================================================
