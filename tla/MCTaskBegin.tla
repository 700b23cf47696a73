----------------------------- MODULE MCTaskBegin -----------------------------
\* Instances of TaskBegin for TLC.
EXTENDS TaskBegin, TLC

Symmetry == Permutations(Procs) \cup Permutations(AttemptIds) \cup Permutations(Lineages)
==============================================================================
