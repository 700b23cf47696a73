---------------------------- MODULE MCTaskRuntime ----------------------------
EXTENDS TaskRuntime, TLC

Symmetry == Permutations(TaskIds) \cup Permutations(AttemptIds) \cup Permutations(Procs)
            \cup Permutations(Finalizations)
==============================================================================
