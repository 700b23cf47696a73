------------------------------ MODULE MCEvidence ------------------------------
\* Instances of Evidence for TLC.
EXTENDS Evidence, TLC

\* Every tree has a profile with commands of its own.
OwnCommands(t) == t

Symmetry ==
    Permutations(Procs) \cup Permutations(Attempts) \cup Permutations(Requests)
        \cup Permutations(Trees)
===============================================================================
