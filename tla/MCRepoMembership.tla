-------------------------- MODULE MCRepoMembership --------------------------
\* Instances of RepoMembership for TLC.
EXTENDS RepoMembership, TLC

LeftOrOwn == {"managed", "own"}

Symmetry == Permutations(Procs) \cup Permutations(Releases) \cup Permutations(Guides)
=============================================================================
