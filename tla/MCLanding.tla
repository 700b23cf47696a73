------------------------------ MODULE MCLanding ------------------------------
EXTENDS Landing, TLC

LandOnly == {"land"}
LandClose == {"land", "close"}
AllCalls == Commands
JustBlocked == {"blocked"}
Symmetry == Permutations(Procs)
=============================================================================
