------------------------------- MODULE MCMdb -------------------------------
EXTENDS Mdb, TLC

\* No action or invariant names a node, a domain or a CPU.
Symmetry == Permutations(Objects) \cup Permutations(Derived) \cup Permutations(PDs) \cup Permutations(Revokers)
=============================================================================
