--------------------------- MODULE MCSearchIndex ---------------------------
EXTENDS SearchIndex, TLC

Symmetry == Permutations(Handlers) \cup Permutations(Slots) \cup Permutations(Docs) \cup Permutations(Desks)
=============================================================================
