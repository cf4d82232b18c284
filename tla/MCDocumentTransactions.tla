---------------------- MODULE MCDocumentTransactions ----------------------
EXTENDS DocumentIndexing, TLC

Symmetry == Permutations(Documents) \cup Permutations(Sessions) \cup Permutations(Slugs)
=============================================================================
