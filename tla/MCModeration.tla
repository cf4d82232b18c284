--------------------------- MODULE MCModeration ---------------------------
EXTENDS Moderation, TLC

Symmetry == Permutations(Requests)
=============================================================================
