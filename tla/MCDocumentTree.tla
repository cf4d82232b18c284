-------------------------- MODULE MCDocumentTree --------------------------
(* Documents are interchangeable; so are slugs, but permuting both costs   *)
(* more than it saves.                                                     *)
EXTENDS DocumentTree, TLC

Symmetry == Permutations(Documents)
=============================================================================
