------------------------- MODULE DocumentForest -------------------------
(***************************************************************************)
(* What both stores of project documents compute over parent links:        *)
(* the walk of validateParentLocked and validateDocumentParent up the      *)
(* tree, and the walk of Delete down the tree.  "parent" maps every live   *)
(* document to its parent_id.                                              *)
(***************************************************************************)
EXTENDS Integers, FiniteSets

CONSTANTS Documents,
          MaxDepth,      \* maxDocumentDepth
          MaxDocuments,  \* maxDocumentsPerProject
          Root           \* parent_id NULL

ASSUME MaxDepthAssumption == MaxDepth \in Nat \ {0}
ASSUME MaxDocumentsAssumption == MaxDocuments \in Nat
ASSUME RootAssumption == Root \notin Documents
ASSUME DocumentsAssumption == IsFiniteSet(Documents)

Size == Cardinality(Documents)

(* d, its parent, the parent's parent, ... up to a dead document or Root.  *)
Lineage(parent, d) ==
  LET up[n \in 0..Size] ==
        IF n = 0 THEN d
        ELSE IF up[n - 1] \in DOMAIN parent THEN parent[up[n - 1]] ELSE up[n - 1]
  IN  up

(* p leads to the root through 1..levels live documents other than d.      *)
Climbs(parent, d, p, levels) ==
  \E n \in 1..levels :
    /\ n <= Size
    /\ Lineage(parent, p)[n] = Root
    /\ \A k \in 0..n - 1 : Lineage(parent, p)[k] \in DOMAIN parent \ {d}

(* p may become the parent of d. *)
ValidParent(parent, d, p, levels) == p = Root \/ Climbs(parent, d, p, levels)

(* The documents found by listing the children of d, and theirs, through   *)
(* at most levels queries.                                                 *)
Below(parent, d, levels) ==
  {c \in DOMAIN parent : \E n \in 1..levels :
      /\ n <= Size
      /\ Lineage(parent, c)[n] = d
      /\ \A k \in 0..n - 1 : Lineage(parent, c)[k] \in DOMAIN parent}

(* The documents the tree of a page shows: MaxDepth levels from the root.  *)
Assembled(parent) == Below(parent, Root, MaxDepth)

(* d hangs in the tree at all: no cycle and no dead parent above it.       *)
Rooted(parent, d) == Climbs(parent, Root, d, Size)
=============================================================================
