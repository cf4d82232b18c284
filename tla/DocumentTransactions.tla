---------------------- MODULE DocumentTransactions ----------------------
(***************************************************************************)
(* The document tree of one project as mysqlProjectDocumentRepository      *)
(* keeps it (project_documents.go).  Each operation is a transaction at    *)
(* InnoDB's default isolation, REPEATABLE READ: all its plain SELECTs see  *)
(* the snapshot of the first one, while its INSERT, UPDATE and DELETE act  *)
(* on the rows as they are when they run.  An operation therefore has two  *)
(* steps: Plan... reads and validates on a snapshot, Write... writes what  *)
(* was planned and commits.  Sessions are the connections of the pool.     *)
(*                                                                         *)
(* Deletion is soft: the row stays, with its slug, under the unique key    *)
(* (project_id, slug) of migration 000008 and the foreign key on parent_id.*)
(***************************************************************************)
EXTENDS DocumentForest, Functions

CONSTANTS Slugs, Sessions

ASSUME SessionsAssumption == IsFiniteSet(Sessions) /\ Sessions # {}

VARIABLES
  rows,    \* project_documents: parent, slug, dead (deleted_at IS NOT NULL)
  alias,   \* document_slug_aliases
  plan,    \* what the transaction of each session has validated
  behind,  \* history: sessions whose snapshot an other's commit outdated
  raced    \* history: a session that was behind has written

vars == <<rows, alias, plan, behind, raced>>

NoPlan == [op |-> "none"]

Created == DOMAIN rows
Live    == {d \in Created : ~rows[d].dead}
Parent  == [d \in Live |-> rows[d].parent]

Init ==
  /\ rows   = [d \in {} |-> Root]
  /\ alias  = [s \in {} |-> Root]
  /\ plan   = [t \in Sessions |-> NoPlan]
  /\ behind = {} /\ raced = FALSE

(* Snapshot reads ---------------------------------------------------------*)

Begin(t, p) ==
  /\ plan[t] = NoPlan /\ plan' = [plan EXCEPT ![t] = p]
  /\ UNCHANGED <<behind, raced>>

(* validateDocumentParent reads up to maxDocumentDepth ancestors.          *)
ParentAllowed(d, p) == ValidParent(Parent, d, p, MaxDepth)

(* Bound of the model: every create planned finds an unused document ID.   *)
IdsLeft ==
  Cardinality(Created) + Cardinality({t \in Sessions : plan[t].op = "create"}) < Size

(* Create: count, look for an alias, validate the parent.                  *)
PlanCreate(t, s, p) ==
  /\ IdsLeft /\ Cardinality(Live) < MaxDocuments
  /\ s \notin DOMAIN alias
  /\ ParentAllowed(Root, p)
  /\ Begin(t, [op |-> "create", slug |-> s, parent |-> p])
  /\ UNCHANGED <<rows, alias>>

(* Update: validate the parent, remember the previous slug.                *)
PlanUpdate(t, d, s, p) ==
  /\ d \in Live
  /\ ParentAllowed(d, p)
  /\ Begin(t, [op |-> "update", doc |-> d, slug |-> s, parent |-> p,
               previous |-> rows[d].slug])
  /\ UNCHANGED <<rows, alias>>

(* Move: validate the parent; the document itself is left to the UPDATE.   *)
PlanMove(t, d, p) ==
  /\ d \in Created
  /\ ParentAllowed(d, p)
  /\ Begin(t, [op |-> "move", doc |-> d, parent |-> p])
  /\ UNCHANGED <<rows, alias>>

(* Delete: collect maxDocumentDepth levels of children.                    *)
PlanDelete(t, d) ==
  /\ d \in Created
  /\ Begin(t, [op |-> "delete", docs |-> {d} \cup Below(Parent, d, MaxDepth)])
  /\ UNCHANGED <<rows, alias>>

(* Writes and commit ------------------------------------------------------*)

Planned(t, op) ==
  /\ plan[t].op = op /\ plan' = [plan EXCEPT ![t] = NoPlan]
  /\ behind' = {u \in Sessions \ {t} : plan[u] # NoPlan}
  /\ raced' = (raced \/ t \in behind)

(* uq_project_documents_slug, deleted rows included. *)
SlugFree(s, d) == \A e \in Created \ {d} : rows[e].slug # s

(* The INSERT under a new ID; a duplicate slug is refused.                 *)
WriteCreate(t, d) ==
  /\ Planned(t, "create")
  /\ d \notin Created
  /\ IF SlugFree(plan[t].slug, d)
     THEN rows' = [e \in Created \cup {d} |->
            IF e = d
            THEN [parent |-> plan[t].parent, slug |-> plan[t].slug, dead |-> FALSE]
            ELSE rows[e]]
     ELSE UNCHANGED rows
  /\ UNCHANGED alias

(* Faulty: the alias rows are left as they are.                            *)
WriteUpdateNoAlias(t) ==
  /\ Planned(t, "update")
  /\ LET d == plan[t].doc  s == plan[t].slug
     IN  IF d \in Live /\ SlugFree(s, d)
         THEN /\ rows' = [rows EXCEPT ![d].parent = plan[t].parent, ![d].slug = s]
              /\ alias' = [u \in DOMAIN alias \cup {plan[t].previous} |->
                             IF u = plan[t].previous THEN d ELSE alias[u]]
         ELSE UNCHANGED <<rows, alias>>

(* The UPDATE, and for a changed slug the DELETE and upsert of aliases.    *)
WriteUpdate(t) ==
  /\ Planned(t, "update")
  /\ LET d == plan[t].doc  s == plan[t].slug  previous == plan[t].previous
     IN  IF d \in Live /\ SlugFree(s, d)
         THEN /\ rows' = [rows EXCEPT ![d].parent = plan[t].parent, ![d].slug = s]
              /\ alias' = IF s = previous THEN alias
                          ELSE [u \in (DOMAIN alias \ {s}) \cup {previous} |->
                                  IF u = previous THEN d ELSE alias[u]]
         ELSE UNCHANGED <<rows, alias>>

(* Faulty: the UPDATE relies on the snapshot and writes deleted rows too.  *)
WriteMoveAnyRow(t) ==
  /\ Planned(t, "move")
  /\ rows' = [rows EXCEPT ![plan[t].doc].parent = plan[t].parent]
  /\ UNCHANGED alias

WriteMove(t) ==
  /\ Planned(t, "move")
  /\ IF plan[t].doc \in Live
     THEN rows' = [rows EXCEPT ![plan[t].doc].parent = plan[t].parent]
     ELSE UNCHANGED rows
  /\ UNCHANGED alias

WriteDelete(t) ==
  /\ Planned(t, "delete")
  /\ rows' = [d \in Created |->
       IF d \in plan[t].docs THEN [rows[d] EXCEPT !.dead = TRUE] ELSE rows[d]]
  /\ UNCHANGED alias

Next ==
  \E t \in Sessions :
    \/ \E s \in Slugs, p \in Created \cup {Root} : PlanCreate(t, s, p)
    \/ \E d \in Created, s \in Slugs, p \in Created \cup {Root} : PlanUpdate(t, d, s, p)
    \/ \E d \in Created, p \in Created \cup {Root} : PlanMove(t, d, p)
    \/ \E d \in Created : PlanDelete(t, d)
    \/ \E d \in Documents : WriteCreate(t, d)
    \/ WriteUpdate(t)
    \/ WriteMove(t)
    \/ WriteDelete(t)

Spec == Init /\ [][Next]_vars

-----------------------------------------------------------------------------
Idle == \A t \in Sessions : plan[t] = NoPlan

TypeOK ==
  /\ Created \subseteq Documents
  /\ rows \in [Created -> [parent : Documents \cup {Root}, slug : Slugs, dead : BOOLEAN]]
  /\ DOMAIN alias \subseteq Slugs
  /\ alias \in [DOMAIN alias -> Documents]

(* A row once deleted is final: no write decided on an older snapshot      *)
(* moves, renames or revives it.                                           *)
DeletedRowsFinal == [][\A d \in Created \ Live : rows'[d] = rows[d]]_vars

(* errDocumentCycle: no document is an ancestor of itself.                 *)
Acyclic == \A d \in Live : \A k \in 1..Size : Lineage(Parent, d)[k] # d

(* No redirect shadows the slug of a live document.                        *)
SlugsAreNotAliases == \A d \in Live : rows[d].slug \notin DOMAIN alias

(* No two rows have one slug, deleted ones included.                       *)
SlugsUnique == \A d, e \in Created : rows[d].slug = rows[e].slug => d = e

(* As long as no transaction wrote what it validated on an outdated        *)
(* snapshot, the tree has no cycle and every live slug leads to its        *)
(* document; with such writes, no slug is given twice all the same.        *)
SoundUnlessRaced == SlugsUnique /\ (~raced => Acyclic /\ SlugsAreNotAliases)

(* Only Creates that counted on an outdated snapshot pass                  *)
(* maxDocumentsPerProject, and by less than the sessions there are.        *)
LimitKept ==
  /\ ~raced => Cardinality(Live) <= MaxDocuments
  /\ Cardinality(Live) < MaxDocuments + Cardinality(Sessions)
=============================================================================
