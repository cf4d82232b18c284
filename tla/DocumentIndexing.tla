-------------------------- MODULE DocumentIndexing --------------------------
(***************************************************************************)
(* The author's document handlers (author_documents.go) between the tree   *)
(* in MySQL and the search index: what they do besides the transactions of *)
(* DocumentTransactions.  A delete reads the documents below the one to be *)
(* deleted in advance, to take them out of the index afterwards; index     *)
(* calls run in goroutines, in any order, and may fail (runBestEffort).    *)
(* The project is published; what a record says is left to SearchIndex.    *)
(***************************************************************************)
EXTENDS DocumentTransactions

VARIABLES
  removable,  \* what the handler of each session has read before its Delete
  calls,      \* index calls under way
  indexed,    \* documents with a record in the index
  adrift      \* history: documents whose record may go wrong, see IndexFollows

indexVars == <<removable, calls, indexed, adrift>>

Nobody == [doc |-> Root, docs |-> {}]

IndexInit ==
  /\ Init
  /\ removable = [t \in Sessions |-> Nobody]
  /\ calls = {} /\ indexed = {} /\ adrift = {}

WithBelow(d, levels) == {d} \cup Below(Parent, d, levels)

(* Bound of the model: a document gone adrift is followed no further.      *)
Follow(new, ds, records) ==
  /\ adrift' = adrift \cup ds
  /\ calls' = {c \in new : c[2] \notin adrift'}
  /\ indexed' = records \ adrift'

(* d and what is below it change while another handler is about to delete. *)
Touched(t, d) ==
  IF \E u \in Sessions \ {t} : removable[u] # Nobody THEN WithBelow(d, Size) ELSE {}

(* Faulty: without the documents below it. *)
RemovableAlone(d) == {d}

(* documentsToRemoveFromIndex *)
Removable(d) == WithBelow(d, Size)

(* The read may fail, and Delete goes down a fixed number of levels.       *)
ListRemovable(t, d) ==
  /\ plan[t] = NoPlan /\ removable[t] = Nobody
  /\ \/ /\ removable' = [removable EXCEPT ![t] = [doc |-> d, docs |-> Removable(d)]]
        /\ Follow(calls, WithBelow(d, Size) \ WithBelow(d, MaxDepth), indexed)
     \/ /\ removable' = [removable EXCEPT ![t] = [doc |-> d, docs |-> {d}]]
        /\ Follow(calls, WithBelow(d, Size) \ {d}, indexed)
  /\ UNCHANGED vars

BeginDelete(t) ==
  /\ removable[t] # Nobody /\ PlanDelete(t, removable[t].doc)
  /\ UNCHANGED indexVars

(* createAuthorDocument: the new document is indexed. *)
CreateDocument(t, d) ==
  /\ WriteCreate(t, d)
  /\ IF SlugFree(plan[t].slug, d)
     THEN Follow(calls \cup {<<"index", d>>}, Touched(t, d), indexed)
     ELSE UNCHANGED <<calls, indexed, adrift>>
  /\ UNCHANGED removable

(* updateAuthorDocument: a document that was updated is indexed again.     *)
UpdateDocument(t) ==
  /\ WriteUpdate(t)
  /\ LET d == plan[t].doc
     IN  IF d \in Live /\ SlugFree(plan[t].slug, d)
         THEN Follow(calls \cup {<<"index", d>>}, Touched(t, d), indexed)
         ELSE UNCHANGED <<calls, indexed, adrift>>
  /\ UNCHANGED removable

(* moveAuthorDocument: the index does not know of parents. *)
MoveDocument(t) ==
  /\ WriteMove(t)
  /\ Follow(calls, Touched(t, plan[t].doc), indexed)
  /\ UNCHANGED removable

(* deleteAuthorDocument, after Delete: unless nothing was left to delete,  *)
(* what was listed goes from the index.                                    *)
DeleteDocument(t) ==
  /\ WriteDelete(t)
  /\ IF plan[t].docs \cap Live # {}
     THEN Follow(calls \cup ({"remove"} \X removable[t].docs),
                 {d \in Documents : <<"index", d>> \in calls}, indexed)
     ELSE UNCHANGED <<calls, indexed, adrift>>
  /\ removable' = [removable EXCEPT ![t] = Nobody]

(* indexDocumentBestEffort, removeFromIndexBestEffort *)
Call(c) ==
  /\ c \in calls
  /\ \/ Follow(calls \ {c}, {},
               IF c[1] = "index" THEN indexed \cup {c[2]} ELSE indexed \ {c[2]})
     \/ Follow(calls \ {c}, {c[2]}, indexed)
  /\ UNCHANGED <<vars, removable>>

IndexNext ==
  \/ \E t \in Sessions :
       \/ /\ removable[t] = Nobody
          /\ \/ \E s \in Slugs, p \in Created \cup {Root} : PlanCreate(t, s, p)
             \/ \E d \in Created, s \in Slugs :
                  \* Bound of the model: an update renames and leaves moving to Move.
                  PlanUpdate(t, d, s, rows[d].parent)
             \/ \E d \in Created, p \in Created \cup {Root} : PlanMove(t, d, p)
          /\ UNCHANGED indexVars
       \/ \E d \in Created : ListRemovable(t, d)
       \/ BeginDelete(t)
       \/ \E d \in Documents : CreateDocument(t, d)
       \/ UpdateDocument(t) \/ MoveDocument(t) \/ DeleteDocument(t)
  \/ \E c \in calls : Call(c)

IndexSpec == IndexInit /\ [][IndexNext]_<<vars, indexVars>>

-----------------------------------------------------------------------------
(* Search finds the documents there are: a live document is in the index   *)
(* or about to be, and a deleted one is out of it or about to be, with     *)
(* everything that was below it (deleteAuthorDocument).  Documents go      *)
(* adrift that were written between the list of a delete and the delete,   *)
(* whose indexing had not ended when something was deleted, that hang      *)
(* deeper than Delete goes down, and those of a call that failed.          *)
IndexFollows ==
  \A d \in Created \ adrift :
    IF d \in Live THEN d \in indexed \/ <<"index", d>> \in calls
    ELSE d \notin indexed \/ <<"remove", d>> \in calls
=============================================================================
