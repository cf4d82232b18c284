--------------------------- MODULE DocumentTree ---------------------------
(***************************************************************************)
(* The document tree of one project as memoryProjectDocumentRepository     *)
(* keeps it (project_documents.go): every operation runs under one lock.   *)
(* sort_order, titles and bodies are left out: they decide nothing here.   *)
(***************************************************************************)
EXTENDS DocumentForest, Functions

CONSTANT Slugs

VARIABLES
  documents,  \* the map of live documents: parent_id and slug of each
  alias       \* former slugs, and the document each redirects to

vars == <<documents, alias>>

Live   == DOMAIN documents
Parent == [d \in Live |-> documents[d].parent]

Init ==
  /\ documents = [d \in {} |-> Root]
  /\ alias     = [s \in {} |-> Root]

SlugFree(s, d) == \A e \in Live \ {d} : documents[e].slug # s

(* Faulty: as many levels above the document as the tree may have. *)
ParentAllowedDeeper(d, p) == ValidParent(Parent, d, p, MaxDepth)

(* validateParentLocked counts the document itself as one level.           *)
ParentAllowed(d, p) == ValidParent(Parent, d, p, MaxDepth - 1)

Put(d, s, p) ==
  documents' = [e \in Live \cup {d} |->
    IF e = d THEN [parent |-> p, slug |-> s] ELSE documents[e]]

(* Faulty: a new document may take a slug that redirects to another one.   *)
CreateOverAlias(d, s, p) ==
  /\ d \notin Live /\ SlugFree(s, d) /\ Cardinality(Live) < MaxDocuments
  /\ ParentAllowed(d, p)
  /\ Put(d, s, p)
  /\ UNCHANGED alias

(* Create.  The ID is new: d stands for one no live document has.          *)
Create(d, s, p) ==
  /\ d \notin Live /\ SlugFree(s, d) /\ Cardinality(Live) < MaxDocuments
  /\ s \notin DOMAIN alias
  /\ ParentAllowed(d, p)
  /\ Put(d, s, p)
  /\ UNCHANGED alias

(* Faulty: the reused slug stays an alias.                                 *)
UpdateKeepsAlias(d, s, p) ==
  /\ d \in Live /\ SlugFree(s, d)
  /\ s \in DOMAIN alias => alias[s] = d
  /\ ParentAllowed(d, p)
  /\ alias' = [t \in DOMAIN alias \cup {documents[d].slug} |->
                 IF t = documents[d].slug THEN d ELSE alias[t]]
  /\ Put(d, s, p)

(* Update: a changed slug leaves the old one behind as an alias.           *)
Update(d, s, p) ==
  /\ d \in Live /\ SlugFree(s, d)
  /\ s \in DOMAIN alias => alias[s] = d
  /\ ParentAllowed(d, p)
  /\ alias' = [t \in (DOMAIN alias \cup {documents[d].slug}) \ {s} |->
                 IF t = documents[d].slug THEN d ELSE alias[t]]
  /\ Put(d, s, p)

(* Faulty: the new parent is only required to exist.                       *)
MoveUnchecked(d, p) ==
  /\ d \in Live /\ p \in Live \cup {Root}
  /\ Put(d, documents[d].slug, p)
  /\ UNCHANGED alias

(* Move *)
Move(d, p) ==
  /\ d \in Live
  /\ ParentAllowed(d, p)
  /\ Put(d, documents[d].slug, p)
  /\ UNCHANGED alias

(* Delete: the document, everything below it, and all their aliases.       *)
Delete(d) ==
  LET doomed == {d} \cup Below(Parent, d, Size)
  IN  /\ d \in Live
      /\ documents' = Restrict(documents, Live \ doomed)
      /\ alias' = Restrict(alias, {s \in DOMAIN alias : alias[s] \notin doomed})

Next ==
  \E d \in Documents :
    \/ \E s \in Slugs, p \in Documents \cup {Root} : Create(d, s, p) \/ Update(d, s, p)
    \/ \E p \in Documents \cup {Root} : Move(d, p)
    \/ Delete(d)

Spec == Init /\ [][Next]_vars

-----------------------------------------------------------------------------
(* The store's maps are well formed, and never over the project's limit.   *)
TypeOK ==
  /\ Live \subseteq Documents
  /\ documents \in [Live -> [parent : Documents \cup {Root}, slug : Slugs]]
  /\ DOMAIN alias \subseteq Slugs
  /\ alias \in [DOMAIN alias -> Documents]
  /\ Cardinality(Live) <= MaxDocuments

(* validateParentLocked: however documents are created, moved and deleted  *)
(* one after the other, every one of them hangs below the root through     *)
(* live documents: no cycle, no orphan.                                    *)
Forest == \A d \in Live : Rooted(Parent, d)

(* Wherever an author puts a document, readers find it there: the depth    *)
(* validateParentLocked allows is the one buildDocumentTree descends to.   *)
(* Only what is below a document that was moved may fall out of the tree.  *)
PlacedShown ==
  [][\A d \in Live' :
       (d \notin Live \/ documents'[d].parent # documents[d].parent) => d \in Assembled(Parent)']_vars

(* A reader's link: FindBySlug first, then FindByAliasSlug.                *)
Resolves(s, d) ==
  \/ documents[d].slug = s
  \/ SlugFree(s, Root) /\ s \in DOMAIN alias /\ alias[s] = d

(* A link that leads to a document leads to it as long as it exists, no    *)
(* matter how it and the others are renamed (the aliases of Update).       *)
LinksResolve ==
  [][\A d \in Live \cap Live', s \in Slugs : Resolves(s, d) => Resolves(s, d)']_vars

(* An alias redirects to a live document, never to one deleted, and never  *)
(* hides or shadows a slug in use.                                         *)
AliasesSound == \A s \in DOMAIN alias : alias[s] \in Live /\ SlugFree(s, Root)

=============================================================================
