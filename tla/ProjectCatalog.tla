--------------------------- MODULE ProjectCatalog ---------------------------
(***************************************************************************)
(* What a managedProjectRepository promises: the projects of               *)
(* memoryManagedProjectRepository (managed_projects.go), where every call  *)
(* is one step under the lock.  ProjectLifecycle shows that the guarded    *)
(* UPDATEs of the MySQL repository keep the promise for each project.      *)
(* A text stands for all an author may edit but the slug; that a caller    *)
(* must own what it changes shows in the projects it finds.                *)
(***************************************************************************)

CONSTANTS
    Ids,
    Slugs,      \* addresses, one project each
    Texts

VARIABLE projects

Project ==
  [id : Ids, slug : Slugs, text : Texts,
   status : {"draft", "pending_review", "published", "rejected", "archived"}]

CatalogInit == projects = {}

Mutable(p) == p.status \in {"draft", "rejected"}
Replaced(p, q) == projects' = (projects \ {p}) \cup {q}

(* The slug is the address of one project for good: one that is archived   *)
(* keeps its own.                                                          *)
SlugFree(slug, others) == \A p \in others : p.slug # slug

Create(id, slug, text) ==
  /\ id \notin {p.id : p \in projects}
  /\ SlugFree(slug, projects)
  /\ projects' = projects \cup {[id |-> id, slug |-> slug, text |-> text, status |-> "draft"]}

Update(p, slug, text) ==
  /\ Mutable(p)
  /\ SlugFree(slug, projects \ {p})
  /\ Replaced(p, [id |-> p.id, slug |-> slug, text |-> text, status |-> "draft"])

Submit(p) == Mutable(p) /\ Replaced(p, [p EXCEPT !.status = "pending_review"])

DeleteDraft(p) == Mutable(p) /\ projects' = projects \ {p}

Review(p) ==
  /\ p.status = "pending_review"
  /\ \E verdict \in {"published", "rejected"} : Replaced(p, [p EXCEPT !.status = verdict])

UpdatePublishedDescription(p, text) ==
  p.status = "published" /\ Replaced(p, [p EXCEPT !.text = text])

Takedown(p) == p.status # "archived" /\ Replaced(p, [p EXCEPT !.status = "archived"])

CatalogNext ==
  \/ \E id \in Ids, slug \in Slugs, text \in Texts : Create(id, slug, text)
  \/ \E p \in projects :
       \/ Submit(p) \/ DeleteDraft(p) \/ Review(p) \/ Takedown(p)
       \/ \E text \in Texts :
            \/ UpdatePublishedDescription(p, text)
            \/ \E slug \in Slugs : Update(p, slug, text)

CatalogSpec == CatalogInit /\ [][CatalogNext]_projects
=============================================================================
