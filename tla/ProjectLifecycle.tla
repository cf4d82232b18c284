------------------------- MODULE ProjectLifecycle -------------------------
(***************************************************************************)
(* The life of one project (managed_projects.go): its author drafts,       *)
(* submits and edits it, admins review it and may take it down.  Each      *)
(* repository call is one conditional UPDATE on the status, so each is one *)
(* step.  An admin works from a page that lists the pending projects as    *)
(* they were when it was loaded (AdminConsole.tsx, ReviewsPanel).          *)
(***************************************************************************)
EXTENDS Integers

CONSTANTS
  Desks,           \* open review pages
  MaxContent,      \* bound of the model: edits of the project
  MaxSubmissions   \* bound of the model

ASSUME EditsAssumption == MaxContent \in Nat \ {0} /\ MaxSubmissions \in Nat

VARIABLES
  status,        \* managed_projects.status, "none" before Create, "gone" after DeleteDraft
  content,       \* the edit of the project's texts that is stored
  shown,         \* the edit each review page shows, 0 if it does not list the
                 \* project, and the submission it was loaded in
  submissions,   \* history: how often the project was submitted
  submitted,     \* history: the edit that was submitted last
  reviews,       \* project_review_events, counted
  unseen         \* history: an edit was approved that was not submitted, or
                 \* that a page loaded since the submission did not show

lifecycle == <<status, content, shown, submissions, submitted, reviews, unseen>>

Empty == [edit |-> 0, submission |-> 0]
Editable == status \in {"draft", "rejected"}

InitLifecycle ==
  /\ status = "none" /\ content = 0
  /\ shown = [a \in Desks |-> Empty]
  /\ submissions = 0 /\ submitted = 0 /\ reviews = 0 /\ unseen = FALSE

Create ==
  /\ status = "none" /\ status' = "draft" /\ content' = 1
  /\ UNCHANGED <<shown, submissions, submitted, reviews, unseen>>

(* Faulty: a project under review may be edited. *)
UpdatePending ==
  /\ Editable \/ status = "pending_review"
  /\ content < MaxContent /\ content' = content + 1
  /\ status' = IF status = "rejected" THEN "draft" ELSE status
  /\ UNCHANGED <<shown, submissions, submitted, reviews, unseen>>

Update ==
  /\ Editable /\ status' = "draft"
  /\ content < MaxContent /\ content' = content + 1
  /\ UNCHANGED <<shown, submissions, submitted, reviews, unseen>>

Submit ==
  /\ Editable /\ status' = "pending_review"
  /\ submissions < MaxSubmissions /\ submissions' = submissions + 1
  /\ submitted' = content
  /\ UNCHANGED <<content, shown, reviews, unseen>>

DeleteDraft ==
  /\ Editable /\ status' = "gone"
  /\ UNCHANGED <<content, shown, submissions, submitted, reviews, unseen>>

(* The page is loaded, or reloaded.  Its card has the texts of the         *)
(* project's row, and no documents, which may change while the project     *)
(* waits (SearchIndex).                                                    *)
ListPending(a) ==
  /\ shown' = [shown EXCEPT ![a] = 
                 IF status = "pending_review"
                 THEN [edit |-> content, submission |-> submissions] ELSE Empty]
  /\ UNCHANGED <<status, content, submissions, submitted, reviews, unseen>>

(* What a verdict leaves behind: an event, and the page without its card. *)
Decided(a, verdict) ==
  /\ status' = verdict /\ reviews' = reviews + 1
  /\ shown' = [shown EXCEPT ![a] = Empty]
  /\ unseen' = (unseen \/ ( /\ verdict = "published"
                             /\ \/ content # submitted
                                \/ shown[a].submission = submissions /\ shown[a].edit # content ))
  /\ UNCHANGED <<content, submissions, submitted>>

(* Faulty: the UPDATE has lost its condition on the status. *)
ReviewAnyStatus(a, verdict) ==
  /\ shown[a] # Empty /\ status \notin {"none", "gone"}
  /\ Decided(a, verdict)

(* Review: refused unless the project is pending; which submission of it   *)
(* the admin looked at is not part of the request.                         *)
Review(a, verdict) ==
  /\ shown[a] # Empty /\ status = "pending_review"
  /\ Decided(a, verdict)

(* Takedown: from any status but archived. *)
Takedown ==
  /\ status \notin {"none", "gone", "archived"} /\ status' = "archived"
  /\ UNCHANGED <<content, shown, submissions, submitted, reviews, unseen>>

(* UpdatePublishedDescription, from a collaborative save. *)
UpdatePublishedDescription ==
  /\ status = "published"
  /\ content < MaxContent /\ content' = content + 1
  /\ UNCHANGED <<status, shown, submissions, submitted, reviews, unseen>>

AuthorStep == Create \/ Update \/ Submit \/ DeleteDraft
Verdicts == {"published", "rejected"}

-----------------------------------------------------------------------------
TypeOKLifecycle ==
  /\ status \in {"none", "gone", "draft", "pending_review", "published", "rejected", "archived"}
  /\ content \in 0..MaxContent
  /\ shown \in [Desks -> [edit : 0..MaxContent, submission : 0..MaxSubmissions]]
  /\ submissions \in 0..MaxSubmissions /\ submitted \in 0..content /\ reviews \in 0..submissions
  /\ unseen \in BOOLEAN

(* Every submission is decided once: two admins who review the same card,  *)
(* or an author who withdraws nothing, leave one review event each (Review,*)
(* whose events also award experience and notify).                         *)
OneReviewEach ==
  /\ status \in {"draft", "rejected", "published"} => reviews = submissions
  /\ status = "pending_review" => reviews = submissions - 1

(* The texts of its row - name, summary, description - with which a        *)
(* project is published are those its author submitted last, even if the   *)
(* reviewer worked from a page of an earlier submission, and a page loaded *)
(* since then shows them: nobody edits a row that waits for its verdict    *)
(* (Update, UpdatePublishedDescription).  This says nothing of documents:  *)
(* they are edited in every status, are not on the page, and are published *)
(* with the project as they are.                                           *)
TextsAsSubmitted == ~unseen

(* Whatever the authors, admins and collaborators of a project do at once, *)
(* it goes the way it would in the in-memory repository: it is published   *)
(* only by a review of what waits for one, changes only as a draft or      *)
(* published, and stays archived.                                          *)
Catalog == INSTANCE ProjectCatalog WITH
  Ids <- {1}, Slugs <- {1}, Texts <- 0..MaxContent,
  projects <- IF status \in {"none", "gone"} THEN {}
              ELSE {[id |-> 1, slug |-> 1, text |-> content, status |-> status]}

CatalogKept == Catalog!CatalogSpec
=============================================================================
