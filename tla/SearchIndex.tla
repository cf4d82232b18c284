---------------------------- MODULE SearchIndex ----------------------------
(***************************************************************************)
(* The search index of one project (search.go, search_api.go), kept up to  *)
(* date by best-effort goroutines that the handlers of documents and of    *)
(* the project's life cycle start and do not wait for.  A text is named by *)
(* its edit; the index maps a document, or the project body, to the edit   *)
(* it holds, 0 for no record.  Elasticsearch applies one call at a time    *)
(* and shows its effect at once (external).                                *)
(***************************************************************************)
EXTENDS ProjectLifecycle

CONSTANTS
  Docs, Body,
  Handlers,   \* requests and collaboration connections being served
  Slots,      \* bound of the model: goroutines alive at once
  MaxText,    \* bound of the model: edits of one document
  MayFail     \* Elasticsearch may refuse a call, the gateway may be killed

ASSUME MayFailAssumption == MayFail \in BOOLEAN
ASSUME BodyAssumption == Body \notin Docs

VARIABLES
  documents,  \* the edit each document is at; 0 before it is created, -1 deleted
  index,
  handler,    \* what each handler edits, and the project status it read
  task,       \* what the goroutine in each slot has left to do
  drifted     \* history: since the index was last dropped and rebuilt, a call
              \* failed or two requests, or a request and a goroutine, overlapped

search == <<documents, index, handler, task, drifted>>
vars == <<lifecycle, search>>

Ids == Docs \cup {Body}
Free == [op |-> "free"]
Closed == [doc |-> Body, open |-> FALSE, published |-> FALSE]
Nothing == [i \in Ids |-> 0]

Init ==
  /\ InitLifecycle
  /\ documents = [d \in Docs |-> 0]
  /\ index = Nothing
  /\ handler = [h \in Handlers |-> Closed]
  /\ task = [s \in Slots |-> Free]
  /\ drifted = FALSE

Live == {d \in Docs : documents[d] > 0}
Quiet == (\A s \in Slots : task[s] = Free) /\ \A h \in Handlers : ~handler[h].open

(* runBestEffort *)
Run(t) == \E s \in Slots : task[s] = Free /\ task' = [task EXCEPT ![s] = t]

(* A request changes something while a goroutine is on its way, or going   *)
(* by a status that has changed since it read it.                          *)
Overlap(stale) == drifted' = (drifted \/ stale \/ \E s \in Slots : task[s] # Free)

(* A project to be cleared from the index and, if published, indexed as it *)
(* is: the goroutine works with the row it was given.                      *)
Renewal(publish) ==
  [op |-> "clear", publish |-> publish, text |-> IF publish THEN content ELSE 0]

(* projectSearchDocuments: the documents, or the body if there are none. *)
Records(text) ==
  IF Live = {} THEN {[id |-> Body, text |-> text]}
  ELSE {[id |-> d, text |-> documents[d]] : d \in Live}

(* Handlers ---------------------------------------------------------------*)

(* A handler reads the project.  A collaboration connection needs it       *)
(* published; a document request does not.                                 *)
Open(h, d) ==
  /\ ~handler[h].open
  /\ status \notin {"none", "gone"} /\ (d = Body => status = "published")
  /\ handler' = [handler EXCEPT ![h] =
                   [doc |-> d, open |-> TRUE, published |-> status = "published"]]
  /\ UNCHANGED <<lifecycle, documents, index, task, drifted>>

(* It ends; a collaboration connection may first save any number of times. *)
End(h) ==
  /\ handler[h].open /\ handler' = [handler EXCEPT ![h] = Closed]
  /\ UNCHANGED <<lifecycle, documents, index, task, drifted>>

Stored(h, d) ==
  /\ handler[h].open /\ handler[h].doc = d /\ documents[d] \in 0..MaxText - 1
  /\ documents' = [documents EXCEPT ![d] = @ + 1]
  /\ Overlap(handler[h].published # (status = "published"))
  /\ UNCHANGED <<lifecycle, index, handler>>

(* Faulty: drafts are indexed too. *)
SaveDocumentAnyStatus(h, d) ==
  Stored(h, d) /\ Run([op |-> "index", id |-> d, text |-> documents[d] + 1])

(* Create, Update, UpdateMarkdown or a restore, in whatever status the     *)
(* project is, under review too, then syncDocumentIndex, which goes by the *)
(* status the handler read.                                                *)
SaveDocument(h, d) ==
  /\ Stored(h, d)
  /\ IF handler[h].published THEN Run([op |-> "index", id |-> d, text |-> documents[d] + 1])
     ELSE UNCHANGED task

(* A collaborative save of the body. *)
SaveBody(h) ==
  /\ handler[h].open /\ handler[h].doc = Body
  /\ UpdatePublishedDescription
  /\ Run([op |-> "index", id |-> Body, text |-> content + 1])
  /\ Overlap(FALSE)
  /\ UNCHANGED <<documents, index, handler>>

(* Faulty: the record is left to the next rebuild. *)
DeleteDocumentOnly(h, d) ==
  /\ handler[h].open /\ handler[h].doc = d /\ d \in Live
  /\ documents' = [documents EXCEPT ![d] = -1] /\ Overlap(FALSE)
  /\ UNCHANGED <<lifecycle, index, handler, task>>

DeleteDocument(h, d) ==
  /\ handler[h].open /\ handler[h].doc = d /\ d \in Live
  /\ documents' = [documents EXCEPT ![d] = -1] /\ Overlap(FALSE)
  /\ Run([op |-> "remove", id |-> d])
  /\ UNCHANGED <<lifecycle, index, handler>>

Author ==
  /\ AuthorStep \/ \E a \in Desks : ListPending(a)
  /\ UNCHANGED search

(* Review and Takedown, then syncProjectSearchIndex. *)
Decide ==
  /\ \/ \E a \in Desks, verdict \in Verdicts :
          Review(a, verdict) /\ Run(Renewal(verdict = "published"))
     \/ Takedown /\ Run(Renewal(FALSE))
  /\ Overlap(FALSE)
  /\ UNCHANGED <<documents, index, handler>>

(* searchReindexHandler; with recreate, the index is dropped first. *)
Reindex(recreate) ==
  /\ Run([op |-> "list"])
  /\ IF recreate THEN index' = Nothing /\ drifted' = ~Quiet
     ELSE UNCHANGED index /\ Overlap(FALSE)
  /\ UNCHANGED <<lifecycle, documents, handler>>

(* Goroutines -------------------------------------------------------------*)

Become(s, t) == task' = [task EXCEPT ![s] = t]

IndexOne(s) ==
  /\ task[s].op = "index"
  /\ index' = [index EXCEPT ![task[s].id] = task[s].text]
  /\ Become(s, Free)
  /\ UNCHANGED <<lifecycle, documents, handler, drifted>>

RemoveOne(s) ==
  /\ task[s].op = "remove"
  /\ index' = [index EXCEPT ![task[s].id] = 0]
  /\ Become(s, Free)
  /\ UNCHANGED <<lifecycle, documents, handler, drifted>>

(* rebuildSearchIndex: only published projects are listed. *)
ListPublished(s) ==
  /\ task[s].op = "list"
  /\ IF status = "published"
     THEN Become(s, Renewal(TRUE))
     ELSE Become(s, Free)
  /\ UNCHANGED <<lifecycle, documents, index, handler, drifted>>

(* DeleteByProject *)
Clear(s) ==
  /\ task[s].op = "clear"
  /\ index' = Nothing
  /\ IF task[s].publish
     THEN Become(s, [op |-> "read", text |-> task[s].text])
     ELSE Become(s, Free)
  /\ UNCHANGED <<lifecycle, documents, handler, drifted>>

(* projectSearchDocuments *)
ReadDocuments(s) ==
  /\ task[s].op = "read"
  /\ Become(s, [op |-> "fill", records |-> Records(task[s].text)])
  /\ UNCHANGED <<lifecycle, documents, index, handler, drifted>>

Fill(s) ==
  /\ task[s].op = "fill"
  /\ \E r \in task[s].records :
       LET left == task[s].records \ {r}
       IN  /\ index' = [index EXCEPT ![r.id] = r.text]
           /\ IF left = {} THEN Become(s, Free)
              ELSE Become(s, [task[s] EXCEPT !.records = left])
  /\ UNCHANGED <<lifecycle, documents, handler, drifted>>

(* A call fails or times out: the goroutine logs it and gives up (a fill   *)
(* goes on with its other records, which is the same to the index).        *)
Fail(s) ==
  /\ MayFail /\ task[s] # Free
  /\ Become(s, Free) /\ drifted' = TRUE
  /\ UNCHANGED <<lifecycle, documents, index, handler>>

(* The gateway is killed and starts again; warmSearchIndex rebuilds the    *)
(* index if it finds nothing there, not even of another project.           *)
Crash ==
  /\ MayFail
  /\ handler' = [h \in Handlers |-> Closed]
  /\ \/ task' = [s \in Slots |-> Free] /\ Overlap(FALSE)
     \/ /\ index = Nothing /\ drifted' = FALSE
        /\ \E s \in Slots : task' = [[t \in Slots |-> Free] EXCEPT ![s] = [op |-> "list"]]
  /\ UNCHANGED <<lifecycle, documents, index>>

Next ==
  \/ \E h \in Handlers :
       \/ \E d \in Ids : Open(h, d)
       \/ \E d \in Docs : SaveDocument(h, d) \/ DeleteDocument(h, d)
       \/ SaveBody(h) \/ End(h)
  \/ Author \/ Decide
  \/ \E recreate \in BOOLEAN : Reindex(recreate)
  \/ \E s \in Slots :
       \/ IndexOne(s) \/ RemoveOne(s) \/ ListPublished(s)
       \/ Clear(s) \/ ReadDocuments(s) \/ Fill(s) \/ Fail(s)
  \/ Crash

Spec == Init /\ [][Next]_vars

-----------------------------------------------------------------------------
(* Types; a record is never of an edit that was never stored. *)
TypeOK ==
  /\ TypeOKLifecycle
  /\ documents \in [Docs -> -1..MaxText]
  /\ \A d \in Docs : index[d] \in 0..MaxText /\ (documents[d] >= 0 => index[d] <= documents[d])
  /\ index[Body] \in 0..content
  /\ \A h \in Handlers : handler[h] \in [doc : Ids, open : BOOLEAN, published : BOOLEAN]
  /\ drifted \in BOOLEAN

(* Drafts are not to be found (syncDocumentIndex): whatever overlaps,      *)
(* fails or crashes, nothing of a project that was never published, and no *)
(* goroutine about to write it.                                            *)
DraftsNotIndexed ==
  status \in {"none", "draft", "pending_review", "rejected", "gone"} =>
    /\ index = Nothing
    /\ \A s \in Slots : task[s].op \in {"free", "remove", "list", "clear"}

(* Unless a call failed or requests overlapped, the index at rest is what  *)
(* MySQL says: for a published project each document as it is and no       *)
(* deleted one, or the body if there never was a document; for any other   *)
(* nothing.  A rebuild that drops the index, and the one at startup that   *)
(* finds it empty, make up for all that went wrong before                  *)
(* (searchReindexHandler, warmSearchIndex).                                *)
IndexMirrors ==
  Quiet /\ ~drifted =>
    IF status = "published"
    THEN /\ \A d \in Docs : index[d] = IF d \in Live THEN documents[d] ELSE 0
         /\ (\A d \in Docs : documents[d] = 0) => index[Body] = content
    ELSE index = Nothing
=============================================================================
