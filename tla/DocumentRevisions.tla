------------------------ MODULE DocumentRevisions ------------------------
(***************************************************************************)
(* The version history of one document: recordDocumentRevision and         *)
(* syncDocumentRevision (document_revisions.go), run by the handlers that  *)
(* write a body (PATCH, collaborative snapshot, restore, create).          *)
(*                                                                         *)
(* Each handler of the gateway is a goroutine and every repository call    *)
(* is a statement of its own, so the handlers interleave between calls.    *)
(* A request is one run of a handler; it goes through                      *)
(*                                                                         *)
(*   write the body -> read it back -> Latest -> Amend -> reread --> meta  *)
(*                                            -> Append -> Prune --> meta  *)
(*                                                                         *)
(* A request stands for the text it saves and for the ID of the revision   *)
(* it may append: both are fresh in every run of the handler.              *)
(***************************************************************************)
EXTENDS Integers, FiniteSets, Functions

CONSTANTS Requests,      \* runs of the handlers
          Authors,
          Keep,          \* maxDocumentRevisions
          Routes,        \* handlers in use: "patch", "snapshot", "restore"
          MaxInFlight,   \* handlers running at the same time
          StoreFaults,   \* repository calls that may fail
          Seed           \* the text and revision of the 000023 baseline

ASSUME KeepAssumption == Keep \in Nat \ {0}
ASSUME SeedAssumption == Seed \notin Requests
ASSUME RoutesAssumption == Routes \subseteq {"patch", "snapshot", "restore"}
ASSUME FaultsAssumption == StoreFaults \subseteq {"record", "prune", "meta"}

VARIABLES
  body,        \* project_documents.content_markdown, {} before the row exists
  docVersion,  \* project_documents.version
  docUpdatedBy,\* project_documents.updated_by
  history,     \* project_document_revisions of the document, by version
  fresh,       \* the latest revision was updated within documentRevisionWindow
  pc, author, source, text, version, target, limit,  \* locals of the handlers
  alone,       \* history variable: requests no other has run beside
  unpruned     \* history variable: a prune failed after the last to look

docVars == <<body, docVersion, docUpdatedBy>>
locals  == <<author, source, text, version, target, limit>>
noted   == <<alone, unpruned>>
vars    == <<body, docVersion, docUpdatedBy, history, fresh, pc, locals, noted>>

Texts       == Requests \cup {Seed}
RevisionIds == Requests \cup {Seed}
Sources     == {"create", "edit", "restore"}
NoBody      == "no document"
NoAuthor    == "nobody"

Revision == [id : RevisionIds, text : Texts, author : Authors, source : Sources]

PCs == {"new", "found", "reread", "latest", "amend", "amended", "append",
        "prune", "delete", "meta", "done"}

-----------------------------------------------------------------------------
(* A document exists with its baseline revision (migration 000023) or is   *)
(* still to be created.                                                    *)
Init ==
  /\ \/ /\ body = NoBody /\ docVersion = 0 /\ docUpdatedBy = NoAuthor
        /\ history = [v \in {} |-> Seed]
     \/ \E a \in Authors :
          /\ body = Seed /\ docVersion = 1 /\ docUpdatedBy = a
          /\ history = [v \in {1} |-> [id |-> Seed, text |-> Seed,
                                       author |-> a, source |-> "create"]]
  /\ fresh = FALSE
  /\ pc      = [r \in Requests |-> "new"]
  /\ author  = [r \in Requests |-> NoAuthor]
  /\ source  = [r \in Requests |-> "edit"]
  /\ text    = [r \in Requests |-> r]
  /\ version = [r \in Requests |-> 0]
  /\ target  = [r \in Requests |-> r]
  /\ limit   = [r \in Requests |-> 0]
  /\ alone = {} /\ unpruned = FALSE

InFlight == {r \in Requests : pc[r] \notin {"new", "done"}}

Start(r) ==
  /\ pc[r] = "new" /\ Cardinality(InFlight) < MaxInFlight
  /\ alone' = IF InFlight = {} THEN {r} ELSE {}
  /\ UNCHANGED unpruned

GoTo(r, step) == pc' = [pc EXCEPT ![r] = step]

(* Handlers up to the point where the body is written ---------------------*)

(* createAuthorDocument: the row appears, with the column default for version. *)
CreateDocument(r, a) ==
  /\ Start(r) /\ body = NoBody
  /\ body' = r /\ docVersion' = 1 /\ docUpdatedBy' = a
  /\ author' = [author EXCEPT ![r] = a]
  /\ source' = [source EXCEPT ![r] = "create"]
  /\ GoTo(r, "latest")
  /\ UNCHANGED <<history, fresh, text, version, target, limit>>

(* updateAuthorDocument: Update writes and reads back in one transaction.  *)
PatchDocument(r, a) ==
  /\ Start(r) /\ "patch" \in Routes /\ body # NoBody
  /\ body' = r
  /\ author' = [author EXCEPT ![r] = a]
  /\ GoTo(r, "latest")
  /\ UNCHANGED <<docVersion, docUpdatedBy, history, fresh,
                 source, text, version, target, limit>>

(* A "snapshot" message: UpdateMarkdown writes, then selects the row.      *)
SaveSnapshotBody(r, a) ==
  /\ Start(r) /\ "snapshot" \in Routes /\ body # NoBody
  /\ body' = r
  /\ author' = [author EXCEPT ![r] = a]
  /\ GoTo(r, "reread")
  /\ UNCHANGED <<docVersion, docUpdatedBy, history, fresh,
                 source, text, version, target, limit>>

(* restoreAuthorDocumentRevision finds the version to return to ...        *)
FindRevision(r, a, v) ==
  /\ Start(r) /\ "restore" \in Routes /\ body # NoBody
  /\ v \in DOMAIN history
  /\ author' = [author EXCEPT ![r] = a]
  /\ source' = [source EXCEPT ![r] = "restore"]
  /\ text' = [text EXCEPT ![r] = history[v].text]
  /\ GoTo(r, "found")
  /\ UNCHANGED <<docVars, history, fresh, version, target, limit>>

(* ... and writes its text as the body.                                    *)
RestoreBody(r) ==
  /\ pc[r] = "found"
  /\ body' = text[r]
  /\ GoTo(r, "reread")
  /\ UNCHANGED <<docVersion, docUpdatedBy, history, fresh, locals, noted>>

(* UpdateMarkdown's SELECT: the row as it is now, whoever wrote it last.   *)
RereadBody(r) ==
  /\ pc[r] = "reread"
  /\ text' = [text EXCEPT ![r] = body]
  /\ GoTo(r, "latest")
  /\ UNCHANGED <<docVars, history, fresh, author, source, version, target, limit, noted>>

(* recordDocumentRevision -------------------------------------------------*)

Latest == CHOOSE v \in DOMAIN history : \A u \in DOMAIN history : u <= v

(* Faulty: an edit may be merged into a checkpoint.                        *)
CanCoalesceAnySource(rev, a) == rev.author = a /\ fresh

(* Faulty: an edit may be merged into another author's revision.           *)
CanCoalesceAnyAuthor(rev, a) == rev.source = "edit" /\ fresh

(* canCoalesceRevision *)
CanCoalesce(rev, a) == rev.source = "edit" /\ rev.author = a /\ fresh

(* Latest, and the decision to amend it or to append after it.             *)
ReadLatest(r) ==
  /\ pc[r] = "latest"
  /\ IF DOMAIN history = {}
     THEN /\ version' = [version EXCEPT ![r] = 1]
          /\ GoTo(r, "append")
          /\ UNCHANGED target
     ELSE IF source[r] = "edit" /\ CanCoalesce(history[Latest], author[r])
     THEN /\ version' = [version EXCEPT ![r] = Latest]
          /\ target' = [target EXCEPT ![r] = history[Latest].id]
          /\ GoTo(r, "amend")
     ELSE /\ version' = [version EXCEPT ![r] = Latest + 1]
          /\ GoTo(r, "append")
          /\ UNCHANGED target
  /\ UNCHANGED <<docVars, history, fresh, author, source, text, limit, noted>>

(* Faulty: an amend touches the revision's time but not its text.          *)
AmendRevisionKeepsText(r) ==
  /\ pc[r] = "amend"
  /\ fresh' = TRUE
  /\ GoTo(r, "amended")
  /\ UNCHANGED <<history, docVars, locals, noted>>

(* Amend finds the revision by ID; it may have been pruned since.          *)
AmendRevision(r) ==
  /\ pc[r] = "amend"
  /\ IF \E v \in DOMAIN history : history[v].id = target[r]
     THEN /\ history' = [v \in DOMAIN history |->
               IF history[v].id = target[r]
               THEN [history[v] EXCEPT !.text = text[r]] ELSE history[v]]
          /\ fresh' = (fresh \/ history[Latest].id = target[r])
          /\ GoTo(r, "amended")
     ELSE GoTo(r, "done") /\ UNCHANGED <<history, fresh>>
  /\ UNCHANGED <<docVars, locals, noted>>

(* Amend's SELECT of the row it updated: a prune may have come between.    *)
RereadAmended(r) ==
  /\ pc[r] = "amended"
  /\ IF \E v \in DOMAIN history : history[v].id = target[r]
     THEN GoTo(r, "meta") ELSE GoTo(r, "done")
  /\ UNCHANGED <<docVars, history, fresh, locals, noted>>

(* Faulty: an append without the unique key replaces the version it hits.  *)
AppendRevisionNoKey(r) ==
  /\ pc[r] = "append"
  /\ history' = [v \in DOMAIN history \cup {version[r]} |->
        IF v = version[r]
        THEN [id |-> r, text |-> text[r], author |-> author[r], source |-> source[r]]
        ELSE history[v]]
  /\ fresh' = TRUE
  /\ GoTo(r, "prune")
  /\ UNCHANGED <<docVars, locals, noted>>

(* Append fails on the unique key (document_id, version); syncDocument-    *)
(* Revision then only logs, and the text stays unrecorded.                 *)
AppendRevision(r) ==
  /\ pc[r] = "append"
  /\ IF version[r] \notin DOMAIN history
     THEN /\ history' = [v \in DOMAIN history \cup {version[r]} |->
               IF v = version[r]
               THEN [id |-> r, text |-> text[r], author |-> author[r],
                     source |-> source[r]]
               ELSE history[v]]
          /\ fresh' = (fresh \/ \A v \in DOMAIN history : v < version[r])
          /\ GoTo(r, "prune")
     ELSE GoTo(r, "done") /\ UNCHANGED <<history, fresh>>
  /\ UNCHANGED <<docVars, locals, noted>>

AtLeast(v) == {u \in DOMAIN history : u >= v}

(* Faulty: OFFSET Keep in place of Keep - 1 leaves one revision too many.  *)
LocatePruneLimitOffByOne(r) ==
  /\ pc[r] = "prune"
  /\ \/ /\ \A v \in DOMAIN history : Cardinality(AtLeast(v)) # Keep + 1
        /\ GoTo(r, "meta")
        /\ UNCHANGED limit
     \/ \E v \in DOMAIN history :
        /\ Cardinality(AtLeast(v)) = Keep + 1
        /\ limit' = [limit EXCEPT ![r] = v]
        /\ GoTo(r, "delete")
  /\ unpruned' = FALSE
  /\ UNCHANGED <<docVars, history, fresh, alone, author, source, text, version, target>>

(* Faulty: the limit is the version after the Keep-th newest.              *)
LocatePruneLimitPast(r) ==
  /\ pc[r] = "prune"
  /\ \E v \in DOMAIN history :
        /\ Cardinality(AtLeast(v)) = Keep
        /\ limit' = [limit EXCEPT ![r] = v + 1]
  /\ GoTo(r, "delete")
  /\ unpruned' = FALSE
  /\ UNCHANGED <<docVars, history, fresh, alone, author, source, text, version, target>>

(* Prune selects the version of the Keep-th newest revision ...            *)
LocatePruneLimit(r) ==
  /\ pc[r] = "prune"
  /\ \/ /\ \A v \in DOMAIN history : Cardinality(AtLeast(v)) # Keep
        /\ GoTo(r, "meta")
        /\ UNCHANGED limit
     \/ \E v \in DOMAIN history :
        /\ Cardinality(AtLeast(v)) = Keep
        /\ limit' = [limit EXCEPT ![r] = v]
        /\ GoTo(r, "delete")
  /\ unpruned' = FALSE
  /\ UNCHANGED <<docVars, history, fresh, alone, author, source, text, version, target>>

(* ... and deletes what is older, by a statement of its own.               *)
DeletePruned(r) ==
  /\ pc[r] = "delete"
  /\ history' = Restrict(history, AtLeast(limit[r]))
  /\ GoTo(r, "meta")
  /\ UNCHANGED <<docVars, fresh, locals, noted>>

(* ApplyRevisionMeta *)
ApplyRevisionMeta(r) ==
  /\ pc[r] = "meta"
  /\ docVersion' = version[r]
  /\ docUpdatedBy' = author[r]
  /\ GoTo(r, "done")
  /\ UNCHANGED <<body, history, fresh, locals, noted>>

(* A repository call fails: recording and the meta write are given up and  *)
(* logged, a failed prune is left to the next save.                        *)
StoreFault(r) ==
  /\ \/ /\ "record" \in StoreFaults /\ pc[r] \in {"latest", "amend", "amended", "append"}
        /\ GoTo(r, "done") /\ UNCHANGED unpruned
     \/ /\ "prune" \in StoreFaults /\ pc[r] \in {"prune", "delete"}
        /\ GoTo(r, "meta") /\ unpruned' = TRUE
     \/ /\ "meta" \in StoreFaults /\ pc[r] = "meta"
        /\ GoTo(r, "done") /\ UNCHANGED unpruned
  /\ UNCHANGED <<docVars, history, fresh, locals, alone>>

(* documentRevisionWindow passes since the latest revision's update.       *)
LeaveWindow ==
  /\ fresh
  /\ fresh' = FALSE
  /\ UNCHANGED <<docVars, history, pc, locals, noted>>

-----------------------------------------------------------------------------
HandlerStep(r) ==
  \/ \E a \in Authors :
       \/ CreateDocument(r, a)
       \/ PatchDocument(r, a)
       \/ SaveSnapshotBody(r, a)
       \/ \E v \in DOMAIN history : FindRevision(r, a, v)
  \/ RestoreBody(r)
  \/ RereadBody(r)
  \/ ReadLatest(r)
  \/ AmendRevision(r)
  \/ RereadAmended(r)
  \/ AppendRevision(r)
  \/ LocatePruneLimit(r)
  \/ DeletePruned(r)
  \/ ApplyRevisionMeta(r)
  \/ StoreFault(r)

Next ==
  \/ \E r \in Requests : HandlerStep(r)
  \/ LeaveWindow

Spec == Init /\ [][Next]_vars

-----------------------------------------------------------------------------
(* Properties *)

DocumentOK ==
  /\ body \in Texts \cup {NoBody}
  /\ docVersion \in Nat
  /\ docUpdatedBy \in Authors \cup {NoAuthor}

HistoryOK ==
  /\ IsFiniteSet(DOMAIN history)
  /\ DOMAIN history \subseteq Nat \ {0}
  /\ history \in [DOMAIN history -> Revision]

HandlersOK ==
  /\ pc \in [Requests -> PCs]
  /\ author \in [Requests -> Authors \cup {NoAuthor}]
  /\ source \in [Requests -> Sources]
  /\ text \in [Requests -> Texts]
  /\ version \in [Requests -> Nat]
  /\ target \in [Requests -> RevisionIds]
  /\ limit \in [Requests -> Nat]

TypeOK == /\ DocumentOK /\ HistoryOK /\ fresh \in BOOLEAN /\ HandlersOK
          /\ alone \subseteq Requests /\ unpruned \in BOOLEAN

(* However two prunes and the appends between their statements interleave, *)
(* what a DELETE removes is older than all it leaves, and it leaves at     *)
(* least Keep revisions (Prune, document_revisions.go).                    *)
PruneKeepsNewest ==
  [][\/ DOMAIN history \subseteq DOMAIN history'
     \/ /\ Cardinality(DOMAIN history') >= Keep
        /\ \A gone \in DOMAIN history \ DOMAIN history', kept \in DOMAIN history' :
             gone < kept]_vars

(* The number of the latest version never goes back, so the next number    *)
(* computed from Latest is never below one already given out.              *)
NewestVersionSurvives ==
  [][\A v \in DOMAIN history : \E u \in DOMAIN history' : u >= v]_vars

(* Coalescing decides on a revision it read earlier; whatever happened in  *)
(* between it rewrites an edit only, never a "create" or "restore"         *)
(* checkpoint (the 000023 baseline must survive the first edits), and      *)
(* never hands a revision to another author.                               *)
CheckpointsFrozen ==
  [][\A v \in DOMAIN history \cap DOMAIN history' :
       history'[v] # history[v] =>
         /\ history[v].source = "edit"
         /\ history'[v] = [history[v] EXCEPT !.text = history'[v].text]]_vars

(* When no handler is running and no prune has failed since one last       *)
(* looked for its limit, at most maxDocumentRevisions are stored: every    *)
(* append is followed by a prune that sees it, however many run at once.   *)
HistoryBounded == InFlight = {} /\ ~unpruned => Cardinality(DOMAIN history) <= Keep

(* A handler that amends found a revision by its own author, and by the    *)
(* time of the UPDATE it still rewrites only that author's words           *)
(* (canCoalesceRevision).                                                  *)
AmendsOwnRevisions ==
  [][\A r \in Requests, v \in DOMAIN history \cap DOMAIN history' :
       pc[r] = "amend" /\ pc'[r] = "amended" /\ history[v].id = target[r] =>
         history[v].author = author[r]]_vars

(* project_documents.go: "Version is the history version of the current    *)
(* body".                                                                  *)
VersionMatchesBody ==
  /\ docVersion \in DOMAIN history
  /\ history[docVersion].text = body

(* ApplyRevisionMeta's promise: whatever calls failed before, and whatever *)
(* races left the redundant columns or the history behind the body, the    *)
(* next save that gets through with no other beside it heals them.         *)
NextSaveHeals ==
  [][\A r \in alone :
       pc[r] = "meta" /\ pc'[r] = "done" /\ docVersion' = version[r] =>
         VersionMatchesBody']_vars

-----------------------------------------------------------------------------
(* What the properties above rest on, as an inductive invariant.           *)

Appended == {"prune", "delete", "meta", "done"}

(* A revision ID is given out once, by the request that appended it.       *)
IdsUnique ==
  /\ \A u, v \in DOMAIN history : history[u].id = history[v].id => u = v
  /\ \A v \in DOMAIN history :
       history[v].id = Seed \/ pc[history[v].id] \in Appended

(* A request about to amend holds the ID of an edit, stored or pruned, of  *)
(* its own author.                                                         *)
AmendTargetsEdit ==
  \A r \in Requests : pc[r] = "amend" =>
    /\ target[r] = Seed \/ pc[target[r]] \in Appended
    /\ \A v \in DOMAIN history : history[v].id = target[r] =>
         history[v].source = "edit" /\ history[v].author = author[r]

(* Once located, a prune limit stays safe: Keep revisions are above it.    *)
LimitsLeaveKeep ==
  \A r \in Requests : pc[r] = "delete" => Cardinality(AtLeast(limit[r])) >= Keep

HasLatest ==
  DOMAIN history # {} => \E v \in DOMAIN history : \A u \in DOMAIN history : u <= v

(* A handler past its first call has a document to reread, a revision's    *)
(* author, and a version to append under.                                  *)
UnderWay ==
  \A r \in Requests :
    /\ pc[r] # "new" => author[r] \in Authors /\ body \in Texts
    /\ pc[r] = "append" => version[r] >= 1

RevisionsInv ==
  /\ TypeOK
  /\ UnderWay
  /\ IdsUnique
  /\ AmendTargetsEdit
  /\ LimitsLeaveKeep
  /\ HasLatest

(* The prune that last looked for its limit has reached it, or will leave  *)
(* at most Keep revisions: what HistoryBounded rests on.                   *)
PruneToCome ==
  ~unpruned /\ (\A r \in Requests : pc[r] # "prune") =>
    \/ Cardinality(DOMAIN history) <= Keep
    \/ \E r \in Requests : pc[r] = "delete" /\ Cardinality(AtLeast(limit[r])) <= Keep

Promise == INSTANCE RevisionHistory
           WITH history <- history, Keep <- Keep, Texts <- Texts,
                Authors <- Authors, RevisionIds <- RevisionIds

(* The handlers, in any interleaving and with any failing call, implement  *)
(* the history promised to the author.                                     *)
HistoryPromise == Promise!Spec
=============================================================================
