------------------------- MODULE Projects_proofs ---------------------------
(***************************************************************************)
(* Proofs about ProjectLifecycle and SearchIndex, for any number of review *)
(* pages, documents, handlers and goroutines; and about CodeBrowser, for   *)
(* any archives, requests and limits: the cache, the files that open, and  *)
(* the tree.  Sums and paths are folds, recursive functions on the subsets *)
(* of a finite set; the lemmas about them are shown by a least subset that *)
(* would refute them.                                                      *)
(***************************************************************************)
EXTENDS SearchIndex, CodeBrowser, FiniteSetTheorems, TLAPS

-----------------------------------------------------------------------------
(* The life cycle.                                                         *)

Unpublished == {"none", "draft", "pending_review", "rejected", "gone"}

(* While the project waits its texts are the submitted ones, and a page    *)
(* loaded in this submission shows them, because Update refuses.           *)
PagesCurrent ==
  /\ status = "pending_review" => content = submitted
  /\ \A a \in Desks : shown[a].submission <= submissions
  /\ \A a \in Desks : status = "pending_review" /\ shown[a] # Empty /\ shown[a].submission = submissions =>
       shown[a].edit = content

LifeInv ==
  /\ TypeOKLifecycle /\ OneReviewEach /\ PagesCurrent /\ TextsAsSubmitted
  /\ status = "none" => content = 0 /\ submissions = 0
  /\ status \in {"gone", "none"} => reviews = submissions

LEMMA EmptyPage == Empty \in [edit : 0..MaxContent, submission : 0..MaxSubmissions] /\ Empty.submission = 0
BY EditsAssumption DEF Empty

LEMMA InitLife == InitLifecycle => LifeInv
<1> SUFFICES ASSUME InitLifecycle PROVE LifeInv
  OBVIOUS
<1>1. \A a \in Desks : shown[a] = Empty
  BY DEF InitLifecycle
<1>2. shown \in [Desks -> [edit : 0..MaxContent, submission : 0..MaxSubmissions]]
  BY EmptyPage DEF InitLifecycle
<1>3. TypeOKLifecycle
  <2>1. 0 \in 0..MaxContent /\ 0 \in 0..MaxSubmissions /\ 0 \in 0..0
    BY EditsAssumption
  <2>2. content = 0 /\ submissions = 0 /\ submitted = 0 /\ reviews = 0 /\ unseen = FALSE /\ status = "none"
    BY DEF InitLifecycle
  <2>3. reviews \in 0..submissions /\ submitted \in 0..content
    BY <2>1, <2>2
  <2> QED BY <1>2, <2>1, <2>2, <2>3 DEF TypeOKLifecycle
<1>4. PagesCurrent
  BY <1>1, EmptyPage DEF InitLifecycle, PagesCurrent
<1>5. OneReviewEach /\ TextsAsSubmitted
  BY DEF InitLifecycle, OneReviewEach, TextsAsSubmitted
<1> QED BY <1>3, <1>4, <1>5 DEF InitLifecycle, LifeInv

LEMMA AuthorLife ==
  ASSUME LifeInv, AuthorStep \/ UpdatePublishedDescription \/ Takedown
  PROVE  LifeInv'
<1> USE EditsAssumption DEF LifeInv, TypeOKLifecycle, OneReviewEach, PagesCurrent, TextsAsSubmitted
<1>1. CASE Create
  BY <1>1 DEF Create
<1>2. CASE Update
  BY <1>2 DEF Update, Editable
<1>3. CASE Submit
  BY <1>3 DEF Submit, Editable
<1>4. CASE DeleteDraft
  BY <1>4 DEF DeleteDraft, Editable
<1>5. CASE UpdatePublishedDescription
  BY <1>5 DEF UpdatePublishedDescription
<1>6. CASE Takedown
  BY <1>6 DEF Takedown
<1> QED BY <1>1, <1>2, <1>3, <1>4, <1>5, <1>6 DEF AuthorStep

LEMMA PageLife ==
  ASSUME LifeInv, NEW a \in Desks, ListPending(a)
  PROVE  LifeInv'
<1>1. PICK page : page = IF status = "pending_review"
                         THEN [edit |-> content, submission |-> submissions] ELSE Empty
  OBVIOUS
<1>2. /\ page \in [edit : 0..MaxContent, submission : 0..MaxSubmissions]
      /\ page.submission <= submissions
      /\ status = "pending_review" => page.edit = content
  BY <1>1, EmptyPage DEF LifeInv, TypeOKLifecycle
<1>3. shown' = [shown EXCEPT ![a] = page] /\ UNCHANGED <<status, content, submissions, submitted, reviews, unseen>>
  BY <1>1 DEF ListPending
<1> QED BY <1>2, <1>3
      DEF LifeInv, TypeOKLifecycle, OneReviewEach, PagesCurrent, TextsAsSubmitted

LEMMA ReviewLife ==
  ASSUME LifeInv, NEW a \in Desks, NEW verdict \in Verdicts, Review(a, verdict)
  PROVE  LifeInv'
<1>1. /\ status = "pending_review" /\ shown[a] # Empty
      /\ status' = verdict /\ reviews' = reviews + 1 /\ shown' = [shown EXCEPT ![a] = Empty]
      /\ content' = content /\ submissions' = submissions /\ submitted' = submitted /\ verdict \in {"published", "rejected"}
  BY DEF Review, Decided, Verdicts
<1>2. unseen' = FALSE
  BY DEF Review, Decided, LifeInv, PagesCurrent, TextsAsSubmitted
<1>3. shown' \in [Desks -> [edit : 0..MaxContent, submission : 0..MaxSubmissions]]
      /\ \A b \in Desks : shown'[b].submission <= submissions
  BY <1>1, EmptyPage DEF LifeInv, TypeOKLifecycle, PagesCurrent
<1>4. reviews = submissions - 1 /\ reviews \in Int /\ submissions \in Nat
  BY <1>1 DEF LifeInv, TypeOKLifecycle, OneReviewEach
<1>5. TypeOKLifecycle'
  <2>1. /\ status' \in {"published", "rejected"} /\ content' \in 0..MaxContent
        /\ submissions' \in 0..MaxSubmissions /\ submitted' \in 0..content' /\ unseen' \in BOOLEAN
    BY <1>1, <1>2 DEF LifeInv, TypeOKLifecycle
  <2>2. reviews' \in 0..submissions'
    BY <1>1, <1>4 DEF LifeInv, TypeOKLifecycle
  <2> QED BY <1>3, <2>1, <2>2 DEF TypeOKLifecycle
<1>6. PagesCurrent' /\ OneReviewEach' /\ TextsAsSubmitted'
  BY <1>1, <1>2, <1>3, <1>4 DEF PagesCurrent, OneReviewEach, TextsAsSubmitted
<1> QED BY <1>1, <1>5, <1>6 DEF LifeInv

LEMMA UnchangedLife == LifeInv /\ UNCHANGED lifecycle => LifeInv'
BY DEF lifecycle, LifeInv, TypeOKLifecycle, OneReviewEach, PagesCurrent, TextsAsSubmitted

(* What any step does to the life of the project. *)
LifeStep ==
  \/ AuthorStep
  \/ \E a \in Desks : ListPending(a)
  \/ \E a \in Desks, verdict \in Verdicts : Review(a, verdict)
  \/ Takedown
  \/ UpdatePublishedDescription
  \/ UNCHANGED lifecycle

LEMMA NextLife == [Next]_vars => LifeStep
BY DEF Next, vars, LifeStep, Open, SaveDocument, Stored, DeleteDocument, SaveBody, End, Author,
       Decide, Reindex, IndexOne, RemoveOne, ListPublished, Clear, ReadDocuments, Fill, Fail, Crash

LEMMA StepLife == LifeInv /\ LifeStep => LifeInv'
BY AuthorLife, PageLife, ReviewLife, UnchangedLife DEF LifeStep

LEMMA LifeAlways == Spec => []LifeInv
<1>1. Init => LifeInv
  BY InitLife DEF Init
<1>2. LifeInv /\ [Next]_vars => LifeInv'
  BY NextLife, StepLife
<1> QED BY <1>1, <1>2, PTL DEF Spec

(* Each submission is decided once, however many admins have its card on   *)
(* their pages (Review's UPDATE is conditional on the status).             *)
THEOREM DecidedOnce == Spec => []OneReviewEach
<1>1. LifeInv => OneReviewEach
  BY DEF LifeInv
<1> QED BY <1>1, LifeAlways, PTL

(* A project's row is published with the texts its author submitted, which *)
(* a page loaded since shows, for any number of pages, edits and           *)
(* submissions: nobody edits a row that waits for its verdict.  Documents  *)
(* are apart, see TextsAsSubmitted.                                        *)
THEOREM SubmittedTextsPublished == Spec => []TextsAsSubmitted
<1>1. LifeInv => TextsAsSubmitted
  BY DEF LifeInv
<1> QED BY <1>1, LifeAlways, PTL

-----------------------------------------------------------------------------
(* The life cycle implements the catalog of the in-memory repository.      *)

Row == [id |-> 1, slug |-> 1, text |-> content, status |-> status]
Present == status \notin {"none", "gone"}
Rows == IF status \in {"none", "gone"} THEN {} ELSE {Row}

LEMMA StepCatalog == LifeInv /\ LifeStep => [Catalog!CatalogNext]_Rows
<1> SUFFICES ASSUME LifeInv, LifeStep PROVE Catalog!CatalogNext \/ Rows' = Rows
  OBVIOUS
<1> USE DEF Rows, Row
<1>0. content \in 0..MaxContent /\ content' \in 0..MaxContent
  BY StepLife DEF LifeInv, TypeOKLifecycle
<1>1. CASE Create
  <2>1. Catalog!Create(1, 1, content')
    BY <1>1 DEF Create, Catalog!Create, Catalog!SlugFree
  <2> QED BY <1>0, <2>1 DEF Catalog!CatalogNext
<1>2. ASSUME status \notin {"none", "gone"}, Rows' = {Row'}
      PROVE  \A p : p = Row => (Catalog!Replaced(p, Row') /\ p \in Rows)
  BY <1>2 DEF Catalog!Replaced
<1>3. CASE Update
  <2>1. /\ status \in {"draft", "rejected"} /\ status' = "draft" /\ Rows' = {Row'}
    BY <1>3 DEF Update, Editable
  <2>2. Catalog!Update(Row, 1, content')
    BY <1>2, <2>1 DEF Catalog!Update, Catalog!Mutable, Catalog!SlugFree
  <2> QED BY <1>0, <1>2, <2>1, <2>2 DEF Catalog!CatalogNext
<1>4. CASE Submit
  <2>1. /\ status \in {"draft", "rejected"} /\ Rows' = {Row'} /\ Row' = [Row EXCEPT !.status = "pending_review"]
    BY <1>4 DEF Submit, Editable
  <2>2. Catalog!Submit(Row)
    BY <1>2, <2>1 DEF Catalog!Submit, Catalog!Mutable
  <2> QED BY <1>2, <2>1, <2>2 DEF Catalog!CatalogNext
<1>5. CASE DeleteDraft
  <2>1. status \in {"draft", "rejected"} /\ Rows' = {} /\ Rows = {Row}
    BY <1>5 DEF DeleteDraft, Editable
  <2>2. Catalog!DeleteDraft(Row)
    BY <2>1 DEF Catalog!DeleteDraft, Catalog!Mutable
  <2> QED BY <2>1, <2>2 DEF Catalog!CatalogNext
<1>6. ASSUME NEW a \in Desks, NEW verdict \in Verdicts, Review(a, verdict)
      PROVE  Catalog!CatalogNext
  <2>1. /\ status = "pending_review" /\ verdict \in {"published", "rejected"}
        /\ Rows' = {Row'} /\ Row' = [Row EXCEPT !.status = verdict]
    BY <1>6 DEF Review, Decided, Verdicts
  <2>2. Catalog!Review(Row)
    BY <1>2, <2>1 DEF Catalog!Review
  <2> QED BY <1>2, <2>1, <2>2 DEF Catalog!CatalogNext
<1>7. CASE Takedown
  <2>1. /\ status \notin {"none", "gone", "archived"}
        /\ Rows' = {Row'} /\ Row' = [Row EXCEPT !.status = "archived"]
    BY <1>7 DEF Takedown
  <2>2. Catalog!Takedown(Row)
    BY <1>2, <2>1 DEF Catalog!Takedown
  <2> QED BY <1>2, <2>1, <2>2 DEF Catalog!CatalogNext
<1>8. CASE UpdatePublishedDescription
  <2>1. status = "published" /\ Rows' = {Row'} /\ Row' = [Row EXCEPT !.text = content']
    BY <1>8 DEF UpdatePublishedDescription
  <2>2. Catalog!UpdatePublishedDescription(Row, content')
    BY <1>2, <2>1 DEF Catalog!UpdatePublishedDescription
  <2> QED BY <1>0, <1>2, <2>1, <2>2 DEF Catalog!CatalogNext
<1>9. CASE (\E a \in Desks : ListPending(a)) \/ UNCHANGED lifecycle
  BY <1>9 DEF ListPending, lifecycle
<1> QED BY <1>1, <1>3, <1>4, <1>5, <1>6, <1>7, <1>8, <1>9 DEF LifeStep, AuthorStep

(* The guarded UPDATEs of the MySQL repository keep what the in-memory     *)
(* repository promises of each call, with handlers, admins and a crash in  *)
(* any order.                                                              *)
THEOREM CatalogRefinement == Spec => CatalogKept
<1>1. Init => Catalog!CatalogInit
  BY DEF Init, InitLifecycle, Catalog!CatalogInit
<1>2. LifeInv /\ [Next]_vars => [Catalog!CatalogNext]_Rows
  BY NextLife, StepCatalog
<1> QED BY <1>1, <1>2, LifeAlways, PTL DEF Spec, CatalogKept, Catalog!CatalogSpec, Rows, Row

-----------------------------------------------------------------------------
(* The index and the goroutines.                                           *)

FunInv ==
  /\ index = [i \in Ids |-> index[i]] /\ documents = [d \in Docs |-> documents[d]]
  /\ handler = [h \in Handlers |-> handler[h]] /\ task = [s \in Slots |-> task[s]]
  /\ drifted \in BOOLEAN

(* What a goroutine may have left to do. *)
Known(t) ==
  \/ t = Free
  \/ t.op \in {"index", "remove"} /\ t.id \in Ids
  \/ t.op \in {"list", "read"}
  \/ t.op = "clear" /\ t.publish \in BOOLEAN
  \/ t.op = "fill" /\ t = [op |-> "fill", records |-> t.records] /\ \A r \in t.records : r.id \in Ids

(* Before it is published, a project has nobody who could index it. *)
Harmless(t) == t.op \in {"free", "remove", "list"} \/ (t.op = "clear" /\ ~t.publish)

DraftsInv ==
  status \in Unpublished =>
    /\ index = Nothing
    /\ \A s \in Slots : Harmless(task[s])
    /\ \A h \in Handlers : ~handler[h].published /\ (handler[h].open => handler[h].doc # Body)

(* i mirrors MySQL. *)
Target(d) == IF d \in Live THEN documents[d] ELSE 0
Mirrors(i) ==
  /\ status = "published" =>
       /\ \A d \in Docs : i[d] = Target(d)
       /\ (\A d \in Docs : documents[d] = 0) => i[Body] = content
  /\ status # "published" => i = Nothing

Owed(rs) ==
  /\ status = "published"
  /\ \A r \in rs :
       /\ r.id # Body => r.id \in Live /\ r.text = documents[r.id]
       /\ r.id = Body => r.text = content
  /\ \A d \in Docs : index[d] = Target(d) \/ \E r \in rs : r.id = d
  /\ (\A d \in Docs : documents[d] = 0) => index[Body] = content \/ \E r \in rs : r.id = Body

(* A lone goroutine leaves a mirror. *)
Fits(t) ==
  /\ t.op = "index" => \A i : i = [index EXCEPT ![t.id] = t.text] => Mirrors(i)
  /\ t.op = "remove" => \A i : i = [index EXCEPT ![t.id] = 0] => Mirrors(i)
  /\ t.op = "list" => (status # "published" => index = Nothing)
  /\ t.op = "clear" => (t.publish <=> status = "published") /\ (t.publish => t.text = content)
  /\ t.op = "read" => index = Nothing /\ status = "published" /\ t.text = content
  /\ t.op = "fill" => Owed(t.records)

AllFree == \A s \in Slots : task[s] = Free
Alone(s) == task[s] # Free /\ \A o \in Slots \ {s} : task[o] = Free

MirrorInv ==
  ~drifted =>
    \/ AllFree /\ Mirrors(index)
    \/ \E s \in Slots : Alone(s) /\ Fits(task[s])

IndexInv == FunInv /\ DraftsInv /\ MirrorInv /\ \A s \in Slots : Known(task[s])

SearchInv == LifeInv /\ IndexInv

LEMMA Ops ==
  /\ Free.op = "free" /\ \A i, x : [op |-> "index", id |-> i, text |-> x] # Free
  /\ \A i : [op |-> "remove", id |-> i] # Free
  /\ [op |-> "list"] # Free /\ \A x : [op |-> "read", text |-> x] # Free
  /\ \A b, x : [op |-> "clear", publish |-> b, text |-> x] # Free
  /\ \A rs : [op |-> "fill", records |-> rs] # Free
  /\ ~Closed.published /\ ~Closed.open
BY DEF Free, Closed

LEMMA Excepted ==
  ASSUME NEW S, NEW f, f = [x \in S |-> f[x]], NEW a \in S, NEW b, NEW g, g = [f EXCEPT ![a] = b]
  PROVE  g = [x \in S |-> g[x]] /\ g[a] = b /\ \A x \in S \ {a} : g[x] = f[x]
OBVIOUS

(* The status a project has been through before: not published once more.  *)
LEMMA Statuses ==
  ASSUME LifeInv, LifeStep
  PROVE  /\ status' \in Unpublished => status \in Unpublished
         /\ status \in Unpublished \cup {"published", "archived"}
BY DEF LifeInv, TypeOKLifecycle, LifeStep, AuthorStep, Create, Update, Editable, Submit, DeleteDraft, ListPending,
       Review, Decided, Verdicts, Takedown, UpdatePublishedDescription, lifecycle, Unpublished

-----------------------------------------------------------------------------
(* A handler starts a goroutine, or changes nothing the index shows.       *)

LEMMA RunIs ==
  ASSUME FunInv, NEW t, Run(t)
  PROVE  \E s \in Slots :
           /\ task[s] = Free /\ task' = [o \in Slots |-> task'[o]] /\ task'[s] = t
           /\ \A o \in Slots \ {s} : task'[o] = task[o]
<1>1. PICK s \in Slots : task[s] = Free /\ task' = [task EXCEPT ![s] = t]
  BY DEF Run
<1> QED BY <1>1, Excepted DEF FunInv

(* ... one that leaves a mirror behind, unless requests overlap. *)
LEMMA RunMirrors ==
  ASSUME SearchInv, NEW t, Run(t), t # Free,
         ~drifted' => AllFree /\ Fits(t)'
  PROVE  MirrorInv'
<1>1. PICK s \in Slots :
           /\ task[s] = Free /\ task' = [o \in Slots |-> task'[o]] /\ task'[s] = t
           /\ \A o \in Slots \ {s} : task'[o] = task[o]
  BY RunIs DEF SearchInv, IndexInv
<1> SUFFICES ASSUME ~drifted' PROVE Alone(s)' /\ Fits(task[s])'
  BY <1>1 DEF MirrorInv
<1>2. Alone(s)'
  BY <1>1 DEF AllFree, Alone
<1>3. Fits(task[s])'
  BY <1>1 DEF Fits
<1> QED BY <1>2, <1>3

LEMMA RunDrafts ==
  ASSUME SearchInv, LifeStep, NEW t, Run(t), Known(t),
         status' \in Unpublished => index' = Nothing /\ Harmless(t),
         UNCHANGED handler \/ handler' = [h \in Handlers |-> Closed]
  PROVE  DraftsInv' /\ (\A s \in Slots : Known(task[s]))' /\ task' = [o \in Slots |-> task'[o]]
<1>1. PICK s \in Slots :
           /\ task[s] = Free /\ task' = [o \in Slots |-> task'[o]] /\ task'[s] = t
           /\ \A o \in Slots \ {s} : task'[o] = task[o]
  BY RunIs DEF SearchInv, IndexInv
<1>2. DraftsInv'
  BY <1>1, Ops, Statuses DEF SearchInv, IndexInv, DraftsInv, Harmless
<1>3. (\A o \in Slots : Known(task[o]))'
  BY <1>1 DEF SearchInv, IndexInv, Known
<1> QED BY <1>1, <1>2, <1>3

LEMMA HandlerInv ==
  ASSUME SearchInv, NEW h \in Handlers, (\E d \in Ids : Open(h, d)) \/ End(h)
  PROVE  IndexInv'
<1>1. PICK x : /\ handler' = [handler EXCEPT ![h] = x]
               /\ x.published => status = "published"
               /\ x.open /\ x.doc = Body => status = "published"
  <2>1. CASE End(h)
    <3>1. PICK x : x = Closed
      OBVIOUS
    <3> QED BY <2>1, <3>1, Ops DEF End
  <2>2. CASE \E d \in Ids : Open(h, d)
    <3>1. PICK d \in Ids : Open(h, d)
      BY <2>2
    <3>2. PICK b : b = (status = "published")
      OBVIOUS
    <3>3. PICK x : x = [doc |-> d, open |-> TRUE, published |-> b]
      OBVIOUS
    <3>4. x.doc = d /\ x.published = b
      BY <3>3
    <3>5. handler' = [handler EXCEPT ![h] = x]
      BY <3>1, <3>2, <3>3 DEF Open
    <3>6. d = Body => status = "published"
      BY <3>1 DEF Open
    <3> QED BY <3>2, <3>4, <3>5, <3>6
  <2> QED BY <2>1, <2>2
<1>2. UNCHANGED <<lifecycle, documents, index, task, drifted>>
  BY DEF Open, End
<1>3. /\ handler' = [k \in Handlers |-> handler'[k]] /\ handler'[h] = x
      /\ \A k \in Handlers \ {h} : handler'[k] = handler[k]
  BY <1>1, Excepted DEF SearchInv, IndexInv, FunInv
<1>4. FunInv' /\ (\A s \in Slots : Known(task[s]))'
  BY <1>2, <1>3 DEF SearchInv, IndexInv, FunInv, Known
<1>5. DraftsInv'
  BY <1>1, <1>2, <1>3 DEF SearchInv, IndexInv, DraftsInv, Unpublished, lifecycle, Harmless
<1>6. MirrorInv'
  BY <1>2 DEF SearchInv, IndexInv, MirrorInv, AllFree, Alone, Fits, Owed, Mirrors, Target, Live, lifecycle
<1> QED BY <1>4, <1>5, <1>6 DEF IndexInv

LEMMA StoredIs ==
  ASSUME SearchInv, NEW h \in Handlers, NEW d \in Docs, Stored(h, d)
  PROVE  /\ documents' = [x \in Docs |-> documents'[x]] /\ documents'[d] = documents[d] + 1
         /\ documents'[d] > 0 /\ documents'[d] # 0
         /\ \A x \in Docs \ {d} : documents'[x] = documents[x]
         /\ \A x \in Docs \ {d} : Target(x)' = Target(x)
         /\ Target(d)' = documents[d] + 1
         /\ d \in Ids /\ UNCHANGED <<lifecycle, index, handler>>
         /\ drifted' \in BOOLEAN
         /\ ~drifted' => ~drifted /\ AllFree /\ handler[h].published = (status = "published")
<1>1. /\ documents[d] \in 0..MaxText - 1 /\ documents' = [documents EXCEPT ![d] = documents[d] + 1]
      /\ UNCHANGED <<lifecycle, index, handler>>
      /\ drifted' = (drifted \/ (handler[h].published # (status = "published")) \/ \E s \in Slots : task[s] # Free)
  BY DEF Stored, Overlap
<1>2. /\ documents' = [x \in Docs |-> documents'[x]] /\ documents'[d] = documents[d] + 1
      /\ \A x \in Docs \ {d} : documents'[x] = documents[x]
  BY <1>1, Excepted DEF SearchInv, IndexInv, FunInv
<1>3. documents'[d] > 0 /\ documents'[d] # 0
  BY <1>1, <1>2
<1>4. /\ \A x \in Docs \ {d} : Target(x)' = Target(x)
      /\ Target(d)' = documents[d] + 1
  BY <1>2, <1>3 DEF Target, Live
<1>5. drifted' \in BOOLEAN /\ (~drifted' => ~drifted /\ AllFree /\ handler[h].published = (status = "published"))
  BY <1>1 DEF SearchInv, IndexInv, FunInv, AllFree
<1> QED BY <1>1, <1>2, <1>3, <1>4, <1>5 DEF Ids

LEMMA SaveDocumentInv ==
  ASSUME SearchInv, NEW h \in Handlers, NEW d \in Docs, SaveDocument(h, d)
  PROVE  IndexInv'
<1>1. Stored(h, d)
  BY DEF SaveDocument
<1>2. LifeStep
  BY <1>1 DEF Stored, LifeStep
<1>3. CASE handler[h].published
  <2>1. PICK t : t = [op |-> "index", id |-> d, text |-> documents[d] + 1]
    OBVIOUS
  <2>2. Run(t) /\ t # Free /\ t.op = "index" /\ t.id = d /\ t.text = documents[d] + 1
    BY <1>3, <2>1, Ops DEF SaveDocument
  <2>3. Known(t) /\ status \notin Unpublished
    BY <1>3, <2>2, StoredIs, <1>1 DEF Known, SearchInv, IndexInv, DraftsInv
  <2>4. DraftsInv' /\ (\A s \in Slots : Known(task[s]))' /\ task' = [o \in Slots |-> task'[o]]
    <3>1. status' \notin Unpublished
      BY <2>3, StoredIs, <1>1 DEF lifecycle
    <3> QED BY <1>1, <1>2, <2>2, <2>3, <3>1, StoredIs, RunDrafts
  <2>5. FunInv'
    BY <1>1, <2>4, StoredIs DEF SearchInv, IndexInv, FunInv
  <2>6. ASSUME ~drifted' PROVE AllFree /\ Fits(t)'
    <3>1. AllFree /\ status' = "published" /\ Mirrors(index)
      BY <1>1, <1>3, <2>6, StoredIs DEF SearchInv, IndexInv, MirrorInv, AllFree, Alone, lifecycle
    <3>2. ASSUME NEW i, i = [index EXCEPT ![d] = documents[d] + 1]
          PROVE  Mirrors(i)'
      <4>1. i[d] = documents[d] + 1 /\ \A x \in Docs \ {d} : i[x] = index[x]
        BY <3>2, Excepted DEF SearchInv, IndexInv, FunInv, Ids
      <4>2. status = "published"
        BY <3>1, StoredIs, <1>1 DEF lifecycle
      <4>3. \A x \in Docs : i[x] = Target(x)'
        BY <3>1, <4>1, <4>2, StoredIs, <1>1 DEF Mirrors
      <4> QED BY <3>1, <4>3, StoredIs, <1>1 DEF Mirrors
    <3> QED BY <2>2, <3>1, <3>2, StoredIs, <1>1 DEF Fits
  <2>7. MirrorInv'
    BY <2>2, <2>6, RunMirrors
  <2> QED BY <2>4, <2>5, <2>7 DEF IndexInv
<1>4. CASE ~handler[h].published
  <2>1. task' = task
    BY <1>4 DEF SaveDocument
  <2>2. FunInv' /\ (\A s \in Slots : Known(task[s]))'
    BY <1>1, <2>1, StoredIs DEF SearchInv, IndexInv, FunInv, Known
  <2>3. DraftsInv'
    BY <1>1, <2>1, StoredIs DEF SearchInv, IndexInv, DraftsInv, lifecycle, Harmless
  <2>4. MirrorInv'
    <3> SUFFICES ASSUME ~drifted' PROVE AllFree' /\ Mirrors(index)'
      BY DEF MirrorInv
    <3>1. AllFree /\ status # "published" /\ Mirrors(index) /\ status' = status
      BY <1>1, <1>4, StoredIs DEF SearchInv, IndexInv, MirrorInv, AllFree, Alone, lifecycle
    <3> QED BY <1>1, <2>1, <3>1, StoredIs DEF AllFree, Mirrors
  <2> QED BY <2>2, <2>3, <2>4 DEF IndexInv
<1> QED BY <1>3, <1>4

LEMMA SaveBodyInv ==
  ASSUME SearchInv, NEW h \in Handlers, SaveBody(h)
  PROVE  IndexInv'
<1>1. PICK t : t = [op |-> "index", id |-> Body, text |-> content + 1]
  OBVIOUS
<1>2. /\ status = "published" /\ status' = status /\ content' = content + 1
      /\ Run(t) /\ UNCHANGED <<documents, index, handler>>
      /\ LifeStep
  BY <1>1 DEF SaveBody, UpdatePublishedDescription, LifeStep
<1>3. drifted' \in BOOLEAN /\ (~drifted' => ~drifted /\ AllFree)
  BY DEF SaveBody, Overlap, SearchInv, IndexInv, FunInv, AllFree
<1>4. t # Free /\ t.op = "index" /\ t.id = Body /\ t.text = content + 1 /\ Known(t)
  BY <1>1, Ops DEF Known, Ids
<1>5. DraftsInv' /\ (\A s \in Slots : Known(task[s]))' /\ task' = [o \in Slots |-> task'[o]]
  <2>1. status' \notin Unpublished
    BY <1>2 DEF Unpublished
  <2> QED BY <1>2, <1>4, <2>1, RunDrafts
<1>6. FunInv'
  BY <1>2, <1>3, <1>5 DEF SearchInv, IndexInv, FunInv
<1>7. ASSUME ~drifted' PROVE AllFree /\ Fits(t)'
  <2>1. AllFree /\ Mirrors(index)
    BY <1>3, <1>7 DEF SearchInv, IndexInv, MirrorInv, AllFree, Alone
  <2>2. ASSUME NEW i, i = [index EXCEPT ![Body] = content + 1]
        PROVE  Mirrors(i)'
    <3>1. i[Body] = content + 1 /\ \A x \in Docs : i[x] = index[x]
      BY <2>2, Excepted, BodyAssumption DEF SearchInv, IndexInv, FunInv, Ids
    <3>2. \A x \in Docs : i[x] = Target(x)'
      BY <1>2, <2>1, <3>1 DEF Mirrors, Target, Live
    <3> QED BY <1>2, <3>1, <3>2 DEF Mirrors
  <2> QED BY <1>2, <1>4, <2>1, <2>2 DEF Fits
<1>8. MirrorInv'
  BY <1>2, <1>4, <1>7, RunMirrors
<1> QED BY <1>5, <1>6, <1>8 DEF IndexInv

LEMMA DeleteDocumentInv ==
  ASSUME SearchInv, NEW h \in Handlers, NEW d \in Docs, DeleteDocument(h, d)
  PROVE  IndexInv'
<1>1. PICK t : t = [op |-> "remove", id |-> d]
  OBVIOUS
<1>2. /\ Run(t) /\ UNCHANGED <<lifecycle, index, handler>> /\ LifeStep /\ status' = status
      /\ documents' = [documents EXCEPT ![d] = -1]
  BY <1>1 DEF DeleteDocument, LifeStep, lifecycle
<1>3. drifted' \in BOOLEAN /\ (~drifted' => ~drifted /\ AllFree)
  BY DEF DeleteDocument, Overlap, SearchInv, IndexInv, FunInv, AllFree
<1>4. t # Free /\ t.op = "remove" /\ t.id = d /\ Known(t) /\ Harmless(t)
  BY <1>1, Ops DEF Known, Ids, Harmless
<1>5. /\ documents' = [x \in Docs |-> documents'[x]] /\ documents'[d] = -1
      /\ \A x \in Docs \ {d} : documents'[x] = documents[x]
  BY <1>2, Excepted DEF SearchInv, IndexInv, FunInv
<1>6. DraftsInv' /\ (\A s \in Slots : Known(task[s]))' /\ task' = [o \in Slots |-> task'[o]]
  <2>1. status' \in Unpublished => index' = Nothing /\ Harmless(t)
    BY <1>2, <1>4 DEF SearchInv, IndexInv, DraftsInv
  <2> QED BY <1>2, <1>4, <2>1, RunDrafts
<1>7. FunInv'
  BY <1>2, <1>3, <1>5, <1>6 DEF SearchInv, IndexInv, FunInv
<1>8. ASSUME ~drifted' PROVE AllFree /\ Fits(t)'
  <2>1. AllFree /\ Mirrors(index)
    BY <1>3, <1>8 DEF SearchInv, IndexInv, MirrorInv, AllFree, Alone
  <2>2. ASSUME NEW i, i = [index EXCEPT ![d] = 0]
        PROVE  Mirrors(i)'
    <3>1. i[d] = 0 /\ (\A x \in Ids \ {d} : i[x] = index[x]) /\ i = [x \in Ids |-> i[x]]
      BY <2>2, Excepted DEF SearchInv, IndexInv, FunInv, Ids
    <3>2. CASE status = "published"
      <4>1. \A x \in Docs : i[x] = Target(x)'
        BY <1>5, <2>1, <3>1, <3>2 DEF Mirrors, Target, Live, Ids
      <4>2. documents'[d] # 0
        BY <1>5
      <4> QED BY <1>2, <3>2, <4>1, <4>2 DEF Mirrors
    <3>3. CASE status # "published"
      <4>1. \A x \in Ids : i[x] = 0
        BY <2>1, <3>1, <3>3 DEF Mirrors, Nothing
      <4>2. i = Nothing
        BY <3>1, <4>1 DEF Nothing
      <4> QED BY <1>2, <3>3, <4>2 DEF Mirrors
    <3> QED BY <3>2, <3>3
  <2> QED BY <1>2, <1>4, <2>1, <2>2 DEF Fits
<1>9. MirrorInv'
  BY <1>2, <1>4, <1>8, RunMirrors
<1> QED BY <1>6, <1>7, <1>9 DEF IndexInv

LEMMA DecideInv ==
  ASSUME SearchInv, Decide
  PROVE  IndexInv'
<1>1. PICK b \in BOOLEAN :
        /\ Run(Renewal(b))
        /\ b <=> status' = "published"
        /\ b \/ status' = "archived" \/ status \in Unpublished
        /\ LifeStep
  <2>1. CASE \E a \in Desks, verdict \in Verdicts :
          Review(a, verdict) /\ Run(Renewal(verdict = "published"))
    <3>1. PICK a \in Desks, verdict \in Verdicts :
            Review(a, verdict) /\ Run(Renewal(verdict = "published"))
      BY <2>1
    <3>2. status' = verdict /\ status \in Unpublished /\ LifeStep
      BY <3>1 DEF Review, Decided, Unpublished, LifeStep
    <3>3. PICK b : b = (verdict = "published")
      OBVIOUS
    <3>4. b \in BOOLEAN /\ Run(Renewal(b))
      BY <3>1, <3>3
    <3> QED BY <3>2, <3>3, <3>4
  <2>2. CASE Takedown /\ Run(Renewal(FALSE))
    BY <2>2 DEF Takedown, LifeStep
  <2> QED BY <2>1, <2>2 DEF Decide
<1>2. PICK t : t = Renewal(b)
  OBVIOUS
<1>3. /\ t # Free /\ t.op = "clear" /\ t.publish = b /\ Known(t) /\ (~b => Harmless(t))
      /\ b => t.text = content /\ content' = content
  <2>1. t # Free /\ t.op = "clear" /\ t.publish = b /\ (b => t.text = content)
    BY <1>2, Ops DEF Renewal
  <2>2. content' = content
    BY DEF Decide, Review, Decided, Takedown
  <2> QED BY <2>1, <2>2 DEF Known, Harmless
<1>4. /\ UNCHANGED <<documents, index, handler>>
      /\ drifted' \in BOOLEAN /\ (~drifted' => ~drifted /\ AllFree)
  BY DEF Decide, Overlap, SearchInv, IndexInv, FunInv, AllFree
<1>5. DraftsInv' /\ (\A s \in Slots : Known(task[s]))' /\ task' = [o \in Slots |-> task'[o]]
  <2>1. status' \in Unpublished => ~b /\ status \in Unpublished
    BY <1>1 DEF Unpublished
  <2>2. status' \in Unpublished => index' = Nothing /\ Harmless(t)
    BY <1>3, <1>4, <2>1 DEF SearchInv, IndexInv, DraftsInv
  <2>3. Run(t)
    BY <1>1, <1>2
  <2> QED BY <1>1, <1>3, <1>4, <2>2, <2>3, RunDrafts
<1>6. FunInv'
  BY <1>4, <1>5 DEF SearchInv, IndexInv, FunInv
<1>7. Fits(t)'
  BY <1>1, <1>3 DEF Fits
<1>8. MirrorInv'
  <2>1. Run(t)
    BY <1>1, <1>2
  <2> QED BY <1>3, <1>4, <1>7, <2>1, RunMirrors
<1> QED BY <1>5, <1>6, <1>8 DEF IndexInv

LEMMA ReindexInv ==
  ASSUME SearchInv, NEW recreate \in BOOLEAN, Reindex(recreate)
  PROVE  IndexInv'
<1>1. PICK t : t = [op |-> "list"]
  OBVIOUS
<1>2. /\ Run(t) /\ UNCHANGED <<lifecycle, documents, handler>> /\ LifeStep /\ status' = status
      /\ index' = index \/ index' = Nothing
  BY <1>1 DEF Reindex, LifeStep, lifecycle
<1>3. t # Free /\ t.op = "list" /\ Known(t) /\ Harmless(t)
  BY <1>1, Ops DEF Known, Harmless
<1>4. DraftsInv' /\ (\A s \in Slots : Known(task[s]))' /\ task' = [o \in Slots |-> task'[o]]
  <2>1. status' \in Unpublished => index' = Nothing /\ Harmless(t)
    BY <1>2, <1>3 DEF SearchInv, IndexInv, DraftsInv
  <2> QED BY <1>2, <1>3, <2>1, RunDrafts
<1>5. drifted' \in BOOLEAN
  BY DEF Reindex, Overlap, Quiet, SearchInv, IndexInv, FunInv
<1>6. FunInv'
  <2>1. index' = [i \in Ids |-> index'[i]]
    BY <1>2 DEF SearchInv, IndexInv, FunInv, Nothing
  <2> QED BY <1>2, <1>4, <1>5, <2>1 DEF SearchInv, IndexInv, FunInv
<1>7. ASSUME ~drifted' PROVE AllFree /\ (status # "published" => index' = Nothing)
  <2>1. CASE recreate
    BY <1>7, <2>1 DEF Reindex, Quiet, AllFree
  <2>2. CASE ~recreate
    <3>1. AllFree /\ ~drifted /\ index' = index
      BY <1>7, <2>2 DEF Reindex, Overlap, AllFree
    <3> QED BY <3>1 DEF SearchInv, IndexInv, MirrorInv, AllFree, Alone, Mirrors
  <2> QED BY <2>1, <2>2
<1>8. MirrorInv'
  <2>1. ~drifted' => AllFree /\ Fits(t)'
    BY <1>2, <1>3, <1>7 DEF Fits
  <2> QED BY <1>2, <1>3, <2>1, RunMirrors
<1> QED BY <1>4, <1>6, <1>8 DEF IndexInv

(* The author works, or an admin loads a page: nothing is published yet. *)
LEMMA AuthorInv ==
  ASSUME SearchInv, Author
  PROVE  IndexInv'
<1>1. UNCHANGED <<documents, index, handler, task, drifted>>
  BY DEF Author, search
<1>2. FunInv' /\ (\A s \in Slots : Known(task[s]))'
  BY <1>1 DEF SearchInv, IndexInv, FunInv, Known
<1>3. CASE \E a \in Desks : ListPending(a)
  <2>1. UNCHANGED <<status, content>>
    BY <1>3 DEF ListPending
  <2>2. DraftsInv' /\ MirrorInv'
    BY <1>1, <2>1 DEF SearchInv, IndexInv, DraftsInv, Unpublished, Harmless,
                      MirrorInv, AllFree, Alone, Fits, Owed, Mirrors, Target, Live
  <2> QED BY <1>2, <2>2 DEF IndexInv
<1>4. CASE AuthorStep
  <2>1. status \in Unpublished /\ status' \in Unpublished /\ status' # "published"
    BY <1>4 DEF AuthorStep, Create, Update, Submit, DeleteDraft, Editable, Unpublished
  <2>2. index = Nothing /\ \A s \in Slots : Harmless(task[s])
    BY <2>1 DEF SearchInv, IndexInv, DraftsInv
  <2>3. DraftsInv'
    BY <1>1, <2>1 DEF SearchInv, IndexInv, DraftsInv, Harmless
  <2>4. ASSUME NEW s \in Slots, Alone(s), Fits(task[s]) PROVE Fits(task[s])'
    <3>1. index' = Nothing /\ task'[s] = task[s]
      BY <1>1, <2>2
    <3>2. CASE task[s].op = "remove"
      <4>1. ASSUME NEW i, i = [index EXCEPT ![task[s].id] = 0] PROVE i = Nothing
        BY <2>2, <4>1 DEF Nothing
      <4> QED BY <1>1, <2>1, <3>1, <3>2, <4>1 DEF Fits, Mirrors
    <3>3. CASE task[s].op \in {"free", "list"} \/ (task[s].op = "clear" /\ ~task[s].publish)
      BY <2>1, <3>1, <3>3 DEF Fits
    <3> QED BY <2>2, <3>2, <3>3 DEF Harmless
  <2>5. MirrorInv'
    <3>1. Mirrors(index)'
      BY <1>1, <2>1, <2>2 DEF Mirrors
    <3> QED BY <1>1, <2>4, <3>1 DEF SearchInv, IndexInv, MirrorInv, AllFree, Alone
  <2> QED BY <1>2, <2>3, <2>5 DEF IndexInv
<1> QED BY <1>3, <1>4 DEF Author

-----------------------------------------------------------------------------
(* A goroutine goes on, or ends.                                           *)

LEMMA BecomeInv ==
  ASSUME SearchInv, NEW s \in Slots, NEW t, Become(s, t), task[s] # Free, Known(t),
         UNCHANGED <<lifecycle, documents, handler, drifted>>,
         index' = [i \in Ids |-> index'[i]],
         status \in Unpublished => index' = Nothing /\ Harmless(t),
         Fits(task[s]) => \/ t = Free /\ Mirrors(index)'
                          \/ t # Free /\ Fits(t)'
  PROVE  IndexInv'
<1>1. /\ task' = [o \in Slots |-> task'[o]] /\ task'[s] = t
      /\ \A o \in Slots \ {s} : task'[o] = task[o]
  BY Excepted DEF Become, SearchInv, IndexInv, FunInv
<1>2. FunInv'
  BY <1>1 DEF SearchInv, IndexInv, FunInv
<1>3. (\A o \in Slots : Known(task[o]))'
  BY <1>1 DEF SearchInv, IndexInv, Known
<1>4. DraftsInv'
  BY <1>1 DEF SearchInv, IndexInv, DraftsInv, lifecycle, Harmless
<1>5. MirrorInv'
  <2> SUFFICES ASSUME ~drifted' PROVE (AllFree /\ Mirrors(index))' \/ (Alone(s) /\ Fits(task[s]))'
    BY DEF MirrorInv
  <2>1. Alone(s) /\ Fits(task[s])
    BY DEF SearchInv, IndexInv, MirrorInv, AllFree, Alone
  <2>2. CASE t = Free /\ Mirrors(index)'
    BY <1>1, <2>1, <2>2 DEF AllFree, Alone
  <2>3. CASE t # Free /\ Fits(t)'
    <3>1. Alone(s)'
      BY <1>1, <2>1, <2>3 DEF Alone
    <3>2. Fits(task[s])'
      BY <1>1, <2>3 DEF Fits
    <3> QED BY <3>1, <3>2
  <2> QED BY <2>1, <2>2, <2>3
<1> QED BY <1>2, <1>3, <1>4, <1>5 DEF IndexInv

LEMMA IndexOneInv ==
  ASSUME SearchInv, NEW s \in Slots, IndexOne(s)
  PROVE  IndexInv'
<1>1. /\ task[s].op = "index" /\ Become(s, Free) /\ UNCHANGED <<lifecycle, documents, handler, drifted>>
      /\ index' = [index EXCEPT ![task[s].id] = task[s].text]
  BY DEF IndexOne
<1>2. task[s] # Free /\ Known(Free) /\ status \notin Unpublished
  BY <1>1, Ops DEF Known, SearchInv, IndexInv, DraftsInv, Harmless
<1>3. index' = [i \in Ids |-> index'[i]]
  BY <1>1 DEF SearchInv, IndexInv, FunInv
<1>4. Fits(task[s]) => Mirrors(index)'
  <2>1. PICK i : i = index'
    OBVIOUS
  <2>2. Fits(task[s]) => Mirrors(i)
    BY <1>1, <2>1 DEF Fits
  <2> QED BY <1>1, <2>1, <2>2 DEF Mirrors, Target, Live, lifecycle
<1> QED BY <1>1, <1>2, <1>3, <1>4, BecomeInv

LEMMA RemoveOneInv ==
  ASSUME SearchInv, NEW s \in Slots, RemoveOne(s)
  PROVE  IndexInv'
<1>1. /\ task[s].op = "remove" /\ Become(s, Free) /\ UNCHANGED <<lifecycle, documents, handler, drifted>>
      /\ index' = [index EXCEPT ![task[s].id] = 0]
  BY DEF RemoveOne
<1>2. task[s] # Free /\ Known(Free) /\ Harmless(Free)
  BY <1>1, Ops DEF Known, Harmless
<1>3. index' = [i \in Ids |-> index'[i]]
  BY <1>1 DEF SearchInv, IndexInv, FunInv
<1>4. status \in Unpublished => index' = Nothing
  BY <1>1 DEF SearchInv, IndexInv, DraftsInv, Nothing
<1>5. Fits(task[s]) => Mirrors(index)'
  <2>1. PICK i : i = index'
    OBVIOUS
  <2>2. Fits(task[s]) => Mirrors(i)
    BY <1>1, <2>1 DEF Fits
  <2> QED BY <1>1, <2>1, <2>2 DEF Mirrors, Target, Live, lifecycle
<1> QED BY <1>1, <1>2, <1>3, <1>4, <1>5, BecomeInv

LEMMA ListPublishedInv ==
  ASSUME SearchInv, NEW s \in Slots, ListPublished(s)
  PROVE  IndexInv'
<1>1. /\ task[s].op = "list" /\ UNCHANGED <<lifecycle, documents, index, handler, drifted>>
      /\ task[s] # Free /\ index' = [i \in Ids |-> index'[i]] /\ status' = status
  BY Ops DEF ListPublished, SearchInv, IndexInv, FunInv, lifecycle
<1>2. status \in Unpublished => index' = Nothing
  BY <1>1 DEF SearchInv, IndexInv, DraftsInv
<1>3. CASE status = "published"
  <2>1. PICK t : t = Renewal(TRUE)
    OBVIOUS
  <2>2. /\ t # Free /\ t.op = "clear" /\ t.publish /\ t.text = content /\ Known(t)
        /\ status \notin Unpublished
    BY <1>3, <2>1, Ops DEF Known, Unpublished, Renewal
  <2>3. Become(s, t) /\ Fits(t)'
    BY <1>1, <1>3, <2>1, <2>2 DEF ListPublished, Fits, lifecycle
  <2> QED BY <1>1, <2>2, <2>3, BecomeInv
<1>4. CASE status # "published"
  <2>1. Become(s, Free) /\ Known(Free) /\ Harmless(Free)
    BY <1>4, Ops DEF ListPublished, Known, Harmless
  <2>2. Fits(task[s]) => Mirrors(index)'
    BY <1>1, <1>4 DEF Fits, Mirrors
  <2> QED BY <1>1, <1>2, <2>1, <2>2, BecomeInv
<1> QED BY <1>3, <1>4

LEMMA ClearInv ==
  ASSUME SearchInv, NEW s \in Slots, Clear(s)
  PROVE  IndexInv'
<1>1. /\ task[s].op = "clear" /\ UNCHANGED <<lifecycle, documents, handler, drifted>>
      /\ index' = Nothing /\ task[s] # Free /\ status' = status
  BY Ops DEF Clear, lifecycle
<1>2. index' = [i \in Ids |-> index'[i]]
  BY <1>1 DEF Nothing
<1>3. CASE task[s].publish
  <2>1. PICK t : t = [op |-> "read", text |-> task[s].text]
    OBVIOUS
  <2>2. t # Free /\ t.op = "read" /\ t.text = task[s].text /\ Known(t)
    BY <2>1, Ops DEF Known
  <2>3. Become(s, t) /\ status \notin Unpublished
    BY <1>1, <1>3, <2>1 DEF Clear, SearchInv, IndexInv, DraftsInv, Harmless
  <2>4. Fits(task[s]) => Fits(t)'
    BY <1>1, <1>3, <2>2 DEF Fits, lifecycle
  <2> QED BY <1>1, <1>2, <2>2, <2>3, <2>4, BecomeInv
<1>4. CASE ~task[s].publish
  <2>1. Become(s, Free) /\ Known(Free) /\ Harmless(Free)
    BY <1>4, Ops DEF Clear, Known, Harmless
  <2>2. Fits(task[s]) => Mirrors(index)'
    BY <1>1, <1>4 DEF Fits, Mirrors
  <2> QED BY <1>1, <1>2, <2>1, <2>2, BecomeInv
<1> QED BY <1>3, <1>4

LEMMA ReadDocumentsInv ==
  ASSUME SearchInv, NEW s \in Slots, ReadDocuments(s)
  PROVE  IndexInv'
<1>0. PICK text : text = task[s].text
  OBVIOUS
<1>1. PICK rs : rs = Records(text)
  OBVIOUS
<1>2. PICK t : t = [op |-> "fill", records |-> rs]
  OBVIOUS
<1>3. /\ task[s].op = "read" /\ UNCHANGED <<lifecycle, documents, index, handler, drifted>>
      /\ task[s] # Free /\ status' = status /\ content' = content /\ Become(s, t)
  BY <1>0, <1>1, <1>2, Ops DEF ReadDocuments, lifecycle
<1>4. /\ Live = {} => rs = {[id |-> Body, text |-> text]}
      /\ Live # {} => rs = {[id |-> d, text |-> documents[d]] : d \in Live}
  BY <1>1 DEF Records
<1>5. \A r \in rs : /\ r.id \in Ids
                    /\ r.id # Body => r.id \in Live /\ r.text = documents[r.id]
                    /\ r.id = Body => r.text = text
  <2>1. CASE Live = {}
    BY <1>4, <2>1 DEF Ids
  <2>2. CASE Live # {}
    BY <1>4, <2>2, BodyAssumption DEF Ids, Live
  <2> QED BY <2>1, <2>2
<1>6. /\ \A d \in Live : \E r \in rs : r.id = d
      /\ Live = {} => \E r \in rs : r.id = Body
  <2>1. \A d \in Live : [id |-> d, text |-> documents[d]] \in rs
    BY <1>4
  <2>2. Live = {} => [id |-> Body, text |-> text] \in rs
    BY <1>4
  <2> QED BY <2>1, <2>2
<1>7. t # Free /\ t.op = "fill" /\ t = [op |-> "fill", records |-> t.records] /\ t.records = rs
  BY <1>2, Ops
<1>8. Known(t) /\ index' = [i \in Ids |-> index'[i]] /\ status \notin Unpublished
  BY <1>3, <1>5, <1>7 DEF Known, SearchInv, IndexInv, FunInv, DraftsInv, Harmless
<1>9. ASSUME Fits(task[s]) PROVE Fits(t)'
  <2>1. index' = Nothing /\ index = Nothing /\ status' = "published" /\ text = content
    BY <1>0, <1>3, <1>9 DEF Fits
  <2>2. \A d \in Docs : index[d] = Target(d) \/ \E r \in rs : r.id = d
    BY <1>6, <2>1 DEF Target, Nothing, Ids
  <2>3. (\A d \in Docs : documents[d] = 0) => Live = {}
    BY DEF Live
  <2>4. Owed(rs)'
    BY <1>3, <1>5, <1>6, <2>1, <2>2, <2>3 DEF Owed, Target, Live
  <2> QED BY <1>7, <2>4 DEF Fits
<1> QED BY <1>3, <1>7, <1>8, <1>9, BecomeInv

LEMMA FillInv ==
  ASSUME SearchInv, NEW s \in Slots, Fill(s)
  PROVE  IndexInv'
<1>1. PICK rs : rs = task[s].records
  OBVIOUS
<1>2. PICK r \in rs :
        /\ index' = [index EXCEPT ![r.id] = r.text]
        /\ IF rs \ {r} = {} THEN Become(s, Free)
           ELSE Become(s, [task[s] EXCEPT !.records = rs \ {r}])
  BY <1>1 DEF Fill
<1>3. PICK left : left = rs \ {r}
  OBVIOUS
<1>4. /\ task[s].op = "fill" /\ UNCHANGED <<lifecycle, documents, handler, drifted>>
      /\ task[s] # Free /\ status' = status /\ content' = content
  BY Ops DEF Fill, lifecycle
<1>5. /\ task[s] = [op |-> "fill", records |-> rs] /\ (\A x \in rs : x.id \in Ids) /\ status \notin Unpublished
  BY <1>1, <1>4, Ops DEF SearchInv, IndexInv, Known, DraftsInv, Harmless
<1>6. index' = [i \in Ids |-> index'[i]] /\ index'[r.id] = r.text /\ \A i \in Ids \ {r.id} : index'[i] = index[i]
  BY <1>2, <1>5, Excepted DEF SearchInv, IndexInv, FunInv
<1>7. ASSUME Fits(task[s]) PROVE Owed(left)'
  <2>1. Owed(rs)
    BY <1>1, <1>4, <1>7 DEF Fits
  <2>2. \A x \in left : /\ x.id # Body => x.id \in Live' /\ x.text = documents'[x.id]
                        /\ x.id = Body => x.text = content'
    <3>1. documents' = documents /\ Live' = Live /\ left \subseteq rs
      BY <1>3, <1>4 DEF Live
    <3>2. \A x \in left : /\ x.id # Body => x.id \in Live /\ x.text = documents[x.id]
                          /\ x.id = Body => x.text = content
      BY <2>1, <3>1 DEF Owed
    <3> QED BY <1>4, <3>1, <3>2
  <2>3. \A d \in Docs : index'[d] = Target(d)' \/ \E x \in left : x.id = d
    <3> SUFFICES ASSUME NEW d \in Docs PROVE index'[d] = Target(d)' \/ \E x \in left : x.id = d
      OBVIOUS
    <3>1. Target(d)' = Target(d) /\ d \in Ids /\ d # Body
      BY <1>4, BodyAssumption DEF Target, Live, Ids
    <3>2. CASE r.id = d
      BY <1>6, <2>1, <3>1, <3>2 DEF Owed, Target
    <3>3. CASE r.id # d
      <4>1. index'[d] = index[d]
        BY <1>6, <3>1, <3>3
      <4>2. index[d] = Target(d) \/ \E x \in rs : x.id = d
        BY <2>1 DEF Owed
      <4>3. \A x \in rs : x.id = d => x \in left
        BY <1>3, <3>3
      <4> QED BY <3>1, <4>1, <4>2, <4>3
    <3> QED BY <3>2, <3>3
  <2>4. ASSUME \A d \in Docs : documents'[d] = 0
        PROVE  index'[Body] = content' \/ \E x \in left : x.id = Body
    <3>1. index[Body] = content \/ \E x \in rs : x.id = Body
      BY <1>4, <2>1, <2>4 DEF Owed
    <3>2. CASE r.id = Body
      BY <1>4, <1>6, <2>1, <3>2 DEF Owed
    <3>3. CASE r.id # Body
      <4>1. index'[Body] = index[Body]
        BY <1>6, <3>3 DEF Ids
      <4>2. \A x \in rs : x.id = Body => x \in left
        BY <1>3, <3>3
      <4> QED BY <1>4, <3>1, <4>1, <4>2
    <3> QED BY <3>2, <3>3
  <2> QED BY <1>4, <2>1, <2>2, <2>3, <2>4 DEF Owed
<1>8. CASE left = {}
  <2>1. Become(s, Free) /\ Known(Free)
    BY <1>2, <1>3, <1>8 DEF Known
  <2>2. Fits(task[s]) => Mirrors(index)'
    BY <1>7, <1>8 DEF Owed, Mirrors
  <2> QED BY <1>4, <1>5, <1>6, <2>1, <2>2, BecomeInv
<1>9. CASE left # {}
  <2>1. PICK t : t = [op |-> "fill", records |-> left]
    OBVIOUS
  <2>2. Become(s, t)
    <3>1. [task[s] EXCEPT !.records = left] = t
      BY <1>5, <2>1
    <3> QED BY <1>2, <1>3, <1>9, <3>1
  <2>3. t # Free /\ t.op = "fill" /\ t.records = left
    BY <2>1, Ops
  <2>4. Known(t)
    BY <1>3, <1>5, <2>1, <2>3 DEF Known
  <2>5. Fits(task[s]) => Fits(t)'
    BY <1>7, <2>3 DEF Fits
  <2> QED BY <1>4, <1>5, <1>6, <2>2, <2>3, <2>4, <2>5, BecomeInv
<1> QED BY <1>8, <1>9

-----------------------------------------------------------------------------
(* Failures, and the rest.                                                 *)

LEMMA FailInv ==
  ASSUME SearchInv, NEW s \in Slots, Fail(s)
  PROVE  IndexInv'
<1>1. /\ Become(s, Free) /\ drifted' = TRUE /\ UNCHANGED <<lifecycle, documents, index, handler>>
      /\ Known(Free) /\ Harmless(Free)
  BY Ops DEF Fail, Known, Harmless
<1>2. /\ task' = [o \in Slots |-> task'[o]] /\ task'[s] = Free
      /\ \A o \in Slots \ {s} : task'[o] = task[o]
  BY <1>1, Excepted DEF Become, SearchInv, IndexInv, FunInv
<1>3. FunInv' /\ (\A o \in Slots : Known(task[o]))'
  BY <1>1, <1>2 DEF SearchInv, IndexInv, FunInv, Known
<1>4. DraftsInv'
  BY <1>1, <1>2 DEF SearchInv, IndexInv, DraftsInv, lifecycle, Harmless
<1> QED BY <1>1, <1>3, <1>4 DEF IndexInv, MirrorInv

(* After a restart either the index is known to be off, or goroutines were *)
(* lost with nothing left to do, or it is rebuilt from nothing.            *)
LEMMA CrashInv ==
  ASSUME SearchInv, Crash
  PROVE  IndexInv'
<1>1. /\ UNCHANGED <<lifecycle, documents, index>> /\ status' = status
      /\ handler' = [h \in Handlers |-> Closed]
  BY DEF Crash, lifecycle
<1>2. CASE task' = [s \in Slots |-> Free] /\ Overlap(FALSE)
  <2>1. \A s \in Slots : task'[s] = Free
    BY <1>2
  <2>2. drifted' \in BOOLEAN /\ (~drifted' => ~drifted /\ AllFree)
    BY <1>2 DEF Overlap, SearchInv, IndexInv, FunInv, AllFree
  <2>3. FunInv' /\ (\A s \in Slots : Known(task[s]))'
    BY <1>1, <1>2, <2>1, <2>2 DEF SearchInv, IndexInv, FunInv, Known
  <2>4. DraftsInv'
    BY <1>1, <2>1, Ops DEF SearchInv, IndexInv, DraftsInv, lifecycle, Harmless
  <2>5. MirrorInv'
    BY <1>1, <2>1, <2>2 DEF SearchInv, IndexInv, MirrorInv, AllFree, Alone, Mirrors, Target, Live, lifecycle
  <2> QED BY <2>3, <2>4, <2>5 DEF IndexInv
<1>3. CASE /\ index = Nothing /\ drifted' = FALSE
           /\ \E s \in Slots : task' = [[t \in Slots |-> Free] EXCEPT ![s] = [op |-> "list"]]
  <2>0. PICK t : t = [op |-> "list"]
    OBVIOUS
  <2>1. PICK s \in Slots : task' = [[o \in Slots |-> Free] EXCEPT ![s] = t]
    BY <1>3, <2>0
  <2>2. t # Free /\ t.op = "list" /\ Known(t) /\ Known(Free) /\ Harmless(t) /\ Harmless(Free)
    BY <2>0, Ops DEF Known, Harmless
  <2>3. task'[s] = t /\ (\A o \in Slots \ {s} : task'[o] = Free) /\ task' = [o \in Slots |-> task'[o]]
    BY <2>1
  <2>4. FunInv' /\ (\A o \in Slots : Known(task[o]))'
    BY <1>1, <1>3, <2>2, <2>3 DEF SearchInv, IndexInv, FunInv, Known
  <2>5. DraftsInv'
    BY <1>1, <2>2, <2>3, Ops DEF SearchInv, IndexInv, DraftsInv, lifecycle, Harmless
  <2>6. MirrorInv'
    BY <1>1, <1>3, <2>2, <2>3 DEF MirrorInv, Alone, Fits
  <2> QED BY <2>4, <2>5, <2>6 DEF IndexInv
<1> QED BY <1>2, <1>3 DEF Crash

LEMMA InitIndex == Init => IndexInv
<1> SUFFICES ASSUME Init PROVE IndexInv
  OBVIOUS
<1>1. /\ status = "none" /\ content = 0 /\ documents = [d \in Docs |-> 0] /\ index = Nothing
      /\ handler = [h \in Handlers |-> Closed] /\ task = [s \in Slots |-> Free] /\ drifted = FALSE
  BY DEF Init, InitLifecycle
<1>2. FunInv /\ \A s \in Slots : Known(task[s])
  BY <1>1 DEF FunInv, Nothing, Known
<1>3. DraftsInv
  BY <1>1, Ops DEF DraftsInv, Harmless
<1>4. MirrorInv
  BY <1>1 DEF MirrorInv, AllFree, Mirrors
<1> QED BY <1>2, <1>3, <1>4 DEF IndexInv

LEMMA NextIndex ==
  ASSUME SearchInv, [Next]_vars
  PROVE  IndexInv'
<1>1. ASSUME NEW h \in Handlers,
             \/ \E d \in Ids : Open(h, d)
             \/ \E d \in Docs : SaveDocument(h, d) \/ DeleteDocument(h, d)
             \/ SaveBody(h) \/ End(h)
      PROVE  IndexInv'
  BY <1>1, HandlerInv, SaveDocumentInv, DeleteDocumentInv, SaveBodyInv
<1>2. ASSUME NEW s \in Slots,
             \/ IndexOne(s) \/ RemoveOne(s) \/ ListPublished(s)
             \/ Clear(s) \/ ReadDocuments(s) \/ Fill(s) \/ Fail(s)
      PROVE  IndexInv'
  BY <1>2, IndexOneInv, RemoveOneInv, ListPublishedInv, ClearInv, ReadDocumentsInv, FillInv, FailInv
<1>3. CASE UNCHANGED vars
  <2>1. /\ UNCHANGED <<documents, index, handler, task, drifted>>
        /\ UNCHANGED <<status, content>>
    BY <1>3 DEF vars, lifecycle, search
  <2>2. FunInv' /\ (\A s \in Slots : Known(task[s]))'
    BY <2>1 DEF SearchInv, IndexInv, FunInv, Known
  <2>3. DraftsInv'
    BY <2>1 DEF SearchInv, IndexInv, DraftsInv, Harmless
  <2>4. MirrorInv'
    BY <2>1 DEF SearchInv, IndexInv, MirrorInv, AllFree, Alone, Fits, Owed, Mirrors, Target, Live
  <2> QED BY <2>2, <2>3, <2>4 DEF IndexInv
<1>4. CASE \E recreate \in BOOLEAN : Reindex(recreate)
  BY <1>4, ReindexInv
<1> QED BY <1>1, <1>2, <1>3, <1>4, AuthorInv, DecideInv, CrashInv DEF Next

LEMMA SearchAlways == Spec => []SearchInv
<1>1. Init => SearchInv
  BY InitLife, InitIndex DEF Init, SearchInv
<1>2. SearchInv /\ [Next]_vars => SearchInv'
  BY NextLife, StepLife, NextIndex DEF SearchInv
<1> QED BY <1>1, <1>2, PTL DEF Spec

(* Nothing of a project that was never published is in the index, and no   *)
(* goroutine is about to put it there: a handler goes by a status it read  *)
(* earlier, but a project once published is never a draft again            *)
(* (syncDocumentIndex, searchReindexHandler).                              *)
THEOREM DraftsStayOut == Spec => []DraftsNotIndexed
<1>1. SearchInv => DraftsNotIndexed
  BY Ops DEF SearchInv, IndexInv, DraftsInv, Harmless, DraftsNotIndexed, Unpublished
<1> QED BY <1>1, SearchAlways, PTL

(* At rest the index holds what MySQL does, whatever documents were        *)
(* written and verdicts given, unless a call failed or two changes met     *)
(* since it was last dropped (rebuildSearchIndex, warmSearchIndex).        *)
THEOREM MirrorAtRest == Spec => []IndexMirrors
<1>1. SearchInv => IndexMirrors
  BY DEF SearchInv, IndexInv, MirrorInv, Quiet, AllFree, Alone, Mirrors, Target, IndexMirrors
<1> QED BY <1>1, SearchAlways, PTL

-----------------------------------------------------------------------------
(* Induction, and folds over finite sets.  The folds of the library are    *)
(* recursive functions on the subsets of a set, so that the first thing to *)
(* show is that there is such a function.                                  *)

LEMMA LeastSet ==
  ASSUME NEW S, IsFiniteSet(S), NEW T, T \subseteq SUBSET S, T # {}
  PROVE  \E X \in T : \A Y \in T : Y \subseteq X => Y = X
<1>1. T \subseteq FiniteSubsetsOf(S)
  BY FS_Subset DEF FiniteSubsetsOf
<1>2. PICK X \in T : \A Y \in T : ~ (<<Y, X>> \in StrictSubsetOrdering(S))
  <2>1. IsWellFoundedOn(StrictSubsetOrdering(S), FiniteSubsetsOf(S))
    BY FS_StrictSubsetOrderingWellFounded
  <2> QED BY ONLY <1>1, <2>1, T # {}, WFMin
<1>3. ASSUME NEW Y \in T, Y \subseteq X, Y # X PROVE FALSE
  BY <1>2, <1>3 DEF StrictSubsetOrdering
<1> QED BY <1>3

LEMMA LeastNat ==
  ASSUME NEW D, D \subseteq Nat, D # {}
  PROVE  \E n \in D : \A m \in D : n <= m
<1>1. PICK k \in D : TRUE
  OBVIOUS
<1>2. PICK S : S = 0..k
  OBVIOUS
<1>3. PICK T : T = {0..n : n \in D \cap S}
  OBVIOUS
<1>4. T \subseteq SUBSET S /\ T # {} /\ IsFiniteSet(S)
  <2>1. k \in Nat /\ k \in S /\ IsFiniteSet(S)
    BY <1>1, <1>2, FS_Interval
  <2>2. \A n \in D \cap S : 0..n \subseteq S
    BY <1>2, <2>1
  <2> QED BY <1>3, <2>1, <2>2
<1>5. PICK X \in T : \A Y \in T : Y \subseteq X => Y = X
  BY ONLY <1>4, LeastSet
<1>6. PICK n \in D \cap S : X = 0..n
  BY <1>3
<1>7. ASSUME NEW m \in D, ~ (n <= m) PROVE FALSE
  <2>1. m \in S /\ n \in Nat /\ m \in Nat /\ m < n
    BY <1>2, <1>7
  <2>2. 0..m \in T /\ 0..m \subseteq 0..n
    BY <1>3, <2>1
  <2>3. n \in 0..n /\ n \notin 0..m
    BY <2>1
  <2> QED BY <1>5, <1>6, <2>2, <2>3
<1> QED BY <1>7

(* f is on the subsets of R what the recursion by steps G and choices ch   *)
(* from base yields.                                                       *)
Recurs(f, R, V, base, G, ch) ==
  /\ f \in [SUBSET R -> V]
  /\ \A s \in SUBSET R : f[s] = IF s = {} THEN base ELSE G[<<s, f[s \ {ch[s]}]>>]

LEMMA RecursAlike ==
  ASSUME NEW V, NEW base, NEW G, NEW ch, NEW S, IsFiniteSet(S),
         NEW Q \in SUBSET S, NEW R \in SUBSET S, \A s \in (SUBSET S) \ {{}} : ch[s] \in s,
         NEW f, NEW g, Recurs(f, Q, V, base, G, ch), Recurs(g, R, V, base, G, ch)
  PROVE  \A s \in SUBSET (Q \cap R) : f[s] = g[s]
<1>0. PICK T : T = {s \in SUBSET (Q \cap R) : f[s] # g[s]}
  OBVIOUS
<1> SUFFICES ASSUME T # {} PROVE FALSE
  BY <1>0
<1>1. PICK s \in T : \A t \in T : t \subseteq s => t = s
  <2>1. T \subseteq SUBSET S
    BY <1>0
  <2> QED BY <2>1, LeastSet
<1>2. s \in SUBSET Q /\ s \in SUBSET R /\ s \in SUBSET S /\ f[s] # g[s]
  BY <1>0
<1>3. s # {}
  BY <1>2 DEF Recurs
<1>4. PICK t : t = s \ {ch[s]}
  OBVIOUS
<1>5. t \in SUBSET (Q \cap R) /\ t \subseteq s /\ t # s
  BY <1>2, <1>3, <1>4
<1>6. f[t] = g[t]
  BY <1>0, <1>1, <1>5
<1>7. f[s] = G[<<s, f[t]>>] /\ g[s] = G[<<s, g[t]>>]
  BY <1>2, <1>3, <1>4 DEF Recurs
<1> QED BY <1>2, <1>6, <1>7

LEMMA RecursExists ==
  ASSUME NEW V, NEW base \in V, NEW G, NEW ch, NEW S, IsFiniteSet(S),
         \A s \in (SUBSET S) \ {{}} : ch[s] \in s /\ \A v \in V : G[<<s, v>>] \in V
  PROVE  \E f : Recurs(f, S, V, base, G, ch)
<1> DEFINE Sol(R) == CHOOSE f : Recurs(f, R, V, base, G, ch)
<1> DEFINE Solved(R) == \E f : Recurs(f, R, V, base, G, ch)
<1> SUFFICES ASSUME NEW T, T = {R \in SUBSET S : ~Solved(R)}, T # {} PROVE FALSE
  OBVIOUS
<1>1. PICK R \in T : \A Q \in T : Q \subseteq R => Q = R
  <2>1. T \subseteq SUBSET S
    OBVIOUS
  <2> QED BY ONLY <2>1, T # {}, IsFiniteSet(S), LeastSet
<1>2. R \in SUBSET S /\ ~Solved(R)
  OBVIOUS
<1>3. \A s \in SUBSET R : s # R => Recurs(Sol(s), s, V, base, G, ch)
  <2> SUFFICES ASSUME NEW s \in SUBSET R, s # R PROVE Recurs(Sol(s), s, V, base, G, ch)
    OBVIOUS
  <2>1. Solved(s)
    BY <1>1, <1>2
  <2> QED BY <2>1
<1> DEFINE W(s) == Sol(s)[s]
<1>4. \A s \in SUBSET R : s # R => W(s) \in V /\ W(s) = IF s = {} THEN base ELSE G[<<s, W(s \ {ch[s]})>>]
  <2> SUFFICES ASSUME NEW s \in SUBSET R, s # R
               PROVE  W(s) \in V /\ W(s) = IF s = {} THEN base ELSE G[<<s, W(s \ {ch[s]})>>]
    OBVIOUS
  <2>1. PICK f : f = Sol(s) /\ Recurs(f, s, V, base, G, ch)
    BY <1>3
  <2>2. s \in SUBSET s /\ f[s] \in V /\ f[s] = IF s = {} THEN base ELSE G[<<s, f[s \ {ch[s]}]>>]
    BY <2>1 DEF Recurs
  <2>3. CASE s # {}
    <3>1. PICK t : t = s \ {ch[s]}
      OBVIOUS
    <3>2. t \in SUBSET R /\ t # R /\ t \in SUBSET s
      BY <1>2, <2>3, <3>1
    <3>3. PICK g : g = Sol(t) /\ Recurs(g, t, V, base, G, ch)
      BY <1>3, <3>2
    <3>4. f[t] = g[t]
      <4>1. s \in SUBSET S /\ t \in SUBSET S /\ t \in SUBSET (s \cap t)
        BY <1>2, <3>2
      <4>2. \A u \in (SUBSET S) \ {{}} : ch[u] \in u
        OBVIOUS
      <4> QED BY ONLY <2>1, <3>3, <4>1, <4>2, IsFiniteSet(S), RecursAlike
    <3>5. W(t) = f[t] /\ W(s) = f[s]
      BY <2>1, <3>3, <3>4
    <3> HIDE DEF W
    <3> QED BY <2>2, <2>3, <3>1, <3>5
  <2>4. CASE s = {}
    BY <2>1, <2>2, <2>4
  <2> QED BY <2>3, <2>4
<1> HIDE DEF W, Sol
<1>5. PICK x : x = IF R = {} THEN base ELSE G[<<R, W(R \ {ch[R]})>>]
  OBVIOUS
<1>6. x \in V
  <2>1. CASE R # {}
    <3>1. R \ {ch[R]} \in SUBSET R /\ R \ {ch[R]} # R
      BY <1>2, <2>1
    <3>2. W(R \ {ch[R]}) \in V
      BY <1>4, <3>1
    <3> QED BY <1>2, <1>5, <2>1, <3>2
  <2> QED BY <1>5, <2>1
<1>7. PICK f : f = [s \in SUBSET R |-> IF s = R THEN x ELSE W(s)]
  OBVIOUS
<1>8. f \in [SUBSET R -> V]
  BY <1>4, <1>6, <1>7
<1>9. ASSUME NEW s \in SUBSET R PROVE f[s] = IF s = {} THEN base ELSE G[<<s, f[s \ {ch[s]}]>>]
  <2>1. CASE s = {}
    BY <1>4, <1>5, <1>7, <2>1
  <2>2. CASE s # {}
    <3>1. PICK t : t = s \ {ch[s]}
      OBVIOUS
    <3>2. t \in SUBSET R /\ t # R
      BY <1>2, <2>2, <3>1
    <3>3. f[t] = W(t)
      BY <1>7, <3>2
    <3>4. f[s] = G[<<s, W(t)>>]
      BY <1>4, <1>5, <1>7, <2>2, <3>1
    <3> QED BY <2>2, <3>1, <3>3, <3>4
  <2> QED BY <2>1, <2>2
<1>10. Recurs(f, R, V, base, G, ch)
  BY <1>8, <1>9 DEF Recurs
<1> QED BY <1>2, <1>10

-----------------------------------------------------------------------------
(* What the packages kept in a cache c occupy.                             *)

BytesOf(c, K) == Sum(K, LAMBDA k : c[k].bytes)

(* The recursion that Sum folds by: a member of each set, and its bytes.   *)
PickOf(U) == [s \in SUBSET U |-> CHOOSE x \in s : TRUE]
Adds(c, U) == [p \in (SUBSET U) \X Nat |-> c[PickOf(U)[p[1]]].bytes + p[2]]

LEMMA BytesRecurs ==
  ASSUME NEW c, NEW U, IsFiniteSet(U), \A k \in U : c[k].bytes \in Nat, NEW S \in SUBSET U
  PROVE  \E f : Recurs(f, S, Nat, 0, Adds(c, U), PickOf(U)) /\ BytesOf(c, S) = f[S]
<1>14. PICK ch : ch = PickOf(U)
  OBVIOUS
<1>15. ch = [s \in SUBSET U |-> CHOOSE x \in s : TRUE]
  BY <1>14 DEF PickOf
<1>16. PICK G : G = Adds(c, U)
  OBVIOUS
<1>17. G = [p \in (SUBSET U) \X Nat |-> c[ch[p[1]]].bytes + p[2]]
  BY <1>14, <1>16 DEF Adds
<1>1. \A s \in (SUBSET U) \ {{}} : ch[s] \in s
  BY <1>15
<1>2. \A s \in (SUBSET U) \ {{}}, v \in Nat : G[<<s, v>>] = c[ch[s]].bytes + v
  BY <1>17
<1>3. \A s \in (SUBSET U) \ {{}}, v \in Nat : G[<<s, v>>] \in Nat
  <2> SUFFICES ASSUME NEW s \in (SUBSET U) \ {{}}, NEW v \in Nat PROVE G[<<s, v>>] \in Nat
    OBVIOUS
  <2>1. c[ch[s]].bytes \in Nat
    BY <1>1
  <2> QED BY <1>2, <2>1
<1>4. IsFiniteSet(S) /\ \A s \in (SUBSET S) \ {{}} : ch[s] \in s /\ \A v \in Nat : G[<<s, v>>] \in Nat
  BY <1>1, <1>3, FS_Subset
<1>5. PICK f : Recurs(f, S, Nat, 0, G, ch)
  BY ONLY <1>4, 0 \in Nat, RecursExists
<1> DEFINE Step(g) == [s \in SUBSET S |->
      IF s = {} THEN 0 ELSE LET x == CHOOSE x \in s : TRUE IN c[x].bytes + g[s \ {x}]]
<1>7. f = Step(f)
  <2>1. \A s \in SUBSET S : f[s] \in Nat /\ s \in SUBSET U
    BY <1>5 DEF Recurs
  <2>2. ASSUME NEW s \in SUBSET S
        PROVE  f[s] = IF s = {} THEN 0 ELSE LET x == CHOOSE x \in s : TRUE IN c[x].bytes + f[s \ {x}]
    <3>1. CASE s = {}
      BY <1>5, <3>1 DEF Recurs
    <3>2. CASE s # {}
      <4>1. PICK x : x = ch[s]
        OBVIOUS
      <4>2. x = CHOOSE y \in s : TRUE
        BY <1>15, <2>1, <4>1
      <4>3. f[s \ {x}] \in Nat
        BY <2>1
      <4>4. f[s] = G[<<s, f[s \ {x}]>>]
        <5>1. f[s] = G[<<s, f[s \ {ch[s]}]>>]
          BY <1>5, <3>2 DEF Recurs
        <5> QED BY <4>1, <5>1
      <4>5. f[s] = c[x].bytes + f[s \ {x}]
        BY <1>2, <2>1, <3>2, <4>1, <4>3, <4>4
      <4> QED BY <3>2, <4>2, <4>5
    <3> QED BY <3>1, <3>2
  <2>3. f = [s \in SUBSET S |-> f[s]]
    BY <1>5 DEF Recurs
  <2> QED BY <2>2, <2>3
<1>8. BytesOf(c, S) = (CHOOSE g : g = Step(g))[S]
  BY DEF BytesOf, Sum, MapThenSumSet, MapThenFoldSet
<1>9. PICK g : g = Step(g) /\ BytesOf(c, S) = g[S]
  <2>1. (CHOOSE g : g = Step(g)) = Step(CHOOSE g : g = Step(g))
    <3> HIDE DEF Step
    <3> QED BY <1>7
  <2> QED BY <1>8, <2>1
<1>10. \A s \in SUBSET S : g[s] = IF s = {} THEN 0 ELSE c[ch[s]].bytes + g[s \ {ch[s]}]
  BY <1>9, <1>15
<1>13. g = [s \in SUBSET S |-> g[s]]
  BY <1>9
<1> HIDE DEF Step
<1>11. \A s \in SUBSET S : g[s] \in Nat
  <2>1. PICK T : T = {s \in SUBSET S : g[s] \notin Nat}
    OBVIOUS
  <2> SUFFICES ASSUME T # {} PROVE FALSE
    BY <2>1
  <2>2. T \subseteq SUBSET S
    BY <2>1
  <2>3. PICK s \in T : \A t \in T : t \subseteq s => t = s
    BY ONLY <2>2, <1>4, T # {}, LeastSet
  <2>4. s \in SUBSET S /\ s \in SUBSET U /\ g[s] \notin Nat
    BY <2>1
  <2>7. g[s] = IF s = {} THEN 0 ELSE c[ch[s]].bytes + g[s \ {ch[s]}]
    BY <1>10, <2>4
  <2>5. s # {}
    BY ONLY <2>4, <2>7
  <2>6. ch[s] \in s /\ c[ch[s]].bytes \in Nat
    BY <1>1, <2>4, <2>5
  <2>8. PICK t : t = s \ {ch[s]}
    OBVIOUS
  <2>9. t \in SUBSET S /\ t \notin T
    BY <2>3, <2>4, <2>6, <2>8
  <2>10. g[t] \in Nat
    BY <2>1, <2>9
  <2>11. g[s] = c[ch[s]].bytes + g[t]
    BY ONLY <2>5, <2>7, <2>8
  <2> QED BY ONLY <2>4, <2>6, <2>10, <2>11
<1>12. Recurs(g, S, Nat, 0, G, ch)
  <2>2. ASSUME NEW s \in SUBSET S PROVE g[s] = IF s = {} THEN 0 ELSE G[<<s, g[s \ {ch[s]}]>>]
    <3>1. PICK t : t = s \ {ch[s]}
      OBVIOUS
    <3>2. g[t] \in Nat
      BY <1>11, <3>1
    <3>3. g[s] = IF s = {} THEN 0 ELSE c[ch[s]].bytes + g[t]
      BY <1>10, <3>1
    <3>4. s # {} => G[<<s, g[t]>>] = c[ch[s]].bytes + g[t]
      <4>1. s # {} => s \in (SUBSET U) \ {{}}
        OBVIOUS
      <4> QED BY ONLY <1>2, <3>2, <4>1
    <3> QED BY ONLY <3>1, <3>3, <3>4
  <2>3. g \in [SUBSET S -> Nat]
    BY ONLY <1>11, <1>13
  <2> QED BY ONLY <2>2, <2>3 DEF Recurs
<1> QED BY ONLY <1>9, <1>12, <1>14, <1>16

LEMMA BytesFirst ==
  ASSUME NEW c, NEW U, IsFiniteSet(U), \A k \in U : c[k].bytes \in Nat, NEW S \in SUBSET U
  PROVE  /\ BytesOf(c, S) \in Nat
         /\ S = {} => BytesOf(c, S) = 0
         /\ S # {} => \E y \in S : BytesOf(c, S) = c[y].bytes + BytesOf(c, S \ {y})
<1>1. PICK ch : ch = PickOf(U) /\ ch = [s \in SUBSET U |-> CHOOSE x \in s : TRUE]
  BY DEF PickOf
<1>2. PICK G : G = Adds(c, U) /\ G = [p \in (SUBSET U) \X Nat |-> c[ch[p[1]]].bytes + p[2]]
  BY <1>1 DEF Adds
<1>3. \A R \in SUBSET U : \E f : Recurs(f, R, Nat, 0, G, ch) /\ BytesOf(c, R) = f[R]
  <2> SUFFICES ASSUME NEW R \in SUBSET U PROVE \E f : Recurs(f, R, Nat, 0, G, ch) /\ BytesOf(c, R) = f[R]
    OBVIOUS
  <2>1. \E f : Recurs(f, R, Nat, 0, Adds(c, U), PickOf(U)) /\ BytesOf(c, R) = f[R]
    BY ONLY IsFiniteSet(U), \A k \in U : c[k].bytes \in Nat, R \in SUBSET U, BytesRecurs
  <2> QED BY ONLY <1>1, <1>2, <2>1
<1>4. PICK f : Recurs(f, S, Nat, 0, G, ch) /\ BytesOf(c, S) = f[S]
  BY <1>3
<1>5. f[S] \in Nat /\ f[S] = IF S = {} THEN 0 ELSE G[<<S, f[S \ {ch[S]}]>>]
  BY <1>4 DEF Recurs
<1>6. ASSUME S # {} PROVE \E y \in S : BytesOf(c, S) = c[y].bytes + BytesOf(c, S \ {y})
  <2>1. PICK y : y = ch[S]
    OBVIOUS
  <2>2. y \in S
    BY <1>1, <1>6, <2>1
  <2>3. PICK R : R = S \ {y}
    OBVIOUS
  <2>4. R \in SUBSET U /\ R \in SUBSET S
    BY <2>3
  <2>5. PICK g : Recurs(g, R, Nat, 0, G, ch) /\ BytesOf(c, R) = g[R]
    BY <1>3, <2>4
  <2>6. \A s \in (SUBSET U) \ {{}} : ch[s] \in s
    BY <1>1
  <2>7. R \in SUBSET (S \cap R)
    BY <2>4
  <2>8. f[R] = g[R]
    <3>1. \A s \in SUBSET (S \cap R) : f[s] = g[s]
      BY ONLY IsFiniteSet(U), S \in SUBSET U, <1>4, <2>4, <2>5, <2>6, RecursAlike
    <3> QED BY ONLY <2>7, <3>1
  <2>9. f[R] \in Nat
    BY <1>4, <2>4 DEF Recurs
  <2>10. G[<<S, f[R]>>] = c[y].bytes + f[R]
    BY <1>2, <2>1, <2>9
  <2> QED BY <1>4, <1>5, <1>6, <2>1, <2>2, <2>3, <2>5, <2>8, <2>10
<1> QED BY <1>4, <1>5, <1>6

LEMMA BytesTakeOne ==
  ASSUME NEW c, NEW U, IsFiniteSet(U), \A k \in U : c[k].bytes \in Nat,
         NEW S \in SUBSET U, NEW x \in S
  PROVE  BytesOf(c, S) = c[x].bytes + BytesOf(c, S \ {x})
<1>1. PICK T : T = {R \in SUBSET U : \E e \in R : BytesOf(c, R) # c[e].bytes + BytesOf(c, R \ {e})}
  OBVIOUS
<1> SUFFICES ASSUME T # {} PROVE FALSE
  BY <1>1
<1>2. PICK R \in T : \A Q \in T : Q \subseteq R => Q = R
  <2>1. T \subseteq SUBSET U
    BY <1>1
  <2> QED BY ONLY <2>1, T # {}, IsFiniteSet(U), LeastSet
<1>3. PICK e \in R : BytesOf(c, R) # c[e].bytes + BytesOf(c, R \ {e})
  BY <1>1
<1>4. PICK y \in R : BytesOf(c, R) = c[y].bytes + BytesOf(c, R \ {y})
  <2>1. R \in SUBSET U /\ R # {}
    BY <1>1
  <2> QED BY <2>1, BytesFirst
<1>5. e # y
  BY <1>3, <1>4
<1>6. PICK A, B, C : A = R \ {y} /\ B = R \ {e} /\ C = A \ {e}
  OBVIOUS
<1>7. /\ A \in SUBSET U /\ B \in SUBSET U /\ C \in SUBSET U /\ A \notin T /\ B \notin T
      /\ e \in A /\ y \in B /\ C = B \ {y} /\ e \in U /\ y \in U
  BY <1>1, <1>2, <1>5, <1>6
<1>8. BytesOf(c, A) = c[e].bytes + BytesOf(c, C)
  BY <1>1, <1>6, <1>7
<1>9. BytesOf(c, B) = c[y].bytes + BytesOf(c, C)
  BY <1>1, <1>7
<1>10. BytesOf(c, C) \in Nat /\ c[e].bytes \in Nat /\ c[y].bytes \in Nat
  BY <1>7, BytesFirst
<1>11. BytesOf(c, R) = c[y].bytes + BytesOf(c, A) /\ BytesOf(c, R) # c[e].bytes + BytesOf(c, B)
  BY <1>3, <1>4, <1>6
<1> QED BY ONLY <1>8, <1>9, <1>10, <1>11

LEMMA BytesMinus ==
  ASSUME NEW c, NEW U, IsFiniteSet(U), \A k \in U : c[k].bytes \in Nat,
         NEW S \in SUBSET U, NEW K \in SUBSET S
  PROVE  BytesOf(c, S) = BytesOf(c, K) + BytesOf(c, S \ K)
<1>1. PICK T : T = {R \in SUBSET S : BytesOf(c, S) # BytesOf(c, R) + BytesOf(c, S \ R)}
  OBVIOUS
<1> SUFFICES ASSUME T # {} PROVE FALSE
  BY <1>1
<1>2. PICK R \in T : \A Q \in T : Q \subseteq R => Q = R
  <2>1. T \subseteq SUBSET U
    BY <1>1
  <2> QED BY ONLY <2>1, T # {}, IsFiniteSet(U), LeastSet
<1>3. R \in SUBSET S /\ R \in SUBSET U /\ BytesOf(c, S) # BytesOf(c, R) + BytesOf(c, S \ R)
  BY <1>1
<1>4. R # {}
  <2>1. CASE R = {}
    <3>1. BytesOf(c, R) = 0 /\ BytesOf(c, S) \in Nat
      BY <1>3, <2>1, BytesFirst
    <3>2. PICK D : D = S \ R
      OBVIOUS
    <3>3. D = S
      BY <2>1, <3>2
    <3>4. BytesOf(c, S) # BytesOf(c, R) + BytesOf(c, D)
      BY <1>3, <3>2
    <3> QED BY ONLY <3>1, <3>3, <3>4
  <2> QED BY <2>1
<1>5. PICK y \in R : TRUE
  BY <1>4
<1>6. PICK A, B, D : A = R \ {y} /\ B = S \ A /\ D = S \ R
  OBVIOUS
<1>7. /\ A \in SUBSET S /\ A \in SUBSET U /\ A \notin T /\ B \in SUBSET U /\ D \in SUBSET U
      /\ y \in B /\ D = B \ {y} /\ y \in U
  BY <1>2, <1>3, <1>6
<1>8. BytesOf(c, S) = BytesOf(c, A) + BytesOf(c, B)
  BY <1>1, <1>6, <1>7
<1>9. BytesOf(c, B) = c[y].bytes + BytesOf(c, D)
  BY <1>7, BytesTakeOne
<1>10. BytesOf(c, R) = c[y].bytes + BytesOf(c, A)
  BY <1>3, <1>6, BytesTakeOne
<1>11. BytesOf(c, A) \in Nat /\ BytesOf(c, D) \in Nat /\ c[y].bytes \in Nat
  BY <1>7, BytesFirst
<1>12. BytesOf(c, S) # BytesOf(c, R) + BytesOf(c, D)
  BY <1>3, <1>6
<1> QED BY ONLY <1>8, <1>9, <1>10, <1>11, <1>12

LEMMA BytesAlike ==
  ASSUME NEW c, NEW d, NEW S, IsFiniteSet(S),
         \A k \in S : c[k].bytes \in Nat /\ d[k].bytes = c[k].bytes
  PROVE  BytesOf(d, S) = BytesOf(c, S)
<1>1. PICK T : T = {R \in SUBSET S : BytesOf(d, R) # BytesOf(c, R)}
  OBVIOUS
<1> SUFFICES ASSUME T # {} PROVE FALSE
  BY <1>1
<1>2. PICK R \in T : \A Q \in T : Q \subseteq R => Q = R
  <2>1. T \subseteq SUBSET S
    BY <1>1
  <2> QED BY ONLY <2>1, T # {}, IsFiniteSet(S), LeastSet
<1>3. R \in SUBSET S /\ BytesOf(d, R) # BytesOf(c, R)
  BY <1>1
<1>4. \A k \in S : d[k].bytes \in Nat
  OBVIOUS
<1>5. R # {}
  <2>1. BytesOf(c, {}) = 0 /\ BytesOf(d, {}) = 0
    BY <1>4, BytesFirst
  <2> QED BY <1>3, <2>1
<1>6. PICK y \in R : TRUE
  BY <1>5
<1>7. PICK A : A = R \ {y}
  OBVIOUS
<1>8. A \in SUBSET S /\ A \notin T /\ y \in S
  BY <1>2, <1>3, <1>7
<1>9. BytesOf(c, R) = c[y].bytes + BytesOf(c, A) /\ BytesOf(d, R) = d[y].bytes + BytesOf(d, A)
  BY <1>3, <1>4, <1>7, BytesTakeOne
<1> QED BY <1>1, <1>3, <1>8, <1>9

-----------------------------------------------------------------------------
(* The cache of the code browser: the inductive invariant.                 *)

Uploaded == \A k \in DOMAIN objects : k \in Keys /\ objects[k] \in Packages[k]

Kept ==
  /\ IsFiniteSet(DOMAIN cache)
  /\ \A k \in DOMAIN cache :
       k \in DOMAIN objects /\ cache[k].at \in Nat /\ cache[k].bytes = objects[k].bytes

Fetched(r) ==
  LET k == reader[r].key IN
  /\ k \in DOMAIN objects /\ objects[k].bytes <= MaxPacked
  /\ WellFormed(objects[k].archive)
  /\ reader[r].parsed \in Nat

Requests ==
  /\ DOMAIN reader = Readers
  /\ \A r \in Readers : reader[r].at = "put" => Fetched(r)

BrowserInv == clock \in Nat /\ Uploaded /\ Kept /\ Requests /\ CacheAccounts

LEMMA Weights ==
  ASSUME BrowserInv
  PROVE  /\ \A k \in DOMAIN objects : objects[k].bytes \in Nat /\ objects[k].archive \in Archive
         /\ \A k \in DOMAIN cache : cache[k].bytes \in Nat
         /\ \A K \in SUBSET DOMAIN cache : Bytes(K) = BytesOf(cache, K) /\ Bytes(K) \in Nat
         /\ totalBytes \in Nat
<1>1. \A k \in DOMAIN objects : objects[k].bytes \in Nat /\ objects[k].archive \in Archive
  BY PackagesAssumption DEF BrowserInv, Uploaded
<1>2. \A k \in DOMAIN cache : cache[k].bytes \in Nat
  BY <1>1 DEF BrowserInv, Kept
<1>3. \A K : Bytes(K) = BytesOf(cache, K)
  BY DEF Bytes, BytesOf
<1>4. \A K \in SUBSET DOMAIN cache : BytesOf(cache, K) \in Nat
  BY <1>2, BytesFirst DEF BrowserInv, Kept
<1> QED BY <1>1, <1>2, <1>3, <1>4 DEF BrowserInv, CacheAccounts

LEMMA InitBrowser == BrowserInit => BrowserInv
<1> SUFFICES ASSUME BrowserInit PROVE BrowserInv
  OBVIOUS
<1>1. DOMAIN objects = {} /\ DOMAIN cache = {}
  BY DEF BrowserInit
<1>2. Uploaded /\ Kept
  BY <1>1, FS_EmptySet DEF Uploaded, Kept
<1>3. Requests
  BY DEF BrowserInit, Requests, Idle
<1>4. CacheAccounts
  <2>1. BytesOf(cache, {}) = 0
    BY FS_EmptySet, BytesFirst
  <2>2. Bytes({}) = 0
    BY <2>1 DEF Bytes, BytesOf
  <2> QED BY <1>1, <2>2, CacheAssumption DEF CacheAccounts, BrowserInit
<1> QED BY <1>2, <1>3, <1>4 DEF BrowserInv, BrowserInit

LEMMA CacheBytes == Bytes(DOMAIN cache) = BytesOf(cache, DOMAIN cache)
  BY DEF Bytes, BytesOf

LEMMA CacheBytesNext == (Bytes(DOMAIN cache) = BytesOf(cache, DOMAIN cache))'
  BY CacheBytes, PTL

LEMMA CacheStays ==
  ASSUME BrowserInv, UNCHANGED <<cache, totalBytes>>
  PROVE  CacheAccounts'
<1>1. Bytes(DOMAIN cache)' = BytesOf(cache', DOMAIN cache') /\ Bytes(DOMAIN cache) = BytesOf(cache, DOMAIN cache)
  BY CacheBytes, CacheBytesNext
<1>2. BytesOf(cache', DOMAIN cache') = BytesOf(cache, DOMAIN cache)
  OBVIOUS
<1>3. Bytes(DOMAIN cache)' = Bytes(DOMAIN cache)
  BY <1>1, <1>2
<1> QED BY <1>3 DEF BrowserInv, CacheAccounts

(* What a fetched package is never changes. *)
LEMMA FetchedStays ==
  ASSUME BrowserInv, NEW q \in Readers, reader[q].at = "put", reader'[q] = reader[q],
         \A k \in DOMAIN objects : k \in DOMAIN objects' /\ objects'[k] = objects[k]
  PROVE  Fetched(q)'
<1>1. Fetched(q)
  BY DEF BrowserInv, Requests
<1>2. PICK k : k = reader[q].key
  OBVIOUS
<1>3. k = reader'[q].key /\ k \in DOMAIN objects /\ k \in DOMAIN objects' /\ objects'[k] = objects[k]
  BY <1>1, <1>2 DEF Fetched
<1>4. WellFormed(objects[k].archive)' <=> WellFormed(objects'[k].archive)
  OBVIOUS
<1> QED BY <1>1, <1>2, <1>3 DEF Fetched

LEMMA UploadInv ==
  ASSUME BrowserInv, NEW k \in Keys, Upload(k)
  PROVE  BrowserInv'
<1>1. PICK p \in Packages[k] : objects' = With(objects, k, p)
  BY DEF Upload
<1>2. /\ k \notin DOMAIN objects /\ DOMAIN objects' = DOMAIN objects \cup {k} /\ objects'[k] = p
      /\ \A j \in DOMAIN objects : j \in DOMAIN objects' /\ objects'[j] = objects[j]
      /\ UNCHANGED <<cache, totalBytes, reader, clock>>
  BY <1>1 DEF Upload, With
<1>3. Uploaded'
  BY <1>2 DEF BrowserInv, Uploaded
<1>4. Kept'
  BY <1>2 DEF BrowserInv, Kept
<1>5. Requests'
  BY <1>2, FetchedStays DEF BrowserInv, Requests
<1>6. CacheAccounts'
  BY <1>2, CacheStays
<1> QED BY <1>2, <1>3, <1>4, <1>5, <1>6 DEF BrowserInv

(* A request that is answered leaves the others as they are. *)
LEMMA RequestsStay ==
  ASSUME BrowserInv, NEW r \in Readers, NEW x, Goes(r, x), UNCHANGED objects,
         x.at = "put" => Fetched(r)'
  PROVE  Requests'
<1>1. DOMAIN reader' = Readers /\ reader'[r] = x /\ \A q \in Readers : q # r => reader'[q] = reader[q]
  BY DEF Goes, BrowserInv, Requests
<1>2. ASSUME NEW q \in Readers, reader'[q].at = "put" PROVE Fetched(q)'
  <2>1. CASE q = r
    BY <1>1, <1>2, <2>1
  <2>2. CASE q # r
    BY <1>1, <1>2, <2>2, FetchedStays
  <2> QED BY <2>1, <2>2
<1> QED BY <1>1, <1>2 DEF Requests

LEMMA FetchInv ==
  ASSUME BrowserInv, NEW r \in Readers, Fetch(r)
  PROVE  BrowserInv'
<1>1. UNCHANGED <<objects, cache, totalBytes, clock>>
  BY DEF Fetch
<1>2. Uploaded' /\ Kept' /\ CacheAccounts' /\ clock' \in Nat
  BY <1>1, CacheStays DEF BrowserInv, Uploaded, Kept
<1>3. Requests'
  <2>1. CASE Ends(r)
    BY <1>1, <2>1, RequestsStay DEF Ends, Idle
  <2>2. CASE ~ Ends(r)
    <3>1. PICK k : k = reader[r].key
      OBVIOUS
    <3>2. /\ k \in DOMAIN objects /\ objects[k].bytes <= MaxPacked /\ WellFormed(objects[k].archive)
          /\ Goes(r, [at |-> "put", key |-> k, parsed |-> clock])
      BY <2>2, <3>1 DEF Fetch
    <3>3. reader'[r] = [at |-> "put", key |-> k, parsed |-> clock]
      BY <3>2 DEF Goes, BrowserInv, Requests
    <3>4. Fetched(r)'
      BY <1>1, <3>2, <3>3 DEF Fetched, BrowserInv
    <3> QED BY <1>1, <3>2, <3>4, RequestsStay
  <2> QED BY <2>1, <2>2
<1> QED BY <1>2, <1>3 DEF BrowserInv

LEMMA GetInv ==
  ASSUME BrowserInv, NEW k \in Keys, NEW r \in Readers, Get(r, k)
  PROVE  BrowserInv'
<1>1. UNCHANGED <<objects, clock>>
  BY DEF Get
<1>2. CASE UNCHANGED <<cache, totalBytes>>
  <2>1. Uploaded' /\ Kept' /\ CacheAccounts' /\ clock' \in Nat
    BY <1>1, <1>2, CacheStays DEF BrowserInv, Uploaded, Kept
  <2>2. Requests'
    <3>1. CASE UNCHANGED reader
      BY <1>1, <3>1, FetchedStays DEF BrowserInv, Requests
    <3>2. CASE Goes(r, [at |-> "fetch", key |-> k])
      BY <1>1, <3>2, RequestsStay
    <3> QED BY <3>1, <3>2 DEF Get
  <2> QED BY <2>1, <2>2 DEF BrowserInv
<1>3. CASE ~ UNCHANGED <<cache, totalBytes>>
  <2>1. /\ k \in DOMAIN cache
        /\ cache' = Without({k}) /\ totalBytes' = totalBytes - cache[k].bytes
        /\ Goes(r, [at |-> "fetch", key |-> k])
    BY <1>3 DEF Get
  <2>2. PICK D : D = DOMAIN cache \ {k}
    OBVIOUS
  <2>3. cache' = [j \in D |-> cache[j]]
    BY <2>1, <2>2 DEF Without, Restrict
  <2>4. Requests'
    BY <1>1, <2>1, RequestsStay
  <2>5. Kept'
    <3>1. IsFiniteSet(D)
      BY <2>2, FS_RemoveElement DEF BrowserInv, Kept
    <3> QED BY <1>1, <2>2, <2>3, <3>1 DEF BrowserInv, Kept
  <2>6. CacheAccounts'
    <3>1. /\ IsFiniteSet(DOMAIN cache) /\ IsFiniteSet(D) /\ D \in SUBSET DOMAIN cache
          /\ \A j \in DOMAIN cache : cache[j].bytes \in Nat
      BY <2>2, Weights, FS_RemoveElement DEF BrowserInv, Kept
    <3>2. BytesOf(cache, DOMAIN cache) = cache[k].bytes + BytesOf(cache, D)
      BY <2>1, <2>2, <3>1, BytesTakeOne
    <3>3. \A j \in D : cache[j].bytes \in Nat /\ cache'[j].bytes = cache[j].bytes
      BY <2>3, <3>1
    <3>4. BytesOf(cache', D) = BytesOf(cache, D)
      BY ONLY <3>1, <3>3, BytesAlike
    <3>5. Bytes(DOMAIN cache)' = BytesOf(cache', DOMAIN cache') /\ Bytes(DOMAIN cache) = BytesOf(cache, DOMAIN cache)
      BY CacheBytes, CacheBytesNext
    <3>6. DOMAIN cache' = D /\ BytesOf(cache, D) \in Nat /\ cache[k].bytes \in Nat
      BY <2>1, <2>3, <3>1, BytesFirst
    <3>7. totalBytes = Bytes(DOMAIN cache) /\ totalBytes <= MaxCached /\ MaxCached \in Nat
      BY CacheAssumption DEF BrowserInv, CacheAccounts
    <3>8. Bytes(DOMAIN cache)' = BytesOf(cache, D)
      BY <3>4, <3>5, <3>6
    <3> QED BY <2>1, <3>2, <3>5, <3>6, <3>7, <3>8 DEF CacheAccounts
  <2>7. Uploaded'
    BY <1>1 DEF BrowserInv, Uploaded
  <2> QED BY <1>1, <2>4, <2>5, <2>6, <2>7 DEF BrowserInv
<1> QED BY <1>2, <1>3

(* Of some entries one was put last. *)
LEMMA LastPut ==
  ASSUME BrowserInv, NEW K \in SUBSET DOMAIN cache, K # {}
  PROVE  \E last \in K : \A k \in K : cache[k].at <= cache[last].at
<1>1. PICK T : T = {{k \in K : cache[x].at <= cache[k].at} : x \in K}
  OBVIOUS
<1>2. T \subseteq SUBSET DOMAIN cache /\ T # {} /\ IsFiniteSet(DOMAIN cache)
  BY <1>1 DEF BrowserInv, Kept
<1>3. PICK X \in T : \A Y \in T : Y \subseteq X => Y = X
  BY ONLY <1>2, LeastSet
<1>4. PICK x \in K : X = {k \in K : cache[x].at <= cache[k].at}
  BY <1>1
<1>5. \A k \in K : cache[k].at \in Nat
  BY DEF BrowserInv, Kept
<1>6. ASSUME NEW y \in K, ~ (cache[y].at <= cache[x].at) PROVE FALSE
  <2>1. PICK Y : Y = {k \in K : cache[y].at <= cache[k].at}
    OBVIOUS
  <2>2. Y \in T
    BY <1>1, <2>1
  <2>3. Y \subseteq X
    BY <1>4, <1>5, <1>6, <2>1
  <2>4. x \in X /\ x \notin Y
    BY <1>4, <1>5, <1>6, <2>1
  <2> QED BY <1>3, <2>2, <2>3, <2>4
<1> QED BY <1>6

LEMMA PutInv ==
  ASSUME BrowserInv, NEW r \in Readers, Put(r)
  PROVE  BrowserInv'
<1>1. PICK k, b, e : k = reader[r].key /\ b = objects[k].bytes /\ e = [at |-> reader[r].parsed, bytes |-> b]
  OBVIOUS
<1>2. PICK before : before = totalBytes - IF k \in DOMAIN cache THEN cache[k].bytes ELSE 0
  OBVIOUS
<1>3. PICK K \in SUBSET DOMAIN cache :
        /\ Evicts(K, before, b)
        /\ cache' = With(Without(K), k, e)
        /\ totalBytes' = before - Bytes(K) + b
  BY <1>1, <1>2 DEF Put
<1>4. Ends(r) /\ UNCHANGED <<objects, clock>>
  BY DEF Put
<1>5. /\ k \in DOMAIN objects /\ b \in Nat /\ b <= MaxPacked /\ b <= MaxCached /\ MaxCached \in Nat
      /\ e.at \in Nat /\ e.bytes = b
  <2>1. Fetched(r)
    BY DEF Put, BrowserInv, Requests
  <2>2. k \in DOMAIN objects /\ b <= MaxPacked /\ e.at \in Nat /\ e.bytes = b
    BY <1>1, <2>1 DEF Fetched
  <2>3. b \in Nat
    BY <1>1, <2>2, Weights
  <2> QED BY <2>2, <2>3, CacheAssumption
<1>6. PICK D, R : D = DOMAIN cache /\ R = D \ K
  OBVIOUS
<1>7. /\ IsFiniteSet(D) /\ IsFiniteSet(R) /\ IsFiniteSet(R \cup {k}) /\ R \in SUBSET D /\ K \in SUBSET D
      /\ \A j \in D : cache[j].bytes \in Nat /\ cache[j].at \in Nat /\ cache[j].bytes = objects[j].bytes /\ j \in DOMAIN objects
  <2>1. IsFiniteSet(D) /\ R \in SUBSET D /\ K \in SUBSET D
    BY <1>3, <1>6 DEF BrowserInv, Kept
  <2>2. IsFiniteSet(R)
    BY <2>1, FS_Subset
  <2>3. IsFiniteSet(R \cup {k})
    BY <2>2, FS_AddElement
  <2> QED BY <1>6, <2>1, <2>2, <2>3, Weights DEF BrowserInv, Kept
<1>8. /\ DOMAIN cache' = R \cup {k} /\ cache'[k] = e
      /\ \A j \in R : j # k => cache'[j] = cache[j]
  <2>1. Without(K) = [j \in R |-> cache[j]]
    BY <1>6 DEF Without, Restrict
  <2> QED BY <1>3, <2>1 DEF With
<1>9. Kept' /\ Uploaded' /\ clock' \in Nat
  <2>1. Kept'
    BY <1>1, <1>4, <1>5, <1>7, <1>8 DEF Kept
  <2> QED BY <1>4, <2>1 DEF BrowserInv, Uploaded
<1>10. Requests'
  BY <1>4, RequestsStay DEF Ends, Idle
<1>11. /\ totalBytes = BytesOf(cache, D) /\ totalBytes \in Nat /\ totalBytes <= MaxCached
       /\ \A J \in SUBSET D : Bytes(J) = BytesOf(cache, J) /\ Bytes(J) \in Nat
  BY <1>6, Weights DEF BrowserInv, CacheAccounts
<1>12. /\ BytesOf(cache, D) = BytesOf(cache, K) + BytesOf(cache, R)
       /\ BytesOf(cache, K) \in Nat /\ BytesOf(cache, R) \in Nat /\ Bytes(K) = BytesOf(cache, K)
  <2>1. BytesOf(cache, D) = BytesOf(cache, K) + BytesOf(cache, R)
    BY <1>6, <1>7, BytesMinus
  <2> QED BY <1>7, <1>11, <2>1
<1>13. CASE k \notin D
  <2>1. before = totalBytes
    BY <1>2, <1>6, <1>11, <1>13
  <2>2. PICK E : E = DOMAIN cache' /\ E = R \cup {k} /\ R = E \ {k} /\ IsFiniteSet(E) /\ k \in E
    BY <1>7, <1>8, <1>13
  <2>3. \A j \in E : cache'[j].bytes \in Nat
    BY <1>5, <1>7, <1>8, <1>13, <2>2
  <2>4. BytesOf(cache', E) = cache'[k].bytes + BytesOf(cache', R)
    <3>1. E \in SUBSET E
      OBVIOUS
    <3> QED BY ONLY <2>2, <2>3, <3>1, BytesTakeOne
  <2>5. BytesOf(cache', R) = BytesOf(cache, R)
    <3>1. \A j \in R : cache[j].bytes \in Nat /\ cache'[j].bytes = cache[j].bytes
      BY <1>7, <1>8, <1>13
    <3> QED BY ONLY <1>7, <3>1, BytesAlike
  <2>6. BytesOf(cache', E) = b + BytesOf(cache, R)
    BY <1>5, <1>8, <2>4, <2>5
  <2>7. totalBytes' = totalBytes - BytesOf(cache, K) + b
    BY <1>3, <1>12, <2>1
  <2>8. Bytes(DOMAIN cache)' = BytesOf(cache', E)
    BY <2>2, CacheBytesNext
  <2>9. totalBytes' = Bytes(DOMAIN cache)'
    BY ONLY <1>5, <1>11, <1>12, <2>6, <2>7, <2>8
  <2>10. totalBytes' <= MaxCached
    <3>1. CASE K = D
      <4>1. BytesOf(cache, K) = totalBytes
        BY <1>11, <3>1
      <4> QED BY ONLY <1>5, <1>11, <2>7, <4>1
    <3>2. CASE K # D
      BY <1>3, <1>6, <3>2 DEF Evicts
    <3> QED BY <3>1, <3>2
  <2>11. CacheAccounts'
    BY <2>9, <2>10 DEF CacheAccounts
  <2> QED BY <1>9, <1>10, <2>11 DEF BrowserInv
<1>14. CASE k \in D
  <2>1. cache[k].bytes = b /\ before = totalBytes - b
    BY <1>1, <1>2, <1>6, <1>7, <1>14
  <2>2. ASSUME K # {} PROVE FALSE
    <3>1. PICK last \in K : \A j \in K : cache[j].at <= cache[last].at
      BY <2>2, LastPut
    <3>2. before - Bytes(K \ {last}) + b > MaxCached
      BY <1>3, <3>1 DEF Evicts
    <3>3. Bytes(K \ {last}) \in Nat
      BY <1>7, <1>11
    <3> QED BY ONLY <1>5, <1>11, <2>1, <3>2, <3>3
  <2>3. BytesOf(cache, {}) = 0
    BY <1>7, BytesFirst
  <2>4. DOMAIN cache' = D /\ totalBytes' = totalBytes
    <3>1. DOMAIN cache' = D
      BY <1>6, <1>8, <1>14, <2>2
    <3>2. BytesOf(cache, K) = 0
      BY <2>2, <2>3
    <3> QED BY <1>3, <1>5, <1>11, <1>12, <2>1, <3>1, <3>2
  <2>5. BytesOf(cache', D) = BytesOf(cache, D)
    <3>1. \A j \in D : cache[j].bytes \in Nat /\ cache'[j].bytes = cache[j].bytes
      BY <1>5, <1>6, <1>7, <1>8, <2>1, <2>2
    <3> QED BY ONLY <1>7, <3>1, BytesAlike
  <2>6. Bytes(DOMAIN cache)' = totalBytes
    BY <1>11, <2>4, <2>5, CacheBytesNext
  <2>7. CacheAccounts'
    BY <1>11, <2>4, <2>6 DEF CacheAccounts
  <2> QED BY <1>9, <1>10, <2>7 DEF BrowserInv
<1> QED BY <1>13, <1>14

LEMMA NextBrowser ==
  ASSUME BrowserInv, [BrowserNext]_browserVars
  PROVE  BrowserInv'
<1>1. ASSUME NEW k \in Keys, Upload(k) \/ \E r \in Readers : Get(r, k) PROVE BrowserInv'
  BY <1>1, UploadInv, GetInv
<1>2. ASSUME NEW r \in Readers, Fetch(r) \/ Put(r) PROVE BrowserInv'
  BY <1>2, FetchInv, PutInv
<1>3. ASSUME UNCHANGED <<objects, cache, totalBytes, reader>>, clock' \in Nat PROVE BrowserInv'
  <2>1. Uploaded' /\ Kept' /\ CacheAccounts'
    BY <1>3, CacheStays DEF BrowserInv, Uploaded, Kept
  <2>2. Requests'
    BY <1>3, FetchedStays DEF BrowserInv, Requests
  <2> QED BY <1>3, <2>1, <2>2 DEF BrowserInv
<1>4. CASE Tick
  BY <1>3, <1>4 DEF Tick, BrowserInv
<1>5. CASE UNCHANGED browserVars
  BY <1>3, <1>5 DEF browserVars, BrowserInv
<1> QED BY <1>1, <1>2, <1>4, <1>5 DEF BrowserNext

LEMMA BrowserAlways == BrowserSpec => []BrowserInv
  BY InitBrowser, NextBrowser, PTL DEF BrowserSpec

(* What totalBytes says is what the cache holds, never over its limit, in  *)
(* whatever order requests miss, put the same package twice, and drop what *)
(* is too old or does not fit (codeArchiveCache.get and put).              *)
THEOREM CacheIsAccounted == BrowserSpec => []CacheAccounts
<1>1. BrowserInv => CacheAccounts
  BY DEF BrowserInv
<1> QED BY <1>1, BrowserAlways, PTL

-----------------------------------------------------------------------------
(* Which entries are listed, and their paths: folds over the names.        *)

LEMMA MinIs ==
  ASSUME NEW D, D \subseteq Nat, D # {}
  PROVE  Min(D) \in D /\ \A m \in D : Min(D) <= m
  BY LeastNat DEF Min

LEMMA MaxIs ==
  ASSUME NEW n \in Nat, NEW s \in SUBSET (1..n), s # {}
  PROVE  Max(s) \in s /\ \A m \in s : m <= Max(s)
<1>1. PICK D : D = {b \in Nat : \A m \in s : m <= b}
  OBVIOUS
<1>2. D \subseteq Nat /\ n \in D
  BY <1>1
<1>3. PICK b \in D : \A m \in D : b <= m
  BY ONLY <1>2, LeastNat
<1>4. PICK x \in s : TRUE
  OBVIOUS
<1>5. b \in Nat /\ x <= b /\ x \in 1..n /\ \A m \in s : m <= b /\ m \in Nat
  BY <1>1, <1>4
<1>6. b \in s
  <2> SUFFICES ASSUME b \notin s PROVE FALSE
    OBVIOUS
  <2>1. b - 1 \in Nat
    BY <1>5
  <2>2. \A m \in s : m <= b - 1
    BY <1>5
  <2>3. b - 1 \in D
    BY <1>1, <2>1, <2>2
  <2> QED BY <1>3, <1>5, <2>1, <2>3
<1> QED BY <1>5, <1>6 DEF Max

LEMMA StopIs ==
  ASSUME NEW a \in Archive
  PROVE  /\ Len(a.entries) \in Nat /\ DOMAIN a.entries = 1..Len(a.entries)
         /\ Stop(a) \in 1..Len(a.entries) + 1
         /\ Listed(a) = {i \in DOMAIN a.entries : i < Stop(a) /\ Regular(a, i)}
<1>1. a.entries \in Seq(Entry)
  BY DEF Archive
<1>2. PICK n : n = Len(a.entries) /\ n \in Nat /\ DOMAIN a.entries = 1..n
  BY <1>1
<1>3. PICK D : D = {i \in DOMAIN a.entries : Over(a, i) \/ ~Reached(a, i)} \cup {Len(a.entries) + 1}
  OBVIOUS
<1>4. D \subseteq Nat /\ D # {} /\ D \subseteq 1..n + 1
  BY <1>2, <1>3
<1>5. Stop(a) = Min(D)
  BY <1>3 DEF Stop
<1>6. Stop(a) \in 1..n + 1
  BY <1>4, <1>5, MinIs
<1>7. 1..Stop(a) - 1 = {i \in DOMAIN a.entries : i < Stop(a)}
  BY <1>2, <1>6
<1> QED BY <1>2, <1>6, <1>7 DEF Listed

(* One more name of a path that is being cleaned. *)
Cleaned(path, name) ==
  CASE name \in {".", ""} -> path
    [] name = ".." /\ path # <<>> /\ Last(path) # ".." -> Front(path)
    [] OTHER -> Append(path, name)

Skipped == {".", ""}
Up == ".."

LEMMA CleanedCases ==
  ASSUME NEW path, NEW name
  PROVE  /\ name \in Skipped => Cleaned(path, name) = path
         /\ name \notin Skipped /\ name = Up /\ path # <<>> /\ Last(path) # Up => Cleaned(path, name) = Front(path)
         /\ name \notin Skipped /\ ~ (name = Up /\ path # <<>> /\ Last(path) # Up) =>
              Cleaned(path, name) = Append(path, name)
BY DEF Cleaned, Skipped, Up

(* A path that leads nowhere but down, or first upwards. *)
Proper(path) == \A j \in 1..Len(path) : path[j] \notin Skipped /\ (path[j] = Up => path[1] = Up)

ProperPaths == {path \in Seq(Names) : Proper(path)}

(* It leads nowhere but down. *)
Downward(path) == \A j \in 1..Len(path) : path[j] \notin Skipped /\ path[j] # Up

LEMMA CleanedIs ==
  ASSUME NEW path \in ProperPaths, NEW name \in Names
  PROVE  Cleaned(path, name) \in ProperPaths
<1>1. path \in Seq(Names) /\ Proper(path)
  BY DEF ProperPaths
<1>2. PICK n : n = Len(path) /\ n \in Nat
  BY <1>1
<1>3. CASE name \in Skipped
  <2>1. Cleaned(path, name) = path
    BY <1>3, CleanedCases
  <2> QED BY <2>1
<1>4. CASE name \notin Skipped /\ name = Up /\ path # <<>> /\ Last(path) # Up
  <2>1. PICK p : p = Front(path)
    OBVIOUS
  <2>2. n # 0
    BY <1>1, <1>2, <1>4
  <2>3. p \in Seq(Names) /\ Len(p) = n - 1 /\ \A j \in 1..n - 1 : p[j] = path[j]
    BY <1>1, <1>2, <2>1, <2>2 DEF Front
  <2>4. Proper(p)
    <3> SUFFICES ASSUME NEW j \in 1..n - 1 PROVE p[j] \notin Skipped /\ (p[j] = Up => p[1] = Up)
      BY <2>3 DEF Proper
    <3>1. j \in 1..n /\ 1 \in 1..n - 1
      BY <1>2
    <3>2. path[j] \notin Skipped /\ (path[j] = Up => path[1] = Up)
      BY <1>1, <1>2, <3>1 DEF Proper
    <3> QED BY <2>3, <3>1, <3>2
  <2>5. Cleaned(path, name) = p
    BY <1>4, <2>1, CleanedCases
  <2> QED BY <2>3, <2>4, <2>5 DEF ProperPaths
<1>5. CASE name \notin Skipped /\ ~ (name = Up /\ path # <<>> /\ Last(path) # Up)
  <2>1. PICK p : p = Append(path, name)
    OBVIOUS
  <2>2. p \in Seq(Names) /\ Len(p) = n + 1 /\ p[n + 1] = name /\ \A j \in 1..n : p[j] = path[j]
    BY <1>1, <1>2, <2>1
  <2>3. Proper(p)
    <3> SUFFICES ASSUME NEW j \in 1..n + 1 PROVE p[j] \notin Skipped /\ (p[j] = Up => p[1] = Up)
      BY <2>2 DEF Proper
    <3>1. CASE j \in 1..n
      <4>1. 1 \in 1..n
        BY <1>2, <3>1
      <4>2. path[j] \notin Skipped /\ (path[j] = Up => path[1] = Up)
        BY <1>1, <1>2, <3>1 DEF Proper
      <4> QED BY <2>2, <3>1, <4>1, <4>2
    <3>2. CASE j = n + 1
      <4>1. CASE n = 0
        <5>1. j = 1 /\ p[j] = name
          BY <2>2, <3>2, <4>1
        <5> QED BY <1>5, <5>1
      <4>2. CASE n # 0 /\ name = Up
        <5>1. path # <<>>
          BY <1>1, <1>2, <4>2
        <5>2. Last(path) = Up
          BY <1>5, <4>2, <5>1
        <5>3. n \in 1..n /\ 1 \in 1..n
          BY <1>2, <4>2
        <5>4. path[n] = Up
          BY <1>2, <5>2 DEF Last
        <5>5. path[1] = Up
          BY <1>1, <1>2, <5>3, <5>4 DEF Proper
        <5> QED BY <1>5, <2>2, <3>2, <5>3, <5>5
      <4>3. CASE name # Up
        BY <1>5, <2>2, <3>2, <4>3
      <4> QED BY <4>1, <4>2, <4>3
    <3> QED BY <1>2, <3>1, <3>2
  <2>4. Cleaned(path, name) = p
    BY <1>5, <2>1, CleanedCases
  <2> QED BY <2>2, <2>3, <2>4 DEF ProperPaths
<1> QED BY <1>3, <1>4, <1>5

LEMMA EmptyIsProper == <<>> \in ProperPaths
<1>1. <<>> \in Seq(Names) /\ Len(<<>>) = 0
  OBVIOUS
<1>2. Proper(<<>>)
  BY <1>1 DEF Proper
<1> QED BY <1>1, <1>2 DEF ProperPaths

(* g cleans every part of raw, name by name. *)
CleansBy(raw, g) ==
  \A s \in SUBSET (1..Len(raw)) : g[s] = IF s = {} THEN <<>> ELSE Cleaned(g[s \ {Max(s)}], raw[Max(s)])

LEMMA CleanFolds ==
  ASSUME NEW raw \in Seq(Names)
  PROVE  \E g : CleansBy(raw, g) /\ Clean(raw) = g[1..Len(raw)]
<1>1. PICK n, S : n = Len(raw) /\ n \in Nat /\ DOMAIN raw = 1..n /\ S = DOMAIN raw
  OBVIOUS
<1>2. IsFiniteSet(S) /\ \A s \in SUBSET S : \A i \in s : raw[i] \in Names
  <2>1. IsFiniteSet(1..n)
    BY <1>1, FS_Interval
  <2>2. \A i \in DOMAIN raw : raw[i] \in Names
    OBVIOUS
  <2> QED BY <1>1, <2>1, <2>2
<1>3. PICK V : V = ProperPaths
  OBVIOUS
<1>4. \A v \in V, name \in Names : Cleaned(v, name) \in V
  BY <1>3, CleanedIs
<1>5. PICK ch : ch = [s \in SUBSET S |-> Max(s)]
  OBVIOUS
<1>6. PICK G : G = [p \in (SUBSET S) \X V |-> Cleaned(p[2], raw[ch[p[1]]])]
  OBVIOUS
<1>7. \A s \in (SUBSET S) \ {{}} : ch[s] \in s
  BY <1>1, <1>5, MaxIs
<1>8. \A s \in SUBSET S, v \in V : G[<<s, v>>] = Cleaned(v, raw[ch[s]])
  BY <1>6
<1>9. \A s \in (SUBSET S) \ {{}} : ch[s] \in s /\ \A v \in V : G[<<s, v>>] \in V
  BY <1>2, <1>4, <1>7, <1>8
<1>10. <<>> \in V
  BY <1>3, EmptyIsProper
<1>11. PICK f : Recurs(f, S, V, <<>>, G, ch)
  BY ONLY <1>2, <1>9, <1>10, RecursExists
<1> DEFINE Step(g) == [s \in SUBSET S |-> IF s = {} THEN <<>> ELSE LET x == Max(s) IN Cleaned(g[s \ {x}], raw[x])]
<1>12. f = Step(f)
  <2>1. ASSUME NEW s \in SUBSET S
        PROVE  f[s] = IF s = {} THEN <<>> ELSE LET x == Max(s) IN Cleaned(f[s \ {x}], raw[x])
    <3>1. PICK t : t = s \ {ch[s]}
      OBVIOUS
    <3>2. f[t] \in V /\ f[s] = IF s = {} THEN <<>> ELSE G[<<s, f[t]>>]
      BY <1>11, <3>1 DEF Recurs
    <3>3. f[s] = IF s = {} THEN <<>> ELSE Cleaned(f[t], raw[ch[s]])
      BY <1>8, <3>2
    <3> QED BY <1>5, <3>1, <3>3
  <2>2. f = [s \in SUBSET S |-> f[s]]
    BY <1>11 DEF Recurs
  <2> QED BY <2>1, <2>2
<1>13. Clean(raw) = (CHOOSE g : g = Step(g))[S]
  BY <1>1 DEF Clean, Cleaned, FoldLeft, MapThenFoldSet
<1>14. PICK g : g = Step(g) /\ Clean(raw) = g[S]
  <2>1. (CHOOSE g : g = Step(g)) = Step(CHOOSE g : g = Step(g))
    <3> HIDE DEF Step
    <3> QED BY <1>12
  <2> QED BY <1>13, <2>1
<1>15. \A s \in SUBSET S : g[s] = IF s = {} THEN <<>> ELSE Cleaned(g[s \ {Max(s)}], raw[Max(s)])
  BY <1>14
<1> HIDE DEF Step
<1>16. CleansBy(raw, g)
  BY <1>1, <1>15 DEF CleansBy
<1> QED BY <1>1, <1>14, <1>16

LEMMA CleanIs ==
  ASSUME NEW raw \in Seq(Names)
  PROVE  Clean(raw) \in ProperPaths
<1>1. PICK n : n = Len(raw) /\ n \in Nat /\ \A i \in 1..n : raw[i] \in Names
  OBVIOUS
<1>2. PICK g : CleansBy(raw, g) /\ Clean(raw) = g[1..n]
  BY <1>1, CleanFolds
<1>3. PICK S, V : S = 1..n /\ V = ProperPaths /\ <<>> \in V
  BY EmptyIsProper
<1>5. IsFiniteSet(S)
  BY <1>1, <1>3, FS_Interval
<1>4. \A s \in SUBSET S : g[s] \in V
  <2>1. PICK T : T = {s \in SUBSET S : g[s] \notin V}
    OBVIOUS
  <2> SUFFICES ASSUME T # {} PROVE FALSE
    BY <2>1
  <2>2. T \subseteq SUBSET S
    BY <2>1
  <2>3. PICK s \in T : \A t \in T : t \subseteq s => t = s
    BY ONLY <2>2, <1>5, T # {}, LeastSet
  <2>4. s \in SUBSET S /\ g[s] \notin V
    BY <2>1
  <2>5. PICK m, t : m = Max(s) /\ t = s \ {m}
    OBVIOUS
  <2>6. g[s] = IF s = {} THEN <<>> ELSE Cleaned(g[t], raw[m])
    BY <1>1, <1>2, <1>3, <2>4, <2>5 DEF CleansBy
  <2>7. s # {}
    BY ONLY <1>3, <2>4, <2>6
  <2>8. m \in s
    BY <1>1, <1>3, <2>4, <2>5, <2>7, MaxIs
  <2>9. raw[m] \in Names
    BY <1>1, <1>3, <2>4, <2>8
  <2>10. t \in SUBSET S /\ t \notin T
    BY <2>3, <2>4, <2>5, <2>8
  <2>11. g[t] \in V
    BY <2>1, <2>10
  <2>12. Cleaned(g[t], raw[m]) \in V
    BY <1>3, <2>9, <2>11, CleanedIs
  <2> QED BY <2>4, <2>6, <2>7, <2>12
<1> QED BY <1>2, <1>3, <1>4

(* A path that leads nowhere but down is clean already. *)
LEMMA CleanAgain ==
  ASSUME NEW p \in Seq(Names), Downward(p)
  PROVE  Clean(p) = p
<1>1. PICK n : n = Len(p) /\ n \in Nat
  OBVIOUS
<1>2. PICK g : CleansBy(p, g) /\ Clean(p) = g[1..n]
  BY <1>1, CleanFolds
<1>3. \A k \in 0..n : g[1..k] = SubSeq(p, 1, k)
  <2>1. PICK T : T = {k \in 0..n : g[1..k] # SubSeq(p, 1, k)}
    OBVIOUS
  <2> SUFFICES ASSUME T # {} PROVE FALSE
    BY <2>1
  <2>2. T \subseteq Nat
    BY <1>1, <2>1
  <2>3. PICK k \in T : \A l \in T : k <= l
    BY ONLY <2>2, T # {}, LeastNat
  <2>4. k \in 0..n /\ g[1..k] # SubSeq(p, 1, k)
    BY <2>1
  <2>5. PICK s : s = 1..k /\ s \in SUBSET (1..n)
    BY <1>1, <2>4
  <2>6. g[s] = IF s = {} THEN <<>> ELSE Cleaned(g[s \ {Max(s)}], p[Max(s)])
    BY <1>1, <1>2, <2>5 DEF CleansBy
  <2>7. CASE k = 0
    <3>1. s = {} /\ SubSeq(p, 1, k) = <<>>
      BY <2>5, <2>7
    <3> QED BY <2>4, <2>5, <2>6, <3>1
  <2>8. CASE k # 0
    <3>0. n \in Nat /\ k \in 0..n /\ s = 1..k
      BY <1>1, <2>4, <2>5
    <3>1. k \in 1..n /\ k - 1 \in 0..n /\ k \in s /\ s # {}
      BY ONLY <2>8, <3>0
    <3>2. Max(s) \in s /\ k <= Max(s)
      BY <1>1, <2>5, <3>1, MaxIs
    <3>3. Max(s) = k
      BY <2>5, <3>1, <3>2
    <3>4. s \ {k} = 1..k - 1
      BY <2>5, <3>1
    <3>5. k - 1 \notin T
      BY <2>3, <2>4, <3>1
    <3>6. g[1..k - 1] = SubSeq(p, 1, k - 1)
      BY <2>1, <3>1, <3>5
    <3>7. Cleaned(SubSeq(p, 1, k - 1), p[k]) = Append(SubSeq(p, 1, k - 1), p[k])
      <4>1. p[k] \notin Skipped /\ p[k] # Up
        BY <1>1, <3>1 DEF Downward
      <4> QED BY <4>1, CleanedCases
    <3>8. Append(SubSeq(p, 1, k - 1), p[k]) = SubSeq(p, 1, k)
      <4>0. k - 1 \in Nat /\ k - 1 <= Len(p) /\ \A j \in 1..k - 1 : j \in 1..Len(p)
        BY <1>1, <3>1
      <4>1. PICK q : q = SubSeq(p, 1, k - 1) /\ q \in Seq(Names) /\ Len(q) = k - 1 /\ \A j \in 1..k - 1 : q[j] = p[j]
        <5>1. SubSeq(p, 1, k - 1) \in Seq(Names)
          BY <4>0
        <5>2. Len(SubSeq(p, 1, k - 1)) = k - 1
          BY <4>0
        <5>3. \A j \in 1..k - 1 : SubSeq(p, 1, k - 1)[j] = p[j]
          BY <4>0
        <5> QED BY <5>1, <5>2, <5>3
      <4>2. /\ Append(q, p[k]) \in Seq(Names) /\ Len(Append(q, p[k])) = k
            /\ \A j \in 1..k : Append(q, p[k])[j] = p[j]
        BY <1>1, <3>1, <4>1
      <4>3. SubSeq(p, 1, k) \in Seq(Names) /\ Len(SubSeq(p, 1, k)) = k /\ \A j \in 1..k : SubSeq(p, 1, k)[j] = p[j]
        BY <1>1, <3>1
      <4> QED BY <4>1, <4>2, <4>3
    <3> QED BY <2>4, <2>5, <2>6, <3>1, <3>3, <3>4, <3>6, <3>7, <3>8
  <2> QED BY <2>7, <2>8
<1>4. SubSeq(p, 1, n) = p
  BY <1>1
<1> QED BY <1>1, <1>2, <1>3, <1>4

LEMMA PathIs ==
  ASSUME NEW a \in Archive, NEW i \in Listed(a)
  PROVE  /\ Path(a, i) \in Seq(Names) /\ Path(a, i) # <<>> /\ i \in DOMAIN a.entries
         /\ Path(a, i) # Refused
         /\ Downward(Path(a, i))
<1>1. i \in DOMAIN a.entries /\ Regular(a, i)
  BY StopIs
<1>2. PICK raw : raw = a.entries[i].path
  OBVIOUS
<1>3. raw \in Seq(Names)
  <2>1. a.entries[i] \in Entry
    BY <1>1 DEF Archive
  <2> QED BY <1>2, <2>1 DEF Entry
<1>4. PICK trimmed, inside : trimmed = Trim(raw) /\ inside = IF Head(trimmed) = "." THEN Tail(trimmed) ELSE trimmed
  OBVIOUS
<1>5. PICK p : p = Clean(inside)
  OBVIOUS
<1>6. Safe(raw) = IF raw = <<>> \/ inside = <<>> \/ Head(inside) = "" \/ p = <<>> \/ Head(p) = ".." THEN Refused ELSE p
  BY <1>4, <1>5 DEF Safe
<1>7. Safe(raw) = Path(a, i) /\ Path(a, i) # Refused
  BY <1>1, <1>2 DEF Regular, Path
<1>8. raw # <<>> /\ p # <<>> /\ Head(p) # ".." /\ Path(a, i) = p
  BY <1>6, <1>7
<1>9. trimmed \in Seq(Names) /\ trimmed # <<>>
  <2>1. Len(raw) \in Nat \ {0}
    BY <1>3, <1>8
  <2>2. PICK begun : begun = [raw EXCEPT ![1] = TrimLeft[raw[1]]]
    OBVIOUS
  <2>3. TrimLeft[raw[1]] \in Names
    BY <1>3, <2>1, TrimAssumption
  <2>4. begun \in Seq(Names) /\ Len(begun) = Len(raw)
    BY <1>3, <2>1, <2>2, <2>3
  <2>5. TrimRight[begun[Len(raw)]] \in Names
    BY <2>1, <2>4, TrimAssumption
  <2>6. trimmed = [begun EXCEPT ![Len(raw)] = TrimRight[begun[Len(raw)]]]
    BY <1>4, <2>2 DEF Trim
  <2>7. trimmed \in Seq(Names) /\ Len(trimmed) = Len(raw)
    BY <2>1, <2>4, <2>5, <2>6
  <2> QED BY <2>1, <2>7
<1>10. inside \in Seq(Names)
  BY <1>4, <1>9
<1>11. p \in Seq(Names) /\ Proper(p)
  BY <1>5, <1>10, CleanIs DEF ProperPaths
<1>12. p[1] # Up
  <2>1. Head(p) # Up
    BY <1>8 DEF Up
  <2> QED BY <1>8, <1>11, <2>1
<1>13. Downward(p)
  BY <1>11, <1>12 DEF Proper, Downward
<1> QED BY <1>1, <1>7, <1>8, <1>11, <1>13

(* A listed path that neither begins nor ends in a blank is let through as *)
(* it is.                                                                  *)
LEMMA SafeAgain ==
  ASSUME NEW a \in Archive, NEW i \in Listed(a), Bare(Path(a, i))
  PROVE  Safe(Path(a, i)) = Path(a, i)
<1>1. PICK p : p = Path(a, i)
  OBVIOUS
<1>2. p \in Seq(Names) /\ p # <<>> /\ Downward(p)
  BY <1>1, PathIs
<1>3. PICK n : n = Len(p) /\ n \in Nat \ {0}
  BY <1>2
<1>4. TrimLeft[p[1]] = p[1] /\ TrimRight[p[n]] = p[n]
  <2>1. TrimLeft[Head(p)] = Head(p) /\ TrimRight[Last(p)] = Last(p)
    BY <1>1 DEF Bare
  <2>2. Head(p) = p[1]
    BY <1>2
  <2> QED BY <1>3, <2>1, <2>2 DEF Last
<1>5. Trim(p) = p
  <2>1. [p EXCEPT ![1] = TrimLeft[p[1]]] = p
    BY <1>2, <1>3, <1>4
  <2>2. [p EXCEPT ![n] = TrimRight[p[n]]] = p
    BY <1>2, <1>3, <1>4
  <2> QED BY <1>3, <2>1, <2>2 DEF Trim
<1>6. Head(p) \notin {"", ".", ".."}
  <2>1. Head(p) = p[1] /\ 1 \in 1..Len(p)
    BY <1>2, <1>3
  <2>2. p[1] \notin Skipped /\ p[1] # Up
    BY <1>2, <2>1 DEF Downward
  <2> QED BY <2>1, <2>2 DEF Skipped, Up
<1>7. Clean(p) = p
  BY <1>2, CleanAgain
<1>8. Safe(p) = p
  BY <1>2, <1>5, <1>6, <1>7 DEF Safe
<1> QED BY <1>1, <1>8

-----------------------------------------------------------------------------
(* What opening a listed file yields.                                      *)

(* The first listed entry of a path is the one that opening it finds. *)
LEMMA MatchIsListed ==
  ASSUME NEW a \in Archive, NEW i \in Listed(a), NEW L, L = {j \in Listed(a) : Path(a, j) = Path(a, i)}
  PROVE  /\ Match(a, Path(a, i)) = Min(L) /\ Min(L) \in L /\ i \in L
         /\ Match(a, Path(a, i)) # 0 /\ Min(L) \in 1..Stop(a) - 1
         /\ a.entries[Min(L)].size \in Nat
<1>1. PICK n, stop : n = Len(a.entries) /\ stop = Stop(a)
  OBVIOUS
<1>2. /\ n \in Nat /\ DOMAIN a.entries = 1..n /\ stop \in 1..n + 1
      /\ Listed(a) = {j \in 1..n : j < stop /\ Regular(a, j)}
  BY <1>1, StopIs
<1>3. PICK path : path = Path(a, i)
  OBVIOUS
<1>4. PICK M : M = {j \in 1..n : Regular(a, j) /\ Path(a, j) = path}
  OBVIOUS
<1>5. L \subseteq M /\ i \in L /\ M \subseteq Nat /\ L = {j \in M : j < stop}
  BY <1>2, <1>3, <1>4
<1>6. Min(M) \in M /\ (\A m \in M : Min(M) <= m) /\ Min(L) \in L /\ (\A m \in L : Min(L) <= m)
  BY <1>5, MinIs
<1>7. Min(M) = Min(L)
  <2>1. PICK x, y : x = Min(M) /\ y = Min(L)
    OBVIOUS
  <2>5. i \in M /\ i < stop /\ stop \in Nat /\ i \in Nat
    BY <1>2, <1>5
  <2>6. x \in M /\ y \in M /\ x <= i /\ x \in Nat /\ y \in Nat
    BY <1>5, <1>6, <2>1, <2>5
  <2>2. x \in Nat /\ y \in Nat /\ i \in Nat /\ x <= i /\ i < stop /\ stop \in Nat /\ x \in M /\ y \in M
    BY ONLY <2>5, <2>6
  <2>3. x \in L
    BY <1>5, <2>2
  <2>4. x <= y /\ y <= x
    BY <1>6, <2>1, <2>2, <2>3
  <2> QED BY <2>1, <2>2, <2>4
<1>8. Match(a, path) = IF M # {} THEN Min(M) ELSE 0
  BY <1>2, <1>4 DEF Match, First
<1>9. Min(L) \in 1..n /\ Min(L) < stop
  BY <1>4, <1>5, <1>6
<1>10. a.entries[Min(L)] \in Entry
  BY <1>2, <1>9 DEF Archive
<1>11. Match(a, path) = Min(L)
  BY <1>5, <1>7, <1>8
<1>12. Min(L) \in 1..stop - 1 /\ Min(L) # 0
  BY ONLY <1>2, <1>9
<1>13. a.entries[Min(L)].size \in Nat
  BY <1>10 DEF Entry
<1> QED BY ONLY <1>1, <1>3, <1>5, <1>6, <1>11, <1>12, <1>13

(* The file that a request for the path of entry i yields. *)
Opens(a, i) ==
  LET asked == Path(a, i)
      named == {j \in Listed(a) : Path(a, j) = Safe(asked)}
      first == a.entries[Min(named)]
      file == ReadFile(a, asked)
      whole == Download(a, asked) IN
  /\ Bare(asked) => i \in named
  /\ named # {} /\ Sound(first) => file.status = "ok" /\ whole.status \in {"ok", "too large"}
  /\ file.status = "ok" => named # {} /\ file.size = first.size /\ file.truncated = (file.content < file.size)
  /\ whole.status = "ok" => named # {} /\ whole.content = first.size
  /\ whole.status = "too large" => named # {} /\ first.size > MaxDownload

(* What reading an entry yields. *)
ReadIs(e, limit, r) ==
  /\ r.status \in {"ok", "malformed"}
  /\ Sound(e) => r.status = "ok"
  /\ r.status = "ok" => /\ r.truncated = (e.size > limit) /\ r.truncated = (r.content < e.size)
                        /\ ~ r.truncated => r.content = e.size

LEMMA ReadEntry ==
  ASSUME NEW a, NEW m, Unpacked(a, m), a.entries[m].size \in Nat, NEW limit \in Nat
  PROVE  ReadIs(a.entries[m], limit, Read(a, m, limit))
<1>1. PICK e, size, r : e = a.entries[m] /\ size = e.size /\ size \in Nat /\ r = Read(a, m, limit)
  OBVIOUS
<1>2. PICK x : x = Min({size, limit})
  OBVIOUS
<1>3. x \in {size, limit} /\ x <= size /\ x <= limit
  BY <1>1, <1>2, MinIs
<1>4. r = IF a.format = "zip" /\ ~Sound(e) /\ e.breaks <= limit THEN [status |-> "malformed"]
          ELSE [status |-> "ok", content |-> x, truncated |-> size > limit]
  BY <1>1, <1>2 DEF Read
<1>5. CASE a.format = "zip" /\ ~Sound(e) /\ e.breaks <= limit
  <2>1. r = [status |-> "malformed"]
    BY <1>4, <1>5
  <2>2. r.status = "malformed"
    BY ONLY <2>1
  <2> QED BY ONLY <1>1, <1>5, <2>2 DEF ReadIs
<1>6. CASE ~ (a.format = "zip" /\ ~Sound(e) /\ e.breaks <= limit)
  <2>1. r = [status |-> "ok", content |-> x, truncated |-> size > limit]
    BY <1>4, <1>6
  <2>2. r.status = "ok" /\ r.content = x /\ r.truncated = (size > limit)
    BY ONLY <2>1
  <2>3. (size > limit) = (x < size)
    BY <1>1, <1>3
  <2>4. ~ (size > limit) => x = size
    BY <1>1, <1>3
  <2>5. r.truncated = (r.content < size) /\ (~ r.truncated => r.content = size)
    BY ONLY <2>2, <2>3, <2>4
  <2> QED BY ONLY <1>1, <2>2, <2>5 DEF ReadIs
<1> QED BY <1>5, <1>6

LEMMA OpensListed ==
  ASSUME NEW a \in Archive, WellFormed(a), NEW i \in Listed(a)
  PROVE  Opens(a, i)
<1>1. PICK asked, path : asked = Path(a, i) /\ path = Safe(asked)
  OBVIOUS
<1>2. PICK L : L = {j \in Listed(a) : Path(a, j) = path}
  OBVIOUS
<1>3. PICK file, whole : file = ReadFile(a, asked) /\ whole = Download(a, asked)
  OBVIOUS
<1>4. Bare(asked) => i \in L
  BY <1>1, <1>2, SafeAgain
<1>5. CASE path = Refused
  <2>1. file = [status |-> "invalid"] /\ whole = [status |-> "invalid"]
    BY <1>1, <1>3, <1>5 DEF ReadFile, Download
  <2>2. file.status = "invalid" /\ whole.status = "invalid"
    BY ONLY <2>1
  <2>3. L = {}
    BY <1>2, <1>5, PathIs
  <2> QED BY ONLY <1>1, <1>2, <1>3, <1>4, <2>2, <2>3 DEF Opens
<1>6. CASE path # Refused /\ L = {}
  <2>1. file = [status |-> "not found"] /\ whole = [status |-> "not found"]
    BY <1>1, <1>2, <1>3, <1>6 DEF ReadFile, Download
  <2>2. file.status = "not found" /\ whole.status = "not found"
    BY ONLY <2>1
  <2> QED BY ONLY <1>1, <1>2, <1>3, <1>4, <1>6, <2>2 DEF Opens
<1>7. CASE path # Refused /\ L # {}
  <2>1. PICK k \in L : TRUE
    BY <1>7
  <2>2. k \in Listed(a) /\ Path(a, k) = path /\ L = {j \in Listed(a) : Path(a, j) = Path(a, k)}
    BY <1>2, <2>1
  <2>3. PICK m, e : m = Min(L) /\ e = a.entries[m]
    OBVIOUS
  <2>4. Match(a, path) = m /\ m # 0 /\ m \in 1..Stop(a) - 1 /\ e.size \in Nat
    <3>1. /\ Match(a, Path(a, k)) = Min(L) /\ Match(a, Path(a, k)) # 0 /\ Min(L) \in 1..Stop(a) - 1
          /\ a.entries[Min(L)].size \in Nat
      BY ONLY a \in Archive, <2>2, MatchIsListed
    <3> QED BY <2>2, <2>3, <3>1
  <2>5. Unpacked(a, m)
    BY <2>4 DEF WellFormed
  <2>6. PICK preview, all : preview = Read(a, m, MaxPreview) /\ all = Read(a, m, MaxDownload)
    OBVIOUS
  <2>7. ReadIs(e, MaxPreview, preview) /\ ReadIs(e, MaxDownload, all)
    <3>1. MaxPreview \in Nat /\ MaxDownload \in Nat
      BY LimitsAssumption
    <3> QED BY <2>3, <2>4, <2>5, <2>6, <3>1, ReadEntry
  <2>8. /\ preview.status # "ok" => file = preview
        /\ preview.status = "ok" => file = [status |-> "ok", content |-> preview.content,
                                          truncated |-> preview.truncated, size |-> e.size]
    BY <1>1, <1>2, <1>3, <1>7, <2>3, <2>4, <2>6 DEF ReadFile
  <2>9. ~ (\A j \in Listed(a) : Path(a, j) # path)
    BY <1>2, <1>7
  <2>10. whole = IF all.status # "ok" THEN all
                 ELSE IF all.truncated THEN [status |-> "too large"]
                 ELSE [status |-> "ok", content |-> all.content]
    BY <1>1, <1>3, <1>7, <2>4, <2>6, <2>9 DEF Download
  <2>11. /\ Sound(e) => file.status = "ok"
         /\ file.status = "ok" => file.size = e.size /\ file.truncated = (file.content < file.size)
    <3>1. CASE preview.status = "ok"
      <4>1. file = [status |-> "ok", content |-> preview.content, truncated |-> preview.truncated, size |-> e.size]
        BY ONLY <2>8, <3>1
      <4>2. /\ file.status = "ok" /\ file.content = preview.content /\ file.truncated = preview.truncated
            /\ file.size = e.size
        BY ONLY <4>1
      <4>3. preview.truncated = (preview.content < e.size)
        BY ONLY <2>7, <3>1 DEF ReadIs
      <4> QED BY ONLY <4>2, <4>3
    <3>2. CASE preview.status # "ok"
      <4>1. ~Sound(e) /\ file = preview
        BY ONLY <2>7, <2>8, <3>2 DEF ReadIs
      <4> QED BY ONLY <3>2, <4>1
    <3> QED BY ONLY <3>1, <3>2
  <2>12. /\ Sound(e) => whole.status \in {"ok", "too large"}
         /\ whole.status = "ok" => whole.content = e.size
         /\ whole.status = "too large" => e.size > MaxDownload
    <3>1. CASE all.status # "ok"
      <4>1. ~Sound(e) /\ whole = all /\ all.status = "malformed"
        BY ONLY <2>7, <2>10, <3>1 DEF ReadIs
      <4> QED BY ONLY <4>1
    <3>2. CASE all.status = "ok" /\ all.truncated
      <4>1. whole = [status |-> "too large"]
        BY ONLY <2>10, <3>2
      <4>2. whole.status = "too large"
        BY ONLY <4>1
      <4>3. e.size > MaxDownload
        BY ONLY <2>7, <3>2 DEF ReadIs
      <4> QED BY ONLY <4>2, <4>3
    <3>3. CASE all.status = "ok" /\ ~all.truncated
      <4>1. whole = [status |-> "ok", content |-> all.content]
        BY ONLY <2>10, <3>3
      <4>2. whole.status = "ok" /\ whole.content = all.content
        BY ONLY <4>1
      <4>3. all.content = e.size
        BY ONLY <2>7, <3>3 DEF ReadIs
      <4> QED BY ONLY <4>2, <4>3
    <3> QED BY ONLY <3>1, <3>2, <3>3
  <2> QED BY ONLY <1>1, <1>2, <1>3, <1>4, <1>7, <2>3, <2>11, <2>12 DEF Opens
<1> QED BY <1>5, <1>6, <1>7

LEMMA ParsedArchives ==
  ASSUME BrowserInv, NEW a \in Parsed
  PROVE  a \in Archive /\ WellFormed(a)
<1>1. PICK r \in Readers : reader[r].at = "put" /\ a = objects[reader[r].key].archive
  BY DEF Parsed
<1>2. Fetched(r)
  BY <1>1 DEF BrowserInv, Requests
<1> QED BY <1>1, <1>2, Weights DEF Fetched

(* Whatever archive was uploaded, a listed file whose path neither begins  *)
(* nor ends in a blank is found when it is asked for, and read or          *)
(* downloaded if its entry is sound; whatever is read or downloaded is the *)
(* first entry listed of the path asked for, cleaned once more             *)
(* (safeArchivePath, listZipEntries, listTarEntries, extractWith, readFile)*)
THEOREM ListedDoOpen == BrowserSpec => []ListedFilesOpen
<1>1. BrowserInv => ListedFilesOpen
  <2> SUFFICES ASSUME BrowserInv, NEW a \in Parsed, NEW i \in Listed(a) PROVE Opens(a, i)
    BY DEF ListedFilesOpen, Opens
  <2>1. a \in Archive /\ WellFormed(a)
    BY ParsedArchives
  <2> QED BY ONLY i \in Listed(a), <2>1, OpensListed
<1> QED BY <1>1, BrowserAlways, PTL

-----------------------------------------------------------------------------
(* The README is a fold over the entries.                                  *)

(* pickReadme: the entry that is better than the best before it. *)
ReadmesOf(a) == {i \in Listed(a) : Last(Path(a, i)) \in Readmes}

Spelt(a, i) == Sum(DOMAIN Path(a, i), LAMBDA n : Length[Path(a, i)[n]] + 1)

BetterOf(a, best, i) ==
  IF i \notin Listed(a) \/ Last(Path(a, i)) \notin Readmes THEN best
  ELSE IF \/ best = 0
          \/ Len(Path(a, i)) < Len(Path(a, best))
          \/ Len(Path(a, i)) = Len(Path(a, best)) /\ Spelt(a, i) < Spelt(a, best)
       THEN i ELSE best

(* Of the entries in s, best is a README least deep, 0 if there is none. *)
BestOf(a, s, best) ==
  /\ s \cap ReadmesOf(a) = {} => best = 0
  /\ s \cap ReadmesOf(a) # {} =>
       best \in s \cap ReadmesOf(a) /\ \A i \in s \cap ReadmesOf(a) : Len(Path(a, best)) <= Len(Path(a, i))

LEMMA BetterStays ==
  ASSUME NEW a, ReadmesOf(a) \subseteq Nat \ {0}, \A i \in ReadmesOf(a) : Len(Path(a, i)) \in Nat,
         NEW s, NEW i \in s, NEW best, BestOf(a, s \ {i}, best)
  PROVE  BestOf(a, s, BetterOf(a, best, i))
<1>1. PICK R, t : R = ReadmesOf(a) /\ t = s \ {i}
  OBVIOUS
<1>2. CASE i \notin R
  <2>1. BetterOf(a, best, i) = best
    BY <1>1, <1>2 DEF BetterOf, ReadmesOf
  <2>2. s \cap R = t \cap R
    BY <1>1, <1>2
  <2> QED BY <1>1, <2>1, <2>2 DEF BestOf
<1>3. CASE i \in R
  <2>1. PICK new : new = BetterOf(a, best, i)
    OBVIOUS
  <2>2. new = IF \/ best = 0
                 \/ Len(Path(a, i)) < Len(Path(a, best))
                 \/ Len(Path(a, i)) = Len(Path(a, best)) /\ Spelt(a, i) < Spelt(a, best)
              THEN i ELSE best
    BY <1>1, <1>3, <2>1 DEF BetterOf, ReadmesOf
  <2>3. i \in s \cap R /\ s \cap R = (t \cap R) \cup {i}
    BY <1>1, <1>3
  <2>4. CASE t \cap R = {}
    <3>1. best = 0
      BY <1>1, <2>4 DEF BestOf
    <3>2. new = i /\ s \cap R = {i} /\ Len(Path(a, i)) \in Nat
      BY <1>1, <1>3, <2>2, <2>3, <2>4, <3>1
    <3> QED BY <1>1, <2>1, <3>2 DEF BestOf
  <2>5. CASE t \cap R # {}
    <3>1. best \in t \cap R /\ \A j \in t \cap R : Len(Path(a, best)) <= Len(Path(a, j))
      BY <1>1, <2>5 DEF BestOf
    <3>2. /\ best # 0 /\ best \in R /\ Len(Path(a, best)) \in Nat /\ Len(Path(a, i)) \in Nat
          /\ \A j \in R : Len(Path(a, j)) \in Nat
      BY <1>1, <1>3, <3>1
    <3>3. new \in {i, best} /\ Len(Path(a, new)) <= Len(Path(a, i)) /\ Len(Path(a, new)) <= Len(Path(a, best))
      <4>1. CASE new = i
        BY <2>2, <3>2, <4>1
      <4>2. CASE new # i
        BY <2>2, <3>2, <4>2
      <4> QED BY <4>1, <4>2
    <3>4. new \in s \cap R /\ Len(Path(a, new)) \in Nat
      BY <2>3, <3>1, <3>2, <3>3
    <3>5. \A j \in s \cap R : Len(Path(a, new)) <= Len(Path(a, j))
      BY <2>3, <3>1, <3>2, <3>3, <3>4
    <3> QED BY <1>1, <2>1, <3>4, <3>5 DEF BestOf
  <2> QED BY <2>4, <2>5
<1> QED BY <1>2, <1>3

LEMMA PickReadmeIs ==
  ASSUME NEW a, NEW n \in Nat, DOMAIN a.entries = 1..n, Listed(a) \subseteq 1..n,
         \A i \in ReadmesOf(a) : Len(Path(a, i)) \in Nat
  PROVE  BestOf(a, 1..n, PickReadme(a))
<1> DEFINE dom == [i \in DOMAIN a.entries |-> i]
<1> DEFINE S == DOMAIN dom
<1>1. S = 1..n
  OBVIOUS
<1>2. IsFiniteSet(S) /\ DOMAIN dom = S /\ DOMAIN a.entries = S /\ \A i \in S : dom[i] = i
  <2>1. IsFiniteSet(1..n)
    BY FS_Interval
  <2> QED BY <1>1, <2>1
<1> HIDE DEF dom, S
<1>3. ReadmesOf(a) \subseteq Nat \ {0}
  BY DEF ReadmesOf
<1>4. \A v \in Nat, i \in S : BetterOf(a, v, i) \in Nat
  BY <1>1 DEF BetterOf
<1>5. PICK ch : ch = [s \in SUBSET S |-> Max(s)]
  OBVIOUS
<1>6. PICK G : G = [p \in (SUBSET S) \X Nat |-> BetterOf(a, p[2], ch[p[1]])]
  OBVIOUS
<1>7. \A s \in (SUBSET S) \ {{}} : ch[s] \in s
  BY <1>1, <1>5, MaxIs
<1>8. \A s \in SUBSET S, v \in Nat : G[<<s, v>>] = BetterOf(a, v, ch[s])
  BY <1>6
<1>9. \A s \in (SUBSET S) \ {{}} : ch[s] \in s /\ \A v \in Nat : G[<<s, v>>] \in Nat
  <2> SUFFICES ASSUME NEW s \in (SUBSET S) \ {{}}, NEW v \in Nat PROVE ch[s] \in s /\ G[<<s, v>>] \in Nat
    BY <1>7
  <2>1. ch[s] \in s /\ ch[s] \in S
    BY <1>7
  <2> QED BY <1>4, <1>8, <2>1
<1>11. PICK f : Recurs(f, S, Nat, 0, G, ch)
  BY ONLY <1>2, <1>9, 0 \in Nat, RecursExists
<1> DEFINE Step(g) == [s \in SUBSET S |-> IF s = {} THEN 0 ELSE LET x == Max(s) IN BetterOf(a, g[s \ {x}], dom[x])]
<1>12. f = Step(f)
  <2>1. ASSUME NEW s \in SUBSET S
        PROVE  f[s] = IF s = {} THEN 0 ELSE LET x == Max(s) IN BetterOf(a, f[s \ {x}], dom[x])
    <3>1. PICK t : t = s \ {ch[s]}
      OBVIOUS
    <3>2. f[t] \in Nat /\ f[s] = IF s = {} THEN 0 ELSE G[<<s, f[t]>>]
      BY <1>11, <3>1 DEF Recurs
    <3>3. s # {} => dom[ch[s]] = ch[s]
      BY <1>2, <1>7
    <3>4. f[s] = IF s = {} THEN 0 ELSE BetterOf(a, f[t], dom[ch[s]])
      BY <1>8, <3>2, <3>3
    <3> QED BY <1>5, <3>1, <3>4
  <2>2. f = [s \in SUBSET S |-> f[s]]
    BY <1>11 DEF Recurs
  <2> QED BY <2>1, <2>2
<1>13. PickReadme(a) = (CHOOSE g : g = Step(g))[S]
  BY DEF dom, S, PickReadme, BetterOf, Spelt, FoldLeftDomain, FoldLeft, MapThenFoldSet
<1>14. PICK g : g = Step(g) /\ PickReadme(a) = g[S]
  <2>1. (CHOOSE g : g = Step(g)) = Step(CHOOSE g : g = Step(g))
    <3> HIDE DEF Step
    <3> QED BY <1>12
  <2> QED BY <1>13, <2>1
<1>15. \A s \in SUBSET S : g[s] = IF s = {} THEN 0 ELSE BetterOf(a, g[s \ {ch[s]}], dom[ch[s]])
  BY <1>5, <1>14
<1> HIDE DEF Step
<1>16. \A s \in SUBSET S : BestOf(a, s, g[s])
  <2>1. PICK T : T = {s \in SUBSET S : ~ BestOf(a, s, g[s])}
    OBVIOUS
  <2> SUFFICES ASSUME T # {} PROVE FALSE
    BY <2>1
  <2>2. T \subseteq SUBSET S
    BY <2>1
  <2>3. PICK s \in T : \A t \in T : t \subseteq s => t = s
    BY ONLY <2>2, <1>2, T # {}, LeastSet
  <2>4. s \in SUBSET S /\ ~ BestOf(a, s, g[s])
    BY <2>1
  <2>5. PICK i, t : i = ch[s] /\ t = s \ {i}
    OBVIOUS
  <2>6. g[s] = IF s = {} THEN 0 ELSE BetterOf(a, g[t], dom[i])
    BY <1>15, <2>4, <2>5
  <2>7. s # {}
    BY ONLY <2>4, <2>6 DEF BestOf
  <2>8. i \in s /\ dom[i] = i
    BY <1>2, <1>7, <2>4, <2>5, <2>7
  <2>9. t \in SUBSET S /\ t \notin T
    BY <2>3, <2>4, <2>5, <2>8
  <2>10. BestOf(a, s \ {i}, g[t])
    BY <2>1, <2>5, <2>9
  <2>11. BestOf(a, s, BetterOf(a, g[t], i))
    BY ONLY <1>3, \A j \in ReadmesOf(a) : Len(Path(a, j)) \in Nat, <2>8, <2>10, BetterStays
  <2> QED BY <2>4, <2>6, <2>7, <2>8, <2>11
<1> QED BY <1>1, <1>14, <1>16

-----------------------------------------------------------------------------
(* The order of the tree.                                                  *)

LEMMA FrontIs ==
  ASSUME NEW p \in Seq(Names), p # <<>>
  PROVE  /\ Len(p) \in Nat \ {0} /\ Front(p) = SubSeq(p, 1, Len(p) - 1)
         /\ Front(p) \in Seq(Names) /\ Len(Front(p)) = Len(p) - 1
<1>1. Len(p) \in Nat /\ Len(p) # 0
  OBVIOUS
<1>2. Len(p) - 1 \in Nat /\ Len(p) - 1 <= Len(p)
  BY <1>1
<1>3. Front(p) = SubSeq(p, 1, Len(p) - 1)
  BY DEF Front
<1>4. SubSeq(p, 1, Len(p) - 1) \in Seq(Names) /\ Len(SubSeq(p, 1, Len(p) - 1)) = Len(p) - 1
  <2>1. PICK k : k = Len(p) - 1 /\ k \in Nat /\ k <= Len(p)
    BY <1>2
  <2>2. \A j \in 1..k : p[j] \in Names
    BY <1>1, <2>1
  <2>3. SubSeq(p, 1, k) \in Seq(Names)
    BY <2>1, <2>2
  <2>4. Len(SubSeq(p, 1, k)) = k
    BY <2>1
  <2> QED BY <2>1, <2>3, <2>4
<1> QED BY <1>1, <1>3, <1>4

LEMMA StartOf ==
  ASSUME NEW p \in Seq(Names), NEW n \in 1..Len(p)
  PROVE  /\ SubSeq(p, 1, n) \in Seq(Names) /\ Len(SubSeq(p, 1, n)) = n /\ SubSeq(p, 1, n) # <<>>
         /\ Front(SubSeq(p, 1, n)) = SubSeq(p, 1, n - 1)
<1>1. PICK s : s = SubSeq(p, 1, n)
  OBVIOUS
<1>2. s \in Seq(Names) /\ Len(s) = n /\ \A j \in 1..n : s[j] = p[j]
  BY <1>1
<1>3. s # <<>>
  BY <1>2
<1>4. Front(s) = SubSeq(p, 1, n - 1)
  <2>1. /\ Front(s) \in Seq(Names) /\ Len(Front(s)) = n - 1
        /\ \A j \in 1..n - 1 : Front(s)[j] = p[j]
    BY <1>2 DEF Front
  <2>2. /\ SubSeq(p, 1, n - 1) \in Seq(Names) /\ Len(SubSeq(p, 1, n - 1)) = n - 1
        /\ \A j \in 1..n - 1 : SubSeq(p, 1, n - 1)[j] = p[j]
    OBVIOUS
  <2> QED BY <2>1, <2>2
<1> QED BY <1>1, <1>2, <1>3, <1>4

(* A node's path, and that of the directory it is in. *)
LEMMA NodeIs ==
  ASSUME NEW a \in Archive, NEW x \in Nodes(a)
  PROVE  /\ x.path \in Seq(Names) /\ x.path # <<>> /\ x.dir \in BOOLEAN
         /\ x.dir => x = [path |-> x.path, dir |-> TRUE, at |-> 0]
         /\ Front(x.path) \in Seq(Names) /\ Len(Front(x.path)) = Len(x.path) - 1
         /\ Front(x.path) # <<>> => [path |-> Front(x.path), dir |-> TRUE, at |-> 0] \in Nodes(a)
<1>1. CASE \E i \in Listed(a) : x = [path |-> Path(a, i), dir |-> FALSE, at |-> i]
  <2>1. PICK i \in Listed(a) : x = [path |-> Path(a, i), dir |-> FALSE, at |-> i]
    BY <1>1
  <2>2. PICK p : p = Path(a, i) /\ p \in Seq(Names) /\ p # <<>>
    BY PathIs
  <2>3. /\ Front(p) \in Seq(Names) /\ Len(Front(p)) = Len(p) - 1 /\ Front(p) = SubSeq(p, 1, Len(p) - 1)
        /\ Len(p) \in Nat \ {0}
    BY <2>2, FrontIs
  <2>4. Front(p) # <<>> => Front(p) \in Directories(a)
    <3>1. Front(p) # <<>> => Len(p) - 1 \in 1..Len(p) - 1
      BY ONLY <2>2, <2>3
    <3>2. Front(p) # <<>> => Front(p) \in {SubSeq(Path(a, i), 1, n) : n \in 1..Len(Path(a, i)) - 1}
      BY <2>2, <2>3, <3>1
    <3> QED BY <3>2 DEF Directories
  <2> QED BY <2>1, <2>2, <2>3, <2>4 DEF Nodes
<1>2. CASE \E d \in Directories(a) : x = [path |-> d, dir |-> TRUE, at |-> 0]
  <2>1. PICK d \in Directories(a) : x = [path |-> d, dir |-> TRUE, at |-> 0]
    BY <1>2
  <2>7. PICK i \in Listed(a) : \E n \in 1..Len(Path(a, i)) - 1 : d = SubSeq(Path(a, i), 1, n)
    BY <2>1 DEF Directories
  <2>2. PICK n \in 1..Len(Path(a, i)) - 1 : d = SubSeq(Path(a, i), 1, n)
    BY <2>7
  <2>3. PICK p : p = Path(a, i) /\ p \in Seq(Names) /\ p # <<>>
    BY PathIs
  <2>8. n \in 1..Len(p) - 1 /\ n \in 1..Len(p) /\ d = SubSeq(p, 1, n)
    BY <2>2, <2>3
  <2>4. d \in Seq(Names) /\ d # <<>> /\ Len(d) = n /\ Front(d) = SubSeq(p, 1, n - 1) /\ n \in 1..Len(p) - 1
    BY <2>3, <2>8, StartOf
  <2>5. Front(d) \in Seq(Names) /\ Len(Front(d)) = n - 1
    BY <2>3, <2>4
  <2>6. Front(d) # <<>> => Front(d) \in Directories(a)
    <3>1. Front(d) # <<>> => n - 1 \in 1..Len(p) - 1
      BY <2>3, <2>4, <2>5
    <3> QED BY <2>3, <2>4, <3>1 DEF Directories
  <2> QED BY <2>1, <2>4, <2>5, <2>6 DEF Nodes
<1> QED BY <1>1, <1>2 DEF Nodes

(* Of two paths as long as each other each cannot come before the other. *)
LEMMA EarlierOne ==
  ASSUME NEW p \in Seq(Names), NEW q \in Seq(Names), Len(p) = Len(q), Earlier(p, q), Earlier(q, p)
  PROVE  FALSE
<1>1. PICK m : m = Len(p) /\ m = Len(q) /\ m \in Nat
  OBVIOUS
<1>2. Min({Len(p), Len(q)}) = m /\ Min({Len(q), Len(p)}) = m
  <2>1. {Len(p), Len(q)} = {m} /\ {Len(q), Len(p)} = {m}
    BY <1>1
  <2>2. Min({m}) \in {m}
    <3>1. {m} \subseteq Nat /\ {m} # {}
      BY <1>1
    <3> QED BY ONLY <3>1, MinIs
  <2> QED BY <2>1, <2>2
<1>3. ~ IsStrictPrefix(p, q) /\ ~ IsStrictPrefix(q, p)
  BY <1>1 DEF IsStrictPrefix, IsPrefix
<1>4. PICK n \in 1..m : SubSeq(p, 1, n - 1) = SubSeq(q, 1, n - 1) /\ Rank[p[n]] < Rank[q[n]]
  BY <1>2, <1>3 DEF Earlier
<1>5. PICK l \in 1..m : SubSeq(q, 1, l - 1) = SubSeq(p, 1, l - 1) /\ Rank[q[l]] < Rank[p[l]]
  BY <1>2, <1>3 DEF Earlier
<1>6. \A k \in 1..m : /\ Rank[p[k]] \in Nat /\ Rank[q[k]] \in Nat
                      /\ SubSeq(p, 1, k - 1) = SubSeq(q, 1, k - 1) => \A j \in 1..k - 1 : p[j] = q[j]
  <2> SUFFICES ASSUME NEW k \in 1..m
               PROVE  /\ Rank[p[k]] \in Nat /\ Rank[q[k]] \in Nat
                      /\ SubSeq(p, 1, k - 1) = SubSeq(q, 1, k - 1) => \A j \in 1..k - 1 : p[j] = q[j]
    OBVIOUS
  <2>1. p[k] \in Names /\ q[k] \in Names
    BY <1>1
  <2>2. \A j \in 1..k - 1 : SubSeq(p, 1, k - 1)[j] = p[j] /\ SubSeq(q, 1, k - 1)[j] = q[j]
    BY <1>1
  <2> QED BY <2>1, <2>2, NamesAssumption
<1>7. CASE n < l
  BY <1>4, <1>5, <1>6, <1>7
<1>8. CASE l < n
  BY <1>4, <1>5, <1>6, <1>8
<1>9. CASE l = n
  BY <1>4, <1>5, <1>6, <1>9
<1> QED BY <1>1, <1>7, <1>8, <1>9

LEMMA DirectoryFirst ==
  ASSUME NEW a \in Archive, NEW x \in Nodes(a), Front(x.path) # <<>>
  PROVE  Cardinality({d \in Nodes(a) : d.dir /\ d.path = Front(x.path) /\ Before(d, x)}) = 1
<1>1. PICK up : up = [path |-> Front(x.path), dir |-> TRUE, at |-> 0]
  OBVIOUS
<1>2. up \in Nodes(a) /\ up.dir /\ up.path = Front(x.path)
  BY <1>1, NodeIs
<1>3. Before(up, x)
  <2>1. PICK p, q : p = Front(up.path) /\ q = Front(x.path)
    OBVIOUS
  <2>2. Len(p) = Len(q) - 1 /\ Len(q) \in Nat
    <3>1. Len(Front(up.path)) = Len(up.path) - 1
      BY <1>2, NodeIs
    <3>2. Front(x.path) \in Seq(Names)
      BY NodeIs
    <3> QED BY <1>2, <2>1, <3>1, <3>2
  <2>3. Len(p) < Len(q)
    BY ONLY <2>2
  <2> QED BY <2>1, <2>3 DEF Before
<1>4. \A d \in Nodes(a) : d.dir /\ d.path = Front(x.path) => d = up
  BY <1>1, NodeIs
<1>5. {d \in Nodes(a) : d.dir /\ d.path = Front(x.path) /\ Before(d, x)} = {up}
  BY <1>2, <1>3, <1>4
<1> QED BY <1>5, FS_Singleton

LEMMA EntriesTogether ==
  ASSUME NEW a \in Archive, NEW x \in Nodes(a), NEW y \in Nodes(a), NEW z \in Nodes(a),
         Front(x.path) = Front(z.path), Before(x, y), Before(y, z)
  PROVE  Front(y.path) = Front(x.path)
<1>1. PICK p, q : p = Front(x.path) /\ q = Front(y.path) /\ p = Front(z.path)
  OBVIOUS
<1>2. p \in Seq(Names) /\ q \in Seq(Names)
  BY <1>1, NodeIs
<1>3. \/ p = q
      \/ Len(p) < Len(q)
      \/ Len(p) = Len(q) /\ Earlier(p, q)
  BY <1>1 DEF Before
<1>4. \/ p = q
      \/ Len(q) < Len(p)
      \/ Len(q) = Len(p) /\ Earlier(q, p)
  BY <1>1 DEF Before
<1>5. ASSUME p # q PROVE FALSE
  <2>1. Len(p) \in Nat /\ Len(q) \in Nat
    BY <1>2
  <2>2. Len(p) = Len(q) /\ Earlier(p, q) /\ Earlier(q, p)
    BY ONLY <1>3, <1>4, <1>5, <2>1
  <2> QED BY <1>2, <2>2, EarlierOne
<1> QED BY <1>1, <1>5

Shows(a) ==
  /\ \A x \in Nodes(a) : Front(x.path) # <<>> =>
       Cardinality({d \in Nodes(a) : d.dir /\ d.path = Front(x.path) /\ Before(d, x)}) = 1
  /\ \A x, y, z \in Nodes(a) :
       Front(x.path) = Front(z.path) /\ Before(x, y) /\ Before(y, z) => Front(y.path) = Front(x.path)
  /\ LET readmes == {i \in Listed(a) : Last(Path(a, i)) \in Readmes}
     IN  readmes # {} => /\ PickReadme(a) \in readmes
                         /\ \A i \in readmes : Len(Path(a, PickReadme(a))) <= Len(Path(a, i))

LEMMA ShowsAll == ASSUME NEW a \in Archive PROVE Shows(a)
<1>1. PICK n : n = Len(a.entries) /\ n \in Nat /\ DOMAIN a.entries = 1..n
  BY StopIs
<1>2. Listed(a) \subseteq 1..n
  BY <1>1, StopIs
<1>3. \A i \in ReadmesOf(a) : Len(Path(a, i)) \in Nat
  BY PathIs DEF ReadmesOf
<1>4. BestOf(a, 1..n, PickReadme(a))
  BY <1>1, <1>2, <1>3, PickReadmeIs
<1>5. (1..n) \cap ReadmesOf(a) = ReadmesOf(a)
  BY <1>2 DEF ReadmesOf
<1>6. ReadmesOf(a) # {} =>
        /\ PickReadme(a) \in ReadmesOf(a)
        /\ \A i \in ReadmesOf(a) : Len(Path(a, PickReadme(a))) <= Len(Path(a, i))
  BY <1>4, <1>5 DEF BestOf
<1> QED BY <1>6, DirectoryFirst, EntriesTogether DEF Shows, ReadmesOf

(* Whatever archive was uploaded, the order of its nodes puts every        *)
(* directory once and before what is in it, keeps the entries of one       *)
(* directory next to each other, and the README is one least deep          *)
(* (buildCodeTree, pickReadme).                                            *)
THEOREM TreeIsShown == BrowserSpec => []TreeShows
<1>1. BrowserInv => TreeShows
  <2> SUFFICES ASSUME BrowserInv, NEW a \in Parsed PROVE Shows(a)
    BY DEF TreeShows, Shows
  <2> QED BY ParsedArchives, ShowsAll
<1> QED BY <1>1, BrowserAlways, PTL
=============================================================================
