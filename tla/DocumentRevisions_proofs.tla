-------------------- MODULE DocumentRevisions_proofs --------------------
(***************************************************************************)
(* Proofs about DocumentRevisions, for any set of requests and authors,    *)
(* any retention Keep, any mix of handlers and any failing calls.          *)
(*                                                                         *)
(* RevisionsInv is inductive (InitInv, StepInv).  A revision is amended    *)
(* under an ID and pruned under a version number read by earlier           *)
(* statements; what makes that safe is that IDs are given out once         *)
(* (IdsUnique), that the ID a request waits to amend is an edit's          *)
(* (AmendTargetsEdit), and that a prune limit once found keeps Keep        *)
(* revisions above it whatever others append or prune (LimitsLeaveKeep).   *)
(***************************************************************************)
EXTENDS DocumentRevisions, FiniteSetTheorems, WellFoundedInduction, TLAPS

USE KeepAssumption, SeedAssumption DEF noted

-----------------------------------------------------------------------------
(* Operators *)

LEMMA LatestIsNewest ==
  ASSUME HasLatest, DOMAIN history # {}
  PROVE  /\ Latest \in DOMAIN history
         /\ \A u \in DOMAIN history : u <= Latest
BY DEF HasLatest, Latest

LEMMA AtLeastFinite ==
  ASSUME HistoryOK, NEW v
  PROVE  /\ AtLeast(v) \subseteq DOMAIN history
         /\ IsFiniteSet(AtLeast(v))
         /\ Cardinality(AtLeast(v)) \in Nat
<1>1. AtLeast(v) \subseteq DOMAIN history /\ IsFiniteSet(DOMAIN history)
  BY DEF AtLeast, HistoryOK
<1> QED BY <1>1, FS_Subset, FS_CardinalityType

-----------------------------------------------------------------------------
(* The initial states *)

(* A document without history, or the baseline of migration 000023.        *)
LEMMA InitHistory ==
  ASSUME Init
  PROVE  /\ HistoryOK
         /\ DocumentOK
         /\ DOMAIN history \subseteq {1}
         /\ \A v \in DOMAIN history : history[v].id = Seed
<1>1. CASE /\ body = NoBody /\ docVersion = 0 /\ docUpdatedBy = NoAuthor
           /\ history = [v \in {} |-> Seed]
  <2>1. DOMAIN history = {}
    BY <1>1
  <2>2. HistoryOK
    BY <1>1, <2>1, FS_EmptySet DEF HistoryOK
  <2> QED BY <1>1, <2>1, <2>2 DEF DocumentOK
<1>2. ASSUME NEW a \in Authors,
             body = Seed /\ docVersion = 1 /\ docUpdatedBy = a,
             history = [v \in {1} |-> [id |-> Seed, text |-> Seed,
                                       author |-> a, source |-> "create"]]
      PROVE  /\ HistoryOK /\ DocumentOK
             /\ DOMAIN history = {1} /\ history[1].id = Seed
  <2>1. /\ DOMAIN history = {1} /\ history[1].id = Seed
        /\ history \in [{1} -> Revision]
    BY <1>2 DEF Revision, RevisionIds, Texts, Sources
  <2>2. IsFiniteSet(DOMAIN history)
    BY <2>1, FS_Singleton
  <2> QED BY <1>2, <2>1, <2>2 DEF HistoryOK, DocumentOK, Texts
<1> QED BY <1>1, <1>2 DEF Init

LEMMA InitInv == Init => RevisionsInv
<1> SUFFICES ASSUME Init PROVE RevisionsInv
  OBVIOUS
<1>1. HandlersOK
  BY DEF Init, HandlersOK, Texts, RevisionIds, Sources, PCs
<1>2. TypeOK
  BY <1>1, InitHistory DEF Init, TypeOK
<1>3. \A r \in Requests : pc[r] = "new"
  BY DEF Init
<1>4. HasLatest
  BY InitHistory DEF HasLatest
<1>5. IdsUnique
  BY InitHistory DEF IdsUnique
<1> QED BY <1>2, <1>3, <1>4, <1>5
        DEF RevisionsInv, UnderWay, AmendTargetsEdit, LimitsLeaveKeep

-----------------------------------------------------------------------------
(* Steps that leave the history alone *)

LEMMA HistoryStands ==
  ASSUME RevisionsInv, history' = history, TypeOK', UnderWay',
         \A r \in Requests : pc[r] \in Appended => pc'[r] \in Appended,
         \A r \in Requests : pc'[r] = "amend" =>
           pc[r] = "amend" /\ target'[r] = target[r] /\ author'[r] = author[r],
         \A r \in Requests : pc'[r] = "delete" => pc[r] = "delete" /\ limit'[r] = limit[r]
  PROVE  RevisionsInv'
<1>1. IdsUnique'
  BY DEF RevisionsInv, TypeOK, HistoryOK, Revision, RevisionIds, IdsUnique
<1>2. AmendTargetsEdit'
  BY DEF RevisionsInv, TypeOK, HandlersOK, RevisionIds, AmendTargetsEdit
<1>3. LimitsLeaveKeep'
  BY DEF RevisionsInv, LimitsLeaveKeep, AtLeast
<1>4. HasLatest'
  BY DEF RevisionsInv, HasLatest
<1> QED BY <1>1, <1>2, <1>3, <1>4 DEF RevisionsInv

LEMMA CreateDocumentInv ==
  ASSUME RevisionsInv, NEW r \in Requests, NEW a \in Authors, CreateDocument(r, a)
  PROVE  RevisionsInv'
<1> USE DEF RevisionsInv, TypeOK, CreateDocument, Start, GoTo
<1>1. TypeOK'
  BY DEF DocumentOK, HistoryOK, HandlersOK, PCs, Texts, Sources
<1>2. UnderWay'
  BY DEF UnderWay, HandlersOK, Texts
<1> QED BY <1>1, <1>2, HistoryStands DEF HandlersOK, Appended

LEMMA PatchDocumentInv ==
  ASSUME RevisionsInv, NEW r \in Requests, NEW a \in Authors, PatchDocument(r, a)
  PROVE  RevisionsInv'
<1> USE DEF RevisionsInv, TypeOK, PatchDocument, Start, GoTo
<1>1. TypeOK'
  BY DEF DocumentOK, HistoryOK, HandlersOK, PCs, Texts, Sources
<1>2. UnderWay'
  BY DEF UnderWay, HandlersOK, Texts
<1> QED BY <1>1, <1>2, HistoryStands DEF HandlersOK, Appended

LEMMA SaveSnapshotBodyInv ==
  ASSUME RevisionsInv, NEW r \in Requests, NEW a \in Authors, SaveSnapshotBody(r, a)
  PROVE  RevisionsInv'
<1> USE DEF RevisionsInv, TypeOK, SaveSnapshotBody, Start, GoTo
<1>1. TypeOK'
  BY DEF DocumentOK, HistoryOK, HandlersOK, PCs, Texts, Sources
<1>2. UnderWay'
  BY DEF UnderWay, HandlersOK, Texts
<1> QED BY <1>1, <1>2, HistoryStands DEF HandlersOK, Appended

LEMMA FindRevisionInv ==
  ASSUME RevisionsInv, NEW r \in Requests, NEW a \in Authors,
         NEW v \in DOMAIN history, FindRevision(r, a, v)
  PROVE  RevisionsInv'
<1> USE DEF RevisionsInv, TypeOK, FindRevision, Start, GoTo, docVars
<1>1. TypeOK'
  <2>1. history[v].text \in Texts
    BY DEF HistoryOK, Revision
  <2> QED BY <2>1 DEF DocumentOK, HistoryOK, HandlersOK, PCs, Sources
<1>2. UnderWay'
  BY DEF UnderWay, HandlersOK, DocumentOK
<1> QED BY <1>1, <1>2, HistoryStands DEF HandlersOK, Appended

LEMMA RestoreBodyInv ==
  ASSUME RevisionsInv, NEW r \in Requests, RestoreBody(r)
  PROVE  RevisionsInv'
<1> USE DEF RevisionsInv, TypeOK, RestoreBody, GoTo, locals
<1>1. TypeOK'
  BY DEF DocumentOK, HistoryOK, HandlersOK, PCs
<1>2. UnderWay'
  BY DEF UnderWay, HandlersOK
<1> QED BY <1>1, <1>2, HistoryStands DEF HandlersOK, Appended

LEMMA RereadBodyInv ==
  ASSUME RevisionsInv, NEW r \in Requests, RereadBody(r)
  PROVE  RevisionsInv'
<1> USE DEF RevisionsInv, TypeOK, RereadBody, GoTo, docVars
<1>1. TypeOK'
  BY DEF DocumentOK, HistoryOK, HandlersOK, PCs, UnderWay
<1>2. UnderWay'
  BY DEF UnderWay, HandlersOK
<1> QED BY <1>1, <1>2, HistoryStands DEF HandlersOK, Appended

LEMMA RereadAmendedInv ==
  ASSUME RevisionsInv, NEW r \in Requests, RereadAmended(r)
  PROVE  RevisionsInv'
<1> USE DEF RevisionsInv, TypeOK, RereadAmended, GoTo, docVars, locals
<1>1. TypeOK'
  BY DEF DocumentOK, HistoryOK, HandlersOK, PCs
<1>2. UnderWay'
  BY DEF UnderWay, HandlersOK
<1> QED BY <1>1, <1>2, HistoryStands DEF HandlersOK, Appended

LEMMA ApplyRevisionMetaInv ==
  ASSUME RevisionsInv, NEW r \in Requests, ApplyRevisionMeta(r)
  PROVE  RevisionsInv'
<1> USE DEF RevisionsInv, TypeOK, ApplyRevisionMeta, GoTo, locals
<1>1. TypeOK'
  BY DEF DocumentOK, HistoryOK, HandlersOK, PCs
<1>2. UnderWay'
  BY DEF UnderWay, HandlersOK
<1> QED BY <1>1, <1>2, HistoryStands DEF HandlersOK, Appended

LEMMA StoreFaultInv ==
  ASSUME RevisionsInv, NEW r \in Requests, StoreFault(r)
  PROVE  RevisionsInv'
<1> USE DEF RevisionsInv, TypeOK, StoreFault, GoTo, docVars, locals
<1>1. TypeOK'
  BY DEF DocumentOK, HistoryOK, HandlersOK, PCs
<1>2. UnderWay'
  BY DEF UnderWay, HandlersOK
<1> QED BY <1>1, <1>2, HistoryStands DEF HandlersOK, Appended

LEMMA LeaveWindowInv == RevisionsInv /\ LeaveWindow => RevisionsInv'
<1> SUFFICES ASSUME RevisionsInv, LeaveWindow PROVE RevisionsInv'
  OBVIOUS
<1> USE DEF RevisionsInv, TypeOK, LeaveWindow, docVars, locals
<1>1. TypeOK'
  BY DEF DocumentOK, HistoryOK, HandlersOK
<1>2. UnderWay'
  BY DEF UnderWay
<1> QED BY <1>1, <1>2, HistoryStands

-----------------------------------------------------------------------------
(* Steps of recordDocumentRevision *)

(* What a request decides to amend is the latest revision, an edit.        *)
LEMMA ReadLatestInv ==
  ASSUME RevisionsInv, NEW r \in Requests, ReadLatest(r)
  PROVE  RevisionsInv'
<1> USE DEF RevisionsInv, TypeOK, GoTo
<1>1. ASSUME NEW n \in Nat \ {0},
             /\ version' = [version EXCEPT ![r] = n]
             /\ pc' = [pc EXCEPT ![r] = "append"]
             /\ UNCHANGED target
      PROVE  RevisionsInv'
  <2>1. UNCHANGED <<body, docVersion, docUpdatedBy, history, fresh, author, source, text, limit, alone,
                   unpruned>>
    BY DEF ReadLatest, docVars
  <2>2. TypeOK' /\ UnderWay'
    BY <1>1, <2>1 DEF DocumentOK, HistoryOK, HandlersOK, PCs, UnderWay, ReadLatest
  <2> QED BY <1>1, <2>1, <2>2, HistoryStands DEF HandlersOK, Appended, ReadLatest
<1>2. CASE /\ DOMAIN history # {}
           /\ ~(source[r] = "edit" /\ CanCoalesce(history[Latest], author[r]))
  <2>1. Latest + 1 \in Nat \ {0}
    BY <1>2, LatestIsNewest DEF HistoryOK
  <2> QED BY <1>1, <1>2, <2>1 DEF ReadLatest
<1>3. CASE DOMAIN history # {} /\ source[r] = "edit" /\ CanCoalesce(history[Latest], author[r])
  <2>1. /\ Latest \in DOMAIN history /\ Latest \in Nat
        /\ history[Latest].id \in RevisionIds /\ history[Latest].source = "edit"
        /\ history[Latest].author = author[r]
    BY <1>3, LatestIsNewest DEF HistoryOK, Revision, CanCoalesce
  <2>2. /\ pc' = [pc EXCEPT ![r] = "amend"]
        /\ version' = [version EXCEPT ![r] = Latest]
        /\ target' = [target EXCEPT ![r] = history[Latest].id]
        /\ pc[r] = "latest"
        /\ UNCHANGED <<body, docVersion, docUpdatedBy, history, fresh, author, source, text, limit, alone,
                   unpruned>>
    BY <1>3 DEF ReadLatest, docVars
  <2>3. TypeOK' /\ UnderWay'
    BY <2>1, <2>2 DEF DocumentOK, HistoryOK, HandlersOK, PCs, UnderWay
  <2>4. IdsUnique' /\ LimitsLeaveKeep' /\ HasLatest'
    BY <2>2 DEF IdsUnique, HandlersOK, HistoryOK, Revision, RevisionIds, Appended,
                LimitsLeaveKeep, AtLeast, HasLatest
  <2>5. AmendTargetsEdit'
    <3> SUFFICES ASSUME NEW q \in Requests, pc'[q] = "amend"
                 PROVE  /\ target'[q] = Seed \/ pc'[target'[q]] \in Appended
                        /\ \A v \in DOMAIN history :
                             history[v].id = target'[q] =>
                               history[v].source = "edit" /\ history[v].author = author[q]
      BY <2>2 DEF AmendTargetsEdit
    <3>1. CASE q = r
      BY <2>1, <2>2, <3>1 DEF IdsUnique, HandlersOK, RevisionIds, Appended
    <3>2. CASE q # r
      BY <2>2, <3>2 DEF AmendTargetsEdit, HandlersOK, RevisionIds, Appended
    <3> QED BY <3>1, <3>2
  <2> QED BY <2>3, <2>4, <2>5
<1>4. CASE DOMAIN history = {}
  BY <1>1, <1>4 DEF ReadLatest
<1> QED BY <1>2, <1>3, <1>4

(* Amending changes the text of one revision and nothing else of it.       *)
LEMMA AmendRevisionStep ==
  ASSUME HistoryOK, TypeOK, NEW r \in Requests, AmendRevision(r)
  PROVE  /\ DOMAIN history' = DOMAIN history
         /\ history' \in [DOMAIN history -> Revision]
         /\ \A v \in DOMAIN history :
              /\ history'[v].id = history[v].id
              /\ history'[v].source = history[v].source
              /\ history'[v].author = history[v].author
              /\ history[v].id # target[r] => history'[v] = history[v]
              /\ history[v].id = target[r] =>
                   history'[v] = [history[v] EXCEPT !.text = text[r]]
<1>1. text[r] \in Texts
  BY DEF TypeOK, HandlersOK
<1>2. CASE \E v \in DOMAIN history : history[v].id = target[r]
  BY <1>1, <1>2 DEF AmendRevision, HistoryOK, Revision
<1>3. CASE ~ \E v \in DOMAIN history : history[v].id = target[r]
  BY <1>3 DEF AmendRevision, HistoryOK
<1> QED BY <1>2, <1>3

LEMMA AmendRevisionInv ==
  ASSUME RevisionsInv, NEW r \in Requests, AmendRevision(r)
  PROVE  RevisionsInv'
<1> USE DEF RevisionsInv
<1>1. /\ DOMAIN history' = DOMAIN history
      /\ history' \in [DOMAIN history -> Revision]
      /\ \A v \in DOMAIN history : /\ history'[v].id = history[v].id
                                   /\ history'[v].source = history[v].source
                                   /\ history'[v].author = history[v].author
              /\ history'[v].author = history[v].author
  BY AmendRevisionStep DEF TypeOK
<1>2. fresh' \in BOOLEAN
  BY DEF AmendRevision, TypeOK
<1>3. /\ pc[r] = "amend"
      /\ pc' = [pc EXCEPT ![r] = "amended"] \/ pc' = [pc EXCEPT ![r] = "done"]
      /\ UNCHANGED <<body, docVersion, docUpdatedBy, author, source, text, version, target, limit, alone, unpruned>>
  BY DEF AmendRevision, GoTo, docVars, locals
<1>4. TypeOK' /\ UnderWay'
  BY <1>1, <1>2, <1>3 DEF TypeOK, DocumentOK, HistoryOK, HandlersOK, PCs, UnderWay
<1>5. IdsUnique'
  BY <1>1, <1>3 DEF IdsUnique, TypeOK, HistoryOK, HandlersOK, Revision, RevisionIds, Appended
<1>6. AmendTargetsEdit'
  BY <1>1, <1>3 DEF AmendTargetsEdit, TypeOK, HandlersOK, RevisionIds, Appended
<1>7. LimitsLeaveKeep' /\ HasLatest'
  BY <1>1, <1>3 DEF LimitsLeaveKeep, AtLeast, HasLatest, TypeOK, HandlersOK
<1> QED BY <1>4, <1>5, <1>6, <1>7

(* An append that gets through adds one revision under a fresh ID.         *)
LEMMA AppendRevisionStep ==
  ASSUME RevisionsInv, NEW r \in Requests, AppendRevision(r),
         version[r] \notin DOMAIN history
  PROVE  /\ DOMAIN history' = DOMAIN history \cup {version[r]}
         /\ version[r] \in Nat \ {0}
         /\ history'[version[r]] \in Revision
         /\ history'[version[r]].id = r
         /\ \A v \in DOMAIN history : history'[v] = history[v] /\ history[v].id # r
         /\ history' \in [DOMAIN history' -> Revision]
<1>1. /\ version[r] \in Nat \ {0}
      /\ [id |-> r, text |-> text[r], author |-> author[r], source |-> source[r]]
           \in Revision
  BY DEF RevisionsInv, TypeOK, HandlersOK, UnderWay, AppendRevision, Revision, RevisionIds
<1>2. history' = [v \in DOMAIN history \cup {version[r]} |->
                   IF v = version[r]
                   THEN [id |-> r, text |-> text[r], author |-> author[r],
                         source |-> source[r]]
                   ELSE history[v]]
  BY DEF AppendRevision
<1>3. \A v \in DOMAIN history : history[v].id # r
  BY DEF RevisionsInv, IdsUnique, Appended, AppendRevision
<1> QED BY <1>1, <1>2, <1>3 DEF RevisionsInv, TypeOK, HistoryOK

LEMMA AppendRevisionInv ==
  ASSUME RevisionsInv, NEW r \in Requests, AppendRevision(r)
  PROVE  RevisionsInv'
<1> USE DEF RevisionsInv
<1>1. CASE version[r] \in DOMAIN history
  <2> USE <1>1 DEF AppendRevision, GoTo, docVars, locals
  <2>1. TypeOK' /\ UnderWay'
    BY DEF TypeOK, DocumentOK, HistoryOK, HandlersOK, PCs, UnderWay
  <2> QED BY <2>1, HistoryStands DEF TypeOK, HandlersOK, Appended
<1>2. CASE version[r] \notin DOMAIN history
  <2>1. /\ DOMAIN history' = DOMAIN history \cup {version[r]}
        /\ version[r] \in Nat \ {0}
        /\ history'[version[r]].id = r
        /\ \A v \in DOMAIN history : history'[v] = history[v] /\ history[v].id # r
        /\ history' \in [DOMAIN history' -> Revision]
    BY <1>2, AppendRevisionStep
  <2>2. /\ pc[r] = "append"
        /\ pc' = [pc EXCEPT ![r] = "prune"]
        /\ UNCHANGED <<body, docVersion, docUpdatedBy, author, source, text, version, target, limit, alone, unpruned>>
    BY <1>2 DEF AppendRevision, GoTo, docVars, locals
  <2>3. fresh' \in BOOLEAN
    BY <1>2 DEF AppendRevision
  <2>4. HistoryOK'
    BY <2>1, FS_AddElement DEF TypeOK, HistoryOK
  <2>5. TypeOK' /\ UnderWay'
    BY <2>2, <2>3, <2>4 DEF TypeOK, DocumentOK, HandlersOK, PCs, UnderWay
  <2>6. \A q \in Requests : pc[q] \in Appended => pc'[q] \in Appended
    BY <2>2 DEF TypeOK, HandlersOK, Appended
  <2>7. IdsUnique'
    <3>1. \A v \in DOMAIN history :
            history[v].id \in RevisionIds
      BY DEF TypeOK, HistoryOK, Revision
    <3>2. pc'[r] \in Appended
      BY <2>2 DEF TypeOK, HandlersOK, Appended
    <3> QED BY <2>1, <2>6, <3>1, <3>2 DEF IdsUnique, RevisionIds
  <2>8. AmendTargetsEdit'
    <3> SUFFICES ASSUME NEW q \in Requests, pc'[q] = "amend"
                 PROVE  /\ target'[q] = Seed \/ pc'[target'[q]] \in Appended
                        /\ \A v \in DOMAIN history' :
                             history'[v].id = target'[q] =>
                               history'[v].source = "edit" /\ history'[v].author = author'[q]
      BY DEF AmendTargetsEdit
    <3>1. pc[q] = "amend" /\ target'[q] = target[q] /\ target[q] \in RevisionIds
          /\ author'[q] = author[q]
      BY <2>2 DEF TypeOK, HandlersOK
    <3>2. target[q] = Seed \/ pc[target[q]] \in Appended
      BY <3>1 DEF AmendTargetsEdit
    <3>3. target[q] # r
      BY <3>2, <2>2 DEF Appended
    <3> QED BY <2>1, <2>6, <3>1, <3>2, <3>3 DEF AmendTargetsEdit, RevisionIds
  <2>9. LimitsLeaveKeep'
    <3> SUFFICES ASSUME NEW q \in Requests, pc'[q] = "delete"
                 PROVE  Cardinality(AtLeast(limit[q])') >= Keep
      BY <2>2 DEF LimitsLeaveKeep, AtLeast
    <3>1. Cardinality(AtLeast(limit[q])) >= Keep
      BY <2>2 DEF LimitsLeaveKeep, TypeOK, HandlersOK
    <3>2. AtLeast(limit[q]) \subseteq AtLeast(limit[q])'
      BY <2>1, <2>2 DEF AtLeast
    <3>3. /\ IsFiniteSet(AtLeast(limit[q])')
          /\ Cardinality(AtLeast(limit[q])') \in Nat
          /\ Cardinality(AtLeast(limit[q])) \in Nat
      <4>1. AtLeast(limit[q])' \subseteq DOMAIN history'
        BY DEF AtLeast
      <4> QED BY <2>4, <4>1, FS_Subset, FS_CardinalityType, AtLeastFinite DEF HistoryOK, TypeOK
    <3> QED BY <3>1, <3>2, <3>3, FS_Subset
  <2>10. HasLatest'
    BY <2>1 DEF HasLatest, TypeOK, HistoryOK
  <2> QED BY <2>5, <2>7, <2>8, <2>9, <2>10
<1> QED BY <1>1, <1>2

(* The located limit has Keep revisions from it on.                        *)
LEMMA LocatePruneLimitInv ==
  ASSUME RevisionsInv, NEW r \in Requests, LocatePruneLimit(r)
  PROVE  RevisionsInv'
<1> USE DEF RevisionsInv, TypeOK, GoTo, docVars
<1>1. CASE pc' = [pc EXCEPT ![r] = "meta"] /\ UNCHANGED limit
  <2>1. TypeOK' /\ UnderWay'
    BY <1>1 DEF LocatePruneLimit, DocumentOK, HistoryOK, HandlersOK, PCs, UnderWay
  <2> QED BY <1>1, <2>1, HistoryStands DEF LocatePruneLimit, HandlersOK, Appended
<1>2. ASSUME NEW v \in DOMAIN history, Cardinality(AtLeast(v)) = Keep,
             limit' = [limit EXCEPT ![r] = v], pc' = [pc EXCEPT ![r] = "delete"]
      PROVE  RevisionsInv'
  <2>1. /\ pc[r] = "prune"
        /\ UNCHANGED <<body, docVersion, docUpdatedBy, history, fresh, author, source,
                       text, version, target, alone>> /\ unpruned' = FALSE
    BY DEF LocatePruneLimit
  <2>2. TypeOK' /\ UnderWay'
    BY <1>2, <2>1 DEF DocumentOK, HistoryOK, HandlersOK, PCs, UnderWay
  <2>3. IdsUnique' /\ AmendTargetsEdit' /\ HasLatest'
    BY <1>2, <2>1 DEF IdsUnique, AmendTargetsEdit, HasLatest, HandlersOK, HistoryOK,
                      Revision, RevisionIds, Appended
  <2>4. LimitsLeaveKeep'
    <3> SUFFICES ASSUME NEW q \in Requests, pc'[q] = "delete"
                 PROVE  Cardinality(AtLeast(limit[q])') >= Keep
      BY DEF LimitsLeaveKeep, AtLeast
    <3>1. CASE q = r
      <4>1. AtLeast(limit[q])' = AtLeast(v)
        BY <1>2, <2>1, <3>1 DEF HandlersOK, AtLeast
      <4> QED BY <1>2, <4>1
    <3>2. CASE q # r
      <4>1. AtLeast(limit[q])' = AtLeast(limit[q]) /\ pc[q] = "delete"
        BY <1>2, <2>1, <3>2 DEF HandlersOK, AtLeast
      <4> QED BY <4>1 DEF LimitsLeaveKeep
    <3> QED BY <3>1, <3>2
  <2> QED BY <2>2, <2>3, <2>4
<1> QED BY <1>1, <1>2 DEF LocatePruneLimit

LEMMA DeletePrunedStep ==
  ASSUME RevisionsInv, NEW r \in Requests, DeletePruned(r)
  PROVE  /\ DOMAIN history' = AtLeast(limit[r])
         /\ DOMAIN history' \subseteq DOMAIN history
         /\ history' = [v \in DOMAIN history' |-> history[v]]
         /\ Cardinality(DOMAIN history') >= Keep
         /\ \A gone \in DOMAIN history \ DOMAIN history', kept \in DOMAIN history' :
              gone < kept
<1>1. /\ history' = [v \in AtLeast(limit[r]) |-> history[v]]
      /\ pc[r] = "delete"
  BY DEF DeletePruned, Restrict
<1>2. limit[r] \in Nat /\ DOMAIN history \subseteq Nat
  BY DEF RevisionsInv, TypeOK, HandlersOK, HistoryOK
<1> QED BY <1>1, <1>2 DEF RevisionsInv, LimitsLeaveKeep, AtLeast

LEMMA DeletePrunedInv ==
  ASSUME RevisionsInv, NEW r \in Requests, DeletePruned(r)
  PROVE  RevisionsInv'
<1> USE DEF RevisionsInv, TypeOK
<1>1. /\ DOMAIN history' = AtLeast(limit[r])
      /\ DOMAIN history' \subseteq DOMAIN history
      /\ \A v \in DOMAIN history' : history'[v] = history[v]
      /\ history' = [v \in DOMAIN history' |-> history[v]]
  BY DeletePrunedStep
<1>2. /\ pc[r] = "delete"
      /\ pc' = [pc EXCEPT ![r] = "meta"]
      /\ UNCHANGED <<body, docVersion, docUpdatedBy, fresh, author, source, text,
                     version, target, limit, alone, unpruned>>
  BY DEF DeletePruned, GoTo, docVars, locals
<1>3. HistoryOK'
  BY <1>1, FS_Subset DEF HistoryOK
<1>4. TypeOK' /\ UnderWay'
  BY <1>2, <1>3 DEF DocumentOK, HandlersOK, PCs, UnderWay
<1>5. IdsUnique'
  BY <1>1, <1>2 DEF IdsUnique, HistoryOK, HandlersOK, Revision, RevisionIds, Appended
<1>6. AmendTargetsEdit'
  BY <1>1, <1>2 DEF AmendTargetsEdit, HandlersOK, RevisionIds, Appended
<1>7. LimitsLeaveKeep'
  <2> SUFFICES ASSUME NEW q \in Requests, pc'[q] = "delete"
               PROVE  Cardinality(AtLeast(limit[q])') >= Keep
    BY <1>2 DEF LimitsLeaveKeep, AtLeast
  <2>1. pc[q] = "delete" /\ limit[q] \in Nat /\ limit[r] \in Nat /\ DOMAIN history \subseteq Nat
    BY <1>2 DEF HandlersOK, HistoryOK
  <2>2. CASE limit[q] >= limit[r]
    <3>1. AtLeast(limit[q])' = AtLeast(limit[q])
      BY <1>1, <1>2, <2>1, <2>2 DEF AtLeast
    <3> QED BY <2>1, <3>1 DEF LimitsLeaveKeep
  <2>3. CASE limit[q] < limit[r]
    <3>1. AtLeast(limit[q])' = AtLeast(limit[r])
      BY <1>1, <1>2, <2>1, <2>3 DEF AtLeast
    <3> QED BY <1>2, <3>1 DEF LimitsLeaveKeep
  <2> QED BY <2>1, <2>2, <2>3
<1>8. HasLatest'
  <2> SUFFICES ASSUME DOMAIN history' # {}
               PROVE  \E v \in DOMAIN history' : \A u \in DOMAIN history' : u <= v
    BY DEF HasLatest
  <2>1. DOMAIN history # {}
    BY <1>1
  <2>2. Latest \in DOMAIN history /\ \A u \in DOMAIN history : u <= Latest
    BY <2>1, LatestIsNewest
  <2>3. Latest \in DOMAIN history'
    BY <1>1, <2>2 DEF AtLeast, HistoryOK, HandlersOK
  <2> QED BY <1>1, <2>2, <2>3
<1> QED BY <1>4, <1>5, <1>6, <1>7, <1>8

-----------------------------------------------------------------------------
(* The invariant, and what follows from it *)

LEMMA StepInv == RevisionsInv /\ [Next]_vars => RevisionsInv'
<1> SUFFICES ASSUME RevisionsInv, [Next]_vars PROVE RevisionsInv'
  OBVIOUS
<1>1. CASE UNCHANGED vars
  BY <1>1 DEF vars, locals, noted, RevisionsInv, TypeOK, DocumentOK, HistoryOK, HandlersOK,
              UnderWay, IdsUnique, AmendTargetsEdit, LimitsLeaveKeep, AtLeast, HasLatest
<1>2. ASSUME NEW r \in Requests, HandlerStep(r) PROVE RevisionsInv'
  BY <1>2, CreateDocumentInv, PatchDocumentInv, SaveSnapshotBodyInv, FindRevisionInv,
     RestoreBodyInv, RereadBodyInv, ReadLatestInv, AmendRevisionInv, RereadAmendedInv, AppendRevisionInv,
     LocatePruneLimitInv, DeletePrunedInv, ApplyRevisionMetaInv, StoreFaultInv
     DEF HandlerStep
<1> QED BY <1>1, <1>2, LeaveWindowInv DEF Next

(* The inductive invariant holds in every reachable state of the handlers  *)
(* of document_revisions.go, author_documents.go and collaboration.go.     *)
THEOREM RevisionsInvariant == Spec => []RevisionsInv
BY InitInv, StepInv, PTL DEF Spec

(* Every history stored is a finite, well-formed map of version numbers to *)
(* revisions, every local of a handler holds a value of its type.          *)
THEOREM TypeCorrect == Spec => []TypeOK
<1>1. RevisionsInv => TypeOK
  BY DEF RevisionsInv
<1> QED BY <1>1, RevisionsInvariant, PTL

(* How any step changes the history.                                       *)
LEMMA HistoryStep ==
  ASSUME RevisionsInv, [Next]_vars
  PROVE  \/ UNCHANGED history
         \/ \E r \in Requests : \/ AmendRevision(r)
                                \/ AppendRevision(r) /\ version[r] \notin DOMAIN history
                                \/ DeletePruned(r)
<1>1. ASSUME NEW r \in Requests, HandlerStep(r), ~DeletePruned(r), ~AmendRevision(r),
             ~(AppendRevision(r) /\ version[r] \notin DOMAIN history)
      PROVE  UNCHANGED history
  BY <1>1 DEF HandlerStep, CreateDocument, PatchDocument, SaveSnapshotBody, FindRevision,
     RestoreBody, RereadBody, ReadLatest, RereadAmended, AppendRevision, LocatePruneLimit,
     ApplyRevisionMeta, StoreFault
<1>2. LeaveWindow \/ UNCHANGED vars => UNCHANGED history
  BY DEF LeaveWindow, vars
<1> QED BY <1>1, <1>2 DEF Next

(* A prune drops the oldest revisions and leaves at least Keep, whatever   *)
(* was appended or pruned between its SELECT and its DELETE.               *)
THEOREM PruneSafe == Spec => PruneKeepsNewest
<1>1. RevisionsInv /\ [Next]_vars =>
        [\/ DOMAIN history \subseteq DOMAIN history'
         \/ /\ Cardinality(DOMAIN history') >= Keep
            /\ \A gone \in DOMAIN history \ DOMAIN history', kept \in DOMAIN history' :
                 gone < kept]_vars
  BY HistoryStep, AmendRevisionStep, AppendRevisionStep, DeletePrunedStep DEF RevisionsInv, TypeOK
<1> QED BY <1>1, RevisionsInvariant, PTL DEF Spec, PruneKeepsNewest

(* The newest version number never goes back: Latest + 1 is new.           *)
THEOREM NewestSurvives == Spec => NewestVersionSurvives
<1>1. ASSUME RevisionsInv, [Next]_vars, NEW v \in DOMAIN history
      PROVE  \E u \in DOMAIN history' : u >= v
  <2>1. v \in Nat
    BY <1>1 DEF RevisionsInv, TypeOK, HistoryOK
  <2>2. ASSUME NEW r \in Requests, DeletePruned(r) PROVE \E u \in DOMAIN history' : u >= v
    <3>1. DOMAIN history' # {}
      BY <1>1, <2>2, DeletePrunedStep, FS_EmptySet
    <3>2. DOMAIN history' \subseteq Nat
      BY <1>1, <2>2, DeletePrunedStep DEF RevisionsInv, TypeOK, HistoryOK
    <3> QED BY <1>1, <2>1, <2>2, <3>1, <3>2, DeletePrunedStep
  <2>3. DOMAIN history \subseteq DOMAIN history' => \E u \in DOMAIN history' : u >= v
    BY <2>1
  <2> QED BY <2>2, <2>3, <1>1, HistoryStep, AmendRevisionStep, AppendRevisionStep
          DEF RevisionsInv, TypeOK
<1>2. RevisionsInv /\ [Next]_vars =>
        [\A v \in DOMAIN history : \E u \in DOMAIN history' : u >= v]_vars
  BY <1>1
<1> QED BY <1>2, RevisionsInvariant, PTL DEF Spec, NewestVersionSurvives

(* No interleaving rewrites a "create" or "restore" checkpoint, changes    *)
(* the author of a revision, or moves it to another version.               *)
THEOREM CheckpointsStand == Spec => CheckpointsFrozen
<1>1. ASSUME RevisionsInv, [Next]_vars,
             NEW v \in DOMAIN history \cap DOMAIN history', history'[v] # history[v]
      PROVE  /\ history[v].source = "edit"
             /\ history'[v] = [history[v] EXCEPT !.text = history'[v].text]
  <2>0. v \in DOMAIN history /\ v \in DOMAIN history'
    BY <1>1
  <2>1. PICK r \in Requests : AmendRevision(r)
    <3>1. ASSUME NEW r \in Requests, DeletePruned(r) PROVE history'[v] = history[v]
      BY <2>0, <3>1, <1>1, DeletePrunedStep
    <3>2. ASSUME NEW r \in Requests, AppendRevision(r), version[r] \notin DOMAIN history
          PROVE  history'[v] = history[v]
      BY <2>0, <3>2, <1>1, AppendRevisionStep
    <3> QED BY <1>1, <3>1, <3>2, HistoryStep
  <2>2. history[v].id = target[r] /\ pc[r] = "amend"
    BY <1>1, <2>0, <2>1, AmendRevisionStep DEF RevisionsInv, TypeOK, AmendRevision
  <2>3. history[v].source = "edit"
    BY <1>1, <2>2 DEF RevisionsInv, AmendTargetsEdit
  <2>4. history'[v] = [history[v] EXCEPT !.text = text[r]] /\ history[v] \in Revision
    BY <1>1, <2>0, <2>1, <2>2, AmendRevisionStep DEF RevisionsInv, TypeOK, HistoryOK
  <2> QED BY <2>0, <2>3, <2>4 DEF Revision
<1>2. RevisionsInv /\ [Next]_vars =>
        [\A v \in DOMAIN history \cap DOMAIN history' :
           history'[v] # history[v] =>
             /\ history[v].source = "edit"
             /\ history'[v] = [history[v] EXCEPT !.text = history'[v].text]]_vars
  BY <1>1
<1> QED BY <1>2, RevisionsInvariant, PTL DEF Spec, CheckpointsFrozen

(* An amend that gets through rewrites its own author's revision, although *)
(* it decided on one it had read earlier.                                  *)
THEOREM AmendsOwn == Spec => AmendsOwnRevisions
<1>1. RevisionsInv /\ [Next]_vars =>
        [\A r \in Requests, v \in DOMAIN history \cap DOMAIN history' :
           pc[r] = "amend" /\ pc'[r] = "amended" /\ history[v].id = target[r] =>
             history[v].author = author[r]]_vars
  BY DEF RevisionsInv, AmendTargetsEdit
<1> QED BY <1>1, RevisionsInvariant, PTL DEF Spec, AmendsOwnRevisions

-----------------------------------------------------------------------------
(* The bound on what is stored *)

(* Of finitely many subsets of a finite set one has no other below it.    *)
LEMMA MinimalSubset ==
  ASSUME NEW D, IsFiniteSet(D), NEW T, T \subseteq SUBSET D, T # {}
  PROVE  \E X \in T : \A Y \in T : Y \subseteq X => Y = X
<1>1. T \subseteq FiniteSubsetsOf(D)
  BY FS_Subset DEF FiniteSubsetsOf
<1>2. PICK X \in T : \A Y \in T : ~ (<<Y, X>> \in StrictSubsetOrdering(D))
  BY <1>1, FS_StrictSubsetOrderingWellFounded, WFMin
<1> QED BY <1>2 DEF StrictSubsetOrdering

(* Of finitely many version numbers one is the least. *)
LEMMA LeastVersion ==
  ASSUME NEW D, IsFiniteSet(D), D \subseteq Nat, D # {}
  PROVE  \E n \in D : \A m \in D : n <= m
<1> DEFINE Below(n) == {m \in D : m <= n}
<1>0. PICK T : T = {Below(n) : n \in D}
  OBVIOUS
<1>1. T \subseteq SUBSET D /\ T # {} /\ IsFiniteSet(D)
  BY <1>0
<1>2. PICK X \in T : \A Y \in T : Y \subseteq X => Y = X
  BY ONLY <1>1, MinimalSubset
<1>3. PICK n \in D : X = Below(n)
  BY <1>0
<1>4. ASSUME NEW m \in D, ~(n <= m) PROVE FALSE
  <2>1. n \in Nat /\ m \in Nat
    OBVIOUS
  <2>2. Below(m) \subseteq Below(n)
    <3> SUFFICES ASSUME NEW x \in D, x <= m PROVE x <= n
      OBVIOUS
    <3> x \in Nat
      OBVIOUS
    <3> QED BY <1>4, <2>1
  <2>3. n \notin Below(m) /\ n \in Below(n)
    BY <1>4, <2>1
  <2>4. Below(m) \in T
    BY <1>0, <1>4
  <2> HIDE DEF Below
  <2> QED BY <1>2, <1>3, <2>2, <2>3, <2>4
<1> QED BY <1>4

(* Where there are Keep revisions or more, one has exactly Keep from it on:*)
(* a prune that finds no limit has nothing to remove.                      *)
LEMMA SomeLeaveKeep ==
  ASSUME HistoryOK, Cardinality(DOMAIN history) >= Keep
  PROVE  \E v \in DOMAIN history : Cardinality(AtLeast(v)) = Keep
<1> DEFINE D == DOMAIN history
           T == {AtLeast(v) : v \in {u \in D : Cardinality(AtLeast(u)) >= Keep}}
<1>0. \A v : /\ AtLeast(v) \subseteq D /\ IsFiniteSet(AtLeast(v))
              /\ Cardinality(AtLeast(v)) \in Nat
  BY AtLeastFinite
<1>1. T # {}
  <2>1. D # {} /\ IsFiniteSet(D) /\ D \subseteq Nat
    BY FS_EmptySet DEF HistoryOK
  <2>2. PICK d \in D : \A m \in D : d <= m
    BY <2>1, LeastVersion
  <2>3. AtLeast(d) = D
    BY <2>2 DEF AtLeast
  <2> QED BY <2>3
<1>2. PICK X \in T : \A Y \in T : Y \subseteq X => Y = X
  <2>1. T \subseteq SUBSET D
    BY <1>0
  <2>2. IsFiniteSet(D)
    BY DEF HistoryOK
  <2> HIDE DEF T, D
  <2> QED BY ONLY <1>1, <2>1, <2>2, MinimalSubset
<1>3. PICK v \in D : X = AtLeast(v) /\ Cardinality(AtLeast(v)) >= Keep
  OBVIOUS
<1>4. ASSUME Cardinality(AtLeast(v)) > Keep PROVE FALSE
  <2> DEFINE R == AtLeast(v) \ {v}
  <2>1. v \in AtLeast(v)
    BY DEF AtLeast, HistoryOK
  <2>2. IsFiniteSet(R) /\ Cardinality(R) = Cardinality(AtLeast(v)) - 1
    BY <1>0, <2>1, FS_RemoveElement
  <2>3. R # {} /\ R \subseteq Nat
    BY <1>4, <1>0, <2>2, FS_EmptySet DEF HistoryOK
  <2>4. PICK w \in R : \A m \in R : w <= m
    <3> HIDE DEF R
    <3> QED BY <2>2, <2>3, LeastVersion
  <2>5. AtLeast(w) = R /\ w \in D
    BY <2>4 DEF AtLeast, HistoryOK
  <2>6. Cardinality(AtLeast(w)) >= Keep
    BY <1>0, <1>4, <2>2, <2>5
  <2>7. AtLeast(w) \in T
    BY <2>5, <2>6
  <2> QED BY <1>2, <1>3, <2>1, <2>5, <2>7
<1> QED BY <1>0, <1>3, <1>4

LEMMA InitPrune == Init => PruneToCome
<1> SUFFICES ASSUME Init PROVE Cardinality(DOMAIN history) <= Keep
  BY DEF PruneToCome
<1>1. DOMAIN history \subseteq {1}
  BY InitHistory
<1>2. DOMAIN history = {} \/ DOMAIN history = {1}
  BY <1>1
<1>3. Cardinality(DOMAIN history) \in {0, 1}
  BY <1>2, FS_EmptySet, FS_Singleton
<1> QED BY <1>3

(* Only a prune that has looked, a prune that deletes and an append touch  *)
(* what PruneToCome speaks of.                                             *)
LEMMA StepPrune ==
  ASSUME RevisionsInv, PruneToCome, [Next]_vars
  PROVE  PruneToCome'
<1> USE DEF GoTo
<1>0. /\ pc \in [Requests -> PCs] /\ limit \in [Requests -> Nat] /\ HistoryOK
      /\ Cardinality(DOMAIN history) \in Nat
  BY FS_CardinalityType DEF RevisionsInv, TypeOK, HandlersOK, HistoryOK
<1>1. ASSUME UNCHANGED <<history, limit, unpruned>>,
             \A r \in Requests : /\ pc'[r] = "delete" <=> pc[r] = "delete"
                                 /\ pc'[r] = "prune" <=> pc[r] = "prune"
      PROVE  PruneToCome'
  BY <1>1 DEF PruneToCome, AtLeast
<1>2. UNCHANGED vars \/ LeaveWindow => PruneToCome'
  BY <1>1 DEF vars, LeaveWindow, locals
<1>3. ASSUME NEW r \in Requests, NEW a \in Authors,
             \/ CreateDocument(r, a) \/ PatchDocument(r, a) \/ SaveSnapshotBody(r, a)
             \/ \E v \in DOMAIN history : FindRevision(r, a, v)
      PROVE  PruneToCome'
  BY <1>0, <1>1, <1>3 DEF CreateDocument, PatchDocument, SaveSnapshotBody, FindRevision, Start
<1>4. ASSUME NEW r \in Requests,
             RestoreBody(r) \/ RereadBody(r) \/ ReadLatest(r) \/ RereadAmended(r)
               \/ ApplyRevisionMeta(r)
      PROVE  PruneToCome'
  BY <1>0, <1>1, <1>4
     DEF RestoreBody, RereadBody, ReadLatest, RereadAmended, ApplyRevisionMeta, locals
<1>5. ASSUME NEW r \in Requests, AmendRevision(r) PROVE PruneToCome'
  <2>1. DOMAIN history' = DOMAIN history
    BY <1>5, AmendRevisionStep DEF RevisionsInv, TypeOK
  <2> QED BY <1>0, <1>5, <2>1 DEF AmendRevision, PruneToCome, AtLeast, locals
<1>6. ASSUME NEW r \in Requests, AppendRevision(r) PROVE PruneToCome'
  <2>1. CASE version[r] \in DOMAIN history
    BY <1>0, <1>1, <1>6, <2>1 DEF AppendRevision, locals
  <2>2. CASE version[r] \notin DOMAIN history
    BY <1>0, <1>6, <2>2 DEF AppendRevision, PruneToCome
  <2> QED BY <2>1, <2>2
<1>7. ASSUME NEW r \in Requests, LocatePruneLimit(r) PROVE PruneToCome'
  <2>1. CASE \A v \in DOMAIN history : Cardinality(AtLeast(v)) # Keep
    <3>1. Cardinality(DOMAIN history) <= Keep
      BY <1>0, <2>1, SomeLeaveKeep
    <3> QED BY <1>7, <3>1 DEF LocatePruneLimit, PruneToCome
  <2>2. ASSUME NEW v \in DOMAIN history, Cardinality(AtLeast(v)) = Keep,
               limit' = [limit EXCEPT ![r] = v], pc' = [pc EXCEPT ![r] = "delete"]
        PROVE  PruneToCome'
    <3>1. AtLeast(limit[r])' = AtLeast(v) /\ pc'[r] = "delete"
      BY <1>0, <1>7, <2>2 DEF LocatePruneLimit, AtLeast
    <3> QED BY <2>2, <3>1 DEF PruneToCome
  <2> QED BY <1>7, <2>1, <2>2 DEF LocatePruneLimit
<1>8. ASSUME NEW r \in Requests, DeletePruned(r) PROVE PruneToCome'
  <2> SUFFICES ASSUME ~unpruned', \A q \in Requests : pc'[q] # "prune"
               PROVE  \/ Cardinality(DOMAIN history') <= Keep
                      \/ \E q \in Requests : /\ pc'[q] = "delete"
                                            /\ Cardinality(AtLeast(limit[q])') <= Keep
    BY <1>8 DEF PruneToCome, AtLeast, DeletePruned, locals
  <2>1. /\ DOMAIN history' = AtLeast(limit[r])
        /\ DOMAIN history' \subseteq DOMAIN history
        /\ UNCHANGED <<limit, unpruned>> /\ pc' = [pc EXCEPT ![r] = "meta"] /\ pc[r] = "delete"
    BY <1>8, DeletePrunedStep DEF DeletePruned, locals
  <2>2. ~unpruned /\ \A q \in Requests : pc[q] # "prune"
    BY <1>0, <2>1
  <2>3. CASE Cardinality(DOMAIN history) <= Keep
    <3>1. Cardinality(DOMAIN history') <= Cardinality(DOMAIN history)
      BY <1>0, <2>1, FS_Subset DEF HistoryOK
    <3>2. Cardinality(DOMAIN history') \in Nat
      BY <1>0, <2>1, AtLeastFinite
    <3> QED BY <1>0, <2>3, <3>1, <3>2
  <2>4. ASSUME NEW q \in Requests, pc[q] = "delete", Cardinality(AtLeast(limit[q])) <= Keep
        PROVE  \/ Cardinality(DOMAIN history') <= Keep
               \/ \E p \in Requests : /\ pc'[p] = "delete"
                                     /\ Cardinality(AtLeast(limit[p])') <= Keep
    <3>1. CASE q = r
      BY <2>1, <2>4, <3>1
    <3>2. CASE q # r
      <4>1. AtLeast(limit[q])' \subseteq AtLeast(limit[q])
        BY <2>1 DEF AtLeast
      <4>2. /\ IsFiniteSet(AtLeast(limit[q])) /\ Cardinality(AtLeast(limit[q])) \in Nat
            /\ Cardinality(AtLeast(limit[q])') \in Nat
        BY <1>0, <4>1, AtLeastFinite, FS_Subset, FS_CardinalityType
      <4>3. Cardinality(AtLeast(limit[q])') <= Cardinality(AtLeast(limit[q]))
        BY <4>1, <4>2, FS_Subset
      <4>4. Cardinality(AtLeast(limit[q])') <= Keep
        BY <2>4, <4>2, <4>3
      <4> QED BY <1>0, <2>1, <2>4, <3>2, <4>4
    <3> QED BY <3>1, <3>2
  <2> QED BY <2>2, <2>3, <2>4 DEF PruneToCome
<1>9. ASSUME NEW r \in Requests, StoreFault(r) PROVE PruneToCome'
  <2>1. CASE pc[r] \in {"prune", "delete"}
    BY <1>9, <2>1 DEF StoreFault, PruneToCome
  <2>2. CASE pc[r] \notin {"prune", "delete"}
    BY <1>0, <1>1, <1>9, <2>2 DEF StoreFault, locals
  <2> QED BY <2>1, <2>2
<1> QED BY <1>2, <1>3, <1>4, <1>5, <1>6, <1>7, <1>8, <1>9 DEF Next, HandlerStep

(* When all handlers have ended at most maxDocumentRevisions are stored,   *)
(* unless the last prune failed, however their statements interleaved.     *)
THEOREM HistoryStaysBounded == Spec => []HistoryBounded
<1>1. RevisionsInv /\ PruneToCome /\ [Next]_vars => PruneToCome'
  BY StepPrune
<1>2. PruneToCome => HistoryBounded
  BY DEF PruneToCome, HistoryBounded, InFlight
<1> QED BY <1>1, <1>2, InitPrune, RevisionsInvariant, PTL DEF Spec

-----------------------------------------------------------------------------
(* The save that heals *)

(* A request nobody has run beside knows the body and the revision it made *)
(* of it, whatever it found.                                               *)
Heals(r) ==
  /\ pc[r] \in {"latest", "amend", "append"} => text[r] = body
  /\ pc[r] = "amend" => version[r] \in DOMAIN history /\ history[version[r]].id = target[r]
  /\ pc[r] = "append" => \A u \in DOMAIN history : u < version[r]
  /\ pc[r] \in {"amended", "prune", "delete", "meta"} =>
       version[r] \in DOMAIN history /\ history[version[r]].text = body
  /\ pc[r] \in {"prune", "delete"} => \A u \in DOMAIN history : u <= version[r]
  /\ pc[r] = "delete" => limit[r] <= version[r]

AloneInv ==
  /\ \A r \in Requests : pc[r] = "new" => text[r] = r
  /\ \A r \in alone : InFlight \subseteq {r} /\ Heals(r)

LEMMA InitAlone == Init => AloneInv
BY DEF Init, AloneInv

(* A handler starts: it alone, if anybody, has had no other beside it. *)
LEMMA Starts ==
  ASSUME RevisionsInv, AloneInv, NEW r \in Requests, Start(r), NEW step \in PCs \ {"new"}, GoTo(r, step),
         \A q \in Requests \ {r} : text'[q] = text[q], Heals(r)'
  PROVE  AloneInv'
<1>1. pc \in [Requests -> PCs] /\ alone' \in {{r}, {}}
  BY DEF RevisionsInv, TypeOK, HandlersOK, Start
<1>2. alone' = {r} => InFlight' \subseteq {r}
  BY <1>1 DEF Start, GoTo, InFlight
<1>3. \A q \in Requests : pc'[q] = "new" => q # r /\ pc[q] = "new"
  BY <1>1 DEF GoTo
<1> QED BY <1>1, <1>2, <1>3 DEF AloneInv

(* A handler goes on; if others are under way it is not alone. *)
LEMMA GoesOn ==
  ASSUME RevisionsInv, AloneInv, NEW r \in Requests, pc[r] \notin {"new", "done"}, UNCHANGED alone,
         NEW step \in PCs \ {"new"}, GoTo(r, step),
         \A q \in Requests \ {r} : text'[q] = text[q], r \in alone => Heals(r)'
  PROVE  AloneInv'
<1>1. pc \in [Requests -> PCs] /\ r \in InFlight
  BY DEF RevisionsInv, TypeOK, HandlersOK, InFlight
<1>2. InFlight' \subseteq InFlight
  BY <1>1 DEF GoTo, InFlight
<1>3. \A q \in alone : q = r
  BY <1>1 DEF AloneInv
<1>4. \A q \in Requests : pc'[q] = "new" => q # r /\ pc[q] = "new"
  BY <1>1 DEF GoTo
<1> QED BY <1>2, <1>3, <1>4 DEF AloneInv

LEMMA StartAlone ==
  ASSUME RevisionsInv, AloneInv, NEW r \in Requests, NEW a \in Authors,
         \/ CreateDocument(r, a) \/ PatchDocument(r, a) \/ SaveSnapshotBody(r, a)
         \/ \E v \in DOMAIN history : FindRevision(r, a, v)
  PROVE  AloneInv'
<1> USE DEF RevisionsInv, TypeOK, HandlersOK, PCs
<1>1. pc[r] = "new" /\ text[r] = r
  BY DEF CreateDocument, PatchDocument, SaveSnapshotBody, FindRevision, Start, AloneInv
<1>2. CASE CreateDocument(r, a) \/ PatchDocument(r, a)
  <2>1. Start(r) /\ GoTo(r, "latest") /\ UNCHANGED text /\ body' = r
    BY <1>2 DEF CreateDocument, PatchDocument
  <2>2. Heals(r)'
    BY <1>1, <2>1 DEF GoTo, Heals
  <2> QED BY <2>1, <2>2, Starts
<1>3. CASE SaveSnapshotBody(r, a)
  <2>1. Start(r) /\ GoTo(r, "reread") /\ UNCHANGED text
    BY <1>3 DEF SaveSnapshotBody
  <2>2. Heals(r)'
    BY <2>1 DEF GoTo, Heals
  <2> QED BY <2>1, <2>2, Starts
<1>4. ASSUME NEW v \in DOMAIN history, FindRevision(r, a, v) PROVE AloneInv'
  <2>1. /\ Start(r) /\ GoTo(r, "found")
        /\ \A q \in Requests \ {r} : text'[q] = text[q]
    BY <1>4 DEF FindRevision
  <2>2. Heals(r)'
    BY <2>1 DEF GoTo, Heals
  <2> QED BY <2>1, <2>2, Starts
<1> QED BY <1>2, <1>3, <1>4

(* The body is read back, and recorded in the latest revision or the next. *)
LEMMA RecordAlone ==
  ASSUME RevisionsInv, AloneInv, NEW r \in Requests,
         RestoreBody(r) \/ RereadBody(r) \/ ReadLatest(r)
  PROVE  AloneInv'
<1> USE DEF RevisionsInv, TypeOK, HandlersOK, PCs
<1>1. CASE RestoreBody(r)
  <2>1. pc[r] = "found" /\ GoTo(r, "reread") /\ UNCHANGED <<alone, text>>
    BY <1>1 DEF RestoreBody, locals
  <2>2. Heals(r)'
    BY <2>1 DEF GoTo, Heals
  <2> QED BY <2>1, <2>2, GoesOn
<1>2. CASE RereadBody(r)
  <2>1. pc[r] = "reread" /\ GoTo(r, "latest") /\ UNCHANGED <<alone, body>>
        /\ text' = [text EXCEPT ![r] = body]
    BY <1>2 DEF RereadBody, docVars
  <2>2. Heals(r)'
    BY <2>1 DEF GoTo, Heals
  <2> QED BY <2>1, <2>2, GoesOn
<1>3. CASE ReadLatest(r)
  <2>1. pc[r] = "latest" /\ UNCHANGED <<alone, body, text, history, limit>>
    BY <1>3 DEF ReadLatest, docVars
  <2>2. r \in alone => text[r] = body
    BY <2>1 DEF AloneInv, Heals
  <2>3. CASE DOMAIN history = {}
    <3>1. GoTo(r, "append") /\ version' = [version EXCEPT ![r] = 1]
      BY <1>3, <2>3 DEF ReadLatest
    <3>2. r \in alone => Heals(r)'
      BY <2>1, <2>2, <2>3, <3>1 DEF GoTo, Heals
    <3> QED BY <2>1, <3>1, <3>2, GoesOn
  <2>4. CASE DOMAIN history # {}
    <3>1. /\ Latest \in DOMAIN history /\ \A u \in DOMAIN history : u <= Latest
          /\ DOMAIN history \subseteq Nat
      BY <2>4, LatestIsNewest DEF HistoryOK
    <3>2. CASE /\ GoTo(r, "amend") /\ version' = [version EXCEPT ![r] = Latest]
               /\ target' = [target EXCEPT ![r] = history[Latest].id]
      <4>1. r \in alone => Heals(r)'
        BY <2>1, <2>2, <3>1, <3>2 DEF GoTo, Heals
      <4> QED BY <2>1, <3>2, <4>1, GoesOn
    <3>3. CASE GoTo(r, "append") /\ version' = [version EXCEPT ![r] = Latest + 1]
      <4>1. \A u \in DOMAIN history : u < Latest + 1
        BY <3>1
      <4>2. r \in alone => Heals(r)'
        BY <2>1, <2>2, <3>3, <4>1 DEF GoTo, Heals
      <4> QED BY <2>1, <3>3, <4>2, GoesOn
    <3> QED BY <1>3, <2>4, <3>2, <3>3 DEF ReadLatest
  <2> QED BY <2>3, <2>4
<1> QED BY <1>1, <1>2, <1>3

LEMMA WriteAlone ==
  ASSUME RevisionsInv, AloneInv, NEW r \in Requests, AmendRevision(r) \/ AppendRevision(r)
  PROVE  AloneInv'
<1> USE DEF RevisionsInv, TypeOK, HandlersOK, PCs
<1>1. CASE AmendRevision(r)
  <2>1. pc[r] = "amend" /\ UNCHANGED <<alone, body, text, version, target, limit>>
        /\ \E step \in {"amended", "done"} : GoTo(r, step)
    BY <1>1 DEF AmendRevision, docVars, locals
  <2>2. /\ DOMAIN history' = DOMAIN history
        /\ \A v \in DOMAIN history : history[v].id = target[r] =>
             history'[v] = [history[v] EXCEPT !.text = text[r]] /\ history[v] \in Revision
    BY <1>1, AmendRevisionStep DEF HistoryOK
  <2>3. r \in alone => Heals(r)'
    <3> SUFFICES ASSUME r \in alone PROVE Heals(r)'
      OBVIOUS
    <3>1. text[r] = body /\ version[r] \in DOMAIN history /\ history[version[r]].id = target[r]
      BY <2>1 DEF AloneInv, Heals
    <3>2. history'[version[r]].text = body
      BY <2>2, <3>1 DEF Revision
    <3> QED BY <2>1, <2>2, <3>1, <3>2 DEF GoTo, Heals
  <2> QED BY <2>1, <2>3, GoesOn
<1>2. CASE AppendRevision(r)
  <2>1. pc[r] = "append" /\ UNCHANGED <<alone, body, text, version, target, limit>>
    BY <1>2 DEF AppendRevision, docVars, locals
  <2>2. CASE version[r] \in DOMAIN history
    <3>1. GoTo(r, "done")
      BY <1>2, <2>2 DEF AppendRevision
    <3>2. Heals(r)'
      BY <3>1 DEF GoTo, Heals
    <3> QED BY <2>1, <3>1, <3>2, GoesOn
  <2>3. CASE version[r] \notin DOMAIN history
    <3>1. /\ GoTo(r, "prune")
          /\ history' = [v \in DOMAIN history \cup {version[r]} |->
               IF v = version[r]
               THEN [id |-> r, text |-> text[r], author |-> author[r], source |-> source[r]]
               ELSE history[v]]
      BY <1>2, <2>3 DEF AppendRevision
    <3>2. DOMAIN history' = DOMAIN history \cup {version[r]} /\ history'[version[r]].text = text[r]
      BY <3>1
    <3>3. r \in alone => text[r] = body /\ \A u \in DOMAIN history : u < version[r]
      BY <2>1 DEF AloneInv, Heals
    <3>4. DOMAIN history \subseteq Nat /\ version[r] \in Nat
      BY DEF HistoryOK
    <3>5. r \in alone => Heals(r)'
      BY <2>1, <3>1, <3>2, <3>3, <3>4 DEF GoTo, Heals
    <3> QED BY <2>1, <3>1, <3>5, GoesOn
  <2> QED BY <2>2, <2>3
<1> QED BY <1>1, <1>2

LEMMA PruneAlone ==
  ASSUME RevisionsInv, AloneInv, NEW r \in Requests, LocatePruneLimit(r) \/ DeletePruned(r)
  PROVE  AloneInv'
<1> USE DEF RevisionsInv, TypeOK, HandlersOK, PCs
<1>1. pc[r] \in {"prune", "delete"} /\ UNCHANGED <<alone, body, text, version, target>>
  BY DEF LocatePruneLimit, DeletePruned, docVars, locals
<1>2. r \in alone => /\ version[r] \in DOMAIN history /\ history[version[r]].text = body
                     /\ \A u \in DOMAIN history : u <= version[r]
                     /\ pc[r] = "delete" => limit[r] <= version[r]
  BY <1>1 DEF AloneInv, Heals
<1>3. CASE GoTo(r, "meta") /\ UNCHANGED history
  <2>1. r \in alone => Heals(r)'
    BY <1>1, <1>2, <1>3 DEF GoTo, Heals
  <2> QED BY <1>1, <1>3, <2>1, GoesOn
<1>4. ASSUME NEW v \in DOMAIN history, limit' = [limit EXCEPT ![r] = v], GoTo(r, "delete"),
             UNCHANGED history
      PROVE  AloneInv'
  <2>1. r \in alone => Heals(r)'
    BY <1>1, <1>2, <1>4 DEF GoTo, Heals
  <2> QED BY <1>1, <1>4, <2>1, GoesOn
<1>5. CASE DeletePruned(r)
  <2>1. /\ DOMAIN history' = AtLeast(limit[r])
        /\ \A v \in DOMAIN history' : history'[v] = history[v]
    BY <1>5, DeletePrunedStep
  <2>2. pc[r] = "delete" /\ GoTo(r, "meta")
    BY <1>5 DEF DeletePruned
  <2>3. r \in alone => version[r] \in DOMAIN history'
    BY <1>2, <2>1, <2>2 DEF AtLeast, HistoryOK
  <2>4. r \in alone => Heals(r)'
    BY <1>1, <1>2, <2>1, <2>2, <2>3 DEF GoTo, Heals
  <2> QED BY <1>1, <2>2, <2>4, GoesOn
<1> QED BY <1>3, <1>4, <1>5 DEF LocatePruneLimit, docVars

LEMMA EndAlone ==
  ASSUME RevisionsInv, AloneInv, NEW r \in Requests,
         RereadAmended(r) \/ ApplyRevisionMeta(r) \/ StoreFault(r)
  PROVE  AloneInv'
<1> USE DEF RevisionsInv, TypeOK, HandlersOK, PCs
<1>1. /\ pc[r] \notin {"new", "done"}
      /\ UNCHANGED <<alone, body, history, text, version, target, limit>>
      /\ \/ GoTo(r, "done")
         \/ pc[r] \in {"amended", "prune", "delete"} /\ GoTo(r, "meta")
  BY DEF RereadAmended, ApplyRevisionMeta, StoreFault, docVars, locals
<1>2. r \in alone => Heals(r)'
  BY <1>1 DEF AloneInv, GoTo, Heals
<1> QED BY <1>1, <1>2, GoesOn

LEMMA StepAlone == RevisionsInv /\ AloneInv /\ [Next]_vars => AloneInv'
<1> SUFFICES ASSUME RevisionsInv, AloneInv, [Next]_vars PROVE AloneInv'
  OBVIOUS
<1>1. CASE UNCHANGED vars \/ LeaveWindow
  <2>1. UNCHANGED <<pc, body, history, text, version, target, limit, alone>>
    BY <1>1 DEF vars, LeaveWindow, docVars, locals
  <2> QED BY <2>1 DEF AloneInv, InFlight, Heals
<1> QED BY <1>1, StartAlone, RecordAlone, WriteAlone, PruneAlone, EndAlone DEF Next, HandlerStep

(* Whatever calls failed and whatever races happened before, a save with   *)
(* no other beside it that gets to its meta write leaves the document with *)
(* the version that holds its body (ApplyRevisionMeta).                    *)
THEOREM SaveAloneHeals == Spec => NextSaveHeals
<1>1. ASSUME RevisionsInv, AloneInv, [Next]_vars, NEW r \in alone,
             pc[r] = "meta", pc'[r] = "done", docVersion' = version[r]
      PROVE  VersionMatchesBody'
  <2>1. version[r] \in DOMAIN history /\ history[version[r]].text = body /\ r \in Requests
        /\ InFlight \subseteq {r}
    BY <1>1 DEF AloneInv, Heals, RevisionsInv, TypeOK
  <2>2. UNCHANGED <<body, history>>
    <3>1. pc \in [Requests -> PCs]
      BY <1>1 DEF RevisionsInv, TypeOK, HandlersOK
    <3>2. ASSUME NEW q \in Requests, HandlerStep(q) PROVE UNCHANGED <<body, history>>
      <4>1. q = r
        BY <1>1, <2>1, <3>1, <3>2
           DEF HandlerStep, CreateDocument, PatchDocument, SaveSnapshotBody, FindRevision, Start,
               GoTo, RestoreBody, RereadBody, ReadLatest, AmendRevision, RereadAmended,
               AppendRevision, LocatePruneLimit, DeletePruned, ApplyRevisionMeta, StoreFault
      <4> QED BY <1>1, <3>2, <4>1
           DEF HandlerStep, CreateDocument, PatchDocument, SaveSnapshotBody, FindRevision, Start,
               RestoreBody, RereadBody, ReadLatest, AmendRevision, RereadAmended,
               AppendRevision, LocatePruneLimit, DeletePruned, ApplyRevisionMeta, StoreFault, docVars
    <3> QED BY <1>1, <3>2 DEF Next, LeaveWindow, vars, docVars
  <2> QED BY <1>1, <2>1, <2>2 DEF VersionMatchesBody
<1>2. RevisionsInv /\ AloneInv /\ [Next]_vars =>
        [\A r \in alone :
           pc[r] = "meta" /\ pc'[r] = "done" /\ docVersion' = version[r] =>
             VersionMatchesBody']_vars
  BY <1>1
<1> QED BY <1>2, InitAlone, StepAlone, RevisionsInvariant, PTL DEF Spec, NextSaveHeals

-----------------------------------------------------------------------------
(* Refinement of RevisionHistory *)

(* The abstract module's view of finiteness, and of a revision, is ours.   *)
LEMMA SameFiniteSets ==
  \A S : /\ Promise!IsFiniteSet(S) = IsFiniteSet(S)
         /\ Promise!Cardinality(S) = Cardinality(S)
BY DEF Promise!IsFiniteSet, IsFiniteSet, Promise!Cardinality, Cardinality

LEMMA SameRevisions == Revision = Promise!Revision
BY DEF Revision, Promise!Revision, Sources, Promise!Sources

LEMMA PublishStep ==
  ASSUME RevisionsInv, NEW r \in Requests, AppendRevision(r),
         version[r] \notin DOMAIN history
  PROVE  Promise!Publish
<1>1. /\ version[r] \in DOMAIN history' \ DOMAIN history
      /\ version[r] \in Nat \ {0}
      /\ history'[version[r]] \in Promise!Revision
  BY AppendRevisionStep, SameRevisions
<1>2. history' = [u \in DOMAIN history \cup {version[r]} |->
                   IF u = version[r] THEN history'[version[r]] ELSE history[u]]
  BY AppendRevisionStep
<1> QED BY <1>1, <1>2 DEF Promise!Publish

LEMMA RewriteStep ==
  ASSUME RevisionsInv, NEW r \in Requests, AmendRevision(r)
  PROVE  \/ UNCHANGED history
         \/ \E v \in DOMAIN history, t \in Texts : Promise!Rewrite(v, t)
<1>1. CASE ~ \E v \in DOMAIN history : history[v].id = target[r]
  BY <1>1 DEF AmendRevision
<1>2. ASSUME NEW v \in DOMAIN history, history[v].id = target[r]
      PROVE  Promise!Rewrite(v, text[r]) /\ text[r] \in Texts
  <2>1. /\ DOMAIN history' = DOMAIN history
        /\ history' \in [DOMAIN history -> Revision]
        /\ \A u \in DOMAIN history :
             /\ history[u].id # target[r] => history'[u] = history[u]
             /\ history[u].id = target[r] =>
                  history'[u] = [history[u] EXCEPT !.text = text[r]]
    BY AmendRevisionStep DEF RevisionsInv, TypeOK
  <2>2. history \in [DOMAIN history -> Revision]
    BY DEF RevisionsInv, TypeOK, HistoryOK
  <2>3. \A u \in DOMAIN history : history[u].id = target[r] <=> u = v
    BY <1>2 DEF RevisionsInv, IdsUnique
  <2>4. history' = [history EXCEPT ![v].text = text[r]]
    BY <2>1, <2>2, <2>3
  <2>5. history[v].source = "edit"
    BY <1>2 DEF AmendRevision, RevisionsInv, AmendTargetsEdit
  <2>6. text[r] \in Texts
    BY DEF RevisionsInv, TypeOK, HandlersOK
  <2> QED BY <2>4, <2>5, <2>6 DEF Promise!Rewrite
<1> QED BY <1>1, <1>2

LEMMA DropOldestStep ==
  ASSUME RevisionsInv, NEW r \in Requests, DeletePruned(r)
  PROVE  Promise!DropOldest
BY DeletePrunedStep, SameFiniteSets DEF Promise!DropOldest, Promise!Restrict

(* Whatever the handlers do concurrently, and whichever calls fail, the    *)
(* author sees a history that only grows by fresh versions, is rewritten   *)
(* at edits only, and is trimmed from its oldest end.                      *)
THEOREM HistoryRefinement == Spec => HistoryPromise
<1>1. Init => Promise!Init
  BY InitHistory, SameRevisions, SameFiniteSets DEF Promise!Init, Promise!IsHistory, HistoryOK
<1>2. RevisionsInv /\ [Next]_vars => [Promise!Next]_history
  BY HistoryStep, PublishStep, RewriteStep, DropOldestStep DEF Promise!Next
<1> QED BY <1>1, <1>2, RevisionsInvariant, PTL DEF Spec, HistoryPromise, Promise!Spec

=============================================================================
