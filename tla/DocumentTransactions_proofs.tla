-------------------- MODULE DocumentTransactions_proofs --------------------
(***************************************************************************)
(* Proofs about DocumentTransactions, for any documents, slugs, sessions   *)
(* and limits: what the transactions keep although each decides on an old  *)
(* snapshot, and that the handlers of DocumentIndexing keep it too.        *)
(***************************************************************************)
EXTENDS DocumentIndexing, FiniteSetTheorems, TLAPS

(* The lemmas about walks in a forest. *)
Walks == INSTANCE DocumentTree_proofs WITH documents <- rows, alias <- alias

Places == Documents \cup {Root}
Rows == [parent : Places, slug : Slugs, dead : BOOLEAN]

Plans ==
  {NoPlan}
  \cup [op : {"create"}, slug : Slugs, parent : Places]
  \cup [op : {"update"}, doc : Documents, slug : Slugs, parent : Places, previous : Slugs]
  \cup [op : {"move"}, doc : Documents, parent : Places]
  \cup [op : {"delete"}, docs : SUBSET Documents]

(* Parents, planned ones too, are rows: the foreign key on parent_id. *)
ParentsCreated ==
  /\ \A d \in Created : rows[d].parent \in Created \cup {Root}
  /\ \A t \in Sessions :
       plan[t].op \in {"create", "update", "move"} => plan[t].parent \in Created \cup {Root}

RowsInv == TypeOK /\ plan \in [Sessions -> Plans] /\ ParentsCreated /\ SlugsUnique

LEMMA PlanFields ==
  ASSUME NEW p \in Plans
  PROVE  /\ p.op = "create" => p.slug \in Slugs /\ p.parent \in Places
         /\ p.op = "update" => /\ p.doc \in Documents /\ p.slug \in Slugs
                               /\ p.parent \in Places /\ p.previous \in Slugs
         /\ p.op = "move" => p.doc \in Documents /\ p.parent \in Places
         /\ p.op = "delete" => p.docs \subseteq Documents
BY DEF Plans, NoPlan

(* A transaction reads: only its plan is new. *)
Reads(t, p) ==
  /\ plan[t] = NoPlan /\ p \in Plans /\ plan' = [plan EXCEPT ![t] = p]
  /\ p.op \in {"create", "update", "move"} => p.parent \in Created \cup {Root}
  /\ UNCHANGED <<rows, alias, behind, raced>>

LEMMA PlansRead ==
  ASSUME RowsInv, NEW t \in Sessions
  PROVE  /\ \A s \in Slugs, p \in Created \cup {Root} : PlanCreate(t, s, p) =>
              /\ Reads(t, [op |-> "create", slug |-> s, parent |-> p])
              /\ Cardinality(Live) < MaxDocuments /\ s \notin DOMAIN alias
         /\ \A d \in Created, s \in Slugs, p \in Created \cup {Root} : PlanUpdate(t, d, s, p) =>
              /\ Reads(t, [op |-> "update", doc |-> d, slug |-> s, parent |-> p,
                           previous |-> rows[d].slug])
              /\ d \in Live
         /\ \A d \in Created, p \in Created \cup {Root} : PlanMove(t, d, p) =>
              Reads(t, [op |-> "move", doc |-> d, parent |-> p])
         /\ \A d \in Created : PlanDelete(t, d) =>
              Reads(t, [op |-> "delete", docs |-> {d} \cup Below(Parent, d, MaxDepth)])
<1>1. Created \cup {Root} \subseteq Places /\ Created \subseteq Documents
  BY DEF RowsInv, TypeOK, Places
<1>2. \A d \in Created : rows[d].slug \in Slugs
  BY DEF RowsInv, TypeOK
<1>3. ASSUME NEW s \in Slugs, NEW p \in Created \cup {Root}, PlanCreate(t, s, p)
      PROVE  /\ Reads(t, [op |-> "create", slug |-> s, parent |-> p])
             /\ Cardinality(Live) < MaxDocuments /\ s \notin DOMAIN alias
  <2>1. [op |-> "create", slug |-> s, parent |-> p] \in Plans
    BY <1>1 DEF Plans
  <2> QED BY <1>3, <2>1 DEF PlanCreate, Begin, Reads
<1>4. ASSUME NEW d \in Created, NEW s \in Slugs, NEW p \in Created \cup {Root}, PlanUpdate(t, d, s, p)
      PROVE  /\ Reads(t, [op |-> "update", doc |-> d, slug |-> s, parent |-> p,
                          previous |-> rows[d].slug])
             /\ d \in Live
  <2>1. [op |-> "update", doc |-> d, slug |-> s, parent |-> p, previous |-> rows[d].slug] \in Plans
    BY <1>1, <1>2 DEF Plans
  <2> QED BY <1>4, <2>1 DEF PlanUpdate, Begin, Reads
<1>5. ASSUME NEW d \in Created, NEW p \in Created \cup {Root}, PlanMove(t, d, p)
      PROVE  Reads(t, [op |-> "move", doc |-> d, parent |-> p])
  <2>1. [op |-> "move", doc |-> d, parent |-> p] \in Plans
    BY <1>1 DEF Plans
  <2> QED BY <1>5, <2>1 DEF PlanMove, Begin, Reads
<1>6. ASSUME NEW d \in Created, PlanDelete(t, d)
      PROVE  Reads(t, [op |-> "delete", docs |-> {d} \cup Below(Parent, d, MaxDepth)])
  <2>1. {d} \cup Below(Parent, d, MaxDepth) \subseteq Documents
    BY <1>1 DEF Below, Parent, Live
  <2>2. [op |-> "delete", docs |-> {d} \cup Below(Parent, d, MaxDepth)] \in Plans
    BY <2>1 DEF Plans
  <2> QED BY <1>6, <2>2 DEF PlanDelete, Begin, Reads
<1> QED BY <1>3, <1>4, <1>5, <1>6

LEMMA ReadInv ==
  ASSUME RowsInv, NEW t \in Sessions, NEW p, Reads(t, p)
  PROVE  RowsInv'
<1>1. Created' = Created /\ TypeOK' /\ SlugsUnique'
  BY DEF RowsInv, Reads, TypeOK, SlugsUnique, Created
<1>2. plan' \in [Sessions -> Plans]
  BY DEF RowsInv, Reads
<1>3. ParentsCreated'
  BY <1>1 DEF RowsInv, Reads, ParentsCreated
<1> QED BY <1>1, <1>2, <1>3 DEF RowsInv

(* What the commit does to the plans, whatever it does to the rows. *)
LEMMA PlannedPlans ==
  ASSUME RowsInv, NEW t \in Sessions, NEW op, op # "none", Planned(t, op),
         Created \subseteq Created',
         \A d \in Created' : rows'[d].parent \in Created' \cup {Root}
  PROVE  plan' \in [Sessions -> Plans] /\ ParentsCreated'
<1>1. plan' = [plan EXCEPT ![t] = NoPlan] /\ NoPlan \in Plans /\ NoPlan.op = "none"
  BY DEF Planned, Plans, NoPlan
<1>2. plan' \in [Sessions -> Plans]
  BY <1>1 DEF RowsInv
<1>3. \A u \in Sessions : plan'[u] = plan[u] \/ plan'[u].op = "none"
  BY <1>1 DEF RowsInv
<1> QED BY <1>2, <1>3 DEF RowsInv, ParentsCreated

LEMMA CreateInv ==
  ASSUME RowsInv, NEW t \in Sessions, NEW d \in Documents, WriteCreate(t, d)
  PROVE  RowsInv'
<1> DEFINE new == [parent |-> plan[t].parent, slug |-> plan[t].slug, dead |-> FALSE]
<1>1. Planned(t, "create") /\ plan[t].op = "create" /\ d \notin Created /\ UNCHANGED alias
  BY DEF WriteCreate, Planned
<1>2. /\ new \in Rows /\ new.parent \in Created \cup {Root}
      /\ new.parent = plan[t].parent /\ new.slug = plan[t].slug
  BY <1>1, PlanFields DEF RowsInv, Rows, ParentsCreated
<1>3. CASE UNCHANGED rows
  <2>1. Created' = Created /\ TypeOK' /\ SlugsUnique'
    BY <1>1, <1>3 DEF RowsInv, TypeOK, SlugsUnique, Created
  <2>2. \A e \in Created' : rows'[e].parent \in Created' \cup {Root}
    BY <1>3, <2>1 DEF RowsInv, ParentsCreated
  <2> QED BY <1>1, <2>1, <2>2, PlannedPlans DEF RowsInv
<1>4. CASE /\ SlugFree(plan[t].slug, d)
           /\ rows' = [e \in Created \cup {d} |-> IF e = d THEN new ELSE rows[e]]
  <2> HIDE DEF new
  <2>1. Created' = Created \cup {d}
    BY <1>4 DEF Created
  <2>2. rows'[d] = new /\ \A e \in Created : rows'[e] = rows[e]
    BY <1>1, <1>4
  <2>3. \A e \in Created : rows[e] \in Rows
    BY DEF RowsInv, TypeOK, Rows, Places
  <2>4. rows' \in [Created' -> Rows]
    BY <1>2, <1>4, <2>1, <2>3
  <2>5. TypeOK'
    BY <1>1, <2>1, <2>4 DEF RowsInv, TypeOK, Rows, Places
  <2>6. \A e \in Created' : rows'[e].parent \in Created' \cup {Root}
    BY <1>2, <2>1, <2>2 DEF RowsInv, ParentsCreated
  <2>7. SlugsUnique'
    BY <1>1, <1>2, <1>4, <2>1, <2>2 DEF RowsInv, SlugsUnique, SlugFree
  <2> QED BY <1>1, <2>1, <2>5, <2>6, <2>7, PlannedPlans DEF RowsInv
<1> QED BY <1>3, <1>4 DEF WriteCreate

(* One live row is written; a slug it did not have was free. *)
LEMMA ReplaceInv ==
  ASSUME RowsInv, NEW d \in Live, NEW new \in Rows, rows' = [rows EXCEPT ![d] = new],
         new.parent \in Created \cup {Root}, SlugFree(new.slug, d)
  PROVE  /\ Created' = Created /\ rows' \in [Created' -> Rows] /\ SlugsUnique'
         /\ rows'[d] = new /\ \A e \in Created \ {d} : rows'[e] = rows[e]
         /\ \A e \in Created' : rows'[e].parent \in Created' \cup {Root}
<1>1. d \in Created /\ rows \in [Created -> Rows]
  BY DEF RowsInv, TypeOK, Rows, Places, Live
<1>2. Created' = Created
  BY <1>1 DEF Created
<1>3. rows'[d] = new /\ \A e \in Created \ {d} : rows'[e] = rows[e]
  BY <1>1
<1>4. rows' \in [Created' -> Rows]
  BY <1>1, <1>2
<1>5. SlugsUnique'
  BY <1>1, <1>2, <1>3 DEF RowsInv, SlugsUnique, SlugFree
<1> QED BY <1>2, <1>3, <1>4, <1>5 DEF RowsInv, ParentsCreated

LEMMA UpdateInv ==
  ASSUME RowsInv, NEW t \in Sessions, WriteUpdate(t)
  PROVE  RowsInv'
<1> DEFINE d == plan[t].doc
           s == plan[t].slug
           previous == plan[t].previous
           new == [rows[d] EXCEPT !.parent = plan[t].parent, !.slug = s]
<1>1. Planned(t, "update") /\ plan[t].op = "update"
  BY DEF WriteUpdate, Planned
<1>2. d \in Documents /\ s \in Slugs /\ previous \in Slugs /\ plan[t].parent \in Created \cup {Root}
      /\ plan[t].parent \in Places
  BY <1>1, PlanFields DEF RowsInv, ParentsCreated
<1>3. CASE UNCHANGED <<rows, alias>>
  <2>1. Created' = Created /\ TypeOK' /\ SlugsUnique'
    BY <1>1, <1>3 DEF RowsInv, TypeOK, SlugsUnique, Created
  <2>2. \A e \in Created' : rows'[e].parent \in Created' \cup {Root}
    BY <1>3, <2>1 DEF RowsInv, ParentsCreated
  <2> QED BY <1>1, <2>1, <2>2, PlannedPlans DEF RowsInv
<1>4. CASE /\ d \in Live /\ SlugFree(s, d)
           /\ rows' = [rows EXCEPT ![d].parent = plan[t].parent, ![d].slug = s]
           /\ alias' = IF s = previous THEN alias
                       ELSE [u \in (DOMAIN alias \ {s}) \cup {previous} |->
                               IF u = previous THEN d ELSE alias[u]]
  <2>1. rows[d] \in Rows
    BY <1>4 DEF RowsInv, TypeOK, Rows, Places, Live
  <2>2. new \in Rows /\ new.parent = plan[t].parent /\ new.slug = s
    BY <1>2, <2>1 DEF Rows
  <2>3. rows' = [rows EXCEPT ![d] = new]
    BY <1>4, <2>1 DEF RowsInv, TypeOK, Live
  <2> HIDE DEF new
  <2>4. /\ Created' = Created /\ rows' \in [Created' -> Rows] /\ SlugsUnique'
        /\ \A e \in Created' : rows'[e].parent \in Created' \cup {Root}
    BY <1>2, <1>4, <2>2, <2>3, ReplaceInv
  <2>5. DOMAIN alias' \subseteq Slugs /\ alias' \in [DOMAIN alias' -> Documents]
    BY <1>2, <1>4 DEF RowsInv, TypeOK
  <2>6. TypeOK'
    BY <2>4, <2>5 DEF RowsInv, TypeOK, Rows, Places
  <2> QED BY <1>1, <2>4, <2>6, PlannedPlans DEF RowsInv
<1> QED BY <1>3, <1>4 DEF WriteUpdate

LEMMA MoveInv ==
  ASSUME RowsInv, NEW t \in Sessions, WriteMove(t)
  PROVE  RowsInv'
<1> DEFINE d == plan[t].doc
           new == [rows[d] EXCEPT !.parent = plan[t].parent]
<1>1. Planned(t, "move") /\ plan[t].op = "move" /\ UNCHANGED alias
  BY DEF WriteMove, Planned
<1>2. d \in Documents /\ plan[t].parent \in Created \cup {Root} /\ plan[t].parent \in Places
  BY <1>1, PlanFields DEF RowsInv, ParentsCreated
<1>3. CASE UNCHANGED rows
  <2>1. Created' = Created /\ TypeOK' /\ SlugsUnique'
    BY <1>1, <1>3 DEF RowsInv, TypeOK, SlugsUnique, Created
  <2>2. \A e \in Created' : rows'[e].parent \in Created' \cup {Root}
    BY <1>3, <2>1 DEF RowsInv, ParentsCreated
  <2> QED BY <1>1, <2>1, <2>2, PlannedPlans DEF RowsInv
<1>4. CASE d \in Live /\ rows' = [rows EXCEPT ![d].parent = plan[t].parent]
  <2>1. rows[d] \in Rows
    BY <1>4 DEF RowsInv, TypeOK, Rows, Places, Live
  <2>2. new \in Rows /\ new.parent = plan[t].parent /\ new.slug = rows[d].slug
    BY <1>2, <2>1 DEF Rows
  <2>3. rows' = [rows EXCEPT ![d] = new]
    BY <1>4, <2>1 DEF RowsInv, TypeOK, Live
  <2>4. SlugFree(new.slug, d)
    BY <1>4, <2>2 DEF RowsInv, SlugsUnique, SlugFree, Live
  <2> HIDE DEF new
  <2>5. /\ Created' = Created /\ rows' \in [Created' -> Rows] /\ SlugsUnique'
        /\ \A e \in Created' : rows'[e].parent \in Created' \cup {Root}
    BY <1>2, <1>4, <2>2, <2>3, <2>4, ReplaceInv
  <2>6. TypeOK'
    BY <1>1, <2>5 DEF RowsInv, TypeOK, Rows, Places
  <2> QED BY <1>1, <2>5, <2>6, PlannedPlans DEF RowsInv
<1> QED BY <1>3, <1>4 DEF WriteMove

(* A delete changes nothing but dead, and a row that is dead stays as it is. *)
LEMMA DeleteRows ==
  ASSUME RowsInv, NEW t \in Sessions, WriteDelete(t)
  PROVE  /\ Created' = Created /\ rows' \in [Created' -> Rows]
         /\ \A e \in Created : /\ rows'[e].parent = rows[e].parent
                               /\ rows'[e].slug = rows[e].slug
                               /\ rows[e].dead => rows'[e] = rows[e]
<1>1. rows' = [d \in Created |->
        IF d \in plan[t].docs THEN [rows[d] EXCEPT !.dead = TRUE] ELSE rows[d]]
  BY DEF WriteDelete
<1>2. \A e \in Created : rows[e] \in Rows
  BY DEF RowsInv, TypeOK, Rows, Places
<1>3. ASSUME NEW e \in Created
      PROVE  /\ rows'[e] \in Rows /\ rows'[e].parent = rows[e].parent
             /\ rows'[e].slug = rows[e].slug
             /\ rows[e].dead => rows'[e] = rows[e]
  <2>1. rows'[e] = rows[e] \/ rows'[e] = [rows[e] EXCEPT !.dead = TRUE]
    BY <1>1
  <2>2. rows[e] \in Rows
    BY <1>2
  <2> QED BY <2>1, <2>2 DEF Rows
<1>4. Created' = Created
  BY <1>1 DEF Created
<1>5. rows' \in [Created' -> Rows]
  BY <1>1, <1>3, <1>4
<1> QED BY <1>3, <1>4, <1>5

LEMMA DeleteInv ==
  ASSUME RowsInv, NEW t \in Sessions, WriteDelete(t)
  PROVE  RowsInv'
<1>1. Planned(t, "delete") /\ UNCHANGED alias
  BY DEF WriteDelete
<1>2. TypeOK'
  BY <1>1, DeleteRows DEF RowsInv, TypeOK, Rows, Places
<1>3. SlugsUnique'
  BY DeleteRows DEF RowsInv, SlugsUnique
<1>4. \A e \in Created' : rows'[e].parent \in Created' \cup {Root}
  BY DeleteRows DEF RowsInv, ParentsCreated
<1> QED BY <1>1, <1>2, <1>3, <1>4, DeleteRows, PlannedPlans DEF RowsInv

LEMMA InitRows == Init => RowsInv
<1> SUFFICES ASSUME Init PROVE RowsInv
  OBVIOUS
<1>1. Created = {} /\ DOMAIN alias = {}
  BY DEF Init, Created
<1>2. TypeOK
  BY <1>1 DEF Init, TypeOK, Created
<1>3. plan \in [Sessions -> Plans] /\ \A t \in Sessions : plan[t].op = "none"
  BY DEF Init, Plans, NoPlan
<1> QED BY <1>1, <1>2, <1>3 DEF RowsInv, ParentsCreated, SlugsUnique

LEMMA StepRows == RowsInv /\ [Next]_vars => RowsInv'
<1> SUFFICES ASSUME RowsInv, [Next]_vars PROVE RowsInv'
  OBVIOUS
<1>1. CASE UNCHANGED vars
  BY <1>1 DEF vars, RowsInv, TypeOK, ParentsCreated, SlugsUnique, Created
<1>2. CASE Next
  <2>1. PICK t \in Sessions :
          \/ \E s \in Slugs, p \in Created \cup {Root} : PlanCreate(t, s, p)
          \/ \E d \in Created, s \in Slugs, p \in Created \cup {Root} : PlanUpdate(t, d, s, p)
          \/ \E d \in Created, p \in Created \cup {Root} : PlanMove(t, d, p)
          \/ \E d \in Created : PlanDelete(t, d)
          \/ \E d \in Documents : WriteCreate(t, d)
          \/ WriteUpdate(t) \/ WriteMove(t) \/ WriteDelete(t)
    BY <1>2 DEF Next
  <2>2. CASE \/ \E s \in Slugs, p \in Created \cup {Root} : PlanCreate(t, s, p)
             \/ \E d \in Created, s \in Slugs, p \in Created \cup {Root} : PlanUpdate(t, d, s, p)
             \/ \E d \in Created, p \in Created \cup {Root} : PlanMove(t, d, p)
             \/ \E d \in Created : PlanDelete(t, d)
    <3>1. \E p : Reads(t, p)
      BY <2>2, PlansRead
    <3> QED BY <3>1, ReadInv
  <2> QED BY <2>1, <2>2, CreateInv, UpdateInv, MoveInv, DeleteInv
<1> QED BY <1>1, <1>2

LEMMA RowsInvariant == Spec => []RowsInv
BY InitRows, StepRows, PTL DEF Spec

-----------------------------------------------------------------------------
(* The unique key and the foreign key hold on to the rows whatever         *)
(* transactions interleave.                                                *)
THEOREM RowsTyped == Spec => []TypeOK
BY RowsInvariant, PTL DEF RowsInv

(* No slug is given twice, deleted documents included (Create, Update).    *)
THEOREM SlugsStayUnique == Spec => []SlugsUnique
BY RowsInvariant, PTL DEF RowsInv

LEMMA DeletedStep ==
  ASSUME RowsInv, [Next]_vars, NEW d \in Created \ Live
  PROVE  rows'[d] = rows[d]
<1>1. rows[d].dead /\ d \in Created
  BY DEF Live
<1>2. CASE UNCHANGED vars
  BY <1>2 DEF vars
<1>3. CASE Next
  <2>1. PICK t \in Sessions :
          \/ UNCHANGED rows
          \/ \E e \in Documents : WriteCreate(t, e)
          \/ WriteUpdate(t) \/ WriteMove(t) \/ WriteDelete(t)
    BY <1>3 DEF Next, PlanCreate, PlanUpdate, PlanMove, PlanDelete
  <2>2. ASSUME NEW e \in Documents, WriteCreate(t, e) PROVE rows'[d] = rows[d]
    BY <1>1, <2>2 DEF WriteCreate
  <2>3. CASE WriteUpdate(t) \/ WriteMove(t)
    BY <1>1, <2>3 DEF WriteUpdate, WriteMove, Live, RowsInv, TypeOK
  <2>4. CASE WriteDelete(t)
    BY <1>1, <2>4, DeleteRows
  <2> QED BY <2>1, <2>2, <2>3, <2>4
<1> QED BY <1>2, <1>3

(* A row once deleted is final: no write decided on an older snapshot      *)
(* moves, renames or revives it (deleted_at IS NULL in the UPDATEs).       *)
THEOREM DeletedStayDeleted == Spec => DeletedRowsFinal
<1>1. RowsInv /\ [Next]_vars => [\A d \in Created \ Live : rows'[d] = rows[d]]_vars
  BY DeletedStep
<1> QED BY <1>1, RowsInvariant, PTL DEF Spec, DeletedRowsFinal

-----------------------------------------------------------------------------
(* The project's limit.                                                    *)

(* A transaction that counted on the present rows has counted less than    *)
(* the limit; those that write all the same were under way together.       *)
Creating == {t \in Sessions : plan[t].op = "create"}

LimitInv ==
  /\ \A t \in Creating \ behind : Cardinality(Live) < MaxDocuments
  /\ ~raced => Cardinality(Live) <= MaxDocuments
  /\ Cardinality(Live) + Cardinality(Creating) < MaxDocuments + Cardinality(Sessions)

LEMMA Counts ==
  ASSUME RowsInv
  PROVE  /\ IsFiniteSet(Live) /\ Cardinality(Live) \in Nat
         /\ IsFiniteSet(Creating) /\ Cardinality(Creating) \in Nat
         /\ Cardinality(Creating) <= Cardinality(Sessions) /\ Cardinality(Sessions) \in Nat
<1>1. Live \subseteq Documents /\ Creating \subseteq Sessions
  BY DEF RowsInv, TypeOK, Live, Creating
<1> QED BY <1>1, DocumentsAssumption, SessionsAssumption, FS_Subset, FS_CardinalityType

(* t commits a write that leaves the live documents as they are, or fewer. *)
LEMMA NoneAdded ==
  ASSUME RowsInv, LimitInv, NEW t \in Sessions, NEW op, op # "none", Planned(t, op),
         RowsInv', Live' \subseteq Live
  PROVE  LimitInv'
<1>1. plan' = [plan EXCEPT ![t] = NoPlan] /\ NoPlan.op = "none"
  BY DEF Planned, NoPlan
<1>2. \A u \in Sessions : plan'[u].op = "create" => u # t /\ plan[u] # NoPlan /\ plan[u].op = "create"
  BY <1>1 DEF RowsInv, NoPlan
<1>3. Creating' \subseteq Creating /\ Creating' \ behind' = {}
  BY <1>2 DEF Creating, Planned
<1>4. /\ Cardinality(Creating') <= Cardinality(Creating) /\ Cardinality(Creating') \in Nat
      /\ Cardinality(Live') <= Cardinality(Live) /\ Cardinality(Live') \in Nat
  BY <1>3, Counts, FS_Subset, FS_CardinalityType
<1>5. ~raced' => ~raced
  BY DEF Planned
<1> QED BY <1>3, <1>4, <1>5, Counts, MaxDocumentsAssumption DEF LimitInv

LEMMA CreateCounted ==
  ASSUME RowsInv, LimitInv, NEW t \in Sessions, NEW d \in Documents, WriteCreate(t, d), RowsInv'
  PROVE  LimitInv'
<1>1. Planned(t, "create") /\ t \in Creating /\ d \notin Live
  BY DEF WriteCreate, Planned, Creating, Live
<1>2. plan' = [plan EXCEPT ![t] = NoPlan] /\ NoPlan.op = "none"
  BY <1>1 DEF Planned, NoPlan
<1>3. \A u \in Sessions : plan'[u].op = "create" <=> u # t /\ plan[u].op = "create"
  BY <1>2 DEF RowsInv
<1>4. Creating' = Creating \ {t}
  BY <1>3 DEF Creating
<1>5. \A u \in Sessions : plan'[u].op = "create" => plan[u] # NoPlan
  BY <1>2, <1>3
<1>6. Creating' \ behind' = {}
  BY <1>1, <1>3, <1>5 DEF Creating, Planned
<1>7. Cardinality(Creating') = Cardinality(Creating) - 1
  BY <1>1, <1>4, Counts, FS_RemoveElement
<1>8. Live' \subseteq Live \cup {d}
  BY DEF WriteCreate, Live, Created
<1>9. /\ IsFiniteSet(Live \cup {d})
      /\ Cardinality(Live \cup {d}) = Cardinality(Live) + 1
  BY <1>1, Counts, FS_AddElement
<1>10. Cardinality(Live') <= Cardinality(Live) + 1 /\ Cardinality(Live') \in Nat
  BY <1>8, <1>9, FS_Subset, FS_CardinalityType
<1>11. ~raced' => Cardinality(Live) < MaxDocuments
  BY <1>1 DEF Planned, LimitInv
<1> QED BY <1>6, <1>7, <1>10, <1>11, Counts, MaxDocumentsAssumption DEF LimitInv

(* A transaction begins; a create has counted less than the limit. *)
LEMMA ReadCounted ==
  ASSUME RowsInv, LimitInv, NEW t \in Sessions, NEW p, Reads(t, p),
         p.op = "create" => Cardinality(Live) < MaxDocuments
  PROVE  LimitInv'
<1>1. Live' = Live /\ behind' = behind /\ raced' = raced
  BY DEF Reads, Live, Created
<1>2. plan' = [plan EXCEPT ![t] = p] /\ plan \in [Sessions -> Plans]
  BY DEF Reads, RowsInv
<1>3. Creating' \subseteq Creating \cup (IF p.op = "create" THEN {t} ELSE {})
  BY <1>2 DEF Creating
<1>4. CASE p.op = "create"
  <2>1. Creating' \subseteq Sessions
    BY DEF Creating
  <2>2. Cardinality(Creating') <= Cardinality(Sessions) /\ Cardinality(Creating') \in Nat
    BY <2>1, SessionsAssumption, FS_Subset, FS_CardinalityType
  <2> QED BY <1>1, <1>4, <2>2, Counts, MaxDocumentsAssumption DEF LimitInv
<1>5. CASE p.op # "create"
  <2>1. Creating' \subseteq Creating
    BY <1>3, <1>5
  <2>2. Cardinality(Creating') <= Cardinality(Creating) /\ Cardinality(Creating') \in Nat
    BY <2>1, Counts, FS_Subset, FS_CardinalityType
  <2> QED BY <1>1, <2>1, <2>2, Counts, MaxDocumentsAssumption DEF LimitInv
<1> QED BY <1>4, <1>5

LEMMA InitCounted == Init => LimitInv
<1> SUFFICES ASSUME Init PROVE LimitInv
  OBVIOUS
<1>1. Live = {} /\ Creating = {}
  BY DEF Init, Live, Created, Creating, NoPlan
<1>2. Cardinality(Live) = 0 /\ Cardinality(Creating) = 0
  BY <1>1, FS_EmptySet
<1>3. Cardinality(Sessions) \in Nat /\ Cardinality(Sessions) # 0
  BY SessionsAssumption, FS_CardinalityType, FS_EmptySet
<1> QED BY <1>1, <1>2, <1>3, MaxDocumentsAssumption DEF LimitInv

LEMMA StepCounted == RowsInv /\ RowsInv' /\ LimitInv /\ [Next]_vars => LimitInv'
<1> SUFFICES ASSUME RowsInv, RowsInv', LimitInv, [Next]_vars PROVE LimitInv'
  OBVIOUS
<1>1. CASE UNCHANGED vars
  BY <1>1 DEF vars, LimitInv, Creating, Live, Created
<1>2. CASE Next
  <2>1. PICK t \in Sessions :
          \/ \E s \in Slugs, p \in Created \cup {Root} : PlanCreate(t, s, p)
          \/ \E d \in Created, s \in Slugs, p \in Created \cup {Root} : PlanUpdate(t, d, s, p)
          \/ \E d \in Created, p \in Created \cup {Root} : PlanMove(t, d, p)
          \/ \E d \in Created : PlanDelete(t, d)
          \/ \E d \in Documents : WriteCreate(t, d)
          \/ WriteUpdate(t) \/ WriteMove(t) \/ WriteDelete(t)
    BY <1>2 DEF Next
  <2>2. CASE \E s \in Slugs, p \in Created \cup {Root} : PlanCreate(t, s, p)
    <3>1. (\E p : Reads(t, p)) /\ Cardinality(Live) < MaxDocuments
      BY <2>2, PlansRead
    <3> QED BY <3>1, ReadCounted
  <2>3. CASE \/ \E d \in Created, s \in Slugs, p \in Created \cup {Root} : PlanUpdate(t, d, s, p)
             \/ \E d \in Created, p \in Created \cup {Root} : PlanMove(t, d, p)
             \/ \E d \in Created : PlanDelete(t, d)
    <3>1. ASSUME NEW d \in Created, NEW s \in Slugs, NEW p \in Created \cup {Root},
                 PlanUpdate(t, d, s, p)
          PROVE  \E x : Reads(t, x) /\ x.op # "create"
      <4>1. Reads(t, [op |-> "update", doc |-> d, slug |-> s, parent |-> p,
                      previous |-> rows[d].slug])
        BY <3>1, PlansRead
      <4> QED BY <4>1
    <3>2. ASSUME NEW d \in Created, NEW p \in Created \cup {Root}, PlanMove(t, d, p)
          PROVE  \E x : Reads(t, x) /\ x.op # "create"
      <4>1. Reads(t, [op |-> "move", doc |-> d, parent |-> p])
        BY <3>2, PlansRead
      <4> QED BY <4>1
    <3>3. ASSUME NEW d \in Created, PlanDelete(t, d)
          PROVE  \E x : Reads(t, x) /\ x.op # "create"
      <4>1. Reads(t, [op |-> "delete", docs |-> {d} \cup Below(Parent, d, MaxDepth)])
        BY <3>3, PlansRead
      <4> QED BY <4>1
    <3>4. \E x : Reads(t, x) /\ x.op # "create"
      BY <2>3, <3>1, <3>2, <3>3
    <3> QED BY <3>4, ReadCounted
  <2>4. ASSUME NEW d \in Documents, WriteCreate(t, d) PROVE LimitInv'
    BY <2>4, CreateCounted
  <2>5. CASE WriteUpdate(t) \/ WriteMove(t)
    <3>1. Live' \subseteq Live
      BY <2>5 DEF WriteUpdate, WriteMove, Live, Created, RowsInv, TypeOK
    <3>2. Planned(t, "update") \/ Planned(t, "move")
      BY <2>5 DEF WriteUpdate, WriteMove
    <3> QED BY <3>1, <3>2, NoneAdded
  <2>6. CASE WriteDelete(t)
    <3>1. Live' \subseteq Live
      BY <2>6, DeleteRows DEF Live, RowsInv, TypeOK
    <3>2. Planned(t, "delete")
      BY <2>6 DEF WriteDelete
    <3> QED BY <3>1, <3>2, NoneAdded
  <2> QED BY <2>1, <2>2, <2>3, <2>4, <2>5, <2>6
<1> QED BY <1>1, <1>2

(* Only Creates that counted on an outdated snapshot pass                  *)
(* maxDocumentsPerProject, and by less than the sessions there are.        *)
THEOREM LimitHolds == Spec => []LimitKept
<1>1. RowsInv /\ LimitInv => LimitKept
  BY Counts, MaxDocumentsAssumption DEF LimitInv, LimitKept
<1> QED BY <1>1, InitCounted, StepCounted, RowsInvariant, PTL DEF Spec

-----------------------------------------------------------------------------
(* The redirects.                                                          *)

(* What a transaction whose snapshot is up to date has seen still holds.   *)
AliasInv ==
  /\ ~raced => SlugsAreNotAliases
  /\ \A t \in Sessions \ behind :
       /\ plan[t].op = "create" /\ ~raced => plan[t].slug \notin DOMAIN alias
       /\ plan[t].op = "update" => plan[t].doc \in Live /\ plan[t].previous = rows[plan[t].doc].slug

(* After a commit every other transaction under way is behind. *)
LEMMA CommitsOutdate ==
  ASSUME RowsInv, NEW t \in Sessions, NEW op, Planned(t, op), ~raced' => SlugsAreNotAliases'
  PROVE  AliasInv'
<1>1. \A u \in Sessions : plan'[u] = NoPlan \/ (u # t /\ plan'[u] = plan[u])
  BY DEF Planned, RowsInv
<1>2. \A u \in Sessions \ behind' : plan'[u] = NoPlan
  BY <1>1 DEF Planned
<1> QED BY <1>2 DEF AliasInv, NoPlan

LEMMA StepAliases == RowsInv /\ RowsInv' /\ AliasInv /\ [Next]_vars => AliasInv'
<1> SUFFICES ASSUME RowsInv, RowsInv', AliasInv, [Next]_vars PROVE AliasInv'
  OBVIOUS
<1>1. CASE UNCHANGED vars
  BY <1>1 DEF vars, AliasInv, SlugsAreNotAliases, Live, Created
<1>2. ASSUME NEW t \in Sessions, NEW p, Reads(t, p),
             p.op = "create" => p.slug \notin DOMAIN alias,
             p.op = "update" => p.doc \in Live /\ p.previous = rows[p.doc].slug
      PROVE  AliasInv'
  <2>1. plan' = [plan EXCEPT ![t] = p] /\ plan \in [Sessions -> Plans]
    BY <1>2 DEF Reads, RowsInv
  <2>2. UNCHANGED <<rows, alias, behind, raced>> /\ Live' = Live
    BY <1>2 DEF Reads, Live, Created
  <2> QED BY <1>2, <2>1, <2>2 DEF AliasInv, SlugsAreNotAliases
<1>3. ASSUME NEW t \in Sessions, NEW s \in Slugs, NEW p \in Created \cup {Root}, PlanCreate(t, s, p)
      PROVE  AliasInv'
  <2> DEFINE x == [op |-> "create", slug |-> s, parent |-> p]
  <2>1. Reads(t, x) /\ s \notin DOMAIN alias /\ x.op = "create" /\ x.slug = s
    BY <1>3, PlansRead
  <2> HIDE DEF x
  <2> QED BY <1>2, <2>1
<1>4. ASSUME NEW t \in Sessions, NEW d \in Created, NEW s \in Slugs,
             NEW p \in Created \cup {Root}, PlanUpdate(t, d, s, p)
      PROVE  AliasInv'
  <2> DEFINE x == [op |-> "update", doc |-> d, slug |-> s, parent |-> p, previous |-> rows[d].slug]
  <2>1. Reads(t, x) /\ d \in Live /\ x.op = "update" /\ x.doc = d /\ x.previous = rows[d].slug
    BY <1>4, PlansRead
  <2> HIDE DEF x
  <2> QED BY <1>2, <2>1
<1>5. ASSUME NEW t \in Sessions, NEW d \in Created, NEW p \in Created \cup {Root}, PlanMove(t, d, p)
      PROVE  AliasInv'
  <2> DEFINE x == [op |-> "move", doc |-> d, parent |-> p]
  <2>1. Reads(t, x) /\ x.op = "move"
    BY <1>5, PlansRead
  <2> HIDE DEF x
  <2> QED BY <1>2, <2>1
<1>6. ASSUME NEW t \in Sessions, NEW d \in Created, PlanDelete(t, d)
      PROVE  AliasInv'
  <2> DEFINE x == [op |-> "delete", docs |-> {d} \cup Below(Parent, d, MaxDepth)]
  <2>1. Reads(t, x) /\ x.op = "delete"
    BY <1>6, PlansRead
  <2> HIDE DEF x
  <2> QED BY <1>2, <2>1
<1>7. ASSUME NEW t \in Sessions, NEW d \in Documents, WriteCreate(t, d)
      PROVE  AliasInv'
  <2>1. Planned(t, "create") /\ plan[t].op = "create" /\ UNCHANGED alias
    BY <1>7 DEF WriteCreate, Planned
  <2>2. ~raced' => SlugsAreNotAliases /\ plan[t].slug \notin DOMAIN alias
    BY <2>1 DEF Planned, AliasInv
  <2>3. \A e \in Live' : (e \in Live /\ rows'[e] = rows[e]) \/ rows'[e].slug = plan[t].slug
    BY <1>7 DEF WriteCreate, Live, Created
  <2>4. ~raced' => SlugsAreNotAliases'
    BY <2>1, <2>2, <2>3 DEF SlugsAreNotAliases
  <2> QED BY <2>1, <2>4, CommitsOutdate
<1>8. ASSUME NEW t \in Sessions, WriteMove(t) \/ WriteDelete(t)
      PROVE  AliasInv'
  <2>1. (Planned(t, "move") \/ Planned(t, "delete")) /\ UNCHANGED alias
    BY <1>8 DEF WriteMove, WriteDelete
  <2>2. CASE WriteMove(t)
    <3>1. \A e \in Live' : e \in Live /\ rows'[e].slug = rows[e].slug
      BY <2>2 DEF WriteMove, Live, Created, RowsInv, TypeOK
    <3> QED BY <2>1, <3>1, CommitsOutdate DEF AliasInv, SlugsAreNotAliases, Planned
  <2>3. CASE WriteDelete(t)
    <3>1. \A e \in Live' : e \in Live /\ rows'[e].slug = rows[e].slug
      BY <2>3, DeleteRows DEF Live, RowsInv, TypeOK
    <3> QED BY <2>1, <3>1, CommitsOutdate DEF AliasInv, SlugsAreNotAliases, Planned
  <2> QED BY <1>8, <2>2, <2>3
<1>9. ASSUME NEW t \in Sessions, WriteUpdate(t)
      PROVE  AliasInv'
  <2> DEFINE d == plan[t].doc
             s == plan[t].slug
             previous == plan[t].previous
  <2>1. Planned(t, "update") /\ plan[t].op = "update"
    BY <1>9 DEF WriteUpdate, Planned
  <2>2. CASE UNCHANGED <<rows, alias>>
    <3>1. ~raced' => SlugsAreNotAliases'
      BY <2>1, <2>2 DEF AliasInv, SlugsAreNotAliases, Live, Created, Planned
    <3> QED BY <2>1, <3>1, CommitsOutdate
  <2>3. CASE /\ d \in Live /\ SlugFree(s, d)
             /\ rows' = [rows EXCEPT ![d].parent = plan[t].parent, ![d].slug = s]
             /\ alias' = IF s = previous THEN alias
                         ELSE [u \in (DOMAIN alias \ {s}) \cup {previous} |->
                                 IF u = previous THEN d ELSE alias[u]]
    <3>1. ~raced' => ~raced /\ t \notin behind
      BY <2>1 DEF Planned
    <3>2. ~raced' => SlugsAreNotAliases /\ previous = rows[d].slug
      BY <2>1, <3>1 DEF AliasInv
    <3>3. rows[d].slug \in Slugs /\ d \in Created /\ rows[d] \in Rows
      BY <2>3 DEF RowsInv, TypeOK, Rows, Places, Live
    <3>4. /\ Live' = Live /\ rows'[d].slug = s
          /\ \A e \in Live \ {d} : rows'[e].slug = rows[e].slug
      BY <2>3, <3>3 DEF Live, Created, RowsInv, TypeOK, Rows
    <3>5. \A e \in Live \ {d} : rows[e].slug # s /\ rows[e].slug # rows[d].slug
      BY <2>3, <3>3 DEF SlugFree, RowsInv, SlugsUnique, Live
    <3>6. DOMAIN alias' = IF s = previous THEN DOMAIN alias ELSE (DOMAIN alias \ {s}) \cup {previous}
      BY <2>3
    <3>7. ~raced' => SlugsAreNotAliases'
      BY <2>3, <3>2, <3>4, <3>5, <3>6 DEF SlugsAreNotAliases
    <3> QED BY <2>1, <3>7, CommitsOutdate
  <2> QED BY <1>9, <2>2, <2>3 DEF WriteUpdate
<1> QED BY <1>1, <1>3, <1>4, <1>5, <1>6, <1>7, <1>8, <1>9 DEF Next

LEMMA InitAliases == Init => AliasInv
BY DEF Init, AliasInv, SlugsAreNotAliases, Live, Created, NoPlan

(* As long as no transaction wrote what it validated on an outdated        *)
(* snapshot, no redirect shadows the slug of a live document.              *)
THEOREM SlugsReachable == Spec => [](~raced => SlugsAreNotAliases)
<1>1. AliasInv => (~raced => SlugsAreNotAliases)
  BY DEF AliasInv
<1> QED BY <1>1, InitAliases, StepAliases, RowsInvariant, PTL DEF Spec

-----------------------------------------------------------------------------
(* No cycle.  The parent a transaction validated on an up-to-date snapshot *)
(* leads to the root past the document; so no write of such a transaction  *)
(* closes a trap.                                                          *)
NoTrap == Walks!NoTrap(Parent)

(* The document whose way up a planned parent must not cross; a new one is *)
(* above nothing.                                                          *)
Planted(t) == IF plan[t].op = "create" THEN Root ELSE plan[t].doc

TreeInv ==
  /\ ~raced => NoTrap
  /\ \A t \in Sessions \ behind :
       plan[t].op \in {"create", "update", "move"} =>
         ValidParent(Parent, Planted(t), plan[t].parent, MaxDepth)

LEMMA WalksDocuments == Walks!IsFiniteSet(Documents)
BY DocumentsAssumption DEF IsFiniteSet, Walks!IsFiniteSet

LEMMA WalksSame ==
  ASSUME NEW parent, NEW d, NEW p, NEW levels
  PROVE  /\ Walks!Size = Size
         /\ Walks!Lineage(parent, d) = Lineage(parent, d)
         /\ Walks!ValidParent(parent, d, p, levels) <=> ValidParent(parent, d, p, levels)
         /\ Walks!Below(parent, d, levels) = Below(parent, d, levels)
<1>1. Walks!Size = Size
  BY DEF Walks!Size, Size, Walks!Cardinality, Cardinality, Walks!IsFiniteSet, IsFiniteSet
<1>2. \A e : Walks!Lineage(parent, e) = Lineage(parent, e)
  BY <1>1 DEF Walks!Lineage, Lineage
<1> QED BY <1>1, <1>2 DEF Walks!ValidParent, Walks!Climbs, ValidParent, Climbs, Walks!Below, Below

LEMMA TrapFreeAcyclic == NoTrap => Acyclic
<1> SUFFICES ASSUME NoTrap, NEW d \in Live, NEW n \in 1..Size PROVE Lineage(Parent, d)[n] # d
  BY DEF Acyclic
<1>1. d \in DOMAIN Parent
  BY DEF Parent
<1> QED BY <1>1, WalksSame, Walks!NoReturn, WalksDocuments, RootAssumption,
           MaxDepthAssumption, MaxDocumentsAssumption DEF NoTrap

(* A live document, or a new one, gets the parent that was planned for it. *)
LEMMA PutNoTrap ==
  ASSUME RowsInv, NoTrap, NEW d \in Documents, NEW t \in Sessions, Live' = Live \cup {d},
         \A e \in Live \ {d} : rows'[e].parent = rows[e].parent,
         rows'[d].parent = plan[t].parent, Planted(t) \in {d, Root}, Planted(t) = Root => d \notin Live,
         ValidParent(Parent, Planted(t), plan[t].parent, MaxDepth)
  PROVE  NoTrap'
<1>0. PICK next : next = Parent'
  OBVIOUS
<1>1. /\ DOMAIN Parent = Live /\ DOMAIN next = Live \cup {d} /\ next[d] = plan[t].parent
      /\ \A e \in Live \ {d} : next[e] = Parent[e]
  BY <1>0 DEF Parent
<1>2. Root \notin DOMAIN next
  BY <1>1, RootAssumption DEF RowsInv, TypeOK, Live
<1>3. ValidParent(Parent, d, next[d], MaxDepth)
  BY <1>1 DEF ValidParent, Climbs
<1>4. Walks!NoTrap(next)
  BY <1>1, <1>2, <1>3, WalksSame, Walks!PutNoTrap, WalksDocuments, RootAssumption,
     MaxDepthAssumption, MaxDocumentsAssumption DEF NoTrap
<1> QED BY <1>0, <1>4 DEF NoTrap

LEMMA FewerNoTrap ==
  ASSUME NoTrap, Live' \subseteq Live, \A e \in Live' : rows'[e].parent = rows[e].parent
  PROVE  NoTrap'
<1>0. PICK next : next = Parent'
  OBVIOUS
<1>1. /\ DOMAIN Parent = Live /\ DOMAIN next \subseteq Live
      /\ \A e \in DOMAIN next : next[e] = Parent[e]
  BY <1>0 DEF Parent
<1>2. Walks!NoTrap(next)
  BY <1>1, Walks!FewerNoTrap, WalksDocuments, RootAssumption,
     MaxDepthAssumption, MaxDocumentsAssumption DEF NoTrap
<1> QED BY <1>0, <1>2 DEF NoTrap

(* After a commit every other transaction under way is behind. *)
LEMMA CommitsOutdateTree ==
  ASSUME RowsInv, NEW t \in Sessions, NEW op, Planned(t, op), ~raced' => NoTrap'
  PROVE  TreeInv'
<1>1. \A u \in Sessions : plan'[u] = NoPlan \/ (u # t /\ plan'[u] = plan[u])
  BY DEF Planned, RowsInv
<1>2. \A u \in Sessions \ behind' : plan'[u] = NoPlan
  BY <1>1 DEF Planned
<1> QED BY <1>2 DEF TreeInv, NoPlan

LEMMA ReadTree ==
  ASSUME RowsInv, TreeInv, NEW t \in Sessions, NEW p, Reads(t, p),
         p.op \in {"create", "update", "move"} =>
           ValidParent(Parent, IF p.op = "create" THEN Root ELSE p.doc, p.parent, MaxDepth)
  PROVE  TreeInv'
<1>1. plan' = [plan EXCEPT ![t] = p] /\ plan \in [Sessions -> Plans]
  BY DEF Reads, RowsInv
<1>2. UNCHANGED <<rows, alias, behind, raced>> /\ Parent' = Parent
  BY DEF Reads, Parent, Live, Created
<1>3. NoTrap' = NoTrap
  BY <1>2 DEF NoTrap
<1>4. \A u \in Sessions : IF u = t THEN plan'[u] = p ELSE plan'[u] = plan[u]
  BY <1>1
<1> QED BY <1>2, <1>3, <1>4 DEF TreeInv, Planted

LEMMA StepTree == RowsInv /\ RowsInv' /\ TreeInv /\ [Next]_vars => TreeInv'
<1> SUFFICES ASSUME RowsInv, RowsInv', TreeInv, [Next]_vars PROVE TreeInv'
  OBVIOUS
<1>1. CASE UNCHANGED vars
  <2>1. Parent' = Parent
    BY <1>1 DEF vars, Parent, Live, Created
  <2> QED BY <1>1, <2>1 DEF vars, TreeInv, NoTrap, Planted
<1>2. ASSUME NEW t \in Sessions, NEW s \in Slugs, NEW p \in Created \cup {Root}, PlanCreate(t, s, p)
      PROVE  TreeInv'
  <2> DEFINE x == [op |-> "create", slug |-> s, parent |-> p]
  <2>1. Reads(t, x) /\ x.op = "create" /\ x.parent = p
    BY <1>2, PlansRead
  <2>2. ValidParent(Parent, Root, p, MaxDepth)
    BY <1>2 DEF PlanCreate, ParentAllowed
  <2> HIDE DEF x
  <2> QED BY <2>1, <2>2, ReadTree
<1>3. ASSUME NEW t \in Sessions, NEW d \in Created, NEW s \in Slugs,
             NEW p \in Created \cup {Root}, PlanUpdate(t, d, s, p)
      PROVE  TreeInv'
  <2> DEFINE x == [op |-> "update", doc |-> d, slug |-> s, parent |-> p, previous |-> rows[d].slug]
  <2>1. Reads(t, x) /\ x.op = "update" /\ x.doc = d /\ x.parent = p
    BY <1>3, PlansRead
  <2>2. ValidParent(Parent, d, p, MaxDepth)
    BY <1>3 DEF PlanUpdate, ParentAllowed
  <2> HIDE DEF x
  <2> QED BY <2>1, <2>2, ReadTree
<1>4. ASSUME NEW t \in Sessions, NEW d \in Created, NEW p \in Created \cup {Root}, PlanMove(t, d, p)
      PROVE  TreeInv'
  <2> DEFINE x == [op |-> "move", doc |-> d, parent |-> p]
  <2>1. Reads(t, x) /\ x.op = "move" /\ x.doc = d /\ x.parent = p
    BY <1>4, PlansRead
  <2>2. ValidParent(Parent, d, p, MaxDepth)
    BY <1>4 DEF PlanMove, ParentAllowed
  <2> HIDE DEF x
  <2> QED BY <2>1, <2>2, ReadTree
<1>5. ASSUME NEW t \in Sessions, NEW d \in Created, PlanDelete(t, d)
      PROVE  TreeInv'
  <2> DEFINE x == [op |-> "delete", docs |-> {d} \cup Below(Parent, d, MaxDepth)]
  <2>1. Reads(t, x) /\ x.op = "delete"
    BY <1>5, PlansRead
  <2> HIDE DEF x
  <2> QED BY <2>1, ReadTree
<1>6. ASSUME NEW t \in Sessions, NEW d \in Documents, WriteCreate(t, d)
      PROVE  TreeInv'
  <2>1. Planned(t, "create") /\ plan[t].op = "create" /\ d \notin Created
    BY <1>6 DEF WriteCreate, Planned
  <2>2. CASE UNCHANGED rows
    <3>1. Parent' = Parent
      BY <2>2 DEF Parent, Live, Created
    <3> QED BY <2>1, <3>1, CommitsOutdateTree DEF TreeInv, NoTrap, Planned
  <2>3. CASE rows' = [e \in Created \cup {d} |->
              IF e = d THEN [parent |-> plan[t].parent, slug |-> plan[t].slug, dead |-> FALSE] ELSE rows[e]]
    <3>1. /\ Created' = Created \cup {d} /\ rows'[d].parent = plan[t].parent /\ rows'[d].dead = FALSE
          /\ \A e \in Created : rows'[e] = rows[e]
      BY <2>1, <2>3 DEF Created
    <3>2. Live' = Live \cup {d} /\ d \notin Live /\ \A e \in Live \ {d} : rows'[e].parent = rows[e].parent
      BY <2>1, <3>1 DEF Live
    <3>3. ~raced' => NoTrap /\ ValidParent(Parent, Planted(t), plan[t].parent, MaxDepth)
      BY <2>1 DEF TreeInv, Planned
    <3>4. Planted(t) = Root
      BY <2>1 DEF Planted
    <3>5. ~raced' => NoTrap'
      BY <3>1, <3>2, <3>3, <3>4, PutNoTrap
    <3> QED BY <2>1, <3>5, CommitsOutdateTree
  <2> QED BY <1>6, <2>2, <2>3 DEF WriteCreate
<1>7. ASSUME NEW t \in Sessions, WriteUpdate(t) \/ WriteMove(t)
      PROVE  TreeInv'
  <2>0. PICK d : d = plan[t].doc
    OBVIOUS
  <2>1. (Planned(t, "update") \/ Planned(t, "move")) /\ plan[t].op \in {"update", "move"}
    BY <1>7 DEF WriteUpdate, WriteMove, Planned
  <2>2. ~raced' => NoTrap /\ ValidParent(Parent, Planted(t), plan[t].parent, MaxDepth)
    BY <2>1 DEF TreeInv, Planned
  <2>3. CASE UNCHANGED rows
    <3>1. Parent' = Parent
      BY <2>3 DEF Parent, Live, Created
    <3> QED BY <2>1, <2>2, <3>1, CommitsOutdateTree DEF NoTrap
  <2>4. CASE /\ d \in Live
             /\ \/ rows' = [rows EXCEPT ![d].parent = plan[t].parent, ![d].slug = plan[t].slug]
                \/ rows' = [rows EXCEPT ![d].parent = plan[t].parent]
    <3>1. d \in Created /\ rows[d] \in Rows /\ d \in Documents
      BY <2>4 DEF RowsInv, TypeOK, Live, Rows, Places
    <3>2. /\ Created' = Created /\ rows'[d].parent = plan[t].parent /\ rows'[d].dead = rows[d].dead
          /\ \A e \in Created \ {d} : rows'[e] = rows[e]
      BY <2>4, <3>1 DEF Created, Rows
    <3>3. Live' = Live \cup {d} /\ \A e \in Live \ {d} : rows'[e].parent = rows[e].parent
      BY <2>4, <3>1, <3>2 DEF Live
    <3>4. Planted(t) = d /\ d # Root
      BY <2>0, <2>1, <3>1, RootAssumption DEF Planted
    <3>5. ~raced' => NoTrap'
      BY <2>2, <3>1, <3>2, <3>3, <3>4, PutNoTrap
    <3> QED BY <2>1, <3>5, CommitsOutdateTree
  <2> QED BY <1>7, <2>0, <2>3, <2>4 DEF WriteUpdate, WriteMove
<1>8. ASSUME NEW t \in Sessions, WriteDelete(t)
      PROVE  TreeInv'
  <2>1. Planned(t, "delete")
    BY <1>8 DEF WriteDelete
  <2>2. Live' \subseteq Live /\ \A e \in Live' : rows'[e].parent = rows[e].parent
    BY <1>8, DeleteRows DEF Live, RowsInv, TypeOK
  <2>3. ~raced' => NoTrap
    BY <2>1 DEF TreeInv, Planned
  <2> QED BY <2>1, <2>2, <2>3, FewerNoTrap, CommitsOutdateTree
<1> QED BY <1>1, <1>2, <1>3, <1>4, <1>5, <1>6, <1>7, <1>8 DEF Next

LEMMA InitTree == Init => TreeInv
<1> SUFFICES ASSUME Init PROVE TreeInv
  OBVIOUS
<1>1. DOMAIN Parent = {} /\ \A t \in Sessions : plan[t] = NoPlan
  BY DEF Init, Parent, Live, Created
<1> QED BY <1>1 DEF TreeInv, NoTrap, Walks!NoTrap, Walks!Trap, NoPlan

(* errDocumentCycle: as long as no transaction wrote what it validated on  *)
(* an outdated snapshot, no document is its own ancestor and no redirect   *)
(* hides a live one; and no slug is given twice at all.                    *)
THEOREM SoundWhenNotRaced == Spec => []SoundUnlessRaced
<1>1. RowsInv /\ AliasInv /\ TreeInv => SoundUnlessRaced
  BY TrapFreeAcyclic DEF RowsInv, AliasInv, TreeInv, SoundUnlessRaced
<1> QED BY <1>1, InitAliases, StepAliases, InitTree, StepTree, RowsInvariant, PTL DEF Spec

-----------------------------------------------------------------------------
(* The author's handlers.                                                  *)

LEMMA IndexStep == RowsInv /\ [IndexNext]_<<vars, indexVars>> => [Next]_vars
<1> SUFFICES ASSUME RowsInv, IndexNext, vars' # vars PROVE Next
  BY DEF vars
<1>1. \A d \in Created : rows[d].parent \in Created \cup {Root}
  BY DEF RowsInv, ParentsCreated
<1>2. (\A t \in Sessions, d \in Created : ~ListRemovable(t, d)) /\ \A c \in calls : ~Call(c)
  BY DEF ListRemovable, Call, vars
<1>3. PICK t \in Sessions :
        \/ \E s \in Slugs, p \in Created \cup {Root} : PlanCreate(t, s, p)
        \/ \E d \in Created, s \in Slugs : PlanUpdate(t, d, s, rows[d].parent)
        \/ \E d \in Created, p \in Created \cup {Root} : PlanMove(t, d, p)
        \/ BeginDelete(t)
        \/ \E d \in Documents : CreateDocument(t, d)
        \/ UpdateDocument(t) \/ MoveDocument(t) \/ DeleteDocument(t)
  BY <1>2 DEF IndexNext
<1>4. CASE BeginDelete(t)
  <2>1. PlanDelete(t, removable[t].doc)
    BY <1>4 DEF BeginDelete
  <2>2. removable[t].doc \in Created
    BY <2>1 DEF PlanDelete
  <2> QED BY <2>1, <2>2 DEF Next
<1> QED BY <1>1, <1>3, <1>4 DEF Next, CreateDocument, UpdateDocument, MoveDocument, DeleteDocument

(* The handlers of the author run transactions of the repository and       *)
(* nothing else on the documents: they implement DocumentTransactions.     *)
THEOREM HandlersRunTransactions == IndexSpec => Spec
<1>1. IndexInit => Init
  BY DEF IndexInit
<1>2. IndexSpec => []RowsInv
  BY <1>1, InitRows, IndexStep, StepRows, PTL DEF IndexSpec
<1> QED BY <1>1, <1>2, IndexStep, PTL DEF IndexSpec, Spec

(* So what is proved of the transactions holds of the handlers too: of the *)
(* tree, the project's limit and the redirects.                            *)
THEOREM HandlersSound ==
  IndexSpec => DeletedRowsFinal /\ [](SoundUnlessRaced /\ LimitKept)
BY HandlersRunTransactions, DeletedStayDeleted, LimitHolds, SoundWhenNotRaced, PTL

-----------------------------------------------------------------------------
(* The index.  Between the list of a delete and the delete, what is not    *)
(* adrift stays below the document to be deleted or outside; a transaction *)
(* that has collected what it will delete has all that is below it.        *)

CallsSound ==
  /\ calls \subseteq {"index", "remove"} \X Documents
  /\ \A d \in Documents : /\ <<"index", d>> \in calls => d \in Live
                          /\ <<"remove", d>> \in calls => d \in Created \ Live

HandlersTyped ==
  /\ removable \in [Sessions -> [doc : Places, docs : SUBSET Documents]]
  /\ \A t \in Sessions :
       /\ removable[t].docs \subseteq Created
       /\ plan[t].op = "delete" => removable[t] # Nobody
       /\ plan[t].op \in {"create", "update", "move"} => removable[t] = Nobody

Listed(t) ==
  \A e \in Live \ adrift :
    /\ e \in removable[t].docs <=> e \in WithBelow(removable[t].doc, Size)
    /\ e \in WithBelow(removable[t].doc, Size) => e \in WithBelow(removable[t].doc, MaxDepth)

Collected(t) ==
  \A e \in Live \ adrift :
    /\ e \in removable[t].docs <=> e \in plan[t].docs
    /\ \A c \in plan[t].docs : e \in WithBelow(c, Size) => e \in plan[t].docs

DeletesSound ==
  \A t \in Sessions :
    /\ removable[t] # Nobody /\ plan[t] = NoPlan => Listed(t)
    /\ plan[t].op = "delete" => Collected(t)

IndexInv == IndexFollows /\ CallsSound /\ HandlersTyped /\ DeletesSound

LEMMA BelowFacts ==
  ASSUME RowsInv, NEW d \in Documents
  PROVE  /\ WithBelow(d, Size) \subseteq Created \cup {d}
         /\ WithBelow(d, MaxDepth) \subseteq WithBelow(d, Size)
         /\ \A c \in WithBelow(d, Size) : WithBelow(c, Size) \subseteq WithBelow(d, Size)
<1>1. DOMAIN Parent = Live /\ Live \subseteq Documents /\ Live \subseteq Created
  BY DEF Parent, Live, RowsInv, TypeOK
<1>2. \A c : Walks!Below(Parent, c, Walks!Size) = Below(Parent, c, Size)
  BY WalksSame
<1>3. ASSUME NEW c \in WithBelow(d, Size) PROVE WithBelow(c, Size) \subseteq WithBelow(d, Size)
  <2>1. c \in {d} \cup Walks!Below(Parent, d, Walks!Size)
    BY <1>2 DEF WithBelow
  <2>2. {c} \cup Walks!Below(Parent, c, Walks!Size) \subseteq {d} \cup Walks!Below(Parent, d, Walks!Size)
    BY <1>1, <2>1, Walks!BelowTransitive, WalksDocuments, RootAssumption,
       MaxDepthAssumption, MaxDocumentsAssumption
  <2> QED BY <1>2, <2>2 DEF WithBelow
<1>4. Size \in Nat
  BY DocumentsAssumption, FS_CardinalityType DEF Size
<1>5. Below(Parent, d, MaxDepth) \subseteq Below(Parent, d, Size)
  BY <1>4, MaxDepthAssumption DEF Below
<1>6. Below(Parent, d, Size) \subseteq Created
  BY <1>1 DEF Below
<1> QED BY <1>3, <1>5, <1>6 DEF WithBelow

(* A document below none of those whose link a commit changes. *)
LEMMA StaysBelow ==
  ASSUME NEW X, NEW e, NEW c, NEW levels,
         \A x \in (Live \cup Live') \ X :
           x \in Live /\ x \in Live' /\ rows'[x].parent = rows[x].parent,
         \A x \in X : e \notin WithBelow(x, Size)
  PROVE  e \in WithBelow(c, levels)' <=> e \in WithBelow(c, levels)
<1>0. PICK next : next = Parent'
  OBVIOUS
<1>1. Walks!Changed(Parent, next) \subseteq X
  BY <1>0 DEF Walks!Changed, Parent
<1>2. \A x \in Walks!Changed(Parent, next) : e \notin {x} \cup Walks!Below(Parent, x, Walks!Size)
  BY <1>1, WalksSame DEF WithBelow
<1>3. e \in Walks!Below(next, c, levels) <=> e \in Walks!Below(Parent, c, levels)
  BY <1>2, Walks!StaysPut, WalksDocuments, RootAssumption,
     MaxDepthAssumption, MaxDocumentsAssumption
<1>4. e \in Below(next, c, levels) <=> e \in Below(Parent, c, levels)
  BY <1>3, WalksSame
<1> QED BY <1>0, <1>4 DEF WithBelow

(* What Follow leaves of the calls and the index. *)
LEMMA Followed ==
  ASSUME NEW new, NEW ds, NEW records, Follow(new, ds, records),
         new \subseteq {"index", "remove"} \X Documents,
         \A d \in Documents \ adrift' :
           /\ <<"index", d>> \in new => d \in Live'
           /\ <<"remove", d>> \in new => d \in Created' \ Live',
         \A d \in Created' \ adrift' :
           IF d \in Live' THEN d \in records \/ <<"index", d>> \in new
           ELSE d \notin records \/ <<"remove", d>> \in new
  PROVE  IndexFollows' /\ CallsSound' /\ adrift \subseteq adrift' /\ ds \subseteq adrift'
<1>1. /\ adrift' = adrift \cup ds
      /\ calls' = {c \in new : c[2] \notin adrift'}
      /\ indexed' = records \ adrift'
  BY DEF Follow
<1>2. \A d, k : <<k, d>> \in calls' <=> <<k, d>> \in new /\ d \notin adrift'
  BY <1>1
<1>3. CallsSound'
  BY <1>1, <1>2 DEF CallsSound
<1>4. IndexFollows'
  BY <1>1, <1>2 DEF IndexFollows
<1> QED BY <1>1, <1>3, <1>4

(* The deletes of the other sessions, over a step that leaves what they    *)
(* know of where it is.                                                    *)
LEMMA OthersKept ==
  ASSUME RowsInv, IndexInv, NEW t \in Sessions, adrift \subseteq adrift',
         \A u \in Sessions \ {t} : removable'[u] = removable[u] /\ plan'[u] = plan[u],
         \A u \in Sessions \ {t} : removable[u] # Nobody =>
           \A e \in Live' \ adrift' :
             e \in Live /\ \A c, levels : e \in WithBelow(c, levels)' <=> e \in WithBelow(c, levels)
  PROVE  \A u \in Sessions \ {t} :
           /\ removable'[u] # Nobody /\ plan'[u] = NoPlan => Listed(u)'
           /\ plan'[u].op = "delete" => Collected(u)'
<1> SUFFICES ASSUME NEW u \in Sessions \ {t}
             PROVE  /\ removable'[u] # Nobody /\ plan'[u] = NoPlan => Listed(u)'
                    /\ plan'[u].op = "delete" => Collected(u)'
  OBVIOUS
<1>1. removable'[u] = removable[u] /\ plan'[u] = plan[u]
  OBVIOUS
<1>2. ASSUME removable[u] # Nobody, plan[u] = NoPlan PROVE Listed(u)'
  <2>1. Listed(u)
    BY <1>2 DEF IndexInv, DeletesSound
  <2> QED BY <1>1, <1>2, <2>1 DEF Listed
<1>3. ASSUME plan[u].op = "delete" PROVE Collected(u)'
  <2>1. Collected(u) /\ removable[u] # Nobody
    BY <1>3 DEF IndexInv, DeletesSound, HandlersTyped
  <2> QED BY <1>1, <2>1 DEF Collected
<1> QED BY <1>1, <1>2, <1>3

LEMMA NobodyIs == Nobody.docs = {} /\ Nobody \in [doc : Places, docs : SUBSET Documents]
BY DEF Nobody, Places

(* A handler whose delete is over, or that never had one. *)
LEMMA NobodyWaits ==
  ASSUME NEW t \in Sessions, removable'[t] = Nobody, plan'[t].op # "delete"
  PROVE  /\ removable'[t] # Nobody /\ plan'[t] = NoPlan => Listed(t)'
         /\ plan'[t].op = "delete" => Collected(t)'
OBVIOUS

LEMMA IndexRead ==
  ASSUME RowsInv, IndexInv, NEW t \in Sessions, NEW p, Reads(t, p), removable[t] = Nobody,
         p.op \in {"create", "update", "move"}, UNCHANGED indexVars
  PROVE  IndexInv'
<1>1. /\ plan'[t] = p /\ \A u \in Sessions \ {t} : plan'[u] = plan[u]
      /\ UNCHANGED <<rows, removable, calls, indexed, adrift>>
  BY DEF Reads, RowsInv, indexVars
<1>2. /\ Created' = Created /\ Live' = Live /\ Parent' = Parent
      /\ \A c, levels : WithBelow(c, levels)' = WithBelow(c, levels)
  BY <1>1 DEF Created, Live, Parent, WithBelow, Below
<1>3. IndexFollows' /\ CallsSound' /\ HandlersTyped'
  BY <1>1, <1>2 DEF IndexInv, IndexFollows, CallsSound, HandlersTyped
<1>4. DeletesSound'
  <2>1. ASSUME NEW u \in Sessions \ {t}
        PROVE  /\ removable'[u] # Nobody /\ plan'[u] = NoPlan => Listed(u)'
               /\ plan'[u].op = "delete" => Collected(u)'
    BY <1>1, <1>2, OthersKept
  <2>2. removable'[t] = Nobody /\ plan'[t].op # "delete"
    BY <1>1
  <2> QED BY <2>1, <2>2 DEF DeletesSound
<1> QED BY <1>3, <1>4 DEF IndexInv

LEMMA IndexList ==
  ASSUME RowsInv, IndexInv, NEW t \in Sessions, NEW d \in Created, ListRemovable(t, d)
  PROVE  IndexInv'
<1>1. PICK ds, listed :
        /\ removable' = [removable EXCEPT ![t] = [doc |-> d, docs |-> listed]]
        /\ Follow(calls, ds, indexed)
        /\ \/ listed = WithBelow(d, Size) /\ ds = WithBelow(d, Size) \ WithBelow(d, MaxDepth)
           \/ listed = {d} /\ ds = WithBelow(d, Size) \ {d}
  <2>1. CASE /\ removable' = [removable EXCEPT ![t] = [doc |-> d, docs |-> Removable(d)]]
             /\ Follow(calls, WithBelow(d, Size) \ WithBelow(d, MaxDepth), indexed)
    <3>1. Removable(d) = WithBelow(d, Size)
      BY DEF Removable
    <3> HIDE DEF Follow
    <3> QED BY <2>1, <3>1
  <2>2. CASE /\ removable' = [removable EXCEPT ![t] = [doc |-> d, docs |-> {d}]]
             /\ Follow(calls, WithBelow(d, Size) \ {d}, indexed)
    BY <2>2
  <2> QED BY <2>1, <2>2 DEF ListRemovable
<1>2. plan[t] = NoPlan /\ UNCHANGED vars
  BY DEF ListRemovable
<1>3. /\ Created' = Created /\ Live' = Live /\ Parent' = Parent /\ plan' = plan
      /\ \A c, levels : WithBelow(c, levels)' = WithBelow(c, levels)
  BY <1>2 DEF vars, Created, Live, Parent, WithBelow, Below
<1>4. d \in Documents /\ Created \subseteq Documents /\ d \in WithBelow(d, MaxDepth)
  BY DEF RowsInv, TypeOK, WithBelow
<1>5. IndexFollows' /\ CallsSound' /\ adrift \subseteq adrift' /\ ds \subseteq adrift'
         /\ adrift' = adrift \cup ds
  <2>1. \A e \in Documents \ adrift' :
           /\ <<"index", e>> \in calls => e \in Live'
           /\ <<"remove", e>> \in calls => e \in Created' \ Live'
    BY <1>3 DEF IndexInv, CallsSound
  <2>2. adrift' = adrift \cup ds
    BY <1>1 DEF Follow
  <2>3. \A e \in Created' \ adrift' :
           IF e \in Live' THEN e \in indexed \/ <<"index", e>> \in calls
           ELSE e \notin indexed \/ <<"remove", e>> \in calls
    BY <1>3, <2>2 DEF IndexInv, IndexFollows
  <2>4. calls \subseteq {"index", "remove"} \X Documents
    BY DEF IndexInv, CallsSound
  <2> HIDE DEF Follow
  <2> QED BY <1>1, <2>1, <2>2, <2>3, <2>4, Followed
<1>6. listed \subseteq Created /\ [doc |-> d, docs |-> listed] \in [doc : Places, docs : SUBSET Documents]
  <2>1. listed \subseteq Created
    BY <1>1, <1>4, BelowFacts
  <2> QED BY <1>4, <2>1 DEF Places
<1>7. /\ removable'[t].doc = d /\ removable'[t].docs = listed
      /\ \A u \in Sessions \ {t} : removable'[u] = removable[u]
      /\ removable' \in [Sessions -> [doc : Places, docs : SUBSET Documents]]
  BY <1>1, <1>6 DEF IndexInv, HandlersTyped
<1>8. HandlersTyped'
  <2>1. plan[t].op = "none"
    BY <1>2 DEF NoPlan
  <2> QED BY <1>3, <1>6, <1>7, <2>1 DEF IndexInv, HandlersTyped
<1>9. Listed(t)'
  <2>1. WithBelow(d, MaxDepth) \subseteq WithBelow(d, Size)
    BY <1>4, BelowFacts
  <2> QED BY <1>1, <1>3, <1>4, <1>5, <1>7, <2>1 DEF Listed
<1>10. DeletesSound'
  <2>1. ASSUME NEW u \in Sessions \ {t}
        PROVE  /\ removable'[u] # Nobody /\ plan'[u] = NoPlan => Listed(u)'
               /\ plan'[u].op = "delete" => Collected(u)'
    BY <1>3, <1>5, <1>7, OthersKept
  <2>2. plan'[t].op # "delete"
    BY <1>2, <1>3 DEF NoPlan
  <2> QED BY <1>9, <2>1, <2>2 DEF DeletesSound
<1> QED BY <1>5, <1>8, <1>10 DEF IndexInv

LEMMA IndexBegin ==
  ASSUME RowsInv, IndexInv, NEW t \in Sessions, BeginDelete(t)
  PROVE  IndexInv'
<1>0. PICK d : d = removable[t].doc
  OBVIOUS
<1>1. removable[t] # Nobody /\ PlanDelete(t, d) /\ UNCHANGED indexVars /\ d \in Created
  BY <1>0 DEF BeginDelete, PlanDelete
<1>2. PICK p : p = [op |-> "delete", docs |-> WithBelow(d, MaxDepth)]
  OBVIOUS
<1>3. Reads(t, p) /\ p.op = "delete" /\ p.docs = WithBelow(d, MaxDepth)
  BY <1>1, <1>2, PlansRead DEF WithBelow
<1>4. /\ plan[t] = NoPlan /\ plan'[t] = p /\ \A u \in Sessions \ {t} : plan'[u] = plan[u]
      /\ UNCHANGED <<rows, removable, calls, indexed, adrift>>
  BY <1>1, <1>3 DEF Reads, RowsInv, indexVars
<1>5. /\ Created' = Created /\ Live' = Live /\ Parent' = Parent
      /\ \A c, levels : WithBelow(c, levels)' = WithBelow(c, levels)
  BY <1>4 DEF Created, Live, Parent, WithBelow, Below
<1>6. IndexFollows' /\ CallsSound' /\ HandlersTyped'
  BY <1>1, <1>3, <1>4, <1>5 DEF IndexInv, IndexFollows, CallsSound, HandlersTyped
<1>7. Collected(t)'
  <2>1. Listed(t)
    BY <1>1, <1>4 DEF IndexInv, DeletesSound
  <2>2. d \in Documents
    BY <1>1 DEF RowsInv, TypeOK
  <2>3. /\ WithBelow(d, MaxDepth) \subseteq WithBelow(d, Size)
        /\ \A c \in WithBelow(d, Size) : WithBelow(c, Size) \subseteq WithBelow(d, Size)
    BY <2>2, BelowFacts
  <2> QED BY <1>0, <1>3, <1>4, <1>5, <2>1, <2>3 DEF Listed, Collected
<1>8. DeletesSound'
  <2>1. ASSUME NEW u \in Sessions \ {t}
        PROVE  /\ removable'[u] # Nobody /\ plan'[u] = NoPlan => Listed(u)'
               /\ plan'[u].op = "delete" => Collected(u)'
    BY <1>4, <1>5, OthersKept
  <2>2. plan'[t] # NoPlan
    BY <1>3, <1>4 DEF NoPlan
  <2> QED BY <1>7, <2>1, <2>2 DEF DeletesSound
<1> QED BY <1>6, <1>8 DEF IndexInv

LEMMA PlanDone ==
  ASSUME RowsInv, IndexInv, NEW t \in Sessions, NEW op, Planned(t, op)
  PROVE  /\ plan[t].op = op /\ plan'[t] = NoPlan /\ plan'[t].op = "none"
         /\ \A u \in Sessions \ {t} : plan'[u] = plan[u]
BY DEF RowsInv, Planned, NoPlan

(* A write that was refused or wrote nothing. *)
LEMMA IndexIdle ==
  ASSUME RowsInv, IndexInv, NEW t \in Sessions, NEW op, Planned(t, op), UNCHANGED rows, NEW ds,
         Follow(calls, ds, indexed) \/ UNCHANGED <<calls, indexed, adrift>>,
         removable' = [removable EXCEPT ![t] = Nobody]
  PROVE  IndexInv'
<1>1. /\ plan'[t].op = "none" /\ \A u \in Sessions \ {t} : plan'[u] = plan[u]
  BY PlanDone
<1>2. /\ removable'[t] = Nobody /\ \A u \in Sessions \ {t} : removable'[u] = removable[u]
      /\ removable' \in [Sessions -> [doc : Places, docs : SUBSET Documents]]
  BY NobodyIs DEF IndexInv, HandlersTyped
<1>3. /\ Created' = Created /\ Live' = Live /\ Parent' = Parent
      /\ \A c, levels : WithBelow(c, levels)' = WithBelow(c, levels)
  BY DEF Created, Live, Parent, WithBelow, Below
<1>4. IndexFollows' /\ CallsSound' /\ adrift \subseteq adrift'
  <2>1. CASE UNCHANGED <<calls, indexed, adrift>>
    BY <1>3, <2>1 DEF IndexInv, IndexFollows, CallsSound
  <2>2. CASE Follow(calls, ds, indexed)
    <3>1. \A e \in Documents \ adrift' :
             /\ <<"index", e>> \in calls => e \in Live'
             /\ <<"remove", e>> \in calls => e \in Created' \ Live'
      BY <1>3 DEF IndexInv, CallsSound
    <3>2. \A e \in Created' \ adrift' :
             IF e \in Live' THEN e \in indexed \/ <<"index", e>> \in calls
             ELSE e \notin indexed \/ <<"remove", e>> \in calls
      BY <1>3, <2>2 DEF IndexInv, IndexFollows, Follow
    <3>3. calls \subseteq {"index", "remove"} \X Documents
      BY DEF IndexInv, CallsSound
    <3> HIDE DEF Follow
    <3> QED BY <2>2, <3>1, <3>2, <3>3, Followed
  <2> QED BY <2>1, <2>2
<1>5. HandlersTyped'
  BY <1>1, <1>2, <1>3, NobodyIs DEF IndexInv, HandlersTyped
<1>6. DeletesSound'
  <2>1. ASSUME NEW u \in Sessions \ {t}
        PROVE  /\ removable'[u] # Nobody /\ plan'[u] = NoPlan => Listed(u)'
               /\ plan'[u].op = "delete" => Collected(u)'
    BY <1>1, <1>2, <1>3, <1>4, OthersKept
  <2> QED BY <1>1, <1>2, <2>1 DEF DeletesSound
<1> QED BY <1>4, <1>5, <1>6 DEF IndexInv

(* A document is created, updated or moved, and indexed again unless it    *)
(* was only moved.                                                         *)
LEMMA IndexPut ==
  ASSUME RowsInv, RowsInv', IndexInv, NEW t \in Sessions,
         NEW op \in {"create", "update", "move"}, Planned(t, op), NEW x \in Documents,
         Created' = Created \cup {x}, Live' = Live \cup {x},
         \A e \in Live \ {x} : rows'[e].parent = rows[e].parent,
         NEW new, new = calls \cup {<<"index", x>>} \/ (new = calls /\ x \in Live),
         x \in Live \/ x \notin Created,
         Follow(new, Touched(t, x), indexed), UNCHANGED removable
  PROVE  IndexInv'
<1>1. /\ plan[t].op = op /\ plan'[t].op = "none" /\ \A u \in Sessions \ {t} : plan'[u] = plan[u]
  BY PlanDone
<1>2. removable'[t] = Nobody
  BY <1>1 DEF IndexInv, HandlersTyped
<1>3. adrift' = adrift \cup Touched(t, x)
  BY DEF Follow
<1>4. IndexFollows' /\ CallsSound' /\ adrift \subseteq adrift'
  <2>0. /\ \A e : <<"remove", e>> \in new => <<"remove", e>> \in calls
        /\ \A e : <<"index", e>> \in new => <<"index", e>> \in calls \/ e = x
        /\ calls \subseteq new /\ (<<"index", x>> \in new \/ x \in Live)
    OBVIOUS
  <2>1. ASSUME NEW e \in Documents \ adrift'
        PROVE  /\ <<"index", e>> \in new => e \in Live'
               /\ <<"remove", e>> \in new => e \in Created' \ Live'
    <3>1. /\ <<"index", e>> \in calls => e \in Live
          /\ <<"remove", e>> \in calls => e \in Created \ Live
      BY DEF IndexInv, CallsSound
    <3> QED BY <2>0, <3>1
  <2>2. ASSUME NEW e \in Created' \ adrift'
        PROVE  IF e \in Live' THEN e \in indexed \/ <<"index", e>> \in new
               ELSE e \notin indexed \/ <<"remove", e>> \in new
    <3>1. e \in Created => IF e \in Live THEN e \in indexed \/ <<"index", e>> \in calls
                           ELSE e \notin indexed \/ <<"remove", e>> \in calls
      BY <1>3, <2>2 DEF IndexInv, IndexFollows
    <3>2. Live \subseteq Created
      BY DEF Live
    <3> QED BY <2>0, <2>2, <3>1, <3>2
  <2>3. new \subseteq {"index", "remove"} \X Documents
    BY DEF IndexInv, CallsSound
  <2> HIDE DEF Follow
  <2> QED BY <2>1, <2>2, <2>3, Followed
<1>5. HandlersTyped'
  BY <1>1, <1>2 DEF IndexInv, HandlersTyped
<1>6. ASSUME NEW u \in Sessions \ {t}, removable[u] # Nobody, NEW e \in Live' \ adrift'
      PROVE  e \in Live /\ \A c, levels : e \in WithBelow(c, levels)' <=> e \in WithBelow(c, levels)
  <2>1. Touched(t, x) = WithBelow(x, Size)
    BY <1>6 DEF Touched
  <2>2. e \notin WithBelow(x, Size) /\ x \in WithBelow(x, Size)
    BY <1>3, <1>6, <2>1 DEF WithBelow
  <2>3. PICK X : X = {x}
    OBVIOUS
  <2>4. \A y \in (Live \cup Live') \ X : y \in Live /\ y \in Live' /\ rows'[y].parent = rows[y].parent
    BY <2>3
  <2>5. \A y \in X : e \notin WithBelow(y, Size)
    BY <2>2, <2>3
  <2>6. \A c, levels : e \in WithBelow(c, levels)' <=> e \in WithBelow(c, levels)
    BY <2>4, <2>5, StaysBelow
  <2> QED BY <1>6, <2>2, <2>6
<1>7. DeletesSound'
  <2>1. ASSUME NEW u \in Sessions \ {t}
        PROVE  /\ removable'[u] # Nobody /\ plan'[u] = NoPlan => Listed(u)'
               /\ plan'[u].op = "delete" => Collected(u)'
    BY <1>1, <1>4, <1>6, OthersKept
  <2> QED BY <1>1, <1>2, <2>1 DEF DeletesSound
<1> QED BY <1>4, <1>5, <1>7 DEF IndexInv

LEMMA IndexDelete ==
  ASSUME RowsInv, IndexInv, NEW t \in Sessions, DeleteDocument(t)
  PROVE  IndexInv'
<1>1. /\ WriteDelete(t) /\ Planned(t, "delete")
      /\ removable' = [removable EXCEPT ![t] = Nobody]
  BY DEF DeleteDocument, WriteDelete
<1>2. /\ plan[t].op = "delete" /\ plan'[t].op = "none"
      /\ \A u \in Sessions \ {t} : plan'[u] = plan[u]
  BY <1>1, PlanDone
<1>3. /\ removable'[t] = Nobody /\ \A u \in Sessions \ {t} : removable'[u] = removable[u]
      /\ removable' \in [Sessions -> [doc : Places, docs : SUBSET Documents]]
  BY <1>1, NobodyIs DEF IndexInv, HandlersTyped
<1>4. rows' = [d \in Created |-> IF d \in plan[t].docs THEN [rows[d] EXCEPT !.dead = TRUE] ELSE rows[d]]
  BY <1>1 DEF WriteDelete
<1>5. Created' = Created /\ \A e \in Created : rows'[e].parent = rows[e].parent
  BY <1>1, DeleteRows
<1>6. Live' = Live \ plan[t].docs
  <2>1. \A e \in Created : rows'[e].dead = (rows[e].dead \/ e \in plan[t].docs)
    <3> SUFFICES ASSUME NEW e \in Created PROVE rows'[e].dead = (rows[e].dead \/ e \in plan[t].docs)
      OBVIOUS
    <3>1. rows[e] \in Rows
      BY DEF RowsInv, TypeOK, Rows, Places
    <3>2. e \in plan[t].docs => rows'[e] = [rows[e] EXCEPT !.dead = TRUE]
      BY <1>4
    <3>3. e \notin plan[t].docs => rows'[e] = rows[e]
      BY <1>4
    <3>4. e \in plan[t].docs => rows'[e].dead = TRUE
      BY <3>1, <3>2 DEF Rows
    <3> QED BY <3>1, <3>3, <3>4 DEF Rows
  <2> QED BY <1>5, <2>1 DEF Live
<1>7. Collected(t)
  BY <1>2 DEF IndexInv, DeletesSound
<1>8. CASE plan[t].docs \cap Live = {}
  <2>1. UNCHANGED <<calls, indexed, adrift>>
    BY <1>8 DEF DeleteDocument
  <2>2. Live' = Live /\ Parent' = Parent
    BY <1>5, <1>6, <1>8 DEF Parent, Live
  <2>3. \A c, levels : WithBelow(c, levels)' = WithBelow(c, levels)
    BY <2>2 DEF WithBelow, Below
  <2>4. IndexFollows' /\ CallsSound'
    BY <1>5, <2>1, <2>2 DEF IndexInv, IndexFollows, CallsSound
  <2>5. HandlersTyped'
    BY <1>2, <1>3, <1>5, NobodyIs DEF IndexInv, HandlersTyped
  <2>6. ASSUME NEW u \in Sessions \ {t}
        PROVE  /\ removable'[u] # Nobody /\ plan'[u] = NoPlan => Listed(u)'
               /\ plan'[u].op = "delete" => Collected(u)'
    BY <1>2, <1>3, <2>1, <2>2, <2>3, OthersKept
  <2>7. DeletesSound'
    BY <1>2, <1>3, <2>6 DEF DeletesSound
  <2> QED BY <2>4, <2>5, <2>7 DEF IndexInv
<1>9. CASE plan[t].docs \cap Live # {}
  <2> DEFINE new == calls \cup ({"remove"} \X removable[t].docs)
             ds == {d \in Documents : <<"index", d>> \in calls}
  <2>1. Follow(new, ds, indexed)
    BY <1>9 DEF DeleteDocument
  <2>2. adrift' = adrift \cup ds
    BY <2>1 DEF Follow
  <2>3. removable[t].docs \subseteq Created /\ Created \subseteq Documents /\ Live \subseteq Created
    BY DEF IndexInv, HandlersTyped, RowsInv, TypeOK, Live
  <2>4. \A e \in Live \ adrift : e \in removable[t].docs <=> e \in plan[t].docs
    BY <1>7 DEF Collected
  <2>5. IndexFollows' /\ CallsSound' /\ adrift \subseteq adrift'
    <3>1. new \subseteq {"index", "remove"} \X Documents
      BY <2>3 DEF IndexInv, CallsSound
    <3>2. ASSUME NEW e \in Documents \ adrift'
          PROVE  /\ <<"index", e>> \in new => e \in Live'
                 /\ <<"remove", e>> \in new => e \in Created' \ Live'
      <4>1. <<"index", e>> \notin new
        BY <2>2, <3>2
      <4>2. <<"remove", e>> \in new => <<"remove", e>> \in calls \/ e \in removable[t].docs
        OBVIOUS
      <4> QED BY <1>5, <1>6, <2>2, <2>3, <2>4, <3>2, <4>1, <4>2 DEF IndexInv, CallsSound
    <3>3. ASSUME NEW e \in Created' \ adrift'
          PROVE  IF e \in Live' THEN e \in indexed \/ <<"index", e>> \in new
                 ELSE e \notin indexed \/ <<"remove", e>> \in new
      <4>1. e \in Live /\ e \notin Live' => <<"remove", e>> \in new
        BY <1>6, <2>2, <2>4, <3>3
      <4>2. IF e \in Live THEN e \in indexed \/ <<"index", e>> \in calls
            ELSE e \notin indexed \/ <<"remove", e>> \in calls
        BY <1>5, <2>2, <3>3 DEF IndexInv, IndexFollows
      <4> QED BY <1>6, <4>1, <4>2
    <3> HIDE DEF new, ds, Follow
    <3> QED BY <2>1, <3>1, <3>2, <3>3, Followed
  <2>6. HandlersTyped'
    BY <1>2, <1>3, <1>5, NobodyIs DEF IndexInv, HandlersTyped
  <2>7. ASSUME NEW e \in Live' \ adrift'
        PROVE  e \in Live /\ \A c, levels : e \in WithBelow(c, levels)' <=> e \in WithBelow(c, levels)
    <3>1. e \in Live \ adrift /\ e \notin plan[t].docs
      BY <1>6, <2>5, <2>7
    <3>2. \A c \in plan[t].docs : e \notin WithBelow(c, Size)
      BY <1>7, <3>1 DEF Collected
    <3>3. \A y \in (Live \cup Live') \ plan[t].docs :
             y \in Live /\ y \in Live' /\ rows'[y].parent = rows[y].parent
      BY <1>5, <1>6, <2>3
    <3>4. \A c, levels : e \in WithBelow(c, levels)' <=> e \in WithBelow(c, levels)
      BY <3>2, <3>3, StaysBelow
    <3> QED BY <3>1, <3>4
  <2>8. ASSUME NEW u \in Sessions \ {t}
        PROVE  /\ removable'[u] # Nobody /\ plan'[u] = NoPlan => Listed(u)'
               /\ plan'[u].op = "delete" => Collected(u)'
    BY <1>2, <1>3, <2>5, <2>7, OthersKept
  <2>9. DeletesSound'
    BY <1>2, <1>3, <2>8 DEF DeletesSound
  <2> QED BY <2>5, <2>6, <2>9 DEF IndexInv
<1> QED BY <1>8, <1>9

LEMMA IndexCall ==
  ASSUME RowsInv, IndexInv, NEW c \in calls, Call(c)
  PROVE  IndexInv'
<1>1. UNCHANGED <<vars, removable>>
  BY DEF Call
<1>2. /\ Created' = Created /\ Live' = Live /\ Parent' = Parent
      /\ plan' = plan /\ removable' = removable
      /\ \A d, levels : WithBelow(d, levels)' = WithBelow(d, levels)
  BY <1>1 DEF vars, Created, Live, Parent, WithBelow, Below
<1>3. PICK new : new = calls \ {c}
  OBVIOUS
<1>4. PICK d \in Documents, k \in {"index", "remove"} : c = <<k, d>>
  BY DEF IndexInv, CallsSound
<1>5. new \subseteq {"index", "remove"} \X Documents /\ new \subseteq calls
  BY <1>3 DEF IndexInv, CallsSound
<1>6. ASSUME NEW e \in Documents
      PROVE  /\ <<"index", e>> \in new => e \in Live'
             /\ <<"remove", e>> \in new => e \in Created' \ Live'
             /\ <<"index", e>> \in calls => e \in Live
             /\ <<"remove", e>> \in calls => e \in Created \ Live
  BY <1>2, <1>5 DEF IndexInv, CallsSound
<1>7. /\ k = "index" => d \in Live
      /\ k = "remove" => d \in Created \ Live
  BY <1>4, <1>6
<1>8. \A e, j : <<j, e>> \in calls => <<j, e>> \in new \/ (e = d /\ j = k)
  BY <1>3, <1>4
<1>9. IndexFollows' /\ CallsSound' /\ adrift \subseteq adrift'
  <2>1. CASE Follow(new, {}, IF k = "index" THEN indexed \cup {d} ELSE indexed \ {d})
    <3>1. PICK records : records = IF k = "index" THEN indexed \cup {d} ELSE indexed \ {d}
      OBVIOUS
    <3>2. adrift' = adrift
      BY <2>1 DEF Follow
    <3>3. ASSUME NEW e \in Created' \ adrift'
          PROVE  IF e \in Live' THEN e \in records \/ <<"index", e>> \in new
                 ELSE e \notin records \/ <<"remove", e>> \in new
      <4>1. IF e \in Live THEN e \in indexed \/ <<"index", e>> \in calls
            ELSE e \notin indexed \/ <<"remove", e>> \in calls
        BY <1>2, <3>2, <3>3 DEF IndexInv, IndexFollows
      <4>2. CASE k = "index"
        BY <1>2, <1>7, <1>8, <3>1, <4>1, <4>2
      <4>3. CASE k = "remove"
        BY <1>2, <1>7, <1>8, <3>1, <4>1, <4>3
      <4> QED BY <4>2, <4>3
    <3>4. Follow(new, {}, records)
      BY <2>1, <3>1
    <3> QED BY <1>5, <1>6, <3>3, <3>4, Followed
  <2>2. CASE Follow(new, {d}, indexed)
    <3>1. adrift' = adrift \cup {d}
      BY <2>2 DEF Follow
    <3>2. ASSUME NEW e \in Created' \ adrift'
          PROVE  IF e \in Live' THEN e \in indexed \/ <<"index", e>> \in new
                 ELSE e \notin indexed \/ <<"remove", e>> \in new
      <4>1. IF e \in Live THEN e \in indexed \/ <<"index", e>> \in calls
            ELSE e \notin indexed \/ <<"remove", e>> \in calls
        BY <1>2, <3>1, <3>2 DEF IndexInv, IndexFollows
      <4> QED BY <1>2, <1>8, <3>1, <3>2, <4>1
    <3> QED BY <1>5, <1>6, <2>2, <3>2, Followed
  <2>3. c[1] = k /\ c[2] = d
    BY <1>4
  <2> QED BY <1>3, <2>1, <2>2, <2>3 DEF Call
<1>10. HandlersTyped'
  BY <1>2 DEF IndexInv, HandlersTyped
<1>11. DeletesSound'
  BY <1>2, <1>9 DEF IndexInv, DeletesSound, Listed, Collected
<1> QED BY <1>9, <1>10, <1>11 DEF IndexInv

LEMMA IndexCreate ==
  ASSUME RowsInv, RowsInv', IndexInv, NEW t \in Sessions, NEW d \in Documents, CreateDocument(t, d)
  PROVE  IndexInv'
<1>1. WriteCreate(t, d) /\ Planned(t, "create") /\ d \notin Created /\ UNCHANGED removable
  BY DEF CreateDocument, WriteCreate
<1>2. CASE SlugFree(plan[t].slug, d)
  <2>1. Follow(calls \cup {<<"index", d>>}, Touched(t, d), indexed)
    BY <1>2 DEF CreateDocument
  <2>2. rows' = [e \in Created \cup {d} |->
           IF e = d THEN [parent |-> plan[t].parent, slug |-> plan[t].slug, dead |-> FALSE] ELSE rows[e]]
    BY <1>1, <1>2 DEF WriteCreate
  <2>3. /\ Created' = Created \cup {d} /\ rows'[d].dead = FALSE
        /\ \A e \in Created : rows'[e] = rows[e]
    BY <1>1, <2>2 DEF Created
  <2>4. Live' = Live \cup {d} /\ \A e \in Live \ {d} : rows'[e].parent = rows[e].parent
    BY <1>1, <2>3 DEF Live
  <2>5. PICK new : new = calls \cup {<<"index", d>>}
    OBVIOUS
  <2> HIDE DEF Follow, Touched
  <2> QED BY <1>1, <2>1, <2>3, <2>4, <2>5, IndexPut
<1>3. CASE ~SlugFree(plan[t].slug, d)
  <2>1. UNCHANGED rows /\ UNCHANGED <<calls, indexed, adrift>>
    BY <1>1, <1>3 DEF CreateDocument, WriteCreate
  <2>2. removable' = [removable EXCEPT ![t] = Nobody]
    BY <1>1, PlanDone DEF IndexInv, HandlersTyped
  <2> QED BY <1>1, <2>1, <2>2, IndexIdle
<1> QED BY <1>2, <1>3

LEMMA IndexWrite ==
  ASSUME RowsInv, RowsInv', IndexInv, NEW t \in Sessions, UpdateDocument(t) \/ MoveDocument(t)
  PROVE  IndexInv'
<1>0. PICK d : d = plan[t].doc
  OBVIOUS
<1>1. PICK op \in {"update", "move"} : Planned(t, op)
  BY DEF UpdateDocument, MoveDocument, WriteUpdate, WriteMove
<1>2. plan[t].op = op /\ UNCHANGED removable /\ removable[t] = Nobody
  BY <1>1, PlanDone DEF UpdateDocument, MoveDocument, IndexInv, HandlersTyped
<1>3. removable' = [removable EXCEPT ![t] = Nobody]
  BY <1>2 DEF IndexInv, HandlersTyped
<1>4. ASSUME d \in Live,
             \/ rows' = [rows EXCEPT ![d].parent = plan[t].parent, ![d].slug = plan[t].slug]
             \/ rows' = [rows EXCEPT ![d].parent = plan[t].parent],
             NEW new, new = calls \cup {<<"index", d>>} \/ new = calls,
             Follow(new, Touched(t, d), indexed)
      PROVE  IndexInv'
  <2>1. d \in Created /\ rows[d] \in Rows /\ d \in Documents
    BY <1>4 DEF RowsInv, TypeOK, Live, Rows, Places
  <2>2. /\ Created' = Created /\ rows'[d].dead = rows[d].dead
        /\ \A e \in Created \ {d} : rows'[e] = rows[e]
    BY <1>4, <2>1 DEF Created, Rows
  <2>3. /\ Created' = Created \cup {d} /\ Live' = Live \cup {d}
        /\ \A e \in Live \ {d} : rows'[e].parent = rows[e].parent
    BY <1>4, <2>1, <2>2 DEF Live
  <2> HIDE DEF Follow, Touched
  <2> QED BY <1>1, <1>2, <1>4, <2>1, <2>3, IndexPut
<1>5. CASE UpdateDocument(t)
  <2>1. CASE d \in Live /\ SlugFree(plan[t].slug, d)
    <3>1. Follow(calls \cup {<<"index", d>>}, Touched(t, d), indexed)
      BY <1>0, <1>5, <2>1 DEF UpdateDocument
    <3>2. rows' = [rows EXCEPT ![d].parent = plan[t].parent, ![d].slug = plan[t].slug]
      BY <1>0, <1>5, <2>1 DEF UpdateDocument, WriteUpdate
    <3> QED BY <1>4, <2>1, <3>1, <3>2
  <2>2. CASE ~(d \in Live /\ SlugFree(plan[t].slug, d))
    <3>1. UNCHANGED rows /\ UNCHANGED <<calls, indexed, adrift>>
      BY <1>0, <1>5, <2>2 DEF UpdateDocument, WriteUpdate
    <3> QED BY <1>1, <1>3, <3>1, IndexIdle
  <2> QED BY <2>1, <2>2
<1>6. CASE MoveDocument(t)
  <2>0. Follow(calls, Touched(t, d), indexed)
    BY <1>0, <1>6 DEF MoveDocument
  <2>1. CASE d \in Live
    <3>1. rows' = [rows EXCEPT ![d].parent = plan[t].parent]
      BY <1>0, <1>6, <2>1 DEF MoveDocument, WriteMove
    <3> QED BY <1>4, <2>0, <2>1, <3>1
  <2>2. CASE d \notin Live
    <3>1. UNCHANGED rows
      BY <1>0, <1>6, <2>2 DEF MoveDocument, WriteMove
    <3> QED BY <1>1, <1>3, <2>0, <3>1, IndexIdle
  <2> QED BY <2>1, <2>2
<1> QED BY <1>5, <1>6

LEMMA StepIndex ==
  RowsInv /\ RowsInv' /\ IndexInv /\ [IndexNext]_<<vars, indexVars>> => IndexInv'
<1> SUFFICES ASSUME RowsInv, RowsInv', IndexInv, [IndexNext]_<<vars, indexVars>> PROVE IndexInv'
  OBVIOUS
<1>1. CASE UNCHANGED <<vars, indexVars>>
  <2>1. /\ UNCHANGED <<rows, plan, removable, calls, indexed, adrift>>
        /\ Created' = Created /\ Live' = Live /\ Parent' = Parent
    BY <1>1 DEF vars, indexVars, Created, Live, Parent
  <2>2. \A d, levels : WithBelow(d, levels)' = WithBelow(d, levels)
    BY <2>1 DEF WithBelow, Below
  <2>3. IndexFollows' /\ CallsSound' /\ HandlersTyped'
    BY <2>1 DEF IndexInv, IndexFollows, CallsSound, HandlersTyped
  <2>4. DeletesSound'
    BY <2>1, <2>2 DEF IndexInv, DeletesSound, Listed, Collected
  <2> QED BY <2>3, <2>4 DEF IndexInv
<1>2. ASSUME NEW t \in Sessions, removable[t] = Nobody, UNCHANGED indexVars,
             \/ \E s \in Slugs, p \in Created \cup {Root} : PlanCreate(t, s, p)
             \/ \E d \in Created, s \in Slugs : PlanUpdate(t, d, s, rows[d].parent)
             \/ \E d \in Created, p \in Created \cup {Root} : PlanMove(t, d, p)
      PROVE  IndexInv'
  <2>1. CASE \E s \in Slugs, p \in Created \cup {Root} : PlanCreate(t, s, p)
    <3>1. PICK s \in Slugs, p \in Created \cup {Root} : PlanCreate(t, s, p)
      BY <2>1
    <3> DEFINE x == [op |-> "create", slug |-> s, parent |-> p]
    <3>2. Reads(t, x) /\ x.op = "create"
      BY <3>1, PlansRead
    <3> HIDE DEF x
    <3> QED BY <1>2, <3>2, IndexRead
  <2>2. CASE \E d \in Created, s \in Slugs : PlanUpdate(t, d, s, rows[d].parent)
    <3>1. PICK d \in Created, s \in Slugs : PlanUpdate(t, d, s, rows[d].parent)
      BY <2>2
    <3>2. PICK p : p = rows[d].parent
      OBVIOUS
    <3>3. p \in Created \cup {Root} /\ PlanUpdate(t, d, s, p)
      BY <3>1, <3>2 DEF RowsInv, ParentsCreated
    <3> DEFINE x == [op |-> "update", doc |-> d, slug |-> s, parent |-> p, previous |-> rows[d].slug]
    <3>4. Reads(t, x) /\ x.op = "update"
      BY <3>3, PlansRead
    <3> HIDE DEF x
    <3> QED BY <1>2, <3>4, IndexRead
  <2>3. CASE \E d \in Created, p \in Created \cup {Root} : PlanMove(t, d, p)
    <3>1. PICK d \in Created, p \in Created \cup {Root} : PlanMove(t, d, p)
      BY <2>3
    <3> DEFINE x == [op |-> "move", doc |-> d, parent |-> p]
    <3>2. Reads(t, x) /\ x.op = "move"
      BY <3>1, PlansRead
    <3> HIDE DEF x
    <3> QED BY <1>2, <3>2, IndexRead
  <2> QED BY <1>2, <2>1, <2>2, <2>3
<1> QED BY <1>1, <1>2, IndexList, IndexBegin, IndexCreate, IndexWrite, IndexDelete, IndexCall DEF IndexNext

LEMMA InitIndex == IndexInit => IndexInv
<1> SUFFICES ASSUME IndexInit PROVE IndexInv
  OBVIOUS
<1>1. /\ Created = {} /\ \A t \in Sessions : plan[t] = NoPlan
      /\ removable = [t \in Sessions |-> Nobody] /\ calls = {}
  BY DEF IndexInit, Init, Created
<1>2. HandlersTyped
  BY <1>1, NobodyIs DEF HandlersTyped, NoPlan
<1>3. DeletesSound
  BY <1>1 DEF DeletesSound, NoPlan
<1> QED BY <1>1, <1>2, <1>3 DEF IndexInv, IndexFollows, CallsSound

(* deleteAuthorDocument: though the documents to take out of the index are *)
(* read before the delete and in another transaction, and index calls run  *)
(* in any order, search finds the documents there are, except the ones     *)
(* IndexFollows lists.                                                     *)
THEOREM IndexKeepsUp == IndexSpec => []IndexFollows
<1>1. IndexSpec => []RowsInv
  BY HandlersRunTransactions, RowsInvariant, PTL
<1>2. IndexInv => IndexFollows
  BY DEF IndexInv
<1> QED BY <1>1, <1>2, InitIndex, StepIndex, PTL DEF IndexSpec
=============================================================================
