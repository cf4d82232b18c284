------------------------- MODULE DocumentTree_proofs -------------------------
(***************************************************************************)
(* Proofs about DocumentTree, for any documents, slugs and limits.         *)
(*                                                                         *)
(* The walks of DocumentForest are recursive functions.  The first part    *)
(* shows by induction, as a least counterexample, what they compute and    *)
(* that they find the root exactly where no set of documents is a trap: a  *)
(* set every member of which has its parent in the set.  The second part   *)
(* shows that no operation makes a trap, and that slugs and their aliases  *)
(* stay sound whatever the tree is.                                        *)
(***************************************************************************)
EXTENDS DocumentTree, FiniteSetTheorems, TLAPS

-----------------------------------------------------------------------------
(* Walks in a forest *)

(* Induction.  A set of natural numbers has a least member: its members up *)
(* to one of them are finitely many, and a finite set is well-founded.     *)
LEMMA LeastNat ==
  ASSUME NEW D, D \subseteq Nat, D # {}
  PROVE  \E n \in D : \A m \in D : n <= m
<1> DEFINE UpTo(n) == {m \in D : m <= n}
<1>0. PICK T : T = {UpTo(n) : n \in D}
  OBVIOUS
<1>1. T \subseteq FiniteSubsetsOf(D) /\ T # {}
  <2>1. ASSUME NEW n \in D PROVE UpTo(n) \subseteq D /\ IsFiniteSet(UpTo(n))
    <3>1. n \in Nat /\ UpTo(n) \in SUBSET Nat /\ \A m \in UpTo(n) : m <= n
      OBVIOUS
    <3> QED BY ONLY <3>1, FS_BoundedSetOfNaturals
  <2> HIDE DEF UpTo
  <2> QED BY <1>0, <2>1 DEF FiniteSubsetsOf
<1>2. PICK X \in T : \A Y \in T : ~ (<<Y, X>> \in StrictSubsetOrdering(D))
  <2>1. IsWellFoundedOn(StrictSubsetOrdering(D), FiniteSubsetsOf(D))
    BY FS_StrictSubsetOrderingWellFounded
  <2> QED BY ONLY <1>1, <2>1, WFMin
<1>3. PICK n \in D : X = UpTo(n)
  BY <1>0
<1>4. ASSUME NEW m \in D, ~(n <= m) PROVE FALSE
  <2>1. n \in Nat /\ m \in Nat
    OBVIOUS
  <2>2. UpTo(m) \subseteq UpTo(n)
    <3> SUFFICES ASSUME NEW x \in D, x <= m PROVE x <= n
      OBVIOUS
    <3> x \in Nat
      OBVIOUS
    <3> QED BY <1>4, <2>1
  <2>3. n \notin UpTo(m) /\ n \in UpTo(n)
    BY <1>4, <2>1
  <2>4. UpTo(m) \in T /\ UpTo(m) \subseteq D /\ UpTo(n) \subseteq D
    BY <1>0, <1>4
  <2> HIDE DEF UpTo
  <2> QED BY <1>2, <1>3, <2>2, <2>3, <2>4 DEF StrictSubsetOrdering
<1> QED BY <1>4

(* A set of numbers that holds 0, and each number up to m that follows one *)
(* it holds, holds all up to m.                                            *)
LEMMA Ascend ==
  ASSUME NEW m \in Nat, NEW H, 0 \in H, \A n \in 1..m : n - 1 \in H => n \in H
  PROVE  \A n \in 0..m : n \in H
<1> SUFFICES ASSUME {n \in 0..m : n \notin H} # {} PROVE FALSE
  OBVIOUS
<1>1. PICK n \in 0..m : n \notin H /\ \A k \in 0..m : k \notin H => n <= k
  <2> DEFINE D == {n \in 0..m : n \notin H}
  <2>1. D \subseteq Nat /\ D # {}
    OBVIOUS
  <2>2. PICK n \in D : \A k \in D : n <= k
    BY ONLY <2>1, LeastNat
  <2> QED BY <2>2
<1>2. n \in 1..m /\ n - 1 \in 0..m /\ ~(n <= n - 1)
  BY <1>1
<1> QED BY <1>1, <1>2

Up(parent, e) == IF e \in DOMAIN parent THEN parent[e] ELSE e

(* The recursive function of Lineage satisfies its equations.              *)
LEMMA LineageIs ==
  ASSUME NEW parent, NEW d
  PROVE  /\ Size \in Nat
         /\ Lineage(parent, d)[0] = d
         /\ \A n \in 1..Size : Lineage(parent, d)[n] = Up(parent, Lineage(parent, d)[n - 1])
<1> DEFINE F(f, n) == IF n = 0 THEN d ELSE IF f[n - 1] \in DOMAIN parent THEN parent[f[n - 1]] ELSE f[n - 1]
<1> DEFINE H == {m \in Nat : \E f : f = [n \in 0..m |-> F(f, n)]}
<1>0. Size \in Nat
  BY DocumentsAssumption, FS_CardinalityType DEF Size
<1>1. Size \in H
  <2>1. 0 \in H
    <3> DEFINE g == [n \in 0..0 |-> d]
    <3>1. g = [n \in 0..0 |-> F(g, n)]
      OBVIOUS
    <3> QED BY <3>1
  <2>2. ASSUME NEW m \in 1..Size, m - 1 \in H PROVE m \in H
    <3>1. PICK f : f = [n \in 0..m - 1 |-> F(f, n)]
      BY <2>2
    <3>0. m \in Nat /\ m - 1 \in Nat
      BY <1>0
    <3>2. PICK x : x = F(f, m)
      OBVIOUS
    <3> DEFINE g == [n \in 0..m |-> IF n = m THEN x ELSE f[n]]
    <3>3. ASSUME NEW n \in 0..m PROVE g[n] = F(g, n)
      <4>1. CASE n = m
        <5>1. m # 0 /\ m - 1 \in 0..m /\ m - 1 # m
          BY <3>0
        <5>2. g[m - 1] = f[m - 1] /\ g[m] = x
          BY <5>1, <3>0
        <5> HIDE DEF g
        <5> QED BY <3>2, <4>1, <5>1, <5>2
      <4>2. CASE n # m
        <5>1. n \in 0..m - 1 /\ g[n] = f[n]
          BY <3>0, <4>2
        <5>2. f[n] = F(f, n)
          BY <3>1, <5>1
        <5>3. n # 0 => n - 1 \in 0..m /\ n - 1 # m /\ g[n - 1] = f[n - 1]
          BY <3>0, <5>1
        <5> HIDE DEF g
        <5> QED BY <5>1, <5>2, <5>3
      <4> QED BY <4>1, <4>2
    <3>4. g = [n \in 0..m |-> F(g, n)]
      <4>1. g = [n \in 0..m |-> g[n]]
        OBVIOUS
      <4> HIDE DEF g, F
      <4> QED BY <3>3, <4>1
    <3> HIDE DEF g, F
    <3> QED BY <3>0, <3>4
  <2> HIDE DEF H
  <2> QED BY <1>0, <2>1, <2>2, Ascend
<1> DEFINE L == CHOOSE f : f = [n \in 0..Size |-> F(f, n)]
<1>2. L = [n \in 0..Size |-> F(L, n)]
  <2> HIDE DEF F
  <2> QED BY <1>1
<1>3. Lineage(parent, d) = L
  BY DEF Lineage
<1> HIDE DEF L
<1> QED BY <1>0, <1>2, <1>3 DEF Up

(* A set of documents that no walk upwards leaves. *)
Trap(parent, S) ==
  S # {} /\ S \subseteq DOMAIN parent /\ \A e \in S : parent[e] \in S

NoTrap(parent) == \A S \in SUBSET DOMAIN parent : ~Trap(parent, S)

Closed(parent) == \A e \in DOMAIN parent : parent[e] \in DOMAIN parent \cup {Root}

(* One level up, the lineage of a document is that of its parent.          *)
LEMMA LineageShift ==
  ASSUME NEW parent, NEW d \in DOMAIN parent, NEW n \in 1..Size
  PROVE  Lineage(parent, d)[n] = Lineage(parent, parent[d])[n - 1]
<1> DEFINE L == Lineage(parent, d)
           M == Lineage(parent, parent[d])
           H == {k \in 0..Size - 1 : L[k + 1] = M[k]}
<1>0. Size \in Nat /\ Size - 1 \in Nat
  BY LineageIs
<1>1. /\ L[0] = d /\ \A k \in 1..Size : L[k] = Up(parent, L[k - 1])
      /\ M[0] = parent[d] /\ \A k \in 1..Size : M[k] = Up(parent, M[k - 1])
  BY LineageIs
<1> HIDE DEF L, M
<1>2. 0 \in H
  <2>1. 1 \in 1..Size /\ 0 + 1 = 1 /\ 1 - 1 = 0
    BY <1>0
  <2>2. L[1] = Up(parent, L[0])
    BY <1>1, <2>1
  <2> QED BY <1>0, <1>1, <2>1, <2>2 DEF Up
<1>3. ASSUME NEW k \in 1..Size - 1, k - 1 \in H PROVE k \in H
  <2>1. /\ k \in 1..Size /\ k + 1 \in 1..Size /\ k \in 0..Size - 1
        /\ (k - 1) + 1 = k /\ (k + 1) - 1 = k
    BY <1>0
  <2>2. L[k] = M[k - 1]
    BY <1>3, <2>1
  <2>3. L[k + 1] = Up(parent, L[k]) /\ M[k] = Up(parent, M[k - 1])
    BY <1>1, <2>1
  <2> QED BY <2>1, <2>2, <2>3
<1>4. n - 1 \in 0..Size - 1 /\ (n - 1) + 1 = n
  BY <1>0
<1>5. n - 1 \in H
  <2> HIDE DEF H
  <2> QED BY <1>0, <1>2, <1>3, <1>4, Ascend
<1> QED BY <1>4, <1>5 DEF L, M

(* A walk up from within a trap stays there. *)
LEMMA Trapped ==
  ASSUME NEW parent, NEW S, NEW d \in S, NEW m \in 0..Size,
         \A k \in 0..m - 1 : Lineage(parent, d)[k] \in S => Lineage(parent, d)[k] \in DOMAIN parent /\ parent[Lineage(parent, d)[k]] \in S
  PROVE  \A k \in 0..m : Lineage(parent, d)[k] \in S
<1> DEFINE L == Lineage(parent, d)
           H == {k \in 0..m : L[k] \in S}
<1>0. Size \in Nat /\ m \in Nat
  BY LineageIs
<1>1. L[0] = d /\ \A k \in 1..Size : L[k] = Up(parent, L[k - 1])
  BY LineageIs
<1>2. \A k \in 0..m - 1 : L[k] \in S => L[k] \in DOMAIN parent /\ parent[L[k]] \in S
  OBVIOUS
<1> HIDE DEF L
<1>3. 0 \in H
  BY <1>0, <1>1
<1>4. ASSUME NEW k \in 1..m, k - 1 \in H PROVE k \in H
  <2>1. k \in 1..Size /\ k \in 0..m /\ k - 1 \in 0..m - 1
    BY <1>0
  <2>2. L[k] = Up(parent, L[k - 1]) /\ L[k - 1] \in S
    BY <1>1, <1>4, <2>1
  <2> QED BY <1>2, <2>1, <2>2 DEF Up
<1>5. \A k \in 0..m : k \in H
  <2> HIDE DEF H
  <2> QED BY <1>0, <1>3, <1>4, Ascend
<1> QED BY <1>5 DEF L

(* A walk that comes back to where it was is in a trap. *)
LEMMA Loop ==
  ASSUME NEW parent, NEW d, NEW i \in 0..Size, NEW j \in 0..Size, i < j,
         Lineage(parent, d)[i] = Lineage(parent, d)[j],
         \A k \in i..j - 1 : Lineage(parent, d)[k] \in DOMAIN parent
  PROVE  ~NoTrap(parent)
<1> DEFINE L == Lineage(parent, d)
           S == {L[k] : k \in i..j - 1}
<1>0. Size \in Nat /\ \A k \in 1..Size : L[k] = Up(parent, L[k - 1])
  BY LineageIs
<1>1. L[i] = L[j] /\ \A k \in i..j - 1 : L[k] \in DOMAIN parent
  OBVIOUS
<1> HIDE DEF L
<1>2. S # {} /\ S \subseteq DOMAIN parent
  BY <1>0, <1>1
<1>3. ASSUME NEW k \in i..j - 1 PROVE parent[L[k]] \in S
  <2>1. k + 1 \in 1..Size /\ (k + 1) - 1 = k /\ (k + 1 = j \/ k + 1 \in i..j - 1)
    BY <1>0
  <2>2. L[k + 1] = parent[L[k]]
    BY <1>0, <1>1, <2>1 DEF Up
  <2>3. i \in i..j - 1
    BY <1>0
  <2> QED BY <1>1, <2>1, <2>2, <2>3
<1>4. Trap(parent, S)
  BY <1>2, <1>3 DEF Trap
<1> QED BY <1>2, <1>4 DEF NoTrap

(* The documents of a walk are all different, so it is no longer than      *)
(* there are documents.                                                    *)
LEMMA WalkBound ==
  ASSUME NEW parent, DOMAIN parent \subseteq Documents, NoTrap(parent), NEW d, NEW m \in 0..Size,
         \A k \in 0..m : Lineage(parent, d)[k] \in DOMAIN parent
  PROVE  m + 1 <= Size
<1> DEFINE L == Lineage(parent, d)
<1>0. Size \in Nat /\ m \in Nat
  BY LineageIs
<1>1. PICK f : f = [k \in 0..m |-> L[k]]
  OBVIOUS
<1>2. f \in [0..m -> Documents]
  BY <1>1
<1>3. SUFFICES ASSUME ~(m + 1 <= Size) PROVE FALSE
  OBVIOUS
<1>4. IsFiniteSet(0..m) /\ Cardinality(0..m) = m + 1
  <2>1. 0 \in Int /\ m \in Int /\ ~(0 > m) /\ m - 0 + 1 = m + 1
    BY <1>0
  <2> QED BY <2>1, FS_Interval
<1>5. Cardinality(Documents) < Cardinality(0..m)
  BY <1>0, <1>3, <1>4 DEF Size
<1>6. PICK i, j \in 0..m : i # j /\ f[i] = f[j]
  BY <1>2, <1>4, <1>5, DocumentsAssumption, FS_PigeonHole
<1>7. L[i] = L[j] /\ i \in 0..Size /\ j \in 0..Size
  BY <1>0, <1>1, <1>6
<1>8. ASSUME NEW a \in 0..m, NEW b \in 0..m, a < b PROVE \A k \in a..b - 1 : k \in 0..m
  BY <1>0
<1>9. i < j \/ j < i
  BY <1>0, <1>6
<1>10. CASE i < j
  BY <1>7, <1>8, <1>10, Loop
<1>11. CASE j < i
  BY <1>7, <1>8, <1>11, Loop
<1> QED BY <1>9, <1>10, <1>11

(* Where every parent is live or the root and there is no trap, every      *)
(* document leads to the root, and conversely.                             *)
LEMMA ForestIs ==
  ASSUME NEW parent, DOMAIN parent \subseteq Documents, Closed(parent), NoTrap(parent), NEW d \in DOMAIN parent
  PROVE  Rooted(parent, d)
<1> DEFINE L == Lineage(parent, d)
           D == {k \in 0..Size : L[k] \notin DOMAIN parent}
<1>0. /\ Size \in Nat /\ L[0] = d
      /\ \A k \in 1..Size : L[k] = Up(parent, L[k - 1])
  BY LineageIs
<1>1. D # {}
  <2> SUFFICES ASSUME \A k \in 0..Size : L[k] \in DOMAIN parent PROVE FALSE
    OBVIOUS
  <2>1. Size \in 0..Size /\ ~(Size + 1 <= Size)
    BY <1>0
  <2> QED BY <2>1, WalkBound
<1> HIDE DEF L
<1>2. PICK n \in D : \A k \in D : n <= k
  <2>1. D \subseteq Nat
    OBVIOUS
  <2> HIDE DEF D
  <2> QED BY <1>1, <2>1, LeastNat
<1>3. n \in 1..Size /\ n - 1 \in 0..n - 1
  BY <1>0, <1>2
<1>4. \A k \in 0..n - 1 : L[k] \in DOMAIN parent
  <2> SUFFICES ASSUME NEW k \in 0..n - 1, L[k] \notin DOMAIN parent PROVE FALSE
    OBVIOUS
  <2>1. k \in D /\ ~(n <= k)
    BY <1>0, <1>3
  <2> QED BY <1>2, <2>1
<1>5. L[n] = Root
  <2>1. L[n] = parent[L[n - 1]] /\ L[n] \notin DOMAIN parent
    BY <1>0, <1>2, <1>3, <1>4 DEF Up
  <2> QED BY <1>3, <1>4, <2>1 DEF Closed
<1>6. Root \notin DOMAIN parent /\ n <= Size
  BY <1>0, <1>3, RootAssumption
<1>7. \A k \in 0..n - 1 : L[k] \in DOMAIN parent \ {Root}
  BY <1>4, <1>6
<1> QED BY <1>3, <1>5, <1>6, <1>7 DEF Rooted, Climbs, L

(* A walk that has left the live documents stands still. *)
LEMMA Stuck ==
  ASSUME NEW parent, NEW d, NEW k \in 0..Size, Lineage(parent, d)[k] \notin DOMAIN parent
  PROVE  \A n \in k..Size : Lineage(parent, d)[n] = Lineage(parent, d)[k]
<1> DEFINE L == Lineage(parent, d)
<1>0. Size \in Nat /\ \A i \in 1..Size : L[i] = Up(parent, L[i - 1])
  BY LineageIs
<1>1. L[k] \notin DOMAIN parent
  OBVIOUS
<1> HIDE DEF L
<1> DEFINE H == {i \in 0..Size - k : L[k + i] = L[k]}
<1>2. Size - k \in Nat /\ k + 0 = k
  BY <1>0
<1>3. 0 \in H
  BY <1>2
<1>4. ASSUME NEW i \in 1..Size - k, i - 1 \in H PROVE i \in H
  <2>1. k + i \in 1..Size /\ (k + i) - 1 = k + (i - 1) /\ i \in 0..Size - k
    BY <1>0
  <2>2. L[k + i] = Up(parent, L[k + (i - 1)])
    BY <1>0, <2>1
  <2> QED BY <1>1, <1>4, <2>1, <2>2 DEF Up
<1>5. \A i \in 0..Size - k : i \in H
  <2> HIDE DEF H
  <2> QED BY <1>2, <1>3, <1>4, Ascend
<1>6. SUFFICES ASSUME NEW n \in k..Size PROVE L[n] = L[k]
  BY DEF L
<1>7. n - k \in 0..Size - k /\ k + (n - k) = n
  BY <1>0
<1> QED BY <1>5, <1>7

(* ... and then no document is an ancestor of itself. *)
LEMMA NoReturn ==
  ASSUME NEW parent, NoTrap(parent), NEW d \in DOMAIN parent, NEW n \in 1..Size
  PROVE  Lineage(parent, d)[n] # d
<1> DEFINE L == Lineage(parent, d)
<1>0. Size \in Nat /\ L[0] = d
  BY LineageIs
<1>1. SUFFICES ASSUME L[n] = d PROVE FALSE
  OBVIOUS
<1>2. CASE \A k \in 0..n - 1 : L[k] \in DOMAIN parent
  <2>1. 0 \in 0..Size /\ n \in 0..Size /\ 0 < n /\ L[0] = L[n]
    BY <1>0, <1>1
  <2> QED BY <1>2, <2>1, Loop
<1>3. CASE \E k \in 0..n - 1 : L[k] \notin DOMAIN parent
  <2>1. PICK k \in 0..n - 1 : L[k] \notin DOMAIN parent
    BY <1>3
  <2>2. k \in 0..Size /\ n \in k..Size
    BY <1>0
  <2>3. L[n] = L[k]
    BY <2>1, <2>2, Stuck
  <2> QED BY <1>1, <2>1, <2>3
<1> QED BY <1>2, <1>3

(* A document that is put, under a parent whose way up leads elsewhere,    *)
(* leaves that way as it was.                                              *)
LEMMA ClimbsKept ==
  ASSUME NEW parent, NEW next, NEW d, NEW p, NEW levels, Climbs(parent, d, p, levels),
         \A e \in DOMAIN parent \ {d} : e \in DOMAIN next /\ next[e] = parent[e]
  PROVE  Climbs(next, d, p, levels)
<1> DEFINE L == Lineage(parent, p)
           M == Lineage(next, p)
<1>0. /\ Size \in Nat
      /\ L[0] = p /\ \A k \in 1..Size : L[k] = Up(parent, L[k - 1])
      /\ M[0] = p /\ \A k \in 1..Size : M[k] = Up(next, M[k - 1])
  BY LineageIs
<1>1. PICK n \in 1..levels :
        /\ n <= Size /\ L[n] = Root
        /\ \A k \in 0..n - 1 : L[k] \in DOMAIN parent \ {d}
  BY DEF Climbs
<1> HIDE DEF L, M
<1> DEFINE H == {k \in 0..n : M[k] = L[k]}
<1>2. n \in Nat /\ n \in 0..n
  BY <1>0, <1>1
<1>3. 0 \in H
  BY <1>0, <1>2
<1>4. ASSUME NEW k \in 1..n, k - 1 \in H PROVE k \in H
  <2>1. k \in 1..Size /\ k \in 0..n /\ k - 1 \in 0..n - 1
    BY <1>0, <1>1, <1>2
  <2>2. M[k - 1] = L[k - 1] /\ L[k - 1] \in DOMAIN parent \ {d}
    BY <1>1, <1>4, <2>1
  <2>3. L[k] = Up(parent, L[k - 1]) /\ M[k] = Up(next, M[k - 1])
    BY <1>0, <2>1
  <2> QED BY <2>1, <2>2, <2>3 DEF Up
<1>5. \A k \in 0..n : M[k] = L[k]
  <2>1. \A k \in 0..n : k \in H
    <3> HIDE DEF H
    <3> QED BY <1>2, <1>3, <1>4, Ascend
  <2> QED BY <2>1
<1>6. n <= Size /\ M[n] = Root /\ \A k \in 0..n - 1 : M[k] \in DOMAIN next \ {d}
  <2>1. \A k \in 0..n - 1 : k \in 0..n
    BY <1>2
  <2> QED BY <1>1, <1>2, <1>5, <2>1
<1> QED BY <1>1, <1>6 DEF Climbs, M

(* validateParentLocked: no trap is made where the new parent is the root  *)
(* or leads to it past the document.                                       *)
LEMMA PutNoTrap ==
  ASSUME NEW parent, NEW next, NEW d, NEW levels, NoTrap(parent),
         DOMAIN next = DOMAIN parent \cup {d}, Root \notin DOMAIN next,
         \A e \in DOMAIN parent \ {d} : next[e] = parent[e],
         ValidParent(parent, d, next[d], levels)
  PROVE  NoTrap(next)
<1> SUFFICES ASSUME NEW S \in SUBSET DOMAIN next, Trap(next, S) PROVE FALSE
  BY DEF NoTrap
<1>1. S # {} /\ \A e \in S : next[e] \in S
  BY DEF Trap
<1>2. CASE d \notin S
  <2>1. Trap(parent, S)
    BY <1>1, <1>2 DEF Trap
  <2> QED BY <2>1 DEF NoTrap, Trap
<1>3. CASE d \in S
  <2>1. next[d] \in S /\ next[d] # Root
    BY <1>1, <1>3
  <2>2. Climbs(next, d, next[d], levels)
    <3>1. Climbs(parent, d, next[d], levels)
      BY <2>1 DEF ValidParent
    <3> QED BY <3>1, ClimbsKept
  <2>3. PICK n \in 1..levels : n <= Size /\ Lineage(next, next[d])[n] = Root
    BY <2>2 DEF Climbs
  <2>4. n \in 0..Size /\ n \in 0..n
    BY <2>3, LineageIs
  <2>5. Lineage(next, next[d])[n] \in S
    BY <1>1, <2>1, <2>4, Trapped
  <2> QED BY <2>3, <2>5
<1> QED BY <1>2, <1>3

(* Nor is one made by removing documents. *)
LEMMA FewerNoTrap ==
  ASSUME NEW parent, NEW next, NoTrap(parent), DOMAIN next \subseteq DOMAIN parent,
         \A e \in DOMAIN next : next[e] = parent[e]
  PROVE  NoTrap(next)
BY DEF NoTrap, Trap

(* buildDocumentTree descends to a document put under a parent that leads  *)
(* to the root in one level less.                                          *)
LEMMA PutShown ==
  ASSUME NEW parent, DOMAIN parent \subseteq Documents, NoTrap(parent), NEW d \in DOMAIN parent,
         NEW levels \in Nat, ValidParent(parent, d, parent[d], levels)
  PROVE  d \in Below(parent, Root, levels + 1)
<1> DEFINE L == Lineage(parent, d)
           M == Lineage(parent, parent[d])
<1>0. Size \in Nat /\ L[0] = d /\ \A k \in 1..Size : L[k] = M[k - 1]
  BY LineageIs, LineageShift
<1>1. 0 + 1 <= Size
  <2>1. 0 \in 0..Size /\ \A k \in 0..0 : k = 0
    BY <1>0
  <2>2. \A k \in 0..0 : L[k] \in DOMAIN parent
    BY <1>0, <2>1
  <2> QED BY <2>1, <2>2, WalkBound
<1>2. CASE parent[d] = Root
  <2>1. M[0] = Root
    BY <1>2, LineageIs
  <2> HIDE DEF L, M
  <2>2. 1 \in 1..Size /\ 1 \in 1..levels + 1 /\ 1 <= Size
    BY <1>0, <1>1
  <2>3. L[1] = Root /\ \A k \in 0..1 - 1 : L[k] \in DOMAIN parent
    <3>1. 1 - 1 = 0 /\ \A k \in 0..1 - 1 : k = 0
      OBVIOUS
    <3> QED BY <1>0, <2>1, <2>2, <3>1
  <2> QED BY <2>2, <2>3 DEF Below, L
<1>3. CASE Climbs(parent, d, parent[d], levels)
  <2>1. PICK n \in 1..levels :
          /\ n <= Size /\ M[n] = Root
          /\ \A k \in 0..n - 1 : M[k] \in DOMAIN parent \ {d}
    BY <1>3 DEF Climbs
  <2>2. \A k \in 0..n : L[k] \in DOMAIN parent
    <3> SUFFICES ASSUME NEW k \in 0..n PROVE L[k] \in DOMAIN parent
      OBVIOUS
    <3>1. k = 0 \/ (k \in 1..Size /\ k - 1 \in 0..n - 1)
      BY <1>0, <2>1
    <3> HIDE DEF L, M
    <3> QED BY <1>0, <2>1, <3>1
  <2>3. n + 1 <= Size
    <3>1. n \in 0..Size
      BY <1>0, <2>1
    <3> QED BY <2>2, <3>1, WalkBound
  <2> HIDE DEF L, M
  <2>4. n + 1 \in 1..Size /\ n + 1 \in 1..levels + 1 /\ (n + 1) - 1 = n
    BY <1>0, <2>3
  <2>5. L[n + 1] = Root
    BY <1>0, <2>1, <2>4
  <2> QED BY <2>2, <2>3, <2>4, <2>5 DEF Below, L
<1> QED BY <1>2, <1>3 DEF ValidParent

(* Delete finds every document below one it finds, however deep: a way up  *)
(* through all documents there are need not be longer than that.           *)
LEMMA BelowClosed ==
  ASSUME NEW parent, DOMAIN parent \subseteq Documents, NEW d \in Documents,
         NEW e \in DOMAIN parent, parent[e] \in {d} \cup Below(parent, d, Size)
  PROVE  e \in {d} \cup Below(parent, d, Size)
<1> DEFINE L == Lineage(parent, e)
           M == Lineage(parent, parent[e])
           Leads(n) == M[n] = d /\ \A k \in 0..n - 1 : M[k] \in DOMAIN parent
           D == {n \in 0..Size : Leads(n)}
<1>0. /\ Size \in Nat /\ L[0] = e /\ M[0] = parent[e] /\ \A k \in 1..Size : L[k] = M[k - 1]
      /\ \A k \in 1..Size : M[k] = Up(parent, M[k - 1])
  BY LineageIs, LineageShift
<1>1. D # {}
  <2>1. CASE parent[e] = d
    <3>1. 0 \in 0..Size /\ \A k \in 0..0 - 1 : FALSE
      BY <1>0
    <3> QED BY <1>0, <2>1, <3>1
  <2>2. CASE parent[e] \in Below(parent, d, Size)
    <3>1. PICK n \in 1..Size : M[n] = d /\ \A k \in 0..n - 1 : M[k] \in DOMAIN parent
      BY <2>2 DEF Below
    <3>2. n \in 0..Size
      BY <1>0
    <3> QED BY <3>1, <3>2
  <2> QED BY <2>1, <2>2
<1>2. PICK n \in D : \A k \in D : n <= k
  <2>1. D \subseteq Nat
    OBVIOUS
  <2> HIDE DEF D
  <2> QED BY <1>1, <2>1, LeastNat
<1>3. n \in 0..Size /\ Leads(n) /\ \A k \in 0..n - 1 : M[k] # d
  <2>1. ASSUME NEW k \in 0..n - 1, M[k] = d PROVE FALSE
    <3>1. k \in 0..Size /\ ~(n <= k) /\ \A i \in 0..k - 1 : i \in 0..n - 1
      BY <1>0
    <3>2. k \in D
      BY <1>2, <2>1, <3>1
    <3> QED BY <1>2, <3>1, <3>2
  <2> QED BY <1>2, <2>1
<1> HIDE DEF L, M, D
<1>4. CASE n + 1 <= Size
  <2>1. n + 1 \in 1..Size /\ (n + 1) - 1 = n
    BY <1>0, <1>3, <1>4
  <2>2. ASSUME NEW k \in 0..n PROVE L[k] \in DOMAIN parent
    <3>1. k = 0 \/ (k \in 1..Size /\ k - 1 \in 0..n - 1)
      BY <1>0, <1>3
    <3> QED BY <1>0, <1>3, <3>1
  <2>3. L[n + 1] = d
    BY <1>0, <1>3, <2>1
  <2> QED BY <1>4, <2>1, <2>2, <2>3 DEF Below, L
<1>5. CASE ~(n + 1 <= Size)
  <2>1. n = Size
    BY <1>0, <1>3, <1>5
  <2>2. PICK f : f = [k \in 0..Size |-> M[k]]
    OBVIOUS
  <2>3. f \in [0..Size -> Documents]
    <3>1. \A k \in 0..Size : k = Size \/ k \in 0..Size - 1
      BY <1>0
    <3>2. \A k \in 0..Size : M[k] \in Documents
      BY <1>3, <2>1, <3>1
    <3> QED BY <2>2, <3>2
  <2>4. IsFiniteSet(0..Size) /\ Cardinality(0..Size) = Size + 1
    <3>1. 0 \in Int /\ Size \in Int /\ ~(0 > Size) /\ Size - 0 + 1 = Size + 1
      BY <1>0
    <3> QED BY <3>1, FS_Interval
  <2>5. Cardinality(Documents) < Cardinality(0..Size)
    BY <1>0, <2>4 DEF Size
  <2>6. PICK i, j \in 0..Size : i < j /\ M[i] = M[j]
    <3>1. PICK i, j \in 0..Size : i # j /\ f[i] = f[j]
      BY <2>3, <2>4, <2>5, DocumentsAssumption, FS_PigeonHole
    <3>2. i < j \/ j < i
      BY <1>0, <3>1
    <3> QED BY <2>2, <3>1, <3>2
  <2> DEFINE H == {s \in 0..Size - j : M[i + s] = M[j + s]}
  <2>7. Size - j \in Nat /\ Size - j \in 0..Size - j /\ i + 0 = i /\ j + 0 = j
        /\ j + (Size - j) = Size /\ i + (Size - j) \in 0..n - 1
    BY <1>0, <2>1, <2>6
  <2>8. 0 \in H
    BY <2>6, <2>7
  <2>9. ASSUME NEW s \in 1..Size - j, s - 1 \in H PROVE s \in H
    <3>1. /\ i + s \in 1..Size /\ j + s \in 1..Size /\ s \in 0..Size - j
          /\ (i + s) - 1 = i + (s - 1) /\ (j + s) - 1 = j + (s - 1)
      BY <1>0, <2>6
    <3> QED BY <1>0, <2>9, <3>1
  <2>10. Size - j \in H
    <3> HIDE DEF H
    <3> QED BY <2>7, <2>8, <2>9, Ascend
  <2> QED BY <1>3, <2>1, <2>7, <2>10
<1> QED BY <1>4, <1>5

(* ... and only those: what is below d is in every set that holds d and    *)
(* the children of what it holds.                                          *)
LEMMA BelowLeast ==
  ASSUME NEW parent, NEW d, NEW levels, NEW X, d \in X,
         \A e \in DOMAIN parent : parent[e] \in X => e \in X
  PROVE  Below(parent, d, levels) \subseteq X
<1> SUFFICES ASSUME NEW e \in Below(parent, d, levels) PROVE e \in X
  OBVIOUS
<1> DEFINE L == Lineage(parent, e)
<1>0. Size \in Nat /\ L[0] = e /\ \A k \in 1..Size : L[k] = Up(parent, L[k - 1])
  BY LineageIs
<1>1. PICK n \in 1..levels : n <= Size /\ L[n] = d /\ \A k \in 0..n - 1 : L[k] \in DOMAIN parent
  BY DEF Below
<1> HIDE DEF L
<1> DEFINE H == {i \in 0..n : L[n - i] \in X}
<1>2. n \in Nat /\ n - 0 = n /\ n - n = 0
  BY <1>0, <1>1
<1>3. 0 \in H
  BY <1>1, <1>2
<1>4. ASSUME NEW i \in 1..n, i - 1 \in H PROVE i \in H
  <2>1. /\ n - (i - 1) \in 1..Size /\ (n - (i - 1)) - 1 = n - i
        /\ n - i \in 0..n - 1 /\ i \in 0..n
    BY <1>0, <1>1, <1>2
  <2>2. L[n - (i - 1)] = parent[L[n - i]] /\ L[n - i] \in DOMAIN parent
    BY <1>0, <1>1, <2>1 DEF Up
  <2> QED BY <1>4, <2>1, <2>2
<1>5. n \in H
  <2>1. n \in 0..n
    BY <1>2
  <2> HIDE DEF H
  <2> QED BY <1>2, <1>3, <1>4, <2>1, Ascend
<1> QED BY <1>0, <1>2, <1>5

LEMMA BelowTransitive ==
  ASSUME NEW parent, DOMAIN parent \subseteq Documents, NEW d \in Documents,
         NEW c \in {d} \cup Below(parent, d, Size)
  PROVE  {c} \cup Below(parent, c, Size) \subseteq {d} \cup Below(parent, d, Size)
<1> DEFINE X == {d} \cup Below(parent, d, Size)
<1>1. \A e \in DOMAIN parent : parent[e] \in X => e \in X
  BY BelowClosed
<1>2. c \in X
  OBVIOUS
<1> HIDE DEF X
<1>3. Below(parent, c, Size) \subseteq X
  BY <1>1, <1>2, BelowLeast
<1> QED BY <1>2, <1>3 DEF X

(* Documents whose link changes, that come or that go. *)
Changed(parent, next) ==
  {c \in DOMAIN parent \cup DOMAIN next :
     ~(c \in DOMAIN parent /\ c \in DOMAIN next /\ next[c] = parent[c])}

(* What is below none of these stays where it is. *)
LEMMA StaysPut ==
  ASSUME NEW parent, NEW next, NEW e,
         \A c \in Changed(parent, next) : e \notin {c} \cup Below(parent, c, Size),
         NEW c, NEW levels
  PROVE  e \in Below(next, c, levels) <=> e \in Below(parent, c, levels)
<1> DEFINE L == Lineage(parent, e)
           M == Lineage(next, e)
<1>0. /\ Size \in Nat
      /\ L[0] = e /\ \A k \in 1..Size : L[k] = Up(parent, L[k - 1])
      /\ M[0] = e /\ \A k \in 1..Size : M[k] = Up(next, M[k - 1])
  BY LineageIs
<1>1. ASSUME NEW k \in 0..Size PROVE L[k] \notin Changed(parent, next)
  <2> SUFFICES ASSUME L[k] \in Changed(parent, next) PROVE FALSE
    OBVIOUS
  <2> DEFINE D == {j \in 0..Size : L[j] \in Changed(parent, next)}
  <2>1. PICK j \in D : \A i \in D : j <= i
    <3>1. D \subseteq Nat /\ D # {}
      OBVIOUS
    <3> HIDE DEF D
    <3> QED BY <3>1, LeastNat
  <2>2. \A i \in 0..j - 1 : L[i] \in DOMAIN parent
    <3> SUFFICES ASSUME NEW i \in 0..j - 1, L[i] \notin DOMAIN parent PROVE FALSE
      OBVIOUS
    <3>1. i \in 0..Size /\ j \in i..Size /\ ~(j <= i)
      BY <1>0
    <3>2. L[j] = L[i]
      BY <3>1, Stuck
    <3>3. i \in D
      BY <2>1, <3>1, <3>2
    <3> QED BY <2>1, <3>1, <3>3
  <2>3. CASE j = 0
    BY <1>0, <2>1, <2>3
  <2>4. CASE j # 0
    <3>1. j \in 1..Size /\ j <= Size /\ 0 \in 0..j - 1
      BY <1>0, <2>4
    <3>2. e \in DOMAIN parent
      BY <1>0, <2>2, <3>1
    <3>3. e \in Below(parent, L[j], Size)
      BY <2>2, <3>1, <3>2 DEF Below
    <3> QED BY <2>1, <3>3
  <2> QED BY <2>3, <2>4
<1>2. \A k \in 0..Size : M[k] = L[k]
  <2> HIDE DEF L, M
  <2> DEFINE H == {k \in 0..Size : M[k] = L[k]}
  <2>1. 0 \in H
    BY <1>0
  <2>2. ASSUME NEW k \in 1..Size, k - 1 \in H PROVE k \in H
    <3>1. k - 1 \in 0..Size /\ k \in 0..Size
      BY <1>0
    <3>2. Up(next, L[k - 1]) = Up(parent, L[k - 1])
      BY <1>1, <3>1 DEF Changed, Up
    <3> QED BY <1>0, <2>2, <3>1, <3>2
  <2>3. \A k \in 0..Size : k \in H
    <3> HIDE DEF H
    <3> QED BY <1>0, <2>1, <2>2, Ascend
  <2> QED BY <2>3
<1>3. \A k \in 0..Size : L[k] \in DOMAIN next <=> L[k] \in DOMAIN parent
  BY <1>1 DEF Changed
<1>4. e \in DOMAIN next <=> e \in DOMAIN parent
  <2>1. 0 \in 0..Size
    BY <1>0
  <2> QED BY <1>0, <1>3, <2>1
<1>5. ASSUME NEW n \in 1..levels, n <= Size
      PROVE  n \in 0..Size /\ \A k \in 0..n - 1 : k \in 0..Size
  BY <1>0, <1>5
<1>6. ASSUME NEW n \in 1..levels
      PROVE  /\ n <= Size /\ M[n] = c /\ \A k \in 0..n - 1 : M[k] \in DOMAIN next
             <=> /\ n <= Size /\ L[n] = c /\ \A k \in 0..n - 1 : L[k] \in DOMAIN parent
  <2> HIDE DEF L, M
  <2> QED BY <1>2, <1>3, <1>5
<1> QED BY <1>4, <1>6 DEF Below

-----------------------------------------------------------------------------
(* Steps *)

SlugsUnique == \A d, e \in Live : documents[d].slug = documents[e].slug => d = e

Inv == TypeOK /\ SlugsUnique /\ AliasesSound

(* SlugFree speaks of all documents but one; the root is none.             *)
LEMMA FreeOfAll ==
  ASSUME TypeOK, NEW s
  PROVE  SlugFree(s, Root) <=> \A e \in Live : documents[e].slug # s
BY RootAssumption DEF TypeOK, SlugFree

LEMMA PutIs ==
  ASSUME NEW d, NEW s, NEW p, Put(d, s, p)
  PROVE  /\ Live' = Live \cup {d}
         /\ documents'[d] = [parent |-> p, slug |-> s]
         /\ documents'[d].slug = s /\ documents'[d].parent = p
         /\ \A e \in Live \ {d} : documents'[e] = documents[e]
BY DEF Put, Live

LEMMA PutTyped ==
  ASSUME TypeOK, NEW d \in Documents, NEW s \in Slugs, NEW p \in Documents \cup {Root}, Put(d, s, p),
         d \in Live \/ Cardinality(Live) < MaxDocuments
  PROVE  /\ Live' \subseteq Documents
         /\ documents' \in [Live' -> [parent : Documents \cup {Root}, slug : Slugs]]
         /\ Cardinality(Live') <= MaxDocuments
<1>1. PICK x : x = [parent |-> p, slug |-> s]
  OBVIOUS
<1>2. /\ Live' = Live \cup {d} /\ documents'[d] = x
      /\ \A e \in Live \ {d} : documents'[e] = documents[e]
      /\ documents' = [e \in Live' |-> documents'[e]]
  BY <1>1, PutIs DEF Put
<1>3. Live' \subseteq Documents
  BY <1>2 DEF TypeOK
<1>4. documents' \in [Live' -> [parent : Documents \cup {Root}, slug : Slugs]]
  <2>1. x \in [parent : Documents \cup {Root}, slug : Slugs]
    BY <1>1
  <2>2. \A e \in Live : documents[e] \in [parent : Documents \cup {Root}, slug : Slugs]
    BY DEF TypeOK
  <2>3. \A e \in Live' : documents'[e] \in [parent : Documents \cup {Root}, slug : Slugs]
    BY <1>2, <2>1, <2>2
  <2> QED BY <1>2, <2>3
<1>5. Cardinality(Live') <= MaxDocuments
  <2>1. IsFiniteSet(Live)
    BY DocumentsAssumption, FS_Subset DEF TypeOK
  <2>2. CASE d \in Live
    <3>1. Live' = Live
      BY <1>2, <2>2
    <3> QED BY <3>1 DEF TypeOK
  <2>3. CASE d \notin Live
    <3>1. Cardinality(Live') = Cardinality(Live) + 1
      BY <1>2, <2>1, <2>3, FS_AddElement
    <3>2. Cardinality(Live) \in Nat
      BY <2>1, FS_CardinalityType
    <3> QED BY <2>3, <3>1, <3>2, MaxDocumentsAssumption
  <2> QED BY <2>2, <2>3
<1> QED BY <1>4, <1>5, <1>3

ForestInv == Closed(Parent) /\ NoTrap(Parent)

(* Wherever validateParentLocked lets a document be put, the forest stays  *)
(* one and readers find the document.                                      *)
LEMMA PutForest ==
  ASSUME TypeOK, ForestInv, NEW d \in Documents, NEW s, NEW p, Put(d, s, p), ParentAllowed(d, p)
  PROVE  ForestInv' /\ d \in Assembled(Parent)'
<1>0. PICK next : next = Parent'
  OBVIOUS
<1>1. /\ Live' = Live \cup {d} /\ documents'[d].parent = p
      /\ \A e \in Live \ {d} : documents'[e] = documents[e]
  BY PutIs
<1>2. DOMAIN Parent = Live /\ \A e \in Live : Parent[e] = documents[e].parent
  BY DEF Parent
<1>3. /\ DOMAIN next = DOMAIN Parent \cup {d} /\ next[d] = p
      /\ \A e \in DOMAIN Parent \ {d} : next[e] = Parent[e]
  BY <1>0, <1>1, <1>2 DEF Parent
<1>4. DOMAIN next \subseteq Documents /\ Root \notin DOMAIN next
  BY <1>2, <1>3, RootAssumption DEF TypeOK
<1>5. p \in DOMAIN Parent \cup {Root}
  <2>1. ASSUME Climbs(Parent, d, p, MaxDepth - 1) PROVE p \in DOMAIN Parent
    <3>1. PICK n \in 1..MaxDepth - 1 : \A k \in 0..n - 1 : Lineage(Parent, p)[k] \in DOMAIN Parent \ {d}
      BY <2>1 DEF Climbs
    <3>2. 0 \in 0..n - 1 /\ Lineage(Parent, p)[0] = p
      BY MaxDepthAssumption, LineageIs
    <3> QED BY <3>1, <3>2
  <2> QED BY <2>1 DEF ParentAllowed, ValidParent
<1>6. Closed(next)
  BY <1>3, <1>5 DEF ForestInv, Closed
<1>7. NoTrap(next)
  <2>1. ValidParent(Parent, d, next[d], MaxDepth - 1)
    BY <1>3 DEF ParentAllowed
  <2> QED BY <1>3, <1>4, <2>1, PutNoTrap DEF ForestInv
<1>8. d \in Below(next, Root, MaxDepth)
  <2>1. ValidParent(next, d, next[d], MaxDepth - 1)
    BY <1>3, ClimbsKept DEF ParentAllowed, ValidParent
  <2>2. MaxDepth - 1 \in Nat /\ (MaxDepth - 1) + 1 = MaxDepth
    BY MaxDepthAssumption
  <2> QED BY <1>3, <1>4, <1>7, <2>1, <2>2, PutShown
<1> QED BY <1>0, <1>6, <1>7, <1>8 DEF ForestInv, Assembled

LEMMA CreateInv ==
  ASSUME Inv, NEW d \in Documents, NEW s \in Slugs, NEW p \in Documents \cup {Root}, Create(d, s, p)
  PROVE  Inv' /\ \A e \in Live : \A t : Resolves(t, e) => Resolves(t, e)'
<1>1. /\ d \notin Live /\ SlugFree(s, d) /\ Cardinality(Live) < MaxDocuments
      /\ s \notin DOMAIN alias /\ Put(d, s, p) /\ alias' = alias
  BY DEF Create
<1>2. /\ Live' = Live \cup {d} /\ documents'[d].slug = s
      /\ \A e \in Live : documents'[e] = documents[e]
  BY <1>1, PutIs
<1>3. TypeOK'
  BY <1>1, PutTyped DEF Inv, TypeOK
<1>4. SlugsUnique'
  BY <1>1, <1>2 DEF Inv, SlugsUnique, SlugFree
<1>5. \A t : t # s /\ SlugFree(t, Root) => SlugFree(t, Root)'
  BY <1>2 DEF SlugFree
<1>6. AliasesSound'
  BY <1>1, <1>2, <1>5 DEF Inv, AliasesSound
<1>7. \A e \in Live : \A t : Resolves(t, e) => Resolves(t, e)'
  BY <1>1, <1>2, <1>5 DEF Resolves
<1> QED BY <1>3, <1>4, <1>6, <1>7 DEF Inv

LEMMA UpdateInv ==
  ASSUME Inv, NEW d \in Documents, NEW s \in Slugs, NEW p \in Documents \cup {Root}, Update(d, s, p)
  PROVE  Inv' /\ \A e \in Live : \A t : Resolves(t, e) => Resolves(t, e)'
<1>1. PICK old : old = documents[d].slug
  OBVIOUS
<1>2. /\ d \in Live /\ SlugFree(s, d) /\ (s \in DOMAIN alias => alias[s] = d)
      /\ Put(d, s, p)
      /\ alias' = [t \in (DOMAIN alias \cup {old}) \ {s} |-> IF t = old THEN d ELSE alias[t]]
  BY <1>1 DEF Update
<1>3. /\ Live' = Live /\ documents'[d].slug = s
      /\ \A e \in Live \ {d} : documents'[e] = documents[e]
  <2>1. Put(d, s, p) /\ d \in Live
    BY <1>2
  <2> QED BY <2>1, PutIs
<1>4. /\ DOMAIN alias' = (DOMAIN alias \cup {old}) \ {s}
      /\ \A t \in DOMAIN alias' : alias'[t] = IF t = old THEN d ELSE alias[t]
  BY <1>2
<1>5. old \in Slugs
  BY <1>1, <1>2 DEF Inv, TypeOK
<1>6. TypeOK'
  <2>1. DOMAIN alias' \subseteq Slugs /\ \A t \in DOMAIN alias' : alias'[t] \in Documents
    BY <1>4, <1>5 DEF Inv, TypeOK
  <2>2. alias' \in [DOMAIN alias' -> Documents]
    BY <1>2, <2>1
  <2> QED BY <1>2, <2>1, <2>2, PutTyped DEF Inv, TypeOK
<1>7. SlugsUnique'
  BY <1>2, <1>3 DEF Inv, SlugsUnique, SlugFree
<1>8. /\ \A t : t # s /\ SlugFree(t, Root) => SlugFree(t, Root)'
      /\ old # s => SlugFree(old, Root)'
  <2>1. \A t : t # s /\ SlugFree(t, Root) => SlugFree(t, Root)'
    BY <1>2, <1>3, FreeOfAll DEF Inv, SlugFree
  <2>2. ASSUME old # s PROVE \A e \in Live' : documents'[e].slug # old
    BY <1>1, <1>2, <1>3, <2>2 DEF Inv, SlugsUnique
  <2> QED BY <2>1, <2>2 DEF SlugFree
<1>9. AliasesSound'
  BY <1>2, <1>3, <1>4, <1>8 DEF Inv, AliasesSound
<1>10. ASSUME NEW e \in Live, NEW t, Resolves(t, e) PROVE Resolves(t, e)'
  <2>1. CASE documents[e].slug = t /\ e # d
    BY <1>3, <2>1 DEF Resolves
  <2>2. CASE documents[e].slug = t /\ e = d
    <3>1. t = old
      BY <1>1, <2>2
    <3>2. CASE t = s
      BY <1>3, <2>2, <3>2 DEF Resolves
    <3>3. CASE t # s
      BY <1>4, <1>8, <2>2, <3>1, <3>3 DEF Resolves
    <3> QED BY <3>2, <3>3
  <2>3. CASE SlugFree(t, Root) /\ t \in DOMAIN alias /\ alias[t] = e
    <3>1. t # old
      BY <1>1, <1>2, <2>3, FreeOfAll DEF Inv
    <3>2. CASE t = s
      BY <1>2, <1>3, <2>3, <3>2 DEF Resolves
    <3>3. CASE t # s
      BY <1>4, <1>8, <2>3, <3>1, <3>3 DEF Resolves
    <3> QED BY <3>2, <3>3
  <2> QED BY <1>10, <2>1, <2>2, <2>3 DEF Resolves
<1> QED BY <1>6, <1>7, <1>9, <1>10 DEF Inv

LEMMA MoveInv ==
  ASSUME Inv, NEW d \in Documents, NEW p \in Documents \cup {Root}, Move(d, p)
  PROVE  Inv' /\ \A e \in Live : \A t : Resolves(t, e) => Resolves(t, e)'
<1>1. PICK s : s = documents[d].slug
  OBVIOUS
<1>2. d \in Live /\ Put(d, s, p) /\ alias' = alias /\ s \in Slugs
  BY <1>1 DEF Move, Inv, TypeOK
<1>3. Live' = Live /\ \A e \in Live : documents'[e].slug = documents[e].slug
  <2>1. /\ Live' = Live \cup {d} /\ documents'[d].slug = s
        /\ \A e \in Live \ {d} : documents'[e] = documents[e]
    BY <1>2, PutIs
  <2> QED BY <1>1, <1>2, <2>1
<1>4. TypeOK'
  BY <1>2, PutTyped DEF Inv, TypeOK
<1>5. SlugsUnique' /\ AliasesSound'
  BY <1>2, <1>3 DEF Inv, SlugsUnique, AliasesSound, SlugFree
<1>6. \A e \in Live : \A t : Resolves(t, e) => Resolves(t, e)'
  BY <1>2, <1>3 DEF Resolves, SlugFree
<1> QED BY <1>4, <1>5, <1>6 DEF Inv

LEMMA DeleteInv ==
  ASSUME Inv, NEW d \in Documents, Delete(d)
  PROVE  Inv' /\ \A e \in Live \cap Live' : \A t : Resolves(t, e) => Resolves(t, e)'
<1>1. PICK doomed : doomed = {d} \cup Below(Parent, d, Size)
  OBVIOUS
<1>2. PICK kept : kept = {s \in DOMAIN alias : alias[s] \notin doomed}
  OBVIOUS
<1>3. documents' = [e \in Live \ doomed |-> documents[e]] /\ alias' = [s \in kept |-> alias[s]]
  BY <1>1, <1>2 DEF Delete, Restrict
<1>4. /\ Live' = Live \ doomed /\ \A e \in Live' : documents'[e] = documents[e]
      /\ DOMAIN alias' = kept /\ \A s \in kept : alias'[s] = alias[s]
  BY <1>3 DEF Live
<1>5. TypeOK'
  <2>1. /\ Live' \subseteq Documents /\ DOMAIN alias' \subseteq Slugs
        /\ alias' \in [DOMAIN alias' -> Documents]
    BY <1>2, <1>3, <1>4 DEF Inv, TypeOK
  <2>2. documents' \in [Live' -> [parent : Documents \cup {Root}, slug : Slugs]]
    BY <1>3, <1>4 DEF Inv, TypeOK
  <2>3. Cardinality(Live') <= MaxDocuments
    <3>1. IsFiniteSet(Live)
      BY DocumentsAssumption, FS_Subset DEF Inv, TypeOK
    <3>2. /\ Cardinality(Live') <= Cardinality(Live)
          /\ Cardinality(Live') \in Nat /\ Cardinality(Live) \in Nat
      BY <1>4, <3>1, FS_Subset, FS_CardinalityType
    <3> QED BY <3>2, MaxDocumentsAssumption DEF Inv, TypeOK
  <2> QED BY <2>1, <2>2, <2>3 DEF TypeOK
<1>6. SlugsUnique'
  BY <1>4 DEF Inv, SlugsUnique
<1>7. \A t : SlugFree(t, Root) => SlugFree(t, Root)'
  BY <1>4 DEF SlugFree
<1>8. AliasesSound'
  BY <1>2, <1>4, <1>7 DEF Inv, AliasesSound
<1>9. \A e \in Live \cap Live' : \A t : Resolves(t, e) => Resolves(t, e)'
  BY <1>2, <1>4, <1>7 DEF Resolves
<1> QED BY <1>5, <1>6, <1>8, <1>9 DEF Inv


LEMMA DeleteForest ==
  ASSUME TypeOK, ForestInv, NEW d \in Documents, Delete(d)
  PROVE  ForestInv' /\ Live' \subseteq Live /\ \A e \in Live' : documents'[e] = documents[e]
<1>0. PICK next : next = Parent'
  OBVIOUS
<1>1. PICK doomed : doomed = {d} \cup Below(Parent, d, Size)
  OBVIOUS
<1>2. d \in Live /\ documents' = [e \in Live \ doomed |-> documents[e]]
  BY <1>1 DEF Delete, Restrict
<1>3. Live' = Live \ doomed /\ \A e \in Live' : documents'[e] = documents[e]
  BY <1>2 DEF Live
<1>4. DOMAIN Parent = Live /\ DOMAIN next = Live \ doomed /\ \A e \in DOMAIN next : next[e] = Parent[e]
  BY <1>0, <1>3 DEF Parent
<1>5. NoTrap(next)
  BY <1>4, FewerNoTrap DEF ForestInv
<1>6. ASSUME NEW e \in DOMAIN next PROVE next[e] \in DOMAIN next \cup {Root}
  <2>1. e \in DOMAIN Parent /\ e \notin doomed /\ next[e] = Parent[e] /\ Parent[e] \in DOMAIN Parent \cup {Root}
    BY <1>4, <1>6 DEF ForestInv, Closed
  <2>2. Parent[e] \notin doomed
    BY <1>1, <1>4, <2>1, BelowClosed DEF TypeOK
  <2> QED BY <1>4, <2>1, <2>2
<1> QED BY <1>0, <1>3, <1>5, <1>6 DEF ForestInv, Closed

(* Every step, and where it put a document. *)
LEMMA NextForest ==
  ASSUME TypeOK, ForestInv, Next
  PROVE  /\ ForestInv'
         /\ \A e \in Live' : (e \notin Live \/ documents'[e].parent # documents[e].parent)
                                => e \in Assembled(Parent)'
<1>1. ASSUME NEW d \in Documents, NEW s \in Slugs, NEW p \in Documents \cup {Root},
             Create(d, s, p) \/ Update(d, s, p) \/ Move(d, p)
      PROVE  \E t : Put(d, t, p) /\ ParentAllowed(d, p)
  BY <1>1 DEF Create, Update, Move
<1>2. ASSUME NEW d \in Documents, NEW s, NEW p, Put(d, s, p) /\ ParentAllowed(d, p)
      PROVE  /\ ForestInv'
             /\ \A e \in Live' : (e \notin Live \/ documents'[e].parent # documents[e].parent)
                                    => e \in Assembled(Parent)'
  <2>1. ForestInv' /\ d \in Assembled(Parent)'
    BY <1>2, PutForest
  <2>2. Live' = Live \cup {d} /\ \A e \in Live \ {d} : documents'[e] = documents[e]
    BY <1>2, PutIs
  <2> QED BY <2>1, <2>2
<1>3. CASE \E d \in Documents : Delete(d)
  BY <1>3, DeleteForest
<1>4. CASE \E d \in Documents, s \in Slugs, p \in Documents \cup {Root} : Create(d, s, p) \/ Update(d, s, p)
  BY <1>1, <1>2, <1>4
<1>5. CASE \E d \in Documents, p \in Documents \cup {Root} : Move(d, p)
  <2>1. PICK d \in Documents, p \in Documents \cup {Root} : Move(d, p)
    BY <1>5
  <2>2. Put(d, documents[d].slug, p) /\ ParentAllowed(d, p)
    BY <2>1 DEF Move
  <2> QED BY <1>2, <2>2
<1> QED BY <1>3, <1>4, <1>5 DEF Next

LEMMA InitInv == Init => Inv
<1> SUFFICES ASSUME Init PROVE Inv
  OBVIOUS
<1>1. Live = {} /\ DOMAIN alias = {}
  BY DEF Init, Live
<1>2. TypeOK
  <2>1. Cardinality(Live) = 0
    BY <1>1, FS_EmptySet
  <2> QED BY <1>1, <2>1, MaxDocumentsAssumption DEF Init, TypeOK
<1> QED BY <1>1, <1>2 DEF Inv, SlugsUnique, AliasesSound

LEMMA NextInv ==
  ASSUME Inv, Next
  PROVE  Inv' /\ \A e \in Live \cap Live', t \in Slugs : Resolves(t, e) => Resolves(t, e)'
BY CreateInv, UpdateInv, MoveInv, DeleteInv DEF Next

LEMMA Always == Spec => []Inv
<1>1. Inv /\ UNCHANGED vars => Inv'
  BY DEF vars, Inv, TypeOK, SlugsUnique, AliasesSound, SlugFree, Live
<1> QED BY <1>1, InitInv, NextInv, PTL DEF Spec

(* The maps of the in-memory store stay well formed and within the limit   *)
(* on documents (Create).                                                  *)
THEOREM MapsTyped == Spec => []TypeOK
<1>1. Inv => TypeOK
  BY DEF Inv
<1> QED BY <1>1, Always, PTL

(* Whatever is created, renamed, moved and deleted, a former slug leads to *)
(* a document that is there and never shadows a slug in use (Update,       *)
(* Delete, slugExistsLocked).                                              *)
THEOREM AliasesStaySound == Spec => []AliasesSound
<1>1. Inv => AliasesSound
  BY DEF Inv
<1> QED BY <1>1, Always, PTL

(* A link a reader has to a document leads to it as long as the document   *)
(* is there, however it and the others are renamed (FindByAliasSlug).      *)
THEOREM LinksLast == Spec => LinksResolve
<1>1. Inv /\ [Next]_vars =>
        [\A d \in Live \cap Live', s \in Slugs : Resolves(s, d) => Resolves(s, d)']_vars
  BY NextInv
<1> QED BY <1>1, Always, PTL DEF Spec, LinksResolve

LEMMA InitForest == Init => ForestInv
<1> SUFFICES ASSUME Init PROVE ForestInv
  OBVIOUS
<1>1. DOMAIN Parent = {}
  BY DEF Init, Live, Parent
<1> QED BY <1>1 DEF ForestInv, Closed, NoTrap, Trap

LEMMA AlwaysForest == Spec => [](TypeOK /\ ForestInv)
<1>1. Init => TypeOK /\ ForestInv
  BY InitInv, InitForest DEF Inv
<1>2. Inv /\ ForestInv /\ [Next]_vars => ForestInv'
  <2>1. ForestInv /\ UNCHANGED vars => ForestInv'
    BY DEF vars, ForestInv, Parent, Live
  <2> QED BY <2>1, NextForest DEF Inv
<1>3. Inv => TypeOK
  BY DEF Inv
<1> QED BY <1>1, <1>2, <1>3, Always, PTL DEF Spec

(* validateParentLocked: however deep the tree and however many documents, *)
(* every document hangs below the root through live documents, whatever is *)
(* created, moved and deleted (Delete removes all that is below).          *)
THEOREM ForestStands == Spec => []Forest
<1>1. TypeOK /\ ForestInv => Forest
  <2> SUFFICES ASSUME TypeOK, ForestInv, NEW d \in Live PROVE Rooted(Parent, d)
    BY DEF Forest
  <2>1. DOMAIN Parent = Live /\ Live \subseteq Documents
    BY DEF Parent, TypeOK
  <2> QED BY <2>1, ForestIs DEF ForestInv
<1> QED BY <1>1, AlwaysForest, PTL

(* A document just created or moved is in the tree buildDocumentTree shows:*)
(* the levels validateParentLocked counts are those it descends.           *)
THEOREM PlacedAreShown == Spec => PlacedShown
<1>1. TypeOK /\ ForestInv /\ [Next]_vars =>
        [\A d \in Live' :
           (d \notin Live \/ documents'[d].parent # documents[d].parent) => d \in Assembled(Parent)']_vars
  BY NextForest
<1> QED BY <1>1, AlwaysForest, PTL DEF Spec, PlacedShown
=============================================================================
