-------------------------- MODULE KernelDataProofs --------------------------
(* The kernel heap never hands out overlapping sections and never overlooks a *)
(* free one, for a tree of any depth and any requests; and a linked list of   *)
(* any length holds what was put into it.                                     *)
EXTENDS KernelHeap, LinkedList, SequenceTheorems, NaturalsInduction, WellFoundedInduction, TLAPS

(* NotNested is not inductive alone: that a free section has no allocated     *)
(* part inside is what its in_use field says.                                 *)
HeapInv == TypeOK /\ NotNested /\ InUseExact

LEMMA InitHeap == Init => HeapInv
<1> SUFFICES ASSUME Init PROVE HeapInv
  OBVIOUS
<1>1. TypeOK
  BY DEF Init, TypeOK
<1>2. NotNested /\ InUseExact
  BY DEF Init, NotNested, InUseExact, OCCUPIED
<1> QED BY <1>1, <1>2 DEF HeapInv

LEMMA AllocatePreserves ==
    ASSUME HeapInv, NEW n \in Sections, NEW size \in Requests, Allocate(n, size)
    PROVE  HeapInv'
<1>1. ~ in_use[n] /\ \A m \in Path[n] \cup {n} : flags[m] # OCCUPIED
  BY DEF Allocate, FirstFit, Candidate
<1>2. /\ \A m \in Sections : flags'[m] = OCCUPIED <=> flags[m] = OCCUPIED \/ m = n
      /\ \A m \in Sections : in_use'[m] <=> in_use[m] \/ m = n \/ m \in Path[n]
  BY DEF Allocate, Marked, HeapInv, TypeOK
<1>3. TypeOK'
  <2>1. in_use' \in [Sections -> BOOLEAN]
    BY DEF Allocate, Marked, HeapInv, TypeOK
  <2>2. flags' \in [Sections -> {OCCUPIED, "free"}]
    BY DEF Allocate, HeapInv, TypeOK
  <2>3. live' \subseteq [section : Sections, size : Requests]
    BY DEF Allocate, HeapInv, TypeOK
  <2> QED BY <2>1, <2>2, <2>3 DEF Allocate, HeapInv, TypeOK
<1>4. NotNested'
  <2> SUFFICES ASSUME NEW k \in Sections, NEW m \in Sections, k # m,
                      flags'[k] = OCCUPIED, flags'[m] = OCCUPIED
               PROVE  k \notin Path[m]
    BY DEF NotNested
  <2>1. CASE k = n
    <3>1. flags[m] = OCCUPIED
      BY <1>2, <2>1
    <3>2. k \in Path[m] => in_use[k]
      BY <3>1 DEF HeapInv, InUseExact
    <3> QED BY <1>1, <2>1, <3>2
  <2>2. CASE m = n
    BY <1>1, <1>2, <2>2
  <2>3. CASE k # n /\ m # n
    BY <1>2, <2>3 DEF HeapInv, NotNested
  <2> QED BY <2>1, <2>2, <2>3
<1>5. InUseExact'
  BY <1>2 DEF HeapInv, InUseExact
<1> QED BY <1>3, <1>4, <1>5 DEF HeapInv

LEMMA NextHeap == HeapInv /\ [Next]_vars => HeapInv'
<1> SUFFICES ASSUME HeapInv, [Next]_vars PROVE HeapInv'
  OBVIOUS
<1>1. ASSUME NEW size \in Requests, NEW n \in Sections, Allocate(n, size) PROVE HeapInv'
  BY <1>1, AllocatePreserves
<1>2. ASSUME NEW size \in Requests, AllocateFails(size) PROVE HeapInv'
  BY <1>2 DEF AllocateFails, HeapInv, TypeOK, NotNested, InUseExact
<1>3. ASSUME NEW a \in live, kfree(a) PROVE HeapInv'
  BY <1>3 DEF kfree, HeapInv, TypeOK, NotNested, InUseExact
<1>4. CASE UNCHANGED vars
  BY <1>4 DEF vars, HeapInv, TypeOK, NotNested, InUseExact
<1>5. CASE kfree_outside
  BY <1>5 DEF kfree_outside, HeapInv, TypeOK, NotNested, InUseExact
<1> QED BY <1>1, <1>2, <1>3, <1>4, <1>5 DEF Next, kalloc, Stuck

(* The tree's fields are consistent in every reachable state.                 *)
THEOREM HeapInvariant == Spec => []HeapInv
  BY InitHeap, NextHeap, PTL DEF Spec

(* kalloc never returns a section inside an allocated one or around one.      *)
THEOREM HeapNotNested == Spec => []NotNested
<1>1. HeapInv => NotNested
  BY DEF HeapInv
<1> QED BY <1>1, HeapInvariant, PTL

(* A section is marked in use exactly when part of it is allocated.           *)
THEOREM HeapInUseExact == Spec => []InUseExact
<1>1. HeapInv => InUseExact
  BY DEF HeapInv
<1> QED BY <1>1, HeapInvariant, PTL

-----------------------------------------------------------------------------
(* The tree *)

LEMMA LessThan == \E R : IsWellFoundedOn(R, Nat) /\ \A x, y \in Nat : y < x => <<y, x>> \in R
<1>1. IsWellFoundedOn(OpToRel(<, Nat), Nat)
  BY NatLessThanWellFounded
<1>2. \A x, y \in Nat : y < x => <<y, x>> \in OpToRel(<, Nat)
  BY Zenon DEF OpToRel
<1> WITNESS OpToRel(<, Nat)
<1> QED BY <1>1, <1>2

LEMMA Least == ASSUME NEW T \in SUBSET Nat, T # {} PROVE \E x \in T : \A y \in T : x <= y
<1>1. PICK R : IsWellFoundedOn(R, Nat) /\ \A x, y \in Nat : y < x => <<y, x>> \in R
  BY LessThan
<1>2. PICK x \in T : \A y \in T : ~ (<<y, x>> \in R)
  BY <1>1, WFMin
<1>3. \A y \in T : ~ (y < x)
  BY <1>1, <1>2, Zenon
<1> QED BY <1>3

LEMMA SectionFacts ==
    /\ Sections \in SUBSET Nat
    /\ \A n \in Sections : 0 .. n \subseteq Sections /\ n \div 2 \in 0 .. n
    /\ \A n \in Sections \ {0} : n \div 2 \in 0 .. n - 1 /\ n \div 2 \in Sections
    /\ Sections # {} => \E k \in Sections : Sections = 0 .. k
<1>1. 2^(Levels + 1) \in Int
  BY LevelAssumption
<1>2. PICK N \in Int : Sections = 0 .. N - 1
  BY <1>1 DEF Sections
<1>3. Sections # {} => N - 1 \in Sections
  BY <1>2
<1> QED BY <1>2, <1>3

(* What holds of section 0 and of a section whenever it holds of its parent. *)
LEMMA TreeInduction ==
    ASSUME NEW S, \A n \in Sections : n = 0 \/ n \div 2 \in S => n \in S
    PROVE  \A n \in Sections : n \in S
<1> DEFINE T == {n \in Sections : n \notin S}
<1> SUFFICES ASSUME T # {} PROVE FALSE
  OBVIOUS
<1>1. PICK n \in T : \A y \in T : n <= y
  BY SectionFacts, Least
<1>2. n \in Nat /\ n \in Sections /\ n \notin S /\ n # 0
  BY <1>1, SectionFacts
<1>3. n \div 2 \in Sections /\ ~ (n <= n \div 2)
  BY <1>2, SectionFacts
<1>4. n \div 2 \in S
  BY <1>1, <1>3
<1> QED BY <1>2, <1>4

(* A function that is defined from the parent of a section exists: the least  *)
(* number up to which it does not would have a parent up to which it does.    *)
FromParent(f, V, A, G) ==
    /\ f \in [Sections -> V]
    /\ \A n \in Sections : f[n] = IF n = 0 THEN A ELSE G[n][f[n \div 2]]

LEMMA TreeRecursion ==
    ASSUME NEW V, NEW A \in V, NEW G \in [Sections -> [V -> V]]
    PROVE  \E f : FromParent(f, V, A, G)
<1> DEFINE Upto(k, g) == /\ g \in [0 .. k -> V]
                         /\ \A n \in 0 .. k : g[n] = IF n = 0 THEN A ELSE G[n][g[n \div 2]]
           T == {k \in Sections : ~ \E g : Upto(k, g)}
<1>1. T = {}
  <2> SUFFICES ASSUME T # {} PROVE FALSE
    OBVIOUS
  <2>1. PICK k \in T : \A y \in T : k <= y
    BY SectionFacts, Least
  <2>2. k \in Nat /\ k \in Sections /\ ~ \E g : Upto(k, g)
    BY <2>1, SectionFacts
  <2>3. CASE k = 0
    <3> DEFINE g == [n \in 0 .. k |-> A]
    <3>1. g \in [0 .. k -> V]
      OBVIOUS
    <3>2. \A n \in 0 .. k : n = 0 /\ g[n] = A
      BY <2>3
    <3>3. Upto(k, g)
      BY <3>1, <3>2
    <3> QED BY <2>2, <3>3
  <2>4. CASE k # 0
    <3>a. k - 1 \in 0 .. k /\ ~ (k <= k - 1)
      BY <2>2, <2>4
    <3>1. k - 1 \in Sections /\ k - 1 \notin T
      <4> HIDE DEF T
      <4> QED BY <2>1, <2>2, <3>a, SectionFacts
    <3>2. PICK g : Upto(k - 1, g)
      BY <3>1
    <3> DEFINE h == [n \in 0 .. k |-> IF n = k THEN G[k][g[k \div 2]] ELSE g[n]]
    <3>3. k \div 2 \in 0 .. k - 1 /\ g \in [0 .. k - 1 -> V]
      BY <2>2, <2>4, <3>2, SectionFacts
    <3>4. G[k][g[k \div 2]] \in V
      BY <2>2, <3>3
    <3>5. h \in [0 .. k -> V]
      BY <2>2, <3>3, <3>4
    <3>6. ASSUME NEW n \in 0 .. k PROVE h[n] = IF n = 0 THEN A ELSE G[n][h[n \div 2]]
      <4>1. CASE n = k
        <5>1. h[k \div 2] = g[k \div 2]
          BY <2>2, <3>3
        <5> QED BY <2>2, <2>4, <4>1, <5>1
      <4>2. CASE n # k
        <5>1. n \in 0 .. k - 1 /\ n \div 2 \in 0 .. k - 1 /\ n \div 2 # k
          BY <2>2, <4>2
        <5>2. h[n] = g[n] /\ h[n \div 2] = g[n \div 2]
          BY <2>2, <4>2, <5>1
        <5> QED BY <3>2, <5>1, <5>2
      <4> QED BY <4>1, <4>2
    <3>7. Upto(k, h)
      BY <3>5, <3>6
    <3> QED BY <2>2, <3>7
  <2> QED BY <2>3, <2>4
<1>2. CASE Sections = {}
  <2> DEFINE f == [n \in Sections |-> A]
  <2>1. FromParent(f, V, A, G)
    BY <1>2 DEF FromParent
  <2> QED BY <2>1
<1>3. CASE Sections # {}
  <2>1. PICK k \in Sections : Sections = 0 .. k
    BY <1>3, SectionFacts
  <2>2. PICK f : Upto(k, f)
    BY <1>1, <2>1
  <2>3. FromParent(f, V, A, G)
    BY <2>1, <2>2 DEF FromParent
  <2> QED BY <2>3
<1> QED BY <1>2, <1>3

-----------------------------------------------------------------------------
(* The sections a search passes through, as their definition states them. *)
LEMMA PathDef ==
    /\ Path \in [Sections -> SUBSET Sections]
    /\ \A n \in Sections : Path[n] = IF n = 0 THEN {} ELSE {n \div 2} \cup Path[n \div 2]
<1> DEFINE G == [n \in Sections |-> [v \in SUBSET Sections |-> ({n \div 2} \cap Sections) \cup v]]
<1>1. G \in [Sections -> [SUBSET Sections -> SUBSET Sections]]
  OBVIOUS
<1>2. PICK f \in [Sections -> SUBSET Sections] :
        \A n \in Sections : f[n] = IF n = 0 THEN {} ELSE G[n][f[n \div 2]]
  <2>1. PICK V : V = SUBSET Sections
    OBVIOUS
  <2>2. PICK A \in V : A = {}
    BY <2>1
  <2>3. G \in [Sections -> [V -> V]]
    BY <1>1, <2>1
  <2> HIDE DEF G
  <2>4. PICK f : FromParent(f, V, A, G)
    BY <2>3, TreeRecursion
  <2> QED BY <2>1, <2>2, <2>4 DEF FromParent
<1>3. ASSUME NEW n \in Sections, n # 0 PROVE G[n][f[n \div 2]] = {n \div 2} \cup f[n \div 2]
  <2>1. n \div 2 \in Sections
    BY <1>3, SectionFacts
  <2>2. f[n \div 2] \in SUBSET Sections
    BY <1>2, <2>1
  <2> QED BY <2>1, <2>2
<1>4. f = [n \in Sections |-> IF n = 0 THEN {} ELSE {n \div 2} \cup f[n \div 2]]
  <2> HIDE DEF G
  <2> QED BY <1>2, <1>3
<1>5. Path = [n \in Sections |-> IF n = 0 THEN {} ELSE {n \div 2} \cup Path[n \div 2]]
  BY <1>4 DEF Path
<1>6. \A n \in Sections : Path[n] = IF n = 0 THEN {} ELSE {n \div 2} \cup Path[n \div 2]
  BY <1>5
<1> DEFINE S == {n \in Sections : Path[n] \in SUBSET Sections}
<1>7. \A n \in Sections : n = 0 \/ n \div 2 \in S => n \in S
  BY <1>6, SectionFacts
<1>8. \A n \in Sections : n \in S
  <2> HIDE DEF S
  <2> QED BY <1>7, TreeInduction
<1> QED BY <1>5, <1>6, <1>8

-----------------------------------------------------------------------------
(* Where a section lies, as kernel_heap_tree_init computes it. *)
Halved(v, n) == [offset |-> v.offset + (n % 2) * (v.size \div 2), size |-> v.size \div 2]
Whole        == [offset |-> 0, size |-> MINBLOCK * 2^(Levels + 1)]
Places       == [offset : Int, size : Int]

LEMMA SectionDef ==
    /\ \A n \in Sections : Section[n] \in Places
    /\ \A n \in Sections : Section[n] = IF n = 0 THEN Whole ELSE Halved(Section[n \div 2], n)
<1> DEFINE G == [n \in Sections |-> [v \in Places |-> Halved(v, n)]]
<1>1. Whole \in Places
  <2>1. 2^(Levels + 1) \in Int
    BY LevelAssumption
  <2> QED BY <2>1 DEF Whole, Places, MINBLOCK
<1>2. ASSUME NEW n \in Sections, NEW v \in Places PROVE Halved(v, n) \in Places
  <2>1. n \in Nat /\ v.offset \in Int /\ v.size \in Int
    BY SectionFacts DEF Places
  <2>2. (n % 2 = 0 \/ n % 2 = 1) /\ v.size \div 2 \in Int
    BY <2>1
  <2>3. (n % 2) * (v.size \div 2) \in Int
    BY <2>2
  <2> QED BY <2>1, <2>2, <2>3 DEF Halved, Places
<1>3. G \in [Sections -> [Places -> Places]]
  BY <1>2
<1>4. PICK f : FromParent(f, Places, Whole, G)
  <2> HIDE DEF G
  <2> QED BY <1>1, <1>3, TreeRecursion
<1>5. ASSUME NEW n \in Sections, n # 0 PROVE G[n][f[n \div 2]] = Halved(f[n \div 2], n)
  <2>1. n \div 2 \in Sections
    BY <1>5, SectionFacts
  <2>2. f[n \div 2] \in Places
    BY <1>4, <2>1 DEF FromParent
  <2> QED BY <2>2
<1>6. f = [n \in Sections |-> IF n = 0 THEN Whole ELSE Halved(f[n \div 2], n)]
  <2> HIDE DEF G
  <2> QED BY <1>4, <1>5 DEF FromParent
<1>7. Section = [n \in Sections |-> IF n = 0 THEN Whole ELSE Halved(Section[n \div 2], n)]
  BY <1>6 DEF Section, Whole, Halved
<1>8. \A n \in Sections : Section[n] = IF n = 0 THEN Whole ELSE Halved(Section[n \div 2], n)
  BY <1>7
<1> DEFINE S == {n \in Sections : Section[n] \in Places}
<1>9. \A n \in Sections : n = 0 \/ n \div 2 \in S => n \in S
  BY <1>1, <1>2, <1>8
<1>10. \A n \in Sections : n \in S
  <2> HIDE DEF S
  <2> QED BY <1>9, TreeInduction
<1> QED BY <1>8, <1>10

-----------------------------------------------------------------------------
Span(n) == Bytes(n, Section[n].size)

LEMMA PathBelow == \A n \in Sections : \A q \in Path[n] : q < n
<1> DEFINE S == {n \in Sections : \A q \in Path[n] : q < n}
<1>1. ASSUME NEW n \in Sections, n = 0 \/ n \div 2 \in S PROVE n \in S
  <2>1. CASE n = 0
    BY <2>1, PathDef
  <2>2. CASE n # 0
    <3>1. n \in Nat /\ n \div 2 \in Nat /\ n \div 2 < n
      BY <2>2, SectionFacts
    <3>2. \A q \in Path[n] : q = n \div 2 \/ (q \in Path[n \div 2] /\ q < n \div 2 /\ q \in Nat)
      BY <1>1, <2>2, PathDef, SectionFacts
    <3> QED BY <3>1, <3>2
  <2> QED BY <2>1, <2>2
<1>2. \A n \in Sections : n \in S
  <2> HIDE DEF S
  <2> QED BY <1>1, TreeInduction
<1> QED BY <1>2

(* A section and its parent, in numbers. *)
LEMMA ChildNumbers ==
    ASSUME NEW n \in Sections, n # 0
    PROVE  /\ Section[n \div 2].offset \in Int /\ Section[n \div 2].size \in Int
           /\ Section[n].size = Section[n \div 2].size \div 2
           /\ n % 2 = 0 => Section[n].offset = Section[n \div 2].offset
           /\ n % 2 = 1 => Section[n].offset = Section[n \div 2].offset + Section[n].size
           /\ n % 2 = 0 \/ n % 2 = 1
<1>1. n \in Nat /\ n \div 2 \in Sections
  BY SectionFacts
<1>2. PICK v \in Places : v = Section[n \div 2]
  BY <1>1, SectionDef
<1>3. Section[n] = Halved(v, n)
  BY <1>2, SectionDef
<1>4. v.offset \in Int /\ v.size \in Int /\ v.size \div 2 \in Int
  BY <1>2 DEF Places
<1>5. Section[n].size = v.size \div 2 /\ Section[n].offset = v.offset + (n % 2) * (v.size \div 2)
  BY <1>3 DEF Halved
<1>6. PICK h \in Int : h = v.size \div 2
  BY <1>4
<1>7. n % 2 = 0 => (n % 2) * h = 0
  BY <1>6
<1>8. n % 2 = 1 => (n % 2) * h = h
  BY <1>6
<1>9. n % 2 = 0 \/ n % 2 = 1
  BY <1>1
<1> QED BY <1>2, <1>4, <1>5, <1>6, <1>7, <1>8, <1>9

LEMMA ChildInParent == \A n \in Sections \ {0} : Span(n) \subseteq Span(n \div 2)
<1> SUFFICES ASSUME NEW n \in Sections \ {0} PROVE Span(n) \subseteq Span(n \div 2)
  OBVIOUS
<1>1. PICK o \in Int, z \in Int : o = Section[n \div 2].offset /\ z = Section[n \div 2].size
  BY ChildNumbers
<1>2. PICK h \in Int : h = z \div 2 /\ (h >= 1 => 2 * h <= z)
  BY <1>1
<1>3. Section[n].size = h /\ (Section[n].offset = o \/ Section[n].offset = o + h)
  BY <1>1, <1>2, ChildNumbers
<1>4. Span(n) = o .. o + h - 1 \/ Span(n) = o + h .. o + h + h - 1
  BY <1>3 DEF Span, Bytes
<1>5. Span(n \div 2) = o .. o + z - 1
  BY <1>1 DEF Span, Bytes
<1> QED BY <1>2, <1>4, <1>5

LEMMA SectionInHeap == \A n \in Sections : Span(n) \subseteq Span(0)
<1> DEFINE S == {n \in Sections : Span(n) \subseteq Span(0)}
<1>1. \A n \in Sections : n = 0 \/ n \div 2 \in S => n \in S
  BY ChildInParent
<1>2. \A n \in Sections : n \in S
  <2> HIDE DEF S
  <2> QED BY <1>1, TreeInduction
<1> QED BY <1>2

LEMMA BuddiesDisjoint ==
    ASSUME NEW n \in Sections, NEW m \in Sections, n # 0, m # 0, n # m, n \div 2 = m \div 2
    PROVE  Span(n) \cap Span(m) = {}
<1>1. n \in Nat /\ m \in Nat
  BY SectionFacts
<1>2. n % 2 # m % 2
  BY <1>1
<1>3. PICK o \in Int, z \in Int : o = Section[n \div 2].offset /\ z = Section[n \div 2].size
  BY ChildNumbers
<1>4. PICK h \in Int : h = z \div 2
  BY <1>3
<1>5. Section[n].size = h /\ Section[m].size = h
  BY <1>3, <1>4, ChildNumbers
<1>6. \/ Section[n].offset = o /\ Section[m].offset = o + h
      \/ Section[n].offset = o + h /\ Section[m].offset = o
  BY <1>2, <1>3, <1>5, ChildNumbers
<1>7. \/ Span(n) = o .. o + h - 1 /\ Span(m) = o + h .. o + h + h - 1
      \/ Span(m) = o .. o + h - 1 /\ Span(n) = o + h .. o + h + h - 1
  BY <1>5, <1>6 DEF Span, Bytes
<1> QED BY <1>7

(* Two sections overlap only if one is on the path to the other.  In the      *)
(* first pair n < m that did, either the parent of m makes an earlier one, or *)
(* n and m are buddies.                                                       *)
LEMMA SectionsDisjoint ==
    ASSUME NEW n \in Sections, NEW m \in Sections, n # m, n \notin Path[m], m \notin Path[n]
    PROVE  Span(n) \cap Span(m) = {}
<1> DEFINE T == {k \in Sections : \E j \in Sections : /\ j < k /\ j \notin Path[k]
                                                       /\ Span(j) \cap Span(k) # {}}
<1>1. ASSUME T # {} PROVE FALSE
  <2>1. PICK k \in T : \A y \in T : k <= y
    BY <1>1, SectionFacts, Least
  <2>2. PICK j \in Sections : j < k /\ j \notin Path[k] /\ Span(j) \cap Span(k) # {}
    OBVIOUS
  <2>3. k \in Sections /\ k \in Nat /\ j \in Nat /\ k # 0
    BY <2>2, SectionFacts
  <2>4. PICK q \in Sections : q = k \div 2
    BY <2>3, SectionFacts
  <2>5. q \in Nat /\ q < k /\ (k = 2 * q \/ k = 2 * q + 1)
    BY <2>3, <2>4
  <2>6. j # q /\ j \notin Path[q] /\ Span(j) \cap Span(q) # {}
    BY <2>2, <2>3, <2>4, PathDef, ChildInParent
  <2>7. q \notin T /\ j \notin T
    <3>1. ~ (k <= q) /\ ~ (k <= j)
      BY <2>2, <2>3, <2>5
    <3> HIDE DEF T
    <3> QED BY <2>1, <3>1
  <2>8. q < j /\ q \in Path[j]
    <3>1. ~ (j < q)
      BY <2>6, <2>7
    <3>2. q < j
      BY <2>3, <2>5, <2>6, <3>1
    <3> QED BY <2>6, <2>7, <3>2
  <2>9. j # 0 /\ j \div 2 \in Sections /\ j \div 2 \in Nat
    BY <2>3, <2>5, <2>8, SectionFacts
  <2>10. j \div 2 # q
    BY <2>2, <2>3, <2>4, <2>9, BuddiesDisjoint
  <2>11. q \in Path[j \div 2]
    BY <2>8, <2>9, <2>10, PathDef
  <2>12. q < j \div 2
    BY <2>9, <2>11, PathBelow
  <2>13. j >= 2 * q + 2
    BY <2>3, <2>5, <2>9, <2>12
  <2> QED BY <2>2, <2>3, <2>5, <2>13
<1>2. n \in Nat /\ m \in Nat
  BY SectionFacts
<1>3. CASE n < m
  BY <1>1, <1>3
<1>4. CASE m < n
  BY <1>1, <1>4
<1> QED BY <1>2, <1>3, <1>4

-----------------------------------------------------------------------------
(* What the callers hold: each an allocated section of its own that is large  *)
(* enough.  A section stays OCCUPIED after kfree, so this goes one way only.  *)
LiveInv ==
    /\ \A a \in live : flags[a.section] = OCCUPIED /\ a.size <= Section[a.section].size
    /\ \A a, b \in live : a.section = b.section => a = b

LEMMA NextLive == HeapInv /\ LiveInv /\ [Next]_vars => LiveInv'
<1> SUFFICES ASSUME HeapInv, LiveInv, [Next]_vars PROVE LiveInv'
  OBVIOUS
<1>1. ASSUME NEW size \in Requests, NEW n \in Sections, Allocate(n, size) PROVE LiveInv'
  <2>1. flags[n] # OCCUPIED /\ size <= Section[n].size
    BY <1>1 DEF Allocate, FirstFit, Candidate, Fits
  <2>2. \A m \in Sections : flags'[m] = OCCUPIED <=> flags[m] = OCCUPIED \/ m = n
    BY <1>1 DEF Allocate, HeapInv, TypeOK
  <2>3. live' = live \cup {[section |-> n, size |-> size]}
    BY <1>1 DEF Allocate
  <2>4. \A a \in live : a.section \in Sections /\ a.section # n
    BY <2>1 DEF LiveInv, HeapInv, TypeOK
  <2>5. \A a \in live' : flags'[a.section] = OCCUPIED /\ a.size <= Section[a.section].size
    BY <2>1, <2>2, <2>3, <2>4 DEF LiveInv
  <2>6. \A a, b \in live' : a.section = b.section => a = b
    BY <2>3, <2>4 DEF LiveInv
  <2> QED BY <2>5, <2>6 DEF LiveInv
<1>2. ASSUME NEW size \in Requests, AllocateFails(size) PROVE LiveInv'
  BY <1>2 DEF AllocateFails, LiveInv
<1>3. ASSUME NEW a \in live, kfree(a) PROVE LiveInv'
  BY <1>3 DEF kfree, LiveInv
<1>4. CASE UNCHANGED vars
  BY <1>4 DEF vars, LiveInv
<1>5. CASE kfree_outside
  BY <1>5 DEF kfree_outside, LiveInv
<1> QED BY <1>1, <1>2, <1>3, <1>4, <1>5 DEF Next, kalloc, Stuck

LEMMA LiveRegions == HeapInv /\ LiveInv => RegionsDisjoint
<1> SUFFICES ASSUME HeapInv, LiveInv, NEW a \in live, NEW b \in live
             PROVE  /\ Bytes(a.section, a.size) \subseteq Bytes(0, Section[0].size)
                    /\ a # b => Bytes(a.section, a.size) \cap Bytes(b.section, b.size) = {}
  BY DEF RegionsDisjoint
<1>1. ASSUME NEW c \in live PROVE c.section \in Sections /\ Bytes(c.section, c.size) \subseteq Span(c.section)
  <2>0. c.section \in Sections /\ c.size \in Requests
    BY DEF HeapInv, TypeOK
  <2>1. PICK r \in Requests : r = c.size
    BY <2>0
  <2>2. r \in Nat
    BY RequestAssumption
  <2>3. Section[c.section].offset \in Int /\ Section[c.section].size \in Int
    BY <2>0, SectionDef DEF Places
  <2>4. r <= Section[c.section].size
    BY <2>1 DEF LiveInv
  <2> QED BY <2>0, <2>1, <2>2, <2>3, <2>4 DEF Span, Bytes
<1>2. Bytes(a.section, a.size) \subseteq Bytes(0, Section[0].size)
  BY <1>1, SectionInHeap DEF Span
<1>3. ASSUME a # b PROVE Span(a.section) \cap Span(b.section) = {}
  <2>1. a.section # b.section /\ flags[a.section] = OCCUPIED /\ flags[b.section] = OCCUPIED
    BY <1>3 DEF LiveInv
  <2>2. a.section \notin Path[b.section] /\ b.section \notin Path[a.section]
    BY <1>1, <2>1 DEF HeapInv, NotNested
  <2> QED BY <1>1, <2>1, <2>2, SectionsDisjoint
<1> QED BY <1>1, <1>2, <1>3

(* kalloc: the regions the callers hold lie in the heap and no two of them    *)
(* share a byte, whatever was allocated and freed before.                     *)
THEOREM HeapRegionsDisjoint == Spec => []RegionsDisjoint
<1>1. Init => LiveInv
  BY DEF Init, LiveInv
<1>2. Spec => [](HeapInv /\ LiveInv)
  BY <1>1, InitHeap, NextHeap, NextLive, PTL DEF Spec
<1> QED BY <1>2, LiveRegions, PTL

-----------------------------------------------------------------------------
(* Linked lists *)

(* The links of a list of either use: the entries are different, first leads  *)
(* along them and back to the header.  A header that was never used has NULL  *)
(* in both fields.                                                            *)
Distinct == \A i, j \in DOMAIN members : members[i] = members[j] => i = j

Linked == /\ \A i \in 0 .. Len(members) - 1 : next[At(i)] = members[i + 1]
          /\ next[At(Len(members))] \in IF members = <<>> THEN {NULL, HEADER} ELSE {HEADER}
          /\ first = NULL => last = NULL

(* The other direction: in a stack list every prev is the header, and last is *)
(* no entry; in a queue prev leads back, and the count is the length.         *)
StackBack == /\ \A i \in DOMAIN members : prev[members[i]] = HEADER
             /\ last \in {NULL, HEADER}

QueueBack == /\ \A i \in DOMAIN members : prev[members[i]] = At(i - 1)
             /\ members # <<>> => last = members[Len(members)]
             /\ members = <<>> => last = first
             /\ entry_count = Len(members)

ListInv == /\ ListTypes /\ Distinct /\ Linked /\ ~ panic
           /\ use = "stack" => StackBack
           /\ use = "queue" => QueueBack

LEMMA InitList == ListInit => ListInv
<1> SUFFICES ASSUME ListInit PROVE ListInv
  OBVIOUS
<1>1. HEADER \in Nodes /\ members = <<>> /\ Len(members) = 0 /\ DOMAIN members = {}
  BY DEF ListInit, Nodes
<1>2. ListTypes
  <2>1. next \in [Nodes -> Nodes \cup {NULL}] /\ prev \in [Nodes -> Nodes \cup {NULL}]
    BY DEF ListInit
  <2>2. members \in Seq(Entries)
    BY <1>1, EmptySeq
  <2>3. panic \in BOOLEAN /\ entry_count \in Nat /\ use \in {"stack", "queue"}
    BY DEF ListInit
  <2> QED BY <2>1, <2>2, <2>3 DEF ListInit, ListTypes
<1>3. first = NULL /\ last = NULL
  BY <1>1 DEF ListInit, first, last
<1>4. Linked
  BY <1>1, <1>3 DEF Linked, At, first
<1> QED BY <1>1, <1>2, <1>3, <1>4 DEF ListInit, ListInv, Distinct, StackBack, QueueBack

(* The entries of the list, as places in memory. *)
LEMMA InMemory ==
    ASSUME ListTypes
    PROVE  /\ HEADER \in Nodes /\ HEADER \notin Entries /\ Entries \subseteq Nodes /\ NULL \notin Nodes
           /\ Len(members) \in Nat /\ DOMAIN members = 1 .. Len(members)
           /\ \A i \in 1 .. Len(members) : members[i] \in Entries
           /\ \A i \in 0 .. Len(members) : At(i) \in Nodes /\ (At(i) = HEADER <=> i = 0)
<1>1. HEADER \in Nodes /\ HEADER \notin Entries /\ Entries \subseteq Nodes /\ NULL \notin Nodes
  BY ListAssumption DEF Nodes
<1>2. /\ Len(members) \in Nat /\ DOMAIN members = 1 .. Len(members)
      /\ \A i \in 1 .. Len(members) : members[i] \in Entries
  BY DEF ListTypes
<1>3. ASSUME NEW i \in 0 .. Len(members) PROVE At(i) \in Nodes /\ (At(i) = HEADER <=> i = 0)
  <2>1. CASE i = 0
    BY <1>1, <2>1 DEF At
  <2>2. CASE i # 0
    <3>1. i \in 1 .. Len(members)
      BY <1>2, <2>2
    <3> QED BY <1>1, <1>2, <2>2, <3>1 DEF At
  <2> QED BY <2>1, <2>2
<1> QED BY <1>1, <1>2, <1>3

(* A new entry becomes the first one. *)
LEMMA PushKeeps == ASSUME ListInv, NEW e \in Entries, Push(e) PROVE ListInv'
<1>0. ListTypes /\ Distinct /\ Linked /\ ~ panic /\ StackBack
  BY DEF ListInv, Push
<1>1. PICK n \in Nat : n = Len(members)
  BY <1>0, InMemory
<1>2. /\ members \in Seq(Entries) /\ e \in Nodes /\ e # HEADER
      /\ next \in [Nodes -> Nodes \cup {NULL}] /\ prev \in [Nodes -> Nodes \cup {NULL}] /\ HEADER \in Nodes
  BY <1>0, InMemory DEF ListTypes
<1>3. \A i \in 1 .. n : members[i] # e /\ members[i] \in Entries /\ members[i] \in Nodes /\ members[i] # HEADER
  BY <1>0, <1>1, InMemory DEF Push, On
<1>4. /\ members' \in Seq(Entries) /\ Len(members') = n + 1 /\ members'[1] = e
      /\ \A i \in 1 .. n : members'[i + 1] = members[i]
  BY <1>1, <1>2 DEF Push
<1>5. DOMAIN members = 1 .. n /\ DOMAIN members' = 1 .. n + 1
  BY <1>1, <1>2, <1>4
<1>6. \A i \in 2 .. n + 1 : i - 1 \in 1 .. n /\ members'[i] = members[i - 1]
  BY <1>4
<1>7. /\ next'[HEADER] = e /\ next'[e] = (IF first = NULL THEN HEADER ELSE first)
      /\ \A i \in 1 .. n : next'[members[i]] = next[members[i]]
      /\ next' \in [Nodes -> Nodes \cup {NULL}]
  BY <1>2, <1>3 DEF Push, insert_dll_entry_head, first
<1>8. /\ prev'[HEADER] = prev[HEADER] /\ prev'[e] = HEADER
      /\ \A i \in 1 .. n : prev'[members[i]] = prev[members[i]]
      /\ prev' \in [Nodes -> Nodes \cup {NULL}]
  BY <1>2, <1>3 DEF Push, insert_dll_entry_head
<1>9. panic' = FALSE
  BY <1>0 DEF Push, insert_dll_entry_head, Linked
<1>10. ListTypes'
  BY <1>0, <1>4, <1>7, <1>8, <1>9 DEF Push, insert_dll_entry_head, ListTypes
<1>11. Distinct'
  <2> SUFFICES ASSUME NEW i \in 1 .. n + 1, NEW j \in 1 .. n + 1, members'[i] = members'[j] PROVE i = j
    BY <1>5 DEF Distinct
  <2>1. CASE i = 1 \/ j = 1
    BY <1>3, <1>4, <1>6, <2>1
  <2>2. CASE i # 1 /\ j # 1
    <3>1. i - 1 \in 1 .. n /\ j - 1 \in 1 .. n /\ members[i - 1] = members[j - 1]
      BY <1>6, <2>2
    <3>2. i - 1 = j - 1
      BY <1>0, <1>5, <3>1 DEF Distinct
    <3> QED BY <3>2
  <2> QED BY <2>1, <2>2
<1>12. next'[e] = IF n = 0 THEN HEADER ELSE members[1]
  <2>1. CASE n = 0
    <3>1. members = <<>>
      BY <1>1, <1>2, <2>1, EmptySeq
    <3>2. first \in {NULL, HEADER}
      BY <1>0, <1>1, <2>1, <3>1 DEF Linked, At, first
    <3> QED BY <1>7, <2>1, <3>2
  <2>2. CASE n # 0
    <3>1. 0 \in 0 .. n - 1 /\ 1 \in 1 .. n
      BY <2>2
    <3>2. next[At(0)] = members[0 + 1]
      BY <1>0, <1>1, <3>1 DEF Linked
    <3>3. first = members[1] /\ members[1] # NULL
      BY <1>0, <1>1, <3>1, <3>2, InMemory DEF At, first
    <3> QED BY <1>7, <2>2, <3>3
  <2> QED BY <2>1, <2>2
<1>13. Linked'
  <2>1. ASSUME NEW i \in 0 .. n PROVE next'[At(i)'] = members'[i + 1]
    <3>1. CASE i = 0
      BY <1>4, <1>7, <3>1 DEF At
    <3>2. CASE i = 1
      <4>1. At(i)' = e /\ n # 0 /\ members'[i + 1] = members[1]
        BY <1>4, <3>2 DEF At
      <4> QED BY <1>12, <4>1
    <3>3. CASE i > 1
      <4>1. i \in 2 .. n + 1 /\ i - 1 \in 1 .. n /\ i - 1 \in 0 .. n - 1 /\ i - 1 # 0 /\ i - 1 + 1 = i /\ i \in 1 .. n
        BY <3>3
      <4>2. At(i)' = members[i - 1]
        BY <1>6, <3>3, <4>1 DEF At
      <4>3. next[At(i - 1)] = members[i]
        BY <1>0, <1>1, <4>1 DEF Linked
      <4>4. next[members[i - 1]] = members[i]
        BY <4>1, <4>3 DEF At
      <4> QED BY <1>4, <1>7, <4>1, <4>2, <4>4
    <3> QED BY <3>1, <3>2, <3>3
  <2>2. next'[At(n + 1)'] = HEADER
    <3>1. CASE n = 0
      BY <1>4, <1>12, <3>1 DEF At
    <3>2. CASE n # 0
      <4>1. n + 1 \in 2 .. n + 1 /\ n \in 1 .. n /\ n + 1 - 1 = n /\ members # <<>>
        BY <1>1, <1>2, <3>2
      <4>2. At(n + 1)' = members[n] /\ At(n) = members[n]
        BY <1>6, <3>2, <4>1 DEF At
      <4>3. next[At(n)] = HEADER
        BY <1>0, <1>1, <4>1 DEF Linked
      <4> QED BY <1>7, <4>1, <4>2, <4>3
    <3> QED BY <3>1, <3>2
  <2>3. first' # NULL
    BY <1>2, <1>7, ListAssumption DEF first
  <2>4. members' # <<>> /\ Len(members') - 1 = n
    BY <1>4
  <2> QED BY <1>4, <2>1, <2>2, <2>3, <2>4 DEF Linked
<1>14. StackBack'
  <2>1. \A i \in 1 .. n + 1 : prev'[members'[i]] = HEADER
    <3> SUFFICES ASSUME NEW i \in 1 .. n + 1 PROVE prev'[members'[i]] = HEADER
      OBVIOUS
    <3>1. CASE i = 1
      BY <1>4, <1>8, <3>1
    <3>2. CASE i # 1
      <4>1. i - 1 \in 1 .. n /\ members'[i] = members[i - 1]
        BY <1>6, <3>2
      <4> QED BY <1>0, <1>5, <1>8, <4>1 DEF StackBack
    <3> QED BY <3>1, <3>2
  <2> QED BY <1>0, <1>5, <1>8, <2>1 DEF StackBack, last
<1>15. use' = "stack"
  BY DEF Push
<1> QED BY <1>9, <1>10, <1>11, <1>13, <1>14, <1>15 DEF ListInv

(* Removing an entry whose prev is the header removes the ones before it too. *)
LEMMA Cut ==
    ASSUME ListTypes, Distinct, Linked,
           NEW n \in Nat, n = Len(members), NEW k \in 1 .. n, NEW e, e = members[k],
           prev[e] = HEADER, remove_dll_entry(e), members' = SubSeq(members, k + 1, Len(members))
    PROVE  /\ members' \in Seq(Entries) /\ Len(members') = n - k /\ DOMAIN members' = 1 .. n - k
           /\ \A i \in 1 .. n - k : k + i \in 1 .. n /\ members'[i] = members[k + i]
           /\ next' \in [Nodes -> Nodes \cup {NULL}]
           /\ prev' \in [Nodes -> Nodes \cup {NULL}]
           /\ Distinct' /\ Linked'
           /\ prev' = [prev EXCEPT ![IF k = n THEN HEADER ELSE members[k + 1]] = HEADER]
           /\ k = n => first' = HEADER
<1>1. /\ members \in Seq(Entries) /\ HEADER \in Nodes /\ HEADER # NULL /\ DOMAIN members = 1 .. n
      /\ next \in [Nodes -> Nodes \cup {NULL}] /\ prev \in [Nodes -> Nodes \cup {NULL}]
      /\ \A i \in 1 .. n : members[i] \in Entries /\ members[i] \in Nodes /\ members[i] # HEADER /\ members[i] # NULL
  BY InMemory, ListAssumption DEF ListTypes
<1>2. /\ members' \in Seq(Entries) /\ Len(members') = n - k
      /\ \A i \in 1 .. n - k : k + i \in 1 .. n /\ members'[i] = members[k + i]
  <2>1. k + 1 \in Int /\ n \in Int /\ \A i \in k + 1 .. n : members[i] \in Entries
    BY <1>1
  <2>2. /\ members' \in Seq(Entries)
        /\ Len(members') = IF k + 1 <= n THEN n - (k + 1) + 1 ELSE 0
        /\ \A i \in 1 .. n - (k + 1) + 1 : members'[i] = members[k + 1 + i - 1]
    BY <2>1, SubSeqProperties
  <2> QED BY <2>2
<1>3. DOMAIN members' = 1 .. n - k
  BY <1>2
<1>4. next[e] = IF k = n THEN HEADER ELSE members[k + 1]
  <2>1. At(k) = e
    BY DEF At
  <2>2. CASE k = n
    <3>1. members # <<>>
      BY <1>1
    <3> QED BY <2>1, <2>2, <3>1 DEF Linked
  <2>3. CASE k # n
    <3>1. k \in 0 .. n - 1
      BY <2>3
    <3> QED BY <2>1, <2>3, <3>1 DEF Linked
  <2> QED BY <2>2, <2>3
<1>5. next' = [next EXCEPT ![HEADER] = next[e]]
  BY <1>1 DEF remove_dll_entry
<1>6. prev' = [prev EXCEPT ![IF k = n THEN HEADER ELSE members[k + 1]] = HEADER]
  <2>1. CASE k = n
    BY <1>1, <1>4, <2>1 DEF remove_dll_entry
  <2>2. CASE k # n
    <3>1. k + 1 \in 1 .. n
      BY <2>2
    <3>2. next[e] = members[k + 1] /\ next[e] # NULL
      BY <1>1, <1>4, <2>2, <3>1
    <3> QED BY <2>2, <3>2 DEF remove_dll_entry
  <2> QED BY <2>1, <2>2
<1>7. next' \in [Nodes -> Nodes \cup {NULL}] /\ prev' \in [Nodes -> Nodes \cup {NULL}]
  <2>1. e \in Nodes
    BY <1>1
  <2> QED BY <1>1, <1>5, <1>6, <2>1
<1>8. Distinct'
  <2> SUFFICES ASSUME NEW i \in 1 .. n - k, NEW j \in 1 .. n - k, members'[i] = members'[j] PROVE i = j
    BY <1>3 DEF Distinct
  <2>1. k + i \in 1 .. n /\ k + j \in 1 .. n /\ members[k + i] = members[k + j]
    BY <1>2
  <2>2. k + i = k + j
    BY <1>1, <2>1 DEF Distinct
  <2> QED BY <2>2
<1>9. next'[HEADER] = (IF k = n THEN HEADER ELSE members[k + 1]) /\ \A i \in 1 .. n : next'[members[i]] = next[members[i]]
  BY <1>1, <1>4, <1>5
<1>10. \A i \in 1 .. n - k : At(i)' = members[k + i] /\ At(k + i) = members[k + i]
  BY <1>2 DEF At
<1>11. Linked'
  <2>1. ASSUME NEW i \in 0 .. n - k - 1 PROVE next'[At(i)'] = members'[i + 1]
    <3>1. i + 1 \in 1 .. n - k /\ members'[i + 1] = members[k + (i + 1)]
      BY <1>2
    <3>2. CASE i = 0
      <4>1. At(i)' = HEADER /\ k # n
        BY <3>2 DEF At
      <4> QED BY <1>9, <3>1, <3>2, <4>1
    <3>3. CASE i # 0
      <4>1. i \in 1 .. n - k /\ k + i \in 1 .. n /\ k + i \in 0 .. n - 1 /\ k + (i + 1) = k + i + 1
        BY <3>3
      <4>2. next[At(k + i)] = members[k + i + 1]
        BY <4>1 DEF Linked
      <4> QED BY <1>9, <1>10, <3>1, <4>1, <4>2
    <3> QED BY <3>2, <3>3
  <2>2. next'[At(n - k)'] = HEADER
    <3>1. CASE k = n
      BY <1>9, <3>1 DEF At
    <3>2. CASE k # n
      <4>1. n - k \in 1 .. n - k /\ k + (n - k) = n /\ n \in 1 .. n /\ members # <<>>
        BY <1>1, <3>2
      <4>2. next[At(n)] = HEADER
        BY <4>1 DEF Linked
      <4> QED BY <1>9, <1>10, <4>1, <4>2
    <3> QED BY <3>1, <3>2
  <2>3. first' # NULL
    <3>1. k # n => k + 1 \in 1 .. n
      OBVIOUS
    <3> QED BY <1>1, <1>9, <3>1 DEF first
  <2> QED BY <1>2, <2>1, <2>2, <2>3 DEF Linked
<1> QED BY <1>2, <1>3, <1>6, <1>7, <1>8, <1>9, <1>11 DEF first

LEMMA UnlinkKeeps == ASSUME ListInv, NEW e \in Entries, Unlink(e) PROVE ListInv'
<1>0. ListTypes /\ Distinct /\ Linked /\ ~ panic /\ StackBack
  BY DEF ListInv, Unlink
<1>1. PICK n \in Nat : n = Len(members) /\ DOMAIN members = 1 .. n
  BY <1>0, InMemory
<1>2. PICK k \in 1 .. n : members[k] = e
  BY <1>1 DEF Unlink, On
<1>3. (CHOOSE i \in DOMAIN members : members[i] = e) = k
  BY <1>0, <1>1, <1>2 DEF Distinct
<1>4. members' = SubSeq(members, k + 1, Len(members))
  BY <1>3 DEF Unlink
<1>5. prev[e] = HEADER /\ remove_dll_entry(e)
  BY <1>0, <1>1, <1>2 DEF StackBack, Unlink
<1>6. /\ members' \in Seq(Entries) /\ DOMAIN members' = 1 .. n - k
      /\ \A i \in 1 .. n - k : k + i \in 1 .. n /\ members'[i] = members[k + i]
      /\ next' \in [Nodes -> Nodes \cup {NULL}] /\ prev' \in [Nodes -> Nodes \cup {NULL}]
      /\ Distinct' /\ Linked'
      /\ prev' = [prev EXCEPT ![IF k = n THEN HEADER ELSE members[k + 1]] = HEADER]
  BY <1>0, <1>1, <1>2, <1>4, <1>5, Cut
<1>7. use = "stack" /\ UNCHANGED <<use, entry_count, panic>>
  BY DEF Unlink
<1>8. ListTypes'
  BY <1>0, <1>6, <1>7 DEF ListTypes
<1>9. StackBack'
  <2>1. \A x \in Nodes : prev'[x] \in {HEADER, prev[x]}
    BY <1>0, <1>6 DEF ListTypes
  <2>2. \A i \in 1 .. n : prev[members[i]] = HEADER /\ members[i] \in Nodes
    BY <1>0, <1>1, InMemory DEF StackBack
  <2>3. HEADER \in Nodes /\ prev[HEADER] \in {NULL, HEADER}
    BY <1>0, InMemory DEF StackBack, last
  <2> QED BY <1>6, <2>1, <2>2, <2>3 DEF StackBack, last
<1> QED BY <1>0, <1>6, <1>7, <1>8, <1>9 DEF ListInv

LEMMA DequeueKeeps == ASSUME ListInv, Dequeue PROVE ListInv'
<1>0. ListTypes /\ Distinct /\ Linked /\ ~ panic /\ QueueBack
  BY DEF ListInv, Dequeue
<1>1. PICK n \in Nat : n = Len(members) /\ DOMAIN members = 1 .. n
  BY <1>0, InMemory
<1>2. n # 0 /\ 1 \in 1 .. n /\ members # <<>> /\ members \in Seq(Entries)
  BY <1>0, <1>1 DEF Dequeue, remove_dll_entry_head, HasHead, QueueBack, ListTypes
<1>3. PICK e : e = members[1]
  OBVIOUS
<1>4. first = e /\ prev[e] = HEADER
  <2>1. 0 \in 0 .. n - 1 /\ At(0) = HEADER
    BY <1>2 DEF At
  <2>2. next[At(0)] = members[0 + 1]
    BY <1>0, <1>1, <2>1 DEF Linked
  <2>3. prev[members[1]] = At(1 - 1)
    BY <1>0, <1>1, <1>2 DEF QueueBack
  <2> QED BY <1>3, <2>1, <2>2, <2>3 DEF first
<1>5. remove_dll_entry(e)
  BY <1>4 DEF Dequeue, remove_dll_entry_head
<1>6. members' = SubSeq(members, 1 + 1, Len(members))
  <2>1. members' = SubSeq(members, 2, Len(members))
    BY <1>2, TailIsSubSeq DEF Dequeue
  <2> QED BY <2>1
<1>7. /\ members' \in Seq(Entries) /\ Len(members') = n - 1 /\ DOMAIN members' = 1 .. n - 1
      /\ \A i \in 1 .. n - 1 : 1 + i \in 1 .. n /\ members'[i] = members[1 + i]
      /\ next' \in [Nodes -> Nodes \cup {NULL}] /\ prev' \in [Nodes -> Nodes \cup {NULL}]
      /\ Distinct' /\ Linked'
      /\ prev' = [prev EXCEPT ![IF 1 = n THEN HEADER ELSE members[1 + 1]] = HEADER]
      /\ 1 = n => first' = HEADER
  BY <1>0, <1>1, <1>2, <1>3, <1>4, <1>5, <1>6, Cut
<1>8. use = "queue" /\ UNCHANGED <<use, panic>> /\ entry_count' = n - 1
  BY <1>0, <1>1 DEF Dequeue, remove_dll_entry_head, QueueBack
<1>9. ListTypes'
  <2>1. n - 1 \in Nat
    BY <1>2
  <2> QED BY <1>0, <1>7, <1>8, <2>1 DEF ListTypes
<1>10. QueueBack'
  <2>0. /\ HEADER \in Nodes /\ prev \in [Nodes -> Nodes \cup {NULL}]
        /\ \A i \in 1 .. n : members[i] \in Nodes /\ members[i] # HEADER
        /\ \A i, j \in 1 .. n : members[i] = members[j] => i = j
    BY <1>0, <1>1, InMemory DEF ListTypes, Distinct
  <2>1. ASSUME NEW i \in 1 .. n - 1 PROVE prev'[members'[i]] = At(i - 1)'
    <3>1. 1 + i \in 1 .. n /\ members'[i] = members[1 + i] /\ n # 1 /\ 2 \in 1 .. n
      BY <1>7
    <3>2. CASE i = 1
      <4>1. prev'[members[2]] = HEADER
        BY <1>7, <2>0, <3>1
      <4> QED BY <3>1, <3>2, <4>1 DEF At
    <3>3. CASE i # 1
      <4>1. i - 1 \in 1 .. n - 1 /\ 1 + (i - 1) = i /\ i \in 1 .. n /\ 1 + i # 2 /\ 1 + i - 1 = i /\ i # 0 /\ i - 1 # 0
        BY <3>3
      <4>2. prev'[members[1 + i]] = prev[members[1 + i]]
        BY <1>7, <2>0, <3>1, <4>1
      <4>3. prev[members[1 + i]] = members[i]
        BY <1>0, <1>1, <3>1, <4>1 DEF QueueBack, At
      <4>4. At(i - 1)' = members[i]
        BY <1>7, <4>1 DEF At
      <4> QED BY <3>1, <4>2, <4>3, <4>4
    <3> QED BY <3>2, <3>3
  <2>2. CASE n = 1
    <3>1. members' = <<>>
      BY <1>7, <2>2, EmptySeq
    <3>2. last' = HEADER /\ first' = HEADER
      BY <1>7, <2>0, <2>2 DEF last
    <3> QED BY <1>7, <1>8, <2>1, <2>2, <3>1, <3>2 DEF QueueBack
  <2>3. CASE n # 1
    <3>1. 2 \in 1 .. n /\ n - 1 \in 1 .. n - 1 /\ 1 + (n - 1) = n /\ members' # <<>>
      BY <1>2, <1>7, <2>3
    <3>2. last' = last
      BY <1>7, <2>0, <2>3, <3>1 DEF last
    <3>3. last = members[n]
      BY <1>0, <1>1, <1>2 DEF QueueBack
    <3>4. last' = members'[n - 1]
      BY <1>7, <3>1, <3>2, <3>3
    <3> QED BY <1>7, <1>8, <2>1, <3>1, <3>4 DEF QueueBack
  <2> QED BY <2>2, <2>3
<1> QED BY <1>0, <1>7, <1>8, <1>9, <1>10 DEF ListInv

(* The last entry, or the header of an empty list, gets the new one as its    *)
(* next, whether last was NULL, the header or an entry.                       *)
LEMMA EnqueueKeeps == ASSUME ListInv, NEW e \in Entries, Enqueue(e) PROVE ListInv'
<1>0. ListTypes /\ Distinct /\ Linked /\ ~ panic /\ QueueBack
  BY DEF ListInv, Enqueue
<1>1. PICK n \in Nat : n = Len(members) /\ DOMAIN members = 1 .. n
  BY <1>0, InMemory
<1>2. /\ members \in Seq(Entries) /\ e \in Nodes /\ e # HEADER /\ HEADER \in Nodes /\ NULL \notin Nodes
      /\ next \in [Nodes -> Nodes \cup {NULL}] /\ prev \in [Nodes -> Nodes \cup {NULL}]
  BY <1>0, InMemory DEF ListTypes
<1>3. \A i \in 1 .. n : members[i] # e /\ members[i] \in Nodes /\ members[i] # HEADER
  BY <1>0, <1>1, InMemory DEF Enqueue, On
<1>4. PICK t \in Nodes : t = At(n) /\ t # e
  <2>1. At(n) \in Nodes
    BY <1>0, <1>1, InMemory
  <2>2. At(n) # e
    BY <1>2, <1>3 DEF At
  <2> QED BY <2>1, <2>2
<1>5. last = t \/ (last = NULL /\ first = NULL /\ n = 0)
  <2>1. CASE n = 0
    <3>1. members = <<>>
      BY <1>1, <1>2, <2>1, EmptySeq
    <3>2. last = first /\ first \in {NULL, HEADER}
      BY <1>0, <1>1, <2>1, <3>1 DEF QueueBack, Linked, At, first
    <3> QED BY <1>4, <2>1, <3>2 DEF At
  <2>2. CASE n # 0
    <3>1. members # <<>>
      BY <1>1, <2>2
    <3> QED BY <1>0, <1>1, <1>4, <2>2, <3>1 DEF QueueBack, At
  <2> QED BY <2>1, <2>2
<1>6. /\ next'[t] = e /\ next'[e] = HEADER /\ next' \in [Nodes -> Nodes \cup {NULL}]
      /\ \A x \in Nodes : x # t /\ x # e => next'[x] = next[x]
  <2>1. CASE last = t
    <3>1. next' = [next EXCEPT ![e] = HEADER, ![t] = e]
      BY <1>2, <2>1 DEF Enqueue, insert_dll_entry_tail
    <3> QED BY <1>2, <1>4, <3>1
  <2>2. CASE last = NULL /\ n = 0
    <3>1. next' = [next EXCEPT ![HEADER] = e, ![e] = HEADER] /\ t = HEADER
      BY <1>4, <2>2 DEF Enqueue, insert_dll_entry_tail, At
    <3> QED BY <1>2, <1>4, <3>1
  <2> QED BY <1>5, <2>1, <2>2
<1>7. /\ prev'[HEADER] = e /\ prev'[e] = t /\ prev' \in [Nodes -> Nodes \cup {NULL}]
      /\ \A x \in Nodes : x # HEADER /\ x # e => prev'[x] = prev[x]
  <2>1. (IF last = NULL THEN HEADER ELSE last) = t
    BY <1>2, <1>4, <1>5 DEF At
  <2>2. prev' = [prev EXCEPT ![HEADER] = e, ![e] = t]
    BY <2>1 DEF Enqueue, insert_dll_entry_tail
  <2> QED BY <1>2, <2>2
<1>8. /\ members' \in Seq(Entries) /\ Len(members') = n + 1 /\ members'[n + 1] = e
      /\ \A i \in 1 .. n : members'[i] = members[i]
  BY <1>1, <1>2, AppendProperties DEF Enqueue
<1>9. DOMAIN members' = 1 .. n + 1 /\ members' # <<>>
  BY <1>8
<1>10. panic' = FALSE /\ use' = "queue" /\ use = "queue" /\ entry_count' = n + 1
  <2>1. entry_count = n
    BY <1>0, <1>1 DEF QueueBack
  <2>2. panic' = FALSE
    BY <1>0, <1>2, <1>5 DEF Enqueue, insert_dll_entry_tail
  <2> QED BY <2>1, <2>2 DEF Enqueue, insert_dll_entry_tail
<1>11. ListTypes'
  <2>1. n + 1 \in Nat
    OBVIOUS
  <2> QED BY <1>6, <1>7, <1>8, <1>10, <2>1 DEF ListTypes
<1>12. Distinct'
  <2> SUFFICES ASSUME NEW i \in 1 .. n + 1, NEW j \in 1 .. n + 1, members'[i] = members'[j] PROVE i = j
    BY <1>9 DEF Distinct
  <2>1. \A k \in 1 .. n + 1 : k # n + 1 => k \in 1 .. n
    OBVIOUS
  <2>2. CASE i = n + 1 \/ j = n + 1
    BY <1>3, <1>8, <2>1, <2>2
  <2>3. CASE i # n + 1 /\ j # n + 1
    BY <1>0, <1>1, <1>8, <2>1, <2>3 DEF Distinct
  <2> QED BY <2>2, <2>3
<1>13. At(n + 1)' = e /\ \A i \in 0 .. n : At(i)' = At(i)
  <2>1. ASSUME NEW i \in 0 .. n PROVE At(i)' = At(i)
    <3>1. i # 0 => i \in 1 .. n
      OBVIOUS
    <3> QED BY <1>8, <3>1 DEF At
  <2>2. n + 1 # 0
    OBVIOUS
  <2> QED BY <1>8, <2>1, <2>2 DEF At
<1>14. Linked'
  <2>1. ASSUME NEW i \in 0 .. n PROVE next'[At(i)'] = members'[i + 1]
    <3>1. CASE i = n
      BY <1>4, <1>6, <1>8, <1>13, <3>1
    <3>2. CASE i # n
      <4>1. i \in 0 .. n - 1 /\ i + 1 \in 1 .. n /\ (i # 0 => i \in 1 .. n) /\ (n # 0 => n \in 1 .. n)
        BY <3>2
      <4>2. next[At(i)] = members[i + 1]
        BY <1>0, <1>1, <4>1 DEF Linked
      <4>3. At(i) \in Nodes /\ At(i) # e /\ At(i) # t
        BY <1>0, <1>1, <1>2, <1>3, <1>4, <3>2, <4>1 DEF At, Distinct
      <4> QED BY <1>6, <1>8, <1>13, <4>1, <4>2, <4>3
    <3> QED BY <3>1, <3>2
  <2>2. next'[At(n + 1)'] = HEADER
    BY <1>6, <1>13
  <2>3. first' # NULL
    <3>1. 0 \in 0 .. n /\ 0 + 1 = 1 /\ 1 \in 1 .. n + 1
      OBVIOUS
    <3>2. next'[At(0)'] = members'[1]
      BY <2>1, <3>1
    <3>3. members'[1] \in Entries /\ At(0)' = HEADER
      BY <1>8, <3>1 DEF At
    <3> QED BY <3>2, <3>3, ListAssumption DEF first
  <2>4. Len(members') - 1 = n
    BY <1>8
  <2> QED BY <1>8, <1>9, <2>1, <2>2, <2>3, <2>4 DEF Linked
<1>15. QueueBack'
  <2>1. ASSUME NEW i \in 1 .. n + 1 PROVE prev'[members'[i]] = At(i - 1)'
    <3>1. i - 1 \in 0 .. n
      OBVIOUS
    <3>2. CASE i = n + 1
      <4>1. i - 1 = n
        BY <3>2
      <4> QED BY <1>4, <1>7, <1>8, <1>13, <3>1, <3>2, <4>1
    <3>3. CASE i # n + 1
      <4>1. i \in 1 .. n
        BY <3>3
      <4>2. prev[members[i]] = At(i - 1)
        BY <1>0, <1>1, <4>1 DEF QueueBack
      <4> QED BY <1>3, <1>7, <1>8, <1>13, <3>1, <4>1, <4>2
    <3> QED BY <3>2, <3>3
  <2> QED BY <1>7, <1>8, <1>9, <1>10, <2>1 DEF QueueBack, last
<1> QED BY <1>10, <1>11, <1>12, <1>14, <1>15 DEF ListInv

LEMMA NextList == ListInv /\ [ListNext]_listVars => ListInv'
<1> SUFFICES ASSUME ListInv, [ListNext]_listVars PROVE ListInv'
  OBVIOUS
<1>1. CASE UNCHANGED listVars
  <2>1. UNCHANGED <<use, next, prev, entry_count, panic, members>>
    BY <1>1 DEF listVars
  <2>2. \A i : At(i)' = At(i)
    BY <2>1 DEF At
  <2> QED BY <2>1, <2>2 DEF ListInv, ListTypes, Distinct, Linked, StackBack, QueueBack, first, last
<1>2. ASSUME NEW e \in Entries, Push(e) \/ Enqueue(e) \/ Unlink(e) PROVE ListInv'
  BY <1>2, PushKeeps, EnqueueKeeps, UnlinkKeeps
<1> QED BY <1>1, <1>2, DequeueKeeps DEF ListNext

(* A list of any length holds what its users put there, in order: the loop    *)
(* from first along next meets every entry once and ends at the header, a     *)
(* queue serves its head exactly when it has one, and no sanity check of the  *)
(* insert functions fires.                                                    *)
THEOREM ListsSound == ListSpec => []ListSound
<1>1. ListInv => ListSound
  <2> SUFFICES ASSUME ListInv PROVE ListSound
    OBVIOUS
  <2>1. MeetsMembers
    BY DEF ListInv, Linked, MeetsMembers
  <2>2. ASSUME use = "queue" PROVE members # <<>> <=> HasHead
    <3>1. QueueBack /\ ListTypes /\ Linked
      BY <2>2 DEF ListInv
    <3>2. PICK n \in Nat : n = Len(members) /\ (n = 0 <=> members = <<>>)
      BY <3>1, EmptySeq DEF ListTypes
    <3>3. entry_count = n
      BY <3>1, <3>2 DEF QueueBack
    <3>4. ASSUME n # 0 PROVE first \in Entries /\ first # NULL /\ first # HEADER
      <4>1. 0 \in 0 .. n - 1 /\ 1 \in 1 .. n
        BY <3>4
      <4>2. next[At(0)] = members[0 + 1]
        BY <3>1, <3>2, <4>1 DEF Linked
      <4>3. first = members[1]
        BY <4>2 DEF At, first
      <4> QED BY <3>1, <3>2, <4>1, <4>3, InMemory, ListAssumption
    <3> QED BY <3>2, <3>3, <3>4 DEF HasHead
  <2> QED BY <2>1, <2>2 DEF ListInv, ListSound
<1> QED BY <1>1, InitList, NextList, PTL DEF ListSpec
=============================================================================
