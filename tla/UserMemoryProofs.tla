-------------------------- MODULE UserMemoryProofs --------------------------
(* No frame is mapped for two processes and none is lost, the page lists      *)
(* agree with the page tables, and the heap's bitmap covers its mapped pages, *)
(* for any number of processes and frames, any programs and any sequence of   *)
(* fork, exec, exit, sbrk and free.                                           *)
EXTENDS UserMemory, SequenceTheorems, FiniteSetTheorems, NaturalsInduction, WellFoundedInduction, TLAPS

Used == [va : Int, pa : Frames, pdt : Int, pd : Int]
Page == [va : Int, pdt : Int, pd : Int, load : BOOLEAN]

-----------------------------------------------------------------------------
(* The invariant *)

(* Of a list of pages: no frame twice, and all of them out, but for X. *)
Single(list, X) == \A i, j \in DOMAIN list : i # j /\ list[i].pa = list[j].pa => list[i].pa \in X

MemoryTypes ==
    /\ state \in [Procs -> {"FREE", "INUSE", "EXITED"}]
    /\ used_pages \in [Procs -> Seq(Used)]
    /\ held \subseteq Frames /\ stray \subseteq Frames

(* A frame is new to every list because it is not held: so the listed ones    *)
(* have to be.                                                                *)
ListedHeld == \A p \in Live : Pas(used_pages[p]) \subseteq held \cup stray

ListsSingle == \A p \in Live : Single(used_pages[p], stray)
ListsApart  == \A p, q \in Live : p # q => Pas(used_pages[p]) \cap Pas(used_pages[q]) \subseteq stray
HeldListed  == panic = "none" => \A f \in held \ stray : \E p \in Live : f \in Pas(used_pages[p])

MemInv == MemoryTypes /\ ListedHeld /\ ListsSingle /\ ListsApart /\ HeldListed

-----------------------------------------------------------------------------
LEMMA LessThan == \E R : IsWellFoundedOn(R, Nat) /\ \A x, y \in Nat : y < x => <<y, x>> \in R
<1>1. IsWellFoundedOn(OpToRel(<, Nat), Nat)
  BY NatLessThanWellFounded
<1>2. \A x, y \in Nat : y < x => <<y, x>> \in OpToRel(<, Nat)
  BY Zenon DEF OpToRel
<1> WITNESS OpToRel(<, Nat)
<1> QED BY <1>1, <1>2

LEMMA Least == ASSUME NEW T \in SUBSET Nat, T # {} PROVE \E x \in T : \A y \in T : x <= y
<1>1. PICK R : IsWellFoundedOn(R, Nat) /\ \A x, y \in Nat : y < x => <<y, x>> \in R
  BY LessThan
<1>2. PICK x \in T : \A y \in T : ~ (<<y, x>> \in R)
  BY <1>1, WFMin
<1>3. \A y \in T : ~ (y < x)
  BY <1>1, <1>2, Zenon
<1> QED BY <1>3

LEMMA MinIn == ASSUME NEW T \in SUBSET Nat, T # {} PROVE Min(T) \in T
<1>1. \E x \in T : \A y \in T : x <= y
  BY Least
<1> QED BY <1>1 DEF Min

(* What holds of 0 and of a number whenever it holds of the one before. *)
LEMMA Count ==
    ASSUME NEW n \in Nat, NEW S, 0 \in S, \A i \in 1 .. n : i - 1 \in S => i \in S
    PROVE  n \in S
<1> DEFINE T == {i \in 0 .. n : i \notin S}
<1> SUFFICES ASSUME T # {} PROVE FALSE
  OBVIOUS
<1>1. T \in SUBSET Nat
  OBVIOUS
<1>2. PICK i \in T : \A y \in T : i <= y
  BY <1>1, Least
<1>3. i \in 1 .. n /\ i - 1 \in 0 .. n /\ ~ (i <= i - 1)
  BY <1>2
<1>4. i - 1 \in S
  BY <1>2, <1>3
<1> QED BY <1>2, <1>3, <1>4

-----------------------------------------------------------------------------
(* Mapping a page *)

IsMem(m) == /\ m = [x \in DOMAIN m |-> m[x]]
            /\ {"dir", "used", "held", "panic"} \subseteq DOMAIN m

(* What a call that began with list u and frames h has come to: its new pages *)
(* have frames that were free, and it holds nothing else.                     *)
Grown(m, u, h, X) ==
    /\ m.used \in Seq(Used) /\ m.held \subseteq Frames
    /\ h \subseteq m.held
    /\ Pas(u) \subseteq Pas(m.used) /\ Pas(m.used) \subseteq Pas(u) \cup (m.held \ h)
    /\ Single(m.used, X)
    /\ Pas(m.used) \subseteq m.held \cup X
    /\ m.panic = "none" => m.held \subseteq h \cup Pas(m.used)

LEMMA Prepend ==
    ASSUME NEW u \in Seq(Used), NEW e \in Used, NEW X, NEW h,
           Single(u, X), Pas(u) \subseteq h \cup X, e.pa \notin h
    PROVE  /\ <<e>> \o u \in Seq(Used)
           /\ Pas(<<e>> \o u) = Pas(u) \cup {e.pa}
           /\ Single(<<e>> \o u, X)
<1>1. <<e>> \in Seq(Used) /\ Len(<<e>>) = 1 /\ <<e>>[1] = e /\ Len(u) \in Nat /\ DOMAIN u = 1 .. Len(u)
  OBVIOUS
<1>2. PICK v : v = <<e>> \o u
  OBVIOUS
<1>3. /\ v \in Seq(Used)
      /\ Len(v) = 1 + Len(u)
      /\ \A j \in 1 .. 1 + Len(u) : v[j] = IF j <= 1 THEN <<e>>[j] ELSE u[j - 1]
  BY <1>1, <1>2, ConcatProperties
<1>4. DOMAIN v = 1 .. 1 + Len(u)
  BY <1>1, <1>3
<1>5. v[1] = e /\ 1 \in DOMAIN v
  BY <1>1, <1>3, <1>4
<1>6. \A j \in DOMAIN v : j = 1 \/ (j - 1 \in DOMAIN u /\ v[j] = u[j - 1])
  BY <1>1, <1>3, <1>4
<1>7. \A j \in DOMAIN u : j + 1 \in DOMAIN v /\ v[j + 1] = u[j]
  BY <1>1, <1>3, <1>4
<1>8. Pas(v) = Pas(u) \cup {e.pa}
  BY <1>5, <1>6, <1>7 DEF Pas
<1>9. ASSUME NEW i \in DOMAIN v, NEW j \in DOMAIN v, i # j, v[i].pa = v[j].pa PROVE v[i].pa \in X
  <2>1. CASE i # 1 /\ j # 1
    <3>1. i - 1 \in DOMAIN u /\ j - 1 \in DOMAIN u /\ i - 1 # j - 1
      BY <1>4, <1>6, <1>9, <2>1
    <3> QED BY <1>6, <1>9, <2>1, <3>1 DEF Single
  <2>2. CASE i = 1 \/ j = 1
    <3>1. v[i].pa = e.pa /\ e.pa \in Pas(u)
      BY <1>5, <1>6, <1>9, <2>2 DEF Pas
    <3> QED BY <3>1
  <2> QED BY <2>1, <2>2
<1> QED BY <1>2, <1>3, <1>8, <1>9 DEF Single

LEMMA MapNewGrows ==
    ASSUME NEW m, IsMem(m), NEW page \in Page, NEW u, NEW h, NEW X, Grown(m, u, h, X)
    PROVE  /\ IsMem(MapNew(m, page)) /\ DOMAIN MapNew(m, page) = DOMAIN m
           /\ Grown(MapNew(m, page), u, h, X)
<1>1. CASE m.panic # "none" \/ ~ page.load
  BY <1>1 DEF MapNew
<1>2. CASE m.panic = "none" /\ page.load /\ FreeFrames(m) = {}
  <2>1. MapNew(m, page) = [m EXCEPT !.panic = "frames"]
    BY <1>2 DEF MapNew, Halt
  <2>2. PICK r : r = MapNew(m, page)
    OBVIOUS
  <2>3. /\ DOMAIN r = DOMAIN m /\ IsMem(r) /\ r.used = m.used /\ r.held = m.held /\ r.panic = "frames"
    BY <2>1, <2>2 DEF IsMem
  <2> QED BY <2>2, <2>3 DEF Grown
<1>3. CASE m.panic = "none" /\ page.load /\ FreeFrames(m) # {}
  <2>1. FreeFrames(m) \in SUBSET Nat
    BY ProcsAssumption DEF FreeFrames, Frames
  <2>2. PICK pa : pa = Min(FreeFrames(m))
    OBVIOUS
  <2>3. pa \in Frames /\ pa \notin m.held
    BY <1>3, <2>1, <2>2, MinIn DEF FreeFrames
  <2>4. PICK k : k = [m EXCEPT !.held = @ \cup {pa}]
    OBVIOUS
  <2>5. DOMAIN k = DOMAIN m /\ IsMem(k) /\ k.used = m.used /\ k.held = m.held \cup {pa} /\ k.panic = "none"
    BY <1>3, <2>4 DEF IsMem
  <2>6. PICK r : r = map_4kb_page_user(k, page.va, pa, page.pdt, page.pd)
    OBVIOUS
  <2>7. MapNew(m, page) = r
    BY <1>3, <2>2, <2>4, <2>6 DEF MapNew
  <2>8. CASE r = Halt(k, "pdt") \/ r = Halt(k, "pd")
    <3>1. PICK why : why # "none" /\ r = [k EXCEPT !.panic = why]
      BY <2>5, <2>8 DEF Halt
    <3>2. DOMAIN r = DOMAIN m /\ IsMem(r) /\ r.used = m.used /\ r.held = m.held \cup {pa} /\ r.panic # "none"
      BY <2>5, <3>1 DEF IsMem
    <3>3. Grown(r, u, h, X)
      BY <2>3, <3>2 DEF Grown
    <3> QED BY <2>7, <3>2, <3>3
  <2>9. CASE ~ (r = Halt(k, "pdt") \/ r = Halt(k, "pd"))
    <3>1. PICK e : e = [va |-> page.va, pa |-> pa, pdt |-> page.pdt, pd |-> page.pd]
      OBVIOUS
    <3>2. e \in Used /\ e.pa = pa
      BY <2>3, <3>1 DEF Used, Page
    <3>3. PICK dir : r = [k EXCEPT !.dir = dir, !.used = <<e>> \o @]
      <4> DEFINE at == <<page.pdt, pdt_index(page.va)>>
                 dir == [pml4t |-> k.dir.pml4t \cup {pml4t_index(page.va)},
                         pdpt |-> Put(k.dir.pdpt, pdpt_index(page.va), page.pdt),
                         pdt  |-> Put(k.dir.pdt, at, page.pd),
                         pd   |-> Put(k.dir.pd, <<page.pd, pt_index(page.va)>>, pa)]
      <4>1. r = [k EXCEPT !.dir = dir, !.used = <<e>> \o @]
        BY <2>5, <2>6, <2>9, <3>1 DEF map_4kb_page_user, IsMem
      <4> QED BY <4>1
    <3>4. DOMAIN r = DOMAIN m /\ IsMem(r) /\ r.used = <<e>> \o m.used /\ r.held = m.held \cup {pa} /\ r.panic = "none"
      BY <2>5, <3>3 DEF IsMem
    <3>5. /\ <<e>> \o m.used \in Seq(Used)
          /\ Pas(<<e>> \o m.used) = Pas(m.used) \cup {pa}
          /\ Single(<<e>> \o m.used, X)
      <4>1. m.used \in Seq(Used) /\ Single(m.used, X) /\ Pas(m.used) \subseteq m.held \cup X
        BY DEF Grown
      <4> QED BY <2>3, <3>2, <4>1, Prepend
    <3>6. Grown(r, u, h, X)
      BY <1>3, <2>3, <3>4, <3>5 DEF Grown
    <3> QED BY <2>7, <3>4, <3>6
  <2> QED BY <2>8, <2>9
<1> QED BY <1>1, <1>2, <1>3

-----------------------------------------------------------------------------
(* Mapping the pages of a list, one after the other *)

Mapped(g, m, pages, k) == g = [i \in 0 .. k |-> IF i = 0 THEN m ELSE MapNew(g[i - 1], pages[i])]

LEMMA MapRounds == ASSUME NEW m, NEW pages, NEW n \in Nat PROVE \E g : Mapped(g, m, pages, n)
<1> DEFINE S == {k \in 0 .. n : \E g : Mapped(g, m, pages, k)}
<1>1. 0 \in S
  <2>1. PICK g : g = [i \in 0 .. 0 |-> m]
    OBVIOUS
  <2>2. g = [i \in 0 .. 0 |-> IF i = 0 THEN m ELSE MapNew(g[i - 1], pages[i])]
    BY <2>1
  <2> QED BY <2>2 DEF Mapped
<1>2. ASSUME NEW k \in 1 .. n, k - 1 \in S PROVE k \in S
  <2>1. PICK g : Mapped(g, m, pages, k - 1)
    BY <1>2
  <2>2. PICK h : h = [i \in 0 .. k |-> IF i = k THEN MapNew(g[k - 1], pages[k]) ELSE g[i]]
    OBVIOUS
  <2>3. k # 0 /\ k - 1 \in 0 .. k /\ k - 1 # k /\ k \in 0 .. n
    OBVIOUS
  <2>4. ASSUME NEW i \in 0 .. k PROVE h[i] = IF i = 0 THEN m ELSE MapNew(h[i - 1], pages[i])
    <3>1. CASE i = k
      <4>1. h[k - 1] = g[k - 1] /\ h[k] = MapNew(g[k - 1], pages[k])
        BY <2>2, <2>3
      <4> QED BY <2>3, <3>1, <4>1
    <3>2. CASE i # k
      <4>1. i \in 0 .. k - 1 /\ h[i] = g[i]
        BY <2>2, <3>2
      <4>2. i # 0 => h[i - 1] = g[i - 1]
        <5> SUFFICES ASSUME i # 0 PROVE h[i - 1] = g[i - 1]
          OBVIOUS
        <5>1. i - 1 \in 0 .. k /\ i - 1 # k
          BY <4>1
        <5> QED BY <2>2, <5>1
      <4>3. g[i] = IF i = 0 THEN m ELSE MapNew(g[i - 1], pages[i])
        BY <2>1, <4>1 DEF Mapped
      <4> QED BY <4>1, <4>2, <4>3
    <3> QED BY <3>1, <3>2
  <2>5. h = [i \in 0 .. k |-> IF i = 0 THEN m ELSE MapNew(h[i - 1], pages[i])]
    BY <2>2, <2>4, Zenon
  <2> QED BY <2>3, <2>5 DEF Mapped
<1>3. n \in S
  <2> HIDE DEF S
  <2> QED BY <1>1, <1>2, Count
<1> QED BY <1>3

LEMMA MapRoundsResult ==
    ASSUME NEW m, NEW pages, Len(pages) \in Nat
    PROVE  \E g : Mapped(g, m, pages, Len(pages)) /\ MapAll(m, pages) = g[Len(pages)]
<1>1. \E g : g = [i \in 0 .. Len(pages) |-> IF i = 0 THEN m ELSE MapNew(g[i - 1], pages[i])]
  <2>1. PICK g : Mapped(g, m, pages, Len(pages))
    BY MapRounds
  <2>2. g = [i \in 0 .. Len(pages) |-> IF i = 0 THEN m ELSE MapNew(g[i - 1], pages[i])]
    BY <2>1, Zenon DEF Mapped
  <2> QED BY <2>2, Zenon
<1> DEFINE done[i \in 0 .. Len(pages)] == IF i = 0 THEN m ELSE MapNew(done[i - 1], pages[i])
<1>2. done = [i \in 0 .. Len(pages) |-> IF i = 0 THEN m ELSE MapNew(done[i - 1], pages[i])]
  BY <1>1
<1>3. MapAll(m, pages) = done[Len(pages)]
  BY DEF MapAll
<1> HIDE DEF done
<1> QED BY <1>2, <1>3 DEF Mapped

LEMMA MapAllGrows ==
    ASSUME NEW m, IsMem(m), NEW pages \in Seq(Page), NEW u, NEW h, NEW X, Grown(m, u, h, X)
    PROVE  IsMem(MapAll(m, pages)) /\ Grown(MapAll(m, pages), u, h, X)
<1>1. Len(pages) \in Nat /\ \A i \in 1 .. Len(pages) : pages[i] \in Page
  OBVIOUS
<1>2. PICK g : Mapped(g, m, pages, Len(pages)) /\ MapAll(m, pages) = g[Len(pages)]
  BY <1>1, MapRoundsResult
<1> DEFINE S == {k \in 0 .. Len(pages) : IsMem(g[k]) /\ Grown(g[k], u, h, X)}
<1>3. 0 \in S
  <2>1. g[0] = m
    BY <1>1, <1>2 DEF Mapped
  <2> QED BY <1>1, <2>1
<1>4. ASSUME NEW k \in 1 .. Len(pages), k - 1 \in S PROVE k \in S
  <2>1. k \in 0 .. Len(pages) /\ k # 0
    BY <1>1
  <2>2. g[k] = MapNew(g[k - 1], pages[k])
    BY <1>2, <2>1 DEF Mapped
  <2>3. IsMem(g[k - 1]) /\ Grown(g[k - 1], u, h, X) /\ pages[k] \in Page
    BY <1>1, <1>4
  <2>4. IsMem(g[k]) /\ Grown(g[k], u, h, X)
    BY <2>2, <2>3, MapNewGrows
  <2> QED BY <2>1, <2>4
<1>5. Len(pages) \in S
  <2> HIDE DEF S
  <2> QED BY <1>1, <1>3, <1>4, Count
<1> QED BY <1>2, <1>5

-----------------------------------------------------------------------------
(* The rounds of sbrk *)

Taken(g, m, places, k) == g = [i \in 0 .. k |-> IF i = 0 THEN m ELSE SbrkStep(g[i - 1], places[i])]

LEMMA SbrkRounds == ASSUME NEW m, NEW places, NEW n \in Nat PROVE \E g : Taken(g, m, places, n)
<1> DEFINE S == {k \in 0 .. n : \E g : Taken(g, m, places, k)}
<1>1. 0 \in S
  <2>1. PICK g : g = [i \in 0 .. 0 |-> m]
    OBVIOUS
  <2>2. g = [i \in 0 .. 0 |-> IF i = 0 THEN m ELSE SbrkStep(g[i - 1], places[i])]
    BY <2>1
  <2> QED BY <2>2 DEF Taken
<1>2. ASSUME NEW k \in 1 .. n, k - 1 \in S PROVE k \in S
  <2>1. PICK g : Taken(g, m, places, k - 1)
    BY <1>2
  <2>2. PICK h : h = [i \in 0 .. k |-> IF i = k THEN SbrkStep(g[k - 1], places[k]) ELSE g[i]]
    OBVIOUS
  <2>3. k # 0 /\ k - 1 \in 0 .. k /\ k - 1 # k /\ k \in 0 .. n
    OBVIOUS
  <2>4. ASSUME NEW i \in 0 .. k PROVE h[i] = IF i = 0 THEN m ELSE SbrkStep(h[i - 1], places[i])
    <3>1. CASE i = k
      <4>1. h[k - 1] = g[k - 1] /\ h[k] = SbrkStep(g[k - 1], places[k])
        BY <2>2, <2>3
      <4> QED BY <2>3, <3>1, <4>1
    <3>2. CASE i # k
      <4>1. i \in 0 .. k - 1 /\ h[i] = g[i]
        BY <2>2, <3>2
      <4>2. i # 0 => h[i - 1] = g[i - 1]
        <5> SUFFICES ASSUME i # 0 PROVE h[i - 1] = g[i - 1]
          OBVIOUS
        <5>1. i - 1 \in 0 .. k /\ i - 1 # k
          BY <4>1
        <5> QED BY <2>2, <5>1
      <4>3. g[i] = IF i = 0 THEN m ELSE SbrkStep(g[i - 1], places[i])
        BY <2>1, <4>1 DEF Taken
      <4> QED BY <4>1, <4>2, <4>3
    <3> QED BY <3>1, <3>2
  <2>5. h = [i \in 0 .. k |-> IF i = 0 THEN m ELSE SbrkStep(h[i - 1], places[i])]
    BY <2>2, <2>4, Zenon
  <2> QED BY <2>3, <2>5 DEF Taken
<1>3. n \in S
  <2> HIDE DEF S
  <2> QED BY <1>1, <1>2, Count
<1> QED BY <1>3

LEMMA SbrkRoundsResult ==
    ASSUME NEW m, NEW places, Len(places) \in Nat
    PROVE  \E g : Taken(g, m, places, Len(places)) /\ SbrkAll(m, places) = g[Len(places)]
<1>1. \E g : g = [i \in 0 .. Len(places) |-> IF i = 0 THEN m ELSE SbrkStep(g[i - 1], places[i])]
  <2>1. PICK g : Taken(g, m, places, Len(places))
    BY SbrkRounds
  <2>2. g = [i \in 0 .. Len(places) |-> IF i = 0 THEN m ELSE SbrkStep(g[i - 1], places[i])]
    BY <2>1, Zenon DEF Taken
  <2> QED BY <2>2, Zenon
<1> DEFINE done[i \in 0 .. Len(places)] == IF i = 0 THEN m ELSE SbrkStep(done[i - 1], places[i])
<1>2. done = [i \in 0 .. Len(places) |-> IF i = 0 THEN m ELSE SbrkStep(done[i - 1], places[i])]
  BY <1>1
<1>3. SbrkAll(m, places) = done[Len(places)]
  BY DEF SbrkAll
<1> HIDE DEF done
<1> QED BY <1>2, <1>3 DEF Taken


(* A place in the bitmap: the number of a word and of a bit in it. *)
Place == Int \X Int
IsSbrk(m) == IsMem(m) /\ {"bits", "end", "failed"} \subseteq DOMAIN m

LEMMA HeapPageIs == ASSUME NEW at \in Place PROVE HeapPage(at[1] * Word + at[2]) \in Page
<1>1. PICK l \in Int : l = at[1] * Word + at[2]
  <2>1. at[1] \in Int /\ at[2] \in Int /\ Word \in Int
    BY HeapAssumption DEF Place
  <2> QED BY <2>1
<1>2. l \div TableSize \in Int
  BY HeapAssumption
<1>3. USER_HEAP_START - l \in Int /\ 2 + l \div TableSize \in Int
  BY <1>2, HeapAssumption
<1> QED BY <1>1, <1>3 DEF HeapPage, Page

LEMMA SbrkStepGrows ==
    ASSUME NEW m, IsSbrk(m), NEW at \in Place, NEW u, NEW h, NEW X, Grown(m, u, h, X)
    PROVE  IsSbrk(SbrkStep(m, at)) /\ Grown(SbrkStep(m, at), u, h, X)
<1>1. CASE m.failed \/ m.panic # "none"
  BY <1>1 DEF SbrkStep
<1>2. CASE ~ (m.failed \/ m.panic # "none") /\ FreeFrames(m) = {}
  <2>1. PICK r : r = SbrkStep(m, at)
    OBVIOUS
  <2>2. r = [m EXCEPT !.failed = TRUE]
    BY <1>2, <2>1 DEF SbrkStep
  <2>3. DOMAIN r = DOMAIN m /\ IsSbrk(r) /\ r.used = m.used /\ r.held = m.held /\ r.panic = m.panic
    BY <2>2 DEF IsSbrk, IsMem
  <2> QED BY <2>1, <2>3 DEF Grown
<1>3. CASE ~ (m.failed \/ m.panic # "none") /\ FreeFrames(m) # {}
  <2>1. PICK page \in Page : page = HeapPage(at[1] * Word + at[2])
    BY HeapPageIs
  <2>2. PICK k : k = MapNew(m, page)
    OBVIOUS
  <2>3. IsMem(k) /\ DOMAIN k = DOMAIN m /\ Grown(k, u, h, X)
    BY <2>2, MapNewGrows DEF IsSbrk
  <2>4. PICK r : r = SbrkStep(m, at)
    OBVIOUS
  <2>5. r = [k EXCEPT !.bits[at[1]] = @ \cup Shift(at[2]), !.end = page.va]
    BY <1>3, <2>1, <2>2, <2>4 DEF SbrkStep
  <2>6. PICK bits : r = [k EXCEPT !.bits = bits, !.end = page.va]
    BY <2>5
  <2>7. DOMAIN r = DOMAIN k /\ IsMem(r) /\ r.used = k.used /\ r.held = k.held /\ r.panic = k.panic
    BY <2>3, <2>6 DEF IsMem
  <2>8. IsSbrk(r) /\ Grown(r, u, h, X)
    BY <2>3, <2>7 DEF IsSbrk, Grown
  <2> QED BY <2>4, <2>8
<1> QED BY <1>1, <1>2, <1>3

LEMMA SbrkAllGrows ==
    ASSUME NEW m, IsSbrk(m), NEW places \in Seq(Place), NEW u, NEW h, NEW X, Grown(m, u, h, X)
    PROVE  IsSbrk(SbrkAll(m, places)) /\ Grown(SbrkAll(m, places), u, h, X)
<1>1. Len(places) \in Nat /\ \A i \in 1 .. Len(places) : places[i] \in Place
  OBVIOUS
<1>2. PICK g : Taken(g, m, places, Len(places)) /\ SbrkAll(m, places) = g[Len(places)]
  BY <1>1, SbrkRoundsResult
<1> DEFINE S == {k \in 0 .. Len(places) : IsSbrk(g[k]) /\ Grown(g[k], u, h, X)}
<1>3. 0 \in S
  <2>1. g[0] = m
    BY <1>1, <1>2 DEF Taken
  <2> QED BY <1>1, <2>1
<1>4. ASSUME NEW k \in 1 .. Len(places), k - 1 \in S PROVE k \in S
  <2>1. k \in 0 .. Len(places) /\ k # 0
    BY <1>1
  <2>2. g[k] = SbrkStep(g[k - 1], places[k])
    BY <1>2, <2>1 DEF Taken
  <2>3. IsSbrk(g[k - 1]) /\ Grown(g[k - 1], u, h, X) /\ places[k] \in Place
    BY <1>1, <1>4
  <2>4. IsSbrk(g[k]) /\ Grown(g[k], u, h, X)
    BY <2>2, <2>3, SbrkStepGrows
  <2> QED BY <2>1, <2>4
<1>5. Len(places) \in S
  <2> HIDE DEF S
  <2> QED BY <1>1, <1>3, <1>4, Count
<1> QED BY <1>2, <1>5

-----------------------------------------------------------------------------
(* The lists of pages the calls map *)

LEMMA StackIs == Stack \in Seq(Page)
<1>1. StackPages \in Nat /\ USER_STACK_LOC \in Nat
  BY ImageAssumption
<1>2. \A i \in 1 .. StackPages : Stack[i] \in Page
  BY <1>1 DEF Stack, Page
<1>3. Stack = [i \in 1 .. StackPages |-> Stack[i]]
  BY DEF Stack
<1> QED BY <1>1, <1>2, <1>3

LEMMA SegmentsIs == ASSUME NEW image \in Images PROVE Segments(image) \in Seq(Page)
<1>1. image.segments \in Seq([va : Int, size : Nat, load : BOOLEAN])
  BY ImageAssumption
<1>2. CASE image.elf
  <2>1. PICK list : list = Segments(image)
    OBVIOUS
  <2>2. list = [i \in 1 .. Len(image.segments) |-> FirstPage(image.segments[i])] /\ Len(image.segments) \in Nat
    BY <1>1, <1>2, <2>1 DEF Segments
  <2>3. ASSUME NEW i \in 1 .. Len(image.segments) PROVE FirstPage(image.segments[i]) \in Page
    <3>1. image.segments[i] \in [va : Int, size : Nat, load : BOOLEAN]
      <4>1. PICK S : S = [va : Int, size : Nat, load : BOOLEAN]
        OBVIOUS
      <4>2. image.segments[i] \in S
        BY <1>1, <4>1, ElementOfSeq
      <4> QED BY <4>1, <4>2
    <3>2. PICK load \in BOOLEAN : load = (image.segments[i].load /\ image.segments[i].size > 0)
      OBVIOUS
    <3>3. FirstPage(image.segments[i]) = [va |-> image.segments[i].va, pdt |-> 1, pd |-> 0, load |-> load]
      BY <3>2 DEF FirstPage
    <3>4. image.segments[i].va \in Int
      BY <3>1
    <3> QED BY <3>3, <3>4 DEF Page
  <2>4. \A i \in 1 .. Len(image.segments) : list[i] \in Page
    BY <2>2, <2>3
  <2>5. list = [i \in 1 .. Len(image.segments) |-> list[i]]
    BY <2>2
  <2> QED BY <2>1, <2>2, <2>4, <2>5
<1>3. CASE ~ image.elf
  BY <1>3 DEF Segments
<1> QED BY <1>2, <1>3

LEMMA CopyIs == ASSUME NEW list \in Seq(Used) PROVE Copy(list) \in Seq(Page)
<1>1. Len(list) \in Nat /\ DOMAIN list = 1 .. Len(list)
  OBVIOUS
<1>2. \A i \in 1 .. Len(list) : list[i] \in Used
  OBVIOUS
<1>3. PICK copy : copy = Copy(list)
  OBVIOUS
<1>4. \A i \in 1 .. Len(list) : copy[i] \in Page
  BY <1>1, <1>2, <1>3 DEF Copy, Used, Page
<1>5. copy = [i \in 1 .. Len(list) |-> copy[i]]
  BY <1>1, <1>3 DEF Copy
<1> QED BY <1>1, <1>3, <1>4, <1>5

LEMMA LoopIs == ASSUME NEW from \in Place, NEW to \in Place PROVE Loop(from, to) \in Seq(Place)
<1>1. PICK w \in Int : w = to[2] - from[2] + 1
  BY DEF Place
<1>2. from[1] \in Int /\ from[2] \in Int /\ to[1] \in Int
  BY DEF Place
<1>3. CASE w <= 0
  BY <1>1, <1>3 DEF Loop
<1>4. CASE w > 0
  <2>1. PICK n \in Int : n = (to[1] - from[1] + 1) * w
    BY <1>1, <1>2
  <2>2. PICK list : list = Loop(from, to)
    OBVIOUS
  <2>3. list = [k \in 1 .. n |-> <<from[1] + (k - 1) \div w, from[2] + ((k - 1) % w)>>]
    BY <1>1, <1>4, <2>1, <2>2 DEF Loop
  <2>4. ASSUME NEW k \in 1 .. n PROVE list[k] \in Place
    <3>1. (k - 1) \div w \in Int /\ (k - 1) % w \in Int
      BY <1>4, <2>1
    <3> QED BY <1>2, <2>3, <3>1 DEF Place
  <2>5. PICK N \in Nat : 1 .. N = 1 .. n
    <3>1. CASE n >= 0
      BY <2>1, <3>1
    <3>2. CASE n < 0
      <4>1. 1 .. 0 = 1 .. n
        BY <2>1, <3>2
      <4> QED BY <4>1
    <3> QED BY <2>1, <3>1, <3>2
  <2>6. list = [k \in 1 .. N |-> list[k]] /\ \A k \in 1 .. N : list[k] \in Place
    BY <2>3, <2>4, <2>5
  <2> QED BY <2>2, <2>5, <2>6
<1> QED BY <1>1, <1>3, <1>4

LEMMA FreshGrows ==
    ASSUME NEW h \in SUBSET Frames, NEW X, NEW pages \in Seq(Page), NEW va
    PROVE  Grown(CheckRip(MapAll(Fresh(h), pages), va), <<>>, h, X)
<1>1. IsMem(Fresh(h)) /\ Grown(Fresh(h), <<>>, h, X)
  BY DEF IsMem, Fresh, Grown, Pas, Single
<1>2. PICK m : m = MapAll(Fresh(h), pages)
  OBVIOUS
<1>3. PICK u : u = <<>>
  OBVIOUS
<1>4. IsMem(m) /\ Grown(m, u, h, X)
  BY <1>1, <1>2, <1>3, MapAllGrows
<1>5. PICK r : r = CheckRip(m, va)
  OBVIOUS
<1>6. r = m \/ r = [m EXCEPT !.panic = "rip"]
  BY <1>5 DEF CheckRip, Halt
<1>7. r.used = m.used /\ r.held = m.held /\ (r.panic = "none" => m.panic = "none")
  BY <1>4, <1>6 DEF IsMem
<1>8. Grown(r, u, h, X)
  BY <1>4, <1>7 DEF Grown
<1> QED BY <1>2, <1>3, <1>5, <1>8

-----------------------------------------------------------------------------
(* A call that maps pages for p: others are the lists of the other processes, *)
(* h the frames out when it starts to map, u the list it starts with.         *)
OthersApart(p, u, h) ==
    \A q \in Live \ {p} : /\ Pas(used_pages[q]) \subseteq h \cup stray
                          /\ Pas(u) \cap Pas(used_pages[q]) \subseteq stray

AllListed(p, u, h) ==
    \A f \in h \ stray : f \in Pas(u) \/ \E q \in Live \ {p} : f \in Pas(used_pages[q])

StateType(s) == s \in [Procs -> {"FREE", "INUSE", "EXITED"}]

LEMMA Remapped ==
    ASSUME MemInv, NEW p \in Procs, NEW m, NEW u, NEW h, Grown(m, u, h, stray),
           StateType(state'), Live' = Live \cup {p},
           used_pages' = [used_pages EXCEPT ![p] = m.used],
           held' = m.held, stray' = stray, panic' = "none" => m.panic = "none",
           OthersApart(p, u, h), AllListed(p, u, h)
    PROVE  MemInv'
<1>1. Live \subseteq Procs /\ used_pages \in [Procs -> Seq(Used)]
  BY DEF Live, MemInv, MemoryTypes
<1>2. /\ used_pages'[p] = m.used
      /\ \A q \in Live \ {p} : used_pages'[q] = used_pages[q]
      /\ used_pages' \in [Procs -> Seq(Used)]
  BY <1>1 DEF Grown
<1>3. MemoryTypes'
  BY <1>2 DEF Grown, MemInv, MemoryTypes, StateType
<1>4. ListedHeld'
  BY <1>1, <1>2 DEF Grown, ListedHeld, OthersApart
<1>5. ListsSingle'
  BY <1>1, <1>2 DEF Grown, MemInv, ListsSingle
<1>6. ListsApart'
  <2>1. \A q \in Live \ {p} : Pas(m.used) \cap Pas(used_pages[q]) \subseteq stray
    BY DEF Grown, OthersApart
  <2>2. ASSUME NEW q \in Live', NEW r \in Live', q # r
        PROVE  Pas(used_pages'[q]) \cap Pas(used_pages'[r]) \subseteq stray
    <3>1. CASE q = p
      BY <1>2, <2>1, <2>2, <3>1
    <3>2. CASE r = p
      BY <1>2, <2>1, <2>2, <3>2
    <3>3. CASE q # p /\ r # p
      BY <1>2, <2>2, <3>3 DEF MemInv, ListsApart
    <3> QED BY <3>1, <3>2, <3>3
  <2> QED BY <2>2 DEF ListsApart
<1>7. HeldListed'
  <2>1. SUFFICES ASSUME panic' = "none", NEW f \in held' \ stray'
                 PROVE  \E q \in Live' : f \in Pas(used_pages'[q])
    BY DEF HeldListed
  <2>2. f \in Pas(m.used) \/ f \in h \ stray
    BY <2>1 DEF Grown
  <2>3. f \in Pas(m.used) \/ \E q \in Live \ {p} : f \in Pas(used_pages[q])
    BY <2>2 DEF Grown, AllListed
  <2> QED BY <1>2, <2>3
<1> QED BY <1>3, <1>4, <1>5, <1>6, <1>7 DEF MemInv

LEMMA InitMem == Init => MemInv
<1> SUFFICES ASSUME Init PROVE MemInv
  OBVIOUS
<1>1. PICK image \in Images :
        LET m == CheckRip(MapAll(Fresh({}), Segments(image) \o Stack), Entry(image))
        IN /\ state = [p \in Procs |-> IF p = 0 THEN "INUSE" ELSE "FREE"]
           /\ used_pages = [p \in Procs |-> IF p = 0 THEN m.used ELSE <<>>]
           /\ held = m.held /\ panic = m.panic /\ stray = {}
  BY Zenon DEF Init
<1>2. PICK m : m = CheckRip(MapAll(Fresh({}), Segments(image) \o Stack), Entry(image))
  OBVIOUS
<1>3. Segments(image) \o Stack \in Seq(Page)
  BY SegmentsIs, StackIs, ConcatProperties
<1>4. Grown(m, <<>>, {}, {})
  BY <1>2, <1>3, FreshGrows
<1>5. /\ state = [p \in Procs |-> IF p = 0 THEN "INUSE" ELSE "FREE"]
      /\ used_pages = [p \in Procs |-> IF p = 0 THEN m.used ELSE <<>>]
      /\ held = m.held /\ panic = m.panic /\ stray = {}
  BY <1>1, <1>2
<1>6. 0 \in Procs /\ Live = {0} /\ used_pages[0] = m.used
  <2>1. 0 \in Procs
    BY ProcsAssumption DEF Procs
  <2> QED BY <1>5, <2>1 DEF Live
<1>7. MemoryTypes
  BY <1>4, <1>5 DEF MemoryTypes, Grown
<1>8. ListedHeld /\ ListsSingle /\ ListsApart
  BY <1>4, <1>5, <1>6 DEF ListedHeld, ListsSingle, ListsApart, Grown
<1>9. HeldListed
  BY <1>4, <1>5, <1>6 DEF HeldListed, Grown
<1> QED BY <1>7, <1>8, <1>9 DEF MemInv

LEMMA ForkMem == ASSUME MemInv, panic = "none", NEW p \in Procs, Fork(p) PROVE MemInv'
<1>1. PICK unused : unused = {q \in Procs : state[q] = "FREE"}
  OBVIOUS
<1>2. PICK q : q = Min(unused)
  OBVIOUS
<1>3. PICK m : m = CheckRip(MapAll(Fresh(held), Copy(used_pages[p])), rip[p])
  OBVIOUS
<1>4. /\ unused # {}
      /\ state' = [state EXCEPT ![q] = "INUSE"]
      /\ used_pages' = [used_pages EXCEPT ![q] = m.used]
      /\ held' = m.held
      /\ panic' = IF \A va \in Vas(used_pages[p]) : CopyAllowed(pgdir[p], va, va) THEN m.panic ELSE "fetch"
      /\ stray' = stray
  BY <1>1, <1>2, <1>3 DEF Fork
<1>5. q \in Procs /\ state[q] = "FREE"
  <2>1. unused \in SUBSET Nat
    BY <1>1, ProcsAssumption DEF Procs
  <2> QED BY <1>1, <1>2, <1>4, <2>1, MinIn
<1>6. /\ state \in [Procs -> {"FREE", "INUSE", "EXITED"}] /\ used_pages \in [Procs -> Seq(Used)]
      /\ held \subseteq Frames
  BY DEF MemInv, MemoryTypes
<1>7. q \notin Live /\ Live' = Live \cup {q} /\ StateType(state')
  BY <1>4, <1>5, <1>6 DEF Live, StateType
<1>8. PICK u : u = <<>>
  OBVIOUS
<1>9. Grown(m, u, held, stray)
  <2>1. used_pages[p] \in Seq(Used)
    BY <1>6
  <2>2. Copy(used_pages[p]) \in Seq(Page)
    BY <2>1, CopyIs
  <2> QED BY <1>3, <1>6, <1>8, <2>2, FreshGrows
<1>10. Pas(u) = {}
  BY <1>8 DEF Pas
<1>11. panic' = "none" => m.panic = "none"
  BY <1>4
<1>12. OthersApart(q, u, held)
  BY <1>10 DEF MemInv, ListedHeld, OthersApart
<1>13. AllListed(q, u, held)
  BY <1>7 DEF MemInv, HeldListed, AllListed
<1> QED BY <1>4, <1>5, <1>7, <1>9, <1>11, <1>12, <1>13, Remapped

LEMMA ExecMem == ASSUME MemInv, panic = "none", NEW p \in Procs, NEW image \in Images, Exec(p, image) PROVE MemInv'
<1>1. PICK h : h = AfterFree(p)
  OBVIOUS
<1>2. PICK m : m = CheckRip(MapAll(Fresh(h), Stack \o Segments(image)), Entry(image))
  OBVIOUS
<1>3. /\ state[p] = "INUSE" /\ state' = state
      /\ used_pages' = [used_pages EXCEPT ![p] = m.used]
      /\ held' = m.held /\ panic' = m.panic /\ stray' = stray
  BY <1>1, <1>2 DEF Exec
<1>4. h = held \ Pas(used_pages[p]) /\ h \subseteq Frames /\ state \in [Procs -> {"FREE", "INUSE", "EXITED"}]
  BY <1>1 DEF MemInv, MemoryTypes, AfterFree
<1>5. p \in Live /\ Live' = Live \cup {p}
  BY <1>3 DEF Live
<1>6. PICK u : u = <<>>
  OBVIOUS
<1>7. Grown(m, u, h, stray)
  <2>1. Stack \o Segments(image) \in Seq(Page)
    BY SegmentsIs, StackIs, ConcatProperties
  <2> QED BY <1>2, <1>4, <1>6, <2>1, FreshGrows
<1>8. Pas(u) = {}
  BY <1>6 DEF Pas
<1>9. OthersApart(p, u, h)
  BY <1>4, <1>5, <1>8 DEF MemInv, ListedHeld, ListsApart, OthersApart
<1>10. AllListed(p, u, h)
  BY <1>4 DEF MemInv, HeldListed, AllListed
<1>11. StateType(state')
  BY <1>3, <1>4 DEF StateType
<1> QED BY <1>3, <1>5, <1>7, <1>9, <1>10, <1>11, Remapped

LEMMA ExitMem == ASSUME MemInv, panic = "none", NEW p \in Procs, Exit(p) PROVE MemInv'
<1>1. /\ state[p] = "INUSE" /\ state' = [state EXCEPT ![p] = "EXITED"]
      /\ used_pages' = [used_pages EXCEPT ![p] = <<>>]
      /\ held' = held \ Pas(used_pages[p]) /\ panic' = panic /\ stray' = stray
  BY DEF Exit, AfterFree
<1>2. /\ state \in [Procs -> {"FREE", "INUSE", "EXITED"}] /\ used_pages \in [Procs -> Seq(Used)]
      /\ held \subseteq Frames /\ stray \subseteq Frames
  BY DEF MemInv, MemoryTypes
<1>3. MemoryTypes'
  <2>1. <<>> \in Seq(Used)
    OBVIOUS
  <2> QED BY <1>1, <1>2, <2>1 DEF MemoryTypes
<1>4. p \in Live /\ Live' = Live \ {p} /\ \A q \in Live' : used_pages'[q] = used_pages[q]
  BY <1>1, <1>2 DEF Live
<1>5. ListedHeld'
  BY <1>1, <1>4 DEF MemInv, ListedHeld, ListsApart
<1>6. ListsSingle' /\ ListsApart'
  BY <1>1, <1>4 DEF MemInv, ListsSingle, ListsApart
<1>7. HeldListed'
  BY <1>1, <1>4 DEF MemInv, HeldListed
<1> QED BY <1>3, <1>5, <1>6, <1>7 DEF MemInv

LEMMA BitIs == ASSUME NEW l \in Int PROVE Bit(l) \in Place
<1>1. l \div Word \in Int /\ l % Word \in Int
  BY HeapAssumption
<1> QED BY <1>1 DEF Bit, Place

LEMMA SbrkMem == ASSUME MemInv, panic = "none", NEW p \in Procs, NEW n \in Sizes, sbrk(p, n) PROVE MemInv'
<1>1. PICK l : l = Min(FreeRuns(p, n))
  OBVIOUS
<1>2. PICK places : places = Loop(Bit(l), Bit(l + n - 1))
  OBVIOUS
<1>3. PICK k : k = [dir |-> pgdir[p], used |-> used_pages[p], held |-> held, panic |-> "none",
                    bits |-> user_heap_bitmap[p], end |-> None, failed |-> FALSE]
  OBVIOUS
<1>4. PICK m : m = SbrkAll(k, places)
  OBVIOUS
<1>5. /\ state[p] = "INUSE" /\ FreeRuns(p, n) # {} /\ state' = state
      /\ used_pages' = [used_pages EXCEPT ![p] = m.used]
      /\ held' = m.held /\ panic' = m.panic /\ stray' = stray
  BY <1>1, <1>2, <1>3, <1>4 DEF sbrk
<1>6. places \in Seq(Place)
  <2>1. n \in Nat /\ Word * Words \in Int
    BY HeapAssumption
  <2>2. FreeRuns(p, n) \in SUBSET Nat
    BY <2>1 DEF FreeRuns
  <2>3. l \in Nat
    BY <1>1, <1>5, <2>2, MinIn
  <2>4. l + n - 1 \in Int
    BY <2>1, <2>3
  <2> QED BY <1>2, <2>3, <2>4, BitIs, LoopIs
<1>7. /\ state \in [Procs -> {"FREE", "INUSE", "EXITED"}] /\ used_pages \in [Procs -> Seq(Used)]
      /\ held \subseteq Frames
  BY DEF MemInv, MemoryTypes
<1>8. p \in Live /\ Live' = Live \cup {p} /\ StateType(state')
  BY <1>5, <1>7 DEF Live, StateType
<1>9. PICK u : u = used_pages[p]
  OBVIOUS
<1>10. IsSbrk(k) /\ k.used = u /\ k.held = held /\ k.panic = "none"
  BY <1>3, <1>9 DEF IsSbrk, IsMem
<1>11. Grown(k, u, held, stray)
  <2>1. u \in Seq(Used) /\ Single(u, stray) /\ Pas(u) \subseteq held \cup stray
    BY <1>7, <1>8, <1>9 DEF MemInv, ListsSingle, ListedHeld
  <2> QED BY <1>7, <1>10, <2>1 DEF Grown
<1>12. Grown(m, u, held, stray)
  BY <1>4, <1>6, <1>10, <1>11, SbrkAllGrows
<1>13. OthersApart(p, u, held)
  BY <1>8, <1>9 DEF MemInv, ListedHeld, ListsApart, OthersApart
<1>14. AllListed(p, u, held)
  BY <1>8, <1>9 DEF MemInv, HeldListed, AllListed
<1> QED BY <1>5, <1>8, <1>12, <1>13, <1>14, Remapped

(* The rest of a list behind its entry i. *)
LEMMA SuffixIs ==
    ASSUME NEW T, NEW list \in Seq(T), NEW i \in DOMAIN list
    PROVE  /\ Suffix(list, i) \in Seq(T)
           /\ DOMAIN Suffix(list, i) = 1 .. Len(list) - i
           /\ \A k \in DOMAIN Suffix(list, i) : k + i \in DOMAIN list /\ Suffix(list, i)[k] = list[k + i]
<1>1. Len(list) \in Nat /\ DOMAIN list = 1 .. Len(list) /\ i \in 1 .. Len(list)
  OBVIOUS
<1>2. PICK v : v = Suffix(list, i)
  OBVIOUS
<1>3. v = [k \in 1 .. Len(list) - i |-> list[k + i]]
  BY <1>1, <1>2 DEF Suffix
<1>4. Len(list) - i \in Nat /\ \A k \in 1 .. Len(list) - i : k + i \in 1 .. Len(list)
  BY <1>1
<1>5. \A k \in 1 .. Len(list) - i : v[k] \in T
  BY <1>1, <1>3, <1>4
<1>6. v = [k \in 1 .. Len(list) - i |-> v[k]]
  BY <1>3
<1>7. v \in Seq(T)
  <2>1. PICK N \in Nat : N = Len(list) - i
    BY <1>4
  <2>2. v = [k \in 1 .. N |-> v[k]] /\ \A k \in 1 .. N : v[k] \in T
    BY <1>5, <1>6, <2>1
  <2> QED BY <2>2
<1> QED BY <1>1, <1>2, <1>3, <1>4, <1>7

(* free() drops the entries up to that of its page, and gives back the frame  *)
(* of the next one.                                                           *)
Dropped(p, used, page, next) ==
    /\ page \in DOMAIN used
    /\ next = IF page < Len(used) THEN {used[page + 1].pa} ELSE {}
    /\ used_pages' = [used_pages EXCEPT ![p] = Suffix(used, page)]
    /\ held' = held \ next
    /\ stray' = stray \cup next \cup {used[i].pa : i \in 1 .. page}

LEMMA FreeDrops ==
    ASSUME MemInv, NEW p \in Procs, NEW address, free(p, address),
           ~ UNCHANGED <<used_pages, held, stray>>, NEW used, used = used_pages[p]
    PROVE  \E page, next : Dropped(p, used, page, next)
<1> DEFINE list   == used_pages[p]
           allocs == heap_allocations[p]
           found  == {i \in DOMAIN allocs : allocs[i].start <= address /\ address <= allocs[i].end}
           alloc  == allocs[Min(found)]
           pages  == {i \in DOMAIN list : alloc.start <= list[i].va /\ list[i].va <= alloc.end}
           first  == Min(pages)
           following == IF first < Len(list) THEN {list[first + 1].pa} ELSE {}
<1>1. ~ (found = {} \/ pages = {})
  BY DEF free
<1>2. /\ used_pages' = [used_pages EXCEPT ![p] = Suffix(list, first)]
      /\ held' = held \ following
      /\ stray' = stray \cup following \cup {list[i].pa : i \in 1 .. first}
  BY <1>1 DEF free
<1>3. list \in Seq(Used)
  BY DEF MemInv, MemoryTypes
<1>4. pages \in SUBSET Nat
  BY <1>3
<1>5. first \in DOMAIN list
  <2>1. Min(pages) \in pages
    BY <1>1, <1>4, MinIn
  <2> QED BY <2>1
<1> HIDE DEF first, following
<1>6. following = IF first < Len(list) THEN {list[first + 1].pa} ELSE {}
  BY DEF following
<1>7. used = list
  OBVIOUS
<1>8. /\ first \in DOMAIN used
      /\ following = IF first < Len(used) THEN {used[first + 1].pa} ELSE {}
      /\ used_pages' = [used_pages EXCEPT ![p] = Suffix(used, first)]
      /\ held' = held \ following
      /\ stray' = stray \cup following \cup {used[i].pa : i \in 1 .. first}
  <2> HIDE DEF list
  <2> QED BY <1>2, <1>5, <1>6, <1>7
<1> HIDE DEF list
<1>9. Dropped(p, used, first, following)
  BY <1>8 DEF Dropped
<1> QED BY <1>9

LEMMA FreeMem == ASSUME MemInv, panic = "none", NEW p \in Procs, NEW address, free(p, address) PROVE MemInv'
<1>1. state' = state /\ panic' = panic /\ state[p] = "INUSE"
  BY DEF free
<1>2. Live' = Live /\ p \in Live
  BY <1>1 DEF Live
<1>3. /\ used_pages \in [Procs -> Seq(Used)]
      /\ held \subseteq Frames /\ stray \subseteq Frames
  BY DEF MemInv, MemoryTypes
<1>4. CASE UNCHANGED <<used_pages, held, stray>>
  BY <1>1, <1>2, <1>4 DEF MemInv, MemoryTypes, ListedHeld, ListsSingle, ListsApart, HeldListed
<1>5. CASE ~ UNCHANGED <<used_pages, held, stray>>
  <2>1. PICK used : used = used_pages[p]
    OBVIOUS
  <2>2. PICK page, next :
           /\ page \in DOMAIN used
           /\ next = IF page < Len(used) THEN {used[page + 1].pa} ELSE {}
           /\ used_pages' = [used_pages EXCEPT ![p] = Suffix(used, page)]
           /\ held' = held \ next
           /\ stray' = stray \cup next \cup {used[i].pa : i \in 1 .. page}
    <3>1. \E page, next : Dropped(p, used, page, next)
      BY <1>5, <2>1, FreeDrops
    <3> QED BY <3>1, Zenon DEF Dropped
  <2>3. PICK v : v = Suffix(used, page)
    OBVIOUS
  <2>4. used \in Seq(Used) /\ Len(used) \in Nat /\ DOMAIN used = 1 .. Len(used)
    BY <1>3, <2>1
  <2>5. /\ v \in Seq(Used) /\ DOMAIN v = 1 .. Len(used) - page /\ page \in DOMAIN used
        /\ \A k \in DOMAIN v : k + page \in DOMAIN used /\ v[k] = used[k + page]
    BY <2>2, <2>3, <2>4, SuffixIs
  <2>6. /\ used_pages'[p] = v /\ used_pages' \in [Procs -> Seq(Used)]
        /\ \A q \in Procs \ {p} : used_pages'[q] = used_pages[q]
    BY <1>3, <2>2, <2>3, <2>5
  <2>7. Pas(v) \subseteq Pas(used)
    BY <2>5 DEF Pas
  <2>8. Single(v, stray)
    <3>1. Single(used, stray)
      BY <1>2, <2>1 DEF MemInv, ListsSingle
    <3>2. ASSUME NEW i \in DOMAIN v, NEW j \in DOMAIN v, i # j PROVE i + page # j + page
      BY <2>4, <2>5, <3>2
    <3> QED BY <2>5, <3>1, <3>2 DEF Single
  <2>9. next \subseteq Frames /\ {used[i].pa : i \in 1 .. page} \subseteq Frames
    <3>1. \A i \in DOMAIN used : used[i] \in Used
      BY <2>4, <2>5
    <3>2. \A i \in 1 .. page : i \in DOMAIN used
      BY <2>4, <2>5
    <3>3. page < Len(used) => page + 1 \in DOMAIN used
      BY <2>4, <2>5
    <3>4. \A i \in DOMAIN used : used[i].pa \in Frames
      BY <3>1 DEF Used
    <3> QED BY <2>2, <3>2, <3>3, <3>4
  <2>10. MemoryTypes'
    BY <1>1, <1>3, <2>2, <2>6, <2>9 DEF MemInv, MemoryTypes
  <2>11. stray \subseteq stray' /\ held \cup stray \subseteq held' \cup stray'
    BY <2>2
  <2>12. \A q \in Live : Pas(used_pages'[q]) \subseteq Pas(used_pages[q])
    BY <2>1, <2>6, <2>7 DEF Live
  <2>13. ListedHeld'
    BY <1>2, <2>11, <2>12 DEF MemInv, ListedHeld
  <2>14. ListsSingle'
    <3>1. ASSUME NEW q \in Live PROVE Single(used_pages'[q], stray)
      BY <2>6, <2>8 DEF Live, MemInv, ListsSingle
    <3> QED BY <1>2, <2>11, <3>1 DEF ListsSingle, Single
  <2>15. ListsApart'
    BY <1>2, <2>11, <2>12 DEF MemInv, ListsApart
  <2>16. HeldListed'
    <3>1. SUFFICES ASSUME NEW f \in held' \ stray' PROVE \E q \in Live : f \in Pas(used_pages'[q])
      BY <1>2 DEF HeldListed
    <3>2. f \in held \ stray /\ f \notin {used[i].pa : i \in 1 .. page}
      BY <2>2, <3>1
    <3>3. PICK q \in Live : f \in Pas(used_pages[q])
      BY <3>2 DEF MemInv, HeldListed
    <3>4. CASE q # p
      BY <2>6, <3>3, <3>4 DEF Live
    <3>5. CASE q = p
      <4>1. PICK i \in DOMAIN used : f = used[i].pa
        BY <2>1, <3>3, <3>5 DEF Pas
      <4>2. i \notin 1 .. page
        BY <3>2, <4>1
      <4>3. i - page \in DOMAIN v /\ (i - page) + page = i
        BY <2>4, <2>5, <4>2
      <4>4. v[i - page].pa = f
        BY <2>5, <4>1, <4>3
      <4>5. f \in Pas(v)
        BY <4>3, <4>4 DEF Pas
      <4> QED BY <1>2, <2>6, <4>5
    <3> QED BY <3>4, <3>5
  <2> QED BY <2>10, <2>13, <2>14, <2>15, <2>16 DEF MemInv
<1> QED BY <1>4, <1>5

LEMMA NextMem == MemInv /\ [Next]_vars => MemInv'
<1> SUFFICES ASSUME MemInv, [Next]_vars PROVE MemInv'
  OBVIOUS
<1>1. CASE UNCHANGED vars
  BY <1>1 DEF vars, procVars, MemInv, MemoryTypes, ListedHeld, ListsSingle, ListsApart, HeldListed, Live
<1>2. CASE Next
  <2>1. PICK p \in Procs : SystemCall(p)
    BY <1>2 DEF Next
  <2>2. panic = "none"
    BY <1>2 DEF Next
  <2> QED BY <2>1, <2>2, ForkMem, ExitMem, ExecMem, SbrkMem, FreeMem DEF SystemCall
<1> QED BY <1>1, <1>2

(* Every frame a process lists is out or one free() lost; no list, and no two *)
(* lists, hold a frame twice but for those; a frame that is out is listed.    *)
THEOREM MemoryInvariant == Spec => []MemInv
BY InitMem, NextMem, PTL DEF Spec

(* No frame is mapped twice, in one process or in two, but for the frames     *)
(* free() has lost track of (fork, exec, exit and sbrk share none).           *)
THEOREM UserFramesPrivate == Spec => []FramesPrivate
<1>1. MemInv => FramesPrivate
  <2> SUFFICES ASSUME MemInv, NEW x \in Listed, NEW y \in Listed, Pa(x) = Pa(y), x # y
               PROVE  Pa(x) \in stray
    BY DEF FramesPrivate
  <2>1. PICK p \in Live : \E i \in DOMAIN used_pages[p] : x = <<p, i>>
    BY DEF Listed
  <2>2. PICK q \in Live : \E j \in DOMAIN used_pages[q] : y = <<q, j>>
    BY DEF Listed
  <2>i. PICK i \in DOMAIN used_pages[p] : x = <<p, i>>
    BY <2>1
  <2>j. PICK j \in DOMAIN used_pages[q] : y = <<q, j>>
    BY <2>2
  <2>3. Pa(x) = used_pages[p][i].pa /\ Pa(y) = used_pages[q][j].pa
    BY <2>i, <2>j DEF Pa
  <2>4. CASE p = q
    <3>1. i # j
      BY <2>i, <2>j, <2>4
    <3> QED BY <2>3, <2>4, <3>1 DEF MemInv, ListsSingle, Single
  <2>5. CASE p # q
    BY <2>3, <2>5 DEF MemInv, ListsApart, Pas
  <2> QED BY <2>4, <2>5
<1> QED BY <1>1, MemoryInvariant, PTL

(* While the system runs, a frame that is out belongs to a live process: exec *)
(* and exit give every listed frame back, a failing sbrk loses none; but for  *)
(* the frames free() has lost.                                                *)
THEOREM UserNoFrameLeak == Spec => []NoFrameLeak
<1>1. MemInv => NoFrameLeak
  <2> SUFFICES ASSUME MemInv, panic = "none", NEW f \in held \ stray PROVE \E x \in Listed : f = Pa(x)
    BY DEF NoFrameLeak
  <2>1. PICK p \in Live : f \in Pas(used_pages[p])
    BY DEF MemInv, HeldListed
  <2>2. PICK i \in DOMAIN used_pages[p] : f = used_pages[p][i].pa
    BY <2>1 DEF Pas
  <2>3. <<p, i>> \in Listed /\ Pa(<<p, i>>) = f
    BY <2>2 DEF Listed, Pa
  <2> QED BY <2>3
<1> QED BY <1>1, MemoryInvariant, PTL

-----------------------------------------------------------------------------
(* The page tables *)

Same(x, y) == x.va = y.va /\ x.pdt = y.pdt /\ x.pd = y.pd
InPlace(page) == \E x \in Mappable : Same(page, x)

(* The walk to the page of entry e finds the tables e was mapped with. *)
Walks(dir, e) ==
    /\ pml4t_index(e.va) \in dir.pml4t
    /\ pdpt_index(e.va) \in DOMAIN dir.pdpt /\ dir.pdpt[pdpt_index(e.va)] = e.pdt
    /\ <<e.pdt, pdt_index(e.va)>> \in DOMAIN dir.pdt /\ dir.pdt[<<e.pdt, pdt_index(e.va)>>] = e.pd
    /\ <<e.pd, pt_index(e.va)>> \in DOMAIN dir.pd /\ dir.pd[<<e.pd, pt_index(e.va)>>] = e.pa

Counted(dir, list) == IsFiniteSet(DOMAIN dir.pd) /\ Cardinality(DOMAIN dir.pd) = Len(list)

Tabled(dir, list, counted) ==
    /\ list \in Seq(Used)
    /\ \A i \in DOMAIN list : InPlace(list[i]) /\ Walks(dir, list[i])
    /\ counted => Counted(dir, list)

TablesInv ==
    /\ pgdir = [p \in Procs |-> pgdir[p]]
    /\ freed \in [Procs -> BOOLEAN]
    /\ \A p \in Live : Tabled(pgdir[p], used_pages[p], ~ freed[p])

(* The tables with one page more. *)
WithPage(dir, e) == [pml4t |-> dir.pml4t \cup {pml4t_index(e.va)},
                     pdpt |-> Put(dir.pdpt, pdpt_index(e.va), e.pdt),
                     pdt  |-> Put(dir.pdt, <<e.pdt, pdt_index(e.va)>>, e.pd),
                     pd   |-> Put(dir.pd, <<e.pd, pt_index(e.va)>>, e.pa)]

LEMMA Added ==
    ASSUME AreasApart, NEW dir, NEW list, NEW counted \in BOOLEAN, Tabled(dir, list, counted),
           NEW e \in Used, InPlace(e),
           ~ (<<e.pdt, pdt_index(e.va)>> \in DOMAIN dir.pdt /\ dir.pdt[<<e.pdt, pdt_index(e.va)>>] # e.pd),
           <<e.pd, pt_index(e.va)>> \notin DOMAIN dir.pd
    PROVE  Tabled(WithPage(dir, e), <<e>> \o list, counted)
<1>1. list \in Seq(Used) /\ Len(list) \in Nat /\ DOMAIN list = 1 .. Len(list)
  BY DEF Tabled
<1>2. PICK v : v = <<e>> \o list
  OBVIOUS
<1>3. <<e>> \in Seq(Used) /\ Len(<<e>>) = 1 /\ <<e>>[1] = e
  OBVIOUS
<1>4. /\ v \in Seq(Used) /\ Len(v) = 1 + Len(list)
      /\ \A j \in 1 .. 1 + Len(list) : v[j] = IF j <= 1 THEN <<e>>[j] ELSE list[j - 1]
  BY <1>1, <1>2, <1>3, ConcatProperties
<1>5. \A j \in DOMAIN v : v[j] = e \/ (j - 1 \in DOMAIN list /\ v[j] = list[j - 1])
  BY <1>1, <1>3, <1>4
<1>6. PICK d : d = WithPage(dir, e)
  OBVIOUS
<1>7. /\ d.pml4t = dir.pml4t \cup {pml4t_index(e.va)}
      /\ d.pdpt = Put(dir.pdpt, pdpt_index(e.va), e.pdt)
      /\ d.pdt = Put(dir.pdt, <<e.pdt, pdt_index(e.va)>>, e.pd)
      /\ d.pd = Put(dir.pd, <<e.pd, pt_index(e.va)>>, e.pa)
  BY <1>6 DEF WithPage
<1>a. /\ DOMAIN d.pdpt = DOMAIN dir.pdpt \cup {pdpt_index(e.va)} /\ d.pdpt[pdpt_index(e.va)] = e.pdt
      /\ \A x \in DOMAIN dir.pdpt : x # pdpt_index(e.va) => d.pdpt[x] = dir.pdpt[x]
  BY <1>7 DEF Put
<1>b. PICK at : at = <<e.pdt, pdt_index(e.va)>>
  OBVIOUS
<1>c. /\ DOMAIN d.pdt = DOMAIN dir.pdt \cup {at} /\ d.pdt[at] = e.pd
      /\ \A x \in DOMAIN dir.pdt : x # at => d.pdt[x] = dir.pdt[x]
  BY <1>7, <1>b DEF Put
<1>d. PICK to : to = <<e.pd, pt_index(e.va)>>
  OBVIOUS
<1>e. /\ DOMAIN d.pd = DOMAIN dir.pd \cup {to} /\ d.pd[to] = e.pa
      /\ \A x \in DOMAIN dir.pd : x # to => d.pd[x] = dir.pd[x]
  BY <1>7, <1>d DEF Put
<1>8. Walks(d, e)
  BY <1>7, <1>a, <1>b, <1>c, <1>d, <1>e DEF Walks
<1>9. ASSUME NEW x, InPlace(x), Walks(dir, x) PROVE Walks(d, x)
  <2>1. pdpt_index(x.va) = pdpt_index(e.va) => x.pdt = e.pdt
    BY <1>9 DEF AreasApart, InPlace, Same
  <2>2. pdpt_index(x.va) \in DOMAIN d.pdpt /\ d.pdpt[pdpt_index(x.va)] = x.pdt
    <3>1. pdpt_index(x.va) \in DOMAIN dir.pdpt /\ dir.pdpt[pdpt_index(x.va)] = x.pdt
      BY <1>9 DEF Walks
    <3> QED BY <1>a, <2>1, <3>1
  <2>3. <<x.pdt, pdt_index(x.va)>> \in DOMAIN d.pdt /\ d.pdt[<<x.pdt, pdt_index(x.va)>>] = x.pd
    <3>1. PICK y : y = <<x.pdt, pdt_index(x.va)>>
      OBVIOUS
    <3>2. y \in DOMAIN dir.pdt /\ dir.pdt[y] = x.pd
      BY <1>9, <3>1 DEF Walks
    <3>3. y = at => x.pd = e.pd
      BY <1>b, <3>2
    <3> QED BY <1>c, <3>1, <3>2, <3>3
  <2>4. <<x.pd, pt_index(x.va)>> \in DOMAIN d.pd /\ d.pd[<<x.pd, pt_index(x.va)>>] = x.pa
    <3>1. PICK y : y = <<x.pd, pt_index(x.va)>>
      OBVIOUS
    <3>2. y \in DOMAIN dir.pd /\ dir.pd[y] = x.pa
      BY <1>9, <3>1 DEF Walks
    <3>3. y # to
      BY <1>d, <3>2
    <3> QED BY <1>e, <3>1, <3>2, <3>3
  <2>5. pml4t_index(x.va) \in d.pml4t
    BY <1>7, <1>9 DEF Walks
  <2> QED BY <2>2, <2>3, <2>4, <2>5 DEF Walks
<1>10. ASSUME NEW j \in DOMAIN v PROVE InPlace(v[j]) /\ Walks(d, v[j])
  BY <1>5, <1>8, <1>9 DEF Tabled
<1>11. counted => Counted(d, v)
  <2> SUFFICES ASSUME counted PROVE Counted(d, v)
    OBVIOUS
  <2>1. Counted(dir, list)
    BY DEF Tabled
  <2>2. DOMAIN d.pd = DOMAIN dir.pd \cup {<<e.pd, pt_index(e.va)>>}
    BY <1>d, <1>e
  <2>3. IsFiniteSet(DOMAIN d.pd) /\ Cardinality(DOMAIN d.pd) = Cardinality(DOMAIN dir.pd) + 1
    BY <2>1, <2>2, FS_AddElement DEF Counted
  <2> QED BY <1>1, <1>4, <2>1, <2>3 DEF Counted
<1> QED BY <1>2, <1>4, <1>6, <1>10, <1>11 DEF Tabled

LEMMA MapNewTables ==
    ASSUME AreasApart, NEW m, IsMem(m), NEW page \in Page, InPlace(page),
           NEW counted \in BOOLEAN, Tabled(m.dir, m.used, counted)
    PROVE  /\ IsMem(MapNew(m, page)) /\ DOMAIN MapNew(m, page) = DOMAIN m
           /\ Tabled(MapNew(m, page).dir, MapNew(m, page).used, counted)
<1>1. CASE m.panic # "none" \/ ~ page.load
  BY <1>1 DEF MapNew
<1>2. CASE m.panic = "none" /\ page.load /\ FreeFrames(m) = {}
  <2>1. PICK r : r = MapNew(m, page)
    OBVIOUS
  <2>2. r = [m EXCEPT !.panic = "frames"]
    BY <1>2, <2>1 DEF MapNew, Halt
  <2>3. DOMAIN r = DOMAIN m /\ IsMem(r) /\ r.used = m.used /\ r.dir = m.dir
    BY <2>2 DEF IsMem
  <2> QED BY <2>1, <2>3
<1>3. CASE m.panic = "none" /\ page.load /\ FreeFrames(m) # {}
  <2>1. FreeFrames(m) \in SUBSET Nat
    BY ProcsAssumption DEF FreeFrames, Frames
  <2>2. PICK pa : pa = Min(FreeFrames(m))
    OBVIOUS
  <2>3. pa \in Frames
    BY <1>3, <2>1, <2>2, MinIn DEF FreeFrames
  <2>4. PICK k : k = [m EXCEPT !.held = @ \cup {pa}]
    OBVIOUS
  <2>5. DOMAIN k = DOMAIN m /\ IsMem(k) /\ k.used = m.used /\ k.dir = m.dir /\ k.panic = "none"
    BY <1>3, <2>4 DEF IsMem
  <2>6. PICK r : r = map_4kb_page_user(k, page.va, pa, page.pdt, page.pd)
    OBVIOUS
  <2>7. MapNew(m, page) = r
    BY <1>3, <2>2, <2>4, <2>6 DEF MapNew
  <2>8. PICK e : e = [va |-> page.va, pa |-> pa, pdt |-> page.pdt, pd |-> page.pd]
    OBVIOUS
  <2>9. e \in Used /\ e.pa = pa /\ e.va = page.va /\ e.pdt = page.pdt /\ e.pd = page.pd
    BY <2>3, <2>8 DEF Used, Page
  <2>10. CASE \/ <<e.pdt, pdt_index(e.va)>> \in DOMAIN m.dir.pdt /\ m.dir.pdt[<<e.pdt, pdt_index(e.va)>>] # e.pd
              \/ <<e.pd, pt_index(e.va)>> \in DOMAIN m.dir.pd
    <3>1. r = Halt(k, "pdt") \/ r = Halt(k, "pd")
      BY <2>5, <2>6, <2>9, <2>10 DEF map_4kb_page_user
    <3>2. PICK why : r = [k EXCEPT !.panic = why]
      BY <2>5, <3>1 DEF Halt
    <3>3. DOMAIN r = DOMAIN m /\ IsMem(r) /\ r.used = m.used /\ r.dir = m.dir
      BY <2>5, <3>2 DEF IsMem
    <3> QED BY <2>7, <3>3
  <2>11. CASE /\ ~ (<<e.pdt, pdt_index(e.va)>> \in DOMAIN m.dir.pdt /\ m.dir.pdt[<<e.pdt, pdt_index(e.va)>>] # e.pd)
              /\ <<e.pd, pt_index(e.va)>> \notin DOMAIN m.dir.pd
    <3>1. r = [k EXCEPT !.dir = WithPage(m.dir, e), !.used = <<e>> \o @]
      BY <2>5, <2>6, <2>8, <2>9, <2>11 DEF map_4kb_page_user, WithPage, IsMem
    <3>2. DOMAIN r = DOMAIN m /\ IsMem(r) /\ r.used = <<e>> \o m.used /\ r.dir = WithPage(m.dir, e)
      BY <2>5, <3>1 DEF IsMem
    <3>3. InPlace(e)
      BY <2>9 DEF InPlace, Same
    <3>4. Tabled(r.dir, r.used, counted)
      BY <2>9, <2>11, <3>2, <3>3, Added
    <3> QED BY <2>7, <3>2, <3>4
  <2> QED BY <2>10, <2>11
<1> QED BY <1>1, <1>2, <1>3

LEMMA MapAllTables ==
    ASSUME AreasApart, NEW m, IsMem(m), NEW pages \in Seq(Page), \A i \in DOMAIN pages : InPlace(pages[i]),
           NEW counted \in BOOLEAN, Tabled(m.dir, m.used, counted)
    PROVE  IsMem(MapAll(m, pages)) /\ Tabled(MapAll(m, pages).dir, MapAll(m, pages).used, counted)
<1>1. Len(pages) \in Nat /\ \A i \in 1 .. Len(pages) : pages[i] \in Page /\ InPlace(pages[i])
  OBVIOUS
<1>2. PICK g : Mapped(g, m, pages, Len(pages)) /\ MapAll(m, pages) = g[Len(pages)]
  BY <1>1, MapRoundsResult
<1> DEFINE S == {k \in 0 .. Len(pages) : IsMem(g[k]) /\ Tabled(g[k].dir, g[k].used, counted)}
<1>3. 0 \in S
  <2>1. g[0] = m
    BY <1>1, <1>2 DEF Mapped
  <2> QED BY <1>1, <2>1
<1>4. ASSUME NEW k \in 1 .. Len(pages), k - 1 \in S PROVE k \in S
  <2>1. k \in 0 .. Len(pages) /\ k # 0
    BY <1>1
  <2>2. g[k] = MapNew(g[k - 1], pages[k])
    BY <1>2, <2>1 DEF Mapped
  <2>3. IsMem(g[k - 1]) /\ Tabled(g[k - 1].dir, g[k - 1].used, counted)
    BY <1>4
  <2>4. pages[k] \in Page /\ InPlace(pages[k])
    BY <1>1
  <2>5. IsMem(g[k]) /\ Tabled(g[k].dir, g[k].used, counted)
    BY <2>2, <2>3, <2>4, MapNewTables
  <2> QED BY <2>1, <2>5
<1>5. Len(pages) \in S
  <2> HIDE DEF S
  <2> QED BY <1>1, <1>3, <1>4, Count
<1> QED BY <1>2, <1>5

(* The places of the heap's bits. *)
HeapPlace(at) == InPlace(HeapPage(at[1] * Word + at[2]))

LEMMA SbrkStepTables ==
    ASSUME AreasApart, NEW m, IsSbrk(m), NEW at \in Place, HeapPlace(at),
           NEW counted \in BOOLEAN, Tabled(m.dir, m.used, counted)
    PROVE  IsSbrk(SbrkStep(m, at)) /\ Tabled(SbrkStep(m, at).dir, SbrkStep(m, at).used, counted)
<1>1. CASE m.failed \/ m.panic # "none"
  BY <1>1 DEF SbrkStep
<1>2. CASE ~ (m.failed \/ m.panic # "none") /\ FreeFrames(m) = {}
  <2>1. PICK r : r = SbrkStep(m, at)
    OBVIOUS
  <2>2. r = [m EXCEPT !.failed = TRUE]
    BY <1>2, <2>1 DEF SbrkStep
  <2>3. DOMAIN r = DOMAIN m /\ IsSbrk(r) /\ r.used = m.used /\ r.dir = m.dir
    BY <2>2 DEF IsSbrk, IsMem
  <2> QED BY <2>1, <2>3
<1>3. CASE ~ (m.failed \/ m.panic # "none") /\ FreeFrames(m) # {}
  <2>1. PICK page \in Page : page = HeapPage(at[1] * Word + at[2])
    BY HeapPageIs
  <2>2. PICK k : k = MapNew(m, page)
    OBVIOUS
  <2>3. InPlace(page)
    BY <2>1 DEF HeapPlace
  <2>4. IsMem(k) /\ DOMAIN k = DOMAIN m /\ Tabled(k.dir, k.used, counted)
    BY <2>2, <2>3, MapNewTables DEF IsSbrk
  <2>5. PICK r : r = SbrkStep(m, at)
    OBVIOUS
  <2>6. r = [k EXCEPT !.bits[at[1]] = @ \cup Shift(at[2]), !.end = page.va]
    BY <1>3, <2>1, <2>2, <2>5 DEF SbrkStep
  <2>7. PICK bits : r = [k EXCEPT !.bits = bits, !.end = page.va]
    BY <2>6
  <2>8. DOMAIN r = DOMAIN k /\ IsMem(r) /\ r.used = k.used /\ r.dir = k.dir
    BY <2>4, <2>7 DEF IsMem
  <2>9. IsSbrk(r)
    BY <2>4, <2>8 DEF IsSbrk
  <2> QED BY <2>4, <2>5, <2>8, <2>9
<1> QED BY <1>1, <1>2, <1>3

LEMMA SbrkAllTables ==
    ASSUME AreasApart, NEW m, IsSbrk(m), NEW places \in Seq(Place), \A i \in DOMAIN places : HeapPlace(places[i]),
           NEW counted \in BOOLEAN, Tabled(m.dir, m.used, counted)
    PROVE  IsSbrk(SbrkAll(m, places)) /\ Tabled(SbrkAll(m, places).dir, SbrkAll(m, places).used, counted)
<1>1. Len(places) \in Nat /\ \A i \in 1 .. Len(places) : places[i] \in Place /\ HeapPlace(places[i])
  OBVIOUS
<1>2. PICK g : Taken(g, m, places, Len(places)) /\ SbrkAll(m, places) = g[Len(places)]
  BY <1>1, SbrkRoundsResult
<1> DEFINE S == {k \in 0 .. Len(places) : IsSbrk(g[k]) /\ Tabled(g[k].dir, g[k].used, counted)}
<1>3. 0 \in S
  <2>1. g[0] = m
    BY <1>1, <1>2 DEF Taken
  <2> QED BY <1>1, <2>1
<1>4. ASSUME NEW k \in 1 .. Len(places), k - 1 \in S PROVE k \in S
  <2>1. k \in 0 .. Len(places) /\ k # 0
    BY <1>1
  <2>2. g[k] = SbrkStep(g[k - 1], places[k])
    BY <1>2, <2>1 DEF Taken
  <2>3. IsSbrk(g[k - 1]) /\ Tabled(g[k - 1].dir, g[k - 1].used, counted)
    BY <1>4
  <2>4. places[k] \in Place /\ HeapPlace(places[k])
    BY <1>1
  <2>5. IsSbrk(g[k]) /\ Tabled(g[k].dir, g[k].used, counted)
    BY <2>2, <2>3, <2>4, SbrkStepTables
  <2> QED BY <2>1, <2>5
<1>5. Len(places) \in S
  <2> HIDE DEF S
  <2> QED BY <1>1, <1>3, <1>4, Count
<1> QED BY <1>2, <1>5

LEMMA DivLess == ASSUME NEW x \in Int, NEW w \in Nat \ {0}, NEW a \in Int, x < a * w PROVE x \div w < a
<1>1. PICK d \in Int : d = x \div w
  OBVIOUS
<1>2. PICK r \in Int : r = x % w /\ 0 <= r /\ x = w * d + r
  BY <1>1
<1>3. SUFFICES ASSUME d >= a PROVE FALSE
  BY <1>1
<1>4. (d - a) * w >= 0
  BY <1>3
<1>5. d * w >= a * w
  BY <1>4
<1>6. w * d = d * w
  OBVIOUS
<1> QED BY <1>2, <1>5, <1>6

LEMMA DivNat == ASSUME NEW x \in Nat, NEW w \in Nat \ {0} PROVE x \div w \in Nat
OBVIOUS

(* The rectangle of words and bits from the first to the last lies inside the *)
(* bitmap, so that sbrk maps heap pages only.                                 *)
LEMMA LoopInHeap ==
    ASSUME NEW n \in Nat, NEW l \in 0 .. Word * Words - n
    PROVE  \A k \in DOMAIN Loop(Bit(l), Bit(l + n - 1)) : HeapPlace(Loop(Bit(l), Bit(l + n - 1))[k])
<1>1. Word \in Nat \ {0} /\ Words \in Nat /\ Word * Words \in Nat
  BY HeapAssumption
<1>2. PICK x \in Int : x = l + n - 1 /\ x < Words * Word /\ -1 <= x
  <2>1. Word * Words = Words * Word
    BY <1>1
  <2> QED BY <1>1, <2>1
<1>3. PICK a \in Nat, b \in Nat : a = l \div Word /\ b = l % Word /\ b < Word
  BY <1>1, DivNat
<1>4. PICK c \in Int, d \in Nat : c = x \div Word /\ d = x % Word /\ d < Word
  BY <1>1
<1>5. c < Words
  BY <1>1, <1>2, <1>4, DivLess
<1>6. Bit(l) = <<a, b>> /\ Bit(x) = <<c, d>>
  BY <1>3, <1>4 DEF Bit
<1>7. PICK list : list = Loop(Bit(l), Bit(l + n - 1))
  OBVIOUS
<1>8. list = Loop(<<a, b>>, <<c, d>>)
  BY <1>2, <1>6, <1>7
<1>9. PICK w \in Int : w = d - b + 1
  OBVIOUS
<1>10. CASE w <= 0
  <2>1. list = <<>>
    BY <1>8, <1>9, <1>10 DEF Loop
  <2> QED BY <1>7, <2>1
<1>11. CASE w > 0
  <2>1. PICK N \in Int : N = (c - a + 1) * w
    BY <1>9
  <2>2. list = [k \in 1 .. N |-> <<a + (k - 1) \div w, b + ((k - 1) % w)>>]
    BY <1>8, <1>9, <1>11, <2>1 DEF Loop
  <2>3. ASSUME NEW k \in DOMAIN list PROVE HeapPlace(list[k])
    <3>1. k \in 1 .. N /\ k - 1 \in Nat /\ k - 1 < (c - a + 1) * w
      BY <2>1, <2>2, <2>3
    <3>2. PICK i \in Nat : i = (k - 1) \div w /\ i < c - a + 1
      <4>1. w \in Nat \ {0} /\ c - a + 1 \in Int /\ k - 1 \in Int
        BY <1>11, <3>1
      <4>2. (k - 1) \div w < c - a + 1
        BY <3>1, <4>1, DivLess
      <4>3. (k - 1) \div w \in Nat
        BY <3>1, <4>1, DivNat
      <4> QED BY <4>2, <4>3
    <3>3. PICK j \in Nat : j = (k - 1) % w /\ j < w
      BY <1>11, <3>1
    <3>4. list[k] = <<a + i, b + j>>
      BY <2>2, <3>1, <3>2, <3>3
    <3>5. PICK s \in Nat : s = a + i /\ s <= Words - 1
      <4>1. a + i \in Nat /\ a + i <= Words - 1
        BY <1>1, <1>5, <3>2
      <4> QED BY <4>1
    <3>6. PICK t \in Nat : t = b + j /\ t <= Word - 1
      <4>1. b + j \in Nat /\ b + j <= Word - 1
        BY <1>1, <1>4, <1>9, <3>3
      <4> QED BY <4>1
    <3>7. s * Word + t \in 0 .. Word * Words - 1
      <4>1. s * Word \in Nat
        BY <1>1
      <4>2. (Words - 1 - s) * Word >= 0
        BY <1>1, <3>5
      <4>3. s * Word <= Words * Word - Word
        BY <1>1, <4>2
      <4> QED BY <1>1, <3>6, <4>1, <4>3
    <3>8. HeapPage(s * Word + t) \in Mappable
      <4>1. PICK y : y = s * Word + t
        OBVIOUS
      <4>2. HeapPage(y) \in HeapArea
        BY <3>7, <4>1 DEF HeapArea
      <4> QED BY <4>1, <4>2 DEF Mappable
    <3>9. InPlace(HeapPage(s * Word + t))
      BY <3>8 DEF InPlace, Same
    <3> QED BY <3>4, <3>5, <3>6, <3>9 DEF HeapPlace
  <2> QED BY <1>7, <2>3
<1> QED BY <1>9, <1>10, <1>11

-----------------------------------------------------------------------------
(* The lists of pages lie in their areas *)

LEMMA StackInPlace == \A i \in DOMAIN Stack : InPlace(Stack[i])
<1>1. ASSUME NEW i \in DOMAIN Stack PROVE InPlace(Stack[i])
  <2>1. i \in 1 .. StackPages
    BY DEF Stack
  <2>2. Stack[i] \in Mappable
    BY <2>1 DEF StackArea, Mappable
  <2> QED BY <2>2 DEF InPlace, Same
<1> QED BY <1>1

LEMMA SegmentsInPlace == ASSUME NEW image \in Images PROVE \A i \in DOMAIN Segments(image) : InPlace(Segments(image)[i])
<1>1. CASE image.elf
  <2>1. ASSUME NEW i \in DOMAIN Segments(image) PROVE InPlace(Segments(image)[i])
    <3>1. i \in DOMAIN image.segments /\ Segments(image)[i] = FirstPage(image.segments[i])
      BY <1>1 DEF Segments
    <3>2. FirstPage(image.segments[i]) \in ProgramArea
      BY <3>1 DEF ProgramArea
    <3> QED BY <3>1, <3>2 DEF InPlace, Mappable, Same
  <2> QED BY <2>1
<1>2. CASE ~ image.elf
  BY <1>2 DEF Segments
<1> QED BY <1>1, <1>2

LEMMA BothInPlace ==
    ASSUME NEW s \in Seq(Page), NEW t \in Seq(Page),
           \A i \in DOMAIN s : InPlace(s[i]), \A i \in DOMAIN t : InPlace(t[i])
    PROVE  \A i \in DOMAIN (s \o t) : InPlace((s \o t)[i])
<1>1. PICK v : v = s \o t
  OBVIOUS
<1>2. Len(s) \in Nat /\ Len(t) \in Nat /\ DOMAIN s = 1 .. Len(s) /\ DOMAIN t = 1 .. Len(t)
  OBVIOUS
<1>3. /\ v \in Seq(Page) /\ Len(v) = Len(s) + Len(t)
      /\ \A j \in 1 .. Len(s) + Len(t) : v[j] = IF j <= Len(s) THEN s[j] ELSE t[j - Len(s)]
  BY <1>1, ConcatProperties
<1>4. ASSUME NEW j \in DOMAIN v PROVE InPlace(v[j])
  <2>1. j \in 1 .. Len(s) + Len(t)
    BY <1>3
  <2>2. CASE j <= Len(s)
    <3>1. j \in DOMAIN s /\ v[j] = s[j]
      BY <1>2, <1>3, <2>1, <2>2
    <3> QED BY <3>1
  <2>3. CASE ~ (j <= Len(s))
    <3>1. j - Len(s) \in DOMAIN t /\ v[j] = t[j - Len(s)]
      BY <1>2, <1>3, <2>1, <2>3
    <3> QED BY <3>1
  <2> QED BY <2>2, <2>3
<1> QED BY <1>1, <1>4

LEMMA CopyInPlace ==
    ASSUME NEW list, \A i \in DOMAIN list : InPlace(list[i])
    PROVE  \A i \in DOMAIN Copy(list) : InPlace(Copy(list)[i])
<1>1. \A i \in DOMAIN Copy(list) : i \in DOMAIN list /\ Same(Copy(list)[i], list[i])
  BY DEF Copy, Same
<1> QED BY <1>1 DEF InPlace, Same

LEMMA FreshTables ==
    ASSUME AreasApart, NEW h, NEW pages \in Seq(Page), \A i \in DOMAIN pages : InPlace(pages[i]), NEW va
    PROVE  \A counted \in BOOLEAN : Tabled(CheckRip(MapAll(Fresh(h), pages), va).dir,
                                           CheckRip(MapAll(Fresh(h), pages), va).used, counted)
<1>1. PICK k : k = Fresh(h)
  OBVIOUS
<1>2. IsMem(k) /\ k.dir = EmptyDir /\ k.used = <<>>
  BY <1>1 DEF IsMem, Fresh
<1>3. Tabled(k.dir, k.used, TRUE)
  <2>1. EmptyDir.pd = <<>> /\ DOMAIN EmptyDir.pd = {}
    BY DEF EmptyDir
  <2>2. Counted(EmptyDir, <<>>)
    BY <2>1, FS_EmptySet DEF Counted
  <2> QED BY <1>2, <2>2 DEF Tabled
<1>4. PICK m : m = MapAll(k, pages)
  OBVIOUS
<1>5. IsMem(m) /\ Tabled(m.dir, m.used, TRUE)
  BY <1>2, <1>3, <1>4, MapAllTables
<1>6. PICK r : r = CheckRip(m, va)
  OBVIOUS
<1>7. r = m \/ r = [m EXCEPT !.panic = "rip"]
  BY <1>6 DEF CheckRip, Halt
<1>8. r.used = m.used /\ r.dir = m.dir
  BY <1>5, <1>7 DEF IsMem
<1>9. \A counted \in BOOLEAN : Tabled(r.dir, r.used, counted)
  BY <1>5, <1>8 DEF Tabled
<1> QED BY <1>1, <1>4, <1>6, <1>9

-----------------------------------------------------------------------------
LEMMA InitTables == AreasApart /\ Init => TablesInv
<1> SUFFICES ASSUME AreasApart, Init PROVE TablesInv
  OBVIOUS
<1>1. PICK image \in Images :
        LET m == CheckRip(MapAll(Fresh({}), Segments(image) \o Stack), Entry(image))
        IN /\ state = [p \in Procs |-> IF p = 0 THEN "INUSE" ELSE "FREE"]
           /\ pgdir = [p \in Procs |-> IF p = 0 THEN m.dir ELSE EmptyDir]
           /\ used_pages = [p \in Procs |-> IF p = 0 THEN m.used ELSE <<>>]
           /\ freed = [p \in Procs |-> FALSE]
  BY Zenon DEF Init
<1>2. PICK m : m = CheckRip(MapAll(Fresh({}), Segments(image) \o Stack), Entry(image))
  OBVIOUS
<1>3. Segments(image) \o Stack \in Seq(Page)
  BY SegmentsIs, StackIs, ConcatProperties
<1>4. Tabled(m.dir, m.used, TRUE)
  <2>1. PICK pages : pages = Segments(image) \o Stack
    OBVIOUS
  <2>2. \A i \in DOMAIN pages : InPlace(pages[i])
    BY <2>1, SegmentsIs, StackIs, SegmentsInPlace, StackInPlace, BothInPlace
  <2> QED BY <1>2, <1>3, <2>1, <2>2, FreshTables
<1>5. /\ state = [p \in Procs |-> IF p = 0 THEN "INUSE" ELSE "FREE"]
      /\ pgdir = [p \in Procs |-> IF p = 0 THEN m.dir ELSE EmptyDir]
      /\ used_pages = [p \in Procs |-> IF p = 0 THEN m.used ELSE <<>>]
      /\ freed = [p \in Procs |-> FALSE]
  BY <1>1, <1>2
<1>6. \A p \in Live : p \in Procs /\ p = 0
  BY <1>5 DEF Live
<1>7. ASSUME NEW p \in Live PROVE Tabled(pgdir[p], used_pages[p], ~ freed[p])
  <2>1. pgdir[p] = m.dir /\ used_pages[p] = m.used /\ ~ freed[p]
    BY <1>5, <1>6
  <2>2. (~ freed[p]) = TRUE
    BY <2>1
  <2> QED BY <1>4, <2>1, <2>2
<1>8. freed \in [Procs -> BOOLEAN]
  BY <1>5
<1> QED BY <1>5, <1>7, <1>8 DEF TablesInv

LEMMA Retabled ==
    ASSUME MemInv, TablesInv, NEW p \in Procs, NEW d, NEW u, NEW f \in BOOLEAN,
           Live' \subseteq Live \cup {p},
           pgdir' = [pgdir EXCEPT ![p] = d],
           used_pages' = [used_pages EXCEPT ![p] = u],
           freed' = [freed EXCEPT ![p] = f],
           Tabled(d, u, ~ f)
    PROVE  TablesInv'
<1>1. /\ used_pages \in [Procs -> Seq(Used)] /\ freed \in [Procs -> BOOLEAN]
      /\ pgdir = [q \in Procs |-> pgdir[q]] /\ Live \subseteq Procs
  BY DEF Live, MemInv, MemoryTypes, TablesInv
<1>2. pgdir'[p] = d /\ used_pages'[p] = u /\ freed'[p] = f
  BY <1>1
<1>3. \A q \in Procs : q # p => pgdir'[q] = pgdir[q] /\ used_pages'[q] = used_pages[q] /\ freed'[q] = freed[q]
  BY <1>1
<1>4. pgdir' = [q \in Procs |-> pgdir'[q]]
  BY <1>1
<1>5. freed' \in [Procs -> BOOLEAN]
  BY <1>1
<1>6. ASSUME NEW q \in Live' PROVE Tabled(pgdir'[q], used_pages'[q], ~ freed'[q])
  <2>1. CASE q = p
    BY <1>2, <2>1
  <2>2. CASE q # p
    <3>1. q \in Live /\ q \in Procs
      BY <1>1, <1>6, <2>2
    <3>2. Tabled(pgdir[q], used_pages[q], ~ freed[q])
      BY <3>1 DEF TablesInv
    <3> QED BY <1>3, <2>2, <3>1, <3>2
  <2> QED BY <2>1, <2>2
<1> QED BY <1>4, <1>5, <1>6 DEF TablesInv

LEMMA ForkTables == ASSUME AreasApart, MemInv, TablesInv, NEW p \in Procs, Fork(p) PROVE TablesInv'
<1>1. PICK unused : unused = {q \in Procs : state[q] = "FREE"}
  OBVIOUS
<1>2. PICK q : q = Min(unused)
  OBVIOUS
<1>3. PICK m : m = CheckRip(MapAll(Fresh(held), Copy(used_pages[p])), rip[p])
  OBVIOUS
<1>4. /\ state[p] = "INUSE" /\ unused # {}
      /\ state' = [state EXCEPT ![q] = "INUSE"]
      /\ pgdir' = [pgdir EXCEPT ![q] = m.dir]
      /\ used_pages' = [used_pages EXCEPT ![q] = m.used]
      /\ freed' = freed
  BY <1>1, <1>2, <1>3 DEF Fork
<1>5. q \in Procs
  <2>1. unused \in SUBSET Nat
    BY <1>1, ProcsAssumption DEF Procs
  <2> QED BY <1>1, <1>2, <1>4, <2>1, MinIn
<1>6. Live' \subseteq Live \cup {q}
  BY <1>4 DEF Live, MemInv, MemoryTypes
<1>7. \A counted \in BOOLEAN : Tabled(m.dir, m.used, counted)
  <2>1. p \in Live
    BY <1>4 DEF Live
  <2>2. PICK list : list = used_pages[p]
    OBVIOUS
  <2>3. list \in Seq(Used) /\ \A i \in DOMAIN list : InPlace(list[i])
    BY <2>1, <2>2 DEF TablesInv, Tabled
  <2>4. Copy(list) \in Seq(Page) /\ \A i \in DOMAIN Copy(list) : InPlace(Copy(list)[i])
    BY <2>3, CopyIs, CopyInPlace
  <2>5. PICK pages : pages = Copy(list)
    OBVIOUS
  <2> QED BY <1>3, <2>2, <2>4, <2>5, FreshTables
<1>8. freed \in [Procs -> BOOLEAN]
  BY DEF TablesInv
<1>9. PICK f \in BOOLEAN : f = freed[q]
  BY <1>5, <1>8
<1>10. freed' = [freed EXCEPT ![q] = f]
  BY <1>4, <1>8, <1>9
<1>11. (~ f) \in BOOLEAN
  OBVIOUS
<1> QED BY <1>4, <1>5, <1>6, <1>7, <1>10, <1>11, Retabled

LEMMA ExecTables ==
    ASSUME AreasApart, MemInv, TablesInv, NEW p \in Procs, NEW image \in Images, Exec(p, image) PROVE TablesInv'
<1>1. PICK h : h = AfterFree(p)
  OBVIOUS
<1>2. PICK m : m = CheckRip(MapAll(Fresh(h), Stack \o Segments(image)), Entry(image))
  OBVIOUS
<1>3. /\ state' = state
      /\ pgdir' = [pgdir EXCEPT ![p] = m.dir]
      /\ used_pages' = [used_pages EXCEPT ![p] = m.used]
      /\ freed' = [freed EXCEPT ![p] = FALSE]
  BY <1>1, <1>2 DEF Exec
<1>4. PICK pages : pages = Stack \o Segments(image)
  OBVIOUS
<1>5. pages \in Seq(Page) /\ \A i \in DOMAIN pages : InPlace(pages[i])
  BY <1>4, SegmentsIs, StackIs, SegmentsInPlace, StackInPlace, BothInPlace, ConcatProperties
<1>6. Tabled(m.dir, m.used, TRUE)
  BY <1>2, <1>4, <1>5, FreshTables
<1>7. PICK f \in BOOLEAN : f = FALSE /\ (~ f) = TRUE
  OBVIOUS
<1>8. Tabled(m.dir, m.used, ~ f) /\ freed' = [freed EXCEPT ![p] = f]
  BY <1>3, <1>6, <1>7
<1>9. Live' \subseteq Live \cup {p}
  BY <1>3 DEF Live
<1> QED BY <1>3, <1>8, <1>9, Retabled

LEMMA ExitTables == ASSUME MemInv, TablesInv, NEW p \in Procs, Exit(p) PROVE TablesInv'
<1>1. /\ state' = [state EXCEPT ![p] = "EXITED"] /\ pgdir' = pgdir /\ freed' = freed
      /\ used_pages' = [used_pages EXCEPT ![p] = <<>>]
  BY DEF Exit
<1>2. \A q \in Live' : q \in Live /\ used_pages'[q] = used_pages[q]
  BY <1>1 DEF Live, MemInv, MemoryTypes
<1> QED BY <1>1, <1>2 DEF TablesInv

LEMMA SbrkTables == ASSUME AreasApart, MemInv, TablesInv, NEW p \in Procs, NEW n \in Sizes, sbrk(p, n) PROVE TablesInv'
<1>1. PICK l : l = Min(FreeRuns(p, n))
  OBVIOUS
<1>2. PICK places : places = Loop(Bit(l), Bit(l + n - 1))
  OBVIOUS
<1>3. PICK k : k = [dir |-> pgdir[p], used |-> used_pages[p], held |-> held, panic |-> "none",
                    bits |-> user_heap_bitmap[p], end |-> None, failed |-> FALSE]
  OBVIOUS
<1>4. PICK m : m = SbrkAll(k, places)
  OBVIOUS
<1>5. /\ state[p] = "INUSE" /\ FreeRuns(p, n) # {} /\ state' = state /\ freed' = freed
      /\ pgdir' = [pgdir EXCEPT ![p] = m.dir]
      /\ used_pages' = [used_pages EXCEPT ![p] = m.used]
  BY <1>1, <1>2, <1>3, <1>4 DEF sbrk
<1>6. places \in Seq(Place) /\ \A i \in DOMAIN places : HeapPlace(places[i])
  <2>1. n \in Nat /\ Word * Words \in Int
    BY HeapAssumption
  <2>2. FreeRuns(p, n) \in SUBSET Nat /\ FreeRuns(p, n) \subseteq 0 .. Word * Words - n
    BY <2>1 DEF FreeRuns
  <2>3. l \in Nat /\ l \in 0 .. Word * Words - n
    BY <1>1, <1>5, <2>2, MinIn
  <2>4. l + n - 1 \in Int
    BY <2>1, <2>3
  <2>5. places \in Seq(Place)
    BY <1>2, <2>3, <2>4, BitIs, LoopIs
  <2>6. \A i \in DOMAIN places : HeapPlace(places[i])
    BY <1>2, <2>1, <2>3, LoopInHeap
  <2> QED BY <2>5, <2>6
<1>7. p \in Live /\ Live' \subseteq Live \cup {p}
  BY <1>5 DEF Live
<1>8. freed \in [Procs -> BOOLEAN]
  BY DEF TablesInv
<1>9. PICK f \in BOOLEAN : f = freed[p]
  BY <1>8
<1>10. freed' = [freed EXCEPT ![p] = f]
  BY <1>5, <1>8, <1>9
<1>11. PICK counted \in BOOLEAN : counted = ~ f
  OBVIOUS
<1>12. IsSbrk(k) /\ k.used = used_pages[p] /\ k.dir = pgdir[p]
  BY <1>3 DEF IsSbrk, IsMem
<1>13. Tabled(k.dir, k.used, counted)
  BY <1>7, <1>9, <1>11, <1>12 DEF TablesInv
<1>14. Tabled(m.dir, m.used, ~ f)
  BY <1>4, <1>6, <1>11, <1>12, <1>13, SbrkAllTables
<1> QED BY <1>5, <1>7, <1>10, <1>14, Retabled

LEMMA FreeTables == ASSUME MemInv, TablesInv, NEW p \in Procs, NEW address, free(p, address) PROVE TablesInv'
<1>1. state' = state /\ pgdir' = pgdir /\ state[p] = "INUSE"
  BY DEF free
<1>2. Live' = Live /\ p \in Live
  BY <1>1 DEF Live
<1>3. used_pages \in [Procs -> Seq(Used)] /\ freed \in [Procs -> BOOLEAN] /\ pgdir = [q \in Procs |-> pgdir[q]]
  BY DEF MemInv, MemoryTypes, TablesInv
<1>4. CASE UNCHANGED <<used_pages, freed>>
  BY <1>1, <1>2, <1>4 DEF TablesInv
<1>5. CASE ~ UNCHANGED <<used_pages, freed>>
  <2>1. freed' = [freed EXCEPT ![p] = TRUE]
    BY <1>5 DEF free
  <2>3. PICK list : list = used_pages[p]
    OBVIOUS
  <2>2. ~ UNCHANGED used_pages => \E i \in DOMAIN list : used_pages' = [used_pages EXCEPT ![p] = Suffix(list, i)]
    <3> SUFFICES ASSUME ~ UNCHANGED used_pages
                 PROVE  \E i \in DOMAIN list : used_pages' = [used_pages EXCEPT ![p] = Suffix(list, i)]
      OBVIOUS
    <3>1. PICK page, next : Dropped(p, list, page, next)
      BY <2>3, FreeDrops
    <3> QED BY <3>1 DEF Dropped
  <2>4. list \in Seq(Used) /\ \A i \in DOMAIN list : InPlace(list[i]) /\ Walks(pgdir[p], list[i])
    BY <1>2, <2>3 DEF TablesInv, Tabled
  <2>5. PICK u : /\ used_pages' = [used_pages EXCEPT ![p] = u]
                 /\ u = list \/ \E i \in DOMAIN list : u = Suffix(list, i)
    <3>1. CASE UNCHANGED used_pages
      <4>1. used_pages' = [used_pages EXCEPT ![p] = list]
        BY <1>3, <2>3, <3>1
      <4> QED BY <4>1
    <3>2. CASE ~ UNCHANGED used_pages
      BY <2>2, <2>3, <3>2
    <3> QED BY <3>1, <3>2
  <2>6. Tabled(pgdir[p], u, FALSE)
    <3>1. CASE u = list
      BY <2>4, <3>1 DEF Tabled
    <3>2. CASE u # list
      <4>1. PICK i \in DOMAIN list : u = Suffix(list, i)
        BY <2>5, <3>2
      <4>2. u \in Seq(Used) /\ \A k \in DOMAIN u : k + i \in DOMAIN list /\ u[k] = list[k + i]
        BY <2>4, <4>1, SuffixIs
      <4> QED BY <2>4, <4>2 DEF Tabled
    <3> QED BY <3>1, <3>2
  <2>7. PICK f \in BOOLEAN : f = TRUE /\ (~ f) = FALSE
    OBVIOUS
  <2>8. freed' = [freed EXCEPT ![p] = f] /\ Tabled(pgdir[p], u, ~ f)
    BY <2>1, <2>6, <2>7
  <2>9. pgdir' = [pgdir EXCEPT ![p] = pgdir[p]]
    BY <1>1, <1>3
  <2>10. PICK d : d = pgdir[p]
    OBVIOUS
  <2>11. Live' \subseteq Live \cup {p}
    BY <1>2
  <2>12. pgdir' = [pgdir EXCEPT ![p] = d] /\ Tabled(d, u, ~ f)
    BY <2>8, <2>9, <2>10
  <2> QED BY <2>5, <2>8, <2>11, <2>12, Retabled
<1> QED BY <1>4, <1>5

LEMMA NextTables == AreasApart /\ MemInv /\ TablesInv /\ [Next]_vars => TablesInv'
<1> SUFFICES ASSUME AreasApart, MemInv, TablesInv, [Next]_vars PROVE TablesInv'
  OBVIOUS
<1>1. CASE UNCHANGED vars
  BY <1>1 DEF vars, procVars, TablesInv, Live
<1>2. CASE Next
  <2>1. PICK p \in Procs : SystemCall(p)
    BY <1>2 DEF Next
  <2> QED BY <2>1, ForkTables, ExitTables, ExecTables, SbrkTables, FreeTables DEF SystemCall
<1> QED BY <1>1, <1>2

(* Every listed page translates to its frame, and without a free() every      *)
(* mapped page is listed, for any programs outside the GBs of the stack and   *)
(* of the heap: map_4kb_page_user replaces no entry another page needs, and   *)
(* sbrk maps no page outside the heap.                                        *)
THEOREM UserListIsTables == AreasApart /\ Spec => []ListIsTables
<1>1. TablesInv => ListIsTables
  <2> SUFFICES ASSUME TablesInv, NEW p \in Live
               PROVE  /\ \A i \in DOMAIN used_pages[p] :
                            Translate(pgdir[p], used_pages[p][i].va) = used_pages[p][i].pa
                      /\ ~ freed[p] => Cardinality(DOMAIN pgdir[p].pd) = Len(used_pages[p])
    BY DEF ListIsTables
  <2>1. Tabled(pgdir[p], used_pages[p], ~ freed[p])
    BY DEF TablesInv
  <2>2. ASSUME NEW d, NEW e, Walks(d, e) PROVE Translate(d, e.va) = e.pa
    BY <2>2 DEF Walks, Translate, PdOf, PdtOf
  <2> QED BY <2>1, <2>2 DEF Tabled, Counted
<1>2. AreasApart /\ Init => AreasApart /\ TablesInv
  BY InitTables
<1>3. AreasApart /\ TablesInv /\ MemInv /\ [Next]_vars => AreasApart' /\ TablesInv'
  <2>1. AreasApart => AreasApart'
    OBVIOUS
  <2> QED BY <2>1, NextTables
<1> QED BY <1>1, <1>2, <1>3, MemoryInvariant, PTL DEF Spec

-----------------------------------------------------------------------------
(* The heap's bitmap and its pages *)

PdtPlace(x) == <<x.pdt, pdt_index(x.va)>>
PdPlace(x)  == <<x.pd, pt_index(x.va)>>

(* The tables hold nothing but the entries of the list. *)
Covers(dir, list) ==
    /\ \A x \in DOMAIN dir.pdpt : \E i \in DOMAIN list : x = pdpt_index(list[i].va)
    /\ \A x \in DOMAIN dir.pdt : \E i \in DOMAIN list : x = PdtPlace(list[i])
    /\ \A x \in DOMAIN dir.pd : \E i \in DOMAIN list : x = PdPlace(list[i])
    /\ \A i, j \in DOMAIN list : i # j => PdPlace(list[i]) # PdPlace(list[j])

HeapBits(list, bits) ==
    \A i \in DOMAIN list : \A l \in 0 .. Word * Words - 1 :
        list[i].va = USER_HEAP_START - l => Bit(l)[2] \in bits[Bit(l)[1]]

(* The shift sets and clears the bits from the sign of an int upwards at      *)
(* once: a word has all of them or none.                                      *)
High == IntBits - 1 .. Word - 1
Shaped(bits) == \A w \in 0 .. Words - 1 : High \subseteq bits[w] \/ High \cap bits[w] = {}

Bitmap == [0 .. Words - 1 -> SUBSET (0 .. Word - 1)]
Alloc  == [from : Place, to : Place, start : Int, end : Int]

BitTypes ==
    /\ user_heap_bitmap \in [Procs -> Bitmap]
    /\ heap_allocations \in [Procs -> Seq(Alloc)]
    /\ inherited \in [Procs -> BOOLEAN]
    /\ \A p \in Procs : Shaped(user_heap_bitmap[p])

Untouched(p) == ~ freed[p] /\ ~ inherited[p]

NoClash == panic \in {"pd", "pdt"} => \E p \in Live : ~ Untouched(p)

BitsSet == \A p \in Live : Untouched(p) => /\ Covers(pgdir[p], used_pages[p])
                                           /\ HeapBits(used_pages[p], user_heap_bitmap[p])

BitsInv == BitTypes /\ NoClash /\ BitsSet

-----------------------------------------------------------------------------
(* Quotients and remainders *)

LEMMA Factor == ASSUME NEW t \in Nat \ {0}, NEW a \in Int, t * a < t, - t < t * a PROVE a = 0
<1>1. a >= 1 => t * a >= t
  <2> SUFFICES ASSUME a >= 1 PROVE t * a >= t
    OBVIOUS
  <2>1. t * (a - 1) >= 0
    OBVIOUS
  <2> QED BY <2>1
<1>2. a <= -1 => t * a <= - t
  <2> SUFFICES ASSUME a <= -1 PROVE t * a <= - t
    OBVIOUS
  <2>1. t * (- a - 1) >= 0
    OBVIOUS
  <2> QED BY <2>1
<1> QED BY <1>1, <1>2

LEMMA Distribute == ASSUME NEW t \in Int, NEW a \in Int, NEW b \in Int PROVE t * (a - b) = t * a - t * b
OBVIOUS

LEMMA QuotRem ==
    ASSUME NEW t \in Nat \ {0}, NEW x \in Int
    PROVE  \E q \in Int : x \div t = q /\ \E r \in Int : x % t = r /\ 0 <= r /\ r < t /\ x = t * q + r
<1>1. PICK q \in Int : x \div t = q
  OBVIOUS
<1>2. \E r \in Int : x % t = r /\ 0 <= r /\ r < t /\ x = t * q + r
  BY <1>1
<1> QED BY <1>1, <1>2

(* Numbers with the remainders r and s differ by s - r and a multiple of t. *)
LEMMA Multiples ==
    ASSUME NEW t \in Nat \ {0}, NEW a \in Int, NEW b \in Int, NEW r \in Int, NEW s \in Int,
           (t * a + r) - (t * b + s) < t + (r - s), (t * b + s) - (t * a + r) < t + (s - r)
    PROVE  a = b
<1>1. PICK A \in Int : A = t * a
  OBVIOUS
<1>2. PICK B \in Int : B = t * b
  OBVIOUS
<1>3. t * (a - b) = A - B
  BY <1>1, <1>2, Distribute
<1>4. (A + r) - (B + s) < t + (r - s) /\ (B + s) - (A + r) < t + (s - r)
  BY <1>1, <1>2
<1>5. A - B < t /\ - t < A - B
  BY <1>4
<1>6. PICK c \in Int : c = a - b
  OBVIOUS
<1>7. c = 0
  BY <1>3, <1>5, <1>6, Factor
<1> QED BY <1>6, <1>7

LEMMA DivMod ==
    ASSUME NEW t \in Nat \ {0}, NEW q \in Int, NEW r \in Int, 0 <= r, r < t, NEW x \in Int, x = t * q + r
    PROVE  x \div t = q /\ x % t = r
<1>1. PICK d \in Int : x \div t = d /\ \E s \in Int : x % t = s /\ 0 <= s /\ s < t /\ x = t * d + s
  BY QuotRem
<1>2. PICK s \in Int : x % t = s /\ 0 <= s /\ s < t /\ x = t * d + s
  BY <1>1
<1>3. d = q
  <2>1. (t * d + s) - (t * q + r) = 0 /\ (t * q + r) - (t * d + s) = 0
    BY <1>2
  <2>2. 0 < t + (s - r) /\ 0 < t + (r - s)
    BY <1>2
  <2>3. (t * d + s) - (t * q + r) < t + (s - r) /\ (t * q + r) - (t * d + s) < t + (r - s)
    BY <2>1, <2>2
  <2> QED BY <2>3, Multiples
<1>4. s = r
  <2>1. PICK A \in Int : A = t * q
    OBVIOUS
  <2> QED BY <1>2, <1>3, <2>1
<1> QED BY <1>1, <1>2, <1>3, <1>4

LEMMA ModSmall == ASSUME NEW t \in Nat \ {0}, NEW b \in Int, 0 <= b, b < t PROVE b % t = b
<1>1. b = t * 0 + b
  OBVIOUS
<1>2. 0 \in Int
  OBVIOUS
<1> QED BY <1>1, <1>2, DivMod

LEMMA ModSame ==
    ASSUME NEW t \in Nat \ {0}, NEW x \in Int, NEW y \in Int, x % t = y % t, x - y < t, y - x < t
    PROVE  x = y
<1>1. PICK a \in Int : \E r \in Int : x % t = r /\ x = t * a + r
  BY QuotRem
<1>2. PICK b \in Int : \E r \in Int : y % t = r /\ y = t * b + r
  BY QuotRem
<1>3. PICK r \in Int : x % t = r /\ x = t * a + r
  BY <1>1
<1>4. y = t * b + r
  BY <1>2, <1>3
<1>5. (t * a + r) - (t * b + r) < t + (r - r) /\ (t * b + r) - (t * a + r) < t + (r - r)
  BY <1>3, <1>4
<1>6. a = b
  BY <1>5, Multiples
<1> QED BY <1>3, <1>4, <1>6

-----------------------------------------------------------------------------
(* Where the heap's pages are in the tables *)

Heap == 0 .. Word * Words - 1

LEMMA HeapNumbers ==
    /\ Word \in Nat \ {0} /\ Words \in Nat /\ TableSize \in Nat \ {0} /\ USER_HEAP_START \in Nat
    /\ IntBits \in Nat \ {0} /\ IntBits <= Word /\ Word * Words \in Nat
    /\ Heap \subseteq Nat
BY HeapAssumption DEF Heap

LEMMA HeapPdPlace ==
    ASSUME NEW k \in Heap, NEW l \in Heap, PdPlace(HeapPage(k)) = PdPlace(HeapPage(l))
    PROVE  k = l
<1>1. PICK t \in Nat \ {0} : t = TableSize
  BY HeapNumbers
<1>2. k \in Nat /\ l \in Nat /\ USER_HEAP_START \in Nat
  BY HeapNumbers
<1>3. PICK q \in Int : q = k \div t
  BY <1>1, <1>2
<1>4. l \div t = q
  <2>1. l \div t \in Int
    BY <1>1, <1>2
  <2> QED BY <1>1, <1>3, <2>1 DEF PdPlace, HeapPage
<1>5. (USER_HEAP_START - k) % t = (USER_HEAP_START - l) % t
  BY <1>1 DEF PdPlace, HeapPage, pt_index
<1>6. PICK r \in Int, s \in Int : k = t * q + r /\ l = t * q + s /\ 0 <= r /\ r < t /\ 0 <= s /\ s < t
  BY <1>2, <1>3, <1>4
<1>7. PICK x \in Int, y \in Int : x = USER_HEAP_START - k /\ y = USER_HEAP_START - l
  BY <1>2
<1>8. x - y < t /\ y - x < t
  BY <1>2, <1>6, <1>7
<1>9. x = y
  BY <1>5, <1>7, <1>8, ModSame
<1> QED BY <1>2, <1>7, <1>9

LEMMA HeapPdtIndex ==
    ASSUME LayoutFits, NEW k \in Heap, NEW l \in Heap,
           pdt_index(USER_HEAP_START - k) = pdt_index(USER_HEAP_START - l)
    PROVE  k \div TableSize = l \div TableSize
<1>1. PICK t \in Nat \ {0} : t = TableSize
  BY HeapNumbers
<1>2. PICK h \in Int : h = USER_HEAP_START \div t
  BY <1>1, HeapNumbers
<1>3. USER_HEAP_START = t * h + (t - 1) /\ USER_HEAP_START \in Nat
  <2>1. USER_HEAP_START % t = t - 1
    BY <1>1, HeapAssumption
  <2> QED BY <1>1, <1>2, <2>1, HeapNumbers
<1>4. ASSUME NEW x \in Heap
      PROVE  /\ (USER_HEAP_START - x) \div t = h - x \div t
             /\ x \div t \in Int /\ 0 <= x \div t /\ x \div t < t
  <2>1. x \in Nat /\ x < t * t
    BY <1>1, HeapNumbers DEF LayoutFits, Heap
  <2>2. PICK q \in Nat : q = x \div t /\ q < t
    <3>1. x \div t \in Nat /\ x \div t < t
      BY <2>1, DivLess, DivNat
    <3> QED BY <3>1
  <2>3. PICK r \in Int : x = t * q + r /\ 0 <= r /\ r < t
    BY <2>1, <2>2
  <2>4. USER_HEAP_START - x = t * (h - q) + (t - 1 - r)
    BY <1>3, <2>3
  <2>5. PICK y \in Int : y = USER_HEAP_START - x
    BY <1>3, <2>1
  <2>6. y \div t = h - q
    <3>1. PICK z \in Int, s \in Int : z = h - q /\ s = t - 1 - r
      OBVIOUS
    <3>2. y = t * z + s /\ 0 <= s /\ s < t
      BY <2>3, <2>4, <2>5, <3>1
    <3> QED BY <3>1, <3>2, DivMod
  <2> QED BY <2>2, <2>5, <2>6
<1>5. PICK a \in Int, b \in Int : a = k \div t /\ b = l \div t /\ 0 <= a /\ a < t /\ 0 <= b /\ b < t
  BY <1>4
<1>6. (h - a) % t = (h - b) % t
  BY <1>1, <1>4, <1>5 DEF pdt_index
<1>7. PICK x \in Int, y \in Int : x = h - a /\ y = h - b
  OBVIOUS
<1>8. x = y
  <2>1. x - y < t /\ y - x < t
    BY <1>5, <1>7
  <2> QED BY <1>6, <1>7, <2>1, ModSame
<1> QED BY <1>1, <1>5, <1>7, <1>8

(* The numbers of the tables tell the heap's pages from the others. *)
LEMMA HeapKind ==
    ASSUME NEW x \in Mappable, x.pdt = 3 \/ x.pd \in 2 .. 499
    PROVE  \E l \in Heap : x = HeapPage(l)
<1>1. CASE x \in StackArea
  <2>1. x.pdt = 500 /\ x.pd = 500
    BY <1>1 DEF StackArea, Stack
  <2> QED BY <2>1
<1>2. CASE x \in ProgramArea
  <2>1. x.pdt = 1 /\ x.pd = 0
    BY <1>2 DEF ProgramArea, FirstPage
  <2> QED BY <2>1
<1>3. CASE x \in HeapArea
  BY <1>3 DEF HeapArea, Heap
<1> QED BY <1>1, <1>2, <1>3 DEF Mappable

LEMMA HeapPageFields ==
    ASSUME LayoutFits, NEW l \in Heap
    PROVE  /\ HeapPage(l) \in Mappable /\ HeapPage(l) \in Page
           /\ HeapPage(l).va = USER_HEAP_START - l /\ HeapPage(l).pdt = 3 /\ HeapPage(l).load = TRUE
           /\ HeapPage(l).pd = 2 + l \div TableSize /\ HeapPage(l).pd \in 2 .. 499
<1>1. PICK t \in Nat \ {0} : t = TableSize
  BY HeapNumbers
<1>2. l \in Nat /\ l < 498 * t
  BY <1>1, HeapNumbers DEF LayoutFits, Heap
<1>3. PICK q \in Nat : q = l \div t /\ q < 498
  <2>1. l \div t < 498
    BY <1>2, DivLess
  <2>2. l \div t \in Nat
    BY <1>2, DivNat
  <2> QED BY <2>1, <2>2
<1>4. HeapPage(l) = [va |-> USER_HEAP_START - l, pdt |-> 3, pd |-> 2 + q, load |-> TRUE]
  BY <1>1, <1>3 DEF HeapPage
<1>5. HeapPage(l) \in Mappable
  BY DEF Mappable, HeapArea, Heap
<1>6. USER_HEAP_START - l \in Int /\ 2 + q \in 2 .. 499 /\ 2 + q \in Int
  BY <1>2, <1>3, HeapNumbers
<1> QED BY <1>1, <1>3, <1>4, <1>5, <1>6 DEF Page

-----------------------------------------------------------------------------
(* Mapping keeps the tables to what is listed *)

LEMMA PrependIs ==
    ASSUME NEW u \in Seq(Used), NEW e \in Used
    PROVE  /\ 1 \in DOMAIN (<<e>> \o u) /\ (<<e>> \o u)[1] = e
           /\ \A j \in DOMAIN (<<e>> \o u) : j = 1 \/ (j - 1 \in DOMAIN u /\ (<<e>> \o u)[j] = u[j - 1])
           /\ \A j \in DOMAIN u : j + 1 \in DOMAIN (<<e>> \o u) /\ (<<e>> \o u)[j + 1] = u[j]
           /\ <<e>> \o u \in Seq(Used)
<1>1. <<e>> \in Seq(Used) /\ Len(<<e>>) = 1 /\ <<e>>[1] = e /\ Len(u) \in Nat /\ DOMAIN u = 1 .. Len(u)
  OBVIOUS
<1>2. PICK v : v = <<e>> \o u
  OBVIOUS
<1>3. /\ v \in Seq(Used)
      /\ Len(v) = 1 + Len(u)
      /\ \A j \in 1 .. 1 + Len(u) : v[j] = IF j <= 1 THEN <<e>>[j] ELSE u[j - 1]
  BY <1>1, <1>2, ConcatProperties
<1>4. DOMAIN v = 1 .. 1 + Len(u)
  BY <1>1, <1>3
<1>5. v[1] = e /\ 1 \in DOMAIN v
  BY <1>1, <1>3, <1>4
<1>6. \A j \in DOMAIN v : j = 1 \/ (j - 1 \in DOMAIN u /\ v[j] = u[j - 1])
  BY <1>1, <1>3, <1>4
<1>7. \A j \in DOMAIN u : j + 1 \in DOMAIN v /\ v[j + 1] = u[j]
  BY <1>1, <1>3, <1>4
<1> QED BY <1>2, <1>3, <1>5, <1>6, <1>7

LEMMA AddedCovers ==
    ASSUME NEW dir, NEW list \in Seq(Used), Covers(dir, list), NEW e \in Used,
           PdPlace(e) \notin DOMAIN dir.pd, \A i \in DOMAIN list : Walks(dir, list[i])
    PROVE  Covers(WithPage(dir, e), <<e>> \o list)
<1>1. PICK v : v = <<e>> \o list
  OBVIOUS
<1>2. /\ 1 \in DOMAIN v /\ v[1] = e
      /\ \A j \in DOMAIN v : j = 1 \/ (j - 1 \in DOMAIN list /\ v[j] = list[j - 1])
      /\ \A j \in DOMAIN list : j + 1 \in DOMAIN v /\ v[j + 1] = list[j]
      /\ DOMAIN v \subseteq Int
  BY <1>1, PrependIs
<1>3. PICK d : d = WithPage(dir, e)
  OBVIOUS
<1>4. /\ DOMAIN d.pdpt = DOMAIN dir.pdpt \cup {pdpt_index(e.va)}
      /\ DOMAIN d.pdt = DOMAIN dir.pdt \cup {PdtPlace(e)}
      /\ DOMAIN d.pd = DOMAIN dir.pd \cup {PdPlace(e)}
  BY <1>3 DEF WithPage, Put, PdtPlace, PdPlace
<1>5. ASSUME NEW x \in DOMAIN d.pdpt PROVE \E i \in DOMAIN v : x = pdpt_index(v[i].va)
  <2>1. CASE x = pdpt_index(e.va)
    BY <1>2, <2>1
  <2>2. CASE x \in DOMAIN dir.pdpt
    <3>1. PICK i \in DOMAIN list : x = pdpt_index(list[i].va)
      BY <2>2 DEF Covers
    <3>2. i + 1 \in DOMAIN v /\ v[i + 1] = list[i]
      BY <1>2
    <3> QED BY <3>1, <3>2
  <2> QED BY <1>4, <1>5, <2>1, <2>2
<1>6. ASSUME NEW x \in DOMAIN d.pdt PROVE \E i \in DOMAIN v : x = PdtPlace(v[i])
  BY <1>2, <1>4 DEF Covers
<1>7. ASSUME NEW x \in DOMAIN d.pd PROVE \E i \in DOMAIN v : x = PdPlace(v[i])
  BY <1>2, <1>4 DEF Covers
<1>8. \A i \in DOMAIN list : PdPlace(list[i]) # PdPlace(e)
  BY DEF Walks, PdPlace
<1>9. ASSUME NEW i \in DOMAIN v, NEW j \in DOMAIN v, i # j PROVE PdPlace(v[i]) # PdPlace(v[j])
  <2>1. CASE i = 1
    BY <1>2, <1>8, <1>9, <2>1
  <2>2. CASE j = 1
    BY <1>2, <1>8, <1>9, <2>2
  <2>3. CASE i # 1 /\ j # 1
    <3>1. i - 1 \in DOMAIN list /\ j - 1 \in DOMAIN list /\ i - 1 # j - 1
      BY <1>2, <1>9, <2>3
    <3>2. v[i] = list[i - 1] /\ v[j] = list[j - 1]
      BY <1>2, <2>3
    <3>3. PdPlace(list[i - 1]) # PdPlace(list[j - 1])
      BY <3>1 DEF Covers
    <3> QED BY <3>2, <3>3
  <2> QED BY <2>1, <2>2, <2>3
<1>10. Covers(d, v)
  BY <1>5, <1>6, <1>7, <1>9, Zenon DEF Covers
<1> QED BY <1>1, <1>3, <1>10

(* A page with a place of its own, in the table its place in the pdt names. *)
Fits(list, page) ==
    \A i \in DOMAIN list : /\ PdPlace(list[i]) # PdPlace(page)
                           /\ PdtPlace(list[i]) = PdtPlace(page) => list[i].pd = page.pd

Clash == {"pd", "pdt"}

LEMMA MapNewCovers ==
    ASSUME NEW m, IsMem(m), NEW page \in Page, Tabled(m.dir, m.used, FALSE), Covers(m.dir, m.used),
           NEW r, r = MapNew(m, page)
    PROVE  /\ Covers(r.dir, r.used)
           /\ \/ r.used = m.used /\ DOMAIN r = DOMAIN m
              \/ \E e \in Used : Same(e, page) /\ page.load /\ r.used = <<e>> \o m.used
           /\ m.panic \notin Clash /\ (page.load => Fits(m.used, page)) =>
                 /\ r.panic \notin Clash
                 /\ m.panic = "none" /\ FreeFrames(m) # {} => r.panic = "none"
<1>0. m.used \in Seq(Used) /\ \A i \in DOMAIN m.used : Walks(m.dir, m.used[i])
  BY DEF Tabled
<1>1. CASE m.panic # "none" \/ ~ page.load
  <2>1. r = m
    BY <1>1 DEF MapNew
  <2>2. m.panic = "none" => r.panic = "none"
    BY <2>1
  <2> QED BY <2>1, <2>2
<1>2. CASE m.panic = "none" /\ page.load /\ FreeFrames(m) = {}
  <2>1. r = [m EXCEPT !.panic = "frames"]
    BY <1>2 DEF MapNew, Halt
  <2>2. DOMAIN r = DOMAIN m /\ r.used = m.used /\ r.dir = m.dir /\ r.panic = "frames"
    BY <2>1 DEF IsMem
  <2> QED BY <1>2, <2>2 DEF Clash
<1>3. CASE m.panic = "none" /\ page.load /\ FreeFrames(m) # {}
  <2>1. FreeFrames(m) \in SUBSET Nat
    BY ProcsAssumption DEF FreeFrames, Frames
  <2>2. PICK pa : pa = Min(FreeFrames(m))
    OBVIOUS
  <2>3. pa \in Frames
    BY <1>3, <2>1, <2>2, MinIn DEF FreeFrames
  <2>4. PICK k : k = [m EXCEPT !.held = @ \cup {pa}]
    OBVIOUS
  <2>5. DOMAIN k = DOMAIN m /\ IsMem(k) /\ k.used = m.used /\ k.dir = m.dir /\ k.panic = "none"
    BY <1>3, <2>4 DEF IsMem
  <2>6. r = map_4kb_page_user(k, page.va, pa, page.pdt, page.pd)
    BY <1>3, <2>2, <2>4 DEF MapNew
  <2>8. PICK e : e = [va |-> page.va, pa |-> pa, pdt |-> page.pdt, pd |-> page.pd]
    OBVIOUS
  <2>9. e \in Used /\ e.pa = pa /\ Same(e, page) /\ PdPlace(e) = PdPlace(page) /\ PdtPlace(e) = PdtPlace(page)
    BY <2>3, <2>8 DEF Used, Page, Same, PdPlace, PdtPlace
  <2>10. CASE \/ PdtPlace(page) \in DOMAIN m.dir.pdt /\ m.dir.pdt[PdtPlace(page)] # page.pd
              \/ PdPlace(page) \in DOMAIN m.dir.pd
    <3>1. r = Halt(k, "pdt") \/ r = Halt(k, "pd")
      BY <2>5, <2>6, <2>10 DEF map_4kb_page_user, PdPlace, PdtPlace
    <3>2. PICK why : r = [k EXCEPT !.panic = why]
      BY <2>5, <3>1 DEF Halt
    <3>3. DOMAIN r = DOMAIN m /\ r.used = m.used /\ r.dir = m.dir
      BY <2>5, <3>2 DEF IsMem
    <3>4. ~ Fits(m.used, page)
      <4>1. CASE PdPlace(page) \in DOMAIN m.dir.pd
        BY <4>1 DEF Covers, Fits
      <4>2. CASE PdtPlace(page) \in DOMAIN m.dir.pdt /\ m.dir.pdt[PdtPlace(page)] # page.pd
        <5>1. PICK i \in DOMAIN m.used : PdtPlace(page) = PdtPlace(m.used[i])
          BY <4>2 DEF Covers
        <5>2. m.dir.pdt[PdtPlace(m.used[i])] = m.used[i].pd
          BY <1>0 DEF Walks, PdtPlace
        <5> QED BY <4>2, <5>1, <5>2 DEF Fits
      <4> QED BY <2>10, <4>1, <4>2
    <3> QED BY <1>3, <3>3, <3>4
  <2>11. CASE /\ ~ (PdtPlace(page) \in DOMAIN m.dir.pdt /\ m.dir.pdt[PdtPlace(page)] # page.pd)
              /\ PdPlace(page) \notin DOMAIN m.dir.pd
    <3>1. r = [k EXCEPT !.dir = WithPage(m.dir, e), !.used = <<e>> \o @]
      BY <2>5, <2>6, <2>8, <2>9, <2>11 DEF map_4kb_page_user, WithPage, IsMem, PdPlace, PdtPlace
    <3>2. DOMAIN r = DOMAIN m /\ r.used = <<e>> \o m.used /\ r.dir = WithPage(m.dir, e) /\ r.panic = "none"
      BY <2>5, <3>1 DEF IsMem
    <3>3. Covers(r.dir, r.used)
      BY <1>0, <2>9, <2>11, <3>2, AddedCovers
    <3> QED BY <1>3, <2>9, <3>2, <3>3 DEF Clash
  <2> QED BY <2>10, <2>11
<1> QED BY <1>1, <1>2, <1>3

(* Pages no two of which clash. *)
Compatible(pages) ==
    \A i, j \in DOMAIN pages : pages[i].load /\ pages[j].load /\ i # j =>
        /\ PdPlace(pages[i]) # PdPlace(pages[j])
        /\ PdtPlace(pages[i]) = PdtPlace(pages[j]) => pages[i].pd = pages[j].pd

(* What the first k pages have come to. *)
Loaded(m, pages, k) ==
    /\ IsMem(m) /\ Tabled(m.dir, m.used, FALSE) /\ Covers(m.dir, m.used)
    /\ \A i \in DOMAIN m.used : \E j \in 1 .. k : pages[j].load /\ Same(m.used[i], pages[j])
    /\ Compatible(pages) => m.panic \notin Clash

LEMMA LoadedNext ==
    ASSUME AreasApart, NEW pages \in Seq(Page), NEW k \in 1 .. Len(pages), InPlace(pages[k]),
           NEW m, Loaded(m, pages, k - 1)
    PROVE  Loaded(MapNew(m, pages[k]), pages, k)
<1>1. PICK page \in Page : page = pages[k]
  OBVIOUS
<1>2. PICK r : r = MapNew(m, page)
  OBVIOUS
<1>3. IsMem(r) /\ Tabled(r.dir, r.used, FALSE)
  <2>1. PICK c \in BOOLEAN : c = FALSE
    OBVIOUS
  <2>2. Tabled(m.dir, m.used, c) /\ IsMem(m) /\ InPlace(page)
    BY <1>1, <2>1 DEF Loaded
  <2>3. IsMem(r) /\ Tabled(r.dir, r.used, c)
    BY <1>2, <2>2, MapNewTables
  <2> QED BY <2>1, <2>3
<1>4. /\ Covers(r.dir, r.used)
      /\ \/ r.used = m.used
         \/ \E e \in Used : Same(e, page) /\ page.load /\ r.used = <<e>> \o m.used
      /\ m.panic \notin Clash /\ (page.load => Fits(m.used, page)) => r.panic \notin Clash
  BY <1>2, MapNewCovers DEF Loaded
<1>5. k \in Nat /\ k \in DOMAIN pages /\ \A j \in 1 .. k - 1 : j \in 1 .. k /\ j \in DOMAIN pages /\ j # k
  OBVIOUS
<1>6. ASSUME NEW i \in DOMAIN r.used PROVE \E j \in 1 .. k : pages[j].load /\ Same(r.used[i], pages[j])
  <2>1. CASE r.used = m.used
    BY <1>5, <2>1 DEF Loaded
  <2>2. CASE \E e \in Used : Same(e, page) /\ page.load /\ r.used = <<e>> \o m.used
    <3>1. PICK e \in Used : Same(e, page) /\ page.load /\ r.used = <<e>> \o m.used
      BY <2>2
    <3>2. m.used \in Seq(Used)
      BY DEF Loaded, Tabled
    <3>3. r.used[i] = e \/ (i - 1 \in DOMAIN m.used /\ r.used[i] = m.used[i - 1])
      BY <3>1, <3>2, PrependIs
    <3>4. CASE r.used[i] = e
      <4>1. k \in 1 .. k
        BY <1>5
      <4> QED BY <1>1, <3>1, <3>4, <4>1
    <3>5. CASE i - 1 \in DOMAIN m.used /\ r.used[i] = m.used[i - 1]
      <4>1. PICK j \in 1 .. k - 1 : pages[j].load /\ Same(m.used[i - 1], pages[j])
        BY <3>5 DEF Loaded
      <4> QED BY <1>5, <3>5, <4>1
    <3> QED BY <3>3, <3>4, <3>5
  <2> QED BY <1>4, <2>1, <2>2
<1>7. Compatible(pages) /\ page.load => Fits(m.used, page)
  <2> SUFFICES ASSUME Compatible(pages), page.load, NEW i \in DOMAIN m.used
               PROVE  /\ PdPlace(m.used[i]) # PdPlace(page)
                      /\ PdtPlace(m.used[i]) = PdtPlace(page) => m.used[i].pd = page.pd
    BY DEF Fits
  <2>1. PICK j \in 1 .. k - 1 : pages[j].load /\ Same(m.used[i], pages[j])
    BY DEF Loaded
  <2>2. /\ PdPlace(m.used[i]) = PdPlace(pages[j]) /\ PdtPlace(m.used[i]) = PdtPlace(pages[j])
        /\ m.used[i].pd = pages[j].pd
    BY <2>1 DEF Same, PdPlace, PdtPlace
  <2>3. /\ PdPlace(pages[j]) # PdPlace(pages[k])
        /\ PdtPlace(pages[j]) = PdtPlace(pages[k]) => pages[j].pd = pages[k].pd
    BY <1>1, <1>5, <2>1 DEF Compatible
  <2> QED BY <1>1, <2>2, <2>3
<1>8. Compatible(pages) => r.panic \notin Clash
  BY <1>4, <1>7 DEF Loaded
<1>9. Loaded(r, pages, k)
  BY <1>3, <1>4, <1>6, <1>8 DEF Loaded
<1> QED BY <1>1, <1>2, <1>9

LEMMA FreshCovers ==
    ASSUME AreasApart, NEW h, NEW pages \in Seq(Page), \A i \in DOMAIN pages : InPlace(pages[i]), NEW va,
           NEW m, m = CheckRip(MapAll(Fresh(h), pages), va)
    PROVE  /\ Covers(m.dir, m.used)
           /\ \A i \in DOMAIN m.used : \E j \in DOMAIN pages : pages[j].load /\ Same(m.used[i], pages[j])
           /\ Compatible(pages) => m.panic \notin Clash
<1>1. Len(pages) \in Nat /\ DOMAIN pages = 1 .. Len(pages)
  OBVIOUS
<1>2. PICK g : Mapped(g, Fresh(h), pages, Len(pages)) /\ MapAll(Fresh(h), pages) = g[Len(pages)]
  BY <1>1, MapRoundsResult
<1> DEFINE S == {k \in 0 .. Len(pages) : Loaded(g[k], pages, k)}
<1>3. 0 \in S
  <2>1. g[0] = Fresh(h) /\ 0 \in 0 .. Len(pages)
    BY <1>1, <1>2 DEF Mapped
  <2>2. PICK k : k = Fresh(h)
    OBVIOUS
  <2>3. IsMem(k) /\ k.dir = EmptyDir /\ k.used = <<>> /\ k.panic = "none"
    BY <2>2 DEF IsMem, Fresh
  <2>4. DOMAIN EmptyDir.pd = {} /\ DOMAIN EmptyDir.pdt = {} /\ DOMAIN EmptyDir.pdpt = {}
    BY DEF EmptyDir
  <2>5. Covers(k.dir, k.used)
    BY <2>3, <2>4 DEF Covers
  <2>6. Tabled(k.dir, k.used, FALSE)
    BY <2>3 DEF Tabled
  <2>e. DOMAIN k.used = {} /\ k.panic \notin Clash
    BY <2>3 DEF Clash
  <2>7. Loaded(k, pages, 0)
    BY <2>3, <2>5, <2>6, <2>e DEF Loaded
  <2> QED BY <2>1, <2>2, <2>7
<1>4. ASSUME NEW k \in 1 .. Len(pages), k - 1 \in S PROVE k \in S
  <2>1. k \in 0 .. Len(pages) /\ k # 0
    BY <1>1
  <2>2. g[k] = MapNew(g[k - 1], pages[k])
    BY <1>2, <2>1 DEF Mapped
  <2>3. PICK m0 : m0 = g[k - 1]
    OBVIOUS
  <2>4. Loaded(m0, pages, k - 1)
    BY <1>4, <2>3
  <2>5. InPlace(pages[k])
    BY <1>1
  <2>6. Loaded(g[k], pages, k)
    BY <2>2, <2>3, <2>4, <2>5, LoadedNext
  <2> QED BY <2>1, <2>6
<1>5. Len(pages) \in S
  <2> HIDE DEF S
  <2> QED BY <1>1, <1>3, <1>4, Count
<1>6. PICK k : k = MapAll(Fresh(h), pages)
  OBVIOUS
<1>7. Loaded(k, pages, Len(pages))
  BY <1>2, <1>5, <1>6
<1>8. m = k \/ m = [k EXCEPT !.panic = "rip"]
  BY <1>6 DEF CheckRip, Halt
<1>9. m.used = k.used /\ m.dir = k.dir /\ (m.panic = k.panic \/ m.panic = "rip")
  BY <1>7, <1>8 DEF Loaded, IsMem
<1> QED BY <1>1, <1>7, <1>9 DEF Loaded, Clash

-----------------------------------------------------------------------------
(* The pages of a program, of the stack and of a copy do not clash *)

LEMMA StackPage == ASSUME NEW i \in DOMAIN Stack PROVE Stack[i].pdt = 500 /\ Stack[i].pd = 500
BY DEF Stack

LEMMA SegmentPage ==
    ASSUME NEW image \in Images, NEW i \in DOMAIN Segments(image)
    PROVE  /\ Segments(image)[i].pdt = 1 /\ Segments(image)[i].pd = 0
           /\ i \in DOMAIN image.segments /\ Segments(image)[i] = FirstPage(image.segments[i])
<1>1. image.elf
  BY DEF Segments
<1> QED BY <1>1 DEF Segments, FirstPage

LEMMA StackCompatible == LayoutFits => Compatible(Stack)
<1> SUFFICES ASSUME LayoutFits, NEW i \in DOMAIN Stack, NEW j \in DOMAIN Stack, i # j
             PROVE  PdPlace(Stack[i]) # PdPlace(Stack[j]) /\ Stack[i].pd = Stack[j].pd
  BY DEF Compatible
<1>1. PICK t \in Nat \ {0} : t = TableSize
  BY HeapNumbers
<1>2. StackPages \in Nat /\ StackPages <= t /\ USER_STACK_LOC \in Nat
  BY <1>1, ImageAssumption DEF LayoutFits
<1>3. i \in 1 .. StackPages /\ j \in 1 .. StackPages
  BY DEF Stack
<1>4. PICK x \in Int : x = USER_STACK_LOC - (i - 1)
  BY <1>2, <1>3
<1>5. PICK y \in Int : y = USER_STACK_LOC - (j - 1)
  BY <1>2, <1>3
<1>6. Stack[i].va = x /\ Stack[j].va = y
  BY <1>3, <1>4, <1>5 DEF Stack
<1>7. x # y /\ x - y < t /\ y - x < t
  BY <1>2, <1>3, <1>4, <1>5
<1>8. x % t # y % t
  BY <1>7, ModSame
<1> QED BY <1>1, <1>6, <1>8, StackPage DEF PdPlace, pt_index

LEMMA SegmentsCompatible == ASSUME LayoutFits, NEW image \in Images PROVE Compatible(Segments(image))
<1>1. PICK s : s = Segments(image)
  OBVIOUS
<1>2. ASSUME NEW i \in DOMAIN s, NEW j \in DOMAIN s, s[i].load, s[j].load, i # j
      PROVE  PdPlace(s[i]) # PdPlace(s[j]) /\ s[i].pd = s[j].pd
  <2>1. /\ s[i].pd = 0 /\ i \in DOMAIN image.segments /\ s[i] = FirstPage(image.segments[i])
        /\ s[j].pd = 0 /\ j \in DOMAIN image.segments /\ s[j] = FirstPage(image.segments[j])
    BY <1>1, SegmentPage
  <2>2. pt_index(s[i].va) # pt_index(s[j].va)
    BY <1>2, <2>1 DEF LayoutFits
  <2> QED BY <2>1, <2>2 DEF PdPlace
<1>3. Compatible(s)
  BY <1>2 DEF Compatible
<1> QED BY <1>1, <1>3

LEMMA BothCompatible ==
    ASSUME NEW s \in Seq(Page), NEW t \in Seq(Page), Compatible(s), Compatible(t),
           \A i \in DOMAIN s, j \in DOMAIN t : s[i].pd # t[j].pd /\ s[i].pdt # t[j].pdt
    PROVE  Compatible(s \o t)
<1>1. PICK v : v = s \o t
  OBVIOUS
<1>2. Len(s) \in Nat /\ Len(t) \in Nat /\ DOMAIN s = 1 .. Len(s) /\ DOMAIN t = 1 .. Len(t)
  OBVIOUS
<1>3. /\ v \in Seq(Page) /\ Len(v) = Len(s) + Len(t)
      /\ \A j \in 1 .. Len(s) + Len(t) : v[j] = IF j <= Len(s) THEN s[j] ELSE t[j - Len(s)]
  BY <1>1, ConcatProperties
<1>4. PICK n \in Nat : n = Len(s)
  BY <1>2
<1>5. ASSUME NEW j \in DOMAIN v
      PROVE  \/ j <= n /\ j \in DOMAIN s /\ v[j] = s[j]
             \/ ~ (j <= n) /\ j - n \in DOMAIN t /\ v[j] = t[j - n]
  <2>1. j \in 1 .. Len(s) + Len(t)
    BY <1>3
  <2> QED BY <1>2, <1>3, <1>4, <2>1
<1>6. DOMAIN v \subseteq Int
  BY <1>3
<1>7. ASSUME NEW i \in DOMAIN v, NEW j \in DOMAIN v, v[i].load, v[j].load, i # j
      PROVE  PdPlace(v[i]) # PdPlace(v[j]) /\ (PdtPlace(v[i]) = PdtPlace(v[j]) => v[i].pd = v[j].pd)
  <2>1. CASE i <= n /\ j <= n
    <3>1. i \in DOMAIN s /\ v[i] = s[i] /\ j \in DOMAIN s /\ v[j] = s[j]
      BY <1>5, <2>1
    <3> QED BY <1>7, <3>1 DEF Compatible
  <2>2. CASE ~ (i <= n) /\ ~ (j <= n)
    <3>1. i - n \in DOMAIN t /\ v[i] = t[i - n] /\ j - n \in DOMAIN t /\ v[j] = t[j - n]
      BY <1>5, <2>2
    <3>2. i - n # j - n
      BY <1>6, <1>7
    <3>3. /\ PdPlace(t[i - n]) # PdPlace(t[j - n])
          /\ PdtPlace(t[i - n]) = PdtPlace(t[j - n]) => t[i - n].pd = t[j - n].pd
      <4>1. t[i - n].load /\ t[j - n].load
        BY <1>7, <3>1
      <4> QED BY <3>1, <3>2, <4>1 DEF Compatible
    <3> QED BY <3>1, <3>3
  <2>3. CASE i <= n /\ ~ (j <= n)
    <3>1. i \in DOMAIN s /\ v[i] = s[i] /\ j - n \in DOMAIN t /\ v[j] = t[j - n]
      BY <1>5, <2>3
    <3>2. v[i].pd # v[j].pd /\ v[i].pdt # v[j].pdt
      BY <3>1
    <3> QED BY <3>2 DEF PdPlace, PdtPlace
  <2>4. CASE ~ (i <= n) /\ j <= n
    <3>1. j \in DOMAIN s /\ v[j] = s[j] /\ i - n \in DOMAIN t /\ v[i] = t[i - n]
      BY <1>5, <2>4
    <3>2. v[i].pd # v[j].pd /\ v[i].pdt # v[j].pdt
      BY <3>1
    <3> QED BY <3>2 DEF PdPlace, PdtPlace
  <2> QED BY <2>1, <2>2, <2>3, <2>4
<1>8. Compatible(v)
  BY <1>7 DEF Compatible
<1> QED BY <1>1, <1>8

LEMMA CopyCompatible ==
    ASSUME NEW dir, NEW list, Tabled(dir, list, FALSE), Covers(dir, list)
    PROVE  Compatible(Copy(list))
<1>1. PICK s : s = Copy(list)
  OBVIOUS
<1>2. ASSUME NEW i \in DOMAIN s
      PROVE  /\ i \in DOMAIN list /\ PdPlace(s[i]) = PdPlace(list[i]) /\ PdtPlace(s[i]) = PdtPlace(list[i])
             /\ s[i].pd = dir.pdt[PdtPlace(list[i])]
  <2>1. i \in DOMAIN list /\ Same(s[i], list[i])
    BY <1>1 DEF Copy, Same
  <2>2. list[i].pd = dir.pdt[PdtPlace(list[i])]
    BY <2>1 DEF Tabled, Walks, PdtPlace
  <2> QED BY <2>1, <2>2 DEF Same, PdPlace, PdtPlace
<1>3. ASSUME NEW i \in DOMAIN s, NEW j \in DOMAIN s, i # j
      PROVE  PdPlace(s[i]) # PdPlace(s[j]) /\ (PdtPlace(s[i]) = PdtPlace(s[j]) => s[i].pd = s[j].pd)
  BY <1>2, <1>3 DEF Covers
<1>4. Compatible(s)
  BY <1>3 DEF Compatible
<1> QED BY <1>1, <1>4

-----------------------------------------------------------------------------
(* What is mapped in the heap is listed, and its bits *)

LEMMA HeapEntry ==
    ASSUME NEW e, InPlace(e), e.pdt = 3 \/ e.pd \in 2 .. 499
    PROVE  \E l \in Heap : Same(e, HeapPage(l))
<1>1. PICK x \in Mappable : Same(e, x)
  BY DEF InPlace
<1>2. x.pdt = 3 \/ x.pd \in 2 .. 499
  BY <1>1 DEF Same
<1>3. PICK l \in Heap : x = HeapPage(l)
  BY <1>2, HeapKind
<1> QED BY <1>1, <1>3

LEMMA MappedIsListed ==
    ASSUME LayoutFits, NEW dir, NEW list, Tabled(dir, list, FALSE), Covers(dir, list), NEW l \in Heap,
           Translate(dir, USER_HEAP_START - l) # None
    PROVE  \E i \in DOMAIN list : list[i].va = USER_HEAP_START - l
<1>1. PICK page \in Page : /\ page = HeapPage(l) /\ page \in Mappable
                           /\ page.va = USER_HEAP_START - l /\ page.pdt = 3
                           /\ page.pd = 2 + l \div TableSize /\ page.pd \in 2 .. 499
  BY HeapPageFields
<1>2. PICK va : va = USER_HEAP_START - l
  OBVIOUS
<1>3. PICK pdt : pdt = PdtOf(dir, va)
  OBVIOUS
<1>4. PICK pd : pd = IF <<pdt, pdt_index(va)>> \in DOMAIN dir.pdt THEN dir.pdt[<<pdt, pdt_index(va)>>] ELSE None
  OBVIOUS
<1>5. <<pd, pt_index(va)>> \in DOMAIN dir.pd
  BY <1>2, <1>3, <1>4 DEF Translate, PdOf
<1>6. \A i \in DOMAIN list : InPlace(list[i]) /\ Walks(dir, list[i]) /\ list[i] \in Used
  BY DEF Tabled
<1>7. PICK j \in DOMAIN list : <<pd, pt_index(va)>> = PdPlace(list[j])
  BY <1>5 DEF Covers
<1>8. ASSUME NEW i \in DOMAIN list PROVE list[i].pdt # None /\ list[i].pd # None
  <2>1. PICK x \in Mappable : Same(list[i], x)
    BY <1>6 DEF InPlace
  <2>2. CASE x \in StackArea
    BY <2>1, <2>2 DEF StackArea, Stack, Same, None
  <2>3. CASE x \in ProgramArea
    BY <2>1, <2>3 DEF ProgramArea, FirstPage, Same, None
  <2>4. CASE x \in HeapArea
    <3>1. x.pdt = 3 /\ x.pd \in 2 .. 499
      <4>1. PICK k \in Heap : x = HeapPage(k)
        BY <2>4 DEF HeapArea, Heap
      <4> QED BY <4>1, HeapPageFields
    <3> QED BY <2>1, <3>1 DEF Same, None
  <2> QED BY <2>2, <2>3, <2>4 DEF Mappable
<1>9. pd # None
  BY <1>7, <1>8 DEF PdPlace
<1>10. <<pdt, pdt_index(va)>> \in DOMAIN dir.pdt /\ pd = dir.pdt[<<pdt, pdt_index(va)>>]
  BY <1>4, <1>9
<1>11. PICK i \in DOMAIN list : <<pdt, pdt_index(va)>> = PdtPlace(list[i])
  BY <1>10 DEF Covers
<1>12. pdt = list[i].pdt /\ pdt_index(va) = pdt_index(list[i].va) /\ pd = list[i].pd
  <2>1. pdt = list[i].pdt /\ pdt_index(va) = pdt_index(list[i].va)
    BY <1>11 DEF PdtPlace
  <2>2. list[i].pd = dir.pdt[PdtPlace(list[i])]
    BY <1>6 DEF Walks, PdtPlace
  <2> QED BY <1>10, <1>11, <2>1, <2>2
<1>13. pdt # None
  BY <1>8, <1>12
<1>14. PICK h \in DOMAIN list : pdpt_index(va) = pdpt_index(list[h].va) /\ pdt = list[h].pdt
  <2>1. pdpt_index(va) \in DOMAIN dir.pdpt /\ pdt = dir.pdpt[pdpt_index(va)]
    BY <1>3, <1>13 DEF PdtOf
  <2>2. PICK h \in DOMAIN list : pdpt_index(va) = pdpt_index(list[h].va)
    BY <2>1 DEF Covers
  <2> QED BY <1>6, <2>1, <2>2 DEF Walks
<1>15. pdt = 3
  <2>1. PICK x \in Mappable : Same(list[h], x)
    BY <1>6 DEF InPlace
  <2>2. pdpt_index(x.va) = pdpt_index(page.va)
    BY <1>1, <1>2, <1>14, <2>1 DEF Same
  <2> QED BY <1>1, <1>14, <2>1, <2>2 DEF Same, LayoutFits, AreasApart
<1>16. PICK k \in Heap : Same(list[i], HeapPage(k))
  BY <1>6, <1>12, <1>15, HeapEntry
<1>17. pd = page.pd
  <2>1. HeapPage(k).va = USER_HEAP_START - k /\ HeapPage(k).pd = 2 + k \div TableSize
    BY HeapPageFields
  <2>2. pdt_index(USER_HEAP_START - k) = pdt_index(USER_HEAP_START - l)
    BY <1>2, <1>12, <1>16, <2>1 DEF Same
  <2>3. k \div TableSize = l \div TableSize
    BY <2>2, HeapPdtIndex
  <2> QED BY <1>1, <1>12, <1>16, <2>1, <2>3 DEF Same
<1>18. list[j].pd = page.pd /\ pt_index(list[j].va) = pt_index(page.va)
  BY <1>1, <1>2, <1>7, <1>17 DEF PdPlace
<1>19. PICK n \in Heap : Same(list[j], HeapPage(n))
  BY <1>1, <1>6, <1>18, HeapEntry
<1>20. PdPlace(HeapPage(n)) = PdPlace(HeapPage(l))
  BY <1>1, <1>18, <1>19 DEF Same, PdPlace
<1>21. n = l
  BY <1>20, HeapPdPlace
<1> QED BY <1>1, <1>19, <1>21 DEF Same

-----------------------------------------------------------------------------
(* Setting and clearing bits *)

LEMMA ShiftIs ==
    ASSUME NEW b \in Int
    PROVE  Shift(b) \subseteq 0 .. Word - 1 /\ (Shift(b) = High \/ Shift(b) \cap High = {})
<1>1. IntBits \in Nat \ {0} /\ Word \in Nat \ {0} /\ IntBits <= Word
  BY HeapNumbers
<1>2. PICK r \in Int : r = b % IntBits /\ 0 <= r /\ r < IntBits
  BY <1>1
<1>3. CASE r = IntBits - 1
  <2>1. Shift(b) = High
    BY <1>2, <1>3 DEF Shift, High
  <2> QED BY <1>1, <2>1 DEF High
<1>4. CASE r # IntBits - 1
  <2>1. Shift(b) = {r}
    BY <1>2, <1>4 DEF Shift
  <2> QED BY <1>1, <1>2, <1>4, <2>1 DEF High
<1> QED BY <1>3, <1>4

LEMMA SetShaped ==
    ASSUME NEW bits \in Bitmap, Shaped(bits), NEW w, NEW b \in Int
    PROVE  [bits EXCEPT ![w] = @ \cup Shift(b)] \in Bitmap /\ Shaped([bits EXCEPT ![w] = @ \cup Shift(b)])
<1>1. PICK S : S = Shift(b)
  OBVIOUS
<1>2. S \subseteq 0 .. Word - 1 /\ (S = High \/ S \cap High = {})
  BY <1>1, ShiftIs
<1>3. PICK next : next = [bits EXCEPT ![w] = @ \cup S]
  OBVIOUS
<1>4. next \in Bitmap
  BY <1>2, <1>3 DEF Bitmap
<1>5. \A v \in 0 .. Words - 1 : next[v] = bits[v] \/ next[v] = bits[v] \cup S
  BY <1>3 DEF Bitmap
<1>6. Shaped(next)
  BY <1>2, <1>5 DEF Shaped
<1> QED BY <1>1, <1>3, <1>4, <1>6

LEMMA ClearedShaped ==
    ASSUME NEW bits \in Bitmap, Shaped(bits), NEW places \in Seq(Place)
    PROVE  Cleared(bits, places) \in Bitmap /\ Shaped(Cleared(bits, places))
<1>1. DOMAIN bits = 0 .. Words - 1
  BY DEF Bitmap
<1>2. ASSUME NEW w \in 0 .. Words - 1
      PROVE  \E S : /\ Cleared(bits, places)[w] = bits[w] \ S
                    /\ High \subseteq S \/ S \cap High = {}
  <2>1. PICK K : K = {j \in DOMAIN places : places[j][1] = w}
    OBVIOUS
  <2>2. PICK S : S = UNION {Shift(places[k][2]) : k \in K}
    OBVIOUS
  <2>3. Cleared(bits, places)[w] = bits[w] \ S
    BY <1>1, <2>1, <2>2 DEF Cleared
  <2>4. \A k \in K : Shift(places[k][2]) = High \/ Shift(places[k][2]) \cap High = {}
    <3>1. ASSUME NEW k \in K PROVE places[k][2] \in Int
      <4>1. k \in DOMAIN places
        BY <2>1
      <4>2. places[k] \in Place
        BY <4>1
      <4> QED BY <4>2 DEF Place
    <3> QED BY <3>1, ShiftIs
  <2>5. High \subseteq S \/ S \cap High = {}
    <3>1. CASE \E k \in K : Shift(places[k][2]) = High
      BY <2>2, <3>1
    <3>2. CASE \A k \in K : Shift(places[k][2]) \cap High = {}
      BY <2>2, <3>2
    <3> QED BY <2>4, <3>1, <3>2
  <2> QED BY <2>3, <2>5
<1>3. PICK next : next = Cleared(bits, places)
  OBVIOUS
<1>4. DOMAIN next = 0 .. Words - 1 /\ next = [w \in 0 .. Words - 1 |-> next[w]]
  BY <1>1, <1>3 DEF Cleared
<1>5. \A w \in 0 .. Words - 1 : \E S : next[w] = bits[w] \ S /\ (High \subseteq S \/ S \cap High = {})
  BY <1>2, <1>3
<1>6. \A w \in 0 .. Words - 1 : next[w] \subseteq 0 .. Word - 1
  BY <1>5 DEF Bitmap
<1>7. next \in Bitmap
  BY <1>4, <1>6 DEF Bitmap
<1>8. Shaped(next)
  <2> SUFFICES ASSUME NEW w \in 0 .. Words - 1 PROVE High \subseteq next[w] \/ High \cap next[w] = {}
    BY DEF Shaped
  <2>1. PICK S : next[w] = bits[w] \ S /\ (High \subseteq S \/ S \cap High = {})
    BY <1>5
  <2>2. High \subseteq bits[w] \/ High \cap bits[w] = {}
    BY DEF Shaped
  <2> QED BY <2>1, <2>2
<1> QED BY <1>3, <1>7, <1>8

-----------------------------------------------------------------------------
(* A round of sbrk *)

LEMMA MapNewRest ==
    ASSUME NEW m, IsSbrk(m), NEW page \in Page, NEW r, r = MapNew(m, page)
    PROVE  IsSbrk(r) /\ DOMAIN r = DOMAIN m /\ r.bits = m.bits /\ r.end = m.end /\ r.failed = m.failed
<1>2. \/ r = m \/ r = Halt(m, "frames")
      \/ \E pa : r = map_4kb_page_user([m EXCEPT !.held = @ \cup {pa}], page.va, pa, page.pdt, page.pd)
  BY Zenon DEF MapNew
<1>3. CASE r = m
  BY <1>3
<1>4. CASE r = Halt(m, "frames")
  BY <1>4 DEF Halt, IsSbrk, IsMem
<1>5. CASE \E pa : r = map_4kb_page_user([m EXCEPT !.held = @ \cup {pa}], page.va, pa, page.pdt, page.pd)
  <2>1. PICK pa : r = map_4kb_page_user([m EXCEPT !.held = @ \cup {pa}], page.va, pa, page.pdt, page.pd)
    BY <1>5
  <2>2. PICK n : n = [m EXCEPT !.held = @ \cup {pa}]
    OBVIOUS
  <2>3. IsSbrk(n) /\ DOMAIN n = DOMAIN m /\ n.bits = m.bits /\ n.end = m.end /\ n.failed = m.failed
    BY <2>2 DEF IsSbrk, IsMem
  <2>4. \/ r = Halt(n, "pdt") \/ r = Halt(n, "pd")
        \/ \E dir, used : r = [n EXCEPT !.dir = dir, !.used = used]
    BY <2>1, <2>2, Zenon DEF map_4kb_page_user
  <2>5. \/ r = n \/ \E why : r = [n EXCEPT !.panic = why]
        \/ \E dir, used : r = [n EXCEPT !.dir = dir, !.used = used]
    BY <2>4, Zenon DEF Halt
  <2> QED BY <2>3, <2>5 DEF IsSbrk, IsMem
<1> QED BY <1>2, <1>3, <1>4, <1>5

(* One round of m at a place gives r: nothing, a failure, or the page mapped. *)
Stepped(m, at, page, r) ==
    \/ r = m /\ (m.failed \/ m.panic # "none")
    \/ /\ r.failed = TRUE /\ r.dir = m.dir /\ r.used = m.used /\ r.panic = m.panic
       /\ r.bits = m.bits /\ r.end = m.end
    \/ LET k == MapNew(m, page)
       IN /\ ~ m.failed /\ m.panic = "none" /\ FreeFrames(m) # {} /\ r.failed = m.failed
          /\ r.dir = k.dir /\ r.used = k.used /\ r.panic = k.panic
          /\ r.bits = [m.bits EXCEPT ![at[1]] = @ \cup Shift(at[2])] /\ r.end = page.va

LEMMA SbrkStepIs ==
    ASSUME NEW m, IsSbrk(m), NEW at \in Place
    PROVE  /\ IsSbrk(SbrkStep(m, at))
           /\ Stepped(m, at, HeapPage(at[1] * Word + at[2]), SbrkStep(m, at))
<1>a. PICK page \in Page : page = HeapPage(at[1] * Word + at[2])
  BY HeapPageIs
<1>b. PICK k : k = MapNew(m, page)
  OBVIOUS
<1>c. PICK r : r = SbrkStep(m, at)
  OBVIOUS
<1>d. SUFFICES IsSbrk(r) /\ Stepped(m, at, page, r)
  BY <1>a, <1>c
<1>1. CASE m.failed \/ m.panic # "none"
  BY <1>c, <1>1 DEF SbrkStep, Stepped
<1>2. CASE ~ (m.failed \/ m.panic # "none") /\ FreeFrames(m) = {}
  <2>1. r = [m EXCEPT !.failed = TRUE]
    BY <1>c, <1>2 DEF SbrkStep
  <2>2. /\ IsSbrk(r) /\ r.failed = TRUE /\ r.dir = m.dir /\ r.used = m.used /\ r.panic = m.panic
        /\ r.bits = m.bits /\ r.end = m.end
    BY <2>1 DEF IsSbrk, IsMem
  <2> QED BY <2>2 DEF Stepped
<1>3. CASE ~ (m.failed \/ m.panic # "none") /\ FreeFrames(m) # {}
  <2>1. IsSbrk(k) /\ DOMAIN k = DOMAIN m /\ k.bits = m.bits /\ k.end = m.end /\ k.failed = m.failed
    BY <1>b, MapNewRest
  <2>2. r = [k EXCEPT !.bits[at[1]] = @ \cup Shift(at[2]), !.end = page.va]
    BY <1>a, <1>b, <1>c, <1>3 DEF SbrkStep
  <2>3. PICK bits : bits = [k.bits EXCEPT ![at[1]] = @ \cup Shift(at[2])]
    OBVIOUS
  <2>4. r = [k EXCEPT !.bits = bits, !.end = page.va]
    BY <2>1, <2>2, <2>3 DEF IsSbrk, IsMem
  <2>5. /\ IsSbrk(r) /\ r.bits = bits /\ r.end = page.va /\ r.failed = m.failed
        /\ r.dir = k.dir /\ r.used = k.used /\ r.panic = k.panic
    BY <2>1, <2>4 DEF IsSbrk, IsMem
  <2>6. Stepped(m, at, page, r)
    BY <1>b, <1>3, <2>1, <2>3, <2>5 DEF Stepped
  <2> QED BY <2>5, <2>6
<1> QED BY <1>1, <1>2, <1>3

(* Whatever the process did before, the words keep their shape. *)
Kept(m) == IsSbrk(m) /\ m.bits \in Bitmap /\ Shaped(m.bits) /\ m.end \in Int

LEMMA SbrkStepKeeps == ASSUME NEW m, Kept(m), NEW at \in Place PROVE Kept(SbrkStep(m, at))
<1>1. PICK page \in Page : page = HeapPage(at[1] * Word + at[2])
  BY HeapPageIs
<1>3. PICK r : r = SbrkStep(m, at)
  OBVIOUS
<1>4. /\ IsSbrk(r)
      /\ \/ r = m
         \/ r.bits = m.bits /\ r.end = m.end
         \/ r.bits = [m.bits EXCEPT ![at[1]] = @ \cup Shift(at[2])] /\ r.end = page.va
  <2>1. IsSbrk(m)
    BY DEF Kept
  <2>2. IsSbrk(r) /\ Stepped(m, at, page, r)
    BY <1>1, <1>3, <2>1, SbrkStepIs
  <2> QED BY <2>2 DEF Stepped
<1>5. at[2] \in Int /\ page.va \in Int
  BY DEF Place, Page
<1>6. Kept(r)
  <2>1. PICK bits : bits = m.bits
    OBVIOUS
  <2>2. bits \in Bitmap /\ Shaped(bits)
    BY <2>1 DEF Kept
  <2>3. PICK next : next = [bits EXCEPT ![at[1]] = @ \cup Shift(at[2])]
    OBVIOUS
  <2>4. next \in Bitmap /\ Shaped(next)
    BY <1>5, <2>2, <2>3, SetShaped
  <2> QED BY <1>4, <1>5, <2>1, <2>2, <2>3, <2>4 DEF Kept
<1> QED BY <1>3, <1>6

LEMMA SbrkAllKeeps == ASSUME NEW m, Kept(m), NEW places \in Seq(Place) PROVE Kept(SbrkAll(m, places))
<1>1. Len(places) \in Nat /\ \A i \in 1 .. Len(places) : places[i] \in Place
  OBVIOUS
<1>2. PICK g : Taken(g, m, places, Len(places)) /\ SbrkAll(m, places) = g[Len(places)]
  BY <1>1, SbrkRoundsResult
<1> DEFINE S == {k \in 0 .. Len(places) : Kept(g[k])}
<1>3. 0 \in S
  <2>1. g[0] = m
    BY <1>1, <1>2 DEF Taken
  <2> QED BY <1>1, <2>1
<1>4. ASSUME NEW k \in 1 .. Len(places), k - 1 \in S PROVE k \in S
  <2>1. k \in 0 .. Len(places) /\ k # 0
    BY <1>1
  <2>2. g[k] = SbrkStep(g[k - 1], places[k])
    BY <1>2, <2>1 DEF Taken
  <2>3. Kept(g[k - 1]) /\ places[k] \in Place
    BY <1>1, <1>4
  <2>4. Kept(g[k])
    BY <2>2, <2>3, SbrkStepKeeps
  <2> QED BY <2>1, <2>4
<1>5. Len(places) \in S
  <2> HIDE DEF S
  <2> QED BY <1>1, <1>3, <1>4, Count
<1> QED BY <1>2, <1>5

-----------------------------------------------------------------------------
(* The rounds of sbrk for a process that neither freed nor inherited pages *)

(* Each place of the loop once, all of them in the run, and in each word the  *)
(* place of the sign bit before the higher ones.                              *)
InRun(places, l, n) ==
    \A k \in DOMAIN places : \E x \in l .. l + n - 1 : places[k] = Bit(x) /\ places[k][1] * Word + places[k][2] = x

Once(places) == \A j, k \in DOMAIN places : places[j] = places[k] => j = k

SignFirst(places) ==
    \A k \in DOMAIN places : places[k][2] > IntBits - 1 =>
        \E j \in DOMAIN places : j < k /\ places[j] = <<places[k][1], IntBits - 1>>

LEMMA LoopOrder ==
    ASSUME NEW n \in Nat, NEW l \in 0 .. Word * Words - n, NEW places, places = Loop(Bit(l), Bit(l + n - 1))
    PROVE  InRun(places, l, n) /\ Once(places) /\ (l % Word <= IntBits - 1 => SignFirst(places))
<1>1. Word \in Nat \ {0} /\ IntBits \in Nat \ {0} /\ l \in Nat
  BY HeapNumbers
<1>2. PICK z \in Int : z = l + n - 1
  BY <1>1
<1>W. PICK W \in Nat \ {0} : W = Word
  BY <1>1
<1>3. PICK a \in Int : l \div Word = a /\ \E r \in Int : l % Word = r /\ 0 <= r /\ r < Word /\ l = Word * a + r
  <2>1. PICK x \in Int : x = l
    BY <1>1
  <2>2. PICK a \in Int : x \div W = a /\ \E r \in Int : x % W = r /\ 0 <= r /\ r < W /\ x = W * a + r
    BY QuotRem
  <2> QED BY <1>W, <2>1, <2>2
<1>4. PICK b \in Int : l % Word = b /\ 0 <= b /\ b < Word /\ l = Word * a + b
  BY <1>3
<1>5. PICK c \in Int : z \div Word = c /\ \E r \in Int : z % Word = r /\ 0 <= r /\ r < Word /\ z = Word * c + r
  <2>1. PICK c \in Int : z \div W = c /\ \E r \in Int : z % W = r /\ 0 <= r /\ r < W /\ z = W * c + r
    BY QuotRem
  <2> QED BY <1>W, <2>1
<1>6. PICK d \in Int : z % Word = d /\ 0 <= d /\ d < Word /\ z = Word * c + d
  BY <1>5
<1>7. places = Loop(<<a, b>>, <<c, d>>)
  BY <1>2, <1>3, <1>4, <1>5, <1>6 DEF Bit
<1>8. PICK w \in Int : w = d - b + 1
  OBVIOUS
<1>9. CASE w <= 0
  <2>1. places = <<>>
    BY <1>7, <1>8, <1>9 DEF Loop
  <2> QED BY <2>1 DEF InRun, Once, SignFirst
<1>10. CASE w > 0
  <2>0. w \in Nat \ {0}
    BY <1>10
  <2>1. PICK N \in Int : N = (c - a + 1) * w
    OBVIOUS
  <2>2. places = [k \in 1 .. N |-> <<a + (k - 1) \div w, b + ((k - 1) % w)>>]
    <3>1. PICK from : from = <<a, b>>
      OBVIOUS
    <3>2. PICK to : to = <<c, d>>
      OBVIOUS
    <3>3. from[1] = a /\ from[2] = b /\ to[1] = c /\ to[2] = d
      BY <3>1, <3>2
    <3>4. places = Loop(from, to) /\ to[2] - from[2] + 1 = w /\ ~ (w <= 0)
      BY <1>7, <1>8, <1>10, <3>1, <3>2, <3>3
    <3>5. places = [k \in 1 .. (to[1] - from[1] + 1) * w |-> <<from[1] + (k - 1) \div w, from[2] + ((k - 1) % w)>>]
      BY <3>4 DEF Loop
    <3> QED BY <2>1, <3>3, <3>5
  <2>3. DOMAIN places = 1 .. N /\ \A k \in DOMAIN places : k \in Int /\ 1 <= k /\ k <= N
    BY <2>1, <2>2
  <2>4. ASSUME NEW k \in DOMAIN places
        PROVE  \E i \in Int, j \in Int : /\ places[k] = <<a + i, b + j>> /\ k - 1 = w * i + j
                                         /\ 0 <= i /\ i <= c - a /\ 0 <= j /\ j < w
    <3>1. k \in 1 .. N /\ k - 1 \in Nat /\ k - 1 < (c - a + 1) * w
      BY <2>1, <2>3
    <3>0. PICK y \in Int : y = k - 1
      BY <3>1
    <3>2. PICK i \in Int : (k - 1) \div w = i /\ \E j \in Int : (k - 1) % w = j /\ 0 <= j /\ j < w /\ k - 1 = w * i + j
      <4>1. PICK i \in Int : y \div w = i /\ \E j \in Int : y % w = j /\ 0 <= j /\ j < w /\ y = w * i + j
        BY <2>0, QuotRem
      <4> QED BY <3>0, <4>1
    <3>3. PICK j \in Int : (k - 1) % w = j /\ 0 <= j /\ j < w /\ k - 1 = w * i + j
      BY <3>2
    <3>4. (k - 1) \div w < c - a + 1
      BY <2>0, <3>1, DivLess
    <3>5. (k - 1) \div w \in Nat
      BY <2>0, <3>1, DivNat
    <3>6. 0 <= i /\ i <= c - a
      BY <3>2, <3>4, <3>5
    <3>7. places[k] = <<a + i, b + j>>
      BY <2>2, <3>1, <3>2, <3>3
    <3> QED BY <3>3, <3>6, <3>7
  <2>5. ASSUME NEW i \in Int, NEW j \in Int, 0 <= i, i <= c - a, 0 <= j, j < w, NEW k \in Int, k = w * i + j + 1, k <= N
        PROVE  k \in DOMAIN places /\ places[k] = <<a + i, b + j>>
    <3>1. PICK y \in Int : y = w * i
      OBVIOUS
    <3>2. y >= 0
      BY <2>0, <2>5, <3>1
    <3>3. k - 1 = y + j /\ 1 <= k /\ k - 1 \in Int
      BY <2>5, <3>1, <3>2
    <3>4. k - 1 = w * i + j
      BY <3>1, <3>3
    <3>5. (k - 1) \div w = i /\ (k - 1) % w = j
      BY <2>0, <2>5, <3>3, <3>4, DivMod
    <3>6. k \in 1 .. N
      BY <2>1, <2>5, <3>3
    <3> QED BY <2>2, <3>5, <3>6
  <2>6. InRun(places, l, n)
    <3> SUFFICES ASSUME NEW k \in DOMAIN places
                 PROVE  \E x \in l .. l + n - 1 : places[k] = Bit(x) /\ places[k][1] * Word + places[k][2] = x
      BY DEF InRun
    <3>1. PICK i \in Int, j \in Int : /\ places[k] = <<a + i, b + j>>
                                      /\ 0 <= i /\ i <= c - a /\ 0 <= j /\ j < w
      BY <2>4
    <3>2. PICK s \in Int : s = a + i /\ a <= s /\ s <= c
      BY <3>1
    <3>3. PICK t \in Int : t = b + j /\ 0 <= t /\ b <= t /\ t <= d /\ t < Word
      BY <1>1, <1>4, <1>6, <1>8, <3>1
    <3>4. PICK x \in Int : x = Word * s + t
      BY <1>1
    <3>5. x \div Word = s /\ x % Word = t
      <4>1. W = Word
        BY <1>W
      <4>2. x = W * s + t /\ 0 <= t /\ t < W
        BY <3>3, <3>4, <4>1
      <4>3. x \div W = s /\ x % W = t
        BY <4>2, DivMod
      <4> QED BY <4>1, <4>3
    <3>6. l <= x
      <4>1. Word * (s - a) >= 0
        BY <1>1, <3>2
      <4>2. Word * (s - a) = Word * s - Word * a
        BY <1>1, Distribute
      <4>3. PICK A \in Int, S \in Int : A = Word * a /\ S = Word * s
        <5>1. Word * a \in Int /\ Word * s \in Int
          BY <1>1
        <5> QED BY <5>1
      <4> QED BY <1>4, <3>3, <3>4, <4>1, <4>2, <4>3
    <3>7. x <= z
      <4>1. Word * (c - s) >= 0
        BY <1>1, <3>2
      <4>2. Word * (c - s) = Word * c - Word * s
        BY <1>1, Distribute
      <4>3. PICK C \in Int, S \in Int : C = Word * c /\ S = Word * s
        <5>1. Word * c \in Int /\ Word * s \in Int
          BY <1>1
        <5> QED BY <5>1
      <4> QED BY <1>6, <3>3, <3>4, <4>1, <4>2, <4>3
    <3>8. x \in l .. l + n - 1
      BY <1>1, <1>2, <3>6, <3>7
    <3>9. places[k] = <<s, t>> /\ s * Word + t = x
      <4>1. Word * s = s * Word
        BY <1>1
      <4> QED BY <3>1, <3>2, <3>3, <3>4, <4>1
    <3> QED BY <3>5, <3>8, <3>9 DEF Bit
  <2>7. Once(places)
    <3> SUFFICES ASSUME NEW j \in DOMAIN places, NEW k \in DOMAIN places, places[j] = places[k] PROVE j = k
      BY DEF Once
    <3>1. PICK i1 \in Int, j1 \in Int : places[j] = <<a + i1, b + j1>> /\ j - 1 = w * i1 + j1
      BY <2>4
    <3>2. PICK i2 \in Int, j2 \in Int : places[k] = <<a + i2, b + j2>> /\ k - 1 = w * i2 + j2
      BY <2>4
    <3>3. i1 = i2 /\ j1 = j2
      BY <3>1, <3>2
    <3>4. j - 1 = k - 1
      BY <3>1, <3>2, <3>3
    <3> QED BY <2>3, <3>4
  <2>8. b <= IntBits - 1 => SignFirst(places)
    <3> SUFFICES ASSUME b <= IntBits - 1, NEW k \in DOMAIN places, places[k][2] > IntBits - 1
                 PROVE  \E j \in DOMAIN places : j < k /\ places[j] = <<places[k][1], IntBits - 1>>
      BY DEF SignFirst
    <3>1. PICK i \in Int, j \in Int : /\ places[k] = <<a + i, b + j>> /\ k - 1 = w * i + j
                                      /\ 0 <= i /\ i <= c - a /\ 0 <= j /\ j < w
      BY <2>4
    <3>2. PICK s \in Int : s = IntBits - 1 - b /\ 0 <= s /\ s < j /\ s < w
      BY <1>1, <3>1
    <3>3. PICK y \in Int : y = w * i
      OBVIOUS
    <3>4. PICK h \in Int : h = y + s + 1
      OBVIOUS
    <3>5. h < k /\ h <= N
      <4>1. k \in Int /\ k <= N /\ k - 1 = y + j
        BY <2>3, <3>1, <3>3
      <4> QED BY <2>1, <3>1, <3>2, <3>4, <4>1
    <3>6. h = w * i + s + 1
      BY <3>3, <3>4
    <3>7. h \in DOMAIN places /\ places[h] = <<a + i, b + s>>
      <4>1. 0 <= i /\ i <= c - a
        BY <3>1
      <4>2. 0 <= s /\ s < w
        BY <3>2
      <4> QED BY <2>5, <3>5, <3>6, <4>1, <4>2
    <3>8. b + s = IntBits - 1 /\ places[k][1] = a + i
      BY <1>1, <3>1, <3>2
    <3> QED BY <3>5, <3>7, <3>8
  <2> QED BY <1>4, <2>6, <2>7, <2>8
<1> QED BY <1>9, <1>10

LEMMA MinLeast == ASSUME NEW T \in SUBSET Nat, NEW y \in T PROVE Min(T) <= y
<1>1. \E x \in T : \A v \in T : x <= v
  BY Least
<1> QED BY <1>1 DEF Min

(* The lowest run does not begin above the sign bit: one bit lower is a run   *)
(* as well, since the bits from the sign upwards are set together.            *)
LEMMA LowestRun ==
    ASSUME NEW p \in Procs, NEW n \in Nat, FreeRuns(p, n) # {},
           user_heap_bitmap[p] \in Bitmap, Shaped(user_heap_bitmap[p]),
           NEW l, l = Min(FreeRuns(p, n))
    PROVE  l \in 0 .. Word * Words - n /\ IsFreeRun(p, l, n) /\ l % Word <= IntBits - 1
<1>1. Word \in Nat \ {0} /\ IntBits \in Nat \ {0} /\ Word * Words \in Nat /\ Words \in Nat /\ IntBits <= Word
  BY HeapNumbers
<1>2. FreeRuns(p, n) \in SUBSET Nat
  BY <1>1 DEF FreeRuns
<1>3. l \in FreeRuns(p, n)
  BY <1>2, MinIn
<1>4. l \in 0 .. Word * Words - n /\ IsFreeRun(p, l, n) /\ l \in Nat
  BY <1>2, <1>3 DEF FreeRuns
<1>W. PICK W \in Nat \ {0} : W = Word
  BY <1>1
<1>5. PICK a \in Int : l \div Word = a /\ \E r \in Int : l % Word = r /\ 0 <= r /\ r < Word /\ l = Word * a + r
  <2>1. l \in Int
    BY <1>4
  <2>2. PICK a \in Int : l \div W = a /\ \E r \in Int : l % W = r /\ 0 <= r /\ r < W /\ l = W * a + r
    BY <2>1, QuotRem
  <2> QED BY <1>W, <2>2
<1>6. PICK b \in Int : l % Word = b /\ 0 <= b /\ b < Word /\ l = Word * a + b
  BY <1>5
<1>7. SUFFICES ASSUME b > IntBits - 1 PROVE FALSE
  BY <1>1, <1>4, <1>6
<1>8. PICK x \in Int : x = l - 1
  BY <1>4
<1>9. x \div Word = a /\ x % Word = b - 1 /\ 0 <= x
  <2>1. PICK A \in Int : A = Word * a
    BY <1>1
  <2>2. A >= 0
    <3>1. a \in Nat
      BY <1>1, <1>4, <1>5, DivNat
    <3> QED BY <1>1, <2>1, <3>1
  <2>3. x = A + (b - 1) /\ b - 1 >= 0 /\ b - 1 < Word /\ b - 1 \in Int
    BY <1>1, <1>6, <1>7, <1>8, <2>1
  <2>4. x = Word * a + (b - 1)
    BY <2>1, <2>3
  <2>5. PICK c \in Int : c = b - 1
    OBVIOUS
  <2>6. x = W * a + c /\ 0 <= c /\ c < W
    BY <1>W, <2>3, <2>4, <2>5
  <2>7. x \div W = a /\ x % W = c
    BY <2>6, DivMod
  <2>8. 0 <= x
    BY <2>2, <2>3
  <2> QED BY <1>W, <2>5, <2>7, <2>8
<1>10. IsFreeRun(p, x, n)
  <2> SUFFICES ASSUME NEW k \in x .. x + n - 1 PROVE Bit(k)[2] \notin user_heap_bitmap[p][Bit(k)[1]]
    BY DEF IsFreeRun
  <2>1. CASE k \in l .. l + n - 1
    BY <1>4, <2>1 DEF IsFreeRun
  <2>2. CASE k \notin l .. l + n - 1
    <3>1. k = x /\ l \in l .. l + n - 1
      BY <1>4, <1>8, <2>2
    <3>2. Bit(l)[2] \notin user_heap_bitmap[p][Bit(l)[1]]
      BY <1>4, <3>1 DEF IsFreeRun
    <3>3. b \notin user_heap_bitmap[p][a]
      BY <1>5, <1>6, <3>2 DEF Bit
    <3>4. b \in High /\ b - 1 \in High
      BY <1>1, <1>6, <1>7 DEF High
    <3>5. a \in 0 .. Words - 1
      <4>1. l < Words * Word
        <5>1. Word * Words = Words * Word
          BY <1>1
        <5> QED BY <1>1, <1>4, <3>1, <5>1
      <4>2. a < Words
        BY <1>1, <1>4, <1>5, <4>1, DivLess
      <4>3. a \in Nat
        BY <1>1, <1>4, <1>5, DivNat
      <4> QED BY <1>1, <4>2, <4>3
    <3>6. b - 1 \notin user_heap_bitmap[p][a]
      BY <3>3, <3>4, <3>5 DEF Shaped
    <3> QED BY <1>9, <3>1, <3>6 DEF Bit
  <2> QED BY <2>1, <2>2
<1>11. x \in FreeRuns(p, n)
  <2>1. x \in 0 .. Word * Words - n
    BY <1>1, <1>4, <1>8, <1>9
  <2> QED BY <1>10, <2>1 DEF FreeRuns
<1>12. l <= x
  BY <1>2, <1>11, MinLeast
<1> QED BY <1>4, <1>8, <1>12

(* After k rounds: a heap page in the list was there before, with its bit, or *)
(* is that of a round.                                                        *)
Round(m, before, places, k) ==
    /\ IsSbrk(m) /\ Tabled(m.dir, m.used, FALSE) /\ Covers(m.dir, m.used)
    /\ m.panic = "none" /\ m.bits \in Bitmap /\ HeapBits(m.used, m.bits)
    /\ \A i \in DOMAIN m.used : \A x \in Heap : m.used[i].va = USER_HEAP_START - x =>
          Bit(x)[2] \in before[Bit(x)[1]] \/ \E j \in 1 .. k : places[j] = Bit(x)
    /\ ~ m.failed => \A j \in 1 .. k : Shift(places[j][2]) \subseteq m.bits[places[j][1]]

Unset(before, l, n) == \A x \in l .. l + n - 1 : Bit(x)[2] \notin before[Bit(x)[1]]

LEMMA BitInMap == ASSUME NEW x \in Heap PROVE Bit(x)[1] \in 0 .. Words - 1 /\ Bit(x)[2] \in 0 .. Word - 1
<1>1. Word \in Nat \ {0} /\ Words \in Nat /\ x \in Nat /\ x < Words * Word
  <2>1. Word \in Nat \ {0} /\ Words \in Nat /\ x \in Nat
    BY HeapNumbers
  <2>2. Word * Words = Words * Word
    BY <2>1
  <2> QED BY <2>1, <2>2, HeapNumbers DEF Heap
<1>2. x \div Word < Words /\ x \div Word \in Nat
  BY <1>1, DivLess, DivNat
<1>3. x % Word \in 0 .. Word - 1
  BY <1>1
<1> QED BY <1>1, <1>2, <1>3 DEF Bit

LEMMA RoundNext ==
    ASSUME LayoutFits, NEW before, NEW places \in Seq(Place), NEW n \in Nat, NEW l \in 0 .. Word * Words - n,
           Unset(before, l, n), InRun(places, l, n), Once(places), SignFirst(places),
           NEW k \in 1 .. Len(places), NEW m, Round(m, before, places, k - 1)
    PROVE  Round(SbrkStep(m, places[k]), before, places, k)
<1>1. PICK at \in Place : at = places[k]
  OBVIOUS
<1>2. k \in DOMAIN places /\ DOMAIN places = 1 .. Len(places) /\ k \in Nat
  OBVIOUS
<1>3. PICK x \in l .. l + n - 1 : at = Bit(x) /\ at[1] * Word + at[2] = x
  BY <1>1, <1>2 DEF InRun
<1>4. x \in Heap /\ x \in Int
  BY <1>3, HeapNumbers DEF Heap
<1>5. PICK page \in Page : /\ page = HeapPage(x) /\ page \in Mappable
                           /\ page.va = USER_HEAP_START - x /\ page.pdt = 3
                           /\ page.pd = 2 + x \div TableSize /\ page.pd \in 2 .. 499
  BY <1>4, HeapPageFields
<1>6. PICK r : r = SbrkStep(m, at)
  OBVIOUS
<1>7. IsSbrk(m) /\ IsMem(m) /\ Tabled(m.dir, m.used, FALSE) /\ Covers(m.dir, m.used)
  BY DEF Round, IsSbrk
<1>8. IsSbrk(r) /\ Stepped(m, at, page, r)
  BY <1>3, <1>5, <1>6, <1>7, SbrkStepIs
<1>9. \A j \in 1 .. k - 1 : j \in 1 .. k /\ j \in DOMAIN places /\ j # k
  BY <1>2
<1>10. CASE r = m /\ (m.failed \/ m.panic # "none")
  <2>1. m.failed
    BY <1>10 DEF Round
  <2>2. Round(m, before, places, k)
    BY <1>9, <2>1 DEF Round
  <2> QED BY <1>1, <1>6, <1>10, <2>2
<1>11. CASE /\ r.failed = TRUE /\ r.dir = m.dir /\ r.used = m.used /\ r.panic = m.panic
            /\ r.bits = m.bits /\ r.end = m.end
  <2>1. Round(r, before, places, k)
    BY <1>8, <1>9, <1>11 DEF Round
  <2> QED BY <1>1, <1>6, <2>1
<1>12. CASE /\ ~ m.failed /\ m.panic = "none" /\ FreeFrames(m) # {} /\ r.failed = m.failed
            /\ r.dir = MapNew(m, page).dir /\ r.used = MapNew(m, page).used /\ r.panic = MapNew(m, page).panic
            /\ r.bits = [m.bits EXCEPT ![at[1]] = @ \cup Shift(at[2])] /\ r.end = page.va
  <2>1. PICK s : s = MapNew(m, page)
    OBVIOUS
  <2>2. InPlace(page)
    BY <1>5 DEF InPlace, Same
  <2>3. Tabled(s.dir, s.used, FALSE)
    <3>1. PICK c \in BOOLEAN : c = FALSE
      OBVIOUS
    <3>2. Tabled(m.dir, m.used, c) /\ AreasApart
      BY <1>7, <3>1 DEF LayoutFits
    <3>3. Tabled(s.dir, s.used, c)
      BY <1>7, <2>1, <2>2, <3>2, MapNewTables
    <3> QED BY <3>1, <3>3
  <2>4. Fits(m.used, page)
    <3> SUFFICES ASSUME NEW i \in DOMAIN m.used
                 PROVE  /\ PdPlace(m.used[i]) # PdPlace(page)
                        /\ PdtPlace(m.used[i]) = PdtPlace(page) => m.used[i].pd = page.pd
      BY DEF Fits
    <3>1. InPlace(m.used[i])
      BY <1>7 DEF Tabled
    <3>2. ASSUME PdPlace(m.used[i]) = PdPlace(page) PROVE FALSE
      <4>1. m.used[i].pd = page.pd /\ pt_index(m.used[i].va) = pt_index(page.va)
        BY <3>2 DEF PdPlace
      <4>2. PICK y \in Heap : Same(m.used[i], HeapPage(y))
        BY <1>5, <3>1, <4>1, HeapEntry
      <4>3. PdPlace(HeapPage(y)) = PdPlace(HeapPage(x))
        BY <1>5, <4>1, <4>2 DEF Same, PdPlace
      <4>4. y = x
        BY <1>4, <4>3, HeapPdPlace
      <4>5. m.used[i].va = USER_HEAP_START - x
        BY <1>5, <4>2, <4>4 DEF Same
      <4>6. Bit(x)[2] \notin before[Bit(x)[1]]
        BY <1>3 DEF Unset
      <4>7. PICK j \in 1 .. k - 1 : places[j] = Bit(x)
        BY <1>4, <4>5, <4>6 DEF Round
      <4>8. j = k
        BY <1>1, <1>2, <1>3, <1>9, <4>7 DEF Once
      <4> QED BY <1>9, <4>8
    <3>3. ASSUME PdtPlace(m.used[i]) = PdtPlace(page) PROVE m.used[i].pd = page.pd
      <4>1. m.used[i].pdt = 3 /\ pdt_index(m.used[i].va) = pdt_index(page.va)
        BY <1>5, <3>3 DEF PdtPlace
      <4>2. PICK y \in Heap : Same(m.used[i], HeapPage(y))
        BY <3>1, <4>1, HeapEntry
      <4>3. HeapPage(y).va = USER_HEAP_START - y /\ HeapPage(y).pd = 2 + y \div TableSize
        BY HeapPageFields
      <4>4. pdt_index(USER_HEAP_START - y) = pdt_index(USER_HEAP_START - x)
        BY <1>5, <4>1, <4>2, <4>3 DEF Same
      <4>5. y \div TableSize = x \div TableSize
        BY <1>4, <4>4, HeapPdtIndex
      <4> QED BY <1>5, <4>2, <4>3, <4>5 DEF Same
    <3> QED BY <3>2, <3>3
  <2>5. /\ Covers(s.dir, s.used) /\ s.panic = "none"
        /\ s.used = m.used \/ \E e \in Used : Same(e, page) /\ s.used = <<e>> \o m.used
    <3>1. m.panic \notin Clash
      BY <1>12 DEF Clash
    <3>2. /\ Covers(s.dir, s.used)
          /\ \/ s.used = m.used /\ DOMAIN s = DOMAIN m
             \/ \E e \in Used : Same(e, page) /\ page.load /\ s.used = <<e>> \o m.used
          /\ m.panic \notin Clash /\ (page.load => Fits(m.used, page)) =>
                /\ s.panic \notin Clash
                /\ m.panic = "none" /\ FreeFrames(m) # {} => s.panic = "none"
      BY <1>7, <2>1, MapNewCovers, Zenon
    <3> QED BY <1>12, <2>4, <3>1, <3>2
  <2>6. ASSUME NEW i \in DOMAIN s.used
        PROVE  s.used[i].va = USER_HEAP_START - x \/ \E h \in DOMAIN m.used : s.used[i] = m.used[h]
    <3>1. CASE s.used = m.used
      BY <3>1
    <3>2. CASE \E e \in Used : Same(e, page) /\ s.used = <<e>> \o m.used
      <4>1. PICK e \in Used : Same(e, page) /\ s.used = <<e>> \o m.used
        BY <3>2
      <4>2. m.used \in Seq(Used)
        BY <1>7 DEF Tabled
      <4>3. i = 1 \/ (i - 1 \in DOMAIN m.used /\ s.used[i] = m.used[i - 1])
        BY <4>1, <4>2, PrependIs
      <4>4. i = 1 => s.used[i] = e
        BY <4>1, <4>2, PrependIs
      <4>5. e.va = USER_HEAP_START - x
        BY <1>5, <4>1 DEF Same
      <4> QED BY <4>3, <4>4, <4>5
    <3> QED BY <2>5, <3>1, <3>2
  <2>7. m.bits \in Bitmap /\ HeapBits(m.used, m.bits)
    BY DEF Round
  <2>8. at[1] \in 0 .. Words - 1 /\ at[2] \in 0 .. Word - 1
    BY <1>3, <1>4, BitInMap
  <2>9. /\ r.bits \in Bitmap /\ r.bits[at[1]] = m.bits[at[1]] \cup Shift(at[2])
        /\ \A w \in 0 .. Words - 1 : m.bits[w] \subseteq r.bits[w]
    <3>1. PICK S : S = Shift(at[2])
      OBVIOUS
    <3>2. S \subseteq 0 .. Word - 1
      BY <2>8, <3>1, ShiftIs
    <3>3. PICK bits \in Bitmap : bits = m.bits
      BY <2>7
    <3>4. r.bits = [bits EXCEPT ![at[1]] = @ \cup S]
      BY <1>12, <3>1, <3>3
    <3>5. /\ r.bits \in Bitmap /\ r.bits[at[1]] = bits[at[1]] \cup S
          /\ \A w \in 0 .. Words - 1 : bits[w] \subseteq r.bits[w]
      BY <2>8, <3>2, <3>4 DEF Bitmap
    <3> QED BY <3>1, <3>3, <3>5
  <2>10. at[2] \in r.bits[at[1]]
    <3>1. IntBits \in Nat \ {0} /\ Word \in Nat
      BY HeapNumbers
    <3>2. CASE at[2] <= IntBits - 1
      <4>1. at[2] % IntBits = at[2]
        <5>1. PICK t \in Nat \ {0} : t = IntBits
          BY <3>1
        <5>2. PICK b \in Int : b = at[2] /\ 0 <= b /\ b < t
          BY <2>8, <3>1, <3>2, <5>1
        <5>4. b % t = b
          BY <5>2, ModSmall
        <5> QED BY <5>1, <5>2, <5>4
      <4>2. at[2] \in Shift(at[2])
        <5>1. PICK b \in 0 .. Word - 1 : b = at[2] /\ b % IntBits = b
          BY <2>8, <4>1
        <5>2. b \in IF b = IntBits - 1 THEN IntBits - 1 .. Word - 1 ELSE {b}
          BY <3>1
        <5>3. b \in Shift(b)
          BY <5>1, <5>2 DEF Shift
        <5> QED BY <5>1, <5>3
      <4> QED BY <2>9, <4>2
    <3>3. CASE at[2] > IntBits - 1
      <4>1. PICK j \in DOMAIN places : j < k /\ places[j] = <<at[1], IntBits - 1>>
        BY <1>1, <1>2, <3>3 DEF SignFirst
      <4>2. j \in 1 .. k - 1 /\ places[j][1] = at[1] /\ places[j][2] = IntBits - 1
        BY <1>2, <4>1
      <4>3. Shift(IntBits - 1) \subseteq m.bits[at[1]]
        BY <1>12, <4>2 DEF Round
      <4>4. (IntBits - 1) % IntBits = IntBits - 1
        BY <3>1
      <4>5. Shift(IntBits - 1) = IntBits - 1 .. Word - 1
        BY <4>4 DEF Shift
      <4>6. at[2] \in Shift(IntBits - 1)
        BY <2>8, <3>1, <3>3, <4>5
      <4> QED BY <2>9, <4>3, <4>6
    <3> QED BY <2>8, <3>1, <3>2, <3>3
  <2>11. ASSUME NEW i \in DOMAIN s.used, NEW y \in Heap, s.used[i].va = USER_HEAP_START - y
         PROVE  /\ Bit(y)[2] \in r.bits[Bit(y)[1]]
                /\ Bit(y)[2] \in before[Bit(y)[1]] \/ \E j \in 1 .. k : places[j] = Bit(y)
    <3>1. CASE s.used[i].va = USER_HEAP_START - x
      <4>1. y = x
        BY <1>4, <2>11, <3>1, HeapNumbers
      <4>2. k \in 1 .. k
        BY <1>2
      <4> QED BY <1>1, <1>3, <2>10, <4>1, <4>2
    <3>2. CASE \E h \in DOMAIN m.used : s.used[i] = m.used[h]
      <4>1. PICK h \in DOMAIN m.used : s.used[i] = m.used[h]
        BY <3>2
      <4>2. m.used[h].va = USER_HEAP_START - y
        BY <2>11, <4>1
      <4>3. Bit(y)[2] \in m.bits[Bit(y)[1]]
        BY <2>7, <4>2 DEF HeapBits, Heap
      <4>4. Bit(y)[1] \in 0 .. Words - 1
        BY BitInMap
      <4>5. Bit(y)[2] \in before[Bit(y)[1]] \/ \E j \in 1 .. k - 1 : places[j] = Bit(y)
        BY <4>2 DEF Round
      <4> QED BY <1>9, <2>9, <4>3, <4>4, <4>5
    <3> QED BY <2>6, <3>1, <3>2
  <2>12. ASSUME NEW j \in 1 .. k PROVE Shift(places[j][2]) \subseteq r.bits[places[j][1]]
    <3>1. CASE j = k
      BY <1>1, <2>9, <3>1
    <3>2. CASE j # k
      <4>1. j \in 1 .. k - 1
        BY <1>2, <3>2
      <4>2. Shift(places[j][2]) \subseteq m.bits[places[j][1]]
        BY <1>12, <4>1 DEF Round
      <4>3. PICK y \in l .. l + n - 1 : places[j] = Bit(y)
        BY <1>9, <4>1 DEF InRun
      <4>4. y \in Heap
        BY <4>3, HeapNumbers DEF Heap
      <4>5. places[j][1] \in 0 .. Words - 1
        BY <4>3, <4>4, BitInMap
      <4> QED BY <2>9, <4>2, <4>5
    <3> QED BY <3>1, <3>2
  <2>13. r.dir = s.dir /\ r.used = s.used /\ r.panic = s.panic
    BY <1>12, <2>1
  <2>14. HeapBits(r.used, r.bits)
    BY <2>11, <2>13 DEF HeapBits, Heap
  <2>15. \A i \in DOMAIN r.used : \A y \in Heap : r.used[i].va = USER_HEAP_START - y =>
            Bit(y)[2] \in before[Bit(y)[1]] \/ \E j \in 1 .. k : places[j] = Bit(y)
    BY <2>11, <2>13
  <2>16. Tabled(r.dir, r.used, FALSE) /\ Covers(r.dir, r.used) /\ r.panic = "none"
    BY <2>3, <2>5, <2>13
  <2>17. Round(r, before, places, k)
    BY <1>8, <2>9, <2>12, <2>14, <2>15, <2>16 DEF Round
  <2> QED BY <1>1, <1>6, <2>17
<1> QED BY <1>8, <1>10, <1>11, <1>12 DEF Stepped

LEMMA RoundsAll ==
    ASSUME LayoutFits, NEW before, NEW places \in Seq(Place), NEW n \in Nat, NEW l \in 0 .. Word * Words - n,
           Unset(before, l, n), InRun(places, l, n), Once(places), SignFirst(places),
           NEW m, Round(m, before, places, 0)
    PROVE  Round(SbrkAll(m, places), before, places, Len(places))
<1>1. Len(places) \in Nat
  OBVIOUS
<1>2. PICK g : Taken(g, m, places, Len(places)) /\ SbrkAll(m, places) = g[Len(places)]
  BY <1>1, SbrkRoundsResult
<1> DEFINE S == {k \in 0 .. Len(places) : Round(g[k], before, places, k)}
<1>3. 0 \in S
  <2>1. g[0] = m
    BY <1>1, <1>2 DEF Taken
  <2> QED BY <1>1, <2>1
<1>4. ASSUME NEW k \in 1 .. Len(places), k - 1 \in S PROVE k \in S
  <2>1. k \in 0 .. Len(places) /\ k # 0
    BY <1>1
  <2>2. g[k] = SbrkStep(g[k - 1], places[k])
    BY <1>2, <2>1 DEF Taken
  <2>3. PICK r : r = g[k - 1]
    OBVIOUS
  <2>4. Round(r, before, places, k - 1)
    BY <1>4, <2>3
  <2>5. Round(g[k], before, places, k)
    BY <2>2, <2>3, <2>4, RoundNext
  <2> QED BY <2>1, <2>5
<1>5. Len(places) \in S
  <2> HIDE DEF S
  <2> QED BY <1>1, <1>3, <1>4, Count
<1> QED BY <1>2, <1>5

-----------------------------------------------------------------------------
(* The invariant *)

(* Pages of the stack and of a program: no clash, and none of the heap. *)
Area(s) == Compatible(s) /\ \A i \in DOMAIN s : InPlace(s[i]) /\ s[i].pdt \in {1, 500}
NoTableOf(s, t) == \A i \in DOMAIN s, j \in DOMAIN t : s[i].pd # t[j].pd /\ s[i].pdt # t[j].pdt

LEMMA AreasCover ==
    ASSUME LayoutFits, NEW s \in Seq(Page), NEW t \in Seq(Page), Area(s), Area(t), NoTableOf(s, t),
           NEW pages, pages = s \o t,
           NEW h, NEW va, NEW m, m = CheckRip(MapAll(Fresh(h), pages), va), NEW bits
    PROVE  Covers(m.dir, m.used) /\ HeapBits(m.used, bits) /\ m.panic \notin Clash
<1>1. /\ Compatible(s) /\ \A i \in DOMAIN s : InPlace(s[i]) /\ s[i].pdt \in {1, 500}
      /\ Compatible(t) /\ \A i \in DOMAIN t : InPlace(t[i]) /\ t[i].pdt \in {1, 500}
      /\ \A i \in DOMAIN s, j \in DOMAIN t : s[i].pd # t[j].pd /\ s[i].pdt # t[j].pdt
  BY DEF Area, NoTableOf
<1>2. pages \in Seq(Page)
  BY ConcatProperties
<1>3. \A i \in DOMAIN pages : InPlace(pages[i])
  BY <1>1, BothInPlace
<1>4. Compatible(pages)
  BY <1>1, BothCompatible
<1>5. ASSUME NEW j \in DOMAIN pages PROVE pages[j].pdt \in {1, 500}
  <2>1. Len(s) \in Nat /\ Len(t) \in Nat /\ DOMAIN s = 1 .. Len(s) /\ DOMAIN t = 1 .. Len(t)
    OBVIOUS
  <2>2. /\ Len(pages) = Len(s) + Len(t)
        /\ \A i \in 1 .. Len(s) + Len(t) : pages[i] = IF i <= Len(s) THEN s[i] ELSE t[i - Len(s)]
    BY ConcatProperties
  <2>3. j \in 1 .. Len(s) + Len(t)
    BY <1>2, <2>2
  <2>4. CASE j <= Len(s)
    <3>1. j \in DOMAIN s /\ pages[j] = s[j]
      BY <2>1, <2>2, <2>3, <2>4
    <3> QED BY <1>1, <3>1
  <2>5. CASE ~ (j <= Len(s))
    <3>1. j - Len(s) \in DOMAIN t /\ pages[j] = t[j - Len(s)]
      BY <2>1, <2>2, <2>3, <2>5
    <3> QED BY <1>1, <3>1
  <2> QED BY <2>4, <2>5
<1>6. AreasApart
  BY DEF LayoutFits
<1>7. /\ Covers(m.dir, m.used)
      /\ \A i \in DOMAIN m.used : \E j \in DOMAIN pages : pages[j].load /\ Same(m.used[i], pages[j])
      /\ Compatible(pages) => m.panic \notin Clash
  <2>1. PICK v \in Seq(Page) : v = pages
    BY <1>2
  <2>2. \A i \in DOMAIN v : InPlace(v[i])
    BY <1>3, <2>1
  <2>3. m = CheckRip(MapAll(Fresh(h), v), va)
    BY <2>1
  <2>4. /\ Covers(m.dir, m.used)
        /\ \A i \in DOMAIN m.used : \E j \in DOMAIN v : v[j].load /\ Same(m.used[i], v[j])
        /\ Compatible(v) => m.panic \notin Clash
    BY <1>6, <2>2, <2>3, FreshCovers
  <2> QED BY <2>1, <2>4
<1>8. ASSUME NEW i \in DOMAIN m.used, NEW l \in Heap PROVE m.used[i].va # USER_HEAP_START - l
  <2>1. PICK j \in DOMAIN pages : Same(m.used[i], pages[j])
    BY <1>7
  <2>2. PICK x \in Mappable : Same(pages[j], x)
    BY <1>3 DEF InPlace
  <2>3. HeapPage(l) \in Mappable /\ HeapPage(l).va = USER_HEAP_START - l /\ HeapPage(l).pdt = 3
    BY HeapPageFields
  <2>4. x.pdt # 3
    <3>1. pages[j].pdt \in {1, 500}
      BY <1>5
    <3>2. x.pdt = pages[j].pdt
      BY <2>2 DEF Same
    <3> QED BY <3>1, <3>2
  <2>5. x.va # HeapPage(l).va
    BY <1>6, <2>3, <2>4 DEF AreasApart
  <2> QED BY <2>1, <2>2, <2>3, <2>5 DEF Same
<1>9. HeapBits(m.used, bits)
  BY <1>8 DEF HeapBits, Heap
<1> QED BY <1>4, <1>7, <1>9

LEMMA ProgramCovers ==
    ASSUME LayoutFits, NEW image \in Images, NEW pages, pages = Stack \o Segments(image) \/ pages = Segments(image) \o Stack,
           NEW h, NEW va, NEW m, m = CheckRip(MapAll(Fresh(h), pages), va), NEW bits
    PROVE  Covers(m.dir, m.used) /\ HeapBits(m.used, bits) /\ m.panic \notin Clash
<1>1. PICK s \in Seq(Page) : s = Stack
  BY StackIs
<1>2. PICK t \in Seq(Page) : t = Segments(image)
  BY SegmentsIs
<1>3. Compatible(s) /\ \A i \in DOMAIN s : InPlace(s[i]) /\ s[i].pdt = 500 /\ s[i].pd = 500
  BY <1>1, StackCompatible, StackInPlace, StackPage
<1>4. Compatible(t) /\ \A i \in DOMAIN t : InPlace(t[i]) /\ t[i].pdt = 1 /\ t[i].pd = 0
  BY <1>2, SegmentsCompatible, SegmentsInPlace, SegmentPage
<1>7. Area(s) /\ Area(t)
  BY <1>3, <1>4 DEF Area
<1>8. NoTableOf(s, t) /\ NoTableOf(t, s)
  BY <1>3, <1>4 DEF NoTableOf
<1>5. CASE pages = s \o t
  BY <1>5, <1>7, <1>8, AreasCover
<1>6. CASE pages = t \o s
  BY <1>6, <1>7, <1>8, AreasCover
<1> QED BY <1>1, <1>2, <1>5, <1>6

LEMMA InitBits == LayoutFits /\ Init => BitsInv
<1> SUFFICES ASSUME LayoutFits, Init PROVE BitsInv
  OBVIOUS
<1>1. PICK image \in Images :
        LET m == CheckRip(MapAll(Fresh({}), Segments(image) \o Stack), Entry(image))
        IN /\ state = [p \in Procs |-> IF p = 0 THEN "INUSE" ELSE "FREE"]
           /\ pgdir = [p \in Procs |-> IF p = 0 THEN m.dir ELSE EmptyDir]
           /\ used_pages = [p \in Procs |-> IF p = 0 THEN m.used ELSE <<>>]
           /\ panic = m.panic
  BY Zenon DEF Init
<1>2. PICK m : m = CheckRip(MapAll(Fresh({}), Segments(image) \o Stack), Entry(image))
  OBVIOUS
<1>3. PICK bits : bits = user_heap_bitmap[0]
  OBVIOUS
<1>4. Covers(m.dir, m.used) /\ HeapBits(m.used, bits) /\ m.panic \notin Clash
  <2>1. PICK pages : pages = Segments(image) \o Stack
    OBVIOUS
  <2> QED BY <1>2, <2>1, ProgramCovers
<1>5. /\ state = [p \in Procs |-> IF p = 0 THEN "INUSE" ELSE "FREE"]
      /\ pgdir = [p \in Procs |-> IF p = 0 THEN m.dir ELSE EmptyDir]
      /\ used_pages = [p \in Procs |-> IF p = 0 THEN m.used ELSE <<>>]
      /\ panic = m.panic
  BY <1>1, <1>2
<1>6. \A p \in Live : p \in Procs /\ p = 0
  BY <1>5 DEF Live
<1>7. BitsSet
  <2>1. ASSUME NEW p \in Live PROVE pgdir[p] = m.dir /\ used_pages[p] = m.used /\ user_heap_bitmap[p] = bits
    BY <1>3, <1>5, <1>6
  <2> QED BY <1>4, <2>1 DEF BitsSet
<1>8. NoClash
  BY <1>4, <1>5 DEF NoClash, Clash
<1>9. BitTypes
  <2>1. /\ user_heap_bitmap = [p \in Procs |-> [i \in 0 .. Words - 1 |-> {}]]
        /\ heap_allocations = [p \in Procs |-> <<>>]
        /\ inherited = [p \in Procs |-> FALSE]
    BY DEF Init
  <2>2. user_heap_bitmap \in [Procs -> Bitmap]
    BY <2>1 DEF Bitmap
  <2>3. heap_allocations \in [Procs -> Seq(Alloc)]
    <3>1. <<>> \in Seq(Alloc)
      OBVIOUS
    <3> QED BY <2>1, <3>1
  <2>4. inherited \in [Procs -> BOOLEAN]
    BY <2>1
  <2>5. \A p \in Procs : Shaped(user_heap_bitmap[p])
    BY <2>1 DEF Shaped
  <2> QED BY <2>2, <2>3, <2>4, <2>5 DEF BitTypes
<1> QED BY <1>7, <1>8, <1>9 DEF BitsInv

(* A call that leaves p with tables d, list u and bits b. *)
LEMMA Rebitted ==
    ASSUME MemInv, TablesInv, BitsInv, NEW p \in Procs, NEW d, NEW u, NEW b, NEW f \in BOOLEAN, NEW h \in BOOLEAN,
           Live' \subseteq Live \cup {p},
           pgdir' = [pgdir EXCEPT ![p] = d],
           used_pages' = [used_pages EXCEPT ![p] = u],
           user_heap_bitmap' = [user_heap_bitmap EXCEPT ![p] = b],
           freed' = [freed EXCEPT ![p] = f], inherited' = [inherited EXCEPT ![p] = h],
           ~ f /\ ~ h => Covers(d, u) /\ HeapBits(u, b)
    PROVE  BitsSet'
<1>1. /\ used_pages \in [Procs -> Seq(Used)] /\ freed \in [Procs -> BOOLEAN] /\ inherited \in [Procs -> BOOLEAN]
      /\ pgdir = [q \in Procs |-> pgdir[q]] /\ Live \subseteq Procs /\ user_heap_bitmap \in [Procs -> Bitmap]
  BY DEF Live, MemInv, MemoryTypes, TablesInv, BitsInv, BitTypes
<1>2. /\ pgdir'[p] = d /\ used_pages'[p] = u /\ user_heap_bitmap'[p] = b
      /\ freed'[p] = f /\ inherited'[p] = h
  BY <1>1
<1>3. \A q \in Procs : q # p =>
        /\ pgdir'[q] = pgdir[q] /\ used_pages'[q] = used_pages[q] /\ user_heap_bitmap'[q] = user_heap_bitmap[q]
        /\ freed'[q] = freed[q] /\ inherited'[q] = inherited[q]
  BY <1>1
<1>4. ASSUME NEW q \in Live', ~ freed'[q], ~ inherited'[q]
      PROVE  Covers(pgdir'[q], used_pages'[q]) /\ HeapBits(used_pages'[q], user_heap_bitmap'[q])
  <2>1. CASE q = p
    BY <1>2, <1>4, <2>1
  <2>2. CASE q # p
    <3>1. q \in Live /\ q \in Procs
      BY <1>1, <1>4, <2>2
    <3>2. ~ freed[q] /\ ~ inherited[q]
      BY <1>3, <1>4, <2>2, <3>1
    <3>3. Covers(pgdir[q], used_pages[q]) /\ HeapBits(used_pages[q], user_heap_bitmap[q])
      BY <3>1, <3>2 DEF BitsInv, BitsSet, Untouched
    <3> QED BY <1>3, <2>2, <3>1, <3>3
  <2> QED BY <2>1, <2>2
<1> QED BY <1>4 DEF BitsSet, Untouched

LEMMA ForkBits ==
    ASSUME LayoutFits, MemInv, TablesInv, BitsInv, panic = "none", NEW p \in Procs, Fork(p) PROVE BitsInv'
<1>1. PICK unused : unused = {q \in Procs : state[q] = "FREE"}
  OBVIOUS
<1>2. PICK q : q = Min(unused)
  OBVIOUS
<1>3. PICK m : m = CheckRip(MapAll(Fresh(held), Copy(used_pages[p])), rip[p])
  OBVIOUS
<1>4. PICK h \in BOOLEAN : h = (Vas(used_pages[p]) \cap HeapPages # {})
  OBVIOUS
<1>5. /\ state[p] = "INUSE" /\ unused # {}
      /\ state' = [state EXCEPT ![q] = "INUSE"]
      /\ pgdir' = [pgdir EXCEPT ![q] = m.dir]
      /\ used_pages' = [used_pages EXCEPT ![q] = m.used]
      /\ panic' = IF \A va \in Vas(used_pages[p]) : CopyAllowed(pgdir[p], va, va) THEN m.panic ELSE "fetch"
      /\ inherited' = [inherited EXCEPT ![q] = h]
      /\ user_heap_bitmap' = user_heap_bitmap /\ heap_allocations' = heap_allocations /\ freed' = freed
  BY <1>1, <1>2, <1>3, <1>4 DEF Fork
<1>6. q \in Procs /\ state[q] = "FREE"
  <2>1. unused \in SUBSET Nat
    BY <1>1, ProcsAssumption DEF Procs
  <2> QED BY <1>1, <1>2, <1>5, <2>1, MinIn
<1>7. /\ freed \in [Procs -> BOOLEAN] /\ inherited \in [Procs -> BOOLEAN]
      /\ user_heap_bitmap \in [Procs -> Bitmap] /\ state \in [Procs -> {"FREE", "INUSE", "EXITED"}]
  BY DEF MemInv, MemoryTypes, TablesInv, BitsInv, BitTypes
<1>8. p # q /\ p \in Live /\ p \in Live' /\ Live' \subseteq Live \cup {q}
  BY <1>5, <1>6, <1>7 DEF Live
<1>9. PICK list : list = used_pages[p]
  OBVIOUS
<1>10. list \in Seq(Used) /\ \A i \in DOMAIN list : InPlace(list[i])
  BY <1>8, <1>9 DEF TablesInv, Tabled
<1>11. PICK pages \in Seq(Page) : pages = Copy(list) /\ \A i \in DOMAIN pages : InPlace(pages[i])
  BY <1>10, CopyIs, CopyInPlace
<1>12. /\ Covers(m.dir, m.used)
       /\ \A i \in DOMAIN m.used : \E j \in DOMAIN pages : pages[j].load /\ Same(m.used[i], pages[j])
       /\ Compatible(pages) => m.panic \notin Clash
  <2>1. AreasApart
    BY DEF LayoutFits
  <2>2. PICK k : k = held
    OBVIOUS
  <2>3. PICK va : va = rip[p]
    OBVIOUS
  <2>4. m = CheckRip(MapAll(Fresh(k), pages), va)
    BY <1>3, <1>9, <1>11, <2>2, <2>3
  <2> QED BY <1>11, <2>1, <2>4, FreshCovers
<1>13. PICK bits : bits = user_heap_bitmap[q]
  OBVIOUS
<1>14. ~ h => HeapBits(m.used, bits)
  <2> SUFFICES ASSUME ~ h, NEW i \in DOMAIN m.used, NEW l \in 0 .. Word * Words - 1, m.used[i].va = USER_HEAP_START - l
               PROVE  FALSE
    BY DEF HeapBits
  <2>1. PICK j \in DOMAIN pages : Same(m.used[i], pages[j])
    BY <1>12
  <2>2. j \in DOMAIN list /\ pages[j].va = list[j].va
    BY <1>11 DEF Copy
  <2>3. list[j].va \in Vas(list)
    BY <2>2 DEF Vas
  <2>4. list[j].va \in HeapPages
    BY <2>1, <2>2 DEF Same, HeapPages
  <2> QED BY <1>4, <1>9, <2>3, <2>4
<1>15. PICK f \in BOOLEAN : f = freed[q]
  BY <1>6, <1>7
<1>16. BitsSet'
  <2>1. freed' = [freed EXCEPT ![q] = f] /\ user_heap_bitmap' = [user_heap_bitmap EXCEPT ![q] = bits]
    BY <1>5, <1>7, <1>13, <1>15
  <2>2. ~ f /\ ~ h => Covers(m.dir, m.used) /\ HeapBits(m.used, bits)
    BY <1>12, <1>14
  <2>3. PICK d, u : d = m.dir /\ u = m.used
    OBVIOUS
  <2>4. /\ pgdir' = [pgdir EXCEPT ![q] = d] /\ used_pages' = [used_pages EXCEPT ![q] = u]
        /\ inherited' = [inherited EXCEPT ![q] = h]
        /\ ~ f /\ ~ h => Covers(d, u) /\ HeapBits(u, bits)
    BY <1>5, <2>2, <2>3
  <2> QED BY <1>6, <1>8, <2>1, <2>4, Rebitted
<1>17. NoClash'
  <2> SUFFICES ASSUME panic' \in Clash PROVE \E r \in Live' : freed'[r] \/ inherited'[r]
    BY DEF NoClash, Clash, Untouched
  <2>1. m.panic \in Clash
    BY <1>5 DEF Clash
  <2>2. freed'[p] = freed[p] /\ inherited'[p] = inherited[p]
    BY <1>5, <1>7, <1>8
  <2>3. CASE ~ freed[p] /\ ~ inherited[p]
    <3>1. PICK dir : dir = pgdir[p]
      OBVIOUS
    <3>2. Covers(dir, list)
      BY <1>8, <1>9, <2>3, <3>1 DEF BitsInv, BitsSet, Untouched
    <3>3. Tabled(dir, list, FALSE)
      BY <1>8, <1>9, <3>1 DEF TablesInv, Tabled
    <3>4. Compatible(pages)
      BY <1>11, <3>2, <3>3, CopyCompatible
    <3> QED BY <1>12, <2>1, <3>4
  <2>4. CASE freed[p] \/ inherited[p]
    BY <1>8, <2>2, <2>4
  <2> QED BY <2>3, <2>4
<1>18. BitTypes'
  BY <1>5, <1>7 DEF BitsInv, BitTypes
<1> QED BY <1>16, <1>17, <1>18 DEF BitsInv

LEMMA AllocationsIs == ASSUME BitsInv, NEW p \in Procs PROVE AllocationsAfterFree(p) \in Seq(Alloc)
<1>1. heap_allocations[p] \in Seq(Alloc) /\ <<>> \in Seq(Alloc)
  BY DEF BitsInv, BitTypes
<1> QED BY <1>1 DEF AllocationsAfterFree

LEMMA ExecBits ==
    ASSUME LayoutFits, MemInv, TablesInv, BitsInv, NEW p \in Procs, NEW image \in Images, Exec(p, image) PROVE BitsInv'
<1>1. PICK h : h = AfterFree(p)
  OBVIOUS
<1>2. PICK m : m = CheckRip(MapAll(Fresh(h), Stack \o Segments(image)), Entry(image))
  OBVIOUS
<1>3. PICK list \in Seq(Alloc) : list = AllocationsAfterFree(p)
  BY AllocationsIs
<1>4. /\ state' = state /\ panic' = m.panic
      /\ pgdir' = [pgdir EXCEPT ![p] = m.dir]
      /\ used_pages' = [used_pages EXCEPT ![p] = m.used]
      /\ heap_allocations' = [heap_allocations EXCEPT ![p] = list]
      /\ freed' = [freed EXCEPT ![p] = FALSE] /\ inherited' = [inherited EXCEPT ![p] = FALSE]
      /\ user_heap_bitmap' = user_heap_bitmap
  BY <1>1, <1>2, <1>3 DEF Exec
<1>5. PICK bits : bits = user_heap_bitmap[p]
  OBVIOUS
<1>6. Covers(m.dir, m.used) /\ HeapBits(m.used, bits) /\ m.panic \notin Clash
  <2>1. PICK pages : pages = Stack \o Segments(image)
    OBVIOUS
  <2>2. PICK va : va = Entry(image)
    OBVIOUS
  <2>3. m = CheckRip(MapAll(Fresh(h), pages), va)
    BY <1>2, <2>1, <2>2
  <2> QED BY <2>1, <2>3, ProgramCovers
<1>7. BitTypes
  BY DEF BitsInv
<1>8. BitsSet'
  <2>1. Live' \subseteq Live \cup {p}
    BY <1>4 DEF Live
  <2>2. user_heap_bitmap' = [user_heap_bitmap EXCEPT ![p] = bits]
    BY <1>4, <1>5, <1>7 DEF BitTypes
  <2>3. PICK d, u : d = m.dir /\ u = m.used
    OBVIOUS
  <2>4. PICK f \in BOOLEAN : f = FALSE
    OBVIOUS
  <2>5. /\ pgdir' = [pgdir EXCEPT ![p] = d] /\ used_pages' = [used_pages EXCEPT ![p] = u]
        /\ freed' = [freed EXCEPT ![p] = f] /\ inherited' = [inherited EXCEPT ![p] = f]
        /\ ~ f /\ ~ f => Covers(d, u) /\ HeapBits(u, bits)
    BY <1>4, <1>6, <2>3, <2>4
  <2> QED BY <2>1, <2>2, <2>5, Rebitted
<1>9. NoClash'
  BY <1>4, <1>6 DEF NoClash, Clash
<1>10. BitTypes'
  BY <1>4, <1>7 DEF BitTypes
<1> QED BY <1>8, <1>9, <1>10 DEF BitsInv

LEMMA ExitBits ==
    ASSUME MemInv, BitsInv, panic = "none", NEW p \in Procs, Exit(p) PROVE BitsInv'
<1>1. PICK list \in Seq(Alloc) : list = AllocationsAfterFree(p)
  BY AllocationsIs
<1>2. /\ state' = [state EXCEPT ![p] = "EXITED"] /\ pgdir' = pgdir /\ freed' = freed /\ panic' = panic
      /\ used_pages' = [used_pages EXCEPT ![p] = <<>>] /\ inherited' = inherited
      /\ heap_allocations' = [heap_allocations EXCEPT ![p] = list] /\ user_heap_bitmap' = user_heap_bitmap
  BY <1>1 DEF Exit
<1>3. \A q \in Live' : q \in Live /\ used_pages'[q] = used_pages[q]
  BY <1>2 DEF Live, MemInv, MemoryTypes
<1>4. BitsSet'
  BY <1>2, <1>3 DEF BitsInv, BitsSet, Untouched
<1>5. NoClash'
  BY <1>2 DEF NoClash
<1>6. BitTypes'
  BY <1>2 DEF BitsInv, BitTypes
<1> QED BY <1>4, <1>5, <1>6 DEF BitsInv

LEMMA SbrkBits ==
    ASSUME LayoutFits, MemInv, TablesInv, BitsInv, panic = "none", NEW p \in Procs, NEW n \in Sizes, sbrk(p, n)
    PROVE  BitsInv'
<1>1. PICK l : l = Min(FreeRuns(p, n))
  OBVIOUS
<1>2. PICK places : places = Loop(Bit(l), Bit(l + n - 1))
  OBVIOUS
<1>3. PICK before : before = user_heap_bitmap[p]
  OBVIOUS
<1>4. PICK k : k = [dir |-> pgdir[p], used |-> used_pages[p], held |-> held, panic |-> "none",
                    bits |-> before, end |-> None, failed |-> FALSE]
  OBVIOUS
<1>5. PICK m : m = SbrkAll(k, places)
  OBVIOUS
<1>6. PICK alloc : alloc = [from |-> Bit(l), to |-> Bit(l + n - 1), start |-> USER_HEAP_START - l, end |-> m.end]
  OBVIOUS
<1>7. /\ state[p] = "INUSE" /\ FreeRuns(p, n) # {} /\ state' = state
      /\ pgdir' = [pgdir EXCEPT ![p] = m.dir]
      /\ used_pages' = [used_pages EXCEPT ![p] = m.used]
      /\ user_heap_bitmap' = [user_heap_bitmap EXCEPT ![p] = m.bits]
      /\ heap_allocations' = IF m.failed THEN heap_allocations
                             ELSE [heap_allocations EXCEPT ![p] = <<alloc>> \o @]
      /\ panic' = m.panic /\ freed' = freed /\ inherited' = inherited
  BY <1>1, <1>2, <1>3, <1>4, <1>5, <1>6 DEF sbrk
<1>8. n \in Nat /\ Word * Words \in Nat /\ USER_HEAP_START \in Int
  BY HeapAssumption
<1>9. BitTypes /\ before \in Bitmap /\ Shaped(before)
  BY <1>3 DEF BitsInv, BitTypes
<1>10. l \in 0 .. Word * Words - n /\ IsFreeRun(p, l, n) /\ l % Word <= IntBits - 1
  BY <1>1, <1>3, <1>7, <1>8, <1>9, LowestRun
<1>11. l \in Nat /\ l + n - 1 \in Int
  BY <1>8, <1>10
<1>12. Bit(l) \in Place /\ Bit(l + n - 1) \in Place
  BY <1>11, BitIs
<1>13. places \in Seq(Place)
  BY <1>2, <1>12, LoopIs
<1>14. /\ IsSbrk(k) /\ k.used = used_pages[p] /\ k.dir = pgdir[p] /\ k.bits = before
       /\ k.panic = "none" /\ k.end \in Int /\ k.failed = FALSE
  BY <1>4 DEF IsSbrk, IsMem, None
<1>15. Kept(m)
  <2>1. Kept(k)
    BY <1>9, <1>14 DEF Kept
  <2> QED BY <1>5, <1>13, <2>1, SbrkAllKeeps
<1>16. m.bits \in Bitmap /\ Shaped(m.bits) /\ m.end \in Int
  BY <1>15 DEF Kept
<1>17. BitTypes'
  <2>1. user_heap_bitmap' \in [Procs -> Bitmap] /\ \A q \in Procs : Shaped(user_heap_bitmap'[q])
    BY <1>7, <1>9, <1>16 DEF BitTypes
  <2>2. alloc \in Alloc
    BY <1>6, <1>8, <1>11, <1>12, <1>16 DEF Alloc
  <2>3. <<alloc>> \o heap_allocations[p] \in Seq(Alloc)
    <3>1. heap_allocations[p] \in Seq(Alloc) /\ <<alloc>> \in Seq(Alloc)
      BY <1>9, <2>2 DEF BitTypes
    <3> QED BY <3>1, ConcatProperties
  <2>4. heap_allocations' \in [Procs -> Seq(Alloc)]
    BY <1>7, <1>9, <2>3 DEF BitTypes
  <2> QED BY <1>7, <1>9, <2>1, <2>4 DEF BitTypes
<1>18. p \in Live /\ Live' = Live
  BY <1>7 DEF Live
<1>19. Untouched(p) => Covers(m.dir, m.used) /\ HeapBits(m.used, m.bits) /\ m.panic = "none"
  <2> SUFFICES ASSUME Untouched(p) PROVE Covers(m.dir, m.used) /\ HeapBits(m.used, m.bits) /\ m.panic = "none"
    OBVIOUS
  <2>1. InRun(places, l, n) /\ Once(places) /\ SignFirst(places)
    BY <1>2, <1>8, <1>10, LoopOrder
  <2>2. Unset(before, l, n)
    BY <1>3, <1>10 DEF Unset, IsFreeRun
  <2>3. Tabled(k.dir, k.used, FALSE)
    BY <1>14, <1>18 DEF TablesInv, Tabled
  <2>4. Covers(k.dir, k.used) /\ HeapBits(k.used, k.bits)
    BY <1>3, <1>14, <1>18 DEF BitsInv, BitsSet
  <2>5. \A i \in DOMAIN k.used : \A x \in Heap : k.used[i].va = USER_HEAP_START - x =>
          Bit(x)[2] \in before[Bit(x)[1]]
    BY <1>14, <2>4 DEF HeapBits, Heap
  <2>6. Round(k, before, places, 0)
    <3>1. IsSbrk(k) /\ k.panic = "none" /\ k.bits \in Bitmap
      BY <1>9, <1>14
    <3>2. \A i \in DOMAIN k.used : \A x \in Heap : k.used[i].va = USER_HEAP_START - x =>
            Bit(x)[2] \in before[Bit(x)[1]] \/ \E j \in 1 .. 0 : places[j] = Bit(x)
      BY <2>5
    <3>3. ~ k.failed => \A j \in 1 .. 0 : Shift(places[j][2]) \subseteq k.bits[places[j][1]]
      OBVIOUS
    <3> QED BY <2>3, <2>4, <3>1, <3>2, <3>3, Zenon DEF Round
  <2>7. PICK N \in Nat : N = n
    BY <1>8
  <2>8. l \in 0 .. Word * Words - N /\ InRun(places, l, N) /\ Unset(before, l, N)
    BY <1>10, <2>1, <2>2, <2>7
  <2>9. Round(m, before, places, Len(places))
    BY <1>5, <1>13, <2>1, <2>6, <2>8, RoundsAll
  <2> QED BY <2>9 DEF Round
<1>20. PICK f \in BOOLEAN : f = freed[p]
  BY DEF TablesInv
<1>21. PICK h \in BOOLEAN : h = inherited[p]
  BY <1>9 DEF BitTypes
<1>22. BitsSet'
  <2>1. freed' = [freed EXCEPT ![p] = f] /\ inherited' = [inherited EXCEPT ![p] = h]
    BY <1>7, <1>9, <1>20, <1>21 DEF BitTypes, TablesInv
  <2>2. PICK d : d = m.dir
    OBVIOUS
  <2>3. PICK u : u = m.used
    OBVIOUS
  <2>4. PICK b : b = m.bits
    OBVIOUS
  <2>5. /\ pgdir' = [pgdir EXCEPT ![p] = d] /\ used_pages' = [used_pages EXCEPT ![p] = u]
        /\ user_heap_bitmap' = [user_heap_bitmap EXCEPT ![p] = b]
        /\ ~ f /\ ~ h => Covers(d, u) /\ HeapBits(u, b)
    BY <1>7, <1>19, <1>20, <1>21, <2>2, <2>3, <2>4 DEF Untouched
  <2>6. Live' \subseteq Live \cup {p}
    BY <1>18
  <2> QED BY <2>1, <2>5, <2>6, Rebitted
<1>23. NoClash'
  BY <1>7, <1>18, <1>19 DEF NoClash, Untouched
<1> QED BY <1>17, <1>22, <1>23 DEF BitsInv

LEMMA FreeBits ==
    ASSUME MemInv, TablesInv, BitsInv, panic = "none", NEW p \in Procs, NEW address, free(p, address) PROVE BitsInv'
<1>1. PICK allocs : allocs = heap_allocations[p]
  OBVIOUS
<1>2. PICK found : found = {i \in DOMAIN allocs : allocs[i].start <= address /\ address <= allocs[i].end}
  OBVIOUS
<1>3. PICK first : first = Min(found)
  OBVIOUS
<1>4. PICK places : places = Loop(allocs[first].from, allocs[first].to)
  OBVIOUS
<1>5. /\ state' = state /\ pgdir' = pgdir /\ panic' = panic /\ inherited' = inherited
      /\ state[p] = "INUSE"
  BY DEF free
<1>6. /\ found = {} => /\ heap_allocations' = heap_allocations /\ user_heap_bitmap' = user_heap_bitmap
                       /\ freed' = freed /\ used_pages' = used_pages
      /\ found # {} => /\ heap_allocations' = [heap_allocations EXCEPT ![p] = Suffix(allocs, first)]
                       /\ user_heap_bitmap' = [user_heap_bitmap EXCEPT ![p] = Cleared(@, places)]
                       /\ freed' = [freed EXCEPT ![p] = TRUE]
  BY <1>1, <1>2, <1>3, <1>4 DEF free
<1>7. Live' = Live /\ p \in Live
  BY <1>5 DEF Live
<1>8. NoClash'
  BY <1>5 DEF NoClash
<1>9. BitTypes
  BY DEF BitsInv
<1>10. CASE found = {}
  <2>1. BitTypes'
    BY <1>5, <1>6, <1>9, <1>10 DEF BitTypes
  <2>2. BitsSet'
    BY <1>5, <1>6, <1>7, <1>10 DEF BitsInv, BitsSet, Untouched
  <2> QED BY <1>8, <2>1, <2>2 DEF BitsInv
<1>11. CASE found # {}
  <2>1. allocs \in Seq(Alloc)
    BY <1>1, <1>9 DEF BitTypes
  <2>2. first \in DOMAIN allocs
    <3>1. found \in SUBSET Nat
      BY <1>2, <2>1
    <3> QED BY <1>2, <1>3, <1>11, <3>1, MinIn
  <2>3. Suffix(allocs, first) \in Seq(Alloc)
    BY <2>1, <2>2, SuffixIs
  <2>4. places \in Seq(Place)
    <3>1. allocs[first] \in Alloc
      BY <2>1, <2>2
    <3>2. allocs[first].from \in Place /\ allocs[first].to \in Place
      BY <3>1 DEF Alloc
    <3> QED BY <1>4, <3>2, LoopIs
  <2>5. PICK bits \in Bitmap : bits = user_heap_bitmap[p] /\ Shaped(bits)
    BY <1>9 DEF BitTypes
  <2>6. PICK b \in Bitmap : b = Cleared(bits, places) /\ Shaped(b)
    BY <2>4, <2>5, ClearedShaped
  <2>7. user_heap_bitmap' = [user_heap_bitmap EXCEPT ![p] = b]
    BY <1>6, <1>9, <1>11, <2>5, <2>6 DEF BitTypes
  <2>8. BitTypes'
    <3>1. user_heap_bitmap' \in [Procs -> Bitmap] /\ \A q \in Procs : Shaped(user_heap_bitmap'[q])
      BY <1>9, <2>6, <2>7 DEF BitTypes
    <3>2. heap_allocations' \in [Procs -> Seq(Alloc)]
      BY <1>6, <1>9, <1>11, <2>3 DEF BitTypes
    <3> QED BY <1>5, <1>9, <3>1, <3>2 DEF BitTypes
  <2>9. \A q \in Procs : q # p => used_pages'[q] = used_pages[q] /\ freed'[q] = freed[q]
                                  /\ user_heap_bitmap'[q] = user_heap_bitmap[q]
    <3>1. used_pages' = used_pages \/ \E u : used_pages' = [used_pages EXCEPT ![p] = u]
      BY DEF free
    <3>2. \A q \in Procs : q # p => used_pages'[q] = used_pages[q]
      BY <3>1 DEF MemInv, MemoryTypes
    <3>3. \A q \in Procs : q # p => freed'[q] = freed[q] /\ user_heap_bitmap'[q] = user_heap_bitmap[q]
      BY <1>6, <1>9, <1>11, <2>7 DEF TablesInv, BitTypes
    <3> QED BY <3>2, <3>3
  <2>10. freed'[p]
    BY <1>6, <1>11 DEF TablesInv
  <2>11. ASSUME NEW q \in Live', Untouched(q)'
         PROVE  Covers(pgdir[q], used_pages'[q]) /\ HeapBits(used_pages'[q], user_heap_bitmap'[q])
    <3>1. q # p /\ q \in Live /\ q \in Procs
      BY <1>7, <2>10, <2>11 DEF Untouched, Live
    <3>2. Untouched(q)
      BY <1>5, <2>9, <2>11, <3>1 DEF Untouched
    <3> QED BY <2>9, <3>1, <3>2 DEF BitsInv, BitsSet
  <2>12. BitsSet'
    BY <1>5, <2>11 DEF BitsSet
  <2> QED BY <1>8, <2>8, <2>12 DEF BitsInv
<1> QED BY <1>10, <1>11

LEMMA NextBits == LayoutFits /\ MemInv /\ TablesInv /\ BitsInv /\ [Next]_vars => BitsInv'
<1> SUFFICES ASSUME LayoutFits, MemInv, TablesInv, BitsInv, [Next]_vars PROVE BitsInv'
  OBVIOUS
<1>1. CASE UNCHANGED vars
  <2>1. /\ state' = state /\ pgdir' = pgdir /\ used_pages' = used_pages /\ panic' = panic
        /\ user_heap_bitmap' = user_heap_bitmap /\ heap_allocations' = heap_allocations
        /\ freed' = freed /\ inherited' = inherited
    BY <1>1 DEF vars, procVars
  <2>2. Live' = Live
    BY <2>1 DEF Live
  <2>3. BitTypes' /\ NoClash' /\ BitsSet'
    BY <2>1, <2>2 DEF BitsInv, BitTypes, NoClash, BitsSet, Untouched
  <2> QED BY <2>3 DEF BitsInv
<1>2. CASE Next
  <2>1. PICK p \in Procs : SystemCall(p)
    BY <1>2 DEF Next
  <2>2. panic = "none"
    BY <1>2 DEF Next
  <2> QED BY <2>1, <2>2, ForkBits, ExitBits, ExecBits, SbrkBits, FreeBits DEF SystemCall
<1> QED BY <1>1, <1>2

(* A heap page that is mapped has its bit set, so that sbrk does not choose   *)
(* it again, and map_4kb_page_user panics over a present entry only once a    *)
(* free() or a fork with heap pages took part: for any sequence of calls, in  *)
(* spite of the int shift and of runs across words, where the programs and    *)
(* the areas of the address space leave one another the room of LayoutFits.   *)
THEOREM UserBitsCoverPages == LayoutFits /\ Spec => []BitsCoverPages
<1>1. LayoutFits /\ TablesInv /\ BitsInv => BitsCoverPages
  <2> SUFFICES ASSUME LayoutFits, TablesInv, BitsInv PROVE BitsCoverPages
    OBVIOUS
  <2>1. panic \in {"pd", "pdt"} => \E p \in Live : freed[p] \/ inherited[p]
    BY DEF BitsInv, NoClash, Untouched
  <2>2. ASSUME NEW p \in Live, ~ freed[p], ~ inherited[p], NEW l \in 0 .. Word * Words - 1,
               Translate(pgdir[p], USER_HEAP_START - l) # None
        PROVE  Bit(l)[2] \in user_heap_bitmap[p][Bit(l)[1]]
    <3>1. PICK dir : dir = pgdir[p]
      OBVIOUS
    <3>2. PICK list : list = used_pages[p]
      OBVIOUS
    <3>3. Covers(dir, list) /\ HeapBits(list, user_heap_bitmap[p])
      BY <2>2, <3>1, <3>2 DEF BitsInv, BitsSet, Untouched
    <3>4. Tabled(dir, list, FALSE)
      BY <3>1, <3>2 DEF TablesInv, Tabled
    <3>5. l \in Heap /\ Translate(dir, USER_HEAP_START - l) # None
      BY <2>2, <3>1 DEF Heap
    <3>6. PICK i \in DOMAIN list : list[i].va = USER_HEAP_START - l
      BY <3>3, <3>4, <3>5, MappedIsListed
    <3> QED BY <3>3, <3>6 DEF HeapBits
  <2> QED BY <2>1, <2>2 DEF BitsCoverPages
<1>2. LayoutFits /\ Init => LayoutFits /\ TablesInv /\ BitsInv
  BY InitTables, InitBits DEF LayoutFits
<1>3. LayoutFits /\ TablesInv /\ BitsInv /\ MemInv /\ [Next]_vars => LayoutFits' /\ TablesInv' /\ BitsInv'
  <2>1. LayoutFits => LayoutFits'
    OBVIOUS
  <2>2. LayoutFits => AreasApart
    BY DEF LayoutFits
  <2> QED BY <2>1, <2>2, NextTables, NextBits
<1> QED BY <1>1, <1>2, <1>3, MemoryInvariant, PTL DEF Spec
=============================================================================
