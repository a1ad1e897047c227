----------------------------- MODULE HeapProofs -----------------------------
(***************************************************************************)
(* The kernel heap, for every number of pages, largest order and set of     *)
(* caches, while no interrupt falls inside a call of main (~MidCall): no    *)
(* page and no object is lost, shared or handed out twice.                  *)
(*                                                                          *)
(* The invariant is HeapInv.  Of the page allocator it says that the free   *)
(* blocks, the blocks in use and the slabs tile the managed pages: a split  *)
(* replaces one tile by smaller ones, and pmm_init lays the first tiles by  *)
(* the bits of the number of pages.  Of the slabs it says what each list    *)
(* and each free list is a list of, and of the call in progress that what   *)
(* it loaded is still there when it stores.                                 *)
(***************************************************************************)
EXTENDS Heap, FiniteSetTheorems, FunctionTheorems, SequenceTheorems,
        NaturalsInduction, WellFoundedInduction, TLAPS

(* The page allocator: its state is well formed, its free blocks and the    *)
(* blocks of B tile the managed pages, each free list has a block once, the *)
(* count is right and the order of every block of B is recorded.            *)
Blocks == PageSet \X Orders
PmmType ==
  [free_lists : [Orders -> Seq(PageSet)],
   page_metadata : [PageSet -> Orders \cup {NotTracked}],
   free_pages : Int]

Tiles(R) ==
  /\ R \subseteq Blocks
  /\ \A b \in R : PagesOf(b) \subseteq PageSet
  /\ \A p \in PageSet : \E b \in R : p \in PagesOf(b)
  /\ \A b, c \in R : \A p \in PageSet : p \in PagesOf(b) /\ p \in PagesOf(c) => b = c

PagesIn(R) == UNION {PagesOf(b) : b \in R}

PmmRight(m, B) ==
  /\ m \in PmmType
  /\ \A o \in Orders : IsInjective(m.free_lists[o])
  /\ Tiles(FreeBlocks(m) \cup B)
  /\ FreeBlocks(m) \cap B = {}
  /\ m.free_pages = Cardinality(PagesIn(FreeBlocks(m)))
  /\ \A b \in B : m.page_metadata[b[1]] = b[2]

(* q is a list of S: each member once.                                      *)
Lists(q, S) == IsInjective(q) /\ Range(q) = S

(* The slabs ls, sl, mg of the machine when the objects of used are out:    *)
(* the full list has the slabs without a free object, the other two divide  *)
(* up the rest, and only wholly free ones are empty; the free list of a     *)
(* slab has the objects that are not out, once each.                        *)
ListType == [full : Seq(PageSet), partial : Seq(PageSet), empty : Seq(PageSet)]
SlabType == [cache : Caches \cup {NoCache}, free_list : Seq(Nat), free_count : Nat]

FullOf(c, sl, mg) == {pg \in mg : sl[pg].cache = c /\ sl[pg].free_count = 0}
OpenOf(c, sl, mg) == {pg \in mg : sl[pg].cache = c /\ sl[pg].free_count # 0}

ListsHold(l, c, sl, mg) ==
  /\ Lists(l.full, FullOf(c, sl, mg))
  /\ IsInjective(l.partial) /\ IsInjective(l.empty)
  /\ Range(l.partial) \cap Range(l.empty) = {}
  /\ Range(l.partial) \cup Range(l.empty) = OpenOf(c, sl, mg)
  /\ \A pg \in Range(l.empty) : sl[pg].free_count = Objs[c]

OutOf(pg, used) == {u[2] : u \in {v \in used : v[1] = pg}}
SlabHolds(pg, sl, used) ==
  /\ sl[pg].cache \in Caches
  /\ OutOf(pg, used) \subseteq 1 .. Objs[sl[pg].cache]
  /\ Lists(sl[pg].free_list, (1 .. Objs[sl[pg].cache]) \ OutOf(pg, used))
  /\ sl[pg].free_count = Len(sl[pg].free_list)

SlabsRight(ls, sl, mg, used) ==
  /\ mg \subseteq PageSet
  /\ ls \in [Caches -> ListType] /\ sl \in [PageSet -> SlabType]
  /\ used \subseteq mg \X Nat
  /\ \A c \in Caches : ListsHold(ls[c], c, sl, mg)
  /\ \A pg \in mg : SlabHolds(pg, sl, used)
  /\ \A pg \in PageSet \ mg : sl[pg].cache = NoCache

(* Main's call between its load and its store.                              *)
TakeCall == [pc : {"take"}, pg : PageSet, obj : Nat, rest : Seq(Nat)]
PopCall == [pc : {"pop"}, order : Orders,
            head : [j : Orders, addr : PageSet, rest : Seq(PageSet)]]
GiveCall == [pc : {"give"}, pg : PageSet, obj : Nat, rest : Seq(Nat)]

Giving == IF call.pc = "give" THEN {<<call.pg, call.obj>>} ELSE {}

TakeRight ==
  call.pc = "take" =>
    /\ call \in TakeCall /\ call.pg \in magic
    /\ LET f == slab[call.pg].free_list
           q == lists[slab[call.pg].cache].partial
       IN  /\ q # <<>> /\ call.pg = Head(q)
           /\ call.obj = Head(f) /\ call.rest = Tail(f)
PopRight ==
  call.pc = "pop" =>
    /\ call \in PopCall
    /\ CanAllocPage(pmm, call.order) /\ call.head = HeadFor(pmm, call.order)
GiveRight ==
  call.pc = "give" =>
    /\ call \in GiveCall /\ call.rest = slab[call.pg].free_list
    /\ <<call.pg, call.obj>> \notin AllObjects
CallRight ==
  /\ call = Idle \/ call.pc \in {"take", "pop", "give"}
  /\ TakeRight /\ PopRight /\ GiveRight

(* The pages of the blocks bl and of the slabs mg, and what the clients      *)
(* hold: nobody has what the other has.                                      *)
SlabBlocks(mg) == {<<pg, 0>> : pg \in mg}
PagesRight(m, bl, mg) ==
  PmmRight(m, bl \cup SlabBlocks(mg)) /\ bl \cap SlabBlocks(mg) = {}

Held(h) == h["main"] \cup h["isr"]
Apart(h, T) == h \in [Clients -> SUBSET T] /\ h["main"] \cap h["isr"] = {}

HeapInv ==
  /\ PagesRight(pmm, AllBlocks, magic)
  /\ Apart(blocks, Blocks)
  /\ SlabsRight(lists, slab, magic, AllObjects \cup Giving)
  /\ Apart(objects, PageSet \X Nat)
  /\ CallRight

-----------------------------------------------------------------------------
(* The least number principle for sets, which needs no induction over an     *)
(* operator: the order of the naturals is well founded.                      *)
LEMMA LeastNat ==
  ASSUME NEW S \in SUBSET Nat, S # {}
  PROVE  \E m \in S : \A k \in S : m <= k
<1>1. PICK R : R = {p \in Nat \X Nat : p[1] < p[2]}
  OBVIOUS
<1>2. IsWellFoundedOn(R, Nat)
  BY <1>1, NatLessThanWellFounded DEF OpToRel
<1>3. PICK m \in S : \A k \in S : ~ (<<k, m>> \in R)
  BY <1>2, WFMin
<1>4. ASSUME NEW k \in S PROVE m <= k
  <2>1. k \in Nat /\ m \in Nat
    OBVIOUS
  <2>2. <<k, m>> \in Nat \X Nat /\ <<k, m>>[1] = k /\ <<k, m>>[2] = m
    BY <2>1
  <2>3. ~(k < m)
    BY <1>1, <1>3, <2>2, Zenon
  <2> QED BY <2>1, <2>3
<1> QED BY <1>4

(* So Min is the least element. *)
LEMMA MinLeast ==
  ASSUME NEW S \in SUBSET Nat, S # {}
  PROVE  Min(S) \in S /\ \A k \in S : Min(S) <= k
BY LeastNat DEF Min

-----------------------------------------------------------------------------
(* Lists.                                                                   *)

(* A list is a function of the places 1 .. its length.                       *)
LEMMA ListsDomain ==
  ASSUME NEW T, NEW q \in Seq(T)
  PROVE  /\ Len(q) \in Nat /\ DOMAIN q = 1 .. Len(q)
         /\ Range(q) = {q[i] : i \in 1 .. Len(q)} /\ Range(q) \subseteq T
         /\ \A i \in 1 .. Len(q) : q[i] \in T
BY LenProperties, ElementOfSeq DEF Range

(* SequencesExt tests membership by walking; it is that of the range.        *)
LEMMA ContainsRange ==
  ASSUME NEW T, NEW q \in Seq(T), NEW x
  PROVE  Contains(q, x) <=> x \in Range(q)
BY ListsDomain DEF Contains

(* The empty list, and only it, lists nothing. *)
LEMMA ListsNothing ==
  ASSUME NEW T
  PROVE  /\ <<>> \in Seq(T) /\ Lists(<<>>, {}) /\ Range(<<>>) = {}
         /\ \A q \in Seq(T) : Range(q) = {} <=> q = <<>>
<1>1. <<>> \in Seq(T) /\ Len(<<>>) = 0
  BY EmptySeq
<1>2. Range(<<>>) = {} /\ IsInjective(<<>>)
  <2>1. DOMAIN <<>> = 1 .. Len(<<>>)
    BY <1>1, LenProperties
  <2>2. DOMAIN <<>> = {}
    BY <2>1, <1>1
  <2> QED BY <2>2, Zenon DEF IsInjective, Range
<1>3. ASSUME NEW q \in Seq(T), q # <<>> PROVE Range(q) # {}
  <2>1. Len(q) \in Nat \ {0}
    BY <1>3, EmptySeq
  <2>2. 1 \in DOMAIN q
    BY <2>1, ListsDomain
  <2> QED BY <2>2 DEF Range
<1> QED BY <1>1, <1>2, <1>3 DEF Lists

(* One more at the head. *)
LEMMA ListsCons ==
  ASSUME NEW T, NEW q \in Seq(T), NEW x \in T, NEW S, Lists(q, S), x \notin S
  PROVE  /\ <<x>> \o q \in Seq(T) /\ Len(<<x>> \o q) = Len(q) + 1
         /\ Lists(<<x>> \o q, S \cup {x})
<1>1. <<x>> \in Seq(T) /\ Len(<<x>>) = 1 /\ <<x>>[1] = x
  OBVIOUS
<1>2. PICK r : r = <<x>> \o q
  OBVIOUS
<1>3. Len(q) \in Nat /\ DOMAIN q = 1 .. Len(q)
  BY ListsDomain
<1>4. /\ r \in Seq(T) /\ Len(r) = Len(q) + 1
      /\ \A i \in 1 .. Len(q) + 1 : r[i] = IF i <= 1 THEN x ELSE q[i - 1]
  BY <1>1, <1>2, <1>3, ConcatProperties
<1>5. DOMAIN r = 1 .. Len(q) + 1
  BY <1>4, ListsDomain
<1>6. \A i \in 1 .. Len(q) : q[i] \in S
  BY <1>3, ListsDomain DEF Lists
<1>7. IsInjective(r)
  <2>1. \A i, j \in 1 .. Len(q) : q[i] = q[j] => i = j
    BY <1>3, Zenon DEF Lists, IsInjective
  <2>2. ASSUME NEW i \in 1 .. Len(q) + 1, NEW j \in 1 .. Len(q) + 1, r[i] = r[j]
        PROVE  i = j
    <3>1. CASE i = 1 /\ j = 1
      BY <3>1
    <3>2. CASE i = 1 /\ j # 1
      <4>1. j - 1 \in 1 .. Len(q) /\ r[j] = q[j - 1] /\ r[i] = x
        BY <3>2, <1>3, <1>4
      <4> QED BY <4>1, <1>6, <2>2
    <3>3. CASE i # 1 /\ j = 1
      <4>1. i - 1 \in 1 .. Len(q) /\ r[i] = q[i - 1] /\ r[j] = x
        BY <3>3, <1>3, <1>4
      <4> QED BY <4>1, <1>6, <2>2
    <3>4. CASE i # 1 /\ j # 1
      <4>1. /\ i - 1 \in 1 .. Len(q) /\ r[i] = q[i - 1]
            /\ j - 1 \in 1 .. Len(q) /\ r[j] = q[j - 1]
        BY <3>4, <1>3, <1>4
      <4>2. i - 1 = j - 1
        BY <4>1, <2>1, <2>2
      <4> QED BY <4>2
    <3> QED BY <3>1, <3>2, <3>3, <3>4
  <2> QED BY <2>2, <1>5 DEF IsInjective
<1>8. Range(r) = S \cup {x}
  <2>1. \A y \in Range(r) : y \in S \cup {x}
    <3>1. ASSUME NEW i \in 1 .. Len(q) + 1 PROVE r[i] \in S \cup {x}
      <4>1. CASE i = 1
        BY <4>1, <1>4, <1>3
      <4>2. CASE i # 1
        <5>1. i - 1 \in 1 .. Len(q) /\ r[i] = q[i - 1]
          BY <4>2, <1>3, <1>4
        <5> QED BY <5>1, <1>6
      <4> QED BY <4>1, <4>2
    <3> QED BY <3>1, <1>5 DEF Range
  <2>2. x \in Range(r)
    <3>1. 1 \in 1 .. Len(q) + 1 /\ r[1] = x
      BY <1>3, <1>4
    <3> QED BY <3>1, <1>5 DEF Range
  <2>3. ASSUME NEW y \in S PROVE y \in Range(r)
    <3>1. PICK i \in 1 .. Len(q) : y = q[i]
      BY <1>3 DEF Lists, Range
    <3>2. i + 1 \in 1 .. Len(q) + 1 /\ r[i + 1] = q[i]
      BY <1>3, <1>4
    <3> QED BY <3>1, <3>2, <1>5 DEF Range
  <2> QED BY <2>1, <2>2, <2>3
<1> QED BY <1>2, <1>4, <1>7, <1>8 DEF Lists

(* Without its head. *)
LEMMA ListsTail ==
  ASSUME NEW T, NEW q \in Seq(T), q # <<>>, NEW S, Lists(q, S)
  PROVE  /\ Head(q) \in S /\ Head(q) \in T
         /\ Tail(q) \in Seq(T) /\ Len(Tail(q)) = Len(q) - 1 /\ Len(q) > 0
         /\ Lists(Tail(q), S \ {Head(q)})
<1>1. PICK r : r = Tail(q)
  OBVIOUS
<1>2. Len(q) \in Nat \ {0} /\ DOMAIN q = 1 .. Len(q) /\ Head(q) = q[1]
  BY ListsDomain, EmptySeq
<1>3. /\ r \in Seq(T) /\ Len(r) = Len(q) - 1
      /\ \A i \in 1 .. Len(q) - 1 : r[i] = q[i + 1]
  BY <1>1, <1>2, HeadTailProperties
<1>4. DOMAIN r = 1 .. Len(q) - 1
  BY <1>3, ListsDomain
<1>5. \A i, j \in 1 .. Len(q) : q[i] = q[j] => i = j
  BY <1>2, Zenon DEF Lists, IsInjective
<1>6. \A i \in 1 .. Len(q) : q[i] \in S
  BY <1>2 DEF Lists, Range
<1>7. IsInjective(r)
  <2>1. ASSUME NEW i \in 1 .. Len(q) - 1, NEW j \in 1 .. Len(q) - 1, r[i] = r[j]
        PROVE  i = j
    <3>1. i + 1 \in 1 .. Len(q) /\ j + 1 \in 1 .. Len(q) /\ q[i + 1] = q[j + 1]
      BY <2>1, <1>2, <1>3
    <3>2. i + 1 = j + 1
      BY <3>1, <1>5
    <3> QED BY <3>2
  <2> QED BY <2>1, <1>4 DEF IsInjective
<1>8. Range(r) = S \ {q[1]}
  <2>1. ASSUME NEW i \in 1 .. Len(q) - 1 PROVE r[i] \in S \ {q[1]}
    <3>1. i + 1 \in 1 .. Len(q) /\ 1 \in 1 .. Len(q) /\ r[i] = q[i + 1] /\ i + 1 # 1
      BY <1>2, <1>3
    <3> QED BY <3>1, <1>5, <1>6
  <2>2. ASSUME NEW y \in S \ {q[1]} PROVE y \in Range(r)
    <3>1. PICK i \in 1 .. Len(q) : y = q[i]
      BY <1>2 DEF Lists, Range
    <3>2. i # 1
      BY <3>1
    <3>3. i - 1 \in 1 .. Len(q) - 1 /\ r[i - 1] = q[(i - 1) + 1] /\ (i - 1) + 1 = i
      BY <3>2, <1>2, <1>3
    <3> QED BY <3>1, <3>3, <1>4 DEF Range
  <2>3. \A y \in Range(r) : y \in S \ {q[1]}
    BY <2>1, <1>4 DEF Range
  <2> QED BY <2>2, <2>3
<1>9. 1 \in 1 .. Len(q)
  BY <1>2
<1> QED BY <1>1, <1>2, <1>3, <1>6, <1>7, <1>8, <1>9, HeadTailProperties DEF Lists
(* Without one that the list has: slab_cache_free walks to it. *)
LEMMA ListsRemove ==
  ASSUME NEW T, NEW q \in Seq(T), NEW S, Lists(q, S), NEW x \in S
  PROVE  /\ RemoveFirst(q, x) \in Seq(T)
         /\ Lists(RemoveFirst(q, x), S \ {x})
<1>1. Len(q) \in Nat /\ DOMAIN q = 1 .. Len(q) /\ \A i \in 1 .. Len(q) : q[i] \in T
  BY ListsDomain
<1>2. PICK n : n = Len(q)
  OBVIOUS
<1>3. \A i, j \in 1 .. n : q[i] = q[j] => i = j
  BY <1>1, <1>2, Zenon DEF Lists, IsInjective
<1>4. \A i \in 1 .. n : q[i] \in S
  BY <1>1, <1>2 DEF Lists, Range
<1>5. PICK I : I = {i \in 1 .. Len(q) : q[i] = x}
  OBVIOUS
<1>6. I # {} /\ I \in SUBSET Nat
  BY <1>1, <1>5 DEF Lists, Range
<1>7. PICK m : m = Min(I)
  OBVIOUS
<1>8. m \in 1 .. n /\ q[m] = x
  BY <1>2, <1>5, <1>6, <1>7, MinLeast
<1>9. RemoveFirst(q, x) = SubSeq(q, 1, m - 1) \o SubSeq(q, m + 1, n)
  BY <1>2, <1>5, <1>6, <1>7 DEF RemoveFirst, SelectInSeq, RemoveAt
<1>10. PICK u : u = SubSeq(q, 1, m - 1)
  OBVIOUS
<1>11. PICK v : v = SubSeq(q, m + 1, n)
  OBVIOUS
<1>12. n \in Nat /\ m \in Nat /\ 1 <= m /\ m <= n
  BY <1>1, <1>2, <1>8
<1>13. /\ u \in Seq(T) /\ Len(u) = m - 1
       /\ \A i \in 1 .. m - 1 : u[i] = q[i]
  <2>1. \A i \in 1 .. m - 1 : q[i] \in T
    BY <1>1, <1>2, <1>12
  <2>2. /\ u \in Seq(T) /\ Len(u) = IF 1 <= m - 1 THEN (m - 1) - 1 + 1 ELSE 0
        /\ \A i \in 1 .. (m - 1) - 1 + 1 : u[i] = q[1 + i - 1]
    BY <1>10, <1>12, <2>1, SubSeqProperties
  <2> QED BY <2>2, <1>12
<1>14. /\ v \in Seq(T) /\ Len(v) = n - m
       /\ \A i \in 1 .. n - m : v[i] = q[i + m]
  <2>1. \A i \in m + 1 .. n : q[i] \in T
    BY <1>1, <1>2, <1>12
  <2>2. /\ v \in Seq(T) /\ Len(v) = IF m + 1 <= n THEN n - (m + 1) + 1 ELSE 0
        /\ \A i \in 1 .. n - (m + 1) + 1 : v[i] = q[(m + 1) + i - 1]
    BY <1>11, <1>12, <2>1, SubSeqProperties
  <2> QED BY <2>2, <1>12
<1>15. PICK r : r = u \o v
  OBVIOUS
<1>16. /\ r \in Seq(T) /\ Len(r) = n - 1
       /\ \A i \in 1 .. n - 1 : r[i] = IF i < m THEN q[i] ELSE q[i + 1]
  <2>1. /\ r \in Seq(T) /\ Len(r) = Len(u) + Len(v)
        /\ \A i \in 1 .. Len(u) + Len(v) : r[i] = IF i <= Len(u) THEN u[i] ELSE v[i - Len(u)]
    BY <1>13, <1>14, <1>15, ConcatProperties
  <2>2. Len(u) + Len(v) = n - 1
    BY <1>12, <1>13, <1>14
  <2>3. ASSUME NEW i \in 1 .. n - 1 PROVE r[i] = IF i < m THEN q[i] ELSE q[i + 1]
    <3>1. CASE i < m
      <4>1. i <= Len(u) /\ i \in 1 .. m - 1
        BY <3>1, <1>12, <1>13
      <4> QED BY <3>1, <4>1, <2>1, <2>2, <1>13
    <3>2. CASE ~(i < m)
      <4>1. ~(i <= Len(u)) /\ i - Len(u) \in 1 .. n - m /\ i - Len(u) + m = i + 1
        BY <3>2, <1>12, <1>13
      <4> QED BY <3>2, <4>1, <2>1, <2>2, <1>14
    <3> QED BY <3>1, <3>2
  <2> QED BY <2>1, <2>2, <2>3
<1>17. DOMAIN r = 1 .. n - 1
  BY <1>16, ListsDomain
<1>18. IsInjective(r)
  <2>1. ASSUME NEW i \in 1 .. n - 1, NEW j \in 1 .. n - 1, r[i] = r[j]
        PROVE  i = j
    <3>1. PICK a : a = IF i < m THEN i ELSE i + 1
      OBVIOUS
    <3>2. PICK b : b = IF j < m THEN j ELSE j + 1
      OBVIOUS
    <3>3. a \in 1 .. n /\ b \in 1 .. n
      BY <3>1, <3>2, <1>12
    <3>4. r[i] = q[a] /\ r[j] = q[b]
      BY <3>1, <3>2, <1>16
    <3>5. a = b
      BY <3>3, <3>4, <2>1, <1>3
    <3> QED BY <3>1, <3>2, <3>5, <1>12
  <2> QED BY <2>1, <1>17 DEF IsInjective
<1>19. Range(r) = S \ {x}
  <2>1. ASSUME NEW i \in 1 .. n - 1 PROVE r[i] \in S \ {x}
    <3>1. CASE i < m
      <4>1. i \in 1 .. n /\ r[i] = q[i] /\ i # m
        BY <3>1, <1>12, <1>16
      <4> QED BY <4>1, <1>3, <1>4, <1>8
    <3>2. CASE ~(i < m)
      <4>1. i + 1 \in 1 .. n /\ r[i] = q[i + 1] /\ i + 1 # m
        BY <3>2, <1>12, <1>16
      <4> QED BY <4>1, <1>3, <1>4, <1>8
    <3> QED BY <3>1, <3>2
  <2>2. ASSUME NEW y \in S \ {x} PROVE y \in Range(r)
    <3>1. PICK i \in 1 .. n : y = q[i]
      BY <1>1, <1>2 DEF Lists, Range
    <3>2. i # m
      BY <3>1, <1>8
    <3>3. CASE i < m
      <4>1. i \in 1 .. n - 1 /\ r[i] = y
        BY <3>1, <3>3, <1>12, <1>16
      <4> QED BY <4>1, <1>17 DEF Range
    <3>4. CASE i > m
      <4>1. i - 1 \in 1 .. n - 1 /\ ~(i - 1 < m) /\ (i - 1) + 1 = i
        BY <3>4, <1>12
      <4>2. r[i - 1] = y
        BY <3>1, <4>1, <1>16
      <4> QED BY <4>1, <4>2, <1>17 DEF Range
    <3> QED BY <3>2, <3>3, <3>4, <1>12
  <2>3. \A y \in Range(r) : y \in S \ {x}
    BY <2>1, <1>17 DEF Range
  <2> QED BY <2>2, <2>3
<1> QED BY <1>9, <1>10, <1>11, <1>15, <1>16, <1>18, <1>19 DEF Lists

(* Two lists without a common member. *)
LEMMA ListsConcat ==
  ASSUME NEW T, NEW q \in Seq(T), NEW r \in Seq(T), NEW R, NEW S,
         Lists(q, R), Lists(r, S), R \cap S = {}
  PROVE  q \o r \in Seq(T) /\ Lists(q \o r, R \cup S)
<1>1. PICK m : m = Len(q)
  OBVIOUS
<1>2. PICK n : n = Len(r)
  OBVIOUS
<1>3. m \in Nat /\ n \in Nat /\ DOMAIN q = 1 .. m /\ DOMAIN r = 1 .. n
  BY <1>1, <1>2, ListsDomain
<1>4. PICK w : w = q \o r
  OBVIOUS
<1>5. /\ w \in Seq(T) /\ Len(w) = m + n
      /\ \A i \in 1 .. m + n : w[i] = IF i <= m THEN q[i] ELSE r[i - m]
  BY <1>1, <1>2, <1>4, ConcatProperties
<1>6. DOMAIN w = 1 .. m + n
  BY <1>5, ListsDomain
<1>7. \A i, j \in 1 .. m : q[i] = q[j] => i = j
  BY <1>3, Zenon DEF Lists, IsInjective
<1>8. \A i, j \in 1 .. n : r[i] = r[j] => i = j
  BY <1>3, Zenon DEF Lists, IsInjective
<1>9. \A i \in 1 .. m : q[i] \in R
  BY <1>3 DEF Lists, Range
<1>10. \A i \in 1 .. n : r[i] \in S
  BY <1>3 DEF Lists, Range
<1>11. \A i \in 1 .. m + n : \/ i \in 1 .. m /\ w[i] = q[i]
                             \/ i - m \in 1 .. n /\ ~(i <= m) /\ w[i] = r[i - m]
  BY <1>3, <1>5
<1>12. IsInjective(w)
  <2>1. ASSUME NEW i \in 1 .. m + n, NEW j \in 1 .. m + n, w[i] = w[j]
        PROVE  i = j
    <3>1. CASE i \in 1 .. m /\ w[i] = q[i] /\ j \in 1 .. m /\ w[j] = q[j]
      BY <3>1, <2>1, <1>7
    <3>2. CASE /\ i - m \in 1 .. n /\ w[i] = r[i - m]
               /\ j - m \in 1 .. n /\ w[j] = r[j - m]
      <4>1. i - m = j - m
        BY <3>2, <2>1, <1>8
      <4> QED BY <4>1, <1>3
    <3>3. CASE i \in 1 .. m /\ w[i] = q[i] /\ j - m \in 1 .. n /\ w[j] = r[j - m]
      BY <3>3, <2>1, <1>9, <1>10
    <3>4. CASE j \in 1 .. m /\ w[j] = q[j] /\ i - m \in 1 .. n /\ w[i] = r[i - m]
      BY <3>4, <2>1, <1>9, <1>10
    <3> QED BY <3>1, <3>2, <3>3, <3>4, <1>11
  <2> QED BY <2>1, <1>6 DEF IsInjective
<1>13. Range(w) = R \cup S
  <2>1. \A y \in Range(w) : y \in R \cup S
    BY <1>6, <1>9, <1>10, <1>11 DEF Range
  <2>2. ASSUME NEW y \in R PROVE y \in Range(w)
    <3>1. PICK i \in 1 .. m : y = q[i]
      BY <1>3 DEF Lists, Range
    <3>2. i \in 1 .. m + n /\ w[i] = y
      BY <3>1, <1>3, <1>5
    <3> QED BY <3>2, <1>6 DEF Range
  <2>3. ASSUME NEW y \in S PROVE y \in Range(w)
    <3>1. PICK i \in 1 .. n : y = r[i]
      BY <1>3 DEF Lists, Range
    <3>2. i + m \in 1 .. m + n /\ ~(i + m <= m) /\ (i + m) - m = i
      BY <3>1, <1>3
    <3>3. w[i + m] = y
      BY <3>1, <3>2, <1>5
    <3> QED BY <3>2, <3>3, <1>6 DEF Range
  <2> QED BY <2>1, <2>2, <2>3
<1> QED BY <1>4, <1>5, <1>12, <1>13 DEF Lists

(* A list is as long as what it lists is large. *)
LEMMA ListsLen ==
  ASSUME NEW T, NEW q \in Seq(T), NEW S, Lists(q, S)
  PROVE  IsFiniteSet(S) /\ Cardinality(S) = Len(q)
<1>1. Len(q) \in Nat /\ q \in [1 .. Len(q) -> T] /\ DOMAIN q = 1 .. Len(q)
  BY LenProperties
<1>2. q \in Bijection(1 .. Len(q), S)
  <2>1. \A i \in 1 .. Len(q) : q[i] \in S
    BY <1>1 DEF Lists, Range
  <2>2. q \in [1 .. Len(q) -> S]
    BY <1>1, <2>1
  <2>3. \A a, b \in DOMAIN q : q[a] = q[b] => a = b
    BY Zenon DEF Lists, IsInjective
  <2>4. \A y \in S : \E i \in 1 .. Len(q) : q[i] = y
    BY <1>1 DEF Lists, Range
  <2> QED BY <1>1, <2>2, <2>3, <2>4 DEF Bijection, Injection, Surjection, IsInjective
<1>3. IsFiniteSet(1 .. Len(q)) /\ Cardinality(1 .. Len(q)) = Len(q)
  BY <1>1, FS_Interval
<1>4. ExistsBijection(1 .. Len(q), S)
  BY <1>2 DEF ExistsBijection
<1> QED BY <1>3, <1>4, FS_Bijection
-----------------------------------------------------------------------------
(* Sizes of blocks.                                                         *)

(* Powers of two, of which the provers know the first: 2^n counts the       *)
(* subsets of 1 .. n, and a subset of 1 .. n + 1 has n + 1 or has not.      *)
LEMMA PowerTwo ==
  ASSUME NEW n \in Nat
  PROVE  2 ^ n \in Nat \ {0} /\ 2 ^ (n + 1) = 2 * 2 ^ n
<1>1. \A k \in Nat : /\ IsFiniteSet(SUBSET (1 .. k)) /\ 2 ^ k \in Nat \ {0}
                     /\ Cardinality(SUBSET (1 .. k)) = 2 ^ k
  <2>1. TAKE k \in Nat
  <2>2. IsFiniteSet(1 .. k) /\ Cardinality(1 .. k) = k
    BY FS_Interval
  <2>3. IsFiniteSet(SUBSET (1 .. k)) /\ Cardinality(SUBSET (1 .. k)) = 2 ^ k
    BY <2>2, FS_SUBSET
  <2>4. Cardinality(SUBSET (1 .. k)) \in Nat /\ Cardinality(SUBSET (1 .. k)) # 0
    BY <2>3, FS_CardinalityType, FS_EmptySet
  <2> QED BY <2>3, <2>4
<1>2. PICK A : A = SUBSET (1 .. n)
  OBVIOUS
<1>3. PICK B : B = {T \cup {n + 1} : T \in A}
  OBVIOUS
<1>4. SUBSET (1 .. n + 1) = A \cup B
  <2>1. ASSUME NEW U \in SUBSET (1 .. n + 1) PROVE U \in A \cup B
    <3>1. U \ {n + 1} \in A
      BY <1>2
    <3>2. CASE n + 1 \in U
      <4>1. U = (U \ {n + 1}) \cup {n + 1}
        BY <3>2
      <4> QED BY <3>1, <4>1, <1>3
    <3>3. CASE n + 1 \notin U
      <4>1. U = U \ {n + 1}
        BY <3>3
      <4> QED BY <3>1, <4>1
    <3> QED BY <3>2, <3>3
  <2>2. \A T \in A : T \subseteq 1 .. n + 1 /\ T \cup {n + 1} \subseteq 1 .. n + 1
    BY <1>2
  <2> QED BY <1>3, <2>1, <2>2
<1>5. A \cap B = {}
  <2>1. \A T \in A : n + 1 \notin T
    BY <1>2
  <2>2. \A T \in B : n + 1 \in T
    BY <1>3
  <2> QED BY <2>1, <2>2
<1>6. ExistsBijection(A, B)
  <2>1. PICK f : f = [T \in A |-> T \cup {n + 1}]
    OBVIOUS
  <2>2. f \in [A -> B]
    BY <2>1, <1>3
  <2>3. ASSUME NEW T \in A, NEW U \in A, f[T] = f[U] PROVE T = U
    <3>1. n + 1 \notin T /\ n + 1 \notin U
      BY <1>2
    <3>2. T \cup {n + 1} = U \cup {n + 1}
      BY <2>1, <2>3
    <3> QED BY <3>1, <3>2
  <2>4. \A U \in B : \E T \in A : f[T] = U
    BY <2>1, <1>3
  <2> QED BY <2>2, <2>3, <2>4 DEF ExistsBijection, Bijection, Injection, Surjection, IsInjective
<1>7. /\ IsFiniteSet(A) /\ Cardinality(A) = 2 ^ n /\ 2 ^ n \in Nat \ {0}
      /\ Cardinality(A \cup B) = 2 ^ (n + 1)
  <2>1. n + 1 \in Nat /\ A \cup B = SUBSET (1 .. n + 1)
    BY <1>4
  <2>2. IsFiniteSet(A) /\ Cardinality(A) = 2 ^ n /\ 2 ^ n \in Nat \ {0}
    BY <1>1, <1>2
  <2>3. Cardinality(A \cup B) = 2 ^ (n + 1)
    BY <1>1, <2>1, Zenon
  <2> QED BY <2>2, <2>3
<1>8. IsFiniteSet(B) /\ Cardinality(B) = 2 ^ n
  BY <1>6, <1>7, FS_Bijection
<1>9. Cardinality(A \cup B) = Cardinality(A) + Cardinality(B) - Cardinality(A \cap B)
  BY <1>7, <1>8, FS_Union
<1>10. Cardinality(A \cap B) = 0
  BY <1>5, FS_EmptySet
<1> QED BY <1>7, <1>8, <1>9, <1>10

(* A block of order 0 is a page, one of each order twice one of the order   *)
(* below, and sizes grow with the order.                                    *)
LEMMA Sizes ==
  /\ \A o \in Nat : Size(o) \in Nat \ {0} /\ Size(o + 1) = 2 * Size(o)
  /\ Size(0) = 1
  /\ \A o, k \in Nat : o < k => Size(o) + Size(o) <= Size(k)
  /\ \A o, k \in Nat : o <= k => Size(o) <= Size(k)
<1>1. \A o \in Nat : Size(o) \in Nat \ {0} /\ Size(o + 1) = 2 * Size(o)
  BY PowerTwo DEF Size
<1>2. Size(0) = 1
  BY DEF Size
<1>3. ASSUME NEW o \in Nat, NEW k \in Nat, o < k PROVE Size(o) + Size(o) <= Size(k)
  <2>1. PICK S : S = {i \in Nat : o < i /\ ~(Size(o) + Size(o) <= Size(i))}
    OBVIOUS
  <2>2. CASE S # {}
    <3>1. PICK i \in S : \A x \in S : i <= x
      BY <2>1, <2>2, LeastNat
    <3>2. i \in Nat /\ o < i /\ ~(Size(o) + Size(o) <= Size(i))
      BY <2>1
    <3>3. CASE i = o + 1
      BY <3>2, <3>3, <1>1
    <3>4. CASE i # o + 1
      <4>1. i - 1 \in Nat /\ o < i - 1 /\ (i - 1) + 1 = i /\ ~(i <= i - 1)
        BY <3>2, <3>4
      <4>2. i - 1 \notin S
        BY <3>1, <4>1
      <4>3. Size(o) + Size(o) <= Size(i - 1)
        BY <2>1, <4>1, <4>2
      <4>4. /\ Size(i - 1) \in Nat /\ Size(o) \in Nat /\ Size(i) = 2 * Size(i - 1)
        BY <4>1, <1>1
      <4> QED BY <3>2, <4>3, <4>4
    <3> QED BY <3>3, <3>4
  <2>3. CASE S = {}
    <3>1. k \notin S
      BY <2>3
    <3> QED BY <1>3, <2>1, <3>1
  <2> QED BY <2>2, <2>3
<1>4. \A o, k \in Nat : o <= k => Size(o) <= Size(k)
  <2>1. TAKE o, k \in Nat
  <2>2. HAVE o <= k
  <2>3. Size(o) \in Nat /\ Size(k) \in Nat
    BY <1>1
  <2>4. CASE o = k
    BY <2>3, <2>4
  <2>5. CASE o < k
    BY <2>3, <2>5, <1>3
  <2> QED BY <2>2, <2>4, <2>5
<1> QED BY <1>1, <1>2, <1>3, <1>4
-----------------------------------------------------------------------------
(* Tilings.                                                                 *)

(* A block has a first page, an order and at least one page.                 *)
LEMMA BlockFacts ==
  /\ NPages \in Nat /\ MaxOrder \in Nat /\ Orders \subseteq Nat /\ PageSet \subseteq Nat
  /\ \A b \in Blocks : /\ b[1] \in PageSet /\ b[2] \in Orders /\ b = <<b[1], b[2]>>
                       /\ Size(b[2]) \in Nat \ {0} /\ b[1] \in PagesOf(b)
                       /\ PagesOf(b) = b[1] .. b[1] + Size(b[2]) - 1
                       /\ PagesOf(b) \subseteq Nat
<1>1. NPages \in Nat /\ MaxOrder \in Nat /\ Orders \subseteq Nat /\ PageSet \subseteq Nat
  BY HeapAssumption DEF Orders, PageSet
<1>2. ASSUME NEW b \in Blocks
      PROVE  /\ b[1] \in PageSet /\ b[2] \in Orders /\ b = <<b[1], b[2]>>
             /\ Size(b[2]) \in Nat \ {0} /\ b[1] \in PagesOf(b)
             /\ PagesOf(b) = b[1] .. b[1] + Size(b[2]) - 1
             /\ PagesOf(b) \subseteq Nat
  <2>1. b[1] \in PageSet /\ b[2] \in Orders /\ b = <<b[1], b[2]>>
    BY DEF Blocks
  <2>2. b[1] \in Nat /\ Size(b[2]) \in Nat \ {0}
    BY <1>1, <2>1, Sizes
  <2>3. PagesOf(b) = b[1] .. b[1] + Size(b[2]) - 1
    BY DEF PagesOf
  <2> QED BY <2>1, <2>2, <2>3
<1> QED BY <1>1, <1>2

(* The free blocks are what the free lists have, each with its order.        *)
LEMMA FreeBlock ==
  ASSUME NEW m \in PmmType
  PROVE  /\ FreeBlocks(m) \subseteq Blocks
         /\ \A a, o : <<a, o>> \in FreeBlocks(m) <=> o \in Orders /\ a \in Range(m.free_lists[o])
         /\ \A o \in Orders : /\ m.free_lists[o] \in Seq(PageSet)
                              /\ Range(m.free_lists[o]) \subseteq PageSet
<1>1. \A o \in Orders : /\ m.free_lists[o] \in Seq(PageSet)
                        /\ Range(m.free_lists[o]) \subseteq PageSet
  BY ListsDomain DEF PmmType
<1>2. \A b : b \in FreeBlocks(m) <=>
               \E o \in Orders : \E a \in Range(m.free_lists[o]) : b = <<a, o>>
  BY DEF FreeBlocks
<1> QED BY <1>1, <1>2 DEF Blocks

(* A block may be replaced by blocks that tile its pages.                   *)
LEMMA ReplaceTile ==
  ASSUME NEW R, Tiles(R), NEW r \in R, NEW N \in SUBSET Blocks,
         \A b \in N : PagesOf(b) \subseteq PagesOf(r),
         \A p \in PagesOf(r) : \E b \in N : p \in PagesOf(b),
         \A b, c \in N : \A p \in PageSet : p \in PagesOf(b) /\ p \in PagesOf(c) => b = c
  PROVE  Tiles((R \ {r}) \cup N) /\ N \cap (R \ {r}) = {}
<1>1. PICK Q : Q = (R \ {r}) \cup N
  OBVIOUS
<1>2. /\ R \subseteq Blocks /\ r \in Blocks
      /\ \A b \in R : PagesOf(b) \subseteq PageSet
      /\ \A p \in PageSet : \E b \in R : p \in PagesOf(b)
      /\ \A b, c \in R : \A p \in PageSet : p \in PagesOf(b) /\ p \in PagesOf(c) => b = c
  BY DEF Tiles
<1>3. Q \subseteq Blocks /\ \A b \in Q : PagesOf(b) \subseteq PageSet
  BY <1>1, <1>2
<1>4. ASSUME NEW p \in PageSet PROVE \E b \in Q : p \in PagesOf(b)
  <2>1. PICK b \in R : p \in PagesOf(b)
    BY <1>2
  <2> QED BY <2>1, <1>1
<1>5. \A b \in N, c \in R \ {r} : \A p \in PageSet : ~(p \in PagesOf(b) /\ p \in PagesOf(c))
  BY <1>2
<1>6. ASSUME NEW b \in Q, NEW c \in Q, NEW p \in PageSet, p \in PagesOf(b), p \in PagesOf(c)
      PROVE  b = c
  <2>1. CASE b \in R \ {r} /\ c \in R \ {r}
    BY <2>1, <1>2, <1>6
  <2>2. CASE b \in N /\ c \in N
    BY <2>2, <1>6
  <2> QED BY <2>1, <2>2, <1>1, <1>5, <1>6
<1>7. ASSUME NEW b \in N, b \in R \ {r} PROVE FALSE
  <2>1. b[1] \in PagesOf(b) /\ b[1] \in PageSet
    BY BlockFacts
  <2> QED BY <2>1, <1>5, <1>7
<1> QED BY <1>1, <1>3, <1>4, <1>6, <1>7 DEF Tiles

(* What pmm_alloc_page makes of a block of order j: the lower part, and the *)
(* upper half of each split.                                                *)
UpperHalves(a, order, j) == {<<a + Size(o), o>> : o \in order .. j - 1}
SplitParts(a, order, j) == {<<a, order>>} \cup UpperHalves(a, order, j)

(* So a split leaves a tiling.                                               *)
LEMMA SplitTiles ==
  ASSUME NEW a \in PageSet, NEW order \in Orders, NEW j \in Orders, order <= j,
         PagesOf(<<a, j>>) \subseteq PageSet
  PROVE  /\ SplitParts(a, order, j) \subseteq Blocks
         /\ \A b \in SplitParts(a, order, j) : PagesOf(b) \subseteq PagesOf(<<a, j>>)
         /\ \A p \in PagesOf(<<a, j>>) : \E b \in SplitParts(a, order, j) : p \in PagesOf(b)
         /\ \A b, c \in SplitParts(a, order, j) :
              \A p \in PageSet : p \in PagesOf(b) /\ p \in PagesOf(c) => b = c
         /\ <<a, order>> \notin UpperHalves(a, order, j)
<1>0. PICK N : N = SplitParts(a, order, j)
  OBVIOUS
<1>1. a \in Nat /\ order \in Nat /\ j \in Nat /\ j <= MaxOrder /\ MaxOrder \in Nat
  BY BlockFacts DEF Orders
<1>2. \A o \in Nat : Size(o) \in Nat \ {0} /\ Size(o + 1) = 2 * Size(o)
  BY Sizes
<1>3. \A x, y : PagesOf(<<x, y>>) = x .. x + Size(y) - 1
  BY DEF PagesOf
<1>4. \A o \in order .. j - 1 : /\ o \in Nat /\ o \in Orders /\ o < j
                                /\ Size(o) + Size(o) <= Size(j)
                                /\ Size(order) <= Size(o)
  <2>1. TAKE o \in order .. j - 1
  <2>2. o \in Nat /\ o \in Orders /\ o < j /\ order <= o
    BY <1>1 DEF Orders
  <2> QED BY <2>2, <1>1, Sizes
<1>5. Size(order) <= Size(j)
  BY <1>1, Sizes
<1>6. PICK U : U = UpperHalves(a, order, j)
  OBVIOUS
<1>15. N = {<<a, order>>} \cup U
  BY <1>0, <1>6 DEF SplitParts
<1>7. \A b \in U : \E o \in order .. j - 1 : b = <<a + Size(o), o>>
  BY <1>6 DEF UpperHalves
<1>8. PagesOf(<<a, order>>) \subseteq PagesOf(<<a, j>>)
  <2>1. Size(order) \in Nat /\ Size(j) \in Nat
    BY <1>1, <1>2
  <2>2. /\ PagesOf(<<a, order>>) = a .. a + Size(order) - 1
        /\ PagesOf(<<a, j>>) = a .. a + Size(j) - 1
    BY <1>3
  <2> QED BY <1>1, <1>5, <2>1, <2>2
<1>9. ASSUME NEW o \in order .. j - 1
      PROVE  /\ PagesOf(<<a + Size(o), o>>) \subseteq PagesOf(<<a, j>>)
             /\ <<a + Size(o), o>> \in Blocks
             /\ PagesOf(<<a + Size(o), o>>) = a + Size(o) .. a + Size(o) + Size(o) - 1
  <2>1. Size(o) \in Nat \ {0} /\ Size(j) \in Nat /\ Size(o) + Size(o) <= Size(j)
    BY <1>1, <1>2, <1>4
  <2>2. PagesOf(<<a + Size(o), o>>) = a + Size(o) .. a + Size(o) + Size(o) - 1
    BY <1>3
  <2>3. PagesOf(<<a, j>>) = a .. a + Size(j) - 1
    BY <1>3
  <2>4. PagesOf(<<a + Size(o), o>>) \subseteq PagesOf(<<a, j>>)
    BY <1>1, <2>1, <2>2, <2>3
  <2>5. a + Size(o) \in PagesOf(<<a + Size(o), o>>)
    BY <1>1, <2>1, <2>2
  <2>6. a + Size(o) \in PageSet
    BY <2>4, <2>5
  <2> QED BY <1>4, <2>2, <2>4, <2>6 DEF Blocks
<1>10. <<a, order>> \notin U
  <2>1. \A o \in order .. j - 1 : a + Size(o) # a
    BY <1>1, <1>2, <1>4
  <2> QED BY <1>7, <2>1
<1>11. \A p \in PagesOf(<<a, order>>), o \in order .. j - 1 : p \notin PagesOf(<<a + Size(o), o>>)
  <2>1. TAKE p \in PagesOf(<<a, order>>), o \in order .. j - 1
  <2>2. p \in a .. a + Size(order) - 1
    BY <1>3
  <2>3. Size(order) \in Nat /\ Size(o) \in Nat /\ Size(order) <= Size(o)
    BY <1>1, <1>2, <1>4
  <2>4. PagesOf(<<a + Size(o), o>>) = a + Size(o) .. a + Size(o) + Size(o) - 1
    BY <1>9
  <2> QED BY <1>1, <2>2, <2>3, <2>4
<1>12. ASSUME NEW o \in order .. j - 1, NEW k \in order .. j - 1, NEW p,
              p \in PagesOf(<<a + Size(o), o>>), p \in PagesOf(<<a + Size(k), k>>)
       PROVE  ~(o < k)
  <2>1. p \in a + Size(o) .. a + Size(o) + Size(o) - 1
    BY <1>9, <1>12
  <2>2. p \in a + Size(k) .. a + Size(k) + Size(k) - 1
    BY <1>9, <1>12
  <2>3. Size(o) \in Nat /\ Size(k) \in Nat /\ (o < k => Size(o) + Size(o) <= Size(k))
    BY <1>2, <1>4, Sizes
  <2> QED BY <1>1, <2>1, <2>2, <2>3
<1>13. ASSUME NEW b \in N, NEW c \in N, NEW p \in PageSet, p \in PagesOf(b), p \in PagesOf(c)
       PROVE  b = c
  <2>1. CASE b = <<a, order>> /\ c = <<a, order>>
    BY <2>1
  <2>2. CASE b \in U /\ c \in U
    <3>1. PICK o \in order .. j - 1 : b = <<a + Size(o), o>>
      BY <2>2, <1>7
    <3>2. PICK k \in order .. j - 1 : c = <<a + Size(k), k>>
      BY <2>2, <1>7
    <3>3. ~(o < k) /\ ~(k < o)
      BY <1>12, <1>13, <3>1, <3>2
    <3>4. o = k
      BY <3>3, <1>4
    <3> QED BY <3>1, <3>2, <3>4
  <2>3. CASE b = <<a, order>> /\ c \in U
    BY <2>3, <1>7, <1>11, <1>13
  <2>4. CASE c = <<a, order>> /\ b \in U
    BY <2>4, <1>7, <1>11, <1>13
  <2> QED BY <2>1, <2>2, <2>3, <2>4, <1>15
<1>14. ASSUME NEW p \in PagesOf(<<a, j>>) PROVE \E b \in N : p \in PagesOf(b)
  <2>0. Size(order) \in Nat /\ Size(j) \in Nat
    BY <1>1, <1>2
  <2>1. p \in Nat /\ a <= p /\ p < a + Size(j)
    <3>1. p \in a .. a + Size(j) - 1
      BY <1>3, <1>14
    <3> QED BY <3>1, <1>1, <2>0
  <2>2. CASE p < a + Size(order)
    <3>1. p \in a .. a + Size(order) - 1
      BY <2>0, <2>1, <2>2, <1>1
    <3>2. p \in PagesOf(<<a, order>>)
      BY <3>1, <1>3
    <3> QED BY <3>2, <1>15
  <2>3. CASE ~(p < a + Size(order))
    <3>1. PICK S : S = {k \in Nat : order <= k /\ p < a + Size(k)}
      OBVIOUS
    <3>2. j \in S /\ S \in SUBSET Nat
      BY <2>1, <3>1, <1>1
    <3>3. PICK k \in S : \A x \in S : k <= x
      BY <3>2, LeastNat
    <3>4. k \in Nat /\ order <= k /\ p < a + Size(k) /\ k <= j /\ k # order
      BY <2>3, <3>1, <3>2, <3>3
    <3>5. PICK o : o = k - 1
      OBVIOUS
    <3>6. o \in order .. j - 1 /\ o \in Nat /\ k = o + 1 /\ ~(k <= o)
      BY <3>4, <3>5, <1>1
    <3>7. ~(p < a + Size(o))
      BY <3>1, <3>3, <3>6
    <3>8. Size(o) \in Nat /\ Size(k) = 2 * Size(o)
      BY <3>6, <1>2
    <3>9. p \in PagesOf(<<a + Size(o), o>>)
      BY <2>1, <3>4, <3>6, <3>7, <3>8, <1>1, <1>9
    <3>10. <<a + Size(o), o>> \in N
      BY <3>6, <1>6, <1>15 DEF UpperHalves
    <3> QED BY <3>9, <3>10
  <2> QED BY <2>2, <2>3
<1>16. <<a, order>> \in Blocks
  BY DEF Blocks
<1>17. \A b \in U : b \in Blocks /\ PagesOf(b) \subseteq PagesOf(<<a, j>>)
  BY <1>7, <1>9
<1> QED BY <1>0, <1>6, <1>8, <1>10, <1>13, <1>14, <1>15, <1>16, <1>17
(* The pages of one more free block, apart from the others.                 *)
LEMMA CountMore ==
  ASSUME NEW F, PagesIn(F) \subseteq PageSet,
         NEW x \in Blocks, PagesOf(x) \subseteq PageSet, PagesIn(F) \cap PagesOf(x) = {}
  PROVE  /\ Cardinality(PagesIn(F) \cup PagesOf(x)) = Cardinality(PagesIn(F)) + Size(x[2])
         /\ Cardinality(PagesIn(F)) \in Nat
<1>1. IsFiniteSet(PageSet)
  <2>1. 0 \in Int /\ NPages - 1 \in Int
    BY BlockFacts
  <2> QED BY <2>1, FS_Interval DEF PageSet
<1>2. IsFiniteSet(PagesIn(F)) /\ IsFiniteSet(PagesOf(x))
  BY <1>1, FS_Subset
<1>3. Cardinality(PagesOf(x)) = Size(x[2])
  <2>1. /\ x[1] \in Nat /\ Size(x[2]) \in Nat \ {0}
        /\ PagesOf(x) = x[1] .. x[1] + Size(x[2]) - 1
    BY BlockFacts
  <2>2. x[1] \in Int /\ x[1] + Size(x[2]) - 1 \in Int /\ ~(x[1] > x[1] + Size(x[2]) - 1)
    BY <2>1
  <2>3. Cardinality(PagesOf(x)) = (x[1] + Size(x[2]) - 1) - x[1] + 1
    BY <2>1, <2>2, FS_Interval
  <2> QED BY <2>1, <2>3
<1>4. Cardinality(PagesIn(F)) \in Nat /\ Size(x[2]) \in Nat
  BY <1>2, BlockFacts, FS_CardinalityType
<1>5. Cardinality(PagesIn(F) \cap PagesOf(x)) = 0
  BY FS_EmptySet
<1>6. Cardinality(PagesIn(F) \cup PagesOf(x))
        = Cardinality(PagesIn(F)) + Cardinality(PagesOf(x)) - Cardinality(PagesIn(F) \cap PagesOf(x))
  BY <1>2, FS_Union
<1> QED BY <1>3, <1>4, <1>5, <1>6

(* Some of the tiles hold managed pages, apart from those of the others.     *)
LEMMA TilePages ==
  ASSUME NEW R, Tiles(R), NEW F \in SUBSET R
  PROVE  /\ PagesIn(F) \subseteq PageSet
         /\ \A x \in R \ F : PagesIn(F) \cap PagesOf(x) = {} /\ PagesOf(x) \subseteq PageSet
BY DEF Tiles, PagesIn

(* pmm_alloc_page takes the head of the first list that is not empty.        *)
LEMMA HeadForFacts ==
  ASSUME NEW m \in PmmType, NEW order \in Orders, CanAllocPage(m, order),
         NEW h, h = HeadFor(m, order)
  PROVE  /\ h \in [j : Orders, addr : PageSet, rest : Seq(PageSet)]
         /\ order <= h.j
         /\ m.free_lists[h.j] # <<>>
         /\ h.addr = Head(m.free_lists[h.j]) /\ h.rest = Tail(m.free_lists[h.j])
<1>1. PICK S : S = ListsFor(m, order)
  OBVIOUS
<1>2. S \in SUBSET Nat /\ S # {}
  BY <1>1, BlockFacts DEF ListsFor, CanAllocPage, Orders
<1>3. PICK j : j = Min(S)
  OBVIOUS
<1>4. j \in S
  BY <1>2, <1>3, MinLeast
<1>5. j \in Orders /\ order <= j /\ m.free_lists[j] # <<>>
  BY <1>1, <1>4, BlockFacts DEF ListsFor, Orders
<1>6. h = [j |-> j, addr |-> Head(m.free_lists[j]), rest |-> Tail(m.free_lists[j])]
  BY <1>1, <1>3 DEF HeadFor
<1>7. m.free_lists[j] \in Seq(PageSet)
  BY <1>5, FreeBlock
<1>8. Head(m.free_lists[j]) \in PageSet /\ Tail(m.free_lists[j]) \in Seq(PageSet)
  BY <1>5, <1>7, HeadTailProperties
<1> QED BY <1>5, <1>6, <1>8

(* pmm_alloc_page takes a free block and leaves everything else tiled.      *)
LEMMA AllocRight ==
  ASSUME NEW m, NEW B, PmmRight(m, B), NEW order \in Orders, CanAllocPage(m, order),
         NEW x, x = <<HeadFor(m, order).addr, order>>
  PROVE  /\ x \in Blocks /\ x \notin B
         /\ \A b \in B : PagesOf(b) \cap PagesOf(x) = {}
         /\ PmmRight(pmm_alloc_page(m, order), B \cup {x})
<1>1. /\ m \in PmmType
      /\ \A o \in Orders : IsInjective(m.free_lists[o])
      /\ Tiles(FreeBlocks(m) \cup B)
      /\ FreeBlocks(m) \cap B = {}
      /\ m.free_pages = Cardinality(PagesIn(FreeBlocks(m)))
      /\ \A b \in B : m.page_metadata[b[1]] = b[2]
  BY DEF PmmRight
<1>2. PICK h : h = HeadFor(m, order)
  OBVIOUS
<1>3. PICK j : j = h.j
  OBVIOUS
<1>4. PICK a : a = h.addr
  OBVIOUS
<1>5. PICK L : L = m.free_lists
  OBVIOUS
<1>6. /\ j \in Orders /\ a \in PageSet /\ order <= j /\ L[j] # <<>>
      /\ a = Head(L[j]) /\ h.rest = Tail(L[j]) /\ x = <<a, order>>
  BY <1>1, <1>2, <1>3, <1>4, <1>5, HeadForFacts
<1>7. \A o \in Orders : L[o] \in Seq(PageSet) /\ Lists(L[o], Range(L[o]))
  BY <1>1, <1>5, FreeBlock DEF Lists
<1>8. PICK r : r = <<a, j>>
  OBVIOUS
<1>9. PICK F : F = FreeBlocks(m)
  OBVIOUS
<1>10. F \subseteq Blocks /\ \A y, o : <<y, o>> \in F <=> o \in Orders /\ y \in Range(L[o])
  BY <1>1, <1>5, <1>9, FreeBlock
<1>11. r \in F /\ r \in F \cup B /\ r \notin B
  <2>1. a \in Range(L[j])
    BY <1>6, <1>7, ListsTail
  <2> QED BY <2>1, <1>1, <1>6, <1>8, <1>9, <1>10
<1>12. PICK U : U = UpperHalves(a, order, j)
  OBVIOUS
<1>13. PICK N : N = {x} \cup U
  OBVIOUS
<1>14. /\ N \subseteq Blocks
       /\ \A b \in N : PagesOf(b) \subseteq PagesOf(r)
       /\ \A p \in PagesOf(r) : \E b \in N : p \in PagesOf(b)
       /\ \A b, c \in N : \A p \in PageSet : p \in PagesOf(b) /\ p \in PagesOf(c) => b = c
       /\ x \notin U
  <2>1. PagesOf(<<a, j>>) \subseteq PageSet
    BY <1>1, <1>8, <1>9, <1>11 DEF Tiles
  <2>2. N = SplitParts(a, order, j)
    BY <1>6, <1>12, <1>13 DEF SplitParts
  <2> QED BY <2>1, <2>2, <1>6, <1>8, <1>12, SplitTiles
<1>15. Tiles(((F \cup B) \ {r}) \cup N) /\ N \cap ((F \cup B) \ {r}) = {}
  BY <1>1, <1>9, <1>11, <1>14, ReplaceTile
<1>16. PICK m2 : m2 = pmm_alloc_page(m, order)
  OBVIOUS
<1>17. PICK L2 : L2 = Split(L, order, h)
  OBVIOUS
<1>18. m2 = [free_lists |-> L2,
             page_metadata |-> [m.page_metadata EXCEPT ![a] = order],
             free_pages |-> m.free_pages - Size(order)]
  BY <1>2, <1>4, <1>5, <1>16, <1>17 DEF pmm_alloc_page, Taken
<1>19. L2 = [o \in Orders |-> IF o = j THEN Tail(L[j])
                              ELSE IF o \in order .. j - 1 THEN <<a + Size(o)>> \o L[o]
                              ELSE L[o]]
  BY <1>3, <1>4, <1>6, <1>17 DEF Split
<1>20. j \notin order .. j - 1
  BY <1>6, BlockFacts
<1>21. ASSUME NEW o \in Orders
       PROVE  /\ L2[o] \in Seq(PageSet) /\ IsInjective(L2[o])
              /\ \A y : y \in Range(L2[o]) <=>
                          (<<y, o>> \in F /\ <<y, o>> # r) \/ <<y, o>> \in U
  <2>1. CASE o = j
    <3>1. L2[o] = Tail(L[j])
      BY <2>1, <1>19
    <3>2. L2[o] \in Seq(PageSet) /\ Lists(L2[o], Range(L[j]) \ {a})
      BY <3>1, <1>6, <1>7, ListsTail
    <3>3. \A y : <<y, o>> \notin U
      BY <2>1, <1>12, <1>20 DEF UpperHalves
    <3> QED BY <2>1, <3>2, <3>3, <1>8, <1>10 DEF Lists
  <2>2. CASE o \in order .. j - 1
    <3>1. L2[o] = <<a + Size(o)>> \o L[o] /\ o # j
      BY <2>2, <1>19, <1>20
    <3>2. <<a + Size(o), o>> \in U /\ \A y : <<y, o>> \in U => y = a + Size(o)
      BY <2>2, <1>12 DEF UpperHalves
    <3>3. <<a + Size(o), o>> \in Blocks /\ <<a + Size(o), o>> \notin (F \cup B) \ {r}
      BY <3>2, <1>13, <1>14, <1>15
    <3>4. a + Size(o) \in PageSet /\ a + Size(o) \notin Range(L[o])
      BY <3>1, <3>3, <1>8, <1>10 DEF Blocks
    <3>5. L2[o] \in Seq(PageSet) /\ Lists(L2[o], Range(L[o]) \cup {a + Size(o)})
      BY <3>1, <3>4, <1>7, ListsCons
    <3> QED BY <3>1, <3>2, <3>5, <1>8, <1>10 DEF Lists
  <2>3. CASE o # j /\ o \notin order .. j - 1
    <3>1. L2[o] = L[o]
      BY <2>3, <1>19
    <3>2. \A y : <<y, o>> \notin U
      BY <2>3, <1>12 DEF UpperHalves
    <3> QED BY <2>3, <3>1, <3>2, <1>7, <1>8, <1>10 DEF Lists
  <2> QED BY <2>1, <2>2, <2>3
<1>22. m2 \in PmmType
  <2>1. L2 \in [Orders -> Seq(PageSet)]
    <3>1. \A o \in Orders : L2[o] \in Seq(PageSet)
      BY <1>21
    <3> QED BY <3>1, <1>19
  <2>2. [m.page_metadata EXCEPT ![a] = order] \in [PageSet -> Orders \cup {NotTracked}]
    BY <1>1 DEF PmmType
  <2>3. m.free_pages - Size(order) \in Int
    BY <1>1, BlockFacts, Sizes DEF PmmType
  <2> QED BY <2>1, <2>2, <2>3, <1>18 DEF PmmType
<1>23. PICK F2 : F2 = FreeBlocks(m2)
  OBVIOUS
<1>24. F2 = (F \ {r}) \cup U
  <2>1. F2 \subseteq Blocks /\ \A y, o : <<y, o>> \in F2 <=> o \in Orders /\ y \in Range(L2[o])
    <3>1. m2.free_lists = L2
      BY <1>18
    <3> QED BY <3>1, <1>22, <1>23, FreeBlock
  <2>2. (F \ {r}) \cup U \subseteq Blocks
    BY <1>10, <1>13, <1>14
  <2>3. ASSUME NEW y \in PageSet, NEW o \in Orders
        PROVE  <<y, o>> \in F2 <=> <<y, o>> \in (F \ {r}) \cup U
    BY <2>1, <1>21
  <2> QED BY <2>1, <2>2, <2>3 DEF Blocks
<1>25. PICK R2 : R2 = F2 \cup (B \cup {x})
  OBVIOUS
<1>26. Tiles(R2)
  <2>1. R2 = ((F \cup B) \ {r}) \cup N
    BY <1>11, <1>13, <1>24, <1>25
  <2> QED BY <2>1, <1>15
<1>27. x \notin F2 /\ x \notin B
  <2>1. x \in N /\ x \notin (F \cup B) \ {r}
    BY <1>13, <1>15
  <2> QED BY <2>1, <1>11, <1>14, <1>24
<1>28. F2 \cap (B \cup {x}) = {}
  <2>1. U \cap ((F \cup B) \ {r}) = {}
    BY <1>13, <1>15
  <2> QED BY <2>1, <1>1, <1>9, <1>11, <1>24, <1>27
<1>29. x \in Blocks /\ x[2] = order /\ x[1] = a
  BY <1>6 DEF Blocks
<1>30. \A b \in B : PagesOf(b) \cap PagesOf(x) = {}
  <2>1. /\ x \in R2 /\ \A b \in B : b \in R2 /\ b # x
        /\ \A b \in R2 : PagesOf(b) \subseteq PageSet
        /\ \A b, c \in R2 : \A p \in PageSet : p \in PagesOf(b) /\ p \in PagesOf(c) => b = c
    BY <1>25, <1>26, <1>27 DEF Tiles
  <2> QED BY <2>1
<1>31. m2.free_pages = Cardinality(PagesIn(F2))
  <2>1. F2 \subseteq R2 /\ x \in R2 \ F2
    BY <1>25, <1>27
  <2>2. /\ PagesIn(F2) \subseteq PageSet /\ PagesIn(F2) \cap PagesOf(x) = {}
        /\ PagesOf(x) \subseteq PageSet
    BY <2>1, <1>26, TilePages
  <2>3. PagesIn(F) = PagesIn(F2) \cup PagesOf(x)
    <3>1. PagesOf(r) = PagesOf(x) \cup PagesIn(U)
      <4>1. \A p \in PagesOf(r) : p \in PagesOf(x) \/ p \in PagesIn(U)
        BY <1>13, <1>14 DEF PagesIn
      <4>2. \A b \in U : PagesOf(b) \subseteq PagesOf(r)
        BY <1>13, <1>14
      <4>3. PagesOf(x) \subseteq PagesOf(r)
        BY <1>13, <1>14
      <4> QED BY <4>1, <4>2, <4>3 DEF PagesIn
    <3>2. PagesIn(F) = PagesIn(F \ {r}) \cup PagesOf(r)
      BY <1>11 DEF PagesIn
    <3>3. PagesIn(F2) = PagesIn(F \ {r}) \cup PagesIn(U)
      BY <1>24 DEF PagesIn
    <3> QED BY <3>1, <3>2, <3>3
  <2>4. /\ Cardinality(PagesIn(F)) = Cardinality(PagesIn(F2)) + Size(order)
        /\ Cardinality(PagesIn(F2)) \in Nat
    BY <2>2, <2>3, <1>29, CountMore
  <2>5. m2.free_pages = Cardinality(PagesIn(F)) - Size(order) /\ Size(order) \in Nat
    BY <1>1, <1>9, <1>18, BlockFacts, Sizes
  <2> QED BY <2>4, <2>5
<1>32. \A b \in B \cup {x} : m2.page_metadata[b[1]] = b[2]
  <2>1. m2.page_metadata = [m.page_metadata EXCEPT ![a] = order]
    BY <1>18
  <2>2. m.page_metadata \in [PageSet -> Orders \cup {NotTracked}]
    BY <1>1 DEF PmmType
  <2>3. ASSUME NEW b \in B PROVE b[1] # a
    <3>1. b \in Blocks
      BY <1>1 DEF Tiles
    <3>2. b[1] \in PagesOf(b) /\ a \in PagesOf(x)
      BY <3>1, <1>29, BlockFacts
    <3> QED BY <3>2, <1>30
  <2>4. \A b \in B : m2.page_metadata[b[1]] = m.page_metadata[b[1]]
    <3>1. \A b \in B : b[1] \in PageSet
      BY <1>1, BlockFacts DEF Tiles
    <3> QED BY <2>1, <2>2, <2>3, <3>1
  <2>5. m2.page_metadata[a] = order
    BY <2>1, <2>2, <1>6
  <2> QED BY <2>4, <2>5, <1>1, <1>29
<1>33. \A o \in Orders : IsInjective(m2.free_lists[o])
  <2>1. m2.free_lists = L2
    BY <1>18
  <2> QED BY <2>1, <1>21
<1>34. PmmRight(m2, B \cup {x})
  BY <1>22, <1>23, <1>25, <1>26, <1>28, <1>31, <1>32, <1>33 DEF PmmRight
<1> QED BY <1>16, <1>27, <1>29, <1>30, <1>34

(* pmm_free_page gives a block back.                                        *)
LEMMA FreeRight ==
  ASSUME NEW m, NEW B, PmmRight(m, B), NEW b \in B
  PROVE  PmmRight(pmm_free_page(m, b[1], b[2]), B \ {b})
<1>1. /\ m \in PmmType
      /\ \A o \in Orders : IsInjective(m.free_lists[o])
      /\ Tiles(FreeBlocks(m) \cup B)
      /\ FreeBlocks(m) \cap B = {}
      /\ m.free_pages = Cardinality(PagesIn(FreeBlocks(m)))
      /\ \A c \in B : m.page_metadata[c[1]] = c[2]
  BY DEF PmmRight
<1>2. PICK a : a = b[1]
  OBVIOUS
<1>3. PICK k : k = b[2]
  OBVIOUS
<1>4. B \subseteq Blocks /\ b = <<a, k>> /\ a \in PageSet /\ k \in Orders
  <2>1. B \subseteq Blocks
    BY <1>1 DEF Tiles
  <2> QED BY <2>1, <1>2, <1>3, BlockFacts
<1>5. PICK L : L = m.free_lists
  OBVIOUS
<1>6. L \in [Orders -> Seq(PageSet)] /\ \A o \in Orders : Lists(L[o], Range(L[o]))
  BY <1>1, <1>5 DEF Lists, PmmType
<1>7. PICK F : F = FreeBlocks(m)
  OBVIOUS
<1>8. F \subseteq Blocks /\ \A y, o : <<y, o>> \in F <=> o \in Orders /\ y \in Range(L[o])
  BY <1>1, <1>5, <1>7, FreeBlock
<1>9. b \notin F /\ a \notin Range(L[k])
  BY <1>1, <1>4, <1>7, <1>8
<1>10. PICK m2 : m2 = pmm_free_page(m, b[1], b[2])
  OBVIOUS
<1>11. PICK L2 : L2 = [L EXCEPT ![k] = <<a>> \o @]
  OBVIOUS
<1>12. m2 = [free_lists |-> L2,
             page_metadata |-> [m.page_metadata EXCEPT ![a] = NotTracked],
             free_pages |-> m.free_pages + Size(k)]
  BY <1>2, <1>3, <1>5, <1>10, <1>11 DEF pmm_free_page
<1>13. /\ L2[k] \in Seq(PageSet) /\ Lists(L2[k], Range(L[k]) \cup {a})
       /\ \A o \in Orders \ {k} : L2[o] = L[o]
  <2>1. L2[k] = <<a>> \o L[k] /\ \A o \in Orders \ {k} : L2[o] = L[o]
    BY <1>4, <1>6, <1>11
  <2>2. L[k] \in Seq(PageSet) /\ Lists(L[k], Range(L[k]))
    BY <1>4, <1>6
  <2> QED BY <2>1, <2>2, <1>4, <1>9, ListsCons
<1>14. L2 \in [Orders -> Seq(PageSet)]
  <2>1. <<a>> \o L[k] \in Seq(PageSet)
    BY <1>4, <1>6, <1>9, ListsCons
  <2> QED BY <2>1, <1>6, <1>11
<1>15. m2 \in PmmType
  <2>1. [m.page_metadata EXCEPT ![a] = NotTracked] \in [PageSet -> Orders \cup {NotTracked}]
    BY <1>1 DEF PmmType
  <2>2. m.free_pages + Size(k) \in Int
    BY <1>1, <1>4, BlockFacts, Sizes DEF PmmType
  <2> QED BY <2>1, <2>2, <1>12, <1>14 DEF PmmType
<1>16. PICK F2 : F2 = FreeBlocks(m2)
  OBVIOUS
<1>17. F2 = F \cup {b}
  <2>1. F2 \subseteq Blocks /\ \A y, o : <<y, o>> \in F2 <=> o \in Orders /\ y \in Range(L2[o])
    <3>1. m2.free_lists = L2
      BY <1>12
    <3> QED BY <3>1, <1>15, <1>16, FreeBlock
  <2>2. F \cup {b} \subseteq Blocks
    BY <1>4, <1>8
  <2>3. ASSUME NEW y \in PageSet, NEW o \in Orders
        PROVE  <<y, o>> \in F2 <=> <<y, o>> \in F \cup {b}
    <3>1. CASE o = k
      BY <3>1, <2>1, <1>4, <1>8, <1>13 DEF Lists
    <3>2. CASE o # k
      BY <3>2, <2>1, <1>4, <1>8, <1>13
    <3> QED BY <3>1, <3>2
  <2> QED BY <2>1, <2>2, <2>3 DEF Blocks
<1>18. F2 \cup (B \ {b}) = F \cup B /\ F2 \cap (B \ {b}) = {}
  BY <1>1, <1>7, <1>17
<1>19. m2.free_pages = Cardinality(PagesIn(F2))
  <2>1. F \subseteq F \cup B /\ b \in (F \cup B) \ F
    BY <1>9
  <2>2. /\ PagesIn(F) \subseteq PageSet /\ PagesIn(F) \cap PagesOf(b) = {}
        /\ PagesOf(b) \subseteq PageSet
    BY <2>1, <1>1, <1>7, TilePages
  <2>3. PagesIn(F2) = PagesIn(F) \cup PagesOf(b)
    BY <1>17 DEF PagesIn
  <2>4. Cardinality(PagesIn(F2)) = Cardinality(PagesIn(F)) + Size(k)
    BY <2>2, <2>3, <1>3, <1>4, CountMore
  <2> QED BY <2>4, <1>1, <1>7, <1>12
<1>20. \A c \in B \ {b} : m2.page_metadata[c[1]] = c[2]
  <2>1. m2.page_metadata = [m.page_metadata EXCEPT ![a] = NotTracked]
    BY <1>12
  <2>2. m.page_metadata \in [PageSet -> Orders \cup {NotTracked}]
    BY <1>1 DEF PmmType
  <2>3. ASSUME NEW c \in B \ {b} PROVE c[1] # a /\ c[1] \in PageSet
    <3>1. c[1] \in PagesOf(c) /\ a \in PagesOf(b) /\ c[1] \in PageSet
      BY <1>2, <1>4, BlockFacts
    <3>2. \A p \in PageSet : p \in PagesOf(b) /\ p \in PagesOf(c) => b = c
      BY <1>1 DEF Tiles
    <3> QED BY <3>1, <3>2, <1>4
  <2> QED BY <2>1, <2>2, <2>3, <1>1
<1>21. \A o \in Orders : IsInjective(m2.free_lists[o])
  <2>1. m2.free_lists = L2
    BY <1>12
  <2> QED BY <2>1, <1>4, <1>6, <1>13 DEF Lists
<1> QED BY <1>1, <1>7, <1>10, <1>15, <1>16, <1>18, <1>19, <1>20, <1>21 DEF PmmRight
-----------------------------------------------------------------------------
(* The blocks pmm_init makes.  CoveredBy(o) is where those of order o and  *)
(* more end: each bit of the number of pages moves it by a block, or not.    *)
LEMMA Division ==
  ASSUME NEW n \in Nat, NEW b \in Nat \ {0}
  PROVE  /\ n \div b \in Nat /\ n % b \in 0 .. b - 1
         /\ n = b * (n \div b) + (n % b)
OBVIOUS

(* Quotient and remainder are determined.                                    *)
LEMMA DivisionUnique ==
  ASSUME NEW n \in Nat, NEW b \in Nat \ {0}, NEW q \in Nat, NEW r \in 0 .. b - 1, n = b * q + r
  PROVE  q = n \div b /\ r = n % b
OBVIOUS

CoveredBy(o) == NPages - (NPages % Size(o))

(* One bit of the number of pages.                                           *)
LEMMA Covered ==
  ASSUME NEW o \in Nat
  PROVE  /\ CoveredBy(o) \in Nat /\ CoveredBy(o) <= NPages
         /\ NPages < CoveredBy(o) + Size(o)
         /\ CoveredBy(o) = Size(o) * (NPages \div Size(o))
         /\ (NPages \div Size(o)) % 2 = 1 => CoveredBy(o + 1) + Size(o) = CoveredBy(o)
         /\ (NPages \div Size(o)) % 2 # 1 => CoveredBy(o + 1) = CoveredBy(o)
<1>1. PICK n : n = NPages
  OBVIOUS
<1>2. PICK b : b = Size(o)
  OBVIOUS
<1>0. PICK e : e = 2 * b
  OBVIOUS
<1>3. n \in Nat /\ b \in Nat \ {0} /\ Size(o + 1) = e /\ e \in Nat \ {0}
  BY <1>0, <1>1, <1>2, BlockFacts, Sizes
<1>4. PICK q : q = n \div b
  OBVIOUS
<1>5. PICK r : r = n % b
  OBVIOUS
<1>6. q \in Nat /\ r \in 0 .. b - 1 /\ n = b * q + r
  BY <1>3, <1>4, <1>5, Division
<1>7. PICK h : h = q \div 2
  OBVIOUS
<1>8. PICK d : d = q % 2
  OBVIOUS
<1>9. h \in Nat /\ d \in 0 .. 1 /\ q = 2 * h + d
  BY <1>6, <1>7, <1>8, Division
<1>10. CoveredBy(o) = n - r /\ CoveredBy(o + 1) = n - (n % e)
  BY <1>1, <1>2, <1>3, <1>5 DEF CoveredBy
<1>11. CASE d = 1
  <2>1. n = b * (2 * h + 1) + r
    BY <1>6, <1>9, <1>11
  <2>2. n = e * h + (b + r) /\ b + r \in 0 .. e - 1
    BY <2>1, <1>0, <1>3, <1>6, <1>9
  <2>3. b + r = n % e
    BY <2>2, <1>3, <1>9, DivisionUnique
  <2>4. CoveredBy(o + 1) + b = CoveredBy(o)
    BY <2>3, <1>3, <1>6, <1>10
  <2>5. /\ CoveredBy(o) \in Nat /\ CoveredBy(o) <= n /\ n < CoveredBy(o) + b
        /\ CoveredBy(o) = b * q
    BY <1>3, <1>6, <1>10
  <2>6. q % 2 = 1
    BY <1>8, <1>11
  <2> QED BY <2>4, <2>5, <2>6, <1>1, <1>2, <1>4
<1>12. CASE d = 0
  <2>1. n = b * (2 * h) + r
    BY <1>6, <1>9, <1>12
  <2>2. n = e * h + r /\ r \in 0 .. e - 1
    BY <2>1, <1>0, <1>3, <1>6, <1>9
  <2>3. r = n % e
    BY <2>2, <1>3, <1>9, DivisionUnique
  <2>4. CoveredBy(o + 1) = CoveredBy(o)
    BY <2>3, <1>10
  <2>5. /\ CoveredBy(o) \in Nat /\ CoveredBy(o) <= n /\ n < CoveredBy(o) + b
        /\ CoveredBy(o) = b * q
    BY <1>3, <1>6, <1>10
  <2>6. q % 2 # 1
    BY <1>8, <1>12
  <2> QED BY <2>4, <2>5, <2>6, <1>1, <1>2, <1>4
<1> QED BY <1>9, <1>11, <1>12

(* The larger blocks end before the smaller ones begin.                      *)
LEMMA CoveredFalls ==
  ASSUME NEW o \in Nat, NEW k \in Nat, o <= k
  PROVE  CoveredBy(k) <= CoveredBy(o)
<1>1. \A i \in Nat : /\ CoveredBy(i) \in Nat /\ CoveredBy(i + 1) <= CoveredBy(i)
  <2>1. TAKE i \in Nat
  <2>2. /\ i + 1 \in Nat /\ Size(i) \in Nat
    <3>1. Size(i) \in Nat
      BY Sizes
    <3> QED BY <3>1
  <2>3. CoveredBy(i) \in Nat /\ CoveredBy(i + 1) \in Nat
    BY <2>2, Covered
  <2> QED BY <2>2, <2>3, Covered
<1>2. PICK S : S = {i \in Nat : o <= i /\ ~(CoveredBy(i) <= CoveredBy(o))}
  OBVIOUS
<1>3. CASE S # {}
  <2>1. PICK i \in S : \A x \in S : i <= x
    BY <1>2, <1>3, LeastNat
  <2>2. i \in Nat /\ o <= i /\ ~(CoveredBy(i) <= CoveredBy(o)) /\ CoveredBy(o) \in Nat
    BY <1>1, <1>2
  <2>3. CASE i = o
    BY <2>2, <2>3
  <2>4. CASE i # o
    <3>1. i - 1 \in Nat /\ o <= i - 1 /\ (i - 1) + 1 = i /\ ~(i <= i - 1)
      BY <2>2, <2>4
    <3>2. CoveredBy(i - 1) <= CoveredBy(o)
      BY <1>2, <2>1, <3>1
    <3>3. /\ CoveredBy(i - 1) \in Nat /\ CoveredBy(i) \in Nat
          /\ CoveredBy(i) <= CoveredBy(i - 1)
      BY <1>1, <2>2, <3>1
    <3> QED BY <2>2, <3>2, <3>3
  <2> QED BY <2>3, <2>4
<1>4. CASE S = {}
  BY <1>2, <1>4
<1> QED BY <1>3, <1>4

(* The large blocks, by number. *)
LEMMA LargeFacts ==
  ASSUME NEW s, s = Size(MaxOrder), NEW l, l = LargeBlocks
  PROVE  /\ s \in Nat \ {0} /\ l \in Nat /\ l * s = CoveredBy(MaxOrder)
         /\ \A i, k \in Nat : /\ i * s \in Nat
                              /\ i < k => i * s + s <= k * s
         /\ \A p \in Nat : /\ p \div s \in Nat
                           /\ (p \div s) * s <= p /\ p < (p \div s) * s + s
<1>1. MaxOrder \in Nat /\ NPages \in Nat
  BY BlockFacts
<1>2. s \in Nat \ {0} /\ l \in Nat /\ l * s = CoveredBy(MaxOrder)
  <2>1. s \in Nat \ {0}
    BY <1>1, Sizes
  <2>2. l = NPages \div s /\ l \in Nat
    BY <1>1, <2>1, Division DEF LargeBlocks
  <2>3. CoveredBy(MaxOrder) = s * l
    BY <1>1, <2>2, Covered
  <2> QED BY <2>1, <2>2, <2>3
<1>3. ASSUME NEW i \in Nat, NEW k \in Nat, i < k PROVE i * s + s <= k * s
  <2>1. PICK d : d = k - (i + 1)
    OBVIOUS
  <2>2. d \in Nat /\ k = (i + 1) + d
    BY <1>3, <2>1
  <2>3. d * s \in Nat
    BY <1>2, <2>2
  <2>4. k * s = i * s + s + d * s
    BY <1>2, <2>2
  <2>5. i * s \in Nat
    BY <1>2
  <2> QED BY <2>3, <2>4, <2>5, <1>2
<1>4. \A i \in Nat : i * s \in Nat
  BY <1>2
<1>5. ASSUME NEW p \in Nat
      PROVE  /\ p \div s \in Nat
             /\ (p \div s) * s <= p /\ p < (p \div s) * s + s
  <2>1. /\ p \div s \in Nat /\ p % s \in 0 .. s - 1
        /\ p = s * (p \div s) + (p % s)
    BY <1>2, Division
  <2>2. PICK q : q = p \div s
    OBVIOUS
  <2>3. PICK r : r = p % s
    OBVIOUS
  <2>4. q \in Nat /\ r \in 0 .. s - 1 /\ p = q * s + r /\ q * s \in Nat
    <3>1. q \in Nat /\ r \in 0 .. s - 1 /\ p = s * q + r
      BY <2>1, <2>2, <2>3
    <3> QED BY <3>1, <1>2, <1>4
  <2> QED BY <2>2, <2>4, <1>2
<1> QED BY <1>2, <1>3, <1>4, <1>5
(* pmm_init puts every page in one block, of the order of the list.         *)
LEMMA InitRight == PmmRight(pmm_init, {})
<1>1. PICK m : m = pmm_init
  OBVIOUS
<1>2. PICK s : s = Size(MaxOrder)
  OBVIOUS
<1>3. PICK l : l = LargeBlocks
  OBVIOUS
<1>4. /\ s \in Nat \ {0} /\ l \in Nat /\ l * s = CoveredBy(MaxOrder)
      /\ \A i, k \in Nat : /\ i * s \in Nat
                           /\ i < k => i * s + s <= k * s
      /\ \A p \in Nat : /\ p \div s \in Nat
                        /\ (p \div s) * s <= p /\ p < (p \div s) * s + s
  BY <1>2, <1>3, LargeFacts
<1>5. MaxOrder \in Nat /\ NPages \in Nat /\ Orders \subseteq Nat /\ PageSet \subseteq Nat
  BY BlockFacts
<1>6. PICK L : L = InitialLists
  OBVIOUS
<1>7. PICK q : q = [i \in 1 .. l |-> (l - i) * s]
  OBVIOUS
<1>8. PICK Bits : Bits = {o \in Orders : o # MaxOrder /\ (NPages \div Size(o)) % 2 = 1}
  OBVIOUS
<1>9. \A o \in Bits : o \in Nat /\ o \in Orders /\ o < MaxOrder
  BY <1>5, <1>8 DEF Orders
<1>10. /\ L[MaxOrder] = q
       /\ \A o \in Bits : L[o] = <<CoveredBy(o + 1)>>
       /\ \A o \in Orders : o # MaxOrder /\ o \notin Bits => L[o] = <<>>
       /\ MaxOrder \in Orders /\ MaxOrder \notin Bits
  <2>1. MaxOrder \in Orders
    BY <1>5 DEF Orders
  <2> QED BY <2>1, <1>2, <1>3, <1>6, <1>7, <1>8, <1>9 DEF InitialLists, CoveredBy
<1>11. ASSUME NEW i \in 1 .. l
       PROVE  /\ l - i \in Nat /\ l - i < l
              /\ (l - i) * s \in Nat /\ (l - i) * s + s <= NPages /\ (l - i) * s \in PageSet
  <2>1. l - i \in Nat /\ l - i < l
    BY <1>4
  <2>2. (l - i) * s \in Nat /\ (l - i) * s + s <= l * s
    BY <2>1, <1>4
  <2>3. l * s <= NPages /\ l * s \in Nat
    BY <1>4, <1>5, Covered
  <2> QED BY <2>1, <2>2, <2>3, <1>4, <1>5 DEF PageSet
<1>12. ASSUME NEW o \in Bits
       PROVE  /\ CoveredBy(o + 1) + Size(o) = CoveredBy(o) /\ CoveredBy(o) <= NPages
              /\ CoveredBy(o + 1) \in PageSet /\ CoveredBy(o) \in Nat
              /\ Size(o) \in Nat \ {0}
  <2>1. o \in Nat /\ o + 1 \in Nat /\ (NPages \div Size(o)) % 2 = 1
    BY <1>8, <1>9
  <2>2. Size(o) \in Nat \ {0}
    BY <2>1, Sizes
  <2>3. /\ CoveredBy(o + 1) \in Nat /\ CoveredBy(o) \in Nat /\ CoveredBy(o) <= NPages
        /\ CoveredBy(o + 1) + Size(o) = CoveredBy(o)
    BY <2>1, Covered
  <2> QED BY <2>2, <2>3, <1>5 DEF PageSet
<1>13. /\ q \in Seq(PageSet) /\ IsInjective(q)
       /\ Range(q) = {(l - i) * s : i \in 1 .. l}
  <2>1. q \in [1 .. l -> PageSet] /\ DOMAIN q = 1 .. l
    BY <1>7, <1>11
  <2>2. q \in Seq(PageSet)
    BY <2>1, <1>4 DEF Seq
  <2>3. ASSUME NEW i \in 1 .. l, NEW k \in 1 .. l, q[i] = q[k] PROVE i = k
    <3>1. (l - i) * s = (l - k) * s
      BY <2>3, <1>7
    <3>2. /\ l - i \in Nat /\ l - k \in Nat /\ (l - i) * s \in Nat /\ (l - k) * s \in Nat
      BY <1>4, <1>11
    <3>3. ~(l - i < l - k) /\ ~(l - k < l - i)
      BY <3>1, <3>2, <1>4
    <3> QED BY <3>2, <3>3, <1>4
  <2>4. IsInjective(q)
    BY <2>1, <2>3 DEF IsInjective
  <2> QED BY <2>1, <2>2, <2>4, <1>7 DEF Range
<1>14. ASSUME NEW o \in Orders
       PROVE  L[o] \in Seq(PageSet) /\ IsInjective(L[o])
  <2>1. CASE o = MaxOrder
    BY <2>1, <1>10, <1>13
  <2>2. CASE o \in Bits
    <3>1. CoveredBy(o + 1) \in PageSet /\ L[o] = <<CoveredBy(o + 1)>>
      BY <2>2, <1>10, <1>12
    <3>2. PICK y : y = CoveredBy(o + 1)
      OBVIOUS
    <3>3. <<y>> \in Seq(PageSet) /\ IsInjective(<<y>>)
      BY <3>1, <3>2 DEF IsInjective
    <3> QED BY <3>1, <3>2, <3>3
  <2>3. CASE o # MaxOrder /\ o \notin Bits
    BY <2>3, <1>10, ListsNothing DEF Lists
  <2> QED BY <2>1, <2>2, <2>3
<1>15. m = [free_lists |-> L, page_metadata |-> [p \in PageSet |-> NotTracked],
            free_pages |-> NPages]
  BY <1>1, <1>6 DEF pmm_init
<1>16. m \in PmmType
  <2>1. L \in [Orders -> Seq(PageSet)]
    <3>1. \A o \in Orders : L[o] \in Seq(PageSet)
      BY <1>14
    <3> QED BY <3>1, <1>6 DEF InitialLists
  <2> QED BY <2>1, <1>5, <1>15 DEF PmmType
<1>17. PICK F : F = FreeBlocks(m)
  OBVIOUS
<1>18. /\ F \subseteq Blocks
       /\ \A i \in 1 .. l : <<(l - i) * s, MaxOrder>> \in F
       /\ \A o \in Bits : <<CoveredBy(o + 1), o>> \in F
       /\ \A b \in F : \/ \E i \in 1 .. l : b = <<(l - i) * s, MaxOrder>>
                       \/ \E o \in Bits : b = <<CoveredBy(o + 1), o>>
  <2>1. F \subseteq Blocks /\ \A y, o : <<y, o>> \in F <=> o \in Orders /\ y \in Range(L[o])
    <3>1. m.free_lists = L
      BY <1>15
    <3> QED BY <3>1, <1>16, <1>17, FreeBlock
  <2>2. \A o \in Bits : Range(L[o]) = {CoveredBy(o + 1)}
    <3>1. TAKE o \in Bits
    <3>2. PICK y : y = CoveredBy(o + 1)
      OBVIOUS
    <3>3. Range(<<y>>) = {y}
      BY DEF Range
    <3> QED BY <3>2, <3>3, <1>10
  <2>3. \A o \in Orders : o # MaxOrder /\ o \notin Bits => Range(L[o]) = {}
    BY <1>10, ListsNothing
  <2>4. Range(L[MaxOrder]) = {(l - i) * s : i \in 1 .. l}
    BY <1>10, <1>13
  <2>5. ASSUME NEW b \in F
        PROVE  \/ \E i \in 1 .. l : b = <<(l - i) * s, MaxOrder>>
               \/ \E o \in Bits : b = <<CoveredBy(o + 1), o>>
    <3>1. b = <<b[1], b[2]>> /\ b[2] \in Orders /\ b[1] \in Range(L[b[2]])
      BY <2>1, BlockFacts
    <3>2. CASE b[2] = MaxOrder
      BY <3>1, <3>2, <2>4
    <3>3. CASE b[2] \in Bits
      BY <3>1, <3>3, <2>2
    <3> QED BY <3>1, <3>2, <3>3, <2>3
  <2>6. \A i \in 1 .. l : <<(l - i) * s, MaxOrder>> \in F
    BY <2>1, <2>4, <1>10
  <2>7. \A o \in Bits : <<CoveredBy(o + 1), o>> \in F
    BY <2>1, <2>2, <1>9
  <2> QED BY <2>1, <2>5, <2>6, <2>7
<1>19. /\ \A i \in 1 .. l : PagesOf(<<(l - i) * s, MaxOrder>>) = (l - i) * s .. (l - i) * s + s - 1
       /\ \A o \in Bits : PagesOf(<<CoveredBy(o + 1), o>>) = CoveredBy(o + 1) .. CoveredBy(o) - 1
  <2>1. \A x, y : PagesOf(<<x, y>>) = x .. x + Size(y) - 1
    BY DEF PagesOf
  <2>2. \A o \in Bits : CoveredBy(o + 1) + Size(o) - 1 = CoveredBy(o) - 1
    <3>1. TAKE o \in Bits
    <3>2. /\ CoveredBy(o + 1) + Size(o) = CoveredBy(o)
          /\ CoveredBy(o + 1) \in Nat /\ Size(o) \in Nat
      BY <1>5, <1>12
    <3> QED BY <3>2
  <2> QED BY <2>1, <2>2, <1>2
<1>20. \A i \in 1 .. l : \A p \in PagesOf(<<(l - i) * s, MaxOrder>>) :
         p \in PageSet /\ p < CoveredBy(MaxOrder)
  <2>1. TAKE i \in 1 .. l
  <2>2. TAKE p \in PagesOf(<<(l - i) * s, MaxOrder>>)
  <2>3. p \in (l - i) * s .. (l - i) * s + s - 1
    BY <1>19
  <2>4. /\ (l - i) * s \in Nat /\ (l - i) * s + s <= l * s /\ (l - i) * s + s <= NPages
        /\ l * s \in Nat
    BY <1>4, <1>11
  <2> QED BY <2>3, <2>4, <1>4, <1>5 DEF PageSet
<1>21. \A o \in Bits : \A p \in PagesOf(<<CoveredBy(o + 1), o>>) :
         /\ p \in PageSet /\ CoveredBy(MaxOrder) <= p
         /\ CoveredBy(o + 1) <= p /\ p < CoveredBy(o)
  <2>1. TAKE o \in Bits
  <2>2. TAKE p \in PagesOf(<<CoveredBy(o + 1), o>>)
  <2>3. p \in CoveredBy(o + 1) .. CoveredBy(o) - 1
    BY <1>19
  <2>4. o + 1 \in Nat /\ o + 1 <= MaxOrder
    BY <1>5, <1>9
  <2>5. CoveredBy(MaxOrder) <= CoveredBy(o + 1) /\ CoveredBy(MaxOrder) \in Nat
    BY <2>4, <1>5, CoveredFalls, Covered
  <2>6. CoveredBy(o + 1) \in Nat /\ CoveredBy(o) \in Nat /\ CoveredBy(o) <= NPages
    BY <1>5, <1>12
  <2> QED BY <2>3, <2>5, <2>6, <1>5 DEF PageSet
<1>22. \A b \in F : PagesOf(b) \subseteq PageSet
  BY <1>18, <1>20, <1>21
<1>23. ASSUME NEW p \in PageSet PROVE \E b \in F : p \in PagesOf(b)
  <2>1. p \in Nat /\ p < NPages
    BY <1>5 DEF PageSet
  <2>2. CASE p < CoveredBy(MaxOrder)
    <3>1. PICK k : k = p \div s
      OBVIOUS
    <3>2. k \in Nat /\ k * s <= p /\ p < k * s + s /\ k * s \in Nat
      BY <2>1, <3>1, <1>4
    <3>3. k < l
      <4>1. CASE l < k
        <5>1. l * s + s <= k * s /\ l * s \in Nat
          BY <4>1, <3>2, <1>4
        <5> QED BY <5>1, <2>1, <2>2, <3>2, <1>4
      <4>2. CASE l = k
        <5>1. k * s = CoveredBy(MaxOrder)
          BY <4>2, <1>4
        <5> QED BY <5>1, <2>1, <2>2, <3>2
      <4> QED BY <4>1, <4>2, <3>2, <1>4
    <3>4. PICK i : i = l - k
      OBVIOUS
    <3>5. i \in 1 .. l /\ l - i = k
      BY <3>2, <3>3, <3>4, <1>4
    <3>6. p \in PagesOf(<<(l - i) * s, MaxOrder>>)
      <4>1. p \in k * s .. k * s + s - 1
        BY <3>2, <2>1, <1>4
      <4>2. PagesOf(<<(l - i) * s, MaxOrder>>) = (l - i) * s .. (l - i) * s + s - 1
        BY <3>5, <1>19
      <4> QED BY <4>1, <4>2, <3>5
    <3> QED BY <3>5, <3>6, <1>18
  <2>3. CASE ~(p < CoveredBy(MaxOrder))
    <3>1. PICK S : S = {k \in Nat : CoveredBy(k) <= p}
      OBVIOUS
    <3>2. CoveredBy(MaxOrder) \in Nat
      BY <1>5, Covered
    <3>3. MaxOrder \in S /\ S \in SUBSET Nat
      BY <2>1, <2>3, <3>1, <3>2, <1>5
    <3>4. PICK k \in S : \A x \in S : k <= x
      BY <3>3, LeastNat
    <3>5. k \in Nat /\ CoveredBy(k) <= p /\ k <= MaxOrder
      BY <3>1, <3>3, <3>4
    <3>6. k # 0
      <4>1. CoveredBy(0) = NPages
        <5>1. Size(0) = 1
          BY Sizes
        <5>2. NPages % 1 = 0
          BY <1>5
        <5> QED BY <5>1, <5>2, <1>5 DEF CoveredBy
      <4> QED BY <4>1, <3>5, <2>1, <1>5
    <3>7. PICK o : o = k - 1
      OBVIOUS
    <3>8. o \in Nat /\ o + 1 = k /\ o < MaxOrder /\ ~(k <= o)
      BY <3>5, <3>6, <3>7, <1>5
    <3>9. ~(CoveredBy(o) <= p) /\ CoveredBy(o) \in Nat /\ CoveredBy(o + 1) \in Nat
      BY <3>1, <3>4, <3>5, <3>8, Covered
    <3>10. (NPages \div Size(o)) % 2 = 1
      BY <3>5, <3>8, <3>9, Covered
    <3>11. o \in Bits
      BY <3>8, <3>10, <1>5, <1>8 DEF Orders
    <3>12. p \in PagesOf(<<CoveredBy(o + 1), o>>)
      BY <3>5, <3>8, <3>9, <3>11, <2>1, <1>19
    <3> QED BY <3>11, <3>12, <1>18
  <2> QED BY <2>2, <2>3
<1>24. \A i, k \in 1 .. l :
         \A p \in PageSet : /\ p \in PagesOf(<<(l - i) * s, MaxOrder>>)
                            /\ p \in PagesOf(<<(l - k) * s, MaxOrder>>)
                            => ~(i < k)
  <2>1. TAKE i, k \in 1 .. l
  <2>2. TAKE p \in PageSet
  <2>3. HAVE /\ p \in PagesOf(<<(l - i) * s, MaxOrder>>)
             /\ p \in PagesOf(<<(l - k) * s, MaxOrder>>)
  <2>4. p \in (l - i) * s .. (l - i) * s + s - 1 /\ p \in (l - k) * s .. (l - k) * s + s - 1
    BY <2>3, <1>19
  <2>5. l - i \in Nat /\ l - k \in Nat /\ (l - i) * s \in Nat /\ (l - k) * s \in Nat
    BY <1>11
  <2>6. l - k < l - i => (l - k) * s + s <= (l - i) * s
    BY <2>5, <1>4
  <2> QED BY <2>4, <2>5, <2>6, <1>4
<1>25. \A o, k \in Bits :
         \A p \in PageSet : /\ p \in PagesOf(<<CoveredBy(o + 1), o>>)
                            /\ p \in PagesOf(<<CoveredBy(k + 1), k>>)
                            => ~(o < k)
  <2>1. TAKE o, k \in Bits
  <2>2. TAKE p \in PageSet
  <2>3. HAVE /\ p \in PagesOf(<<CoveredBy(o + 1), o>>)
             /\ p \in PagesOf(<<CoveredBy(k + 1), k>>)
  <2>4. CoveredBy(o + 1) <= p /\ p < CoveredBy(k)
    BY <2>3, <1>21
  <2>5. o \in Nat /\ k \in Nat /\ (o < k => CoveredBy(k) <= CoveredBy(o + 1))
    BY <1>9, CoveredFalls
  <2>6. CoveredBy(o + 1) \in Nat /\ CoveredBy(k) \in Nat /\ p \in Nat
    BY <2>5, <1>5, Covered
  <2> QED BY <2>4, <2>5, <2>6
<1>26. ASSUME NEW b \in F, NEW c \in F, NEW p \in PageSet, p \in PagesOf(b), p \in PagesOf(c)
       PROVE  b = c
  <2>0. p \in Nat /\ CoveredBy(MaxOrder) \in Nat
    BY <1>5, Covered
  <2>1. CASE (\E i \in 1 .. l : b = <<(l - i) * s, MaxOrder>>)
             /\ \E k \in 1 .. l : c = <<(l - k) * s, MaxOrder>>
    <3>1. PICK i \in 1 .. l : b = <<(l - i) * s, MaxOrder>>
      BY <2>1
    <3>2. PICK k \in 1 .. l : c = <<(l - k) * s, MaxOrder>>
      BY <2>1
    <3>3. ~(i < k) /\ ~(k < i)
      BY <3>1, <3>2, <1>24, <1>26
    <3>4. i = k
      BY <3>3, <1>4
    <3> QED BY <3>1, <3>2, <3>4
  <2>2. CASE (\E o \in Bits : b = <<CoveredBy(o + 1), o>>)
             /\ \E k \in Bits : c = <<CoveredBy(k + 1), k>>
    <3>1. PICK o \in Bits : b = <<CoveredBy(o + 1), o>>
      BY <2>2
    <3>2. PICK k \in Bits : c = <<CoveredBy(k + 1), k>>
      BY <2>2
    <3>3. ~(o < k) /\ ~(k < o)
      BY <3>1, <3>2, <1>25, <1>26
    <3>4. o = k
      BY <3>3, <1>9
    <3> QED BY <3>1, <3>2, <3>4
  <2>3. CASE (\E i \in 1 .. l : b = <<(l - i) * s, MaxOrder>>)
             /\ \E k \in Bits : c = <<CoveredBy(k + 1), k>>
    BY <2>0, <2>3, <1>20, <1>21, <1>26
  <2>4. CASE (\E i \in 1 .. l : c = <<(l - i) * s, MaxOrder>>)
             /\ \E k \in Bits : b = <<CoveredBy(k + 1), k>>
    BY <2>0, <2>4, <1>20, <1>21, <1>26
  <2> QED BY <2>1, <2>2, <2>3, <2>4, <1>18
<1>27. Tiles(F)
  BY <1>18, <1>22, <1>23, <1>26 DEF Tiles
<1>28. m.free_pages = Cardinality(PagesIn(F))
  <2>1. PagesIn(F) = PageSet
    BY <1>22, <1>23 DEF PagesIn
  <2>2. 0 \in Int /\ NPages - 1 \in Int
    BY <1>5
  <2>3. Cardinality(PageSet) = NPages
    <3>1. Cardinality(0 .. NPages - 1) = IF 0 > NPages - 1 THEN 0 ELSE (NPages - 1) - 0 + 1
      BY <2>2, FS_Interval
    <3> QED BY <3>1, <1>5 DEF PageSet
  <2> QED BY <2>1, <2>3, <1>15
<1>29. /\ \A o \in Orders : IsInjective(m.free_lists[o])
       /\ F \cup {} = F /\ F \cap {} = {}
  <2>1. m.free_lists = L
    BY <1>15
  <2> QED BY <2>1, <1>14
<1> QED BY <1>1, <1>16, <1>17, <1>27, <1>28, <1>29 DEF PmmRight
-----------------------------------------------------------------------------
(* Slabs.                                                                   *)

(* An object of a page is out when its pair is in use.                       *)
LEMMA OutOfIn ==
  ASSUME NEW used \in SUBSET (PageSet \X Nat), NEW pg, NEW i
  PROVE  (i \in OutOf(pg, used)) = (<<pg, i>> \in used)
<1>1. \A u \in used : u = <<u[1], u[2]>>
  OBVIOUS
<1>2. i \in OutOf(pg, used) <=> \E u \in used : u[1] = pg /\ u[2] = i
  BY DEF OutOf
<1>3. (\E u \in used : u[1] = pg /\ u[2] = i) <=> <<pg, i>> \in used
  BY <1>1
<1> QED BY <1>2, <1>3

(* One more object in use.                                                   *)
LEMMA OutOfMore ==
  ASSUME NEW used \in SUBSET (PageSet \X Nat), NEW pg \in PageSet, NEW i \in Nat, NEW q, NEW k
  PROVE  k \in OutOf(q, used \cup {<<pg, i>>})
           <=> k \in OutOf(q, used) \/ (q = pg /\ k = i)
<1>1. PICK more : more = used \cup {<<pg, i>>}
  OBVIOUS
<1>2. more \in SUBSET (PageSet \X Nat)
  BY <1>1
<1>3. /\ (k \in OutOf(q, more)) = (<<q, k>> \in more)
      /\ (k \in OutOf(q, used)) = (<<q, k>> \in used)
  BY <1>2, OutOfIn
<1>4. <<q, k>> = <<pg, i>> <=> q = pg /\ k = i
  OBVIOUS
<1> QED BY <1>1, <1>3, <1>4

(* One object less in use.                                                   *)
LEMMA OutOfLess ==
  ASSUME NEW used \in SUBSET (PageSet \X Nat), NEW pg \in PageSet, NEW i \in Nat, NEW q, NEW k
  PROVE  k \in OutOf(q, used \ {<<pg, i>>})
           <=> k \in OutOf(q, used) /\ ~(q = pg /\ k = i)
<1>1. PICK less : less = used \ {<<pg, i>>}
  OBVIOUS
<1>2. less \in SUBSET (PageSet \X Nat)
  BY <1>1
<1>3. /\ (k \in OutOf(q, less)) = (<<q, k>> \in less)
      /\ (k \in OutOf(q, used)) = (<<q, k>> \in used)
  BY <1>2, OutOfIn
<1>4. <<q, k>> = <<pg, i>> <=> q = pg /\ k = i
  OBVIOUS
<1> QED BY <1>1, <1>3, <1>4

Changed(used, used2, pg, O) ==
  /\ OutOf(pg, used2) = O
  /\ \A q : q # pg => OutOf(q, used2) = OutOf(q, used)

(* Only the page of that object changes, when it goes out ...                *)
LEMMA TakenOut ==
  ASSUME NEW used \in SUBSET (PageSet \X Nat), NEW pg \in PageSet, NEW i \in Nat
  PROVE  Changed(used, used \cup {<<pg, i>>}, pg, OutOf(pg, used) \cup {i})
<1>1. PICK more : more = used \cup {<<pg, i>>}
  OBVIOUS
<1>4. ASSUME NEW q, NEW k
      PROVE  k \in OutOf(q, more) <=> (k \in OutOf(q, used) \/ (q = pg /\ k = i))
  BY <1>1, OutOfMore
<1>5. OutOf(pg, more) = OutOf(pg, used) \cup {i}
  <2>1. \A k : k \in OutOf(pg, more) <=> k \in OutOf(pg, used) \cup {i}
    BY <1>4
  <2> QED BY <2>1
<1>7. ASSUME NEW q, q # pg PROVE  OutOf(q, more) = OutOf(q, used)
  <2>1. \A k : k \in OutOf(q, more) <=> k \in OutOf(q, used)
    BY <1>4, <1>7
  <2> QED BY <2>1
<1> QED BY <1>1, <1>5, <1>7 DEF Changed

(* ... and when it comes back.                                               *)
LEMMA PutBack ==
  ASSUME NEW used \in SUBSET (PageSet \X Nat), NEW pg \in PageSet, NEW i \in Nat
  PROVE  Changed(used, used \ {<<pg, i>>}, pg, OutOf(pg, used) \ {i})
<1>1. PICK less : less = used \ {<<pg, i>>}
  OBVIOUS
<1>4. ASSUME NEW q, NEW k
      PROVE  k \in OutOf(q, less) <=> (k \in OutOf(q, used) /\ ~(q = pg /\ k = i))
  BY <1>1, OutOfLess
<1>5. OutOf(pg, less) = OutOf(pg, used) \ {i}
  <2>1. \A k : k \in OutOf(pg, less) <=> k \in OutOf(pg, used) \ {i}
    BY <1>4
  <2> QED BY <2>1
<1>7. ASSUME NEW q, q # pg PROVE  OutOf(q, less) = OutOf(q, used)
  <2>1. \A k : k \in OutOf(q, less) <=> k \in OutOf(q, used)
    BY <1>4, <1>7
  <2> QED BY <2>1
<1> QED BY <1>1, <1>5, <1>7 DEF Changed

(* A slab's free list is short by the objects that are out.                 *)
LEMMA SlabCount ==
  ASSUME NEW k \in Nat, NEW O \in SUBSET (1 .. k), NEW T, NEW f \in Seq(T),
         Lists(f, (1 .. k) \ O)
  PROVE  /\ IsFiniteSet(O) /\ Len(f) \in Nat /\ Len(f) + Cardinality(O) = k
         /\ Len(f) <= k /\ (O # {} => Len(f) < k)
<1>1. IsFiniteSet(1 .. k) /\ Cardinality(1 .. k) = k
  BY FS_Interval
<1>2. IsFiniteSet(O) /\ Cardinality(O) \in Nat
  BY <1>1, FS_Subset, FS_CardinalityType
<1>3. (1 .. k) \cap O = O
  OBVIOUS
<1>4. Cardinality((1 .. k) \ O) = k - Cardinality(O)
  <2>1. PICK I : I = 1 .. k
    OBVIOUS
  <2>2. IsFiniteSet(I) /\ I \cap O = O /\ Cardinality(I) = k
    BY <2>1, <1>1, <1>3, Zenon
  <2>3. Cardinality(I \ O) = Cardinality(I) - Cardinality(I \cap O)
    BY <2>2, <1>2, FS_Difference, Zenon
  <2> QED BY <2>1, <2>2, <2>3, Zenon
<1>5. Len(f) = Cardinality((1 .. k) \ O) /\ Len(f) \in Nat
  BY ListsLen, ListsDomain
<1>6. O # {} => Cardinality(O) # 0
  BY <1>2, FS_EmptySet
<1> QED BY <1>2, <1>4, <1>5, <1>6

(* The count of a slab with a free object can be lowered.                    *)
LEMMA OneLess ==
  ASSUME NEW n \in Nat, n # 0
  PROVE  n - 1 \in Nat
OBVIOUS

(* One slab header is written, the others stay.                              *)
LEMMA NewSlab ==
  ASSUME NEW sl \in [PageSet -> SlabType], NEW pg \in PageSet, NEW r \in SlabType
  PROVE  /\ [sl EXCEPT ![pg] = r] \in [PageSet -> SlabType]
         /\ [sl EXCEPT ![pg] = r][pg] = r
         /\ \A q \in PageSet : q # pg => [sl EXCEPT ![pg] = r][q] = sl[q]
OBVIOUS

(* What the lists of a cache hold depends on the slabs of that cache only.  *)
LEMMA SameLists ==
  ASSUME NEW l, NEW c, NEW sl, NEW sl2, NEW mg, NEW mg2, ListsHold(l, c, sl, mg),
         mg \subseteq mg2, \A q \in mg2 \ mg : sl2[q].cache # c,
         \A q \in mg : sl2[q].cache = sl[q].cache,
         \A q \in mg : sl[q].cache = c => sl2[q].free_count = sl[q].free_count
  PROVE  ListsHold(l, c, sl2, mg2)
<1>1. FullOf(c, sl2, mg2) = FullOf(c, sl, mg) /\ OpenOf(c, sl2, mg2) = OpenOf(c, sl, mg)
  BY DEF FullOf, OpenOf
<1>2. \A pg \in Range(l.empty) : sl2[pg].free_count = sl[pg].free_count
  BY DEF ListsHold, OpenOf
<1> QED BY <1>1, <1>2 DEF ListsHold

(* slab_cache_alloc after the choice of slab pg: its first object goes out. *)
Chosen(ls, sl, mg, used, pg) ==
  /\ SlabsRight(ls, sl, mg, used) /\ pg \in mg
  /\ ls[sl[pg].cache].partial # <<>>
  /\ pg = Head(ls[sl[pg].cache].partial)

First(sl, pg) == Head(sl[pg].free_list)
TakeFirst(sl, pg) == Unlinked(sl, pg, Tail(sl[pg].free_list))

(* The object was not in use, and the slabs stay right without it.           *)
LEMMA TakeKeeps ==
  ASSUME NEW ls, NEW sl, NEW mg, NEW used, NEW pg, Chosen(ls, sl, mg, used, pg)
  PROVE  /\ pg \in PageSet /\ sl[pg].cache \in Caches
         /\ First(sl, pg) \in 1 .. Objs[sl[pg].cache] /\ First(sl, pg) \in Nat
         /\ Tail(sl[pg].free_list) \in Seq(Nat) /\ <<pg, First(sl, pg)>> \notin used
         /\ SlabsRight(Emptied(ls, TakeFirst(sl, pg), pg), TakeFirst(sl, pg), mg,
                       used \cup {<<pg, First(sl, pg)>>})
<1>a. PICK c : c = sl[pg].cache
  OBVIOUS
<1>b. PICK f : f = sl[pg].free_list
  OBVIOUS
<1>c. PICK obj : obj = First(sl, pg)
  OBVIOUS
<1>d. PICK sl2 : sl2 = TakeFirst(sl, pg)
  OBVIOUS
<1>e. PICK ls2 : ls2 = Emptied(ls, sl2, pg)
  OBVIOUS
<1>f. /\ obj = Head(f) /\ sl2 = Unlinked(sl, pg, Tail(f))
      /\ pg \in mg /\ ls[c].partial # <<>> /\ pg = Head(ls[c].partial)
  BY <1>a, <1>b, <1>c, <1>d DEF Chosen, First, TakeFirst
<1>1. /\ mg \subseteq PageSet
      /\ ls \in [Caches -> ListType] /\ sl \in [PageSet -> SlabType]
      /\ used \subseteq mg \X Nat
      /\ \A d \in Caches : ListsHold(ls[d], d, sl, mg)
      /\ \A q \in mg : SlabHolds(q, sl, used)
      /\ \A q \in PageSet \ mg : sl[q].cache = NoCache
  BY DEF SlabsRight, Chosen
<1>2. PICK k : k = Objs[c]
  OBVIOUS
<1>3. PICK O : O = OutOf(pg, used)
  OBVIOUS
<1>4. PICK n : n = sl[pg].free_count
  OBVIOUS
<1>5. /\ pg \in PageSet /\ c \in Caches /\ O \subseteq 1 .. k
      /\ Lists(f, (1 .. k) \ O) /\ n = Len(f) /\ f \in Seq(Nat) /\ n \in Nat
  <2>1. SlabHolds(pg, sl, used) /\ sl[pg] \in SlabType
    BY <1>1, <1>f
  <2> QED BY <2>1, <1>1, <1>2, <1>3, <1>4, <1>a, <1>b, <1>f DEF SlabHolds, SlabType
<1>6. PICK l : l = ls[c]
  OBVIOUS
<1>7. l \in ListType /\ ListsHold(l, c, sl, mg)
  BY <1>1, <1>5, <1>6
<1>8. /\ l.full \in Seq(PageSet) /\ l.partial \in Seq(PageSet) /\ l.empty \in Seq(PageSet)
      /\ Lists(l.full, FullOf(c, sl, mg))
      /\ Lists(l.partial, Range(l.partial)) /\ IsInjective(l.empty)
      /\ Range(l.partial) \cap Range(l.empty) = {}
      /\ Range(l.partial) \cup Range(l.empty) = OpenOf(c, sl, mg)
      /\ \A q \in Range(l.empty) : sl[q].free_count = Objs[c]
  BY <1>7 DEF ListsHold, ListType, Lists
<1>9. /\ pg \in Range(l.partial)
      /\ Tail(l.partial) \in Seq(PageSet) /\ Lists(Tail(l.partial), Range(l.partial) \ {pg})
  <2>1. PICK p : p = l.partial
    OBVIOUS
  <2>2. p \in Seq(PageSet) /\ p # <<>> /\ Lists(p, Range(p)) /\ pg = Head(p)
    BY <2>1, <1>6, <1>8, <1>f
  <2>3. /\ pg \in Range(p) /\ Tail(p) \in Seq(PageSet) /\ Lists(Tail(p), Range(p) \ {pg})
    BY <2>2, ListsTail
  <2> QED BY <2>1, <2>3
<1>10. pg \in OpenOf(c, sl, mg) /\ pg \notin Range(l.empty) /\ n # 0
  BY <1>4, <1>8, <1>9 DEF OpenOf
<1>11. f # <<>>
  BY <1>5, <1>10, EmptySeq
<1>12. /\ obj \in (1 .. k) \ O /\ obj \in Nat
       /\ Tail(f) \in Seq(Nat) /\ Len(Tail(f)) = n - 1
       /\ Lists(Tail(f), ((1 .. k) \ O) \ {obj})
  BY <1>5, <1>11, <1>f, ListsTail
<1>13. PICK used2 : used2 = used \cup {<<pg, obj>>}
  OBVIOUS
<1>14. /\ used2 \subseteq mg \X Nat /\ <<pg, obj>> \notin used
       /\ OutOf(pg, used2) = O \cup {obj}
       /\ \A q : q # pg => OutOf(q, used2) = OutOf(q, used)
  <2>1. used \in SUBSET (PageSet \X Nat)
    BY <1>1
  <2>2. pg \in mg /\ pg \in PageSet /\ obj \in Nat /\ obj \notin OutOf(pg, used)
    BY <1>3, <1>5, <1>12, <1>f
  <2>3. (obj \in OutOf(pg, used)) = (<<pg, obj>> \in used)
    BY <2>1, <2>2, OutOfIn
  <2>4. /\ OutOf(pg, used2) = OutOf(pg, used) \cup {obj}
        /\ \A q : q # pg => OutOf(q, used2) = OutOf(q, used)
    <3>1. Changed(used, used \cup {<<pg, obj>>}, pg, OutOf(pg, used) \cup {obj})
      BY <2>1, <2>2, TakenOut
    <3> QED BY <3>1, <1>13, Zenon DEF Changed
  <2>5. <<pg, obj>> \in mg \X Nat
    BY <2>2
  <2>6. used2 \subseteq mg \X Nat
    <3>1. used \subseteq mg \X Nat
      BY <1>1
    <3>2. {<<pg, obj>>} \subseteq mg \X Nat
      BY <2>5, Zenon
    <3> QED BY <3>1, <3>2, <1>13, Zenon
  <2>7. <<pg, obj>> \notin used
    BY <2>2, <2>3, Zenon
  <2> QED BY <2>4, <2>6, <2>7, <1>3, Zenon
<1>15. /\ sl2 \in [PageSet -> SlabType]
       /\ sl2[pg].cache = c /\ sl2[pg].free_list = Tail(f) /\ sl2[pg].free_count = n - 1
       /\ \A q \in PageSet : q # pg => sl2[q] = sl[q]
  <2>1. sl2 = [sl EXCEPT ![pg] = [cache |-> sl[pg].cache, free_list |-> Tail(f),
                                  free_count |-> sl[pg].free_count - 1]]
    BY <1>f DEF Unlinked
  <2>2. PICK r : r = [cache |-> c, free_list |-> Tail(f), free_count |-> n - 1]
    OBVIOUS
  <2>4. n - 1 \in Nat
    <3>1. n \in Nat /\ n # 0
      BY <1>5, <1>10
    <3> QED BY <3>1, OneLess, Zenon
  <2>5. r \in SlabType
    BY <2>2, <2>4, <1>5, <1>12 DEF SlabType
  <2>6. sl2 = [sl EXCEPT ![pg] = r]
    BY <2>1, <2>2, <1>4, <1>a, Zenon
  <2>7. sl \in [PageSet -> SlabType] /\ pg \in PageSet
    BY <1>1, <1>5
  <2>8. sl2 \in [PageSet -> SlabType] /\ sl2[pg] = r /\ \A q \in PageSet : q # pg => sl2[q] = sl[q]
    BY <2>5, <2>6, <2>7, NewSlab, Zenon
  <2>9. r.cache = c /\ r.free_list = Tail(f) /\ r.free_count = n - 1
    BY <2>2
  <2> QED BY <2>8, <2>9, Zenon
<1>16. \A q \in mg : SlabHolds(q, sl2, used2)
  <2>1. SlabHolds(pg, sl2, used2)
    <3>1. (1 .. k) \ (O \cup {obj}) = ((1 .. k) \ O) \ {obj} /\ O \cup {obj} \subseteq 1 .. k
      BY <1>5, <1>12
    <3> QED BY <3>1, <1>2, <1>5, <1>12, <1>14, <1>15 DEF SlabHolds
  <2>2. ASSUME NEW q \in mg, q # pg PROVE SlabHolds(q, sl2, used2)
    <3>1. sl2[q] = sl[q] /\ OutOf(q, used2) = OutOf(q, used) /\ SlabHolds(q, sl, used)
      BY <2>2, <1>1, <1>14, <1>15
    <3> QED BY <3>1 DEF SlabHolds
  <2> QED BY <2>1, <2>2
<1>17. \A q \in PageSet \ mg : sl2[q].cache = NoCache
  BY <1>1, <1>15, <1>f
<1>18. ls2 = IF n - 1 = 0
               THEN [ls EXCEPT ![c].partial = Tail(@), ![c].full = <<pg>> \o @]
             ELSE ls
  BY <1>15, <1>e DEF Emptied
<1>19. /\ \A q \in mg : sl2[q].cache = sl[q].cache
       /\ \A q \in mg \ {pg} : sl2[q].free_count = sl[q].free_count
  BY <1>1, <1>15, <1>a
<1>20. ls2 \in [Caches -> ListType] /\ ListsHold(ls2[c], c, sl2, mg)
       /\ \A d \in Caches : d # c => ls2[d] = ls[d]
  <2>1. CASE n - 1 = 0
    <3>1. PICK l2 : l2 = [full |-> <<pg>> \o l.full, partial |-> Tail(l.partial), empty |-> l.empty]
      OBVIOUS
    <3>2. pg \notin FullOf(c, sl, mg)
      BY <1>10 DEF FullOf, OpenOf
    <3>3. /\ <<pg>> \o l.full \in Seq(PageSet)
          /\ Lists(<<pg>> \o l.full, FullOf(c, sl, mg) \cup {pg})
      BY <3>2, <1>5, <1>8, ListsCons
    <3>4. l2 \in ListType
      BY <3>1, <3>3, <1>8, <1>9 DEF ListType
    <3>5. ls2 = [ls EXCEPT ![c] = l2]
      <4>1. ls2 = [ls EXCEPT ![c].partial = Tail(@), ![c].full = <<pg>> \o @]
        BY <2>1, <1>18
      <4>2. /\ l = [full |-> l.full, partial |-> l.partial, empty |-> l.empty]
            /\ ls[c] = l /\ ls \in [Caches -> ListType] /\ c \in Caches
        BY <1>1, <1>5, <1>6, <1>7 DEF ListType
      <4> QED BY <4>1, <4>2, <3>1
    <3>6. ls2 \in [Caches -> ListType] /\ ls2[c] = l2 /\ \A d \in Caches : d # c => ls2[d] = ls[d]
      BY <3>4, <3>5, <1>1, <1>5
    <3>7. /\ FullOf(c, sl2, mg) = FullOf(c, sl, mg) \cup {pg}
          /\ OpenOf(c, sl2, mg) = OpenOf(c, sl, mg) \ {pg}
      <4>1. sl2[pg].free_count = 0 /\ sl2[pg].cache = c /\ sl[pg].free_count # 0 /\ pg \in mg
        BY <2>1, <1>4, <1>10, <1>15, <1>f
      <4>2. \A q \in mg : q \in FullOf(c, sl2, mg) <=> q \in FullOf(c, sl, mg) \cup {pg}
        BY <4>1, <1>19 DEF FullOf
      <4>3. \A q \in mg : q \in OpenOf(c, sl2, mg) <=> q \in OpenOf(c, sl, mg) \ {pg}
        BY <4>1, <1>19 DEF OpenOf
      <4>4. /\ FullOf(c, sl2, mg) \subseteq mg /\ FullOf(c, sl, mg) \cup {pg} \subseteq mg
            /\ OpenOf(c, sl2, mg) \subseteq mg /\ OpenOf(c, sl, mg) \ {pg} \subseteq mg
        BY <4>1 DEF FullOf, OpenOf
      <4> QED BY <4>2, <4>3, <4>4
    <3>8. \A q \in Range(l.empty) : sl2[q].free_count = Objs[c]
      BY <1>8, <1>10, <1>19 DEF OpenOf
    <3>9. ListsHold(l2, c, sl2, mg)
      BY <3>1, <3>3, <3>7, <3>8, <1>8, <1>9, <1>10 DEF ListsHold, Lists
    <3> QED BY <3>6, <3>9
  <2>2. CASE n - 1 # 0
    <3>1. ls2 = ls
      BY <2>2, <1>18
    <3>2. /\ FullOf(c, sl2, mg) = FullOf(c, sl, mg)
          /\ OpenOf(c, sl2, mg) = OpenOf(c, sl, mg)
      BY <2>2, <1>4, <1>10, <1>15, <1>19 DEF FullOf, OpenOf
    <3>3. \A q \in Range(l.empty) : sl2[q].free_count = Objs[c]
      BY <1>8, <1>10, <1>19 DEF OpenOf
    <3> QED BY <3>1, <3>2, <3>3, <1>1, <1>6, <1>7 DEF ListsHold
  <2> QED BY <2>1, <2>2
<1>21. ASSUME NEW d \in Caches, d # c PROVE ListsHold(ls2[d], d, sl2, mg)
  <2>1. PICK e : e = ls2[d]
    OBVIOUS
  <2>3. ListsHold(e, d, sl, mg)
    BY <2>1, <1>1, <1>20, <1>21
  <2>2. /\ mg \subseteq mg /\ \A q \in mg \ mg : sl2[q].cache # d
        /\ \A q \in mg : sl2[q].cache = sl[q].cache
        /\ \A q \in mg : sl[q].cache = d => sl2[q].free_count = sl[q].free_count
    BY <1>19, <1>21, <1>a
  <2>4. ListsHold(e, d, sl2, mg)
    BY <2>2, <2>3, SameLists, Zenon
  <2> QED BY <2>1, <2>4
<1>22. SlabsRight(ls2, sl2, mg, used2)
  BY <1>1, <1>14, <1>15, <1>16, <1>17, <1>20, <1>21 DEF SlabsRight
<1> QED BY <1>2, <1>5, <1>12, <1>13, <1>14, <1>22, <1>a, <1>b, <1>c, <1>d, <1>e

(* slab_cache_free of an object that is out.                                *)
Returned(ls, sl, mg, used, pg, obj) ==
  /\ SlabsRight(ls, sl, mg, used) /\ <<pg, obj>> \in used

GiveBack(sl, pg, obj) == Relinked(sl, pg, obj, sl[pg].free_list)

(* The count of a slab with an object out can be raised.                     *)
LEMMA OneMore ==
  ASSUME NEW n \in Nat, NEW k \in Nat, n < k
  PROVE  n + 1 \in Nat /\ n + 1 # 0 /\ n + 1 <= k /\ n # k
OBVIOUS

(* The slab goes to the list its new count calls for.                        *)
LEMMA GiveKeeps ==
  ASSUME NEW ls, NEW sl, NEW mg, NEW used, NEW pg, NEW obj,
         Returned(ls, sl, mg, used, pg, obj)
  PROVE  /\ SlabsRight(Refilled(ls, GiveBack(sl, pg, obj), pg), GiveBack(sl, pg, obj),
                       mg, used \ {<<pg, obj>>})
         /\ pg \in mg /\ pg \in PageSet /\ obj \in Nat /\ obj # 0
         /\ sl[pg].free_list \in Seq(Nat)
<1>a. PICK c : c = sl[pg].cache
  OBVIOUS
<1>b. PICK f : f = sl[pg].free_list
  OBVIOUS
<1>d. PICK sl2 : sl2 = GiveBack(sl, pg, obj)
  OBVIOUS
<1>e. PICK ls2 : ls2 = Refilled(ls, sl2, pg)
  OBVIOUS
<1>f. <<pg, obj>> \in used /\ sl2 = Relinked(sl, pg, obj, f)
  BY <1>b, <1>d DEF Returned, GiveBack
<1>1. /\ mg \subseteq PageSet
      /\ ls \in [Caches -> ListType] /\ sl \in [PageSet -> SlabType]
      /\ used \subseteq mg \X Nat
      /\ \A d \in Caches : ListsHold(ls[d], d, sl, mg)
      /\ \A q \in mg : SlabHolds(q, sl, used)
      /\ \A q \in PageSet \ mg : sl[q].cache = NoCache
  BY DEF SlabsRight, Returned
<1>g. pg \in mg /\ obj \in Nat
  BY <1>1, <1>f
<1>2. PICK k : k = Objs[c]
  OBVIOUS
<1>3. PICK O : O = OutOf(pg, used)
  OBVIOUS
<1>4. PICK n : n = sl[pg].free_count
  OBVIOUS
<1>5. /\ pg \in PageSet /\ c \in Caches /\ O \subseteq 1 .. k
      /\ Lists(f, (1 .. k) \ O) /\ n = Len(f) /\ f \in Seq(Nat) /\ n \in Nat
  <2>1. SlabHolds(pg, sl, used) /\ sl[pg] \in SlabType
    BY <1>1, <1>g
  <2> QED BY <2>1, <1>1, <1>2, <1>3, <1>4, <1>a, <1>b, <1>g DEF SlabHolds, SlabType
<1>6. PICK l : l = ls[c]
  OBVIOUS
<1>7. l \in ListType /\ ListsHold(l, c, sl, mg)
  BY <1>1, <1>5, <1>6
<1>8. /\ l.full \in Seq(PageSet) /\ l.partial \in Seq(PageSet) /\ l.empty \in Seq(PageSet)
      /\ Lists(l.full, FullOf(c, sl, mg))
      /\ Lists(l.partial, Range(l.partial)) /\ Lists(l.empty, Range(l.empty))
      /\ Range(l.partial) \cap Range(l.empty) = {}
      /\ Range(l.partial) \cup Range(l.empty) = OpenOf(c, sl, mg)
      /\ \A q \in Range(l.empty) : sl[q].free_count = Objs[c]
  BY <1>7 DEF ListsHold, ListType, Lists
<1>9. obj \in O
  <2>1. used \in SUBSET (PageSet \X Nat)
    BY <1>1
  <2>2. (obj \in OutOf(pg, used)) = (<<pg, obj>> \in used)
    BY <2>1, OutOfIn
  <2> QED BY <2>2, <1>3, <1>f
<1>10. k \in Nat /\ n < k
  <2>1. k \in Nat
    BY <1>2, <1>5, HeapAssumption
  <2>2. O # {} /\ O \in SUBSET (1 .. k)
    BY <1>5, <1>9
  <2>3. Len(f) < k
    BY <2>1, <2>2, <1>5, SlabCount
  <2> QED BY <2>1, <2>3, <1>5
<1>h. n + 1 \in Nat /\ n + 1 # 0 /\ n + 1 <= k /\ n # k
  BY <1>5, <1>10, OneMore, Zenon
<1>11. obj # 0 /\ obj \in 1 .. k
  BY <1>5, <1>9
<1>12. /\ <<obj>> \o f \in Seq(Nat) /\ Len(<<obj>> \o f) = n + 1
       /\ Lists(<<obj>> \o f, (1 .. k) \ (O \ {obj}))
  <2>1. obj \notin (1 .. k) \ O
    BY <1>9
  <2>2. /\ <<obj>> \o f \in Seq(Nat) /\ Len(<<obj>> \o f) = Len(f) + 1
        /\ Lists(<<obj>> \o f, ((1 .. k) \ O) \cup {obj})
    BY <2>1, <1>5, <1>g, ListsCons
  <2>3. ((1 .. k) \ O) \cup {obj} = (1 .. k) \ (O \ {obj})
    BY <1>9, <1>11
  <2> QED BY <2>2, <2>3, <1>5
<1>13. PICK used2 : used2 = used \ {<<pg, obj>>}
  OBVIOUS
<1>14. /\ used2 \subseteq mg \X Nat
       /\ OutOf(pg, used2) = O \ {obj}
       /\ \A q : q # pg => OutOf(q, used2) = OutOf(q, used)
  <2>1. used \in SUBSET (PageSet \X Nat)
    BY <1>1
  <2>2. Changed(used, used \ {<<pg, obj>>}, pg, OutOf(pg, used) \ {obj})
    BY <2>1, <1>5, <1>g, PutBack
  <2>3. used2 \subseteq mg \X Nat
    BY <1>1, <1>13, Zenon
  <2> QED BY <2>2, <2>3, <1>3, <1>13, Zenon DEF Changed
<1>15. /\ sl2 \in [PageSet -> SlabType]
       /\ sl2[pg].cache = c /\ sl2[pg].free_list = <<obj>> \o f /\ sl2[pg].free_count = n + 1
       /\ \A q \in PageSet : q # pg => sl2[q] = sl[q]
  <2>1. sl2 = [sl EXCEPT ![pg] = [cache |-> sl[pg].cache, free_list |-> <<obj>> \o f,
                                  free_count |-> sl[pg].free_count + 1]]
    BY <1>f DEF Relinked
  <2>2. PICK r : r = [cache |-> c, free_list |-> <<obj>> \o f, free_count |-> n + 1]
    OBVIOUS
  <2>5. r \in SlabType
    BY <2>2, <1>h, <1>5, <1>12 DEF SlabType
  <2>6. sl2 = [sl EXCEPT ![pg] = r]
    BY <2>1, <2>2, <1>4, <1>a, Zenon
  <2>7. sl \in [PageSet -> SlabType] /\ pg \in PageSet
    BY <1>1, <1>5
  <2>8. sl2 \in [PageSet -> SlabType] /\ sl2[pg] = r /\ \A q \in PageSet : q # pg => sl2[q] = sl[q]
    BY <2>5, <2>6, <2>7, NewSlab, Zenon
  <2>9. r.cache = c /\ r.free_list = <<obj>> \o f /\ r.free_count = n + 1
    BY <2>2
  <2> QED BY <2>8, <2>9, Zenon
<1>16. \A q \in mg : SlabHolds(q, sl2, used2)
  <2>1. SlabHolds(pg, sl2, used2)
    <3>1. O \ {obj} \subseteq 1 .. k
      BY <1>5
    <3> QED BY <3>1, <1>2, <1>5, <1>12, <1>14, <1>15 DEF SlabHolds
  <2>2. ASSUME NEW q \in mg, q # pg PROVE SlabHolds(q, sl2, used2)
    <3>1. sl2[q] = sl[q] /\ OutOf(q, used2) = OutOf(q, used) /\ SlabHolds(q, sl, used)
      BY <2>2, <1>1, <1>14, <1>15
    <3> QED BY <3>1 DEF SlabHolds
  <2> QED BY <2>1, <2>2
<1>17. \A q \in PageSet \ mg : sl2[q].cache = NoCache
  BY <1>1, <1>15, <1>g
<1>19. /\ \A q \in mg : sl2[q].cache = sl[q].cache
       /\ \A q \in mg \ {pg} : sl2[q].free_count = sl[q].free_count
  BY <1>1, <1>15, <1>a
<1>18. ls2 = IF n + 1 = 1 /\ Contains(l.full, pg)
               THEN [ls EXCEPT ![c].full = RemoveFirst(@, pg), ![c].partial = <<pg>> \o @]
             ELSE IF n + 1 > 1 /\ n + 1 = k /\ Contains(l.partial, pg)
               THEN [ls EXCEPT ![c].partial = RemoveFirst(@, pg), ![c].empty = <<pg>> \o @]
             ELSE ls
  BY <1>2, <1>6, <1>15, <1>e DEF Refilled
<1>i. /\ l = [full |-> l.full, partial |-> l.partial, empty |-> l.empty]
      /\ ls[c] = l /\ ls \in [Caches -> ListType] /\ c \in Caches
  BY <1>1, <1>5, <1>6, <1>7 DEF ListType
<1>j. /\ (pg \in FullOf(c, sl, mg)) = (n = 0) /\ (pg \in OpenOf(c, sl, mg)) = (n # 0)
  BY <1>4, <1>a, <1>g DEF FullOf, OpenOf
<1>k. /\ FullOf(c, sl2, mg) = FullOf(c, sl, mg) \ {pg}
      /\ OpenOf(c, sl2, mg) = OpenOf(c, sl, mg) \cup {pg}
  <2>1. sl2[pg].free_count # 0 /\ sl2[pg].cache = c /\ pg \in mg
    BY <1>15, <1>g, <1>h
  <2>2. \A q \in mg : q \in FullOf(c, sl2, mg) <=> q \in FullOf(c, sl, mg) \ {pg}
    BY <2>1, <1>19 DEF FullOf
  <2>3. \A q \in mg : q \in OpenOf(c, sl2, mg) <=> q \in OpenOf(c, sl, mg) \cup {pg}
    BY <2>1, <1>19 DEF OpenOf
  <2>4. /\ FullOf(c, sl2, mg) \subseteq mg /\ FullOf(c, sl, mg) \ {pg} \subseteq mg
        /\ OpenOf(c, sl2, mg) \subseteq mg /\ OpenOf(c, sl, mg) \cup {pg} \subseteq mg
    BY <2>1 DEF FullOf, OpenOf
  <2> QED BY <2>2, <2>3, <2>4
<1>l. pg \notin Range(l.empty)
  BY <1>2, <1>4, <1>8, <1>h
<1>m. \A q \in Range(l.empty) : sl2[q].free_count = Objs[c]
  <2>1. Range(l.empty) \subseteq mg
    BY <1>8 DEF OpenOf
  <2> QED BY <2>1, <1>8, <1>19, <1>l
<1>20. ls2 \in [Caches -> ListType] /\ ListsHold(ls2[c], c, sl2, mg)
       /\ \A d \in Caches : d # c => ls2[d] = ls[d]
  <2>1. CASE n = 0
    <3>a. pg \in FullOf(c, sl, mg) /\ pg \notin Range(l.partial)
      BY <2>1, <1>8, <1>j
    <3>b. Contains(l.full, pg)
      BY <3>a, <1>8, ContainsRange DEF Lists
    <3>1. PICK l2 : l2 = [full |-> RemoveFirst(l.full, pg), partial |-> <<pg>> \o l.partial,
                          empty |-> l.empty]
      OBVIOUS
    <3>2. /\ RemoveFirst(l.full, pg) \in Seq(PageSet)
          /\ Lists(RemoveFirst(l.full, pg), FullOf(c, sl, mg) \ {pg})
      BY <3>a, <1>8, ListsRemove
    <3>3. /\ <<pg>> \o l.partial \in Seq(PageSet)
          /\ Lists(<<pg>> \o l.partial, Range(l.partial) \cup {pg})
      BY <3>a, <1>5, <1>8, ListsCons
    <3>4. l2 \in ListType
      BY <3>1, <3>2, <3>3, <1>8 DEF ListType
    <3>5. ls2 = [ls EXCEPT ![c] = l2]
      <4>1. ls2 = [ls EXCEPT ![c].full = RemoveFirst(@, pg), ![c].partial = <<pg>> \o @]
        BY <2>1, <1>18, <3>b
      <4> QED BY <4>1, <1>i, <3>1
    <3>6. ls2 \in [Caches -> ListType] /\ ls2[c] = l2 /\ \A d \in Caches : d # c => ls2[d] = ls[d]
      BY <3>4, <3>5, <1>1, <1>5
    <3>9. ListsHold(l2, c, sl2, mg)
      BY <3>1, <3>2, <3>3, <1>8, <1>k, <1>l, <1>m DEF ListsHold, Lists
    <3> QED BY <3>6, <3>9
  <2>2. CASE n # 0 /\ n + 1 = k /\ pg \in Range(l.partial)
    <3>b. Contains(l.partial, pg) /\ n + 1 > 1 /\ n + 1 # 1
      BY <2>2, <1>5, <1>8, ContainsRange
    <3>1. PICK l2 : l2 = [full |-> l.full, partial |-> RemoveFirst(l.partial, pg),
                          empty |-> <<pg>> \o l.empty]
      OBVIOUS
    <3>2. /\ RemoveFirst(l.partial, pg) \in Seq(PageSet)
          /\ Lists(RemoveFirst(l.partial, pg), Range(l.partial) \ {pg})
      BY <2>2, <1>8, ListsRemove
    <3>3. /\ <<pg>> \o l.empty \in Seq(PageSet)
          /\ Lists(<<pg>> \o l.empty, Range(l.empty) \cup {pg})
      BY <1>l, <1>5, <1>8, ListsCons
    <3>4. l2 \in ListType
      BY <3>1, <3>2, <3>3, <1>8 DEF ListType
    <3>5. ls2 = [ls EXCEPT ![c] = l2]
      <4>1. ls2 = [ls EXCEPT ![c].partial = RemoveFirst(@, pg), ![c].empty = <<pg>> \o @]
        BY <2>2, <1>18, <3>b
      <4> QED BY <4>1, <1>i, <3>1
    <3>6. ls2 \in [Caches -> ListType] /\ ls2[c] = l2 /\ \A d \in Caches : d # c => ls2[d] = ls[d]
      BY <3>4, <3>5, <1>1, <1>5
    <3>7. /\ FullOf(c, sl2, mg) = FullOf(c, sl, mg)
          /\ OpenOf(c, sl2, mg) = OpenOf(c, sl, mg)
      BY <2>2, <1>j, <1>k
    <3>8. sl2[pg].free_count = Objs[c]
      BY <2>2, <1>2, <1>15
    <3>9. ListsHold(l2, c, sl2, mg)
      BY <3>1, <3>2, <3>3, <3>7, <3>8, <2>2, <1>8, <1>l, <1>m DEF ListsHold, Lists
    <3> QED BY <3>6, <3>9
  <2>3. CASE n # 0 /\ ~(n + 1 = k /\ pg \in Range(l.partial))
    <3>1. n + 1 # 1
      BY <2>3, <1>5
    <3>2. Contains(l.partial, pg) <=> pg \in Range(l.partial)
      BY <1>8, ContainsRange
    <3>3. ls2 = ls
      BY <2>3, <3>1, <3>2, <1>18
    <3>7. /\ FullOf(c, sl2, mg) = FullOf(c, sl, mg)
          /\ OpenOf(c, sl2, mg) = OpenOf(c, sl, mg)
      BY <2>3, <1>j, <1>k
    <3>8. ListsHold(l, c, sl2, mg)
      BY <3>7, <1>7, <1>m DEF ListsHold
    <3> QED BY <3>3, <3>8, <1>1, <1>6
  <2> QED BY <2>1, <2>2, <2>3
<1>21. ASSUME NEW d \in Caches, d # c PROVE ListsHold(ls2[d], d, sl2, mg)
  <2>1. PICK e : e = ls2[d]
    OBVIOUS
  <2>3. ListsHold(e, d, sl, mg)
    BY <2>1, <1>1, <1>20, <1>21
  <2>2. /\ mg \subseteq mg /\ \A q \in mg \ mg : sl2[q].cache # d
        /\ \A q \in mg : sl2[q].cache = sl[q].cache
        /\ \A q \in mg : sl[q].cache = d => sl2[q].free_count = sl[q].free_count
    BY <1>19, <1>21, <1>a
  <2>4. ListsHold(e, d, sl2, mg)
    BY <2>2, <2>3, SameLists, Zenon
  <2> QED BY <2>1, <2>4
<1>22. SlabsRight(ls2, sl2, mg, used2)
  BY <1>1, <1>14, <1>15, <1>16, <1>17, <1>20, <1>21 DEF SlabsRight
<1> QED BY <1>5, <1>11, <1>13, <1>22, <1>b, <1>d, <1>e, <1>g

(* The choice of a slab: one with a free object heads the partial list.     *)
Fresh(c) == lists[c].partial = <<>> /\ lists[c].empty = <<>>
Pickable(c, used) ==
  /\ SlabsRight(lists, slab, magic, used) /\ c \in Caches
  /\ Fresh(c) => HeadFor(pmm, 0).addr \in PageSet \ magic

(* A list of one slab.                                                       *)
LEMMA ListsOne ==
  ASSUME NEW T, NEW x \in T
  PROVE  /\ <<x>> \in Seq(T) /\ Lists(<<x>>, {x}) /\ <<x>> # <<>> /\ Head(<<x>>) = x
         /\ Range(<<x>>) = {x} /\ IsInjective(<<x>>)
<1>1. <<x>> \in Seq(T) /\ Len(<<x>>) = 1 /\ <<x>>[1] = x /\ DOMAIN <<x>> = {1}
  OBVIOUS
<1>2. Range(<<x>>) = {x}
  BY <1>1 DEF Range
<1>3. IsInjective(<<x>>)
  BY <1>1 DEF IsInjective
<1> QED BY <1>1, <1>2, <1>3 DEF Lists

(* slab_create chains all the objects of the slab.                           *)
LEMMA FreshSlab ==
  ASSUME NEW c \in Caches
  PROVE  /\ slab_create(c) \in SlabType
         /\ slab_create(c).cache = c /\ slab_create(c).free_count = Objs[c]
         /\ Objs[c] \in Nat \ {0}
         /\ Lists(slab_create(c).free_list, 1 .. Objs[c])
         /\ Len(slab_create(c).free_list) = Objs[c]
<1>1. PICK k : k = Objs[c]
  OBVIOUS
<1>2. k \in Nat \ {0}
  BY <1>1, HeapAssumption
<1>3. PICK f : f = [i \in 1 .. k |-> i]
  OBVIOUS
<1>4. f \in Seq(Nat) /\ Len(f) = k /\ DOMAIN f = 1 .. k /\ \A i \in 1 .. k : f[i] = i
  <2>1. f \in [1 .. k -> Nat] /\ DOMAIN f = 1 .. k /\ \A i \in 1 .. k : f[i] = i
    BY <1>2, <1>3
  <2>2. f \in Seq(Nat)
    BY <2>1, <1>2 DEF Seq
  <2>3. Len(f) = k
    BY <2>1, <2>2, <1>2, LenProperties
  <2> QED BY <2>1, <2>2, <2>3
<1>5. Lists(f, 1 .. k)
  <2>1. Range(f) = 1 .. k
    BY <1>4 DEF Range
  <2>2. IsInjective(f)
    BY <1>4 DEF IsInjective
  <2> QED BY <2>1, <2>2 DEF Lists
<1>6. slab_create(c) = [cache |-> c, free_list |-> f, free_count |-> k]
  BY <1>1, <1>3 DEF slab_create
<1> QED BY <1>1, <1>2, <1>4, <1>5, <1>6 DEF SlabType

(* The slabs stay right: nothing goes out by the choice alone.               *)
LEMMA PickKeeps ==
  ASSUME NEW used, NEW c, Pickable(c, used)
  PROVE  /\ Chosen(Picked(c).lists, Picked(c).slab, Picked(c).magic, used, Picked(c).pg)
         /\ Picked(c).slab[Picked(c).pg].cache = c
         /\ ~Fresh(c) => Picked(c).magic = magic /\ Picked(c).pmm = pmm
         /\ Fresh(c) => /\ Picked(c).magic = magic \cup {HeadFor(pmm, 0).addr}
                        /\ Picked(c).pmm = pmm_alloc_page(pmm, 0)
<1>1. /\ magic \subseteq PageSet
      /\ lists \in [Caches -> ListType] /\ slab \in [PageSet -> SlabType]
      /\ used \subseteq magic \X Nat
      /\ \A d \in Caches : ListsHold(lists[d], d, slab, magic)
      /\ \A q \in magic : SlabHolds(q, slab, used)
      /\ \A q \in PageSet \ magic : slab[q].cache = NoCache
      /\ c \in Caches
      /\ Fresh(c) => HeadFor(pmm, 0).addr \in PageSet \ magic
  BY DEF SlabsRight, Pickable
<1>2. PICK l : l = lists[c]
  OBVIOUS
<1>3. l \in ListType /\ ListsHold(l, c, slab, magic)
  BY <1>1, <1>2
<1>4. /\ l.full \in Seq(PageSet) /\ l.partial \in Seq(PageSet) /\ l.empty \in Seq(PageSet)
      /\ Lists(l.full, FullOf(c, slab, magic))
      /\ Lists(l.partial, Range(l.partial)) /\ Lists(l.empty, Range(l.empty))
      /\ Range(l.partial) \cap Range(l.empty) = {}
      /\ Range(l.partial) \cup Range(l.empty) = OpenOf(c, slab, magic)
      /\ \A q \in Range(l.empty) : slab[q].free_count = Objs[c]
  BY <1>3 DEF ListsHold, ListType, Lists
<1>5. Fresh(c) = (l.partial = <<>> /\ l.empty = <<>>)
  BY <1>2 DEF Fresh
<1>6. PICK p : p = Picked(c)
  OBVIOUS
<1>7. PICK a : a = HeadFor(pmm, 0).addr
  OBVIOUS
<1>8. CASE l.partial # <<>>
  <2>1. /\ p.pg = Head(l.partial) /\ p.lists = lists /\ p.slab = slab
        /\ p.magic = magic /\ p.pmm = pmm
    BY <1>2, <1>6, <1>8 DEF Picked
  <2>2. p.pg \in Range(l.partial)
    <3>1. Head(l.partial) \in Range(l.partial)
      BY <1>4, <1>8, ListsTail
    <3> QED BY <3>1, <2>1
  <2>3. p.pg \in magic /\ slab[p.pg].cache = c
    BY <2>2, <1>4 DEF OpenOf
  <2>4. Chosen(lists, slab, magic, used, p.pg)
    BY <2>1, <2>3, <1>2, <1>8 DEF Chosen, Pickable
  <2> QED BY <2>1, <2>3, <2>4, <1>5, <1>6, <1>8
<1>9. CASE l.partial = <<>> /\ l.empty # <<>>
  <2>0. PICK x : x = Head(l.empty)
    OBVIOUS
  <2>1. PICK l2 : l2 = [full |-> l.full, partial |-> <<x>>, empty |-> Tail(l.empty)]
    OBVIOUS
  <2>2. /\ p.pg = x /\ p.slab = slab /\ p.magic = magic /\ p.pmm = pmm
        /\ p.lists = [lists EXCEPT ![c] = l2]
    BY <2>0, <2>1, <1>2, <1>6, <1>9 DEF Picked
  <2>4. /\ x \in Range(l.empty) /\ Tail(l.empty) \in Seq(PageSet)
        /\ Lists(Tail(l.empty), Range(l.empty) \ {x})
    BY <2>0, <1>4, <1>9, ListsTail
  <2>5. x \in magic /\ x \in PageSet /\ slab[x].cache = c
    BY <2>4, <1>1, <1>4 DEF OpenOf
  <2>6. <<x>> \in Seq(PageSet) /\ Range(<<x>>) = {x} /\ <<x>> # <<>> /\ Head(<<x>>) = x
        /\ IsInjective(<<x>>)
    BY <2>5, ListsOne
  <2>7. l2 \in ListType
    BY <2>1, <2>4, <2>6, <1>4 DEF ListType
  <2>8. p.lists \in [Caches -> ListType] /\ p.lists[c] = l2
        /\ \A d \in Caches : d # c => p.lists[d] = lists[d]
    BY <2>2, <2>7, <1>1
  <2>9. Range(l.partial) = {}
    BY <1>4, <1>9, ListsNothing
  <2>10. ListsHold(l2, c, slab, magic)
    <3>1. l2.full = l.full /\ l2.partial = <<x>> /\ l2.empty = Tail(l.empty)
      BY <2>1
    <3>2. Range(Tail(l.empty)) = Range(l.empty) \ {x} /\ IsInjective(Tail(l.empty))
      BY <2>4 DEF Lists
    <3>3. {x} \cup (Range(l.empty) \ {x}) = OpenOf(c, slab, magic)
      BY <2>4, <2>9, <1>4
    <3> QED BY <3>1, <3>2, <3>3, <2>6, <1>4 DEF ListsHold
  <2>11. SlabsRight(p.lists, slab, magic, used)
    BY <2>8, <2>10, <1>1 DEF SlabsRight
  <2>12. Chosen(p.lists, slab, magic, used, x)
    <3>1. l2.partial = <<x>>
      BY <2>1
    <3> QED BY <3>1, <2>5, <2>6, <2>8, <2>11 DEF Chosen
  <2> QED BY <2>2, <2>5, <2>12, <1>5, <1>6, <1>9
<1>10. CASE l.partial = <<>> /\ l.empty = <<>>
  <2>0. a \in PageSet /\ a \notin magic
    BY <1>1, <1>5, <1>7, <1>10
  <2>1. PICK l2 : l2 = [full |-> l.full, partial |-> <<a>>, empty |-> <<>>]
    OBVIOUS
  <2>2. /\ p.pg = a /\ p.slab = [slab EXCEPT ![a] = slab_create(c)]
        /\ p.magic = magic \cup {a} /\ p.pmm = pmm_alloc_page(pmm, 0)
        /\ p.lists = [lists EXCEPT ![c] = l2]
    BY <2>1, <1>2, <1>6, <1>7, <1>10 DEF Picked
  <2>4. PICK s : s = slab_create(c)
    OBVIOUS
  <2>5. PICK k : k = Objs[c]
    OBVIOUS
  <2>6. /\ s \in SlabType /\ s.cache = c /\ s.free_count = k /\ k \in Nat \ {0}
        /\ Lists(s.free_list, 1 .. k) /\ Len(s.free_list) = k
    BY <2>4, <2>5, <1>1, FreshSlab
  <2>7. PICK sl2 : sl2 = p.slab
    OBVIOUS
  <2>8. PICK mg2 : mg2 = p.magic
    OBVIOUS
  <2>9. sl2 \in [PageSet -> SlabType] /\ sl2[a] = s /\ \A q \in PageSet : q # a => sl2[q] = slab[q]
    BY <2>0, <2>2, <2>4, <2>6, <2>7, <1>1, NewSlab
  <2>10. <<a>> \in Seq(PageSet) /\ Range(<<a>>) = {a} /\ <<a>> # <<>> /\ Head(<<a>>) = a
         /\ IsInjective(<<a>>)
    BY <2>0, ListsOne
  <2>11. <<>> \in Seq(PageSet) /\ Range(<<>>) = {} /\ IsInjective(<<>>)
    BY ListsNothing, Zenon DEF Lists
  <2>12. l2 \in ListType
    BY <2>1, <2>10, <2>11, <1>4 DEF ListType
  <2>13. p.lists \in [Caches -> ListType] /\ p.lists[c] = l2
        /\ \A d \in Caches : d # c => p.lists[d] = lists[d]
    BY <2>2, <2>12, <1>1
  <2>14. mg2 = magic \cup {a} /\ mg2 \subseteq PageSet /\ used \subseteq mg2 \X Nat
    BY <2>0, <2>2, <2>8, <1>1
  <2>15. /\ \A q \in magic : sl2[q] = slab[q]
         /\ \A q \in mg2 \ magic : sl2[q] = s
    BY <2>0, <2>9, <2>14, <1>1
  <2>16. FullOf(c, sl2, mg2) = FullOf(c, slab, magic)
    <3>1. s.free_count # 0
      BY <2>6
    <3> QED BY <3>1, <2>14, <2>15 DEF FullOf
  <2>17. OpenOf(c, sl2, mg2) = {a}
    <3>1. s.free_count # 0 /\ s.cache = c
      BY <2>6
    <3>2. OpenOf(c, slab, magic) = {}
      BY <1>4, <1>10, <2>11
    <3>3. OpenOf(c, sl2, mg2) = OpenOf(c, slab, magic) \cup {a}
      BY <3>1, <2>0, <2>9, <2>14, <2>15 DEF OpenOf
    <3> QED BY <3>2, <3>3
  <2>18. ListsHold(l2, c, sl2, mg2)
    <3>1. l2.full = l.full /\ l2.partial = <<a>> /\ l2.empty = <<>>
      BY <2>1
    <3> QED BY <3>1, <2>10, <2>11, <2>16, <2>17, <1>4 DEF ListsHold
  <2>19. ASSUME NEW d \in Caches, d # c PROVE ListsHold(p.lists[d], d, sl2, mg2)
    <3>1. PICK e : e = p.lists[d]
      OBVIOUS
    <3>2. ListsHold(e, d, slab, magic)
      BY <3>1, <2>13, <2>19, <1>1
    <3>3. /\ magic \subseteq mg2 /\ \A q \in mg2 \ magic : sl2[q].cache # d
          /\ \A q \in magic : sl2[q].cache = slab[q].cache
          /\ \A q \in magic : slab[q].cache = d => sl2[q].free_count = slab[q].free_count
      BY <2>6, <2>14, <2>15, <2>19
    <3>4. ListsHold(e, d, sl2, mg2)
      BY <3>2, <3>3, SameLists, Zenon
    <3> QED BY <3>1, <3>4
  <2>20. OutOf(a, used) = {}
    BY <2>0, <1>1 DEF OutOf
  <2>21. SlabHolds(a, sl2, used)
    <3>1. (1 .. k) \ {} = 1 .. k
      OBVIOUS
    <3> QED BY <3>1, <2>5, <2>6, <2>9, <2>20, <1>1 DEF SlabHolds
  <2>22. \A q \in magic : SlabHolds(q, sl2, used)
    BY <2>15, <1>1 DEF SlabHolds
  <2>23. \A q \in mg2 : SlabHolds(q, sl2, used)
    BY <2>14, <2>21, <2>22
  <2>24. \A q \in PageSet \ mg2 : sl2[q].cache = NoCache
    BY <2>0, <2>9, <2>14, <1>1
  <2>25. SlabsRight(p.lists, sl2, mg2, used)
    BY <2>9, <2>13, <2>14, <2>18, <2>19, <2>23, <2>24 DEF SlabsRight
  <2>26. sl2[a].cache = c
    BY <2>6, <2>9
  <2>27. Chosen(p.lists, sl2, mg2, used, a)
    <3>1. l2.partial = <<a>>
      BY <2>1
    <3> QED BY <3>1, <2>10, <2>13, <2>14, <2>25, <2>26 DEF Chosen
  <2> QED BY <2>2, <2>7, <2>8, <2>26, <2>27, <1>5, <1>6, <1>7, <1>10
<1> QED BY <1>8, <1>9, <1>10

-----------------------------------------------------------------------------
(* The steps.                                                               *)

(* A client gets what nobody has ...                                         *)
LEMMA GainOne ==
  ASSUME NEW T, NEW h, Apart(h, T), NEW x \in T, x \notin Held(h), NEW client \in Clients
  PROVE  Apart(With(h, client, x), T) /\ Held(With(h, client, x)) = Held(h) \cup {x}
BY DEF Apart, Held, With, Clients

(* ... or gives up what it has.                                              *)
LEMMA LoseOne ==
  ASSUME NEW T, NEW h, Apart(h, T), NEW client \in Clients, NEW x \in h[client]
  PROVE  /\ Apart(Without(h, client, x), T) /\ Held(Without(h, client, x)) = Held(h) \ {x}
         /\ x \in Held(h) /\ x \in T
BY DEF Apart, Held, Without, Clients

(* The properties name what both clients hold.                               *)
LEMMA HeldFacts ==
  /\ AllBlocks = Held(blocks) /\ AllBlocks' = Held(blocks')
  /\ AllObjects = Held(objects) /\ AllObjects' = Held(objects')
BY DEF AllBlocks, AllObjects, Held

(* Between calls nothing is in flight.                                       *)
LEMMA CallIdle ==
  /\ call = Idle => Giving = {} /\ CallRight
  /\ call' = Idle => Giving' = {} /\ CallRight'
  /\ call.pc # "give" => Giving = {}
  /\ call'.pc # "give" => Giving' = {}
BY DEF Giving, CallRight, TakeRight, PopRight, GiveRight, Idle

(* A block of the page allocator goes out, or comes back.                   *)
LEMMA BlockOut ==
  ASSUME NEW m, NEW bl, NEW mg, PagesRight(m, bl, mg),
         NEW order \in Orders, CanAllocPage(m, order)
  PROVE  /\ <<HeadFor(m, order).addr, order>> \in Blocks
         /\ <<HeadFor(m, order).addr, order>> \notin bl
         /\ \A b \in bl : PagesOf(b) \cap PagesOf(<<HeadFor(m, order).addr, order>>) = {}
         /\ PagesRight(pmm_alloc_page(m, order), bl \cup {<<HeadFor(m, order).addr, order>>}, mg)
<1>1. PICK B : B = bl \cup SlabBlocks(mg)
  OBVIOUS
<1>2. PICK x : x = <<HeadFor(m, order).addr, order>>
  OBVIOUS
<1>3. PmmRight(m, B) /\ bl \cap SlabBlocks(mg) = {}
  BY <1>1 DEF PagesRight
<1>4. /\ x \in Blocks /\ x \notin B
      /\ \A b \in B : PagesOf(b) \cap PagesOf(x) = {}
      /\ PmmRight(pmm_alloc_page(m, order), B \cup {x})
  BY <1>2, <1>3, AllocRight
<1>5. (bl \cup {x}) \cup SlabBlocks(mg) = B \cup {x} /\ (bl \cup {x}) \cap SlabBlocks(mg) = {}
  BY <1>1, <1>3, <1>4
<1> QED BY <1>1, <1>2, <1>4, <1>5 DEF PagesRight

(* A page of the page allocator becomes a slab.                              *)
LEMMA SlabPageOut ==
  ASSUME NEW m, NEW bl, NEW mg, PagesRight(m, bl, mg), CanAllocPage(m, 0)
  PROVE  /\ HeadFor(m, 0).addr \in PageSet \ mg
         /\ PagesRight(pmm_alloc_page(m, 0), bl, mg \cup {HeadFor(m, 0).addr})
<1>1. PICK B : B = bl \cup SlabBlocks(mg)
  OBVIOUS
<1>2. PICK a : a = HeadFor(m, 0).addr
  OBVIOUS
<1>0. PICK x : x = <<a, 0>>
  OBVIOUS
<1>3. PmmRight(m, B) /\ bl \cap SlabBlocks(mg) = {} /\ 0 \in Orders
  BY <1>1, BlockFacts DEF PagesRight, Orders
<1>4. /\ x \in Blocks /\ x \notin B
      /\ PmmRight(pmm_alloc_page(m, 0), B \cup {x})
  BY <1>0, <1>2, <1>3, AllocRight
<1>5. SlabBlocks(mg \cup {a}) = SlabBlocks(mg) \cup {x}
  BY <1>0 DEF SlabBlocks
<1>6. bl \cup SlabBlocks(mg \cup {a}) = B \cup {x} /\ bl \cap SlabBlocks(mg \cup {a}) = {}
  BY <1>1, <1>3, <1>4, <1>5
<1>7. a \in PageSet
  BY <1>0, <1>4 DEF Blocks
<1>8. a \notin mg
  BY <1>0, <1>1, <1>4 DEF SlabBlocks
<1> QED BY <1>2, <1>4, <1>6, <1>7, <1>8 DEF PagesRight

(* pmm_free_page is given the order the block was taken with.                *)
LEMMA BlockBack ==
  ASSUME NEW m, NEW bl, NEW mg, PagesRight(m, bl, mg), NEW b \in bl
  PROVE  /\ m.page_metadata[b[1]] = b[2] /\ b[2] \in Orders /\ b[2] # NotTracked
         /\ PagesRight(pmm_free_page(m, b[1], b[2]), bl \ {b}, mg)
<1>1. PICK B : B = bl \cup SlabBlocks(mg)
  OBVIOUS
<1>3. PmmRight(m, B) /\ bl \cap SlabBlocks(mg) = {} /\ b \in B
  BY <1>1 DEF PagesRight
<1>4. PmmRight(pmm_free_page(m, b[1], b[2]), B \ {b})
  BY <1>3, FreeRight
<1>5. (bl \ {b}) \cup SlabBlocks(mg) = B \ {b} /\ (bl \ {b}) \cap SlabBlocks(mg) = {}
  BY <1>1, <1>3
<1>6. m.page_metadata[b[1]] = b[2] /\ b \in Blocks
  BY <1>3 DEF PmmRight, Tiles
<1>7. b[2] \in Orders /\ b[2] # NotTracked
  BY <1>6, BlockFacts DEF Blocks, NotTracked
<1> QED BY <1>4, <1>5, <1>6, <1>7 DEF PagesRight

(* The choice of a slab for cache c, whoever calls.                         *)
LEMMA PickStep ==
  ASSUME HeapInv, call = Idle, NEW c \in Caches, CanPick(c)
  PROVE  /\ Chosen(Picked(c).lists, Picked(c).slab, Picked(c).magic, AllObjects, Picked(c).pg)
         /\ PagesRight(Picked(c).pmm, AllBlocks, Picked(c).magic)
         /\ Picked(c).slab[Picked(c).pg].cache = c
<1>1. /\ SlabsRight(lists, slab, magic, AllObjects)
      /\ PagesRight(pmm, AllBlocks, magic)
  <2>1. AllObjects \cup {} = AllObjects
    OBVIOUS
  <2> QED BY <2>1, CallIdle DEF HeapInv
<1>2. Fresh(c) => CanAllocPage(pmm, 0)
  BY DEF CanPick, Fresh
<1>3. Fresh(c) => /\ HeadFor(pmm, 0).addr \in PageSet \ magic
                  /\ PagesRight(pmm_alloc_page(pmm, 0), AllBlocks, magic \cup {HeadFor(pmm, 0).addr})
  BY <1>1, <1>2, SlabPageOut
<1>4. Pickable(c, AllObjects)
  BY <1>1, <1>3 DEF Pickable
<1>5. /\ Chosen(Picked(c).lists, Picked(c).slab, Picked(c).magic, AllObjects, Picked(c).pg)
      /\ ~Fresh(c) => Picked(c).magic = magic /\ Picked(c).pmm = pmm
      /\ Fresh(c) => /\ Picked(c).magic = magic \cup {HeadFor(pmm, 0).addr}
                     /\ Picked(c).pmm = pmm_alloc_page(pmm, 0)
      /\ Picked(c).slab[Picked(c).pg].cache = c
  BY <1>4, PickKeeps, Zenon
<1> QED BY <1>1, <1>3, <1>5

(* One lemma per action.                                                     *)
LEMMA StepKmallocLoad ==
  ASSUME HeapInv, NEW c \in Caches, KmallocLoad(c)
  PROVE  HeapInv'
<1>1. PICK p : p = Picked(c)
  OBVIOUS
<1>2. /\ call = Idle /\ CanPick(c)
      /\ pmm' = p.pmm /\ lists' = p.lists /\ slab' = p.slab /\ magic' = p.magic
      /\ call' = [pc |-> "take", pg |-> p.pg,
                     obj |-> Head(p.slab[p.pg].free_list),
                     rest |-> Tail(p.slab[p.pg].free_list)]
      /\ objects' = objects /\ blocks' = blocks
  BY <1>1, Zenon DEF KmallocLoad
<1>3. /\ Chosen(lists', slab', magic', AllObjects, p.pg)
      /\ PagesRight(pmm', AllBlocks, magic') /\ slab'[p.pg].cache = c
  BY <1>1, <1>2, PickStep, Zenon
<1>4. AllObjects' = AllObjects /\ AllBlocks' = AllBlocks
  BY <1>2, HeldFacts
<1>5. /\ p.pg \in PageSet /\ First(slab', p.pg) \in Nat
      /\ Tail(slab'[p.pg].free_list) \in Seq(Nat)
  BY <1>3, TakeKeeps, Zenon
<1>6. SlabsRight(lists', slab', magic', AllObjects) /\ p.pg \in magic'
      /\ lists'[c].partial # <<>> /\ p.pg = Head(lists'[c].partial)
  BY <1>3 DEF Chosen
<1>7. call' \in TakeCall /\ call'.pc = "take"
      /\ call'.pg = p.pg /\ call'.obj = Head(slab'[p.pg].free_list)
      /\ call'.rest = Tail(slab'[p.pg].free_list)
  BY <1>2, <1>5 DEF TakeCall, First
<1>8. CallRight'
  BY <1>3, <1>6, <1>7 DEF CallRight, TakeRight, PopRight, GiveRight
<1>9. AllObjects' \cup Giving' = AllObjects
  BY <1>4, <1>7, CallIdle
<1>10. Apart(blocks', Blocks) /\ Apart(objects', PageSet \X Nat)
  BY <1>2 DEF HeapInv
<1> QED BY <1>3, <1>4, <1>6, <1>8, <1>9, <1>10 DEF HeapInv

(* The object stored was loaded from a slab that is still there.             *)
LEMMA StepKmallocStore ==
  ASSUME HeapInv, KmallocStore
  PROVE  HeapInv' /\ <<call.pg, call.obj>> \notin AllObjects /\ call.pg \in PageSet
         /\ \E c \in Caches : call.obj \in 1 .. Objs[c]
<1>1. /\ call.pc = "take"
      /\ slab' = Unlinked(slab, call.pg, call.rest)
      /\ lists' = Emptied(lists, slab', call.pg)
      /\ objects' = With(objects, "main", <<call.pg, call.obj>>)
      /\ call' = Idle
      /\ pmm' = pmm /\ magic' = magic /\ blocks' = blocks
  BY DEF KmallocStore
<1>2. PICK c : c = slab[call.pg].cache
  OBVIOUS
<1>3. /\ call \in TakeCall /\ call.pg \in magic
      /\ lists[c].partial # <<>> /\ call.pg = Head(lists[c].partial)
      /\ call.obj = First(slab, call.pg) /\ call.rest = Tail(slab[call.pg].free_list)
  BY <1>1, <1>2 DEF HeapInv, CallRight, TakeRight, First
<1>4. AllObjects \cup Giving = AllObjects
  BY <1>1, CallIdle
<1>5. Chosen(lists, slab, magic, AllObjects, call.pg)
  BY <1>2, <1>3, <1>4 DEF HeapInv, Chosen
<1>6. PICK pg : pg = call.pg
  OBVIOUS
<1>7. slab' = TakeFirst(slab, pg) /\ lists' = Emptied(lists, TakeFirst(slab, pg), pg)
  BY <1>1, <1>3, <1>6 DEF TakeFirst
<1>8. /\ pg \in PageSet /\ slab[pg].cache \in Caches
      /\ First(slab, pg) \in 1 .. Objs[slab[pg].cache] /\ First(slab, pg) \in Nat
      /\ <<pg, First(slab, pg)>> \notin AllObjects
      /\ SlabsRight(lists', slab', magic, AllObjects \cup {<<pg, First(slab, pg)>>})
  BY <1>5, <1>6, <1>7, TakeKeeps, Zenon
<1>9. PICK o : o = <<pg, First(slab, pg)>>
  OBVIOUS
<1>10. objects' = With(objects, "main", o) /\ Apart(objects, PageSet \X Nat) /\ o \in PageSet \X Nat
       /\ "main" \in Clients
  BY <1>1, <1>3, <1>6, <1>8, <1>9 DEF HeapInv, Clients
<1>11. Apart(objects', PageSet \X Nat) /\ AllObjects' = AllObjects \cup {o}
  BY <1>8, <1>9, <1>10, GainOne, HeldFacts
<1>12. Giving' = {} /\ CallRight'
  BY <1>1, CallIdle
<1>13. AllObjects' \cup Giving' = AllObjects \cup {<<pg, First(slab, pg)>>}
  BY <1>9, <1>11, <1>12
<1>14. AllBlocks' = AllBlocks
  BY <1>1, HeldFacts
<1>15. HeapInv'
  BY <1>1, <1>8, <1>11, <1>12, <1>13, <1>14 DEF HeapInv
<1> QED BY <1>3, <1>6, <1>8, <1>15

LEMMA StepKmallocDirectLoad ==
  ASSUME HeapInv, NEW order \in Orders, KmallocDirectLoad(order)
  PROVE  HeapInv'
<1>1. /\ call = Idle /\ CanAllocPage(pmm, order)
      /\ call' = [pc |-> "pop", order |-> order, head |-> HeadFor(pmm, order)]
      /\ pmm' = pmm /\ lists' = lists /\ slab' = slab /\ magic' = magic
      /\ objects' = objects /\ blocks' = blocks
  BY DEF KmallocDirectLoad
<1>2. HeadFor(pmm, order) \in [j : Orders, addr : PageSet, rest : Seq(PageSet)]
  <2>1. pmm \in PmmType
    BY DEF HeapInv, PagesRight, PmmRight
  <2> QED BY <2>1, <1>1, HeadForFacts
<1>3. call' \in PopCall /\ call'.pc = "pop" /\ call'.order = order
      /\ call'.head = HeadFor(pmm', order) /\ CanAllocPage(pmm', order)
  BY <1>1, <1>2 DEF PopCall
<1>4. CallRight'
  BY <1>3 DEF CallRight, TakeRight, PopRight, GiveRight
<1>5. Giving = {} /\ Giving' = {}
  BY <1>1, <1>3, CallIdle
<1>6. AllObjects' = AllObjects /\ AllBlocks' = AllBlocks
  BY <1>1, HeldFacts
<1> QED BY <1>1, <1>4, <1>5, <1>6 DEF HeapInv

(* The block stored is the one loaded, and overlaps none in use.             *)
LEMMA StepKmallocDirectStore ==
  ASSUME HeapInv, KmallocDirectStore
  PROVE  /\ HeapInv'
         /\ <<call.head.addr, call.order>> \in Blocks
         /\ <<call.head.addr, call.order>> \notin AllBlocks
         /\ \A b \in AllBlocks : PagesOf(b) \cap PagesOf(<<call.head.addr, call.order>>) = {}
<1>1. /\ call.pc = "pop"
      /\ pmm' = Taken(pmm, call.order, call.head)
      /\ blocks' = With(blocks, "main", <<call.head.addr, call.order>>)
      /\ call' = Idle
      /\ lists' = lists /\ slab' = slab /\ magic' = magic /\ objects' = objects
  BY DEF KmallocDirectStore
<1>2. PICK order : order = call.order
  OBVIOUS
<1>3. /\ order \in Orders /\ CanAllocPage(pmm, order) /\ call.head = HeadFor(pmm, order)
  BY <1>1, <1>2 DEF HeapInv, CallRight, PopRight, PopCall
<1>4. PICK x : x = <<HeadFor(pmm, order).addr, order>>
  OBVIOUS
<1>5. pmm' = pmm_alloc_page(pmm, order) /\ blocks' = With(blocks, "main", x)
      /\ x = <<call.head.addr, call.order>>
  BY <1>1, <1>2, <1>3, <1>4 DEF pmm_alloc_page
<1>6. /\ x \in Blocks /\ x \notin AllBlocks
      /\ \A b \in AllBlocks : PagesOf(b) \cap PagesOf(x) = {}
      /\ PagesRight(pmm', AllBlocks \cup {x}, magic)
  BY <1>3, <1>4, <1>5, BlockOut, Zenon DEF HeapInv
<1>7. Apart(blocks', Blocks) /\ AllBlocks' = AllBlocks \cup {x}
  <2>1. Apart(blocks, Blocks) /\ "main" \in Clients
    BY DEF HeapInv, Clients
  <2> QED BY <2>1, <1>5, <1>6, GainOne, HeldFacts
<1>8. Giving = {} /\ Giving' = {} /\ CallRight' /\ AllObjects' = AllObjects
  BY <1>1, CallIdle, HeldFacts
<1>9. HeapInv'
  BY <1>1, <1>6, <1>7, <1>8 DEF HeapInv
<1> QED BY <1>5, <1>6, <1>9

(* The object freed is in flight until the store.                            *)
LEMMA StepKfreeLoad ==
  ASSUME HeapInv, NEW o \in objects["main"], KfreeLoad(o)
  PROVE  HeapInv'
<1>1. /\ call = Idle /\ o[1] \in magic
      /\ call' = [pc |-> "give", pg |-> o[1], obj |-> o[2], rest |-> slab[o[1]].free_list]
      /\ objects' = Without(objects, "main", o)
      /\ pmm' = pmm /\ lists' = lists /\ slab' = slab /\ magic' = magic /\ blocks' = blocks
  BY DEF KfreeLoad
<1>2. /\ Apart(objects', PageSet \X Nat) /\ AllObjects' = AllObjects \ {o}
      /\ o \in AllObjects /\ o \in PageSet \X Nat
  <2>1. Apart(objects, PageSet \X Nat) /\ "main" \in Clients
    BY DEF HeapInv, Clients
  <2> QED BY <2>1, <1>1, LoseOne, HeldFacts
<1>3. /\ o = <<o[1], o[2]>> /\ o[1] \in PageSet /\ o[2] \in Nat
  BY <1>2
<1>4. Giving = {} /\ Giving' = {o}
  BY <1>1, <1>3, CallIdle DEF Giving
<1>5. AllObjects' \cup Giving' = AllObjects \cup Giving
  BY <1>2, <1>4
<1>6. slab[o[1]].free_list \in Seq(Nat)
  BY <1>3 DEF HeapInv, SlabsRight, SlabType
<1>7. CallRight'
  <2>1. call' \in GiveCall /\ call'.pc = "give" /\ call'.rest = slab'[call'.pg].free_list
        /\ <<call'.pg, call'.obj>> = o
    BY <1>1, <1>3, <1>6 DEF GiveCall
  <2>2. o \notin AllObjects'
    BY <1>2
  <2> QED BY <2>1, <2>2 DEF CallRight, TakeRight, PopRight, GiveRight
<1>8. AllBlocks' = AllBlocks
  BY <1>1, HeldFacts
<1> QED BY <1>1, <1>2, <1>5, <1>7, <1>8 DEF HeapInv

LEMMA StepKfreeStore ==
  ASSUME HeapInv, KfreeStore
  PROVE  HeapInv'
<1>1. /\ call.pc = "give"
      /\ slab' = Relinked(slab, call.pg, call.obj, call.rest)
      /\ lists' = Refilled(lists, slab', call.pg)
      /\ call' = Idle
      /\ pmm' = pmm /\ magic' = magic /\ objects' = objects /\ blocks' = blocks
  BY DEF KfreeStore
<1>2. PICK pg : pg = call.pg
  OBVIOUS
<1>3. PICK obj : obj = call.obj
  OBVIOUS
<1>4. call.rest = slab[pg].free_list /\ <<pg, obj>> \notin AllObjects
      /\ Giving = {<<pg, obj>>}
  BY <1>1, <1>2, <1>3 DEF HeapInv, CallRight, GiveRight, Giving
<1>5. slab' = GiveBack(slab, pg, obj) /\ lists' = Refilled(lists, GiveBack(slab, pg, obj), pg)
  BY <1>1, <1>2, <1>3, <1>4 DEF GiveBack
<1>6. Returned(lists, slab, magic, AllObjects \cup Giving, pg, obj)
  BY <1>4 DEF HeapInv, Returned
<1>7. SlabsRight(lists', slab', magic, (AllObjects \cup Giving) \ {<<pg, obj>>})
  BY <1>5, <1>6, GiveKeeps, Zenon
<1>8. (AllObjects \cup Giving) \ {<<pg, obj>>} = AllObjects
  BY <1>4
<1>9. Giving' = {} /\ CallRight' /\ AllObjects' = AllObjects /\ AllBlocks' = AllBlocks
  BY <1>1, CallIdle, HeldFacts
<1>10. AllObjects' \cup Giving' = AllObjects
  BY <1>9
<1> QED BY <1>1, <1>7, <1>8, <1>9, <1>10 DEF HeapInv

(* The magic number sends a block to the page allocator.                     *)
LEMMA StepKfreeDirect ==
  ASSUME HeapInv, call = Idle, NEW client \in Clients, NEW b \in blocks[client],
         KfreeDirect(client, b)
  PROVE  HeapInv'
<1>1. /\ pmm' = pmm_free_page(pmm, b[1], FreeOrder(b[1]))
      /\ blocks' = Without(blocks, client, b)
      /\ lists' = lists /\ slab' = slab /\ magic' = magic /\ call' = call /\ objects' = objects
  BY DEF KfreeDirect
<1>2. /\ Apart(blocks', Blocks) /\ AllBlocks' = AllBlocks \ {b} /\ b \in AllBlocks
  <2>1. Apart(blocks, Blocks)
    BY DEF HeapInv
  <2> QED BY <2>1, <1>1, LoseOne, HeldFacts
<1>3. /\ pmm.page_metadata[b[1]] = b[2] /\ b[2] # NotTracked
      /\ PagesRight(pmm_free_page(pmm, b[1], b[2]), AllBlocks \ {b}, magic)
  BY <1>2, BlockBack DEF HeapInv
<1>4. FreeOrder(b[1]) = b[2]
  BY <1>3 DEF FreeOrder, pmm_get_order
<1>5. PagesRight(pmm', AllBlocks', magic')
  BY <1>1, <1>2, <1>3, <1>4
<1>6. Giving = {} /\ Giving' = {} /\ CallRight' /\ AllObjects' = AllObjects
  BY <1>1, CallIdle, HeldFacts
<1> QED BY <1>1, <1>2, <1>5, <1>6 DEF HeapInv

(* The calls of the interrupt, each a single step.                           *)
LEMMA StepIsrKmalloc ==
  ASSUME HeapInv, call = Idle, NEW c \in Caches, IsrKmalloc(c)
  PROVE  /\ HeapInv'
         /\ \E o \in PageSet \X (1 .. Objs[c]) :
              /\ o \notin AllObjects
              /\ objects' = With(objects, "isr", o) /\ blocks' = blocks
<1>1. PICK p : p = Picked(c)
  OBVIOUS
<1>2. PICK pg : pg = p.pg
  OBVIOUS
<1>3. PICK o : o = <<pg, First(p.slab, pg)>>
  OBVIOUS
<1>4. /\ CanPick(c)
      /\ slab' = TakeFirst(p.slab, pg)
      /\ lists' = Emptied(p.lists, TakeFirst(p.slab, pg), pg)
      /\ magic' = p.magic /\ pmm' = p.pmm
      /\ objects' = With(objects, "isr", o)
      /\ call' = call /\ blocks' = blocks
  BY <1>1, <1>2, <1>3 DEF IsrKmalloc, TakeFirst, First
<1>5. /\ Chosen(p.lists, p.slab, p.magic, AllObjects, pg)
      /\ PagesRight(pmm', AllBlocks, magic') /\ p.slab[pg].cache = c
  BY <1>1, <1>2, <1>4, PickStep, Zenon
<1>6. /\ pg \in PageSet
      /\ First(p.slab, pg) \in 1 .. Objs[p.slab[pg].cache] /\ First(p.slab, pg) \in Nat
      /\ <<pg, First(p.slab, pg)>> \notin AllObjects
      /\ SlabsRight(Emptied(p.lists, TakeFirst(p.slab, pg), pg), TakeFirst(p.slab, pg), p.magic,
                    AllObjects \cup {<<pg, First(p.slab, pg)>>})
  BY <1>5, TakeKeeps, Zenon
<1>7. o \in PageSet \X Nat /\ o \in PageSet \X (1 .. Objs[c])
  BY <1>3, <1>5, <1>6
<1>8. Apart(objects', PageSet \X Nat) /\ AllObjects' = AllObjects \cup {o}
  <2>1. Apart(objects, PageSet \X Nat) /\ "isr" \in Clients
    BY DEF HeapInv, Clients
  <2> QED BY <2>1, <1>3, <1>4, <1>6, <1>7, GainOne, HeldFacts
<1>9. Giving' = {} /\ CallRight' /\ AllBlocks' = AllBlocks
  BY <1>4, CallIdle, HeldFacts
<1>10. AllObjects' \cup Giving' = AllObjects \cup {<<pg, First(p.slab, pg)>>}
  BY <1>3, <1>8, <1>9
<1>11. SlabsRight(lists', slab', magic', AllObjects' \cup Giving')
  BY <1>4, <1>6, <1>10, Zenon
<1>12. Apart(blocks', Blocks)
  BY <1>4 DEF HeapInv
<1>13. HeapInv'
  BY <1>5, <1>8, <1>9, <1>11, <1>12 DEF HeapInv
<1> QED BY <1>3, <1>4, <1>6, <1>7, <1>13

LEMMA StepIsrKmallocDirect ==
  ASSUME HeapInv, call = Idle, NEW order \in Orders, IsrKmallocDirect(order)
  PROVE  /\ HeapInv'
         /\ \E x \in Blocks :
              /\ x \notin AllBlocks /\ \A b \in AllBlocks : PagesOf(b) \cap PagesOf(x) = {}
              /\ blocks' = With(blocks, "isr", x) /\ objects' = objects
<1>1. PICK x : x = <<HeadFor(pmm, order).addr, order>>
  OBVIOUS
<1>2. /\ CanAllocPage(pmm, order)
      /\ pmm' = pmm_alloc_page(pmm, order)
      /\ blocks' = With(blocks, "isr", x)
      /\ lists' = lists /\ slab' = slab /\ magic' = magic /\ call' = call /\ objects' = objects
  BY <1>1 DEF IsrKmallocDirect
<1>6. /\ x \in Blocks /\ x \notin AllBlocks
      /\ \A b \in AllBlocks : PagesOf(b) \cap PagesOf(x) = {}
      /\ PagesRight(pmm', AllBlocks \cup {x}, magic)
  BY <1>1, <1>2, BlockOut, Zenon DEF HeapInv
<1>7. Apart(blocks', Blocks) /\ AllBlocks' = AllBlocks \cup {x}
  <2>1. Apart(blocks, Blocks) /\ "isr" \in Clients
    BY DEF HeapInv, Clients
  <2> QED BY <2>1, <1>2, <1>6, GainOne, HeldFacts
<1>8. Giving = {} /\ Giving' = {} /\ CallRight' /\ AllObjects' = AllObjects
  BY <1>2, CallIdle, HeldFacts
<1>9. HeapInv'
  BY <1>2, <1>6, <1>7, <1>8 DEF HeapInv
<1> QED BY <1>2, <1>6, <1>9

LEMMA StepIsrKfree ==
  ASSUME HeapInv, call = Idle, NEW o \in objects["isr"], IsrKfree(o)
  PROVE  HeapInv'
<1>1. PICK pg : pg = o[1]
  OBVIOUS
<1>2. PICK obj : obj = o[2]
  OBVIOUS
<1>3. /\ slab' = GiveBack(slab, pg, obj) /\ lists' = Refilled(lists, GiveBack(slab, pg, obj), pg)
      /\ objects' = Without(objects, "isr", o)
      /\ pmm' = pmm /\ magic' = magic /\ call' = call /\ blocks' = blocks
  BY <1>1, <1>2 DEF IsrKfree, GiveBack
<1>4. /\ Apart(objects', PageSet \X Nat) /\ AllObjects' = AllObjects \ {o}
      /\ o \in AllObjects /\ o \in PageSet \X Nat
  <2>1. Apart(objects, PageSet \X Nat) /\ "isr" \in Clients
    BY DEF HeapInv, Clients
  <2> QED BY <2>1, <1>3, LoseOne, HeldFacts
<1>5. o = <<pg, obj>>
  BY <1>1, <1>2, <1>4
<1>6. Giving = {} /\ Giving' = {} /\ CallRight' /\ AllBlocks' = AllBlocks
  BY <1>3, CallIdle, HeldFacts
<1>7. SlabsRight(lists, slab, magic, AllObjects)
  <2>1. AllObjects \cup Giving = AllObjects
    BY <1>6
  <2> QED BY <2>1 DEF HeapInv
<1>8. Returned(lists, slab, magic, AllObjects, pg, obj)
  BY <1>4, <1>5, <1>7 DEF Returned
<1>9. SlabsRight(lists', slab', magic, AllObjects \ {<<pg, obj>>})
  BY <1>3, <1>8, GiveKeeps, Zenon
<1>10. AllObjects' \cup Giving' = AllObjects \ {<<pg, obj>>}
  BY <1>4, <1>5, <1>6
<1>11. SlabsRight(lists', slab', magic', AllObjects' \cup Giving')
  BY <1>3, <1>9, <1>10, Zenon
<1> QED BY <1>3, <1>4, <1>6, <1>11 DEF HeapInv

(* The heap starts without slabs, with every page free.                      *)
LEMMA StepInit ==
  ASSUME Init
  PROVE  HeapInv
<1>1. /\ pmm = pmm_init
      /\ lists = [c \in Caches |-> [full |-> <<>>, partial |-> <<>>, empty |-> <<>>]]
      /\ slab = [pg \in PageSet |-> NoSlab]
      /\ magic = {} /\ call = Idle
      /\ objects = [c \in Clients |-> {}] /\ blocks = [c \in Clients |-> {}]
  BY DEF Init
<1>2. Giving = {} /\ CallRight /\ AllObjects = {} /\ AllBlocks = {}
      /\ Apart(blocks, Blocks) /\ Apart(objects, PageSet \X Nat)
  BY <1>1, CallIdle DEF AllObjects, AllBlocks, Apart, Clients
<1>3. PagesRight(pmm, AllBlocks, magic)
  <2>1. SlabBlocks({}) = {}
    BY DEF SlabBlocks
  <2>2. {} \cup {} = {} /\ {} \cap {} = {}
    OBVIOUS
  <2> QED BY <2>1, <2>2, <1>1, <1>2, InitRight, Zenon DEF PagesRight
<1>4. <<>> \in Seq(PageSet) /\ Lists(<<>>, {}) /\ Range(<<>>) = {} /\ IsInjective(<<>>)
      /\ <<>> \in Seq(Nat)
  BY ListsNothing, Zenon DEF Lists
<1>5. lists \in [Caches -> ListType] /\ slab \in [PageSet -> SlabType]
  <2>1. NoSlab \in SlabType
    BY <1>4 DEF NoSlab, SlabType
  <2> QED BY <2>1, <1>1, <1>4 DEF ListType
<1>6. ASSUME NEW c \in Caches PROVE ListsHold(lists[c], c, slab, magic)
  <2>1. lists[c].full = <<>> /\ lists[c].partial = <<>> /\ lists[c].empty = <<>>
    BY <1>1
  <2>2. FullOf(c, slab, magic) = {} /\ OpenOf(c, slab, magic) = {}
    BY <1>1 DEF FullOf, OpenOf
  <2> QED BY <2>1, <2>2, <1>4 DEF ListsHold
<1>7. SlabsRight(lists, slab, magic, AllObjects \cup Giving)
  <2>1. \A pg \in PageSet : slab[pg].cache = NoCache
    BY <1>1 DEF NoSlab
  <2>2. AllObjects \cup Giving = {}
    BY <1>2
  <2> QED BY <2>1, <2>2, <1>1, <1>5, <1>6 DEF SlabsRight
<1> QED BY <1>2, <1>3, <1>7 DEF HeapInv

(* Every step keeps the invariant.                                           *)
LEMMA StepKeeps ==
  ASSUME ~MidCall, HeapInv, [Next]_vars
  PROVE  HeapInv'
<1>1. CASE UNCHANGED vars
  <2>1. /\ pmm' = pmm /\ lists' = lists /\ slab' = slab /\ magic' = magic /\ call' = call
        /\ objects' = objects /\ blocks' = blocks
    BY <1>1 DEF vars
  <2>2. AllObjects' = AllObjects /\ AllBlocks' = AllBlocks /\ Giving' = Giving
    BY <2>1 DEF AllObjects, AllBlocks, Giving
  <2>3. CallRight'
    BY <2>1, <2>2 DEF HeapInv, CallRight, TakeRight, PopRight, GiveRight
  <2> QED BY <2>1, <2>2, <2>3 DEF HeapInv
<1>2. ASSUME NEW c \in Caches, KmallocLoad(c) PROVE HeapInv'
  BY <1>2, StepKmallocLoad
<1>3. ASSUME NEW order \in Orders, KmallocDirectLoad(order) PROVE HeapInv'
  BY <1>3, StepKmallocDirectLoad
<1>4. CASE KmallocStore
  BY <1>4, StepKmallocStore
<1>5. CASE KmallocDirectStore
  BY <1>5, StepKmallocDirectStore
<1>6. CASE KfreeStore
  BY <1>6, StepKfreeStore
<1>7. ASSUME NEW o \in objects["main"], KfreeLoad(o) PROVE HeapInv'
  BY <1>7, StepKfreeLoad
<1>8. ASSUME call = Idle, NEW b \in blocks["main"], KfreeDirect("main", b) PROVE HeapInv'
  BY <1>8, StepKfreeDirect DEF Clients
<1>a. Interrupts => call = Idle
  BY DEF Interrupts
<1>9. ASSUME NEW c \in Caches, IsrKmalloc(c) PROVE HeapInv'
  <2>1. call = Idle
    BY <1>9, <1>a DEF IsrKmalloc
  <2> QED BY <2>1, <1>9, StepIsrKmalloc
<1>10. ASSUME NEW order \in Orders, IsrKmallocDirect(order) PROVE HeapInv'
  <2>1. call = Idle
    BY <1>10, <1>a DEF IsrKmallocDirect
  <2> QED BY <2>1, <1>10, StepIsrKmallocDirect
<1>11. ASSUME NEW o \in objects["isr"], IsrKfree(o) PROVE HeapInv'
  <2>1. call = Idle
    BY <1>11, <1>a DEF IsrKfree
  <2> QED BY <2>1, <1>11, StepIsrKfree
<1>12. ASSUME Interrupts, NEW b \in blocks["isr"], KfreeDirect("isr", b) PROVE HeapInv'
  BY <1>12, <1>a, StepKfreeDirect DEF Clients
<1> QED BY <1>1, <1>2, <1>3, <1>4, <1>5, <1>6, <1>7, <1>8, <1>9, <1>10, <1>11, <1>12
        DEF Next, MainStep, IsrStep

-----------------------------------------------------------------------------
(* What the invariant says.                                                 *)

(* The part about slabs, taken apart.                                        *)
LEMMA SlabFacts ==
  ASSUME HeapInv
  PROVE  /\ magic \subseteq PageSet
         /\ lists \in [Caches -> ListType] /\ slab \in [PageSet -> SlabType]
         /\ \A pg \in magic : /\ slab[pg].cache \in Caches
                              /\ SlabHolds(pg, slab, AllObjects \cup Giving)
         /\ \A pg \in PageSet \ magic : slab[pg].cache = NoCache
         /\ \A c \in Caches : /\ ListsHold(lists[c], c, slab, magic) /\ Objs[c] \in Nat
                              /\ c # NoCache
         /\ AllObjects \subseteq magic \X Nat
<1>1. SlabsRight(lists, slab, magic, AllObjects \cup Giving)
  BY DEF HeapInv
<1>2. \A pg \in magic : /\ slab[pg].cache \in Caches
                        /\ SlabHolds(pg, slab, AllObjects \cup Giving)
  BY <1>1 DEF SlabsRight, SlabHolds
<1>3. \A c \in Caches : Objs[c] \in Nat /\ c # NoCache
  BY HeapAssumption
<1> QED BY <1>1, <1>2, <1>3 DEF SlabsRight

(* The managed pages are NPages many.                                        *)
LEMMA ManagedPages ==
  /\ IsFiniteSet(PageSet) /\ Cardinality(PageSet) = NPages
  /\ \A S \in SUBSET PageSet : Cardinality(S) \in 0 .. NPages
<1>1. NPages \in Nat /\ PageSet = 0 .. NPages - 1
  BY BlockFacts DEF PageSet
<1>2. IsFiniteSet(PageSet) /\ Cardinality(PageSet) = NPages
  <2>1. 0 \in Int /\ NPages - 1 \in Int
    BY <1>1
  <2>2. /\ IsFiniteSet(0 .. NPages - 1)
        /\ Cardinality(0 .. NPages - 1) = IF 0 > NPages - 1 THEN 0 ELSE (NPages - 1) - 0 + 1
    BY <2>1, FS_Interval
  <2> QED BY <1>1, <2>2
<1>3. ASSUME NEW S \in SUBSET PageSet PROVE Cardinality(S) \in 0 .. NPages
  <2>1. IsFiniteSet(S) /\ Cardinality(S) <= Cardinality(PageSet)
    BY <1>2, FS_Subset
  <2>2. Cardinality(S) \in Nat
    BY <2>1, FS_CardinalityType
  <2> QED BY <2>1, <2>2, <1>1, <1>2
<1> QED BY <1>2, <1>3

(* The invariant implies each property.                                      *)
LEMMA TypesHold ==
  ASSUME HeapInv
  PROVE  TypeOK
<1>1. \A c \in Caches : \A f \in {"full", "partial", "empty"} :
        Range(lists[c][f]) \subseteq PageSet
  <2>1. ASSUME NEW c \in Caches
        PROVE  /\ lists[c].full \in Seq(PageSet) /\ lists[c].partial \in Seq(PageSet)
               /\ lists[c].empty \in Seq(PageSet)
    BY SlabFacts DEF ListType
  <2>2. ASSUME NEW c \in Caches
        PROVE  /\ Range(lists[c].full) \subseteq PageSet /\ Range(lists[c].partial) \subseteq PageSet
               /\ Range(lists[c].empty) \subseteq PageSet
    BY <2>1, ListsDomain
  <2> QED BY <2>2
<1>2. ASSUME NEW pg \in PageSet
      PROVE  /\ slab[pg].cache \in Caches \cup {NoCache}
             /\ slab[pg].cache \in Caches => slab[pg].free_count \in 0 .. Objs[slab[pg].cache]
  <2>1. slab[pg] \in SlabType
    BY SlabFacts
  <2>2. ASSUME slab[pg].cache \in Caches
        PROVE  slab[pg].free_count \in 0 .. Objs[slab[pg].cache]
    <3>1. PICK k : k = Objs[slab[pg].cache]
      OBVIOUS
    <3>2. PICK O : O = OutOf(pg, AllObjects \cup Giving)
      OBVIOUS
    <3>3. PICK f : f = slab[pg].free_list
      OBVIOUS
    <3>4. pg \in magic
      BY <2>2, SlabFacts
    <3>5. SlabHolds(pg, slab, AllObjects \cup Giving) /\ k \in Nat
      BY <2>2, <3>1, <3>4, SlabFacts
    <3>6. /\ O \in SUBSET (1 .. k) /\ Lists(f, (1 .. k) \ O)
          /\ slab[pg].free_count = Len(f)
      BY <3>1, <3>2, <3>3, <3>5 DEF SlabHolds
    <3>7. f \in Seq(Nat)
      BY <2>1, <3>3 DEF SlabType
    <3>8. Len(f) \in Nat /\ Len(f) <= k
      BY <3>5, <3>6, <3>7, SlabCount
    <3> QED BY <3>1, <3>5, <3>6, <3>8
  <2> QED BY <2>1, <2>2 DEF SlabType
<1>3. magic \subseteq PageSet
  BY SlabFacts
<1>4. pmm.free_pages \in 0 .. NPages
  <2>1. PmmRight(pmm, AllBlocks \cup SlabBlocks(magic))
    BY DEF HeapInv, PagesRight
  <2>2. PagesIn(FreeBlocks(pmm)) \subseteq PageSet
        /\ pmm.free_pages = Cardinality(PagesIn(FreeBlocks(pmm)))
    <3>1. PICK R : R = FreeBlocks(pmm) \cup (AllBlocks \cup SlabBlocks(magic))
      OBVIOUS
    <3>2. Tiles(R) /\ FreeBlocks(pmm) \in SUBSET R
          /\ pmm.free_pages = Cardinality(PagesIn(FreeBlocks(pmm)))
      BY <2>1, <3>1 DEF PmmRight
    <3> QED BY <3>2, TilePages
  <2> QED BY <2>2, ManagedPages
<1> QED BY <1>1, <1>2, <1>3, <1>4 DEF TypeOK

LEMMA PagesHold ==
  ASSUME HeapInv
  PROVE  /\ PagesAccounted
         /\ \A b \in AllBlocks : PagesOf(b) \cap magic = {} /\ PagesOf(b) \subseteq PageSet
         /\ \A b, c \in AllBlocks : b # c => PagesOf(b) \cap PagesOf(c) = {}
         /\ AllBlocks \subseteq Blocks
<1>1. PICK B : B = AllBlocks \cup SlabBlocks(magic)
  OBVIOUS
<1>2. PICK F : F = FreeBlocks(pmm)
  OBVIOUS
<1>3. /\ Tiles(F \cup B) /\ F \cap B = {}
      /\ pmm.free_pages = Cardinality(PagesIn(F))
      /\ \A b \in B : pmm.page_metadata[b[1]] = b[2]
      /\ AllBlocks \cap SlabBlocks(magic) = {}
  BY <1>1, <1>2 DEF HeapInv, PagesRight, PmmRight
<1>4. /\ F \cup B \subseteq Blocks
      /\ \A b \in F \cup B : PagesOf(b) \subseteq PageSet
      /\ \A p \in PageSet : \E b \in F \cup B : p \in PagesOf(b)
      /\ \A b, c \in F \cup B : \A p \in PageSet : p \in PagesOf(b) /\ p \in PagesOf(c) => b = c
  BY <1>3 DEF Tiles
<1>5. \A b, c \in F \cup B : b # c => PagesOf(b) \cap PagesOf(c) = {}
  BY <1>4
<1>6. Regions = F \cup B
  BY <1>1, <1>2 DEF Regions, SlabBlocks
<1>7. EveryPageOnce
  <2>1. UNION {PagesOf(b) : b \in Regions} = PageSet
    BY <1>4, <1>6
  <2>2. FreeBlocks(pmm) \cap (AllBlocks \cup {<<pg, 0>> : pg \in magic}) = {}
    BY <1>1, <1>2, <1>3 DEF SlabBlocks
  <2> QED BY <2>1, <2>2, <1>5, <1>6 DEF EveryPageOnce
<1>8. CountRight
  BY <1>2, <1>3 DEF CountRight, PagesIn
<1>9. OrderKnown
  BY <1>1, <1>3 DEF OrderKnown, pmm_get_order
<1>10. ASSUME NEW b \in AllBlocks PROVE PagesOf(b) \cap magic = {}
  <2>1. ASSUME NEW p \in magic, p \in PagesOf(b) PROVE FALSE
    <3>1. PICK s : s = <<p, 0>>
      OBVIOUS
    <3>2. s \in SlabBlocks(magic) /\ s \in F \cup B /\ b \in F \cup B /\ s # b
      BY <3>1, <1>1, <1>3 DEF SlabBlocks
    <3>3. p \in PagesOf(s)
      BY <3>1, <3>2, <1>4, BlockFacts
    <3> QED BY <2>1, <3>2, <3>3, <1>5
  <2> QED BY <2>1
<1> QED BY <1>1, <1>4, <1>5, <1>7, <1>8, <1>9, <1>10 DEF PagesAccounted

(* As many objects of a slab are held as are out of its free list.           *)
LEMMA HeldCount ==
  ASSUME NEW used \in SUBSET (PageSet \X Nat), NEW pg, IsFiniteSet(OutOf(pg, used)),
         NEW H, H = {o \in used : o[1] = pg}
  PROVE  Cardinality(H) = Cardinality(OutOf(pg, used))
<1>1. PICK O : O = OutOf(pg, used)
  OBVIOUS
<1>2. \A i : i \in O <=> <<pg, i>> \in used
  BY <1>1, OutOfIn
<1>3. PICK g : g = [i \in O |-> <<pg, i>>]
  OBVIOUS
<1>4. g \in [O -> H]
  BY <1>2, <1>3
<1>5. \A i, k \in O : g[i] = g[k] => i = k
  BY <1>3
<1>6. \A o \in H : \E i \in O : g[i] = o
  <2>1. TAKE o \in H
  <2>2. o = <<pg, o[2]>>
    OBVIOUS
  <2>3. o[2] \in O
    BY <2>2, <1>2
  <2> QED BY <2>2, <2>3, <1>3
<1>7. g \in Bijection(O, H)
  BY <1>4, <1>5, <1>6, Fun_IsBij
<1>8. ExistsBijection(O, H)
  BY <1>7 DEF ExistsBijection
<1> QED BY <1>1, <1>8, FS_Bijection

LEMMA ObjectsHold ==
  ASSUME HeapInv
  PROVE  ObjectsAccounted
<1>1. ASSUME NEW c \in Caches
      PROVE  SlabsOf(c) = {pg \in magic : slab[pg].cache = c}
  <2>1. \A pg \in PageSet \ magic : slab[pg].cache # c
    BY SlabFacts
  <2> QED BY <2>1, SlabFacts DEF SlabsOf
<1>2. ListsRight
  <2>1. ASSUME NEW c \in Caches
        PROVE  /\ IsInjective(lists[c].full \o lists[c].partial \o lists[c].empty)
               /\ Range(lists[c].full \o lists[c].partial \o lists[c].empty) = SlabsOf(c)
               /\ \A pg \in SlabsOf(c) :
                    /\ (slab[pg].free_count = 0) = Contains(lists[c].full, pg)
                    /\ Contains(lists[c].empty, pg) => slab[pg].free_count = Objs[c]
    <3>1. PICK l : l = lists[c]
      OBVIOUS
    <3>2. PICK F : F = FullOf(c, slab, magic)
      OBVIOUS
    <3>3. PICK P : P = Range(l.partial)
      OBVIOUS
    <3>4. PICK E : E = Range(l.empty)
      OBVIOUS
    <3>5. l \in ListType /\ ListsHold(l, c, slab, magic)
      BY <3>1, SlabFacts
    <3>6. /\ l.full \in Seq(PageSet) /\ l.partial \in Seq(PageSet) /\ l.empty \in Seq(PageSet)
          /\ Lists(l.full, F) /\ Lists(l.partial, P) /\ Lists(l.empty, E)
          /\ P \cap E = {} /\ P \cup E = OpenOf(c, slab, magic)
          /\ \A pg \in E : slab[pg].free_count = Objs[c]
      BY <3>2, <3>3, <3>4, <3>5 DEF ListType, ListsHold, Lists
    <3>7. F \cap OpenOf(c, slab, magic) = {} /\ F \cup OpenOf(c, slab, magic) = SlabsOf(c)
      BY <3>2, <1>1 DEF FullOf, OpenOf
    <3>8. F \cap P = {} /\ (F \cup P) \cap E = {} /\ (F \cup P) \cup E = SlabsOf(c)
      BY <3>6, <3>7
    <3>9. l.full \o l.partial \in Seq(PageSet) /\ Lists(l.full \o l.partial, F \cup P)
      BY <3>6, <3>8, ListsConcat
    <3>10. Lists((l.full \o l.partial) \o l.empty, (F \cup P) \cup E)
      BY <3>6, <3>8, <3>9, ListsConcat
    <3>11. \A pg \in SlabsOf(c) : (slab[pg].free_count = 0) <=> pg \in F
      BY <3>2, <1>1 DEF FullOf
    <3>12. \A pg : /\ Contains(l.full, pg) <=> pg \in F
                   /\ Contains(l.empty, pg) <=> pg \in E
      BY <3>4, <3>6, ContainsRange DEF Lists
    <3>13. \A pg : Contains(l.full, pg) \in BOOLEAN
      BY DEF Contains
    <3>14. ASSUME NEW pg \in SlabsOf(c)
           PROVE  (slab[pg].free_count = 0) = Contains(l.full, pg)
      BY <3>11, <3>12, <3>13
    <3> QED BY <3>1, <3>6, <3>8, <3>10, <3>12, <3>14 DEF Lists
  <2> QED BY <2>1 DEF ListsRight
<1>3. ObjectsDivide
  <2>1. ASSUME call = Idle, NEW c \in Caches, NEW pg \in SlabsOf(c)
        PROVE  /\ IsInjective(slab[pg].free_list)
               /\ slab[pg].free_count = Len(slab[pg].free_list)
               /\ Range(slab[pg].free_list) \cap {o[2] : o \in HeldIn(pg)} = {}
               /\ slab[pg].free_count + Cardinality(HeldIn(pg)) = Objs[c]
    <3>1. pg \in magic /\ slab[pg].cache = c
      BY <2>1, <1>1
    <3>2. PICK O : O = OutOf(pg, AllObjects)
      OBVIOUS
    <3>3. PICK f : f = slab[pg].free_list
      OBVIOUS
    <3>4. PICK k : k = Objs[c]
      OBVIOUS
    <3>5. AllObjects \cup Giving = AllObjects
      BY <2>1, CallIdle
    <3>6. SlabHolds(pg, slab, AllObjects) /\ k \in Nat /\ slab[pg] \in SlabType
      BY <3>1, <3>4, <3>5, SlabFacts
    <3>7. /\ O \in SUBSET (1 .. k) /\ Lists(f, (1 .. k) \ O)
          /\ slab[pg].free_count = Len(f) /\ f \in Seq(Nat)
      BY <3>1, <3>2, <3>3, <3>4, <3>6 DEF SlabHolds, SlabType
    <3>8. IsFiniteSet(O) /\ Len(f) + Cardinality(O) = k
      BY <3>6, <3>7, SlabCount
    <3>9. HeldIn(pg) = {o \in AllObjects : o[1] = pg}
      BY DEF HeldIn
    <3>10. AllObjects \in SUBSET (PageSet \X Nat)
      BY SlabFacts
    <3>11. Cardinality(HeldIn(pg)) = Cardinality(O)
      BY <3>2, <3>8, <3>9, <3>10, HeldCount
    <3>12. {o[2] : o \in HeldIn(pg)} = O
      BY <3>2, <3>9 DEF OutOf
    <3>13. Range(f) \cap O = {} /\ IsInjective(f)
      BY <3>7 DEF Lists
    <3> QED BY <3>3, <3>4, <3>7, <3>8, <3>11, <3>12, <3>13
  <2> QED BY <2>1 DEF ObjectsDivide
<1>4. MagicMeansSlab
  <2>1. magic = {pg \in PageSet : slab[pg].cache # NoCache}
    BY SlabFacts
  <2>2. \A o \in AllObjects : o[1] \in magic
    BY SlabFacts
  <2> QED BY <2>1, <2>2, PagesHold DEF MagicMeansSlab
<1> QED BY <1>2, <1>3, <1>4 DEF ObjectsAccounted

-----------------------------------------------------------------------------
(* What is held, as Allocator sees it.                                      *)

UnitsHeld(os, bs) == {{o} : o \in os} \cup {UnitsOf(b) : b \in bs}
HeldMap == [c \in Clients |-> UnitsHeld(objects[c], blocks[c])]
Gives(client, e) ==
  /\ \A d \in Clients : \A f \in HeldMap[d] : e \cap f = {}
  /\ HeldMap' = [HeldMap EXCEPT ![client] = @ \cup {e}]
Takes(client, e) ==
  /\ e \in HeldMap[client]
  /\ HeldMap' = [HeldMap EXCEPT ![client] = @ \ {e}]

(* A client that gains units of its own is granted them.                     *)
LEMMA GivesIsGrant ==
  ASSUME NEW client \in Clients, NEW e, Gives(client, e),
         \/ \E pg \in PageSet : \E c \in Caches : \E i \in 1 .. Objs[c] : e = {<<pg, i>>}
         \/ \E b \in Blocks : e = UnitsOf(b)
  PROVE  Alloc!AllocNext
<1>1. e \in {{<<pg, i>>} : pg \in PageSet, i \in UNION {1 .. Objs[c] : c \in Caches}}
            \cup {UnitsOf(b) : b \in PageSet \X Orders}
  BY DEF Blocks
<1>2. Alloc!Grant(client, e)
  BY DEF Gives, Alloc!Grant, HeldMap, UnitsHeld
<1> QED BY <1>1, <1>2 DEF Alloc!AllocNext

(* A client that gives up units returns them.                                *)
LEMMA TakesIsReturn ==
  ASSUME NEW client \in Clients, NEW e, Takes(client, e)
  PROVE  Alloc!AllocNext
<1>1. Alloc!Return(client, e) /\ e \in HeldMap[client]
  BY DEF Takes, Alloc!Return, HeldMap, UnitsHeld
<1> QED BY <1>1 DEF Alloc!AllocNext, HeldMap, UnitsHeld

(* Objects and blocks have no unit in common, nor have two blocks.           *)
LEMMA HeldUnits ==
  ASSUME HeapInv
  PROVE  /\ \A o \in AllObjects : o = <<o[1], o[2]>> /\ o[2] # 0
         /\ \A b \in Blocks : /\ UnitsOf(b) # {}
                              /\ \A u \in UnitsOf(b) : u[2] = 0 /\ u[1] \in PagesOf(b)
         /\ \A b, c \in AllBlocks : b # c => UnitsOf(b) # UnitsOf(c)
<1>1. ASSUME NEW o \in AllObjects PROVE o = <<o[1], o[2]>> /\ o[2] # 0
  <2>1. PICK pg : pg = o[1]
    OBVIOUS
  <2>2. pg \in magic /\ o = <<pg, o[2]>> /\ AllObjects \cup Giving \in SUBSET (PageSet \X Nat)
    BY <2>1, SlabFacts DEF HeapInv, SlabsRight
  <2>3. o[2] \in OutOf(pg, AllObjects \cup Giving)
    BY <2>1 DEF OutOf
  <2>4. o[2] \in 1 .. Objs[slab[pg].cache]
    BY <2>2, <2>3, SlabFacts DEF SlabHolds
  <2> QED BY <2>1, <2>2, <2>4
<1>2. ASSUME NEW b \in Blocks
      PROVE  /\ <<b[1], 0>> \in UnitsOf(b) /\ b[1] \in PagesOf(b)
             /\ \A u \in UnitsOf(b) : u[2] = 0 /\ u[1] \in PagesOf(b)
  BY BlockFacts DEF UnitsOf
<1>3. ASSUME NEW b \in AllBlocks, NEW c \in AllBlocks, b # c PROVE UnitsOf(b) # UnitsOf(c)
  <2>1. b \in Blocks /\ c \in Blocks /\ PagesOf(b) \cap PagesOf(c) = {}
    BY <1>3, PagesHold
  <2>2. <<b[1], 0>> \notin UnitsOf(c)
    <3>1. PICK u : u = <<b[1], 0>>
      OBVIOUS
    <3>2. u[1] = b[1] /\ b[1] \in PagesOf(b)
      BY <3>1, <2>1, <1>2
    <3> QED BY <3>1, <3>2, <2>1, <1>2
  <2> QED BY <2>1, <2>2, <1>2
<1> QED BY <1>1, <1>2, <1>3

(* Who gets what nobody holds gets units nobody holds, and giving back one  *)
(* thing gives back its units and no other.                                 *)
LEMMA GiveObject ==
  ASSUME HeapInv, NEW client \in Clients, NEW pg \in PageSet, NEW c \in Caches,
         NEW i \in 1 .. Objs[c], <<pg, i>> \notin AllObjects,
         objects' = With(objects, client, <<pg, i>>), blocks' = blocks
  PROVE  Alloc!AllocNext
<1>1. PICK o : o = <<pg, i>>
  OBVIOUS
<1>2. o[2] # 0 /\ o[2] = i
  <2>1. Objs[c] \in Nat
    BY HeapAssumption
  <2> QED BY <2>1, <1>1
<1>3. \A d \in Clients : \A f \in HeldMap[d] : {o} \cap f = {}
  <2>1. TAKE d \in Clients
  <2>2. objects[d] \subseteq AllObjects /\ blocks[d] \subseteq AllBlocks
    BY DEF Clients, AllObjects, AllBlocks
  <2>3. ASSUME NEW f \in HeldMap[d] PROVE {o} \cap f = {}
    <3>1. \/ \E x \in objects[d] : f = {x}
          \/ \E b \in blocks[d] : f = UnitsOf(b)
      BY DEF HeldMap, UnitsHeld
    <3>2. ASSUME NEW x \in objects[d], f = {x} PROVE {o} \cap f = {}
      BY <3>2, <2>2, <1>1
    <3>3. ASSUME NEW b \in blocks[d], f = UnitsOf(b) PROVE {o} \cap f = {}
      <4>1. b \in Blocks
        BY <2>2, PagesHold
      <4> QED BY <3>3, <4>1, <1>2, HeldUnits
    <3> QED BY <3>1, <3>2, <3>3
  <2> QED BY <2>3
<1>4. HeldMap' = [HeldMap EXCEPT ![client] = @ \cup {{o}}]
  <2>1. objects \in [Clients -> SUBSET (PageSet \X Nat)]
    BY DEF HeapInv, Apart
  <2>2. objects' = [objects EXCEPT ![client] = @ \cup {o}] /\ blocks' = blocks
    BY <1>1 DEF With
  <2>3. UnitsHeld(objects'[client], blocks'[client])
          = UnitsHeld(objects[client], blocks[client]) \cup {{o}}
    <3>1. objects'[client] = objects[client] \cup {o} /\ blocks'[client] = blocks[client]
      BY <2>1, <2>2
    <3> QED BY <3>1 DEF UnitsHeld
  <2>4. \A d \in Clients : d # client => UnitsHeld(objects'[d], blocks'[d]) = UnitsHeld(objects[d], blocks[d])
    BY <2>1, <2>2
  <2> QED BY <2>3, <2>4 DEF HeldMap
<1>5. Gives(client, {o})
  BY <1>3, <1>4 DEF Gives
<1>6. \E p \in PageSet : \E k \in Caches : \E j \in 1 .. Objs[k] : {o} = {<<p, j>>}
  BY <1>1
<1> QED BY <1>5, <1>6, GivesIsGrant

LEMMA GiveBlock ==
  ASSUME HeapInv, NEW client \in Clients, NEW x \in Blocks,
         \A b \in AllBlocks : PagesOf(b) \cap PagesOf(x) = {},
         blocks' = With(blocks, client, x), objects' = objects
  PROVE  Alloc!AllocNext
<1>3. \A d \in Clients : \A f \in HeldMap[d] : UnitsOf(x) \cap f = {}
  <2>1. TAKE d \in Clients
  <2>2. objects[d] \subseteq AllObjects /\ blocks[d] \subseteq AllBlocks
    BY DEF Clients, AllObjects, AllBlocks
  <2>3. ASSUME NEW f \in HeldMap[d] PROVE UnitsOf(x) \cap f = {}
    <3>1. \/ \E o \in objects[d] : f = {o}
          \/ \E b \in blocks[d] : f = UnitsOf(b)
      BY DEF HeldMap, UnitsHeld
    <3>2. ASSUME NEW o \in objects[d], f = {o} PROVE UnitsOf(x) \cap f = {}
      BY <3>2, <2>2, HeldUnits
    <3>3. ASSUME NEW b \in blocks[d], f = UnitsOf(b) PROVE UnitsOf(x) \cap f = {}
      <4>1. PagesOf(b) \cap PagesOf(x) = {}
        BY <2>2
      <4> QED BY <3>3, <4>1 DEF UnitsOf
    <3> QED BY <3>1, <3>2, <3>3
  <2> QED BY <2>3
<1>4. HeldMap' = [HeldMap EXCEPT ![client] = @ \cup {UnitsOf(x)}]
  <2>1. blocks \in [Clients -> SUBSET Blocks]
    BY DEF HeapInv, Apart
  <2>2. blocks' = [blocks EXCEPT ![client] = @ \cup {x}]
    BY DEF With
  <2>3. UnitsHeld(objects'[client], blocks'[client])
          = UnitsHeld(objects[client], blocks[client]) \cup {UnitsOf(x)}
    <3>1. blocks'[client] = blocks[client] \cup {x}
      BY <2>1, <2>2
    <3> QED BY <3>1 DEF UnitsHeld
  <2>4. \A d \in Clients : d # client => UnitsHeld(objects'[d], blocks'[d]) = UnitsHeld(objects[d], blocks[d])
    BY <2>1, <2>2
  <2> QED BY <2>3, <2>4 DEF HeldMap
<1>5. Gives(client, UnitsOf(x))
  BY <1>3, <1>4 DEF Gives
<1> QED BY <1>5, GivesIsGrant

LEMMA TakeObject ==
  ASSUME HeapInv, NEW client \in Clients, NEW o \in objects[client],
         objects' = Without(objects, client, o), blocks' = blocks
  PROVE  Alloc!AllocNext
<1>1. {o} \in HeldMap[client]
  BY DEF HeldMap, UnitsHeld
<1>2. o \in AllObjects /\ blocks[client] \subseteq AllBlocks
  BY DEF Clients, AllObjects, AllBlocks
<1>4. HeldMap' = [HeldMap EXCEPT ![client] = @ \ {{o}}]
  <2>1. objects \in [Clients -> SUBSET (PageSet \X Nat)]
    BY DEF HeapInv, Apart
  <2>2. objects' = [objects EXCEPT ![client] = @ \ {o}] /\ blocks' = blocks
    BY DEF Without
  <2>3. UnitsHeld(objects'[client], blocks'[client])
          = UnitsHeld(objects[client], blocks[client]) \ {{o}}
    <3>1. objects'[client] = objects[client] \ {o} /\ blocks'[client] = blocks[client]
      BY <2>1, <2>2
    <3>2. \A b \in blocks[client] : UnitsOf(b) # {o}
      <4>1. o[2] # 0
        BY <1>2, HeldUnits
      <4>2. \A b \in blocks[client] : b \in Blocks
        BY <1>2, PagesHold
      <4> QED BY <4>1, <4>2, HeldUnits
    <3> QED BY <3>1, <3>2 DEF UnitsHeld
  <2>4. \A d \in Clients : d # client => UnitsHeld(objects'[d], blocks'[d]) = UnitsHeld(objects[d], blocks[d])
    BY <2>1, <2>2
  <2> QED BY <2>3, <2>4 DEF HeldMap
<1>5. Takes(client, {o})
  BY <1>1, <1>4 DEF Takes
<1> QED BY <1>5, TakesIsReturn

LEMMA TakeBlock ==
  ASSUME HeapInv, NEW client \in Clients, NEW b \in blocks[client],
         blocks' = Without(blocks, client, b), objects' = objects
  PROVE  Alloc!AllocNext
<1>1. UnitsOf(b) \in HeldMap[client]
  BY DEF HeldMap, UnitsHeld
<1>2. /\ b \in AllBlocks /\ b \in Blocks /\ blocks[client] \subseteq AllBlocks
      /\ objects[client] \subseteq AllObjects
  BY PagesHold DEF Clients, AllObjects, AllBlocks
<1>4. HeldMap' = [HeldMap EXCEPT ![client] = @ \ {UnitsOf(b)}]
  <2>1. blocks \in [Clients -> SUBSET Blocks]
    BY DEF HeapInv, Apart
  <2>2. blocks' = [blocks EXCEPT ![client] = @ \ {b}]
    BY DEF Without
  <2>3. UnitsHeld(objects'[client], blocks'[client])
          = UnitsHeld(objects[client], blocks[client]) \ {UnitsOf(b)}
    <3>1. blocks'[client] = blocks[client] \ {b}
      BY <2>1, <2>2
    <3>2. \A o \in objects[client] : UnitsOf(b) # {o}
      <4>1. \A o \in objects[client] : o[2] # 0
        BY <1>2, HeldUnits
      <4> QED BY <4>1, <1>2, HeldUnits
    <3>3. \A c \in blocks[client] : c # b => UnitsOf(c) # UnitsOf(b)
      BY <1>2, HeldUnits
    <3> QED BY <3>1, <3>2, <3>3 DEF UnitsHeld
  <2>4. \A d \in Clients : d # client => UnitsHeld(objects'[d], blocks'[d]) = UnitsHeld(objects[d], blocks[d])
    BY <2>1, <2>2
  <2> QED BY <2>3, <2>4 DEF HeldMap
<1>5. Takes(client, UnitsOf(b))
  BY <1>1, <1>4 DEF Takes
<1> QED BY <1>5, TakesIsReturn

HeldStutters == HeldMap' = HeldMap

(* A load changes nothing of what is held.                                   *)
LEMMA HoldersSame ==
  ASSUME objects' = objects, blocks' = blocks
  PROVE  HeldStutters
BY DEF HeldStutters, HeldMap

(* Every step grants, returns or changes nothing.                            *)
LEMMA StepImplements ==
  ASSUME ~MidCall, HeapInv, [Next]_vars
  PROVE  Alloc!AllocNext \/ HeldStutters
<1> DEFINE Goal == Alloc!AllocNext \/ HeldStutters
<1>1. CASE UNCHANGED vars
  BY <1>1, HoldersSame DEF vars
<1>2. ASSUME NEW c \in Caches, KmallocLoad(c) PROVE Goal
  BY <1>2, HoldersSame DEF KmallocLoad
<1>3. ASSUME NEW order \in Orders, KmallocDirectLoad(order) PROVE Goal
  BY <1>3, HoldersSame DEF KmallocDirectLoad
<1>m. "main" \in Clients /\ "isr" \in Clients
  BY DEF Clients
<1>4. CASE KmallocStore
  <2>1. PICK c \in Caches : call.obj \in 1 .. Objs[c]
    BY <1>4, StepKmallocStore
  <2>2. /\ call.pg \in PageSet /\ <<call.pg, call.obj>> \notin AllObjects
        /\ objects' = With(objects, "main", <<call.pg, call.obj>>) /\ blocks' = blocks
    BY <1>4, StepKmallocStore DEF KmallocStore
  <2> QED BY <2>1, <2>2, <1>m, GiveObject
<1>5. CASE KmallocDirectStore
  <2>1. PICK x : x = <<call.head.addr, call.order>>
    OBVIOUS
  <2>2. /\ x \in Blocks /\ \A b \in AllBlocks : PagesOf(b) \cap PagesOf(x) = {}
        /\ blocks' = With(blocks, "main", x) /\ objects' = objects
    BY <2>1, <1>5, StepKmallocDirectStore DEF KmallocDirectStore
  <2> QED BY <2>2, <1>m, GiveBlock
<1>6. CASE KfreeStore
  BY <1>6, HoldersSame DEF KfreeStore
<1>7. ASSUME NEW o \in objects["main"], KfreeLoad(o) PROVE Goal
  <2>1. objects' = Without(objects, "main", o) /\ blocks' = blocks
    BY <1>7 DEF KfreeLoad
  <2> QED BY <2>1, <1>m, TakeObject
<1>8. ASSUME NEW client \in Clients, NEW b \in blocks[client], KfreeDirect(client, b) PROVE Goal
  <2>1. blocks' = Without(blocks, client, b) /\ objects' = objects
    BY <1>8 DEF KfreeDirect
  <2> QED BY <2>1, TakeBlock
<1>a. Interrupts => call = Idle
  BY DEF Interrupts
<1>9. ASSUME NEW c \in Caches, IsrKmalloc(c) PROVE Goal
  <2>1. call = Idle
    BY <1>9, <1>a DEF IsrKmalloc
  <2>2. PICK o \in PageSet \X (1 .. Objs[c]) :
              /\ o \notin AllObjects
              /\ objects' = With(objects, "isr", o) /\ blocks' = blocks
    BY <2>1, <1>9, StepIsrKmalloc
  <2>3. PICK pg \in PageSet, i \in 1 .. Objs[c] : o = <<pg, i>>
    OBVIOUS
  <2> QED BY <2>2, <2>3, <1>m, GiveObject
<1>10. ASSUME NEW order \in Orders, IsrKmallocDirect(order) PROVE Goal
  <2>1. call = Idle
    BY <1>10, <1>a DEF IsrKmallocDirect
  <2>2. PICK x \in Blocks :
              /\ x \notin AllBlocks /\ \A b \in AllBlocks : PagesOf(b) \cap PagesOf(x) = {}
              /\ blocks' = With(blocks, "isr", x) /\ objects' = objects
    BY <2>1, <1>10, StepIsrKmallocDirect
  <2> QED BY <2>2, <1>m, GiveBlock
<1>11. ASSUME NEW o \in objects["isr"], IsrKfree(o) PROVE Goal
  <2>1. objects' = Without(objects, "isr", o) /\ blocks' = blocks
    BY <1>11 DEF IsrKfree
  <2> QED BY <2>1, <1>m, TakeObject
<1> QED BY <1>1, <1>2, <1>3, <1>4, <1>5, <1>6, <1>7, <1>8, <1>9, <1>10, <1>11, <1>m
        DEF Next, MainStep, IsrStep

-----------------------------------------------------------------------------
(* The theorems, without interrupts inside the calls of main.               *)

(* The invariant holds (slab.c and pmm.c, every action of Heap).             *)
THEOREM HeapInvariant == ASSUME ~MidCall PROVE Spec => []HeapInv
<1>1. Init => HeapInv
  BY StepInit
<1>2. HeapInv /\ [Next]_vars => HeapInv'
  BY StepKeeps
<1> QED BY <1>1, <1>2, PTL DEF Spec

(* Free lists, slabs and counts stay in range (pmm.c, slab.c): a slab never  *)
(* has more free objects than fit, free_pages never leaves 0 .. NPages.      *)
THEOREM HeapTypes == ASSUME ~MidCall PROVE Spec => []TypeOK
<1>1. HeapInv => TypeOK
  BY TypesHold
<1> QED BY <1>1, HeapInvariant, PTL

(* pmm_init, pmm_alloc_page and pmm_free_page lose no page and duplicate     *)
(* none, free_pages is right, and kfree knows the size of each block.        *)
THEOREM PagesAreAccounted == ASSUME ~MidCall PROVE Spec => []PagesAccounted
<1>1. HeapInv => PagesAccounted
  BY PagesHold
<1> QED BY <1>1, HeapInvariant, PTL

(* slab_cache_alloc and slab_cache_free keep each slab on the list its count *)
(* calls for and its free objects apart from those in use, and the magic     *)
(* number tells kfree slabs from blocks.                                     *)
THEOREM ObjectsAreAccounted == ASSUME ~MidCall PROVE Spec => []ObjectsAccounted
<1>1. HeapInv => ObjectsAccounted
  BY ObjectsHold
<1> QED BY <1>1, HeapInvariant, PTL

(* Kernel code and the interrupt never hold the same object, nor blocks that *)
(* overlap: the interrupt inside a call, which the theorem excludes, is the  *)
(* only way to that.                                                         *)
THEOREM NothingIsShared == ASSUME ~MidCall PROVE Spec => []NeverShared
<1>1. HeapInv => NeverShared
  <2> SUFFICES ASSUME HeapInv PROVE NeverShared
    OBVIOUS
  <2>1. /\ objects["main"] \cap objects["isr"] = {}
        /\ blocks["main"] \cap blocks["isr"] = {}
    BY DEF HeapInv, Apart
  <2>2. \A b, c \in AllBlocks : b # c => PagesOf(b) \cap PagesOf(c) = {}
    BY PagesHold
  <2> QED BY <2>1, <2>2 DEF NeverShared, AllBlocks
<1> QED BY <1>1, HeapInvariant, PTL

(* kmalloc and kfree keep the promise of an allocator: an object or a block  *)
(* handed out overlaps nothing that is still held.                           *)
THEOREM HeapImplementsAllocator == ASSUME ~MidCall PROVE Spec => ImplementsAllocator
<1>1. Init => Alloc!AllocInit
  BY DEF Init, Alloc!AllocInit, Clients
<1>2. HeapInv /\ [Next]_vars => [Alloc!AllocNext]_HeldMap
  BY StepImplements DEF HeldStutters
<1>3. HeapInv /\ [Next]_vars
        => [Alloc!AllocNext]_[c \in Clients |-> {{o} : o \in objects[c]}
                                                 \cup {UnitsOf(b) : b \in blocks[c]}]
  BY <1>2 DEF HeldMap, UnitsHeld
<1> QED BY <1>1, <1>3, HeapInvariant, PTL DEF Spec, ImplementsAllocator, Alloc!AllocSpec
=============================================================================
