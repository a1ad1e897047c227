-------------------------------- MODULE Heap -------------------------------
(***************************************************************************)
(* The kernel heap (kernel/mm/slab.c) over the page allocator: kmalloc and  *)
(* kfree take objects from one-page slabs, or whole blocks of pages for     *)
(* what is larger than the largest cache.  kfree tells the two apart by the *)
(* magic number at the start of the page.                                   *)
(*                                                                          *)
(* Kernel code ("main") calls the heap with interrupts enabled; the timer   *)
(* interrupt polls the network and runs the commands of SSH sessions, which *)
(* call it too ("isr").  A call of main loads the head of a free list in    *)
(* one step and stores its successor in another; a call of isr is a single  *)
(* step, which MidCall allows between the two.                              *)
(***************************************************************************)
EXTENDS Pmm

CONSTANTS
  Caches,    \* the generic caches
  Objs,      \* objects per slab of each cache, (PAGE_SIZE - header) / obj_size
  MidCall    \* whether an interrupt falls inside calls of main

NoCache == "none"

ASSUME HeapAssumption ==
  /\ NPages \in Nat /\ MaxOrder \in Nat
  /\ Objs \in [Caches -> Nat \ {0}] /\ NoCache \notin Caches
  /\ MidCall \in BOOLEAN

Clients == {"main", "isr"}

(* What kmalloc returns is <<page, object>> for an object of a slab and     *)
(* <<page, 0>> for a block, the address of its first page.                  *)

VARIABLES
  pmm,      \* the page allocator
  lists,    \* full, partial and empty slabs of each cache, heads first
  slab,     \* header of each page that is a slab: cache, free_list, free_count
  magic,    \* pages whose first word is SLAB_MAGIC
  call,     \* main's call in progress
  objects,  \* history: the objects each client holds
  blocks    \* history: the blocks each client holds, <<page, order>>

vars == <<pmm, lists, slab, magic, call, objects, blocks>>

NoSlab == [cache |-> NoCache, free_list |-> <<>>, free_count |-> 0]
Idle == [pc |-> "idle"]

Init ==
  /\ pmm = pmm_init
  /\ lists = [c \in Caches |-> [full |-> <<>>, partial |-> <<>>, empty |-> <<>>]]
  /\ slab = [pg \in PageSet |-> NoSlab]
  /\ magic = {}
  /\ call = Idle
  /\ objects = [c \in Clients |-> {}]
  /\ blocks = [c \in Clients |-> {}]

With(h, client, x) == [h EXCEPT ![client] = @ \cup {x}]
Without(h, client, x) == [h EXCEPT ![client] = @ \ {x}]

(* slab_create: a fresh slab, its objects chained in address order. *)
slab_create_NoHeader(c) ==   \* mutant: forgets the header takes room
  [cache |-> c, free_list |-> [i \in 1 .. Objs[c] + 1 |-> i],
   free_count |-> Objs[c] + 1]
slab_create(c) ==
  [cache |-> c, free_list |-> [i \in 1 .. Objs[c] |-> i], free_count |-> Objs[c]]

(* The slab slab_cache_alloc works on: the first partial one, else an empty *)
(* one, else a new one on a page of the PMM; the latter two become partial. *)
(* The machine after that choice.                                           *)
CanPick(c) == lists[c].partial # <<>> \/ lists[c].empty # <<>> \/ CanAllocPage(pmm, 0)
Picked(c) ==
  LET l == lists[c]
      pg == CASE l.partial # <<>> -> Head(l.partial)
              [] l.partial = <<>> /\ l.empty # <<>> -> Head(l.empty)
              [] OTHER -> HeadFor(pmm, 0).addr
      fresh == l.partial = <<>> /\ l.empty = <<>>
      moved == [full |-> l.full, partial |-> <<pg>>,
                empty |-> IF l.empty = <<>> THEN <<>> ELSE Tail(l.empty)]
  IN  [pg |-> pg,
       lists |-> IF l.partial # <<>> THEN lists ELSE [lists EXCEPT ![c] = moved],
       slab  |-> IF fresh THEN [slab EXCEPT ![pg] = slab_create(c)] ELSE slab,
       magic |-> IF fresh THEN magic \cup {pg} ELSE magic,
       pmm   |-> IF fresh THEN pmm_alloc_page(pmm, 0) ELSE pmm]

(* The rest of slab_cache_alloc: unlink the object; a slab without free     *)
(* objects leaves the head of the partial list for the full one.            *)
Unlinked_KeepsHead(sl, pg, rest) ==   \* mutant: the head stays on the free list
  [sl EXCEPT ![pg].free_count = @ - 1]
Unlinked(sl, pg, rest) ==
  [sl EXCEPT ![pg] =
     [cache |-> @.cache, free_list |-> rest, free_count |-> @.free_count - 1]]
Emptied(ls, sl, pg) ==
  LET c == sl[pg].cache
  IN  IF sl[pg].free_count = 0
        THEN [ls EXCEPT ![c].partial = Tail(@), ![c].full = <<pg>> \o @]
        ELSE ls

(* slab_cache_free after the object is back on the free list: from full to  *)
(* partial, or from partial to empty.  A slab of one object, which goes     *)
(* from full to wholly free in one step, stays partial.                     *)
Relinked_DropsRest(sl, pg, obj, rest) ==   \* mutant: the old list is not linked
  [sl EXCEPT ![pg].free_list = <<obj>>, ![pg].free_count = @ + 1]
Relinked(sl, pg, obj, rest) ==
  [sl EXCEPT ![pg] = [cache |-> @.cache, free_list |-> <<obj>> \o rest,
                      free_count |-> @.free_count + 1]]
Refilled(ls, sl, pg) ==
  LET c == sl[pg].cache
      l == ls[c]
  IN  IF sl[pg].free_count = 1 /\ Contains(l.full, pg)
        THEN [ls EXCEPT ![c].full = RemoveFirst(@, pg), ![c].partial = <<pg>> \o @]
      ELSE IF sl[pg].free_count > 1 /\ sl[pg].free_count = Objs[c] /\ Contains(l.partial, pg)
        THEN [ls EXCEPT ![c].partial = RemoveFirst(@, pg), ![c].empty = <<pg>> \o @]
      ELSE ls

-----------------------------------------------------------------------------
(* kmalloc and kfree of main, each a load and a store. *)

(* A small request: choose the slab, load the head of its free list. *)
KmallocLoad(c) ==
  /\ call = Idle /\ CanPick(c)
  /\ LET p == Picked(c)
     IN  /\ pmm' = p.pmm /\ lists' = p.lists /\ slab' = p.slab /\ magic' = p.magic
         /\ call' = [pc |-> "take", pg |-> p.pg,
                     obj |-> Head(p.slab[p.pg].free_list),
                     rest |-> Tail(p.slab[p.pg].free_list)]
  /\ UNCHANGED <<objects, blocks>>

KmallocStore ==
  /\ call.pc = "take"
  /\ slab' = Unlinked(slab, call.pg, call.rest)
  /\ lists' = Emptied(lists, slab', call.pg)
  /\ objects' = With(objects, "main", <<call.pg, call.obj>>)
  /\ call' = Idle
  /\ UNCHANGED <<pmm, magic, blocks>>

(* A large request: a block of the page allocator.  What the client writes  *)
(* to its start is not the magic number.                                    *)
KmallocDirectLoad(order) ==
  /\ call = Idle /\ CanAllocPage(pmm, order)
  /\ call' = [pc |-> "pop", order |-> order, head |-> HeadFor(pmm, order)]
  /\ UNCHANGED <<pmm, lists, slab, magic, objects, blocks>>

KmallocDirectStore ==
  /\ call.pc = "pop"
  /\ pmm' = Taken(pmm, call.order, call.head)
  /\ blocks' = With(blocks, "main", <<call.head.addr, call.order>>)
  /\ call' = Idle
  /\ UNCHANGED <<lists, slab, magic, objects>>

(* kfree: the magic number decides where the pointer goes. *)
KfreeLoad(o) ==
  /\ call = Idle /\ o[1] \in magic
  /\ call' = [pc |-> "give", pg |-> o[1], obj |-> o[2], rest |-> slab[o[1]].free_list]
  /\ objects' = Without(objects, "main", o)
  /\ UNCHANGED <<pmm, lists, slab, magic, blocks>>

KfreeStore ==
  /\ call.pc = "give"
  /\ slab' = Relinked(slab, call.pg, call.obj, call.rest)
  /\ lists' = Refilled(lists, slab', call.pg)
  /\ call' = Idle
  /\ UNCHANGED <<pmm, magic, objects, blocks>>

(* kfree of a block: the order recorded at its first page, 0 if none is.    *)
FreeOrder(addr) ==
  IF pmm_get_order(pmm, addr) = NotTracked THEN 0 ELSE pmm_get_order(pmm, addr)
KfreeDirect(client, b) ==
  /\ b[1] \notin magic
  /\ pmm' = pmm_free_page(pmm, b[1], FreeOrder(b[1]))
  /\ blocks' = Without(blocks, client, b)
  /\ UNCHANGED <<lists, slab, magic, call, objects>>

(* The same calls in the interrupt. *)
Interrupts == MidCall \/ call = Idle
IsrKmalloc(c) ==
  /\ Interrupts /\ CanPick(c)
  /\ LET p == Picked(c)
         f == p.slab[p.pg].free_list
     IN  /\ slab' = Unlinked(p.slab, p.pg, Tail(f))
         /\ lists' = Emptied(p.lists, slab', p.pg)
         /\ magic' = p.magic /\ pmm' = p.pmm
         /\ objects' = With(objects, "isr", <<p.pg, Head(f)>>)
  /\ UNCHANGED <<call, blocks>>
IsrKmallocDirect(order) ==
  /\ Interrupts /\ CanAllocPage(pmm, order)
  /\ pmm' = pmm_alloc_page(pmm, order)
  /\ blocks' = With(blocks, "isr", <<HeadFor(pmm, order).addr, order>>)
  /\ UNCHANGED <<lists, slab, magic, call, objects>>
IsrKfree(o) ==
  /\ Interrupts /\ o[1] \in magic
  /\ slab' = Relinked(slab, o[1], o[2], slab[o[1]].free_list)
  /\ lists' = Refilled(lists, slab', o[1])
  /\ objects' = Without(objects, "isr", o)
  /\ UNCHANGED <<pmm, magic, call, blocks>>

MainStep ==
  \/ \E c \in Caches : KmallocLoad(c)
  \/ \E order \in Orders : KmallocDirectLoad(order)
  \/ KmallocStore \/ KmallocDirectStore \/ KfreeStore
  \/ \E o \in objects["main"] : KfreeLoad(o)
  \/ call = Idle /\ \E b \in blocks["main"] : KfreeDirect("main", b)
IsrStep ==
  \/ \E c \in Caches : IsrKmalloc(c)
  \/ \E order \in Orders : IsrKmallocDirect(order)
  \/ \E o \in objects["isr"] : IsrKfree(o)
  \/ Interrupts /\ \E b \in blocks["isr"] : KfreeDirect("isr", b)
Next == MainStep \/ IsrStep
Spec == Init /\ [][Next]_vars

-----------------------------------------------------------------------------
(* Properties. *)

SlabsOf(c) == {pg \in PageSet : slab[pg].cache = c}
AllObjects == objects["main"] \cup objects["isr"]
AllBlocks == blocks["main"] \cup blocks["isr"]
HeldIn(pg) == {o \in AllObjects : o[1] = pg}

(* Every variable has its type, a slab never more free objects than fit. *)
TypeOK ==
  /\ \A c \in Caches : \A f \in {"full", "partial", "empty"} :
       Range(lists[c][f]) \subseteq PageSet
  /\ \A pg \in PageSet :
       /\ slab[pg].cache \in Caches \cup {NoCache}
       /\ slab[pg].cache \in Caches => slab[pg].free_count \in 0 .. Objs[slab[pg].cache]
  /\ magic \subseteq PageSet
  /\ pmm.free_pages \in 0 .. NPages

(* Every managed page is in exactly one place: a free block, a block in     *)
(* use, or a slab.  The splits lose none and duplicate none.                *)
Regions == FreeBlocks(pmm) \cup AllBlocks \cup {<<pg, 0>> : pg \in magic}
EveryPageOnce ==
  /\ UNION {PagesOf(b) : b \in Regions} = PageSet
  /\ \A b, c \in Regions : b # c => PagesOf(b) \cap PagesOf(c) = {}
  /\ FreeBlocks(pmm) \cap (AllBlocks \cup {<<pg, 0>> : pg \in magic}) = {}

(* free_pages, which guards fork, execve and run3, counts the pages of the  *)
(* free lists.                                                              *)
CountRight ==
  pmm.free_pages = Cardinality(UNION {PagesOf(b) : b \in FreeBlocks(pmm)})

(* kfree knows the size of what it frees: the order recorded for the first  *)
(* page of a block in use is the order it was asked for with.               *)
OrderKnown == \A b \in AllBlocks : pmm_get_order(pmm, b[1]) = b[2]

(* Every slab of a cache is on exactly one list of it, the one its free     *)
(* objects call for: full without any, empty only when nothing is in use.   *)
ListsRight ==
  call = Idle => \A c \in Caches :
    /\ IsInjective(lists[c].full \o lists[c].partial \o lists[c].empty)
    /\ Range(lists[c].full \o lists[c].partial \o lists[c].empty) = SlabsOf(c)
    /\ \A pg \in SlabsOf(c) :
         /\ (slab[pg].free_count = 0) = Contains(lists[c].full, pg)
         /\ Contains(lists[c].empty, pg) => slab[pg].free_count = Objs[c]

(* A slab's free list and the objects in use divide up its objects. *)
ObjectsDivide ==
  call = Idle => \A c \in Caches : \A pg \in SlabsOf(c) :
    /\ IsInjective(slab[pg].free_list)
    /\ slab[pg].free_count = Len(slab[pg].free_list)
    /\ Range(slab[pg].free_list) \cap {o[2] : o \in HeldIn(pg)} = {}
    /\ slab[pg].free_count + Cardinality(HeldIn(pg)) = Objs[c]

(* kfree's test is right: the magic number marks the slabs and nothing      *)
(* else, so a block is never pushed on a free list of objects and an object *)
(* never frees the page around it.                                          *)
MagicMeansSlab ==
  /\ magic = {pg \in PageSet : slab[pg].cache # NoCache}
  /\ \A o \in AllObjects : o[1] \in magic
  /\ \A b \in AllBlocks : PagesOf(b) \cap magic = {}

(* Nothing is handed out twice: main and the interrupt never hold the same  *)
(* object, nor blocks that overlap.                                         *)
NeverShared ==
  /\ objects["main"] \cap objects["isr"] = {}
  /\ \A b \in blocks["main"], c \in blocks["isr"] : PagesOf(b) \cap PagesOf(c) = {}

(* The heap keeps the promise of Allocator; an object is a unit of its own, *)
(* a block all the units of its pages.                                      *)
UnitsOf(b) == PagesOf(b) \X {0}
Alloc == INSTANCE Allocator WITH
  Extents <- {{<<pg, i>>} : pg \in PageSet, i \in UNION {1 .. Objs[c] : c \in Caches}}
             \cup {UnitsOf(b) : b \in PageSet \X Orders},
  held <- [c \in Clients |-> {{o} : o \in objects[c]} \cup {UnitsOf(b) : b \in blocks[c]}]
ImplementsAllocator == Alloc!AllocSpec

(* Every page is in exactly one place, the free count is the number of free  *)
(* pages, and the order recorded for a block in use is the order it was      *)
(* given with (pmm_alloc_page, pmm_free_page), through splits, slabs and     *)
(* frees.                                                                    *)
PagesAccounted ==
  /\ EveryPageOnce /\ CountRight /\ OrderKnown

(* The objects of a slab are either on its free list or handed out, the slab *)
(* is on the list its count calls for, and the magic number tells slabs from *)
(* blocks (slab_cache_alloc, slab_cache_free, kfree).                        *)
ObjectsAccounted ==
  /\ ListsRight /\ ObjectsDivide /\ MagicMeansSlab
=============================================================================
