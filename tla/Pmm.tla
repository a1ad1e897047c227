-------------------------------- MODULE Pmm --------------------------------
(* The physical page allocator of the 32-bit kernel (kernel/mm/pmm.c) as    *)
(* functions of its state: free lists of blocks of 2^order pages, split on  *)
(* allocation and never merged, the order recorded at the first page of     *)
(* each block in use, and the count of free pages.  Pages are numbered from *)
(* PMM_START_ADDR.                                                          *)
EXTENDS Integers, FiniteSets, Sequences, FiniteSetsExt, SequencesExt

CONSTANTS
  NPages,        \* pages managed, PMM_START_ADDR .. end_addr
  MaxOrder       \* PMM_MAX_ORDER

Orders == 0 .. MaxOrder
PageSet == 0 .. NPages - 1
Size(order) == 2 ^ order
PagesOf(b) == b[1] .. b[1] + Size(b[2]) - 1     \* b = <<first page, order>>
NotTracked == -1

(* pmm_init: as many blocks of the largest order as fit, then one block of  *)
(* each smaller order the rest still holds, pushed in address order.        *)
LargeBlocks == NPages \div Size(MaxOrder)
InitialLists ==
  [o \in Orders |->
     IF o = MaxOrder
       THEN [i \in 1 .. LargeBlocks |-> (LargeBlocks - i) * Size(MaxOrder)]
     ELSE IF (NPages \div Size(o)) % 2 = 1
       THEN <<NPages - (NPages % Size(o + 1))>>
     ELSE <<>>]
pmm_init ==
  [free_lists |-> InitialLists,
   page_metadata |-> [p \in PageSet |-> NotTracked],
   free_pages |-> NPages]

(* The list a block is taken from: the first one that is not empty.         *)
ListsFor(m, order) == {j \in order .. MaxOrder : m.free_lists[j] # <<>>}
CanAllocPage(m, order) == ListsFor(m, order) # {}

(* What pmm_alloc_page loads: the list, its head and what follows it.       *)
HeadFor(m, order) ==
  LET j == Min(ListsFor(m, order))
  IN  [j |-> j, addr |-> Head(m.free_lists[j]), rest |-> Tail(m.free_lists[j])]

(* The rest of pmm_alloc_page: store the new head, push the upper halves of *)
(* the splits, record the order.                                            *)
Split_LowerHalf(lists, order, h) ==   \* mutant: keeps the half it returns
  [o \in Orders |->
     IF o = h.j THEN h.rest
     ELSE IF o \in order .. h.j - 1 THEN <<h.addr>> \o lists[o]
     ELSE lists[o]]
Split(lists, order, h) ==
  [o \in Orders |->
     IF o = h.j THEN h.rest
     ELSE IF o \in order .. h.j - 1 THEN <<h.addr + Size(o)>> \o lists[o]
     ELSE lists[o]]
Taken(m, order, h) ==
  [free_lists |-> Split(m.free_lists, order, h),
   page_metadata |-> [m.page_metadata EXCEPT ![h.addr] = order],
   free_pages |-> m.free_pages - Size(order)]
pmm_alloc_page(m, order) == Taken(m, order, HeadFor(m, order))

pmm_get_order(m, addr) == m.page_metadata[addr]

(* pmm_free_page: back on the list of its order.  What it is given is not   *)
(* checked.                                                                 *)
pmm_free_page(m, addr, order) ==
  [free_lists |-> [m.free_lists EXCEPT ![order] = <<addr>> \o @],
   page_metadata |-> [m.page_metadata EXCEPT ![addr] = NotTracked],
   free_pages |-> m.free_pages + Size(order)]

FreeBlocks(m) == UNION {{<<a, o>> : a \in Range(m.free_lists[o])} : o \in Orders}
=============================================================================
