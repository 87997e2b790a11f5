--------------------------- MODULE SplittedMemory ---------------------------
(***************************************************************************)
(* The memory policy `splitted': one region whose head is the kernel heap, *)
(* a doubly linked list of free/used structures, and whose tail is handed  *)
(* out in pages that a bitmap accounts for.  cur_kernel_bound and          *)
(* cur_user_bound keep the two apart.                                      *)
(*                                                                         *)
(* Addresses are relative to first_address and counted in some unit.  The  *)
(* area is page aligned and the bitmap does not end exactly at the end of  *)
(* a page, so that the length set_to leaves is the number of pages behind  *)
(* first_address and page i starts at i * PageSize for page_alloc and      *)
(* page_free alike.  A structure is named after its address and the memory *)
(* it describes starts HeaderSize behind it.  The structures that merging  *)
(* kills are forgotten.                                                    *)
(***************************************************************************)
EXTENDS Integers, FiniteSets

CONSTANTS PageSize,     \* size of a page
          HeaderSize,   \* sizeof( fu_structure )
          Length,       \* pages in the region
          Sizes         \* the sizes kernel_malloc is asked for

ASSUME MemoryAssumption ==
  /\ PageSize \in Nat \ {0}
  /\ HeaderSize \in Nat \ {0}
  /\ Length \in Nat \ {0}
  /\ Sizes \subseteq Nat
  /\ HeaderSize + 1 <= Length * PageSize    \* room for the first structure

NULL == -1

Last == Length * PageSize
Addr == 0..Last
PageIndex == 0..(Length - 1)

VARIABLES fu,                \* the free/used structures, by address
          cur_kernel_bound,
          max_kernel_bound,
          cur_user_bound,
          page_bm,           \* the pages whose free bit is set to used
          live,              \* client: kernel blocks in use, address -> size
          pages,             \* client: user pages in use
          tables,            \* client: aligned kernel pages (page tables)
          null_write,        \* the kernel wrote through a null pointer
          passed_over        \* history: page_free moved the bound over used pages

heapVars == <<fu, cur_kernel_bound, max_kernel_bound, live, null_write>>
pageVars == <<cur_user_bound, page_bm, pages, tables, passed_over>>
vars == <<heapVars, pageVars>>

Pointer == Addr \cup {NULL}
Structure == [free : BOOLEAN, previous : Pointer, next : Pointer, size : Nat]

TypeOK ==
  /\ DOMAIN fu \subseteq Addr
  /\ fu \in [DOMAIN fu -> Structure]
  /\ cur_kernel_bound \in Addr
  /\ max_kernel_bound \in Addr
  /\ cur_user_bound \in Addr
  /\ page_bm \subseteq PageIndex
  /\ DOMAIN live \subseteq Addr
  /\ live \in [DOMAIN live -> Nat]
  /\ pages \subseteq PageIndex
  /\ tables \subseteq PageIndex
  /\ null_write \in BOOLEAN
  /\ passed_over \in BOOLEAN

Memory(h) == h + HeaderSize
End(h) == h + HeaderSize + fu[h].size

(* The region after the first allocation of the boot, a kernel object.     *)
Init ==
  /\ fu = [h \in {0} |-> [free |-> FALSE, previous |-> NULL, next |-> NULL, size |-> 1]]
  /\ cur_kernel_bound = HeaderSize + 1
  /\ max_kernel_bound = HeaderSize + 1
  /\ live = [a \in {HeaderSize} |-> 1]
  /\ null_write = FALSE
  /\ cur_user_bound = Last
  /\ page_bm = {} /\ pages = {} /\ tables = {}
  /\ passed_over = FALSE
-----------------------------------------------------------------------------
Extend(f, x, v) == [y \in DOMAIN f \cup {x} |-> IF y = x THEN v ELSE f[y]]
Without(f, x) == [y \in DOMAIN f \ {x} |-> f[y]]

(* Faulty variant: a structure's header counts as usable memory.           *)
Fitting_counts_header(n) ==
  {h \in DOMAIN fu : fu[h].free /\ fu[h].size + HeaderSize >= n}

(* The structures the search of kernel_malloc would accept.  The list is   *)
(* in address order, so it finds the lowest one.                           *)
Fitting(n) == {h \in DOMAIN fu : fu[h].free /\ fu[h].size >= n}
FirstFit(n) == CHOOSE h \in Fitting(n) : \A g \in Fitting(n) : h <= g
LastStructure == CHOOSE h \in DOMAIN fu : fu[h].next = NULL

(* kernel_malloc at the end of the list: a new structure at                *)
(* cur_kernel_bound, unless it would cross cur_user_bound.                 *)
kernel_malloc_grow(n) ==
  LET h == cur_kernel_bound
      new_kernel_bound == cur_kernel_bound + HeaderSize + n
  IN
  /\ Fitting(n) = {}
  /\ new_kernel_bound <= cur_user_bound
  /\ fu' = Extend([fu EXCEPT ![LastStructure].next = h], h,
                  [free |-> FALSE, previous |-> LastStructure, next |-> NULL, size |-> n])
  /\ cur_kernel_bound' = new_kernel_bound
  /\ max_kernel_bound' = IF new_kernel_bound > max_kernel_bound
                           THEN new_kernel_bound ELSE max_kernel_bound
  /\ live' = Extend(live, Memory(h), n)
  /\ UNCHANGED <<null_write, pageVars>>

(* The first free structure that is large enough is taken; the remainder   *)
(* becomes a structure of its own if it can hold more than a header.  The  *)
(* assignment to cur_structure->next->previous is not guarded.             *)
kernel_malloc_fit(n) ==
  LET h == FirstFit(n)
      remain == fu[h].size - n
      g == Memory(h) + n
      nxt == fu[h].next
  IN
  /\ Fitting(n) # {}
  /\ \/ /\ remain > HeaderSize
        /\ fu' = Extend([x \in DOMAIN fu |->
                           CASE x = h -> [fu[h] EXCEPT !.free = FALSE, !.size = n, !.next = g]
                             [] x = nxt -> [fu[x] EXCEPT !.previous = g]
                             [] OTHER -> fu[x]],
                        g, [free |-> TRUE, previous |-> h, next |-> nxt,
                            size |-> remain - HeaderSize])
        /\ null_write' = (null_write \/ nxt = NULL)
     \/ /\ remain <= HeaderSize
        /\ fu' = [fu EXCEPT ![h].free = FALSE]
        /\ UNCHANGED null_write
  /\ live' = Extend(live, Memory(h), n)
  /\ UNCHANGED <<cur_kernel_bound, max_kernel_bound, pageVars>>

(* Faulty variant: the structure behind the merged ones keeps its link to  *)
(* the one that was killed.                                                *)
MergeNext_stale_previous(f, h) ==
  LET n == f[h].next
  IN  [x \in DOMAIN f \ {n} |->
         IF x = h THEN [f[h] EXCEPT !.size = @ + HeaderSize + f[n].size, !.next = f[n].next]
                  ELSE f[x]]

(* The structure at h merged with the one behind it.                       *)
MergeNext(f, h) ==
  LET n == f[h].next
      nn == f[n].next
  IN  [x \in DOMAIN f \ {n} |->
         CASE x = h -> [f[h] EXCEPT !.size = @ + HeaderSize + f[n].size, !.next = nn]
           [] x = nn -> [f[x] EXCEPT !.previous = h]
           [] OTHER -> f[x]]

(* Faulty variant: only the successor is looked at.                        *)
kernel_free_forward_only(a) ==
  LET h == a - HeaderSize
      forward == fu[h].next # NULL /\ fu[fu[h].next].free
      f2 == IF forward THEN MergeNext(fu, h) ELSE fu
  IN
  /\ a \in DOMAIN live
  /\ fu' = [f2 EXCEPT ![h].free = TRUE]
  /\ live' = Without(live, a)
  /\ UNCHANGED <<cur_kernel_bound, max_kernel_bound, null_write, pageVars>>

(* kernel_free of a block the kernel owns: merge with a free predecessor,  *)
(* then with a free successor, and mark the result free.                   *)
kernel_free(a) ==
  LET h == a - HeaderSize
      p == fu[h].previous
      backward == p # NULL /\ fu[p].free
      f1 == IF backward THEN MergeNext(fu, p) ELSE fu
      c == IF backward THEN p ELSE h
      forward == f1[c].next # NULL /\ f1[f1[c].next].free
      f2 == IF forward THEN MergeNext(f1, c) ELSE f1
  IN
  /\ a \in DOMAIN live
  /\ a <= cur_kernel_bound
  /\ fu' = [f2 EXCEPT ![c].free = TRUE]
  /\ live' = Without(live, a)
  /\ UNCHANGED <<cur_kernel_bound, max_kernel_bound, null_write, pageVars>>
-----------------------------------------------------------------------------
(* The search of page_alloc, from the tail; page 0 is never taken.         *)
FreePages == {i \in PageIndex : i > 0 /\ i \notin page_bm}
HighestFree == CHOOSE i \in FreePages : \A j \in FreePages : j <= i

(* Faulty variants: page tables are not marked in the bitmap; they do not  *)
(* move the bound.                                                         *)
page_alloc_unmarked(kernel) ==
  LET i == HighestFree
      ret == i * PageSize
  IN
  /\ FreePages # {}
  /\ cur_kernel_bound <= ret
  /\ page_bm' = IF kernel THEN page_bm ELSE page_bm \cup {i}
  /\ cur_user_bound' = IF cur_user_bound > ret THEN ret ELSE cur_user_bound
  /\ pages' = IF kernel THEN pages ELSE pages \cup {i}
  /\ tables' = IF kernel THEN tables \cup {i} ELSE tables
  /\ UNCHANGED <<heapVars, passed_over>>

page_alloc_bound_kept(kernel) ==
  LET i == HighestFree
      ret == i * PageSize
  IN
  /\ FreePages # {}
  /\ cur_kernel_bound <= ret
  /\ page_bm' = page_bm \cup {i}
  /\ cur_user_bound' = IF cur_user_bound > ret /\ ~kernel THEN ret ELSE cur_user_bound
  /\ pages' = IF kernel THEN pages ELSE pages \cup {i}
  /\ tables' = IF kernel THEN tables \cup {i} ELSE tables
  /\ UNCHANGED <<heapVars, passed_over>>

(* page_alloc: the highest free page, unless the kernel heap reaches into  *)
(* it.  kernel tells page tables from user pages.                          *)
page_alloc(kernel) ==
  LET i == HighestFree
      ret == i * PageSize
  IN
  /\ FreePages # {}
  /\ cur_kernel_bound <= ret
  /\ page_bm' = page_bm \cup {i}
  /\ max_kernel_bound' = IF max_kernel_bound > ret THEN ret ELSE max_kernel_bound
  /\ cur_user_bound' = IF cur_user_bound > ret THEN ret ELSE cur_user_bound
  /\ pages' = IF kernel THEN pages ELSE pages \cup {i}
  /\ tables' = IF kernel THEN tables \cup {i} ELSE tables
  /\ UNCHANGED <<fu, cur_kernel_bound, live, null_write, passed_over>>

(* free( addr, false ) of a page the user owns.  A page below              *)
(* cur_user_bound is refused and stays used.  At the bound, the loop that  *)
(* advances it tests page i, which has just been freed, for every j.       *)
page_free(i) ==
  LET addr == i * PageSize
      new_bound == IF addr = cur_user_bound
                     THEN cur_user_bound + (Length - i) * PageSize
                     ELSE cur_user_bound
  IN
  /\ i \in pages
  /\ addr >= cur_user_bound
  /\ page_bm' = page_bm \ {i}
  /\ pages' = pages \ {i}
  /\ cur_user_bound' = new_bound
  /\ passed_over' = (passed_over \/ \E j \in page_bm \ {i} : j * PageSize < new_bound)
  /\ UNCHANGED <<heapVars, tables>>

Next ==
  \/ \E n \in Sizes : kernel_malloc_grow(n) \/ kernel_malloc_fit(n)
  \/ \E a \in DOMAIN live : kernel_free(a)
  \/ \E kernel \in BOOLEAN : page_alloc(kernel)
  \/ \E i \in pages : page_free(i)

Spec == Init /\ [][Next]_vars
-----------------------------------------------------------------------------
(* The structures tile the heap: in address order each one begins where    *)
(* its predecessor's memory ends, next and previous are inverse to each    *)
(* other, and the last one ends at cur_kernel_bound.  Splits and merges in *)
(* any order lose no byte and link no killed structure.                    *)
HeapTiled ==
  /\ 0 \in DOMAIN fu
  /\ \A h \in DOMAIN fu :
       /\ IF fu[h].next = NULL
            THEN End(h) = cur_kernel_bound
            ELSE /\ fu[h].next = End(h)
                 /\ fu[h].next \in DOMAIN fu
                 /\ fu[fu[h].next].previous = h
       /\ IF fu[h].previous = NULL
            THEN h = 0
            ELSE /\ fu[h].previous \in DOMAIN fu
                 /\ fu[fu[h].previous].next = h

(* Free memory is never left in two neighbouring pieces.                   *)
Coalesced ==
  \A h \in DOMAIN fu :
    fu[h].free /\ fu[h].next # NULL => ~fu[fu[h].next].free

(* Every block the kernel holds is described by a used structure that is   *)
(* large enough for it, and every used structure belongs to such a block:  *)
(* no block is handed out twice and none is lost.                          *)
BlocksBacked ==
  /\ \A a \in DOMAIN live :
       /\ a - HeaderSize \in DOMAIN fu
       /\ ~fu[a - HeaderSize].free
       /\ fu[a - HeaderSize].size >= live[a]
  /\ \A h \in DOMAIN fu : ~fu[h].free => Memory(h) \in DOMAIN live

(* A page is marked used exactly while somebody has it, and nobody shares  *)
(* one.                                                                    *)
PagesAccounted ==
  /\ page_bm = pages \cup tables
  /\ pages \cap tables = {}

(* Heap and pages are kept apart by the two bounds, and every page can be  *)
(* given back, as long as no page_free has moved cur_user_bound over pages *)
(* that are in use.                                                        *)
BoundsSeparate ==
  ~passed_over =>
    /\ cur_kernel_bound <= cur_user_bound
    /\ \A i \in page_bm : cur_user_bound <= i * PageSize

(* splitted.hpp, page_free: "we advance the bound til we found a page      *)
(* which is not free".  So no page in use ever lies inside the kernel      *)
(* heap.                                                                   *)
KernelAndPagesDisjoint ==
  \A i \in page_bm : cur_kernel_bound <= i * PageSize
=============================================================================
