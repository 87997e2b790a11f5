---------------------------- MODULE AddressSpace ----------------------------
(***************************************************************************)
(* The virtual memory of processes: page directories and tables            *)
(* (arch/x86/scheduler/process.cpp), the memory policy that maps what the  *)
(* page allocator hands out (mm/policies/virtual.hpp), and the system      *)
(* calls built on it: sbrk, fork and the loading of a program.             *)
(*                                                                         *)
(* Physical memory is the part of `splitted' these calls see: frames,      *)
(* taken from the top, and the bound below which a free is refused.  Page  *)
(* tables and directories are frames too and are never given back.  Pages  *)
(* below FirstPage are mapped directly and belong to the kernel.  A page's *)
(* content is one value.  A system call runs with interrupts off, so each  *)
(* is one step.  When no frame is left for a page table, the directory     *)
(* entry is made to point to physical address 0: null_table records it and *)
(* ends the modelled behaviour.                                            *)
(***************************************************************************)
EXTENDS Integers, Sequences, FiniteSets, FiniteSetsExt

CONSTANTS Process,     \* processes that may come to exist
          process0,    \* the one the boot creates
          Frames,      \* frames of physical memory
          PageSize,    \* bytes of a page
          TableSize,   \* entries of a page table
          Tables,      \* page tables of a directory, the kernel's included
          Increments,  \* sizes sbrk is called with
          Programs,    \* sequences of program segments
          Value,       \* contents of a page
          MaxCalls     \* bound: system calls made

ASSUME AddressSpaceAssumption ==
  /\ process0 \in Process
  /\ Frames \in Nat \ {0} /\ PageSize \in Nat \ {0}
  /\ TableSize \in Nat \ {0} /\ Tables \in Nat \ {0, 1}
  /\ Increments \subseteq Nat /\ MaxCalls \in Nat
  /\ Value # {} /\ "unmapped" \notin Value

Frame == 1..Frames
None == 0
FirstPage == TableSize
LastPage == Tables * TableSize - 1
Page == FirstPage..LastPage
Directory == 1..(Tables - 1)
directory_of(v) == v \div TableSize
Pages(size) == (size + PageSize - 1) \div PageSize
StackBase == LastPage * PageSize

(* The toolchain links programs with the layout of elf_i386, which starts  *)
(* at 0x08048000, past the 128 MB of the kernel; an address and a size do  *)
(* not pass the end of the address space.  The loader tests neither.       *)
Segment == [vaddr : Nat, memsz : Nat, filesz : Nat, data : Value, type : STRING]
ASSUME ProgramsAssumption ==
  \A program \in Programs :
    /\ program \in Seq(Segment)
    /\ \A i \in 1..Len(program) :
         /\ FirstPage * PageSize <= program[i].vaddr
         /\ program[i].vaddr + program[i].memsz <= StackBase + PageSize

VARIABLES born,            \* processes the scheduler knows
          used,            \* frames the page bitmap has marked
          cur_user_bound,  \* frames below it cannot be freed
          ptable,          \* process -> frame of its page directory
          tables,          \* process -> directory entry -> frame of the page table
          space,           \* process -> page -> frame
          content,         \* frame -> value
          heap_top,        \* process -> end of its heap
          call,            \* the last call and its result
          null_table,      \* a page table or directory is missing
          calls            \* system calls made so far

vars == <<born, used, cur_user_bound, ptable, tables, space, content, heap_top,
          call, null_table, calls>>

Call == {"boot", "write", "sbrk", "fork", "execve"}

TypeOK ==
  /\ born \subseteq Process
  /\ used \subseteq Frame
  /\ cur_user_bound \in 1..(Frames + 1)
  /\ ptable \in [Process -> Frame \cup {None}]
  /\ tables \in [Process -> [Directory -> Frame \cup {None}]]
  /\ space \in [Process -> [Page -> Frame \cup {None}]]
  /\ content \in [Frame -> Value]
  /\ heap_top \in [Process -> Nat]
  /\ call \in [op : Call, success : BOOLEAN]
  /\ null_table \in BOOLEAN
  /\ calls \in 0..MaxCalls

(* Process 0 has its page directory and no memory of its own.              *)
Init ==
  /\ born = {process0}
  /\ used = {Frames}
  /\ cur_user_bound = Frames
  /\ ptable = [p \in Process |-> IF p = process0 THEN Frames ELSE None]
  /\ tables = [p \in Process |-> [d \in Directory |-> None]]
  /\ space = [p \in Process |-> [v \in Page |-> None]]
  /\ content = [f \in Frame |-> CHOOSE x \in Value : TRUE]
  /\ heap_top = [p \in Process |-> 0]
  /\ call = [op |-> "boot", success |-> TRUE]
  /\ null_table = FALSE
  /\ calls = 0
-----------------------------------------------------------------------------
(* A machine m is what one call works on: physical memory, the tables of   *)
(* one process, whether the last operation succeeded, and null_table.      *)
Machine(p) ==
  [used |-> used, bound |-> cur_user_bound, tables |-> tables[p], space |-> space[p],
   ok |-> TRUE, null |-> FALSE]

(* The i-th highest of a set of frames.                                    *)
Nth(S, i) == CHOOSE f \in S : Cardinality({g \in S : g >= f}) = i

(* page_alloc, n times: the highest free frames.  The bound follows.       *)
Highest(m, n) ==
  {f \in Frame \ m.used : Cardinality({g \in Frame \ m.used : g > f}) < n}
page_alloc(m, fs) == [m EXCEPT !.used = @ \cup fs, !.bound = Min({@} \cup fs)]

(* page_free: refused below the bound; at the bound, the bound jumps to    *)
(* the end of memory.                                                      *)
page_free(m, f) ==
  IF f < m.bound
    THEN [m EXCEPT !.ok = FALSE]
    ELSE [m EXCEPT !.used = @ \ {f}, !.ok = TRUE,
                   !.bound = IF f = @ THEN Frames + 1 ELSE @]

(* page_free of several frames, the highest first.                         *)
free_all(m, fs) ==
  LET freed[k \in 0..Frames] ==
        IF k = 0 THEN m
        ELSE LET f == Frames + 1 - k
             IN  IF f \in fs THEN page_free(freed[k - 1], f) ELSE freed[k - 1]
  IN  freed[Frames]

(* add_virtual_memory at a given page, for a set of frames, the highest of *)
(* them first: the tables the walk comes by are created, also when it then *)
(* meets a page that is mapped and gives up.  Frames that find no page     *)
(* before the end of the address space are lost.                           *)
add_virtual_memory(m, frames, base) ==
  LET range == {v \in Page : base <= v /\ v < base + Cardinality(frames)}
      present == {v \in range : m.space[v] # None}
      walked == {v \in range : \A t \in present : v <= t}
      absent == {d \in {directory_of(v) : v \in walked} : m.tables[d] = None}
      new == Highest(m, Cardinality(absent))
      table(d) == Nth(new, Cardinality({e \in absent : e <= d}))
      created == [page_alloc(m, new) EXCEPT
                    !.tables = [d \in Directory |-> IF d \in absent THEN table(d) ELSE @[d]]]
  IN  IF Cardinality(new) < Cardinality(absent)
        THEN [m EXCEPT !.ok = FALSE, !.null = TRUE]
      ELSE IF present # {} \/ frames = {}
        THEN [created EXCEPT !.ok = FALSE]
      ELSE [created EXCEPT
              !.ok = TRUE,
              !.space = [v \in Page |-> IF v \in range THEN Nth(frames, v - base + 1) ELSE @[v]]]

(* vmalloc: a frame per page, all given back when there are too few; what  *)
(* add_virtual_memory refuses is not.                                      *)
malloc(m, n, base) ==
  LET got == Highest(m, n)
      taken == page_alloc(m, got)
  IN  IF Cardinality(got) < n
        THEN [free_all(taken, got) EXCEPT !.ok = FALSE]
        ELSE add_virtual_memory(taken, got, base)

(* Faulty variants: the page table entry stays; the frame stays taken.     *)
kfree_keeps_entry(m, v) ==
  IF m.space[v] = None THEN [m EXCEPT !.ok = FALSE] ELSE page_free(m, m.space[v])
kfree_keeps_frame(m, v) == [m EXCEPT !.space[v] = None]

(* kfree of a user page of the running process: the frame goes back first, *)
(* and only if that is not refused the page is removed.                    *)
kfree(m, v) ==
  IF m.space[v] = None
    THEN [m EXCEPT !.ok = FALSE]
    ELSE LET freed == page_free(m, m.space[v])
         IN  IF freed.ok THEN [freed EXCEPT !.space[v] = None] ELSE freed

Mapped(pages, v) == v \in Page /\ pages[v] # None

(* Page after page.                                                        *)
reset_address_space(m) ==
  LET reset[v \in 0..LastPage] ==
        IF v = 0 THEN m
        ELSE IF Mapped(reset[v - 1].space, v) THEN kfree(reset[v - 1], v) ELSE reset[v - 1]
  IN  reset[LastPage]
-----------------------------------------------------------------------------
(* Faulty variant: the child gets its parent's frames instead of copies.   *)
copy_address_space_shared(child, parent) == [child EXCEPT !.space = parent]

(* Page after page, until one cannot be had.                               *)
copy_address_space(child, parent) ==
  LET copied[v \in 0..LastPage] ==
        IF v = 0 THEN child
        ELSE IF Mapped(parent, v) /\ copied[v - 1].ok THEN malloc(copied[v - 1], 1, v)
                                                      ELSE copied[v - 1]
  IN  copied[LastPage]

(* fork: a process with a page directory of its own and a copy of the      *)
(* pages.  When the copy fails the process is deleted, but neither its     *)
(* directory and tables nor the pages copied so far are freed.             *)
fork(p, q) ==
  LET own == Highest(Machine(p), 1)
      empty == [page_alloc(Machine(p), own) EXCEPT
                  !.tables = [d \in Directory |-> None], !.space = [v \in Page |-> None]]
      child == copy_address_space(empty, space[p])
  IN
  /\ q \notin born
  /\ call' = [op |-> "fork", success |-> own # {} /\ child.ok]
  /\ null_table' = (own = {} \/ child.null)
  /\ used' = child.used
  /\ cur_user_bound' = child.bound
  /\ content' = [f \in Frame |->
                   IF \E v \in Page : space[p][v] # None /\ child.space[v] = f
                     THEN content[space[p][CHOOSE v \in Page : child.space[v] = f]]
                     ELSE content[f]]
  /\ IF own # {} /\ child.ok
       THEN /\ born' = born \cup {q}
            /\ ptable' = [ptable EXCEPT ![q] = CHOOSE f \in own : TRUE]
            /\ tables' = [tables EXCEPT ![q] = child.tables]
            /\ space' = [space EXCEPT ![q] = child.space]
       ELSE UNCHANGED <<born, ptable, tables, space>>
  /\ UNCHANGED heap_top

(* What the running process p has become after a call worked on m.         *)
Became(p, m) ==
  /\ used' = m.used
  /\ cur_user_bound' = m.bound
  /\ tables' = [tables EXCEPT ![p] = m.tables]
  /\ space' = [space EXCEPT ![p] = m.space]
  /\ null_table' = m.null
  /\ UNCHANGED <<born, ptable>>

(* copy_in: from the segment's first page on, until a page is missing.     *)
copy_in(m, contents, segment) ==
  LET first == segment.vaddr \div PageSize
      last == (segment.vaddr + segment.filesz - 1) \div PageSize
      written == {v \in Page : /\ first <= v /\ v <= last
                               /\ \A w \in first..v : m.space[w] # None}
  IN  [f \in Frame |-> IF \E v \in written : m.space[v] = f THEN segment.data ELSE contents[f]]

(* One turn of load_elf's loop.  The heap is moved before the area is      *)
(* allocated; an area that could not be allocated is still filled.         *)
load_segment(l, segment) ==
  LET area == malloc(l.m, Pages(segment.memsz), segment.vaddr \div PageSize)
  IN  IF l.m.null THEN l
      ELSE [m |-> area,
            heap |-> Max({l.heap, segment.vaddr + segment.memsz}),
            contents |-> IF segment.type = "PT_LOAD" THEN copy_in(area, l.contents, segment)
                                                     ELSE l.contents,
            success |-> l.success /\ area.ok /\ segment.type \in {"PT_LOAD", "PT_NULL"}]

(* The loop over the segments.                                             *)
load_segments(start, program) ==
  LET loaded[i \in 0..Len(program)] ==
        IF i = 0 THEN start ELSE load_segment(loaded[i - 1], program[i])
  IN  loaded[Len(program)]

(* execve of a program: the old memory is given up first, so a program     *)
(* that cannot be loaded returns to nothing.                               *)
execve(p, program) ==
  LET start == [m |-> reset_address_space(Machine(p)), heap |-> 0, contents |-> content,
                success |-> TRUE]
      loaded == load_segments(start, program)
      stack == malloc(loaded.m, 1, StackBase \div PageSize)
      m == IF loaded.success THEN stack ELSE loaded.m
  IN
  /\ Became(p, m)
  /\ heap_top' = [heap_top EXCEPT ![p] = loaded.heap]
  /\ content' = loaded.contents
  /\ call' = [op |-> "execve", success |-> loaded.success /\ stack.ok]

(* sbrk within the page heap_top is in.                                    *)
sbrk_available(p, incr) ==
  LET mod == heap_top[p] % PageSize
  IN
  /\ heap_top[p] # 0 /\ incr > 0
  /\ mod # 0 /\ PageSize - mod >= incr
  /\ heap_top' = [heap_top EXCEPT ![p] = @ + incr]
  /\ call' = [op |-> "sbrk", success |-> TRUE]
  /\ UNCHANGED <<born, used, cur_user_bound, ptable, tables, space, content, null_table>>

(* sbrk that needs pages: what the page at hand still has is taken off     *)
(* incr, and heap_top moves by the rest only, whether or not the pages     *)
(* were got.  The addresses do not pass the end of the address space.      *)
sbrk_pages(p, incr) ==
  LET mod == heap_top[p] % PageSize
      avail == IF mod = 0 THEN 0 ELSE PageSize - mod
      grown == malloc(Machine(p), Pages(incr - avail), (heap_top[p] + avail) \div PageSize)
  IN
  /\ heap_top[p] # 0 /\ incr > 0
  /\ mod # 0 => avail < incr
  /\ heap_top[p] + incr <= StackBase + PageSize
  /\ Became(p, grown)
  /\ heap_top' = [heap_top EXCEPT ![p] = @ + incr - avail]
  /\ call' = [op |-> "sbrk", success |-> grown.ok]
  /\ UNCHANGED content

(* sbrk( 0 ) with heap_top at the start of a page gives that page back;    *)
(* elsewhere nothing changes.                                              *)
sbrk_zero(p) ==
  LET v == heap_top[p] \div PageSize
  IN
  /\ heap_top[p] # 0 /\ 0 \in Increments
  /\ IF heap_top[p] % PageSize = 0 /\ v \in Page
       THEN Became(p, kfree(Machine(p), v))
       ELSE UNCHANGED <<born, used, cur_user_bound, ptable, tables, space, null_table>>
  /\ call' = [op |-> "sbrk", success |-> TRUE]
  /\ UNCHANGED <<heap_top, content>>

(* A process that has no heap.                                             *)
sbrk_refused(p) ==
  /\ heap_top[p] = 0
  /\ call' = [op |-> "sbrk", success |-> FALSE]
  /\ UNCHANGED <<born, used, cur_user_bound, ptable, tables, space, content, heap_top, null_table>>

(* External: a program stores to a page of its memory.                     *)
write(p, v, x) ==
  /\ space[p][v] # None
  /\ content' = [content EXCEPT ![space[p][v]] = x]
  /\ call' = [op |-> "write", success |-> TRUE]
  /\ UNCHANGED <<born, used, cur_user_bound, ptable, tables, space, heap_top, null_table, calls>>

system_call(p) ==
  /\ calls < MaxCalls
  /\ calls' = calls + 1
  /\ \/ \E q \in Process : fork(p, q)
     \/ \E program \in Programs : execve(p, program)
     \/ \E incr \in Increments : sbrk_available(p, incr) \/ sbrk_pages(p, incr)
     \/ sbrk_zero(p)
     \/ sbrk_refused(p)

Next ==
  /\ ~null_table
  /\ \E p \in born :
       \/ system_call(p)
       \/ \E v \in Page, x \in Value : write(p, v, x)

Spec == Init /\ [][Next]_vars
-----------------------------------------------------------------------------
(* Frames that processes refer to: directories, tables and pages.          *)
Entries ==
  {<<p, "directory", 0>> : p \in born} \cup (born \X {"table"} \X Directory)
    \cup (born \X {"page"} \X Page)
FrameOf(e) ==
  CASE e[2] = "directory" -> ptable[e[1]]
    [] e[2] = "table" -> tables[e[1]][e[3]]
    [] e[2] = "page" -> space[e[1]][e[3]]
Referenced == {FrameOf(e) : e \in Entries} \ {None}

(* No frame serves two purposes or two processes, none that is in use can  *)
(* be handed out again, and a page hangs in a page table that exists.      *)
(* Forks, failed allocations and frees that are refused in any order do    *)
(* not change that.                                                        *)
FramesExclusive ==
  /\ \A e, f \in Entries : FrameOf(e) = FrameOf(f) /\ FrameOf(e) # None => e = f
  /\ Referenced \subseteq used
  /\ \A p \in born, v \in Page : space[p][v] # None => tables[p][directory_of(v)] # None

(* Frames nobody refers to and nobody will get.                            *)
Lost == used \ Referenced

(* A call that reports success leaves no frame behind that nobody refers   *)
(* to: what a fork or sbrk took is mapped, what an execve unmapped went    *)
(* back.  (Calls that fail do lose frames.  A page whose frame page_free   *)
(* refused to take back is not lost: it stays mapped, even after an execve *)
(* that succeeds.)                                                         *)
SuccessLosesNothing == [][call'.success => Lost' \subseteq Lost]_vars

(* Address spaces are private memories: a fork copies, and whatever frames *)
(* the calls of one process move around, no other process sees it.         *)
Private == INSTANCE PrivateMemory WITH
  First <- process0, Unmapped <- "unmapped", op <- call.op,
  memory <- [p \in Process |-> [v \in Page |->
               IF space[p][v] = None THEN "unmapped" ELSE content[space[p][v]]]]
ImplementsPrivateMemory == Private!Spec
=============================================================================
