--------------------------- MODULE MCAddressSpace ---------------------------
(* Pages of two bytes, one table for the kernel's directly mapped memory   *)
(* and two of two pages for programs, the last page being the stack.  One  *)
(* program leaves room for a heap, one has two segments in one page and    *)
(* cannot be loaded, one fills the memory below the stack.                 *)
EXTENDS AddressSpace

CONSTANTS p0, p1, p2, a, b

segment(vaddr, memsz, filesz, data, type) ==
  [vaddr |-> vaddr, memsz |-> memsz, filesz |-> filesz, data |-> data, type |-> type]

small == <<segment(4, 1, 1, b, "PT_LOAD")>>
large == <<segment(4, 2, 2, a, "PT_LOAD"), segment(6, 3, 1, b, "PT_LOAD")>>
shared == <<segment(4, 1, 1, a, "PT_LOAD"), segment(5, 1, 1, b, "PT_LOAD")>>
notes == <<segment(4, 1, 1, a, "PT_NOTE")>>

AllPrograms == {small, large, shared, notes}
=============================================================================
