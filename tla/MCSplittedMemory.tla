-------------------------- MODULE MCSplittedMemory --------------------------
(* A region of a few pages; a structure's header takes one unit, so that a *)
(* remainder of exactly a header, the limit of the split, occurs.          *)
EXTENDS SplittedMemory
=============================================================================
