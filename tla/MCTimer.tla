------------------------------- MODULE MCTimer -------------------------------
(* Words of three bits, so that a run of twenty interrupts crosses the     *)
(* carry into the high word twice, and a mask (5) with a hole in it, like  *)
(* that of 1000.                                                           *)
EXTENDS Timer
=============================================================================
