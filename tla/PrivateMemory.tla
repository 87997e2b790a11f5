--------------------------- MODULE PrivateMemory ---------------------------
(***************************************************************************)
(* What address spaces promise to programs: every process has a memory of  *)
(* its own.  A fork starts with a copy of its parent's memory; from then   *)
(* on nobody but the process itself changes what it sees.                  *)
(***************************************************************************)
CONSTANTS Process, First, Page, Value, Unmapped

VARIABLES born, memory,
          op      \* what happened last

Contents == [Page -> Value \cup {Unmapped}]
Empty == [v \in Page |-> Unmapped]

Init ==
  /\ born = {First}
  /\ memory = [p \in Process |-> Empty]
  /\ op = "boot"

Write(p, v, x) ==
  /\ op' = "write"
  /\ memory[p][v] # Unmapped
  /\ memory' = [memory EXCEPT ![p][v] = x]
  /\ UNCHANGED born

(* A step that changes the memory of p and nobody else's.                  *)
Own(p) ==
  /\ memory'[p] \in Contents
  /\ memory' = [memory EXCEPT ![p] = memory'[p]]
  /\ UNCHANGED born

(* More pages, with any contents; those there were keep theirs.            *)
Grow(p) ==
  /\ op' = "sbrk"
  /\ Own(p)
  /\ \A v \in Page : memory[p][v] # Unmapped => memory'[p][v] = memory[p][v]

(* The page at the end of the heap is given back.                          *)
Shrink(p) ==
  /\ op' = "sbrk"
  /\ Own(p)
  /\ \E v \in Page : memory'[p] = [memory[p] EXCEPT ![v] = Unmapped]

(* A new program: nothing is known of what it finds.                       *)
Replace(p) == op' = "execve" /\ Own(p)

Fork(p, q) ==
  /\ op' = "fork"
  /\ q \notin born
  /\ born' = born \cup {q}
  /\ memory' = [memory EXCEPT ![q] = memory[p]]

(* A call that is refused.                                                 *)
Refuse ==
  /\ op' \in {"sbrk", "fork"}
  /\ UNCHANGED <<born, memory>>

Next ==
  \/ Refuse
  \/ \E p \in born :
       \/ \E v \in Page, x \in Value : Write(p, v, x)
       \/ Grow(p) \/ Shrink(p) \/ Replace(p)
       \/ \E q \in Process : Fork(p, q)

Spec == Init /\ [][Next]_<<born, memory, op>>
=============================================================================
