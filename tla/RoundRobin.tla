----------------------------- MODULE RoundRobin -----------------------------
(***************************************************************************)
(* The scheduling policy iposix::scheduler::policies::round_robin: a       *)
(* singly linked list of nodes that starts at list_head, and a pointer cur *)
(* to the node of the process that runs.                                   *)
(*                                                                         *)
(* A node is allocated by push_new for one process and every process is    *)
(* pushed at most once between two removals, so a node is named after its  *)
(* process: next[p] is the field `next' of p's node, and nodes is the set  *)
(* of nodes that are allocated (new in push_new, delete in remove).        *)
(* A node that could not be allocated throws std::bad_alloc (the runtime's *)
(* operator new); the callers model that as a failed creation.             *)
(***************************************************************************)
EXTENDS Integers

CONSTANTS Process,   \* the process objects that may exist
          NULL       \* the null pointer

VARIABLES list_head, \* node at the head of the list, or NULL
          next,      \* the next field of every node
          cur,       \* node of the running process, or NULL
          nodes      \* the allocated nodes

rrVars == <<list_head, next, cur, nodes>>

ASSUME NullAssumption == NULL \notin Process

Pointer == Process \cup {NULL}

RRTypeOK ==
  /\ list_head \in Pointer
  /\ next \in [Process -> Pointer]
  /\ cur \in Pointer
  /\ nodes \in SUBSET Process

RRInit ==
  /\ list_head = NULL
  /\ next = [p \in Process |-> NULL]
  /\ cur = NULL
  /\ nodes = {}

(* Faulty variant: the end of the list is not followed by its head.        *)
Successor_no_wrap ==
  IF cur = NULL THEN NULL
  ELSE IF next[cur] # NULL THEN next[cur] ELSE cur

(* What get_next_process makes the current process: the successor of cur   *)
(* or, at the end of the list, its head.                                   *)
Successor ==
  IF cur = NULL THEN NULL
  ELSE IF next[cur] # NULL THEN next[cur] ELSE list_head

(* get_next_process: advances cur.                                         *)
get_next_process ==
  /\ cur' = Successor
  /\ UNCHANGED <<list_head, next, nodes>>

(* Faulty variant: the old head is not linked behind the new node.         *)
push_new_unlinked(p) ==
  /\ next' = [next EXCEPT ![p] = NULL]
  /\ cur' = IF cur # NULL THEN cur
            ELSE IF list_head # NULL THEN list_head ELSE p
  /\ list_head' = p
  /\ nodes' = nodes \cup {p}

(* push_new: the new node becomes the head; the first one also becomes the *)
(* current one.                                                            *)
push_new(p) ==
  /\ next' = [next EXCEPT ![p] = list_head]
  /\ cur' = IF cur # NULL THEN cur
            ELSE IF list_head # NULL THEN list_head ELSE p
  /\ list_head' = p
  /\ nodes' = nodes \cup {p}

(* Faulty variant: only the head is unlinked; an inner node is deleted     *)
(* while its predecessor still points to it.                               *)
remove_not_unlinked(p) ==
  /\ p \in nodes
  /\ list_head' = IF list_head = p THEN next[p] ELSE list_head
  /\ nodes' = nodes \ {p}
  /\ UNCHANGED <<next, cur>>

(* remove: unlinks and deletes p's node, found by walking from the head;   *)
(* this->cur is not looked at.                                             *)
remove(p) ==
  /\ p \in nodes
  /\ IF list_head = p
       THEN /\ list_head' = next[p]
            /\ UNCHANGED next
       ELSE /\ next' = [q \in Process |->
                          IF q \in nodes /\ next[q] = p THEN next[p] ELSE next[q]]
            /\ UNCHANGED list_head
  /\ nodes' = nodes \ {p}
  /\ UNCHANGED cur
=============================================================================
