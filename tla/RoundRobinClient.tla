--------------------------- MODULE RoundRobinClient ---------------------------
(***************************************************************************)
(* The round robin policy under every sequence of calls its interface      *)
(* allows: processes are pushed, removed and pushed again while the timer  *)
(* keeps asking for the next one.  The kernel itself never calls remove    *)
(* (exit_process is a stub); this is the policy as the scheduling strategy *)
(* requirements describe it.                                               *)
(***************************************************************************)
EXTENDS RoundRobin, SequencesExt

PushNew(p) == p \notin nodes /\ push_new(p)

(* remove of a process other than the running one: of the running one,     *)
(* remove would delete the node cur points to.                             *)
RemoveOther(p) == p # cur /\ remove(p)

RRNext ==
  \/ get_next_process
  \/ \E p \in Process : PushNew(p) \/ RemoveOther(p)

RRSpec == RRInit /\ [][RRNext]_rrVars
-----------------------------------------------------------------------------
(* Following the next fields from list_head meets every node that was      *)
(* pushed and not removed, each once, and ends: no node is lost or deleted *)
(* twice and the walk in remove terminates, wherever in the list nodes are *)
(* unlinked.                                                               *)
ListHoldsNodesOnce ==
  \E s \in SetToSeqs(nodes) :
    /\ list_head = IF s = << >> THEN NULL ELSE s[1]
    /\ \A i \in 1..Len(s) : next[s[i]] = IF i < Len(s) THEN s[i + 1] ELSE NULL
=============================================================================
