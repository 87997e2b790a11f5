------------------------------ MODULE KeyQueue ------------------------------
(***************************************************************************)
(* What the keyboard buffer promises: a first-in first-out queue of at     *)
(* most Capacity scancodes.  An event that arrives at a full queue is      *)
(* dropped; reading an empty queue gives NoEvent.  The queue is the part   *)
(* of `accepted' behind its first `delivered' elements.                    *)
(***************************************************************************)
EXTENDS Naturals, Sequences

CONSTANTS Event, NoEvent, Capacity

VARIABLES accepted,   \* every event that was stored, in order
          delivered,  \* how many of them were taken out
          got         \* result of the last read

qVars == <<accepted, delivered, got>>

QInit ==
  /\ accepted = << >>
  /\ delivered = 0
  /\ got = NoEvent

Put(e) ==
  /\ Len(accepted) - delivered < Capacity
  /\ accepted' = Append(accepted, e)
  /\ UNCHANGED <<delivered, got>>

Get ==
  \/ /\ delivered < Len(accepted)
     /\ got' = accepted[delivered + 1]
     /\ delivered' = delivered + 1
     /\ UNCHANGED accepted
  \/ /\ delivered = Len(accepted)
     /\ got' = NoEvent
     /\ UNCHANGED <<accepted, delivered>>

QNext == Get \/ \E e \in Event : Put(e)

QSpec == QInit /\ [][QNext]_qVars
=============================================================================
