--------------------------- MODULE KeyboardBuffer ---------------------------
(***************************************************************************)
(* The scancode ring of the keyboard driver.  push_event runs in the       *)
(* keyboard interrupt; get_next_event runs in a reader that the interrupt  *)
(* may preempt between any two accesses to the shared, volatile buffer and *)
(* indices (i_fs_test reads stdin with interrupts on).  In the statement   *)
(*    ret = buffer[buffer_out_index++]                                     *)
(* the language leaves open whether the new index is stored before or      *)
(* after the element is loaded; the model takes either order.              *)
(***************************************************************************)
EXTENDS Integers, Sequences

CONSTANTS BUFFER_SIZE,  \* keyboard::BUFFER_SIZE (128 in the code)
          Event,        \* scancodes
          NoEvent,      \* the 0 returned for an empty buffer
          MaxEvents     \* bound: events the model stores

ASSUME BufferAssumption == BUFFER_SIZE \in Nat /\ BUFFER_SIZE >= 2
ASSUME EventAssumption == NoEvent \notin Event
ASSUME MaxEventsAssumption == MaxEvents \in Nat

VARIABLES buffer,
          buffer_in_index,
          buffer_out_index,
          pc,      \* where the reader is in get_next_event
          idx,     \* the slot whose load is pending
          ret,     \* its local variable
          result,  \* what the last completed call returned
          log,     \* history: every event push_event stored
          taken    \* history: how many of them were taken out

readerVars == <<pc, idx, ret, result, taken>>
bufVars == <<buffer, buffer_in_index, buffer_out_index>>
vars == <<bufVars, readerVars, log>>

Slot == 0..(BUFFER_SIZE - 1)

TypeOK ==
  /\ buffer \in [Slot -> Event \cup {NoEvent}]
  /\ buffer_in_index \in Slot
  /\ buffer_out_index \in 0..BUFFER_SIZE
  /\ pc \in {"idle", "inc", "load", "store", "wrap"}
  /\ idx \in Slot
  /\ ret \in Event \cup {NoEvent}
  /\ result \in Event \cup {NoEvent}
  /\ log \in Seq(Event)
  /\ taken \in Nat

Init ==
  /\ buffer = [s \in Slot |-> NoEvent]
  /\ buffer_in_index = 0
  /\ buffer_out_index = 0
  /\ pc = "idle"
  /\ idx = 0
  /\ ret = NoEvent
  /\ result = NoEvent
  /\ log = << >>
  /\ taken = 0

(* Faulty variants of the test: the wrapped case is forgotten; all slots   *)
(* are used.                                                               *)
Full_no_wrap == buffer_in_index = buffer_out_index - 1

Full_when_equal == Len(log) > taken /\ buffer_in_index = buffer_out_index

(* The test with which push_event gives an event up.                       *)
Full ==
  \/ buffer_in_index = buffer_out_index - 1
  \/ buffer_in_index = BUFFER_SIZE - 1 /\ buffer_out_index = 0

(* push_event, called by handle_interrupt with interrupts off.             *)
push_event(e) ==
  /\ Len(log) < MaxEvents
  /\ IF Full
       THEN UNCHANGED <<buffer, buffer_in_index, log>>
       ELSE /\ buffer' = [buffer EXCEPT ![buffer_in_index] = e]
            /\ buffer_in_index' = IF buffer_in_index + 1 >= BUFFER_SIZE
                                    THEN 0 ELSE buffer_in_index + 1
            /\ log' = Append(log, e)
  /\ UNCHANGED <<buffer_out_index, readerVars>>

(* Faulty variant: the buffer counts as empty when the out index is ahead. *)
get_next_event_less_than ==
  /\ pc = "idle"
  /\ ret' = NoEvent
  /\ \/ /\ buffer_out_index < buffer_in_index
        /\ pc' = "inc"
        /\ UNCHANGED result
     \/ /\ buffer_out_index >= buffer_in_index
        /\ result' = NoEvent
        /\ UNCHANGED pc
  /\ UNCHANGED <<bufVars, idx, log, taken>>

(* get_next_event: ret = 0, then the comparison of the indices; an empty   *)
(* buffer ends the call.                                                   *)
get_next_event ==
  /\ pc = "idle"
  /\ ret' = NoEvent
  /\ \/ /\ buffer_in_index # buffer_out_index
        /\ pc' = "inc"
        /\ UNCHANGED result
     \/ /\ buffer_in_index = buffer_out_index
        /\ result' = NoEvent
        /\ UNCHANGED pc
  /\ UNCHANGED <<bufVars, idx, log, taken>>

(* buffer_out_index++ before the load: the slot is given free too early.   *)
take_index ==
  /\ pc = "inc"
  /\ idx' = buffer_out_index
  /\ buffer_out_index' = buffer_out_index + 1
  /\ taken' = taken + 1
  /\ pc' = "load"
  /\ UNCHANGED <<buffer, buffer_in_index, ret, result, log>>

(* ret = buffer[...] after it.                                             *)
load_event ==
  /\ pc = "load"
  /\ ret' = buffer[idx]
  /\ pc' = "wrap"
  /\ UNCHANGED <<bufVars, idx, result, log, taken>>

(* The other order: the element first, then the index.                     *)
load_early ==
  /\ pc = "inc"
  /\ ret' = buffer[buffer_out_index]
  /\ pc' = "store"
  /\ UNCHANGED <<bufVars, idx, result, log, taken>>

store_index ==
  /\ pc = "store"
  /\ buffer_out_index' = buffer_out_index + 1
  /\ taken' = taken + 1
  /\ pc' = "wrap"
  /\ UNCHANGED <<buffer, buffer_in_index, idx, ret, result, log>>

(* Faulty variant: the out index is taken back to 0 one slot too early.    *)
wrap_index_early ==
  /\ pc = "wrap"
  /\ buffer_out_index' = IF buffer_out_index >= BUFFER_SIZE - 1
                           THEN 0 ELSE buffer_out_index
  /\ result' = ret
  /\ pc' = "idle"
  /\ UNCHANGED <<buffer, buffer_in_index, idx, ret, log, taken>>

(* if ( buffer_out_index >= BUFFER_SIZE ) buffer_out_index = 0; return ret *)
wrap_index ==
  /\ pc = "wrap"
  /\ buffer_out_index' = IF buffer_out_index >= BUFFER_SIZE
                           THEN 0 ELSE buffer_out_index
  /\ result' = ret
  /\ pc' = "idle"
  /\ UNCHANGED <<buffer, buffer_in_index, idx, ret, log, taken>>

Next ==
  \/ \E e \in Event : push_event(e)
  \/ get_next_event
  \/ take_index
  \/ load_event
  \/ load_early
  \/ store_index
  \/ wrap_index

Spec == Init /\ [][Next]_vars

(* The reader is scheduled again and again; the interrupt need not come.   *)
FairSpec ==
  /\ Spec
  /\ WF_vars(get_next_event)
  /\ WF_vars(take_index \/ load_early)
  /\ WF_vars(load_event) /\ WF_vars(store_index) /\ WF_vars(wrap_index)
-----------------------------------------------------------------------------
Occupied == Len(log) - taken

(* push_event drops an event exactly when all usable slots, one less than  *)
(* BUFFER_SIZE, hold events that nobody has taken: also while the reader   *)
(* is between its increment and its wrap and the out index is one past the *)
(* array.                                                                  *)
FullMeansFull == Full <=> Occupied = BUFFER_SIZE - 1

(* The one slot that is never used protects the reader: between the        *)
(* increment and the load the interrupt can fill every free slot, but not  *)
(* the one the reader is about to load.                                    *)
PendingSlotKept == pc = "load" => buffer[idx] = log[taken]

(* Why the two hold, as an inductive invariant.  The k-th untaken event    *)
(* lies k - 1 slots behind the out index, cyclically.                      *)
SlotOf(k) ==
  IF buffer_out_index + k - 1 < BUFFER_SIZE
    THEN buffer_out_index + k - 1
    ELSE buffer_out_index + k - 1 - BUFFER_SIZE

IndexInv ==
  /\ Occupied \in 0..(BUFFER_SIZE - 1)
  /\ \/ buffer_in_index - buffer_out_index = Occupied
     \/ buffer_in_index - buffer_out_index + BUFFER_SIZE = Occupied
  /\ buffer_out_index = BUFFER_SIZE => pc \in {"load", "wrap"}
  /\ pc = "inc" => Occupied > 0
  /\ pc = "store" => Occupied > 0

ContentInv == \A k \in 1..Occupied : buffer[SlotOf(k)] = log[taken + k]

PendingInv ==
  /\ pc = "load" => /\ buffer_out_index = idx + 1
                    /\ taken > 0
                    /\ buffer[idx] = log[taken]
  /\ pc = "store" => ret = log[taken + 1]

RingInv == TypeOK /\ IndexInv /\ ContentInv /\ PendingInv

(* The ring with its preemptible reader implements the bounded queue: the  *)
(* event counts as taken when the out index moves, and the result is the    *)
(* element that was loaded or is still to be loaded then.                  *)
Queue == INSTANCE KeyQueue WITH
           Capacity <- BUFFER_SIZE - 1,
           accepted <- log,
           delivered <- taken,
           got <- IF pc = "load" THEN buffer[idx]
                  ELSE IF pc = "wrap" THEN ret ELSE result

ImplementsQueue == Queue!QSpec

(* Every event that was stored is delivered to a reader that keeps         *)
(* polling.                                                                *)
StoredIsDelivered ==
  \A n \in 1..MaxEvents : (Len(log) >= n) ~> (taken >= n)
=============================================================================
