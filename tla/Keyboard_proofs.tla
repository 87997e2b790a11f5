--------------------------- MODULE Keyboard_proofs ---------------------------
(***************************************************************************)
(* The ring of scancodes, for every BUFFER_SIZE of at least two: a full    *)
(* ring is really full, the slot a preempted reader is about to load is    *)
(* never overwritten, and the ring implements the bounded queue of module  *)
(* KeyQueue.                                                               *)
(*                                                                         *)
(* From the keys to the characters over that queue, for any set of keys    *)
(* and any size of the buffer: the bytes that are still to be decoded lead *)
(* from the decoder's flags to the keys' positions, and a shift key's last *)
(* byte tells its position whatever was dropped.                           *)
(***************************************************************************)
EXTENDS KeyboardBuffer, Keyboard, TLAPS

-----------------------------------------------------------------------------
(* The ring. *)

(* Initially the ring is empty and well formed.                            *)
LEMMA InitRing == Init => RingInv
<1> SUFFICES ASSUME Init PROVE RingInv
  OBVIOUS
<1>1. Len(log) = 0 /\ log \in Seq(Event)
  BY DEF Init
<1>2. TypeOK
  BY <1>1, BufferAssumption DEF Init, TypeOK, Slot
<1>3. IndexInv
  BY <1>1, BufferAssumption DEF Init, IndexInv, Occupied
<1>4. ContentInv /\ PendingInv
  BY <1>1 DEF Init, ContentInv, PendingInv, Occupied
<1> QED BY <1>2, <1>3, <1>4 DEF RingInv

(* Every step of the interrupt handler and of the reader keeps the ring    *)
(* well formed.                                                            *)
LEMMA NextRing == RingInv /\ [Next]_vars => RingInv'
<1> SUFFICES ASSUME RingInv, [Next]_vars PROVE RingInv'
  OBVIOUS
<1> USE BufferAssumption DEF RingInv, Slot
<1>1. ASSUME NEW e \in Event, push_event(e) PROVE RingInv'
  <2>1. CASE Full
    <3>1. UNCHANGED vars
      BY <1>1, <2>1 DEF push_event, vars, bufVars, readerVars
    <3> QED BY <3>1 DEF vars, bufVars, readerVars, TypeOK, IndexInv, ContentInv,
                        PendingInv, Occupied, SlotOf
  <2>2. CASE ~Full
    <3> DEFINE in_at == buffer_in_index
               out_at == buffer_out_index
    <3>1. /\ log' = Append(log, e)
          /\ buffer' = [buffer EXCEPT ![in_at] = e]
          /\ in_at' = IF in_at + 1 >= BUFFER_SIZE THEN 0 ELSE in_at + 1
          /\ UNCHANGED <<out_at, pc, idx, ret, result, taken>>
      BY <1>1, <2>2 DEF push_event, readerVars
    <3>2. /\ log' \in Seq(Event)
          /\ Len(log') = Len(log) + 1
          /\ log'[Len(log) + 1] = e
          /\ \A i \in 1..Len(log) : log'[i] = log[i]
      BY <3>1 DEF TypeOK
    <3>3. TypeOK'
      BY <3>1, <3>2 DEF TypeOK
    <3>4. /\ in_at \in 0..(BUFFER_SIZE - 1)
          /\ out_at \in 0..BUFFER_SIZE
          /\ taken \in Nat /\ Len(log) \in Nat
          /\ Occupied = Len(log) - taken
          /\ Occupied' = Occupied + 1
      BY <3>1, <3>2 DEF TypeOK, Occupied
    <3>5. Occupied < BUFFER_SIZE - 1
      BY <2>2, <3>4 DEF Full, IndexInv
    <3>6. IndexInv'
      <4>1. \/ in_at' - out_at' = Occupied'
            \/ in_at' - out_at' + BUFFER_SIZE = Occupied'
        <5>1. in_at - out_at = Occupied \/ in_at - out_at + BUFFER_SIZE = Occupied
          BY DEF IndexInv
        <5>2. out_at' = out_at /\ in_at' = IF in_at + 1 >= BUFFER_SIZE THEN 0 ELSE in_at + 1
          BY <3>1
        <5>3. Occupied \in Int
          BY <3>4
        <5>4. CASE in_at + 1 >= BUFFER_SIZE
          BY <5>1, <5>2, <5>3, <5>4, <3>4, <3>5
        <5>5. CASE ~(in_at + 1 >= BUFFER_SIZE)
          BY <5>1, <5>2, <5>3, <5>5, <3>4
        <5> QED BY <5>4, <5>5
      <4>2. Occupied' \in 0..(BUFFER_SIZE - 1) /\ Occupied' > 0
        BY <3>4, <3>5 DEF IndexInv
      <4>3. out_at' = BUFFER_SIZE => pc' \in {"load", "wrap"}
        BY <3>1 DEF IndexInv
      <4> QED BY <4>1, <4>2, <4>3 DEF IndexInv
    <3>7. in_at = SlotOf(Occupied + 1)
      BY <3>4, <3>5 DEF IndexInv, SlotOf
    <3>8. \A k : SlotOf(k)' = SlotOf(k)
      BY <3>1 DEF SlotOf
    <3>9. ContentInv'
      <4> SUFFICES ASSUME NEW k \in 1..(Occupied + 1)
                   PROVE  buffer'[SlotOf(k)] = log'[taken + k]
        BY <3>1, <3>4, <3>8 DEF ContentInv
      <4>1. CASE k = Occupied + 1
        <5>1. SlotOf(k) = in_at /\ taken + k = Len(log) + 1
          BY <4>1, <3>4, <3>7
        <5> QED BY <5>1, <3>1, <3>2, <3>4 DEF TypeOK
      <4>2. CASE k \in 1..Occupied
        <5>1. SlotOf(k) # in_at /\ SlotOf(k) \in 0..(BUFFER_SIZE - 1)
          BY <4>2, <3>4, <3>5, <3>7 DEF SlotOf
        <5>2. buffer'[SlotOf(k)] = buffer[SlotOf(k)]
          BY <5>1, <3>1 DEF TypeOK
        <5>3. taken + k \in 1..Len(log)
          BY <4>2, <3>4
        <5> QED BY <5>2, <5>3, <3>2, <4>2 DEF ContentInv
      <4> QED BY <4>1, <4>2, <3>4 DEF IndexInv
    <3>10. PendingInv'
      <4>0. ASSUME pc = "store" PROVE ret' = log'[taken' + 1]
        <5>1. taken + 1 \in 1..Len(log)
          BY <4>0, <3>4 DEF IndexInv
        <5> QED BY <4>0, <5>1, <3>1, <3>2 DEF PendingInv
      <4> SUFFICES ASSUME pc = "load"
                   PROVE  /\ out_at = idx + 1
                          /\ taken > 0
                          /\ buffer'[idx] = log'[taken]
        BY <4>0, <3>1 DEF PendingInv
      <4>1. out_at = idx + 1 /\ taken > 0 /\ buffer[idx] = log[taken]
        BY DEF PendingInv
      <4>2. idx # in_at
        <5>1. SlotOf(Occupied + 1) # out_at - 1
          <6>1. Occupied \in 0..(BUFFER_SIZE - 2)
            BY <3>5 DEF IndexInv
          <6> QED BY <6>1, <3>4 DEF SlotOf
        <5>2. idx \in Int
          BY DEF TypeOK
        <5>3. idx = out_at - 1
          BY <4>1, <5>2, <3>4
        <5> QED BY <5>1, <5>3, <3>7
      <4>3. taken \in 1..Len(log)
        BY <4>1, <3>4 DEF IndexInv
      <4> QED BY <4>1, <4>2, <4>3, <3>1, <3>2 DEF TypeOK
    <3> QED BY <3>3, <3>6, <3>9, <3>10
  <2> QED BY <2>1, <2>2
<1>2. CASE get_next_event
  <2>1. UNCHANGED <<buffer, buffer_in_index, buffer_out_index, idx, log, taken>>
    BY <1>2 DEF get_next_event, bufVars
  <2>2. TypeOK' /\ IndexInv' /\ PendingInv'
    BY <1>2, <2>1 DEF get_next_event, TypeOK, IndexInv, PendingInv, Occupied
  <2>3. ContentInv'
    BY <2>1 DEF ContentInv, SlotOf, Occupied
  <2> QED BY <2>2, <2>3
<1>3. CASE take_index
  <2>1. /\ idx' = buffer_out_index
        /\ buffer_out_index' = buffer_out_index + 1
        /\ taken' = taken + 1
        /\ pc = "inc" /\ pc' = "load"
        /\ UNCHANGED <<buffer, buffer_in_index, ret, result, log>>
    BY <1>3 DEF take_index
  <2>2. /\ buffer_out_index \in 0..(BUFFER_SIZE - 1)
        /\ Occupied \in 1..(BUFFER_SIZE - 1)
        /\ Occupied' = Occupied - 1
        /\ taken \in Nat /\ Len(log) \in Nat
        /\ buffer_in_index \in 0..(BUFFER_SIZE - 1)
    BY <2>1 DEF TypeOK, IndexInv, Occupied
  <2>3. TypeOK' /\ IndexInv'
    BY <2>1, <2>2 DEF TypeOK, IndexInv
  <2>4. SlotOf(1) = buffer_out_index
    BY <2>2 DEF SlotOf
  <2>5. PendingInv'
    BY <2>1, <2>2, <2>4 DEF PendingInv, ContentInv
  <2>6. ContentInv'
    <3> SUFFICES ASSUME NEW k \in 1..(Occupied - 1)
                 PROVE  buffer[SlotOf(k)'] = log[taken + 1 + k]
      BY <2>1, <2>2 DEF ContentInv
    <3>1. SlotOf(k)' = SlotOf(k + 1)
      BY <2>1, <2>2 DEF SlotOf
    <3>2. k + 1 \in 1..Occupied /\ taken + (k + 1) = taken + 1 + k
      BY <2>2
    <3> QED BY <3>1, <3>2 DEF ContentInv
  <2> QED BY <2>3, <2>5, <2>6
<1>4. CASE load_event
  <2>1. UNCHANGED <<buffer, buffer_in_index, buffer_out_index, idx, log, taken>>
    BY <1>4 DEF load_event, bufVars
  <2>2. TypeOK' /\ IndexInv' /\ PendingInv'
    BY <1>4, <2>1 DEF load_event, TypeOK, IndexInv, PendingInv, Occupied
  <2>3. ContentInv'
    BY <2>1 DEF ContentInv, SlotOf, Occupied
  <2> QED BY <2>2, <2>3
<1>5. CASE load_early
  <2>1. /\ ret' = buffer[buffer_out_index] /\ pc = "inc" /\ pc' = "store"
        /\ UNCHANGED <<buffer, buffer_in_index, buffer_out_index, idx, log, taken, result>>
    BY <1>5 DEF load_early, bufVars
  <2>2. /\ buffer_out_index \in 0..(BUFFER_SIZE - 1)
        /\ Occupied \in 1..(BUFFER_SIZE - 1)
        /\ Occupied' = Occupied
    BY <2>1 DEF TypeOK, IndexInv, Occupied
  <2>3. TypeOK' /\ IndexInv'
    BY <2>1, <2>2 DEF TypeOK, IndexInv
  <2>4. SlotOf(1) = buffer_out_index
    BY <2>2 DEF SlotOf
  <2>5. PendingInv'
    BY <2>1, <2>2, <2>4 DEF PendingInv, ContentInv
  <2>6. ContentInv'
    BY <2>1, <2>2 DEF ContentInv, SlotOf
  <2> QED BY <2>3, <2>5, <2>6
<1>6. CASE store_index
  <2>1. /\ buffer_out_index' = buffer_out_index + 1
        /\ taken' = taken + 1
        /\ pc = "store" /\ pc' = "wrap"
        /\ UNCHANGED <<buffer, buffer_in_index, idx, ret, result, log>>
    BY <1>6 DEF store_index
  <2>2. /\ buffer_out_index \in 0..(BUFFER_SIZE - 1)
        /\ Occupied \in 1..(BUFFER_SIZE - 1)
        /\ Occupied' = Occupied - 1
        /\ taken \in Nat /\ Len(log) \in Nat
        /\ buffer_in_index \in 0..(BUFFER_SIZE - 1)
    BY <2>1 DEF TypeOK, IndexInv, Occupied
  <2>3. TypeOK' /\ IndexInv' /\ PendingInv'
    BY <2>1, <2>2 DEF TypeOK, IndexInv, PendingInv
  <2>4. ContentInv'
    <3> SUFFICES ASSUME NEW k \in 1..(Occupied - 1)
                 PROVE  buffer[SlotOf(k)'] = log[taken + 1 + k]
      BY <2>1, <2>2 DEF ContentInv
    <3>1. SlotOf(k)' = SlotOf(k + 1)
      BY <2>1, <2>2 DEF SlotOf
    <3>2. k + 1 \in 1..Occupied /\ taken + (k + 1) = taken + 1 + k
      BY <2>2
    <3> QED BY <3>1, <3>2 DEF ContentInv
  <2> QED BY <2>3, <2>4
<1>7. CASE wrap_index
  <2>1. /\ pc' = "idle"
        /\ buffer_out_index' = IF buffer_out_index >= BUFFER_SIZE
                                 THEN 0 ELSE buffer_out_index
        /\ Occupied' = Occupied
        /\ UNCHANGED <<buffer, buffer_in_index, idx, log, taken>>
    BY <1>7 DEF wrap_index, Occupied
  <2>2. TypeOK'
    BY <1>7, <2>1 DEF TypeOK, wrap_index
  <2>3. IndexInv' /\ PendingInv'
    BY <2>1 DEF TypeOK, IndexInv, PendingInv
  <2>4. \A k \in 1..Occupied : SlotOf(k)' = SlotOf(k)
    BY <2>1 DEF SlotOf, TypeOK, IndexInv
  <2>5. ContentInv'
    BY <2>1, <2>4 DEF ContentInv
  <2> QED BY <2>2, <2>3, <2>5
<1>8. CASE UNCHANGED vars
  BY <1>8 DEF vars, bufVars, readerVars, TypeOK, IndexInv, ContentInv,
              PendingInv, Occupied, SlotOf
<1> QED BY <1>1, <1>2, <1>3, <1>4, <1>5, <1>6, <1>7, <1>8 DEF Next

(* The ring invariant holds in every reachable state.                      *)
THEOREM RingInvariant == Spec => []RingInv
<1> QED BY InitRing, NextRing, PTL DEF Spec

(* Indices stay inside the array (the out index may stand one past it      *)
(* until the reader wraps it) and slots hold scancodes.                    *)
THEOREM TypeCorrect == Spec => []TypeOK
<1>1. RingInv => TypeOK
  BY DEF RingInv
<1> QED BY <1>1, RingInvariant, PTL

(* push_event drops an event exactly when BUFFER_SIZE - 1 untaken events   *)
(* are stored.                                                             *)
THEOREM FullIsFull == Spec => []FullMeansFull
<1>1. RingInv => FullMeansFull
  BY BufferAssumption
     DEF RingInv, TypeOK, Slot, IndexInv, FullMeansFull, Full, Occupied
<1> QED BY <1>1, RingInvariant, PTL

(* The interrupt never overwrites the slot a preempted reader will load.   *)
THEOREM PendingSlotIsKept == Spec => []PendingSlotKept
<1>1. RingInv => PendingSlotKept
  BY DEF RingInv, PendingInv, PendingSlotKept
<1> QED BY <1>1, RingInvariant, PTL

(* The ring implements the bounded first-in first-out queue.               *)
THEOREM Refinement == Spec => ImplementsQueue
<1> USE DEF Queue!qVars
<1>1. Init => Queue!QInit
  BY DEF Init, Queue!QInit
<1>2. RingInv /\ RingInv' /\ [Next]_vars => [Queue!QNext]_(Queue!qVars)
  <2> SUFFICES ASSUME RingInv, RingInv', [Next]_vars
               PROVE  [Queue!QNext]_(Queue!qVars)
    OBVIOUS
  <2>1. ASSUME NEW e \in Event, push_event(e)
        PROVE  [Queue!QNext]_(Queue!qVars)
    <3>1. CASE Full
      BY <2>1, <3>1 DEF push_event, readerVars
    <3>2. CASE ~Full
      <4>1. pc = "load" => buffer'[idx] = buffer[idx]
        <5>1. log' = Append(log, e) /\ UNCHANGED <<pc, idx, taken>>
          BY <2>1, <3>2 DEF push_event, readerVars
        <5>2. pc = "load" => taken \in 1..Len(log)
          BY DEF RingInv, PendingInv, IndexInv, TypeOK, Occupied
        <5>3. pc = "load" => log'[taken] = log[taken]
          BY <5>1, <5>2 DEF RingInv, TypeOK
        <5> QED BY <5>1, <5>3 DEF RingInv, PendingInv
      <4>2. Len(log) - taken < BUFFER_SIZE - 1
        <5>1. Len(log) \in Nat /\ taken \in Nat /\ buffer_in_index \in Slot
              /\ buffer_out_index \in 0..BUFFER_SIZE
          BY DEF RingInv, TypeOK
        <5>2. /\ Len(log) - taken \in 0..(BUFFER_SIZE - 1)
              /\ \/ buffer_in_index - buffer_out_index = Len(log) - taken
                 \/ buffer_in_index - buffer_out_index + BUFFER_SIZE = Len(log) - taken
          BY DEF RingInv, IndexInv, Occupied
        <5>3. /\ buffer_in_index # buffer_out_index - 1
              /\ buffer_in_index # BUFFER_SIZE - 1 \/ buffer_out_index # 0
          BY <3>2 DEF Full
        <5> QED BY <5>1, <5>2, <5>3, BufferAssumption DEF Slot
      <4>3. Queue!Put(e)
        BY <2>1, <3>2, <4>1, <4>2 DEF push_event, readerVars, Queue!Put
      <4> QED BY <4>3 DEF Queue!QNext
    <3> QED BY <3>1, <3>2
  <2>2. CASE get_next_event
    <3>1. CASE buffer_in_index = buffer_out_index
      <4>1. taken = Len(log)
        BY <3>1, BufferAssumption DEF RingInv, TypeOK, Slot, IndexInv, Occupied
      <4>2. Queue!Get
        BY <2>2, <3>1, <4>1 DEF get_next_event, bufVars, Queue!Get
      <4> QED BY <4>2 DEF Queue!QNext
    <3>2. CASE buffer_in_index # buffer_out_index
      BY <2>2, <3>2 DEF get_next_event, bufVars
    <3> QED BY <3>1, <3>2
  <2>3. CASE take_index
    <3>1. /\ pc = "inc" /\ pc' = "load"
          /\ taken' = taken + 1
          /\ UNCHANGED <<log, buffer>>
      BY <2>3 DEF take_index
    <3>2. taken < Len(log)
      BY <3>1 DEF RingInv, TypeOK, IndexInv, Occupied
    <3>3. buffer'[idx'] = log[taken + 1]
      BY <3>1 DEF RingInv, PendingInv
    <3>4. Queue!Get
      BY <3>1, <3>2, <3>3 DEF Queue!Get
    <3> QED BY <3>4 DEF Queue!QNext
  <2>4. CASE load_event
    BY <2>4 DEF load_event, bufVars
  <2>5. CASE load_early
    BY <2>5 DEF load_early, bufVars
  <2>6. CASE store_index
    <3>1. /\ pc = "store" /\ pc' = "wrap"
          /\ taken' = taken + 1
          /\ UNCHANGED <<log, ret>>
      BY <2>6 DEF store_index
    <3>2. taken < Len(log)
      BY <3>1 DEF RingInv, TypeOK, IndexInv, Occupied
    <3>3. ret' = log[taken + 1]
      BY <3>1 DEF RingInv, PendingInv
    <3>4. Queue!Get
      BY <3>1, <3>2, <3>3 DEF Queue!Get
    <3> QED BY <3>4 DEF Queue!QNext
  <2>7. CASE wrap_index
    BY <2>7 DEF wrap_index
  <2>8. CASE UNCHANGED vars
    BY <2>8 DEF vars, bufVars, readerVars
  <2> QED BY <2>1, <2>2, <2>3, <2>4, <2>5, <2>6, <2>7, <2>8 DEF Next
<1> QED BY <1>1, <1>2, RingInvariant, PTL DEF Spec, ImplementsQueue, Queue!QSpec

-----------------------------------------------------------------------------
(* The decoder. *)

(* The bytes on their way from the keys to the reader, next one first.     *)
Ahead == Len(queue) + Len(wire)
Pending(i) == IF i <= Len(queue) THEN queue[i] ELSE wire[i - Len(queue)]

Flags == [left : BOOLEAN, right : BOOLEAN, caps : BOOLEAN, ignore : BOOLEAN, gr : BOOLEAN]

(* What the decoder's flags should be when everything is read.             *)
Meant ==
  [left |-> "lshift" \in held, right |-> "rshift" \in held,
   caps |-> caps_on, ignore |-> "caps" \in held, gr |-> "altgr" \in held]

(* The flags behind a byte that is decoded after its escape, if it has one.*)
After(s, b) ==
  [left   |-> IF b.code = "LEFT_SHIFT_PRESSED" THEN TRUE
              ELSE IF b.code = "LEFT_SHIFT_RELEASED" THEN FALSE ELSE s.left,
   right  |-> IF b.code = "RIGHT_SHIFT_PRESSED" THEN TRUE
              ELSE IF b.code = "RIGHT_SHIFT_RELEASED" THEN FALSE ELSE s.right,
   caps   |-> IF b.code = "CAPS_LOCK_PART1" /\ ~s.ignore THEN ~s.caps ELSE s.caps,
   ignore |-> IF b.code = "CAPS_LOCK_PART1" THEN ~s.ignore ELSE s.ignore,
   gr     |-> IF b.follower /\ b.code = "ALT_PRESSED" THEN TRUE
              ELSE IF b.follower /\ b.code = "ALT_RELEASED" THEN FALSE ELSE s.gr]

ColumnAt(s, follower) ==
  IF follower THEN 3
  ELSE IF s.gr THEN 2
  ELSE IF s.left \/ s.right \/ s.caps THEN 1 ELSE 0

(* s is what the flags go through while the pending bytes are decoded.     *)
Decodes(s) ==
  /\ \A i \in 1 .. Ahead :
       /\ s[i] = After(s[i - 1], Pending(i))
       /\ Pending(i).code = "MAKE" => Pending(i).typed = ColumnAt(s[i - 1], Pending(i).follower)
  /\ s[Ahead] = Meant

(* The decoder's flags as they are; AltGr may be off once an escape went   *)
(* astray.                                                                 *)
StartsNow(s) ==
  /\ s[0].left = left_shift_state /\ s[0].right = right_shift_state
  /\ s[0].caps = caps_lock_state /\ s[0].ignore = caps_lock_ignore_one
  /\ ~astray => s[0].gr = alt_gr_state

(* As long as nothing is dropped, decoding the rest leads from the flags   *)
(* as they are to the keys as they are, by way of the columns that were    *)
(* meant.                                                                  *)
Replay == ~lost => \E s \in [Nat -> Flags] : StartsNow(s) /\ Decodes(s)

(* Also when bytes were dropped: the last pending byte of a shift key says *)
(* how the key is; if there is none the flag says it.                      *)
LastSays(k, press, release, state) ==
  k \in Key \ missed =>
    \/ /\ state <=> k \in held
       /\ \A i \in 1 .. Ahead : Pending(i).key # k
    \/ \E i \in 1 .. Ahead :
         /\ Pending(i).key = k
         /\ Pending(i).code = IF k \in held THEN press ELSE release
         /\ \A j \in i + 1 .. Ahead : Pending(j).key # k

BytesTyped ==
  /\ wire \in Seq(Byte) /\ queue \in Seq(Byte)
  /\ \A b \in {left_shift_state, right_shift_state, caps_lock_state,
               caps_lock_ignore_one, alt_gr_state, escaped, caps_on, lost, astray} :
       b \in BOOLEAN
  /\ last \in Lasts

(* The codes of a shift key come from that key.                            *)
CodesOwned ==
  \A i \in 1 .. Ahead :
    /\ Pending(i).code \in {"LEFT_SHIFT_PRESSED", "LEFT_SHIFT_RELEASED"}
         => Pending(i).key = "lshift"
    /\ Pending(i).code \in {"RIGHT_SHIFT_PRESSED", "RIGHT_SHIFT_RELEASED"}
         => Pending(i).key = "rshift"

(* The escape the decoder remembers, and the byte before a pending one.    *)
EscapeSeen == escaped <=> last \in {"escape", "released"}
EscapeBefore(i) == IF i = 0 THEN last \in {"escape", "polled"} ELSE Pending(i).code = "ESCAPE"

(* As long as nothing is dropped, what follows an escape, and nothing else,*)
(* is escaped, and no escape comes last.                                   *)
EscapesOrdered ==
  ~lost => /\ \A i \in 1 .. Ahead : Pending(i).follower <=> EscapeBefore(i - 1)
           /\ ~EscapeBefore(Ahead)

KeyboardInv ==
  /\ BytesTyped /\ CodesOwned /\ Replay /\ DecodedAsTyped
  /\ EscapeSeen /\ EscapesOrdered
  /\ LastSays("lshift", "LEFT_SHIFT_PRESSED", "LEFT_SHIFT_RELEASED", left_shift_state)
  /\ LastSays("rshift", "RIGHT_SHIFT_PRESSED", "RIGHT_SHIFT_RELEASED", right_shift_state)

-----------------------------------------------------------------------------
(* What a step does to the pending bytes. *)
LEMMA StrokeBytes ==
  ASSUME NEW k \in Key, NEW down
  PROVE  /\ Bytes(k, down) \in Seq(Byte) /\ Len(Bytes(k, down)) \in {1, 2}
         /\ Len(Bytes(k, down)) = Len(Codes(k, down))
         /\ \A i \in 1 .. Len(Bytes(k, down)) :
              LET b == Bytes(k, down)[i]
              IN  /\ b.code = Codes(k, down)[i] /\ b.key = k /\ b.typed = ColumnTyped(k)
                  /\ b.follower <=> i > 1 /\ Codes(k, down)[1] = "ESCAPE"
<1> DEFINE codes == Codes(k, down)
           Made(i) == [code |-> codes[i], key |-> k, typed |-> ColumnTyped(k),
                       follower |-> i > 1 /\ codes[1] = "ESCAPE"]
<1>1. k \in AllKeys
  BY KeyAssumption
<1>2. BaseCode(k, down) \in Scancode
  BY DEF BaseCode, Scancode
<1>3. codes \in Seq(Scancode) /\ Len(codes) \in {1, 2}
  <2>1. CASE k = "caps"
    <3>1. codes = <<"CAPS_LOCK_PART1", "CAPS_LOCK_PART2">>
      BY <2>1 DEF Codes
    <3> QED BY <3>1 DEF Scancode
  <2>2. CASE k \in {"rctrl", "altgr", "arrow"}
    <3>1. codes = <<"ESCAPE", BaseCode(k, down)>> /\ "ESCAPE" \in Scancode
      BY <2>2 DEF Codes, Scancode
    <3> HIDE DEF codes
    <3> QED BY <1>2, <3>1
  <2>3. CASE k \notin {"caps", "rctrl", "altgr", "arrow"}
    <3>1. codes = <<BaseCode(k, down)>>
      BY <2>3 DEF Codes
    <3> HIDE DEF codes
    <3> QED BY <1>2, <3>1
  <2> QED BY <2>1, <2>2, <2>3
<1>4. ColumnTyped(k) \in 0 .. 3
  BY DEF ColumnTyped
<1>5. Bytes(k, down) = [i \in 1 .. Len(codes) |-> Made(i)]
  BY DEF Bytes
<1> HIDE DEF codes
<1>6. \A i \in 1 .. Len(codes) : Made(i) \in Byte
  BY <1>1, <1>3, <1>4 DEF Byte
<1> HIDE DEF Made
<1>7. Bytes(k, down) \in Seq(Byte) /\ Len(Bytes(k, down)) = Len(codes)
  BY <1>3, <1>5, <1>6
<1>8. \A i \in 1 .. Len(codes) : Bytes(k, down)[i] = Made(i)
  BY <1>5
<1>9. \A i : LET b == Made(i)
             IN  /\ b.code = codes[i] /\ b.key = k /\ b.typed = ColumnTyped(k)
                 /\ b.follower <=> i > 1 /\ codes[1] = "ESCAPE"
  BY DEF Made
<1>10. \A i \in 1 .. Len(codes) :
         LET b == Bytes(k, down)[i]
         IN  /\ b.code = codes[i] /\ b.key = k /\ b.typed = ColumnTyped(k)
             /\ b.follower <=> i > 1 /\ codes[1] = "ESCAPE"
  BY <1>8, <1>9
<1> QED BY <1>3, <1>7, <1>10 DEF codes

LEMMA PendingBytes ==
  ASSUME BytesTyped
  PROVE  Ahead \in Nat /\ \A i \in 1 .. Ahead : Pending(i) \in Byte
<1>1. /\ Len(queue) \in Nat /\ Len(wire) \in Nat
      /\ \A i \in 1 .. Len(queue) : queue[i] \in Byte
      /\ \A i \in 1 .. Len(wire) : wire[i] \in Byte
  BY DEF BytesTyped
<1>2. ASSUME NEW i \in 1 .. Ahead PROVE Pending(i) \in Byte
  <2>1. CASE i <= Len(queue)
    BY <1>1, <2>1 DEF Pending
  <2>2. CASE ~(i <= Len(queue))
    <3>1. i - Len(queue) \in 1 .. Len(wire)
      BY <1>1, <2>2 DEF Ahead
    <3> QED BY <1>1, <2>2, <3>1 DEF Pending
  <2> QED BY <2>1, <2>2
<1> QED BY <1>1, <1>2 DEF Ahead

LEMMA StrokePending ==
  ASSUME BytesTyped, NEW k \in Key, stroke(k)
  PROVE  LET bytes == Bytes(k, k \notin held)
         IN  /\ Ahead' = Ahead + Len(bytes)
             /\ \A i \in 1 .. Ahead + Len(bytes) :
                  Pending(i)' = IF i <= Ahead THEN Pending(i) ELSE bytes[i - Ahead]
<1> DEFINE bytes == Bytes(k, k \notin held)
<1>1. wire = << >> /\ wire' = bytes /\ queue' = queue
  BY DEF stroke
<1>2. bytes \in Seq(Byte) /\ Len(bytes) \in Nat
  BY StrokeBytes
<1> HIDE DEF bytes
<1>3. Len(queue) \in Nat
  BY DEF BytesTyped
<1>4. Ahead = Len(queue) /\ Ahead' = Ahead + Len(bytes)
  BY <1>1, <1>2, <1>3 DEF Ahead
<1>5. \A i \in 1 .. Ahead + Len(bytes) :
        Pending(i)' = IF i <= Ahead THEN Pending(i) ELSE bytes[i - Ahead]
  BY <1>1, <1>2, <1>3, <1>4 DEF Pending
<1> QED BY <1>4, <1>5 DEF bytes

(* A byte that is stored stays the next one of its kind.                   *)
LEMMA StoredPending ==
  ASSUME BytesTyped, wire # << >>, wire' = Tail(wire), queue' = Append(queue, Head(wire))
  PROVE  Ahead' = Ahead /\ \A i \in 1 .. Ahead : Pending(i)' = Pending(i)
<1>1. Len(queue) \in Nat /\ Len(wire) \in Nat \ {0} /\ wire \in Seq(Byte) /\ queue \in Seq(Byte)
  BY DEF BytesTyped
<1>2. Len(queue') = Len(queue) + 1 /\ Len(wire') = Len(wire) - 1
  BY <1>1
<1>3. ASSUME NEW i \in 1 .. Ahead PROVE Pending(i)' = Pending(i)
  <2>1. CASE i <= Len(queue)
    <3>1. queue'[i] = queue[i]
      BY <1>1, <2>1
    <3> QED BY <1>1, <1>2, <2>1, <3>1 DEF Pending, Ahead
  <2>2. CASE i = Len(queue) + 1
    <3>1. queue'[i] = wire[1]
      BY <1>1, <2>2
    <3> QED BY <1>1, <1>2, <2>2, <3>1 DEF Pending, Ahead
  <2>3. CASE i > Len(queue) + 1
    <3>1. i - Len(queue) - 1 \in 1 .. Len(wire) - 1
      BY <1>1, <2>3 DEF Ahead
    <3>2. wire'[i - Len(queue) - 1] = wire[i - Len(queue)]
      BY <1>1, <3>1
    <3>3. i - Len(queue') = i - Len(queue) - 1 /\ ~(i <= Len(queue')) /\ ~(i <= Len(queue))
      BY <1>1, <1>2, <2>3
    <3> QED BY <3>2, <3>3 DEF Pending
  <2> QED BY <1>1, <2>1, <2>2, <2>3 DEF Ahead
<1> QED BY <1>1, <1>2, <1>3 DEF Ahead

LEMMA DroppedPending ==
  ASSUME BytesTyped, wire # << >>, wire' = Tail(wire), queue' = queue
  PROVE  /\ Ahead' = Ahead - 1 /\ Ahead \in Nat /\ Len(queue) + 1 \in 1 .. Ahead
         /\ Pending(Len(queue) + 1) = Head(wire)
         /\ \A i \in 1 .. Ahead' :
              Pending(i)' = IF i <= Len(queue) THEN Pending(i) ELSE Pending(i + 1)
<1>1. Len(queue) \in Nat /\ Len(wire) \in Nat \ {0} /\ wire \in Seq(Byte) /\ queue \in Seq(Byte)
  BY DEF BytesTyped
<1>2. Len(wire') = Len(wire) - 1
  BY <1>1
<1>3. Pending(Len(queue) + 1) = Head(wire)
  <2>1. ~(Len(queue) + 1 <= Len(queue)) /\ Len(queue) + 1 - Len(queue) = 1
    BY <1>1
  <2> QED BY <1>1, <2>1 DEF Pending
<1>4. ASSUME NEW i \in 1 .. Ahead'
      PROVE  Pending(i)' = IF i <= Len(queue) THEN Pending(i) ELSE Pending(i + 1)
  <2>1. CASE i <= Len(queue)
    BY <2>1 DEF Pending
  <2>2. CASE ~(i <= Len(queue))
    <3>1. i - Len(queue) \in 1 .. Len(wire) - 1
      BY <1>1, <1>2, <2>2 DEF Ahead
    <3>2. wire'[i - Len(queue)] = wire[i - Len(queue) + 1]
      BY <1>1, <3>1
    <3>3. ~(i + 1 <= Len(queue)) /\ i + 1 - Len(queue) = i - Len(queue) + 1
      BY <1>1, <2>2
    <3>4. Pending(i)' = wire'[i - Len(queue)]
      BY <2>2 DEF Pending
    <3>5. Pending(i + 1) = wire[i - Len(queue) + 1]
      BY <3>3 DEF Pending
    <3> QED BY <2>2, <3>2, <3>4, <3>5
  <2> QED BY <2>1, <2>2
<1> QED BY <1>1, <1>2, <1>3, <1>4 DEF Ahead

LEMMA TakenPending ==
  ASSUME BytesTyped, queue # << >>, queue' = Tail(queue), wire' = wire
  PROVE  /\ Ahead \in Nat \ {0} /\ Ahead' = Ahead - 1
         /\ Pending(1) = Head(queue) /\ Head(queue) \in Byte
         /\ \A i \in 1 .. Ahead' : Pending(i)' = Pending(i + 1)
<1>1. Len(queue) \in Nat \ {0} /\ Len(wire) \in Nat /\ wire \in Seq(Byte) /\ queue \in Seq(Byte)
  BY DEF BytesTyped
<1>2. Len(queue') = Len(queue) - 1
  BY <1>1
<1>3. Pending(1) = Head(queue) /\ Head(queue) \in Byte
  BY <1>1 DEF Pending
<1>4. ASSUME NEW i \in 1 .. Ahead' PROVE Pending(i)' = Pending(i + 1)
  <2>1. CASE i <= Len(queue) - 1
    <3>1. queue'[i] = queue[i + 1]
      BY <1>1, <2>1
    <3> QED BY <1>1, <1>2, <2>1, <3>1 DEF Pending
  <2>2. CASE ~(i <= Len(queue) - 1)
    <3>1. ~(i <= Len(queue')) /\ ~(i + 1 <= Len(queue)) /\ i - Len(queue') = i + 1 - Len(queue)
      BY <1>1, <1>2, <2>2 DEF Ahead
    <3> QED BY <3>1 DEF Pending
  <2> QED BY <2>1, <2>2
<1> QED BY <1>1, <1>2, <1>3, <1>4 DEF Ahead

-----------------------------------------------------------------------------
(* What a step means for the flags. *)
LEMMA FlagsTyped ==
  ASSUME BytesTyped
  PROVE  Meant \in Flags /\ \A s \in Flags : \A b : After(s, b) \in Flags
<1>1. caps_on \in BOOLEAN
  BY DEF BytesTyped
<1>2. Meant \in Flags
  BY <1>1 DEF Meant, Flags
<1>3. ASSUME NEW s \in Flags, NEW b PROVE After(s, b) \in Flags
  BY DEF After, Flags
<1> QED BY <1>2, <1>3

LEMMA SameFlags ==
  ASSUME NEW s \in Flags, NEW t \in Flags, s.left <=> t.left, s.right <=> t.right,
         s.caps <=> t.caps, s.ignore <=> t.ignore, s.gr <=> t.gr
  PROVE  s = t
<1>1. s.left \in BOOLEAN /\ t.left \in BOOLEAN /\ s.right \in BOOLEAN /\ t.right \in BOOLEAN
      /\ s.caps \in BOOLEAN /\ t.caps \in BOOLEAN /\ s.ignore \in BOOLEAN /\ t.ignore \in BOOLEAN
      /\ s.gr \in BOOLEAN /\ t.gr \in BOOLEAN
  BY DEF Flags
<1>2. s.left = t.left /\ s.right = t.right /\ s.caps = t.caps /\ s.ignore = t.ignore /\ s.gr = t.gr
  BY <1>1
<1> QED BY <1>2 DEF Flags

LEMMA MeantFields ==
  /\ Meant.left <=> "lshift" \in held
  /\ Meant.right <=> "rshift" \in held
  /\ Meant.caps = caps_on
  /\ Meant.ignore <=> "caps" \in held
  /\ Meant.gr <=> "altgr" \in held
BY DEF Meant

LEMMA AfterFields ==
  ASSUME NEW s \in Flags, NEW b
  PROVE
  /\ After(s, b) \in Flags
  /\ After(s, b).left <=> b.code = "LEFT_SHIFT_PRESSED" \/ (s.left /\ b.code # "LEFT_SHIFT_RELEASED")
  /\ After(s, b).right <=> b.code = "RIGHT_SHIFT_PRESSED" \/ (s.right /\ b.code # "RIGHT_SHIFT_RELEASED")
  /\ After(s, b).caps <=> IF b.code = "CAPS_LOCK_PART1" /\ ~s.ignore THEN ~s.caps ELSE s.caps
  /\ After(s, b).ignore <=> IF b.code = "CAPS_LOCK_PART1" THEN ~s.ignore ELSE s.ignore
  /\ After(s, b).gr <=> IF b.follower /\ b.code = "ALT_PRESSED" THEN TRUE
              ELSE IF b.follower /\ b.code = "ALT_RELEASED" THEN FALSE ELSE s.gr
BY DEF After, Flags

(* Codes that say nothing about these flags.                               *)
LEMMA NoFlagAfter ==
  ASSUME NEW s \in Flags, NEW b,
         \/ b.code \in {"ESCAPE", "CAPS_LOCK_PART2", "MAKE", "BREAK",
                        "LEFT_CTRL_PRESSED", "LEFT_CTRL_RELEASED"}
         \/ b.code \in {"ALT_PRESSED", "ALT_RELEASED"} /\ ~b.follower
  PROVE  After(s, b) = s
<1>1. After(s, b) \in Flags
  BY AfterFields
<1>2. /\ After(s, b).left <=> s.left
      /\ After(s, b).right <=> s.right
      /\ After(s, b).caps <=> s.caps
      /\ After(s, b).ignore <=> s.ignore
      /\ After(s, b).gr <=> s.gr
  BY AfterFields
<1> QED BY <1>1, <1>2, SameFlags

(* The bytes of a stroke turn the flags from what the keys were to what    *)
(* they are, and a key that makes a character has the column that the      *)
(* flags before it give.                                                   *)
LEMMA StrokeMeaning ==
  ASSUME BytesTyped, NEW k \in Key, stroke(k), NEW bytes, bytes = Bytes(k, k \notin held)
  PROVE  /\ Meant' \in Flags
         /\ Len(bytes) = 1 => After(Meant, bytes[1]) = Meant'
         /\ Len(bytes) = 2 => After(After(Meant, bytes[1]), bytes[2]) = Meant'
         /\ bytes[1].code = "MAKE" => bytes[1].typed = ColumnAt(Meant, bytes[1].follower)
         /\ Len(bytes) = 2 /\ bytes[2].code = "MAKE" => bytes[2].follower /\ bytes[2].typed = 3
<1> DEFINE down == k \notin held
<1>1. /\ held' = IF down THEN held \cup {k} ELSE held \ {k}
      /\ caps_on' = IF k = "caps" /\ down THEN ~caps_on ELSE caps_on
  BY DEF stroke
<1>2. /\ Len(bytes) = Len(Codes(k, down))
      /\ \A i \in 1 .. Len(bytes) :
           /\ bytes[i].code = Codes(k, down)[i] /\ bytes[i].typed = ColumnTyped(k)
           /\ bytes[i].follower <=> i > 1 /\ Codes(k, down)[1] = "ESCAPE"
  BY StrokeBytes
<1>3. caps_on \in BOOLEAN /\ k \in AllKeys
  BY KeyAssumption DEF BytesTyped
<1>4. Meant \in Flags /\ Meant' \in Flags
  <2>1. caps_on' \in BOOLEAN
    BY <1>1, <1>3
  <2> QED BY <2>1, FlagsTyped DEF Meant, Flags
<1>5. /\ Meant'.left <=> "lshift" \in held'
      /\ Meant'.right <=> "rshift" \in held'
      /\ Meant'.caps = caps_on'
      /\ Meant'.ignore <=> "caps" \in held'
      /\ Meant'.gr <=> "altgr" \in held'
  BY DEF Meant
<1>6. CASE k = "caps"
  <2>1. Codes(k, down) = <<"CAPS_LOCK_PART1", "CAPS_LOCK_PART2">>
    BY <1>6 DEF Codes
  <2>2. Len(bytes) = 2 /\ bytes[1].code = "CAPS_LOCK_PART1" /\ bytes[2].code = "CAPS_LOCK_PART2"
    BY <1>2, <2>1
  <2>3. After(Meant, bytes[1]) = Meant'
    <3>1. After(Meant, bytes[1]) \in Flags
      BY <1>4, AfterFields
    <3>2. /\ After(Meant, bytes[1]).left <=> Meant'.left
          /\ After(Meant, bytes[1]).right <=> Meant'.right
          /\ After(Meant, bytes[1]).caps <=> Meant'.caps
          /\ After(Meant, bytes[1]).ignore <=> Meant'.ignore
          /\ After(Meant, bytes[1]).gr <=> Meant'.gr
      <4>1. /\ After(Meant, bytes[1]).left <=> Meant.left
            /\ After(Meant, bytes[1]).right <=> Meant.right
            /\ After(Meant, bytes[1]).caps <=> IF ~Meant.ignore THEN ~Meant.caps ELSE Meant.caps
            /\ After(Meant, bytes[1]).ignore <=> ~Meant.ignore
            /\ After(Meant, bytes[1]).gr <=> Meant.gr
        BY <1>4, <2>2, AfterFields
      <4>2. /\ Meant'.left <=> Meant.left
            /\ Meant'.right <=> Meant.right
            /\ Meant'.ignore <=> ~Meant.ignore
            /\ Meant'.gr <=> Meant.gr
        BY <1>1, <1>5, <1>6, MeantFields
      <4>3. Meant'.caps <=> IF ~Meant.ignore THEN ~Meant.caps ELSE Meant.caps
        <5>1. CASE "caps" \notin held
          BY <1>1, <1>5, <1>6, <5>1, MeantFields
        <5>2. CASE "caps" \in held
          BY <1>1, <1>5, <1>6, <5>2, MeantFields
        <5> QED BY <5>1, <5>2
      <4> QED BY <4>1, <4>2, <4>3
    <3> QED BY <1>4, <3>1, <3>2, SameFlags
  <2>4. After(Meant', bytes[2]) = Meant'
    BY <1>4, <2>2, NoFlagAfter
  <2> QED BY <1>4, <2>2, <2>3, <2>4
<1>7. CASE k \in {"rctrl", "altgr", "arrow"}
  <2>1. Codes(k, down) = <<"ESCAPE", BaseCode(k, down)>>
    BY <1>7 DEF Codes
  <2>2. /\ Len(bytes) = 2 /\ bytes[1].code = "ESCAPE"
        /\ bytes[2].code = BaseCode(k, down) /\ bytes[2].follower
        /\ bytes[2].typed = ColumnTyped(k)
    BY <1>2, <2>1
  <2>3. After(Meant, bytes[1]) = Meant
    BY <1>4, <2>2, NoFlagAfter
  <2>4. CASE k = "rctrl"
    <3>1. bytes[2].code \in {"LEFT_CTRL_PRESSED", "LEFT_CTRL_RELEASED"}
      BY <2>2, <2>4 DEF BaseCode
    <3>2. Meant' = Meant
      BY <1>1, <2>4 DEF Meant
    <3>3. After(Meant, bytes[2]) = Meant
      BY <1>4, <3>1, NoFlagAfter
    <3> QED BY <1>4, <2>2, <2>3, <3>1, <3>2, <3>3
  <2>5. CASE k = "altgr"
    <3>1. bytes[2].code = IF down THEN "ALT_PRESSED" ELSE "ALT_RELEASED"
      BY <2>2, <2>5 DEF BaseCode
    <3>2. After(Meant, bytes[2]) = Meant'
      <4>1. After(Meant, bytes[2]) \in Flags
        BY <1>4, AfterFields
      <4>2. /\ After(Meant, bytes[2]).left <=> Meant'.left
            /\ After(Meant, bytes[2]).right <=> Meant'.right
            /\ After(Meant, bytes[2]).caps <=> Meant'.caps
            /\ After(Meant, bytes[2]).ignore <=> Meant'.ignore
            /\ After(Meant, bytes[2]).gr <=> Meant'.gr
        <5>1. /\ After(Meant, bytes[2]).left <=> Meant.left
              /\ After(Meant, bytes[2]).right <=> Meant.right
              /\ After(Meant, bytes[2]).caps <=> Meant.caps
              /\ After(Meant, bytes[2]).ignore <=> Meant.ignore
              /\ After(Meant, bytes[2]).gr <=> down
          BY <1>4, <2>2, <3>1, AfterFields
        <5>2. /\ Meant'.left <=> Meant.left
              /\ Meant'.right <=> Meant.right
              /\ Meant'.caps <=> Meant.caps
              /\ Meant'.ignore <=> Meant.ignore
              /\ Meant'.gr <=> down
          BY <1>1, <1>5, <2>5, MeantFields
        <5> QED BY <5>1, <5>2
      <4> QED BY <1>4, <4>1, <4>2, SameFlags
    <3> QED BY <1>4, <2>2, <2>3, <3>1, <3>2
  <2>6. CASE k = "arrow"
    <3>1. bytes[2].code \in {"MAKE", "BREAK"}
      BY <2>2, <2>6 DEF BaseCode
    <3>2. Meant' = Meant
      BY <1>1, <2>6 DEF Meant
    <3>3. After(Meant, bytes[2]) = Meant
      BY <1>4, <3>1, NoFlagAfter
    <3>4. bytes[2].typed = 3
      BY <2>2, <2>6 DEF ColumnTyped
    <3> QED BY <1>4, <2>2, <2>3, <3>2, <3>3, <3>4
  <2> QED BY <1>7, <2>4, <2>5, <2>6
<1>8. CASE k \notin {"caps", "rctrl", "altgr", "arrow"}
  <2>1. Codes(k, down) = <<BaseCode(k, down)>>
    BY <1>8 DEF Codes
  <2>2. /\ Len(bytes) = 1 /\ bytes[1].code = BaseCode(k, down)
        /\ ~bytes[1].follower /\ bytes[1].typed = ColumnTyped(k)
    BY <1>2, <2>1
  <2>3. After(Meant, bytes[1]) \in Flags
    BY <1>4, AfterFields
  <2>4. CASE k = "lshift"
    <3>1. bytes[1].code = IF down THEN "LEFT_SHIFT_PRESSED" ELSE "LEFT_SHIFT_RELEASED"
      BY <2>2, <2>4 DEF BaseCode
    <3>2. After(Meant, bytes[1]) = Meant'
      <4>1. /\ After(Meant, bytes[1]).left <=> Meant'.left
            /\ After(Meant, bytes[1]).right <=> Meant'.right
            /\ After(Meant, bytes[1]).caps <=> Meant'.caps
            /\ After(Meant, bytes[1]).ignore <=> Meant'.ignore
            /\ After(Meant, bytes[1]).gr <=> Meant'.gr
        <5>1. /\ After(Meant, bytes[1]).left <=> down
              /\ After(Meant, bytes[1]).right <=> Meant.right
              /\ After(Meant, bytes[1]).caps <=> Meant.caps
              /\ After(Meant, bytes[1]).ignore <=> Meant.ignore
              /\ After(Meant, bytes[1]).gr <=> Meant.gr
          BY <1>4, <3>1, AfterFields
        <5>2. /\ Meant'.left <=> down
              /\ Meant'.right <=> Meant.right
              /\ Meant'.caps <=> Meant.caps
              /\ Meant'.ignore <=> Meant.ignore
              /\ Meant'.gr <=> Meant.gr
          BY <1>1, <1>5, <2>4, MeantFields
        <5> QED BY <5>1, <5>2
      <4> QED BY <1>4, <2>3, <4>1, SameFlags
    <3> QED BY <1>4, <2>2, <3>1, <3>2
  <2>5. CASE k = "rshift"
    <3>1. bytes[1].code = IF down THEN "RIGHT_SHIFT_PRESSED" ELSE "RIGHT_SHIFT_RELEASED"
      BY <2>2, <2>5 DEF BaseCode
    <3>2. After(Meant, bytes[1]) = Meant'
      <4>1. /\ After(Meant, bytes[1]).left <=> Meant'.left
            /\ After(Meant, bytes[1]).right <=> Meant'.right
            /\ After(Meant, bytes[1]).caps <=> Meant'.caps
            /\ After(Meant, bytes[1]).ignore <=> Meant'.ignore
            /\ After(Meant, bytes[1]).gr <=> Meant'.gr
        <5>1. /\ After(Meant, bytes[1]).right <=> down
              /\ After(Meant, bytes[1]).left <=> Meant.left
              /\ After(Meant, bytes[1]).caps <=> Meant.caps
              /\ After(Meant, bytes[1]).ignore <=> Meant.ignore
              /\ After(Meant, bytes[1]).gr <=> Meant.gr
          BY <1>4, <3>1, AfterFields
        <5>2. /\ Meant'.right <=> down
              /\ Meant'.left <=> Meant.left
              /\ Meant'.caps <=> Meant.caps
              /\ Meant'.ignore <=> Meant.ignore
              /\ Meant'.gr <=> Meant.gr
          BY <1>1, <1>5, <2>5, MeantFields
        <5> QED BY <5>1, <5>2
      <4> QED BY <1>4, <2>3, <4>1, SameFlags
    <3> QED BY <1>4, <2>2, <3>1, <3>2
  <2>6. CASE k \in {"lctrl", "alt"}
    <3>1. bytes[1].code \in {"LEFT_CTRL_PRESSED", "LEFT_CTRL_RELEASED",
                             "ALT_PRESSED", "ALT_RELEASED"}
      BY <2>2, <2>6 DEF BaseCode
    <3>2. Meant' = Meant
      BY <1>1, <2>6 DEF Meant
    <3>3. After(Meant, bytes[1]) = Meant
      BY <1>4, <2>2, <3>1, NoFlagAfter
    <3> QED BY <1>4, <2>2, <3>1, <3>2, <3>3
  <2>7. CASE k = "letter"
    <3>1. bytes[1].code \in {"MAKE", "BREAK"}
      BY <2>2, <2>7 DEF BaseCode
    <3>2. Meant' = Meant
      BY <1>1, <2>7 DEF Meant
    <3>3. After(Meant, bytes[1]) = Meant
      BY <1>4, <3>1, NoFlagAfter
    <3>4. bytes[1].typed = ColumnAt(Meant, bytes[1].follower)
      BY <2>2, <2>7, MeantFields DEF ColumnTyped, ColumnAt
    <3> QED BY <1>4, <2>2, <3>2, <3>3, <3>4
  <2> QED BY <1>3, <1>8, <2>4, <2>5, <2>6, <2>7 DEF AllKeys
<1> QED BY <1>6, <1>7, <1>8

(* What the decoder finds of the escape of the byte it takes.              *)
LEMMA TakenEscape ==
  ASSUME BytesTyped, EscapeSeen, EscapesOrdered, queue # << >>, queue' = Tail(queue),
         wire' = wire, ~lost
  PROVE  /\ Head(queue).follower <=> last \in {"escape", "polled"}
         /\ escaped <=> last \in {"escape", "released"}
<1>1. Ahead \in Nat \ {0} /\ Pending(1) = Head(queue)
  BY TakenPending
<1>2. 1 \in 1 .. Ahead /\ 1 - 1 = 0
  BY <1>1
<1>3. Pending(1).follower <=> EscapeBefore(0)
  BY <1>2 DEF EscapesOrdered
<1> QED BY <1>1, <1>3 DEF EscapeBefore, EscapeSeen

(* get_next_key does to the flags what After says; AltGr only while no Alt *)
(* code was taken after an escape that was not its own.                    *)
LEMMA TakeMeaning ==
  ASSUME BytesTyped, EscapeSeen, EscapesOrdered, ~lost, get_next_key, NEW s \in Flags,
         s.left = left_shift_state, s.right = right_shift_state,
         s.caps = caps_lock_state, s.ignore = caps_lock_ignore_one,
         ~astray => s.gr = alt_gr_state
  PROVE  LET t == After(s, Head(queue))
         IN  /\ t.left = left_shift_state' /\ t.right = right_shift_state'
             /\ t.caps = caps_lock_state' /\ t.ignore = caps_lock_ignore_one'
             /\ ~astray' => t.gr = alt_gr_state'
<1> DEFINE b == Head(queue)
<1>1. /\ DecodeShift(b.code) /\ DecodeCaps(b.code) /\ DecodeAlt(b.code) /\ Remember(b.code)
      /\ queue # << >> /\ queue' = Tail(queue) /\ wire' = wire
  BY DEF get_next_key, hwVars
<1>2. /\ left_shift_state' = IF b.code = "LEFT_SHIFT_PRESSED" THEN TRUE
                             ELSE IF b.code = "LEFT_SHIFT_RELEASED" THEN FALSE ELSE s.left
      /\ right_shift_state' = IF b.code = "RIGHT_SHIFT_PRESSED" THEN TRUE
                              ELSE IF b.code = "RIGHT_SHIFT_RELEASED" THEN FALSE ELSE s.right
  BY <1>1 DEF DecodeShift
<1>3. /\ caps_lock_state' = IF b.code = "CAPS_LOCK_PART1" /\ ~s.ignore THEN ~s.caps ELSE s.caps
      /\ caps_lock_ignore_one' = IF b.code = "CAPS_LOCK_PART1" THEN ~s.ignore ELSE s.ignore
  BY <1>1 DEF DecodeCaps
<1>4. ~astray' => alt_gr_state' = IF b.follower /\ b.code = "ALT_PRESSED" THEN TRUE
                                  ELSE IF b.follower /\ b.code = "ALT_RELEASED" THEN FALSE ELSE s.gr
  <2>1. /\ b.follower <=> last \in {"escape", "polled"}
        /\ escaped <=> last \in {"escape", "released"}
    BY <1>1, TakenEscape
  <2>2. ~astray' => ~astray /\ (b.code \in {"ALT_PRESSED", "ALT_RELEASED"}
                                  => last \notin {"released", "polled"})
    BY <1>1 DEF Remember
  <2>3. ~astray' /\ b.code \in {"ALT_PRESSED", "ALT_RELEASED"} => (escaped <=> b.follower)
    BY <2>1, <2>2
  <2>4. alt_gr_state' = IF b.code \in {"ALT_PRESSED", "ALT_RELEASED"} /\ escaped
                          THEN b.code = "ALT_PRESSED" ELSE alt_gr_state
    BY <1>1 DEF DecodeAlt
  <2> QED BY <2>2, <2>3, <2>4
<1> QED BY <1>2, <1>3, <1>4 DEF After

-----------------------------------------------------------------------------
(* The last byte of a key, through the steps that move the bytes. *)
LEMMA SaysStored ==
  ASSUME NEW k, NEW press, NEW release, NEW x, LastSays(k, press, release, x),
         Ahead' = Ahead, \A i \in 1 .. Ahead : Pending(i)' = Pending(i),
         held' = held, missed' = missed, Ahead \in Nat
  PROVE  LastSays(k, press, release, x)'
<1> SUFFICES ASSUME k \in Key \ missed
             PROVE  \/ /\ x <=> k \in held'
                       /\ \A i \in 1 .. Ahead' : Pending(i)'.key # k
                    \/ \E i \in 1 .. Ahead' :
                         /\ Pending(i)'.key = k
                         /\ Pending(i)'.code = IF k \in held' THEN press ELSE release
                         /\ \A j \in i + 1 .. Ahead' : Pending(j)'.key # k
  BY DEF LastSays
<1>1. CASE (x <=> k \in held) /\ \A i \in 1 .. Ahead : Pending(i).key # k
  BY <1>1
<1>2. ASSUME NEW i \in 1 .. Ahead, Pending(i).key = k,
             Pending(i).code = (IF k \in held THEN press ELSE release),
             \A j \in i + 1 .. Ahead : Pending(j).key # k
      PROVE  /\ Pending(i)'.key = k
             /\ Pending(i)'.code = IF k \in held' THEN press ELSE release
             /\ \A j \in i + 1 .. Ahead' : Pending(j)'.key # k
  <2>1. ASSUME NEW j \in i + 1 .. Ahead PROVE Pending(j)'.key # k
    <3>1. j \in 1 .. Ahead
      OBVIOUS
    <3> QED BY <1>2, <3>1
  <2> QED BY <1>2, <2>1
<1> QED BY <1>1, <1>2 DEF LastSays

LEMMA SaysDropped ==
  ASSUME NEW k, NEW press, NEW release, NEW x, LastSays(k, press, release, x),
         NEW q \in Nat, q + 1 \in 1 .. Ahead, Ahead \in Nat, Ahead' = Ahead - 1,
         \A i \in 1 .. Ahead' : Pending(i)' = IF i <= q THEN Pending(i) ELSE Pending(i + 1),
         held' = held, missed' = missed \cup {Pending(q + 1).key}
  PROVE  LastSays(k, press, release, x)'
<1> SUFFICES ASSUME k \in Key \ missed, Pending(q + 1).key # k
             PROVE  \/ /\ x <=> k \in held'
                       /\ \A i \in 1 .. Ahead' : Pending(i)'.key # k
                    \/ \E i \in 1 .. Ahead' :
                         /\ Pending(i)'.key = k
                         /\ Pending(i)'.code = IF k \in held' THEN press ELSE release
                         /\ \A j \in i + 1 .. Ahead' : Pending(j)'.key # k
  BY DEF LastSays
<1>1. CASE (x <=> k \in held) /\ \A i \in 1 .. Ahead : Pending(i).key # k
  <2>1. ASSUME NEW i \in 1 .. Ahead' PROVE Pending(i)'.key # k
    <3>1. PICK n \in 1 .. Ahead : n = i + 1
      OBVIOUS
    <3>2. i \in 1 .. Ahead
      OBVIOUS
    <3>3. Pending(i)' = Pending(i) \/ Pending(i)' = Pending(n)
      BY <3>1
    <3> QED BY <1>1, <3>2, <3>3
  <2> QED BY <1>1, <2>1
<1>2. ASSUME NEW i \in 1 .. Ahead, Pending(i).key = k,
             Pending(i).code = (IF k \in held THEN press ELSE release),
             \A j \in i + 1 .. Ahead : Pending(j).key # k
      PROVE  \E n \in 1 .. Ahead' :
               /\ Pending(n)'.key = k
               /\ Pending(n)'.code = IF k \in held' THEN press ELSE release
               /\ \A j \in n + 1 .. Ahead' : Pending(j)'.key # k
  <2>1. i # q + 1
    BY <1>2
  <2>2. PICK n \in 1 .. Ahead' : n = IF i <= q THEN i ELSE i - 1
    BY <2>1
  <2>3. Pending(n)' = Pending(i)
    <3>1. CASE i <= q
      BY <2>2, <3>1
    <3>2. CASE ~(i <= q)
      <4>1. ~(n <= q) /\ n + 1 = i
        BY <2>1, <2>2, <3>2
      <4> QED BY <4>1
    <3> QED BY <3>1, <3>2
  <2>4. ASSUME NEW j \in n + 1 .. Ahead' PROVE Pending(j)'.key # k
    <3>1. j \in 1 .. Ahead'
      OBVIOUS
    <3>2. CASE j <= q
      <4>1. j \in i + 1 .. Ahead
        BY <2>2, <3>2
      <4>2. Pending(j)' = Pending(j)
        BY <3>1, <3>2
      <4> QED BY <1>2, <4>1, <4>2
    <3>3. CASE ~(j <= q)
      <4>1. PICK m \in i + 1 .. Ahead : m = j + 1
        BY <2>2
      <4>2. Pending(j)' = Pending(m)
        BY <3>1, <3>3, <4>1
      <4> QED BY <1>2, <4>2
    <3> QED BY <3>2, <3>3
  <2> QED BY <1>2, <2>3, <2>4
<1> QED BY <1>1, <1>2 DEF LastSays

(* x is the flag before the byte is decoded, y behind it.                  *)
LEMMA SaysTaken ==
  ASSUME NEW k, NEW press, NEW release, NEW x, NEW y, LastSays(k, press, release, x),
         Ahead \in Nat \ {0}, Ahead' = Ahead - 1,
         \A i \in 1 .. Ahead' : Pending(i)' = Pending(i + 1),
         held' = held, missed' = missed,
         Pending(1).code = press => y, Pending(1).code = release => ~y,
         Pending(1).key # k => (y <=> x)
  PROVE  LastSays(k, press, release, y)'
<1> SUFFICES ASSUME k \in Key \ missed
             PROVE  \/ /\ y <=> k \in held'
                       /\ \A i \in 1 .. Ahead' : Pending(i)'.key # k
                    \/ \E i \in 1 .. Ahead' :
                         /\ Pending(i)'.key = k
                         /\ Pending(i)'.code = IF k \in held' THEN press ELSE release
                         /\ \A j \in i + 1 .. Ahead' : Pending(j)'.key # k
  BY DEF LastSays
<1>1. CASE (x <=> k \in held) /\ \A i \in 1 .. Ahead : Pending(i).key # k
  <2>1. ASSUME NEW i \in 1 .. Ahead' PROVE Pending(i)'.key # k
    <3>1. PICK n \in 1 .. Ahead : n = i + 1
      OBVIOUS
    <3> QED BY <1>1, <3>1
  <2>2. Pending(1).key # k
    BY <1>1
  <2> QED BY <1>1, <2>1, <2>2
<1>2. ASSUME NEW i \in 1 .. Ahead, Pending(i).key = k,
             Pending(i).code = (IF k \in held THEN press ELSE release),
             \A j \in i + 1 .. Ahead : Pending(j).key # k
      PROVE  \/ /\ y <=> k \in held'
                /\ \A n \in 1 .. Ahead' : Pending(n)'.key # k
             \/ \E n \in 1 .. Ahead' :
                  /\ Pending(n)'.key = k
                  /\ Pending(n)'.code = IF k \in held' THEN press ELSE release
                  /\ \A j \in n + 1 .. Ahead' : Pending(j)'.key # k
  <2>1. CASE i = 1
    <3>1. y <=> k \in held'
      BY <1>2, <2>1
    <3>2. ASSUME NEW n \in 1 .. Ahead' PROVE Pending(n)'.key # k
      <4>1. PICK m \in i + 1 .. Ahead : m = n + 1
        BY <2>1
      <4> QED BY <1>2, <4>1
    <3> QED BY <3>1, <3>2
  <2>2. CASE i # 1
    <3>1. PICK n \in 1 .. Ahead' : n + 1 = i
      <4>1. i - 1 \in 1 .. Ahead' /\ (i - 1) + 1 = i
        BY <2>2
      <4> QED BY <4>1
    <3>2. Pending(n)' = Pending(i)
      BY <3>1
    <3>3. ASSUME NEW j \in n + 1 .. Ahead' PROVE Pending(j)'.key # k
      <4>1. PICK m \in i + 1 .. Ahead : m = j + 1
        BY <3>1
      <4>2. Pending(j)' = Pending(m)
        BY <3>1, <4>1
      <4> QED BY <1>2, <4>2
    <3> QED BY <1>2, <3>2, <3>3
  <2> QED BY <2>1, <2>2
<1> QED BY <1>1, <1>2 DEF LastSays

(* Another key is struck.                                                  *)
LEMMA SaysStrokeOther ==
  ASSUME NEW k, NEW press, NEW release, NEW x, LastSays(k, press, release, x),
         BytesTyped, NEW c \in Key, c # k, stroke(c)
  PROVE  LastSays(k, press, release, x)'
<1> DEFINE bytes == Bytes(c, c \notin held)
<1>1. Ahead' = Ahead + Len(bytes)
      /\ \A i \in 1 .. Ahead + Len(bytes) :
           Pending(i)' = IF i <= Ahead THEN Pending(i) ELSE bytes[i - Ahead]
  BY StrokePending
<1>2. Len(bytes) \in {1, 2} /\ \A i \in 1 .. Len(bytes) : bytes[i].key = c
  BY StrokeBytes
<1> HIDE DEF bytes
<1>3. Ahead \in Nat
  BY PendingBytes
<1>4. (k \in held' <=> k \in held) /\ missed' = missed \ {c}
  BY DEF stroke
<1>5. ASSUME NEW i \in Ahead + 1 .. Ahead' PROVE Pending(i)'.key # k
  <2>1. i \in 1 .. Ahead + Len(bytes) /\ ~(i <= Ahead) /\ i - Ahead \in 1 .. Len(bytes)
    BY <1>1, <1>2, <1>3
  <2> QED BY <1>1, <1>2, <2>1
<1>6. ASSUME NEW i \in 1 .. Ahead PROVE Pending(i)' = Pending(i) /\ i \in 1 .. Ahead'
  <2>1. i \in 1 .. Ahead + Len(bytes) /\ i <= Ahead
    BY <1>2, <1>3
  <2> QED BY <1>1, <2>1
<1> SUFFICES ASSUME k \in Key \ missed
             PROVE  \/ /\ x <=> k \in held'
                       /\ \A i \in 1 .. Ahead' : Pending(i)'.key # k
                    \/ \E i \in 1 .. Ahead' :
                         /\ Pending(i)'.key = k
                         /\ Pending(i)'.code = IF k \in held' THEN press ELSE release
                         /\ \A j \in i + 1 .. Ahead' : Pending(j)'.key # k
  BY <1>4 DEF LastSays
<1>7. CASE (x <=> k \in held) /\ \A i \in 1 .. Ahead : Pending(i).key # k
  <2>1. ASSUME NEW i \in 1 .. Ahead' PROVE Pending(i)'.key # k
    <3>1. CASE i \in 1 .. Ahead
      BY <1>6, <1>7, <3>1
    <3>2. CASE i \notin 1 .. Ahead
      <4>1. i \in Ahead + 1 .. Ahead'
        BY <1>3, <3>2
      <4> QED BY <1>5, <4>1
    <3> QED BY <3>1, <3>2
  <2> QED BY <1>4, <1>7, <2>1
<1>8. ASSUME NEW i \in 1 .. Ahead, Pending(i).key = k,
             Pending(i).code = (IF k \in held THEN press ELSE release),
             \A j \in i + 1 .. Ahead : Pending(j).key # k
      PROVE  \E n \in 1 .. Ahead' :
               /\ Pending(n)'.key = k
               /\ Pending(n)'.code = IF k \in held' THEN press ELSE release
               /\ \A j \in n + 1 .. Ahead' : Pending(j)'.key # k
  <2>1. ASSUME NEW j \in i + 1 .. Ahead' PROVE Pending(j)'.key # k
    <3>1. CASE j \in 1 .. Ahead
      <4>1. j \in i + 1 .. Ahead
        BY <3>1
      <4> QED BY <1>6, <1>8, <3>1, <4>1
    <3>2. CASE j \notin 1 .. Ahead
      <4>1. j \in Ahead + 1 .. Ahead'
        BY <1>3, <3>2
      <4> QED BY <1>5, <4>1
    <3> QED BY <3>1, <3>2
  <2>2. i \in 1 .. Ahead' /\ Pending(i)' = Pending(i)
    BY <1>6
  <2> QED BY <1>4, <1>8, <2>1, <2>2
<1> QED BY <1>7, <1>8 DEF LastSays

(* The key itself is struck, and its stroke is one byte.                   *)
LEMMA SaysStroke ==
  ASSUME NEW press, NEW release, NEW x, BytesTyped, NEW k \in Key, stroke(k),
         Codes(k, k \notin held) = <<IF k \notin held THEN press ELSE release>>
  PROVE  LastSays(k, press, release, x)'
<1> DEFINE bytes == Bytes(k, k \notin held)
<1>1. Ahead' = Ahead + Len(bytes)
      /\ \A i \in 1 .. Ahead + Len(bytes) :
           Pending(i)' = IF i <= Ahead THEN Pending(i) ELSE bytes[i - Ahead]
  BY StrokePending
<1>2. Len(bytes) = 1 /\ bytes[1].key = k
      /\ bytes[1].code = IF k \notin held THEN press ELSE release
  <2>1. Len(bytes) = Len(Codes(k, k \notin held))
        /\ \A i \in 1 .. Len(bytes) : bytes[i].code = Codes(k, k \notin held)[i] /\ bytes[i].key = k
    BY StrokeBytes
  <2> HIDE DEF bytes
  <2> QED BY <2>1
<1> HIDE DEF bytes
<1>3. Ahead \in Nat
  BY PendingBytes
<1>4. k \in held' <=> k \notin held
  BY DEF stroke
<1>5. PICK n \in 1 .. Ahead' : n = Ahead + 1
  BY <1>1, <1>2, <1>3
<1>6. Pending(n)' = bytes[1]
  <2>1. ~(n <= Ahead) /\ n - Ahead = 1
    BY <1>3, <1>5
  <2> QED BY <1>1, <1>2, <2>1
<1>7. \A j \in n + 1 .. Ahead' : FALSE
  BY <1>1, <1>2, <1>3, <1>5
<1> QED BY <1>2, <1>4, <1>6, <1>7 DEF LastSays

-----------------------------------------------------------------------------
(* The flags' way through the pending bytes, step by step. *)
LEMMA ReplayStroke ==
  ASSUME BytesTyped, Replay, NEW k \in Key, stroke(k)
  PROVE  Replay'
<1> DEFINE bytes == Bytes(k, k \notin held)
<1>1. /\ Ahead' = Ahead + Len(bytes)
      /\ \A i \in 1 .. Ahead + Len(bytes) :
           Pending(i)' = IF i <= Ahead THEN Pending(i) ELSE bytes[i - Ahead]
  BY StrokePending
<1>2. /\ Meant' \in Flags /\ Len(bytes) \in {1, 2}
      /\ Len(bytes) = 1 => After(Meant, bytes[1]) = Meant'
      /\ Len(bytes) = 2 => After(After(Meant, bytes[1]), bytes[2]) = Meant'
      /\ bytes[1].code = "MAKE" => bytes[1].typed = ColumnAt(Meant, bytes[1].follower)
      /\ Len(bytes) = 2 /\ bytes[2].code = "MAKE" => bytes[2].follower /\ bytes[2].typed = 3
  <2>1. Len(bytes) \in {1, 2}
    BY StrokeBytes
  <2> QED BY <2>1, StrokeMeaning
<1> HIDE DEF bytes
<1>3. Ahead \in Nat
  BY PendingBytes
<1>4. /\ UNCHANGED <<left_shift_state, right_shift_state, caps_lock_state,
                     caps_lock_ignore_one, alt_gr_state>>
      /\ astray' = astray /\ lost' = lost
  BY DEF stroke, shiftVars, altVars
<1> SUFFICES ASSUME ~lost PROVE \E t \in [Nat -> Flags] : StartsNow(t)' /\ Decodes(t)'
  BY <1>4 DEF Replay
<1>5. PICK s \in [Nat -> Flags] : StartsNow(s) /\ Decodes(s)
  BY DEF Replay
<1> DEFINE mid == After(s[Ahead], bytes[1])
           end == After(mid, bytes[2])
<1>6. mid \in Flags /\ end \in Flags
  <2>1. s[Ahead] \in Flags
    BY <1>3
  <2> QED BY <2>1, FlagsTyped
<1>7. s[Ahead] = Meant /\ mid = After(Meant, bytes[1]) /\ end = After(After(Meant, bytes[1]), bytes[2])
  BY <1>5 DEF Decodes
<1> HIDE DEF mid, end
<1>8. PICK t \in [Nat -> Flags] :
        /\ \A i \in 0 .. Ahead : t[i] = s[i]
        /\ t[Ahead + 1] = mid /\ t[Ahead + 2] = end
  <2> DEFINE u == [i \in Nat |-> IF i <= Ahead THEN s[i] ELSE IF i = Ahead + 1 THEN mid ELSE end]
  <2>1. /\ u \in [Nat -> Flags]
        /\ \A i \in 0 .. Ahead : u[i] = s[i]
        /\ u[Ahead + 1] = mid /\ u[Ahead + 2] = end
    BY <1>3, <1>6
  <2> QED BY <2>1
<1>9. StartsNow(t)'
  <2>1. t[0] = s[0]
    BY <1>3, <1>8
  <2> QED BY <1>4, <1>5, <2>1 DEF StartsNow
<1>10. t[Ahead'] = Meant'
  <2>1. CASE Len(bytes) = 1
    <3>1. Ahead' = Ahead + 1
      BY <1>1, <2>1
    <3> QED BY <1>2, <1>7, <1>8, <2>1, <3>1
  <2>2. CASE Len(bytes) = 2
    <3>1. Ahead' = Ahead + 2
      BY <1>1, <2>2
    <3> QED BY <1>2, <1>7, <1>8, <2>2, <3>1
  <2> QED BY <1>2, <2>1, <2>2
<1>11. ASSUME NEW i \in 1 .. Ahead'
       PROVE  /\ t[i] = After(t[i - 1], Pending(i)')
              /\ Pending(i)'.code = "MAKE"
                   => Pending(i)'.typed = ColumnAt(t[i - 1], Pending(i)'.follower)
  <2>1. CASE i <= Ahead
    <3>1. Pending(i)' = Pending(i)
      BY <1>1, <2>1
    <3>2. t[i] = s[i] /\ t[i - 1] = s[i - 1]
      BY <1>3, <1>8, <2>1
    <3>3. i \in 1 .. Ahead
      BY <1>3, <2>1
    <3> QED BY <1>5, <3>1, <3>2, <3>3 DEF Decodes
  <2>2. CASE i = Ahead + 1
    <3>1. ~(i <= Ahead) /\ i - Ahead = 1 /\ i - 1 = Ahead
      BY <1>3, <2>2
    <3>2. Pending(i)' = bytes[1]
      BY <1>1, <3>1
    <3>3. t[i] = mid /\ t[i - 1] = Meant
      BY <1>3, <1>7, <1>8, <2>2, <3>1
    <3> QED BY <1>2, <1>7, <3>2, <3>3
  <2>3. CASE i > Ahead + 1
    <3>1. Len(bytes) = 2 /\ i = Ahead + 2
      <4>1. (Len(bytes) = 1 /\ Ahead' = Ahead + 1) \/ (Len(bytes) = 2 /\ Ahead' = Ahead + 2)
        BY <1>1, <1>2
      <4>2. Ahead' \in Nat
        BY <1>3, <4>1
      <4>3. i \in Nat /\ i <= Ahead'
        BY <4>2
      <4> QED BY <1>3, <2>3, <4>1, <4>3
    <3>2. ~(i <= Ahead) /\ i - Ahead = 2 /\ i - 1 = Ahead + 1
      BY <1>3, <3>1
    <3>3. Pending(i)' = bytes[2]
      BY <1>1, <3>2
    <3>4. t[i] = end /\ t[i - 1] = mid
      BY <1>8, <3>1, <3>2
    <3>5. bytes[2].code = "MAKE" => bytes[2].typed = ColumnAt(mid, bytes[2].follower)
      BY <1>2, <3>1 DEF ColumnAt
    <3> QED BY <1>7, <3>3, <3>4, <3>5
  <2> QED BY <1>3, <2>1, <2>2, <2>3
<1>12. Decodes(t)'
  <2>1. Decodes(t)' <=> /\ \A i \in 1 .. Ahead' :
                             /\ t[i] = After(t[i - 1], Pending(i)')
                             /\ Pending(i)'.code = "MAKE"
                                  => Pending(i)'.typed = ColumnAt(t[i - 1], Pending(i)'.follower)
                        /\ t[Ahead'] = Meant'
    BY DEF Decodes, After, ColumnAt
  <2> QED BY <1>10, <1>11, <2>1
<1> QED BY <1>8, <1>9, <1>12

LEMMA ReplayTaken ==
  ASSUME BytesTyped, Replay, EscapeSeen, EscapesOrdered, get_next_key
  PROVE  Replay'
<1>1. queue # << >> /\ queue' = Tail(queue) /\ wire' = wire
      /\ held' = held /\ caps_on' = caps_on /\ lost' = lost
  BY DEF get_next_key, hwVars
<1>2. /\ Ahead \in Nat \ {0} /\ Ahead' = Ahead - 1 /\ Pending(1) = Head(queue)
      /\ \A i \in 1 .. Ahead' : Pending(i)' = Pending(i + 1)
  BY <1>1, TakenPending
<1> SUFFICES ASSUME ~lost PROVE \E t \in [Nat -> Flags] : StartsNow(t)' /\ Decodes(t)'
  BY <1>1 DEF Replay
<1>3. PICK s \in [Nat -> Flags] : StartsNow(s) /\ Decodes(s)
  BY DEF Replay
<1> DEFINE t == [i \in Nat |-> s[i + 1]]
<1>4. t \in [Nat -> Flags] /\ \A i \in Nat : t[i] = s[i + 1]
  OBVIOUS
<1> HIDE DEF t
<1>5. StartsNow(t)'
  <2>1. t[0] = After(s[0], Head(queue))
    <3>1. 1 \in 1 .. Ahead /\ 1 - 1 = 0 /\ 0 + 1 = 1
      BY <1>2
    <3>2. s[1] = After(s[0], Pending(1))
      BY <1>3, <3>1 DEF Decodes
    <3>3. t[0] = s[1]
      BY <1>4, <3>1
    <3> QED BY <1>2, <3>2, <3>3
  <2>2. /\ s[0] \in Flags
        /\ s[0].left = left_shift_state /\ s[0].right = right_shift_state
        /\ s[0].caps = caps_lock_state /\ s[0].ignore = caps_lock_ignore_one
        /\ ~astray => s[0].gr = alt_gr_state
    BY <1>3 DEF StartsNow
  <2> QED BY <2>1, <2>2, TakeMeaning DEF StartsNow
<1>6. t[Ahead'] = Meant'
  <2>1. s[Ahead] = Meant /\ Meant' = Meant
    BY <1>1, <1>3 DEF Decodes, Meant
  <2>2. Ahead' \in Nat /\ Ahead' + 1 = Ahead
    BY <1>2
  <2> QED BY <1>4, <2>1, <2>2
<1>7. ASSUME NEW i \in 1 .. Ahead'
      PROVE  /\ t[i] = After(t[i - 1], Pending(i)')
             /\ Pending(i)'.code = "MAKE"
                  => Pending(i)'.typed = ColumnAt(t[i - 1], Pending(i)'.follower)
  <2>1. PICK n \in 1 .. Ahead : n = i + 1
    BY <1>2
  <2>2. Pending(i)' = Pending(n) /\ t[i] = s[n]
    BY <1>2, <1>4, <2>1
  <2>3. t[i - 1] = s[n - 1]
    <3>1. i - 1 \in Nat /\ (i - 1) + 1 = n - 1
      BY <1>2, <2>1
    <3> QED BY <1>4, <3>1
  <2> QED BY <1>3, <2>2, <2>3 DEF Decodes
<1>8. Decodes(t)'
  <2>1. Decodes(t)' <=> /\ \A i \in 1 .. Ahead' :
                             /\ t[i] = After(t[i - 1], Pending(i)')
                             /\ Pending(i)'.code = "MAKE"
                                  => Pending(i)'.typed = ColumnAt(t[i - 1], Pending(i)'.follower)
                        /\ t[Ahead'] = Meant'
    BY DEF Decodes, After, ColumnAt
  <2> QED BY <1>6, <1>7, <2>1
<1> QED BY <1>4, <1>5, <1>8

(* A call on an empty buffer may only lose an escape.                      *)
LEMMA ReplayKept ==
  ASSUME BytesTyped, Replay, Ahead' = Ahead, \A i \in 1 .. Ahead : Pending(i)' = Pending(i),
         UNCHANGED <<held, caps_on, lost, left_shift_state, right_shift_state,
                     caps_lock_state, caps_lock_ignore_one, alt_gr_state>>,
         ~astray' => ~astray
  PROVE  Replay'
<1> SUFFICES ASSUME ~lost PROVE \E t \in [Nat -> Flags] : StartsNow(t)' /\ Decodes(t)'
  BY DEF Replay
<1>1. PICK s \in [Nat -> Flags] : StartsNow(s) /\ Decodes(s)
  BY DEF Replay
<1>2. StartsNow(s)'
  BY <1>1 DEF StartsNow
<1>3. Meant' = Meant
  BY DEF Meant
<1>4. Decodes(s)'
  <2>1. Decodes(s)' <=> /\ \A i \in 1 .. Ahead' :
                             /\ s[i] = After(s[i - 1], Pending(i)')
                             /\ Pending(i)'.code = "MAKE"
                                  => Pending(i)'.typed = ColumnAt(s[i - 1], Pending(i)'.follower)
                        /\ s[Ahead'] = Meant'
    BY DEF Decodes, After, ColumnAt
  <2> QED BY <1>1, <1>3, <2>1 DEF Decodes
<1> QED BY <1>2, <1>4

(* The column of a character is the one the flags give, or the byte met    *)
(* no escape of its own.                                                   *)
LEMMA DecodedTaken ==
  ASSUME BytesTyped, Replay, EscapeSeen, EscapesOrdered, get_next_key
  PROVE  DecodedAsTyped'
<1> DEFINE b == Head(queue)
<1>1. /\ queue # << >> /\ queue' = Tail(queue) /\ wire' = wire /\ lost' = lost
      /\ out' = IF b.code = "MAKE"
                  THEN [key |-> b.key, column |-> Column, typed |-> b.typed, last |-> last]
                  ELSE NoKey
      /\ ~astray' => ~astray
  BY DEF get_next_key, hwVars, Remember
<1>2. Ahead \in Nat \ {0} /\ Pending(1) = b /\ b \in Byte
  BY <1>1, TakenPending
<1> SUFFICES ASSUME ~lost
             PROVE  \/ out'.column = out'.typed
                    \/ out'.last = "released" /\ out'.column = 3
                    \/ out'.last = "polled" /\ out'.typed = 3
                    \/ astray' /\ 2 \in {out'.column, out'.typed}
  BY <1>1 DEF DecodedAsTyped
<1>3. /\ b.follower <=> last \in {"escape", "polled"}
      /\ escaped <=> last \in {"escape", "released"}
  BY <1>1, TakenEscape
<1> HIDE DEF b
<1>4. CASE b.code # "MAKE"
  BY <1>1, <1>4 DEF NoKey
<1>5. CASE b.code = "MAKE"
  <2>1. PICK s \in [Nat -> Flags] : StartsNow(s) /\ Decodes(s)
    BY DEF Replay
  <2>2. b.typed = ColumnAt(s[0], b.follower)
    <3>1. 1 \in 1 .. Ahead /\ 1 - 1 = 0
      BY <1>2
    <3> QED BY <1>2, <1>5, <2>1, <3>1 DEF Decodes
  <2>3. /\ s[0].left = left_shift_state /\ s[0].right = right_shift_state
        /\ s[0].caps = caps_lock_state
        /\ ~astray => s[0].gr = alt_gr_state
    BY <2>1 DEF StartsNow
  <2>4. out'.column = Column /\ out'.typed = b.typed /\ out'.last = last
    BY <1>1, <1>5
  <2>5. CASE last \in {"escape", "released"}
    <3>1. Column = 3
      BY <1>3, <2>5 DEF Column
    <3>2. last = "escape" => b.typed = 3
      BY <1>3, <2>2 DEF ColumnAt
    <3> QED BY <2>4, <2>5, <3>1, <3>2
  <2>6. CASE last = "polled"
    <3>1. b.typed = 3
      BY <1>3, <2>2, <2>6 DEF ColumnAt
    <3> QED BY <2>4, <2>6, <3>1
  <2>7. CASE last = "other"
    <3>1. /\ Column = IF alt_gr_state THEN 2
                      ELSE IF left_shift_state \/ right_shift_state \/ caps_lock_state
                             THEN 1 ELSE 0
          /\ b.typed = IF s[0].gr THEN 2
                       ELSE IF s[0].left \/ s[0].right \/ s[0].caps THEN 1 ELSE 0
      BY <1>3, <2>2, <2>7 DEF Column, ColumnAt
    <3>2. CASE s[0].gr <=> alt_gr_state
      BY <2>3, <2>4, <3>1, <3>2
    <3>3. CASE ~(s[0].gr <=> alt_gr_state)
      <4>1. astray'
        BY <1>1, <2>3, <3>3
      <4>2. 2 \in {Column, b.typed}
        BY <3>1, <3>3
      <4> QED BY <2>4, <4>1, <4>2
    <3> QED BY <3>2, <3>3
  <2> QED BY <2>5, <2>6, <2>7 DEF BytesTyped, Lasts
<1> QED BY <1>4, <1>5

(* The escapes, through the steps that move the bytes.                     *)
LEMMA EscapesStroke ==
  ASSUME BytesTyped, EscapesOrdered, NEW k \in Key, stroke(k)
  PROVE  EscapesOrdered'
<1> DEFINE bytes == Bytes(k, k \notin held)
<1>1. /\ Ahead' = Ahead + Len(bytes)
      /\ \A i \in 1 .. Ahead + Len(bytes) :
           Pending(i)' = IF i <= Ahead THEN Pending(i) ELSE bytes[i - Ahead]
  BY StrokePending
<1>2. /\ Len(bytes) \in {1, 2} /\ Len(bytes) = Len(Codes(k, k \notin held))
      /\ \A i \in 1 .. Len(bytes) :
           /\ bytes[i].code = Codes(k, k \notin held)[i]
           /\ bytes[i].follower <=> i > 1 /\ Codes(k, k \notin held)[1] = "ESCAPE"
  BY StrokeBytes
<1> HIDE DEF bytes
<1>3. Codes(k, k \notin held)[Len(bytes)] # "ESCAPE"
  <2>1. BaseCode(k, k \notin held) # "ESCAPE"
    BY DEF BaseCode
  <2>2. CASE k = "caps"
    <3>1. Codes(k, k \notin held) = <<"CAPS_LOCK_PART1", "CAPS_LOCK_PART2">>
      BY <2>2 DEF Codes
    <3> QED BY <1>2, <3>1
  <2>3. CASE k \in {"rctrl", "altgr", "arrow"}
    <3>1. Codes(k, k \notin held) = <<"ESCAPE", BaseCode(k, k \notin held)>>
      BY <2>3 DEF Codes
    <3> QED BY <1>2, <2>1, <3>1
  <2>4. CASE k \notin {"caps", "rctrl", "altgr", "arrow"}
    <3>1. Codes(k, k \notin held) = <<BaseCode(k, k \notin held)>>
      BY <2>4 DEF Codes
    <3> QED BY <1>2, <2>1, <3>1
  <2> QED BY <2>2, <2>3, <2>4
<1>4. Ahead \in Nat
  BY PendingBytes
<1>5. last' = last /\ lost' = lost
  BY DEF stroke
<1> SUFFICES ASSUME ~lost
             PROVE  /\ \A i \in 1 .. Ahead' : Pending(i)'.follower <=> EscapeBefore(i - 1)'
                    /\ ~EscapeBefore(Ahead)'
  BY <1>5 DEF EscapesOrdered, EscapeBefore
<1>6. /\ \A i \in 1 .. Ahead : Pending(i).follower <=> EscapeBefore(i - 1)
      /\ ~EscapeBefore(Ahead)
  BY DEF EscapesOrdered
<1>7. ASSUME NEW i \in 0 .. Ahead PROVE EscapeBefore(i)' <=> EscapeBefore(i)
  <2>1. CASE i = 0
    BY <1>5, <2>1 DEF EscapeBefore
  <2>2. CASE i # 0
    <3>1. i \in 1 .. Ahead + Len(bytes) /\ i <= Ahead
      BY <1>2, <1>4, <2>2
    <3>2. Pending(i)' = Pending(i)
      BY <1>1, <3>1
    <3> QED BY <2>2, <3>2 DEF EscapeBefore
  <2> QED BY <2>1, <2>2
<1> PICK n \in Nat : n = Ahead
  BY <1>4
<1>8. ASSUME NEW i \in 1 .. Len(bytes)
      PROVE  EscapeBefore(n + i)' <=> bytes[i].code = "ESCAPE"
  <2>1. n + i \in 1 .. Ahead + Len(bytes) /\ ~(n + i <= Ahead) /\ n + i # 0
    BY <1>2, <1>4
  <2>2. n + i - Ahead = i
    BY <1>2, <1>4
  <2>3. Pending(n + i)' = bytes[i]
    BY <1>1, <2>1, <2>2
  <2> QED BY <2>1, <2>3 DEF EscapeBefore
<1>9. ASSUME NEW i \in 1 .. Ahead' PROVE Pending(i)'.follower <=> EscapeBefore(i - 1)'
  <2>1. CASE i <= Ahead
    <3>1. i \in 1 .. Ahead /\ i - 1 \in 0 .. Ahead
      BY <1>4, <2>1
    <3>2. Pending(i)' = Pending(i)
      BY <1>1, <2>1
    <3> QED BY <1>6, <1>7, <3>1, <3>2
  <2>2. CASE i = Ahead + 1
    <3>1. ~(i <= Ahead) /\ i - Ahead = 1 /\ i - 1 = Ahead /\ Ahead \in 0 .. Ahead
      BY <1>4, <2>2
    <3>2. Pending(i)' = bytes[1] /\ ~bytes[1].follower
      BY <1>1, <1>2, <3>1
    <3>3. EscapeBefore(i - 1)' <=> EscapeBefore(Ahead)
      BY <1>7, <3>1
    <3> QED BY <1>6, <3>2, <3>3
  <2>3. CASE i > Ahead + 1
    <3>1. Len(bytes) = 2 /\ i = Ahead + 2
      <4>1. (Len(bytes) = 1 /\ Ahead' = Ahead + 1) \/ (Len(bytes) = 2 /\ Ahead' = Ahead + 2)
        BY <1>1, <1>2
      <4>2. Ahead' \in Nat
        BY <1>4, <4>1
      <4>3. i \in Nat /\ i <= Ahead'
        BY <4>2
      <4> QED BY <1>4, <2>3, <4>1, <4>3
    <3>2. ~(i <= Ahead) /\ i - Ahead = 2 /\ i - 1 = Ahead + 1
      BY <1>4, <3>1
    <3>3. Pending(i)' = bytes[2]
      BY <1>1, <3>2
    <3>4. bytes[2].follower <=> bytes[1].code = "ESCAPE"
      BY <1>2, <3>1
    <3>5. EscapeBefore(i - 1)' <=> bytes[1].code = "ESCAPE"
      <4>1. 1 \in 1 .. Len(bytes) /\ i - 1 = n + 1
        BY <3>1, <3>2
      <4> QED BY <1>8, <4>1
    <3> QED BY <3>3, <3>4, <3>5
  <2> QED BY <1>4, <2>1, <2>2, <2>3
<1>10. ~EscapeBefore(Ahead)'
  <2>1. Len(bytes) \in 1 .. Len(bytes)
    BY <1>2
  <2>2. PICK m \in 1 .. Len(bytes) : m = Len(bytes)
    BY <2>1
  <2>3. ~(EscapeBefore(n + m)')
    BY <1>2, <1>3, <1>8, <2>2
  <2> QED BY <1>1, <2>2, <2>3 DEF EscapeBefore
<1> QED BY <1>9, <1>10

LEMMA EscapesTaken ==
  ASSUME BytesTyped, EscapeSeen, EscapesOrdered, get_next_key
  PROVE  EscapeSeen' /\ EscapesOrdered'
<1> DEFINE b == Head(queue)
<1>1. /\ queue # << >> /\ queue' = Tail(queue) /\ wire' = wire /\ lost' = lost
      /\ DecodeEscape(b.code) /\ Remember(b.code)
  BY DEF get_next_key, hwVars
<1>2. /\ Ahead \in Nat \ {0} /\ Ahead' = Ahead - 1 /\ Pending(1) = b
      /\ \A i \in 1 .. Ahead' : Pending(i)' = Pending(i + 1)
  BY <1>1, TakenPending
<1> HIDE DEF b
<1>3. EscapeSeen'
  BY <1>1 DEF EscapeSeen, DecodeEscape, Remember
<1>4. last' \in {"escape", "polled"} <=> b.code = "ESCAPE"
  BY <1>1 DEF Remember
<1>5. ASSUME NEW i \in 0 .. Ahead' PROVE EscapeBefore(i)' <=> EscapeBefore(i + 1)
  <2>1. CASE i = 0
    <3>1. EscapeBefore(i + 1) <=> Pending(1).code = "ESCAPE"
      BY <2>1 DEF EscapeBefore
    <3> QED BY <1>2, <1>4, <2>1, <3>1 DEF EscapeBefore
  <2>2. CASE i # 0
    <3>1. i \in 1 .. Ahead' /\ i + 1 # 0
      BY <1>2, <2>2
    <3> QED BY <1>2, <2>2, <3>1 DEF EscapeBefore
  <2> QED BY <2>1, <2>2
<1> SUFFICES ASSUME ~lost PROVE EscapesOrdered'
  BY <1>1, <1>3 DEF EscapesOrdered
<1>6. /\ \A i \in 1 .. Ahead : Pending(i).follower <=> EscapeBefore(i - 1)
      /\ ~EscapeBefore(Ahead)
  BY DEF EscapesOrdered
<1>7. ASSUME NEW i \in 1 .. Ahead' PROVE Pending(i)'.follower <=> EscapeBefore(i - 1)'
  <2>1. i + 1 \in 1 .. Ahead /\ i - 1 \in 0 .. Ahead' /\ (i - 1) + 1 = i /\ (i + 1) - 1 = i
    BY <1>2
  <2>2. Pending(i)' = Pending(i + 1)
    BY <1>2
  <2>3. Pending(i + 1).follower <=> EscapeBefore(i)
    BY <1>6, <2>1
  <2>4. EscapeBefore(i - 1)' <=> EscapeBefore(i)
    BY <1>5, <2>1
  <2> QED BY <2>2, <2>3, <2>4
<1>8. ~EscapeBefore(Ahead)'
  <2>1. Ahead' \in 0 .. Ahead' /\ Ahead' + 1 = Ahead
    BY <1>2
  <2>2. PICK n \in 0 .. Ahead' : n = Ahead'
    BY <2>1
  <2>3. EscapeBefore(n)' <=> EscapeBefore(n + 1)
    BY <1>5
  <2> QED BY <1>6, <2>1, <2>2, <2>3 DEF EscapeBefore
<1> QED BY <1>7, <1>8 DEF EscapesOrdered, EscapeBefore

LEMMA EscapesKept ==
  ASSUME EscapesOrdered, Ahead \in Nat, Ahead' = Ahead,
         \A i \in 1 .. Ahead : Pending(i)' = Pending(i), lost' = lost,
         last' \in {"escape", "polled"} <=> last \in {"escape", "polled"}
  PROVE  EscapesOrdered'
<1>1. ASSUME NEW i \in 0 .. Ahead PROVE EscapeBefore(i)' <=> EscapeBefore(i)
  <2>1. CASE i = 0
    BY <2>1 DEF EscapeBefore
  <2>2. CASE i # 0
    <3>1. i \in 1 .. Ahead
      BY <2>2
    <3> QED BY <2>2, <3>1 DEF EscapeBefore
  <2> QED BY <2>1, <2>2
<1> SUFFICES ASSUME ~lost PROVE EscapesOrdered'
  BY DEF EscapesOrdered
<1>2. /\ \A i \in 1 .. Ahead : Pending(i).follower <=> EscapeBefore(i - 1)
      /\ ~EscapeBefore(Ahead)
  BY DEF EscapesOrdered
<1>3. ASSUME NEW i \in 1 .. Ahead' PROVE Pending(i)'.follower <=> EscapeBefore(i - 1)'
  <2>1. i \in 1 .. Ahead /\ i - 1 \in 0 .. Ahead
    OBVIOUS
  <2> QED BY <1>1, <1>2, <2>1
<1>4. ~EscapeBefore(Ahead)'
  <2>1. Ahead \in 0 .. Ahead
    OBVIOUS
  <2>2. PICK n \in 0 .. Ahead : n = Ahead
    BY <2>1
  <2>3. EscapeBefore(n)' <=> EscapeBefore(n)
    BY <1>1
  <2> QED BY <1>2, <2>2, <2>3 DEF EscapeBefore
<1> QED BY <1>3, <1>4 DEF EscapesOrdered, EscapeBefore

-----------------------------------------------------------------------------
(* The invariant, action by action. *)
LEMMA InitKeyboard == KeyInit => KeyboardInv
<1> SUFFICES ASSUME KeyInit PROVE KeyboardInv
  OBVIOUS
<1>1. wire = << >> /\ queue = << >> /\ held = {} /\ caps_on = FALSE
  BY DEF KeyInit
<1>2. Ahead = 0
  BY <1>1 DEF Ahead
<1>3. \A i \in 1 .. Ahead : FALSE
  BY <1>2
<1>4. BytesTyped
  <2>1. wire \in Seq(Byte) /\ queue \in Seq(Byte)
    BY <1>1
  <2> QED BY <2>1 DEF KeyInit, BytesTyped, Lasts
<1>5. CodesOwned
  BY <1>3 DEF CodesOwned
<1>6. Replay
  <2>1. PICK s \in [Nat -> Flags] : \A i \in Nat : s[i] = Meant
    <3>1. Meant \in Flags
      BY <1>4, FlagsTyped
    <3>2. [i \in Nat |-> Meant] \in [Nat -> Flags] /\ \A i \in Nat : [j \in Nat |-> Meant][i] = Meant
      BY <3>1
    <3> QED BY <3>2
  <2>2. Decodes(s)
    BY <1>2, <1>3, <2>1 DEF Decodes
  <2>3. StartsNow(s)
    <3>1. s[0] = Meant
      BY <2>1
    <3>2. Meant \in Flags
      BY <1>4, FlagsTyped
    <3>3. ~Meant.left /\ ~Meant.right /\ ~Meant.caps /\ ~Meant.ignore /\ ~Meant.gr
      BY <1>1, MeantFields
    <3>4. /\ Meant.left = FALSE /\ Meant.right = FALSE /\ Meant.caps = FALSE
          /\ Meant.ignore = FALSE /\ Meant.gr = FALSE
      BY <3>2, <3>3 DEF Flags
    <3> QED BY <3>1, <3>4 DEF StartsNow, KeyInit
  <2> QED BY <2>2, <2>3 DEF Replay
<1>7. DecodedAsTyped
  BY DEF KeyInit, DecodedAsTyped, NoKey
<1>8. /\ LastSays("lshift", "LEFT_SHIFT_PRESSED", "LEFT_SHIFT_RELEASED", left_shift_state)
      /\ LastSays("rshift", "RIGHT_SHIFT_PRESSED", "RIGHT_SHIFT_RELEASED", right_shift_state)
  BY <1>1, <1>3 DEF LastSays, KeyInit
<1>9. EscapeSeen /\ EscapesOrdered
  BY <1>2, <1>3 DEF KeyInit, EscapeSeen, EscapesOrdered, EscapeBefore
<1> QED BY <1>4, <1>5, <1>6, <1>7, <1>8, <1>9 DEF KeyboardInv

LEMMA StrokeKeyboard ==
  ASSUME KeyboardInv, NEW k \in Key, stroke(k)
  PROVE  KeyboardInv'
<1> USE DEF KeyboardInv
<1> DEFINE bytes == Bytes(k, k \notin held)
<1>1. /\ wire' = bytes /\ queue' = queue /\ out' = out /\ lost' = lost /\ astray' = astray
      /\ last' = last
      /\ left_shift_state' = left_shift_state /\ right_shift_state' = right_shift_state
      /\ UNCHANGED <<caps_lock_state, caps_lock_ignore_one, alt_gr_state, escaped>>
      /\ caps_on' = IF k = "caps" /\ k \notin held THEN ~caps_on ELSE caps_on
  BY DEF stroke, shiftVars, altVars
<1>2. /\ bytes \in Seq(Byte) /\ Len(bytes) \in {1, 2} /\ Len(bytes) = Len(Codes(k, k \notin held))
      /\ \A i \in 1 .. Len(bytes) : bytes[i].code = Codes(k, k \notin held)[i] /\ bytes[i].key = k
  BY StrokeBytes
<1>3. /\ Ahead' = Ahead + Len(bytes)
      /\ \A i \in 1 .. Ahead + Len(bytes) :
           Pending(i)' = IF i <= Ahead THEN Pending(i) ELSE bytes[i - Ahead]
  BY StrokePending
<1> HIDE DEF bytes
<1>4. Ahead \in Nat
  BY PendingBytes
<1>5. BytesTyped'
  <2>1. caps_on' \in BOOLEAN
    BY <1>1 DEF BytesTyped
  <2>2. wire' \in Seq(Byte) /\ queue' \in Seq(Byte)
    BY <1>1, <1>2 DEF BytesTyped
  <2> QED BY <1>1, <2>1, <2>2 DEF BytesTyped
<1>6. CodesOwned'
  <2>1. \A i \in 1 .. Len(bytes) :
          /\ bytes[i].code \in {"LEFT_SHIFT_PRESSED", "LEFT_SHIFT_RELEASED"} => k = "lshift"
          /\ bytes[i].code \in {"RIGHT_SHIFT_PRESSED", "RIGHT_SHIFT_RELEASED"} => k = "rshift"
    <3>1. \A d : BaseCode(k, d) \in {"LEFT_SHIFT_PRESSED", "LEFT_SHIFT_RELEASED"} => k = "lshift"
      BY DEF BaseCode
    <3>2. \A d : BaseCode(k, d) \in {"RIGHT_SHIFT_PRESSED", "RIGHT_SHIFT_RELEASED"} => k = "rshift"
      BY DEF BaseCode
    <3>3. ASSUME NEW i \in 1 .. Len(bytes)
          PROVE  bytes[i].code \in {"CAPS_LOCK_PART1", "CAPS_LOCK_PART2", "ESCAPE",
                                    BaseCode(k, k \notin held)}
      <4>1. i = 1 \/ i = 2
        BY <1>2
      <4>2. CASE k = "caps"
        <5>1. Codes(k, k \notin held) = <<"CAPS_LOCK_PART1", "CAPS_LOCK_PART2">>
          BY <4>2 DEF Codes
        <5> QED BY <1>2, <4>1, <5>1
      <4>3. CASE k \in {"rctrl", "altgr", "arrow"}
        <5>1. Codes(k, k \notin held) = <<"ESCAPE", BaseCode(k, k \notin held)>>
          BY <4>3 DEF Codes
        <5> QED BY <1>2, <4>1, <5>1
      <4>4. CASE k \notin {"caps", "rctrl", "altgr", "arrow"}
        <5>1. Codes(k, k \notin held) = <<BaseCode(k, k \notin held)>>
          BY <4>4 DEF Codes
        <5>2. Len(bytes) = 1
          BY <1>2, <5>1
        <5>3. i = 1
          BY <4>1, <5>2
        <5> QED BY <1>2, <5>1, <5>3
      <4> QED BY <4>2, <4>3, <4>4
    <3> QED BY <3>1, <3>2, <3>3
  <2>2. ASSUME NEW i \in 1 .. Ahead'
        PROVE  /\ Pending(i)'.code \in {"LEFT_SHIFT_PRESSED", "LEFT_SHIFT_RELEASED"}
                    => Pending(i)'.key = "lshift"
               /\ Pending(i)'.code \in {"RIGHT_SHIFT_PRESSED", "RIGHT_SHIFT_RELEASED"}
                    => Pending(i)'.key = "rshift"
    <3>1. CASE i <= Ahead
      <4>1. i \in 1 .. Ahead
        BY <1>4, <3>1
      <4>2. Pending(i)' = Pending(i)
        BY <1>3, <3>1
      <4> QED BY <4>1, <4>2 DEF CodesOwned
    <3>2. CASE ~(i <= Ahead)
      <4>1. i - Ahead \in 1 .. Len(bytes)
        BY <1>2, <1>3, <1>4, <3>2
      <4>2. Pending(i)' = bytes[i - Ahead]
        BY <1>3, <3>2
      <4> QED BY <1>2, <2>1, <4>1, <4>2
    <3> QED BY <3>1, <3>2
  <2> QED BY <2>2 DEF CodesOwned
<1>7. Replay'
  BY ReplayStroke
<1>8. DecodedAsTyped'
  BY <1>1 DEF DecodedAsTyped
<1>9. LastSays("lshift", "LEFT_SHIFT_PRESSED", "LEFT_SHIFT_RELEASED", left_shift_state)'
  <2>1. ASSUME NEW x, x = left_shift_state
        PROVE  LastSays("lshift", "LEFT_SHIFT_PRESSED", "LEFT_SHIFT_RELEASED", x)'
    <3>1. CASE k = "lshift"
      <4>1. Codes(k, k \notin held)
              = <<IF k \notin held THEN "LEFT_SHIFT_PRESSED" ELSE "LEFT_SHIFT_RELEASED">>
        BY <3>1 DEF Codes, BaseCode
      <4> QED BY <3>1, <4>1, SaysStroke
    <3>2. CASE k # "lshift"
      <4>1. LastSays("lshift", "LEFT_SHIFT_PRESSED", "LEFT_SHIFT_RELEASED", x)
        BY <2>1
      <4> QED BY <3>2, <4>1, SaysStrokeOther
    <3> QED BY <3>1, <3>2
  <2>2. PICK x : x = left_shift_state
    OBVIOUS
  <2> QED BY <1>1, <2>1, <2>2 DEF LastSays
<1>10. LastSays("rshift", "RIGHT_SHIFT_PRESSED", "RIGHT_SHIFT_RELEASED", right_shift_state)'
  <2>1. ASSUME NEW x, x = right_shift_state
        PROVE  LastSays("rshift", "RIGHT_SHIFT_PRESSED", "RIGHT_SHIFT_RELEASED", x)'
    <3>1. CASE k = "rshift"
      <4>1. Codes(k, k \notin held)
              = <<IF k \notin held THEN "RIGHT_SHIFT_PRESSED" ELSE "RIGHT_SHIFT_RELEASED">>
        BY <3>1 DEF Codes, BaseCode
      <4> QED BY <3>1, <4>1, SaysStroke
    <3>2. CASE k # "rshift"
      <4>1. LastSays("rshift", "RIGHT_SHIFT_PRESSED", "RIGHT_SHIFT_RELEASED", x)
        BY <2>1
      <4> QED BY <3>2, <4>1, SaysStrokeOther
    <3> QED BY <3>1, <3>2
  <2>2. PICK x : x = right_shift_state
    OBVIOUS
  <2> QED BY <1>1, <2>1, <2>2 DEF LastSays
<1>11. EscapeSeen' /\ EscapesOrdered'
  <2>1. EscapeSeen'
    BY <1>1 DEF EscapeSeen
  <2> QED BY <2>1, EscapesStroke
<1> QED BY <1>5, <1>6, <1>7, <1>8, <1>9, <1>10, <1>11

LEMMA InterruptKeyboard ==
  ASSUME KeyboardInv, handle_interrupt
  PROVE  KeyboardInv'
<1> USE DEF KeyboardInv
<1>1. /\ wire # << >> /\ wire' = Tail(wire) /\ held' = held /\ caps_on' = caps_on
      /\ astray' = astray /\ last' = last /\ out' = out
      /\ left_shift_state' = left_shift_state /\ right_shift_state' = right_shift_state
      /\ UNCHANGED <<caps_lock_state, caps_lock_ignore_one, alt_gr_state, escaped>>
  BY DEF handle_interrupt, shiftVars, altVars
<1>2. /\ Head(wire) \in Byte /\ Tail(wire) \in Seq(Byte)
      /\ Append(queue, Head(wire)) \in Seq(Byte) /\ Ahead \in Nat
  BY <1>1, PendingBytes DEF BytesTyped
<1>3. CASE queue' = Append(queue, Head(wire)) /\ missed' = missed /\ lost' = lost
  <2>1. Ahead' = Ahead /\ \A i \in 1 .. Ahead : Pending(i)' = Pending(i)
    BY <1>1, <1>3, StoredPending
  <2>2. BytesTyped'
    BY <1>1, <1>2, <1>3 DEF BytesTyped
  <2>3. CodesOwned'
    BY <2>1 DEF CodesOwned
  <2>4. Replay'
    BY <1>1, <1>3, <2>1, ReplayKept
  <2>5. DecodedAsTyped'
    BY <1>1, <1>3 DEF DecodedAsTyped
  <2>6. LastSays("lshift", "LEFT_SHIFT_PRESSED", "LEFT_SHIFT_RELEASED", left_shift_state)'
    <3>1. PICK x : x = left_shift_state
      OBVIOUS
    <3>2. LastSays("lshift", "LEFT_SHIFT_PRESSED", "LEFT_SHIFT_RELEASED", x)'
      BY <1>1, <1>2, <1>3, <2>1, <3>1, SaysStored
    <3> QED BY <1>1, <3>1, <3>2 DEF LastSays
  <2>7. LastSays("rshift", "RIGHT_SHIFT_PRESSED", "RIGHT_SHIFT_RELEASED", right_shift_state)'
    <3>1. PICK x : x = right_shift_state
      OBVIOUS
    <3>2. LastSays("rshift", "RIGHT_SHIFT_PRESSED", "RIGHT_SHIFT_RELEASED", x)'
      BY <1>1, <1>2, <1>3, <2>1, <3>1, SaysStored
    <3> QED BY <1>1, <3>1, <3>2 DEF LastSays
  <2>8. EscapeSeen' /\ EscapesOrdered'
    <3>1. EscapeSeen'
      BY <1>1 DEF EscapeSeen
    <3> QED BY <1>1, <1>2, <1>3, <2>1, <3>1, EscapesKept
  <2> QED BY <2>2, <2>3, <2>4, <2>5, <2>6, <2>7, <2>8
<1>4. CASE missed' = missed \cup {Head(wire).key} /\ lost' = TRUE /\ queue' = queue
  <2>1. /\ Ahead' = Ahead - 1 /\ Ahead \in Nat /\ Len(queue) + 1 \in 1 .. Ahead
        /\ Pending(Len(queue) + 1) = Head(wire)
        /\ \A i \in 1 .. Ahead' :
             Pending(i)' = IF i <= Len(queue) THEN Pending(i) ELSE Pending(i + 1)
    BY <1>1, <1>4, DroppedPending
  <2>2. BytesTyped'
    BY <1>1, <1>2, <1>4 DEF BytesTyped
  <2>3. CodesOwned'
    <3>1. ASSUME NEW i \in 1 .. Ahead' PROVE \E n \in 1 .. Ahead : Pending(i)' = Pending(n)
      <4>1. i \in 1 .. Ahead /\ i + 1 \in 1 .. Ahead
        BY <2>1
      <4> QED BY <2>1, <4>1
    <3> QED BY <3>1 DEF CodesOwned
  <2>4. Replay' /\ DecodedAsTyped'
    BY <1>4 DEF Replay, DecodedAsTyped
  <2>5. PICK q \in Nat : q = Len(queue)
    BY DEF BytesTyped
  <2>6. /\ q + 1 \in 1 .. Ahead /\ missed' = missed \cup {Pending(q + 1).key}
        /\ \A i \in 1 .. Ahead' : Pending(i)' = IF i <= q THEN Pending(i) ELSE Pending(i + 1)
    BY <1>4, <2>1, <2>5
  <2>7. LastSays("lshift", "LEFT_SHIFT_PRESSED", "LEFT_SHIFT_RELEASED", left_shift_state)'
    <3>1. PICK x : x = left_shift_state
      OBVIOUS
    <3>2. LastSays("lshift", "LEFT_SHIFT_PRESSED", "LEFT_SHIFT_RELEASED", x)'
      BY <1>1, <2>1, <2>6, <3>1, SaysDropped
    <3> QED BY <1>1, <3>1, <3>2 DEF LastSays
  <2>8. LastSays("rshift", "RIGHT_SHIFT_PRESSED", "RIGHT_SHIFT_RELEASED", right_shift_state)'
    <3>1. PICK x : x = right_shift_state
      OBVIOUS
    <3>2. LastSays("rshift", "RIGHT_SHIFT_PRESSED", "RIGHT_SHIFT_RELEASED", x)'
      BY <1>1, <2>1, <2>6, <3>1, SaysDropped
    <3> QED BY <1>1, <3>1, <3>2 DEF LastSays
  <2>9. EscapeSeen' /\ EscapesOrdered'
    BY <1>1, <1>4 DEF EscapeSeen, EscapesOrdered
  <2> QED BY <2>2, <2>3, <2>4, <2>7, <2>8, <2>9
<1> QED BY <1>3, <1>4 DEF handle_interrupt

LEMMA TakeKeyboard ==
  ASSUME KeyboardInv, get_next_key
  PROVE  KeyboardInv'
<1> USE DEF KeyboardInv
<1> DEFINE b == Head(queue)
<1>1. /\ queue # << >> /\ queue' = Tail(queue) /\ wire' = wire /\ held' = held
      /\ missed' = missed /\ caps_on' = caps_on /\ lost' = lost
      /\ DecodeShift(b.code) /\ DecodeCaps(b.code) /\ DecodeAlt(b.code) /\ DecodeEscape(b.code)
      /\ Remember(b.code)
  BY DEF get_next_key, hwVars
<1>2. /\ Ahead \in Nat \ {0} /\ Ahead' = Ahead - 1 /\ Pending(1) = b /\ b \in Byte
      /\ \A i \in 1 .. Ahead' : Pending(i)' = Pending(i + 1)
  BY <1>1, TakenPending
<1>3. BytesTyped'
  <2>1. wire' \in Seq(Byte) /\ queue' \in Seq(Byte)
    BY <1>1 DEF BytesTyped
  <2>2. left_shift_state' \in BOOLEAN /\ right_shift_state' \in BOOLEAN
    BY <1>1 DEF BytesTyped, DecodeShift
  <2>3. caps_lock_state' \in BOOLEAN /\ caps_lock_ignore_one' \in BOOLEAN
    BY <1>1 DEF BytesTyped, DecodeCaps
  <2>4. alt_gr_state' \in BOOLEAN
    BY <1>1 DEF BytesTyped, DecodeAlt
  <2>5. escaped' \in BOOLEAN
    BY <1>1 DEF BytesTyped, DecodeEscape
  <2>6. /\ astray' \in BOOLEAN /\ lost' \in BOOLEAN /\ caps_on' \in BOOLEAN
        /\ last' \in Lasts
    BY <1>1 DEF BytesTyped, Remember, Lasts
  <2> QED BY <2>1, <2>2, <2>3, <2>4, <2>5, <2>6 DEF BytesTyped
<1>4. CodesOwned'
  <2>1. ASSUME NEW i \in 1 .. Ahead' PROVE \E n \in 1 .. Ahead : Pending(i)' = Pending(n)
    <3>1. i + 1 \in 1 .. Ahead
      BY <1>2
    <3> QED BY <1>2, <3>1
  <2> QED BY <2>1 DEF CodesOwned
<1>5. Replay'
  BY ReplayTaken
<1>6. DecodedAsTyped'
  BY DecodedTaken
<1>7. /\ b.code \in {"LEFT_SHIFT_PRESSED", "LEFT_SHIFT_RELEASED"} => b.key = "lshift"
      /\ b.code \in {"RIGHT_SHIFT_PRESSED", "RIGHT_SHIFT_RELEASED"} => b.key = "rshift"
  <2>1. 1 \in 1 .. Ahead
    BY <1>2
  <2> QED BY <1>2, <2>1 DEF CodesOwned
<1>8. LastSays("lshift", "LEFT_SHIFT_PRESSED", "LEFT_SHIFT_RELEASED", left_shift_state)'
  <2>1. PICK x, y : x = left_shift_state /\ y = left_shift_state'
    OBVIOUS
  <2>2. /\ Pending(1).code = "LEFT_SHIFT_PRESSED" => y
        /\ Pending(1).code = "LEFT_SHIFT_RELEASED" => ~y
        /\ Pending(1).key # "lshift" => (y <=> x)
    BY <1>1, <1>2, <1>7, <2>1 DEF DecodeShift
  <2>3. LastSays("lshift", "LEFT_SHIFT_PRESSED", "LEFT_SHIFT_RELEASED", x)
    BY <2>1
  <2>4. LastSays("lshift", "LEFT_SHIFT_PRESSED", "LEFT_SHIFT_RELEASED", y)'
    BY <1>1, <1>2, <2>2, <2>3, SaysTaken
  <2> QED BY <2>1, <2>4 DEF LastSays
<1>9. LastSays("rshift", "RIGHT_SHIFT_PRESSED", "RIGHT_SHIFT_RELEASED", right_shift_state)'
  <2>1. PICK x, y : x = right_shift_state /\ y = right_shift_state'
    OBVIOUS
  <2>2. /\ Pending(1).code = "RIGHT_SHIFT_PRESSED" => y
        /\ Pending(1).code = "RIGHT_SHIFT_RELEASED" => ~y
        /\ Pending(1).key # "rshift" => (y <=> x)
    BY <1>1, <1>2, <1>7, <2>1 DEF DecodeShift
  <2>3. LastSays("rshift", "RIGHT_SHIFT_PRESSED", "RIGHT_SHIFT_RELEASED", x)
    BY <2>1
  <2>4. LastSays("rshift", "RIGHT_SHIFT_PRESSED", "RIGHT_SHIFT_RELEASED", y)'
    BY <1>1, <1>2, <2>2, <2>3, SaysTaken
  <2> QED BY <2>1, <2>4 DEF LastSays
<1>10. EscapeSeen' /\ EscapesOrdered'
  BY EscapesTaken
<1> QED BY <1>3, <1>4, <1>5, <1>6, <1>8, <1>9, <1>10

LEMMA EmptyKeyboard ==
  ASSUME KeyboardInv, get_next_key_empty
  PROVE  KeyboardInv'
<1> USE DEF KeyboardInv
<1>1. /\ queue' = queue /\ wire' = wire /\ held' = held /\ missed' = missed
      /\ caps_on' = caps_on /\ lost' = lost /\ out' = NoKey
      /\ left_shift_state' = left_shift_state /\ right_shift_state' = right_shift_state
      /\ UNCHANGED <<caps_lock_state, caps_lock_ignore_one, alt_gr_state>>
      /\ astray' = astray /\ escaped' = FALSE
      /\ last' = IF last \in {"escape", "polled"} THEN "polled" ELSE "other"
  BY DEF get_next_key_empty, hwVars, shiftVars, DecodeEscape
<1>2. BytesTyped'
  BY <1>1 DEF BytesTyped, Lasts
<1>3. Ahead' = Ahead /\ \A i \in 1 .. Ahead : Pending(i)' = Pending(i)
  BY <1>1 DEF Ahead, Pending
<1>4. CodesOwned'
  BY <1>3 DEF CodesOwned
<1>5. Replay'
  BY <1>1, <1>3, ReplayKept
<1>6. DecodedAsTyped'
  BY <1>1 DEF DecodedAsTyped, NoKey
<1>7. Ahead \in Nat
  BY PendingBytes
<1>8. LastSays("lshift", "LEFT_SHIFT_PRESSED", "LEFT_SHIFT_RELEASED", left_shift_state)'
  <2>1. PICK x : x = left_shift_state
    OBVIOUS
  <2>2. LastSays("lshift", "LEFT_SHIFT_PRESSED", "LEFT_SHIFT_RELEASED", x)'
    BY <1>1, <1>3, <1>7, <2>1, SaysStored
  <2> QED BY <1>1, <2>1, <2>2 DEF LastSays
<1>9. LastSays("rshift", "RIGHT_SHIFT_PRESSED", "RIGHT_SHIFT_RELEASED", right_shift_state)'
  <2>1. PICK x : x = right_shift_state
    OBVIOUS
  <2>2. LastSays("rshift", "RIGHT_SHIFT_PRESSED", "RIGHT_SHIFT_RELEASED", x)'
    BY <1>1, <1>3, <1>7, <2>1, SaysStored
  <2> QED BY <1>1, <2>1, <2>2 DEF LastSays
<1>10. EscapeSeen' /\ EscapesOrdered'
  <2>1. EscapeSeen'
    BY <1>1 DEF EscapeSeen
  <2>2. last' \in {"escape", "polled"} <=> last \in {"escape", "polled"}
    BY <1>1
  <2> QED BY <1>1, <1>3, <1>7, <2>1, <2>2, EscapesKept
<1> QED BY <1>2, <1>4, <1>5, <1>6, <1>8, <1>9, <1>10

LEMMA SameKeyboard ==
  ASSUME KeyboardInv, UNCHANGED keyVars
  PROVE  KeyboardInv'
<1> USE DEF KeyboardInv
<1>1. UNCHANGED <<queue, wire, held, missed, caps_on, lost, out, last, astray, left_shift_state,
                  right_shift_state, caps_lock_state, caps_lock_ignore_one, alt_gr_state, escaped>>
  BY DEF keyVars, hwVars, shiftVars, altVars, histVars
<1>2. BytesTyped'
  BY <1>1 DEF BytesTyped
<1>3. Ahead' = Ahead /\ \A i \in 1 .. Ahead : Pending(i)' = Pending(i)
  BY <1>1 DEF Ahead, Pending
<1>4. CodesOwned'
  BY <1>3 DEF CodesOwned
<1>5. Replay'
  BY <1>1, <1>3, ReplayKept
<1>6. DecodedAsTyped'
  BY <1>1 DEF DecodedAsTyped
<1>7. LastSays("lshift", "LEFT_SHIFT_PRESSED", "LEFT_SHIFT_RELEASED", left_shift_state)'
      /\ LastSays("rshift", "RIGHT_SHIFT_PRESSED", "RIGHT_SHIFT_RELEASED", right_shift_state)'
  BY <1>1 DEF LastSays, Ahead, Pending
<1>8. EscapeSeen' /\ EscapesOrdered'
  <2>1. EscapeSeen'
    BY <1>1 DEF EscapeSeen
  <2> QED BY <1>1, <1>3, <2>1, PendingBytes, EscapesKept
<1> QED BY <1>2, <1>4, <1>5, <1>6, <1>7, <1>8

(* The invariant behind the keyboard's properties holds: whatever is       *)
(* struck, dropped or polled, decoding the bytes that are left leads to    *)
(* the keys as they are, or a byte is known to be lost.                    *)
THEOREM KeyboardInvariant == KeySpec => []KeyboardInv
<1>1. KeyInit => KeyboardInv
  BY InitKeyboard
<1>2. KeyboardInv /\ [KeyNext]_keyVars => KeyboardInv'
  BY StrokeKeyboard, InterruptKeyboard, TakeKeyboard, EmptyKeyboard, SameKeyboard DEF KeyNext
<1> QED BY <1>1, <1>2, PTL DEF KeySpec

LEMMA NothingAhead ==
  ASSUME Drained
  PROVE  Ahead = 0 /\ \A i \in 1 .. Ahead : FALSE
<1>1. Ahead = 0
  BY DEF Drained, Ahead
<1> QED BY <1>1

(* Once everything is read the shift states are those of the keys, for     *)
(* every shift key whose last press or release was buffered, whatever      *)
(* push_event dropped before.                                              *)
THEOREM ShiftsFollow == KeySpec => []ShiftFollowsKey
<1>1. KeyboardInv => ShiftFollowsKey
  <2> SUFFICES ASSUME KeyboardInv, Drained
               PROVE  /\ "lshift" \in Key \ missed => (left_shift_state <=> "lshift" \in held)
                      /\ "rshift" \in Key \ missed => (right_shift_state <=> "rshift" \in held)
    BY DEF ShiftFollowsKey
  <2> QED BY NothingAhead DEF KeyboardInv, LastSays
<1> QED BY <1>1, KeyboardInvariant, PTL

(* Once everything is read and nothing was dropped, caps lock stands as    *)
(* its presses left it, and get_next_key expects the first part of the     *)
(* right kind of stroke.                                                   *)
THEOREM CapsFollows == KeySpec => []CapsFollowsPresses
<1>1. KeyboardInv => CapsFollowsPresses
  <2> SUFFICES ASSUME KeyboardInv, Drained, ~lost
               PROVE  /\ caps_lock_state <=> caps_on
                      /\ caps_lock_ignore_one <=> "caps" \in held
    BY DEF CapsFollowsPresses
  <2>1. PICK s \in [Nat -> Flags] : StartsNow(s) /\ Decodes(s)
    BY DEF KeyboardInv, Replay
  <2>2. s[0] = Meant
    BY <2>1, NothingAhead DEF Decodes
  <2> QED BY <2>1, <2>2, MeantFields DEF StartsNow
<1> QED BY <1>1, KeyboardInvariant, PTL

(* A character is decoded in the column that was meant when its key was    *)
(* pressed, however long its byte waited in the buffer; where get_next_key *)
(* gets it wrong, an escaped key's release left its escape set, a call on  *)
(* an empty buffer forgot the escape, or an Alt code met one of these two. *)
THEOREM ColumnsAsTyped == KeySpec => []DecodedAsTyped
<1>1. KeyboardInv => DecodedAsTyped
  BY DEF KeyboardInv
<1> QED BY <1>1, KeyboardInvariant, PTL
=============================================================================
