------------------------------ MODULE TickMask ------------------------------
(***************************************************************************)
(* The test by which the timer interrupt decides to reschedule:            *)
(*   ( timer::ticks & ticks_between_reschedulings() ) == 0                 *)
(* It depends only on the low bits of timer::ticks that cover the mask.    *)
(***************************************************************************)
EXTENDS Integers

CONSTANTS TicksBetweenReschedulings,  \* round_robin::ticks_between_reschedulings()
          TickBits                    \* number of bits of that value

PowerOfTwo[b \in 0..TickBits] == IF b = 0 THEN 1 ELSE 2 * PowerOfTwo[b - 1]

ASSUME TickAssumption ==
  /\ TickBits \in Nat
  /\ PowerOfTwo[TickBits] \in Nat \ {0}
  /\ TicksBetweenReschedulings \in 0..(PowerOfTwo[TickBits] - 1)

Bit(n, b) == (n \div PowerOfTwo[b]) % 2

(* Faulty variant: the test never succeeds.                                *)
NeverReschedules(t) == FALSE

Reschedules(t) ==
  \A b \in 0..(TickBits - 1) : Bit(t, b) * Bit(TicksBetweenReschedulings, b) = 0
=============================================================================
