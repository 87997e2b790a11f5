-------------------------------- MODULE Timer --------------------------------
(***************************************************************************)
(* timer::ticks, its interrupt handler and the busy waiting timer::wait.   *)
(*                                                                         *)
(* ticks is a 64-bit counter on a 32-bit machine: the handler, which runs  *)
(* with interrupts off, advances it in one step, but wait reads it in two  *)
(* loads between which the interrupt may arrive.  The counter is modelled  *)
(* as two words of WordBits bits.  The order of the loads is the           *)
(* compiler's choice and is left open.                                     *)
(***************************************************************************)
EXTENDS TickMask

CONSTANTS WordBits,   \* width of a machine word (32 in the code)
          MaxTicks,   \* bound: interrupts the model delivers
          WaitTicks   \* the arguments wait is called with

ASSUME TimerAssumption ==
  /\ WordBits \in Nat
  /\ 2^WordBits \in Nat \ {0}
  /\ MaxTicks \in 0..(2^(2 * WordBits) - 1)
  /\ WaitTicks \in SUBSET Nat

VARIABLES lo, hi,     \* the two words of timer::ticks
          slice,      \* interrupts since the last rescheduling
          pc,         \* where wait is
          half,       \* the word loaded first, and its value
          until,      \* wait_until_ticks_reached
          asked,      \* wait_ticks of the call in progress
          waited      \* interrupts since the call

waitVars == <<pc, half, until, asked, waited>>
vars == <<lo, hi, slice, waitVars>>

Word == 2^WordBits
Ticks == hi * Word + lo

TypeOK ==
  /\ lo \in 0..(Word - 1)
  /\ hi \in 0..(Word - 1)
  /\ slice \in Nat
  /\ pc \in {"idle", "start", "start_2nd", "loop", "loop_2nd"}
  /\ half \in [word : {"lo", "hi"}, value : 0..(Word - 1)]
  /\ until \in Nat
  /\ asked \in {0} \cup WaitTicks
  /\ waited \in Nat

Init ==
  /\ lo = 0 /\ hi = 0 /\ slice = 0
  /\ pc = "idle"
  /\ half = [word |-> "lo", value |-> 0]
  /\ until = 0 /\ asked = 0 /\ waited = 0

(* ++ticks, and context_switch() when the mask test says so.               *)
timer_interrupt_handler ==
  /\ Ticks < MaxTicks
  /\ lo' = (Ticks + 1) % Word
  /\ hi' = (Ticks + 1) \div Word
  /\ slice' = IF Reschedules(Ticks + 1) THEN 0 ELSE slice + 1
  /\ waited' = IF pc = "idle" THEN 0 ELSE waited + 1
  /\ UNCHANGED <<pc, half, until, asked>>

wait(n) ==
  /\ pc = "idle"
  /\ pc' = "start"
  /\ asked' = n
  /\ waited' = 0
  /\ UNCHANGED <<lo, hi, slice, half, until>>

(* The first of the two loads of a read of ticks.                          *)
LoadFirst(from, to) ==
  /\ pc = from
  /\ pc' = to
  /\ \/ half' = [word |-> "lo", value |-> lo]
     \/ half' = [word |-> "hi", value |-> hi]
  /\ UNCHANGED <<lo, hi, slice, until, asked, waited>>

(* The value read once the other word is loaded.                           *)
ValueRead ==
  IF half.word = "lo" THEN hi * Word + half.value ELSE half.value * Word + lo

load_start == LoadFirst("start", "start_2nd")

(* Faulty variant: the deadline is one tick too early.                     *)
compute_until_short ==
  /\ pc = "start_2nd"
  /\ pc' = "loop"
  /\ until' = ValueRead + asked - 1
  /\ UNCHANGED <<lo, hi, slice, half, asked, waited>>

(* wait_until_ticks_reached = ticks + wait_ticks                           *)
compute_until ==
  /\ pc = "start_2nd"
  /\ pc' = "loop"
  /\ until' = ValueRead + asked
  /\ UNCHANGED <<lo, hi, slice, half, asked, waited>>

load_loop == LoadFirst("loop", "loop_2nd")

(* Faulty variant: the loop waits for the exact tick.                      *)
test_until_exact ==
  /\ pc = "loop_2nd"
  /\ pc' = IF ValueRead # until THEN "loop" ELSE "idle"
  /\ UNCHANGED <<lo, hi, slice, half, until, asked, waited>>

(* while ( ticks < wait_until_ticks_reached )                              *)
test_until ==
  /\ pc = "loop_2nd"
  /\ pc' = IF ValueRead < until THEN "loop" ELSE "idle"
  /\ UNCHANGED <<lo, hi, slice, half, until, asked, waited>>

Next ==
  \/ timer_interrupt_handler
  \/ \E n \in WaitTicks : wait(n)
  \/ load_start
  \/ compute_until
  \/ load_loop
  \/ test_until

Spec == Init /\ [][Next]_vars

(* The timer keeps firing and the waiting process keeps running.           *)
Fairness ==
  /\ WF_vars(timer_interrupt_handler)
  /\ WF_vars(load_start) /\ WF_vars(compute_until)
  /\ WF_vars(load_loop) /\ WF_vars(test_until)

FairSpec == Spec /\ Fairness
-----------------------------------------------------------------------------
(* Never more than ticks_between_reschedulings() interrupts in a row pass  *)
(* without a rescheduling: the mask test is an odd one, but the longest    *)
(* run of tick counts that share a bit with the mask is as long as the     *)
(* mask's value.                                                           *)
QuantumBounded == slice <= TicksBetweenReschedulings

(* A wait that starts and ends while the high word keeps its value waits   *)
(* for at least n ticks: the two loads can only disagree across a carry.   *)
(* until is taken after the call, so a wait may be longer, never shorter.  *)
WaitsLongEnoughWithoutCarry ==
  [][pc = "loop_2nd" /\ pc' = "idle" /\ waited <= lo => waited >= asked]_vars

(* wait returns once its deadline has passed, although the loop may be     *)
(* late by any number of ticks and torn reads may show it values before    *)
(* and behind the counter.  A deadline behind the last interrupt the model *)
(* delivers is left out.                                                   *)
WaitReturns == (pc = "loop" /\ until <= MaxTicks) ~> (pc = "idle")
=============================================================================
