---------------------------- MODULE MCInterrupts -----------------------------
(* The kernel, a kernel process that loads a program, and a user process   *)
(* that is started or forked; timer, keyboard and a disk whose line is     *)
(* masked; a page fault and another exception.                             *)
EXTENDS Interrupts
CONSTANTS k, init, p1
=============================================================================
