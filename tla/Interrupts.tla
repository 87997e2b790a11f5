----------------------------- MODULE Interrupts -----------------------------
(***************************************************************************)
(* Interrupt entry, dispatch and return, with the two 8259A controllers.   *)
(*                                                                         *)
(* Every interrupt reaches asm_isr_common_stuff, which saves a frame on    *)
(* the stack of the running process and calls dispatch_interrupt.  An      *)
(* interrupt gate switches interrupts off by itself; a trap gate leaves    *)
(* them on until the first instruction of the routine, so that a hardware  *)
(* interrupt may come in between.  dispatch_interrupt acknowledges a       *)
(* hardware interrupt BEFORE its handler runs: the timer's handler may     *)
(* switch to another process and return only when that one is switched     *)
(* away from.                                                              *)
(*                                                                         *)
(* The system call's handler follows pointers of the program's as they     *)
(* are, so a page fault may interrupt it: the exception's frame then lies  *)
(* on that of the system call.                                             *)
(*                                                                         *)
(* Processes other than Boot were started by new_process or by a fork.  A  *)
(* user process that runs for the first time enters user mode, which       *)
(* switches interrupts on.  A kernel process (run_in_kernel) stays as the  *)
(* timer's handler that switched to it left the processor, interrupts off, *)
(* until its load_init has loaded a program and jumped into it; when the   *)
(* load fails, it spins so for ever.                                       *)
(***************************************************************************)
EXTENDS Integers, Sequences, FiniteSets

CONSTANTS Process,     \* the processes of the scheduler's list
          Boot,        \* the one that runs first: the kernel itself
          KernelProcess,  \* those new_process starts with run_in_kernel
          Lines,       \* interrupt lines with a device that raises them
          Exceptions   \* numbers below 32 raised by the processor

ASSUME InterruptsAssumption ==
  /\ Boot \in Process
  /\ KernelProcess \subseteq Process \ {Boot}
  /\ Lines \subseteq 0..15
  /\ Exceptions \subseteq 0..31

VARIABLES pending,     \* lines whose request the controllers latched
          in_service,  \* lines accepted and not yet acknowledged
          flag,        \* the processor's interrupt flag
          running,     \* process on the processor
          fresh,       \* processes that have not run yet
          load,        \* where a process is in load_init, if it is there
          frames,      \* interrupt frames on every process's stack
          dead         \* die() was called

irqVars == <<pending, in_service, flag, running, fresh, load, frames, dead>>

SYSTEM_GATE == 128
timer_irq == 0
not_irq == -1
not_exp == -1

(* The two numbers isr_registers tells a cause by, how far its service is, *)
(* and the interrupt flag iret restores.                                   *)
Frame(irq, exception, stage) ==
  [irq |-> irq, exception |-> exception, stage |-> stage, flag |-> flag]

Top == frames[running][Len(frames[running])]
Below == SubSeq(frames[running], 1, Len(frames[running]) - 1)
InFrame(stage) == frames[running] # <<>> /\ Top.stage = stage
Push(frame) == frames' = [frames EXCEPT ![running] = Append(@, frame)]
Replace(stage) ==
  frames' = [frames EXCEPT ![running] = Append(Below, [Top EXCEPT !.stage = stage])]

(* Faulty variant: the keyboard is masked with the unused lines.           *)
Masked_from_keyboard == 1..15

(* set_up_architecture masks every line but timer and keyboard, the line   *)
(* of the slave controller among them.                                     *)
Masked == 2..15

Registered == {0, 1}   \* lines with an enabled handler

(* The slave's lines take the place of line 2 in the order of priority.    *)
Rank(line) == IF line < 8 THEN 8 * line ELSE 8 + line

Deliverable ==
  {l \in pending \ Masked : \A s \in in_service : Rank(l) < Rank(s)}

Highest(set) == CHOOSE l \in set : \A m \in set : Rank(l) <= Rank(m)

IrqInit ==
  /\ pending = {} /\ in_service = {}
  /\ flag = TRUE
  /\ running = Boot
  /\ fresh = Process \ {Boot}
  /\ load = [p \in Process |-> "none"]
  /\ frames = [p \in Process |-> <<>>]
  /\ dead = FALSE
-----------------------------------------------------------------------------
TimerServed ==
  /\ InFrame("entered") \/ InFrame("handling") \/ InFrame("return")
  /\ Top.irq = timer_irq

(* A device raises its line; a second edge before the first is accepted is *)
(* lost in the latch.  Ten milliseconds pass between two edges of the      *)
(* timer (set_frequency(100)), longer than one of them is served.          *)
raise(line) ==
  /\ line \notin pending
  /\ line = timer_irq => ~TimerServed
  /\ pending' = pending \cup {line}
  /\ UNCHANGED <<in_service, flag, running, fresh, load, frames, dead>>

(* The processor takes the request of highest priority before its next     *)
(* instruction.                                                            *)
accept(line) ==
  /\ ~dead /\ flag
  /\ Deliverable # {} /\ line = Highest(Deliverable)
  /\ pending' = pending \ {line}
  /\ in_service' = in_service \cup {line}
  /\ Push(Frame(line, not_exp, "entered"))
  /\ flag' = FALSE
  /\ UNCHANGED <<running, fresh, load, dead>>

(* The processor executes an instruction: no request is taken before it.   *)
Executes ==
  /\ ~dead /\ ~(flag /\ Deliverable # {})
  /\ UNCHANGED <<pending, in_service, running, fresh, load, dead>>

(* The instruction is one of the program's own, or of the kernel's Boot.   *)
Instruction == Executes /\ frames[running] = <<>> /\ load[running] = "none"

(* The system call's handler is at work.                                   *)
Serving == InFrame("handling") /\ Top.irq < 0 /\ Top.exception = SYSTEM_GATE

(* int 0x80 goes through an interrupt gate.                                *)
syscall ==
  /\ Instruction
  /\ Push(Frame(not_irq, SYSTEM_GATE, "entered"))
  /\ flag' = FALSE

(* An exception goes through a trap gate.  The code that raises it is a    *)
(* program, a kernel process that loads one, or the system call's handler. *)
exception ==
  /\ Executes
  /\ \/ frames[running] = <<>> /\ load[running] # "failed"
     \/ Serving
  /\ \E number \in Exceptions : Push(Frame(not_irq, number, "gate"))
  /\ UNCHANGED flag

(* Any other software interrupt: asm_isr_uninitilized pushes 0 where an    *)
(* irq has its number, and -1 where an exception has its own.              *)
uninitilized ==
  /\ Instruction
  /\ Push(Frame(timer_irq, not_exp, "gate"))
  /\ UNCHANGED flag

(* Faulty variant: the routine does not switch interrupts off.             *)
isr_entry_no_cli ==
  /\ Executes /\ InFrame("gate")
  /\ Replace("entered")
  /\ UNCHANGED flag

(* The routine's first instruction, cli.                                   *)
isr_entry ==
  /\ Executes /\ InFrame("gate")
  /\ flag' = FALSE
  /\ Replace("entered")

(* A non-specific end of interrupt to the slave for its own lines, and to  *)
(* the master for every line: each controller clears the line of highest   *)
(* priority it has in service, if it has one.                              *)
EndOfInterrupt(irq) ==
  LET master == in_service \cap 0..7
      slave == in_service \cap 8..15
      Cleared(set) == IF set = {} THEN {} ELSE {Highest(set)}
  IN in_service \ (Cleared(master)
                     \cup (IF irq >= 8 THEN Cleared(slave) ELSE {}))

(* Faulty variant: the handler runs and nobody acknowledges the interrupt. *)
dispatch_interrupt_no_eoi ==
  /\ ~dead /\ InFrame("entered")
  /\ Replace("handling")
  /\ UNCHANGED <<pending, in_service, flag, running, fresh, load, dead>>

(* dispatch_interrupt acknowledges a hardware interrupt, then calls the    *)
(* routine of its cause.                                                   *)
dispatch_interrupt ==
  /\ ~dead /\ InFrame("entered")
  /\ Replace("handling")
  /\ in_service' = IF Top.irq >= 0 THEN EndOfInterrupt(Top.irq) ELSE in_service
  /\ UNCHANGED <<pending, flag, running, fresh, load, dead>>

(* entrance_function: user mode, and interrupts, or the kernel process'    *)
(* function.                                                               *)
entrance_function(p) ==
  \/ p \in KernelProcess /\ flag' = FALSE /\ load' = [load EXCEPT ![p] = "loading"]
  \/ p \notin KernelProcess /\ flag' = TRUE /\ UNCHANGED load

(* context_switch: the process goes on where it was switched away from, in *)
(* the handler it was interrupted by, or runs for the first time.          *)
SwitchTo(p) ==
  /\ running' = p
  /\ fresh' = fresh \ {p}
  /\ \/ p \in fresh /\ entrance_function(p)
     \/ p \notin fresh /\ flag' = FALSE /\ UNCHANGED load

(* The registered routine: the timer's may switch, that of the keyboard    *)
(* changes nothing modelled here; an unregistered line's is disabled.      *)
irq_handler ==
  /\ ~dead /\ InFrame("handling") /\ Top.irq >= 0
  /\ Replace("return")
  /\ IF Top.irq = timer_irq
     THEN \E p \in Process : SwitchTo(p)
     ELSE UNCHANGED <<flag, running, fresh, load>>
  /\ UNCHANGED <<pending, in_service, dead>>

(* A call that returns to its caller; a fork's child returns from a copy   *)
(* of the caller's stack when it is switched to.                           *)
syscall_handler ==
  /\ ~dead /\ Serving
  /\ \/ Replace("return") /\ UNCHANGED fresh
     \/ \E child \in fresh \ KernelProcess :
          LET stack == Append(Below, [Top EXCEPT !.stage = "return"])
          IN /\ frames' = [frames EXCEPT ![running] = stack, ![child] = stack]
             /\ fresh' = fresh \ {child}
  /\ UNCHANGED <<pending, in_service, flag, running, load, dead>>

(* load_elf for an execve or in load_init: jump_in leaves whatever was on  *)
(* the kernel's stack behind and enters the program with interrupts on.    *)
jump_in ==
  /\ ~dead
  /\ Serving \/ (frames[running] = <<>> /\ load[running] = "loading")
  /\ frames' = [frames EXCEPT ![running] = <<>>]
  /\ load' = [load EXCEPT ![running] = "none"]
  /\ flag' = TRUE
  /\ UNCHANGED <<pending, in_service, running, fresh, dead>>

(* load_elf fails, and while ( true ) follows it.  (After a failed execve  *)
(* the system call returns.)                                               *)
load_fails ==
  /\ ~dead /\ frames[running] = <<>> /\ load[running] = "loading"
  /\ load' = [load EXCEPT ![running] = "failed"]
  /\ UNCHANGED <<pending, in_service, flag, running, fresh, frames, dead>>

(* An exception, or a number dispatch_interrupt knows no routine for, ends *)
(* in die().                                                               *)
exception_handler ==
  /\ ~dead /\ InFrame("handling") /\ Top.irq < 0 /\ Top.exception # SYSTEM_GATE
  /\ dead' = TRUE
  /\ UNCHANGED <<pending, in_service, flag, running, fresh, load, frames>>

(* The registers are restored; sti takes effect after iret, which restores *)
(* the flag.                                                               *)
isr_return ==
  /\ ~dead /\ ~flag /\ InFrame("return")
  /\ flag' = Top.flag
  /\ frames' = [frames EXCEPT ![running] = Below]
  /\ UNCHANGED <<pending, in_service, running, fresh, load, dead>>

IrqNext ==
  \/ \E line \in Lines : raise(line) \/ accept(line)
  \/ syscall
  \/ exception
  \/ uninitilized
  \/ isr_entry
  \/ dispatch_interrupt
  \/ irq_handler
  \/ syscall_handler
  \/ jump_in
  \/ load_fails
  \/ exception_handler
  \/ isr_return

(* The processor does not stop by itself and the timer keeps firing, but   *)
(* not always in the instant between an iret and the next instruction: a   *)
(* lower line that is again and again the highest request is taken up.     *)
(* Every handler ends, and so does load_elf, one way or the other.         *)
IrqFairness ==
  /\ WF_irqVars(raise(timer_irq))
  /\ \A line \in Lines : SF_irqVars(accept(line))
  /\ WF_irqVars(isr_entry)
  /\ WF_irqVars(dispatch_interrupt)
  /\ WF_irqVars(irq_handler \/ syscall_handler \/ exception_handler)
  /\ WF_irqVars(jump_in \/ load_fails)
  /\ WF_irqVars(isr_return)

IrqSpec == IrqInit /\ [][IrqNext]_irqVars /\ IrqFairness
-----------------------------------------------------------------------------
(* Nested causes stay within two frames per process.                       *)
IrqTypeOK ==
  /\ pending \subseteq Lines
  /\ in_service \subseteq Lines
  /\ flag \in BOOLEAN /\ dead \in BOOLEAN
  /\ running \in Process
  /\ fresh \subseteq Process
  /\ load \in [Process -> {"none", "loading", "failed"}]
  /\ frames \in [Process -> Seq([irq : -1..15, exception : -1..SYSTEM_GATE,
                                 stage : {"gate", "entered", "handling", "return"},
                                 flag : BOOLEAN])]

(* A line is in service only between its acceptance and the                *)
(* acknowledgement that dispatch_interrupt sends first: never while a      *)
(* handler runs, and never in a process that a handler switched to.  With  *)
(* a non-specific end of interrupt this is also what makes every           *)
(* acknowledgement one of the line it is sent for.                         *)
InServiceOnlyAtEntry ==
  in_service # {} =>
    ~flag /\ InFrame("entered") /\ in_service = {Top.irq}

(* A handler is interrupted by a fault of its own and by nothing else:     *)
(* under another frame lies a routine that has not reached its cli yet, or *)
(* the system call that an exception interrupted.  With interrupts on      *)
(* there is at most the one frame of a routine before its cli, and a       *)
(* process switched away from within its handler has no other one.         *)
OnlyFaultsNest ==
  /\ \A p \in Process :
       \A i, j \in DOMAIN frames[p] :
         i < j => \/ frames[p][i].stage = "gate" /\ frames[p][j].stage # "gate"
                  \/ /\ frames[p][i].exception = SYSTEM_GATE
                     /\ frames[p][j].exception \in Exceptions
  /\ flag => \/ frames[running] = <<>>
             \/ InFrame("gate") /\ Len(frames[running]) = 1

(* What a device with a handler raises is taken up, whatever process runs, *)
(* as long as the kernel lives and no kernel process has failed to load    *)
(* its program: no other path leaves interrupts off, a line in service or  *)
(* a process without its return.                                           *)
PendingIsServed ==
  \A line \in Lines \cap Registered :
    line \in pending ~> (line \notin pending \/ dead \/ load[running] = "failed")
=============================================================================
