------------------------------ MODULE Scheduler ------------------------------
(***************************************************************************)
(* The process scheduler of the kernel: i_scheduler (creation, fork, exit  *)
(* and context_switch), the x86 scheduler (switch_to, prepare,             *)
(* entrance_function, set_current) and the timer interrupt that drives it. *)
(*                                                                         *)
(* Interrupt and system gates are interrupt gates and every stub starts    *)
(* with cli, so kernel code entered from user mode runs with the interrupt *)
(* flag clear and is one atomic step here.  Control changes hands only     *)
(* when the timer interrupt arrives while the flag is set.                 *)
(*                                                                         *)
(* A stack, an address space and a process are named alike: stack p is     *)
(* p's kernel_stack, cr3 p is p's page table.                              *)
(***************************************************************************)
EXTENDS RoundRobin, TickMask

CONSTANTS Process0,  \* the kernel itself, process 0
          MaxPid     \* bound: pids handed out by the model

ASSUME Process0Assumption == Process0 \in Process
ASSUME MaxPidAssumption == MaxPid \in Nat \ {0}

VARIABLES next_pid,     \* i_scheduler::next_pid
          pid,          \* process::pid
          saved,        \* esp, eip and cr3 a process resumes with
          mode,         \* what a process executes
          fork_result,  \* what the last fork returned to a process
          tss,          \* whose kernel stack the TSS' ESP0 points to
          cpu,          \* stack and cr3 in use, interrupt flag
          ticks,        \* timer::ticks modulo PowerOfTwo[TickBits]
          halted        \* why the machine stopped in die()

cpuVars == <<tss, cpu, ticks, halted>>
procVars == <<next_pid, pid, saved, mode, fork_result>>
vars == <<rrVars, procVars, cpuVars>>

NoResult == -2

(* Where eip of a saved context points: after get_eip in switch_to, after  *)
(* get_eip in prepare (the child of a fork) or at entrance_function, with  *)
(* entrance information that says whether to stay in kernel mode.          *)
ResumePoint == {"none", "switch_to", "prepare", "enter_kernel", "enter_user"}

(* ppid is the local parent_pid of fork_process on the copied stack.       *)
Context == [resume : ResumePoint, stack : Pointer, cr3 : Pointer, ppid : Int]

NoContext == [resume |-> "none", stack |-> NULL, cr3 |-> NULL, ppid |-> NoResult]

(* "none": no such object; "new": prepared, never dispatched; "kernel" and *)
(* "user": runs or was interrupted there; "stuck": in the closing          *)
(* while(true) of a kernel process, with interrupts off.                   *)
Mode == {"none", "new", "kernel", "user", "stuck"}

TypeOK ==
  /\ RRTypeOK
  /\ next_pid \in 0..MaxPid
  /\ pid \in [Process -> 0..MaxPid]
  /\ saved \in [Process -> Context]
  /\ mode \in [Process -> Mode]
  /\ fork_result \in [Process -> Int]
  /\ tss \in Pointer
  /\ cpu \in [stack : Pointer, cr3 : Pointer, intr : BOOLEAN]
  /\ ticks \in 0..(PowerOfTwo[TickBits] - 1)
  /\ halted \in {"no", "exit", "exception", "no_mem"}
-----------------------------------------------------------------------------
(* kernel_main has moved to process 0's stack (copy_stack); paging and     *)
(* interrupts are off.                                                     *)
Init ==
  /\ RRInit
  /\ next_pid = 1
  /\ pid = [p \in Process |-> 0]
  /\ saved = [p \in Process |-> NoContext]
  /\ mode = [p \in Process |-> IF p = Process0 THEN "kernel" ELSE "none"]
  /\ fork_result = [p \in Process |-> NoResult]
  /\ tss = NULL
  /\ cpu = [stack |-> Process0, cr3 |-> NULL, intr |-> FALSE]
  /\ ticks = 0
  /\ halted = "no"

(* put_process0, and the activation of paging with process 0's page table  *)
(* that ends boot().                                                       *)
put_process0 ==
  /\ Process0 \notin nodes
  /\ push_new(Process0)
  /\ pid' = [pid EXCEPT ![Process0] = 0]
  /\ tss' = Process0
  /\ cpu' = [cpu EXCEPT !.cr3 = Process0]
  /\ UNCHANGED <<next_pid, saved, mode, fork_result, ticks, halted>>

(* interrupts_on() in the idle loop of process 0 (elf_loader_test).        *)
interrupts_on ==
  /\ cur # NULL
  /\ cpu.stack = Process0
  /\ mode[Process0] = "kernel"
  /\ ~cpu.intr
  /\ cpu' = [cpu EXCEPT !.intr = TRUE]
  /\ UNCHANGED <<rrVars, procVars, tss, ticks, halted>>

Fresh(child) == child # Process0 /\ mode[child] = "none"

(* What creation leaves behind when the address space could be copied: a   *)
(* pid, a context to resume with and a node at the head of the list.       *)
Create(child, context) ==
  /\ pid' = [pid EXCEPT ![child] = next_pid]
  /\ saved' = [saved EXCEPT ![child] = context]
  /\ mode' = [mode EXCEPT ![child] = "new"]
  /\ push_new(child)

(* copy_address_space failed: the child's object is deleted, its pid is    *)
(* used up.  (What memory the copy had taken stays so; see AddressSpace.)  *)
CreateFails == UNCHANGED <<rrVars, pid, saved, mode>>

(* prepare( process, run_in_kernel, ...): own page table, own stack,       *)
(* entrance_function as eip.                                               *)
EntranceContext(child, run_in_kernel) ==
  [resume |-> IF run_in_kernel THEN "enter_kernel" ELSE "enter_user",
   stack |-> child, cr3 |-> child, ppid |-> NoResult]

(* new_process, called by process 0 before it switches interrupts on.      *)
new_process(child, run_in_kernel) ==
  /\ cur # NULL
  /\ cpu.stack = Process0
  /\ mode[Process0] = "kernel"
  /\ ~cpu.intr
  /\ Fresh(child)
  /\ next_pid < MaxPid
  /\ next_pid' = next_pid + 1
  /\ \/ Create(child, EntranceContext(child, run_in_kernel))
     \/ CreateFails
  /\ UNCHANGED <<fork_result, cpuVars>>

(* Faulty variant: the saved esp is not relocated into the child's stack.  *)
ForkContext_not_relocated(child) ==
  [resume |-> "prepare", stack |-> cur, cr3 |-> child, ppid |-> pid[cur]]

(* prepare( parent, child ): the parent's stack is copied into the child's *)
(* and relocated, eip points behind get_eip in prepare.                    *)
ForkContext(child) ==
  [resume |-> "prepare", stack |-> child, cr3 |-> child, ppid |-> pid[cur]]

InUserMode == cur # NULL /\ cpu.intr /\ mode[cpu.stack] = "user"

(* The fork system call: fork_process and the result stored by the         *)
(* dispatcher for the caller, which is the process on whose stack the      *)
(* system call runs.                                                       *)
fork_process(child) ==
  /\ InUserMode
  /\ Fresh(child)
  /\ next_pid < MaxPid
  /\ next_pid' = next_pid + 1
  /\ \/ /\ Create(child, ForkContext(child))
        /\ fork_result' = [fork_result EXCEPT ![cpu.stack] = next_pid]
     \/ /\ CreateFails
        /\ fork_result' = [fork_result EXCEPT ![cpu.stack] = -1]
  /\ UNCHANGED cpuVars

(* die() from a system call or an exception: hlt with interrupts off.      *)
die(reason) ==
  /\ InUserMode
  /\ halted' = reason
  /\ cpu' = [cpu EXCEPT !.intr = FALSE]
  /\ UNCHANGED <<rrVars, procVars, tss, ticks>>

(* The exit system call: exit_process returns false, the dispatcher dies.  *)
exit_call == die("exit")

(* An exception raised by a user program: no handler but die().            *)
dispatch_exception == die("exception")

(* std::bad_alloc inside a system call, caught by dispatch_syscall.        *)
syscall_no_mem == die("no_mem")

(* Faulty variant: jump_in builds the frame with the interrupt flag clear. *)
jump_in_flag_clear(p) ==
  /\ mode' = [mode EXCEPT ![p] = "user"]
  /\ cpu' = [cpu EXCEPT !.cr3 = cur]

(* jump_in: loads the current process' page table and returns to user mode *)
(* through a made-up interrupt frame with the interrupt flag set.          *)
jump_in(p) ==
  /\ mode' = [mode EXCEPT ![p] = "user"]
  /\ cpu' = [cpu EXCEPT !.cr3 = cur, !.intr = TRUE]

(* A kernel process (load_init) runs with interrupts off until it loads a  *)
(* program and jumps into it, or fails and spins.                          *)
load_init ==
  LET p == cpu.stack IN
  /\ cur # NULL
  /\ halted = "no"
  /\ p # Process0
  /\ mode[p] = "kernel"
  /\ \/ jump_in(p)
     \/ /\ mode' = [mode EXCEPT ![p] = "stuck"]
        /\ UNCHANGED cpu
  /\ UNCHANGED <<rrVars, next_pid, pid, saved, fork_result, tss, ticks, halted>>
-----------------------------------------------------------------------------
(* What the dispatched process executes when its context is restored:      *)
(* entrance_function switches to user mode unless it stays in the kernel,  *)
(* a forked child returns through the system call to user mode, anything   *)
(* else returns to what the timer had interrupted.                         *)
ModeAfter(p) ==
  CASE saved[p].resume = "enter_kernel" -> "kernel"
    [] saved[p].resume \in {"enter_user", "prepare"} -> "user"
    [] OTHER -> mode[p]

(* Faulty variants of switch_to: the TSS keeps the old stack; the eip of   *)
(* the preempted process is not saved; the child is told apart the wrong   *)
(* way round.                                                              *)
switch_to_no_set_current(prev, nxt) ==
  /\ saved' = [saved EXCEPT ![prev] =
                 [resume |-> "switch_to", stack |-> cpu.stack,
                  cr3 |-> cpu.cr3, ppid |-> NoResult]]
  /\ cpu' = [stack |-> saved[nxt].stack, cr3 |-> saved[nxt].cr3,
             intr |-> saved[nxt].resume # "enter_kernel"]
  /\ mode' = [mode EXCEPT ![nxt] = ModeAfter(nxt)]
  /\ UNCHANGED <<tss, fork_result>>

switch_to_eip_not_saved(prev, nxt) ==
  /\ saved' = [saved EXCEPT ![prev].stack = cpu.stack, ![prev].cr3 = cpu.cr3]
  /\ tss' = nxt
  /\ cpu' = [stack |-> saved[nxt].stack, cr3 |-> saved[nxt].cr3,
             intr |-> saved[nxt].resume # "enter_kernel"]
  /\ mode' = [mode EXCEPT ![nxt] = ModeAfter(nxt)]
  /\ fork_result' = IF saved[nxt].resume = "prepare"
                      THEN [fork_result EXCEPT ![nxt] = 0] ELSE fork_result

switch_to_pid_test_inverted(prev, nxt) ==
  /\ saved' = [saved EXCEPT ![prev] =
                 [resume |-> "switch_to", stack |-> cpu.stack,
                  cr3 |-> cpu.cr3, ppid |-> NoResult]]
  /\ tss' = nxt
  /\ cpu' = [stack |-> saved[nxt].stack, cr3 |-> saved[nxt].cr3,
             intr |-> saved[nxt].resume # "enter_kernel"]
  /\ mode' = [mode EXCEPT ![nxt] = ModeAfter(nxt)]
  /\ fork_result' = IF saved[nxt].resume = "prepare"
                      THEN [fork_result EXCEPT ![nxt] =
                              IF pid[nxt] = saved[nxt].ppid THEN 0 ELSE pid[nxt]]
                      ELSE fork_result

(* switch_to( prev, nxt ), up to the iret that nxt's stack leads to.  The  *)
(* child of a fork returns from prepare with its own pid, which differs    *)
(* from the parent's, so fork_process sets child_pid to 0.                 *)
switch_to(prev, nxt) ==
  /\ saved' = [saved EXCEPT ![prev] =
                 [resume |-> "switch_to", stack |-> cpu.stack,
                  cr3 |-> cpu.cr3, ppid |-> NoResult]]
  /\ tss' = nxt
  /\ cpu' = [stack |-> saved[nxt].stack, cr3 |-> saved[nxt].cr3,
             intr |-> saved[nxt].resume # "enter_kernel"]
  /\ mode' = [mode EXCEPT ![nxt] = ModeAfter(nxt)]
  /\ fork_result' = IF saved[nxt].resume = "prepare"
                      THEN [fork_result EXCEPT ![nxt] =
                              IF pid[nxt] # saved[nxt].ppid THEN 0 ELSE pid[nxt]]
                      ELSE fork_result

context_switch ==
  /\ get_next_process
  /\ \/ /\ cur # NULL /\ Successor # NULL /\ cur # Successor
        /\ switch_to(cur, Successor)
     \/ /\ ~(cur # NULL /\ Successor # NULL /\ cur # Successor)
        /\ UNCHANGED <<saved, tss, cpu, mode, fork_result>>

timer_interrupt_handler ==
  /\ cpu.intr
  /\ ticks' = (ticks + 1) % PowerOfTwo[TickBits]
  /\ \/ Reschedules(ticks') /\ context_switch
     \/ /\ ~Reschedules(ticks')
        /\ UNCHANGED <<rrVars, saved, tss, cpu, mode, fork_result>>
  /\ UNCHANGED <<next_pid, pid, halted>>
-----------------------------------------------------------------------------
Next ==
  \/ put_process0
  \/ interrupts_on
  \/ \E child \in Process, k \in BOOLEAN : new_process(child, k)
  \/ \E child \in Process : fork_process(child)
  \/ exit_call
  \/ dispatch_exception
  \/ syscall_no_mem
  \/ load_init
  \/ timer_interrupt_handler

Spec == Init /\ [][Next]_vars

(* The programmable timer keeps firing: an interrupt that is enabled is    *)
(* delivered.  Boot and a kernel process that loads a program run on.      *)
Fairness ==
  /\ WF_vars(timer_interrupt_handler)
  /\ WF_vars(put_process0)
  /\ WF_vars(interrupts_on)
  /\ WF_vars(load_init)

FairSpec == Spec /\ Fairness
-----------------------------------------------------------------------------
(* The machine state belongs to the process the policy calls current: its  *)
(* kernel stack is in use and is the one the TSS hands to the next         *)
(* interrupt, its page table is loaded.  switch_to sets stack and cr3 from *)
(* a saved context, set_current the TSS, and get_next_process moves cur:   *)
(* three places that must agree after every sequence of switches.          *)
CpuRunsCurrent ==
  cur # NULL => cpu.stack = cur /\ cpu.cr3 = cur /\ tss = cur

(* Every process on the list that does not run can be switched to: its     *)
(* saved esp lies on its own stack, its cr3 is its own page table and its  *)
(* eip was set, by prepare or by the switch_to that preempted it.          *)
ReadyContextsValid ==
  \A p \in nodes \ {cur} :
    /\ saved[p].resume # "none"
    /\ saved[p].stack = p
    /\ saved[p].cr3 = p

(* No two processes on the list share a pid and none has one that next_pid *)
(* will hand out again, although failed creations use pids up too.         *)
(* fork_process tells parent and child apart by their pids alone.          *)
PidsUnique ==
  /\ \A p \in nodes : pid[p] < next_pid
  /\ \A p, q \in nodes : p # q => pid[p] # pid[q]

(* The linked list holds every process that was pushed, exactly once, and  *)
(* cannot loop: push_new prepends, so pids fall along the list, the head   *)
(* is the youngest process, a successor is the next older one and the list *)
(* ends at process 0.                                                      *)
ListInPidOrder ==
  /\ (nodes = {}) <=> (list_head = NULL)
  /\ list_head # NULL =>
       /\ list_head \in nodes
       /\ \A q \in nodes : pid[q] <= pid[list_head]
  /\ \A p \in nodes :
       IF next[p] = NULL
         THEN \A q \in nodes : pid[p] <= pid[q]
         ELSE /\ next[p] \in nodes
              /\ pid[next[p]] < pid[p]
              /\ \A q \in nodes : pid[q] < pid[p] => pid[q] <= pid[next[p]]

(* fork in the parent returns the pid of a younger process that is on the  *)
(* list, and only a process created by a fork ever sees 0.                 *)
ForkResults ==
  \A p \in Process :
    /\ fork_result[p] > 0 =>
         \E c \in nodes : pid[c] = fork_result[p] /\ pid[p] < pid[c]
    /\ fork_result[p] = 0 => p \in nodes \ {Process0}

(* A process sees 0 from fork only when it is dispatched for the first     *)
(* time: the context prepare saved is not resumed a second time, and the   *)
(* parent that resumes after the child never takes the child's return.     *)
ZeroOnFirstDispatchOnly ==
  [][\A p \in Process :
       fork_result'[p] = 0 /\ fork_result[p] # 0 => mode[p] = "new"]_vars

(* User programs can always be preempted: switch_to_user_mode, jump_in and *)
(* the iret of an interrupt or system call all leave the interrupt flag    *)
(* set in user mode.                                                       *)
UserModeInterruptible ==
  cur # NULL /\ mode[cpu.stack] = "user" /\ halted = "no" => cpu.intr

(* The inductive invariant behind these: what else relates the list, the   *)
(* processes and the processor.                                            *)
ListedProcesses ==
  /\ cur = NULL <=> nodes = {}
  /\ cur # NULL => cur \in nodes /\ Process0 \in nodes
  /\ \A p \in nodes : mode[p] # "none"
  /\ \A p \in Process \ nodes : fork_result[p] = NoResult /\ saved[p] = NoContext
  /\ cur = NULL => cpu.stack = Process0
  /\ pid[Process0] = 0 /\ mode[Process0] = "kernel"
  /\ saved[Process0].resume \in {"none", "switch_to"}
  /\ next_pid > 0

ForkContexts ==
  \A p \in nodes :
    saved[p].resume = "prepare" =>
      /\ saved[p].ppid \in 0..(pid[p] - 1)
      /\ p # cur => mode[p] = "new"

SchedInv ==
  /\ TypeOK
  /\ CpuRunsCurrent
  /\ ReadyContextsValid
  /\ PidsUnique
  /\ ListInPidOrder
  /\ ListedProcesses
  /\ ForkContexts
  /\ ForkResults
  /\ UserModeInterruptible

(* Round robin starves nobody: while interrupts keep being enabled, every  *)
(* process on the list gets the processor again and again, however many    *)
(* processes are pushed in front of it meanwhile.                          *)
NoStarvation ==
  []<>cpu.intr => \A p \in Process : [](p \in nodes => <>(cpu.stack = p))
=============================================================================
