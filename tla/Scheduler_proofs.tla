-------------------------- MODULE Scheduler_proofs --------------------------
(***************************************************************************)
(* The scheduler, for any number of processes and pids: the list stays     *)
(* intact, the processor always runs the process the policy calls current, *)
(* every other process can be resumed, and fork tells parent and child     *)
(* apart.  All of it follows from the inductive invariant SchedInv.        *)
(***************************************************************************)
EXTENDS Scheduler, RoundRobinClient, FiniteSetTheorems, TLAPS

(* Before boot nothing is on the list.                                     *)
LEMMA InitSched == Init => SchedInv
<1> SUFFICES ASSUME Init PROVE SchedInv
  OBVIOUS
<1>1. TypeOK
  BY NullAssumption, Process0Assumption, TickAssumption, MaxPidAssumption
     DEF Init, RRInit, TypeOK, RRTypeOK, Pointer, Context, NoContext,
         ResumePoint, Mode, NoResult
<1>2. /\ CpuRunsCurrent /\ ReadyContextsValid /\ PidsUnique
      /\ ListInPidOrder /\ ListedProcesses /\ ForkContexts
      /\ ForkResults /\ UserModeInterruptible
  BY Process0Assumption
     DEF Init, RRInit, CpuRunsCurrent, ReadyContextsValid, PidsUnique,
         ListInPidOrder, ListedProcesses, ForkContexts, ForkResults,
         UserModeInterruptible, NoResult, NoContext
<1> QED BY <1>1, <1>2 DEF SchedInv

(* put_process0 puts process 0 on the empty list.                          *)
LEMMA PutProcess0Sched == SchedInv /\ put_process0 => SchedInv'
<1> SUFFICES ASSUME SchedInv, put_process0 PROVE SchedInv'
  OBVIOUS
<1> USE NullAssumption, Process0Assumption DEF SchedInv, put_process0
<1>1. nodes = {} /\ cur = NULL /\ list_head = NULL /\ cpu.stack = Process0
  BY DEF ListedProcesses, ListInPidOrder
<1>2. /\ nodes' = {Process0} /\ cur' = Process0 /\ list_head' = Process0
      /\ next' = [next EXCEPT ![Process0] = NULL]
  BY <1>1 DEF push_new
<1>3. pid' = pid /\ pid[Process0] = 0
  BY DEF ListedProcesses, TypeOK
<1>4. TypeOK'
  BY <1>2, <1>3 DEF TypeOK, RRTypeOK, Pointer
<1>5. ListInPidOrder' /\ PidsUnique' /\ ListedProcesses'
  BY <1>1, <1>2, <1>3 DEF ListInPidOrder, PidsUnique, ListedProcesses,
                          TypeOK, RRTypeOK, Pointer
<1>6. ReadyContextsValid' /\ CpuRunsCurrent'
  BY <1>1, <1>2 DEF ReadyContextsValid, CpuRunsCurrent, TypeOK
<1>7. ForkContexts' /\ ForkResults'
  BY <1>1, <1>2, <1>3 DEF ForkContexts, ForkResults, ListedProcesses, NoContext, NoResult
<1>8. UserModeInterruptible'
  BY <1>1 DEF UserModeInterruptible, ListedProcesses, TypeOK
<1> QED BY <1>4, <1>5, <1>6, <1>7, <1>8

(* A successful creation by new_process or fork: the child goes to the     *)
(* head of the list with the largest pid so far and a context on its own   *)
(* stack.  ForkResults depends on what the caller is told and is left to   *)
(* the two callers.                                                        *)
LEMMA CreateSched ==
  ASSUME SchedInv, cur # NULL, next_pid < MaxPid, next_pid' = next_pid + 1,
         NEW child \in Process, Fresh(child),
         NEW ctx \in Context,
         ctx.resume # "none", ctx.stack = child, ctx.cr3 = child,
         ctx.resume = "prepare" => ctx.ppid \in 0..(next_pid - 1),
         Create(child, ctx), UNCHANGED cpuVars,
         fork_result' \in [Process -> Int],
         \A p \in Process \ nodes : fork_result'[p] = fork_result[p]
  PROVE  /\ TypeOK' /\ CpuRunsCurrent' /\ ReadyContextsValid' /\ PidsUnique'
         /\ ListInPidOrder' /\ ListedProcesses' /\ ForkContexts'
         /\ UserModeInterruptible'
         /\ nodes' = nodes \cup {child} /\ child \notin nodes
         /\ pid' = [pid EXCEPT ![child] = next_pid]
<1> USE NullAssumption, Process0Assumption DEF SchedInv
<1>1. child \notin nodes /\ child # Process0 /\ list_head # NULL
  BY DEF Fresh, ListedProcesses, ListInPidOrder
<1>2. /\ pid' = [pid EXCEPT ![child] = next_pid]
      /\ saved' = [saved EXCEPT ![child] = ctx]
      /\ mode' = [mode EXCEPT ![child] = "new"]
      /\ next' = [next EXCEPT ![child] = list_head]
      /\ list_head' = child /\ cur' = cur
      /\ nodes' = nodes \cup {child}
  BY DEF Create, push_new
<1>3. TypeOK'
  BY <1>2, MaxPidAssumption DEF TypeOK, RRTypeOK, Pointer, Mode, cpuVars
<1>4. CpuRunsCurrent' /\ ReadyContextsValid'
  BY <1>1, <1>2 DEF CpuRunsCurrent, ReadyContextsValid, cpuVars, TypeOK
<1>5. PidsUnique'
  BY <1>1, <1>2 DEF PidsUnique, TypeOK, RRTypeOK
<1>6. ListInPidOrder'
  <2>1. /\ list_head' \in nodes'
        /\ \A q \in nodes' : pid'[q] <= pid'[list_head']
    BY <1>1, <1>2 DEF PidsUnique, TypeOK, RRTypeOK
  <2>2. ASSUME NEW p \in nodes'
        PROVE  IF next'[p] = NULL
                 THEN \A q \in nodes' : pid'[p] <= pid'[q]
                 ELSE /\ next'[p] \in nodes'
                      /\ pid'[next'[p]] < pid'[p]
                      /\ \A q \in nodes' : pid'[q] < pid'[p] => pid'[q] <= pid'[next'[p]]
    <3>1. CASE p = child
      BY <3>1, <1>1, <1>2 DEF PidsUnique, ListInPidOrder, TypeOK, RRTypeOK
    <3>2. CASE p # child
      <4>1. p \in nodes /\ next'[p] = next[p] /\ pid'[p] = pid[p]
        BY <3>2, <1>2 DEF TypeOK, RRTypeOK
      <4>2. \A q \in nodes : pid'[q] = pid[q] /\ pid[q] \in Nat
        BY <1>1, <1>2 DEF TypeOK, RRTypeOK
      <4>3. pid'[child] = next_pid /\ pid[p] < next_pid
        BY <1>2, <4>1 DEF PidsUnique, TypeOK
      <4> QED BY <4>1, <4>2, <4>3, <1>1, <1>2 DEF ListInPidOrder, TypeOK
    <3> QED BY <3>1, <3>2
  <2> QED BY <2>1, <2>2, <1>2 DEF ListInPidOrder
<1>7. ListedProcesses'
  BY <1>1, <1>2 DEF ListedProcesses, TypeOK, RRTypeOK, cpuVars
<1>8. ForkContexts'
  BY <1>1, <1>2 DEF ForkContexts, TypeOK, RRTypeOK
<1>9. UserModeInterruptible'
  <2>1. cpu.stack = cur /\ cur \in nodes
    BY DEF CpuRunsCurrent, ListedProcesses
  <2> QED BY <2>1, <1>1, <1>2 DEF UserModeInterruptible, cpuVars, TypeOK
<1> QED BY <1>1, <1>2, <1>3, <1>4, <1>5, <1>6, <1>7, <1>8, <1>9

(* A failed creation only uses up a pid.                                   *)
LEMMA CreateFailsSched ==
  ASSUME SchedInv, next_pid < MaxPid, next_pid' = next_pid + 1,
         CreateFails, UNCHANGED cpuVars,
         fork_result' \in [Process -> Int],
         \A p \in Process \ nodes : fork_result'[p] = fork_result[p]
  PROVE  /\ TypeOK' /\ CpuRunsCurrent' /\ ReadyContextsValid' /\ PidsUnique'
         /\ ListInPidOrder' /\ ListedProcesses' /\ ForkContexts'
         /\ UserModeInterruptible'
<1> USE DEF SchedInv, CreateFails, rrVars, cpuVars
<1>1. TypeOK'
  BY MaxPidAssumption DEF TypeOK, RRTypeOK
<1>2. PidsUnique' /\ ListedProcesses'
  BY DEF PidsUnique, ListedProcesses, TypeOK, RRTypeOK
<1>3. /\ CpuRunsCurrent' /\ ReadyContextsValid' /\ ListInPidOrder'
      /\ ForkContexts' /\ UserModeInterruptible'
  BY DEF CpuRunsCurrent, ReadyContextsValid, ListInPidOrder, ForkContexts,
         UserModeInterruptible
<1> QED BY <1>1, <1>2, <1>3

LEMMA NewProcessSched ==
  ASSUME SchedInv, NEW child \in Process, NEW k \in BOOLEAN, new_process(child, k)
  PROVE  SchedInv'
<1> USE DEF new_process
<1>1. /\ fork_result' \in [Process -> Int]
      /\ \A p \in Process \ nodes : fork_result'[p] = fork_result[p]
  BY DEF SchedInv, TypeOK
<1>2. CASE Create(child, EntranceContext(child, k))
  <2> DEFINE ctx == EntranceContext(child, k)
  <2>1. /\ ctx \in Context /\ ctx.stack = child /\ ctx.cr3 = child
        /\ ctx.resume \in {"enter_kernel", "enter_user"}
    BY DEF EntranceContext, Context, ResumePoint, Pointer, NoResult
  <2>2. /\ TypeOK' /\ CpuRunsCurrent' /\ ReadyContextsValid' /\ PidsUnique'
        /\ ListInPidOrder' /\ ListedProcesses' /\ ForkContexts'
        /\ UserModeInterruptible'
        /\ nodes' = nodes \cup {child} /\ child \notin nodes
        /\ pid' = [pid EXCEPT ![child] = next_pid]
    <3> HIDE DEF ctx
    <3>1. /\ ctx.resume # "none"
          /\ ctx.resume = "prepare" => ctx.ppid \in 0..(next_pid - 1)
      BY <2>1
    <3>2. Create(child, ctx)
      BY <1>2 DEF ctx
    <3> QED BY <1>1, <2>1, <3>1, <3>2, CreateSched
  <2>3. ForkResults'
    BY <2>2 DEF SchedInv, ForkResults, ListedProcesses, NoResult, TypeOK, RRTypeOK
  <2> QED BY <2>2, <2>3 DEF SchedInv
<1>3. CASE CreateFails
  <2>1. ForkResults'
    BY <1>3 DEF SchedInv, ForkResults, CreateFails, rrVars
  <2> QED BY <1>1, <1>3, <2>1, CreateFailsSched DEF SchedInv
<1> QED BY <1>2, <1>3

LEMMA ForkSched ==
  ASSUME SchedInv, NEW child \in Process, fork_process(child)
  PROVE  SchedInv'
<1> USE DEF fork_process
<1>1. /\ cur # NULL /\ cpu.stack = cur /\ cur \in nodes /\ cur \in Process
      /\ pid[cur] \in 0..(next_pid - 1) /\ next_pid \in Nat
  BY DEF SchedInv, InUserMode, CpuRunsCurrent, ListedProcesses, PidsUnique,
         TypeOK, RRTypeOK
<1>2. /\ fork_result' \in [Process -> Int]
      /\ \A p \in Process \ nodes : fork_result'[p] = fork_result[p]
  BY <1>1 DEF SchedInv, TypeOK
<1>3. CASE Create(child, ForkContext(child)) /\ fork_result' = [fork_result EXCEPT ![cpu.stack] = next_pid]
  <2> DEFINE ctx == ForkContext(child)
  <2>1. /\ ctx \in Context /\ ctx.stack = child /\ ctx.cr3 = child
        /\ ctx.resume = "prepare" /\ ctx.ppid \in 0..(next_pid - 1)
    BY <1>1 DEF ForkContext, Context, ResumePoint, Pointer
  <2>2. /\ TypeOK' /\ CpuRunsCurrent' /\ ReadyContextsValid' /\ PidsUnique'
        /\ ListInPidOrder' /\ ListedProcesses' /\ ForkContexts'
        /\ UserModeInterruptible'
        /\ nodes' = nodes \cup {child} /\ child \notin nodes
        /\ pid' = [pid EXCEPT ![child] = next_pid]
    <3> HIDE DEF ctx
    <3>1. Create(child, ctx) /\ ctx.resume # "none"
      BY <1>3, <2>1 DEF ctx
    <3> QED BY <1>1, <1>2, <2>1, <3>1, CreateSched
  <2>3. ForkResults'
    <3> SUFFICES ASSUME NEW p \in Process
                 PROVE  /\ fork_result'[p] > 0 =>
                              \E c \in nodes' : pid'[c] = fork_result'[p] /\ pid'[p] < pid'[c]
                        /\ fork_result'[p] = 0 => p \in nodes' \ {Process0}
      BY DEF ForkResults
    <3>1. CASE p = cur
      BY <3>1, <1>1, <1>3, <2>2 DEF SchedInv, TypeOK, RRTypeOK, ListedProcesses
    <3>2. CASE p # cur /\ p # child
      BY <3>2, <1>1, <1>3, <2>2 DEF SchedInv, TypeOK, RRTypeOK, ForkResults
    <3>3. CASE p = child
      BY <3>3, <1>2, <2>2 DEF SchedInv, ListedProcesses, NoResult
    <3> QED BY <3>1, <3>2, <3>3
  <2> QED BY <2>2, <2>3 DEF SchedInv
<1>4. CASE CreateFails /\ fork_result' = [fork_result EXCEPT ![cpu.stack] = -1]
  <2>1. ForkResults'
    BY <1>1, <1>4 DEF SchedInv, ForkResults, CreateFails, rrVars, TypeOK
  <2> QED BY <1>2, <1>4, <2>1, CreateFailsSched DEF SchedInv
<1> QED BY <1>3, <1>4

(* The steps that touch neither the list nor the saved contexts.           *)
LEMMA CpuStepSched ==
  ASSUME SchedInv,
         \/ interrupts_on \/ exit_call \/ dispatch_exception
         \/ syscall_no_mem \/ load_init
  PROVE  SchedInv'
<1> USE DEF SchedInv
<1>1. /\ UNCHANGED <<list_head, next, cur, nodes, next_pid, pid, saved,
                     fork_result, tss, ticks>>
      /\ cur # NULL
  BY DEF interrupts_on, exit_call, dispatch_exception, syscall_no_mem, die,
         load_init, jump_in, rrVars, procVars, InUserMode
<1>2. cpu.stack = cur /\ cpu.cr3 = cur /\ cur \in nodes /\ cur \in Process
  BY <1>1 DEF CpuRunsCurrent, ListedProcesses, TypeOK, RRTypeOK
<1>3. cpu'.stack = cur /\ cpu'.cr3 = cur /\ cpu' \in [stack : Pointer, cr3 : Pointer, intr : BOOLEAN]
  BY <1>1, <1>2 DEF interrupts_on, exit_call, dispatch_exception, syscall_no_mem,
         die, load_init, jump_in, TypeOK, Pointer
<1>4. /\ mode' \in [Process -> Mode]
      /\ \A p \in nodes : mode'[p] # "none"
      /\ mode'[Process0] = "kernel"
  BY <1>2 DEF interrupts_on, exit_call, dispatch_exception, syscall_no_mem,
         die, load_init, jump_in, procVars, TypeOK, RRTypeOK, ListedProcesses, Mode
<1>5. TypeOK'
  BY <1>1, <1>3, <1>4 DEF TypeOK, RRTypeOK, interrupts_on, exit_call, dispatch_exception,
         syscall_no_mem, die, load_init, jump_in
<1>6. /\ CpuRunsCurrent' /\ ReadyContextsValid' /\ PidsUnique' /\ ListInPidOrder'
      /\ ForkResults'
  BY <1>1, <1>2, <1>3 DEF CpuRunsCurrent, ReadyContextsValid, PidsUnique,
         ListInPidOrder, ForkResults
<1>9. ForkContexts'
  <2>1. \A p \in nodes : p # cur => mode'[p] = mode[p]
    BY <1>2 DEF interrupts_on, exit_call, dispatch_exception, syscall_no_mem,
         die, load_init, jump_in, procVars, TypeOK, RRTypeOK
  <2> QED BY <1>1, <2>1 DEF ForkContexts
<1>7. ListedProcesses'
  BY <1>1, <1>4 DEF ListedProcesses
<1>8. UserModeInterruptible'
  BY <1>1, <1>2, <1>3 DEF UserModeInterruptible, interrupts_on, exit_call,
         dispatch_exception, syscall_no_mem, die, load_init, jump_in, procVars, TypeOK
<1> QED BY <1>5, <1>6, <1>7, <1>8, <1>9

(* What get_next_process selects is on the list.                           *)
LEMMA SuccessorListed == SchedInv /\ cur # NULL => Successor \in nodes
BY DEF SchedInv, Successor, ListInPidOrder, ListedProcesses

(* A context switch: prev's context is saved from the processor, the next  *)
(* one's restored.                                                         *)
LEMMA SwitchSched ==
  ASSUME SchedInv, cur # NULL, Successor # cur,
         get_next_process, switch_to(cur, Successor),
         ticks' \in 0..(PowerOfTwo[TickBits] - 1), UNCHANGED <<next_pid, pid, halted>>
  PROVE  SchedInv'
<1> DEFINE nxt == Successor
<1>1. nxt \in nodes /\ nxt # cur /\ cur \in nodes /\ nodes \in SUBSET Process
  BY SuccessorListed DEF SchedInv, ListedProcesses, TypeOK, RRTypeOK
<1>2. /\ cpu.stack = cur /\ cpu.cr3 = cur
      /\ saved[nxt].resume # "none" /\ saved[nxt].stack = nxt /\ saved[nxt].cr3 = nxt
  BY <1>1 DEF SchedInv, CpuRunsCurrent, ReadyContextsValid
<1>3. /\ cur' = nxt /\ tss' = nxt
      /\ UNCHANGED <<list_head, next, nodes, next_pid, pid, halted>>
  BY DEF get_next_process, switch_to
<1> HIDE DEF nxt
<1>4. /\ saved' = [saved EXCEPT ![cur] = [resume |-> "switch_to", stack |-> cur,
                                         cr3 |-> cur, ppid |-> NoResult]]
      /\ cpu' = [stack |-> nxt, cr3 |-> nxt, intr |-> saved[nxt].resume # "enter_kernel"]
      /\ mode' = [mode EXCEPT ![nxt] = ModeAfter(nxt)]
      /\ fork_result' = IF saved[nxt].resume = "prepare"
                          THEN [fork_result EXCEPT ![nxt] =
                                  IF pid[nxt] # saved[nxt].ppid THEN 0 ELSE pid[nxt]]
                          ELSE fork_result
  BY <1>2 DEF switch_to, nxt
<1>5. saved \in [Process -> Context] /\ saved' \in [Process -> Context]
  BY <1>1, <1>4 DEF SchedInv, TypeOK, Context, ResumePoint, Pointer, NoResult
<1>6. /\ ModeAfter(nxt) \in Mode \ {"none"}
      /\ saved[nxt].resume = "enter_kernel" => ModeAfter(nxt) = "kernel"
  BY <1>1, <1>5 DEF ModeAfter, Mode, SchedInv, ListedProcesses, TypeOK
<1>7. saved[nxt].resume = "prepare" =>
        /\ fork_result' = [fork_result EXCEPT ![nxt] = 0]
        /\ pid[nxt] > 0
  <2> SUFFICES ASSUME saved[nxt].resume = "prepare"
               PROVE  fork_result' = [fork_result EXCEPT ![nxt] = 0] /\ pid[nxt] > 0
    OBVIOUS
  <2>1. saved[nxt].ppid \in 0..(pid[nxt] - 1)
    BY <1>1 DEF SchedInv, ForkContexts
  <2>2. pid[nxt] \in Int
    BY <1>1 DEF SchedInv, TypeOK
  <2>3. pid[nxt] > 0 /\ pid[nxt] # saved[nxt].ppid
    BY <2>1, <2>2
  <2>4. (IF pid[nxt] # saved[nxt].ppid THEN 0 ELSE pid[nxt]) = 0
    BY <2>3
  <2> QED BY <1>4, <2>3, <2>4
<1>8. TypeOK'
  <2>1. fork_result' \in [Process -> Int]
    BY <1>1, <1>4, <1>7 DEF SchedInv, TypeOK
  <2>2. mode' \in [Process -> Mode] /\ tss' \in Pointer
    BY <1>1, <1>3, <1>4, <1>6 DEF SchedInv, TypeOK, Pointer
  <2>3. cpu' \in [stack : Pointer, cr3 : Pointer, intr : BOOLEAN]
    BY <1>1, <1>4 DEF Pointer
  <2>4. RRTypeOK'
    BY <1>1, <1>3 DEF SchedInv, TypeOK, RRTypeOK, Pointer
  <2> QED BY <1>3, <1>5, <2>1, <2>2, <2>3, <2>4 DEF SchedInv, TypeOK
<1>9. CpuRunsCurrent' /\ ReadyContextsValid'
  BY <1>1, <1>2, <1>3, <1>4 DEF SchedInv, TypeOK, CpuRunsCurrent, ReadyContextsValid
<1>10. PidsUnique' /\ ListInPidOrder'
  BY <1>3 DEF SchedInv, PidsUnique, ListInPidOrder
<1>11. ForkContexts'
  <2>1. \A p \in nodes : p # nxt => mode'[p] = mode[p]
    BY <1>1, <1>4 DEF SchedInv, TypeOK
  <2>2. /\ saved'[cur].resume = "switch_to"
        /\ \A p \in nodes : p # cur => saved'[p] = saved[p]
    BY <1>1, <1>4, <1>5
  <2> QED BY <1>1, <1>3, <2>1, <2>2 DEF SchedInv, ForkContexts
<1>12. ForkResults'
  <2>1. CASE saved[nxt].resume = "prepare"
    BY <2>1, <1>1, <1>3, <1>7 DEF SchedInv, ForkResults, ListedProcesses, TypeOK
  <2>2. CASE saved[nxt].resume # "prepare"
    BY <2>2, <1>3, <1>4 DEF SchedInv, ForkResults
  <2> QED BY <2>1, <2>2
<1>13. nxt = Process0 => mode'[Process0] = "kernel"
  <2> SUFFICES ASSUME nxt = Process0 PROVE ModeAfter(nxt) = "kernel"
    BY <1>1, <1>4 DEF SchedInv, TypeOK
  <2>1. mode[Process0] = "kernel" /\ pid[Process0] = 0
    BY DEF SchedInv, ListedProcesses
  <2>2. saved[Process0].resume # "prepare"
    BY <1>7, <2>1
  <2>3. saved[Process0].resume # "enter_user"
    BY DEF SchedInv, ListedProcesses
  <2> QED BY <2>1, <2>2, <2>3 DEF ModeAfter
<1>14. ListedProcesses'
  BY <1>1, <1>3, <1>4, <1>6, <1>7, <1>13, NullAssumption DEF SchedInv, ListedProcesses, TypeOK
<1>15. UserModeInterruptible'
  BY <1>1, <1>3, <1>4, <1>6 DEF SchedInv, UserModeInterruptible, TypeOK
<1> QED BY <1>8, <1>9, <1>10, <1>11, <1>12, <1>14, <1>15 DEF SchedInv

(* The timer interrupt: a tick, and a context switch when the mask says so *)
(* and there is another process to switch to.                              *)
LEMMA TimerSched == SchedInv /\ timer_interrupt_handler => SchedInv'
<1> SUFFICES ASSUME SchedInv, timer_interrupt_handler PROVE SchedInv'
  OBVIOUS
<1>1. ticks' \in 0..(PowerOfTwo[TickBits] - 1)
  <2> DEFINE m == PowerOfTwo[TickBits]
  <2>1. m \in Nat \ {0} /\ ticks \in 0..(m - 1)
    BY TickAssumption DEF SchedInv, TypeOK
  <2>2. ticks' = (ticks + 1) % m
    BY DEF timer_interrupt_handler
  <2> HIDE DEF m
  <2>3. ticks' \in 0..(m - 1)
    BY <2>1, <2>2
  <2> QED BY <2>3 DEF m
<1>2. UNCHANGED <<next_pid, pid, halted>>
  BY DEF timer_interrupt_handler
<1>3. CASE Reschedules(ticks') /\ context_switch /\ cur # NULL /\ Successor # cur
  <2>1. Successor # NULL
    BY <1>3, SuccessorListed, NullAssumption DEF SchedInv, TypeOK, RRTypeOK
  <2>2. get_next_process /\ switch_to(cur, Successor)
    BY <1>3, <2>1 DEF context_switch
  <2> QED BY <1>1, <1>2, <1>3, <2>2, SwitchSched
<1>4. CASE ~(Reschedules(ticks') /\ context_switch /\ cur # NULL /\ Successor # cur)
  <2>1. UNCHANGED <<list_head, next, cur, nodes, saved, tss, cpu, mode, fork_result>>
    BY <1>4 DEF timer_interrupt_handler, context_switch, get_next_process,
                rrVars, Successor
  <2> QED BY <1>1, <1>2, <2>1
          DEF SchedInv, TypeOK, RRTypeOK, CpuRunsCurrent, ReadyContextsValid,
              PidsUnique, ListInPidOrder, ListedProcesses, ForkContexts,
              ForkResults, UserModeInterruptible
<1> QED BY <1>3, <1>4

LEMMA StepSched == SchedInv /\ [Next]_vars => SchedInv'
<1> SUFFICES ASSUME SchedInv, [Next]_vars PROVE SchedInv'
  OBVIOUS
<1>1. CASE put_process0
  BY <1>1, PutProcess0Sched
<1>2. ASSUME NEW child \in Process, NEW k \in BOOLEAN, new_process(child, k)
      PROVE  SchedInv'
  BY <1>2, NewProcessSched
<1>3. ASSUME NEW child \in Process, fork_process(child)
      PROVE  SchedInv'
  BY <1>3, ForkSched
<1>4. CASE \/ interrupts_on \/ exit_call \/ dispatch_exception
           \/ syscall_no_mem \/ load_init
  BY <1>4, CpuStepSched
<1>5. CASE timer_interrupt_handler
  BY <1>5, TimerSched
<1>6. CASE UNCHANGED vars
  BY <1>6 DEF vars, rrVars, procVars, cpuVars, SchedInv, TypeOK, RRTypeOK,
              CpuRunsCurrent, ReadyContextsValid, PidsUnique, ListInPidOrder,
              ListedProcesses, ForkContexts, ForkResults, UserModeInterruptible
<1> QED BY <1>1, <1>2, <1>3, <1>4, <1>5, <1>6 DEF Next

(* The invariant of the scheduler: it holds whatever order of creations,   *)
(* forks, failures and timer interrupts the machine goes through.          *)
THEOREM SchedInvariant == Spec => []SchedInv
<1>1. Init => SchedInv
  BY InitSched
<1>2. SchedInv /\ [Next]_vars => SchedInv'
  BY StepSched
<1> QED BY <1>1, <1>2, PTL DEF Spec

(* Every variable of the scheduler keeps its type.                         *)
THEOREM TypeCorrect == Spec => []TypeOK
<1>1. SchedInv => TypeOK
  BY DEF SchedInv
<1> QED BY <1>1, SchedInvariant, PTL

(* After any number of switches the stack in use, the page table loaded    *)
(* and the stack in the TSS are those of the policy's current process.     *)
THEOREM CpuRunsTheCurrentProcess == Spec => []CpuRunsCurrent
<1>1. SchedInv => CpuRunsCurrent
  BY DEF SchedInv
<1> QED BY <1>1, SchedInvariant, PTL

(* A process that waits on the list resumes on its own stack and in its    *)
(* own address space, at a point that prepare or switch_to saved.          *)
THEOREM WaitingProcessesCanResume == Spec => []ReadyContextsValid
<1>1. SchedInv => ReadyContextsValid
  BY DEF SchedInv
<1> QED BY <1>1, SchedInvariant, PTL

(* The policy's list is intact: it is ordered by pid, so it holds every    *)
(* process once, has no cycle and ends at process 0; pids are unique.      *)
THEOREM ListIntact == Spec => [](ListInPidOrder /\ PidsUnique)
<1>1. SchedInv => ListInPidOrder /\ PidsUnique
  BY DEF SchedInv
<1> QED BY <1>1, SchedInvariant, PTL

(* fork returns the child's pid to the parent and 0 only to a child.       *)
THEOREM ForkTellsApart == Spec => []ForkResults
<1>1. SchedInv => ForkResults
  BY DEF SchedInv
<1> QED BY <1>1, SchedInvariant, PTL

(* A user program never runs with the interrupt flag clear.                *)
THEOREM UserModeIsInterruptible == Spec => []UserModeInterruptible
<1>1. SchedInv => UserModeInterruptible
  BY DEF SchedInv
<1> QED BY <1>1, SchedInvariant, PTL

(* Only the first dispatch of a forked child makes its fork return 0: no   *)
(* parent ever takes the child's path through fork_process.                *)
THEOREM ZeroOnlyInTheChild == Spec => ZeroOnFirstDispatchOnly
<1> DEFINE Step == \A p \in Process :
                     fork_result'[p] = 0 /\ fork_result[p] # 0 => mode[p] = "new"
<1>1. SchedInv /\ [Next]_vars => [Step]_vars
  <2> SUFFICES ASSUME SchedInv, Next, NEW p \in Process,
                      fork_result'[p] = 0, fork_result[p] # 0
               PROVE  mode[p] = "new"
    OBVIOUS
  <2>1. CASE timer_interrupt_handler
    <3>1. /\ cur # NULL /\ Successor # cur
          /\ switch_to(cur, Successor)
      BY <2>1 DEF timer_interrupt_handler, context_switch
    <3>2. p = Successor /\ saved[p].resume = "prepare"
      BY <3>1 DEF switch_to, SchedInv, TypeOK
    <3>3. p \in nodes
      BY <3>1, <3>2, SuccessorListed
    <3> QED BY <3>1, <3>2, <3>3 DEF SchedInv, ForkContexts
  <2>2. ASSUME NEW child \in Process, fork_process(child)
        PROVE  FALSE
    <3>1. next_pid # 0
      BY DEF SchedInv, ListedProcesses
    <3> QED BY <2>2, <3>1 DEF fork_process, SchedInv, TypeOK
  <2>3. CASE fork_result' = fork_result
    BY <2>3
  <2> QED BY <2>1, <2>2, <2>3
          DEF Next, put_process0, interrupts_on, new_process, exit_call,
              dispatch_exception, syscall_no_mem, die, load_init, procVars
<1> QED BY <1>1, SchedInvariant, PTL DEF Spec, ZeroOnFirstDispatchOnly

-----------------------------------------------------------------------------
(* The policy by itself, under any sequence of calls its interface allows. *)

(* The list that starts at hd and follows nx is s, of length k, and holds  *)
(* the members of S, each once.                                            *)
ListedAs(s, k, S, hd, nx) ==
  /\ s \in [1..k -> S]
  /\ \A i, j \in 1..k : i # j => s[i] # s[j]
  /\ \A p \in S : \E i \in 1..k : s[i] = p
  /\ hd = IF k = 0 THEN NULL ELSE s[1]
  /\ \A i \in 1..k : nx[s[i]] = IF i < k THEN s[i + 1] ELSE NULL

(* IsFiniteSet and Cardinality are there because the length of the list is *)
(* the number of nodes.                                                    *)
ListInv ==
  /\ nodes \subseteq Process /\ IsFiniteSet(nodes)
  /\ next \in [Process -> Pointer]
  /\ \E s : ListedAs(s, Cardinality(nodes), nodes, list_head, next)

-----------------------------------------------------------------------------
LEMMA InitList == RRInit => ListInv
<1>. SUFFICES ASSUME RRInit PROVE ListInv
  OBVIOUS
<1>1. nodes = {} /\ list_head = NULL /\ next = [p \in Process |-> NULL]
  BY DEF RRInit
<1>2. IsFiniteSet(nodes) /\ Cardinality(nodes) = 0
  BY <1>1, FS_EmptySet
<1>3. ListedAs([i \in 1..0 |-> NULL], 0, nodes, list_head, next)
  BY <1>1 DEF ListedAs
<1>. QED
  BY <1>1, <1>2, <1>3 DEF ListInv, Pointer

(* A process that is not on the list goes to its head.                     *)
LEMMA PushList ==
  ASSUME ListInv, NEW p \in Process, PushNew(p)
  PROVE  ListInv'
<1>1. /\ p \notin nodes
      /\ next' = [next EXCEPT ![p] = list_head]
      /\ list_head' = p /\ nodes' = nodes \cup {p}
  BY DEF PushNew, push_new
<1>. DEFINE k == Cardinality(nodes)
<1>2. /\ nodes \subseteq Process /\ IsFiniteSet(nodes) /\ next \in [Process -> Pointer]
      /\ k \in Nat
  BY FS_CardinalityType DEF ListInv
<1>3. PICK s : ListedAs(s, k, nodes, list_head, next)
  BY DEF ListInv
<1>4. IsFiniteSet(nodes') /\ Cardinality(nodes') = k + 1
  BY <1>1, <1>2, FS_AddElement
<1>. HIDE DEF k
<1>5. /\ s \in [1..k -> nodes]
      /\ \A i, j \in 1..k : i # j => s[i] # s[j]
      /\ \A q \in nodes : \E i \in 1..k : s[i] = q
      /\ list_head = IF k = 0 THEN NULL ELSE s[1]
      /\ \A i \in 1..k : next[s[i]] = IF i < k THEN s[i + 1] ELSE NULL
  BY <1>3 DEF ListedAs
<1>6. list_head \in Pointer
  BY <1>2, <1>5 DEF Pointer
<1>7. next' \in [Process -> Pointer]
  BY <1>1, <1>2, <1>6
<1>. DEFINE t == [i \in 1..(k + 1) |-> IF i = 1 THEN p ELSE s[i - 1]]
<1>8. /\ t[1] = p
      /\ \A i \in 1..k : t[i + 1] = s[i]
      /\ \A i \in 1..(k + 1) : i = 1 \/ (i - 1 \in 1..k /\ t[i] = s[i - 1])
  BY <1>2
<1>9. t \in [1..(k + 1) -> nodes']
  BY <1>1, <1>2, <1>5
<1>. HIDE DEF t
<1>10. \A i, j \in 1..(k + 1) : i # j => t[i] # t[j]
  BY <1>1, <1>2, <1>5, <1>8
<1>11. \A q \in nodes' : \E i \in 1..(k + 1) : t[i] = q
  <2>1. ASSUME NEW q \in nodes PROVE \E i \in 1..(k + 1) : t[i] = q
    <3>1. PICK i \in 1..k : s[i] = q
      BY <1>5
    <3>. QED
      BY <3>1, <1>2, <1>8
  <2>2. 1 \in 1..(k + 1)
    BY <1>2
  <2>. QED
    BY <2>1, <2>2, <1>1, <1>8
<1>12. \A i \in 1..(k + 1) : next'[t[i]] = IF i < k + 1 THEN t[i + 1] ELSE NULL
  <2>1. next'[p] = list_head /\ \A q \in nodes : next'[q] = next[q]
    BY <1>1, <1>2
  <2>2. ASSUME NEW i \in 1..(k + 1), i = 1
        PROVE  next'[t[i]] = IF i < k + 1 THEN t[i + 1] ELSE NULL
    BY <2>1, <2>2, <1>2, <1>5, <1>8
  <2>3. ASSUME NEW i \in 1..(k + 1), i # 1
        PROVE  next'[t[i]] = IF i < k + 1 THEN t[i + 1] ELSE NULL
    <3>1. i - 1 \in 1..k /\ t[i] = s[i - 1] /\ s[i - 1] \in nodes
      BY <2>3, <1>5, <1>8
    <3>2. next'[t[i]] = IF i - 1 < k THEN s[(i - 1) + 1] ELSE NULL
      BY <3>1, <2>1, <1>5
    <3>3. (i - 1) + 1 = i /\ (i - 1 < k <=> i < k + 1)
      BY <2>3, <1>2
    <3>4. i < k + 1 => i \in 1..k /\ t[i + 1] = s[i]
      BY <1>2, <1>8
    <3>. QED
      BY <3>2, <3>3, <3>4
  <2>. QED
    BY <2>2, <2>3
<1>13. ListedAs(t, k + 1, nodes', list_head', next')
  BY <1>1, <1>2, <1>8, <1>9, <1>10, <1>11, <1>12 DEF ListedAs
<1>. QED
  BY <1>1, <1>2, <1>4, <1>7, <1>13 DEF ListInv, Pointer

(* A node is unlinked at the head, in the middle or at the end.            *)
LEMMA RemoveList ==
  ASSUME ListInv, NEW p \in Process, RemoveOther(p)
  PROVE  ListInv'
<1>1. /\ p \in nodes /\ nodes' = nodes \ {p}
      /\ list_head = p => list_head' = next[p] /\ next' = next
      /\ list_head # p =>
           /\ list_head' = list_head
           /\ next' = [q \in Process |->
                         IF q \in nodes /\ next[q] = p THEN next[p] ELSE next[q]]
  BY DEF RemoveOther, remove
<1>. DEFINE k == Cardinality(nodes)
<1>2. /\ nodes \subseteq Process /\ IsFiniteSet(nodes) /\ next \in [Process -> Pointer]
      /\ k \in Nat
  BY FS_CardinalityType DEF ListInv
<1>3. PICK s : ListedAs(s, k, nodes, list_head, next)
  BY DEF ListInv
<1>4. IsFiniteSet(nodes') /\ Cardinality(nodes') = k - 1
  BY <1>1, <1>2, FS_RemoveElement
<1>. HIDE DEF k
<1>5. /\ s \in [1..k -> nodes]
      /\ \A i, j \in 1..k : i # j => s[i] # s[j]
      /\ \A q \in nodes : \E i \in 1..k : s[i] = q
      /\ list_head = IF k = 0 THEN NULL ELSE s[1]
      /\ \A i \in 1..k : next[s[i]] = IF i < k THEN s[i + 1] ELSE NULL
  BY <1>3 DEF ListedAs
<1>6. PICK m \in 1..k : s[m] = p
  BY <1>1, <1>5
<1>7. NULL \notin nodes /\ k - 1 \in Nat /\ k > 0
  BY <1>2, <1>6, NullAssumption
<1>8. next' \in [Process -> Pointer]
  BY <1>1, <1>2
<1>9. list_head = p <=> m = 1
  <2>1. list_head = s[1] /\ 1 \in 1..k
    BY <1>2, <1>5, <1>7
  <2>2. m = 1 => list_head = p
    BY <2>1, <1>6
  <2>3. m # 1 => s[1] # s[m]
    BY <2>1, <1>5
  <2>. QED
    BY <2>1, <2>2, <2>3, <1>6
<1>. DEFINE t == [i \in 1..(k - 1) |-> IF i < m THEN s[i] ELSE s[i + 1]]
<1>10. \A i \in 1..(k - 1) : /\ i \in 1..k /\ i + 1 \in 1..k
                             /\ i < m => t[i] = s[i]
                             /\ ~(i < m) => t[i] = s[i + 1] /\ i + 1 # m
  BY <1>2, <1>6
<1>11. t \in [1..(k - 1) -> nodes']
  <2>1. \A i \in 1..(k - 1) : t[i] \in nodes /\ t[i] # p
    BY <1>5, <1>6, <1>10
  <2>. QED
    BY <2>1, <1>1
<1>. HIDE DEF t
<1>12. \A i, j \in 1..(k - 1) : i # j => t[i] # t[j]
  BY <1>2, <1>5, <1>6, <1>10
<1>13. \A q \in nodes' : \E i \in 1..(k - 1) : t[i] = q
  <2>1. SUFFICES ASSUME NEW q \in nodes, q # p PROVE \E i \in 1..(k - 1) : t[i] = q
    BY <1>1
  <2>2. PICK i \in 1..k : s[i] = q
    BY <1>5
  <2>3. i # m
    BY <2>1, <2>2, <1>6
  <2>4. CASE i < m
    <3>1. i \in 1..(k - 1)
      BY <2>4, <1>2, <1>6
    <3>. QED
      BY <3>1, <2>2, <2>4, <1>10
  <2>5. CASE i > m
    <3>1. i - 1 \in 1..(k - 1) /\ ~(i - 1 < m) /\ (i - 1) + 1 = i
      BY <2>5, <1>2, <1>6
    <3>. QED
      BY <3>1, <2>2, <1>10
  <2>. QED
    BY <2>3, <2>4, <2>5, <1>6
<1>14. next[p] = IF m < k THEN s[m + 1] ELSE NULL
  BY <1>5, <1>6
<1>15. (* Who is linked to p, and where the others' links go.              *)
       \A i \in 1..k : i # m =>
         next'[s[i]] = IF i + 1 = m THEN next[p] ELSE next[s[i]]
  <2>1. SUFFICES ASSUME NEW i \in 1..k, i # m
                 PROVE  next'[s[i]] = IF i + 1 = m THEN next[p] ELSE next[s[i]]
    OBVIOUS
  <2>2. s[i] \in nodes /\ s[i] \in Process
    BY <1>2, <1>5
  <2>3. next[s[i]] = p <=> i + 1 = m
    BY <1>2, <1>5, <1>6, <1>7
  <2>4. CASE m = 1
    BY <2>4, <1>1, <1>9
  <2>5. CASE m # 1
    BY <2>2, <2>3, <2>5, <1>1, <1>9
  <2>. QED
    BY <2>4, <2>5
<1>16. \A i \in 1..(k - 1) : next'[t[i]] = IF i < k - 1 THEN t[i + 1] ELSE NULL
  <2>1. SUFFICES ASSUME NEW i \in 1..(k - 1)
                 PROVE  next'[t[i]] = IF i < k - 1 THEN t[i + 1] ELSE NULL
    OBVIOUS
  <2>2. CASE i + 1 < m
    <3>1. t[i] = s[i] /\ i \in 1..k /\ i # m /\ i + 1 # m /\ i < k - 1 /\ i < k
      BY <2>2, <1>2, <1>6, <1>10
    <3>2. i + 1 \in 1..(k - 1) /\ t[i + 1] = s[i + 1]
      BY <2>2, <3>1, <1>2, <1>10
    <3>. QED
      BY <3>1, <3>2, <1>5, <1>15
  <2>3. CASE i + 1 = m
    <3>1. t[i] = s[i] /\ i \in 1..k /\ i # m
      BY <2>3, <1>2, <1>6, <1>10
    <3>2. next'[t[i]] = IF m < k THEN s[m + 1] ELSE NULL
      BY <3>1, <2>3, <1>14, <1>15
    <3>3. m < k => m \in 1..(k - 1) /\ t[m] = s[m + 1]
      BY <1>2, <1>6, <1>10
    <3>4. m < k <=> i < k - 1
      BY <2>3, <1>2, <1>6
    <3>. QED
      BY <2>3, <3>2, <3>3, <3>4
  <2>4. CASE ~(i < m)
    <3>1. t[i] = s[i + 1] /\ i + 1 \in 1..k /\ i + 1 # m /\ (i + 1) + 1 # m
      BY <2>4, <1>2, <1>6, <1>10
    <3>2. next'[t[i]] = IF i + 1 < k THEN s[(i + 1) + 1] ELSE NULL
      BY <3>1, <1>5, <1>15
    <3>3. i < k - 1 => i + 1 \in 1..(k - 1) /\ t[i + 1] = s[(i + 1) + 1]
      BY <2>4, <1>2, <1>6, <1>10
    <3>4. i + 1 < k <=> i < k - 1
      BY <1>2
    <3>. QED
      BY <3>2, <3>3, <3>4
  <2>5. i + 1 < m \/ i + 1 = m \/ ~(i < m)
    BY <1>6
  <2>. QED
    BY <2>2, <2>3, <2>4, <2>5
<1>17. list_head' = IF k - 1 = 0 THEN NULL ELSE t[1]
  <2>1. CASE m = 1
    <3>1. list_head' = IF 1 < k THEN s[2] ELSE NULL
      BY <2>1, <1>1, <1>9, <1>14
    <3>2. 1 < k => 1 \in 1..(k - 1) /\ t[1] = s[2]
      BY <2>1, <1>2, <1>10
    <3>. QED
      BY <3>1, <3>2, <1>2, <1>7
  <2>2. CASE m # 1
    <3>1. list_head' = s[1] /\ 1 \in 1..(k - 1) /\ 1 < m
      BY <2>2, <1>1, <1>2, <1>5, <1>6, <1>7, <1>9
    <3>2. t[1] = s[1]
      BY <3>1, <1>10
    <3>. QED
      BY <3>1, <3>2, <1>7
  <2>. QED
    BY <2>1, <2>2
<1>18. ListedAs(t, k - 1, nodes', list_head', next')
  BY <1>11, <1>12, <1>13, <1>16, <1>17 DEF ListedAs
<1>. QED
  BY <1>1, <1>2, <1>4, <1>8, <1>18 DEF ListInv, Pointer

LEMMA StepList == ListInv /\ [RRNext]_rrVars => ListInv'
<1>. SUFFICES ASSUME ListInv, [RRNext]_rrVars PROVE ListInv'
  OBVIOUS
<1>1. CASE UNCHANGED <<list_head, next, nodes>>
  BY <1>1 DEF ListInv, Pointer
<1>2. CASE \E p \in Process : PushNew(p) \/ RemoveOther(p)
  BY <1>2, PushList, RemoveList
<1>. QED
  BY <1>1, <1>2 DEF RRNext, get_next_process, rrVars

-----------------------------------------------------------------------------
(* Theorems *)

(* Some sequence of all the nodes is what the links from list_head spell.  *)
THEOREM ListInvariant == RRSpec => []ListInv
  BY InitList, StepList, PTL DEF RRSpec

(* However often processes are pushed, removed and pushed again, no node   *)
(* is lost, linked twice or left behind in the list after its deletion     *)
(* (push_new, remove).                                                     *)
THEOREM ListKeepsNodes == RRSpec => []ListHoldsNodesOnce
<1>1. ASSUME ListInv PROVE ListHoldsNodesOnce
  <2>. DEFINE k == Cardinality(nodes)
  <2>1. k \in Nat
    BY <1>1, FS_CardinalityType DEF ListInv
  <2>2. PICK s : ListedAs(s, k, nodes, list_head, next)
    BY <1>1 DEF ListInv
  <2>3. s \in SetToSeqs(nodes)
    BY <2>2 DEF ListedAs, SetToSeqs
  <2>. HIDE DEF k
  <2>4. s \in Seq(nodes) /\ Len(s) = k
    BY <2>1, <2>2 DEF ListedAs
  <2>5. s = << >> <=> k = 0
    BY <2>1, <2>4
  <2>6. /\ list_head = IF s = << >> THEN NULL ELSE s[1]
        /\ \A i \in 1..Len(s) : next[s[i]] = IF i < Len(s) THEN s[i + 1] ELSE NULL
    BY <2>2, <2>4, <2>5 DEF ListedAs
  <2>. QED
    BY <2>3, <2>6 DEF ListHoldsNodesOnce
<1>. QED
  BY <1>1, ListInvariant, PTL
=============================================================================
