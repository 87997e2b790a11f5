# A TLA+ model of the iPosix kernel

iPosix is a small x86 teaching kernel in C++ (`src/bsp14_d/iposix`). This
directory models the parts of it that keep state across interrupts, system
calls and processes, model-checks them with TLC and proves the most important
properties with TLAPS for every value of the constants. Paths below are
relative to `src/bsp14_d/iposix/src/kern/`.

## The system

One processor, physical memory from the multiboot map, a timer, a keyboard and
ATA disks. Templates select the policies: round robin scheduling, the
`splitted` memory policy below the `virtual` one. All interrupt gates clear the
interrupt flag, so the kernel is not preempted inside a system call or a
handler. Concurrency arises in three places: the timer interrupt switches
between user programs (and process 0, which idles with interrupts on); the
keyboard and timer interrupts hit kernel code that runs with interrupts on
(`timer::wait`, and the console reads of `tests/i_fs_test.cpp`); and a scancode
is queued by one interrupt and decoded by a system call much later.

| component | state | operations | interacts with |
|---|---|---|---|
| round robin policy (`include/scheduler/policies/round_robin.hpp`) | linked list, `cur` | `push_new`, `get_next_process`, `remove` | scheduler |
| scheduler (`scheduler/i_scheduler.cpp`, `arch/x86/scheduler/scheduler.cpp`) | `next_pid`, saved esp/eip/cr3 of each process, TSS | `put_process0`, `new_process`, `fork_process`, `context_switch`, `switch_to`, `exit_process` (a stub) | policy, timer, system calls, address spaces |
| process, address space (`arch/x86/scheduler/process.cpp`, `arch/x86/vm/`) | page directory and tables, heap bounds, stack | copy (fork), reset and load (execve), grow (sbrk) | virtual memory, system calls |
| timer (`arch/x86/devices/timer.*`) | 64-bit `ticks` | interrupt handler, `wait`, `set_frequency` | scheduler |
| keyboard (`arch/x86/devices/keyboard.*`) | ring of scancodes with two indices; modifier, caps lock and escape states | interrupt, `get_next_event`, `get_next_key` | console |
| splitted memory (`include/mm/policies/splitted.hpp`) | list of free/used structures, page bitmap, bounds of heap and pages | `kernel_malloc`, `kernel_free`, `page_alloc`, `page_free` | virtual memory, C++ runtime |
| virtual memory (`include/mm/policies/virtual.hpp`) | none of its own | `vmalloc` and `kfree`: a frame for every page, rollback when there are too few | splitted memory, processes |
| virtual file system (`fs/i_fs*.cpp`) | map of open nodes with use counts, mount map | look up a path, open, close, mount | file handles, FAT, devices |
| file handles (`include/fs/filehandle*.hpp`) | position, node; descriptors of each process | open, close, read, write, seek, fork's copy | system calls, virtual file system |
| FAT (`fs/fat_fs*.cpp`) | cluster table, directory entries | follow chains, cluster I/O | block devices |
| block devices, partitions (`devices/`, `fs/dev_fs*`) | nodes with bounds | cut a byte range into blocks, crawl the partition tables | ATA, FAT |
| ATA (`arch/x86/ata/`) | selected drive, ports | commands and data by polling, with timeouts | block devices |
| interrupt entry and dispatch (`arch/x86/core/`) | frames on the stacks, the two 8259A | entry, acknowledge, dispatch by number, return | scheduler, timer, keyboard, system calls |
| system calls (`syscalls/`) | none of their own | dispatch by number | everything |
| ELF loader (`elf/`, `arch/x86/elf/`) | none of its own | load segments, `jump_in` | VFS, address space |
| video, sound, serial port, logger, boot, C/C++ runtime | device state | I/O, start-up | - |

What is hard: the three-way agreement of policy, saved contexts and processor
after any order of forks and preemptions; a fork that returns twice, on a copied
stack; accesses that an interrupt can split (the ring's index, the two halves of
`ticks`); key sequences cut by a full buffer or by a poll at the wrong moment;
heap and pages growing towards each other with the bounds moved by either side;
files shared by fork and closed in any order; allocations of many pages, and
copies of address spaces, that fail in the middle; a drive that answers after
the wait for it gave up, or does not hear that the other one was selected; a
handler that switches to another process before it returns, or faults.
`PROJECT.json` lists these hazards line by line.

What makes each component correct: the policy keeps every process on its list
once and passes over none; the scheduler runs the process the policy names, on
its own stack and page table, and forks tell parent and child apart; the timer
bounds a quantum and a wait lasts as long as it was asked to; the ring delivers
what it stored in order; the decoder's modifiers follow the keys; the heap is
tiled by its structures, never overlaps a page, and no page has two owners; a
file node lives while a handle refers to it; a fork copies memory and shares
files, and no frame serves two purposes; a cluster chain stays inside its file;
a transfer touches the range and the drive it was asked for, and returns; an
interrupt is acknowledged before its handler can switch away, and taken up
eventually; only a fault interrupts a handler.

## Modules

| module | models | extends |
|---|---|---|
| `RoundRobin` | the policy: its operations as actions on `list_head`, `next`, `cur`, `nodes` | - |
| `RoundRobinClient` | the policy under every sequence of calls, removals included | `RoundRobin` |
| `TickMask` | the test `ticks & ticks_between_reschedulings() == 0` | - |
| `Scheduler` | processes, contexts, TSS, processor and the timer interrupt, composed with the policy | `RoundRobin`, `TickMask` |
| `Timer` | `ticks` as two words, its handler, and `wait` in single loads | `TickMask` |
| `KeyQueue` | abstract: a bounded queue that drops when full | - |
| `KeyboardBuffer` | the ring and a reader preempted at any access; implements `KeyQueue` | - |
| `Keyboard` | from keys to decoded characters over that queue | - |
| `SplittedMemory` | kernel heap, page bitmap, bounds, and the clients that hold blocks and pages | - |
| `Interrupts` | entry, dispatch, acknowledgement and return over the stacks of several processes | - |
| `FileTable` | abstract: descriptors with positions, copied by fork | - |
| `Files` | nodes, maps, handles, descriptors and the file calls; implements `FileTable` | - |
| `AtaController` | `run_command` by polling, and the drives of a bus with late answers and errors | - |
| `BlockDevice` | identification, partition nodes, byte ranges cut into blocks | `AtaController` |
| `Fat` | one file of a FAT volume: lookup, reads and writes across clusters | - |
| `PrivateMemory` | abstract: every process has a memory of its own | - |
| `AddressSpace` | page tables, `vmalloc`, fork, execve and sbrk; implements `PrivateMemory` | - |
| `Scheduler_proofs` | theorems about the scheduler and about the policy under every client | `Scheduler`, `RoundRobinClient` |
| `Interrupts_proofs` | theorems about the dispatch and about `wait` | `Interrupts`, `Timer` |
| `Keyboard_proofs` | theorems about the ring and about the decoder | `KeyboardBuffer`, `Keyboard` |
| `*_proofs` (the other 5) | theorems about `SplittedMemory`, `Files`, `BlockDevice`, `Fat`, `AddressSpace` | the module |
| `MC*` | what TLC instantiates | the module |

How state corresponds. A process object, its stack, its page table and its
list node carry the same name. `saved[p]` is what `process_schedule_data`
holds: where eip points (`resume`), whose stack esp is on, which page table cr3
is. `cpu` is the stack and page table in use and the interrupt flag; `tss` is
the owner of ESP0. A switch is one step: it runs with interrupts off up to the
`iret`. `mode` is what a process will execute when resumed. Creation has a
failing branch wherever the address space cannot be copied, after the pid was
taken; `exit`, an exception and an exhausted heap inside a system call end in
`die()`, which stops the machine: that is why `MCScheduler` does not check
deadlock. The model is cut at `MaxPid` pids.

In `Timer` the handler is one step (interrupts off), a read of `ticks` is two
loads in either order. In `KeyboardBuffer` `push_event` is one step;
`get_next_event` is split at every access to `buffer` and the indices, and
`buffer[buffer_out_index++]` takes both orders the language allows. `log` and
`taken` are history. In `Keyboard` the hardware side (which bytes a key sends)
follows the comments of `keyboard.h`; a decoded character is its key and the
column of `keyboard_german`; `caps_on`, `missed`, `lost`, `last` and `astray`
are history. `last` says what `get_next_key` was given before: an escape, the
release of an escaped key, a call on an empty buffer after an escape, or
something else. In `SplittedMemory` addresses are relative to `first_address`; a
request that fails changes nothing and is not a step; `live`, `pages` and
`tables` are what the clients hold, `null_write` and `passed_over` are history.

In `Interrupts` a frame is what `asm_isr_common_stuff` leaves on the stack of
the running process: the two numbers the dispatcher tells causes apart by, how
far its service is, and the flag `iret` restores. The controllers latch requests
and hold them while a line of higher priority is in service. A process that runs
for the first time goes through `entrance_function`: a user process enters user
mode with interrupts on, a kernel process (`run_in_kernel`, the one
`elf_loader_test` creates) keeps them off and is in `load_init` (`load`) until
its program is loaded and jumped into, or spins there when that fails. The
system call's handler follows the program's pointers as they are, so an
exception may interrupt it and lies on its frame. In `Files` a system call is
one step (interrupts off). A node is an object with its path, kind and use
count; it is destroyed when no map and no handle points to it. `find(x)->second`
without a comparison with `end()` is modelled as the null pointer the code
relies on. `forked` and `leaked` (paths) are history. In `AtaController` every
wait, port access and sector of `run_command` is a step, interleaved with the
drives; the drives are external, and `faults` counts the late answers and errors
they have given. What is written to the ports of a bus, the drive selector's
too, is ignored while the drive in use is busy and may be ignored while it asks
for data (`Taken`), and the code writes them after a wait that gave up as well.
`in_time` is history: the request began when the drives of its bus were idle,
and no wait has given up since. `BlockDevice` adds boot (identify, crawl the
partition tables, make nodes) and one request at a time: head block, whole
blocks, tail block. In `Fat` the allocation table, the file's size and what lies
behind the table in memory are arbitrary; only the chain of the file is required
to be well formed. In `AddressSpace` physical memory is what `splitted` shows to
these calls: frames taken from the top and the bound below which a free is
refused. The content of a page is one value, page tables and directories are
frames too, and `null_table` records that a missing page table was entered as
physical address 0, which ends the modelled behaviour.

Definitions marked *Faulty variant* are not used by any specification; they
are plausible mistakes in the code, and each property is known to fail with
one of them in place of the original.

## Runs

| run | configuration | shows |
|---|---|---|
| `scheduler` | 4 processes, quantum 2, pids below 5 | `CpuRunsCurrent`, `ReadyContextsValid`, `ListInPidOrder`, `ForkResults`, `UserModeInterruptible`, `ZeroOnFirstDispatchOnly`, `NoStarvation` |
| `round_robin` | 4 processes, any number of calls | `ListHoldsNodesOnce` |
| `timer` | words of 3 bits, mask 5, 20 ticks | `QuantumBounded`, `WaitsLongEnoughWithoutCarry`, `WaitReturns` |
| `keyboard_buffer` | ring of 3, 7 events | `FullMeansFull`, `PendingSlotKept`, `ImplementsQueue`, `StoredIsDelivered` |
| `keyboard` | 7 keys (both Alt keys), buffer of 3, 5 strokes | `ShiftFollowsKey`, `CapsFollowsPresses`, `DecodedAsTyped` |
| `memory` | 5 pages of 3 units, header 1, requests of 1, 2, 4 | `HeapTiled`, `Coalesced`, `BlocksBacked`, `PagesAccounted`, `BoundsSeparate` |
| `memory_bound` | 4 pages of 4 units | violated: heap and pages overlap after `page_free` moved the bound |
| `files` | 2 processes, 5 nodes, 2 handles, 3 descriptors, 2 uses | `HeldNodesOpen`, `UsesCountHolders`, `NothingStaysOpen`, `ImplementsFileTable` |
| `disk` | 2 drives of 6 and 4 sectors of 2 bytes on one bus, 2 requests of up to 5 and 2 whole blocks, 2 faults | `ReadDeliversContent`, `WriteChangesOnlyRange`, `DrivesKeptApart`, `RequestsReturn` |
| `fat` | 4 clusters of 2 bytes, every table, 2 transfers | `OnlyFileBytes`, `WholeRange`, `WritesStayInFile` |
| `address_space` | 2 processes, 11 frames, 4 programs, 5 calls | `FramesExclusive`, `SuccessLosesNothing`, `ImplementsPrivateMemory` |
| `interrupts` | 3 processes (the kernel, a kernel process, a user process), lines 0, 1 and 14, exceptions 14 and 18 | `InServiceOnlyAtEntry`, `OnlyFaultsNest`, `PendingIsServed` |

What some of the properties say. `DecodedAsTyped`: as long as no byte is
dropped, a character is decoded in the column that was meant when its key was
pressed, with three exceptions, each named by what the code was given before:
the release of an escaped key came last (it leaves `escaped` set, and the next
character is decoded as an escaped one); a call on an empty buffer came between
escape and code (and forgot the escape); or an Alt key's code was once in one of
these places, so that Alt and AltGr may be taken for each other.
`HeldNodesOpen`: a second open of a path finds the node the first one uses;
`UsesCountHolders`: use counts are the numbers of descriptors; both except for
paths whose handles fork has shared without counting. `NothingStaysOpen`: even
then, the last close takes the file out of the map. `ReadDeliversContent` and
`WriteChangesOnlyRange`: without faults a successful request moves exactly its
bytes, whatever its offset and length. `DrivesKeptApart`: whatever was late or
failed before, a request that begins when the drives of its bus are idle again,
and none of whose waits gives up, writes to no other drive; the condition is
needed, because after a wait that gave up the selector is written to a bus whose
drive ignores it, and the model reaches states where a block for one drive is
then written to the other. `RequestsReturn`: with faults too a request ends, as
long as its whole blocks are fewer than one command can count (`Fits`: 256, or
65536 with 48-bit addresses). Otherwise the count is cut down to the remainder,
in the end to 0, and the loop over the blocks goes on for ever. `OnlyFileBytes`,
`WritesStayInFile` and `WholeRange`: a transfer moves bytes of the file only,
each to its place, and none is left out as long as the table entries the code
tests agree with the chain. `FramesExclusive`: no frame has two uses and none in
use is handed out; `SuccessLosesNothing`: a call that reports success leaves no
frame in use that no table refers to (a page whose frame `page_free` refuses
stays mapped, so that frame is not lost, even by an execve that succeeds).
`InServiceOnlyAtEntry`: no line stays in service while a handler runs, nor in a
process that a handler switched to. `OnlyFaultsNest`: a second frame on a stack
is either an interrupt that came before the `cli` of a trap's routine, or an
exception raised by the system call's handler. `PendingIsServed`: a request of
the timer or the keyboard is taken up, unless the kernel died or a kernel
process spins after a failed load; nothing else leaves interrupts off for good.

Why the bounds are enough. Four processes give a head, a tail and inner nodes,
forks by forked children, and failed creations between successful ones (five
pids for four objects); quantum 2 with a two-bit counter has ticks that
reschedule and ticks that do not. Three-bit words carry twice within twenty
ticks, and a wait of 1 or 3 starts and ends on either side of a carry; mask 5
has a hole in its bits like 1000. Seven events wrap a ring of three slots more
than twice. A buffer of three bytes can lose either byte of a two-byte stroke;
five strokes press and release a modifier around two others, or an arrow before
a letter. Five pages of three units leave room for three or four structures,
merges on both sides and requests that no free structure fits, and a header of
one unit makes the remainder of a split hit its limit exactly. Two processes and
two handles on three descriptors let a fork share a handle, both sides close it
in either order, and the path be opened again while the other side holds it;
five nodes are the two roots, the console and two more, so that a path can get a
second node. Sectors of two bytes and ranges that start and end on either side
of a boundary give every combination of head, whole blocks and tail. A count
port of base 2 makes the limits small enough to pass: requests of 3 whole blocks
need a 48-bit command on one drive and are within its limit, one of 5 is beyond
it, and one of 2 is beyond that of the other drive. Address ports of base 4 wrap
as the real ones do, and two faults allow an answer that is late for one command
and meets the next, on the other drive. Four clusters give chains of one to
three clusters with gaps and foreign clusters between, and words that wrap at 8
reach the subtraction behind the end of the file. Eleven frames let two address
spaces be complete and a third allocation fail at any of its pages; the programs
include one that cannot be loaded and one that fills the memory. Three lines are
one the kernel handles with a switch, one it handles without, and a masked one;
the three processes are one of each kind, and one of the two exceptions is the
page fault.

The violated property is a statement of the repository's own comment, quoted in
`PROJECT.json`: `page_free` says it advances the bound until a page that is not
free, but its loop tests the page just freed each time. Next to it stands the
property that does hold, `BoundsSeparate`: the bounds separate heap and pages
until `page_free` has moved the bound over a page in use.

Fairness. `Scheduler`: the timer interrupt is delivered when it is enabled (the
programmable timer is periodic), boot goes on and a kernel process that loads a
program proceeds; `NoStarvation` additionally supposes that the interrupt flag
is set again and again, because a kernel process may spin with interrupts off
and `die()` stops for good. `Timer`: the timer fires and the waiting code runs.
`KeyboardBuffer`: the reader keeps polling; interrupts need not come.
`BlockDevice`: the kernel's loop runs and a busy drive gets ready; polling has a
timeout, so nothing else is needed. `Interrupts`: the timer keeps firing, the
processor does not stop, and a line that is again and again the highest request
is taken up (the instant between an `iret` and the next instruction may always
be missed, so weak fairness would not do); handlers end, and `load_elf` ends one
way or the other. The other specifications are safety only.

Deadlock is not checked where the system may stop: `die()` ends `Scheduler` and
`Interrupts`; memory can be exhausted in `SplittedMemory` and `AddressSpace`
(whose `null_table` also stops); in the others it is a named bound that stops
the run: `MaxTicks`, `MaxEvents`, `MaxFd` (a descriptor is never reused),
`MaxRequests`, `MaxTransfers`, `MaxCalls`.

## Proofs

Eight modules hold theorems; each proves an inductive invariant by one lemma per
action, with the property parts below it, and derives the properties from it.
TLC checked each invariant on the run's instance first, but for `ListInv`, which
quantifies over all sequences. Where a definition is a recursive function (the
loops of `AddressSpace`, the chain of `Fat`), an induction is a least
counterexample: the library's `WFMin` names one for the order of the naturals,
and the step refutes it.

`Scheduler_proofs`, for any set of processes, any quantum and any `MaxPid`:
`Spec => []SchedInv`, and from it `TypeOK`, `CpuRunsCurrent`,
`ReadyContextsValid`, `ListInPidOrder` and `PidsUnique`, `ForkResults`,
`UserModeInterruptible` and the action property `ZeroOnFirstDispatchOnly`.
Assumptions: `NullAssumption`, `Process0Assumption`, `MaxPidAssumption`,
`TickAssumption`. None of the properties is inductive alone: a switch gives the
processor what was saved, so `CpuRunsCurrent` needs `ReadyContextsValid`; the
processes that may be switched to are those of the list, so both need
`ListInPidOrder` (the successor of `cur` is a node), which in turn needs
`PidsUnique`. `ListedProcesses` adds that whatever is not on the list has no
context and no result and that process 0 is never forked, `ForkContexts` that
the copied `parent_pid` differs from the child's pid and that a context saved
by `prepare` belongs to a process that has not yet run. One lemma per action.

The same module proves the policy for any set of processes (`NullAssumption`)
and every sequence of calls (`RRSpec`): `ListInv` says that the links spell a
sequence, as long as there are nodes, that holds each node once;
`ListHoldsNodesOnce` only follows the links and is not inductive, because an
unlink in the middle has to know what lies behind.

`Interrupts_proofs` contains `wait`, for every word width and every number of
ticks asked for (`TimerAssumption`): `WaitInv` relates the half that is loaded,
the deadline and the ticks since the call. The lemma `NoCarry` says that without
a carry the high word is still the one of the call, whichever half was loaded
first. The quantum, for every mask of any number of bits (`TickAssumption`):
`SliceInv` says that no tick since the last rescheduling was clear of the mask,
and `SomeTickIsClear` that among M + 1 numbers in a row one shares no bit with
M, by induction over the bits (the mask's highest bit is clear in every second
block of its power). That gives `QuantumBounded`. Powers of two are a recursive
function (`PowerOfTwo`), because the provers know nothing of `^`.

The same module contains the dispatch, for any processes, lines and exceptions
(`InterruptsAssumption`): `IrqInv` adds to `InServiceOnlyAtEntry` and
`OnlyFaultsNest` that a stack has at most two frames, the second on a routine
that had not reached its `cli` or an exception on a system call (`FrameShapes`),
and that a process that has not run has no frame. Nothing nests deeper because
an exception is raised with the interrupt flag as its gate leaves it: a routine
before its `cli` can take one interrupt, whose handler runs with interrupts off,
and under a fault of the system call the flag is off already.
`OnlyFaultsNestInHandlers` follows.

`Keyboard_proofs` contains the ring, for every `BUFFER_SIZE` of at least 2 and
any number of events: `Spec => []RingInv`, and from it `TypeOK`,
`FullMeansFull`, `PendingSlotKept` and the refinement `Spec => ImplementsQueue`.
`RingInv` says where the k-th untaken event lies (`SlotOf`), that the distance
of the indices is the number of untaken events modulo the size, that the out
index is past the array only between increment and wrap, and what a pending load
or store will do. The refinement maps the queue's read to the step that moves
the out index.

It also contains the decoder, for any of the keys the model tells apart and any
size of the buffer (`KeySpec`; `KeyAssumption`, `CapacityAssumption`): decoding
is a function of the decoder's state and one byte, so `KeyboardInv` says what
the *rest of the buffer* will do to it: `Replay` (unless a byte was lost,
decoding all pending bytes leads from the flags as they are to the keys as they
are, by way of the columns that were meant, where AltGr may start out wrong once
an Alt code was `astray`), `EscapeSeen` (how `escaped` and `last` go together),
`EscapesOrdered` (the pending bytes that are marked as followers are those
behind an escape), `LastSays` for each shift key (the last pending byte about
it, or else the decoder's state, tells where the key is, unless its last change
was dropped) and that the codes of a shift key are that key's (`CodesOwned`).
The three properties are about an empty buffer, where there is nothing left to
replay; no invariant about an empty buffer alone is inductive.

`SplittedMemory_proofs`, for every page size, memory size, header size and set
of requests (`MemoryAssumption`): `MemoryInv` consists of `HeapInv` (the
structures are well typed, linked both ways and in address order up to
`cur_kernel_bound`; no two free neighbours; every block has a used structure),
`PagesInv` (bitmap, holders and bounds) and the types. Order is what makes
`HeapTiled` inductive: links that are inverse to each other also allow a second
list, a ring that nothing reaches. The two merges of `kernel_free`, the split
and the growth are lemmas about sets of structures, applied one after another
as the code does. From it `HeapTiled`, `Coalesced`, `BlocksBacked`,
`BoundsSeparate`, `PagesAccounted` and `TypeOK`.

`Files_proofs`, for any processes, nodes, handles and paths (the five
assumptions of the module; `PathAssumption` says that paths are sequences of
names and contain the roots and the container): `DescriptorInv` says that
descriptors at and above the counter are free, and so are all of a process not
created yet; with it every step of `Files` is a step of `FileTable` or a
stutter. `NodesInv` adds what the nodes need: a node that a descriptor holds is
live (`HeldNodesLive`), an entry of the open map names a node of that path
(`EntriesMatch`), the two roots and the container stay as boot and mount made
them (`RootsMounted`, `ContainerOpen`), and use counts are at least the number
of holders where no handle was shared (`CountsCover`) and at most that number
where nothing leaked (`CountsBounded`). Two bounds instead of the equality of
`UsesCountHolders`, because shared handles spoil one and leaked files the other, and
`NothingStaysOpen` has to survive sharing. The cardinality of the holders
changes by one descriptor at a time; fork is the exception, and only for paths
that it puts into `forked`.

`BlockDevice_proofs`, for any drives, buses and faults (`AtaAssumption`, which
says that two drives differ in bus or in master bit, and `BlockAssumption`):
`DriveInv` says that `run_command` works for a drive (`CallOfDrive`), that of
the request unless boot is identifying one (`CommandOfRequest`), that boot
identifies the drives of the map in order (`DrivesInOrder`), and, in
`OthersRest`, why a selector is not ignored while no wait has given up: the
other drives of the bus rest, the drive of the request rests when its selector
is written (the wait before has looked at that very drive, unless it was idle
anyway), and it is the one that answers from then on. `DrivesKeptApart` follows,
because only the drive that answers is written to. `TransferInv` is about
transfers without faults, for any sector size and any bases of the ports
(`PartitionAssumption`: a drive has at least one sector and no more than its
addresses reach, and partition tables describe ranges of their drive, which the
code does not test). Its parts follow the layers. A command's drive and the
driver agree on the next sector, and every other drive is quiet (`DevicesOK`),
so that a wait ends when the drive has answered and a data port carries what is
meant. A command is for the block the request has come to (`CommandOK`), which
lies on the drive and within what the ports take, so that it never fails; the
request's block and position name one byte (`RequestOK`). `BuffersOK` and
`BytesOK` say what of that has arrived: the buffer holds the bytes before the
position, and a byte of a drive that is not yet what it should be is one the
request has still to write. The second is why the shared first and last blocks
are safe: between their read and their write the bytes of the neighbours are
what they should be, in `tmp` as on the drive. The case a count of 0 leads to,
the kernel asking again for ever (`Stuck`), keeps all of it but `DevicesOK`: a
count port of 0 means the largest count, and the drive works on a command that
nobody serves. From it `ReadDeliversContent` and `WriteChangesOnlyRange`.

`AddressSpace_proofs`, for any number of processes, frames, tables and pages,
any programs and any increments (`AddressSpaceAssumption`, and
`ProgramsAssumption`: programs are linked above the kernel's 128 MB and below
the end of the address space, which the loader does not test). `AddressInv` is
`TypeOK` with three parts. `Exclusive` is `FramesExclusive` as one process
after another sees it: its machine is `Sound` with respect to the frames
everybody else uses, that is, tables and pages are distinct, marked in the
bitmap and not among those frames, and a mapped page has a table. A call works
on one machine, so each operation (`page_alloc`, `add_virtual_memory`, `malloc`,
`kfree`, the loops of reset, copy and load) has one lemma that says it keeps
`Sound` for any `F`, what it takes into use and what it gives back.
`UnbornEmpty` is needed because `fork` leaves the tables of a process alone
when it fails; `HeapAboveKernel` because `sbrk` computes a page from `heap_top`,
and a page of the kernel is none of the process's. From it `TypeOK`,
`FramesExclusive`, the action property `SuccessLosesNothing` and the refinement
`ImplementsPrivateMemory`; the last needs for each operation what the program
sees of it: `copy_address_space` maps exactly the parent's pages, on frames of
their own, `copy_in` writes to the frames of the process only.

`Fat_proofs`, for every geometry of the volume, every table with a well-formed
chain for the file and whatever lies behind it (`FatAssumption`: clusters are
16-bit numbers and sizes 32-bit numbers, so both are below `Word`). `FatInv`
says how far a transfer is: on the way to its first cluster it stands on the
node of the chain that is still `skip_clusters` short of the position's, and
has moved nothing; then on the position's own node at the position's own byte
(`AtPlace`); what was read lies at the front of the buffer, and nothing behind
it (`FrontRead`); and it ends early only where the entries that `has_successor`
looks at disagree with the chain. The lemmas under it are about the model's
operators: what `Chain` is (`ChainFollows`, a least counterexample again), that
`successor` leads along it (`NextNode`), that `Address` is where the FAT layout
puts a cluster (`ClusterAddress`, with `Aligned`), and how a position's quotient
and remainder move inside a cluster and over its end (`SameBlock`,
`NextBlock`). From it `OnlyFileBytes`, `WholeRange` and the action property
`WritesStayInFile`.

Only model-checked: liveness (`NoStarvation`, `WaitReturns`,
`StoredIsDelivered`, `RequestsReturn`, `PendingIsServed`), which needs fairness
and `ENABLED`. Every invariant and action property of the passing runs is
stated by a theorem.

## Seen while modelling

The models follow the code in these points too. None is stated as a property
that fails, because no document or comment of the repository contradicts it or
because the models end where it begins.

- Timer: the tick test is a bit mask (`arch/x86/devices/timer.cpp:34`), so the
  quantum is bounded but not the configured number of ticks; a 64-bit read torn
  by an interrupt that carries ends a wait early.
- Keyboard: the release of an escaped key leaves `escaped` set, because the codes
  from the break codes on return before it is cleared
  (`arch/x86/devices/keyboard.cpp:172-184`), so the letter after an arrow key is
  decoded as an escaped one; a poll between an escape and its follower consumes
  the escape. An Alt code in either place is taken for the other Alt key's.
- FAT: `has_successor` and `is_free` look at another table entry than
  `successor`, so that a chain can be cut short (`TestsAgree` in `WholeRange`);
  `filehandle::read` moves the position by the whole length, so that the next
  read behind the end of the file computes a wrapped length.
- ATA: error bits are not looked at, a timed-out wait counts as an answer;
  a request for 256 whole sectors (65536 with 48-bit addresses, as
  `arch/x86/ata/ata_controller.cpp:276` masks) asks for 0 and never returns
  (`Fits` in `RequestsReturn`); after a wait that gave up, a busy drive ignores the
  selector, and what follows reaches the wrong one; without 48-bit addresses the
  drive's length is 0; the partition crawler
  passes a sector's number as a byte address for extended tables.
- Files: `seek` returns error codes where its caller expects a bool; fork
  shares handles without counting; `load_elf` leaves a file without the magic
  open.
- Address spaces: a failed fork leaves its frames without an owner; two
  segments in one page cannot both be loaded, yet the loader goes on; `sbrk`
  moves `heap_top` after a failed allocation, by less than was asked when the
  heap does not end at a page, and `sbrk(0)` on a page boundary gives the last
  page back; frees below the moved bound are refused, and what execve meant to
  unmap then stays mapped.
- Interrupts: the stub for uninitialised interrupts pushes 0 as the line
  (`arch/x86/core/isr.asm:113`), so it is dispatched as a timer interrupt; system
  calls follow the program's pointers without a check, and a page fault there is
  raised inside the handler; the kernel process that loads the first program
  spins with interrupts off when the load fails.
- Policy: `remove` has no caller that is compiled; `RoundRobinClient` checks what
  it promises, for the caller it is written for.

## Not modelled, and the plan

Not modelled for good: pure I/O (video, sound, serial port, logger), start-up
and descriptor encodings, vendored `elf.h`, the C/C++ runtime glue, policies the
configuration does not select (`simple`, `straight`, two-state scheduling), and
unfinished code that does not compile or that nothing calls (pipes, semaphores,
`block_process` and the policy's blocked and inactive lists). Inside modelled
parts: long file names and the parsing of directory entries, the header checks
of the ELF loader (one outcome), the memory map, LEDs and reset of the
keyboard, negative `sbrk` increments, the wrap of a heap at 2^32, an area whose
bitmap fills whole pages exactly.

What is left of the plan, in this order:

1. `AddressSpace` composed with `SplittedMemory`, so that the heap's growth and
   the frames of processes compete for one region.
2. `Files` over `Fat` and `BlockDevice`: positions and lengths through all three.
