---------------------------- MODULE Files_proofs ----------------------------
(***************************************************************************)
(* Descriptors and handles for any number of processes, nodes and handles: *)
(* a process' descriptors at and above its counter are free, so are all of *)
(* one not created yet, and with that the calls implement the table of     *)
(* module FileTable.  Of the nodes: what the maps and the handles point to *)
(* exists and lies under its own path, and the use counts follow the       *)
(* descriptors, so that the last close finds the last use.                 *)
(***************************************************************************)
EXTENDS Files, FiniteSetTheorems, TLAPS

HandlesTyped ==
  /\ handle \in [Handle -> [node : Node \cup {NULL}, offset : Nat]]
  /\ files \in [Process -> [Fd -> Handle \cup {NULL}]]
  /\ fd_counter \in [Process -> Nat]
  /\ alive \subseteq Process

(* What makes the counter a fresh descriptor (push_filehandle), also in a  *)
(* child, whose counter copy_filehandles takes from its parent.            *)
CounterAboveOpen ==
  \A p \in Process, fd \in Fd : fd >= fd_counter[p] => files[p][fd] = NULL

(* fork_process fills the table of a process that has none.                *)
UnbornHaveNone ==
  \A p \in Process \ alive, fd \in Fd : files[p][fd] = NULL

DescriptorInv == HandlesTyped /\ CounterAboveOpen /\ UnbornHaveNone

LEMMA InitDescriptors == Init => DescriptorInv
<1> SUFFICES ASSUME Init PROVE DescriptorInv
  OBVIOUS
<1>1. /\ handle = [h \in Handle |->
            IF h \in Range(StdHandle)
            THEN [node |-> StdNode[StdOf(StdHandle, h)], offset |-> 0] ELSE NoHandle]
      /\ files = [p \in Process |-> [fd \in Fd |->
            IF p = Process0 /\ fd < Len(StdPath) THEN StdHandle[fd + 1] ELSE NULL]]
      /\ fd_counter = [p \in Process |-> IF p = Process0 THEN Len(StdPath) ELSE 0]
      /\ alive = {Process0}
  BY DEF Init
<1>2. /\ Len(StdPath) \in Nat
      /\ \A i \in 1..Len(StdPath) : StdNode[i] \in Node /\ StdHandle[i] \in Handle
  <2>1. /\ StdNode \in Seq(Node) /\ StdHandle \in Seq(Handle) /\ StdPath \in Seq(TtyPath)
        /\ Len(StdNode) = Len(StdPath) /\ Len(StdHandle) = Len(StdPath)
    BY BootAssumption
  <2> QED BY <2>1
<1>3. files \in [Process -> [Fd -> Handle \cup {NULL}]]
  <2>1. \A fd \in Fd : fd < Len(StdPath) => fd + 1 \in 1..Len(StdPath)
    BY <1>2, BoundAssumption DEF Fd
  <2> QED BY <1>1, <1>2, <2>1
<1>4. handle \in [Handle -> [node : Node \cup {NULL}, offset : Nat]]
  <2> SUFFICES ASSUME NEW h \in Handle
               PROVE  (IF h \in Range(StdHandle)
                       THEN [node |-> StdNode[StdOf(StdHandle, h)], offset |-> 0]
                       ELSE NoHandle) \in [node : Node \cup {NULL}, offset : Nat]
    BY <1>1
  <2>1. CASE h \in Range(StdHandle)
    <3>1. PICK i \in 1..Len(StdHandle) : StdHandle[i] = h
      BY <2>1 DEF Range
    <3>2. StdOf(StdHandle, h) \in 1..Len(StdHandle)
      BY <3>1 DEF StdOf
    <3>3. StdNode[StdOf(StdHandle, h)] \in Node
      BY <3>2, <1>2, BootAssumption
    <3> QED BY <2>1, <3>3
  <2>2. CASE h \notin Range(StdHandle)
    BY <2>2 DEF NoHandle
  <2> QED BY <2>1, <2>2
<1>5. HandlesTyped
  BY <1>1, <1>2, <1>3, <1>4, ProcessAssumption DEF HandlesTyped
<1>6. CounterAboveOpen
  <2> SUFFICES ASSUME NEW p \in Process, NEW fd \in Fd, fd >= fd_counter[p]
               PROVE  files[p][fd] = NULL
    BY DEF CounterAboveOpen
  <2>1. ~(p = Process0 /\ fd < Len(StdPath))
    BY <1>1, <1>2, BoundAssumption DEF Fd
  <2> QED BY <1>1, <2>1
<1>7. UnbornHaveNone
  BY <1>1 DEF UnbornHaveNone
<1> QED BY <1>5, <1>6, <1>7 DEF DescriptorInv

(* What open_call does to handles and descriptors.                         *)
LEMMA PushFacts ==
  ASSUME DescriptorInv, NEW p \in alive, NEW n \in Node,
         fd_counter[p] < MaxFd, push_filehandle(p, n)
  PROVE  \E h \in Handle \ Reachable(files) :
           /\ handle' = [handle EXCEPT ![h] = [node |-> n, offset |-> 0]]
           /\ files' = [files EXCEPT ![p][fd_counter[p]] = h]
           /\ fd_counter' = [fd_counter EXCEPT ![p] = @ + 1]
           /\ fd_counter[p] \in Fd
<1>1. Handle \ Reachable(files) # {}
  BY DEF push_filehandle
<1>2. (CHOOSE k \in Handle \ Reachable(files) : TRUE) \in Handle \ Reachable(files)
  BY <1>1
<1>3. fd_counter[p] \in Fd
  BY BoundAssumption DEF DescriptorInv, HandlesTyped, Fd
<1> QED BY <1>2, <1>3 DEF push_filehandle

LEMMA OpenDescriptors ==
  ASSUME DescriptorInv, NEW p \in alive, NEW path \in Path, open_call(p, path)
  PROVE  DescriptorInv'
<1>1. PICK n \in Node : push_filehandle(p, n)
  BY DEF open_call
<1>2. fd_counter[p] < MaxFd /\ alive' = alive
  BY DEF open_call
<1>3. PICK h \in Handle \ Reachable(files) :
           /\ handle' = [handle EXCEPT ![h] = [node |-> n, offset |-> 0]]
           /\ files' = [files EXCEPT ![p][fd_counter[p]] = h]
           /\ fd_counter' = [fd_counter EXCEPT ![p] = @ + 1]
           /\ fd_counter[p] \in Fd
  BY <1>1, <1>2, PushFacts
<1>4. p \in Process
  BY DEF DescriptorInv, HandlesTyped
<1>5. HandlesTyped'
  BY <1>2, <1>3, <1>4 DEF DescriptorInv, HandlesTyped
<1>6. CounterAboveOpen'
  <2> SUFFICES ASSUME NEW q \in Process, NEW fd \in Fd, fd >= fd_counter'[q]
               PROVE  files'[q][fd] = NULL
    BY DEF CounterAboveOpen
  <2>1. CASE q # p
    BY <1>3, <1>4, <2>1 DEF DescriptorInv, HandlesTyped, CounterAboveOpen
  <2>2. CASE q = p
    <3>1. fd \in Int /\ fd_counter[p] \in Nat /\ fd_counter'[p] = fd_counter[p] + 1
      BY <1>3, <1>4, BoundAssumption DEF DescriptorInv, HandlesTyped, Fd
    <3>2. fd # fd_counter[p] /\ fd >= fd_counter[p]
      BY <2>2, <3>1
    <3>3. files'[p][fd] = files[p][fd]
      BY <1>3, <1>4, <3>2 DEF DescriptorInv, HandlesTyped
    <3> QED BY <1>4, <2>2, <3>2, <3>3 DEF DescriptorInv, CounterAboveOpen
  <2> QED BY <2>1, <2>2
<1>7. UnbornHaveNone'
  <2> SUFFICES ASSUME NEW q \in Process \ alive, NEW fd \in Fd PROVE files'[q][fd] = NULL
    BY <1>2 DEF UnbornHaveNone
  <2>1. q # p /\ files'[q] = files[q]
    BY <1>3, <1>4 DEF DescriptorInv, HandlesTyped
  <2> QED BY <2>1 DEF DescriptorInv, UnbornHaveNone
<1> QED BY <1>5, <1>6, <1>7 DEF DescriptorInv

LEMMA CloseDescriptors ==
  ASSUME DescriptorInv, NEW p \in alive, NEW fd \in Fd, close_call(p, fd)
  PROVE  DescriptorInv'
<1>1. /\ files' = [files EXCEPT ![p][fd] = NULL]
      /\ handle' = [k \in Handle |-> IF k \in Reachable(files') THEN handle[k] ELSE NoHandle]
      /\ UNCHANGED <<fd_counter, alive>>
  BY DEF close_call
<1>2. p \in Process
  BY DEF DescriptorInv, HandlesTyped
<1>3. NoHandle \in [node : Node \cup {NULL}, offset : Nat]
  BY DEF NoHandle
<1>4. HandlesTyped'
  BY <1>1, <1>2, <1>3 DEF DescriptorInv, HandlesTyped
<1>5. \A q \in Process, gd \in Fd : files'[q][gd] \in {files[q][gd], NULL}
  BY <1>1, <1>2 DEF DescriptorInv, HandlesTyped
<1>6. CounterAboveOpen' /\ UnbornHaveNone'
  BY <1>1, <1>5 DEF DescriptorInv, CounterAboveOpen, UnbornHaveNone
<1> QED BY <1>4, <1>6 DEF DescriptorInv

(* The handle a descriptor of p stands for.                                *)
LEMMA HandleOf ==
  ASSUME DescriptorInv, NEW p \in alive, NEW fd \in Fd, files[p][fd] # NULL
  PROVE  p \in Process /\ files[p][fd] \in Handle
BY DEF DescriptorInv, HandlesTyped

(* A transfer and a seek change the offset of one handle.                  *)
LEMMA MovesOneOffset ==
  ASSUME DescriptorInv, NEW p \in alive, NEW fd \in Fd,
         \/ \E length \in 1 .. MaxOffset : transfer_call(p, fd, length)
         \/ \E offset \in -MaxOffset .. MaxOffset, direction \in {"set", "cur", "end"} :
               lseek_call(p, fd, offset, direction)
  PROVE  /\ files[p][fd] # NULL
         /\ UNCHANGED <<vfsVars, files, fd_counter, alive, forked, leaked>>
         /\ \E to \in Nat : handle' = [handle EXCEPT ![files[p][fd]].offset = to]
<1>1. ASSUME NEW length \in 1 .. MaxOffset, transfer_call(p, fd, length)
      PROVE  /\ files[p][fd] # NULL
             /\ UNCHANGED <<vfsVars, files, fd_counter, alive, forked, leaked>>
             /\ \E to \in Nat : handle' = [handle EXCEPT ![files[p][fd]].offset = to]
  <2>1. /\ files[p][fd] # NULL
        /\ handle' = [handle EXCEPT ![files[p][fd]].offset = @ + length]
        /\ UNCHANGED <<vfsVars, files, fd_counter, alive, forked, leaked>>
    BY <1>1 DEF transfer_call
  <2>2. handle[files[p][fd]].offset + length \in Nat
    <3>1. handle[files[p][fd]].offset \in Nat
      BY <2>1, HandleOf DEF DescriptorInv, HandlesTyped
    <3>2. length \in Nat
      BY BoundAssumption
    <3> QED BY <3>1, <3>2
  <2>3. handle' = [handle EXCEPT ![files[p][fd]].offset = handle[files[p][fd]].offset + length]
    BY <2>1, HandleOf DEF DescriptorInv, HandlesTyped
  <2> QED BY <2>1, <2>2, <2>3
<1>2. ASSUME NEW offset \in -MaxOffset .. MaxOffset, NEW direction \in {"set", "cur", "end"},
             lseek_call(p, fd, offset, direction)
      PROVE  /\ files[p][fd] # NULL
             /\ UNCHANGED <<vfsVars, files, fd_counter, alive, forked, leaked>>
             /\ \E to \in Nat : handle' = [handle EXCEPT ![files[p][fd]].offset = to]
  <2> DEFINE to == SeekTarget(files[p][fd], offset, direction)
  <2>1. /\ files[p][fd] # NULL /\ to >= 0
        /\ handle' = [handle EXCEPT ![files[p][fd]].offset = to]
        /\ UNCHANGED <<vfsVars, files, fd_counter, alive, forked, leaked>>
    BY <1>2 DEF lseek_call
  <2>2. to \in Int
    <3>1. handle[files[p][fd]].offset \in Int
      BY <2>1, HandleOf DEF DescriptorInv, HandlesTyped
    <3>2. offset \in Int /\ NodeLength(node[handle[files[p][fd]].node].kind) \in Int
      BY BoundAssumption DEF NodeLength
    <3> QED BY <3>1, <3>2 DEF SeekTarget
  <2> HIDE DEF to
  <2>3. to \in Nat
    BY <2>1, <2>2
  <2> QED BY <2>1, <2>3
<1> QED BY <1>1, <1>2

LEMMA MoveDescriptors ==
  ASSUME DescriptorInv, NEW p \in alive, NEW fd \in Fd, NEW to \in Nat, files[p][fd] # NULL,
         handle' = [handle EXCEPT ![files[p][fd]].offset = to],
         UNCHANGED <<files, fd_counter, alive>>
  PROVE  DescriptorInv'
<1>1. HandlesTyped'
  BY HandleOf DEF DescriptorInv, HandlesTyped
<1>2. CounterAboveOpen' /\ UnbornHaveNone'
  BY DEF DescriptorInv, CounterAboveOpen, UnbornHaveNone
<1> QED BY <1>1, <1>2 DEF DescriptorInv

LEMMA ForkDescriptors ==
  ASSUME DescriptorInv, NEW p \in alive, fork_call(p)
  PROVE  DescriptorInv'
<1>1. PICK c \in Process \ alive :
        /\ files' = [files EXCEPT ![c] = files[p]]
        /\ fd_counter' = [fd_counter EXCEPT ![c] = fd_counter[p]]
        /\ alive' = alive \cup {c}
        /\ handle' = handle
  BY DEF fork_call, copy_filehandles
<1>2. p \in Process
  BY DEF DescriptorInv, HandlesTyped
<1>3. HandlesTyped'
  BY <1>1, <1>2 DEF DescriptorInv, HandlesTyped
<1>4. CounterAboveOpen'
  BY <1>1, <1>2 DEF DescriptorInv, HandlesTyped, CounterAboveOpen
<1>5. UnbornHaveNone'
  BY <1>1 DEF DescriptorInv, HandlesTyped, UnbornHaveNone
<1> QED BY <1>3, <1>4, <1>5 DEF DescriptorInv

(* The calls that leave handles and descriptors alone.                     *)
LEMMA SameDescriptors ==
  ASSUME DescriptorInv, UNCHANGED <<handleVars, alive>>
  PROVE  DescriptorInv'
BY DEF DescriptorInv, HandlesTyped, CounterAboveOpen, UnbornHaveNone, handleVars

LEMMA NextDescriptors == DescriptorInv /\ [Next]_vars => DescriptorInv'
<1> SUFFICES ASSUME DescriptorInv, [Next]_vars PROVE DescriptorInv'
  OBVIOUS
<1>1. ASSUME NEW p \in alive, NEW path \in Path, open_call(p, path) PROVE DescriptorInv'
  BY <1>1, OpenDescriptors
<1>2. ASSUME NEW p \in alive, NEW path \in Path, execve_no_elf(p, path) PROVE DescriptorInv'
  BY <1>2, SameDescriptors DEF execve_no_elf
<1>3. ASSUME NEW p \in alive, NEW fd \in Fd, close_call(p, fd) PROVE DescriptorInv'
  BY <1>3, CloseDescriptors
<1>4. ASSUME NEW p \in alive, NEW fd \in Fd,
             \/ \E length \in 1 .. MaxOffset : transfer_call(p, fd, length)
             \/ \E offset \in -MaxOffset .. MaxOffset, direction \in {"set", "cur", "end"} :
                   lseek_call(p, fd, offset, direction)
      PROVE DescriptorInv'
  <2>1. PICK to \in Nat : handle' = [handle EXCEPT ![files[p][fd]].offset = to]
    BY <1>4, MovesOneOffset
  <2>2. files[p][fd] # NULL /\ UNCHANGED <<files, fd_counter, alive>>
    BY <1>4, MovesOneOffset
  <2> QED BY <2>1, <2>2, MoveDescriptors
<1>5. ASSUME NEW p \in alive, fork_call(p) PROVE DescriptorInv'
  BY <1>5, ForkDescriptors
<1>6. ASSUME NEW p \in alive, mount(p) PROVE DescriptorInv'
  BY <1>6, SameDescriptors DEF mount
<1>7. CASE UNCHANGED vars
  BY <1>7, SameDescriptors DEF vars, handleVars
<1> QED BY <1>1, <1>2, <1>3, <1>4, <1>5, <1>6, <1>7 DEF Next, Call

(* The inductive invariant of descriptors and handles.                     *)
THEOREM DescriptorInvariant == Spec => []DescriptorInv
<1> QED BY InitDescriptors, NextDescriptors, PTL DEF Spec
-----------------------------------------------------------------------------
(* The abstract table.                                                     *)
Position == [h \in Handle |-> handle[h].offset]

LEMMA InitTable == Init => Table!Init
<1> SUFFICES ASSUME Init PROVE Table!Init
  OBVIOUS
<1>1. DescriptorInv
  BY InitDescriptors
<1>2. /\ handle = [h \in Handle |->
            IF h \in Range(StdHandle)
            THEN [node |-> StdNode[StdOf(StdHandle, h)], offset |-> 0] ELSE NoHandle]
      /\ files = [p \in Process |-> [fd \in Fd |->
            IF p = Process0 /\ fd < Len(StdPath) THEN StdHandle[fd + 1] ELSE NULL]]
      /\ alive = {Process0}
  BY DEF Init
<1>3. Position \in [Handle -> {0}]
  BY <1>2 DEF Position, NoHandle
<1>4. \A q \in Process \ {Process0}, fd \in Fd : files[q][fd] = NULL
  BY <1>2
<1>5. \A fd, gd \in Fd :
        files[Process0][fd] # NULL /\ files[Process0][fd] = files[Process0][gd] => fd = gd
  <2> SUFFICES ASSUME NEW fd \in Fd, NEW gd \in Fd, files[Process0][fd] # NULL,
                      files[Process0][fd] = files[Process0][gd]
               PROVE  fd = gd
    OBVIOUS
  <2>1. Len(StdPath) \in Nat
    BY BootAssumption
  <2>2. fd < Len(StdPath) /\ gd < Len(StdPath) /\ StdHandle[fd + 1] = StdHandle[gd + 1]
    BY <1>2, ProcessAssumption
  <2>3. fd \in Nat /\ gd \in Nat
    BY BoundAssumption DEF Fd
  <2>4. fd + 1 \in 1..Len(StdPath) /\ gd + 1 \in 1..Len(StdPath)
    BY <2>1, <2>2, <2>3
  <2>5. fd + 1 = gd + 1
    BY <2>2, <2>4, BootAssumption
  <2> QED BY <2>3, <2>5
<1>6. files \in [Process -> [Fd -> Handle \cup {NULL}]]
  BY <1>1 DEF DescriptorInv, HandlesTyped
<1> QED BY <1>2, <1>3, <1>4, <1>5, <1>6, ProcessAssumption DEF Table!Init, Table!Fd, Position, Fd

(* Handles some process can reach, as the table and as the code see them.  *)
LEMMA ReachableHandles ==
  ASSUME DescriptorInv
  PROVE  Table!Reachable \subseteq Reachable(files)
BY NullAssumption DEF DescriptorInv, HandlesTyped, Table!Reachable, Table!Fd, Fd, Reachable

(* open_call enters a handle nobody can reach, at the start of the file.   *)
LEMMA OpenTable ==
  ASSUME DescriptorInv, NEW p \in alive, NEW path \in Path, open_call(p, path)
  PROVE  Table!Open(p)
<1>1. PICK n \in Node : push_filehandle(p, n)
  BY DEF open_call
<1>2. fd_counter[p] < MaxFd /\ alive' = alive
  BY DEF open_call
<1>3. PICK h \in Handle \ Reachable(files) :
           /\ handle' = [handle EXCEPT ![h] = [node |-> n, offset |-> 0]]
           /\ files' = [files EXCEPT ![p][fd_counter[p]] = h]
           /\ fd_counter' = [fd_counter EXCEPT ![p] = @ + 1]
           /\ fd_counter[p] \in Fd
  BY <1>1, <1>2, PushFacts
<1>4. p \in Process /\ fd_counter[p] \in Nat
  BY DEF DescriptorInv, HandlesTyped
<1>5. files[p][fd_counter[p]] = NULL
  BY <1>3, <1>4 DEF DescriptorInv, CounterAboveOpen
<1>6. Position' = [Position EXCEPT ![h] = 0]
  BY <1>3 DEF Position, DescriptorInv, HandlesTyped
<1>7. h \in Handle /\ h \notin Table!Reachable
  BY ReachableHandles
<1> QED BY <1>2, <1>3, <1>5, <1>6, <1>7 DEF Table!Open, Table!Fd, Fd, Position

(* close_call empties one descriptor; handles still reachable keep their   *)
(* place.                                                                  *)
LEMMA CloseTable ==
  ASSUME DescriptorInv, NEW p \in alive, NEW fd \in Fd, close_call(p, fd)
  PROVE  Table!Close(p)
<1>1. /\ files[p][fd] # NULL
      /\ files' = [files EXCEPT ![p][fd] = NULL]
      /\ handle' = [k \in Handle |-> IF k \in Reachable(files') THEN handle[k] ELSE NoHandle]
      /\ alive' = alive
  BY DEF close_call
<1>2. DescriptorInv'
  BY CloseDescriptors
<1>3. Table!Reachable' \subseteq Reachable(files')
  BY <1>2, NullAssumption DEF DescriptorInv, HandlesTyped, Table!Reachable, Table!Fd, Fd, Reachable
<1>4. \A h \in Table!Reachable' : Position'[h] = Position[h]
  <2> SUFFICES ASSUME NEW h \in Table!Reachable' PROVE Position'[h] = Position[h]
    OBVIOUS
  <2>1. h \in Handle /\ h \in Reachable(files')
    BY <1>3 DEF Table!Reachable
  <2>2. handle'[h] = handle[h]
    BY <1>1, <2>1
  <2> QED BY <2>1, <2>2 DEF Position
<1> QED BY <1>1, <1>4 DEF Table!Close, Table!Fd, Fd, Position

LEMMA ForkTable ==
  ASSUME DescriptorInv, NEW p \in alive, fork_call(p)
  PROVE  Table!Fork(p)
BY DEF fork_call, copy_filehandles, Table!Fork, Position

(* A transfer and a seek move the position of one handle.                  *)
LEMMA MoveTable ==
  ASSUME DescriptorInv, NEW p \in alive, NEW fd \in Fd, NEW to \in Nat, files[p][fd] # NULL,
         handle' = [handle EXCEPT ![files[p][fd]].offset = to],
         UNCHANGED <<files, fd_counter, alive>>
  PROVE  Table!Move(p)
<1>1. files[p][fd] \in Handle
  BY HandleOf
<1>2. \A h \in Handle \ {files[p][fd]} : Position'[h] = Position[h]
  BY <1>1 DEF DescriptorInv, HandlesTyped, Position
<1>3. Table!Reachable \subseteq Handle
  BY DEF Table!Reachable
<1> QED BY <1>1, <1>2, <1>3 DEF Table!Move, Table!Fd, Fd, Position

(* Calls that leave handles and descriptors alone are not seen.            *)
LEMMA SameTable == UNCHANGED <<handleVars, alive>> => UNCHANGED Table!vars
BY DEF handleVars, Table!vars

LEMMA StepTable ==
  DescriptorInv /\ [Next]_vars => [Table!Next]_(Table!vars)
<1> SUFFICES ASSUME DescriptorInv, [Next]_vars PROVE Table!Next \/ UNCHANGED Table!vars
  OBVIOUS
<1>1. ASSUME NEW p \in alive, NEW path \in Path, open_call(p, path) PROVE Table!Next
  BY <1>1, OpenTable DEF Table!Next
<1>2. ASSUME NEW p \in alive, NEW path \in Path, execve_no_elf(p, path)
      PROVE  UNCHANGED Table!vars
  BY <1>2, SameTable DEF execve_no_elf
<1>3. ASSUME NEW p \in alive, NEW fd \in Fd, close_call(p, fd) PROVE Table!Next
  BY <1>3, CloseTable DEF Table!Next
<1>4. ASSUME NEW p \in alive, NEW fd \in Fd,
             \/ \E length \in 1 .. MaxOffset : transfer_call(p, fd, length)
             \/ \E offset \in -MaxOffset .. MaxOffset, direction \in {"set", "cur", "end"} :
                   lseek_call(p, fd, offset, direction)
      PROVE Table!Next
  <2>1. PICK to \in Nat : handle' = [handle EXCEPT ![files[p][fd]].offset = to]
    BY <1>4, MovesOneOffset
  <2>2. files[p][fd] # NULL /\ UNCHANGED <<files, fd_counter, alive>>
    BY <1>4, MovesOneOffset
  <2>3. Table!Move(p)
    BY <2>1, <2>2, MoveTable
  <2> QED BY <2>3 DEF Table!Next
<1>5. ASSUME NEW p \in alive, fork_call(p) PROVE Table!Next
  BY <1>5, ForkTable DEF Table!Next
<1>6. ASSUME NEW p \in alive, mount(p) PROVE UNCHANGED Table!vars
  BY <1>6, SameTable DEF mount
<1>7. CASE UNCHANGED vars
  BY <1>7, SameTable DEF vars, handleVars
<1> QED BY <1>1, <1>2, <1>3, <1>4, <1>5, <1>6, <1>7 DEF Next, Call

(* open, close, read, write, lseek and fork behave as the abstract table   *)
(* of descriptors, whatever happens to the nodes below.                    *)
THEOREM Refinement == Spec => ImplementsFileTable
<1> QED BY InitTable, StepTable, DescriptorInvariant, PTL DEF Spec, ImplementsFileTable, Table!Spec
-----------------------------------------------------------------------------
(* Walking a path. *)

(* A nonempty set of naturals has a least element.                         *)
LEMMA LeastNatural ==
  ASSUME NEW S, S \subseteq Nat, S # {}
  PROVE  \E x \in S : \A y \in S : x <= y
<1>1. PICK x \in S : \A y \in S : ~(<<y, x>> \in OpToRel(<, Nat))
  BY NatLessThanWellFounded, WFMin
<1>2. \A y \in S : ~(y < x)
  BY <1>1 DEF OpToRel
<1> QED BY <1>2

(* The function Walk defines exists: it can be built up from shorter ones. *)
LEMMA WalkIsDefined ==
  ASSUME NEW path
  PROVE  \A m \in Nat : \E f :
           f = [k \in 0 .. m |->
                  IF k = 0 THEN Found(mounted[Root])
                  ELSE open_subnode(f[k - 1], SubSeq(path, 1, k))]
<1> DEFINE At(f, k) == IF k = 0 THEN Found(mounted[Root])
                       ELSE open_subnode(f[k - 1], SubSeq(path, 1, k))
           Undefined == {m \in Nat : ~ \E f : f = [k \in 0 .. m |-> At(f, k)]}
<1>1. SUFFICES ASSUME Undefined # {} PROVE FALSE
  OBVIOUS
<1>2. PICK m \in Undefined : \A k \in Undefined : m <= k
  BY <1>1, LeastNatural
<1>3. m \in Nat
  OBVIOUS
<1>4. m # 0
  <2> DEFINE g == [k \in 0 .. 0 |-> Found(mounted[Root])]
  <2>1. g = [k \in 0 .. 0 |-> At(g, k)]
    OBVIOUS
  <2>2. 0 \notin Undefined
    BY <2>1
  <2> QED BY <2>2
<1>5. m - 1 \in Nat /\ m - 1 \notin Undefined
  BY <1>2, <1>3, <1>4
<1>6. PICK f : f = [k \in 0 .. m - 1 |-> At(f, k)]
  BY <1>5
<1> DEFINE g == [k \in 0 .. m |-> At(f, k)]
<1>7. \A k \in 0 .. m - 1 : g[k] = f[k]
  <2> SUFFICES ASSUME NEW k \in 0 .. m - 1 PROVE g[k] = f[k]
    OBVIOUS
  <2>1. k \in 0 .. m
    BY <1>3
  <2>2. f[k] = At(f, k)
    BY <1>6
  <2> QED BY <2>1, <2>2
<1>8. \A k \in 0 .. m : At(g, k) = At(f, k)
  <2> SUFFICES ASSUME NEW k \in 0 .. m, k # 0 PROVE g[k - 1] = f[k - 1]
    OBVIOUS
  <2>1. k - 1 \in 0 .. m - 1
    BY <1>3
  <2> QED BY <2>1, <1>7
<1>9. g = [k \in 0 .. m |-> At(g, k)]
  BY <1>8
<1>10. m \notin Undefined
  BY <1>9
<1> QED BY <1>10

LEMMA WalkEnds ==
  ASSUME NEW path \in Path
  PROVE  \/ path = Root /\ Walk(path) = Found(mounted[Root])
         \/ \E base : Walk(path) = open_subnode(base, path)
<1> DEFINE found[k \in 0 .. Len(path)] ==
             IF k = 0 THEN Found(mounted[Root])
             ELSE open_subnode(found[k - 1], SubSeq(path, 1, k))
<1>1. Walk(path) = found[Len(path)]
  BY DEF Walk
<1>2. path \in Seq(STRING) /\ Len(path) \in Nat
  BY PathAssumption
<1>3. \E f : f = [k \in 0 .. Len(path) |->
                  IF k = 0 THEN Found(mounted[Root])
                  ELSE open_subnode(f[k - 1], SubSeq(path, 1, k))]
  BY <1>2, WalkIsDefined
<1>4. found = [k \in 0 .. Len(path) |->
                  IF k = 0 THEN Found(mounted[Root])
                  ELSE open_subnode(found[k - 1], SubSeq(path, 1, k))]
  BY <1>3, Zenon
<1> HIDE DEF found
<1>5. found[Len(path)] = IF Len(path) = 0 THEN Found(mounted[Root])
                         ELSE open_subnode(found[Len(path) - 1], SubSeq(path, 1, Len(path)))
  BY <1>2, <1>4
<1>6. CASE Len(path) = 0
  <2>1. path = Root
    BY <1>2, <1>6 DEF Root
  <2> QED BY <1>1, <1>5, <1>6, <2>1
<1>7. CASE Len(path) # 0
  <2>1. SubSeq(path, 1, Len(path)) = path
    BY <1>2
  <2> QED BY <1>1, <1>5, <1>7, <2>1
<1> QED BY <1>6, <1>7
-----------------------------------------------------------------------------
(* The nodes: what the maps and the descriptors may point to, and how the  *)
(* use counts follow the descriptors.                                      *)
NodesTyped ==
  /\ node \in [Node -> [path : Path, kind : Kind \cup {"none"}, uses : Nat]]
  /\ open_nodes \in [Path -> Node \cup {NULL}]
  /\ mounted \in [Path -> Node \cup {NULL}]
  /\ container \in Node \cup {NULL}
  /\ IsFiniteSet(alive)

(* The open map has existing nodes, each under its own path.               *)
EntriesMatch ==
  \A q \in Path : open_nodes[q] # NULL =>
    node[open_nodes[q]].kind # "none" /\ node[open_nodes[q]].path = q

RootsMounted ==
  /\ mounted[Root] # NULL
  /\ \A q \in Path : mounted[q] # NULL => MountRoot(mounted[q]) /\ node[mounted[q]].path = q

ContainerOpen ==
  container # NULL =>
    node[container].kind # "none" /\ node[container].path = Container /\ Container \in leaked

HeldNodesLive ==
  \A p \in Process, fd \in Fd : files[p][fd] # NULL =>
    handle[files[p][fd]].node \in Node /\ node[handle[files[p][fd]].node].kind # "none"

(* The count covers the descriptors, so that a close that counts down to   *)
(* the last use really is the last one.                                    *)
CountsCover ==
  \A n \in Node : node[n].kind # "none" /\ node[n].path \notin forked
    => Cardinality(Holders(n)) <= node[n].uses

(* The count is never above the descriptors, so that the last close finds  *)
(* the last use.                                                           *)
CountsBounded ==
  \A n \in Node : node[n].kind # "none" /\ ~MountRoot(n) =>
    /\ 1 <= node[n].uses
    /\ node[n].path \notin leaked => node[n].uses <= Cardinality(Holders(n))

NodesInv ==
  /\ NodesTyped /\ EntriesMatch /\ RootsMounted /\ ContainerOpen
  /\ HeldNodesLive /\ CountsCover /\ CountsBounded /\ HeldNodesOpen

LEMMA HoldersFinite ==
  ASSUME DescriptorInv, IsFiniteSet(alive), NEW n
  PROVE  IsFiniteSet(Holders(n)) /\ Cardinality(Holders(n)) \in Nat
<1>1. IsFiniteSet(Fd)
  BY BoundAssumption, FS_Interval DEF Fd
<1>2. IsFiniteSet(alive \X Fd)
  BY <1>1, FS_Product
<1>3. Holders(n) \subseteq alive \X Fd
  BY DEF Holders, DescriptorInv, HandlesTyped, UnbornHaveNone
<1> QED BY <1>2, <1>3, FS_Subset, FS_CardinalityType

(* A node that has gone has no descriptor.                                 *)
LEMMA HoldersLive ==
  ASSUME HeldNodesLive, NEW n, Holders(n) # {}
  PROVE  n \in Node /\ node[n].kind # "none"
BY DEF HeldNodesLive, Holders

(* What open_node finds: the node that the open map or the mount map has   *)
(* under this path, or a name for a new one if neither has any.            *)
LEMMA OpensCases ==
  ASSUME NodesInv, NEW path \in Path, NEW n \in Node, Opens(path, n)
  PROVE  /\ node[n].kind # "none" =>
              /\ node[n].path = path
              /\ n = open_nodes[path] \/ path = Root \/ open_nodes[path] = NULL
         /\ node[n].kind = "none" =>
              /\ Walk(path).kind \in {"tty", "block", "fat_dir", "fat_file"}
              /\ open_nodes[path] = NULL
<1>1. Walk(path).kind # "none"
      /\ IF Walk(path).node # NULL THEN n = Walk(path).node
         ELSE FreeNodes # {} /\ n = new_node
  BY DEF Opens
<1>2. CASE path = Root /\ Walk(path) = Found(mounted[Root])
  <2>1. mounted[Root] # NULL /\ node[mounted[Root]].path = Root
    BY PathAssumption DEF NodesInv, RootsMounted
  <2>2. n = mounted[Root]
    BY <1>1, <1>2, <2>1 DEF Found
  <2>3. node[n].kind # "none"
    BY <1>1, <1>2, <2>2 DEF Found
  <2> QED BY <1>2, <2>1, <2>2, <2>3
<1>3. ASSUME NEW base, Walk(path) = open_subnode(base, path)
      PROVE  /\ node[n].kind # "none" =>
                   node[n].path = path /\ (n = open_nodes[path] \/ open_nodes[path] = NULL)
             /\ node[n].kind = "none" =>
                   /\ Walk(path).kind \in {"tty", "block", "fat_dir", "fat_file"}
                   /\ open_nodes[path] = NULL
  <2>1. base.kind # "none"
    BY <1>1, <1>3 DEF open_subnode, Missing
  <2>2. CASE open_nodes[path] # NULL
    <3>1. Walk(path) = Found(open_nodes[path])
      BY <1>3, <2>1, <2>2 DEF open_subnode
    <3>2. n = open_nodes[path]
      BY <1>1, <2>2, <3>1 DEF Found
    <3> QED BY <2>2, <3>2 DEF NodesInv, EntriesMatch
  <2>3. CASE open_nodes[path] = NULL /\ mounted[path] # NULL
    <3>1. Walk(path) = Found(mounted[path])
      BY <1>3, <2>1, <2>3 DEF open_subnode
    <3>2. n = mounted[path]
      BY <1>1, <2>3, <3>1 DEF Found
    <3>3. node[n].kind # "none" /\ node[n].path = path
      BY <1>1, <3>1, <3>2, <2>3 DEF NodesInv, RootsMounted, Found
    <3> QED BY <2>3, <3>3
  <2>4. CASE open_nodes[path] = NULL /\ mounted[path] = NULL
    <3>1. Walk(path) = [node |-> NULL, kind |-> subnode_kind(base.kind, path)]
      BY <1>3, <2>1, <2>4 DEF open_subnode
    <3>2. FreeNodes # {} /\ n = new_node
      BY <1>1, <3>1
    <3>3. node[n].kind = "none"
      BY <3>2 DEF FreeNodes, new_node
    <3>4. Walk(path).kind \in {"tty", "block", "fat_dir", "fat_file"}
      BY <1>1, <3>1 DEF subnode_kind
    <3> QED BY <2>4, <3>3, <3>4
  <2> QED BY <2>2, <2>3, <2>4
<1> QED BY <1>2, <1>3, WalkEnds

(* Opening a node leaves one that counts once more, under its path.        *)
LEMMA OpenNode ==
  ASSUME NodesInv, NEW path \in Path, NEW n \in Node, Opens(path, n)
  PROVE  LET opened == NodeOpened(path, n)
         IN  /\ opened \in [path : Path, kind : Kind, uses : Nat]
             /\ opened.path = path
             /\ node[n].kind # "none" =>
                  opened.kind = node[n].kind /\ opened.uses = node[n].uses + 1
             /\ node[n].kind = "none" =>
                  opened.kind \in {"tty", "block", "fat_dir", "fat_file"} /\ opened.uses = 1
<1>1. node[n] \in [path : Path, kind : Kind \cup {"none"}, uses : Nat]
  BY DEF NodesInv, NodesTyped
<1>2. CASE node[n].kind # "none"
  <2>1. NodeOpened(path, n) = [node[n] EXCEPT !.uses = node[n].uses + 1]
    BY <1>2 DEF NodeOpened
  <2>2. node[n].path = path
    BY <1>2, OpensCases
  <2> QED BY <1>1, <1>2, <2>1, <2>2
<1>3. CASE node[n].kind = "none"
  <2>1. Walk(path).kind \in {"tty", "block", "fat_dir", "fat_file"}
    BY <1>3, OpensCases
  <2>2. NodeOpened(path, n) = [path |-> path, kind |-> Walk(path).kind, uses |-> 1]
    BY <1>3 DEF NodeOpened
  <2> QED BY <1>3, <2>1, <2>2 DEF Kind
<1> QED BY <1>2, <1>3

(* The descriptors on a node after each kind of call. *)
LEMMA HoldersAfterPush ==
  ASSUME DescriptorInv, NEW p \in alive, NEW n \in Node,
         fd_counter[p] < MaxFd, push_filehandle(p, n)
  PROVE  \A m \in Node : Holders(m)' =
           IF m = n THEN Holders(m) \cup {<<p, fd_counter[p]>>} ELSE Holders(m)
<1>1. PICK h \in Handle \ Reachable(files) :
           /\ handle' = [handle EXCEPT ![h] = [node |-> n, offset |-> 0]]
           /\ files' = [files EXCEPT ![p][fd_counter[p]] = h]
           /\ fd_counter[p] \in Fd
  BY PushFacts
<1>2. p \in Process /\ files[p][fd_counter[p]] = NULL /\ h # NULL
  BY <1>1, NullAssumption DEF DescriptorInv, HandlesTyped, CounterAboveOpen
<1>3. \A d \in Process \X Fd : d # <<p, fd_counter[p]>> => files'[d[1]][d[2]] = files[d[1]][d[2]]
  BY <1>1, <1>2 DEF DescriptorInv, HandlesTyped
<1>4. \A d \in Process \X Fd : files[d[1]][d[2]] # NULL =>
        handle'[files[d[1]][d[2]]] = handle[files[d[1]][d[2]]]
  BY <1>1 DEF DescriptorInv, HandlesTyped, Reachable
<1>5. files'[p][fd_counter[p]] = h /\ handle'[h].node = n
  BY <1>1, <1>2 DEF DescriptorInv, HandlesTyped
<1>6. <<p, fd_counter[p]>> \in Process \X Fd
  BY <1>1, <1>2
<1> SUFFICES ASSUME NEW m \in Node, NEW d \in Process \X Fd
             PROVE  d \in Holders(m)' <=> d \in Holders(m) \/ (m = n /\ d = <<p, fd_counter[p]>>)
  BY <1>6 DEF Holders
<1>7. CASE d = <<p, fd_counter[p]>>
  BY <1>2, <1>5, <1>7 DEF Holders
<1>8. CASE d # <<p, fd_counter[p]>>
  BY <1>3, <1>4, <1>8 DEF Holders
<1> QED BY <1>7, <1>8

LEMMA HoldersAfterClose ==
  ASSUME DescriptorInv, NEW p \in alive, NEW fd \in Fd, close_call(p, fd)
  PROVE  /\ \A m \in Node : Holders(m)' = Holders(m) \ {<<p, fd>>}
         /\ \A m \in Node : <<p, fd>> \in Holders(m) <=> m = handle[files[p][fd]].node
<1>1. /\ files[p][fd] # NULL
      /\ files' = [files EXCEPT ![p][fd] = NULL]
      /\ handle' = [k \in Handle |-> IF k \in Reachable(files') THEN handle[k] ELSE NoHandle]
  BY DEF close_call
<1>2. p \in Process
  BY DEF DescriptorInv, HandlesTyped
<1>3. \A d \in Process \X Fd :
        files'[d[1]][d[2]] = IF d = <<p, fd>> THEN NULL ELSE files[d[1]][d[2]]
  BY <1>1, <1>2 DEF DescriptorInv, HandlesTyped
<1>4. \A d \in Process \X Fd : files'[d[1]][d[2]] # NULL =>
        handle'[files'[d[1]][d[2]]] = handle[files[d[1]][d[2]]]
  <2> SUFFICES ASSUME NEW q \in Process, NEW gd \in Fd, files'[q][gd] # NULL
               PROVE  handle'[files'[q][gd]] = handle[files[q][gd]]
    OBVIOUS
  <2>1. files'[q][gd] = files[q][gd] /\ files[q][gd] \in Handle
    BY <1>1, <1>2 DEF DescriptorInv, HandlesTyped
  <2>2. files'[q][gd] \in Reachable(files')
    BY DEF Reachable
  <2> QED BY <1>1, <2>1, <2>2
<1>5. <<p, fd>> \in Process \X Fd
  BY <1>2
<1>6. ASSUME NEW m \in Node, NEW d \in Process \X Fd
      PROVE  d \in Holders(m)' <=> d \in Holders(m) /\ d # <<p, fd>>
  BY <1>3, <1>4 DEF Holders
<1>7. ASSUME NEW m \in Node PROVE Holders(m)' = Holders(m) \ {<<p, fd>>}
  BY <1>6 DEF Holders
<1>8. ASSUME NEW m \in Node
      PROVE  <<p, fd>> \in Holders(m) <=> m = handle[files[p][fd]].node
  BY <1>1, <1>5 DEF Holders
<1> QED BY <1>7, <1>8

LEMMA HoldersAfterFork ==
  ASSUME DescriptorInv, NEW p \in alive, NEW c \in Process \ alive,
         files' = [files EXCEPT ![c] = files[p]], handle' = handle, NEW m \in Node
  PROVE  /\ Holders(m) \subseteq Holders(m)'
         /\ Holders(m)' # Holders(m) =>
              \E fd \in Fd : files[p][fd] # NULL /\ handle[files[p][fd]].node = m
<1>1. /\ files'[c] = files[p] /\ \A fd \in Fd : files[c][fd] = NULL
      /\ \A q \in Process \ {c} : files'[q] = files[q]
  BY DEF DescriptorInv, HandlesTyped, UnbornHaveNone
<1>2. ASSUME NEW d \in Process \X Fd
      PROVE  /\ d[1] = c => d \notin Holders(m)
             /\ d[1] # c => (d \in Holders(m)' <=> d \in Holders(m))
  BY <1>1 DEF Holders
<1>3. Holders(m) \subseteq Holders(m)'
  BY <1>2 DEF Holders
<1>4. ASSUME Holders(m)' # Holders(m)
      PROVE  \E fd \in Fd : files[p][fd] # NULL /\ handle[files[p][fd]].node = m
  <2>1. PICK d \in Process \X Fd : d \in Holders(m)' /\ d \notin Holders(m)
    BY <1>3, <1>4 DEF Holders
  <2>2. d[1] = c /\ d[2] \in Fd
    BY <1>2, <2>1
  <2>3. files[p][d[2]] # NULL /\ handle[files[p][d[2]]].node = m
    BY <1>1, <2>1, <2>2 DEF Holders
  <2> QED BY <2>2, <2>3
<1> QED BY <1>3, <1>4

LEMMA HoldersAfterMove ==
  ASSUME DescriptorInv, NEW p \in alive, NEW fd \in Fd, NEW to \in Nat, files[p][fd] # NULL,
         handle' = [handle EXCEPT ![files[p][fd]].offset = to], files' = files
  PROVE  /\ \A h \in Handle : handle'[h].node = handle[h].node
         /\ \A m \in Node : Holders(m)' = Holders(m)
<1>1. \A h \in Handle : handle'[h].node = handle[h].node
  BY HandleOf DEF DescriptorInv, HandlesTyped
<1>2. ASSUME NEW m \in Node, NEW d \in Process \X Fd
      PROVE  d \in Holders(m)' <=> d \in Holders(m)
  <2>1. files[d[1]][d[2]] \in Handle \cup {NULL}
    BY DEF DescriptorInv, HandlesTyped
  <2> QED BY <1>1, <2>1 DEF Holders
<1>3. ASSUME NEW m \in Node PROVE Holders(m)' = Holders(m)
  BY <1>2 DEF Holders
<1> QED BY <1>1, <1>3

-----------------------------------------------------------------------------
(* open_node and open: the node is entered under its path and counted,     *)
(* every other node and entry stays.                                       *)
LEMMA OpenMaps ==
  ASSUME NodesInv, NEW path \in Path, NEW n \in Node, Opens(path, n), open(path, n),
         UNCHANGED mountVars
  PROVE  /\ node' = [node EXCEPT ![n] = NodeOpened(path, n)]
         /\ open_nodes' = [open_nodes EXCEPT ![path] = n]
         /\ node' \in [Node -> [path : Path, kind : Kind \cup {"none"}, uses : Nat]]
         /\ \A m \in Node : node[m].kind # "none" =>
              node'[m].kind = node[m].kind /\ node'[m].path = node[m].path
         /\ EntriesMatch' /\ RootsMounted'
<1>1. /\ NodeOpened(path, n) \in [path : Path, kind : Kind, uses : Nat]
      /\ NodeOpened(path, n).path = path
      /\ node[n].kind # "none" => NodeOpened(path, n).kind = node[n].kind
  BY OpenNode
<1>2. /\ node' = [node EXCEPT ![n] = NodeOpened(path, n)]
      /\ open_nodes' = [open_nodes EXCEPT ![path] = n]
  BY <1>1 DEF open
<1>3. /\ node \in [Node -> [path : Path, kind : Kind \cup {"none"}, uses : Nat]]
      /\ open_nodes \in [Path -> Node \cup {NULL}]
  BY DEF NodesInv, NodesTyped
<1>4. node' \in [Node -> [path : Path, kind : Kind \cup {"none"}, uses : Nat]]
  BY <1>1, <1>2, <1>3
<1>5. \A m \in Node : node[m].kind # "none" =>
        node'[m].kind = node[m].kind /\ node'[m].path = node[m].path
  <2>1. node[n].kind # "none" => node[n].path = path
    BY OpensCases
  <2> QED BY <1>1, <1>2, <1>3, <2>1
<1>6. node'[n].kind # "none" /\ node'[n].path = path
  BY <1>1, <1>2, <1>3 DEF Kind
<1>7. EntriesMatch'
  <2> SUFFICES ASSUME NEW q \in Path, open_nodes'[q] # NULL
               PROVE  node'[open_nodes'[q]].kind # "none" /\ node'[open_nodes'[q]].path = q
    BY DEF EntriesMatch
  <2>1. CASE q = path
    BY <1>2, <1>3, <1>6, <2>1
  <2>2. CASE q # path
    <3>1. open_nodes'[q] = open_nodes[q] /\ open_nodes[q] \in Node
      BY <1>2, <1>3, <2>2
    <3> QED BY <1>5, <3>1 DEF NodesInv, EntriesMatch
  <2> QED BY <2>1, <2>2
<1>8. RootsMounted'
  <2>1. mounted' = mounted /\ \A q \in Path : mounted[q] \in Node \cup {NULL}
    BY DEF mountVars, NodesInv, NodesTyped
  <2> QED BY <1>5, <2>1 DEF NodesInv, RootsMounted, MountRoot
<1> QED BY <1>2, <1>4, <1>5, <1>7, <1>8

(* A second open of a path finds the node a descriptor already has.        *)
LEMMA OpenKeepsEntries ==
  ASSUME NodesInv, NEW path \in Path, NEW n \in Node, Opens(path, n),
         NEW m \in Node \ {n}, Holders(m) # {}
  PROVE  \/ node[m].path \in forked \cup {Root}
         \/ open_nodes[node[m].path] = m /\ node[m].path # path
<1>1. node[m].path \in forked \cup {Root} \/ open_nodes[node[m].path] = m
  BY DEF NodesInv, HeldNodesOpen
<1>2. n = open_nodes[path] \/ path = Root \/ open_nodes[path] = NULL
  BY OpensCases
<1> QED BY <1>1, <1>2, NullAssumption

LEMMA OpenCallNodes ==
  ASSUME DescriptorInv, NodesInv, NEW p \in alive, NEW path \in Path, open_call(p, path)
  PROVE  NodesInv'
<1>1. PICK n \in Node : Opens(path, n) /\ open(path, n) /\ push_filehandle(p, n)
  BY DEF open_call
<1>2. UNCHANGED <<mountVars, alive, forked, leaked>> /\ fd_counter[p] < MaxFd
  BY DEF open_call
<1>3. /\ node' = [node EXCEPT ![n] = NodeOpened(path, n)]
      /\ open_nodes' = [open_nodes EXCEPT ![path] = n]
      /\ node' \in [Node -> [path : Path, kind : Kind \cup {"none"}, uses : Nat]]
      /\ \A m \in Node : node[m].kind # "none" =>
           node'[m].kind = node[m].kind /\ node'[m].path = node[m].path
      /\ EntriesMatch' /\ RootsMounted'
  BY <1>1, <1>2, OpenMaps
<1>4. /\ node \in [Node -> [path : Path, kind : Kind \cup {"none"}, uses : Nat]]
      /\ open_nodes \in [Path -> Node \cup {NULL}] /\ container \in Node \cup {NULL}
      /\ IsFiniteSet(alive)
  BY DEF NodesInv, NodesTyped
<1>5. NodesTyped'
  BY <1>2, <1>3, <1>4 DEF NodesInv, NodesTyped, mountVars
<1>6. ContainerOpen'
  BY <1>2, <1>3, <1>4 DEF NodesInv, ContainerOpen, mountVars
<1>7. \A m \in Node : Holders(m)' =
        IF m = n THEN Holders(m) \cup {<<p, fd_counter[p]>>} ELSE Holders(m)
  BY <1>1, <1>2, HoldersAfterPush
<1>8. \A m \in Node : m # n => node'[m] = node[m]
  BY <1>3, <1>4
<1>9. LET opened == node'[n]
      IN  /\ opened.path = path /\ opened.kind # "none"
          /\ node[n].kind # "none" =>
               opened.kind = node[n].kind /\ opened.uses = node[n].uses + 1 /\ node[n].path = path
          /\ node[n].kind = "none" => opened.uses = 1
  <2>1. node'[n] = NodeOpened(path, n)
    BY <1>3, <1>4
  <2> QED BY <1>1, <2>1, OpenNode, OpensCases DEF Kind
<1>10. HeldNodesLive'
  <2>1. PICK h \in Handle \ Reachable(files) :
           /\ handle' = [handle EXCEPT ![h] = [node |-> n, offset |-> 0]]
           /\ files' = [files EXCEPT ![p][fd_counter[p]] = h]
           /\ fd_counter[p] \in Fd
    BY <1>1, <1>2, PushFacts
  <2> SUFFICES ASSUME NEW q \in Process, NEW fd \in Fd, files'[q][fd] # NULL
               PROVE  /\ handle'[files'[q][fd]].node \in Node
                      /\ node'[handle'[files'[q][fd]].node].kind # "none"
    BY DEF HeldNodesLive
  <2>2. CASE q = p /\ fd = fd_counter[p]
    BY <1>9, <2>1, <2>2 DEF DescriptorInv, HandlesTyped
  <2>3. CASE ~(q = p /\ fd = fd_counter[p])
    <3>1. files'[q][fd] = files[q][fd] /\ files[q][fd] \in Handle /\ files[q][fd] # h
      BY <2>1, <2>3 DEF DescriptorInv, HandlesTyped, Reachable
    <3>2. handle'[files'[q][fd]] = handle[files[q][fd]]
      BY <2>1, <3>1 DEF DescriptorInv, HandlesTyped
    <3> QED BY <1>3, <3>1, <3>2 DEF NodesInv, HeldNodesLive
  <2> QED BY <2>2, <2>3
<1>11. \A m \in Node : IsFiniteSet(Holders(m)) /\ Cardinality(Holders(m)) \in Nat
  BY <1>4, HoldersFinite
<1>12. Cardinality(Holders(n)') = Cardinality(Holders(n)) + 1
  <2>1. <<p, fd_counter[p]>> \notin Holders(n)
    BY DEF DescriptorInv, HandlesTyped, CounterAboveOpen, Holders
  <2> QED BY <1>7, <1>11, <2>1, FS_AddElement
<1>13. node[n].kind = "none" => Cardinality(Holders(n)) = 0
  <2>1. node[n].kind = "none" => Holders(n) = {}
    BY HoldersLive DEF NodesInv
  <2> QED BY <2>1, FS_EmptySet
<1>14. node[n].uses \in Nat
  BY <1>4
<1>15. CountsCover'
  <2> SUFFICES ASSUME NEW m \in Node, node'[m].kind # "none", node'[m].path \notin forked
               PROVE  Cardinality(Holders(m)') <= node'[m].uses
    BY <1>2 DEF CountsCover
  <2>1. CASE m = n
    BY <1>9, <1>11, <1>12, <1>13, <1>14, <2>1 DEF NodesInv, CountsCover
  <2>2. CASE m # n
    BY <1>7, <1>8, <2>2 DEF NodesInv, CountsCover
  <2> QED BY <2>1, <2>2
<1>16. CountsBounded'
  <2> SUFFICES ASSUME NEW m \in Node, node'[m].kind # "none", ~MountRoot(m)'
               PROVE  /\ 1 <= node'[m].uses
                      /\ node'[m].path \notin leaked => node'[m].uses <= Cardinality(Holders(m)')
    BY <1>2 DEF CountsBounded
  <2>1. CASE m = n /\ node[n].kind # "none"
    BY <1>9, <1>11, <1>12, <1>14, <2>1 DEF NodesInv, CountsBounded, MountRoot
  <2>2. CASE m = n /\ node[n].kind = "none"
    BY <1>9, <1>11, <1>12, <2>2
  <2>3. CASE m # n
    BY <1>7, <1>8, <2>3 DEF NodesInv, CountsBounded, MountRoot
  <2> QED BY <2>1, <2>2, <2>3
<1>17. HeldNodesOpen'
  <2> SUFFICES ASSUME NEW m \in Node, Holders(m)' # {}
               PROVE  node'[m].path \in forked \cup {Root} \/ open_nodes'[node'[m].path] = m
    BY <1>2 DEF HeldNodesOpen
  <2>1. CASE m = n
    BY <1>3, <1>4, <1>9, <2>1
  <2>2. CASE m # n
    <3>1. Holders(m) # {} /\ node'[m] = node[m] /\ node[m].path \in Path
      BY <1>4, <1>7, <1>8, <2>2
    <3>2. \/ node[m].path \in forked \cup {Root}
          \/ open_nodes[node[m].path] = m /\ node[m].path # path
      BY <1>1, <2>2, <3>1, OpenKeepsEntries
    <3> QED BY <1>3, <1>4, <3>1, <3>2
  <2> QED BY <2>1, <2>2
<1> QED BY <1>3, <1>5, <1>6, <1>10, <1>15, <1>16, <1>17 DEF NodesInv

LEMMA ExecNodes ==
  ASSUME DescriptorInv, NodesInv, NEW p \in alive, NEW path \in Path, execve_no_elf(p, path)
  PROVE  NodesInv'
<1>1. PICK n \in Node : Opens(path, n) /\ open(path, n)
  BY DEF execve_no_elf
<1>2. UNCHANGED <<mountVars, handleVars, alive, forked>> /\ leaked' = leaked \cup {path}
  BY DEF execve_no_elf
<1>3. /\ node' = [node EXCEPT ![n] = NodeOpened(path, n)]
      /\ open_nodes' = [open_nodes EXCEPT ![path] = n]
      /\ node' \in [Node -> [path : Path, kind : Kind \cup {"none"}, uses : Nat]]
      /\ \A m \in Node : node[m].kind # "none" =>
           node'[m].kind = node[m].kind /\ node'[m].path = node[m].path
      /\ EntriesMatch' /\ RootsMounted'
  BY <1>1, <1>2, OpenMaps
<1>4. /\ node \in [Node -> [path : Path, kind : Kind \cup {"none"}, uses : Nat]]
      /\ open_nodes \in [Path -> Node \cup {NULL}] /\ container \in Node \cup {NULL}
      /\ IsFiniteSet(alive)
  BY DEF NodesInv, NodesTyped
<1>5. NodesTyped'
  BY <1>2, <1>3, <1>4 DEF NodesInv, NodesTyped, mountVars
<1>6. ContainerOpen'
  BY <1>2, <1>3, <1>4 DEF NodesInv, ContainerOpen, mountVars
<1>7. \A m \in Node : Holders(m)' = Holders(m)
  BY <1>2 DEF Holders, handleVars
<1>8. \A m \in Node : m # n => node'[m] = node[m]
  BY <1>3, <1>4
<1>9. LET opened == node'[n]
      IN  /\ opened.path = path
          /\ node[n].kind # "none" =>
               opened.uses = node[n].uses + 1 /\ node[n].path = path
          /\ node[n].kind = "none" => opened.uses = 1
  <2>1. node'[n] = NodeOpened(path, n)
    BY <1>3, <1>4
  <2> QED BY <1>1, <2>1, OpenNode, OpensCases
<1>10. HeldNodesLive'
  BY <1>2, <1>3 DEF NodesInv, HeldNodesLive, handleVars
<1>11. \A m \in Node : Cardinality(Holders(m)) \in Nat
  BY <1>4, HoldersFinite
<1>12. node[n].kind = "none" => Cardinality(Holders(n)) = 0
  <2>1. node[n].kind = "none" => Holders(n) = {}
    BY HoldersLive DEF NodesInv
  <2> QED BY <2>1, FS_EmptySet
<1>13. node[n].uses \in Nat
  BY <1>4
<1>14. CountsCover'
  <2> SUFFICES ASSUME NEW m \in Node, node'[m].kind # "none", node'[m].path \notin forked
               PROVE  Cardinality(Holders(m)') <= node'[m].uses
    BY <1>2 DEF CountsCover
  <2>1. CASE m = n
    BY <1>7, <1>9, <1>11, <1>12, <1>13, <2>1 DEF NodesInv, CountsCover
  <2>2. CASE m # n
    BY <1>7, <1>8, <2>2 DEF NodesInv, CountsCover
  <2> QED BY <2>1, <2>2
<1>15. CountsBounded'
  <2> SUFFICES ASSUME NEW m \in Node, node'[m].kind # "none", ~MountRoot(m)'
               PROVE  /\ 1 <= node'[m].uses
                      /\ node'[m].path \notin leaked' => node'[m].uses <= Cardinality(Holders(m)')
    BY DEF CountsBounded
  <2>1. CASE m = n
    BY <1>2, <1>9, <1>13, <2>1
  <2>2. CASE m # n
    BY <1>2, <1>7, <1>8, <2>2 DEF NodesInv, CountsBounded, MountRoot
  <2> QED BY <2>1, <2>2
<1>16. HeldNodesOpen'
  <2> SUFFICES ASSUME NEW m \in Node, Holders(m)' # {}
               PROVE  node'[m].path \in forked \cup {Root} \/ open_nodes'[node'[m].path] = m
    BY <1>2 DEF HeldNodesOpen
  <2>1. CASE m = n
    BY <1>3, <1>4, <1>9, <2>1
  <2>2. CASE m # n
    <3>1. Holders(m) # {} /\ node'[m] = node[m] /\ node[m].path \in Path
      BY <1>4, <1>7, <1>8, <2>2
    <3>2. \/ node[m].path \in forked \cup {Root}
          \/ open_nodes[node[m].path] = m /\ node[m].path # path
      BY <1>1, <2>2, <3>1, OpenKeepsEntries
    <3> QED BY <1>3, <1>4, <3>1, <3>2
  <2> QED BY <2>1, <2>2
<1> QED BY <1>3, <1>5, <1>6, <1>10, <1>14, <1>15, <1>16 DEF NodesInv

(* close_node: what is still referenced stays as it is, but for the count  *)
(* of the closed node; what is not is destroyed.                           *)
LEMMA CloseFacts ==
  ASSUME DescriptorInv, NodesInv, NEW p \in alive, NEW fd \in Fd, close_call(p, fd),
         NEW n, n = handle[files[p][fd]].node
  PROVE  /\ n \in Node /\ node[n].kind # "none" /\ Holders(n) # {}
         /\ open_nodes' = IF node[n].uses <= 1
                          THEN [open_nodes EXCEPT ![node[n].path] = NULL] ELSE open_nodes
         /\ node' \in [Node -> [path : Path, kind : Kind \cup {"none"}, uses : Nat]]
         /\ \A m \in Node :
              \/ /\ node'[m].path = node[m].path /\ node'[m].kind = node[m].kind
                 /\ node'[m].uses = IF m = n /\ node[n].uses > 1 THEN node[m].uses - 1
                                    ELSE node[m].uses
                 /\ \/ \E q \in Path : open_nodes'[q] = m \/ mounted[q] = m
                    \/ container = m
                    \/ Holders(m)' # {}
              \/ /\ node'[m].kind = "none"
                 /\ \A q \in Path : open_nodes'[q] # m /\ mounted[q] # m
                 /\ container # m
                 /\ Holders(m)' = {}
<1>1. /\ files[p][fd] # NULL
      /\ files' = [files EXCEPT ![p][fd] = NULL]
      /\ open_nodes' = MapAfterClose(n)
      /\ node' = NodesAfterClose(n, files')
      /\ handle' = [k \in Handle |-> IF k \in Reachable(files') THEN handle[k] ELSE NoHandle]
  BY DEF close_call, close_node
<1>2. p \in Process /\ n \in Node /\ node[n].kind # "none"
  BY <1>1 DEF DescriptorInv, HandlesTyped, NodesInv, HeldNodesLive
<1>3. Holders(n) # {}
  <2>1. <<p, fd>> \in Holders(n)
    BY <1>1, <1>2 DEF Holders
  <2> QED BY <2>1
<1>4. open_nodes' = IF node[n].uses <= 1
                    THEN [open_nodes EXCEPT ![node[n].path] = NULL] ELSE open_nodes
  BY <1>1 DEF MapAfterClose
<1> DEFINE kept == Referenced(open_nodes', Reachable(files'))
           counted == IF node[n].uses <= 1 THEN node ELSE [node EXCEPT ![n].uses = @ - 1]
<1>5. node' = [m \in Node |-> IF m \in kept THEN counted[m] ELSE NoNode]
  <2>1. kept = Referenced(MapAfterClose(n), Reachable(files'))
    BY <1>1
  <2>2. node' = NodesAfterClose(n, files')
    BY <1>1
  <2>3. NodesAfterClose(n, files') =
          [m \in Node |-> IF m \in Referenced(MapAfterClose(n), Reachable(files'))
                          THEN counted[m] ELSE NoNode]
    BY DEF NodesAfterClose
  <2> HIDE DEF kept, counted
  <2> QED BY <2>1, <2>2, <2>3
<1>6. node \in [Node -> [path : Path, kind : Kind \cup {"none"}, uses : Nat]]
  BY DEF NodesInv, NodesTyped
<1>7. \A m \in Node :
        /\ counted[m] \in [path : Path, kind : Kind \cup {"none"}, uses : Nat]
        /\ counted[m].path = node[m].path /\ counted[m].kind = node[m].kind
        /\ counted[m].uses = IF m = n /\ node[n].uses > 1 THEN node[m].uses - 1
                             ELSE node[m].uses
  <2>1. CASE node[n].uses <= 1
    BY <1>2, <1>6, <2>1
  <2>2. CASE ~(node[n].uses <= 1)
    <3>1. node[n].uses \in Nat /\ node[n].uses - 1 \in Nat /\ node[n].uses > 1
      BY <1>2, <1>6, <2>2
    <3>2. counted = [node EXCEPT ![n].uses = node[n].uses - 1]
      BY <1>2, <1>6, <2>2
    <3> HIDE DEF counted
    <3> QED BY <1>2, <1>6, <3>1, <3>2
  <2> QED BY <2>1, <2>2
<1> HIDE DEF counted
<1>8. NoNode \in [path : Path, kind : Kind \cup {"none"}, uses : Nat] /\ NoNode.kind = "none"
  BY PathAssumption DEF NoNode
<1>9. \A m \in Node : m \in kept <=>
        \/ \E q \in Path : open_nodes'[q] = m \/ mounted[q] = m
        \/ container = m
        \/ Holders(m)' # {}
  <2> SUFFICES ASSUME NEW m \in Node
               PROVE  m \in {handle[h].node : h \in Reachable(files')} <=> Holders(m)' # {}
    BY DEF Referenced
  <2>1. \A q \in Process, gd \in Fd : files'[q][gd] # NULL =>
          files'[q][gd] \in Reachable(files') /\ handle'[files'[q][gd]] = handle[files'[q][gd]]
    <3> SUFFICES ASSUME NEW q \in Process, NEW gd \in Fd, files'[q][gd] # NULL
                 PROVE  /\ files'[q][gd] \in Reachable(files')
                        /\ handle'[files'[q][gd]] = handle[files'[q][gd]]
      OBVIOUS
    <3>1. files'[q][gd] \in Reachable(files')
      BY DEF Reachable
    <3>2. files'[q][gd] \in Handle
      BY <1>1, <1>2 DEF DescriptorInv, HandlesTyped
    <3> QED BY <1>1, <3>1, <3>2
  <2>2. ASSUME m \in {handle[h].node : h \in Reachable(files')}
        PROVE  Holders(m)' # {}
    <3>1. PICK q \in Process, gd \in Fd : files'[q][gd] # NULL /\ handle[files'[q][gd]].node = m
      BY <2>2 DEF Reachable
    <3>2. <<q, gd>> \in Holders(m)'
      BY <2>1, <3>1 DEF Holders
    <3> QED BY <3>2
  <2>3. ASSUME Holders(m)' # {}
        PROVE  m \in {handle[h].node : h \in Reachable(files')}
    <3>1. PICK d \in Process \X Fd : files'[d[1]][d[2]] # NULL /\ handle'[files'[d[1]][d[2]]].node = m
      BY <2>3 DEF Holders
    <3>2. /\ files'[d[1]][d[2]] \in Reachable(files')
          /\ handle'[files'[d[1]][d[2]]] = handle[files'[d[1]][d[2]]]
      BY <2>1, <3>1
    <3> QED BY <3>1, <3>2
  <2> QED BY <2>2, <2>3
<1> HIDE DEF kept
<1>10. node' \in [Node -> [path : Path, kind : Kind \cup {"none"}, uses : Nat]]
  BY <1>5, <1>7, <1>8
<1>11. ASSUME NEW m \in Node
       PROVE  \/ /\ node'[m].path = node[m].path /\ node'[m].kind = node[m].kind
                 /\ node'[m].uses = IF m = n /\ node[n].uses > 1 THEN node[m].uses - 1
                                    ELSE node[m].uses
                 /\ \/ \E q \in Path : open_nodes'[q] = m \/ mounted[q] = m
                    \/ container = m
                    \/ Holders(m)' # {}
              \/ /\ node'[m].kind = "none"
                 /\ \A q \in Path : open_nodes'[q] # m /\ mounted[q] # m
                 /\ container # m
                 /\ Holders(m)' = {}
  <2>1. CASE m \in kept
    <3>1. node'[m] = counted[m]
      BY <1>5, <2>1
    <3> QED BY <1>7, <1>9, <2>1, <3>1
  <2>2. CASE m \notin kept
    <3>1. node'[m] = NoNode
      BY <1>5, <2>2
    <3> QED BY <1>8, <1>9, <2>2, <3>1
  <2> QED BY <2>1, <2>2
<1> QED BY <1>2, <1>3, <1>4, <1>10, <1>11

LEMMA CloseNodes ==
  ASSUME DescriptorInv, NodesInv, NEW p \in alive, NEW fd \in Fd, close_call(p, fd)
  PROVE  NodesInv'
<1>1. PICK n : n = handle[files[p][fd]].node
  OBVIOUS
<1>2. /\ n \in Node /\ node[n].kind # "none" /\ Holders(n) # {}
      /\ open_nodes' = IF node[n].uses <= 1
                       THEN [open_nodes EXCEPT ![node[n].path] = NULL] ELSE open_nodes
      /\ node' \in [Node -> [path : Path, kind : Kind \cup {"none"}, uses : Nat]]
  BY <1>1, CloseFacts
<1> DEFINE Kept(m) ==
             /\ node'[m].path = node[m].path /\ node'[m].kind = node[m].kind
             /\ node'[m].uses = IF m = n /\ node[n].uses > 1 THEN node[m].uses - 1
                                ELSE node[m].uses
             /\ \/ \E q \in Path : open_nodes'[q] = m \/ mounted[q] = m
                \/ container = m
                \/ Holders(m)' # {}
           Gone(m) ==
             /\ node'[m].kind = "none"
             /\ \A q \in Path : open_nodes'[q] # m /\ mounted[q] # m
             /\ container # m
             /\ Holders(m)' = {}
<1>3. \A m \in Node : Kept(m) \/ Gone(m)
  BY <1>1, CloseFacts
<1> HIDE DEF Kept, Gone
<1>4. UNCHANGED <<mountVars, fd_counter, alive, forked, leaked>>
  BY DEF close_call
<1>5. /\ node \in [Node -> [path : Path, kind : Kind \cup {"none"}, uses : Nat]]
      /\ open_nodes \in [Path -> Node \cup {NULL}]
      /\ mounted \in [Path -> Node \cup {NULL}] /\ container \in Node \cup {NULL}
      /\ IsFiniteSet(alive)
  BY DEF NodesInv, NodesTyped
<1>6. /\ \A m \in Node : Holders(m)' = Holders(m) \ {<<p, fd>>}
      /\ \A m \in Node : <<p, fd>> \in Holders(m) <=> m = n
  BY <1>1, HoldersAfterClose
<1>7. open_nodes' \in [Path -> Node \cup {NULL}]
      /\ \A q \in Path : open_nodes'[q] \in {open_nodes[q], NULL}
  BY <1>2, <1>5
<1>8. NodesTyped'
  BY <1>2, <1>4, <1>5, <1>7 DEF NodesTyped, mountVars
<1>9. EntriesMatch'
  <2> SUFFICES ASSUME NEW q \in Path, open_nodes'[q] # NULL
               PROVE  node'[open_nodes'[q]].kind # "none" /\ node'[open_nodes'[q]].path = q
    BY DEF EntriesMatch
  <2>1. open_nodes'[q] = open_nodes[q] /\ open_nodes[q] \in Node
    BY <1>5, <1>7
  <2>2. Kept(open_nodes[q])
    BY <1>3, <2>1 DEF Gone
  <2> QED BY <2>1, <2>2 DEF Kept, NodesInv, EntriesMatch
<1>10. RootsMounted'
  <2>1. ASSUME NEW q \in Path, mounted[q] # NULL
        PROVE  /\ node'[mounted[q]].kind = node[mounted[q]].kind
               /\ node'[mounted[q]].path = node[mounted[q]].path
    <3>1. mounted[q] \in Node
      BY <1>5, <2>1
    <3>2. Kept(mounted[q])
      BY <1>3, <3>1 DEF Gone
    <3> QED BY <3>2 DEF Kept
  <2> QED BY <1>4, <2>1 DEF NodesInv, RootsMounted, MountRoot, mountVars
<1>11. ContainerOpen'
  <2>1. container # NULL => Kept(container)
    BY <1>3, <1>5 DEF Gone
  <2> QED BY <1>4, <2>1 DEF Kept, NodesInv, ContainerOpen, mountVars
<1>12. HeldNodesLive'
  <2> SUFFICES ASSUME NEW q \in Process, NEW gd \in Fd, files'[q][gd] # NULL
               PROVE  /\ handle'[files'[q][gd]].node \in Node
                      /\ node'[handle'[files'[q][gd]].node].kind # "none"
    BY DEF HeldNodesLive
  <2>1. PICK m : m = handle'[files'[q][gd]].node
    OBVIOUS
  <2>2. m \in Node /\ node[m].kind # "none"
    <3>1. /\ files' = [files EXCEPT ![p][fd] = NULL]
          /\ handle' = [k \in Handle |-> IF k \in Reachable(files') THEN handle[k] ELSE NoHandle]
      BY DEF close_call
    <3>2. files'[q][gd] = files[q][gd] /\ files[q][gd] \in Handle
      BY <3>1 DEF DescriptorInv, HandlesTyped
    <3>3. files'[q][gd] \in Reachable(files')
      BY DEF Reachable
    <3>4. m = handle[files[q][gd]].node
      BY <2>1, <3>1, <3>2, <3>3
    <3> QED BY <3>2, <3>4 DEF NodesInv, HeldNodesLive
  <2>3. <<q, gd>> \in Holders(m)'
    BY <2>1 DEF Holders
  <2>4. Kept(m)
    BY <1>3, <2>2, <2>3 DEF Gone
  <2>5. node'[m].kind # "none"
    BY <2>2, <2>4 DEF Kept
  <2> QED BY <2>1, <2>2, <2>5
<1>13. \A m \in Node : IsFiniteSet(Holders(m)) /\ Cardinality(Holders(m)) \in Nat
  BY <1>5, HoldersFinite
<1>14. /\ \A m \in Node \ {n} : Holders(m)' = Holders(m)
       /\ Cardinality(Holders(n)') = Cardinality(Holders(n)) - 1
       /\ IsFiniteSet(Holders(n)')
  <2>1. \A m \in Node \ {n} : Holders(m)' = Holders(m)
    BY <1>6
  <2>2. Holders(n)' = Holders(n) \ {<<p, fd>>} /\ <<p, fd>> \in Holders(n)
    BY <1>2, <1>6
  <2> QED BY <1>2, <1>13, <2>1, <2>2, FS_RemoveElement
<1>15. node[n].uses \in Nat /\ \A m \in Node : node[m].uses \in Nat /\ node[m].path \in Path
  BY <1>2, <1>5
<1>16. CountsCover'
  <2> SUFFICES ASSUME NEW m \in Node, node'[m].kind # "none", node'[m].path \notin forked
               PROVE  Cardinality(Holders(m)') <= node'[m].uses
    BY <1>4 DEF CountsCover
  <2>1. Kept(m)
    BY <1>3 DEF Gone
  <2>2. Cardinality(Holders(m)) <= node[m].uses
    BY <2>1 DEF Kept, NodesInv, CountsCover
  <2>3. CASE m = n /\ node[n].uses > 1
    BY <1>13, <1>14, <1>15, <2>1, <2>2, <2>3 DEF Kept
  <2>4. CASE m = n /\ ~(node[n].uses > 1)
    BY <1>13, <1>14, <1>15, <2>1, <2>2, <2>4 DEF Kept
  <2>5. CASE m # n
    BY <1>14, <2>1, <2>2, <2>5 DEF Kept
  <2> QED BY <2>3, <2>4, <2>5
<1>17. CountsBounded'
  <2> SUFFICES ASSUME NEW m \in Node, node'[m].kind # "none", ~MountRoot(m)'
               PROVE  /\ 1 <= node'[m].uses
                      /\ node'[m].path \notin leaked => node'[m].uses <= Cardinality(Holders(m)')
    BY <1>4 DEF CountsBounded
  <2>1. Kept(m)
    BY <1>3 DEF Gone
  <2>2. ~MountRoot(m) /\ node[m].kind # "none"
    BY <2>1 DEF Kept, MountRoot
  <2>3. /\ 1 <= node[m].uses
        /\ node[m].path \notin leaked => node[m].uses <= Cardinality(Holders(m))
    BY <2>2 DEF NodesInv, CountsBounded
  <2>4. CASE m # n
    BY <1>14, <2>1, <2>3, <2>4 DEF Kept
  <2>5. CASE m = n /\ node[n].uses > 1
    BY <1>13, <1>14, <1>15, <2>1, <2>3, <2>5 DEF Kept
  <2>6. CASE m = n /\ ~(node[n].uses > 1)
    <3>1. node'[m].uses = node[m].uses /\ node'[m].path = node[m].path
      BY <2>1, <2>6 DEF Kept
    <3>2. ASSUME node[m].path \notin leaked PROVE Holders(n)' # {}
      <4>1. open_nodes' = [open_nodes EXCEPT ![node[n].path] = NULL]
        BY <1>2, <1>15, <2>6
      <4>2. \A q \in Path : open_nodes'[q] # n
        BY <1>2, <1>5, <4>1, NullAssumption DEF NodesInv, EntriesMatch
      <4>3. \A q \in Path : mounted[q] # n
        BY <2>2, <2>6, <1>2, NullAssumption DEF NodesInv, RootsMounted
      <4>4. container # n
        BY <3>2, <2>6, <1>2, NullAssumption DEF NodesInv, ContainerOpen
      <4> QED BY <2>1, <2>6, <4>2, <4>3, <4>4 DEF Kept
    <3>3. node[m].path \notin leaked => 1 <= Cardinality(Holders(n)')
      <4>1. Cardinality(Holders(n)') \in Nat
        BY <1>14, FS_CardinalityType
      <4>2. Holders(n)' # {} => Cardinality(Holders(n)') # 0
        BY <1>14, FS_EmptySet
      <4> QED BY <3>2, <4>1, <4>2
    <3> QED BY <1>15, <2>3, <2>6, <3>1, <3>3
  <2> QED BY <2>4, <2>5, <2>6
<1>18. HeldNodesOpen'
  <2> SUFFICES ASSUME NEW m \in Node, Holders(m)' # {}, node'[m].path \notin forked \cup {Root}
               PROVE  open_nodes'[node'[m].path] = m
    BY <1>4 DEF HeldNodesOpen
  <2>1. Kept(m)
    BY <1>3 DEF Gone
  <2>2. Holders(m) # {} /\ node'[m].path = node[m].path
    BY <1>6, <2>1 DEF Kept
  <2>3. open_nodes[node[m].path] = m /\ node[m].path \in Path
    BY <1>15, <2>2 DEF NodesInv, HeldNodesOpen
  <2>4. CASE node[n].uses <= 1 /\ node[m].path = node[n].path
    <3>1. open_nodes[node[n].path] = n
      BY <1>2, <2>2, <2>4 DEF NodesInv, HeldNodesOpen
    <3>2. m = n
      BY <2>3, <2>4, <3>1
    <3>3. Cardinality(Holders(n)) <= node[n].uses
      BY <1>2, <2>2, <2>4 DEF NodesInv, CountsCover
    <3>4. Cardinality(Holders(n)') <= 0
      BY <1>13, <1>14, <1>15, <1>2, <2>4, <3>3
    <3>5. Cardinality(Holders(n)') = 0
      <4>1. Cardinality(Holders(n)') \in Nat
        BY <1>14, FS_CardinalityType
      <4> QED BY <3>4, <4>1
    <3>6. Holders(n)' = {}
      BY <1>14, <3>5, FS_EmptySet
    <3> QED BY <3>2, <3>6
  <2>5. CASE ~(node[n].uses <= 1 /\ node[m].path = node[n].path)
    <3>1. open_nodes'[node[m].path] = open_nodes[node[m].path]
      BY <1>2, <1>5, <2>3, <2>5
    <3> QED BY <2>2, <2>3, <3>1
  <2> QED BY <2>4, <2>5
<1> QED BY <1>8, <1>9, <1>10, <1>11, <1>12, <1>16, <1>17, <1>18 DEF NodesInv

LEMMA MoveNodes ==
  ASSUME DescriptorInv, NodesInv, NEW p \in alive, NEW fd \in Fd, NEW to \in Nat,
         files[p][fd] # NULL,
         handle' = [handle EXCEPT ![files[p][fd]].offset = to],
         UNCHANGED <<vfsVars, files, fd_counter, alive, forked, leaked>>
  PROVE  NodesInv'
<1>1. /\ \A h \in Handle : handle'[h].node = handle[h].node
      /\ \A m \in Node : Holders(m)' = Holders(m)
  BY HoldersAfterMove
<1>2. HeldNodesLive'
  <2>1. \A q \in Process, gd \in Fd : files[q][gd] \in Handle \cup {NULL}
    BY DEF DescriptorInv, HandlesTyped
  <2> QED BY <1>1, <2>1 DEF NodesInv, HeldNodesLive, vfsVars
<1>3. NodesTyped' /\ EntriesMatch' /\ RootsMounted' /\ ContainerOpen'
  BY DEF NodesInv, NodesTyped, EntriesMatch, RootsMounted, ContainerOpen, MountRoot, vfsVars
<1>4. CountsCover' /\ CountsBounded' /\ HeldNodesOpen'
  BY <1>1 DEF NodesInv, CountsCover, CountsBounded, HeldNodesOpen, MountRoot, vfsVars
<1> QED BY <1>2, <1>3, <1>4 DEF NodesInv

LEMMA ForkNodes ==
  ASSUME DescriptorInv, NodesInv, NEW p \in alive, fork_call(p)
  PROVE  NodesInv'
<1>1. PICK c \in Process \ alive :
        /\ files' = [files EXCEPT ![c] = files[p]]
        /\ alive' = alive \cup {c}
        /\ forked' = forked \cup {node[handle[files[p][fd]].node].path :
                                    fd \in {k \in Fd : files[p][k] # NULL}}
        /\ UNCHANGED <<vfsVars, handle, leaked>>
  BY DEF fork_call, copy_filehandles
<1>2. ASSUME NEW m \in Node
      PROVE  /\ Holders(m) \subseteq Holders(m)'
             /\ node[m].path \notin forked' => Holders(m)' = Holders(m)
  <2>1. Holders(m)' # Holders(m) =>
          \E fd \in Fd : files[p][fd] # NULL /\ handle[files[p][fd]].node = m
    BY <1>1, HoldersAfterFork
  <2> QED BY <1>1, <2>1, HoldersAfterFork
<1>3. IsFiniteSet(alive')
  BY <1>1, FS_AddElement DEF NodesInv, NodesTyped
<1>4. NodesTyped' /\ EntriesMatch' /\ RootsMounted' /\ ContainerOpen'
  BY <1>1, <1>3
  DEF NodesInv, NodesTyped, EntriesMatch, RootsMounted, ContainerOpen, MountRoot, vfsVars
<1>5. HeldNodesLive'
  <2>1. \A q \in Process, fd \in Fd : files'[q][fd] = files[q][fd] \/ files'[q][fd] = files[p][fd]
    BY <1>1 DEF DescriptorInv, HandlesTyped
  <2>2. p \in Process
    BY DEF DescriptorInv, HandlesTyped
  <2> QED BY <1>1, <2>1, <2>2 DEF NodesInv, HeldNodesLive, vfsVars
<1>6. CountsCover'
  BY <1>1, <1>2 DEF NodesInv, CountsCover, vfsVars
<1>7. CountsBounded'
  <2> SUFFICES ASSUME NEW m \in Node, node[m].kind # "none", ~MountRoot(m)
               PROVE  /\ 1 <= node[m].uses
                      /\ node[m].path \notin leaked => node[m].uses <= Cardinality(Holders(m)')
    BY <1>1 DEF CountsBounded, MountRoot, vfsVars
  <2>1. DescriptorInv'
    BY ForkDescriptors
  <2>2. IsFiniteSet(Holders(m)') /\ Cardinality(Holders(m)') \in Nat
    <3>1. IsFiniteSet(Fd)
      BY BoundAssumption, FS_Interval DEF Fd
    <3>2. IsFiniteSet(alive' \X Fd)
      BY <1>3, <3>1, FS_Product
    <3>3. Holders(m)' \subseteq alive' \X Fd
      BY <2>1 DEF Holders, DescriptorInv, HandlesTyped, UnbornHaveNone
    <3> QED BY <3>2, <3>3, FS_Subset, FS_CardinalityType
  <2>3. Cardinality(Holders(m)) <= Cardinality(Holders(m)') /\ Cardinality(Holders(m)) \in Nat
    <3>1. Cardinality(Holders(m)) \in Nat
      BY HoldersFinite DEF NodesInv, NodesTyped
    <3>2. Holders(m) \in SUBSET (Holders(m)')
      BY <1>2
    <3>3. Cardinality(Holders(m)) <= Cardinality(Holders(m)')
      BY <2>2, <3>2, FS_Subset
    <3> QED BY <3>1, <3>3
  <2>4. node[m].uses \in Nat
    BY DEF NodesInv, NodesTyped
  <2> QED BY <2>2, <2>3, <2>4 DEF NodesInv, CountsBounded
<1>8. HeldNodesOpen'
  <2> SUFFICES ASSUME NEW m \in Node, Holders(m)' # {}, node[m].path \notin forked' \cup {Root}
               PROVE  open_nodes[node[m].path] = m
    BY <1>1 DEF HeldNodesOpen, vfsVars
  <2> QED BY <1>1, <1>2 DEF NodesInv, HeldNodesOpen
<1> QED BY <1>4, <1>5, <1>6, <1>7, <1>8 DEF NodesInv

LEMMA SameNodes ==
  ASSUME NodesInv, UNCHANGED vars
  PROVE  NodesInv'
<1>1. \A m : Holders(m)' = Holders(m)
  BY DEF Holders, vars
<1>2. NodesTyped' /\ EntriesMatch' /\ RootsMounted' /\ ContainerOpen' /\ HeldNodesLive'
  BY DEF NodesInv, NodesTyped, EntriesMatch, RootsMounted, ContainerOpen, HeldNodesLive,
         MountRoot, vars
<1>3. CountsCover' /\ CountsBounded' /\ HeldNodesOpen'
  BY <1>1 DEF NodesInv, CountsCover, CountsBounded, HeldNodesOpen, MountRoot, vars
<1> QED BY <1>2, <1>3 DEF NodesInv

(* Mounting the FAT volume: its container is opened, the old root goes     *)
(* unless somebody has it.                                                 *)
LEMMA MountNodes ==
  ASSUME DescriptorInv, NodesInv, NEW p \in alive, mount(p)
  PROVE  NodesInv'
<1>1. container = NULL /\ UNCHANGED <<handleVars, alive, forked>>
      /\ leaked' = leaked \cup {Container}
  BY DEF mount
<1>2. PICK c \in Node, r \in Node :
        /\ Opens(Container, c)
        /\ FreeNodes \ {c} # {} /\ r = CHOOSE n \in FreeNodes \ {c} : TRUE
        /\ container' = c
        /\ mounted' = [mounted EXCEPT ![Root] = r]
        /\ open_nodes' = [open_nodes EXCEPT ![Container] = c]
        /\ node' = [n \in Node |->
              CASE n = c -> NodeOpened(Container, c)
                [] n = r -> [path |-> Root, kind |-> "fat_root", uses |-> 0]
                [] n = mounted[Root] /\ n # c /\ open_nodes[Root] # n
                     /\ n \notin {handle[h].node : h \in Reachable(files)} -> NoNode
                [] OTHER -> node[n]]
  BY DEF mount
<1>3. r # c /\ node[r].kind = "none" /\ r # mounted[Root]
  <2>1. r # c /\ node[r].kind = "none"
    BY <1>2 DEF FreeNodes
  <2> QED BY <2>1, PathAssumption DEF NodesInv, RootsMounted, MountRoot
<1>4. /\ Root \in Path /\ Container \in Path
      /\ node \in [Node -> [path : Path, kind : Kind \cup {"none"}, uses : Nat]]
      /\ open_nodes \in [Path -> Node \cup {NULL}]
      /\ mounted \in [Path -> Node \cup {NULL}]
      /\ IsFiniteSet(alive)
  BY PathAssumption DEF NodesInv, NodesTyped
<1>5. LET opened == NodeOpened(Container, c)
      IN  /\ opened \in [path : Path, kind : Kind, uses : Nat]
          /\ opened.path = Container
          /\ node[c].kind # "none" =>
               /\ opened.kind = node[c].kind /\ opened.uses = node[c].uses + 1
               /\ node[c].path = Container
          /\ node[c].kind = "none" => opened.uses = 1
  BY <1>2, <1>4, OpenNode, OpensCases
<1> DEFINE Lost(n) == /\ n = mounted[Root] /\ open_nodes[Root] # n
                      /\ n \notin {handle[h].node : h \in Reachable(files)}
<1>6. /\ node'[c] = NodeOpened(Container, c)
      /\ node'[r] = [path |-> Root, kind |-> "fat_root", uses |-> 0]
      /\ \A n \in Node \ {c, r} : node'[n] = IF Lost(n) THEN NoNode ELSE node[n]
  <2>1. node'[c] = NodeOpened(Container, c)
    BY <1>2, <1>3
  <2>2. node'[r] = [path |-> Root, kind |-> "fat_root", uses |-> 0]
    BY <1>2, <1>3
  <2>3. ASSUME NEW n \in Node \ {c, r}
        PROVE  node'[n] = IF Lost(n) THEN NoNode ELSE node[n]
    <3>1. CASE Lost(n)
      BY <1>2, <3>1
    <3>2. CASE ~Lost(n)
      BY <1>2, <3>2
    <3> QED BY <3>1, <3>2
  <2> QED BY <2>1, <2>2, <2>3
<1>7. /\ NoNode \in [path : Path, kind : Kind \cup {"none"}, uses : Nat]
      /\ NoNode.kind = "none"
      /\ "fat_root" \in Kind /\ "none" \notin Kind
  BY <1>4 DEF NoNode, Kind
<1>8. \A n \in Node : Holders(n)' = Holders(n) /\ (Holders(n) # {} => ~Lost(n) /\ n # r)
  <2>1. \A n \in Node : Holders(n)' = Holders(n)
    BY <1>1 DEF Holders, handleVars
  <2>2. ASSUME NEW n \in Node, Holders(n) # {} PROVE ~Lost(n) /\ n # r
    <3>1. n # r
      BY <1>3, <2>2, HoldersLive DEF NodesInv
    <3>2. n \in {handle[h].node : h \in Reachable(files)}
      BY <2>2 DEF Holders, Reachable
    <3> QED BY <3>1, <3>2
  <2> QED BY <2>1, <2>2
<1>9. \A n \in Node : node[n].kind # "none" /\ ~Lost(n) =>
        node'[n].kind = node[n].kind /\ node'[n].path = node[n].path
  BY <1>3, <1>5, <1>6
<1>10. node' \in [Node -> [path : Path, kind : Kind \cup {"none"}, uses : Nat]]
  <2>1. \A n \in Node : node'[n] \in [path : Path, kind : Kind \cup {"none"}, uses : Nat]
    <3> SUFFICES ASSUME NEW n \in Node
                 PROVE  node'[n] \in [path : Path, kind : Kind \cup {"none"}, uses : Nat]
      OBVIOUS
    <3>1. CASE n = c
      BY <1>5, <1>6, <3>1
    <3>2. CASE n = r
      BY <1>4, <1>6, <1>7, <3>2
    <3>3. CASE n \notin {c, r}
      BY <1>4, <1>6, <1>7, <3>3
    <3> QED BY <3>1, <3>2, <3>3
  <2> QED BY <1>2, <2>1
<1>11. NodesTyped'
  BY <1>1, <1>2, <1>4, <1>10 DEF NodesTyped
<1> HIDE DEF Lost
<1>12. ASSUME NEW n \in Node, node[n].kind # "none", node[n].path # Root
       PROVE  ~Lost(n)
  BY <1>4, <1>12 DEF Lost, NodesInv, RootsMounted
<1>13. EntriesMatch'
  <2> SUFFICES ASSUME NEW q \in Path, open_nodes'[q] # NULL
               PROVE  node'[open_nodes'[q]].kind # "none" /\ node'[open_nodes'[q]].path = q
    BY DEF EntriesMatch
  <2>1. CASE q = Container
    BY <1>2, <1>4, <1>5, <1>6, <1>7, <2>1
  <2>2. CASE q # Container
    <3>1. PICK m \in Node : open_nodes'[q] = m /\ open_nodes[q] = m
      BY <1>2, <1>4, <2>2
    <3>2. node[m].kind # "none" /\ node[m].path = q
      BY <3>1, NullAssumption DEF NodesInv, EntriesMatch
    <3>3. ~Lost(m)
      BY <1>12, <3>1, <3>2 DEF Lost
    <3> QED BY <1>9, <3>1, <3>2, <3>3
  <2> QED BY <2>1, <2>2
<1>14. RootsMounted'
  <2>1. mounted'[Root] = r /\ r # NULL
    BY <1>2, <1>4, NullAssumption
  <2> SUFFICES ASSUME NEW q \in Path, mounted'[q] # NULL
               PROVE  /\ node'[mounted'[q]].kind \in {"dummy_root", "dev_root", "fat_root"}
                      /\ node'[mounted'[q]].path = q
    BY <2>1 DEF RootsMounted, MountRoot
  <2>2. CASE q = Root
    BY <1>6, <2>1, <2>2
  <2>3. CASE q # Root
    <3>1. PICK m \in Node : mounted'[q] = m /\ mounted[q] = m
      BY <1>2, <1>4, <2>3
    <3>2. MountRoot(m) /\ node[m].path = q
      BY <3>1, NullAssumption DEF NodesInv, RootsMounted
    <3>3. node[m].kind # "none" /\ ~Lost(m)
      BY <1>12, <2>3, <3>2 DEF MountRoot
    <3> QED BY <1>9, <3>1, <3>2, <3>3 DEF MountRoot
  <2> QED BY <2>2, <2>3
<1>15. ContainerOpen'
  BY <1>1, <1>2, <1>5, <1>6, <1>7 DEF ContainerOpen
<1>16. HeldNodesLive'
  <2> SUFFICES ASSUME NEW q \in Process, NEW fd \in Fd, files[q][fd] # NULL
               PROVE  /\ handle[files[q][fd]].node \in Node
                      /\ node'[handle[files[q][fd]].node].kind # "none"
    BY <1>1 DEF HeldNodesLive, handleVars
  <2>1. PICK m \in Node : m = handle[files[q][fd]].node
    BY DEF NodesInv, HeldNodesLive
  <2>2. node[m].kind # "none"
    BY <2>1 DEF NodesInv, HeldNodesLive
  <2>3. <<q, fd>> \in Holders(m)
    BY <2>1 DEF Holders
  <2> QED BY <1>8, <1>9, <2>1, <2>2, <2>3
<1>17. \A m \in Node : Cardinality(Holders(m)) \in Nat
  BY <1>4, HoldersFinite
<1>18. \A m \in Node : node[m].kind = "none" => Cardinality(Holders(m)) = 0
  <2>1. \A m \in Node : node[m].kind = "none" => Holders(m) = {}
    BY HoldersLive DEF NodesInv
  <2> QED BY <2>1, FS_EmptySet
<1>19. node[c].uses \in Nat
  BY <1>4
<1>20. CountsCover'
  <2> SUFFICES ASSUME NEW m \in Node, node'[m].kind # "none", node'[m].path \notin forked
               PROVE  Cardinality(Holders(m)) <= node'[m].uses
    BY <1>1, <1>8 DEF CountsCover
  <2>1. CASE m = c
    BY <1>5, <1>6, <1>17, <1>18, <1>19, <2>1 DEF NodesInv, CountsCover
  <2>2. CASE m = r
    BY <1>3, <1>6, <1>18, <2>2
  <2>3. CASE m \notin {c, r}
    BY <1>6, <1>7, <2>3 DEF NodesInv, CountsCover
  <2> QED BY <2>1, <2>2, <2>3
<1>21. CountsBounded'
  <2> SUFFICES ASSUME NEW m \in Node, node'[m].kind # "none", ~MountRoot(m)'
               PROVE  /\ 1 <= node'[m].uses
                      /\ node'[m].path \notin leaked' => node'[m].uses <= Cardinality(Holders(m))
    BY <1>8 DEF CountsBounded
  <2>1. CASE m = c
    BY <1>1, <1>5, <1>6, <1>19, <2>1
  <2>2. CASE m = r
    BY <1>6, <2>2 DEF MountRoot
  <2>3. CASE m \notin {c, r}
    <3>1. node'[m] = node[m]
      BY <1>6, <1>7, <2>3
    <3> QED BY <1>1, <3>1 DEF NodesInv, CountsBounded, MountRoot
  <2> QED BY <2>1, <2>2, <2>3
<1>22. HeldNodesOpen'
  <2> SUFFICES ASSUME NEW m \in Node, Holders(m) # {}
               PROVE  node'[m].path \in forked \cup {Root} \/ open_nodes'[node'[m].path] = m
    BY <1>1, <1>8 DEF HeldNodesOpen
  <2>1. CASE m = c
    BY <1>2, <1>4, <1>5, <1>6, <2>1
  <2>2. CASE m # c
    <3>1. node'[m].path = node[m].path /\ node[m].path \in Path
      BY <1>4, <1>8, <1>9, HoldersLive DEF NodesInv
    <3>2. \/ node[m].path \in forked \cup {Root}
          \/ open_nodes[node[m].path] = m /\ node[m].path # Container
      BY <1>2, <1>4, <2>2, OpenKeepsEntries
    <3> QED BY <1>2, <1>4, <3>1, <3>2
  <2> QED BY <2>1, <2>2
<1> QED BY <1>11, <1>13, <1>14, <1>15, <1>16, <1>20, <1>21, <1>22 DEF NodesInv

LEMMA NextNodes == DescriptorInv /\ NodesInv /\ [Next]_vars => NodesInv'
<1> SUFFICES ASSUME DescriptorInv, NodesInv, [Next]_vars PROVE NodesInv'
  OBVIOUS
<1>1. ASSUME NEW p \in alive, NEW path \in Path, open_call(p, path) PROVE NodesInv'
  BY <1>1, OpenCallNodes
<1>2. ASSUME NEW p \in alive, NEW path \in Path, execve_no_elf(p, path) PROVE NodesInv'
  BY <1>2, ExecNodes
<1>3. ASSUME NEW p \in alive, NEW fd \in Fd, close_call(p, fd) PROVE NodesInv'
  BY <1>3, CloseNodes
<1>4. ASSUME NEW p \in alive, NEW fd \in Fd,
             \/ \E length \in 1 .. MaxOffset : transfer_call(p, fd, length)
             \/ \E offset \in -MaxOffset .. MaxOffset, direction \in {"set", "cur", "end"} :
                   lseek_call(p, fd, offset, direction)
      PROVE NodesInv'
  <2>1. PICK to \in Nat : handle' = [handle EXCEPT ![files[p][fd]].offset = to]
    BY <1>4, MovesOneOffset
  <2>2. files[p][fd] # NULL
        /\ UNCHANGED <<vfsVars, files, fd_counter, alive, forked, leaked>>
    BY <1>4, MovesOneOffset
  <2> QED BY <2>1, <2>2, MoveNodes
<1>5. ASSUME NEW p \in alive, fork_call(p) PROVE NodesInv'
  BY <1>5, ForkNodes
<1>6. ASSUME NEW p \in alive, mount(p) PROVE NodesInv'
  BY <1>6, MountNodes
<1>7. CASE UNCHANGED vars
  BY <1>7, SameNodes
<1> QED BY <1>1, <1>2, <1>3, <1>4, <1>5, <1>6, <1>7 DEF Next, Call

(* At boot the standard files are the only ones open, once each.           *)
LEMMA InitNodes == Init => NodesInv
<1> SUFFICES ASSUME Init PROVE NodesInv
  OBVIOUS
<1>1. DescriptorInv
  BY InitDescriptors
<1> DEFINE Std == 1 .. Len(StdPath)
<1>2. /\ StdNode \in Seq(Node) /\ StdHandle \in Seq(Handle) /\ StdPath \in Seq(TtyPath)
      /\ Len(StdNode) = Len(StdPath) /\ Len(StdHandle) = Len(StdPath)
      /\ Len(StdPath) <= MaxFd /\ MaxFd \in Nat /\ Len(StdPath) \in Nat
  BY BootAssumption, BoundAssumption
<1>3. \A i \in Std : StdNode[i] \in Node /\ StdHandle[i] \in Handle /\ StdPath[i] \in Path
  BY <1>2, PathAssumption
<1>4. \A i \in Std : /\ StdOf(StdNode, StdNode[i]) = i /\ StdNode[i] \in Range(StdNode)
                     /\ StdOf(StdHandle, StdHandle[i]) = i /\ StdHandle[i] \in Range(StdHandle)
                     /\ StdOf(StdPath, StdPath[i]) = i /\ StdPath[i] \in Range(StdPath)
  <2> SUFFICES ASSUME NEW i \in Std
               PROVE  /\ StdOf(StdNode, StdNode[i]) = i /\ StdNode[i] \in Range(StdNode)
                      /\ StdOf(StdHandle, StdHandle[i]) = i /\ StdHandle[i] \in Range(StdHandle)
                      /\ StdOf(StdPath, StdPath[i]) = i /\ StdPath[i] \in Range(StdPath)
    OBVIOUS
  <2>1. \A j \in Std : StdPath[i] = StdPath[j] \/ StdNode[i] = StdNode[j]
                         \/ StdHandle[i] = StdHandle[j] => i = j
    BY BootAssumption
  <2>2. StdOf(StdNode, StdNode[i]) = i /\ StdNode[i] \in Range(StdNode)
    BY <1>2, <2>1 DEF StdOf, Range
  <2>3. StdOf(StdHandle, StdHandle[i]) = i /\ StdHandle[i] \in Range(StdHandle)
    BY <1>2, <2>1 DEF StdOf, Range
  <2>4. StdOf(StdPath, StdPath[i]) = i /\ StdPath[i] \in Range(StdPath)
    BY <1>2, <2>1 DEF StdOf, Range
  <2> QED BY <2>2, <2>3, <2>4
<1>5. /\ \A n \in Node : n \in Range(StdNode) <=> \E i \in Std : n = StdNode[i]
      /\ \A q : q \in Range(StdPath) <=> \E i \in Std : q = StdPath[i]
  BY <1>2 DEF Range
<1>6. /\ DummyRoot \in Node /\ DevRoot \in Node /\ DummyRoot # DevRoot
      /\ DummyRoot \notin Range(StdNode) /\ DevRoot \notin Range(StdNode)
  <2>1. /\ {DummyRoot, DevRoot} \subseteq Node /\ DummyRoot # DevRoot
        /\ {DummyRoot, DevRoot} \cap {StdNode[i] : i \in 1 .. Len(StdPath)} = {}
    BY BootAssumption
  <2> QED BY <1>5, <2>1
<1> HIDE DEF Std
<1>7. /\ node[DummyRoot] = [path |-> Root, kind |-> "dummy_root", uses |-> 0]
      /\ node[DevRoot] = [path |-> Dev, kind |-> "dev_root", uses |-> 0]
      /\ \A i \in Std : node[StdNode[i]] = [path |-> StdPath[i], kind |-> "tty", uses |-> 1]
      /\ \A n \in Node \ {DummyRoot, DevRoot} :
           (\A i \in Std : n # StdNode[i]) => node[n] = NoNode
  <2>1. node = [n \in Node |->
         CASE n = DummyRoot -> [path |-> Root, kind |-> "dummy_root", uses |-> 0]
           [] n = DevRoot -> [path |-> Dev, kind |-> "dev_root", uses |-> 0]
           [] n \in Range(StdNode) ->
                [path |-> StdPath[StdOf(StdNode, n)], kind |-> "tty", uses |-> 1]
           [] OTHER -> NoNode]
    BY DEF Init
  <2>2. node[DummyRoot] = [path |-> Root, kind |-> "dummy_root", uses |-> 0]
    BY <1>6, <2>1
  <2>3. node[DevRoot] = [path |-> Dev, kind |-> "dev_root", uses |-> 0]
    BY <1>6, <2>1
  <2>4. ASSUME NEW i \in Std
        PROVE  node[StdNode[i]] = [path |-> StdPath[i], kind |-> "tty", uses |-> 1]
    <3>1. /\ StdNode[i] \in Node /\ StdNode[i] \in Range(StdNode)
          /\ StdNode[i] # DummyRoot /\ StdNode[i] # DevRoot
      BY <1>3, <1>4, <1>6
    <3>2. StdOf(StdNode, StdNode[i]) = i
      BY <1>4
    <3>3. node[StdNode[i]] = [path |-> StdPath[StdOf(StdNode, StdNode[i])], kind |-> "tty", uses |-> 1]
      BY <2>1, <3>1
    <3> QED BY <3>2, <3>3
  <2>5. ASSUME NEW n \in Node \ {DummyRoot, DevRoot}, \A i \in Std : n # StdNode[i]
        PROVE  node[n] = NoNode
    BY <1>5, <2>1, <2>5
  <2> QED BY <2>2, <2>3, <2>4, <2>5
<1> DEFINE Opened(i) == [path |-> StdPath[i], kind |-> "tty", uses |-> 1]
<1>7a. \A i \in Std : node[StdNode[i]] = Opened(i)
  BY <1>7
<1>7b. \A i : Opened(i).path = StdPath[i] /\ Opened(i).kind = "tty" /\ Opened(i).uses = 1
  OBVIOUS
<1> HIDE DEF Opened
<1>7c. \A i \in Std : /\ node[StdNode[i]].path = StdPath[i]
                      /\ node[StdNode[i]].kind = "tty" /\ node[StdNode[i]].uses = 1
  BY <1>7a, <1>7b
<1>8. /\ \A i \in Std : open_nodes[StdPath[i]] = StdNode[i]
      /\ \A q \in Path : (\A i \in Std : q # StdPath[i]) => open_nodes[q] = NULL
      /\ open_nodes \in [Path -> Node \cup {NULL}]
  <2>1. open_nodes = [q \in Path |->
         IF q \in Range(StdPath) THEN StdNode[StdOf(StdPath, q)] ELSE NULL]
    BY DEF Init
  <2>2. \A i \in Std : open_nodes[StdPath[i]] = StdNode[i]
    BY <1>3, <1>4, <2>1
  <2>3. \A q \in Path : (\A i \in Std : q # StdPath[i]) => open_nodes[q] = NULL
    BY <1>5, <2>1
  <2>4. \A q \in Path : open_nodes[q] \in Node \cup {NULL}
    BY <1>3, <2>2, <2>3
  <2> QED BY <2>1, <2>2, <2>3, <2>4
<1>9. /\ mounted[Root] = DummyRoot /\ mounted[Dev] = DevRoot /\ Root # Dev
      /\ \A q \in Path \ {Root, Dev} : mounted[q] = NULL
      /\ mounted \in [Path -> Node \cup {NULL}]
  <2>1. mounted = [q \in Path |->
          CASE q = Root -> DummyRoot [] q = Dev -> DevRoot [] OTHER -> NULL]
    BY DEF Init
  <2>2. Root # Dev /\ Root \in Path /\ Dev \in Path
    BY PathAssumption DEF Root, Dev
  <2>3. mounted[Root] = DummyRoot /\ mounted[Dev] = DevRoot
    BY <2>1, <2>2
  <2>4. \A q \in Path \ {Root, Dev} : mounted[q] = NULL
    BY <2>1
  <2>5. \A q \in Path : mounted[q] \in Node \cup {NULL}
    BY <1>6, <2>3, <2>4
  <2> QED BY <2>1, <2>2, <2>3, <2>4, <2>5
<1>10. /\ container = NULL /\ alive = {Process0} /\ forked = {} /\ leaked = {}
  BY DEF Init
<1>11. /\ \A i \in Std : handle[StdHandle[i]] = [node |-> StdNode[i], offset |-> 0]
       /\ \A q \in Process, fd \in Fd : files[q][fd] =
            IF q = Process0 /\ fd < Len(StdPath) THEN StdHandle[fd + 1] ELSE NULL
  <2>1. /\ handle = [h \in Handle |->
             IF h \in Range(StdHandle)
             THEN [node |-> StdNode[StdOf(StdHandle, h)], offset |-> 0] ELSE NoHandle]
        /\ files = [p \in Process |-> [fd \in Fd |->
             IF p = Process0 /\ fd < Len(StdPath) THEN StdHandle[fd + 1] ELSE NULL]]
    BY DEF Init
  <2> QED BY <1>3, <1>4, <2>1
<1>12. \A m \in Node : (\A i \in Std : m # StdNode[i]) => Holders(m) = {}
  <2> SUFFICES ASSUME NEW m \in Node, NEW d \in Holders(m)
               PROVE  \E i \in Std : m = StdNode[i]
    OBVIOUS
  <2>1. d \in Process \X Fd /\ files[d[1]][d[2]] # NULL /\ handle[files[d[1]][d[2]]].node = m
    BY DEF Holders
  <2>2. d[2] < Len(StdPath) /\ files[d[1]][d[2]] = StdHandle[d[2] + 1]
    BY <1>11, <2>1
  <2>3. d[2] + 1 \in Std
    BY <1>2, <2>1, <2>2 DEF Fd, Std
  <2>4. PICK i \in Std : i = d[2] + 1
    BY <2>3
  <2>5. handle[StdHandle[i]] = [node |-> StdNode[i], offset |-> 0]
    BY <1>11
  <2>6. m = StdNode[i]
    BY <2>1, <2>2, <2>4, <2>5
  <2> QED BY <2>6
<1>13. \A i \in Std : Holders(StdNode[i]) = {<<Process0, i - 1>>}
  <2> SUFFICES ASSUME NEW i \in Std, NEW d \in Process \X Fd
               PROVE  d \in Holders(StdNode[i]) <=> d = <<Process0, i - 1>>
    BY <1>2, ProcessAssumption DEF Holders, Fd, Std
  <2>1. ASSUME d \in Holders(StdNode[i]) PROVE d = <<Process0, i - 1>>
    <3>1. files[d[1]][d[2]] # NULL /\ handle[files[d[1]][d[2]]].node = StdNode[i]
      BY <2>1 DEF Holders
    <3>2. d[1] = Process0 /\ d[2] < Len(StdPath) /\ files[d[1]][d[2]] = StdHandle[d[2] + 1]
      BY <1>11, <3>1
    <3>3. d[2] \in Nat /\ d[2] + 1 \in Std
      BY <1>2, <3>2 DEF Fd, Std
    <3>4. PICK j \in Std : j = d[2] + 1
      BY <3>3
    <3>5. d[2] + 1 = i
      <4>1. handle[StdHandle[j]] = [node |-> StdNode[j], offset |-> 0]
        BY <1>11
      <4>2. handle[StdHandle[j]].node = StdNode[j] /\ StdHandle[j] = files[d[1]][d[2]]
        BY <3>2, <3>4, <4>1
      <4>3. StdNode[j] = StdNode[i]
        BY <3>1, <4>2
      <4>4. j = i
        BY <1>4, <4>3
      <4> QED BY <3>4, <4>4
    <3>6. d[2] = i - 1
      BY <3>3, <3>5
    <3> QED BY <3>2, <3>6
  <2>2. ASSUME d = <<Process0, i - 1>> PROVE d \in Holders(StdNode[i])
    <3>1. i - 1 \in Fd /\ i - 1 < Len(StdPath) /\ (i - 1) + 1 = i
      BY <1>2 DEF Fd, Std
    <3>2. files[Process0][i - 1] = StdHandle[i] /\ StdHandle[i] # NULL
      BY <1>3, <1>11, <3>1, ProcessAssumption, NullAssumption
    <3>3. handle[StdHandle[i]] = [node |-> StdNode[i], offset |-> 0]
      BY <1>11
    <3>4. handle[StdHandle[i]].node = StdNode[i]
      BY <3>3
    <3> QED BY <2>2, <3>2, <3>4 DEF Holders
  <2> QED BY <2>1, <2>2
<1>14. \A m \in Node : m = DummyRoot \/ m = DevRoot \/ (\E i \in Std : m = StdNode[i])
                       \/ node[m] = NoNode
  BY <1>7
<1>15. Root \in Path /\ Dev \in Path
  BY PathAssumption
<1>16. NodesTyped
  <2>1. node \in [Node -> [path : Path, kind : Kind \cup {"none"}, uses : Nat]]
    <3>1. \A m \in Node : node[m] \in [path : Path, kind : Kind \cup {"none"}, uses : Nat]
      <4> SUFFICES ASSUME NEW m \in Node
                   PROVE  node[m] \in [path : Path, kind : Kind \cup {"none"}, uses : Nat]
        OBVIOUS
      <4>1. CASE m = DummyRoot \/ m = DevRoot \/ node[m] = NoNode
        BY <1>7, <1>15, <4>1 DEF NoNode, Kind
      <4>2. ASSUME NEW i \in Std, m = StdNode[i]
            PROVE  node[m] \in [path : Path, kind : Kind \cup {"none"}, uses : Nat]
        <5>1. node[m] = Opened(i) /\ StdPath[i] \in Path
          BY <1>3, <1>7a, <4>2
        <5> QED BY <5>1 DEF Opened, Kind
      <4> QED BY <1>14, <4>1, <4>2
    <3>2. node = [m \in Node |-> node[m]]
      BY DEF Init
    <3> QED BY <3>1, <3>2
  <2>2. IsFiniteSet(alive)
    BY <1>10, FS_Singleton
  <2> QED BY <1>8, <1>9, <1>10, <2>1, <2>2 DEF NodesTyped
<1>17. EntriesMatch
  <2> SUFFICES ASSUME NEW q \in Path, open_nodes[q] # NULL
               PROVE  node[open_nodes[q]].kind # "none" /\ node[open_nodes[q]].path = q
    BY DEF EntriesMatch
  <2>1. PICK i \in Std : q = StdPath[i]
    BY <1>8
  <2>2. open_nodes[q] = StdNode[i]
    BY <1>8, <2>1
  <2> QED BY <1>7c, <2>1, <2>2
<1>18. RootsMounted
  BY <1>6, <1>7, <1>9, NullAssumption DEF RootsMounted, MountRoot
<1>19. ContainerOpen
  BY <1>10 DEF ContainerOpen
<1>20. HeldNodesLive
  <2> SUFFICES ASSUME NEW q \in Process, NEW fd \in Fd, files[q][fd] # NULL
               PROVE  /\ handle[files[q][fd]].node \in Node
                      /\ node[handle[files[q][fd]].node].kind # "none"
    BY DEF HeldNodesLive
  <2>1. fd < Len(StdPath) /\ files[q][fd] = StdHandle[fd + 1]
    BY <1>11
  <2>2. fd + 1 \in Std
    BY <1>2, <2>1 DEF Fd, Std
  <2>3. PICK i \in Std : i = fd + 1
    BY <2>2
  <2>4. handle[files[q][fd]] = [node |-> StdNode[i], offset |-> 0]
    BY <1>11, <2>1, <2>3
  <2>5. handle[files[q][fd]].node = StdNode[i]
    BY <2>4
  <2> QED BY <1>3, <1>7c, <2>5
<1>21. /\ \A i \in Std : Cardinality(Holders(StdNode[i])) = 1
       /\ \A m \in Node : (\A i \in Std : m # StdNode[i]) => Cardinality(Holders(m)) = 0
  BY <1>12, <1>13, FS_Singleton, FS_EmptySet
<1>22. CountsCover
  <2> SUFFICES ASSUME NEW m \in Node, node[m].kind # "none"
               PROVE  Cardinality(Holders(m)) <= node[m].uses
    BY DEF CountsCover
  <2>1. CASE \E i \in Std : m = StdNode[i]
    <3>1. node[m].uses = 1 /\ Cardinality(Holders(m)) = 1
      BY <1>7c, <1>21, <2>1
    <3> QED BY <3>1
  <2>2. CASE ~ \E i \in Std : m = StdNode[i]
    <3>1. Cardinality(Holders(m)) = 0
      BY <1>21, <2>2
    <3>2. node[m].uses \in Nat
      BY <1>16 DEF NodesTyped
    <3> QED BY <3>1, <3>2
  <2> QED BY <2>1, <2>2
<1>23. CountsBounded
  <2> SUFFICES ASSUME NEW m \in Node, node[m].kind # "none", ~MountRoot(m)
               PROVE  1 <= node[m].uses /\ node[m].uses <= Cardinality(Holders(m))
    BY DEF CountsBounded
  <2>1. PICK i \in Std : m = StdNode[i]
    BY <1>7, <1>14 DEF NoNode, MountRoot
  <2>2. node[m].uses = 1 /\ Cardinality(Holders(m)) = 1
    BY <1>7c, <1>21, <2>1
  <2> QED BY <2>2
<1>24. HeldNodesOpen
  <2> SUFFICES ASSUME NEW m \in Node, Holders(m) # {} PROVE open_nodes[node[m].path] = m
    BY DEF HeldNodesOpen
  <2>1. PICK i \in Std : m = StdNode[i]
    BY <1>12
  <2>2. node[m].path = StdPath[i] /\ open_nodes[StdPath[i]] = m
    BY <1>7c, <1>8, <2>1
  <2> QED BY <2>2
<1> QED BY <1>16, <1>17, <1>18, <1>19, <1>20, <1>22, <1>23, <1>24 DEF NodesInv

(* The inductive invariant of the nodes.                                   *)
THEOREM NodesInvariant == Spec => []NodesInv
<1> QED BY InitDescriptors, NextDescriptors, InitNodes, NextNodes, PTL DEF Spec

(* Opens find the object the descriptors already have: a node somebody     *)
(* holds is the one open_nodes has, unless fork has shared its handle.     *)
THEOREM HeldAreOpen == Spec => []HeldNodesOpen
<1>1. NodesInv => HeldNodesOpen
  BY DEF NodesInv
<1> QED BY <1>1, NodesInvariant, PTL

(* Without fork and a failed exec the use count of a node is the number of *)
(* descriptors on it, which is what makes close_node destroy it in time.   *)
THEOREM UsesAreHolders == Spec => []UsesCountHolders
<1>1. DescriptorInv /\ NodesInv => UsesCountHolders
  <2> SUFFICES ASSUME DescriptorInv, NodesInv, NEW n \in Node, node[n].kind # "none",
                      ~MountRoot(n), node[n].path \notin forked \cup leaked
               PROVE  node[n].uses = Cardinality(Holders(n))
    BY DEF UsesCountHolders
  <2>1. node[n].uses \in Nat /\ Cardinality(Holders(n)) \in Nat
    BY HoldersFinite DEF NodesInv, NodesTyped
  <2>2. Cardinality(Holders(n)) <= node[n].uses /\ node[n].uses <= Cardinality(Holders(n))
    BY DEF NodesInv, CountsCover, CountsBounded
  <2> QED BY <2>1, <2>2
<1> QED BY <1>1, DescriptorInvariant, NodesInvariant, PTL

(* Whatever fork shared, the last close of a file takes it out of the open *)
(* map.                                                                    *)
THEOREM LastCloseForgets == Spec => []NothingStaysOpen
<1>1. DescriptorInv /\ NodesInv => NothingStaysOpen
  <2> SUFFICES ASSUME DescriptorInv, NodesInv, NEW q \in Path \ leaked, open_nodes[q] # NULL,
                      ~MountRoot(open_nodes[q])
               PROVE  \E n \in Node : node[n].path = q /\ Holders(n) # {}
    BY DEF NothingStaysOpen
  <2>1. PICK n \in Node : n = open_nodes[q]
    BY DEF NodesInv, NodesTyped
  <2>2. node[n].path = q /\ node[n].kind # "none"
    BY <2>1 DEF NodesInv, EntriesMatch
  <2>3. 1 <= node[n].uses /\ node[n].uses <= Cardinality(Holders(n))
    BY <2>1, <2>2 DEF NodesInv, CountsBounded
  <2>4. node[n].uses \in Nat /\ Cardinality(Holders(n)) \in Nat
    BY HoldersFinite DEF NodesInv, NodesTyped
  <2>5. Cardinality(Holders(n)) # 0
    BY <2>3, <2>4
  <2> QED BY <2>2, <2>5, FS_EmptySet
<1> QED BY <1>1, DescriptorInvariant, NodesInvariant, PTL
=============================================================================
