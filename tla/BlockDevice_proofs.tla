-------------------------- MODULE BlockDevice_proofs --------------------------
(***************************************************************************)
(* That a request that begins at rest and never gives up a wait changes no *)
(* other drive than its own, for any number of drives and buses, whatever  *)
(* was late before it; and that, while the drives answer in time, a read   *)
(* delivers the bytes asked for and a write changes those and no others.   *)
(***************************************************************************)
EXTENDS BlockDevice, SequenceTheorems, TLAPS

\* The places of run_command behind select_drive.
Selected == {"after_select", "position", "command", "answer", "transfer"}
Commanding == {"head", "head_write", "main", "tail", "tail_write"}

\* run_command works for one of the drives.
CallOfDrive ==
    /\ DOMAIN selected = Buses /\ DOMAIN device = Drive
    /\ {"drive", "op"} \subseteq DOMAIN call
    /\ pc # "idle" => call.drive \in Drive

\* A command that is not part of ata::init belongs to the call of
\* i_block_device that waits for it.
CommandOfRequest ==
    /\ {"drive", "phase"} \subseteq DOMAIN io
    /\ io.phase # "idle" => io.drive \in Drive
    /\ pc # "idle" /\ call.op # "identify" =>
          io.phase \in Commanding /\ call.drive = io.drive

\* ata::init has its drives from the boot loader's map, and has them all before
\* anybody asks.
DrivesInOrder ==
    /\ booted \in Seq(Drive) /\ Len(booted) <= Len(BootOrder)
    /\ pc # "idle" /\ call.op = "identify" => Len(booted) < Len(BootOrder)
    /\ io.phase # "idle" => Booted

\* The ports in use are those of the drive, and it is the one that answers.
Answers(d) == current_bus = Bus(d) /\ selected[current_bus] = Master(d)

\* While no wait has given up, the other drives of the bus rest.  The drive of
\* the request rests when the selector is written, because the wait before it
\* has looked at that very drive unless it was idle anyway, and it is the one
\* that answers from then on.
OthersRest ==
    in_time /\ io.phase # "idle" =>
      /\ \A d \in Drive : Bus(d) = Bus(io.drive) /\ d # io.drive => Resting(d)
      /\ pc \in {"idle", "before_select", "returned"} => Resting(io.drive) \/ Answers(io.drive)
      /\ pc = "select" => Resting(io.drive)
      /\ pc \in Selected => Answers(io.drive)

DriveInv == CallOfDrive /\ CommandOfRequest /\ DrivesInOrder /\ OthersRest

-----------------------------------------------------------------------------
\* No two drives answer on a bus.
LEMMA OneAnswers ==
    ASSUME NEW d \in Drive, Answers(d)
    PROVE  Answering(current_bus) = {d} /\ current_bus = Bus(d) /\ current_bus \in Buses
<1>1. d \in Answering(current_bus)
  BY DEF Answers, Answering
<1>2. \A e \in Answering(current_bus) : e = d
  BY AtaAssumption DEF AtaAssumption, Answers, Answering
<1>. QED
  BY <1>1, <1>2 DEF Answers, Buses

\* A command under way while a request waits is the request's.
LEMMA CommandIsItsRequests ==
    ASSUME DriveInv, pc # "idle", io.phase # "idle"
    PROVE  call.op # "identify" /\ call.drive = io.drive /\ io.drive \in Drive
<1>1. BootOrder \in Seq(Drive) /\ booted \in Seq(Drive) /\ Booted
  BY BlockAssumption DEF BlockAssumption, DriveInv, DrivesInOrder
<1>2. Len(booted) = Len(BootOrder) /\ Len(booted) \in Nat /\ Len(BootOrder) \in Nat
  BY <1>1 DEF Booted
<1>3. call.op # "identify"
  BY <1>2 DEF DriveInv, DrivesInOrder
<1>. QED
  BY <1>3 DEF DriveInv, CommandOfRequest

LEMMA InitDriveInv == Init => DriveInv
<1>1. SUFFICES ASSUME Init PROVE DriveInv
  OBVIOUS
<1>2. pc = "idle" /\ call = NoCall /\ io = NoIo /\ booted = <<>>
      /\ selected = [b \in Buses |-> TRUE] /\ device = [d \in Drive |-> Idle]
  BY <1>1 DEF Init, AtaInit
<1>3. CallOfDrive
  BY <1>2 DEF CallOfDrive, NoCall
<1>4. CommandOfRequest /\ OthersRest
  BY <1>2 DEF CommandOfRequest, OthersRest, NoIo
<1>5. BootOrder \in Seq(Drive)
  BY BlockAssumption DEF BlockAssumption
<1>6. DrivesInOrder
  BY <1>2, <1>5 DEF DrivesInOrder, NoIo
<1>. QED
  BY <1>3, <1>4, <1>6 DEF DriveInv

-----------------------------------------------------------------------------
(* The steps between the calls. *)

\* What the invariant says of the drives of the bus depends on nothing else.
LEMMA OthersStay ==
    ASSUME OthersRest, UNCHANGED <<in_time, device, selected, current_bus>>,
           io'.drive = io.drive, io'.phase # "idle" => io.phase # "idle",
           \/ {pc, pc'} \subseteq {"idle", "before_select", "returned"}
           \/ {pc, pc'} \subseteq Selected
           \/ pc = pc'
    PROVE  OthersRest'
<1>1. \A d : Resting(d)' <=> Resting(d)
  BY DEF Resting
<1>2. Answers(io.drive)' <=> Answers(io.drive)
  BY DEF Answers
<1>. QED
  BY <1>1, <1>2 DEF OthersRest, Selected

\* A step into run_command, whoever makes it.
LEMMA RunCommandCalls ==
    ASSUME CallOfDrive, NEW d \in Drive, NEW op, NEW base, NEW bytes, NEW n,
           run_command(d, op, base, bytes, n)
    PROVE  /\ CallOfDrive'
           /\ pc = "idle" /\ pc' \in {"returned", "before_select"}
           /\ call'.drive = d /\ call'.op = op
           /\ UNCHANGED <<in_time, device, selected, current_bus>>
<1>1. /\ pc = "idle" /\ pc' \in {"returned", "before_select"}
      /\ call'.drive = d /\ call'.op = op /\ {"drive", "op"} \subseteq DOMAIN call'
      /\ UNCHANGED <<in_time, device, selected, current_bus>>
  BY DEF run_command, hardware
<1>. QED
  BY <1>1 DEF CallOfDrive, Buses

LEMMA IdentifyKeeps ==
    ASSUME DriveInv, identify
    PROVE  DriveInv'
<1>. DEFINE d == BootOrder[Len(booted) + 1]
<1>1. /\ run_command(d, "identify", 0, <<>>, 1) /\ UNCHANGED bdVars
      /\ ~Booted /\ Len(booted) # Len(BootOrder)
  BY DEF identify, Booted
<1>2. BootOrder \in Seq(Drive) /\ booted \in Seq(Drive) /\ Len(booted) <= Len(BootOrder)
      /\ io.phase = "idle"
  BY <1>1, BlockAssumption DEF BlockAssumption, DriveInv, DrivesInOrder
<1>3. Len(booted) < Len(BootOrder) /\ d \in Drive
  BY <1>1, <1>2
<1>4. /\ CallOfDrive' /\ pc = "idle" /\ call'.op = "identify"
  BY <1>1, <1>3, RunCommandCalls DEF DriveInv
<1>5. CommandOfRequest' /\ OthersRest'
  BY <1>1, <1>2, <1>4 DEF DriveInv, CommandOfRequest, OthersRest, bdVars
<1>6. DrivesInOrder'
  BY <1>1, <1>2, <1>3 DEF DrivesInOrder, bdVars
<1>. QED
  BY <1>4, <1>5, <1>6 DEF DriveInv

LEMMA IdentifiedKeeps ==
    ASSUME DriveInv, identified
    PROVE  DriveInv'
<1>1. /\ pc = "returned" /\ call.op = "identify"
      /\ pc' = "idle" /\ call' = NoCall /\ booted' = Append(booted, call.drive)
      /\ UNCHANGED <<selected, device, io>>
  BY DEF identified, hardware
<1>2. /\ call.drive \in Drive /\ booted \in Seq(Drive)
      /\ Len(booted) < Len(BootOrder) /\ Len(booted) \in Nat /\ Len(BootOrder) \in Nat
  BY <1>1, BlockAssumption DEF BlockAssumption, DriveInv, CallOfDrive, DrivesInOrder
<1>3. io.phase = "idle"
  BY <1>1, CommandIsItsRequests
<1>4. CallOfDrive'
  BY <1>1 DEF DriveInv, CallOfDrive, NoCall, Buses
<1>5. CommandOfRequest' /\ OthersRest'
  BY <1>1, <1>3 DEF DriveInv, CommandOfRequest, OthersRest
<1>6. booted' \in Seq(Drive) /\ Len(booted') = Len(booted) + 1
  BY <1>1, <1>2
<1>7. DrivesInOrder'
  BY <1>1, <1>2, <1>3, <1>6 DEF DrivesInOrder
<1>. QED
  BY <1>4, <1>5, <1>7 DEF DriveInv

\* A request begins: whether it is kept from the other drives depends on
\* whether they rest.
LEMMA StartKeeps ==
    ASSUME DriveInv, NEW r \in Request, start(r)
    PROVE  DriveInv'
<1>1. /\ pc = "idle" /\ Booted /\ io'.drive = r.drive /\ {"drive", "phase"} \subseteq DOMAIN io'
      /\ in_time' = \A d \in Drive : Bus(d) = Bus(r.drive) => Resting(d)
      /\ UNCHANGED <<selected, device, call, pc, current_bus, booted>>
  BY DEF start, hardware
<1>2. r.drive \in Drive
  BY BlockAssumption DEF BlockAssumption
<1>3. CallOfDrive'
  BY <1>1 DEF DriveInv, CallOfDrive, Buses
<1>4. CommandOfRequest'
  BY <1>1, <1>2 DEF CommandOfRequest
<1>5. DrivesInOrder'
  BY <1>1 DEF DriveInv, DrivesInOrder, Booted
<1>6. OthersRest'
  <2>1. SUFFICES ASSUME in_time' PROVE \A d \in Drive : Bus(d) = Bus(r.drive) => Resting(d)'
    BY <1>1, <1>2 DEF OthersRest, Selected
  <2>. QED
    BY <1>1, <2>1 DEF Resting
<1>. QED
  BY <1>3, <1>4, <1>5, <1>6 DEF DriveInv

LEMMA BlockCommandKeeps ==
    ASSUME DriveInv, block_command
    PROVE  DriveInv'
<1>1. io.phase \in Commanding /\ UNCHANGED bdVars
  BY DEF block_command, Commanding
<1>2. io.drive \in Drive /\ Booted
  BY <1>1 DEF DriveInv, CommandOfRequest, DrivesInOrder, Commanding
<1>a. PICK op \in {"read", "write"} :
        \E base, bytes, n : run_command(io.drive, op, base, bytes, n)
  BY DEF block_command
<1>3. PICK base, bytes, n : run_command(io.drive, op, base, bytes, n)
  BY <1>a
<1>4. /\ CallOfDrive' /\ call'.drive = io.drive /\ call'.op = op
      /\ pc = "idle" /\ pc' \in {"returned", "before_select"}
      /\ UNCHANGED <<in_time, device, selected, current_bus>>
  BY <1>2, <1>3, RunCommandCalls DEF DriveInv
<1>5. CommandOfRequest'
  BY <1>1, <1>4 DEF DriveInv, CommandOfRequest, bdVars
<1>6. DrivesInOrder'
  BY <1>1, <1>2, <1>4 DEF DriveInv, DrivesInOrder, Booted, bdVars
<1>7. OthersRest'
  BY <1>1, <1>4, OthersStay DEF DriveInv, bdVars
<1>. QED
  BY <1>4, <1>5, <1>6, <1>7 DEF DriveInv

\* What head, head_write, main, tail and tail_write have in common: the command
\* is over, and the request stays with its drive.
LEMMA BackKeeps ==
    ASSUME DriveInv, back, Returned, io.phase \in Commanding, UNCHANGED booted,
           io'.drive = io.drive, {"drive", "phase"} \subseteq DOMAIN io'
    PROVE  DriveInv'
<1>1. /\ pc = "returned" /\ pc' = "idle" /\ call' = NoCall
      /\ UNCHANGED <<in_time, device, selected, current_bus>>
  BY DEF back, hardware, Returned
<1>2. CallOfDrive'
  BY <1>1 DEF DriveInv, CallOfDrive, NoCall, Buses
<1>3. CommandOfRequest'
  BY <1>1 DEF DriveInv, CommandOfRequest, Commanding
<1>4. DrivesInOrder'
  BY <1>1 DEF DriveInv, DrivesInOrder, Booted, Commanding
<1>5. OthersRest'
  BY <1>1, OthersStay DEF DriveInv, Commanding
<1>. QED
  BY <1>2, <1>3, <1>4, <1>5 DEF DriveInv

LEMMA TransferStepsKeep ==
    ASSUME DriveInv, head \/ head_write \/ main \/ tail \/ tail_write
    PROVE  DriveInv'
<1>. DEFINE Kept == io'.drive = io.drive /\ {"drive", "phase"} \subseteq DOMAIN io'
<1>1. {"drive", "phase"} \subseteq DOMAIN io
  BY DEF DriveInv, CommandOfRequest
<1>2. \A n, m : Advanced(n, m).drive = io.drive /\ {"drive", "phase"} \subseteq DOMAIN Advanced(n, m)
  BY <1>1 DEF Advanced
<1>3. back /\ Returned /\ UNCHANGED booted /\ io.phase \in Commanding
  BY DEF head, head_write, main, tail, tail_write, back, Commanding
<1>4. Kept
  <2>1. CASE head
    BY <2>1, <1>1, <1>2 DEF head
  <2>2. CASE head_write
    BY <2>2, <1>1, <1>2 DEF head_write
  <2>3. CASE main
    BY <2>3, <1>1, <1>2 DEF main
  <2>4. CASE tail
    BY <2>4, <1>1 DEF tail
  <2>5. CASE tail_write
    BY <2>5, <1>1 DEF tail_write
  <2>. QED
    BY <2>1, <2>2, <2>3, <2>4, <2>5
<1>. QED
  BY <1>3, <1>4, BackKeeps

LEMMA FinishKeeps ==
    ASSUME DriveInv, finish
    PROVE  DriveInv'
<1>1. /\ io.phase = "finished" /\ io' = NoIo
      /\ UNCHANGED <<selected, device, call, pc, current_bus, booted>>
  BY DEF finish, ataVars, hardware
<1>2. CallOfDrive'
  BY <1>1 DEF DriveInv, CallOfDrive, Buses
<1>3. CommandOfRequest' /\ OthersRest'
  BY <1>1 DEF DriveInv, CommandOfRequest, OthersRest, NoIo, Commanding
<1>4. DrivesInOrder'
  BY <1>1 DEF DriveInv, DrivesInOrder, NoIo
<1>. QED
  BY <1>2, <1>3, <1>4 DEF DriveInv

-----------------------------------------------------------------------------
(* The steps of run_command and of the drives. *)

\* Neither moves the call, the request or the order of the drives.
LEMMA CommandKeeps ==
    ASSUME DriveInv, UNCHANGED <<io, booted>>,
           DOMAIN selected' = DOMAIN selected, DOMAIN device' = DOMAIN device,
           call'.drive = call.drive, call'.op = call.op, DOMAIN call' = DOMAIN call,
           pc # "idle" \/ pc' = "idle", OthersRest'
    PROVE  DriveInv'
<1>1. CallOfDrive'
  BY DEF DriveInv, CallOfDrive, Buses
<1>2. CommandOfRequest'
  BY DEF DriveInv, CommandOfRequest
<1>3. DrivesInOrder'
  BY DEF DriveInv, DrivesInOrder, Booted
<1>. QED
  BY <1>1, <1>2, <1>3 DEF DriveInv

\* Where the drive of the request answers, no other drive of its bus is reached.
LEMMA ItsDriveIsReached ==
    ASSUME DriveInv, in_time, io.phase # "idle", pc \in Selected, UNCHANGED <<io, in_time>>,
           UNCHANGED <<selected, current_bus>>, pc' \in Selected,
           \A d \in Drive \ Answering(current_bus) : device'[d] = device[d]
    PROVE  OthersRest'
<1>1. io.drive \in Drive /\ Answers(io.drive)
  BY DEF DriveInv, CommandOfRequest, OthersRest
<1>2. Answering(current_bus) = {io.drive}
  BY <1>1, OneAnswers
<1>3. \A d \in Drive : Bus(d) = Bus(io.drive) /\ d # io.drive => Resting(d)'
  BY <1>2 DEF DriveInv, OthersRest, Resting
<1>4. Answers(io.drive)'
  BY <1>1 DEF Answers
<1>. QED
  BY <1>3, <1>4 DEF OthersRest, Selected

\* A wait that has not given up has seen the drive of the request at rest, or
\* that drive is at rest though another one answers.
LEMMA WaitBeforeKeeps ==
    ASSUME DriveInv, wait_before_select, UNCHANGED bdVars
    PROVE  DriveInv'
<1>1. /\ pc = "before_select" /\ pc' = "select"
      /\ wait_while_status({"busy", "request"})
      /\ UNCHANGED <<device, selected, current_bus, call, io, booted>>
  BY DEF wait_before_select, hardware, bdVars
<1>2. OthersRest'
  <2>1. SUFFICES ASSUME in_time', io.phase # "idle"
                 PROVE  OthersRest'
    BY <1>1 DEF OthersRest
  <2>2. in_time /\ ~Waits({"busy", "request"})
    BY <1>1, <2>1 DEF wait_while_status
  <2>3. /\ io.drive \in Drive /\ (Resting(io.drive) \/ Answers(io.drive))
        /\ \A d \in Drive : Bus(d) = Bus(io.drive) /\ d # io.drive => Resting(d)
    BY <1>1, <2>1, <2>2 DEF DriveInv, CommandOfRequest, OthersRest
  <2>4. Resting(io.drive)
    <3>1. SUFFICES ASSUME Answers(io.drive) PROVE Resting(io.drive)
      BY <2>3
    <3>2. /\ io.drive \in Answering(current_bus) /\ current_bus # NoBus
      BY <2>1, <3>1, OneAnswers, AtaAssumption
         DEF AtaAssumption, DriveInv, CommandOfRequest
    <3>. QED
      BY <2>2, <3>2 DEF Waits, Resting
  <2>. QED
    BY <1>1, <2>3, <2>4 DEF OthersRest, Resting, Selected
<1>. QED
  BY <1>1, <1>2, CommandKeeps

\* All drives of the bus rest, so the selector is taken.
LEMMA AllRest ==
    ASSUME NEW b, \A d \in Drive : Bus(d) = b => Resting(d)
    PROVE  Taken(b) = {TRUE}
<1>1. \A d \in Answering(b) : Resting(d) /\ ~device[d].busy
  BY DEF Answering, Resting
<1>. QED
  BY <1>1 DEF Taken

LEMMA SelectKeeps ==
    ASSUME DriveInv, select_drive, UNCHANGED bdVars
    PROVE  DriveInv'
<1>. DEFINE b == Bus(call.drive)
<1>1. /\ pc = "select" /\ pc' = "after_select" /\ current_bus' = b
      /\ UNCHANGED <<device, call, io, booted, in_time>>
  BY DEF select_drive, bdVars
<1>2. PICK taken \in Taken(b) :
        selected' = IF taken THEN [selected EXCEPT ![b] = Master(call.drive)] ELSE selected
  BY DEF select_drive, Select
<1>3. call.drive \in Drive /\ DOMAIN selected = Buses /\ b \in Buses
  BY <1>1 DEF DriveInv, CallOfDrive, Buses
<1>4. OthersRest'
  <2>1. SUFFICES ASSUME in_time, io.phase # "idle"
                 PROVE  OthersRest'
    BY <1>1 DEF OthersRest
  <2>2. call.drive = io.drive /\ io.drive \in Drive
    BY <1>1, <2>1, CommandIsItsRequests
  <2>3. \A d \in Drive : Bus(d) = Bus(io.drive) => Resting(d)
    BY <1>1, <2>1 DEF DriveInv, OthersRest
  <2>4. taken = TRUE
    BY <2>2, <2>3, AllRest
  <2>5. Answers(io.drive)'
    BY <1>1, <1>2, <1>3, <2>2, <2>4 DEF Answers
  <2>. QED
    BY <1>1, <2>3, <2>5 DEF OthersRest, Resting, Selected
<1>5. DOMAIN selected' = DOMAIN selected
  BY <1>2
<1>. QED
  BY <1>1, <1>4, <1>5, CommandKeeps

\* The waits behind select_drive, and the ports.
LEMMA WaitsBehindKeep ==
    ASSUME DriveInv, wait_after_select \/ write_position \/ wait_for_answer, UNCHANGED bdVars
    PROVE  DriveInv'
<1>1. /\ pc \in Selected /\ pc' \in Selected \cup {"returned"} /\ pc # "idle"
      /\ UNCHANGED <<device, selected, current_bus, call, io, booted>>
      /\ in_time' => in_time
  BY DEF wait_after_select, write_position, wait_for_answer, wait_while_status, hardware,
         bdVars, Selected
<1>2. OthersRest'
  <2>1. SUFFICES ASSUME in_time, io.phase # "idle"
                 PROVE  OthersRest'
    BY <1>1 DEF OthersRest
  <2>2. /\ Answers(io.drive)
        /\ \A d \in Drive : Bus(d) = Bus(io.drive) /\ d # io.drive => Resting(d)
    BY <1>1, <2>1 DEF DriveInv, OthersRest
  <2>3. Answers(io.drive)'
    BY <1>1, <2>2 DEF Answers
  <2>. QED
    BY <1>1, <2>2, <2>3 DEF OthersRest, Resting, Selected
<1>. QED
  BY <1>1, <1>2, CommandKeeps

\* A command and a sector reach the drive that answers.
LEMMA DataKeeps ==
    ASSUME DriveInv, write_command \/ read_data \/ write_data, UNCHANGED bdVars
    PROVE  DriveInv'
<1>1. /\ pc \in Selected /\ pc' \in Selected /\ pc # "idle"
      /\ UNCHANGED <<selected, current_bus, io, booted, in_time>>
  BY DEF write_command, read_data, write_data, bdVars, Selected
<1>2. /\ DOMAIN device' = Drive
      /\ \A d \in Drive \ Answering(current_bus) : device'[d] = device[d]
  <2>1. CASE write_command
    BY <2>1 DEF write_command
  <2>2. CASE read_data
    BY <2>2 DEF read_data
  <2>3. CASE write_data
    BY <2>3 DEF write_data
  <2>. QED
    BY <2>1, <2>2, <2>3
<1>3. call'.drive = call.drive /\ call'.op = call.op /\ DOMAIN call' = DOMAIN call
  <2>1. CASE write_command
    BY <2>1 DEF write_command
  <2>2. CASE read_data \/ write_data
    <3>1. call' = [call EXCEPT !.i = @ + 1] /\ {"drive", "op"} \subseteq DOMAIN call
      BY <2>2 DEF read_data, write_data, DriveInv, CallOfDrive
    <3>. QED
      BY <3>1
  <2>. QED
    BY <2>1, <2>2
<1>4. OthersRest'
  <2>1. CASE in_time /\ io.phase # "idle"
    BY <1>1, <1>2, <2>1, ItsDriveIsReached
  <2>. QED
    BY <1>1, <2>1 DEF OthersRest
<1>. QED
  BY <1>1, <1>2, <1>3, <1>4, CommandKeeps DEF DriveInv, CallOfDrive

LEMMA DriverKeeps ==
    ASSUME DriveInv, Driver, UNCHANGED bdVars
    PROVE  DriveInv'
BY WaitBeforeKeeps, SelectKeeps, WaitsBehindKeep, DataKeeps DEF Driver

\* A drive of the bus that is not at rest is that of the request, and answers.
LEMMA DrivesKeep ==
    ASSUME DriveInv, Drives, UNCHANGED bdVars
    PROVE  DriveInv'
<1>1. PICK d \in Drive : drive_ready(d) \/ drive_error(d)
  BY DEF Drives
<1>2. /\ device[d].busy /\ DOMAIN device' = DOMAIN device
      /\ \A e \in Drive : e # d => device'[e] = device[e]
      /\ UNCHANGED <<selected, call, pc, current_bus, in_time>>
  <2>1. DOMAIN device = Drive
    BY DEF DriveInv, CallOfDrive
  <2>2. CASE drive_ready(d)
    BY <2>1, <2>2 DEF drive_ready
  <2>3. CASE drive_error(d)
    BY <2>1, <2>3 DEF drive_error
  <2>. QED
    BY <1>1, <2>2, <2>3
<1>3. UNCHANGED <<io, booted>>
  BY DEF bdVars
<1>4. OthersRest'
  <2>1. SUFFICES ASSUME in_time, io.phase # "idle"
                 PROVE  OthersRest'
    BY <1>2, <1>3 DEF OthersRest
  <2>2. PICK x \in Drive : x = io.drive
    BY <2>1 DEF DriveInv, CommandOfRequest
  <2>3. ~Resting(d)
    BY <1>2 DEF Resting
  <2>4. /\ \A e \in Drive : Bus(e) = Bus(x) /\ e # x => Resting(e)
        /\ pc \in {"idle", "before_select", "returned"} => Resting(x) \/ Answers(x)
        /\ pc = "select" => Resting(x)
        /\ pc \in Selected => Answers(x)
    BY <2>1, <2>2 DEF DriveInv, OthersRest
  <2>5. \A e \in Drive : Resting(e) => Resting(e)'
    BY <1>2, <2>3 DEF Resting
  <2>6. Answers(x) => Answers(x)'
    BY <1>2 DEF Answers
  <2>7. io'.drive = x
    BY <1>3, <2>2
  <2>. QED
    BY <1>2, <2>4, <2>5, <2>6, <2>7 DEF OthersRest
<1>. QED
  BY <1>2, <1>3, <1>4, CommandKeeps

LEMMA StepDriveInv == DriveInv /\ [Next]_vars => DriveInv'
<1>1. SUFFICES ASSUME DriveInv, [Next]_vars PROVE DriveInv'
  OBVIOUS
<1>2. CASE Kernel
  BY <1>1, <1>2, IdentifyKeeps, IdentifiedKeeps, BlockCommandKeeps, TransferStepsKeep,
     FinishKeeps, DriverKeeps DEF Kernel
<1>3. CASE \E r \in Request : start(r)
  BY <1>1, <1>3, StartKeeps
<1>4. CASE Drives /\ UNCHANGED bdVars
  BY <1>1, <1>4, DrivesKeep
<1>5. CASE UNCHANGED vars
  <2>1. UNCHANGED <<in_time, device, selected, current_bus, call, pc, io, booted>>
    BY <1>5 DEF vars, ataVars, bdVars
  <2>2. OthersRest'
    BY <1>1, <2>1, OthersStay DEF DriveInv
  <2>. QED
    BY <1>1, <2>1, <2>2, CommandKeeps
<1>. QED
  BY <1>1, <1>2, <1>3, <1>4, <1>5 DEF Next

-----------------------------------------------------------------------------
(* Theorems *)

\* The invariant on which the separation of the drives rests: while no wait has
\* given up, the other drives of the bus rest, the drive of the request rests
\* when its selector is written, and it is the one that answers at every place
\* of run_command behind that (ata_controller::select_drive, wait_while_status).
THEOREM DriveInvariant == Spec => []DriveInv
  BY InitDriveInv, StepDriveInv, PTL DEF Spec

\* Only write_data changes a disk, and only that of the drive that answers.
LEMMA OneDriveAtATime ==
    ASSUME DriveInv, [Next]_vars, in_time, NEW d \in Drive, disk'[d] # disk[d]
    PROVE  d = io.drive
<1>1. write_data
  BY DEF Next, Kernel, vars, ataVars, hardware, Driver, Drives, identify, identified,
         run_command, block_command, head, head_write, main, tail, tail_write, back, finish,
         start, drive_ready, drive_error, wait_before_select, select_drive,
         wait_after_select, write_position, write_command, wait_for_answer, read_data
<1>2. pc = "transfer" /\ call.op = "write"
  BY <1>1 DEF write_data
<1>3. d \in Answering(current_bus)
  BY <1>1 DEF write_data
<1>4. io.phase # "idle" /\ io.drive \in Drive
  BY <1>2 DEF DriveInv, CommandOfRequest, Commanding
<1>5. Answers(io.drive)
  BY <1>2, <1>4 DEF DriveInv, OthersRest, Selected
<1>. QED
  BY <1>3, <1>4, <1>5, OneAnswers

\* A request that begins when the drives of its bus are idle and none of whose
\* waits gives up changes no other drive than its own, whatever was late before
\* it, whatever else is connected to the bus and whatever the drives' sizes
\* (ata_controller::select_drive, run_command).
THEOREM RequestsKeepToTheirDrive == Spec => DrivesKeptApart
<1>1. DriveInv /\ [Next]_vars
        => [in_time => \A d \in Drive : disk'[d] # disk[d] => d = io.drive]_vars
  BY OneDriveAtATime
<1>. QED
  BY <1>1, DriveInvariant, PTL DEF Spec, DrivesKeptApart

-----------------------------------------------------------------------------
(* Blocks and the bytes in them, and sequences given place by place.       *)

LEMMA SectorSize == SECTOR_SIZE \in Nat \ {0}
BY AtaAssumption DEF AtaAssumption

\* x \div w counts the whole parts of w in x, and x % w is what is left.
LEMMA Division ==
  ASSUME NEW w \in Nat \ {0}, NEW x \in Nat
  PROVE  /\ x \div w \in Nat /\ x % w \in 0 .. w - 1
         /\ x = (x \div w) * w + (x % w)
OBVIOUS

LEMMA SectorsAreBytes ==
  ASSUME NEW x \in Nat
  PROVE  /\ x * SECTOR_SIZE \in Nat /\ (x + 1) * SECTOR_SIZE = x * SECTOR_SIZE + SECTOR_SIZE
         /\ 0 * SECTOR_SIZE = 0 /\ 1 * SECTOR_SIZE = SECTOR_SIZE
BY SectorSize

LEMMA SectorsAdd ==
  ASSUME NEW x \in Nat, NEW y \in Nat
  PROVE  (x + y) * SECTOR_SIZE = x * SECTOR_SIZE + y * SECTOR_SIZE
BY SectorSize

\* Sectors are ordered as their first bytes.
LEMMA SectorOrder ==
  ASSUME NEW x \in Nat, NEW y \in Nat
  PROVE  /\ x <= y => x * SECTOR_SIZE <= y * SECTOR_SIZE
         /\ x < y => x * SECTOR_SIZE + SECTOR_SIZE <= y * SECTOR_SIZE
         /\ x * SECTOR_SIZE < y * SECTOR_SIZE => x < y
         /\ x * SECTOR_SIZE <= y * SECTOR_SIZE => x <= y
<1>1. x <= y => x * SECTOR_SIZE <= y * SECTOR_SIZE
  <2>1. SUFFICES ASSUME x <= y PROVE x * SECTOR_SIZE <= y * SECTOR_SIZE
    OBVIOUS
  <2>2. y - x \in Nat /\ y = x + (y - x)
    BY <2>1
  <2>3. PICK z \in Nat : y = x + z
    BY <2>2
  <2>4. (x + z) * SECTOR_SIZE = x * SECTOR_SIZE + z * SECTOR_SIZE
        /\ z * SECTOR_SIZE \in Nat /\ x * SECTOR_SIZE \in Nat
    BY SectorsAdd, SectorsAreBytes
  <2>. QED
    BY <2>3, <2>4
<1>2. x < y => x * SECTOR_SIZE + SECTOR_SIZE <= y * SECTOR_SIZE
  <2>1. SUFFICES ASSUME x < y PROVE x * SECTOR_SIZE + SECTOR_SIZE <= y * SECTOR_SIZE
    OBVIOUS
  <2>2. y - (x + 1) \in Nat /\ y = (x + 1) + (y - (x + 1))
    BY <2>1
  <2>3. PICK z \in Nat : y = (x + 1) + z
    BY <2>2
  <2>4. ((x + 1) + z) * SECTOR_SIZE = (x + 1) * SECTOR_SIZE + z * SECTOR_SIZE
    BY SectorsAdd
  <2>5. (x + 1) * SECTOR_SIZE = x * SECTOR_SIZE + SECTOR_SIZE
        /\ z * SECTOR_SIZE \in Nat /\ x * SECTOR_SIZE \in Nat
    BY SectorsAreBytes
  <2>. QED
    BY <2>3, <2>4, <2>5, SectorSize
<1>3. y < x => y * SECTOR_SIZE + SECTOR_SIZE <= x * SECTOR_SIZE
  <2>1. SUFFICES ASSUME y < x PROVE y * SECTOR_SIZE + SECTOR_SIZE <= x * SECTOR_SIZE
    OBVIOUS
  <2>2. x - (y + 1) \in Nat /\ x = (y + 1) + (x - (y + 1))
    BY <2>1
  <2>3. PICK z \in Nat : x = (y + 1) + z
    BY <2>2
  <2>4. ((y + 1) + z) * SECTOR_SIZE = (y + 1) * SECTOR_SIZE + z * SECTOR_SIZE
    BY SectorsAdd
  <2>5. (y + 1) * SECTOR_SIZE = y * SECTOR_SIZE + SECTOR_SIZE
        /\ z * SECTOR_SIZE \in Nat /\ y * SECTOR_SIZE \in Nat
    BY SectorsAreBytes
  <2>. QED
    BY <2>3, <2>4, <2>5, SectorSize
<1>4. x * SECTOR_SIZE \in Nat /\ y * SECTOR_SIZE \in Nat
  BY SectorsAreBytes
<1>5. x < y \/ x = y \/ y < x
  OBVIOUS
<1>. QED
  BY <1>1, <1>2, <1>3, <1>4, <1>5, SectorSize

\* The block a byte is in, told from where the block starts.
LEMMA BlockIs ==
  ASSUME NEW a \in Nat, NEW b \in Nat
  PROVE  /\ a % SECTOR_SIZE \in 0 .. SECTOR_SIZE - 1 /\ a \div SECTOR_SIZE \in Nat
         /\ a \div SECTOR_SIZE = b => a = b * SECTOR_SIZE + (a % SECTOR_SIZE)
         /\ b * SECTOR_SIZE <= a /\ a \div SECTOR_SIZE # b
              => b * SECTOR_SIZE + SECTOR_SIZE <= a
<1>. DEFINE q == a \div SECTOR_SIZE
            r == a % SECTOR_SIZE
<1>1. q \in Nat /\ r \in 0 .. SECTOR_SIZE - 1 /\ a = q * SECTOR_SIZE + r
  BY SectorSize, Division
<1>2. /\ b < q => b * SECTOR_SIZE + SECTOR_SIZE <= q * SECTOR_SIZE
      /\ q < b => q * SECTOR_SIZE + SECTOR_SIZE <= b * SECTOR_SIZE
  BY <1>1, SectorOrder
<1>3. q * SECTOR_SIZE \in Nat /\ b * SECTOR_SIZE \in Nat
  BY <1>1, SectorsAreBytes
<1>. HIDE DEF q, r
<1>4. /\ q = b => a = b * SECTOR_SIZE + r
      /\ b * SECTOR_SIZE <= a /\ q # b => b * SECTOR_SIZE + SECTOR_SIZE <= a
  BY <1>1, <1>2, <1>3, SectorSize
<1>. QED
  BY <1>1, <1>4 DEF q, r

LEMMA Appended ==
  ASSUME NEW n \in Nat, NEW m \in Nat, NEW s, NEW t,
         s = [k \in 1 .. n |-> s[k]], t = [k \in 1 .. m |-> t[k]]
  PROVE  s \o t = [k \in 1 .. n + m |-> IF k <= n THEN s[k] ELSE t[k - n]]
<1>. DEFINE U == {s[k] : k \in 1 .. n} \cup {t[k] : k \in 1 .. m}
<1>1. (\A k \in 1 .. n : s[k] \in U) /\ (\A k \in 1 .. m : t[k] \in U)
  OBVIOUS
<1>. HIDE DEF U
<1>2. s \in Seq(U) /\ Len(s) = n
  <2>1. s \in [1 .. n -> U]
    BY <1>1
  <2>2. s \in Seq(U)
    BY <2>1
  <2>3. DOMAIN s = 1 .. Len(s) /\ DOMAIN s = 1 .. n /\ Len(s) \in Nat
    BY <2>1, <2>2
  <2>. QED
    BY <2>2, <2>3
<1>3. t \in Seq(U) /\ Len(t) = m
  <2>1. t \in [1 .. m -> U]
    BY <1>1
  <2>2. t \in Seq(U)
    BY <2>1
  <2>3. DOMAIN t = 1 .. Len(t) /\ DOMAIN t = 1 .. m /\ Len(t) \in Nat
    BY <2>1, <2>2
  <2>. QED
    BY <2>2, <2>3
<1>4. /\ s \o t \in Seq(U) /\ Len(s \o t) = Len(s) + Len(t)
      /\ \A k \in 1 .. Len(s) + Len(t) :
           (s \o t)[k] = IF k <= Len(s) THEN s[k] ELSE t[k - Len(s)]
  BY <1>2, <1>3, ConcatProperties
<1>. DEFINE u == s \o t
<1>. HIDE DEF u
<1>5. /\ u \in Seq(U) /\ Len(u) = n + m
      /\ \A k \in 1 .. n + m : u[k] = IF k <= n THEN s[k] ELSE t[k - n]
  BY <1>2, <1>3, <1>4 DEF u
<1>6. u = [k \in 1 .. n + m |-> u[k]]
  BY <1>5
<1>7. u = [k \in 1 .. n + m |-> IF k <= n THEN s[k] ELSE t[k - n]]
  BY <1>5, <1>6
<1>. QED
  BY <1>7 DEF u

LEMMA Rest ==
  ASSUME NEW n \in Nat, NEW s, s = [k \in 1 .. n |-> s[k]], NEW p \in 0 .. n
  PROVE  \A j \in 1 .. n - p : SubSeq(s, p + 1, Len(s))[j] = s[p + j]
<1>. DEFINE U == {s[k] : k \in 1 .. n}
<1>1. Len(s) = n /\ \A k \in p + 1 .. n : s[k] \in U
  OBVIOUS
<1>2. \A j \in 1 .. n - (p + 1) + 1 : SubSeq(s, p + 1, n)[j] = s[(p + 1) + j - 1]
  BY <1>1, SubSeqProperties
<1>. QED
  BY <1>1, <1>2

-----------------------------------------------------------------------------
(* What a command can reach.                                               *)

\* run_command passes on no more than it is asked for, and no more than the
\* ports hold.
LEMMA MaskedFits ==
  ASSUME NEW d, NEW n \in Nat, has_lba48[d] \in BOOLEAN
  PROVE  /\ Masked(d, n) \in Nat /\ Masked(d, n) <= n /\ Masked(d, 1) = 1
         /\ Masked(d, n) < CountBase * CountBase
         /\ ~has_lba48[d] => Masked(d, n) < CountBase
<1>. DEFINE B == CountBase * CountBase
            q == n \div CountBase
            r == n % CountBase
            u == n \div B
            v == n % B
<1>1. CountBase \in Nat \ {0} /\ CountBase > 1
  BY AtaAssumption DEF AtaAssumption
<1>2. B \in Nat /\ CountBase <= B
  <2>1. \A z \in Nat : z > 1 => z * z \in Nat /\ z <= z * z
    OBVIOUS
  <2>. QED
    BY <1>1, <2>1
<1>3. q \in Nat /\ r \in 0 .. CountBase - 1 /\ n = q * CountBase + r
  BY <1>1, Division
<1>. HIDE DEF B, q, r
<1>4. u \in Nat /\ v \in 0 .. B - 1 /\ n = u * B + v
  <2>1. B \in Nat \ {0}
    BY <1>1, <1>2
  <2>. QED
    BY <2>1, Division
<1>5. Masked(d, n) = IF q # 0 /\ ~has_lba48[d] THEN r ELSE v
  BY DEF Masked, B, q, r
<1>. HIDE DEF u, v
<1>6. r <= n /\ v <= n
  <2>1. q * CountBase \in Nat /\ u * B \in Nat
    BY <1>1, <1>2, <1>3, <1>4
  <2>. QED
    BY <1>1, <1>2, <1>3, <1>4, <2>1
<1>7. q = 0 => v < CountBase
  <2>1. 0 * CountBase = 0
    BY <1>1
  <2>. QED
    BY <2>1, <1>1, <1>3, <1>4, <1>6
<1>8. Masked(d, 1) = 1
  <2>1. 1 \div CountBase = 0 /\ 1 % B = 1
    BY <1>1, <1>2
  <2>. QED
    BY <2>1 DEF Masked, B
<1>. QED
  BY <1>1, <1>2, <1>3, <1>4, <1>5, <1>6, <1>7, <1>8 DEF B

\* Drives without 48-bit addresses are never asked for what takes them.
LEMMA InReach ==
  ASSUME NEW d \in Drive, has_lba48[d] = Lba48(d), NEW n \in Nat,
         NEW base \in Nat, base < Sectors(d)
  PROVE  /\ ~has_lba48[d] =>
              Masked(d, n) \div CountBase = 0 /\ base \div AddrBase = 0
         /\ base < AddrBase * AddrBase
<1>1. /\ CountBase \in Nat \ {0} /\ AddrBase \in Nat \ {0} /\ AddrBase > 1
      /\ Lba48(d) \in BOOLEAN /\ Sectors(d) \in Nat
  BY AtaAssumption DEF AtaAssumption
<1>2. Sectors(d) <= (IF Lba48(d) THEN AddrBase * AddrBase ELSE AddrBase)
  BY PartitionAssumption DEF PartitionAssumption
<1>3. Masked(d, n) \in Nat /\ (~has_lba48[d] => Masked(d, n) < CountBase)
  BY <1>1, MaskedFits
<1>4. AddrBase * AddrBase \in Nat /\ AddrBase <= AddrBase * AddrBase
  <2>1. \A z \in Nat : z > 1 => z * z \in Nat /\ z <= z * z
    OBVIOUS
  <2>. QED
    BY <1>1, <2>1
<1>5. \A w \in Nat \ {0} : \A z \in Nat : z < w => z \div w = 0
  OBVIOUS
<1>6. base < AddrBase * AddrBase
  BY <1>1, <1>2, <1>4
<1>7. ~has_lba48[d] => Masked(d, n) \div CountBase = 0
  BY <1>1, <1>3, <1>5
<1>8. ~has_lba48[d] => base \div AddrBase = 0
  <2>1. ~has_lba48[d] => base < AddrBase
    BY <1>1, <1>2
  <2>. QED
    BY <1>1, <1>5, <2>1
<1>. QED
  BY <1>6, <1>7, <1>8

-----------------------------------------------------------------------------
(* A transfer while the drives answer in time.                             *)

\* The sectors the next command is for, and the case that it asks for none:
\* the kernel then asks again for ever.
Wanted == IF io.phase = "main" THEN io.remain \div SECTOR_SIZE ELSE 1
Stuck == io.phase = "main" /\ Masked(io.drive, Wanted) = 0
Writes == io.phase \in {"head_write", "tail_write"} \/ (io.phase = "main" /\ io.op = "write")

IoFields == {"op", "drive", "base", "length", "base_block", "skip_bytes", "remain", "position",
             "success", "phase", "limit"}
CallFields == {"drive", "op", "base", "sectors", "ext", "i", "result"}
DeviceFields == {"busy", "request", "op", "next", "left"}

\* What boot has found, drive by drive; nobody asks before it is complete.
BootOK ==
    /\ DOMAIN nodes = Drive /\ has_lba48 \in [Drive -> BOOLEAN]
    /\ \A d \in Drive :
         nodes[d] # <<>> => /\ nodes[d] = probe_filesystems(d, Length(d))
                            /\ has_lba48[d] = Lba48(d)
    /\ ~Booted => io.phase = "idle"

\* Where a request is: the place of its next byte, as a byte of the drive and
\* as a block and a position in it.
RequestOK ==
    /\ IoFields \subseteq DOMAIN io
    /\ io.phase # "idle" =>
         /\ io.phase \in Commanding \cup {"finished"} /\ io.op \in {"read", "write"}
         /\ io.drive \in Drive /\ has_lba48[io.drive] = Lba48(io.drive)
         /\ io.success = TRUE
         /\ io.base \in Nat /\ io.length \in Nat /\ io.position \in Nat /\ io.remain \in Nat
         /\ io.base_block \in Nat /\ io.skip_bytes \in 0 .. SECTOR_SIZE - 1
         /\ io.base + io.length <= Sectors(io.drive) * SECTOR_SIZE
    /\ io.phase \in Commanding =>
         /\ io.position + io.remain = io.length /\ io.remain > 0
         /\ io.base_block * SECTOR_SIZE + io.skip_bytes = io.base + io.position
         /\ io.phase \in {"head_write", "tail_write"} => io.op = "write"
         /\ io.phase = "main" => io.remain > SECTOR_SIZE /\ io.skip_bytes = 0
         /\ io.phase \in {"tail", "tail_write"} =>
              io.remain <= SECTOR_SIZE /\ io.skip_bytes = 0

\* How far a command is.
Progress ==
    /\ CallFields \subseteq DOMAIN call
    /\ pc # "idle" =>
         /\ pc \in {"returned", "before_select", "select"} \cup Selected
         /\ call.sectors \in Nat /\ call.base \in Nat /\ call.i \in 0 .. call.sectors
         /\ call.result = call.sectors
         /\ pc \in {"before_select", "select", "after_select", "position", "command"} =>
              call.i = 0
         /\ pc = "transfer" => call.i < call.sectors
         /\ pc = "returned" => call.i = call.sectors

\* A command is for the block the request has come to; what it has read are
\* the sectors of the drive, and what it writes is what they should be.
CommandOK ==
    /\ pc # "idle" /\ call.op # "identify" =>
         /\ call.op = IF Writes THEN "write" ELSE "read"
         /\ call.base = io.base_block /\ call.sectors = Masked(io.drive, Wanted)
         /\ call.ext = (call.sectors \div CountBase # 0 \/ call.base \div AddrBase # 0)
         /\ call.op = "read" =>
              data = [j \in 1 .. call.i * SECTOR_SIZE |->
                        disk[io.drive][call.base * SECTOR_SIZE + j - 1]]
         /\ call.op = "write" =>
              \A j \in 1 .. call.sectors * SECTOR_SIZE :
                data[j] = content[io.drive][call.base * SECTOR_SIZE + j - 1]
    /\ pc # "idle" /\ call.op = "identify" =>
         /\ call.sectors = 1 /\ call.base = 0 /\ call.ext = FALSE
         /\ data = [j \in 1 .. call.i * SECTOR_SIZE |-> 0]

\* No drive does anything but the one the command is for, and that one the
\* command: it is busy with the next sector or asks for it, and it is the one
\* that answers.
Quiet(d) == device[d].busy = FALSE /\ device[d].request = FALSE
OnItsWay(d) ==
    /\ device[d].op = call.op
    /\ device[d].next = call.base + call.i /\ device[d].left = call.sectors - call.i
    /\ \/ device[d].busy = TRUE /\ device[d].request = FALSE /\ pc = "answer"
       \/ device[d].busy = FALSE /\ device[d].request = (call.i < call.sectors)
PortsSay ==
    LET p == port[Bus(call.drive)]
    IN  /\ Count(p.count, call.ext) = call.sectors
        /\ call.base = IF call.ext THEN p.address[1] * AddrBase + p.address[2] ELSE p.address[2]
DevicesOK ==
    /\ DOMAIN device = Drive /\ DOMAIN port = Buses
    /\ \A d \in Drive : DeviceFields \subseteq DOMAIN device[d]
    /\ pc \in Selected \cup {"returned"} => Answers(call.drive)
    /\ \A d \in Drive :
         IF pc \in {"answer", "transfer"} /\ d = call.drive THEN OnItsWay(d) ELSE Quiet(d)
    /\ pc = "command" /\ call.op # "identify" => PortsSay

\* The bytes of the drives are what they should be, up to those that the
\* request has yet to write.
ToWrite(d, a) ==
    /\ io.phase \in Commanding /\ io.op = "write" /\ d = io.drive
    /\ io.base + io.position <= a /\ a < io.base + io.length
    /\ pc # "idle" /\ call.op = "write" => (call.base + call.i) * SECTOR_SIZE <= a

Bytes(d) == 0 .. Sectors(d) * SECTOR_SIZE - 1
BytesOK ==
    /\ disk = [d \in Drive |-> [a \in Bytes(d) |-> disk[d][a]]]
    /\ content = [d \in Drive |-> [a \in Bytes(d) |-> content[d][a]]]
    /\ \A d \in Drive : \A a \in Bytes(d) : disk[d][a] # content[d][a] => ToWrite(d, a)

\* What has been read into the caller's buffer, what it is to be written from,
\* and the one block that is written with what its neighbours hold.
BuffersOK ==
    io.phase # "idle" =>
      /\ buf = [k \in 1 .. io.length |-> buf[k]]
      /\ \A k \in 1 .. io.length :
           \/ io.op = "read" /\ io.phase # "finished" /\ k > io.position
           \/ buf[k] = content[io.drive][io.base + k - 1]
      /\ io.phase \in {"head_write", "tail_write"} =>
           \A k \in 1 .. SECTOR_SIZE :
             tmp[k] = content[io.drive][io.base_block * SECTOR_SIZE + k - 1]

TransferOK ==
    /\ BootOK /\ RequestOK /\ Progress /\ CommandOK /\ BytesOK /\ BuffersOK
    /\ Stuck \/ DevicesOK

TransferInv == faults \in Nat /\ (faults = 0 => TransferOK)

-----------------------------------------------------------------------------
(* What the invariant says of the command in progress.                     *)

\* The next command stays on the drive and within the rest of the request.
LEMMA NextCommand ==
  ASSUME RequestOK, io.phase \in Commanding
  PROVE  /\ io.drive \in Drive /\ has_lba48[io.drive] \in BOOLEAN
         /\ Wanted \in Nat /\ Masked(io.drive, Wanted) \in Nat
         /\ io.phase = "main" => Masked(io.drive, Wanted) * SECTOR_SIZE <= io.remain
         /\ io.phase # "main" => Wanted = 1 /\ Masked(io.drive, Wanted) = 1
         /\ io.base_block + Masked(io.drive, Wanted) <= Sectors(io.drive)
         /\ io.base_block < Sectors(io.drive)
<1>. DEFINE d == io.drive
            m == Masked(d, Wanted)
            b == io.base_block
<1>1. /\ d \in Drive /\ has_lba48[d] = Lba48(d)
      /\ io.base \in Nat /\ io.length \in Nat /\ io.position \in Nat /\ io.remain \in Nat
      /\ b \in Nat /\ io.skip_bytes \in 0 .. SECTOR_SIZE - 1
      /\ io.base + io.length <= Sectors(d) * SECTOR_SIZE
      /\ io.position + io.remain = io.length /\ io.remain > 0
      /\ b * SECTOR_SIZE + io.skip_bytes = io.base + io.position
      /\ io.phase = "main" => io.skip_bytes = 0
  BY DEF RequestOK, Commanding
<1>2. has_lba48[d] \in BOOLEAN /\ Sectors(d) \in Nat
  BY <1>1, AtaAssumption DEF AtaAssumption
<1>3. Wanted \in Nat /\ (io.phase # "main" => Wanted = 1)
      /\ (io.phase = "main" => Wanted * SECTOR_SIZE <= io.remain)
  <2>1. /\ io.remain \div SECTOR_SIZE \in Nat /\ io.remain % SECTOR_SIZE \in 0 .. SECTOR_SIZE - 1
        /\ io.remain = (io.remain \div SECTOR_SIZE) * SECTOR_SIZE + (io.remain % SECTOR_SIZE)
    BY <1>1, SectorSize, Division
  <2>2. CASE io.phase = "main"
    <3>1. Wanted = io.remain \div SECTOR_SIZE
      BY <2>2 DEF Wanted
    <3>2. Wanted * SECTOR_SIZE \in Nat
      BY <2>1, <3>1, SectorsAreBytes
    <3>. QED
      BY <1>1, <2>1, <2>2, <3>1, <3>2
  <2>. QED
    BY <2>2 DEF Wanted
<1>4. m \in Nat /\ m <= Wanted /\ (io.phase # "main" => m = 1)
  BY <1>2, <1>3, MaskedFits
<1>. HIDE DEF d, m, b
<1>5. m * SECTOR_SIZE <= Wanted * SECTOR_SIZE
  BY <1>3, <1>4, SectorOrder
<1>6. /\ m * SECTOR_SIZE \in Nat /\ Wanted * SECTOR_SIZE \in Nat /\ b * SECTOR_SIZE \in Nat
      /\ Sectors(d) * SECTOR_SIZE \in Nat /\ 1 * SECTOR_SIZE = SECTOR_SIZE
      /\ (b + m) * SECTOR_SIZE = b * SECTOR_SIZE + m * SECTOR_SIZE
  BY <1>1, <1>2, <1>3, <1>4, SectorsAreBytes, SectorsAdd
<1>7. io.phase = "main" => m * SECTOR_SIZE <= io.remain
  BY <1>1, <1>3, <1>5, <1>6
<1>8. b < Sectors(d)
  <2>1. b * SECTOR_SIZE < Sectors(d) * SECTOR_SIZE
    BY <1>1, <1>6, SectorSize
  <2>. QED
    BY <1>1, <1>2, <2>1, SectorOrder
<1>9. b + m <= Sectors(d)
  <2>1. CASE io.phase = "main"
    <3>1. (b + m) * SECTOR_SIZE <= Sectors(d) * SECTOR_SIZE
      BY <1>1, <1>6, <1>7, <2>1
    <3>. QED
      BY <1>1, <1>2, <1>4, <3>1, SectorOrder
  <2>2. CASE io.phase # "main"
    BY <1>1, <1>2, <1>4, <1>8, <2>2
  <2>. QED
    BY <2>1, <2>2
<1>. QED
  BY <1>1, <1>2, <1>3, <1>4, <1>7, <1>8, <1>9 DEF d, m, b

\* ata::init has run before anybody asks, so its commands are not a request's.
LEMMA IdentifyIsEarly ==
  ASSUME DriveInv, BootOK, pc # "idle", call.op = "identify"
  PROVE  io.phase = "idle" /\ ~Booted
<1>1. Len(booted) < Len(BootOrder) /\ booted \in Seq(Drive) /\ BootOrder \in Seq(Drive)
  BY BlockAssumption DEF BlockAssumption, DriveInv, DrivesInOrder
<1>2. ~Booted
  BY <1>1 DEF Booted
<1>. QED
  BY <1>2 DEF BootOK

\* A command for no sector is the one that is asked again for ever; the others
\* stay on the drive and within what the ports hold.
LEMMA ThisCommand ==
  ASSUME DriveInv, TransferOK, pc # "idle"
  PROVE  /\ call.drive \in Drive
         /\ call.op # "identify" => io.phase \in Commanding /\ call.drive = io.drive
         /\ call.op = "identify" => io.phase = "idle"
         /\ call.base \in Nat /\ call.sectors \in Nat /\ call.i \in 0 .. call.sectors
         /\ call.base + call.sectors <= Sectors(call.drive)
         /\ Sectors(call.drive) \in Nat
         /\ call.sectors = 0 <=> Stuck
<1>1. /\ call.drive \in Drive
      /\ call.op # "identify" => io.phase \in Commanding /\ call.drive = io.drive
  BY DEF DriveInv, CallOfDrive, CommandOfRequest
<1>2. call.base \in Nat /\ call.sectors \in Nat /\ call.i \in 0 .. call.sectors
  BY DEF TransferOK, Progress
<1>3. Sectors(call.drive) \in Nat /\ 0 < Sectors(call.drive)
  BY <1>1, AtaAssumption, PartitionAssumption DEF AtaAssumption, PartitionAssumption
<1>4. CASE call.op = "identify"
  <2>1. io.phase = "idle"
    BY <1>4, IdentifyIsEarly DEF TransferOK
  <2>2. ~Stuck
    BY <2>1 DEF Stuck
  <2>3. call.sectors = 1 /\ call.base = 0
    BY <1>4 DEF TransferOK, CommandOK
  <2>. QED
    BY <1>1, <1>2, <1>3, <1>4, <2>1, <2>2, <2>3
<1>5. CASE call.op # "identify"
  <2>1. call.base = io.base_block /\ call.sectors = Masked(io.drive, Wanted)
    BY <1>5 DEF TransferOK, CommandOK
  <2>2. /\ io.phase # "main" => Masked(io.drive, Wanted) = 1
        /\ io.base_block + Masked(io.drive, Wanted) <= Sectors(io.drive)
    BY <1>1, <1>5, NextCommand DEF TransferOK
  <2>3. call.sectors = 0 <=> Stuck
    BY <2>1, <2>2 DEF Stuck
  <2>. QED
    BY <1>1, <1>2, <1>3, <1>5, <2>1, <2>2, <2>3
<1>. QED
  BY <1>4, <1>5

-----------------------------------------------------------------------------
(* What the steps have in common.                                          *)

\* The steps of run_command and of the drives leave the request alone.
LEMMA RequestStays ==
  ASSUME TransferOK, UNCHANGED <<io, nodes, booted, has_lba48, content, buf, tmp>>,
         Progress', CommandOK', BytesOK', Stuck \/ DevicesOK'
  PROVE  TransferOK'
<1>1. BootOK' /\ RequestOK'
  BY DEF TransferOK, BootOK, RequestOK, Booted
<1>2. BuffersOK'
  BY DEF TransferOK, BuffersOK
<1>3. \A d, n : Masked(d, n)' = Masked(d, n)
  BY DEF Masked
<1>4. Stuck' <=> Stuck
  BY <1>3 DEF Stuck, Wanted
<1>. QED
  BY <1>1, <1>2, <1>4 DEF TransferOK

\* A step from one place of run_command to the next that moves no sector.
LEMMA PlaceChanges ==
  ASSUME TransferOK, pc # "idle", pc' # "idle",
         UNCHANGED <<bdVars, has_lba48, call, data, disk>>,
         Progress', Stuck \/ DevicesOK'
  PROVE  TransferOK'
<1>1. UNCHANGED <<io, nodes, booted, has_lba48, content, buf, tmp, call, data, disk>>
  BY DEF bdVars
<1>2. \A d, n : Masked(d, n)' = Masked(d, n)
  BY <1>1 DEF Masked
<1>3. CommandOK'
  BY <1>1, <1>2 DEF TransferOK, CommandOK, Wanted, Writes
<1>4. \A d, a : ToWrite(d, a)' <=> ToWrite(d, a)
  BY <1>1 DEF ToWrite
<1>5. BytesOK'
  BY <1>1, <1>4 DEF TransferOK, BytesOK, Bytes
<1>. QED
  BY <1>1, <1>3, <1>5, RequestStays

\* The state of the drives while no command is under way.
LEMMA StillQuiet ==
  ASSUME DevicesOK, UNCHANGED <<device, port>>, pc \notin {"answer", "transfer"},
         pc' \notin {"answer", "transfer", "command"},
         pc' \in Selected \cup {"returned"} => Answers(call.drive)'
  PROVE  DevicesOK'
<1>1. /\ DOMAIN device = Drive /\ DOMAIN port = Buses
      /\ \A d \in Drive : DeviceFields \subseteq DOMAIN device[d]
      /\ \A d \in Drive : Quiet(d)
  BY DEF DevicesOK
<1>2. \A d \in Drive : Quiet(d)'
  BY <1>1 DEF Quiet
<1>. QED
  BY <1>1, <1>2 DEF DevicesOK, Buses

\* The steps behind a command: run_command has returned and the request goes on.
LEMMA ReturnKeeps ==
  ASSUME DriveInv, TransferOK, back, Returned, io.phase \in Commanding,
         RequestOK', BuffersOK', Stuck => Stuck',
         \A d \in Drive : \A a \in Bytes(d) :
            disk[d][a] # content[d][a] => ToWrite(d, a)'
  PROVE  TransferOK'
<1>1. /\ pc = "returned" /\ pc' = "idle" /\ call' = NoCall
      /\ UNCHANGED <<disk, device, port, has_lba48, nodes, booted, content>>
  BY DEF back, hardware, Returned
<1>2. BootOK'
  <2>1. Booted
    BY DEF TransferOK, BootOK, Commanding
  <2>. QED
    BY <1>1, <2>1 DEF TransferOK, BootOK, Booted
<1>3. Progress'
  BY <1>1 DEF Progress, CallFields, NoCall
<1>4. CommandOK'
  BY <1>1 DEF CommandOK
<1>5. BytesOK'
  BY <1>1 DEF TransferOK, BytesOK, Bytes
<1>6. Stuck' \/ DevicesOK'
  <2>1. CASE DevicesOK
    BY <1>1, <2>1, StillQuiet DEF Selected
  <2>. QED
    BY <2>1 DEF TransferOK
<1>. QED
  BY <1>2, <1>3, <1>4, <1>5, <1>6 DEF TransferOK

-----------------------------------------------------------------------------
(* Boot. *)

LEMMA InitTransferInv == Init => TransferInv
<1>1. SUFFICES ASSUME Init PROVE faults \in Nat /\ TransferOK
  BY DEF TransferInv
<1>2. /\ pc = "idle" /\ call = NoCall /\ io = NoIo /\ booted = <<>> /\ faults = 0
      /\ device = [d \in Drive |-> Idle] /\ DOMAIN port = Buses
      /\ has_lba48 = [d \in Drive |-> FALSE] /\ nodes = [d \in Drive |-> <<>>]
      /\ disk = [d \in Drive |-> FirstContent(d)] /\ content = disk
  BY <1>1 DEF Init, AtaInit
<1>3. BootOK /\ RequestOK
  BY <1>2 DEF BootOK, RequestOK, NoIo, IoFields, Commanding
<1>4. Progress /\ CommandOK
  BY <1>2 DEF Progress, CommandOK, NoCall, CallFields
<1>5. BytesOK
  BY <1>2 DEF BytesOK, Bytes, FirstContent
<1>6. BuffersOK
  BY <1>2 DEF BuffersOK, NoIo
<1>7. DevicesOK
  BY <1>2 DEF DevicesOK, Quiet, Idle, DeviceFields, Selected
<1>. QED
  BY <1>2, <1>3, <1>4, <1>5, <1>6, <1>7 DEF TransferOK

\* Nothing is read or written while nobody asks.
LEMMA NothingToWrite ==
  ASSUME io.phase \notin Commanding \/ io.op # "write"
  PROVE  \A d, a : ~ToWrite(d, a)
BY DEF ToWrite

LEMMA IdentifyGoesOn ==
  ASSUME DriveInv, TransferOK, identify
  PROVE  TransferOK'
<1>. DEFINE d == BootOrder[Len(booted) + 1]
<1>1. /\ run_command(d, "identify", 0, <<>>, 1) /\ ~Booted
      /\ UNCHANGED <<nodes, booted, io, buf, tmp, content>>
  BY DEF identify, bdVars
<1>2. /\ BootOrder \in Seq(Drive) /\ booted \in Seq(Drive) /\ Len(booted) <= Len(BootOrder)
      /\ Len(booted) # Len(BootOrder)
  BY <1>1, BlockAssumption DEF BlockAssumption, DriveInv, DrivesInOrder, Booted
<1>3. d \in Drive
  BY <1>2
<1>4. io.phase = "idle"
  BY <1>1 DEF TransferOK, BootOK
<1>5. has_lba48[d] \in BOOLEAN
  BY <1>3 DEF TransferOK, BootOK
<1>6. Masked(d, 1) = 1
  BY <1>5, MaskedFits
<1>7. Masked(d, 1) \div CountBase = 0 /\ 0 \div AddrBase = 0
  BY <1>6, AtaAssumption DEF AtaAssumption
<1>8. /\ pc = "idle" /\ pc' = "before_select" /\ data' = <<>>
      /\ call' = [drive |-> d, op |-> "identify", base |-> 0, sectors |-> 1, ext |-> FALSE,
                  i |-> 0, result |-> 1]
      /\ UNCHANGED <<disk, device, port, has_lba48>>
  BY <1>1, <1>6, <1>7 DEF run_command, hardware
<1>9. BootOK' /\ RequestOK' /\ BuffersOK'
  BY <1>1, <1>4, <1>8 DEF TransferOK, BootOK, RequestOK, BuffersOK, Booted, Commanding
<1>10. Progress'
  BY <1>8 DEF Progress, CallFields
<1>11. CommandOK'
  <2>1. 0 * SECTOR_SIZE = 0
    BY SectorSize
  <2>. QED
    BY <1>8, <2>1 DEF CommandOK
<1>12. BytesOK'
  BY <1>1, <1>4, <1>8 DEF TransferOK, BytesOK, Bytes, ToWrite, Commanding
<1>13. DevicesOK'
  <2>1. DevicesOK
    BY <1>4 DEF TransferOK, Stuck
  <2>. QED
    BY <1>8, <2>1, StillQuiet DEF Selected
<1>. QED
  BY <1>9, <1>10, <1>11, <1>12, <1>13 DEF TransferOK

\* What identify has transferred is not what a drive that asks for nothing, or
\* another drive, would have given, so the drive's own size and nodes are taken.
LEMMA IdentifiedGoesOn ==
  ASSUME DriveInv, TransferOK, identified
  PROVE  TransferOK'
<1>. DEFINE d == call.drive
<1>1. /\ pc = "returned" /\ call.op = "identify" /\ pc' = "idle" /\ call' = NoCall
      /\ booted' = Append(booted, d)
      /\ UNCHANGED <<disk, device, port, io, buf, tmp, content>>
  BY DEF identified, hardware
<1>2. io.phase = "idle" /\ d \in Drive
  BY <1>1, ThisCommand
<1>3. data # NoBytes
  <2>1. call.i = 1 /\ data = [j \in 1 .. call.i * SECTOR_SIZE |-> 0]
    BY <1>1 DEF TransferOK, Progress, CommandOK
  <2>2. call.i * SECTOR_SIZE = SECTOR_SIZE /\ 1 \in 1 .. SECTOR_SIZE
    BY <2>1, SectorSize
  <2>3. data[1] = 0 /\ NoBytes[1] = -1
    BY <2>1, <2>2 DEF NoBytes, Garbage
  <2>. QED
    BY <2>3
<1>a. DevicesOK
  BY <1>2 DEF TransferOK, Stuck
<1>b. selected[Bus(d)] = Master(d)
  BY <1>1, <1>a DEF DevicesOK, Answers
<1>4. /\ has_lba48' = [has_lba48 EXCEPT ![d] = Lba48(d)]
      /\ nodes' = [nodes EXCEPT ![d] = probe_filesystems(d, Length(d))]
  BY <1>1, <1>3, <1>b DEF identified
<1>5. BootOK'
  <2>1. Lba48(d) \in BOOLEAN
    BY <1>2, AtaAssumption DEF AtaAssumption
  <2>. QED
    BY <1>1, <1>2, <1>4, <2>1 DEF TransferOK, BootOK
<1>6. RequestOK' /\ BuffersOK'
  BY <1>1, <1>2 DEF TransferOK, RequestOK, BuffersOK, Commanding
<1>7. Progress' /\ CommandOK'
  BY <1>1 DEF Progress, CommandOK, NoCall, CallFields
<1>8. BytesOK'
  BY <1>1, <1>2 DEF TransferOK, BytesOK, Bytes, ToWrite, Commanding
<1>9. DevicesOK'
  BY <1>1, <1>a, StillQuiet DEF Selected
<1>. QED
  BY <1>5, <1>6, <1>7, <1>8, <1>9 DEF TransferOK

-----------------------------------------------------------------------------
(* A request begins, sends a command, and ends. *)

\* The part a request begins with, or goes on with after a whole number of
\* blocks.
LEMMA NextPhaseIs ==
  ASSUME NEW n \in Nat
  PROVE  /\ n > SECTOR_SIZE => NextPhase(n, TRUE) = "main"
         /\ n <= SECTOR_SIZE /\ n > 0 => NextPhase(n, TRUE) = "tail"
         /\ n = 0 => NextPhase(n, TRUE) = "finished"
BY SectorSize DEF NextPhase

LEMMA StartGoesOn ==
  ASSUME DriveInv, TransferOK, NEW r \in Request, start(r)
  PROVE  TransferOK'
<1>. DEFINE d == r.drive
            node == nodes[d][r.node]
            base == node.first + r.offset
            up == base + r.length
            new == NewBytes(r.length)
            block == base \div SECTOR_SIZE
            skip == base % SECTOR_SIZE
            phase == IF skip > 0 THEN "head" ELSE NextPhase(r.length, TRUE)
<1>1. /\ Booted /\ pc = "idle" /\ io.phase = "idle" /\ r.node \in DOMAIN nodes[d]
      /\ base < up /\ up <= node.last
      /\ UNCHANGED <<disk, device, port, has_lba48, call, data, pc, nodes, booted>>
  BY DEF start, InBounds, hardware
<1>2. /\ io' = [op |-> r.op, drive |-> d, base |-> base, length |-> r.length,
                base_block |-> block, skip_bytes |-> skip, remain |-> r.length,
                position |-> 0, success |-> TRUE, limit |-> node, phase |-> phase]
      /\ buf' = IF r.op = "write" THEN new ELSE [k \in 1 .. r.length |-> Garbage]
      /\ content' = IF r.op = "read" THEN content
           ELSE [content EXCEPT ![d] = [a \in DOMAIN @ |->
                   IF a >= base /\ a < up /\ a < node.last THEN new[a - base + 1] ELSE @[a]]]
  BY DEF start
<1>3. d \in Drive /\ r.op \in {"read", "write"} /\ r.offset \in Nat /\ r.length \in Nat
  BY BlockAssumption, PartitionAssumption DEF BlockAssumption, PartitionAssumption
<1>4. /\ nodes[d] = probe_filesystems(d, Length(d)) /\ has_lba48[d] = Lba48(d)
  BY <1>1, <1>3 DEF TransferOK, BootOK
<1>5. node.first \in Nat /\ node.last \in Nat /\ node.last <= Sectors(d) * SECTOR_SIZE
  BY <1>1, <1>3, <1>4, PartitionAssumption DEF PartitionAssumption
<1>6. /\ base \in Nat /\ up <= Sectors(d) * SECTOR_SIZE /\ r.length > 0
      /\ Sectors(d) * SECTOR_SIZE \in Nat
  <2>1. Sectors(d) \in Nat
    BY <1>3, AtaAssumption DEF AtaAssumption
  <2>2. Sectors(d) * SECTOR_SIZE \in Nat
    BY <2>1, SectorsAreBytes
  <2>. QED
    BY <1>1, <1>3, <1>5, <2>2
<1>. HIDE DEF node, base
<1>7. /\ block \in Nat /\ skip \in 0 .. SECTOR_SIZE - 1
      /\ block * SECTOR_SIZE + skip = base
  BY <1>6, SectorSize, Division
<1>. HIDE DEF block, skip, up, new
<1>8. /\ phase \in {"head", "main", "tail"}
      /\ phase = "main" => r.length > SECTOR_SIZE /\ skip = 0
      /\ phase = "tail" => r.length <= SECTOR_SIZE /\ skip = 0
  <2>1. /\ r.length > SECTOR_SIZE => NextPhase(r.length, TRUE) = "main"
        /\ r.length <= SECTOR_SIZE => NextPhase(r.length, TRUE) = "tail"
    BY <1>3, <1>6, NextPhaseIs
  <2>2. skip > 0 => phase = "head"
    OBVIOUS
  <2>3. ~(skip > 0) => phase = NextPhase(r.length, TRUE) /\ skip = 0
    BY <1>7, SectorSize
  <2>4. r.length > SECTOR_SIZE \/ r.length <= SECTOR_SIZE
    BY <1>3, SectorSize
  <2>. HIDE DEF phase
  <2>. QED
    BY <2>1, <2>2, <2>3, <2>4
<1>. HIDE DEF phase
<1>9. BootOK'
  BY <1>1 DEF TransferOK, BootOK, Booted
<1>10. RequestOK'
  BY <1>1, <1>2, <1>3, <1>4, <1>6, <1>7, <1>8 DEF RequestOK, IoFields, Commanding, up
<1>11. Progress' /\ CommandOK'
  BY <1>1 DEF TransferOK, Progress, CommandOK
<1>12. DevicesOK'
  <2>1. DevicesOK
    BY <1>1 DEF TransferOK, Stuck
  <2>. QED
    BY <1>1, <2>1, StillQuiet DEF Selected
<1>13. new = [k \in 1 .. r.length |-> new[k]] /\ buf' = [k \in 1 .. r.length |-> buf'[k]]
  BY <1>2 DEF new, NewBytes
<1>14. /\ content = [e \in Drive |-> [a \in Bytes(e) |-> content[e][a]]]
       /\ \A e \in Drive : \A a \in Bytes(e) : disk[e][a] = content[e][a]
  BY <1>1 DEF TransferOK, BytesOK, ToWrite, Commanding
<1>15. /\ content' = [e \in Drive |-> [a \in Bytes(e) |-> content'[e][a]]]
       /\ \A e \in Drive : \A a \in Bytes(e) :
            content'[e][a] = IF r.op = "write" /\ e = d /\ a >= base /\ a < up
                             THEN new[a - base + 1] ELSE content[e][a]
  <2>1. CASE r.op = "read"
    BY <1>2, <1>14, <2>1
  <2>2. CASE r.op = "write"
    <3>1. DOMAIN content = Drive /\ \A e \in Drive : DOMAIN content[e] = Bytes(e)
      BY <1>14
    <3>2. content' = [content EXCEPT ![d] = [a \in Bytes(d) |->
             IF a >= base /\ a < up /\ a < node.last THEN new[a - base + 1] ELSE content[d][a]]]
      BY <1>2, <1>3, <2>2, <3>1
    <3>3. \A a \in Bytes(d) : a < up => a < node.last
      BY <1>1, <1>3, <1>5, <1>6 DEF Bytes, up
    <3>4. /\ DOMAIN content' = Drive
          /\ \A e \in Drive : e # d => content'[e] = content[e]
          /\ content'[d] = [a \in Bytes(d) |->
               IF a >= base /\ a < up /\ a < node.last THEN new[a - base + 1] ELSE content[d][a]]
      BY <1>3, <3>1, <3>2
    <3>5. content' = [e \in Drive |-> content'[e]]
      BY <3>2, <3>1
    <3>6. \A e \in Drive : content'[e] = [a \in Bytes(e) |-> content'[e][a]]
      BY <1>14, <3>4
    <3>. QED
      BY <2>2, <3>3, <3>4, <3>5, <3>6
  <2>. QED
    BY <1>3, <2>1, <2>2
<1>16. BytesOK'
  <2>1. UNCHANGED <<disk, pc>>
    BY <1>1
  <2>2. ASSUME NEW e \in Drive, NEW a \in Bytes(e), disk'[e][a] # content'[e][a]
        PROVE  ToWrite(e, a)'
    <3>1. r.op = "write" /\ e = d /\ a >= base /\ a < up
      BY <1>14, <1>15, <2>1, <2>2
    <3>. QED
      BY <1>1, <1>2, <1>6, <1>8, <2>1, <3>1 DEF ToWrite, Commanding, up
  <2>. QED
    BY <1>15, <2>1, <2>2 DEF TransferOK, BytesOK, Bytes
<1>17. BuffersOK'
  <2>1. io'.length = r.length /\ io'.position = 0 /\ io'.drive = d /\ io'.base = base
        /\ io'.op = r.op /\ io'.phase = phase
    BY <1>2
  <2>2. ASSUME NEW k \in 1 .. r.length, r.op = "write"
        PROVE  buf'[k] = content'[d][base + k - 1]
    <3>1. base + k - 1 \in Bytes(d) /\ base + k - 1 >= base /\ base + k - 1 < up
      BY <1>3, <1>6 DEF Bytes, up
    <3>2. content'[d][base + k - 1] = new[(base + k - 1) - base + 1]
      BY <1>3, <1>15, <2>2, <3>1
    <3>3. (base + k - 1) - base + 1 = k
      BY <1>6
    <3>. QED
      BY <1>2, <2>2, <3>2, <3>3
  <2>3. \A k \in 1 .. r.length :
          \/ r.op = "read" /\ k > 0
          \/ buf'[k] = content'[d][base + k - 1]
    BY <1>3, <2>2
  <2>. QED
    BY <1>8, <1>13, <2>1, <2>3 DEF BuffersOK
<1>. QED
  BY <1>9, <1>10, <1>11, <1>12, <1>16, <1>17 DEF TransferOK

LEMMA FinishGoesOn ==
  ASSUME DriveInv, TransferOK, finish
  PROVE  TransferOK'
<1>1. /\ io.phase = "finished" /\ io' = NoIo
      /\ UNCHANGED <<ataVars, nodes, booted, content>>
  BY DEF finish
<1>2. pc = "idle"
  BY <1>1, ThisCommand DEF Commanding
<1>3. BootOK' /\ RequestOK' /\ BuffersOK'
  BY <1>1 DEF TransferOK, BootOK, Booted, RequestOK, BuffersOK, NoIo, IoFields, Commanding,
              ataVars, hardware
<1>4. Progress' /\ CommandOK'
  BY <1>1, <1>2 DEF TransferOK, Progress, CommandOK, ataVars, hardware
<1>5. BytesOK'
  BY <1>1 DEF TransferOK, BytesOK, Bytes, ToWrite, Commanding, ataVars, hardware
<1>6. DevicesOK'
  <2>1. DevicesOK
    BY <1>1 DEF TransferOK, Stuck
  <2>. QED
    BY <1>1, <1>2, <2>1, StillQuiet DEF ataVars, hardware, Selected
<1>. QED
  BY <1>3, <1>4, <1>5, <1>6 DEF TransferOK

LEMMA CommandGoesOut ==
  ASSUME DriveInv, TransferOK, block_command
  PROVE  TransferOK'
<1>. DEFINE d == io.drive
            m == Masked(d, Wanted)
            b == io.base_block
            bytes == IF io.phase = "main" THEN SubSeq(buf, io.position + 1, Len(buf)) ELSE tmp
<1>1. /\ io.phase \in Commanding /\ pc = "idle"
      /\ run_command(d, IF Writes THEN "write" ELSE "read", b, bytes, Wanted)
      /\ UNCHANGED <<io, nodes, booted, has_lba48, content, buf, tmp, disk, device, port>>
  BY DEF block_command, Commanding, Writes, Wanted, bdVars, run_command, hardware
<1>2. /\ d \in Drive /\ has_lba48[d] = Lba48(d) /\ has_lba48[d] \in BOOLEAN
      /\ Wanted \in Nat /\ m \in Nat /\ b \in Nat /\ b < Sectors(d)
      /\ io.phase = "main" => m * SECTOR_SIZE <= io.remain
      /\ io.phase # "main" => m = 1
  BY <1>1, NextCommand DEF TransferOK, RequestOK, Commanding
<1>3. ~has_lba48[d] => m \div CountBase = 0 /\ b \div AddrBase = 0
  BY <1>2, InReach
<1>4. /\ pc' = "before_select" /\ data' = IF Writes THEN bytes ELSE <<>>
      /\ call' = [drive |-> d, op |-> IF Writes THEN "write" ELSE "read", base |-> b,
                  sectors |-> m, ext |-> (m \div CountBase # 0 \/ b \div AddrBase # 0),
                  i |-> 0, result |-> m]
  BY <1>1, <1>3 DEF run_command
<1>. HIDE DEF m
<1>5. Progress'
  BY <1>2, <1>4 DEF Progress, CallFields
<1>6. Masked(d, Wanted)' = m /\ (Writes' <=> Writes)
  BY <1>1 DEF Masked, Wanted, Writes, m
<1>7. CommandOK'
  <2>1. 0 * SECTOR_SIZE = 0
    BY SectorSize
  <2>2. ~Writes => data' = [j \in 1 .. call'.i * SECTOR_SIZE |->
                              disk'[d][call'.base * SECTOR_SIZE + j - 1]]
    BY <1>4, <2>1
  <2>3. ASSUME Writes, NEW j \in 1 .. m * SECTOR_SIZE
        PROVE  data'[j] = content[d][b * SECTOR_SIZE + j - 1]
    <3>1. /\ io.base \in Nat /\ io.length \in Nat /\ io.position \in Nat /\ io.remain \in Nat
          /\ io.position + io.remain = io.length /\ io.skip_bytes \in Nat
          /\ b * SECTOR_SIZE + io.skip_bytes = io.base + io.position
          /\ io.phase \in {"head_write", "tail_write"} => io.op = "write"
          /\ io.phase = "main" => io.skip_bytes = 0
      BY <1>1, SectorSize DEF TransferOK, RequestOK, Commanding
    <3>2. b * SECTOR_SIZE \in Nat /\ m * SECTOR_SIZE \in Nat /\ 1 * SECTOR_SIZE = SECTOR_SIZE
      BY <1>2, SectorsAreBytes
    <3>3. CASE io.phase = "main"
      <4>1. io.op = "write" /\ data' = SubSeq(buf, io.position + 1, Len(buf))
        BY <1>4, <2>3, <3>3 DEF Writes
      <4>2. /\ buf = [k \in 1 .. io.length |-> buf[k]]
            /\ \A k \in 1 .. io.length : buf[k] = content[d][io.base + k - 1]
        BY <1>1, <4>1 DEF TransferOK, BuffersOK, Commanding
      <4>3. io.position \in 0 .. io.length /\ j \in 1 .. io.length - io.position
        BY <1>2, <3>1, <3>2, <3>3
      <4>4. data'[j] = buf[io.position + j]
        BY <3>1, <4>1, <4>2, <4>3, Rest
      <4>5. io.position + j \in 1 .. io.length
            /\ io.base + (io.position + j) - 1 = b * SECTOR_SIZE + j - 1
        BY <3>1, <3>2, <3>3, <4>3
      <4>. QED
        BY <4>2, <4>4, <4>5
    <3>4. CASE io.phase # "main"
      <4>1. io.phase \in {"head_write", "tail_write"} /\ data' = tmp
        BY <1>4, <2>3, <3>4 DEF Writes
      <4>2. j \in 1 .. SECTOR_SIZE
        BY <1>2, <3>2, <3>4
      <4>. QED
        BY <4>1, <4>2 DEF TransferOK, BuffersOK
    <3>. QED
      BY <3>3, <3>4
  <2>. QED
    BY <1>1, <1>4, <1>6, <2>2, <2>3 DEF CommandOK
<1>8. BytesOK'
  <2>1. ASSUME NEW e \in Drive, NEW a \in Bytes(e), ToWrite(e, a)
        PROVE  ToWrite(e, a)'
    <3>1. /\ io.base + io.position <= a /\ a < io.base + io.length /\ e = d /\ io.op = "write"
      BY <2>1 DEF ToWrite
    <3>2. /\ io.base \in Nat /\ io.position \in Nat /\ io.skip_bytes \in Nat
          /\ b * SECTOR_SIZE + io.skip_bytes = io.base + io.position
      BY <1>1, SectorSize DEF TransferOK, RequestOK, Commanding
    <3>3. b * SECTOR_SIZE \in Nat /\ b + 0 = b /\ a \in Int
      BY <1>2, SectorsAreBytes DEF Bytes
    <3>4. b * SECTOR_SIZE <= a
      BY <3>1, <3>2, <3>3
    <3>5. (call'.base + call'.i) * SECTOR_SIZE <= a
      BY <1>4, <3>3, <3>4
    <3>. QED
      BY <1>1, <3>1, <3>5 DEF ToWrite
  <2>. QED
    BY <1>1, <2>1 DEF TransferOK, BytesOK, Bytes
<1>9. Stuck \/ DevicesOK'
  <2>1. CASE DevicesOK
    BY <1>1, <1>4, <2>1, StillQuiet DEF Selected
  <2>. QED
    BY <2>1 DEF TransferOK
<1>. QED
  BY <1>1, <1>5, <1>7, <1>8, <1>9, RequestStays

-----------------------------------------------------------------------------
(* A command has returned and the request goes on. *)

\* The first byte of the block a request has come to.
At == io.base_block * SECTOR_SIZE

LEMMA RequestFields ==
  ASSUME RequestOK, io.phase \in Commanding
  PROVE  /\ io.drive \in Drive /\ io.op \in {"read", "write"} /\ io.success = TRUE
         /\ io.base \in Nat /\ io.length \in Nat /\ io.position \in Nat /\ io.remain \in Nat
         /\ io.base_block \in Nat /\ io.skip_bytes \in Nat /\ io.skip_bytes < SECTOR_SIZE
         /\ io.position + io.remain = io.length /\ io.remain > 0
         /\ At \in Nat /\ At + io.skip_bytes = io.base + io.position
         /\ io.base + io.length <= Sectors(io.drive) * SECTOR_SIZE
         /\ Sectors(io.drive) * SECTOR_SIZE \in Nat
         /\ io.phase # "head" /\ io.phase # "head_write" => io.skip_bytes = 0
<1>1. io.drive \in Drive /\ io.base_block \in Nat
  BY DEF RequestOK, Commanding
<1>2. Sectors(io.drive) \in Nat
  BY <1>1, AtaAssumption DEF AtaAssumption
<1>3. At \in Nat /\ Sectors(io.drive) * SECTOR_SIZE \in Nat
  BY <1>1, <1>2, SectorsAreBytes DEF At
<1>4. io.skip_bytes \in 0 .. SECTOR_SIZE - 1
  BY DEF RequestOK, Commanding
<1>. QED
  BY <1>1, <1>3, <1>4, SectorSize DEF RequestOK, Commanding, At

LEMMA ReturnedWith ==
  ASSUME DriveInv, TransferOK, Returned
  PROVE  /\ io.phase \in Commanding /\ Success = TRUE
         /\ call.sectors \in Nat /\ call.result = call.sectors /\ call.result # -1
         /\ call.sectors * SECTOR_SIZE \in Nat
         /\ (io.base_block + call.sectors) * SECTOR_SIZE = At + call.sectors * SECTOR_SIZE
         /\ At + call.sectors * SECTOR_SIZE <= Sectors(io.drive) * SECTOR_SIZE
         /\ io.phase # "main" => call.sectors = 1 /\ call.sectors * SECTOR_SIZE = SECTOR_SIZE
         /\ io.phase = "main" => call.sectors * SECTOR_SIZE <= io.remain
<1>1. io.phase \in Commanding /\ call.drive = io.drive /\ pc = "returned"
  BY ThisCommand DEF Returned
<1>2. /\ call.base = io.base_block /\ call.sectors = Masked(io.drive, Wanted)
      /\ call.result = call.sectors
  BY <1>1 DEF TransferOK, CommandOK, Progress, Returned
<1>3. /\ call.sectors \in Nat /\ io.base_block \in Nat /\ Sectors(io.drive) \in Nat
      /\ io.base_block + call.sectors <= Sectors(io.drive)
  BY <1>1, <1>2, ThisCommand
<1>4. Success = TRUE
  <2>1. io.success = TRUE
    BY <1>1 DEF TransferOK, RequestOK, Commanding
  <2>. QED
    BY <1>2, <1>3, <2>1 DEF Success
<1>5. /\ call.sectors * SECTOR_SIZE \in Nat /\ 1 * SECTOR_SIZE = SECTOR_SIZE
      /\ (io.base_block + call.sectors) * SECTOR_SIZE = At + call.sectors * SECTOR_SIZE
  BY <1>3, SectorsAreBytes, SectorsAdd DEF At
<1>6. (io.base_block + call.sectors) * SECTOR_SIZE <= Sectors(io.drive) * SECTOR_SIZE
  BY <1>3, SectorOrder
<1>7. /\ io.phase # "main" => call.sectors = 1
      /\ io.phase = "main" => call.sectors * SECTOR_SIZE <= io.remain
  BY <1>1, <1>2, NextCommand DEF TransferOK
<1>. QED
  BY <1>1, <1>2, <1>3, <1>4, <1>5, <1>6, <1>7

\* A block read is what the bytes of the drive should be, where the request is
\* not about to write them.
LEMMA DataIs ==
  ASSUME DriveInv, TransferOK, Returned, ~Writes
  PROVE  /\ DOMAIN data = 1 .. call.sectors * SECTOR_SIZE
         /\ \A j \in 1 .. call.sectors * SECTOR_SIZE :
              \/ data[j] = content[io.drive][At + j - 1]
              \/ /\ io.op = "write"
                 /\ io.base + io.position <= At + j - 1 /\ At + j - 1 < io.base + io.length
<1>a. RequestOK /\ io.phase \in Commanding
  BY ReturnedWith DEF TransferOK
<1>1. /\ io.phase \in Commanding /\ io.drive \in Drive /\ At \in Nat
      /\ call.sectors * SECTOR_SIZE \in Nat /\ Sectors(io.drive) * SECTOR_SIZE \in Nat
      /\ At + call.sectors * SECTOR_SIZE <= Sectors(io.drive) * SECTOR_SIZE
  BY <1>a, ReturnedWith, RequestFields
<1>2. pc = "returned" /\ call.op # "identify"
  BY DEF Returned
<1>3. call.i = call.sectors
  BY <1>2 DEF TransferOK, Progress
<1>4. call.op = "read" /\ call.base = io.base_block
  BY <1>2 DEF TransferOK, CommandOK
<1>5. data = [j \in 1 .. call.sectors * SECTOR_SIZE |-> disk[io.drive][At + j - 1]]
  BY <1>2, <1>3, <1>4 DEF TransferOK, CommandOK, At
<1>6. ASSUME NEW j \in 1 .. call.sectors * SECTOR_SIZE
      PROVE  \/ data[j] = content[io.drive][At + j - 1]
             \/ /\ io.op = "write"
                /\ io.base + io.position <= At + j - 1 /\ At + j - 1 < io.base + io.length
  <2>1. At + j - 1 \in Bytes(io.drive)
    BY <1>1 DEF Bytes
  <2>. QED
    BY <1>1, <1>5, <2>1 DEF TransferOK, BytesOK, ToWrite
<1>. QED
  BY <1>5, <1>6

\* What a read copies into the caller's buffer.
LEMMA BufferGrows ==
  ASSUME DriveInv, TransferOK, Returned, ~Writes, io.op = "read", NEW n \in Nat,
         io.skip_bytes + n <= call.sectors * SECTOR_SIZE,
         buf' = memcpy(buf, io.position, data, io.skip_bytes, n)
  PROVE  /\ buf' = [k \in 1 .. io.length |-> buf'[k]]
         /\ \A k \in 1 .. io.length : k <= io.position + n =>
              buf'[k] = content[io.drive][io.base + k - 1]
<1>a. RequestOK /\ io.phase \in Commanding
  BY ReturnedWith DEF TransferOK
<1>1. /\ io.phase \in Commanding
      /\ io.base \in Nat /\ io.length \in Nat /\ io.position \in Nat
      /\ io.skip_bytes \in Nat /\ At \in Nat /\ At + io.skip_bytes = io.base + io.position
      /\ call.sectors * SECTOR_SIZE \in Nat
  BY <1>a, ReturnedWith, RequestFields
<1>2. /\ buf = [k \in 1 .. io.length |-> buf[k]]
      /\ \A k \in 1 .. io.length :
           k <= io.position => buf[k] = content[io.drive][io.base + k - 1]
  BY <1>1 DEF TransferOK, BuffersOK, Commanding
<1>3. buf' = [k \in 1 .. io.length |->
                IF k > io.position /\ k <= io.position + n
                THEN data[k - io.position + io.skip_bytes] ELSE buf[k]]
  <2>1. DOMAIN buf = 1 .. io.length
    BY <1>2
  <2>. QED
    BY <2>1 DEF memcpy
<1>4. ASSUME NEW k \in 1 .. io.length, k > io.position, k <= io.position + n
      PROVE  buf'[k] = content[io.drive][io.base + k - 1]
  <2>. DEFINE j == k - io.position + io.skip_bytes
  <2>1. j \in 1 .. call.sectors * SECTOR_SIZE /\ At + j - 1 = io.base + k - 1
    BY <1>1, <1>4
  <2>2. data[j] = content[io.drive][At + j - 1]
    BY <2>1, DataIs
  <2>. QED
    BY <1>3, <1>4, <2>1, <2>2
<1>5. ASSUME NEW k \in 1 .. io.length, k <= io.position
      PROVE  buf'[k] = content[io.drive][io.base + k - 1]
  <2>1. ~(k > io.position) /\ buf'[k] = buf[k]
    BY <1>1, <1>3, <1>5
  <2>. QED
    BY <1>2, <1>5, <2>1
<1>6. \A k \in 1 .. io.length : k > io.position \/ k <= io.position
  BY <1>1
<1>7. buf' = [k \in 1 .. io.length |-> buf'[k]]
  BY <1>3
<1>. QED
  BY <1>4, <1>5, <1>6, <1>7

\* What a write puts into the block it has read.
LEMMA BlockMerged ==
  ASSUME DriveInv, TransferOK, Returned, ~Writes, io.op = "write", io.phase # "main",
         NEW n \in Nat, n <= io.remain, io.skip_bytes + n <= SECTOR_SIZE,
         n = io.remain \/ io.skip_bytes + n = SECTOR_SIZE,
         tmp' = memcpy(data, io.skip_bytes, buf, io.position, n)
  PROVE  \A k \in 1 .. SECTOR_SIZE : tmp'[k] = content[io.drive][At + k - 1]
<1>a. RequestOK /\ io.phase \in Commanding
  BY ReturnedWith DEF TransferOK
<1>1. /\ io.phase \in Commanding
      /\ io.base \in Nat /\ io.length \in Nat /\ io.position \in Nat /\ io.remain \in Nat
      /\ io.position + io.remain = io.length
      /\ io.skip_bytes \in Nat /\ At \in Nat /\ At + io.skip_bytes = io.base + io.position
      /\ call.sectors * SECTOR_SIZE = SECTOR_SIZE
  BY <1>a, ReturnedWith, RequestFields
<1>2. \A k \in 1 .. io.length : buf[k] = content[io.drive][io.base + k - 1]
  BY <1>1 DEF TransferOK, BuffersOK, Commanding
<1>3. tmp' = [k \in 1 .. SECTOR_SIZE |->
                IF k > io.skip_bytes /\ k <= io.skip_bytes + n
                THEN buf[k - io.skip_bytes + io.position] ELSE data[k]]
  <2>1. DOMAIN data = 1 .. SECTOR_SIZE
    BY <1>1, DataIs
  <2>. QED
    BY <2>1 DEF memcpy
<1>4. ASSUME NEW k \in 1 .. SECTOR_SIZE PROVE tmp'[k] = content[io.drive][At + k - 1]
  <2>1. CASE k > io.skip_bytes /\ k <= io.skip_bytes + n
    <3>. DEFINE j == k - io.skip_bytes + io.position
    <3>1. j \in 1 .. io.length /\ io.base + j - 1 = At + k - 1
      BY <1>1, <2>1
    <3>. QED
      BY <1>2, <1>3, <2>1, <3>1
  <2>2. CASE ~(k > io.skip_bytes /\ k <= io.skip_bytes + n)
    <3>1. ~(io.base + io.position <= At + k - 1 /\ At + k - 1 < io.base + io.length)
      BY <1>1, <2>2, SectorSize
    <3>2. data[k] = content[io.drive][At + k - 1]
      BY <1>1, <3>1, DataIs
    <3>. QED
      BY <1>3, <2>2, <3>2
  <2>. QED
    BY <2>1, <2>2
<1>. QED
  BY <1>4

\* The bytes yet to be written after a command that wrote.
LEMMA YetToWrite ==
  ASSUME DriveInv, TransferOK, Returned, Writes, NEW d \in Drive, NEW a \in Bytes(d),
         disk[d][a] # content[d][a]
  PROVE  /\ d = io.drive /\ io.op = "write" /\ a \in Nat
         /\ At + call.sectors * SECTOR_SIZE <= a /\ a < io.base + io.length
<1>1. ToWrite(d, a)
  BY DEF TransferOK, BytesOK
<1>2. /\ call.op = "write" /\ call.base = io.base_block /\ call.i = call.sectors
      /\ pc = "returned"
  BY DEF TransferOK, CommandOK, Progress, Returned
<1>3. (io.base_block + call.sectors) * SECTOR_SIZE <= a
  BY <1>1, <1>2 DEF ToWrite
<1>. QED
  BY <1>1, <1>3, ReturnedWith DEF ToWrite, Bytes

\* The next part of the request, after n bytes in m blocks.
LEMMA RequestAdvances ==
  ASSUME DriveInv, TransferOK, Returned, NEW n \in Nat, NEW m \in Nat,
         n <= io.remain, n = io.remain \/ At + m * SECTOR_SIZE = io.base + io.position + n,
         io' = Advanced(n, m), UNCHANGED has_lba48
  PROVE  /\ RequestOK'
         /\ io'.op = io.op /\ io'.drive = io.drive /\ io'.base = io.base
         /\ io'.length = io.length /\ io'.position = io.position + n
         /\ io'.remain = io.remain - n
         /\ io'.phase \in {"main", "tail", "finished"}
         /\ io'.phase = "finished" <=> n = io.remain
         /\ io.remain - n > SECTOR_SIZE => io'.phase = "main"
<1>a. RequestOK /\ io.phase \in Commanding
  BY ReturnedWith DEF TransferOK
<1>1. /\ io.phase \in Commanding /\ Success = TRUE
      /\ io.base \in Nat /\ io.length \in Nat /\ io.position \in Nat /\ io.remain \in Nat
      /\ io.position + io.remain = io.length /\ io.base_block \in Nat /\ At \in Nat
      /\ io.op \in {"read", "write"}
  BY <1>a, ReturnedWith, RequestFields
<1>2. IoFields \subseteq DOMAIN io
  BY DEF TransferOK, RequestOK
<1>. DEFINE next == NextPhase(io.remain - n, TRUE)
<1>3. /\ io.remain - n \in Nat
      /\ io.remain - n > SECTOR_SIZE => next = "main"
      /\ io.remain - n <= SECTOR_SIZE /\ io.remain - n > 0 => next = "tail"
      /\ io.remain - n = 0 => next = "finished"
  <2>1. io.remain - n \in Nat
    BY <1>1
  <2>. QED
    BY <2>1, NextPhaseIs
<1>. HIDE DEF next
<1>4. /\ io'.op = io.op /\ io'.drive = io.drive /\ io'.base = io.base
      /\ io'.length = io.length /\ io'.position = io.position + n
      /\ io'.remain = io.remain - n /\ io'.base_block = io.base_block + m
      /\ io'.skip_bytes = 0 /\ io'.success = TRUE /\ io'.phase = next
      /\ IoFields \subseteq DOMAIN io'
  BY <1>1, <1>2 DEF Advanced, IoFields, next
<1>5. /\ (io.base_block + m) * SECTOR_SIZE = At + m * SECTOR_SIZE
      /\ 0 \in 0 .. SECTOR_SIZE - 1 /\ m * SECTOR_SIZE \in Nat
  BY <1>1, SectorsAreBytes, SectorsAdd, SectorSize DEF At
<1>6. /\ next \in {"main", "tail", "finished"} /\ (next = "finished" <=> n = io.remain)
      /\ next = "main" => io.remain - n > SECTOR_SIZE
      /\ next = "tail" => io.remain - n <= SECTOR_SIZE
  BY <1>1, <1>3, SectorSize
<1>7. n # io.remain => /\ (io.base_block + m) * SECTOR_SIZE + 0 = io.base + (io.position + n)
                       /\ (io.position + n) + (io.remain - n) = io.length
                       /\ io.remain - n > 0
  BY <1>1, <1>5
<1>8. io.drive \in Drive /\ has_lba48[io.drive] = Lba48(io.drive)
      /\ io.base + io.length <= Sectors(io.drive) * SECTOR_SIZE
  BY <1>1 DEF TransferOK, RequestOK, Commanding
<1>9. RequestOK'
  BY <1>1, <1>3, <1>4, <1>5, <1>6, <1>7, <1>8 DEF RequestOK, Commanding
<1>. QED
  BY <1>3, <1>4, <1>6, <1>9

\* The part of the first block that belongs to the request.
LEMMA HeadLengthIs ==
  ASSUME RequestOK, io.phase \in Commanding
  PROVE  /\ HeadLength \in Nat /\ HeadLength <= io.remain
         /\ io.skip_bytes + HeadLength <= SECTOR_SIZE
         /\ HeadLength = io.remain \/ io.skip_bytes + HeadLength = SECTOR_SIZE
<1>1. io.remain \in Nat /\ io.skip_bytes \in Nat /\ io.skip_bytes < SECTOR_SIZE
  BY RequestFields
<1>. QED
  BY <1>1, SectorSize DEF HeadLength

\* A step of a request that keeps where it is and what it has.
LEMMA PhaseChanges ==
  ASSUME RequestOK, io.phase \in Commanding, UNCHANGED has_lba48,
         NEW phase \in {"head_write", "tail_write", "finished"},
         phase = "head_write" => io.op = "write",
         phase = "tail_write" => io.op = "write" /\ io.phase = "tail",
         io' = [io EXCEPT !.phase = phase, !.success = TRUE]
  PROVE  /\ RequestOK'
         /\ io'.op = io.op /\ io'.drive = io.drive /\ io'.base = io.base
         /\ io'.length = io.length /\ io'.position = io.position
         /\ io'.base_block = io.base_block /\ io'.phase = phase
<1>1. IoFields \subseteq DOMAIN io
  BY DEF RequestOK
<1>2. /\ io'.op = io.op /\ io'.drive = io.drive /\ io'.base = io.base
      /\ io'.length = io.length /\ io'.position = io.position /\ io'.remain = io.remain
      /\ io'.base_block = io.base_block /\ io'.skip_bytes = io.skip_bytes
      /\ io'.phase = phase /\ io'.success = TRUE /\ IoFields \subseteq DOMAIN io'
  BY <1>1 DEF IoFields
<1>. QED
  BY <1>2 DEF RequestOK, Commanding

LEMMA HeadGoesOn ==
  ASSUME DriveInv, TransferOK, head
  PROVE  TransferOK'
<1>1. Returned /\ io.phase = "head" /\ back /\ UNCHANGED <<has_lba48, content>>
  BY DEF head, back
<1>2. RequestOK /\ io.phase \in Commanding /\ ~Writes /\ ~Stuck
  BY <1>1 DEF TransferOK, Commanding, Writes, Stuck
<1>3. /\ call.sectors * SECTOR_SIZE = SECTOR_SIZE /\ BlockRead = data /\ Success = TRUE
  BY <1>1, ReturnedWith DEF BlockRead
<1>. DEFINE n == HeadLength
<1>4. /\ n \in Nat /\ n <= io.remain /\ io.skip_bytes + n <= SECTOR_SIZE
      /\ n = io.remain \/ io.skip_bytes + n = SECTOR_SIZE
  BY <1>2, HeadLengthIs
<1>. HIDE DEF n
<1>5. /\ io.base \in Nat /\ io.position \in Nat /\ io.remain \in Nat /\ io.length \in Nat
      /\ io.position + io.remain = io.length
      /\ At \in Nat /\ io.skip_bytes \in Nat /\ At + io.skip_bytes = io.base + io.position
      /\ 1 * SECTOR_SIZE = SECTOR_SIZE
  <2>1. 1 * SECTOR_SIZE = SECTOR_SIZE
    BY SectorSize
  <2>. QED
    BY <1>2, <2>1, RequestFields
<1>6. CASE io.op = "read"
  <2>1. /\ buf' = memcpy(buf, io.position, data, io.skip_bytes, n)
        /\ io' = Advanced(n, 1)
    BY <1>1, <1>3, <1>6 DEF head, n
  <2>2. n = io.remain \/ At + 1 * SECTOR_SIZE = io.base + io.position + n
    BY <1>4, <1>5, SectorSize
  <2>3. /\ RequestOK' /\ io'.op = "read" /\ io'.drive = io.drive /\ io'.base = io.base
        /\ io'.length = io.length /\ io'.position = io.position + n
        /\ io'.phase \in {"main", "tail", "finished"} /\ (io'.phase = "finished" => n = io.remain)
    BY <1>1, <1>4, <1>6, <2>1, <2>2, RequestAdvances
  <2>4. /\ buf' = [k \in 1 .. io.length |-> buf'[k]]
        /\ \A k \in 1 .. io.length : k <= io.position + n =>
             buf'[k] = content[io.drive][io.base + k - 1]
    BY <1>1, <1>2, <1>3, <1>4, <1>6, <2>1, BufferGrows
  <2>5. \A k \in 1 .. io.length :
          k <= io.position + n \/ (io'.phase # "finished" /\ k > io.position + n)
    BY <1>4, <1>5, <2>3
  <2>6. BuffersOK'
    BY <1>1, <2>3, <2>4, <2>5 DEF BuffersOK
  <2>7. \A d \in Drive : \A a \in Bytes(d) : disk[d][a] = content[d][a]
    BY <1>6, NothingToWrite DEF TransferOK, BytesOK
  <2>. QED
    BY <1>1, <1>2, <2>3, <2>6, <2>7, ReturnKeeps
<1>7. CASE io.op = "write"
  <2>1. /\ tmp' = memcpy(data, io.skip_bytes, buf, io.position, n)
        /\ io' = [io EXCEPT !.phase = "head_write", !.success = TRUE] /\ UNCHANGED buf
    BY <1>1, <1>3, <1>7 DEF head, n
  <2>2. /\ RequestOK' /\ io'.op = "write" /\ io'.drive = io.drive /\ io'.base = io.base
        /\ io'.length = io.length /\ io'.position = io.position
        /\ io'.base_block = io.base_block /\ io'.phase = "head_write"
    BY <1>1, <1>2, <1>7, <2>1, PhaseChanges
  <2>3. \A k \in 1 .. SECTOR_SIZE : tmp'[k] = content[io.drive][At + k - 1]
    BY <1>1, <1>2, <1>3, <1>4, <1>7, <2>1, BlockMerged
  <2>4. BuffersOK'
    BY <1>1, <1>2, <1>7, <2>1, <2>2, <2>3 DEF TransferOK, BuffersOK, At, Commanding
  <2>5. \A d, a : ToWrite(d, a) => ToWrite(d, a)'
    BY <1>1, <2>2 DEF ToWrite, back, Commanding
  <2>. QED
    BY <1>1, <1>2, <2>2, <2>4, <2>5, ReturnKeeps DEF TransferOK, BytesOK
<1>. QED
  BY <1>2, <1>6, <1>7, RequestFields

\* A block has been written, or the whole blocks have: the request goes on
\* behind them.
LEMMA WrittenGoesOn ==
  ASSUME DriveInv, TransferOK, Returned, Writes, back, NEW n \in Nat, NEW m \in Nat,
         n <= io.remain, n = io.remain \/ At + m * SECTOR_SIZE = io.base + io.position + n,
         m = call.sectors, io.base + io.position + n <= At + m * SECTOR_SIZE,
         io' = Advanced(n, m), UNCHANGED buf, Stuck => Stuck'
  PROVE  TransferOK'
<1>1. io.phase \in Commanding /\ RequestOK /\ UNCHANGED <<has_lba48, content>> /\ pc' = "idle"
  BY ReturnedWith DEF TransferOK, back
<1>2. io.op = "write"
  BY <1>1 DEF TransferOK, RequestOK, Writes
<1>3. /\ RequestOK' /\ io'.op = "write" /\ io'.drive = io.drive /\ io'.base = io.base
      /\ io'.length = io.length /\ io'.position = io.position + n
      /\ io'.phase \in {"main", "tail", "finished"} /\ (io'.phase = "finished" => n = io.remain)
  BY <1>1, <1>2, RequestAdvances
<1>4. BuffersOK'
  BY <1>1, <1>2, <1>3 DEF TransferOK, BuffersOK, Commanding
<1>5. ASSUME NEW d \in Drive, NEW a \in Bytes(d), disk[d][a] # content[d][a]
      PROVE  ToWrite(d, a)'
  <2>1. /\ d = io.drive /\ a \in Nat /\ At + m * SECTOR_SIZE <= a /\ a < io.base + io.length
    BY <1>5, YetToWrite
  <2>2. /\ io.base \in Nat /\ io.position \in Nat /\ io.remain \in Nat /\ io.length \in Nat
        /\ io.position + io.remain = io.length /\ At \in Nat /\ m * SECTOR_SIZE \in Nat
    BY <1>1, RequestFields, SectorsAreBytes
  <2>3. io.base + (io.position + n) <= a /\ n # io.remain
    BY <2>1, <2>2
  <2>. QED
    BY <1>1, <1>3, <2>1, <2>3 DEF ToWrite, Commanding
<1>. QED
  BY <1>1, <1>3, <1>4, <1>5, ReturnKeeps

LEMMA HeadWriteGoesOn ==
  ASSUME DriveInv, TransferOK, head_write
  PROVE  TransferOK'
<1>1. /\ Returned /\ io.phase = "head_write" /\ back /\ UNCHANGED buf
      /\ io' = Advanced(HeadLength, 1)
  BY DEF head_write
<1>2. RequestOK /\ io.phase \in Commanding /\ Writes /\ ~Stuck
  BY <1>1 DEF TransferOK, Commanding, Writes, Stuck
<1>3. call.sectors = 1 /\ 1 * SECTOR_SIZE = SECTOR_SIZE
  BY <1>1, ReturnedWith, SectorSize
<1>. DEFINE n == HeadLength
<1>4. /\ n \in Nat /\ n <= io.remain /\ io.skip_bytes + n <= SECTOR_SIZE
      /\ n = io.remain \/ io.skip_bytes + n = SECTOR_SIZE
  BY <1>2, HeadLengthIs
<1>5. /\ io.base \in Nat /\ io.position \in Nat /\ io.remain \in Nat
      /\ At \in Nat /\ io.skip_bytes \in Nat /\ At + io.skip_bytes = io.base + io.position
  BY <1>2, RequestFields
<1>. HIDE DEF n
<1>6. /\ n = io.remain \/ At + 1 * SECTOR_SIZE = io.base + io.position + n
      /\ io.base + io.position + n <= At + 1 * SECTOR_SIZE
  BY <1>3, <1>4, <1>5, SectorSize
<1>7. io' = Advanced(n, 1)
  BY <1>1 DEF n
<1>. QED
  BY <1>1, <1>2, <1>3, <1>4, <1>6, <1>7, WrittenGoesOn

LEMMA MainGoesOn ==
  ASSUME DriveInv, TransferOK, main
  PROVE  TransferOK'
<1>. DEFINE m == call.sectors
            n == m * SECTOR_SIZE
<1>1. Returned /\ io.phase = "main" /\ back /\ UNCHANGED <<has_lba48, content>>
  BY DEF main, back
<1>2. RequestOK /\ io.phase \in Commanding /\ (Writes <=> io.op = "write")
  BY <1>1 DEF TransferOK, Commanding, Writes
<1>3. /\ m \in Nat /\ n \in Nat /\ n <= io.remain /\ call.result = m /\ m # -1
      /\ Success = TRUE
  BY <1>1, ReturnedWith
<1>4. /\ io' = Advanced(n, m)
      /\ io.op = "read" => buf' = memcpy(buf, io.position, data, 0, n)
      /\ io.op = "write" => UNCHANGED buf
  BY <1>1, <1>3 DEF main
<1>5. /\ io.base \in Nat /\ io.position \in Nat /\ io.remain \in Nat /\ io.length \in Nat
      /\ io.position + io.remain = io.length
      /\ At \in Nat /\ io.skip_bytes = 0 /\ At + io.skip_bytes = io.base + io.position
  BY <1>1, <1>2, RequestFields
<1>. HIDE DEF m
<1>6. At + n = io.base + io.position + n /\ 0 + n <= n
  BY <1>3, <1>5
<1>7. /\ RequestOK' /\ io'.op = io.op /\ io'.drive = io.drive /\ io'.base = io.base
      /\ io'.length = io.length /\ io'.position = io.position + n
      /\ io'.remain = io.remain - n
      /\ io'.phase \in {"main", "tail", "finished"} /\ (io'.phase = "finished" => n = io.remain)
      /\ io.remain - n > SECTOR_SIZE => io'.phase = "main"
  BY <1>1, <1>3, <1>4, <1>6, RequestAdvances
<1>8. Stuck => Stuck'
  <2>1. SUFFICES ASSUME Stuck PROVE Stuck'
    OBVIOUS
  <2>2. m = 0 /\ n = 0
    BY <1>1, <2>1, ThisCommand, SectorSize DEF Returned, m
  <2>3. io.remain > SECTOR_SIZE
    BY <1>1, <1>2 DEF RequestOK, Commanding
  <2>4. io.remain - n = io.remain /\ io'.remain = io.remain /\ io'.phase = "main"
    BY <1>5, <1>7, <2>2, <2>3
  <2>5. Wanted' = Wanted
    BY <1>1, <2>4 DEF Wanted
  <2>6. Masked(io.drive, Wanted)' = Masked(io.drive, Wanted)
    BY <1>1, <1>7, <2>5 DEF Masked
  <2>. QED
    BY <2>1, <2>4, <2>6 DEF Stuck
<1>9. CASE io.op = "read"
  <2>1. /\ buf' = [k \in 1 .. io.length |-> buf'[k]]
        /\ \A k \in 1 .. io.length : k <= io.position + n =>
             buf'[k] = content[io.drive][io.base + k - 1]
    BY <1>1, <1>2, <1>3, <1>4, <1>5, <1>6, <1>9, BufferGrows DEF m
  <2>2. \A k \in 1 .. io.length :
          k <= io.position + n \/ (io'.phase # "finished" /\ k > io.position + n)
    BY <1>3, <1>5, <1>7
  <2>3. BuffersOK'
    BY <1>1, <1>7, <1>9, <2>1, <2>2 DEF BuffersOK
  <2>4. \A d \in Drive : \A a \in Bytes(d) : disk[d][a] = content[d][a]
    BY <1>9, NothingToWrite DEF TransferOK, BytesOK
  <2>. QED
    BY <1>1, <1>2, <1>7, <1>8, <2>3, <2>4, ReturnKeeps
<1>10. CASE io.op = "write"
  <2>1. io.base + io.position + n <= At + m * SECTOR_SIZE
    BY <1>3, <1>5, <1>6
  <2>. QED
    BY <1>1, <1>2, <1>3, <1>4, <1>6, <1>8, <1>10, <2>1, WrittenGoesOn DEF m
<1>. QED
  BY <1>2, <1>9, <1>10, RequestFields

LEMMA TailGoesOn ==
  ASSUME DriveInv, TransferOK, tail
  PROVE  TransferOK'
<1>1. Returned /\ io.phase = "tail" /\ back /\ UNCHANGED <<has_lba48, content>>
  BY DEF tail, back
<1>2. RequestOK /\ io.phase \in Commanding /\ ~Writes /\ ~Stuck
  BY <1>1 DEF TransferOK, Commanding, Writes, Stuck
<1>3. call.sectors * SECTOR_SIZE = SECTOR_SIZE /\ BlockRead = data /\ Success = TRUE
  BY <1>1, ReturnedWith DEF BlockRead
<1>4. /\ io.base \in Nat /\ io.position \in Nat /\ io.remain \in Nat /\ io.length \in Nat
      /\ io.position + io.remain = io.length /\ io.skip_bytes = 0
      /\ io.remain <= SECTOR_SIZE
  BY <1>1, <1>2, RequestFields DEF RequestOK
<1>5. 0 + io.remain <= SECTOR_SIZE /\ io.remain <= io.remain
  BY <1>4
<1>6. CASE io.op = "read"
  <2>1. /\ buf' = memcpy(buf, io.position, data, io.skip_bytes, io.remain)
        /\ io' = [io EXCEPT !.phase = "finished", !.success = TRUE]
    BY <1>1, <1>3, <1>6 DEF tail
  <2>2. /\ RequestOK' /\ io'.op = "read" /\ io'.drive = io.drive /\ io'.base = io.base
        /\ io'.length = io.length /\ io'.phase = "finished"
    BY <1>1, <1>2, <1>6, <2>1, PhaseChanges
  <2>3. /\ buf' = [k \in 1 .. io.length |-> buf'[k]]
        /\ \A k \in 1 .. io.length : k <= io.position + io.remain =>
             buf'[k] = content[io.drive][io.base + k - 1]
    BY <1>1, <1>2, <1>3, <1>4, <1>5, <1>6, <2>1, BufferGrows
  <2>4. \A k \in 1 .. io.length : k <= io.position + io.remain
    BY <1>4
  <2>5. BuffersOK'
    BY <1>1, <2>2, <2>3, <2>4 DEF BuffersOK
  <2>6. \A d \in Drive : \A a \in Bytes(d) : disk[d][a] = content[d][a]
    BY <1>6, NothingToWrite DEF TransferOK, BytesOK
  <2>. QED
    BY <1>1, <1>2, <2>2, <2>5, <2>6, ReturnKeeps
<1>7. CASE io.op = "write"
  <2>1. /\ tmp' = memcpy(data, io.skip_bytes, buf, io.position, io.remain)
        /\ io' = [io EXCEPT !.phase = "tail_write", !.success = TRUE] /\ UNCHANGED buf
    BY <1>1, <1>3, <1>4, <1>7 DEF tail
  <2>2. /\ RequestOK' /\ io'.op = "write" /\ io'.drive = io.drive /\ io'.base = io.base
        /\ io'.length = io.length /\ io'.position = io.position
        /\ io'.base_block = io.base_block /\ io'.phase = "tail_write"
    BY <1>1, <1>2, <1>7, <2>1, PhaseChanges
  <2>3. \A k \in 1 .. SECTOR_SIZE : tmp'[k] = content[io.drive][At + k - 1]
    BY <1>1, <1>2, <1>3, <1>4, <1>5, <1>7, <2>1, BlockMerged
  <2>4. BuffersOK'
    BY <1>1, <1>2, <1>7, <2>1, <2>2, <2>3 DEF TransferOK, BuffersOK, At, Commanding
  <2>5. \A d, a : ToWrite(d, a) => ToWrite(d, a)'
    BY <1>1, <2>2 DEF ToWrite, back, Commanding
  <2>. QED
    BY <1>1, <1>2, <2>2, <2>4, <2>5, ReturnKeeps DEF TransferOK, BytesOK
<1>. QED
  BY <1>2, <1>6, <1>7, RequestFields

LEMMA TailWriteGoesOn ==
  ASSUME DriveInv, TransferOK, tail_write
  PROVE  TransferOK'
<1>1. /\ Returned /\ io.phase = "tail_write" /\ back
      /\ UNCHANGED <<buf, has_lba48, content>>
  BY DEF tail_write, back
<1>2. RequestOK /\ io.phase \in Commanding /\ Writes /\ ~Stuck /\ io.op = "write"
  BY <1>1 DEF TransferOK, Commanding, Writes, Stuck, RequestOK
<1>3. io' = [io EXCEPT !.phase = "finished", !.success = TRUE]
  BY <1>1, ReturnedWith DEF tail_write
<1>4. /\ RequestOK' /\ io'.op = "write" /\ io'.drive = io.drive /\ io'.base = io.base
      /\ io'.length = io.length /\ io'.phase = "finished"
  BY <1>1, <1>2, <1>3, PhaseChanges
<1>5. BuffersOK'
  BY <1>1, <1>2, <1>4 DEF TransferOK, BuffersOK, Commanding
<1>6. /\ io.base \in Nat /\ io.position \in Nat /\ io.remain \in Nat /\ io.length \in Nat
      /\ io.position + io.remain = io.length /\ io.skip_bytes = 0
      /\ io.remain <= SECTOR_SIZE /\ At \in Nat /\ At + io.skip_bytes = io.base + io.position
  BY <1>1, <1>2, RequestFields DEF RequestOK
<1>7. ASSUME NEW d \in Drive, NEW a \in Bytes(d), disk[d][a] # content[d][a]
      PROVE  FALSE
  <2>1. At + call.sectors * SECTOR_SIZE <= a /\ a < io.base + io.length /\ a \in Nat
    BY <1>1, <1>2, <1>7, YetToWrite
  <2>2. call.sectors * SECTOR_SIZE = SECTOR_SIZE
    BY <1>1, ReturnedWith
  <2>. QED
    BY <1>6, <2>1, <2>2, SectorSize
<1>. QED
  BY <1>1, <1>2, <1>4, <1>5, <1>7, ReturnKeeps

-----------------------------------------------------------------------------
(* The steps of run_command and of the drives, while the drives answer in time. *)

\* A wait that neither is late nor follows a fault ends because nothing it looks
\* at is set, or because no drive is busy.
LEMMA WaitEnds ==
  ASSUME NEW mask, wait_while_status(mask), faults = 0, faults' = 0
  PROVE  ~Waits(mask) \/ \A d \in Answering(current_bus) : ~device[d].busy
BY AtaAssumption DEF wait_while_status, AtaAssumption

\* The drive a command is for is there to answer.
LEMMA ItsDriveAnswers ==
  ASSUME DriveInv, DevicesOK, pc \in Selected
  PROVE  /\ current_bus = Bus(call.drive) /\ call.drive \in Drive
         /\ Answering(current_bus) = {call.drive} /\ current_bus \in Buses
<1>1. Answers(call.drive) /\ call.drive \in Drive
  BY DEF DevicesOK, DriveInv, CallOfDrive, Selected
<1>. QED
  BY <1>1, OneAnswers

\* Between the commands all drives rest, so the selector is taken.
LEMMA SelectGoesOn ==
  ASSUME DriveInv, TransferOK, UNCHANGED bdVars,
         wait_before_select \/ select_drive \/ wait_after_select
  PROVE  TransferOK'
<1>1. /\ pc \in {"before_select", "select", "after_select"}
      /\ pc' \in {"select", "after_select", "position"}
      /\ UNCHANGED <<bdVars, has_lba48, call, data, disk, device, port>>
  BY DEF wait_before_select, select_drive, wait_after_select, hardware
<1>2. Progress'
  BY <1>1 DEF TransferOK, Progress, Selected
<1>3. ASSUME DevicesOK PROVE DevicesOK'
  <2>1. \A d \in Drive : Resting(d)
    BY <1>1, <1>3 DEF DevicesOK, Quiet, Resting
  <2>2. pc' \in Selected \cup {"returned"} => Answers(call.drive)'
    <3>1. CASE wait_before_select
      BY <3>1 DEF wait_before_select, Selected
    <3>2. CASE select_drive
      <4>1. /\ call.drive \in Drive /\ DOMAIN selected = Buses
            /\ Bus(call.drive) \in Buses
        BY <1>1 DEF DriveInv, CallOfDrive, Buses
      <4>2. Taken(Bus(call.drive)) = {TRUE}
        BY <2>1, AllRest
      <4>3. /\ current_bus' = Bus(call.drive)
            /\ selected' = [selected EXCEPT ![Bus(call.drive)] = Master(call.drive)]
        BY <3>2, <4>2 DEF select_drive, Select
      <4>. QED
        BY <1>1, <4>1, <4>3 DEF Answers
    <3>3. CASE wait_after_select
      <4>1. pc = "after_select" /\ UNCHANGED <<selected, current_bus>>
        BY <3>3 DEF wait_after_select, hardware
      <4>. QED
        BY <1>1, <1>3, <4>1 DEF DevicesOK, Answers, Selected
    <3>. QED
      BY <3>1, <3>2, <3>3
  <2>. QED
    BY <1>1, <1>3, <2>2, StillQuiet
<1>. QED
  BY <1>1, <1>2, <1>3, PlaceChanges DEF TransferOK

\* The ports take the count and the address, in one write or in two.
LEMMA PositionGoesOn ==
  ASSUME DriveInv, TransferOK, UNCHANGED bdVars, write_position
  PROVE  TransferOK'
<1>1. /\ pc = "position" /\ pc' = "command"
      /\ UNCHANGED <<bdVars, has_lba48, call, data, disk, device>>
  BY DEF write_position
<1>2. Progress'
  BY <1>1 DEF TransferOK, Progress, Selected
<1>3. ASSUME DevicesOK, ~Stuck PROVE DevicesOK'
  <2>. DEFINE n == call.sectors
              b == call.base
              d == call.drive
              p == port[current_bus]
  <2>1. /\ current_bus = Bus(d) /\ d \in Drive /\ current_bus \in Buses
        /\ Answering(current_bus) = {d}
    BY <1>1, <1>3, ItsDriveAnswers DEF Selected
  <2>2. DOMAIN port = Buses /\ \A e \in Drive : Quiet(e) /\ DeviceFields \subseteq DOMAIN device[e]
    BY <1>1, <1>3 DEF DevicesOK
  <2>3. Taken(current_bus) = {TRUE}
    BY <2>2, AllRest DEF Quiet, Resting
  <2>a. Answers(d)'
    BY <1>1, <1>3 DEF DevicesOK, Answers, Selected, write_position
  <2>4. CASE call.op = "identify"
    <3>1. port' = port
      BY <2>4 DEF write_position
    <3>2. \A e \in Drive : Quiet(e)'
      BY <1>1, <2>2 DEF Quiet
    <3>. QED
      BY <1>1, <1>3, <2>2, <2>4, <2>a, <3>1, <3>2 DEF DevicesOK, Buses
  <2>5. CASE call.op # "identify"
    <3>1. port' = [port EXCEPT ![current_bus] =
             [count |-> Written(p.count, (n \div CountBase) % CountBase, n % CountBase),
              address |-> Written(p.address, (b \div AddrBase) % AddrBase, b % AddrBase)]]
      BY <2>3, <2>5 DEF write_position
    <3>2. port'[Bus(d)] =
             [count |-> Written(p.count, (n \div CountBase) % CountBase, n % CountBase),
              address |-> Written(p.address, (b \div AddrBase) % AddrBase, b % AddrBase)]
      BY <2>1, <2>2, <3>1
    <3>3. /\ call.ext = (n \div CountBase # 0 \/ b \div AddrBase # 0) /\ d = io.drive
          /\ n = Masked(d, Wanted) /\ has_lba48[d] = Lba48(d)
          /\ Wanted \in Nat /\ b \in Nat /\ n \in Nat /\ n # 0 /\ b < Sectors(d)
          /\ has_lba48[d] \in BOOLEAN
      <4>1. io.phase \in Commanding /\ d = io.drive /\ n # 0 /\ n \in Nat /\ b \in Nat
        BY <1>1, <1>3, <2>5, ThisCommand
      <4>2. /\ call.ext = (n \div CountBase # 0 \/ b \div AddrBase # 0)
            /\ n = Masked(d, Wanted) /\ b = io.base_block
        BY <1>1, <2>5, <4>1 DEF TransferOK, CommandOK
      <4>3. has_lba48[d] = Lba48(d)
        BY <4>1 DEF TransferOK, RequestOK, Commanding
      <4>. QED
        BY <4>1, <4>2, <4>3, NextCommand DEF TransferOK
    <3>4. n < CountBase * CountBase /\ b < AddrBase * AddrBase
      BY <2>1, <3>3, MaskedFits, InReach
    <3>. DEFINE hi == n \div CountBase
                lo == n % CountBase
                top == b \div AddrBase
                low == b % AddrBase
    <3>5. CountBase \in Nat \ {0} /\ AddrBase \in Nat \ {0}
      BY AtaAssumption DEF AtaAssumption
    <3>6. /\ hi \in Nat /\ lo \in 0 .. CountBase - 1 /\ n = hi * CountBase + lo
          /\ top \in Nat /\ low \in 0 .. AddrBase - 1 /\ b = top * AddrBase + low
      BY <3>3, <3>5, Division
    <3>7. \A w \in Nat \ {0} : \A q \in Nat : \A r \in 0 .. w - 1 :
            q * w + r < w * w => q < w
      <4>1. SUFFICES ASSUME NEW w \in Nat \ {0}, NEW q \in Nat, NEW r \in 0 .. w - 1,
                            q >= w
                     PROVE  ~(q * w + r < w * w)
        OBVIOUS
      <4>2. PICK z \in Nat : q = w + z
        <5>1. q - w \in Nat /\ q = w + (q - w)
          BY <4>1
        <5>. QED
          BY <5>1
      <4>3. (w + z) * w = w * w + z * w /\ z * w \in Nat /\ w * w \in Nat
        OBVIOUS
      <4>. QED
        BY <4>1, <4>2, <4>3
    <3>. HIDE DEF hi, lo, top, low, n, b
    <3>8. hi < CountBase /\ top < AddrBase
      BY <3>4, <3>5, <3>6, <3>7
    <3>9. \A w \in Nat \ {0} : \A q \in Nat : q < w => q % w = q
      OBVIOUS
    <3>10. hi % CountBase = hi /\ top % AddrBase = top
      BY <3>5, <3>6, <3>8, <3>9
    <3>11. port'[Bus(d)] = [count |-> Written(p.count, hi, lo),
                            address |-> Written(p.address, top, low)]
      BY <3>2, <3>10 DEF hi, lo, top, low
    <3>12. call.ext = (hi # 0 \/ top # 0)
      BY <3>3 DEF hi, top
    <3>13. 0 * CountBase = 0 /\ 0 * AddrBase = 0
      BY <3>5
    <3>14. Count(port'[Bus(d)].count, call.ext) = n
      <4>1. CASE call.ext
        <5>1. port'[Bus(d)].count = <<hi, lo>>
          BY <3>11, <4>1 DEF Written
        <5>2. <<hi, lo>> # <<0, 0>>
          BY <3>3, <3>6, <3>13
        <5>3. port'[Bus(d)].count[1] = hi /\ port'[Bus(d)].count[2] = lo
              /\ port'[Bus(d)].count # <<0, 0>>
          BY <5>1, <5>2
        <5>. QED
          BY <3>6, <4>1, <5>3 DEF Count
      <4>2. CASE ~call.ext
        <5>1. port'[Bus(d)].count[2] = lo
          BY <3>11, <4>2 DEF Written
        <5>2. hi = 0
          BY <3>12, <4>2
        <5>3. lo = n /\ lo # 0
          BY <3>3, <3>6, <3>13, <5>2
        <5>. QED
          BY <4>2, <5>1, <5>3 DEF Count
      <4>. QED
        BY <4>1, <4>2
    <3>15. b = IF call.ext THEN port'[Bus(d)].address[1] * AddrBase + port'[Bus(d)].address[2]
               ELSE port'[Bus(d)].address[2]
      <4>1. CASE call.ext
        BY <3>6, <3>11, <4>1 DEF Written
      <4>2. CASE ~call.ext
        <5>1. port'[Bus(d)].address[2] = low
          BY <3>11, <4>2 DEF Written
        <5>2. top = 0
          BY <3>12, <4>2
        <5>3. low = b
          BY <3>6, <3>13, <5>2
        <5>. QED
          BY <4>2, <5>1, <5>3
      <4>. QED
        BY <4>1, <4>2
    <3>16. PortsSay'
      BY <1>1, <3>14, <3>15 DEF PortsSay, Count, n, b
    <3>17. DOMAIN port' = Buses
      BY <2>2, <3>1
    <3>. QED
      BY <1>1, <1>3, <2>2, <2>a, <3>16, <3>17 DEF DevicesOK, Quiet, Buses
  <2>. QED
    BY <2>4, <2>5
<1>. QED
  BY <1>1, <1>2, <1>3, PlaceChanges DEF TransferOK

LEMMA CommandIsTaken ==
  ASSUME DriveInv, TransferOK, UNCHANGED bdVars, write_command
  PROVE  TransferOK'
<1>. DEFINE d == call.drive
<1>1. /\ pc = "command" /\ pc' = "answer"
      /\ device' = [e \in Drive |->
           IF e \in Answering(current_bus) THEN Commanded(e, call.op, call.ext) ELSE device[e]]
      /\ UNCHANGED <<bdVars, has_lba48, call, data, disk, port>>
  BY DEF write_command
<1>2. Progress'
  BY <1>1 DEF TransferOK, Progress, Selected
<1>3. ASSUME DevicesOK, ~Stuck PROVE DevicesOK'
  <2>1. /\ current_bus = Bus(d) /\ d \in Drive
        /\ Answering(current_bus) = {d}
    BY <1>1, <1>3, ItsDriveAnswers DEF Selected
  <2>2. /\ DOMAIN port = Buses
        /\ \A e \in Drive : Quiet(e) /\ DeviceFields \subseteq DOMAIN device[e]
    BY <1>1, <1>3 DEF DevicesOK
  <2>3. device' = [e \in Drive |->
           IF e = d THEN Commanded(d, call.op, call.ext) ELSE device[e]]
    BY <1>1, <2>1
  <2>4. device[d].busy = FALSE /\ device[d].request = FALSE
    BY <2>1, <2>2 DEF Quiet
  <2>a. call.ext => Lba48(d)
    <3>1. CASE call.op = "identify"
      BY <1>1, <3>1 DEF TransferOK, CommandOK
    <3>2. CASE call.op # "identify"
      <4>1. /\ io.phase \in Commanding /\ d = io.drive /\ call.base = io.base_block
            /\ call.sectors = Masked(d, Wanted)
            /\ call.ext = (call.sectors \div CountBase # 0 \/ call.base \div AddrBase # 0)
        BY <1>1, <3>2, ThisCommand DEF TransferOK, CommandOK
      <4>2. /\ has_lba48[d] = Lba48(d) /\ Wanted \in Nat
            /\ io.base_block \in Nat /\ io.base_block < Sectors(d)
        BY <4>1, NextCommand DEF TransferOK, RequestOK, Commanding
      <4>. QED
        BY <2>1, <4>1, <4>2, InReach
    <3>. QED
      BY <3>1, <3>2
  <2>5. /\ device'[d].busy = TRUE /\ device'[d].request = FALSE /\ device'[d].op = call.op
        /\ device'[d].next = IF call.op \in {"identify", "flush"} THEN 0
             ELSE IF call.ext THEN port[Bus(d)].address[1] * AddrBase + port[Bus(d)].address[2]
             ELSE port[Bus(d)].address[2]
        /\ device'[d].left = CASE call.op = "identify" -> 1 [] call.op = "flush" -> 0
             [] OTHER -> Count(port[Bus(d)].count, call.ext)
        /\ DeviceFields \subseteq DOMAIN device'[d]
    BY <2>1, <2>3, <2>4, <2>a DEF Commanded, Resting, DeviceFields
  <2>6. call.i = 0 /\ call.base \in Nat /\ call.sectors \in Nat
    BY <1>1 DEF TransferOK, Progress
  <2>7. device'[d].next = call.base /\ device'[d].left = call.sectors
    <3>1. CASE call.op = "identify"
      BY <1>1, <2>5, <3>1 DEF TransferOK, CommandOK
    <3>2. CASE call.op # "identify"
      <4>1. call.op \in {"read", "write"}
        BY <1>1, <3>2 DEF TransferOK, CommandOK
      <4>2. /\ Count(port[Bus(d)].count, call.ext) = call.sectors
            /\ call.base = IF call.ext
                 THEN port[Bus(d)].address[1] * AddrBase + port[Bus(d)].address[2]
                 ELSE port[Bus(d)].address[2]
        BY <1>1, <1>3, <3>2 DEF DevicesOK, PortsSay
      <4>. QED
        BY <2>5, <4>1, <4>2
    <3>. QED
      BY <3>1, <3>2
  <2>8. OnItsWay(d)'
    BY <1>1, <2>5, <2>6, <2>7 DEF OnItsWay
  <2>9. \A e \in Drive : e # d => device'[e] = device[e]
    BY <2>3
  <2>10. DOMAIN device' = Drive /\ \A e \in Drive : DeviceFields \subseteq DOMAIN device'[e]
    BY <2>2, <2>3, <2>5, <2>9
  <2>11. \A e \in Drive : e # d => Quiet(e)'
    BY <2>2, <2>9 DEF Quiet
  <2>12. Answers(d)'
    BY <1>1, <1>3 DEF DevicesOK, Answers, Selected, write_command
  <2>. QED
    BY <1>1, <2>2, <2>8, <2>10, <2>11, <2>12 DEF DevicesOK, Buses
<1>. QED
  BY <1>1, <1>2, <1>3, PlaceChanges DEF TransferOK

LEMMA AnswerGoesOn ==
  ASSUME DriveInv, TransferOK, UNCHANGED bdVars, wait_for_answer, faults = 0, faults' = 0
  PROVE  TransferOK'
<1>. DEFINE d == call.drive
<1>1. /\ pc = "answer" /\ wait_while_status({"busy"})
      /\ pc' = IF call.i < call.sectors THEN "transfer" ELSE "returned"
      /\ UNCHANGED <<bdVars, has_lba48, call, data, disk, device, port>>
  BY DEF wait_for_answer, hardware
<1>2. call.i \in 0 .. call.sectors /\ call.sectors \in Nat
  BY <1>1, ThisCommand
<1>3. Progress'
  BY <1>1, <1>2 DEF TransferOK, Progress, Selected
<1>4. ASSUME DevicesOK PROVE DevicesOK'
  <2>1. /\ current_bus = Bus(d) /\ d \in Drive /\ Answering(current_bus) = {d}
        /\ current_bus \in Buses
    BY <1>1, <1>4, ItsDriveAnswers DEF Selected
  <2>2. ~device[d].busy
    <3>1. current_bus # NoBus
      BY <2>1, AtaAssumption DEF AtaAssumption
    <3>2. device[d].busy => Waits({"busy"})
      BY <2>1, <3>1 DEF Waits
    <3>3. ~Waits({"busy"}) \/ ~device[d].busy
      BY <1>1, <2>1, WaitEnds
    <3>. QED
      BY <3>2, <3>3
  <2>3. OnItsWay(d) /\ \A e \in Drive : e # d => Quiet(e)
    BY <1>1, <1>4, <2>1 DEF DevicesOK
  <2>4. device[d].busy = FALSE /\ device[d].request = (call.i < call.sectors)
    BY <2>2, <2>3 DEF OnItsWay
  <2>5. \A e \in Drive : e # d => Quiet(e)'
    BY <1>1, <2>3 DEF Quiet
  <2>6. IF pc' = "transfer" THEN OnItsWay(d)' ELSE Quiet(d)'
    <3>1. CASE call.i < call.sectors
      BY <1>1, <2>3, <2>4, <3>1 DEF OnItsWay
    <3>2. CASE ~(call.i < call.sectors)
      <4>1. pc' # "transfer"
        BY <1>1, <3>2
      <4>2. (call.i < call.sectors) = FALSE
        BY <3>2
      <4>3. device[d].request = FALSE
        BY <2>4, <4>2, Zenon
      <4>. QED
        BY <1>1, <2>4, <4>1, <4>3 DEF Quiet
    <3>. QED
      BY <3>1, <3>2
  <2>7. Answers(d)'
    BY <1>1, <1>4 DEF DevicesOK, Answers, Selected, wait_for_answer, hardware
  <2>. QED
    BY <1>1, <1>4, <2>5, <2>6, <2>7 DEF DevicesOK, Buses
<1>. QED
  BY <1>1, <1>3, <1>4, PlaceChanges DEF TransferOK

\* The drive that asks for a sector, and what it does when it has been served.
LEMMA ItAsks ==
  ASSUME DriveInv, TransferOK, pc = "transfer"
  PROVE  /\ call.drive \in Drive /\ Answering(current_bus) = {call.drive}
         /\ call.sectors \in Nat /\ call.base \in Nat /\ call.i \in Nat /\ call.i < call.sectors
         /\ DevicesOK
         /\ device[call.drive].busy = FALSE /\ device[call.drive].request = TRUE
         /\ device[call.drive].op = call.op
         /\ device[call.drive].next = call.base + call.i
         /\ device[call.drive].left = call.sectors - call.i
<1>1. call.i < call.sectors /\ call.sectors \in Nat /\ call.base \in Nat /\ call.i \in Nat
  BY ThisCommand DEF TransferOK, Progress
<1>2. ~Stuck
  BY <1>1, ThisCommand
<1>3. DevicesOK
  BY <1>2 DEF TransferOK
<1>4. call.drive \in Drive /\ Answering(current_bus) = {call.drive}
  BY <1>3, ItsDriveAnswers DEF Selected
<1>5. OnItsWay(call.drive)
  BY <1>3, <1>4 DEF DevicesOK
<1>6. (call.i < call.sectors) = TRUE
  BY <1>1
<1>7. device[call.drive].request = (call.i < call.sectors)
  BY <1>5 DEF OnItsWay
<1>8. device[call.drive].request = TRUE
  BY <1>6, <1>7, Zenon
<1>. QED
  BY <1>1, <1>3, <1>4, <1>5, <1>8 DEF OnItsWay

LEMMA Served ==
  ASSUME DriveInv, TransferOK, pc = "transfer", pc' = "answer",
         UNCHANGED <<port, selected, current_bus>>,
         call' = [call EXCEPT !.i = @ + 1],
         device' = [d \in Drive |-> IF d = call.drive THEN Consumed(d) ELSE device[d]]
  PROVE  Progress' /\ DevicesOK'
<1>. DEFINE d == call.drive
            still == device[d].op = "write" \/ device[d].left > 1
<1>1. /\ d \in Drive /\ call.sectors \in Nat /\ call.base \in Nat /\ call.i \in Nat
      /\ call.i < call.sectors /\ DevicesOK /\ device[d].op = call.op
      /\ device[d].next = call.base + call.i /\ device[d].left = call.sectors - call.i
  BY ItAsks
<1>2. CallFields \subseteq DOMAIN call /\ call.result = call.sectors
  BY DEF TransferOK, Progress
<1>3. /\ CallFields \subseteq DOMAIN call' /\ call'.i = call.i + 1
      /\ call'.drive = d /\ call'.op = call.op /\ call'.base = call.base
      /\ call'.sectors = call.sectors /\ call'.result = call.result
  BY <1>2 DEF CallFields
<1>4. Progress'
  BY <1>1, <1>2, <1>3 DEF Progress, Selected
<1>5. /\ DOMAIN port = Buses
      /\ \A e \in Drive : DeviceFields \subseteq DOMAIN device[e]
      /\ \A e \in Drive : e # d => Quiet(e)
  BY <1>1 DEF DevicesOK
<1>6. /\ device'[d] = [device[d] EXCEPT !.request = FALSE, !.next = @ + 1, !.left = @ - 1,
                                        !.busy = still]
      /\ \A e \in Drive : e # d => device'[e] = device[e]
      /\ DOMAIN device' = Drive
  BY <1>1 DEF Consumed
<1>. HIDE DEF still
<1>7. /\ device'[d].request = FALSE /\ device'[d].next = call'.base + call'.i
      /\ device'[d].left = call'.sectors - call'.i /\ device'[d].op = call'.op
      /\ device'[d].busy = still
      /\ DeviceFields \subseteq DOMAIN device'[d]
  <2>1. DeviceFields \subseteq DOMAIN device[d]
    BY <1>1, <1>5
  <2>2. /\ device'[d].request = FALSE /\ device'[d].next = device[d].next + 1
        /\ device'[d].left = device[d].left - 1 /\ device'[d].op = device[d].op
        /\ device'[d].busy = still
        /\ DeviceFields \subseteq DOMAIN device'[d]
    <3>. DEFINE x == device[d]
                y == device'[d]
    <3>1. y = [x EXCEPT !.request = FALSE, !.next = @ + 1, !.left = @ - 1, !.busy = still]
      BY <1>6
    <3>2. DeviceFields \subseteq DOMAIN x
      BY <2>1
    <3>. HIDE DEF x, y
    <3>3. /\ y.request = FALSE /\ y.next = x.next + 1 /\ y.left = x.left - 1
          /\ y.op = x.op /\ y.busy = still /\ DeviceFields \subseteq DOMAIN y
      BY <3>1, <3>2 DEF DeviceFields
    <3>. QED
      BY <3>3 DEF x, y
  <2>3. /\ (call.base + call.i) + 1 = call.base + (call.i + 1)
        /\ (call.sectors - call.i) - 1 = call.sectors - (call.i + 1)
    BY <1>1
  <2>. QED
    BY <1>1, <1>3, <2>2, <2>3
<1>8. OnItsWay(d)'
  <2>1. CASE still
    <3>1. still = TRUE
      BY <2>1, Zenon DEF still
    <3>2. device'[d].busy = TRUE
      BY <1>7, <3>1, Zenon
    <3>. QED
      BY <1>3, <1>7, <3>2 DEF OnItsWay
  <2>2. CASE ~still
    <3>1. still = FALSE
      BY <2>2, Zenon DEF still
    <3>2. device'[d].busy = FALSE
      BY <1>7, <3>1, Zenon
    <3>3. ~(call'.i < call'.sectors)
      BY <1>1, <1>3, <2>2 DEF still
    <3>4. (call'.i < call'.sectors) = FALSE
      BY <3>3
    <3>5. device'[d].request = (call'.i < call'.sectors)
      BY <1>7, <3>4, Zenon
    <3>. QED
      BY <1>3, <1>7, <3>2, <3>5 DEF OnItsWay
  <2>. QED
    BY <2>1, <2>2
<1>9. \A e \in Drive : e # d => Quiet(e)' /\ DeviceFields \subseteq DOMAIN device'[e]
  BY <1>5, <1>6 DEF Quiet
<1>10. Answers(d)'
  BY <1>1, <1>3 DEF DevicesOK, Answers, Selected
<1>11. DevicesOK'
  BY <1>3, <1>5, <1>6, <1>7, <1>8, <1>9, <1>10 DEF DevicesOK, Buses
<1>. QED
  BY <1>4, <1>11

\* A sector has come from the drive.
LEMMA ReadGoesOn ==
  ASSUME DriveInv, TransferOK, UNCHANGED bdVars, read_data
  PROVE  TransferOK'
<1>. DEFINE d == call.drive
            n == call.i * SECTOR_SIZE
<1>1. /\ pc = "transfer" /\ pc' = "answer" /\ call.op # "write"
      /\ call' = [call EXCEPT !.i = @ + 1]
      /\ UNCHANGED <<disk, port, selected, current_bus, has_lba48>>
      /\ UNCHANGED <<io, nodes, booted, buf, tmp, content>>
  BY DEF read_data, bdVars
<1>2. /\ d \in Drive /\ Answering(current_bus) = {d}
      /\ call.sectors \in Nat /\ call.base \in Nat /\ call.i \in Nat /\ call.i < call.sectors
      /\ device[d].request = TRUE /\ device[d].op = call.op
      /\ device[d].next = call.base + call.i
  BY <1>1, ItAsks
<1>3. {e \in Answering(current_bus) : device[e].request /\ device[e].op # "write"} = {d}
  BY <1>1, <1>2
<1>4. /\ data' = data \o Transferred(d)
      /\ device' = [e \in Drive |-> IF e = d THEN Consumed(e) ELSE device[e]]
  <2>1. (CHOOSE e \in {d} : TRUE) = d
    OBVIOUS
  <2>. QED
    BY <1>3, <2>1 DEF read_data
<1>5. Progress' /\ DevicesOK'
  BY <1>1, <1>4, Served
<1>6. /\ call'.i = call.i + 1 /\ call'.drive = d /\ call'.op = call.op
      /\ call'.base = call.base /\ call'.sectors = call.sectors /\ call'.ext = call.ext
  BY <1>1 DEF TransferOK, Progress, CallFields
<1>7. /\ n \in Nat /\ call'.i * SECTOR_SIZE = n + SECTOR_SIZE
      /\ (call.base + call.i) * SECTOR_SIZE = call.base * SECTOR_SIZE + n
      /\ call.base * SECTOR_SIZE \in Nat
  BY <1>2, <1>6, SectorsAreBytes, SectorsAdd
<1>8. CommandOK'
  <2>1. CASE call.op = "identify"
    <3>1. data = [j \in 1 .. n |-> 0] /\ call.sectors = 1 /\ call.base = 0 /\ call.ext = FALSE
      BY <1>1, <2>1 DEF TransferOK, CommandOK
    <3>2. Transferred(d) = [k \in 1 .. SECTOR_SIZE |-> 0]
      BY <1>2, <2>1 DEF Transferred
    <3>. HIDE DEF n
    <3>3. data' = [j \in 1 .. n + SECTOR_SIZE |-> 0]
      BY <1>4, <1>7, <3>1, <3>2, SectorSize, Appended
    <3>. QED
      BY <1>1, <1>6, <1>7, <2>1, <3>1, <3>3 DEF CommandOK
  <2>2. CASE call.op # "identify"
    <3>. DEFINE f(j) == disk[io.drive][call.base * SECTOR_SIZE + j - 1]
    <3>1. /\ call.op = "read" /\ call.op = (IF Writes THEN "write" ELSE "read")
          /\ d = io.drive /\ call.base = io.base_block
          /\ call.sectors = Masked(io.drive, Wanted)
          /\ call.ext = (call.sectors \div CountBase # 0 \/ call.base \div AddrBase # 0)
          /\ data = [j \in 1 .. n |-> f(j)]
      BY <1>1, <2>2, ThisCommand DEF TransferOK, CommandOK
    <3>2. Transferred(d) = [k \in 1 .. SECTOR_SIZE |->
                              disk[d][(call.base + call.i) * SECTOR_SIZE + k - 1]]
      BY <1>2, <3>1 DEF Transferred, SectorBytes
    <3>. HIDE DEF n, f
    <3>3. \A k \in 1 .. SECTOR_SIZE : Transferred(d)[k] = f(n + k)
      <4>1. ASSUME NEW k \in 1 .. SECTOR_SIZE
            PROVE  (call.base + call.i) * SECTOR_SIZE + k - 1
                     = call.base * SECTOR_SIZE + (n + k) - 1
        BY <1>7, SectorSize
      <4>. QED
        BY <3>1, <3>2, <4>1 DEF f
    <3>4. data' = [j \in 1 .. n + SECTOR_SIZE |->
                     IF j <= n THEN data[j] ELSE Transferred(d)[j - n]]
      <4>1. /\ data = [j \in 1 .. n |-> data[j]]
            /\ Transferred(d) = [k \in 1 .. SECTOR_SIZE |-> Transferred(d)[k]]
        BY <3>1, <3>2
      <4>. QED
        BY <1>4, <1>7, <4>1, SectorSize, Appended
    <3>5. \A j \in 1 .. n + SECTOR_SIZE :
            (IF j <= n THEN data[j] ELSE Transferred(d)[j - n]) = f(j)
      <4>1. ASSUME NEW j \in 1 .. n + SECTOR_SIZE, j <= n
            PROVE  data[j] = f(j)
        BY <1>7, <3>1, <4>1
      <4>2. ASSUME NEW j \in 1 .. n + SECTOR_SIZE, ~(j <= n)
            PROVE  Transferred(d)[j - n] = f(j)
        <5>1. j - n \in 1 .. SECTOR_SIZE /\ n + (j - n) = j
          BY <1>7, <4>2, SectorSize
        <5>. QED
          BY <3>3, <5>1
      <4>. QED
        BY <4>1, <4>2
    <3>6. data' = [j \in 1 .. n + SECTOR_SIZE |-> f(j)]
      BY <3>4, <3>5
    <3>7. Masked(io.drive, Wanted)' = Masked(io.drive, Wanted) /\ (Writes' <=> Writes)
      BY <1>1 DEF Masked, Wanted, Writes
    <3>8. data' = [j \in 1 .. call'.i * SECTOR_SIZE |->
                     disk'[io'.drive][call'.base * SECTOR_SIZE + j - 1]]
      BY <1>1, <1>6, <1>7, <3>6 DEF f
    <3>. QED
      BY <1>1, <1>6, <2>2, <3>1, <3>7, <3>8 DEF CommandOK
  <2>. QED
    BY <2>1, <2>2
<1>9. BytesOK'
  <2>1. \A e, a : ToWrite(e, a)' <=> ToWrite(e, a)
    BY <1>1, <1>6 DEF ToWrite
  <2>. QED
    BY <1>1, <2>1 DEF TransferOK, BytesOK, Bytes
<1>. QED
  BY <1>1, <1>5, <1>8, <1>9, RequestStays

\* A sector has gone to the drive.
LEMMA WriteGoesOn ==
  ASSUME DriveInv, TransferOK, UNCHANGED bdVars, write_data
  PROVE  TransferOK'
<1>. DEFINE d == call.drive
            s == call.base + call.i
            piece(k) == data[call.i * SECTOR_SIZE + k + 1]
<1>1. /\ pc = "transfer" /\ pc' = "answer" /\ call.op = "write"
      /\ call' = [call EXCEPT !.i = @ + 1]
      /\ UNCHANGED <<port, selected, current_bus, has_lba48, data>>
      /\ UNCHANGED <<io, nodes, booted, buf, tmp, content>>
  BY DEF write_data, bdVars
<1>2. /\ d \in Drive /\ Answering(current_bus) = {d}
      /\ call.sectors \in Nat /\ call.base \in Nat /\ call.i \in Nat /\ call.i < call.sectors
      /\ device[d].request = TRUE /\ device[d].op = "write" /\ device[d].next = s
  BY <1>1, ItAsks
<1>3. {e \in Answering(current_bus) : device[e].request /\ device[e].op = "write"} = {d}
  BY <1>2
<1>4. /\ disk' = [e \in Drive |->
           IF e # d THEN disk[e]
           ELSE [a \in DOMAIN disk[e] |->
                   IF a \div SECTOR_SIZE = device[e].next THEN piece(a % SECTOR_SIZE)
                   ELSE disk[e][a]]]
      /\ device' = [e \in Drive |-> IF e = d THEN Consumed(e) ELSE device[e]]
  <2>1. disk' = [e \in Drive |->
           IF e \notin {d} THEN disk[e]
           ELSE [a \in DOMAIN disk[e] |->
                   IF a \div SECTOR_SIZE = device[e].next THEN piece(a % SECTOR_SIZE)
                   ELSE disk[e][a]]]
    BY <1>3 DEF write_data
  <2>2. device' = [e \in Drive |->
           CASE e \in {d} -> Consumed(e)
             [] e \in {d} \ {d} -> Commanded(e, "flush", FALSE)
             [] OTHER -> device[e]]
    BY <1>2, <1>3 DEF write_data
  <2>. QED
    BY <2>1, <2>2
<1>5. Progress' /\ DevicesOK'
  BY <1>1, <1>4, Served
<1>6. /\ call'.i = call.i + 1 /\ call'.drive = d /\ call'.op = call.op
      /\ call'.base = call.base /\ call'.sectors = call.sectors /\ call'.ext = call.ext
  BY <1>1 DEF TransferOK, Progress, CallFields
<1>7. /\ call.op = (IF Writes THEN "write" ELSE "read") /\ d = io.drive
      /\ call.base = io.base_block /\ call.sectors = Masked(io.drive, Wanted)
      /\ call.ext = (call.sectors \div CountBase # 0 \/ call.base \div AddrBase # 0)
      /\ \A j \in 1 .. call.sectors * SECTOR_SIZE :
           data[j] = content[d][call.base * SECTOR_SIZE + j - 1]
  BY <1>1, ThisCommand DEF TransferOK, CommandOK
<1>8. CommandOK'
  <2>1. Masked(io.drive, Wanted)' = Masked(io.drive, Wanted) /\ (Writes' <=> Writes)
    BY <1>1 DEF Masked, Wanted, Writes
  <2>. QED
    BY <1>1, <1>6, <1>7, <2>1 DEF CommandOK
<1>9. /\ \A e \in Drive : disk[e] = [a \in Bytes(e) |-> disk[e][a]]
      /\ \A e \in Drive : \A a \in Bytes(e) : disk[e][a] # content[e][a] => ToWrite(e, a)
      /\ content = [e \in Drive |-> [a \in Bytes(e) |-> content[e][a]]]
  BY DEF TransferOK, BytesOK
<1>10. disk' = [e \in Drive |-> [a \in Bytes(e) |->
           IF e = d /\ a \div SECTOR_SIZE = s THEN piece(a % SECTOR_SIZE) ELSE disk[e][a]]]
  <2>1. \A e \in Drive : DOMAIN disk[e] = Bytes(e)
    BY <1>9
  <2>2. \A e \in Drive :
          disk'[e] = [a \in Bytes(e) |->
            IF e = d /\ a \div SECTOR_SIZE = s THEN piece(a % SECTOR_SIZE) ELSE disk[e][a]]
    <3>1. \A e \in Drive : e # d => disk'[e] = disk[e]
      BY <1>4
    <3>2. disk'[d] = [a \in Bytes(d) |->
              IF a \div SECTOR_SIZE = s THEN piece(a % SECTOR_SIZE) ELSE disk[d][a]]
      BY <1>2, <1>4, <2>1
    <3>. HIDE DEF piece, s
    <3>. QED
      BY <1>9, <3>1, <3>2
  <2>3. disk' = [e \in Drive |-> disk'[e]]
    BY <1>4
  <2>. HIDE DEF piece, s
  <2>. QED
    BY <2>2, <2>3
<1>11. /\ s \in Nat /\ s * SECTOR_SIZE \in Nat
       /\ s * SECTOR_SIZE = call.base * SECTOR_SIZE + call.i * SECTOR_SIZE
       /\ (s + 1) * SECTOR_SIZE = s * SECTOR_SIZE + SECTOR_SIZE
       /\ call.i * SECTOR_SIZE \in Nat /\ call.base * SECTOR_SIZE \in Nat
       /\ call.sectors * SECTOR_SIZE \in Nat
       /\ call.i * SECTOR_SIZE + SECTOR_SIZE <= call.sectors * SECTOR_SIZE
  <2>1. s \in Nat
    BY <1>2
  <2>2. s * SECTOR_SIZE = call.base * SECTOR_SIZE + call.i * SECTOR_SIZE
    BY <1>2, SectorsAdd
  <2>3. call.i * SECTOR_SIZE + SECTOR_SIZE <= call.sectors * SECTOR_SIZE
    BY <1>2, SectorOrder
  <2>4. /\ call.i * SECTOR_SIZE \in Nat /\ call.base * SECTOR_SIZE \in Nat
        /\ call.sectors * SECTOR_SIZE \in Nat
    BY <1>2, SectorsAreBytes
  <2>. HIDE DEF s
  <2>5. s * SECTOR_SIZE \in Nat /\ (s + 1) * SECTOR_SIZE = s * SECTOR_SIZE + SECTOR_SIZE
    BY <2>1, SectorsAreBytes
  <2>. QED
    BY <2>1, <2>2, <2>3, <2>4, <2>5
<1>12. ASSUME NEW e \in Drive, NEW a \in Bytes(e), disk'[e][a] # content'[e][a]
       PROVE  ToWrite(e, a)'
  <2>. HIDE DEF s
  <2>1. a \in Nat
    BY DEF Bytes
  <2>2. ~(e = d /\ a \div SECTOR_SIZE = s)
    <3>1. SUFFICES ASSUME e = d, a \div SECTOR_SIZE = s PROVE FALSE
      OBVIOUS
    <3>. DEFINE r == a % SECTOR_SIZE
                j == call.i * SECTOR_SIZE + r + 1
    <3>2. r \in 0 .. SECTOR_SIZE - 1 /\ a = s * SECTOR_SIZE + r
      BY <1>11, <2>1, <3>1, BlockIs
    <3>3. disk'[e][a] = data[j]
      BY <1>10, <3>1
    <3>. HIDE DEF r
    <3>4. j \in 1 .. call.sectors * SECTOR_SIZE /\ call.base * SECTOR_SIZE + j - 1 = a
      <4>. DEFINE u == call.i * SECTOR_SIZE
                  v == call.base * SECTOR_SIZE
                  w == call.sectors * SECTOR_SIZE
                  x == s * SECTOR_SIZE
      <4>1. /\ u \in Nat /\ v \in Nat /\ w \in Nat /\ x = v + u /\ u + SECTOR_SIZE <= w
            /\ a = x + r
        BY <1>11, <3>2
      <4>. HIDE DEF u, v, w, x
      <4>2. u + r + 1 \in 1 .. w /\ v + (u + r + 1) - 1 = a
        BY <3>2, <4>1, SectorSize
      <4>. QED
        BY <4>2 DEF u, v, w
    <3>5. data[j] = content[d][a]
      BY <1>7, <3>4
    <3>. QED
      BY <1>1, <1>12, <3>1, <3>3, <3>5
  <2>3. disk'[e][a] = disk[e][a]
    BY <1>10, <2>2
  <2>4. ToWrite(e, a)
    BY <1>1, <1>9, <1>12, <2>3
  <2>5. e = d /\ s * SECTOR_SIZE <= a
    BY <1>1, <1>7, <2>4 DEF ToWrite, s
  <2>6. s * SECTOR_SIZE + SECTOR_SIZE <= a
    BY <1>11, <2>1, <2>2, <2>5, BlockIs
  <2>7. call'.base + call'.i = s + 1
    BY <1>2, <1>6 DEF s
  <2>8. (call'.base + call'.i) * SECTOR_SIZE <= a
    BY <1>11, <2>6, <2>7
  <2>. QED
    BY <1>1, <1>6, <2>4, <2>8 DEF ToWrite
<1>13. BytesOK'
  <2>1. disk' = [e \in Drive |-> [a \in Bytes(e) |-> disk'[e][a]]]
    BY <1>10
  <2>. QED
    BY <1>1, <1>9, <1>12, <2>1 DEF BytesOK, Bytes
<1>. QED
  BY <1>1, <1>5, <1>8, <1>13, RequestStays

\* The drive has the next sector, or has come to the end of its command.
LEMMA ReadyGoesOn ==
  ASSUME DriveInv, TransferOK, UNCHANGED bdVars, NEW d \in Drive, drive_ready(d)
  PROVE  TransferOK'
<1>1. /\ device[d].busy
      /\ device' = [device EXCEPT ![d].busy = FALSE,
           ![d].request = device[d].left > 0 /\ device[d].next < Sectors(d)]
      /\ UNCHANGED <<disk, port, selected, current_bus, has_lba48, call, data, pc>>
      /\ UNCHANGED <<io, nodes, booted, buf, tmp, content>>
  BY DEF drive_ready, bdVars
<1>2. Progress' /\ CommandOK'
  <2>1. \A e, n : Masked(e, n)' = Masked(e, n)
    BY <1>1 DEF Masked
  <2>. QED
    BY <1>1, <2>1 DEF TransferOK, Progress, CommandOK, Wanted, Writes
<1>3. BytesOK'
  <2>1. \A e, a : ToWrite(e, a)' <=> ToWrite(e, a)
    BY <1>1 DEF ToWrite
  <2>. QED
    BY <1>1, <2>1 DEF TransferOK, BytesOK, Bytes
<1>4. ASSUME DevicesOK PROVE DevicesOK'
  <2>1. /\ DOMAIN device = Drive /\ DOMAIN port = Buses
        /\ \A e \in Drive : DeviceFields \subseteq DOMAIN device[e]
    BY <1>4 DEF DevicesOK
  <2>2. ~Quiet(d)
    BY <1>1 DEF Quiet
  <2>3. /\ pc \in {"answer", "transfer"} /\ d = call.drive /\ OnItsWay(d)
        /\ \A e \in Drive : e # d => Quiet(e)
    BY <1>4, <2>2 DEF DevicesOK
  <2>4. /\ device[d].op = call.op /\ pc = "answer"
        /\ device[d].next = call.base + call.i /\ device[d].left = call.sectors - call.i
    BY <1>1, <2>3 DEF OnItsWay
  <2>. DEFINE asks == device[d].left > 0 /\ device[d].next < Sectors(d)
              more == call.i < call.sectors
  <2>5. asks <=> more
    <3>1. /\ call.sectors \in Nat /\ call.base \in Nat /\ call.i \in 0 .. call.sectors
          /\ call.base + call.sectors <= Sectors(d) /\ Sectors(d) \in Nat
      BY <2>3, ThisCommand
    <3>. QED
      BY <2>4, <3>1
  <2>6. asks \in BOOLEAN /\ more \in BOOLEAN
    OBVIOUS
  <2>7. /\ device'[d] = [device[d] EXCEPT !.busy = FALSE, !.request = asks]
        /\ \A e \in Drive : e # d => device'[e] = device[e]
        /\ DOMAIN device' = Drive
    BY <1>1, <2>1
  <2>. HIDE DEF asks, more
  <2>8. asks = more
    BY <2>5, <2>6
  <2>9. /\ device'[d].busy = FALSE /\ device'[d].request = more /\ device'[d].op = device[d].op
        /\ device'[d].next = device[d].next /\ device'[d].left = device[d].left
        /\ DeviceFields \subseteq DOMAIN device'[d]
    BY <2>1, <2>7, <2>8 DEF DeviceFields
  <2>10. device'[d].request = (call.i < call.sectors)
    BY <2>9, Zenon DEF more
  <2>11. OnItsWay(d)'
    BY <1>1, <2>4, <2>9, <2>10 DEF OnItsWay
  <2>12. \A e \in Drive : e # d => Quiet(e)' /\ DeviceFields \subseteq DOMAIN device'[e]
    BY <2>1, <2>3, <2>7 DEF Quiet
  <2>13. Answers(call.drive)'
    BY <1>1, <1>4, <2>3, <2>4 DEF DevicesOK, Answers, Selected
  <2>. QED
    BY <1>1, <2>1, <2>3, <2>4, <2>7, <2>9, <2>11, <2>12, <2>13 DEF DevicesOK, Buses
<1>. QED
  BY <1>1, <1>2, <1>3, <1>4, RequestStays DEF TransferOK

-----------------------------------------------------------------------------
(* What the transfers rest on, and what they deliver. *)

\* A fault is never taken back.
LEMMA FaultsStay ==
  ASSUME faults \in Nat, [Next]_vars
  PROVE  faults' \in Nat /\ (faults' = 0 => faults = 0)
<1>1. faults' \in {faults, faults + 1}
  BY DEF Next, Kernel, vars, ataVars, Driver, Drives, identify, identified, run_command,
         block_command, head, head_write, main, tail, tail_write, back, finish, start,
         drive_ready, drive_error, wait_while_status, wait_before_select, select_drive,
         wait_after_select, write_position, write_command, wait_for_answer, read_data,
         write_data
<1>. QED
  BY <1>1

LEMMA StepTransferOK ==
  ASSUME DriveInv, TransferOK, [Next]_vars, faults = 0, faults' = 0
  PROVE  TransferOK'
<1>1. CASE Kernel
  <2>1. CASE identify \/ identified \/ block_command \/ finish
    BY <2>1, IdentifyGoesOn, IdentifiedGoesOn, CommandGoesOut, FinishGoesOn
  <2>2. CASE head \/ head_write \/ main \/ tail \/ tail_write
    BY <2>2, HeadGoesOn, HeadWriteGoesOn, MainGoesOn, TailGoesOn, TailWriteGoesOn
  <2>3. CASE Driver /\ UNCHANGED bdVars
    BY <2>3, SelectGoesOn, PositionGoesOn, CommandIsTaken, AnswerGoesOn, ReadGoesOn,
       WriteGoesOn DEF Driver
  <2>. QED
    BY <1>1, <2>1, <2>2, <2>3 DEF Kernel
<1>2. CASE \E r \in Request : start(r)
  BY <1>2, StartGoesOn
<1>3. CASE Drives /\ UNCHANGED bdVars
  <2>1. PICK d \in Drive : drive_ready(d) \/ drive_error(d)
    BY <1>3 DEF Drives
  <2>2. ~drive_error(d)
    BY DEF drive_error
  <2>. QED
    BY <1>3, <2>1, <2>2, ReadyGoesOn
<1>4. CASE UNCHANGED vars
  <2>1. UNCHANGED <<bdVars, has_lba48, call, data, disk, device, port, pc, selected,
                    current_bus>>
    BY <1>4 DEF vars, ataVars
  <2>2. UNCHANGED <<io, nodes, booted, buf, tmp, content>>
    BY <2>1 DEF bdVars
  <2>3. Progress' /\ CommandOK'
    <3>1. \A e, n : Masked(e, n)' = Masked(e, n)
      BY <2>1 DEF Masked
    <3>. QED
      BY <2>1, <2>2, <3>1 DEF TransferOK, Progress, CommandOK, Wanted, Writes
  <2>4. BytesOK'
    <3>1. \A e, a : ToWrite(e, a)' <=> ToWrite(e, a)
      BY <2>1, <2>2 DEF ToWrite
    <3>. QED
      BY <2>1, <2>2, <3>1 DEF TransferOK, BytesOK, Bytes
  <2>5. DevicesOK => DevicesOK'
    <3>1. \A d : (Quiet(d)' <=> Quiet(d)) /\ (OnItsWay(d)' <=> OnItsWay(d))
      BY <2>1 DEF Quiet, OnItsWay
    <3>2. PortsSay' <=> PortsSay
      BY <2>1 DEF PortsSay, Count
    <3>3. Answers(call.drive)' <=> Answers(call.drive)
      BY <2>1 DEF Answers
    <3>. QED
      BY <2>1, <3>1, <3>2, <3>3 DEF DevicesOK, Buses
  <2>. QED
    BY <2>1, <2>2, <2>3, <2>4, <2>5, RequestStays DEF TransferOK
<1>. QED
  BY <1>1, <1>2, <1>3, <1>4 DEF Next

\* The invariant of the transfers: while the drives answer in time, the drive a
\* command is for and the driver agree on the next sector, the request and the
\* command agree on the block, and the bytes that are not yet what they should be
\* are the ones still to come (ata_controller::run_command, i_block_device).
THEOREM TransferInvariant == Spec => []TransferInv
<1>1. DriveInv /\ TransferInv /\ [Next]_vars => TransferInv'
  BY FaultsStay, StepTransferOK DEF TransferInv
<1>. QED
  BY <1>1, InitTransferInv, DriveInvariant, PTL DEF Spec

\* A read that reports success has delivered the bytes asked for, whatever their
\* place and number, the sector size and the bases of the ports, as long as no
\* answer was late and no drive failed (i_block_device::read).
THEOREM ReadsDeliver == Spec => []ReadDeliversContent
<1>1. TransferInv => ReadDeliversContent
  BY DEF TransferInv, TransferOK, BuffersOK, ReadDeliversContent
<1>. QED
  BY <1>1, TransferInvariant, PTL

\* A write has changed the bytes asked for and no others on any drive
\* (i_block_device::write, dev_fs_node::write).
THEOREM WritesStayInRange == Spec => []WriteChangesOnlyRange
<1>1. TransferInv => WriteChangesOnlyRange
  <2>1. SUFFICES ASSUME TransferOK, io.phase = "finished" PROVE disk = content
    BY DEF TransferInv, WriteChangesOnlyRange
  <2>2. \A d \in Drive : \A a \in Bytes(d) : disk[d][a] = content[d][a]
    BY <2>1 DEF TransferOK, BytesOK, ToWrite, Commanding
  <2>. DEFINE X == [d \in Drive |-> [a \in Bytes(d) |-> disk[d][a]]]
              Y == [d \in Drive |-> [a \in Bytes(d) |-> content[d][a]]]
  <2>3. \A d \in Drive : [a \in Bytes(d) |-> disk[d][a]] = [a \in Bytes(d) |-> content[d][a]]
    BY <2>2
  <2>4. X = Y
    BY <2>3
  <2>. QED
    BY <2>1, <2>4 DEF TransferOK, BytesOK
<1>. QED
  BY <1>1, TransferInvariant, PTL
=============================================================================
