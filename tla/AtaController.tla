--------------------------- MODULE AtaController ---------------------------
(***************************************************************************)
(* ata_controller::run_command, and the hard disks it drives by polling.   *)
(*                                                                         *)
(* The drives are external: a drive is busy for a while after a command    *)
(* and after every sector, then asks for data or is idle again.  What is   *)
(* written to a port of its bus, the selector's too, is ignored while the  *)
(* drive in use is busy, and may be taken or not while it asks for data; a *)
(* command is ignored in both cases, and aborted by a drive that does not  *)
(* know it.  The data port of a drive that asks for nothing reads as       *)
(* garbage and swallows what is written.                                   *)
(* Every wait of the code gives up after a number of polls and goes on as  *)
(* if the drive had answered, and no error bit is ever looked at.          *)
(* current_drive is never assigned, so every command selects its drive.    *)
(***************************************************************************)
EXTENDS Integers, Sequences

CONSTANTS
    Drive,              \* the drives the boot loader reports
    Bus(_), Master(_),  \* how each is connected: its ports, master or slave
    Lba48(_),           \* does it have 48-bit addresses
    Sectors(_),         \* its size
    SECTOR_SIZE,        \* 512 in the code
    CountBase,          \* values of the sector count port (256)
    AddrBase,           \* values of the three address ports (2^24)
    MaxFaults           \* bound: late answers and errors of the drives

NoBus == "none"

ASSUME AtaAssumption ==
    /\ SECTOR_SIZE \in Nat \ {0}
    /\ CountBase \in Nat /\ CountBase > 1 /\ AddrBase \in Nat /\ AddrBase > 1 /\ MaxFaults \in Nat
    /\ \A d \in Drive : Sectors(d) \in Nat /\ Lba48(d) \in BOOLEAN /\ Master(d) \in BOOLEAN
    /\ \A d \in Drive : Bus(d) # NoBus
    /\ \A d, e \in Drive : Bus(d) = Bus(e) /\ Master(d) = Master(e) => d = e

Buses == {Bus(d) : d \in Drive}
Garbage == -1

VARIABLES
    disk,           \* drive -> its bytes
    device,         \* drive -> what it is doing
    selected,       \* bus -> is the master selected
    port,           \* bus -> count and address ports, each the last two values
    current_bus,    \* current_base_port and current_alt_port
    has_lba48,      \* drive.information, as identify left it
    call,           \* the command in progress
    data,           \* its buffer
    pc,             \* where run_command is
    faults,         \* history: answers that came too late, and errors
    in_time         \* history: the request in progress began when the drives of
                    \* its bus were idle, and no wait has given up since

hardware == <<disk, device, selected, port>>
ataVars == <<disk, device, selected, port, current_bus, has_lba48, call, data, pc, faults,
             in_time>>

Byte == Int
Idle == [busy |-> FALSE, request |-> FALSE, op |-> "none", next |-> 0, left |-> 0]
NoCall == [drive |-> CHOOSE d \in Drive : TRUE, op |-> "none", base |-> 0,
           sectors |-> 0, ext |-> FALSE, i |-> 0, result |-> 0]

\* The content every byte of a drive starts with, different everywhere.
FirstContent(d) == [a \in 0 .. Sectors(d) * SECTOR_SIZE - 1 |-> IF Master(d) THEN a ELSE a + 100]

AtaInit ==
    /\ disk = [d \in Drive |-> FirstContent(d)]
    /\ device = [d \in Drive |-> Idle]
    /\ selected = [b \in Buses |-> TRUE]
    /\ port = [b \in Buses |-> [count |-> <<0, 0>>, address |-> <<0, 0>>]]
    /\ current_bus = NoBus
    /\ has_lba48 = [d \in Drive |-> FALSE]
    /\ call = NoCall /\ data = <<>> /\ pc = "idle" /\ faults = 0 /\ in_time = FALSE

-----------------------------------------------------------------------------
(* The drives. *)

\* The drive that answers on a bus, if there is one.
Answering(b) == {d \in Drive : Bus(d) = b /\ Master(d) = selected[b]}

Resting(d) == ~device[d].busy /\ ~device[d].request

\* Whether what is written to the ports of a bus may be taken, and ignored.
Taken(b) ==
    CASE \E d \in Answering(b) : device[d].busy -> {FALSE}
      [] \A d \in Answering(b) : Resting(d) -> {TRUE}
      [] OTHER -> BOOLEAN

SectorBytes(d, s) == [k \in 1 .. SECTOR_SIZE |-> disk[d][s * SECTOR_SIZE + k - 1]]
NoBytes == [k \in 1 .. SECTOR_SIZE |-> Garbage]

\* What identify transfers is not modelled: one sector of its own.
Transferred(d) ==
    IF device[d].op = "identify" THEN [k \in 1 .. SECTOR_SIZE |-> 0]
    ELSE SectorBytes(d, device[d].next)

\* The next sector is ready, or (after the last one) the command has ended.
drive_ready(d) ==
    /\ device[d].busy
    /\ device' = [device EXCEPT ![d].busy = FALSE,
         ![d].request = device[d].left > 0 /\ device[d].next < Sectors(d)]
    /\ UNCHANGED <<disk, selected, port, current_bus, has_lba48, call, data, pc, faults,
                   in_time>>

drive_error(d) ==
    /\ device[d].busy /\ faults < MaxFaults
    /\ device' = [device EXCEPT ![d] = Idle]
    /\ faults' = faults + 1
    /\ UNCHANGED <<disk, selected, port, current_bus, has_lba48, call, data, pc, in_time>>

\* A command reaches a drive that is free to take it.  A count of 0 stands for
\* the largest one.
Count(c, ext) ==
    IF ext THEN IF c = <<0, 0>> THEN CountBase * CountBase ELSE c[1] * CountBase + c[2]
    ELSE IF c[2] = 0 THEN CountBase ELSE c[2]

Commanded(d, op, ext) ==
    IF ~Resting(d) \/ (ext /\ ~Lba48(d)) THEN device[d]
    ELSE [busy |-> TRUE, request |-> FALSE, op |-> op,
          next |-> IF op \in {"identify", "flush"} THEN 0
                   ELSE IF ext THEN port[Bus(d)].address[1] * AddrBase + port[Bus(d)].address[2]
                   ELSE port[Bus(d)].address[2],
          left |-> CASE op = "identify" -> 1 [] op = "flush" -> 0
                     [] OTHER -> Count(port[Bus(d)].count, ext)]

-----------------------------------------------------------------------------
(* ata_controller *)

\* Faulty variant: all drives are taken for old ones.
Masked_28(d, n) == n % CountBase

\* The length run_command passes on: what does not fit is cut off.  The caller
\* asks again for the rest, and of a multiple of what fits it gets nothing.
Masked(d, n) ==
    IF n \div CountBase # 0 /\ ~has_lba48[d] THEN n % CountBase ELSE n % (CountBase * CountBase)

\* The caller's step into run_command; an address out of reach returns -1.
run_command(d, op, base, bytes, n) ==
    LET sectors == Masked(d, n)
        ext == sectors \div CountBase # 0 \/ base \div AddrBase # 0
        failed == ext /\ ~has_lba48[d]
    IN  /\ pc = "idle"
        /\ call' = [drive |-> d, op |-> op, base |-> base, sectors |-> sectors, ext |-> ext,
                    i |-> 0, result |-> IF failed THEN -1 ELSE sectors]
        /\ data' = IF op = "write" THEN bytes ELSE <<>>
        /\ pc' = IF failed THEN "returned" ELSE "before_select"
        /\ UNCHANGED <<hardware, current_bus, has_lba48, faults, in_time>>

\* The status bits a wait looks at, read on the bus in use.
Waits(mask) ==
    /\ current_bus # NoBus
    /\ \E d \in Answering(current_bus) :
          device[d].busy \/ ("request" \in mask /\ device[d].request)

\* A wait ends when the bits are clear, or when it has polled too often.
\* The bound counts the waits a busy drive outlasts; a drive that asks for data
\* does so until it is served, so a wait for the opposite always gives up.
wait_while_status(mask) ==
    \/ ~Waits(mask) /\ UNCHANGED <<faults, in_time>>
    \/ /\ Waits(mask)
       /\ faults < MaxFaults \/ \A d \in Answering(current_bus) : ~device[d].busy
       /\ faults' = IF faults < MaxFaults THEN faults + 1 ELSE faults
       /\ in_time' = FALSE

wait_before_select ==
    /\ pc = "before_select"
    /\ wait_while_status({"busy", "request"})
    /\ pc' = "select"
    /\ UNCHANGED <<hardware, current_bus, has_lba48, call, data>>

\* The selector is written whether the wait has ended or given up.
Select(b, wanted) ==
    \E taken \in Taken(b) :
        selected' = IF taken THEN [selected EXCEPT ![b] = wanted] ELSE selected

\* Faulty variant: the drive is left alone when the ports do not change.
select_drive_by_port ==
    /\ pc = "select"
    /\ current_bus' = Bus(call.drive)
    /\ IF current_bus = Bus(call.drive) THEN UNCHANGED selected
       ELSE Select(Bus(call.drive), Master(call.drive))
    /\ pc' = "after_select"
    /\ UNCHANGED <<disk, device, port, has_lba48, call, data, faults, in_time>>

select_drive ==
    /\ pc = "select"
    /\ current_bus' = Bus(call.drive)
    /\ Select(Bus(call.drive), Master(call.drive))
    /\ pc' = "after_select"
    /\ UNCHANGED <<disk, device, port, has_lba48, call, data, faults, in_time>>

wait_after_select ==
    /\ pc = "after_select"
    /\ wait_while_status({"busy", "request"})
    /\ pc' = "position"
    /\ UNCHANGED <<hardware, current_bus, has_lba48, call, data>>

\* Faulty variant: the low part goes first.
Written_low_first(p, hi, lo) == IF call.ext THEN <<lo, hi>> ELSE <<p[2], lo>>

\* Each port remembers the value written before: the high part goes first.
Written(p, hi, lo) == IF call.ext THEN <<hi, lo>> ELSE <<p[2], lo>>

\* identify sets no position.
write_position ==
    LET b == current_bus
        position(p) == [count |-> Written(p.count, (call.sectors \div CountBase) % CountBase,
                                          call.sectors % CountBase),
                        address |-> Written(p.address, (call.base \div AddrBase) % AddrBase,
                                            call.base % AddrBase)]
    IN  /\ pc = "position"
        /\ \E taken \in Taken(b) :
              port' = IF taken /\ call.op # "identify"
                        THEN [port EXCEPT ![b] = position(@)] ELSE port
        /\ pc' = "command"
        /\ UNCHANGED <<disk, device, selected, current_bus, has_lba48, call, data, faults,
                       in_time>>

write_command ==
    /\ pc = "command"
    /\ device' = [d \in Drive |->
         IF d \in Answering(current_bus) THEN Commanded(d, call.op, call.ext) ELSE device[d]]
    /\ pc' = "answer"
    /\ UNCHANGED <<disk, selected, port, current_bus, has_lba48, call, data, faults, in_time>>

\* The wait after the command, and the one after every sector.
wait_for_answer ==
    /\ pc = "answer"
    /\ wait_while_status({"busy"})
    /\ pc' = IF call.i < call.sectors THEN "transfer" ELSE "returned"
    /\ UNCHANGED <<hardware, current_bus, has_lba48, call, data>>

Consumed(d) == [device[d] EXCEPT !.request = FALSE, !.next = @ + 1, !.left = @ - 1,
                                 !.busy = device[d].op = "write" \/ device[d].left > 1]

read_data ==
    /\ pc = "transfer" /\ call.op # "write"
    /\ LET asked == {d \in Answering(current_bus) : device[d].request /\ device[d].op # "write"}
       IN  /\ data' = data \o (IF asked = {} THEN NoBytes
                               ELSE Transferred(CHOOSE d \in asked : TRUE))
           /\ device' = [d \in Drive |-> IF d \in asked THEN Consumed(d) ELSE device[d]]
    /\ call' = [call EXCEPT !.i = @ + 1]
    /\ pc' = "answer"
    /\ UNCHANGED <<disk, selected, port, current_bus, has_lba48, faults, in_time>>

\* One sector of the buffer, then CMD_FLUSH, which a drive that has just taken
\* a sector ignores.
write_data ==
    LET asked == {d \in Answering(current_bus) : device[d].request /\ device[d].op = "write"}
        piece(k) == data[call.i * SECTOR_SIZE + k + 1]
    IN  /\ pc = "transfer" /\ call.op = "write"
        /\ disk' = [d \in Drive |->
             IF d \notin asked THEN disk[d]
             ELSE [a \in DOMAIN disk[d] |->
                     IF a \div SECTOR_SIZE = device[d].next THEN piece(a % SECTOR_SIZE)
                     ELSE disk[d][a]]]
        /\ device' = [d \in Drive |->
             CASE d \in asked -> Consumed(d)
               [] d \in Answering(current_bus) \ asked -> Commanded(d, "flush", FALSE)
               [] OTHER -> device[d]]
        /\ call' = [call EXCEPT !.i = @ + 1]
        /\ pc' = "answer"
        /\ UNCHANGED <<selected, port, current_bus, has_lba48, data, faults, in_time>>

Driver ==
    \/ wait_before_select \/ select_drive \/ wait_after_select
    \/ write_position \/ write_command \/ wait_for_answer
    \/ read_data \/ write_data

Drives == \E d \in Drive : drive_ready(d) \/ drive_error(d)
=============================================================================
