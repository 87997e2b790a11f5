---------------------------- MODULE BlockDevice ----------------------------
(***************************************************************************)
(* Disks as byte ranges: ata::init identifies each drive and the           *)
(* partition table crawler makes device nodes of it; reads and writes go   *)
(* through such a node (dev_fs_node), which checks its bounds, and         *)
(* i_block_device, which cuts the range into a partial first block, whole  *)
(* blocks and the rest, to the commands of AtaController.                  *)
(*                                                                         *)
(* Partition tables are data: Table gives what get_table finds at a byte   *)
(* address of a drive (the extended tables are looked up at the byte whose *)
(* number is the sector's, as the code does).                              *)
(***************************************************************************)
EXTENDS AtaController

CONSTANTS
    BootOrder,          \* the drives in the order of the boot loader's map
    Table(_, _),        \* drive, byte address -> the four entries there
    Request,            \* the requests made: [op, drive, node, offset, length]
    MaxRequests,        \* bound
    MaxDepth            \* bound: extended tables in a row

ASSUME BlockAssumption ==
    /\ BootOrder \in Seq(Drive)
    /\ \A r \in Request : r.drive \in Drive
    /\ MaxRequests \in Nat /\ MaxDepth \in Nat

VARIABLES
    nodes,      \* drive -> its device nodes, the whole drive first
    booted,     \* drives initialised
    io,         \* the call of i_block_device::read or ::write in progress
    buf, tmp,   \* the caller's buffer, and the one block of the call
    requests,   \* calls made so far
    content     \* history: what the bytes of a drive should be: what was
                \* written, cut off at the end of the node it was written to

bdVars == <<nodes, booted, io, buf, tmp, requests, content>>
vars == <<ataVars, bdVars>>

NoIo == [op |-> "none", drive |-> CHOOSE d \in Drive : TRUE, base |-> 0, length |-> 0,
         base_block |-> 0, skip_bytes |-> 0, remain |-> 0, position |-> 0,
         success |-> TRUE, phase |-> "idle", limit |-> [first |-> 0, last |-> 0]]

-----------------------------------------------------------------------------
(* Partition tables. *)

is_extended(entry) == entry.type = "extended"

Node(entry, addition) ==
    [first |-> (entry.first_sector + addition) * SECTOR_SIZE,
     last |-> (entry.first_sector + addition + entry.sector_count) * SECTOR_SIZE]

add_filesystem(entry, addition) ==
    IF entry.type = "unused" THEN <<>> ELSE <<Node(entry, addition)>>

\* The chain of extended tables that starts at an entry of the first table.
probe_extfilesystems(d, entry) ==
    LET table(c) == Table(d, c.entry.first_sector + c.relative)
        chain[k \in 1 .. MaxDepth] ==
            IF k = 1 THEN [entry |-> entry, relative |-> 0, found |-> TRUE]
            ELSE LET c == chain[k - 1]
                 IN  [entry |-> table(c)[2],
                      relative |-> IF c.relative = 0 THEN c.entry.first_sector ELSE c.relative,
                      found |-> c.found /\ is_extended(table(c)[2])]
        added[k \in 0 .. MaxDepth] ==
            IF k = 0 THEN <<>>
            ELSE added[k - 1] \o (IF chain[k].found
                   THEN add_filesystem(table(chain[k])[1], chain[k].entry.first_sector) ELSE <<>>)
    IN  added[MaxDepth]

\* The nodes of a drive of this length.  (The reads of the tables are taken as
\* served: their result is not looked at.)
probe_filesystems(d, length) ==
    LET table == Table(d, 0)
        found[i \in 0 .. 4] ==
            IF i = 0 THEN <<[first |-> 0, last |-> length]>>
            ELSE found[i - 1] \o (IF is_extended(table[i]) THEN probe_extfilesystems(d, table[i])
                                  ELSE add_filesystem(table[i], 0))
    IN  found[4]

\* ata_drive::length: only the 48-bit size is looked at.
Length(d) == IF Lba48(d) THEN Sectors(d) * SECTOR_SIZE ELSE 0

\* Drives have as many sectors as can be addressed, the tables describe
\* partitions on their drive, and lengths and offsets are unsigned.
ASSUME PartitionAssumption ==
    /\ \A d \in Drive :
         /\ 0 < Sectors(d)
         /\ Sectors(d) <= (IF Lba48(d) THEN AddrBase * AddrBase ELSE AddrBase)
         /\ LET found == probe_filesystems(d, Length(d))
            IN  \A i \in DOMAIN found :
                  /\ found[i].first \in Nat /\ found[i].last \in Nat
                  /\ found[i].last <= Sectors(d) * SECTOR_SIZE
    /\ \A r \in Request : r.op \in {"read", "write"} /\ r.offset \in Nat /\ r.length \in Nat

-----------------------------------------------------------------------------
(* ata::init *)

Booted == Len(booted) = Len(BootOrder)

identify ==
    /\ ~Booted
    /\ run_command(BootOrder[Len(booted) + 1], "identify", 0, <<>>, 1)
    /\ UNCHANGED bdVars

\* identify has returned; garbled information may say anything, and another
\* drive may have given its own.
identified ==
    LET d == call.drive
        garbled == data = NoBytes \/ selected[Bus(d)] # Master(d)
    IN  /\ pc = "returned" /\ call.op = "identify"
        /\ \E lba48 \in BOOLEAN, length \in {0} \cup {Length(e) : e \in Drive} :
              /\ garbled \/ (lba48 = Lba48(d) /\ length = Length(d))
              /\ has_lba48' = [has_lba48 EXCEPT ![d] = lba48]
              /\ nodes' = [nodes EXCEPT ![d] = probe_filesystems(d, length)]
        /\ booted' = Append(booted, d)
        /\ pc' = "idle" /\ call' = NoCall /\ data' = <<>>
        /\ UNCHANGED <<hardware, current_bus, faults, in_time, io, buf, tmp, requests, content>>

-----------------------------------------------------------------------------
(* dev_fs_node::read and ::write of a block node, i_block_device. *)

memcpy(to, at, from, skip, len) ==
    [k \in DOMAIN to |-> IF k > at /\ k <= at + len THEN from[k - at + skip] ELSE to[k]]

\* What follows a part of the transfer.  Faulty variant: the tail is lost.
NextPhase_no_tail(remain, success) ==
    IF remain > SECTOR_SIZE /\ success THEN "main" ELSE "finished"
NextPhase(remain, success) ==
    CASE remain > SECTOR_SIZE /\ success -> "main"
      [] remain <= SECTOR_SIZE /\ remain > 0 /\ success -> "tail"
      [] OTHER -> "finished"

\* Faulty variant: only the start of the range is compared.
InBounds_start(node, base, up) == base < up /\ base <= node.last
InBounds(node, base, up) == base < up /\ up <= node.last

NewBytes(n) == [k \in 1 .. n |-> -(10 * (requests + 1) + k)]

start(r) ==
    /\ Booted /\ pc = "idle" /\ io.phase = "idle" /\ requests < MaxRequests
    /\ r.node \in DOMAIN nodes[r.drive]
    /\ LET node == nodes[r.drive][r.node]
           base == node.first + r.offset
           new == NewBytes(r.length)
       IN  /\ InBounds(node, base, base + r.length)
           /\ io' = [op |-> r.op, drive |-> r.drive, base |-> base, length |-> r.length,
                     base_block |-> base \div SECTOR_SIZE, skip_bytes |-> base % SECTOR_SIZE,
                     remain |-> r.length, position |-> 0, success |-> TRUE, limit |-> node,
                     phase |-> IF base % SECTOR_SIZE > 0 THEN "head"
                               ELSE NextPhase(r.length, TRUE)]
           /\ buf' = IF r.op = "write" THEN new ELSE [k \in 1 .. r.length |-> Garbage]
           /\ content' = IF r.op = "read" THEN content
                ELSE [content EXCEPT ![r.drive] = [a \in DOMAIN @ |->
                        IF a >= base /\ a < base + r.length /\ a < node.last
                        THEN new[a - base + 1] ELSE @[a]]]
    /\ tmp' = NoBytes
    /\ requests' = requests + 1
    /\ in_time' = \A d \in Drive : Bus(d) = Bus(r.drive) => Resting(d)
    /\ UNCHANGED <<hardware, current_bus, has_lba48, call, data, pc, faults, nodes, booted>>

\* read_block or write_block of the part the transfer is at.
block_command ==
    /\ io.phase \in {"head", "head_write", "main", "tail", "tail_write"}
    /\ LET writes == io.phase \in {"head_write", "tail_write"}
                        \/ (io.phase = "main" /\ io.op = "write")
       IN  run_command(io.drive, IF writes THEN "write" ELSE "read", io.base_block,
                       IF io.phase = "main" THEN SubSeq(buf, io.position + 1, Len(buf)) ELSE tmp,
                       IF io.phase = "main" THEN io.remain \div SECTOR_SIZE ELSE 1)
    /\ UNCHANGED bdVars

\* The command has returned: success is kept up, the block read is in tmp.
Returned == pc = "returned" /\ call.op # "identify"
Success == io.success /\ call.result # -1
BlockRead == IF call.result = -1 THEN tmp ELSE data

back ==
    /\ pc' = "idle" /\ call' = NoCall /\ data' = <<>>
    /\ UNCHANGED <<hardware, current_bus, has_lba48, faults, in_time, nodes, booted, requests,
                   content>>

\* The transfer goes on after n bytes in m blocks.
Advanced(n, m) ==
    [io EXCEPT !.position = @ + n, !.remain = @ - n, !.base_block = @ + m, !.skip_bytes = 0,
               !.success = Success, !.phase = NextPhase(io.remain - n, Success)]

HeadLength == LET room == SECTOR_SIZE - io.skip_bytes
              IN  IF io.remain > room THEN room ELSE io.remain

head ==
    /\ Returned /\ io.phase = "head"
    /\ IF io.op = "read"
       THEN /\ buf' = memcpy(buf, io.position, BlockRead, io.skip_bytes, HeadLength)
            /\ io' = Advanced(HeadLength, 1)
            /\ tmp' = BlockRead
       ELSE /\ tmp' = memcpy(BlockRead, io.skip_bytes, buf, io.position, HeadLength)
            /\ io' = [io EXCEPT !.phase = "head_write", !.success = Success]
            /\ UNCHANGED buf
    /\ back

head_write ==
    /\ Returned /\ io.phase = "head_write"
    /\ io' = Advanced(HeadLength, 1)
    /\ UNCHANGED <<buf, tmp>>
    /\ back

main ==
    /\ Returned /\ io.phase = "main"
    /\ io' = IF Success THEN Advanced(call.result * SECTOR_SIZE, call.result)
             ELSE [io EXCEPT !.success = FALSE, !.phase = "finished"]
    /\ buf' = IF io.op = "read" /\ call.result # -1
              THEN memcpy(buf, io.position, data, 0, call.result * SECTOR_SIZE) ELSE buf
    /\ UNCHANGED tmp
    /\ back

tail ==
    /\ Returned /\ io.phase = "tail"
    /\ IF io.op = "read"
       THEN /\ buf' = memcpy(buf, io.position, BlockRead, io.skip_bytes, io.remain)
            /\ io' = [io EXCEPT !.phase = "finished", !.success = Success]
            /\ tmp' = BlockRead
       ELSE /\ tmp' = memcpy(BlockRead, 0, buf, io.position, io.remain)
            /\ io' = [io EXCEPT !.phase = "tail_write", !.success = Success]
            /\ UNCHANGED buf
    /\ back

tail_write ==
    /\ Returned /\ io.phase = "tail_write"
    /\ io' = [io EXCEPT !.phase = "finished", !.success = Success]
    /\ UNCHANGED <<buf, tmp>>
    /\ back

finish ==
    /\ io.phase = "finished"
    /\ io' = NoIo /\ buf' = <<>> /\ tmp' = NoBytes
    /\ UNCHANGED <<ataVars, nodes, booted, requests, content>>

-----------------------------------------------------------------------------
Init ==
    /\ AtaInit
    /\ nodes = [d \in Drive |-> <<>>]
    /\ booted = <<>>
    /\ io = NoIo /\ buf = <<>> /\ tmp = NoBytes /\ requests = 0
    /\ content = [d \in Drive |-> FirstContent(d)]

\* The kernel's steps: everything but the drives and the callers' requests.
Kernel ==
    \/ identify \/ identified \/ block_command
    \/ head \/ head_write \/ main \/ tail \/ tail_write \/ finish
    \/ Driver /\ UNCHANGED bdVars

Next ==
    \/ Kernel
    \/ \E r \in Request : start(r)
    \/ Drives /\ UNCHANGED bdVars

\* A call runs in the kernel until it returns, and a busy drive comes to an end.
Fairness ==
    /\ WF_vars(Kernel)
    /\ \A d \in Drive : WF_vars(drive_ready(d) /\ UNCHANGED bdVars)

Spec == Init /\ [][Next]_vars /\ Fairness

-----------------------------------------------------------------------------
(* Properties *)

\* While the drives answer in time, a read that reports success has delivered
\* exactly the bytes asked for, whatever the alignment, the split into blocks
\* and the addressing mode (i_block_device::read, run_command).
ReadDeliversContent ==
    io.phase = "finished" /\ io.op = "read" /\ io.success /\ faults = 0 =>
        \A k \in 1 .. io.length : buf[k] = content[io.drive][io.base + k - 1]

\* While the drives answer in time, a write has changed the bytes asked for on
\* the drive asked for, and nothing else on any drive: the blocks it shares
\* with its neighbours keep their bytes, and nothing behind the end of the
\* partition it came through changes (i_block_device::write, dev_fs_node::write).
WriteChangesOnlyRange ==
    io.phase = "finished" /\ io.success /\ faults = 0 => disk = content

\* Whatever the drives did before: a request that begins when the drives of its
\* bus are idle again, and none of whose waits gives up, changes no other drive
\* than its own (select_drive).  Once a wait has given up the drive in use may
\* ignore the selector, and the bytes of one drive are written to the other.
DrivesKeptApart ==
    [][in_time => \A d \in Drive : disk'[d] # disk[d] => d = io.drive]_vars

\* A request comes back, after late answers and errors too, because a wait for a
\* drive that waits for the kernel gives up (wait_while_status), as long as its
\* whole blocks fit into one command.  If they do not, the count comes to 0 in
\* the end (Masked) and the loop over the blocks goes on for ever.
Fits == io.remain \div SECTOR_SIZE
          < (IF has_lba48[io.drive] THEN CountBase * CountBase ELSE CountBase)
RequestsReturn == io.phase # "idle" /\ Fits ~> io.phase = "idle"
=============================================================================
