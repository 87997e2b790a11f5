-------------------------------- MODULE Fat --------------------------------
(***************************************************************************)
(* A file on a FAT12/16 volume: lookup in the root directory, and the      *)
(* reads and writes of fat_fs_node through fat_fs::cluster_io, for every   *)
(* allocation table with a well-formed chain for the file.                 *)
(*                                                                         *)
(* Clusters are numbered by node: number c of the allocation table is node *)
(* c - 2 + add, where add is the length of the root directory.  successor  *)
(* converts back; has_successor, is_free, is_defect and is_end do not, and *)
(* look at the table's entry of cluster c + add.  What lies behind the     *)
(* table in memory may be anything.  The container is a device node, which *)
(* drops an access that is not inside its bounds (BlockDevice).            *)
(***************************************************************************)
EXTENDS Integers, Sequences, FiniteSets

CONSTANTS
    bytes_per_sector, sector_per_cluster, reserved_sectors, sectors_per_fat,
    fat_copies, max_dir_entrys_in_root,     \* the boot sector
    DirEntrySize,       \* sizeof(fat_directory_entry_t), 32 in the code
    LastCluster,        \* clusters 2 .. LastCluster hold data
    TableEntries,       \* entries the table in memory has room for
    Word,               \* 2^32 in the code: lengths wrap around there
    MaxOffset,          \* bound: how far the handle's offset goes
    Lengths,            \* bound: lengths a program asks for
    MaxTransfers,       \* bound: reads and writes
    Behind,             \* bound: values the memory behind the table may hold
    MaxSize             \* bound: size of the file

FREE == 0
DEFECT == LastCluster + 1       \* FAT16_DEFECT, larger than every cluster
END == LastCluster + 2          \* FAT16_END
Values == {FREE, DEFECT, END} \cup 2 .. LastCluster
Clusters == 2 .. LastCluster

cluster_size == bytes_per_sector * sector_per_cluster
norm_node_cluster_add == (max_dir_entrys_in_root * DirEntrySize) \div cluster_size
add == norm_node_cluster_add

ASSUME FatAssumption ==
    /\ {bytes_per_sector, sector_per_cluster, DirEntrySize} \subseteq Nat \ {0}
    /\ {reserved_sectors, sectors_per_fat, fat_copies, max_dir_entrys_in_root,
        LastCluster, TableEntries, Word, MaxOffset, MaxTransfers, MaxSize} \subseteq Nat
    /\ Lengths \subseteq Nat \ {0} /\ Behind \subseteq Nat
    /\ TableEntries > LastCluster
    /\ LastCluster < Word /\ MaxSize < Word   \* 16-bit clusters, 32-bit sizes

VARIABLES
    table,      \* the allocation table
    entry,      \* directory entry of the file: first cluster and size
    disk,       \* the bytes of the volume
    cluster,    \* fat_fs_node::cluster, the file's first node, or Closed
    offset,     \* offset of the file handle
    io,         \* the transfer in progress
    buf,        \* its buffer
    transfers   \* reads and writes so far

vars == <<table, entry, disk, cluster, offset, io, buf, transfers>>

Closed == -1
Untouched == -1
Written(k) == -2 - k

-----------------------------------------------------------------------------
(* The volume as the FAT definition lays it out: what the code should find. *)

base_sector == reserved_sectors + sectors_per_fat * fat_copies
DataStart == base_sector * bytes_per_sector + max_dir_entrys_in_root * DirEntrySize
VolumeSize == DataStart + (LastCluster - 1) * cluster_size

Follower(t, c) == IF c \in Clusters THEN t[c] ELSE END

Chain(t, first) ==
    LET follow[k \in 0 .. LastCluster] ==
            IF k = 0 THEN first ELSE Follower(t, follow[k - 1])
        length == Cardinality({k \in 0 .. LastCluster : follow[k] \in Clusters})
    IN  [k \in 1 .. length |-> follow[k - 1]]

\* Every cluster follows at most one other, and a file of this size has a chain
\* without repetition, as long as it needs.
WellFormed(t, e) ==
    LET chain == Chain(t, e.cluster)
    IN  /\ \A c, d \in Clusters : t[c] = t[d] /\ t[c] \in Clusters => c = d
        /\ \A c \in Clusters : t[c] # e.cluster
        /\ \A i, j \in DOMAIN chain : chain[i] = chain[j] => i = j
        /\ t[chain[Len(chain)]] = END
        /\ e.size > (Len(chain) - 1) * cluster_size
        /\ e.size <= Len(chain) * cluster_size

FileByte(k) ==
    LET c == Chain(table, entry.cluster)[(k \div cluster_size) + 1]
    IN  DataStart + (c - 2) * cluster_size + (k % cluster_size)

-----------------------------------------------------------------------------
(* clustertable_t *)

\* The values the memory at an index may hold.
value(i) == IF i \in DOMAIN table THEN {table[i]} ELSE Behind

\* The test, given the value found.
HasSuccessor(v) == v # FREE /\ v # DEFECT /\ v < END

\* has_successor reads at the node's number plus 2.
has_successor(node) == {HasSuccessor(v) : v \in value(node + 2)}

\* Faulty variant: the root directory is not left out.
successor_no_add(node) == {v + add - 2 : v \in value(node + 2)}

successor(node) == {v + add - 2 : v \in value((node - add + 2) % Word)}

-----------------------------------------------------------------------------
(* fat_fs *)

\* The byte a position in a node lies at; the first sector is rounded down to
\* a whole cluster.
Address(node, skip) == (base_sector \div sector_per_cluster + node) * cluster_size + skip

\* single_cluster_io on the container: the bytes it reaches, if any.
Reached(node, skip, length) ==
    LET base == Address(node, skip)
    IN  IF skip + length <= cluster_size /\ length > 0 /\ base + length <= VolumeSize
        THEN base .. base + length - 1 ELSE {}

NoIo == [phase |-> "idle", op |-> "none", asked |-> 0, length |-> 0, remain |-> 0,
         position |-> 0, skip_clusters |-> 0, skip_bytes |-> 0, cluster |-> 0]

\* entry_by_name in the root directory, node 0: its clusters are counted by the
\* table, so that it looks empty when the entry of cluster 2 is free.
open_subnode ==
    /\ cluster = Closed
    /\ \E v \in value(2) : v # FREE /\ v # DEFECT
    /\ cluster' = entry.cluster - 2 + add
    /\ offset' = 0
    /\ UNCHANGED <<table, entry, disk, io, buf, transfers>>

\* Faulty variant: the end of the file is not looked at.
Clamped_not(length) == length

\* fat_fs_node cuts the length off at the end of the file, modulo the word size.
Clamped(length) ==
    IF offset + length > entry.size THEN (entry.size - offset) % Word ELSE length

start(op, length) ==
    /\ cluster # Closed /\ io.phase = "idle" /\ offset + length <= MaxOffset
    /\ transfers < MaxTransfers /\ transfers' = transfers + 1
    /\ io' = [phase |-> "skip", op |-> op, asked |-> length, length |-> Clamped(length),
              remain |-> Clamped(length), position |-> 0,
              skip_clusters |-> offset \div cluster_size,
              skip_bytes |-> offset % cluster_size, cluster |-> cluster]
    /\ buf' = [k \in 0 .. Word - 1 |-> IF op = "write" THEN Written(k) ELSE Untouched]
    /\ UNCHANGED <<table, entry, disk, cluster, offset>>

skip_cluster ==
    /\ io.phase = "skip" /\ io.skip_clusters > 0
    /\ \/ /\ TRUE \in has_successor(io.cluster)
          /\ \E next \in successor(io.cluster) :
                io' = [io EXCEPT !.skip_clusters = @ - 1, !.cluster = next]
       \/ /\ FALSE \in has_successor(io.cluster)
          /\ io' = [io EXCEPT !.phase = "done"]
    /\ UNCHANGED <<table, entry, disk, cluster, offset, buf, transfers>>

\* Faulty variant: the part in the first cluster is not shortened.
PieceLength_whole == IF io.remain > cluster_size THEN cluster_size ELSE io.remain

\* One turn of the loop, and the step to the next cluster.
PieceLength == LET room == cluster_size - io.skip_bytes
               IN  IF io.remain > room THEN room ELSE io.remain

cluster_io ==
    /\ io.phase = "skip" /\ io.skip_clusters = 0
    /\ LET len == PieceLength
           reached == IF io.length = 0 THEN {} ELSE Reached(io.cluster, io.skip_bytes, len)
           base == Address(io.cluster, io.skip_bytes)
           remain == io.remain - len
           moved(next) == [io EXCEPT !.skip_bytes = 0, !.remain = remain,
                                     !.position = @ + len, !.cluster = next]
       IN  /\ IF io.op = "read"
              THEN /\ buf' = [k \in DOMAIN buf |->
                        IF base + k - io.position \in reached
                        THEN disk[base + k - io.position] ELSE buf[k]]
                   /\ UNCHANGED disk
              ELSE /\ disk' = [a \in DOMAIN disk |->
                        IF a \in reached THEN buf[a - base + io.position] ELSE disk[a]]
                   /\ UNCHANGED buf
           /\ \/ /\ remain > 0 /\ TRUE \in has_successor(io.cluster)
                 /\ \E next \in successor(io.cluster) : io' = moved(next)
              \/ /\ remain = 0 \/ FALSE \in has_successor(io.cluster)
                 /\ io' = [moved(io.cluster) EXCEPT !.phase = "done"]
    /\ UNCHANGED <<table, entry, cluster, offset, transfers>>

\* filehandle::read and ::write: the offset moves by what was asked for.
finish ==
    /\ io.phase = "done"
    /\ offset' = offset + io.asked
    /\ io' = NoIo
    /\ buf' = <<>>
    /\ UNCHANGED <<table, entry, disk, cluster, transfers>>

\* filehandle::seek to a place before the end of the file.
seek(to) ==
    /\ cluster # Closed /\ io.phase = "idle" /\ to < entry.size
    /\ offset' = to
    /\ UNCHANGED <<table, entry, disk, cluster, io, buf, transfers>>

-----------------------------------------------------------------------------
Init ==
    /\ entry \in [cluster : Clusters, size : 1 .. MaxSize]
    /\ table \in {[i \in 0 .. TableEntries - 1 |->
                      CASE i \in DOMAIN t -> t[i] [] i = 1 -> END [] OTHER -> FREE] :
                    t \in [Clusters -> Values]}
    /\ WellFormed(table, entry)
    /\ disk = [a \in 0 .. VolumeSize - 1 |-> a]
    /\ cluster = Closed /\ offset = 0 /\ io = NoIo /\ buf = <<>> /\ transfers = 0

Next ==
    \/ open_subnode
    \/ \E op \in {"read", "write"}, length \in Lengths : start(op, length)
    \/ \E to \in 0 .. MaxOffset : seek(to)
    \/ skip_cluster \/ cluster_io \/ finish

Spec == Init /\ [][Next]_vars

-----------------------------------------------------------------------------
(* Properties *)

\* The root directory is a whole number of clusters behind a whole number of
\* clusters (single_cluster_io and norm_node_cluster_add round down).
Aligned ==
    /\ base_sector % sector_per_cluster = 0
    /\ (max_dir_entrys_in_root * DirEntrySize) % cluster_size = 0

\* The entry has_successor looks at says of every cluster of the file what the
\* cluster's own entry says.
TestsAgree ==
    LET chain == Chain(table, entry.cluster)
    IN  \A k \in DOMAIN chain :
          /\ chain[k] + add \in DOMAIN table
          /\ HasSuccessor(table[chain[k] + add]) = HasSuccessor(table[chain[k]])

InFile(k) == offset + k < entry.size

\* Whatever the table says elsewhere, a transfer from inside the file moves
\* only bytes of the file, each from or to its own place, and none behind the
\* length that was asked for (cluster_io, fat_fs_node::read).
OnlyFileBytes ==
    io.phase = "done" /\ io.op = "read" /\ Aligned /\ offset <= entry.size =>
        \A k \in DOMAIN buf :
            buf[k] # Untouched => k < io.asked /\ InFile(k) /\ buf[k] = disk[FileByte(offset + k)]

\* A write, too, changes only bytes of the file (cluster_io, fat_fs_node::write).
WritesStayInFile ==
    [][\A a \in DOMAIN disk : disk'[a] # disk[a] /\ Aligned /\ offset <= entry.size =>
         \E k \in 0 .. io.asked - 1 : InFile(k) /\ a = FileByte(offset + k)]_vars

\* Nothing is left out when the entries the code tests agree with the chain.
WholeRange ==
    io.phase = "done" /\ io.op = "read" /\ Aligned /\ offset <= entry.size /\ TestsAgree =>
        \A k \in 0 .. io.asked - 1 : InFile(k) => buf[k] = disk[FileByte(offset + k)]
=============================================================================
