--------------------------- MODULE MCBlockDevice ---------------------------
(* Two drives on one bus: hda with 48-bit addresses and two partitions, hdb *)
(* without and with one.  The longest requests, of 5 whole blocks to hda    *)
(* and of 2 to hdb, are more than one command of each can take.             *)
EXTENDS BlockDevice

MCBus(d) == "primary"
MCMaster(d) == d = "hda"
MCLba48(d) == d = "hda"
MCSectors(d) == IF d = "hda" THEN 6 ELSE 4
MCBootOrder == <<"hda", "hdb">>

Unused == [type |-> "unused", first_sector |-> 0, sector_count |-> 0]
Fat(first, count) == [type |-> "fat16", first_sector |-> first, sector_count |-> count]
Extended(first) == [type |-> "extended", first_sector |-> first, sector_count |-> 1]
MCTable(d, address) ==
    CASE d = "hda" /\ address = 0 -> <<Fat(1, 2), Unused, Extended(3), Fat(4, 2)>>
      [] d = "hda" /\ address = 3 -> <<Fat(0, 1), Extended(1), Unused, Unused>>
      [] d = "hdb" /\ address = 0 -> <<Fat(1, 3), Unused, Unused, Unused>>
      [] OTHER -> <<Unused, Unused, Unused, Unused>>

MCRequest ==
    LET at(drive, node, offset, length) ==
            [op : {"read", "write"}, drive : {drive}, node : {node},
             offset : offset, length : length]
    IN  at("hda", 1, {0, 1}, {7, 11}) \cup at("hda", 2, {1, 3}, {3})
          \cup at("hda", 4, {0}, {4}) \cup at("hdb", 2, {0}, {5}) \cup at("hdb", 2, {1}, {3})
=============================================================================
