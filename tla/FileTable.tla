----------------------------- MODULE FileTable -----------------------------
(***************************************************************************)
(* What the file system calls promise to a program, whatever lies below:   *)
(* a process has a table of descriptors, each denotes an open description  *)
(* with a position; open adds a description nobody else has, fork copies   *)
(* the table and shares the descriptions, and moving the position through  *)
(* one descriptor moves it for everyone who shares the description, and    *)
(* for nobody else.                                                        *)
(***************************************************************************)
EXTENDS Integers

CONSTANTS Process, Handle, NULL, MaxFd

VARIABLES table, position, alive

vars == <<table, position, alive>>

Fd == 0 .. MaxFd - 1

\* The descriptions some process can reach.
Reachable == {h \in Handle : \E p \in alive, fd \in Fd : table[p][fd] = h}

\* The parent of all processes starts with the console's descriptors.
Init ==
    \E p \in Process :
        /\ alive = {p}
        /\ position \in [Handle -> {0}]
        /\ table \in [Process -> [Fd -> Handle \cup {NULL}]]
        /\ \A q \in Process \ {p}, fd \in Fd : table[q][fd] = NULL
        /\ \A fd, gd \in Fd :
               table[p][fd] # NULL /\ table[p][fd] = table[p][gd] => fd = gd

Open(p) ==
    \E fd \in Fd, h \in Handle :
        /\ table[p][fd] = NULL
        /\ h \notin Reachable
        /\ table' = [table EXCEPT ![p][fd] = h]
        /\ position' = [position EXCEPT ![h] = 0]
        /\ UNCHANGED alive

Close(p) ==
    \E fd \in Fd :
        /\ table[p][fd] # NULL
        /\ table' = [table EXCEPT ![p][fd] = NULL]
        /\ \A h \in Reachable' : position'[h] = position[h]
        /\ UNCHANGED alive

Fork(p) ==
    \E c \in Process \ alive :
        /\ table' = [table EXCEPT ![c] = table[p]]
        /\ alive' = alive \cup {c}
        /\ UNCHANGED position

Move(p) ==
    \E fd \in Fd :
        /\ table[p][fd] # NULL
        /\ \A h \in Reachable \ {table[p][fd]} : position'[h] = position[h]
        /\ UNCHANGED <<table, alive>>

Next == \E p \in alive : Open(p) \/ Close(p) \/ Fork(p) \/ Move(p)

Spec == Init /\ [][Next]_vars
=============================================================================
