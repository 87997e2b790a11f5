------------------------------- MODULE Files -------------------------------
(***************************************************************************)
(* The virtual file system and the file calls: nodes with their use        *)
(* counts, the map of open nodes, the mount map, file handles, and the     *)
(* descriptor tables of the processes, which fork copies.                  *)
(*                                                                         *)
(* A path is the sequence of its tokens, as clean_path leaves them.  A     *)
(* node or a handle is an object behind shared pointers; it is destroyed   *)
(* (becomes NoNode, NoHandle) when nothing points to it any more.          *)
(* The code reads find(x)->second without comparing with end(); for a key  *)
(* that is not in the map it relies on a null pointer, and so does the     *)
(* model.  A system call runs with interrupts off: one step each.          *)
(***************************************************************************)
EXTENDS Integers, Sequences, FiniteSets, Functions

CONSTANTS
    Process, Process0,      \* processes; the first one opens the console
    Node, Handle,           \* names for node and file handle objects
    NULL,
    Path,                   \* the token sequences that are looked up
    TtyPath, BlockPath,     \* the nodes of the device file system
    FatDir, FatFile,        \* the directories and files of the FAT volume
    Program,                \* the FAT files that start with the ELF magic
    Container,              \* the node the FAT volume is mounted from
    DummyRoot, DevRoot,     \* the root nodes boot makes
    StdPath, StdNode, StdHandle,    \* sequences: what boot opens, in order
    MaxFd, MaxUses, MaxOffset   \* bounds of the model

ASSUME NullAssumption == NULL \notin Process \cup Node \cup Handle
ASSUME ProcessAssumption == Process0 \in Process
ASSUME BoundAssumption == MaxFd \in Nat /\ MaxUses \in Nat /\ MaxOffset \in Nat
ASSUME BootAssumption ==
    /\ StdPath \in Seq(TtyPath) /\ StdNode \in Seq(Node) /\ StdHandle \in Seq(Handle)
    /\ Len(StdNode) = Len(StdPath) /\ Len(StdHandle) = Len(StdPath) /\ Len(StdPath) <= MaxFd
    /\ \A i, j \in 1 .. Len(StdPath) :
          StdPath[i] = StdPath[j] \/ StdNode[i] = StdNode[j] \/ StdHandle[i] = StdHandle[j]
              => i = j
    /\ {DummyRoot, DevRoot} \subseteq Node /\ DummyRoot # DevRoot
    /\ {DummyRoot, DevRoot} \cap {StdNode[i] : i \in 1 .. Len(StdPath)} = {}

Root == <<>>
Dev == <<"dev">>
ASSUME PathAssumption ==
    /\ Path \subseteq Seq(STRING) /\ TtyPath \subseteq Path
    /\ {Root, Dev, Container} \subseteq Path

Fd == 0 .. MaxFd - 1

VARIABLES
    node,           \* what each node object holds: path, kind, uses
    open_nodes,     \* path -> open node (i_fs::open_nodes)
    container,      \* node the mounted FAT volume reads from, NULL before
    mounted,        \* path -> root node (i_fs::mounted_filesystems)
    handle,         \* what each handle object holds: node, offset
    files,          \* descriptor -> handle of each process
    fd_counter,     \* next descriptor of each process
    alive,          \* processes created so far
    forked,         \* history: paths of the handles fork has shared
    leaked          \* history: paths load_elf left open

mountVars == <<mounted, container>>
vfsVars == <<node, open_nodes, mounted, container>>
handleVars == <<handle, files, fd_counter>>
vars == <<node, open_nodes, mounted, container, handle, files, fd_counter, alive, forked, leaked>>

Kind == {"dummy_root", "dev_root", "fat_root", "tty", "block", "fat_dir", "fat_file"}
Directory == {"dummy_root", "dev_root", "fat_root", "fat_dir"}
NoNode == [path |-> Root, kind |-> "none", uses |-> 0]
NoHandle == [node |-> NULL, offset |-> 0]
NodeRecord == [path : Path, kind : Kind, uses : 0 .. MaxUses] \cup {NoNode}
HandleRecord == [node : Node \cup {NULL}, offset : 0 .. MaxOffset]

TypeOK ==
    /\ node \in [Node -> NodeRecord]
    /\ open_nodes \in [Path -> Node \cup {NULL}]
    /\ mounted \in [Path -> Node \cup {NULL}]
    /\ container \in Node \cup {NULL}
    /\ handle \in [Handle -> HandleRecord]
    /\ files \in [Process -> [Fd -> Handle \cup {NULL}]]
    /\ fd_counter \in [Process -> 0 .. MaxFd]
    /\ alive \subseteq Process /\ Process0 \in alive
    /\ forked \subseteq Path /\ leaked \subseteq Path

-----------------------------------------------------------------------------
(* Looking up a path. *)

\* A node found while a path is walked: an object, or (NULL) one yet to be made.
Found(n) == [node |-> n, kind |-> node[n].kind]
Missing == [node |-> NULL, kind |-> "none"]

\* What a directory's own open_subnode makes of a name in it.
subnode_kind(base, path) ==
    CASE base = "dev_root" /\ path \in TtyPath -> "tty"
      [] base = "dev_root" /\ path \in BlockPath -> "block"
      [] base \in {"fat_root", "fat_dir"} /\ path \in FatDir -> "fat_dir"
      [] base \in {"fat_root", "fat_dir"} /\ path \in FatFile -> "fat_file"
      [] OTHER -> "none"

\* One token of the walk: open nodes first, then mount points, then the directory.
open_subnode(base, fullname) ==
    IF base.kind = "none" THEN Missing
    ELSE IF open_nodes[fullname] # NULL THEN Found(open_nodes[fullname])
    ELSE IF mounted[fullname] # NULL THEN Found(mounted[fullname])
    ELSE [node |-> NULL, kind |-> subnode_kind(base.kind, fullname)]

Walk(path) ==
    LET found[k \in 0 .. Len(path)] ==
            IF k = 0 THEN Found(mounted[Root])
            ELSE open_subnode(found[k - 1], SubSeq(path, 1, k))
    IN  found[Len(path)]

\* The object a constructor makes: any name that is not in use.
FreeNodes == {n \in Node : node[n].kind = "none"}
new_node == CHOOSE n \in FreeNodes : TRUE

\* n is the object open_node(path) returns: the one found, or a new one.
Opens(path, n) ==
    LET found == Walk(path)
    IN  /\ found.kind # "none"
        /\ IF found.node # NULL THEN n = found.node
           ELSE FreeNodes # {} /\ n = new_node

\* Faulty variant: only a new node is counted.
NodeOpened_uncounted(path, n) ==
    IF node[n].kind = "none"
    THEN [path |-> path, kind |-> Walk(path).kind, uses |-> 1]
    ELSE node[n]

\* The effect of open(n): the node is entered in the map and counted.
NodeOpened(path, n) ==
    IF node[n].kind = "none"
    THEN [path |-> path, kind |-> Walk(path).kind, uses |-> 1]
    ELSE [node[n] EXCEPT !.uses = @ + 1]

open(path, n) ==
    /\ node[n].uses < MaxUses
    /\ node' = [node EXCEPT ![n] = NodeOpened(path, n)]
    /\ open_nodes' = [open_nodes EXCEPT ![NodeOpened(path, n).path] = n]

-----------------------------------------------------------------------------
(* Closing a node. *)

\* The objects the maps and the handles h point to, with the entries o of the map.
Referenced(o, hs) ==
    {o[q] : q \in Path} \cup {mounted[q] : q \in Path}
        \cup {handle[h].node : h \in hs} \cup {container}

Reachable(table) == {table[p][fd] : p \in Process, fd \in Fd} \ {NULL}

\* Faulty variants: the count is not looked at; or the last use is missed.
MapAfterClose_always(n) == [open_nodes EXCEPT ![node[n].path] = NULL]
MapAfterClose_late(n) ==
    IF node[n].uses < 1 THEN [open_nodes EXCEPT ![node[n].path] = NULL] ELSE open_nodes

\* The last use erases whatever node the map has under this path.
MapAfterClose(n) ==
    IF node[n].uses <= 1 THEN [open_nodes EXCEPT ![node[n].path] = NULL] ELSE open_nodes

NodesAfterClose(n, table) ==
    LET counted == IF node[n].uses <= 1 THEN node
                   ELSE [node EXCEPT ![n].uses = @ - 1]
        kept == Referenced(MapAfterClose(n), Reachable(table))
    IN  [m \in Node |-> IF m \in kept THEN counted[m] ELSE NoNode]

close_node(n, table) ==
    /\ open_nodes' = MapAfterClose(n)
    /\ node' = NodesAfterClose(n, table)

-----------------------------------------------------------------------------
(* System calls of process p. *)

\* A new handle on node n gets the process's next descriptor.
push_filehandle(p, n) ==
    LET free == Handle \ Reachable(files)
        h == CHOOSE k \in free : TRUE
    IN  /\ free # {}
        /\ handle' = [handle EXCEPT ![h] = [node |-> n, offset |-> 0]]
        /\ files' = [files EXCEPT ![p][fd_counter[p]] = h]
        /\ fd_counter' = [fd_counter EXCEPT ![p] = @ + 1]

open_call(p, path) ==
    /\ fd_counter[p] < MaxFd
    /\ \E n \in Node :
        /\ Opens(path, n)
        /\ open(path, n)
        /\ push_filehandle(p, n)
    /\ UNCHANGED <<mountVars, alive, forked, leaked>>

\* remove_filehandle, and close_node on what it returns.
close_call(p, fd) ==
    LET h == files[p][fd]
        table == [files EXCEPT ![p][fd] = NULL]
    IN  /\ h # NULL
        /\ files' = table
        /\ close_node(handle[h].node, table)
        /\ handle' = [k \in Handle |-> IF k \in Reachable(table) THEN handle[k] ELSE NoHandle]
        /\ UNCHANGED <<mountVars, fd_counter, alive, forked, leaked>>

\* filehandle::read and ::write: the offset moves by the length that was asked for.
transfer_call(p, fd, length) ==
    LET h == files[p][fd]
    IN  /\ h # NULL
        /\ handle[h].offset + length <= MaxOffset
        /\ handle' = [handle EXCEPT ![h].offset = @ + length]
        /\ UNCHANGED <<vfsVars, files, fd_counter, alive, forked, leaked>>

\* filehandle::seek: terminals cannot, others only to below their length.
NodeLength(kind) == IF kind \in {"block", "fat_file"} THEN MaxOffset ELSE 0

SeekTarget(h, offset, direction) ==
    CASE direction = "set" -> offset
      [] direction = "cur" -> handle[h].offset + offset
      [] direction = "end" -> NodeLength(node[handle[h].node].kind) + offset

lseek_call(p, fd, offset, direction) ==
    LET h == files[p][fd]
        to == SeekTarget(h, offset, direction)
    IN  /\ h # NULL
        /\ node[handle[h].node].kind # "tty"
        /\ to >= 0 /\ to < NodeLength(node[handle[h].node].kind)
        /\ handle' = [handle EXCEPT ![h].offset = to]
        /\ UNCHANGED <<vfsVars, files, fd_counter, alive, forked, leaked>>

\* Faulty variant: the child starts to count its descriptors at 0.
copy_filehandles_no_counter(p, c) ==
    /\ files' = [files EXCEPT ![c] = files[p]]
    /\ fd_counter' = fd_counter

\* fork_process: the child gets the parent's handles and its counter.
copy_filehandles(p, c) ==
    /\ files' = [files EXCEPT ![c] = files[p]]
    /\ fd_counter' = [fd_counter EXCEPT ![c] = fd_counter[p]]

fork_call(p) ==
    \E c \in Process \ alive :
        /\ copy_filehandles(p, c)
        /\ alive' = alive \cup {c}
        /\ forked' = forked \cup {node[handle[files[p][fd]].node].path :
                                    fd \in {k \in Fd : files[p][k] # NULL}}
        /\ UNCHANGED <<vfsVars, handle, leaked>>

\* execve on a file that is no program: load_elf returns without closing it.
\* (On a program it opens and closes the node, which leaves everything as it was.)
execve_no_elf(p, path) ==
    /\ path \in FatFile \ Program
    /\ \E n \in Node : Opens(path, n) /\ open(path, n)
    /\ leaked' = leaked \cup {path}
    /\ UNCHANGED <<mountVars, handleVars, alive, forked>>

\* i_fs::mount of the FAT volume at "/": the container's node stays open, the
\* old root goes away unless someone has it open.
mount(p) ==
    /\ p = Process0
    /\ container = NULL
    /\ \E c \in Node, r \in Node :
        /\ Opens(Container, c)
        /\ node[c].uses < MaxUses
        /\ FreeNodes \ {c} # {} /\ r = CHOOSE n \in FreeNodes \ {c} : TRUE
        /\ container' = c
        /\ mounted' = [mounted EXCEPT ![Root] = r]
        /\ open_nodes' = [open_nodes EXCEPT ![Container] = c]
        /\ node' = [n \in Node |->
              CASE n = c -> NodeOpened(Container, c)
                [] n = r -> [path |-> Root, kind |-> "fat_root", uses |-> 0]
                [] n = mounted[Root] /\ n # c /\ open_nodes[Root] # n
                     /\ n \notin {handle[h].node : h \in Reachable(files)} -> NoNode
                [] OTHER -> node[n]]
    /\ leaked' = leaked \cup {Container}
    /\ UNCHANGED <<handleVars, alive, forked>>

-----------------------------------------------------------------------------
StdOf(s, x) == CHOOSE i \in 1 .. Len(s) : s[i] = x

\* Boot: a dummy root, the device file system, and the console's nodes opened
\* by process 0 as its first descriptors.
Init ==
    /\ node = [n \in Node |->
         CASE n = DummyRoot -> [path |-> Root, kind |-> "dummy_root", uses |-> 0]
           [] n = DevRoot -> [path |-> Dev, kind |-> "dev_root", uses |-> 0]
           [] n \in Range(StdNode) ->
                [path |-> StdPath[StdOf(StdNode, n)], kind |-> "tty", uses |-> 1]
           [] OTHER -> NoNode]
    /\ open_nodes = [q \in Path |->
         IF q \in Range(StdPath) THEN StdNode[StdOf(StdPath, q)] ELSE NULL]
    /\ mounted = [q \in Path |->
         CASE q = Root -> DummyRoot [] q = Dev -> DevRoot [] OTHER -> NULL]
    /\ container = NULL
    /\ handle = [h \in Handle |->
         IF h \in Range(StdHandle)
         THEN [node |-> StdNode[StdOf(StdHandle, h)], offset |-> 0] ELSE NoHandle]
    /\ files = [p \in Process |-> [fd \in Fd |->
         IF p = Process0 /\ fd < Len(StdPath) THEN StdHandle[fd + 1] ELSE NULL]]
    /\ fd_counter = [p \in Process |-> IF p = Process0 THEN Len(StdPath) ELSE 0]
    /\ alive = {Process0}
    /\ forked = {} /\ leaked = {}

Call(p) ==
    \/ \E path \in Path : open_call(p, path) \/ execve_no_elf(p, path)
    \/ \E fd \in Fd :
        \/ close_call(p, fd)
        \/ \E length \in 1 .. MaxOffset : transfer_call(p, fd, length)
        \/ \E offset \in -MaxOffset .. MaxOffset, direction \in {"set", "cur", "end"} :
              lseek_call(p, fd, offset, direction)
    \/ fork_call(p)
    \/ mount(p)

Next == \E p \in alive : Call(p)

Spec == Init /\ [][Next]_vars

-----------------------------------------------------------------------------
(* Properties *)

\* The descriptors whose handle refers to node n.
Holders(n) ==
    {d \in Process \X Fd :
        LET h == files[d[1]][d[2]] IN h # NULL /\ handle[h].node = n}

MountRoot(n) == node[n].kind \in {"dummy_root", "dev_root", "fat_root"}

\* Descriptors behave as the abstract table says: open takes a number and a
\* handle nobody has, fork shares handles with their offset, close and seek
\* touch one descriptor (filehandle_holder, filehandle and the dispatcher).
Table == INSTANCE FileTable WITH
            table <- files, position <- [h \in Handle |-> handle[h].offset]
ImplementsFileTable == Table!Spec

\* Unless fork has shared a handle of this path, a node that a descriptor
\* refers to is the node the open map has under its path, so that a second
\* open finds the same object (open_subnode, open, close_node).  The root is
\* left out: open_node takes it from the mount map.
HeldNodesOpen ==
    \A n \in Node : Holders(n) # {} =>
        \/ node[n].path \in forked \cup {Root}
        \/ open_nodes[node[n].path] = n

\* Without fork and a failed exec in between, the use count of an open node is
\* the number of descriptors on it: close_node neither forgets nor repeats one.
UsesCountHolders ==
    \A n \in Node :
        node[n].kind # "none" /\ ~MountRoot(n) /\ node[n].path \notin forked \cup leaked
            => node[n].uses = Cardinality(Holders(n))

\* Whatever is shared and closed in whatever order, no file stays in the open
\* map once its last descriptor is closed, but for the ones that mount and a
\* failed exec leave there on purpose or by mistake.
NothingStaysOpen ==
    \A q \in Path \ leaked :
        open_nodes[q] # NULL /\ ~MountRoot(open_nodes[q]) =>
            \E n \in Node : node[n].path = q /\ Holders(n) # {}
=============================================================================
