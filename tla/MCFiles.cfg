SPECIFICATION Spec
CONSTANTS
    Process = {p0, p1}
    Process0 = p0
    Node = {n1, n2, n3, n4, n5}
    Handle = {h1, h2}
    NULL = NULL
    Path <- MCPath
    TtyPath <- MCTty
    BlockPath <- MCBlock
    FatDir <- MCFatDir
    FatFile <- MCFatFile
    Program = {}
    Container <- MCContainer
    DummyRoot = n1
    DevRoot = n2
    StdPath <- MCStdPath
    StdNode <- MCStdNode
    StdHandle <- MCStdHandle
    n3 = n3
    h1 = h1
    MaxFd = 3
    MaxUses = 2
    MaxOffset = 1
INVARIANTS
    HeldNodesOpen
    UsesCountHolders
    NothingStaysOpen
PROPERTIES
    ImplementsFileTable
CHECK_DEADLOCK FALSE
