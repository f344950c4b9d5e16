CONSTANTS
    i1 = i1
    i2 = i2
    i3 = i3
    Index <- MCIndex
    Request <- MCRequest
    ChunkSize = 4
    MaxHeap = 12
SPECIFICATION Spec
SYMMETRY MallocSymmetry
INVARIANTS
    BlocksTile
    FlagsTell
    ListsExact
    PayloadsKept
    DriverAccepts
PROPERTIES
    OnlyHeapEndFails
