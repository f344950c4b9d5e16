CONSTANTS
    PageSize = 2
    NumPages = 2
    NumBuckets = 2
    MaxHeap = 6
    Word = 2
    Byte <- MCByte
    None = None
    Lengths <- MCLengths
    Increments <- MCIncrements
SPECIFICATION Spec
VIEW MCView
\* The program may end.
CHECK_DEADLOCK FALSE
PROPERTIES
    ImplementsFlatMemory
