CONSTANTS
    Arguments <- MCArguments
    Addr <- MCAddr
    Junk <- MCJunk
    MaxAccesses = 6
SPECIFICATION Spec
\* The trace ends.
CHECK_DEADLOCK FALSE
INVARIANTS
    IsLRU
    DraftFindsVictim
PROPERTIES
    ImplementsCache
