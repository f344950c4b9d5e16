CONSTANTS
    p1 = p1
    p2 = p2
    Pid <- MCPid
    NoPid = NoPid
    MAXJOBS = 2
    MaxDepth = 2
SPECIFICATION Spec
SYMMETRY PidSymmetry
\* The shell may exit, and nothing runs after that.
CHECK_DEADLOCK FALSE
INVARIANTS
    TypeOK
    ForegroundIsWaitedFor
    ListAccessIsBlocked
    NoLostChild
    ListedIsUnreaped
    StatesAreAccurate
    EveryChildIsListed
    ExitsAreExplained
PROPERTIES
    ImplementsJobControl
