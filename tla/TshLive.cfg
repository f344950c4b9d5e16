CONSTANTS
    p1 = p1
    p2 = p2
    Pid <- MCPid
    NoPid = NoPid
    MAXJOBS = 1
    MaxDepth = 1
SPECIFICATION FairSpec
\* The shell may exit, and nothing runs after that.
CHECK_DEADLOCK FALSE
INVARIANTS
    PromptTakesSignals
PROPERTIES
    WaitEnds
    ZombiesAreReaped
    CtrlCReaches
