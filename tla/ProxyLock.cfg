CONSTANTS
    c1 = c1
    c2 = c2
    c3 = c3
    u1 = u1
    u2 = u2
    u3 = u3
    o1 = o1
    o2 = o2
    o3 = o3
    Conn <- MCConn
    Uri <- MCUri
    Obj <- MCTwoObj
    Size <- MCSize
    NULL = NULL
    MaxCache = 3
    MaxObject = 2
SPECIFICATION Spec
\* A fault ends the program.
CHECK_DEADLOCK FALSE
INVARIANTS
    LockExcludes
