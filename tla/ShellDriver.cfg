CONSTANTS
    Traces <- MCTraces
    Students = {"good", "dies", "hangs", "mute", "odd", "lazy", "stays", "zombies"}
    ITERS = 2
SPECIFICATION Spec
INVARIANTS
    GradeTellsShells
    HandshakesMeet
    StraysOnlyWhenInterrupted
PROPERTIES
    GradingEnds
\* sdriver ends.
CHECK_DEADLOCK FALSE
