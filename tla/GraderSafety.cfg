CONSTANTS
    Trace = 2
    Sizes <- MCSizes
    Perf <- MCPerf
SPECIFICATION Spec
\* The driver ends.
CHECK_DEADLOCK FALSE
INVARIANTS
    PointsAreFresh
    ForkingShellIsSafe
    SubmissionIsCorrect
PROPERTIES
    TimeoutsEndGrading
