------------------------------- MODULE MCGrader -------------------------------
EXTENDS Grader

\* A square size that takes the blocked path and one that does not.
MCSizes == <<<<2, 3>>, <<32, 32>>>>
MCPerf == <<<<32, 32>>>>
=============================================================================
