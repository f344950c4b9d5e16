-------------------------------- MODULE MCTsh --------------------------------
EXTENDS TshRefinement, TLC

CONSTANTS p1, p2

MCPid == {p1, p2}
PidSymmetry == Permutations(MCPid)
=============================================================================
