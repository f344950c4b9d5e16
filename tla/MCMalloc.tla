------------------------------- MODULE MCMalloc -------------------------------
EXTENDS MallocDriver, TLC

CONSTANTS i1, i2, i3

MCIndex == {i1, i2, i3}

\* Blocks of 2 and of 6 words; splits leave any even size.
MCRequest == {8, 32}

MallocSymmetry == Permutations(MCIndex)
=============================================================================
