----------------------------- MODULE MCSparseMem -----------------------------
EXTENDS SparseMem
MCByte == {0, 1}

\* A word and a byte.
MCLengths == {3}

\* In two steps to the limit, beyond it, and backwards.
MCIncrements == {-1, 3}

\* What happens next does not depend on the last call.
MCView == mem
=============================================================================
