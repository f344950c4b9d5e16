----------------------------- MODULE MCRangeSet -----------------------------
EXTENDS RangeSet
MCKey == 1 .. 5
=============================================================================
