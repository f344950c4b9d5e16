------------------------------ MODULE MCCacheSim ------------------------------
EXTENDS CacheSim

\* One set of byte blocks, two sets, and blocks of two bytes; one to three lines.
MCArguments == [s : {0}, E : {1, 2, 3}, b : {0}] \cup [s : {1}, E : {2}, b : {0, 1}]
MCAddr == 0 .. 3

\* What the stack held: the value the subtraction in main makes up for, and another.
MCJunk == {[hits |-> 0, misses |-> 0, evictions |-> 0, dirty_bytes |-> 0, dirty_evictions |-> g] : g \in {0, 1}}
=============================================================================
