------------------------------- MODULE MCProxy -------------------------------
EXTENDS Proxy, TLC

CONSTANTS c1, c2, c3, u1, u2, u3, o1, o2, o3

MCConn == {c1, c2}
MCThreeConn == {c1, c2, c3}
MCUri == {u1, u2, u3}
MCObj == {o1, o2, o3}
MCTwoObj == {o1, o2}
MCOneObj == {o1}

\* No response fits the cache as a whole; one that is cut short gives an object
\* of any smaller length, as a smaller response would.
MCSize == [u \in MCUri |-> 3]

\* For liveness: every request is for the same uri, whose response fits the
\* cache only when it is cut short.
MCOneUri == {u3}
MCOneSize == (u3 :> 2)

ProxySymmetry == Permutations(MCConn) \cup Permutations(MCObj) \cup Permutations(MCUri)
=============================================================================
