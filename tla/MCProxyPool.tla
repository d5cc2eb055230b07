---------------------------- MODULE MCProxyPool ----------------------------
EXTENDS ProxyPool, TLC

CONSTANTS p1, p2, p3, p4, t1, t2

\* All addresses are crawled in canonical form.
CanonIdentity == [p \in Proxies |-> p]

\* p2 is p1 with a leading zero in front of the port.
CanonAlias == [p \in Proxies |-> IF p = p2 THEN p1 ELSE p]

\* Testers are interchangeable.
TesterSymmetry == Permutations(Testers)
=============================================================================
