-------------------------- MODULE MCGatewayThreads --------------------------
EXTENDS GatewayThreads, TLC

CONSTANTS t1, t2, p1, p2

\* Worker threads and product codes are interchangeable.
GatewaySymmetry == Permutations({t1, t2}) \cup Permutations({p1, p2})
=============================================================================
