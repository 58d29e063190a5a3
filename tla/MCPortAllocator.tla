--------------------------- MODULE MCPortAllocator ---------------------------
EXTENDS PortAllocator, TLC

\* Two tenants suffice for every collision; they are interchangeable.
TenantSymmetry == Permutations(Tenants)
=============================================================================
