-------------------------- MODULE MCUpstreamSetup --------------------------
EXTENDS UpstreamSetup, TLC

CONSTANTS i1, i2

Swap == Permutations(Clients)
=============================================================================
