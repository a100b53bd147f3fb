-------------------------- MODULE MCTanstackClient --------------------------
EXTENDS TanstackClient

CONSTANTS k1, k2, v1, v2
=============================================================================
