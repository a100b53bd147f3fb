-------------------------- MODULE MCQuerySnapshots --------------------------
EXTENDS QuerySnapshots, TLC

CONSTANTS r1, r2, q1

ReaderSymmetry == Permutations({r1, r2})
=============================================================================
