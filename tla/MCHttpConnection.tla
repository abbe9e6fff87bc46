------------------------- MODULE MCHttpConnection --------------------------
EXTENDS HttpConnection, TLC

CONSTANTS t1, t2

ThreadSymmetry == Permutations({t1, t2})
=============================================================================
