----------------------------- MODULE MCConnPool -----------------------------
(* ConnPool for TLC: the threads are interchangeable in Init, Next and the *)
(* invariants, so runs that check no liveness may identify their orders.   *)
EXTENDS ConnPool, TLC

ThreadSymmetry == Permutations(Threads)
=============================================================================
