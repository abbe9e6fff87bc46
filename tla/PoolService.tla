---------------------------- MODULE PoolService ----------------------------
(***************************************************************************)
(* What db_exec's callers rely on from a connection pool, without array,   *)
(* counter or mutex: a thread that wants a connection is granted one that  *)
(* nobody uses, or is refused, and releases it when its query is done.     *)
(***************************************************************************)
CONSTANTS
  Threads,  \* the users of the pool
  Conns,    \* the connections
  Null      \* no connection

VARIABLES
  wanting,  \* the threads that asked and were not answered
  using     \* the connection each thread uses, or Null

svars == <<wanting, using>>

Init ==
  /\ wanting = {}
  /\ using = [t \in Threads |-> Null]

InUse == {using[t] : t \in Threads} \ {Null}

Ask(t) ==
  /\ t \notin wanting
  /\ using[t] = Null
  /\ wanting' = wanting \cup {t}
  /\ UNCHANGED using

Grant(t, c) ==
  /\ t \in wanting
  /\ c \notin InUse
  /\ using' = [using EXCEPT ![t] = c]
  /\ wanting' = wanting \ {t}

Refuse(t) ==
  /\ t \in wanting
  /\ wanting' = wanting \ {t}
  /\ UNCHANGED using

Release(t) ==
  /\ using[t] # Null
  /\ using' = [using EXCEPT ![t] = Null]
  /\ UNCHANGED wanting

Serve == \E t \in Threads : Ask(t) \/ Release(t) \/ \E c \in Conns : Grant(t, c)

Next == Serve \/ \E t \in Threads : Refuse(t)

Spec == Init /\ [][Next]_svars

(* The pool that always has a connection to give.                          *)
ServingSpec == Init /\ [][Serve]_svars
=============================================================================
