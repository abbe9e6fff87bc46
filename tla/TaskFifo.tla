------------------------------ MODULE TaskFifo ------------------------------
(***************************************************************************)
(* What facil.io promises of deferred tasks, without blocks and locks: a   *)
(* queue gives its tasks in the order they were pushed, each to one thread *)
(* and once.                                                               *)
(***************************************************************************)
EXTENDS Sequences

CONSTANTS
  Queues,      \* the queues
  Performers,  \* the threads that perform tasks
  Tasks,       \* the tasks
  NoTask       \* no task

VARIABLES
  pending,  \* the tasks of each queue
  running   \* the task each thread runs, or NoTask

fvars == <<pending, running>>

Init ==
  /\ pending \in [Queues -> Seq(Tasks)]
  /\ running = [p \in Performers |-> NoTask]

Push(q, k) ==
  /\ pending' = [pending EXCEPT ![q] = Append(@, k)]
  /\ UNCHANGED running

Take(p, q) ==
  /\ running[p] = NoTask
  /\ pending[q] # <<>>
  /\ running' = [running EXCEPT ![p] = Head(pending[q])]
  /\ pending' = [pending EXCEPT ![q] = Tail(@)]

Finish(p) ==
  /\ running[p] # NoTask
  /\ running' = [running EXCEPT ![p] = NoTask]
  /\ UNCHANGED pending

(* A task that ends by pushing itself again.                               *)
FinishAgain(p, q) ==
  /\ running[p] # NoTask
  /\ running' = [running EXCEPT ![p] = NoTask]
  /\ pending' = [pending EXCEPT ![q] = Append(@, running[p])]

Next ==
  \/ \E q \in Queues, k \in Tasks : Push(q, k)
  \/ \E p \in Performers, q \in Queues : Take(p, q) \/ FinishAgain(p, q)
  \/ \E p \in Performers : Finish(p)

Spec == Init /\ [][Next]_fvars
=============================================================================
