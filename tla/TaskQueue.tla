----------------------------- MODULE TaskQueue ------------------------------
(***************************************************************************)
(* The task queues of facil.io (fio.c) and the threads that fio_start      *)
(* runs on them.                                                           *)
(*                                                                         *)
(* A queue is a chain of blocks from reader to writer.  A block is a ring; *)
(* when the writer's is full another is appended: the queue's static one   *)
(* when it is out of use (state 2), or one from the heap.  A block whose   *)
(* tasks are all taken leaves the chain; one of the heap is freed after    *)
(* the lock was released.  Push and pop hold the queue's lock throughout,  *)
(* so each is a step; the free is a step of its own.                       *)
(***************************************************************************)
EXTENDS Integers, Sequences, FiniteSets

CONSTANTS
  Threads,     \* the threads of the pool
  Main,        \* the thread that called fio_start
  Heap,        \* addresses that malloc gives
  BlockCount,  \* DEFER_QUEUE_BLOCK_COUNT
  MaxTasks     \* bound: tasks that other tasks push

ASSUME QueueAssumption ==
  /\ IsFiniteSet(Threads) /\ Main \notin Threads
  /\ BlockCount \in Nat \ {0, 1}
  /\ MaxTasks \in Nat
  /\ IsFiniteSet(Heap) /\ Heap \cap {"urgent", "normal", "none"} = {}

VARIABLES
  reader,   \* the block each queue pops from
  writer,   \* the block it pushes to
  block,    \* the blocks
  heap,     \* those of the heap that are allocated
  pc,       \* where each thread is in fio_defer_cycle
  doing,    \* the task it runs
  to_free,  \* the local of fio_defer_pop_task
  pushed,   \* how many tasks were pushed by others
  active    \* fio_data->active

vars == <<reader, writer, block, heap, pc, doing, to_free, pushed, active>>

Queues == {"urgent", "normal"}
Performers == Threads \cup {Main}

(* A queue names its static block as well.                                 *)
Static(q) == q
Blocks == Queues \cup Heap
NoBlock == "none"

(* The tasks: fio_cycle, those that tasks push, fio_cycle_unwind.          *)
Cycle == 0
Unwind == MaxTasks + 1
Tasks == Cycle .. Unwind
NoTask == -1

Fresh(tasks) == [tasks |-> tasks, next |-> NoBlock, write |-> 0, read |-> 0, state |-> 0]
Junk == [n \in 0 .. BlockCount - 1 |-> NoTask]

(* Definitions whose name ends in Bug are as in ConnPool: the definition   *)
(* after it with a mistake, used by no action.                             *)

(* A block that was full is not marked so.                                 *)
Put_NotFullBug(b, k) ==
  [b EXCEPT !.tasks[b.write] = k,
            !.write = (@ + 1) % BlockCount]

(* write goes on before the task is stored.                                *)
Put_AheadBug(b, k) ==
  [b EXCEPT !.tasks[(b.write + 1) % BlockCount] = k,
            !.write = (@ + 1) % BlockCount,
            !.state = IF b.write + 1 = BlockCount THEN 1 ELSE @]

(* The task is stored, and the ring cycled.                                *)
Put(b, k) ==
  [b EXCEPT !.tasks[b.write] = k,
            !.write = (@ + 1) % BlockCount,
            !.state = IF b.write + 1 = BlockCount THEN 1 ELSE @]

Taken(b) ==
  [b EXCEPT !.read = (@ + 1) % BlockCount,
            !.state = IF b.read + 1 = BlockCount THEN 0 ELSE @]

Emptied(b) == [b EXCEPT !.write = 0, !.read = 0, !.state = 0]

Full(b) == b.state # 0 /\ b.write = b.read

(* The block that follows a full one.                                      *)
Successors(q) ==
  IF block[Static(q)].state = 2 THEN {Static(q)} ELSE Heap \ heap

(* fio_defer_push_task_fn.                                                 *)
Push(q, k) ==
  LET w == writer[q] IN
  /\ IF Full(block[w])
     THEN \E n \in Successors(q) :
            /\ block' = [block EXCEPT ![w].next = n,
                                      ![n] = Put(Fresh(block[n].tasks), k)]
            /\ writer' = [writer EXCEPT ![q] = n]
            /\ heap' = heap \cup ({n} \cap Heap)
     ELSE /\ block' = [block EXCEPT ![w] = Put(@, k)]
          /\ UNCHANGED <<writer, heap>>
  /\ UNCHANGED reader

Empty(q) ==
  LET b == block[reader[q]] IN b.write = b.read /\ b.state = 0

(* The reader stays behind in a block of the heap when the writer goes     *)
(* back to the static one.                                                 *)
Leave_ReaderBug(q, b) ==
  LET r == reader[q]
      s == IF block[Static(q)].state = 2 THEN Static(q) ELSE r
  IN
  IF b.next # NoBlock
  THEN /\ reader' = [reader EXCEPT ![q] = b.next]
       /\ block' = [block EXCEPT ![r] = IF r = Static(q)
                                        THEN [b EXCEPT !.state = 2, !.next = NoBlock]
                                        ELSE b]
       /\ UNCHANGED writer
  ELSE /\ writer' = [writer EXCEPT ![q] = s]
       /\ block' = [block EXCEPT ![r] = b,
                                 ![s] = Emptied(@)]
       /\ UNCHANGED reader

(* The queue goes on in the next block, or begins the last one anew: the   *)
(* static one, when that is out of use.                                    *)
Leave(q, b) ==
  LET r == reader[q] IN
  IF b.next # NoBlock
  THEN /\ reader' = [reader EXCEPT ![q] = b.next]
       /\ block' = [block EXCEPT ![r] = IF r = Static(q)
                                        THEN [b EXCEPT !.state = 2, !.next = NoBlock]
                                        ELSE b]
       /\ UNCHANGED writer
  ELSE LET s == IF block[Static(q)].state = 2 THEN Static(q) ELSE r IN
       /\ reader' = [reader EXCEPT ![q] = s]
       /\ writer' = [writer EXCEPT ![q] = s]
       /\ block' = [[block EXCEPT ![r] = b] EXCEPT ![s] = Emptied(@)]

(* fio_defer_pop_task of a queue that is not empty.                        *)
Pop(p, q) ==
  LET r == reader[q]
      b == Taken(block[r])
  IN
  /\ pc[p] = q
  /\ ~Empty(q)
  /\ doing' = [doing EXCEPT ![p] = block[r].tasks[block[r].read]]
  /\ IF b.write = b.read
     THEN Leave(q, b)
     ELSE block' = [block EXCEPT ![r] = b] /\ UNCHANGED <<reader, writer>>
  /\ IF reader'[q] # r /\ r # Static(q)
     THEN pc' = [pc EXCEPT ![p] = "free"] /\ to_free' = [to_free EXCEPT ![p] = r]
     ELSE pc' = [pc EXCEPT ![p] = "run"] /\ UNCHANGED to_free
  /\ UNCHANGED <<heap, pushed, active>>

(* fio_free, after the queue's lock was released.                          *)
Free(p) ==
  /\ pc[p] = "free"
  /\ heap' = heap \ {to_free[p]}
  /\ block' = [block EXCEPT ![to_free[p]] = Fresh(Junk)]
  /\ to_free' = [to_free EXCEPT ![p] = NoBlock]
  /\ pc' = [pc EXCEPT ![p] = "run"]
  /\ UNCHANGED <<reader, writer, doing, pushed, active>>

(* fio_defer_perform: the urgent queue before the other.                   *)
Miss(p, q) ==
  /\ pc[p] = q
  /\ Empty(q)
  /\ pc' = [pc EXCEPT ![p] = IF q = "urgent" THEN "normal" ELSE "check"]
  /\ UNCHANGED <<reader, writer, block, heap, doing, to_free, pushed, active>>

(* A task of the program or of facil.io pushes another.                    *)
Defer(p) ==
  /\ pc[p] = "run"
  /\ pushed < MaxTasks
  /\ pushed' = pushed + 1
  /\ \E q \in Queues : Push(q, pushed')
  /\ UNCHANGED <<pc, doing, to_free, active>>

(* A task returns; fio_cycle looks whether it shall push itself first.     *)
Return(p) ==
  /\ pc[p] = "run"
  /\ IF doing[p] = Cycle /\ active
     THEN pc' = [pc EXCEPT ![p] = "again"] /\ UNCHANGED doing
     ELSE pc' = [pc EXCEPT ![p] = "urgent"] /\ doing' = [doing EXCEPT ![p] = NoTask]
  /\ UNCHANGED <<reader, writer, block, heap, to_free, pushed, active>>

(* fio_cycle pushes itself as an urgent task.                              *)
Again_UrgentBug(p) ==
  /\ pc[p] = "again"
  /\ Push("urgent", Cycle)
  /\ pc' = [pc EXCEPT ![p] = "urgent"]
  /\ doing' = [doing EXCEPT ![p] = NoTask]
  /\ UNCHANGED <<to_free, pushed, active>>

Again(p) ==
  /\ pc[p] = "again"
  /\ Push("normal", Cycle)
  /\ pc' = [pc EXCEPT ![p] = "urgent"]
  /\ doing' = [doing EXCEPT ![p] = NoTask]
  /\ UNCHANGED <<to_free, pushed, active>>

(* A thread that found both queues empty, one after the other, naps for a  *)
(* while (fio_defer_thread_wait), or leaves when the server stops.         *)
Check(p) ==
  /\ p \in Threads
  /\ pc[p] = "check"
  /\ pc' = [pc EXCEPT ![p] = IF active THEN "urgent" ELSE "gone"]
  /\ UNCHANGED <<reader, writer, block, heap, doing, to_free, pushed, active>>

(* fio_stop, by a signal.                                                  *)
Stop ==
  /\ active
  /\ active' = FALSE
  /\ UNCHANGED <<reader, writer, block, heap, pc, doing, to_free, pushed>>

(* The threads are not joined.                                             *)
CleanUp_NoJoinBug ==
  /\ pc[Main] = "join"
  /\ ~active
  /\ Push("normal", Unwind)
  /\ pc' = [pc EXCEPT ![Main] = "urgent"]
  /\ UNCHANGED <<doing, to_free, pushed, active>>

(* fio_worker_cleanup, when the threads were joined: it pushes its own     *)
(* tasks and performs what there is.  (The code does so in several rounds, *)
(* of which the tasks of the first close what connections are still open;  *)
(* here one round pushes one task.)                                        *)
CleanUp ==
  /\ pc[Main] = "join"
  /\ \A t \in Threads : pc[t] = "gone"
  /\ Push("normal", Unwind)
  /\ pc' = [pc EXCEPT ![Main] = "urgent"]
  /\ UNCHANGED <<doing, to_free, pushed, active>>

(* fio_start returns.                                                      *)
End ==
  /\ pc[Main] = "check"
  /\ pc' = [pc EXCEPT ![Main] = "gone"]
  /\ UNCHANGED <<reader, writer, block, heap, doing, to_free, pushed, active>>

(* fio_worker_startup pushes fio_cycle before it makes the threads.        *)
Init ==
  /\ reader = [q \in Queues |-> Static(q)]
  /\ writer = reader
  /\ block = [b \in Blocks |-> IF b = Static("normal")
                              THEN Put(Fresh(Junk), Cycle) ELSE Fresh(Junk)]
  /\ heap = {}
  /\ pc = [p \in Performers |-> IF p = Main THEN "join" ELSE "urgent"]
  /\ doing = [p \in Performers |-> NoTask]
  /\ to_free = [p \in Performers |-> NoBlock]
  /\ pushed = 0
  /\ active = TRUE

Step(p) ==
  \/ \E q \in Queues : Pop(p, q) \/ Miss(p, q)
  \/ Free(p) \/ Return(p) \/ Again(p) \/ Check(p)

Next == (\E p \in Performers : Step(p) \/ Defer(p)) \/ Stop \/ CleanUp \/ End

Spec == Init /\ [][Next]_vars

(* The threads run; none need push a task, and the server need not stop.   *)
FairSpec ==
  /\ Spec
  /\ \A p \in Performers : WF_vars(Step(p))
  /\ WF_vars(CleanUp) /\ WF_vars(End)

-----------------------------------------------------------------------------
(* The tasks of a block, from read to write.                               *)
Held(b) ==
  LET count == IF Full(b) THEN BlockCount ELSE (b.write - b.read) % BlockCount
  IN  [n \in 1 .. count |-> b.tasks[(b.read + n - 1) % BlockCount]]

(* The blocks from r on, n steps behind it.                                *)
Nth(blk, r) ==
  LET at[n \in 0 .. Cardinality(Blocks)] ==
        IF n = 0 THEN r
        ELSE IF at[n - 1] = NoBlock THEN NoBlock ELSE blk[at[n - 1]].next
  IN  at

BlocksFrom(blk, r) ==
  {Nth(blk, r)[n] : n \in 0 .. Cardinality(Blocks)} \ {NoBlock}

(* Their tasks, in the order of the blocks.                                *)
TasksFrom(blk, r) ==
  LET at == Nth(blk, r)
      upto[n \in 0 .. Cardinality(Blocks)] ==
        IF n = 0 THEN Held(blk[r])
        ELSE upto[n - 1] \o IF at[n] = NoBlock THEN <<>> ELSE Held(blk[at[n]])
  IN  upto[Cardinality(Blocks)]

Chain(q) == BlocksFrom(block, reader[q])
Contents(q) == TasksFrom(block, reader[q])
Waiting == [q \in Queues |-> Contents(q)]

(* write and read stay inside the ring, also when a block is full, and the  *)
(* variables keep their types.  A thread at the place where it runs a task *)
(* (or frees a block before, or pushes fio_cycle after) has one, never the *)
(* junk of a slot nothing was put in; elsewhere it has none.               *)
TypeOK ==
  /\ reader \in [Queues -> Blocks] /\ writer \in [Queues -> Blocks]
  /\ block \in [Blocks -> [tasks : [0 .. BlockCount - 1 -> Tasks \cup {NoTask}],
                           next : Blocks \cup {NoBlock},
                           write : 0 .. BlockCount - 1, read : 0 .. BlockCount - 1,
                           state : 0 .. 2]]
  /\ heap \subseteq Heap
  /\ pc \in [Performers -> Queues \cup {"free", "run", "again", "check", "join", "gone"}]
  /\ doing \in [Performers -> Tasks \cup {NoTask}]
  /\ to_free \in [Performers -> Heap \cup {NoBlock}]
  /\ pushed \in 0 .. MaxTasks
  /\ active \in BOOLEAN
  /\ \A p \in Performers :
       IF pc[p] \in {"free", "run", "again"} THEN doing[p] \in Tasks ELSE doing[p] = NoTask

(* Every heap block that is allocated is in the chain of one queue or with *)
(* the thread that frees it, and a chain has no other: nothing leaks, and  *)
(* no thread frees a block that tasks are stored in or read from.  The     *)
(* static block is in its own queue's chain unless its state says not.     *)
BlocksOwned ==
  /\ Chain("urgent") \cap Chain("normal") = {}
  /\ heap = ({to_free[p] : p \in Performers} \ {NoBlock})
             \cup (Heap \cap (Chain("urgent") \cup Chain("normal")))
  /\ \A p \in Performers : to_free[p] \notin Chain("urgent") \cup Chain("normal")
  /\ \A q \in Queues : /\ writer[q] \in Chain(q) /\ block[writer[q]].next = NoBlock
                       /\ (Static(q) \in Chain(q)) = (block[Static(q)].state # 2)

(* When fio_start returns no task is left in a queue or with a thread,     *)
(* although the threads leave one by one while others still push.          *)
NothingLeft ==
  pc[Main] = "gone" => \A q \in Queues : Contents(q) = <<>>

(* The chains of blocks implement first in, first out queues.              *)
Fifo == INSTANCE TaskFifo WITH pending <- Waiting, running <- doing
ImplementsFifo == Fifo!Spec

(* Every task that is pushed is performed: naps only delay it, and when    *)
(* the server stops some thread, or main at last, still takes it.          *)
TasksPerformed ==
  \A k \in 1 .. MaxTasks :
    (\E q \in Queues : \E n \in DOMAIN Waiting[q] : Waiting[q][n] = k)
      ~> \E p \in Performers : doing[p] = k
=============================================================================
