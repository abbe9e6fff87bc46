-------------------------- MODULE TaskQueueProofs ---------------------------
(***************************************************************************)
(* Theorems about TaskQueue, for any number of threads, blocks and tasks,  *)
(* and any size of a block.                                                *)
(*                                                                         *)
(* A block is a ring (Ring): Held, its tasks, loses its head to Taken and  *)
(* gets a new last one from Put. A chain (LaidOut) is a sequence cs of     *)
(* such blocks from reader to writer with the tasks ts of its beginnings;  *)
(* that the recursive walk of next, Nth, gives cs and that Contents gives  *)
(* the last of ts is proved by induction (ChainIs). Push and Pop then have *)
(* four shapes, two each (PutLast, PutNext, TakeStay, TakeNext), which     *)
(* PushEffect and PopEffect put together into what they do to the contents *)
(* of both queues and to who owns which block.                             *)
(***************************************************************************)
EXTENDS TaskQueue, FiniteSetTheorems, FunctionTheorems, SequenceTheorems,
        WellFoundedInduction, TLAPS

(* The order of the numbers, as the library's well-founded orders are.     *)
Below == {p \in Nat \X Nat : p[1] < p[2]}

LEMMA BelowWF == IsWellFoundedOn(Below, Nat)
BY NatLessThanWellFounded DEF Below, OpToRel

(* A set of numbers that is not empty has a least one.                     *)
LEMMA NatMin ==
  ASSUME NEW T \in SUBSET Nat, T # {}
  PROVE  \E n \in T : \A m \in T : n <= m
<1>1. PICK n \in T : \A m \in T : <<m, n>> \notin Below
  BY BelowWF, WFMin
<1>2. ASSUME NEW m \in T PROVE n <= m
  <2>1. <<m, n>> \in Nat \X Nat /\ <<m, n>> \notin Below
    BY <1>1
  <2>2. ~(<<m, n>>[1] < <<m, n>>[2])
    BY <2>1 DEF Below
  <2> QED
    BY <2>2
<1> QED
  BY <1>2

(* Induction: a set with 0 and with the successor of each number in it has *)
(* them all.                                                               *)
LEMMA Induction ==
  ASSUME NEW S, 0 \in S, \A n \in Nat : n \in S => n + 1 \in S
  PROVE  Nat \subseteq S
<1> SUFFICES ASSUME Nat \ S # {} PROVE FALSE
  OBVIOUS
<1>1. PICK n \in Nat \ S : \A m \in Nat \ S : n <= m
  BY NatMin
<1>2. n # 0 /\ n - 1 \in Nat
  BY <1>1
<1>3. n - 1 \in S
  BY <1>1, <1>2
<1> QED
  BY <1>1, <1>2, <1>3

-----------------------------------------------------------------------------
(* One block. *)

BlockType ==
  [tasks : [0 .. BlockCount - 1 -> Tasks \cup {NoTask}],
   next : Blocks \cup {NoBlock},
   write : 0 .. BlockCount - 1, read : 0 .. BlockCount - 1, state : 0 .. 2]

Count(b) == IF b.state = 0 THEN b.write - b.read ELSE BlockCount + b.write - b.read

Slot(b, n) ==
  IF b.read + n - 1 < BlockCount THEN b.read + n - 1 ELSE b.read + n - 1 - BlockCount

Ring(b) ==
  /\ b \in BlockType
  /\ \/ b.state = 0 /\ b.read <= b.write
     \/ b.state = 1 /\ b.write <= b.read
  /\ \A n \in 1 .. Count(b) : b.tasks[Slot(b, n)] # NoTask

(* Remainders of the indexes that the ring meets.                          *)
LEMMA ModBelow ==
  ASSUME NEW B \in Nat \ {0}, NEW x \in 0 .. B - 1 PROVE x % B = x
OBVIOUS

LEMMA ModOnce ==
  ASSUME NEW B \in Nat \ {0}, NEW x \in Int, B <= x, x < 2 * B PROVE x % B = x - B
<1>1. x - B \in 0 .. B - 1
  OBVIOUS
<1>2. x = B + (x - B)
  OBVIOUS
<1> QED
  BY <1>1, <1>2

LEMMA ModNegative ==
  ASSUME NEW B \in Nat \ {0}, NEW x \in Int, -B <= x, x < 0 PROVE x % B = x + B
OBVIOUS

(* What Held gives, without the remainders.                                *)
LEMMA HeldIs ==
  ASSUME NEW b, Ring(b)
  PROVE  /\ Count(b) \in 0 .. BlockCount
         /\ Full(b) <=> Count(b) = BlockCount
         /\ Held(b) = [n \in 1 .. Count(b) |-> b.tasks[Slot(b, n)]]
         /\ \A n \in 1 .. Count(b) : /\ Slot(b, n) \in 0 .. BlockCount - 1
                                     /\ b.tasks[Slot(b, n)] \in Tasks
         /\ Held(b) \in Seq(Tasks)
         /\ Len(Held(b)) = Count(b)
<1> DEFINE count == IF Full(b) THEN BlockCount ELSE (b.write - b.read) % BlockCount
<1>1. /\ BlockCount \in Nat \ {0, 1}
      /\ b.write \in 0 .. BlockCount - 1 /\ b.read \in 0 .. BlockCount - 1
      /\ b.tasks \in [0 .. BlockCount - 1 -> Tasks \cup {NoTask}]
      /\ b.state \in {0, 1}
      /\ b.state = 0 => b.read <= b.write
      /\ b.state = 1 => b.write <= b.read
  BY QueueAssumption DEF Ring, BlockType
<1>2. Count(b) \in 0 .. BlockCount /\ (Full(b) <=> Count(b) = BlockCount)
  BY <1>1 DEF Count, Full
<1>3. count = Count(b)
  <2>1. CASE Full(b)
    BY <2>1, <1>2
  <2>2. CASE ~Full(b) /\ b.state = 0
    <3>1. b.write - b.read \in 0 .. BlockCount - 1
      BY <1>1, <2>2
    <3>2. (b.write - b.read) % BlockCount = b.write - b.read
      BY <1>1, <3>1, ModBelow
    <3> QED
      BY <3>2, <2>2 DEF Count
  <2>3. CASE ~Full(b) /\ b.state = 1
    <3>1. b.write - b.read \in Int /\ -BlockCount <= b.write - b.read /\ b.write - b.read < 0
      BY <1>1, <2>3 DEF Full
    <3>2. (b.write - b.read) % BlockCount = b.write - b.read + BlockCount
      BY <1>1, <3>1, ModNegative
    <3> QED
      BY <3>2, <2>3, <1>1 DEF Count
  <2> QED
    BY <2>1, <2>2, <2>3, <1>1
<1>4. ASSUME NEW n \in 1 .. Count(b)
      PROVE  (b.read + n - 1) % BlockCount = Slot(b, n) /\ Slot(b, n) \in 0 .. BlockCount - 1
  <2>1. b.read + n - 1 \in Int /\ 0 <= b.read + n - 1 /\ b.read + n - 1 < 2 * BlockCount
    BY <1>1, <1>2
  <2>2. CASE b.read + n - 1 < BlockCount
    <3>1. b.read + n - 1 \in 0 .. BlockCount - 1
      BY <2>1, <2>2, <1>1
    <3> QED
      BY <3>1, <2>2, <1>1, ModBelow DEF Slot
  <2>3. CASE ~(b.read + n - 1 < BlockCount)
    <3>1. (b.read + n - 1) % BlockCount = b.read + n - 1 - BlockCount
      BY <2>1, <2>3, <1>1, ModOnce
    <3> QED
      BY <3>1, <2>1, <2>3, <1>1 DEF Slot
  <2> QED
    BY <2>2, <2>3
<1>5. Held(b) = [n \in 1 .. count |-> b.tasks[(b.read + n - 1) % BlockCount]]
  BY DEF Held
<1>6. Held(b) = [n \in 1 .. Count(b) |-> b.tasks[Slot(b, n)]]
  BY <1>3, <1>4, <1>5
<1>7. \A n \in 1 .. Count(b) : b.tasks[Slot(b, n)] \in Tasks
  BY <1>1, <1>4 DEF Ring
<1>8. Held(b) \in Seq(Tasks) /\ Len(Held(b)) = Count(b)
  BY <1>2, <1>6, <1>7
<1> QED
  BY <1>2, <1>4, <1>6, <1>7, <1>8

(* A task put into a block that is not full comes behind those it holds.   *)
LEMMA PutHeld ==
  ASSUME NEW b, Ring(b), ~Full(b), NEW k \in Tasks
  PROVE  /\ Ring(Put(b, k))
         /\ Held(Put(b, k)) = Append(Held(b), k)
         /\ Put(b, k).next = b.next
<1> DEFINE c == Put(b, k)
<1>1. /\ BlockCount \in Nat \ {0, 1}
      /\ b.write \in 0 .. BlockCount - 1 /\ b.read \in 0 .. BlockCount - 1
      /\ b.tasks \in [0 .. BlockCount - 1 -> Tasks \cup {NoTask}]
      /\ b.state \in {0, 1}
      /\ b.state = 0 => b.read <= b.write
      /\ b.state = 1 => b.write < b.read
      /\ b.next \in Blocks \cup {NoBlock}
  BY QueueAssumption DEF Ring, BlockType, Full
<1>2. (b.write + 1) % BlockCount = IF b.write + 1 = BlockCount THEN 0 ELSE b.write + 1
  <2>1. CASE b.write + 1 = BlockCount
    BY <2>1, <1>1
  <2>2. CASE b.write + 1 # BlockCount
    <3>1. b.write + 1 \in 0 .. BlockCount - 1
      BY <2>2, <1>1
    <3> QED
      BY <3>1, <2>2, <1>1, ModBelow
  <2> QED
    BY <2>1, <2>2
<1>3. /\ c.tasks = [b.tasks EXCEPT ![b.write] = k] /\ c.next = b.next /\ c.read = b.read
      /\ c.write = IF b.write + 1 = BlockCount THEN 0 ELSE b.write + 1
      /\ c.state = IF b.write + 1 = BlockCount THEN 1 ELSE b.state
      /\ c \in BlockType
  <2>1. b \in BlockType /\ k \in Tasks \cup {NoTask} /\ b.write \in 0 .. BlockCount - 1
        /\ (b.write + 1) % BlockCount \in 0 .. BlockCount - 1
        /\ (IF b.write + 1 = BlockCount THEN 1 ELSE b.state) \in 0 .. 2
    BY <1>1, <1>2 DEF Ring
  <2> DEFINE v == (b.write + 1) % BlockCount
             u == IF b.write + 1 = BlockCount THEN 1 ELSE b.state
  <2>2. c = [b EXCEPT !.tasks[b.write] = k, !.write = v, !.state = u]
    BY DEF Put
  <2>3. v \in 0 .. BlockCount - 1 /\ u \in 0 .. 2
    BY <2>1
  <2>4. v = IF b.write + 1 = BlockCount THEN 0 ELSE b.write + 1
    BY <1>2
  <2> HIDE DEF v, c
  <2>5. /\ c.tasks = [b.tasks EXCEPT ![b.write] = k] /\ c.next = b.next /\ c.write = v
        /\ c.read = b.read /\ c.state = u /\ c \in BlockType
    <3> HIDE DEF u
    <3> QED
      BY <2>1, <2>2, <2>3 DEF BlockType
  <2> QED
    BY <2>4, <2>5
<1> HIDE DEF c
<1>4. c \in BlockType
  BY <1>3
<1>5. \/ c.state = 0 /\ c.read <= c.write
      \/ c.state = 1 /\ c.write <= c.read
  BY <1>1, <1>3
<1>6. Count(c) = Count(b) + 1 /\ Count(b) \in 0 .. BlockCount - 1
  <2>1. CASE b.state = 0
    BY <2>1, <1>1, <1>3 DEF Count
  <2>2. CASE b.state = 1
    BY <2>2, <1>1, <1>3 DEF Count
  <2> QED
    BY <2>1, <2>2, <1>1
<1>7. ASSUME NEW n \in 1 .. Count(b)
      PROVE  Slot(c, n) = Slot(b, n) /\ c.tasks[Slot(c, n)] = b.tasks[Slot(b, n)]
  <2>1. c.read = b.read /\ c.tasks = [b.tasks EXCEPT ![b.write] = k]
    BY <1>3
  <2>2. Slot(c, n) = Slot(b, n)
    BY <2>1 DEF Slot
  <2>3. Slot(b, n) # b.write /\ Slot(b, n) \in 0 .. BlockCount - 1
    BY <1>1, <1>6 DEF Slot, Count
  <2> QED
    BY <2>1, <2>2, <2>3, <1>1
<1>8. Slot(c, Count(b) + 1) = b.write /\ c.tasks[b.write] = k
  BY <1>1, <1>3, <1>6 DEF Slot, Count
<1>9. Ring(c)
  <2> SUFFICES ASSUME NEW n \in 1 .. Count(c) PROVE c.tasks[Slot(c, n)] # NoTask
    BY <1>4, <1>5 DEF Ring
  <2>1. CASE n \in 1 .. Count(b)
    BY <2>1, <1>7 DEF Ring
  <2>2. CASE n = Count(b) + 1
    BY <2>2, <1>8, QueueAssumption DEF Tasks, Cycle, Unwind, NoTask
  <2> QED
    BY <2>1, <2>2, <1>6
<1>10. Held(c) = Append(Held(b), k)
  <2>1. /\ Held(b) \in Seq(Tasks) /\ Len(Held(b)) = Count(b)
        /\ Held(b) = [n \in 1 .. Count(b) |-> b.tasks[Slot(b, n)]]
    BY HeldIs
  <2>2. Held(c) = [n \in 1 .. Count(c) |-> c.tasks[Slot(c, n)]]
    BY <1>9, HeldIs
  <2>3. Append(Held(b), k) = [n \in 1 .. Count(b) + 1 |->
                                IF n \in 1 .. Count(b) THEN Held(b)[n] ELSE k]
    BY <2>1, <1>6
  <2>4. \A n \in 1 .. Count(b) + 1 :
           c.tasks[Slot(c, n)] = IF n \in 1 .. Count(b) THEN Held(b)[n] ELSE k
    BY <1>6, <1>7, <1>8, <2>1
  <2> QED
    BY <2>2, <2>3, <2>4, <1>6
<1> QED
  BY <1>9, <1>10, <1>3 DEF c

(* A block begun anew has no task.                                         *)
LEMMA FreshHeld ==
  ASSUME NEW b \in BlockType, b.write = 0, b.read = 0, b.state = 0
  PROVE  Ring(b) /\ ~Full(b) /\ Held(b) = <<>>
<1>1. Count(b) = 0
  BY DEF Count
<1>2. Ring(b)
  BY <1>1 DEF Ring
<1>3. ~Full(b)
  BY DEF Full
<1> QED
  BY <1>1, <1>2, <1>3, HeldIs

(* The code's test of an empty block, for a block that is not full.        *)
LEMMA EmptyHeld ==
  ASSUME NEW b, Ring(b)
  PROVE  Held(b) = <<>> <=> b.write = b.read /\ b.state = 0
<1>1. Held(b) = <<>> <=> Count(b) = 0
  BY HeldIs
<1>2. Count(b) = 0 <=> b.write = b.read /\ b.state = 0
  BY QueueAssumption DEF Count, Ring, BlockType
<1> QED
  BY <1>1, <1>2

(* A task taken is the first that the block holds, and write = read, the   *)
(* code's reason to leave the block, says that it was the last.            *)
LEMMA TakenHeld ==
  ASSUME NEW b, Ring(b), Held(b) # <<>>
  PROVE  /\ Ring(Taken(b))
         /\ Held(Taken(b)) = Tail(Held(b))
         /\ Head(Held(b)) = b.tasks[b.read]
         /\ Taken(b).write = Taken(b).read <=> Tail(Held(b)) = <<>>
         /\ Taken(b).next = b.next
<1> DEFINE c == Taken(b)
<1>1. /\ BlockCount \in Nat \ {0, 1}
      /\ b.write \in 0 .. BlockCount - 1 /\ b.read \in 0 .. BlockCount - 1
      /\ b.tasks \in [0 .. BlockCount - 1 -> Tasks \cup {NoTask}]
      /\ b.state \in {0, 1}
      /\ b.state = 0 => b.read < b.write
      /\ b.state = 1 => b.write <= b.read
      /\ b.next \in Blocks \cup {NoBlock}
  BY EmptyHeld, QueueAssumption DEF Ring, BlockType
<1>2. (b.read + 1) % BlockCount = IF b.read + 1 = BlockCount THEN 0 ELSE b.read + 1
  <2>1. CASE b.read + 1 = BlockCount
    BY <2>1, <1>1
  <2>2. CASE b.read + 1 # BlockCount
    <3>1. b.read + 1 \in 0 .. BlockCount - 1
      BY <2>2, <1>1
    <3> QED
      BY <3>1, <2>2, <1>1, ModBelow
  <2> QED
    BY <2>1, <2>2
<1>3. /\ c.tasks = b.tasks /\ c.next = b.next /\ c.write = b.write
      /\ c.read = IF b.read + 1 = BlockCount THEN 0 ELSE b.read + 1
      /\ c.state = IF b.read + 1 = BlockCount THEN 0 ELSE b.state
      /\ c \in BlockType
  <2>1. b \in BlockType
        /\ (b.read + 1) % BlockCount \in 0 .. BlockCount - 1
        /\ (IF b.read + 1 = BlockCount THEN 0 ELSE b.state) \in 0 .. 2
    BY <1>1, <1>2 DEF Ring
  <2>2. 0 \in 0 .. BlockCount - 1 /\ NoTask \in Tasks \cup {NoTask}
    BY <1>1
  <2> DEFINE v == (b.read + 1) % BlockCount
             u == IF b.read + 1 = BlockCount THEN 0 ELSE b.state
  <2>3. c = [b EXCEPT !.read = v, !.state = u]
    BY DEF Taken
  <2>4. v \in 0 .. BlockCount - 1 /\ u \in 0 .. 2
    BY <2>1
  <2>5. v = IF b.read + 1 = BlockCount THEN 0 ELSE b.read + 1
    BY <1>2
  <2> HIDE DEF v, c
  <2>6. /\ c.tasks = b.tasks /\ c.next = b.next /\ c.write = b.write
        /\ c.read = v /\ c.state = u /\ c \in BlockType
    <3> HIDE DEF u
    <3> QED
      BY <2>1, <2>2, <2>3, <2>4 DEF BlockType
  <2> QED
    BY <2>5, <2>6
<1> HIDE DEF c
<1>4. c \in BlockType
  BY <1>3
<1>5. \/ c.state = 0 /\ c.read <= c.write
      \/ c.state = 1 /\ c.write <= c.read
  BY <1>1, <1>3
<1>6. Count(b) = Count(c) + 1 /\ Count(c) \in 0 .. BlockCount - 1
  BY <1>1, <1>3 DEF Count
<1>7. ASSUME NEW n \in 1 .. Count(c)
      PROVE  Slot(c, n) = Slot(b, n + 1) /\ c.tasks[Slot(c, n)] = b.tasks[Slot(b, n + 1)]
  <2>1. c.tasks = b.tasks /\ c.read = IF b.read + 1 = BlockCount THEN 0 ELSE b.read + 1
    BY <1>3
  <2>2. Slot(c, n) = Slot(b, n + 1)
    BY <1>1, <1>6, <2>1 DEF Slot, Count
  <2> QED
    BY <2>1, <2>2
<1>8. Ring(c)
  <2> SUFFICES ASSUME NEW n \in 1 .. Count(c) PROVE c.tasks[Slot(c, n)] # NoTask
    BY <1>4, <1>5 DEF Ring
  <2>1. n + 1 \in 1 .. Count(b)
    BY <1>6
  <2> QED
    BY <2>1, <1>7 DEF Ring
<1>9. /\ Held(b) \in Seq(Tasks) /\ Len(Held(b)) = Count(b)
      /\ Held(b) = [n \in 1 .. Count(b) |-> b.tasks[Slot(b, n)]]
  BY HeldIs
<1>10. Held(c) = [n \in 1 .. Count(c) |-> c.tasks[Slot(c, n)]]
  BY <1>8, HeldIs
<1>11. Held(c) = Tail(Held(b))
  <2>1. Held(c) \in Seq(Tasks) /\ Len(Held(c)) = Count(c)
    BY <1>8, HeldIs
  <2>2. /\ Tail(Held(b)) \in Seq(Tasks) /\ Len(Tail(Held(b))) = Len(Held(b)) - 1
        /\ \A n \in 1 .. Len(Held(b)) - 1 : Tail(Held(b))[n] = Held(b)[n + 1]
    <3>1. Held(b) \in Seq(Tasks) /\ Held(b) # <<>>
      BY <1>9
    <3> QED
      BY <3>1
  <2>3. \A n \in 1 .. Count(c) : n + 1 \in 1 .. Count(b)
    BY <1>6
  <2>4. \A n \in 1 .. Count(c) : Held(c)[n] = Held(b)[n + 1]
    BY <1>7, <1>9, <1>10, <2>3
  <2>5. Count(b) - 1 = Count(c)
    BY <1>6
  <2>6. \A n \in 1 .. Len(Held(c)) : Held(c)[n] = Tail(Held(b))[n]
    BY <2>1, <2>2, <2>4, <2>5, <1>9
  <2>7. Len(Held(c)) = Len(Tail(Held(b)))
    BY <2>1, <2>2, <2>5, <1>9
  <2> QED
    BY <2>1, <2>2, <2>6, <2>7, SeqEqual
<1>12. Head(Held(b)) = b.tasks[b.read]
  <2>1. 1 \in 1 .. Count(b) /\ Slot(b, 1) = b.read
    BY <1>1, <1>6 DEF Slot
  <2> QED
    BY <2>1, <1>9
<1>13. c.write = c.read <=> Held(c) = <<>>
  BY <1>1, <1>3, <1>8, EmptyHeld
<1> QED
  BY <1>3, <1>8, <1>11, <1>12, <1>13 DEF c
-----------------------------------------------------------------------------
(* A queue of whole blocks: cs are its blocks from reader r to writer w,   *)
(* and ts[i] the tasks of the first i of them.                             *)

LaidOut(blk, r, w, q, L, cs, ts) ==
  /\ L \in Nat \ {0}
  /\ cs \in [1 .. L -> {Static(q)} \cup Heap]
  /\ \A i, j \in 1 .. L : cs[i] = cs[j] => i = j
  /\ cs[1] = r /\ cs[L] = w
  /\ \A i \in 1 .. L - 1 : blk[cs[i]].next = cs[i + 1]
  /\ blk[cs[L]].next = NoBlock
  /\ \A i \in 1 .. L : Ring(blk[cs[i]])
  /\ \A i \in 1 .. L - 1 : Held(blk[cs[i]]) # <<>>
  /\ ts \in [1 .. L -> Seq(Tasks)]
  /\ ts[1] = Held(blk[cs[1]])
  /\ \A i \in 2 .. L : ts[i] = ts[i - 1] \o Held(blk[cs[i]])

Sound(blk, r, w, q) == \E L, cs, ts : LaidOut(blk, r, w, q, L, cs, ts)

Last == Cardinality(Blocks)

(* The walk of a chain ends: there are finitely many blocks.               *)
LEMMA BlocksFinite == IsFiniteSet(Blocks) /\ Last \in Nat /\ NoBlock \notin Blocks
<1>1. IsFiniteSet(Queues)
  <2>1. IsFiniteSet({"urgent"}) /\ IsFiniteSet({"normal"})
    BY FS_Singleton
  <2>2. Queues = {"urgent"} \cup {"normal"}
    BY DEF Queues
  <2> QED
    BY <2>1, <2>2, FS_Union
<1>2. IsFiniteSet(Blocks)
  BY <1>1, FS_Union, QueueAssumption DEF Blocks
<1> QED
  BY <1>2, FS_CardinalityType, QueueAssumption DEF Last, Blocks, Queues, NoBlock

(* A chain visits no block twice, so it is no longer than the blocks are   *)
(* many.                                                                   *)
LEMMA ChainFits ==
  ASSUME NEW blk, NEW r, NEW w, NEW q \in Queues, NEW L, NEW cs, NEW ts,
         LaidOut(blk, r, w, q, L, cs, ts)
  PROVE  /\ L <= Last
         /\ \A i \in 1 .. L : cs[i] \in Blocks /\ cs[i] # NoBlock
<1>1. \A i \in 1 .. L : cs[i] \in Blocks /\ cs[i] # NoBlock
  BY BlocksFinite DEF LaidOut, Blocks, Static
<1>2. cs \in Injection(1 .. L, Blocks)
  <2>1. cs \in [1 .. L -> Blocks]
    BY <1>1 DEF LaidOut
  <2> QED
    BY <2>1 DEF LaidOut, Injection, IsInjective
<1>3. Cardinality(1 .. L) <= Cardinality(Blocks)
  BY <1>2, BlocksFinite, FS_Injection
<1>4. Cardinality(1 .. L) = L
  BY FS_Interval DEF LaidOut
<1> QED
  BY <1>1, <1>3, <1>4 DEF Last

(* Nth is a function defined by recursion: what it gives of a chain is     *)
(* proved by induction over the steps.                                     *)
LEMMA NthIs ==
  ASSUME NEW blk, NEW r, NEW w, NEW q \in Queues, NEW L, NEW cs, NEW ts,
         LaidOut(blk, r, w, q, L, cs, ts)
  PROVE  Nth(blk, r) = [n \in 0 .. Last |-> IF n < L THEN cs[n + 1] ELSE NoBlock]
<1> DEFINE f == [n \in 0 .. Last |-> IF n < L THEN cs[n + 1] ELSE NoBlock]
           Rec(g) == g = [n \in 0 .. Last |->
                            IF n = 0 THEN r
                            ELSE IF g[n - 1] = NoBlock THEN NoBlock ELSE blk[g[n - 1]].next]
<1>1. /\ L \in Nat \ {0} /\ Last \in Nat /\ L <= Last
      /\ \A i \in 1 .. L : cs[i] # NoBlock
      /\ cs[1] = r
      /\ \A i \in 1 .. L - 1 : blk[cs[i]].next = cs[i + 1]
      /\ blk[cs[L]].next = NoBlock
  <2>1. L <= Last /\ \A i \in 1 .. L : cs[i] # NoBlock
    BY ChainFits
  <2> QED
    BY <2>1, BlocksFinite DEF LaidOut
<1>2. Rec(f)
  <2> SUFFICES ASSUME NEW n \in 0 .. Last
               PROVE  f[n] = IF n = 0 THEN r
                             ELSE IF f[n - 1] = NoBlock THEN NoBlock ELSE blk[f[n - 1]].next
    OBVIOUS
  <2>1. CASE n = 0
    BY <2>1, <1>1
  <2>2. CASE n # 0 /\ n < L
    <3>1. n \in 1 .. L - 1 /\ n \in 1 .. L /\ n - 1 \in 0 .. Last /\ n - 1 < L
      BY <2>2, <1>1
    <3>2. f[n - 1] = cs[n] /\ f[n] = cs[n + 1]
      BY <3>1, <2>2
    <3> QED
      BY <3>1, <3>2, <1>1, <2>2
  <2>3. CASE n = L
    <3>1. n \in 1 .. L /\ n - 1 \in 0 .. Last /\ n - 1 < L /\ n # 0
      BY <2>3, <1>1
    <3>2. f[n - 1] = cs[n] /\ f[n] = NoBlock
      BY <3>1, <2>3
    <3> QED
      BY <3>1, <3>2, <1>1, <2>3
  <2>4. CASE n > L
    <3>1. n - 1 \in 0 .. Last /\ ~(n - 1 < L) /\ n # 0 /\ ~(n < L)
      BY <2>4, <1>1
    <3> QED
      BY <3>1
  <2> QED
    BY <2>1, <2>2, <2>3, <2>4, <1>1
<1>3. ASSUME NEW g, Rec(g) PROVE g = f
  <2> DEFINE S == {n \in Nat : n <= Last => g[n] = f[n]}
  <2>1. 0 \in S
    BY <1>2, <1>3, <1>1
  <2>2. ASSUME NEW n \in Nat, n \in S PROVE n + 1 \in S
    <3> SUFFICES ASSUME n + 1 <= Last PROVE g[n + 1] = f[n + 1]
      OBVIOUS
    <3>1. n + 1 \in 0 .. Last /\ n + 1 # 0 /\ (n + 1) - 1 = n /\ n <= Last
      BY <1>1
    <3>2. g[n] = f[n]
      BY <2>2, <3>1
    <3> HIDE DEF f
    <3> QED
      BY <1>2, <1>3, <3>1, <3>2
  <2>3. Nat \subseteq S
    <3> HIDE DEF S
    <3> QED
      BY <2>1, <2>2, Induction
  <2> HIDE DEF f
  <2>4. \A n \in 0 .. Last : g[n] = f[n]
    BY <2>3, <1>1
  <2> QED
    BY <2>4, <1>2, <1>3
<1>4. Nth(blk, r) = CHOOSE g : Rec(g)
  BY DEF Nth, Last
<1> HIDE DEF f, Rec
<1>5. Nth(blk, r) = f
  BY <1>2, <1>3, <1>4
<1> QED
  BY <1>5 DEF f

(* The blocks of the sequence cs.                                          *)
Members(L, cs) == {cs[i] : i \in 1 .. L}

(* What BlocksFrom and TasksFrom give of such a queue.                     *)
LEMMA ChainIs ==
  ASSUME NEW blk, NEW r, NEW w, NEW q \in Queues, NEW L, NEW cs, NEW ts,
         LaidOut(blk, r, w, q, L, cs, ts)
  PROVE  /\ BlocksFrom(blk, r) = Members(L, cs)
         /\ TasksFrom(blk, r) = ts[L]
<1> DEFINE at == [n \in 0 .. Last |-> IF n < L THEN cs[n + 1] ELSE NoBlock]
           f == [n \in 0 .. Last |-> IF n < L THEN ts[n + 1] ELSE ts[L]]
           Rec(g) == g = [n \in 0 .. Last |->
                            IF n = 0 THEN Held(blk[r])
                            ELSE g[n - 1] \o IF Nth(blk, r)[n] = NoBlock THEN <<>>
                                             ELSE Held(blk[Nth(blk, r)[n]])]
<1>1. /\ L \in Nat \ {0} /\ Last \in Nat /\ L <= Last
      /\ \A i \in 1 .. L : cs[i] # NoBlock
      /\ ts[1] = Held(blk[r])
      /\ \A i \in 1 .. L : ts[i] \in Seq(Tasks)
      /\ \A i \in 2 .. L : ts[i] = ts[i - 1] \o Held(blk[cs[i]])
  <2>1. L <= Last /\ \A i \in 1 .. L : cs[i] # NoBlock
    BY ChainFits
  <2> QED
    BY <2>1, BlocksFinite DEF LaidOut
<1>2. Nth(blk, r) = at
  BY NthIs
<1>3. BlocksFrom(blk, r) = Members(L, cs)
  <2>1. ASSUME NEW i \in 1 .. L PROVE cs[i] \in BlocksFrom(blk, r)
    <3>1. i - 1 \in 0 .. Last /\ at[i - 1] = cs[i] /\ cs[i] # NoBlock
      BY <1>1
    <3> QED
      BY <3>1, <1>2 DEF BlocksFrom, Last
  <2>2. ASSUME NEW x \in BlocksFrom(blk, r) PROVE x \in Members(L, cs)
    <3>1. PICK n \in 0 .. Last : x = at[n] /\ x # NoBlock
      BY <1>2 DEF BlocksFrom, Last
    <3>2. n < L /\ n + 1 \in 1 .. L /\ x = cs[n + 1]
      BY <3>1, <1>1
    <3> QED
      BY <3>2 DEF Members
  <2> QED
    BY <2>1, <2>2 DEF Members
<1>4. Rec(f)
  <2> SUFFICES ASSUME NEW n \in 0 .. Last
               PROVE  f[n] = IF n = 0 THEN Held(blk[r])
                             ELSE f[n - 1] \o IF at[n] = NoBlock THEN <<>>
                                              ELSE Held(blk[at[n]])
    BY <1>2
  <2>1. CASE n = 0
    BY <2>1, <1>1
  <2>2. CASE n # 0 /\ n < L
    <3>1. n + 1 \in 2 .. L /\ n + 1 \in 1 .. L /\ n - 1 \in 0 .. Last /\ n - 1 < L /\ (n + 1) - 1 = n
      BY <2>2, <1>1
    <3>2. f[n - 1] = ts[n] /\ f[n] = ts[n + 1] /\ at[n] = cs[n + 1] /\ at[n] # NoBlock
      BY <3>1, <2>2, <1>1
    <3>3. ts[n + 1] = ts[n] \o Held(blk[cs[n + 1]])
      BY <3>1, <1>1
    <3> QED
      BY <3>2, <3>3, <2>2
  <2>3. CASE n >= L
    <3>1. n - 1 \in 0 .. Last /\ n # 0 /\ ~(n < L)
      BY <2>3, <1>1
    <3>2. f[n] = ts[L] /\ at[n] = NoBlock
      BY <3>1
    <3>3. f[n - 1] = ts[L]
      BY <3>1, <2>3, <1>1
    <3>4. ts[L] \o <<>> = ts[L]
      BY <1>1
    <3> QED
      BY <3>1, <3>2, <3>3, <3>4
  <2> QED
    BY <2>1, <2>2, <2>3, <1>1
<1>5. ASSUME NEW g, Rec(g) PROVE g = f
  <2> DEFINE S == {n \in Nat : n <= Last => g[n] = f[n]}
  <2>1. 0 \in S
    BY <1>4, <1>5, <1>1
  <2>2. ASSUME NEW n \in Nat, n \in S PROVE n + 1 \in S
    <3> SUFFICES ASSUME n + 1 <= Last PROVE g[n + 1] = f[n + 1]
      OBVIOUS
    <3>1. n + 1 \in 0 .. Last /\ n + 1 # 0 /\ (n + 1) - 1 = n /\ n <= Last
      BY <1>1
    <3>2. g[n] = f[n]
      BY <2>2, <3>1
    <3> DEFINE v == IF Nth(blk, r)[n + 1] = NoBlock THEN <<>> ELSE Held(blk[Nth(blk, r)[n + 1]])
    <3> HIDE DEF f
    <3>3. f[n + 1] = f[n] \o v
      BY <1>4, <3>1
    <3>4. g[n + 1] = g[n] \o v
      BY <1>5, <3>1
    <3> QED
      BY <3>2, <3>3, <3>4
  <2>3. Nat \subseteq S
    <3> HIDE DEF S
    <3> QED
      BY <2>1, <2>2, Induction
  <2> HIDE DEF f
  <2>4. \A n \in 0 .. Last : g[n] = f[n]
    BY <2>3, <1>1
  <2> QED
    BY <2>4, <1>4, <1>5
<1>6. TasksFrom(blk, r) = (CHOOSE g : Rec(g))[Last]
  BY DEF TasksFrom, Last
<1>7. f[Last] = ts[L]
  BY <1>1
<1> HIDE DEF f, Rec
<1>8. TasksFrom(blk, r) = f[Last]
  BY <1>4, <1>5, <1>6
<1> QED
  BY <1>3, <1>7, <1>8
-----------------------------------------------------------------------------
(* What the operations do to such a queue. *)

(* Taking the head of a concatenation takes it of its first part.          *)
LEMMA ConcatHeadTail ==
  ASSUME NEW s \in Seq(Tasks), NEW t \in Seq(Tasks), s # <<>>
  PROVE  s \o t # <<>> /\ Head(s \o t) = Head(s) /\ Tail(s \o t) = Tail(s) \o t
<1>1. s \o t \in Seq(Tasks) /\ Len(s \o t) = Len(s) + Len(t) /\ Len(s) > 0
  OBVIOUS
<1>2. s \o t # <<>> /\ (s \o t)[1] = s[1]
  BY <1>1
<1>3. Tail(s \o t) \in Seq(Tasks) /\ Tail(s) \o t \in Seq(Tasks)
  BY <1>1, <1>2
<1>4. Len(Tail(s \o t)) = Len(s) + Len(t) - 1 /\ Len(Tail(s) \o t) = Len(s) + Len(t) - 1
  BY <1>1, <1>2
<1>5. ASSUME NEW i \in 1 .. Len(Tail(s \o t)) PROVE Tail(s \o t)[i] = (Tail(s) \o t)[i]
  <2>1. Tail(s \o t)[i] = (s \o t)[i + 1]
    BY <1>1, <1>2, <1>4
  <2>2. CASE i <= Len(s) - 1
    BY <2>1, <2>2, <1>1, <1>4
  <2>3. CASE ~(i <= Len(s) - 1)
    <3>1. (s \o t)[i + 1] = t[i + 1 - Len(s)]
      BY <2>3, <1>1, <1>4
    <3>2. (Tail(s) \o t)[i] = t[i - Len(Tail(s))] /\ Len(Tail(s)) = Len(s) - 1
      BY <2>3, <1>1, <1>4
    <3> QED
      BY <2>1, <3>1, <3>2, <1>1
  <2> QED
    BY <2>2, <2>3
<1>6. Tail(s \o t) = Tail(s) \o t
  BY <1>3, <1>4, <1>5, SeqEqual
<1> QED
  BY <1>2, <1>6

(* Appending to a concatenation appends to its last part.                  *)
LEMMA AppendConcat ==
  ASSUME NEW s \in Seq(Tasks), NEW t \in Seq(Tasks), NEW k \in Tasks
  PROVE  s \o Append(t, k) = Append(s \o t, k) /\ s \o Append(<<>>, k) = Append(s, k)
OBVIOUS

(* A task is waiting in a queue exactly if one is in its first block, and  *)
(* that one is the first.                                                  *)
LEMMA FirstTask ==
  ASSUME NEW blk, NEW r, NEW w, NEW q \in Queues, NEW L, NEW cs, NEW ts,
         LaidOut(blk, r, w, q, L, cs, ts)
  PROVE  /\ ts[L] = <<>> <=> Held(blk[r]) = <<>>
         /\ Held(blk[r]) # <<>> =>
              \A i \in 1 .. L : ts[i] # <<>> /\ Head(ts[i]) = Head(Held(blk[r]))
<1>1. /\ L \in Nat \ {0}
      /\ \A i \in 1 .. L : ts[i] \in Seq(Tasks) /\ Held(blk[cs[i]]) \in Seq(Tasks)
      /\ ts[1] = Held(blk[r])
      /\ \A i \in 2 .. L : ts[i] = ts[i - 1] \o Held(blk[cs[i]])
      /\ L > 1 => Held(blk[r]) # <<>>
  <2>1. \A i \in 1 .. L : Held(blk[cs[i]]) \in Seq(Tasks)
    BY HeldIs DEF LaidOut
  <2>2. L > 1 => 1 \in 1 .. L - 1
    BY DEF LaidOut
  <2> QED
    BY <2>1, <2>2 DEF LaidOut
<1>2. ASSUME Held(blk[r]) # <<>>, NEW i \in 1 .. L
      PROVE  ts[i] # <<>> /\ Head(ts[i]) = Head(Held(blk[r]))
  <2> DEFINE S == {n \in Nat : n + 1 \in 1 .. L =>
                                 ts[n + 1] # <<>> /\ Head(ts[n + 1]) = Head(Held(blk[r]))}
  <2>1. 0 \in S
    BY <1>1, <1>2
  <2>2. ASSUME NEW n \in Nat, n \in S PROVE n + 1 \in S
    <3> SUFFICES ASSUME (n + 1) + 1 \in 1 .. L
                 PROVE  ts[(n + 1) + 1] # <<>> /\ Head(ts[(n + 1) + 1]) = Head(Held(blk[r]))
      OBVIOUS
    <3> DEFINE m == (n + 1) + 1
    <3>1. m \in 2 .. L /\ n + 1 \in 1 .. L /\ m - 1 = n + 1 /\ m \in 1 .. L
      BY <1>1
    <3>2. ts[m] = ts[n + 1] \o Held(blk[cs[m]])
      BY <3>1, <1>1
    <3>3. ts[n + 1] # <<>> /\ Head(ts[n + 1]) = Head(Held(blk[r]))
      BY <3>1, <2>2
    <3>4. ts[n + 1] \in Seq(Tasks) /\ Held(blk[cs[m]]) \in Seq(Tasks)
      BY <3>1, <1>1
    <3> QED
      BY <3>2, <3>3, <3>4, ConcatHeadTail
  <2>3. Nat \subseteq S
    <3> HIDE DEF S
    <3> QED
      BY <2>1, <2>2, Induction
  <2>4. i - 1 \in Nat /\ (i - 1) + 1 = i
    OBVIOUS
  <2> QED
    BY <2>3, <2>4
<1>3. ts[L] = <<>> <=> Held(blk[r]) = <<>>
  BY <1>1, <1>2
<1> QED
  BY <1>2, <1>3

(* What the steps use of a chain.                                          *)
LEMMA SoundFacts ==
  ASSUME NEW blk, NEW r, NEW w, NEW q \in Queues, Sound(blk, r, w, q)
  PROVE  /\ r \in BlocksFrom(blk, r) /\ w \in BlocksFrom(blk, r)
         /\ BlocksFrom(blk, r) \subseteq {Static(q)} \cup Heap
         /\ Ring(blk[r]) /\ Ring(blk[w]) /\ blk[w].next = NoBlock
         /\ TasksFrom(blk, r) \in Seq(Tasks)
         /\ TasksFrom(blk, r) = <<>> <=> Held(blk[r]) = <<>>
         /\ Held(blk[r]) # <<>> => Head(TasksFrom(blk, r)) = Head(Held(blk[r]))
<1>1. PICK L, cs, ts : LaidOut(blk, r, w, q, L, cs, ts)
  BY DEF Sound
<1>2. BlocksFrom(blk, r) = Members(L, cs) /\ TasksFrom(blk, r) = ts[L]
  BY <1>1, ChainIs
<1>3. 1 \in 1 .. L /\ L \in 1 .. L
  BY <1>1 DEF LaidOut
<1>4. /\ ts[L] = <<>> <=> Held(blk[r]) = <<>>
      /\ Held(blk[r]) # <<>> => Head(ts[L]) = Head(Held(blk[r]))
  BY <1>1, <1>3, FirstTask
<1>5. /\ cs[1] = r /\ cs[L] = w
      /\ Ring(blk[cs[1]]) /\ Ring(blk[cs[L]]) /\ blk[cs[L]].next = NoBlock
      /\ ts[L] \in Seq(Tasks)
  BY <1>1, <1>3 DEF LaidOut
<1>6. BlocksFrom(blk, r) \subseteq {Static(q)} \cup Heap
  BY <1>1, <1>2 DEF LaidOut, Members
<1> QED
  BY <1>2, <1>3, <1>4, <1>5, <1>6 DEF Members

(* Nothing happens to the blocks of the queue.                             *)
LEMMA Elsewhere ==
  ASSUME NEW blk, NEW r, NEW w, NEW q \in Queues, Sound(blk, r, w, q),
         NEW blk2, \A b \in BlocksFrom(blk, r) : blk2[b] = blk[b]
  PROVE  /\ Sound(blk2, r, w, q)
         /\ BlocksFrom(blk2, r) = BlocksFrom(blk, r)
         /\ TasksFrom(blk2, r) = TasksFrom(blk, r)
<1>1. PICK L, cs, ts : LaidOut(blk, r, w, q, L, cs, ts)
  BY DEF Sound
<1>2. BlocksFrom(blk, r) = Members(L, cs) /\ TasksFrom(blk, r) = ts[L]
  BY <1>1, ChainIs
<1>3. \A i \in 1 .. L : blk2[cs[i]] = blk[cs[i]]
  BY <1>2 DEF Members
<1>4. LaidOut(blk2, r, w, q, L, cs, ts)
  <2>1. /\ L \in Nat \ {0}
        /\ \A i \in 1 .. L - 1 : i \in 1 .. L
        /\ \A i \in 2 .. L : i \in 1 .. L
        /\ 1 \in 1 .. L /\ L \in 1 .. L
    BY <1>1 DEF LaidOut
  <2> QED
    BY <1>1, <1>3, <2>1 DEF LaidOut
<1>5. BlocksFrom(blk2, r) = Members(L, cs) /\ TasksFrom(blk2, r) = ts[L]
  BY <1>4, ChainIs
<1> QED
  BY <1>2, <1>4, <1>5 DEF Sound

(* A push into a last block that is not full.                              *)
LEMMA PutLast ==
  ASSUME NEW blk, NEW r, NEW w, NEW q \in Queues, Sound(blk, r, w, q),
         ~Full(blk[w]), NEW k \in Tasks,
         NEW blk2, blk2[w] = Put(blk[w], k), \A b \in Blocks \ {w} : blk2[b] = blk[b]
  PROVE  /\ Sound(blk2, r, w, q)
         /\ BlocksFrom(blk2, r) = BlocksFrom(blk, r)
         /\ TasksFrom(blk2, r) = Append(TasksFrom(blk, r), k)
<1>1. PICK L, cs, ts : LaidOut(blk, r, w, q, L, cs, ts)
  BY DEF Sound
<1> DEFINE ts2 == [i \in 1 .. L |-> IF i = L THEN Append(ts[L], k) ELSE ts[i]]
<1>2. BlocksFrom(blk, r) = Members(L, cs) /\ TasksFrom(blk, r) = ts[L]
  BY <1>1, ChainIs
<1>3. /\ L \in Nat \ {0}
      /\ \A i \in 1 .. L : cs[i] \in Blocks
      /\ \A i, j \in 1 .. L : cs[i] = cs[j] => i = j
      /\ cs[1] = r /\ cs[L] = w
      /\ \A i \in 1 .. L : Ring(blk[cs[i]]) /\ Held(blk[cs[i]]) \in Seq(Tasks)
      /\ \A i \in 1 .. L : ts[i] \in Seq(Tasks)
  <2>1. \A i \in 1 .. L : cs[i] \in Blocks
    BY <1>1, ChainFits
  <2>2. \A i \in 1 .. L : Ring(blk[cs[i]])
    BY <1>1 DEF LaidOut
  <2> QED
    BY <1>1, <2>1, <2>2, HeldIs DEF LaidOut
<1>4. /\ Ring(blk2[cs[L]]) /\ Held(blk2[cs[L]]) = Append(Held(blk[cs[L]]), k)
      /\ blk2[cs[L]].next = blk[cs[L]].next
  BY <1>3, PutHeld
<1>5. \A i \in 1 .. L - 1 : i \in 1 .. L /\ cs[i] # w /\ blk2[cs[i]] = blk[cs[i]]
  BY <1>3
<1>6. ts2 \in [1 .. L -> Seq(Tasks)]
  BY <1>3
<1>7. ts2[1] = Held(blk2[cs[1]])
  <2>1. ts[1] = Held(blk[cs[1]]) /\ 1 \in 1 .. L
    BY <1>1 DEF LaidOut
  <2>2. CASE L = 1
    BY <2>1, <2>2, <1>4
  <2>3. CASE L # 1
    BY <2>1, <2>3, <1>3, <1>5
  <2> QED
    BY <2>2, <2>3
<1>8. ASSUME NEW i \in 2 .. L PROVE ts2[i] = ts2[i - 1] \o Held(blk2[cs[i]])
  <2>1. /\ ts[i] = ts[i - 1] \o Held(blk[cs[i]]) /\ i - 1 \in 1 .. L
        /\ i - 1 # L /\ i \in 1 .. L
        /\ ts2[i - 1] = ts[i - 1] /\ ts[i - 1] \in Seq(Tasks)
    <3>1. i - 1 \in 1 .. L /\ i - 1 # L /\ i \in 1 .. L
      BY <1>3
    <3>2. ts[i] = ts[i - 1] \o Held(blk[cs[i]])
      BY <1>1 DEF LaidOut
    <3> QED
      BY <3>1, <3>2, <1>3
  <2>2. CASE i = L
    <3>1. Append(ts[L], k) = ts[i - 1] \o Append(Held(blk[cs[L]]), k)
      <4>1. Held(blk[cs[L]]) \in Seq(Tasks) /\ ts[i - 1] \in Seq(Tasks)
        BY <2>1, <1>3
      <4>2. ts[L] = ts[i - 1] \o Held(blk[cs[L]])
        BY <2>1, <2>2
      <4>3. ts[i - 1] \o Append(Held(blk[cs[L]]), k) = Append(ts[i - 1] \o Held(blk[cs[L]]), k)
        BY <4>1, AppendConcat
      <4> QED
        BY <4>2, <4>3
    <3> QED
      BY <2>1, <2>2, <3>1, <1>4
  <2>3. CASE i # L
    <3>1. i \in 1 .. L - 1
      BY <2>3, <1>3
    <3> QED
      BY <2>1, <2>3, <3>1, <1>5
  <2> QED
    BY <2>2, <2>3
<1>9. LaidOut(blk2, r, w, q, L, cs, ts2)
  <2>1. \A i \in 1 .. L : Ring(blk2[cs[i]])
    BY <1>3, <1>4, <1>5
  <2> HIDE DEF ts2
  <2> QED
    BY <1>1, <1>4, <1>5, <1>6, <1>7, <1>8, <2>1 DEF LaidOut
<1>10. BlocksFrom(blk2, r) = Members(L, cs) /\ TasksFrom(blk2, r) = ts2[L]
  <2> HIDE DEF ts2
  <2> QED
    BY <1>9, ChainIs
<1>11. ts2[L] = Append(ts[L], k)
  BY <1>3
<1> HIDE DEF ts2
<1> QED
  BY <1>2, <1>9, <1>10, <1>11 DEF Sound

(* A push that puts another block behind a full one.                       *)
LEMMA PutNext ==
  ASSUME NEW blk, NEW r, NEW w, NEW q \in Queues, Sound(blk, r, w, q),
         NEW k \in Tasks,
         NEW n \in {Static(q)} \cup Heap, n \notin BlocksFrom(blk, r), Full(blk[w]),
         NEW blk2,
         Ring(blk2[w]), Held(blk2[w]) = Held(blk[w]), blk2[w].next = n,
         Ring(blk2[n]), Held(blk2[n]) = <<k>>, blk2[n].next = NoBlock,
         \A b \in Blocks \ {w, n} : blk2[b] = blk[b]
  PROVE  /\ Sound(blk2, r, n, q)
         /\ BlocksFrom(blk2, r) = BlocksFrom(blk, r) \cup {n}
         /\ TasksFrom(blk2, r) = Append(TasksFrom(blk, r), k)
<1>1. PICK L, cs, ts : LaidOut(blk, r, w, q, L, cs, ts)
  BY DEF Sound
<1> DEFINE M == L + 1
           cs2 == [i \in 1 .. M |-> IF i = M THEN n ELSE cs[i]]
           ts2 == [i \in 1 .. M |-> IF i = M THEN Append(ts[L], k) ELSE ts[i]]
<1>2. BlocksFrom(blk, r) = Members(L, cs) /\ TasksFrom(blk, r) = ts[L]
  BY <1>1, ChainIs
<1>3. /\ L \in Nat \ {0}
      /\ \A i \in 1 .. L : cs[i] \in Blocks /\ cs[i] \in {Static(q)} \cup Heap /\ cs[i] # n
      /\ \A i, j \in 1 .. L : cs[i] = cs[j] => i = j
      /\ cs[1] = r /\ cs[L] = w
      /\ \A i \in 1 .. L : Ring(blk[cs[i]]) /\ Held(blk[cs[i]]) \in Seq(Tasks)
      /\ \A i \in 1 .. L : ts[i] \in Seq(Tasks)
      /\ Held(blk[w]) # <<>>
  <2>1. \A i \in 1 .. L : cs[i] \in Blocks
    BY <1>1, ChainFits
  <2>2. \A i \in 1 .. L : Ring(blk[cs[i]])
    BY <1>1 DEF LaidOut
  <2>3. Ring(blk[w]) /\ Len(Held(blk[w])) = BlockCount
    BY SoundFacts, HeldIs
  <2>4. Held(blk[w]) # <<>>
    BY <2>3, QueueAssumption
  <2>5. \A i \in 1 .. L : cs[i] # n
    BY <1>2 DEF Members
  <2> QED
    BY <1>1, <2>1, <2>2, <2>4, <2>5, HeldIs DEF LaidOut
<1>4. M \in Nat \ {0} /\ M \in 1 .. M /\ \A i \in 1 .. M : i # M => i \in 1 .. L
  BY <1>3
<1>5. \A i \in 1 .. L : i \in 1 .. M /\ i # M /\ cs2[i] = cs[i] /\ ts2[i] = ts[i]
  BY <1>3
<1>6. cs2[M] = n /\ ts2[M] = Append(ts[L], k)
  BY <1>4
<1>7. cs2 \in [1 .. M -> {Static(q)} \cup Heap] /\ ts2 \in [1 .. M -> Seq(Tasks)]
  BY <1>3, <1>4
<1> HIDE DEF M, cs2, ts2
<1>8. \A i \in 1 .. L : i # L => blk2[cs[i]] = blk[cs[i]]
  BY <1>3
<1>9. \A i \in 1 .. L : Ring(blk2[cs[i]]) /\ Held(blk2[cs[i]]) = Held(blk[cs[i]])
  BY <1>3, <1>8
<1>10. \A i, j \in 1 .. M : cs2[i] = cs2[j] => i = j
  BY <1>3, <1>4, <1>5, <1>6
<1>11. \A i \in 1 .. M - 1 : i \in 1 .. L /\ (i # L => i \in 1 .. L - 1 /\ i + 1 \in 1 .. L)
  BY <1>3 DEF M
<1>12. ASSUME NEW i \in 1 .. M - 1 PROVE blk2[cs2[i]].next = cs2[i + 1] /\ Held(blk2[cs2[i]]) # <<>>
  <2>1. CASE i = L
    <3>1. cs2[i] = w /\ cs2[i + 1] = n
      BY <2>1, <1>3, <1>5, <1>6, <1>11 DEF M
    <3> QED
      BY <3>1, <1>3
  <2>2. CASE i # L
    <3>1. i \in 1 .. L - 1 /\ i \in 1 .. L /\ i + 1 \in 1 .. L
      BY <2>2, <1>11
    <3>2. cs2[i] = cs[i] /\ cs2[i + 1] = cs[i + 1] /\ blk2[cs[i]] = blk[cs[i]]
      BY <2>2, <3>1, <1>5, <1>8
    <3>3. blk[cs[i]].next = cs[i + 1] /\ Held(blk[cs[i]]) # <<>>
      BY <1>1, <3>1 DEF LaidOut
    <3> QED
      BY <3>2, <3>3
  <2> QED
    BY <2>1, <2>2
<1>13. \A i \in 1 .. M : Ring(blk2[cs2[i]])
  BY <1>4, <1>5, <1>6, <1>9
<1>14. ts2[1] = Held(blk2[cs2[1]]) /\ cs2[1] = r
  <2>1. 1 \in 1 .. L /\ ts[1] = Held(blk[cs[1]])
    BY <1>1 DEF LaidOut
  <2> QED
    BY <2>1, <1>3, <1>5, <1>9
<1>15. ASSUME NEW i \in 2 .. M PROVE ts2[i] = ts2[i - 1] \o Held(blk2[cs2[i]])
  <2>1. CASE i = M
    <3>1. i - 1 = L /\ L \in 1 .. L /\ ts2[i - 1] = ts[L] /\ ts[L] \in Seq(Tasks)
      BY <2>1, <1>3, <1>5 DEF M
    <3>2. Append(ts[L], k) = ts[L] \o <<k>>
      BY <3>1
    <3> QED
      BY <2>1, <3>1, <3>2, <1>6
  <2>2. CASE i # M
    <3>1. i \in 2 .. L /\ i - 1 \in 1 .. L /\ i \in 1 .. L
      BY <2>2, <1>3 DEF M
    <3>2. ts[i] = ts[i - 1] \o Held(blk[cs[i]])
      BY <1>1, <3>1 DEF LaidOut
    <3> QED
      BY <3>1, <3>2, <1>5, <1>9
  <2> QED
    BY <2>1, <2>2
<1>16. LaidOut(blk2, r, n, q, M, cs2, ts2)
  BY <1>4, <1>6, <1>7, <1>10, <1>12, <1>13, <1>14, <1>15 DEF LaidOut
<1>17. BlocksFrom(blk2, r) = Members(M, cs2) /\ TasksFrom(blk2, r) = ts2[M]
  BY <1>16, ChainIs
<1>18. Members(M, cs2) = Members(L, cs) \cup {n}
  <2>1. \A x \in Members(M, cs2) : x \in Members(L, cs) \cup {n}
    BY <1>4, <1>5, <1>6 DEF Members
  <2>2. \A x \in Members(L, cs) \cup {n} : x \in Members(M, cs2)
    BY <1>4, <1>5, <1>6 DEF Members
  <2> QED
    BY <2>1, <2>2
<1> QED
  BY <1>2, <1>6, <1>16, <1>17, <1>18 DEF Sound

(* A pop that does not empty the first block.                              *)
LEMMA TakeStay ==
  ASSUME NEW blk, NEW r, NEW w, NEW q \in Queues, Sound(blk, r, w, q),
         Held(blk[r]) # <<>>, Tail(Held(blk[r])) # <<>>,
         NEW blk2, blk2[r] = Taken(blk[r]), \A b \in Blocks \ {r} : blk2[b] = blk[b]
  PROVE  /\ Sound(blk2, r, w, q)
         /\ BlocksFrom(blk2, r) = BlocksFrom(blk, r)
         /\ TasksFrom(blk2, r) = Tail(TasksFrom(blk, r))
<1>1. PICK L, cs, ts : LaidOut(blk, r, w, q, L, cs, ts)
  BY DEF Sound
<1> DEFINE ts2 == [i \in 1 .. L |-> Tail(ts[i])]
<1>2. BlocksFrom(blk, r) = Members(L, cs) /\ TasksFrom(blk, r) = ts[L]
  BY <1>1, ChainIs
<1>3. /\ L \in Nat \ {0} /\ 1 \in 1 .. L /\ L \in 1 .. L
      /\ \A i \in 1 .. L : cs[i] \in Blocks
      /\ \A i, j \in 1 .. L : cs[i] = cs[j] => i = j
      /\ cs[1] = r /\ cs[L] = w
      /\ \A i \in 1 .. L : Ring(blk[cs[i]]) /\ Held(blk[cs[i]]) \in Seq(Tasks)
      /\ \A i \in 1 .. L : ts[i] \in Seq(Tasks) /\ ts[i] # <<>>
  <2>1. \A i \in 1 .. L : cs[i] \in Blocks
    BY <1>1, ChainFits
  <2>2. \A i \in 1 .. L : Ring(blk[cs[i]])
    BY <1>1 DEF LaidOut
  <2>3. \A i \in 1 .. L : ts[i] # <<>>
    BY <1>1, FirstTask
  <2> QED
    BY <1>1, <2>1, <2>2, <2>3, HeldIs DEF LaidOut
<1>4. /\ Ring(blk2[r]) /\ Held(blk2[r]) = Tail(Held(blk[r])) /\ blk2[r].next = blk[r].next
  BY <1>3, TakenHeld
<1>5. \A i \in 1 .. L : i # 1 => cs[i] # r /\ blk2[cs[i]] = blk[cs[i]]
  BY <1>3
<1>6. ts2 \in [1 .. L -> Seq(Tasks)] /\ \A i \in 1 .. L : ts2[i] = Tail(ts[i])
  BY <1>3
<1> HIDE DEF ts2
<1>7. ts2[1] = Held(blk2[cs[1]])
  <2>1. ts[1] = Held(blk[cs[1]])
    BY <1>1 DEF LaidOut
  <2> QED
    BY <2>1, <1>3, <1>4, <1>6
<1>8. ASSUME NEW i \in 2 .. L PROVE ts2[i] = ts2[i - 1] \o Held(blk2[cs[i]])
  <2>1. i \in 1 .. L /\ i # 1 /\ i - 1 \in 1 .. L
    BY <1>3
  <2>2. ts[i] = ts[i - 1] \o Held(blk[cs[i]])
    BY <1>1 DEF LaidOut
  <2>3. Tail(ts[i - 1] \o Held(blk[cs[i]])) = Tail(ts[i - 1]) \o Held(blk[cs[i]])
    BY <2>1, <1>3, ConcatHeadTail
  <2> QED
    BY <2>1, <2>2, <2>3, <1>5, <1>6
<1>9. /\ \A i \in 1 .. L : Ring(blk2[cs[i]]) /\ blk2[cs[i]].next = blk[cs[i]].next
      /\ \A i \in 1 .. L - 1 : Held(blk2[cs[i]]) # <<>>
  <2>1. \A i \in 1 .. L : Ring(blk2[cs[i]]) /\ blk2[cs[i]].next = blk[cs[i]].next
    BY <1>3, <1>4, <1>5
  <2>2. \A i \in 1 .. L - 1 : i \in 1 .. L /\ Held(blk[cs[i]]) # <<>>
    BY <1>1 DEF LaidOut
  <2>3. \A i \in 1 .. L - 1 : Held(blk2[cs[i]]) # <<>>
    BY <2>2, <1>3, <1>4, <1>5
  <2> QED
    BY <2>1, <2>3
<1>10. LaidOut(blk2, r, w, q, L, cs, ts2)
  <2>1. \A i \in 1 .. L - 1 : i \in 1 .. L
    BY <1>3
  <2> QED
    BY <1>1, <1>3, <1>6, <1>7, <1>8, <1>9, <2>1 DEF LaidOut
<1>11. BlocksFrom(blk2, r) = Members(L, cs) /\ TasksFrom(blk2, r) = ts2[L]
  BY <1>10, ChainIs
<1> QED
  BY <1>2, <1>3, <1>6, <1>10, <1>11 DEF Sound

(* A pop that leaves the first block for the next.                         *)
LEMMA TakeNext ==
  ASSUME NEW blk, NEW r, NEW w, NEW q \in Queues, Sound(blk, r, w, q),
         Held(blk[r]) # <<>>, Tail(Held(blk[r])) = <<>>, blk[r].next # NoBlock,
         NEW blk2, \A b \in Blocks \ {r} : blk2[b] = blk[b]
  PROVE  /\ Sound(blk2, blk[r].next, w, q)
         /\ BlocksFrom(blk2, blk[r].next) = BlocksFrom(blk, r) \ {r}
         /\ TasksFrom(blk2, blk[r].next) = Tail(TasksFrom(blk, r))
<1>1. PICK L, cs, ts : LaidOut(blk, r, w, q, L, cs, ts)
  BY DEF Sound
<1> DEFINE M == L - 1
           cs2 == [i \in 1 .. M |-> cs[i + 1]]
           ts2 == [i \in 1 .. M |-> Tail(ts[i + 1])]
<1>2. BlocksFrom(blk, r) = Members(L, cs) /\ TasksFrom(blk, r) = ts[L]
  BY <1>1, ChainIs
<1>3. /\ L \in Nat \ {0} /\ 1 \in 1 .. L /\ L \in 1 .. L
      /\ \A i \in 1 .. L : cs[i] \in Blocks /\ cs[i] \in {Static(q)} \cup Heap
      /\ \A i, j \in 1 .. L : cs[i] = cs[j] => i = j
      /\ cs[1] = r /\ cs[L] = w
      /\ \A i \in 1 .. L : Ring(blk[cs[i]]) /\ Held(blk[cs[i]]) \in Seq(Tasks)
      /\ \A i \in 1 .. L : ts[i] \in Seq(Tasks) /\ ts[i] # <<>>
      /\ blk[w].next = NoBlock
  <2>1. \A i \in 1 .. L : cs[i] \in Blocks
    BY <1>1, ChainFits
  <2>2. \A i \in 1 .. L : Ring(blk[cs[i]])
    BY <1>1 DEF LaidOut
  <2>3. \A i \in 1 .. L : ts[i] # <<>>
    BY <1>1, FirstTask
  <2> QED
    BY <1>1, <2>1, <2>2, <2>3, HeldIs DEF LaidOut
<1>4. M \in Nat \ {0} /\ \A i \in 1 .. M : i + 1 \in 1 .. L /\ i + 1 \in 2 .. L /\ i \in 1 .. L - 1
  BY <1>3
<1>5. /\ \A i \in 1 .. M : cs2[i] = cs[i + 1] /\ ts2[i] = Tail(ts[i + 1])
      /\ cs2 \in [1 .. M -> {Static(q)} \cup Heap] /\ ts2 \in [1 .. M -> Seq(Tasks)]
  BY <1>3, <1>4
<1>6. M + 1 = L /\ 1 \in 1 .. M /\ M \in 1 .. M
  BY <1>3, <1>4
<1>7. \A i \in 1 .. M - 1 : i + 1 \in 1 .. L - 1 /\ i + 1 \in 1 .. M /\ i \in 1 .. M
  BY <1>3
<1>8. \A i \in 2 .. M : i + 1 \in 2 .. L /\ (i - 1) + 1 = i /\ i \in 1 .. L /\ i - 1 \in 1 .. M
                         /\ (i + 1) - 1 = i /\ i \in 1 .. M
  BY <1>3
<1> HIDE DEF M, cs2, ts2
<1>9. \A i \in 1 .. L : i # 1 => blk2[cs[i]] = blk[cs[i]]
  BY <1>3
<1>10. \A i \in 1 .. M : blk2[cs2[i]] = blk[cs[i + 1]]
  BY <1>4, <1>5, <1>9
<1>11. cs2[1] = blk[r].next /\ cs2[M] = w
  <2>1. blk[cs[1]].next = cs[1 + 1]
    BY <1>1, <1>4, <1>6 DEF LaidOut
  <2> QED
    BY <2>1, <1>3, <1>5, <1>6
<1>12. \A i, j \in 1 .. M : cs2[i] = cs2[j] => i = j
  <2> SUFFICES ASSUME NEW i \in 1 .. M, NEW j \in 1 .. M, cs2[i] = cs2[j] PROVE i = j
    OBVIOUS
  <2>1. i + 1 = j + 1
    <3>1. i + 1 \in 1 .. L /\ j + 1 \in 1 .. L /\ cs[i + 1] = cs[j + 1]
      BY <1>4, <1>5
    <3> QED
      BY <3>1, <1>3
  <2> QED
    BY <2>1, <1>4
<1>13. ASSUME NEW i \in 1 .. M - 1
       PROVE  blk2[cs2[i]].next = cs2[i + 1] /\ Held(blk2[cs2[i]]) # <<>>
  <2>1. i + 1 \in 1 .. L - 1 /\ i + 1 \in 1 .. M /\ i \in 1 .. M
    BY <1>7
  <2>2. blk[cs[i + 1]].next = cs[(i + 1) + 1] /\ Held(blk[cs[i + 1]]) # <<>>
    BY <1>1, <2>1 DEF LaidOut
  <2> QED
    BY <2>1, <2>2, <1>5, <1>10
<1>14. \A i \in 1 .. M : Ring(blk2[cs2[i]])
  BY <1>3, <1>4, <1>10
<1>15. \A i \in 2 .. L : ts[i] = ts[i - 1] \o Held(blk[cs[i]])
  BY <1>1 DEF LaidOut
<1>16. ts2[1] = Held(blk2[cs2[1]])
  <2>1. 2 \in 2 .. L /\ 2 \in 1 .. L /\ 1 + 1 = 2 /\ 2 - 1 = 1
    BY <1>4, <1>6
  <2>2. ts[2] = ts[1] \o Held(blk[cs[2]]) /\ ts[1] = Held(blk[r])
    BY <1>1, <1>3, <1>15, <2>1 DEF LaidOut
  <2>3. Tail(ts[2]) = Tail(ts[1]) \o Held(blk[cs[2]])
    <3>1. ts[1] \in Seq(Tasks) /\ ts[1] # <<>> /\ Held(blk[cs[2]]) \in Seq(Tasks)
      BY <2>1, <1>3
    <3>2. Tail(ts[1] \o Held(blk[cs[2]])) = Tail(ts[1]) \o Held(blk[cs[2]])
      BY <3>1, ConcatHeadTail
    <3> QED
      BY <3>2, <2>2
  <2>4. <<>> \o Held(blk[cs[2]]) = Held(blk[cs[2]])
    BY <2>1, <1>3
  <2>5. Tail(ts[2]) = Held(blk[cs[2]])
    BY <2>2, <2>3, <2>4
  <2> QED
    BY <2>1, <2>5, <1>5, <1>6, <1>10
<1>17. ASSUME NEW i \in 2 .. M PROVE ts2[i] = ts2[i - 1] \o Held(blk2[cs2[i]])
  <2>1. i + 1 \in 2 .. L /\ (i - 1) + 1 = i /\ i \in 1 .. L /\ i - 1 \in 1 .. M /\ i \in 1 .. M
        /\ (i + 1) - 1 = i /\ i + 1 \in 1 .. L
    BY <1>4, <1>8
  <2>2. ts[i + 1] = ts[i] \o Held(blk[cs[i + 1]])
    BY <2>1, <1>15
  <2>3. Tail(ts[i + 1]) = Tail(ts[i]) \o Held(blk[cs[i + 1]])
    <3>1. ts[i] \in Seq(Tasks) /\ ts[i] # <<>> /\ Held(blk[cs[i + 1]]) \in Seq(Tasks)
      BY <2>1, <1>3
    <3>2. Tail(ts[i] \o Held(blk[cs[i + 1]])) = Tail(ts[i]) \o Held(blk[cs[i + 1]])
      BY <3>1, ConcatHeadTail
    <3> QED
      BY <3>2, <2>2
  <2>4. ts2[i] = Tail(ts[i + 1]) /\ ts2[i - 1] = Tail(ts[i]) /\ blk2[cs2[i]] = blk[cs[i + 1]]
    BY <2>1, <1>5, <1>10
  <2> QED
    BY <2>3, <2>4
<1>18. LaidOut(blk2, blk[r].next, w, q, M, cs2, ts2)
  <2>1. blk2[cs2[M]].next = NoBlock
    BY <1>3, <1>6, <1>10, <1>11
  <2> QED
    BY <2>1, <1>4, <1>5, <1>11, <1>12, <1>13, <1>14, <1>16, <1>17 DEF LaidOut
<1>19. BlocksFrom(blk2, blk[r].next) = Members(M, cs2) /\ TasksFrom(blk2, blk[r].next) = ts2[M]
  BY <1>18, ChainIs
<1>20. Members(M, cs2) = Members(L, cs) \ {r}
  <2>1. ASSUME NEW x \in Members(M, cs2) PROVE x \in Members(L, cs) \ {r}
    <3>1. PICK i \in 1 .. M : x = cs[i + 1]
      BY <1>5 DEF Members
    <3>2. i + 1 \in 1 .. L /\ i + 1 # 1
      BY <1>4
    <3> QED
      BY <3>1, <3>2, <1>3 DEF Members
  <2>2. ASSUME NEW x \in Members(L, cs) \ {r} PROVE x \in Members(M, cs2)
    <3>1. PICK i \in 1 .. L : x = cs[i] /\ i # 1
      BY <1>3 DEF Members
    <3>2. i - 1 \in 1 .. M /\ (i - 1) + 1 = i
      BY <3>1, <1>6
    <3> QED
      BY <3>1, <3>2, <1>5 DEF Members
  <2> QED
    BY <2>1, <2>2
<1>21. ts2[M] = Tail(ts[L])
  BY <1>5, <1>6
<1> QED
  BY <1>2, <1>18, <1>19, <1>20, <1>21 DEF Sound

(* A queue of one block.                                                   *)
LEMMA OneBlock ==
  ASSUME NEW blk, NEW q \in Queues, NEW s \in {Static(q)} \cup Heap,
         Ring(blk[s]), blk[s].next = NoBlock
  PROVE  Sound(blk, s, s, q) /\ BlocksFrom(blk, s) = {s} /\ TasksFrom(blk, s) = Held(blk[s])
<1> DEFINE cs == [i \in 1 .. 1 |-> s]
           ts == [i \in 1 .. 1 |-> Held(blk[s])]
<1>1. Held(blk[s]) \in Seq(Tasks)
  BY HeldIs
<1>2. LaidOut(blk, s, s, q, 1, cs, ts)
  BY <1>1 DEF LaidOut
<1>3. Members(1, cs) = {s} /\ ts[1] = Held(blk[s])
  BY DEF Members
<1> HIDE DEF cs, ts
<1>4. BlocksFrom(blk, s) = Members(1, cs) /\ TasksFrom(blk, s) = ts[1]
  BY <1>2, ChainIs
<1> QED
  BY <1>2, <1>3, <1>4 DEF Sound

(* A queue whose first block has none behind it.                           *)
LEMMA LastBlock ==
  ASSUME NEW blk, NEW r, NEW w, NEW q \in Queues, Sound(blk, r, w, q), blk[r].next = NoBlock
  PROVE  w = r /\ BlocksFrom(blk, r) = {r} /\ TasksFrom(blk, r) = Held(blk[r])
<1>1. PICK L, cs, ts : LaidOut(blk, r, w, q, L, cs, ts)
  BY DEF Sound
<1>2. BlocksFrom(blk, r) = Members(L, cs) /\ TasksFrom(blk, r) = ts[L]
  BY <1>1, ChainIs
<1>3. L = 1
  <2> SUFFICES ASSUME L # 1 PROVE FALSE
    OBVIOUS
  <2>1. 1 \in 1 .. L - 1 /\ 1 + 1 \in 1 .. L
    BY <1>1 DEF LaidOut
  <2>2. blk[r].next = cs[1 + 1]
    BY <1>1, <2>1 DEF LaidOut
  <2>3. cs[1 + 1] # NoBlock
    BY <1>1, <2>1, ChainFits
  <2> QED
    BY <2>2, <2>3
<1>4. cs[1] = r /\ cs[L] = w /\ ts[1] = Held(blk[r])
  BY <1>1 DEF LaidOut
<1>5. Members(L, cs) = {r}
  BY <1>3, <1>4 DEF Members
<1> QED
  BY <1>2, <1>3, <1>4, <1>5
-----------------------------------------------------------------------------
(* The inductive invariant. *)

(* What each place of a thread says of the task it has and of the block it *)
(* is about to free.                                                       *)
Places ==
  \A p \in Performers :
    /\ pc[p] = "free" <=> to_free[p] # NoBlock
    /\ pc[p] \in Queues \cup {"check", "join", "gone"} => doing[p] = NoTask
    /\ pc[p] \in {"run", "free"} => doing[p] \in Tasks
    /\ pc[p] = "again" => doing[p] = Cycle

(* Both chains are whole: they lead from reader to writer, every block but *)
(* the last holds a task, and no slot between read and write is junk.      *)
Whole == \A q \in Queues : Sound(block, reader[q], writer[q], q)

(* Every block is in one place, and a static block out of use (state 2)    *)
(* leads nowhere.                                                          *)
Owned ==
  /\ BlocksOwned
  /\ \A p1, p2 \in Performers :
       p1 # p2 /\ to_free[p1] = to_free[p2] => to_free[p1] = NoBlock
  /\ \A q \in Queues : block[Static(q)].state = 2 => block[Static(q)].next = NoBlock

(* While main waits for the threads they run, and when it checks they are  *)
(* done and nothing is left.                                               *)
Ending ==
  /\ pc[Main] # "join" => \A t \in Threads : pc[t] = "gone"
  /\ pc[Main] \in {"normal", "check", "gone"} => Contents("urgent") = <<>>
  /\ pc[Main] \in {"check", "gone"} => Contents("normal") = <<>>

(* The types of what the lock of the queues protects.                      *)
StoreType ==
  /\ reader \in [Queues -> Blocks] /\ writer \in [Queues -> Blocks]
  /\ block \in [Blocks -> BlockType]
  /\ heap \subseteq Heap

(* The types of all variables, each by itself.                             *)
Typed ==
  /\ StoreType
  /\ pc \in [Performers -> Queues \cup {"free", "run", "again", "check", "join", "gone"}]
  /\ doing \in [Performers -> Tasks \cup {NoTask}]
  /\ to_free \in [Performers -> Heap \cup {NoBlock}]
  /\ pushed \in 0 .. MaxTasks
  /\ active \in BOOLEAN

IInv == Typed /\ Places /\ Whole /\ Owned /\ Ending

(* The static blocks are named after their queues.                         *)
LEMMA Names ==
  /\ Queues = {"urgent", "normal"} /\ "urgent" # "normal"
  /\ \A q \in Queues : Static(q) = q /\ q \in Blocks /\ q \notin Heap /\ q # NoBlock
  /\ Blocks = Queues \cup Heap
  /\ NoBlock \notin Blocks
BY QueueAssumption DEF Queues, Static, Blocks, NoBlock

(* Linking a block behind another changes no task.                         *)
LEMMA LinkHeld ==
  ASSUME NEW b, Ring(b), NEW n \in Blocks, NEW c, c = [b EXCEPT !.next = n]
  PROVE  Ring(c) /\ Held(c) = Held(b) /\ c.next = n /\ c \in BlockType
<1>1. /\ c \in BlockType /\ c.next = n
      /\ c.tasks = b.tasks /\ c.write = b.write /\ c.read = b.read /\ c.state = b.state
  BY DEF Ring, BlockType
<1>2. Count(c) = Count(b) /\ Full(c) = Full(b)
  BY <1>1 DEF Count, Full
<1>3. Ring(c)
  BY <1>1, <1>2 DEF Ring, Slot
<1>4. Held(c) = Held(b)
  BY <1>1, <1>2 DEF Held
<1> QED
  BY <1>1, <1>3, <1>4

(* A block that a push begins has that push's task alone, whatever junk    *)
(* its memory has.                                                         *)
LEMMA PutFresh ==
  ASSUME NEW ts \in [0 .. BlockCount - 1 -> Tasks \cup {NoTask}], NEW k \in Tasks
  PROVE  /\ Ring(Put(Fresh(ts), k)) /\ Put(Fresh(ts), k) \in BlockType
         /\ Held(Put(Fresh(ts), k)) = <<k>>
         /\ Put(Fresh(ts), k).next = NoBlock /\ Put(Fresh(ts), k).state # 2
<1> DEFINE b == Fresh(ts)
<1>1. /\ b \in BlockType /\ b.write = 0 /\ b.read = 0 /\ b.state = 0 /\ b.next = NoBlock
  BY QueueAssumption DEF Fresh, BlockType
<1> HIDE DEF b
<1>2. Ring(b) /\ ~Full(b) /\ Held(b) = <<>>
  BY <1>1, FreshHeld
<1>3. /\ Ring(Put(b, k)) /\ Held(Put(b, k)) = Append(<<>>, k) /\ Put(b, k).next = NoBlock
  BY <1>1, <1>2, PutHeld
<1>4. Append(<<>>, k) = <<k>>
  OBVIOUS
<1>5. Put(b, k) \in BlockType /\ Put(b, k).state # 2
  BY <1>3 DEF Ring
<1> QED
  BY <1>3, <1>4, <1>5 DEF b

(* The queue that is not q.                                                *)
Other(q) == IF q = "urgent" THEN "normal" ELSE "urgent"

(* There are two queues.                                                   *)
LEMMA OtherQueue ==
  ASSUME NEW q \in Queues
  PROVE  /\ Other(q) \in Queues /\ Other(q) # q
         /\ \A o \in Queues : o = q \/ o = Other(q)
         /\ {Chain("urgent"), Chain("normal")} = {Chain(q), Chain(Other(q))}
BY DEF Queues, Other

(* BlocksOwned for a queue and the other.                                  *)
Split(q) ==
  /\ Chain(q) \cap Chain(Other(q)) = {}
  /\ heap = ({to_free[p] : p \in Performers} \ {NoBlock})
             \cup (Heap \cap (Chain(q) \cup Chain(Other(q))))
  /\ \A p \in Performers : to_free[p] \notin Chain(q) \cup Chain(Other(q))
  /\ \A o \in Queues : /\ writer[o] \in Chain(o) /\ block[writer[o]].next = NoBlock
                       /\ (Static(o) \in Chain(o)) = (block[Static(o)].state # 2)

(* BlocksOwned seen from queue q, in this state and in the next.           *)
LEMMA SplitOwned ==
  ASSUME NEW q \in Queues
  PROVE  BlocksOwned <=> Split(q)
BY DEF BlocksOwned, Split, Queues, Other

LEMMA SplitOwnedNext ==
  ASSUME NEW q \in Queues
  PROVE  BlocksOwned' <=> Split(q)'
BY DEF BlocksOwned, Split, Queues, Other

(* Push appends its task to its queue, leaves the other queue alone, and   *)
(* keeps the chains whole and the blocks owned.                            *)
LEMMA PushEffect ==
  ASSUME StoreType, Whole, Owned, to_free \in [Performers -> Heap \cup {NoBlock}],
         NEW q \in Queues, NEW k \in Tasks, Push(q, k), UNCHANGED to_free
  PROVE  /\ StoreType' /\ Whole' /\ Owned'
         /\ Contents(q)' = Append(Contents(q), k)
         /\ Contents(Other(q))' = Contents(Other(q))
<1> DEFINE r == reader[q]
           w == writer[q]
           o == Other(q)
<1>1. /\ o \in Queues /\ o # q
      /\ \A x \in Queues : x = q \/ x = o
  BY OtherQueue
<1>2. /\ Sound(block, r, w, q) /\ Sound(block, reader[o], writer[o], o)
      /\ r \in Blocks /\ w \in Blocks
      /\ reader' = reader
  BY <1>1 DEF Whole, StoreType, Push
<1>3. /\ w \in Chain(q) /\ Chain(q) \subseteq {Static(q)} \cup Heap
      /\ Chain(o) \subseteq {Static(o)} \cup Heap
      /\ Ring(block[w]) /\ block[w].next = NoBlock
  BY <1>1, <1>2, SoundFacts DEF Chain
<1>4. Split(q) /\ w \notin Chain(o)
  BY <1>3, SplitOwned DEF Owned, Split
<1>5. CASE ~Full(block[w])
  <2>1. /\ block' = [block EXCEPT ![w] = Put(block[w], k)]
        /\ writer' = writer /\ heap' = heap
    BY <1>5 DEF Push
  <2>2. Ring(Put(block[w], k)) /\ Put(block[w], k) \in BlockType /\ Put(block[w], k).next = NoBlock
        /\ Put(block[w], k).state # 2 /\ block[w].state # 2
    <3>1. Ring(Put(block[w], k)) /\ Put(block[w], k).next = NoBlock
      BY <1>3, <1>5, PutHeld
    <3> QED
      BY <3>1, <1>3 DEF Ring
  <2>3. /\ block'[w] = Put(block[w], k)
        /\ \A b \in Blocks \ {w} : block'[b] = block[b]
        /\ block' \in [Blocks -> BlockType]
    BY <1>2, <2>1, <2>2 DEF StoreType
  <2>4. /\ Sound(block', r, w, q)
        /\ BlocksFrom(block', r) = BlocksFrom(block, r)
        /\ TasksFrom(block', r) = Append(TasksFrom(block, r), k)
    BY <1>2, <1>5, <2>3, PutLast
  <2>5. \A b \in BlocksFrom(block, reader[o]) : block'[b] = block[b]
    BY <1>1, <1>3, <1>4, <2>3, Names DEF Chain
  <2>6. /\ Sound(block', reader[o], writer[o], o)
        /\ BlocksFrom(block', reader[o]) = BlocksFrom(block, reader[o])
        /\ TasksFrom(block', reader[o]) = TasksFrom(block, reader[o])
    BY <1>1, <1>2, <2>5, Elsewhere
  <2>7. StoreType' /\ Whole'
    BY <1>1, <1>2, <2>1, <2>3, <2>4, <2>6 DEF StoreType, Whole
  <2>8. Chain(q)' = Chain(q) /\ Chain(o)' = Chain(o)
    BY <1>2, <2>4, <2>6 DEF Chain
  <2>9. \A x \in Queues : /\ block'[Static(x)].state = 2 <=> block[Static(x)].state = 2
                          /\ block'[Static(x)].next = block[Static(x)].next
    BY <1>3, <2>2, <2>3, Names
  <2>10. Split(q)'
    <3>1. \A x \in Queues : Chain(x)' = Chain(x) /\ block'[writer[x]].next = block[writer[x]].next
      <4>1. \A x \in Queues : writer[x] \in Blocks
        BY DEF StoreType
      <4> QED
        BY <1>1, <1>3, <2>2, <2>3, <2>8, <4>1
    <3> QED
      BY <1>1, <1>4, <2>1, <2>8, <2>9, <3>1 DEF Split
  <2>11. Owned'
    BY <2>9, <2>10, SplitOwnedNext DEF Owned
  <2> QED
    BY <1>2, <2>4, <2>6, <2>7, <2>11 DEF Contents
<1>6. CASE Full(block[w])
  <2>1. PICK n \in Successors(q) :
            /\ block' = [block EXCEPT ![w].next = n, ![n] = Put(Fresh(block[n].tasks), k)]
            /\ writer' = [writer EXCEPT ![q] = n]
            /\ heap' = heap \cup ({n} \cap Heap)
    BY <1>6 DEF Push
  <2> DEFINE c == [block[w] EXCEPT !.next = n]
             d == Put(Fresh(block[n].tasks), k)
  <2>2. /\ n \in {Static(q)} \cup Heap /\ n \in Blocks
        /\ n \notin Chain(q) /\ n \notin Chain(o) /\ n # w
        /\ \A p \in Performers : to_free[p] # n
        /\ n \in Heap => n \notin heap
        /\ n = Static(q) \/ n \in Heap
    <3>1. n \in Heap \/ n = Static(q)
      BY DEF Successors
    <3>2. CASE n = Static(q)
      <4>1. block[Static(q)].state = 2
        BY <3>2, Names DEF Successors
      <4> QED
        BY <3>2, <4>1, <1>1, <1>3, <1>4, Names DEF Split
    <3>3. CASE n # Static(q)
      <4>1. n \in Heap \ heap
        BY <3>3 DEF Successors
      <4> QED
        BY <4>1, <1>1, <1>3, <1>4, Names DEF Split
    <3> QED
      BY <3>2, <3>3
  <2>3. /\ Ring(c) /\ Held(c) = Held(block[w])
        /\ c.next = n /\ c \in BlockType /\ c.state = block[w].state
    <3>1. c.state = block[w].state
      BY <1>3 DEF Ring, BlockType
    <3> HIDE DEF c
    <3>2. c = [block[w] EXCEPT !.next = n]
      BY DEF c
    <3>3. Ring(c) /\ Held(c) = Held(block[w]) /\ c.next = n /\ c \in BlockType
      BY <1>3, <2>2, <3>2, LinkHeld
    <3> QED
      BY <3>1, <3>3
  <2>4. Ring(d) /\ d \in BlockType /\ Held(d) = <<k>> /\ d.next = NoBlock /\ d.state # 2
    <3>1. block[n].tasks \in [0 .. BlockCount - 1 -> Tasks \cup {NoTask}]
      BY <2>2 DEF StoreType, BlockType
    <3> QED
      BY <3>1, PutFresh
  <2>5. block' = [block EXCEPT ![w] = c, ![n] = d]
    BY <2>1, <2>2
  <2> HIDE DEF c, d
  <2>6. /\ block'[w] = c /\ block'[n] = d
        /\ \A b \in Blocks \ {w, n} : block'[b] = block[b]
        /\ block' \in [Blocks -> BlockType]
    BY <1>2, <2>2, <2>3, <2>4, <2>5 DEF StoreType
  <2>7. /\ Sound(block', r, n, q)
        /\ BlocksFrom(block', r) = BlocksFrom(block, r) \cup {n}
        /\ TasksFrom(block', r) = Append(TasksFrom(block, r), k)
    <3>1. n \notin BlocksFrom(block, r)
      BY <2>2 DEF Chain
    <3>2. Ring(block'[w]) /\ Held(block'[w]) = Held(block[w]) /\ block'[w].next = n
      BY <2>3, <2>6
    <3>3. Ring(block'[n]) /\ Held(block'[n]) = <<k>> /\ block'[n].next = NoBlock
      BY <2>4, <2>6
    <3> QED
      BY <1>2, <1>6, <2>2, <2>6, <3>1, <3>2, <3>3, PutNext
  <2>8. \A b \in BlocksFrom(block, reader[o]) : block'[b] = block[b]
    BY <1>1, <1>3, <1>4, <2>2, <2>6, Names DEF Chain
  <2>9. /\ Sound(block', reader[o], writer[o], o)
        /\ BlocksFrom(block', reader[o]) = BlocksFrom(block, reader[o])
        /\ TasksFrom(block', reader[o]) = TasksFrom(block, reader[o])
    BY <1>1, <1>2, <2>8, Elsewhere
  <2>10. /\ writer'[q] = n /\ writer'[o] = writer[o] /\ writer' \in [Queues -> Blocks]
         /\ heap' \subseteq Heap
    BY <1>1, <2>1, <2>2 DEF StoreType
  <2>11. StoreType' /\ Whole'
    BY <1>1, <1>2, <2>6, <2>7, <2>9, <2>10 DEF StoreType, Whole
  <2>12. Chain(q)' = Chain(q) \cup {n} /\ Chain(o)' = Chain(o)
    BY <1>2, <2>7, <2>9 DEF Chain
  <2>13. /\ block'[Static(o)].state = 2 <=> block[Static(o)].state = 2
         /\ block'[Static(o)].next = block[Static(o)].next
         /\ block[w].state # 2
    BY <1>1, <1>3, <2>2, <2>6, Names DEF Ring
  <2>14. /\ (Static(q) \in Chain(q)') = (block'[Static(q)].state # 2)
         /\ block'[Static(q)].state = 2 => block'[Static(q)].next = NoBlock
    <3>1. CASE n = Static(q)
      BY <3>1, <2>4, <2>6, <2>12
    <3>2. CASE n # Static(q) /\ w = Static(q)
      BY <3>2, <1>3, <2>3, <2>6, <2>12, <2>13
    <3>3. CASE n # Static(q) /\ w # Static(q)
      <4>1. block'[Static(q)] = block[Static(q)]
        BY <3>3, <2>6, Names
      <4> QED
        BY <3>3, <4>1, <1>4, <2>12 DEF Split, Owned
    <3> QED
      BY <3>1, <3>2, <3>3
  <2>15. writer'[q] \in Chain(q)' /\ block'[writer'[q]].next = NoBlock
    BY <2>4, <2>6, <2>10, <2>12
  <2>16. writer'[o] \in Chain(o)' /\ block'[writer'[o]].next = NoBlock
    <3>1. writer[o] \in BlocksFrom(block, reader[o]) /\ block[writer[o]].next = NoBlock
      BY <1>1, <1>2, SoundFacts
    <3> QED
      BY <3>1, <2>8, <2>10, <2>12 DEF Chain
  <2>17. heap' = ({to_free'[p] : p \in Performers} \ {NoBlock})
                  \cup (Heap \cap (Chain(q)' \cup Chain(o)'))
    BY <1>4, <2>1, <2>12 DEF Split
  <2>18. Split(q)'
    <3>1. (Static(o) \in Chain(o)') = (block'[Static(o)].state # 2)
      BY <1>1, <1>4, <2>12, <2>13 DEF Split
    <3>2. Chain(q)' \cap Chain(o)' = {}
      BY <1>4, <2>2, <2>12 DEF Split
    <3>3. \A p \in Performers : to_free'[p] \notin Chain(q)' \cup Chain(o)'
      BY <1>4, <2>2, <2>12 DEF Split
    <3> QED
      BY <1>1, <2>14, <2>15, <2>16, <2>17, <3>1, <3>2, <3>3 DEF Split
  <2>19. Owned'
    BY <1>1, <2>13, <2>14, <2>18, SplitOwnedNext DEF Owned
  <2> QED
    BY <1>2, <2>7, <2>9, <2>11, <2>19 DEF Contents
<1> QED
  BY <1>5, <1>6

(* What Pop leaves of the block it takes from, when it leaves it.          *)
LEMMA OutOfUse ==
  ASSUME NEW b \in BlockType
  PROVE  LET c == [b EXCEPT !.state = 2, !.next = NoBlock]
         IN  c \in BlockType /\ c.state = 2 /\ c.next = NoBlock
<1>1. ASSUME NEW v \in 0 .. 2
      PROVE  LET c == [b EXCEPT !.state = v, !.next = NoBlock]
             IN  c \in BlockType /\ c.state = v /\ c.next = NoBlock
  BY DEF BlockType
<1>2. 2 \in 0 .. 2
  OBVIOUS
<1> QED
  BY <1>1, <1>2, Zenon

(* A block that Pop resets is empty.                                      *)
LEMMA Anew ==
  ASSUME NEW b \in BlockType
  PROVE  LET d == Emptied(b)
         IN  d \in BlockType /\ d.state = 0 /\ d.next = b.next /\ Ring(d) /\ Held(d) = <<>>
<1>1. ASSUME NEW u \in 0 .. BlockCount - 1, NEW v \in 0 .. 2, NEW d,
             d = [b EXCEPT !.write = u, !.read = u, !.state = v]
      PROVE  d \in BlockType /\ d.state = v /\ d.next = b.next /\ d.write = u /\ d.read = u
  BY <1>1 DEF BlockType
<1>2. 0 \in 0 .. BlockCount - 1 /\ 0 \in 0 .. 2
  BY QueueAssumption
<1> DEFINE d == Emptied(b)
<1>3. d \in BlockType /\ d.state = 0 /\ d.next = b.next /\ d.write = 0 /\ d.read = 0
  BY <1>1, <1>2, Zenon DEF Emptied
<1> HIDE DEF d
<1>4. Ring(d) /\ Held(d) = <<>>
  BY <1>3, FreshHeld
<1> QED
  BY <1>3, <1>4 DEF d

(* Empty is the emptiness of the queue.                                    *)
LEMMA EmptyContents ==
  ASSUME Whole, NEW q \in Queues
  PROVE  Empty(q) <=> Contents(q) = <<>>
<1>1. Sound(block, reader[q], writer[q], q)
  BY DEF Whole
<1>2. /\ Ring(block[reader[q]])
      /\ Contents(q) = <<>> <=> Held(block[reader[q]]) = <<>>
  BY <1>1, SoundFacts DEF Contents
<1> QED
  BY <1>2, EmptyHeld DEF Empty

(* Pop takes the first task of its queue, leaves the other queue alone,    *)
(* and keeps the chains whole; a block it leaves is free or about to be    *)
(* freed.                                                                  *)
LEMMA PopEffect ==
  ASSUME StoreType, Whole, Owned,
         to_free \in [Performers -> Heap \cup {NoBlock}],
         NEW p \in Performers, to_free[p] = NoBlock,
         NEW q \in Queues, Pop(p, q)
  PROVE  /\ StoreType' /\ Whole' /\ Owned'
         /\ Contents(q) # <<>> /\ Contents(q) \in Seq(Tasks)
         /\ doing' = [doing EXCEPT ![p] = Head(Contents(q))]
         /\ Contents(q)' = Tail(Contents(q))
         /\ Contents(Other(q))' = Contents(Other(q))
         /\ \/ pc' = [pc EXCEPT ![p] = "run"] /\ UNCHANGED to_free
            \/ /\ pc' = [pc EXCEPT ![p] = "free"]
               /\ reader[q] \in Heap /\ to_free' = [to_free EXCEPT ![p] = reader[q]]
<1> DEFINE r == reader[q]
           w == writer[q]
           o == Other(q)
           b == Taken(block[r])
<1>1. /\ o \in Queues /\ o # q
      /\ \A x \in Queues : x = q \/ x = o
  BY OtherQueue
<1>2. /\ Sound(block, r, w, q) /\ Sound(block, reader[o], writer[o], o)
      /\ r \in Blocks /\ w \in Blocks
  BY <1>1 DEF Whole, StoreType
<1>3. /\ r \in Chain(q) /\ w \in Chain(q) /\ Chain(q) \subseteq {Static(q)} \cup Heap
      /\ Chain(o) \subseteq {Static(o)} \cup Heap
      /\ Ring(block[r]) /\ Contents(q) \in Seq(Tasks)
      /\ Contents(q) = <<>> <=> Held(block[r]) = <<>>
      /\ Held(block[r]) # <<>> => Head(Contents(q)) = Head(Held(block[r]))
  BY <1>1, <1>2, SoundFacts DEF Chain, Contents
<1>4. Split(q) /\ r \notin Chain(o)
  BY <1>3, SplitOwned DEF Owned, Split
<1>5. Held(block[r]) # <<>> /\ Contents(q) # <<>>
  BY <1>3, EmptyContents DEF Pop
<1>6. /\ Ring(b) /\ Held(b) = Tail(Held(block[r]))
      /\ Head(Held(block[r])) = block[r].tasks[block[r].read]
      /\ b.write = b.read <=> Tail(Held(block[r])) = <<>>
      /\ b.next = block[r].next /\ b \in BlockType /\ b.state # 2 /\ block[r].state # 2
  BY <1>3, <1>5, TakenHeld DEF Ring
<1> HIDE DEF b
<1>7. doing' = [doing EXCEPT ![p] = Head(Contents(q))]
  BY <1>3, <1>5, <1>6 DEF Pop
<1>8. heap' = heap
  BY DEF Pop
<1>9. IF reader'[q] # r /\ r # Static(q)
      THEN pc' = [pc EXCEPT ![p] = "free"] /\ to_free' = [to_free EXCEPT ![p] = r]
      ELSE pc' = [pc EXCEPT ![p] = "run"] /\ to_free' = to_free
  BY DEF Pop
<1>10. IF b.write = b.read THEN Leave(q, b)
       ELSE block' = [block EXCEPT ![r] = b] /\ reader' = reader /\ writer' = writer
  BY DEF Pop, b
<1>11. /\ \A x \in Performers : to_free[x] \notin Chain(q) \cup Chain(o)
       /\ heap = ({to_free[x] : x \in Performers} \ {NoBlock})
                  \cup (Heap \cap (Chain(q) \cup Chain(o)))
       /\ Chain(q) \cap Chain(o) = {}
       /\ \A x \in Queues : (Static(x) \in Chain(x)) = (block[Static(x)].state # 2)
       /\ writer[o] \in Chain(o) /\ block[writer[o]].next = NoBlock
       /\ writer[q] \in Chain(q) /\ block[writer[q]].next = NoBlock
       /\ \A x \in Queues : block[Static(x)].state = 2 => block[Static(x)].next = NoBlock
  BY <1>1, <1>4 DEF Split, Owned
<1>12. CASE b.write # b.read
  <2>1. block' = [block EXCEPT ![r] = b] /\ reader' = reader /\ writer' = writer
    BY <1>10, <1>12
  <2>2. /\ block'[r] = b /\ \A x \in Blocks \ {r} : block'[x] = block[x]
        /\ block' \in [Blocks -> BlockType]
    BY <1>2, <1>6, <2>1 DEF StoreType
  <2>3. /\ Sound(block', r, w, q)
        /\ BlocksFrom(block', r) = BlocksFrom(block, r)
        /\ TasksFrom(block', r) = Tail(TasksFrom(block, r))
    <3>1. block'[r] = Taken(block[r])
      BY <2>2 DEF b
    <3>2. Tail(Held(block[r])) # <<>>
      BY <1>6, <1>12
    <3> QED
      BY <1>2, <1>5, <2>2, <3>1, <3>2, TakeStay
  <2>4. \A x \in BlocksFrom(block, reader[o]) : block'[x] = block[x]
    BY <1>1, <1>3, <1>4, <2>2, Names DEF Chain
  <2>5. /\ Sound(block', reader[o], writer[o], o)
        /\ BlocksFrom(block', reader[o]) = BlocksFrom(block, reader[o])
        /\ TasksFrom(block', reader[o]) = TasksFrom(block, reader[o])
    BY <1>1, <1>2, <2>4, Elsewhere
  <2>6. StoreType' /\ Whole'
    BY <1>1, <1>2, <1>8, <2>1, <2>2, <2>3, <2>5 DEF StoreType, Whole
  <2>7. Chain(q)' = Chain(q) /\ Chain(o)' = Chain(o)
    BY <2>1, <2>3, <2>5 DEF Chain
  <2>8. pc' = [pc EXCEPT ![p] = "run"] /\ to_free' = to_free
    BY <1>9, <2>1
  <2>9. \A x \in Blocks : /\ block'[x].state = 2 <=> block[x].state = 2
                          /\ block'[x].next = block[x].next
    BY <1>6, <2>2
  <2>10. \A x \in Queues : Static(x) \in Blocks /\ writer[x] \in Blocks /\ Chain(x)' = Chain(x)
    BY <1>1, <2>7, Names DEF StoreType
  <2>11. Split(q)'
    BY <1>1, <1>4, <1>8, <2>1, <2>7, <2>8, <2>9, <2>10 DEF Split
  <2>12. Owned'
    BY <1>11, <2>8, <2>9, <2>10, <2>11, SplitOwnedNext DEF Owned
  <2> QED
    BY <1>3, <1>5, <1>7, <2>1, <2>3, <2>5, <2>6, <2>8, <2>12 DEF Contents
<1>13. CASE b.write = b.read /\ block[r].next # NoBlock
  <2> DEFINE n == block[r].next
             c == IF r = Static(q) THEN [b EXCEPT !.state = 2, !.next = NoBlock] ELSE b
  <2>1. /\ reader' = [reader EXCEPT ![q] = n]
        /\ block' = [block EXCEPT ![r] = c] /\ writer' = writer
    BY <1>6, <1>10, <1>13 DEF Leave
  <2>2. /\ c \in BlockType
        /\ r = Static(q) => c.state = 2 /\ c.next = NoBlock
    BY <1>6, OutOfUse
  <2> HIDE DEF c
  <2>3. /\ block'[r] = c /\ \A x \in Blocks \ {r} : block'[x] = block[x]
        /\ block' \in [Blocks -> BlockType]
    BY <1>2, <2>1, <2>2 DEF StoreType
  <2>4. /\ Sound(block', n, w, q)
        /\ BlocksFrom(block', n) = BlocksFrom(block, r) \ {r}
        /\ TasksFrom(block', n) = Tail(TasksFrom(block, r))
    BY <1>2, <1>5, <1>6, <1>13, <2>3, TakeNext
  <2>5. \A x \in BlocksFrom(block, reader[o]) : block'[x] = block[x]
    BY <1>1, <1>3, <1>4, <2>3, Names DEF Chain
  <2>6. /\ Sound(block', reader[o], writer[o], o)
        /\ BlocksFrom(block', reader[o]) = BlocksFrom(block, reader[o])
        /\ TasksFrom(block', reader[o]) = TasksFrom(block, reader[o])
    BY <1>1, <1>2, <2>5, Elsewhere
  <2>7. /\ n \in BlocksFrom(block', n)
        /\ w \in BlocksFrom(block', n) /\ block'[w].next = NoBlock
        /\ n # r /\ w # r /\ n \in Chain(q)
    <3>1. n \in BlocksFrom(block', n) /\ w \in BlocksFrom(block', n) /\ block'[w].next = NoBlock
      BY <2>4, SoundFacts
    <3> QED
      BY <2>4, <3>1 DEF Chain
  <2>8. /\ n \in Blocks /\ reader'[q] = n
        /\ reader'[o] = reader[o] /\ reader' \in [Queues -> Blocks]
    <3>1. n \in Blocks
      BY <1>3, <2>7, Names
    <3> QED
      BY <1>1, <2>1, <3>1 DEF StoreType
  <2>9. StoreType' /\ Whole'
    BY <1>1, <1>8, <2>1, <2>3, <2>4, <2>6, <2>8 DEF StoreType, Whole
  <2>10. Chain(q)' = Chain(q) \ {r} /\ Chain(o)' = Chain(o)
    BY <2>4, <2>6, <2>8 DEF Chain
  <2>11. \/ /\ r \in Heap /\ r # Static(q)
            /\ pc' = [pc EXCEPT ![p] = "free"] /\ to_free' = [to_free EXCEPT ![p] = r]
         \/ r = Static(q) /\ pc' = [pc EXCEPT ![p] = "run"] /\ to_free' = to_free
    BY <1>3, <1>9, <2>7, <2>8
  <2>12. /\ block'[Static(o)] = block[Static(o)]
         /\ r # Static(q) => block'[Static(q)] = block[Static(q)]
    BY <1>1, <1>3, <2>3, Names
  <2>13. /\ \A x \in Queues : (Static(x) \in Chain(x)') = (block'[Static(x)].state # 2)
         /\ \A x \in Queues : block'[Static(x)].state = 2 => block'[Static(x)].next = NoBlock
    <3>1. /\ (Static(o) \in Chain(o)') = (block'[Static(o)].state # 2)
          /\ block'[Static(o)].state = 2 => block'[Static(o)].next = NoBlock
      BY <1>1, <1>11, <2>10, <2>12
    <3>2. /\ (Static(q) \in Chain(q)') = (block'[Static(q)].state # 2)
          /\ block'[Static(q)].state = 2 => block'[Static(q)].next = NoBlock
      <4>1. CASE r = Static(q)
        BY <4>1, <2>2, <2>3, <2>10
      <4>2. CASE r # Static(q)
        BY <4>2, <1>11, <2>10, <2>12
      <4> QED
        BY <4>1, <4>2
    <3> QED
      BY <1>1, <3>1, <3>2
  <2>14. heap' = ({to_free'[x] : x \in Performers} \ {NoBlock})
                  \cup (Heap \cap (Chain(q)' \cup Chain(o)'))
    <3>1. CASE r = Static(q)
      <4>1. to_free' = to_free /\ r \notin Heap
        BY <2>11, <3>1, Names
      <4> QED
        BY <4>1, <1>8, <1>11, <2>10
    <3>2. CASE r # Static(q)
      <4>1. r \in Heap /\ to_free' = [to_free EXCEPT ![p] = r] /\ r # NoBlock
        BY <2>11, <3>2, <1>2, Names
      <4>2. {to_free'[x] : x \in Performers} \ {NoBlock}
              = ({to_free[x] : x \in Performers} \ {NoBlock}) \cup {r}
        <5>1. to_free'[p] = r /\ \A x \in Performers : x # p => to_free'[x] = to_free[x]
          BY <4>1
        <5> QED
          BY <5>1, <4>1
      <4>3. (Heap \cap (Chain(q) \cup Chain(o)))
              = {r} \cup (Heap \cap (Chain(q)' \cup Chain(o)'))
        BY <4>1, <1>3, <2>10
      <4> QED
        BY <4>2, <4>3, <1>8, <1>11
    <3> QED
      BY <3>1, <3>2
  <2>15. /\ \A x \in Performers : to_free'[x] \notin Chain(q)' \cup Chain(o)'
         /\ \A x, y \in Performers : x # y /\ to_free'[x] = to_free'[y] => to_free'[x] = NoBlock
    <3>1. \A x \in Performers : to_free[x] # r
      BY <1>3, <1>11
    <3>2. \A x \in Performers : to_free'[x] = to_free[x] \/ (x = p /\ to_free'[x] = r)
      BY <2>11
    <3>3. \A x, y \in Performers : x # y /\ to_free[x] = to_free[y] => to_free[x] = NoBlock
      BY DEF Owned
    <3> QED
      BY <3>1, <3>2, <3>3, <1>4, <1>11, <2>10
  <2>16. /\ writer'[q] \in Chain(q)' /\ block'[writer'[q]].next = NoBlock
         /\ writer'[o] \in Chain(o)' /\ block'[writer'[o]].next = NoBlock
    BY <1>1, <1>11, <2>1, <2>4, <2>5, <2>7, <2>8, <2>10 DEF Chain
  <2>17. Split(q)'
    <3>1. Chain(q)' \cap Chain(o)' = {}
      BY <1>11, <2>10
    <3> QED
      BY <1>1, <2>13, <2>14, <2>15, <2>16, <3>1 DEF Split
  <2>18. Owned'
    BY <2>13, <2>15, <2>17, SplitOwnedNext DEF Owned
  <2> QED
    BY <1>3, <1>5, <1>7, <2>4, <2>6, <2>8, <2>9, <2>11, <2>18 DEF Contents
<1>14. CASE b.write = b.read /\ block[r].next = NoBlock
  <2> DEFINE s == IF block[Static(q)].state = 2 THEN Static(q) ELSE r
             e == IF s = r THEN b ELSE block[s]
             d == Emptied(e)
  <2>1. /\ reader' = [reader EXCEPT ![q] = s] /\ writer' = [writer EXCEPT ![q] = s]
        /\ block' = [[block EXCEPT ![r] = b] EXCEPT ![s] = Emptied(@)]
    BY <1>6, <1>10, <1>14 DEF Leave
  <2>2. w = r /\ Chain(q) = {r} /\ Contents(q) = Held(block[r])
    BY <1>2, <1>14, LastBlock DEF Chain, Contents
  <2>3. /\ s \in Blocks /\ s \in {Static(q)} \cup Heap
        /\ s # r => s = Static(q) /\ r \in Heap /\ block[s].state = 2 /\ block[s].next = NoBlock
        /\ r = Static(q) => s = r
        /\ s = r => s \in {Static(q)} \cup Heap
    BY <1>2, <1>3, <1>6, <1>11, Names
  <2>4. s = r /\ r # Static(q) => block[Static(q)].state # 2 /\ Static(q) \in Chain(q)
    BY <1>11
  <2>5. s = r => s = Static(q)
    BY <2>2, <2>4
  <2>6. s = Static(q)
    BY <2>3, <2>5
  <2>7. e \in BlockType /\ e.next = NoBlock
    BY <1>6, <1>14, <2>3 DEF StoreType
  <2> HIDE DEF e
  <2>8. d \in BlockType /\ d.state = 0 /\ d.next = NoBlock /\ Ring(d) /\ Held(d) = <<>>
    BY <2>7, Anew
  <2>9. /\ block'[s] = d
        /\ \A x \in Blocks \ {r, s} : block'[x] = block[x]
        /\ block' \in [Blocks -> BlockType]
    <3> HIDE DEF s
    <3>1. block \in [Blocks -> BlockType]
      BY DEF StoreType
    <3>2. block'[s] = d
      BY <1>2, <1>6, <2>1, <2>3, <3>1 DEF e
    <3>3. /\ r # s => block'[r] = b
          /\ \A x \in Blocks \ {r, s} : block'[x] = block[x]
          /\ block' = [x \in Blocks |-> block'[x]]
      BY <1>2, <2>1, <2>3, <3>1
    <3> HIDE DEF d
    <3>4. \A x \in Blocks : block'[x] \in BlockType
      BY <1>6, <2>8, <3>1, <3>2, <3>3
    <3> QED
      BY <3>2, <3>3, <3>4
  <2> HIDE DEF d, s
  <2>10. Sound(block', s, s, q) /\ BlocksFrom(block', s) = {s} /\ TasksFrom(block', s) = <<>>
    <3>1. Ring(block'[s]) /\ block'[s].next = NoBlock /\ Held(block'[s]) = <<>>
      BY <2>8, <2>9
    <3> QED
      BY <2>3, <3>1, OneBlock
  <2>11. \A x \in BlocksFrom(block, reader[o]) : block'[x] = block[x]
    BY <1>1, <1>3, <1>4, <2>6, <2>9, Names DEF Chain
  <2>12. /\ Sound(block', reader[o], writer[o], o)
         /\ BlocksFrom(block', reader[o]) = BlocksFrom(block, reader[o])
         /\ TasksFrom(block', reader[o]) = TasksFrom(block, reader[o])
    BY <1>1, <1>2, <2>11, Elsewhere
  <2>13. /\ reader'[q] = s /\ reader'[o] = reader[o] /\ reader' \in [Queues -> Blocks]
         /\ writer'[q] = s /\ writer'[o] = writer[o] /\ writer' \in [Queues -> Blocks]
    BY <1>1, <2>1, <2>3 DEF StoreType
  <2>14. StoreType' /\ Whole'
    BY <1>1, <1>8, <2>9, <2>10, <2>12, <2>13 DEF StoreType, Whole
  <2>15. Chain(q)' = {s} /\ Chain(o)' = Chain(o)
    BY <2>10, <2>12, <2>13 DEF Chain
  <2>16. \/ /\ r \in Heap /\ r # Static(q)
            /\ pc' = [pc EXCEPT ![p] = "free"] /\ to_free' = [to_free EXCEPT ![p] = r]
         \/ r = Static(q) /\ pc' = [pc EXCEPT ![p] = "run"] /\ to_free' = to_free
    BY <1>3, <1>9, <2>6, <2>13
  <2>17. /\ \A x \in Queues : (Static(x) \in Chain(x)') = (block'[Static(x)].state # 2)
         /\ \A x \in Queues : block'[Static(x)].state = 2 => block'[Static(x)].next = NoBlock
    <3>1. block'[Static(o)] = block[Static(o)]
      BY <1>1, <1>3, <2>6, <2>9, Names
    <3>2. /\ (Static(o) \in Chain(o)') = (block'[Static(o)].state # 2)
          /\ block'[Static(o)].state = 2 => block'[Static(o)].next = NoBlock
      BY <1>1, <1>11, <2>15, <3>1
    <3>3. /\ (Static(q) \in Chain(q)') = (block'[Static(q)].state # 2)
          /\ block'[Static(q)].state = 2 => block'[Static(q)].next = NoBlock
      BY <2>6, <2>8, <2>9, <2>15
    <3> QED
      BY <1>1, <3>2, <3>3
  <2>18. heap' = ({to_free'[x] : x \in Performers} \ {NoBlock})
                  \cup (Heap \cap (Chain(q)' \cup Chain(o)'))
    <3>1. s \notin Heap
      BY <2>6, Names
    <3>2. CASE r = Static(q)
      <4>1. to_free' = to_free /\ r \notin Heap
        BY <2>16, <3>2, Names
      <4> QED
        BY <4>1, <3>1, <1>8, <1>11, <2>2, <2>15
    <3>3. CASE r # Static(q)
      <4>1. r \in Heap /\ to_free' = [to_free EXCEPT ![p] = r] /\ r # NoBlock
        BY <2>16, <3>3, <1>2, Names
      <4>2. {to_free'[x] : x \in Performers} \ {NoBlock}
              = ({to_free[x] : x \in Performers} \ {NoBlock}) \cup {r}
        <5>1. to_free'[p] = r /\ \A x \in Performers : x # p => to_free'[x] = to_free[x]
          BY <4>1
        <5> QED
          BY <5>1, <4>1
      <4>3. (Heap \cap (Chain(q) \cup Chain(o)))
              = {r} \cup (Heap \cap (Chain(q)' \cup Chain(o)'))
        BY <4>1, <3>1, <1>3, <2>2, <2>15
      <4> QED
        BY <4>2, <4>3, <1>8, <1>11
    <3> QED
      BY <3>2, <3>3
  <2>19. /\ \A x \in Performers : to_free'[x] \notin Chain(q)' \cup Chain(o)'
         /\ \A x, y \in Performers : x # y /\ to_free'[x] = to_free'[y] => to_free'[x] = NoBlock
    <3>1. \A x \in Performers : to_free[x] # r /\ to_free[x] # s
      BY <1>3, <1>11, <2>6, Names
    <3>2. \A x \in Performers : to_free'[x] = to_free[x] \/ (x = p /\ to_free'[x] = r /\ r # s)
      BY <2>6, <2>16
    <3>3. \A x, y \in Performers : x # y /\ to_free[x] = to_free[y] => to_free[x] = NoBlock
      BY DEF Owned
    <3> QED
      BY <3>1, <3>2, <3>3, <1>4, <1>11, <2>15
  <2>20. /\ writer'[q] \in Chain(q)' /\ block'[writer'[q]].next = NoBlock
         /\ writer'[o] \in Chain(o)' /\ block'[writer'[o]].next = NoBlock
    BY <1>11, <2>8, <2>9, <2>11, <2>13, <2>15 DEF Chain
  <2>21. Split(q)'
    <3>1. Chain(q)' \cap Chain(o)' = {}
      BY <1>1, <1>3, <2>6, <2>15, Names
    <3> QED
      BY <1>1, <2>17, <2>18, <2>19, <2>20, <3>1 DEF Split
  <2>22. Owned'
    BY <2>17, <2>19, <2>21, SplitOwnedNext DEF Owned
  <2>23. Contents(q)' = Tail(Contents(q))
    BY <1>6, <1>14, <2>2, <2>10, <2>13 DEF Contents
  <2> QED
    BY <1>3, <1>5, <1>7, <2>12, <2>13, <2>14, <2>16, <2>22, <2>23 DEF Contents
<1> QED
  BY <1>12, <1>13, <1>14

(* Free gives back a block that is in no chain.                            *)
LEMMA FreeEffect ==
  ASSUME StoreType, Whole, Owned,
         to_free \in [Performers -> Heap \cup {NoBlock}],
         NEW p \in Performers, to_free[p] # NoBlock, Free(p)
  PROVE  /\ StoreType' /\ Whole' /\ Owned'
         /\ \A q \in Queues : Contents(q)' = Contents(q)
<1> DEFINE f == to_free[p]
<1>1. /\ heap' = heap \ {f} /\ block' = [block EXCEPT ![f] = Fresh(Junk)]
      /\ to_free' = [to_free EXCEPT ![p] = NoBlock]
      /\ reader' = reader /\ writer' = writer
  BY DEF Free
<1>2. f \in Heap /\ f \in Blocks /\ f # NoBlock
  BY Names
<1>3. Fresh(Junk) \in BlockType
  BY QueueAssumption DEF Fresh, Junk, BlockType
<1>4. \A q \in Queues : f \notin Chain(q)
  BY DEF Owned, BlocksOwned, Queues
<1>5. /\ \A x \in Blocks : x # f => block'[x] = block[x]
      /\ block' \in [Blocks -> BlockType]
  BY <1>1, <1>2, <1>3 DEF StoreType
<1>6. ASSUME NEW q \in Queues
      PROVE  /\ Sound(block, reader[q], writer[q], q)'
             /\ Chain(q)' = Chain(q) /\ Contents(q)' = Contents(q)
             /\ block'[writer[q]] = block[writer[q]] /\ block'[Static(q)] = block[Static(q)]
  <2>1. Sound(block, reader[q], writer[q], q)
    BY DEF Whole
  <2>2. Chain(q) \subseteq Blocks /\ writer[q] \in Chain(q)
    BY <2>1, SoundFacts, Names DEF Chain
  <2>3. \A x \in BlocksFrom(block, reader[q]) : block'[x] = block[x]
    BY <1>4, <1>5, <2>2 DEF Chain
  <2>4. /\ Sound(block', reader[q], writer[q], q)
        /\ BlocksFrom(block', reader[q]) = BlocksFrom(block, reader[q])
        /\ TasksFrom(block', reader[q]) = TasksFrom(block, reader[q])
    BY <2>1, <2>3, Elsewhere
  <2>5. block'[Static(q)] = block[Static(q)]
    BY <1>2, <1>5, Names
  <2> QED
    BY <1>1, <2>2, <2>3, <2>4, <2>5 DEF Chain, Contents
<1>7. StoreType' /\ Whole'
  BY <1>1, <1>5, <1>6 DEF StoreType, Whole
<1>8. \A x \in Performers : to_free'[x] = IF x = p THEN NoBlock ELSE to_free[x]
  BY <1>1
<1>9. \A x, y \in Performers : x # y /\ to_free[x] = to_free[y] => to_free[x] = NoBlock
  BY DEF Owned
<1>10. {to_free'[x] : x \in Performers} \ {NoBlock}
         = ({to_free[x] : x \in Performers} \ {NoBlock}) \ {f}
  BY <1>2, <1>8, <1>9
<1>11. "urgent" \in Queues /\ "normal" \in Queues
  BY Names
<1>12. BlocksOwned
  BY DEF Owned
<1>13. BlocksOwned'
  <2>1. Chain("urgent")' = Chain("urgent") /\ Chain("normal")' = Chain("normal")
    BY <1>6, <1>11
  <2>2. heap' = ({to_free'[x] : x \in Performers} \ {NoBlock})
                  \cup (Heap \cap (Chain("urgent")' \cup Chain("normal")'))
    BY <1>1, <1>4, <1>10, <1>11, <1>12, <2>1 DEF BlocksOwned
  <2>3. \A x \in Performers : to_free'[x] \notin Chain("urgent")' \cup Chain("normal")'
    <3>1. NoBlock \notin Chain("urgent") \cup Chain("normal")
      <4>1. \A q \in Queues : NoBlock \notin Chain(q)
        BY DEF Chain, BlocksFrom
      <4> QED
        BY <4>1, <1>11
    <3> QED
      BY <3>1, <2>1, <1>8, <1>12 DEF BlocksOwned
  <2>4. \A q \in Queues : /\ writer'[q] \in Chain(q)' /\ block'[writer'[q]].next = NoBlock
                          /\ (Static(q) \in Chain(q)') = (block'[Static(q)].state # 2)
    BY <1>1, <1>6, <1>12 DEF BlocksOwned
  <2> QED
    BY <1>12, <2>1, <2>2, <2>3, <2>4 DEF BlocksOwned
<1>14. Owned'
  BY <1>6, <1>8, <1>9, <1>13 DEF Owned
<1> QED
  BY <1>6, <1>7, <1>14

-----------------------------------------------------------------------------

(* The two tasks of the library are none of the program's.                 *)
LEMMA TaskNames ==
  /\ Cycle \in Tasks /\ Unwind \in Tasks /\ NoTask \notin Tasks
  /\ \A k \in 1 .. MaxTasks : k \in Tasks
  /\ Main \in Performers /\ Threads \subseteq Performers
  /\ \A p \in Performers : p = Main \/ p \in Threads
  /\ \A t \in Threads : t # Main
BY QueueAssumption DEF Cycle, Unwind, Tasks, NoTask, Performers

(* A thread that moves finds main still waiting for it.                    *)
LEMMA MainWaits ==
  ASSUME Ending, pc \in [Performers -> STRING], NEW p \in Performers, p # Main, pc[p] # "gone"
  PROVE  pc[Main] = "join"
BY TaskNames DEF Ending

(* Two static blocks, nothing in them.                                     *)
LEMMA StartInv == Init => IInv
<1> SUFFICES ASSUME Init PROVE IInv
  OBVIOUS
<1>1. /\ reader = [q \in Queues |-> Static(q)] /\ writer = reader
      /\ block = [b \in Blocks |-> IF b = Static("normal")
                                   THEN Put(Fresh(Junk), Cycle) ELSE Fresh(Junk)]
      /\ heap = {}
      /\ pc = [p \in Performers |-> IF p = Main THEN "join" ELSE "urgent"]
      /\ doing = [p \in Performers |-> NoTask]
      /\ to_free = [p \in Performers |-> NoBlock]
      /\ pushed = 0 /\ active = TRUE
  BY DEF Init
<1>2. Junk \in [0 .. BlockCount - 1 -> Tasks \cup {NoTask}]
  BY DEF Junk
<1>3. /\ Fresh(Junk) \in BlockType /\ Fresh(Junk).state = 0 /\ Fresh(Junk).next = NoBlock
      /\ Fresh(Junk).write = 0 /\ Fresh(Junk).read = 0
  BY <1>2, QueueAssumption DEF Fresh, BlockType
<1>4. Ring(Fresh(Junk)) /\ Held(Fresh(Junk)) = <<>>
  BY <1>3, FreshHeld
<1>5. /\ Put(Fresh(Junk), Cycle) \in BlockType /\ Ring(Put(Fresh(Junk), Cycle))
      /\ Put(Fresh(Junk), Cycle).next = NoBlock /\ Put(Fresh(Junk), Cycle).state # 2
  BY <1>2, PutFresh, TaskNames
<1>6. StoreType
  BY <1>1, <1>3, <1>5, Names DEF StoreType
<1>7. Typed
  BY <1>1, <1>6, TaskNames, QueueAssumption DEF Typed, Queues
<1>8. ASSUME NEW q \in Queues
      PROVE  /\ Sound(block, reader[q], writer[q], q)
             /\ Chain(q) = {Static(q)} /\ block[Static(q)].state # 2
             /\ block[Static(q)].next = NoBlock
             /\ writer[q] = Static(q)
  <2>1. /\ reader[q] = Static(q) /\ writer[q] = Static(q) /\ Static(q) \in Blocks
        /\ Ring(block[Static(q)]) /\ block[Static(q)].next = NoBlock
        /\ block[Static(q)].state # 2
    BY <1>1, <1>3, <1>4, <1>5, Names
  <2> QED
    BY <2>1, OneBlock DEF Chain
<1>9. Whole
  BY <1>8 DEF Whole
<1>10. Owned
  <2>1. Chain("urgent") = {"urgent"} /\ Chain("normal") = {"normal"}
    BY <1>8, Names
  <2>2. \A p \in Performers : to_free[p] = NoBlock
    BY <1>1
  <2>3. heap = ({to_free[p] : p \in Performers} \ {NoBlock})
                 \cup (Heap \cap (Chain("urgent") \cup Chain("normal")))
    BY <1>1, <2>1, <2>2, Names
  <2>4. \A p \in Performers : to_free[p] \notin Chain("urgent") \cup Chain("normal")
    BY <2>1, <2>2, Names
  <2>5. BlocksOwned
    BY <1>8, <2>1, <2>3, <2>4, Names DEF BlocksOwned
  <2> QED
    BY <1>8, <2>2, <2>5 DEF Owned
<1>11. Places /\ Ending
  BY <1>1, TaskNames DEF Places, Ending, Queues
<1> QED
  BY <1>7, <1>9, <1>10, <1>11 DEF IInv

(* No block, reader or writer changes.                                     *)
LEMMA StillEffect ==
  ASSUME Whole, Owned, StoreType, UNCHANGED <<reader, writer, block, heap, to_free>>
  PROVE  /\ Whole' /\ Owned' /\ StoreType'
         /\ \A q \in Queues : Contents(q)' = Contents(q)
BY DEF Whole, Owned, BlocksOwned, StoreType, Chain, Contents

(* The invariant over Pop, over the actions that push and over Free.       *)
LEMMA PopStep ==
  ASSUME IInv, NEW p \in Performers, NEW q \in Queues, Pop(p, q)
  PROVE  IInv'
<1>1. /\ StoreType /\ Whole /\ Owned /\ Places /\ Ending
      /\ pc \in [Performers -> Queues \cup {"free", "run", "again", "check", "join", "gone"}]
      /\ doing \in [Performers -> Tasks \cup {NoTask}]
      /\ to_free \in [Performers -> Heap \cup {NoBlock}]
      /\ pushed \in 0 .. MaxTasks /\ active \in BOOLEAN
  BY DEF IInv, Typed
<1>2. pc[p] = q /\ pushed' = pushed /\ active' = active
  BY DEF Pop
<1>3. to_free[p] = NoBlock
  BY <1>1, <1>2 DEF Places, Queues
<1>4. /\ StoreType' /\ Whole' /\ Owned'
      /\ doing' = [doing EXCEPT ![p] = Head(Contents(q))]
      /\ Contents(q) # <<>> /\ Contents(q) \in Seq(Tasks)
      /\ \/ pc' = [pc EXCEPT ![p] = "run"] /\ UNCHANGED to_free
         \/ /\ pc' = [pc EXCEPT ![p] = "free"]
            /\ reader[q] \in Heap /\ to_free' = [to_free EXCEPT ![p] = reader[q]]
  BY <1>1, <1>3, PopEffect
<1>5. Head(Contents(q)) \in Tasks
  BY <1>4
<1>6. Typed'
  <2>1. /\ pc' \in [Performers -> Queues \cup {"free", "run", "again", "check", "join", "gone"}]
        /\ to_free' \in [Performers -> Heap \cup {NoBlock}]
    BY <1>1, <1>4
  <2>2. doing' \in [Performers -> Tasks \cup {NoTask}]
    BY <1>1, <1>4, <1>5
  <2> QED
    BY <1>1, <1>2, <1>4, <2>1, <2>2 DEF Typed
<1>7. Places'
  <2> SUFFICES ASSUME NEW x \in Performers
               PROVE  /\ pc'[x] = "free" <=> to_free'[x] # NoBlock
                      /\ pc'[x] \in Queues \cup {"check", "join", "gone"} => doing'[x] = NoTask
                      /\ pc'[x] \in {"run", "free"} => doing'[x] \in Tasks
                      /\ pc'[x] = "again" => doing'[x] = Cycle
    BY DEF Places
  <2>1. CASE x = p
    <3>1. doing'[p] \in Tasks
      BY <1>1, <1>4, <1>5
    <3>2. \/ pc'[p] = "run" /\ to_free'[p] = NoBlock
          \/ pc'[p] = "free" /\ to_free'[p] # NoBlock
      BY <1>1, <1>3, <1>4, Names
    <3> QED
      BY <2>1, <3>1, <3>2 DEF Queues
  <2>2. CASE x # p
    <3>1. pc'[x] = pc[x] /\ doing'[x] = doing[x] /\ to_free'[x] = to_free[x]
      BY <2>2, <1>1, <1>4
    <3> QED
      BY <3>1, <1>1 DEF Places
  <2> QED
    BY <2>1, <2>2
<1>8. Ending'
  <2>1. CASE p = Main
    <3>1. pc'[Main] \in {"run", "free"} /\ \A t \in Threads : pc'[t] = pc[t]
      BY <2>1, <1>1, <1>4, TaskNames
    <3>2. \A t \in Threads : pc[t] = "gone"
      BY <1>1, <1>2, <2>1 DEF Ending, Queues
    <3> QED
      BY <3>1, <3>2 DEF Ending
  <2>2. CASE p # Main
    <3>1. pc[Main] = "join"
      BY <1>1, <1>2, <2>2, TaskNames DEF Ending, Queues
    <3>2. pc'[Main] = "join"
      BY <3>1, <2>2, <1>1, <1>4, TaskNames
    <3> QED
      BY <3>2 DEF Ending
  <2> QED
    BY <2>1, <2>2
<1> QED
  BY <1>4, <1>6, <1>7, <1>8 DEF IInv

LEMMA PushStep ==
  ASSUME IInv, NEW q \in Queues, NEW k \in Tasks, Push(q, k), NEW p \in Performers,
         \/ /\ pc[p] = "run" /\ UNCHANGED <<pc, doing>>
            /\ pushed' \in 0 .. MaxTasks
         \/ /\ \/ pc[p] = "again"
               \/ p = Main /\ pc[p] = "join" /\ \A t \in Threads : pc[t] = "gone"
            /\ pc' = [pc EXCEPT ![p] = "urgent"]
            /\ doing' = [doing EXCEPT ![p] = NoTask]
            /\ UNCHANGED pushed,
         UNCHANGED <<to_free, active>>
  PROVE  IInv'
<1>1. /\ StoreType /\ Whole /\ Owned /\ Places /\ Ending
      /\ pc \in [Performers -> Queues \cup {"free", "run", "again", "check", "join", "gone"}]
      /\ doing \in [Performers -> Tasks \cup {NoTask}]
      /\ to_free \in [Performers -> Heap \cup {NoBlock}]
      /\ pushed \in 0 .. MaxTasks /\ active \in BOOLEAN
  BY DEF IInv, Typed
<1>2. StoreType' /\ Whole' /\ Owned'
  BY <1>1, PushEffect
<1>3. Typed'
  <2>1. /\ pc' \in [Performers -> Queues \cup {"free", "run", "again", "check", "join", "gone"}]
        /\ doing' \in [Performers -> Tasks \cup {NoTask}]
        /\ pushed' \in 0 .. MaxTasks
    BY <1>1 DEF Queues
  <2> QED
    BY <1>1, <1>2, <2>1 DEF Typed
<1>4. Places'
  <2> SUFFICES ASSUME NEW x \in Performers
               PROVE  /\ pc'[x] = "free" <=> to_free[x] # NoBlock
                      /\ pc'[x] \in Queues \cup {"check", "join", "gone"} => doing'[x] = NoTask
                      /\ pc'[x] \in {"run", "free"} => doing'[x] \in Tasks
                      /\ pc'[x] = "again" => doing'[x] = Cycle
    BY DEF Places
  <2>1. CASE pc'[x] = pc[x] /\ doing'[x] = doing[x]
    BY <2>1, <1>1 DEF Places
  <2>2. CASE x = p /\ pc'[x] = "urgent" /\ doing'[x] = NoTask /\ pc[x] \in {"again", "join"}
    BY <2>2, <1>1 DEF Places, Queues
  <2> QED
    BY <2>1, <2>2, <1>1
<1>5. Ending'
  <2>1. CASE p = Main
    <3>1. /\ pc'[Main] \in {"run", "urgent"}
          /\ \A t \in Threads : pc'[t] = pc[t]
      BY <2>1, <1>1, TaskNames
    <3>2. \A t \in Threads : pc[t] = "gone"
      BY <1>1, <2>1 DEF Ending
    <3> QED
      BY <3>1, <3>2 DEF Ending
  <2>2. CASE p # Main
    <3>1. pc[Main] = "join"
      BY <1>1, <2>2, TaskNames DEF Ending
    <3>2. pc'[Main] = "join"
      BY <3>1, <2>2, <1>1, TaskNames
    <3> QED
      BY <3>2 DEF Ending
  <2> QED
    BY <2>1, <2>2
<1> QED
  BY <1>2, <1>3, <1>4, <1>5 DEF IInv

LEMMA FreeStep ==
  ASSUME IInv, NEW p \in Performers, Free(p)
  PROVE  IInv'
<1>1. /\ StoreType /\ Whole /\ Owned /\ Places /\ Ending
      /\ pc \in [Performers -> Queues \cup {"free", "run", "again", "check", "join", "gone"}]
      /\ doing \in [Performers -> Tasks \cup {NoTask}]
      /\ to_free \in [Performers -> Heap \cup {NoBlock}]
      /\ pushed \in 0 .. MaxTasks /\ active \in BOOLEAN
  BY DEF IInv, Typed
<1>2. /\ pc[p] = "free" /\ pc' = [pc EXCEPT ![p] = "run"]
      /\ to_free' = [to_free EXCEPT ![p] = NoBlock]
      /\ doing' = doing /\ pushed' = pushed /\ active' = active
  BY DEF Free
<1>3. to_free[p] # NoBlock
  BY <1>1, <1>2 DEF Places
<1>4. StoreType' /\ Whole' /\ Owned'
  BY <1>1, <1>3, FreeEffect
<1>5. Typed'
  BY <1>1, <1>2, <1>4 DEF Typed
<1>6. Places'
  BY <1>1, <1>2 DEF Places, Queues
<1>7. Ending'
  <2>1. CASE p = Main
    <3>1. pc'[Main] = "run" /\ \A t \in Threads : pc'[t] = pc[t]
      BY <2>1, <1>1, <1>2, TaskNames
    <3>2. \A t \in Threads : pc[t] = "gone"
      BY <1>1, <1>2, <2>1 DEF Ending
    <3> QED
      BY <3>1, <3>2 DEF Ending
  <2>2. CASE p # Main
    <3>1. pc[Main] = "join"
      BY <1>1, <1>2, <2>2, TaskNames DEF Ending
    <3>2. pc'[Main] = "join"
      BY <3>1, <2>2, <1>1, <1>2, TaskNames
    <3> QED
      BY <3>2 DEF Ending
  <2> QED
    BY <2>1, <2>2
<1> QED
  BY <1>4, <1>5, <1>6, <1>7 DEF IInv

(* The steps that change no queue.                                         *)
Stays(p) ==
  \/ \E q \in Queues : Miss(p, q)
  \/ Return(p) \/ Check(p) \/ (p = Main /\ End) \/ Stop \/ UNCHANGED vars

(* They keep the invariant and the contents of both queues.                *)
LEMMA StaysStep ==
  ASSUME IInv, NEW p \in Performers, Stays(p)
  PROVE  IInv' /\ \A q \in Queues : Contents(q)' = Contents(q)
<1>1. /\ StoreType /\ Whole /\ Owned /\ Places /\ Ending
      /\ pc \in [Performers -> Queues \cup {"free", "run", "again", "check", "join", "gone"}]
      /\ doing \in [Performers -> Tasks \cup {NoTask}]
      /\ to_free \in [Performers -> Heap \cup {NoBlock}]
      /\ pushed \in 0 .. MaxTasks /\ active \in BOOLEAN
  BY DEF IInv, Typed
<1>2. UNCHANGED <<reader, writer, block, heap, to_free, pushed>> /\ active' \in BOOLEAN
  BY <1>1 DEF Stays, Miss, Return, Check, End, Stop, vars
<1>3. /\ Whole' /\ Owned' /\ StoreType'
      /\ \A q \in Queues : Contents(q)' = Contents(q)
  BY <1>1, <1>2, StillEffect
<1>4. /\ pc' \in [Performers -> Queues \cup {"free", "run", "again", "check", "join", "gone"}]
      /\ doing' \in [Performers -> Tasks \cup {NoTask}]
      /\ Places'
  <2>1. CASE \E q \in Queues : Miss(p, q)
    BY <2>1, <1>1, <1>2 DEF Miss, Places, Queues
  <2>2. CASE Return(p)
    BY <2>2, <1>1, <1>2 DEF Return, Places, Queues
  <2>3. CASE Check(p)
    BY <2>3, <1>1, <1>2 DEF Check, Places, Queues
  <2>4. CASE p = Main /\ End
    BY <2>4, <1>1, <1>2 DEF End, Places, Queues
  <2>5. CASE Stop \/ UNCHANGED vars
    BY <2>5, <1>1, <1>2 DEF Stop, vars, Places
  <2> QED
    BY <2>1, <2>2, <2>3, <2>4, <2>5 DEF Stays
<1>5. Typed'
  BY <1>1, <1>2, <1>3, <1>4 DEF Typed
<1>6. "urgent" \in Queues /\ "normal" \in Queues
  BY Names
<1>7. Ending'
  <2>1. CASE pc' = pc
    BY <2>1, <1>1, <1>3, <1>6 DEF Ending
  <2>2. CASE pc' # pc /\ p # Main
    <3>1. pc[p] # "gone"
      BY <2>2, <1>1 DEF Stays, Miss, Return, Check, End, Stop, vars, Queues
    <3>2. pc[Main] = "join"
      BY <1>1, <2>2, <3>1, TaskNames DEF Ending
    <3>3. pc'[Main] = "join"
      BY <3>2, <2>2, <1>1, TaskNames DEF Stays, Miss, Return, Check, End, Stop, vars
    <3> QED
      BY <3>3 DEF Ending
  <2>3. CASE pc' # pc /\ p = Main
    <3>1. pc[Main] # "join" /\ \A t \in Threads : pc'[t] = pc[t]
      BY <2>3, <1>1, TaskNames DEF Stays, Miss, Return, Check, End, Stop, vars, Queues
    <3>2. \A t \in Threads : pc'[t] = "gone"
      BY <3>1, <1>1 DEF Ending
    <3>3. CASE Miss(Main, "urgent")
      <4>1. pc'[Main] = "normal" /\ Contents("urgent") = <<>>
        BY <3>3, <1>1, <1>6, EmptyContents, TaskNames DEF Miss
      <4> QED
        BY <4>1, <3>2, <1>3, <1>6 DEF Ending
    <3>4. CASE Miss(Main, "normal")
      <4>1. pc[Main] = "normal" /\ pc'[Main] = "check" /\ Contents("normal") = <<>>
        BY <3>4, <1>1, <1>6, EmptyContents, TaskNames DEF Miss
      <4>2. Contents("urgent") = <<>>
        BY <4>1, <1>1 DEF Ending
      <4> QED
        BY <4>1, <4>2, <3>2, <1>3, <1>6 DEF Ending
    <3>5. CASE Return(Main)
      <4>1. pc'[Main] \in {"again", "urgent"}
        BY <3>5, <1>1, TaskNames DEF Return
      <4> QED
        BY <4>1, <3>2 DEF Ending
    <3>6. CASE End
      <4>1. pc[Main] = "check" /\ pc'[Main] = "gone"
        BY <3>6, <1>1, TaskNames DEF End
      <4>2. Contents("urgent") = <<>> /\ Contents("normal") = <<>>
        BY <4>1, <1>1 DEF Ending
      <4> QED
        BY <4>1, <4>2, <3>2, <1>3, <1>6 DEF Ending
    <3>7. Miss(Main, "urgent") \/ Miss(Main, "normal") \/ Return(Main) \/ End
      BY <2>3, TaskNames DEF Stays, Check, Stop, vars, Queues
    <3> QED
      BY <3>3, <3>4, <3>5, <3>6, <3>7
  <2> QED
    BY <2>1, <2>2, <2>3
<1> QED
  BY <1>3, <1>4, <1>5, <1>7 DEF IInv

(* Every step is one of them.                                              *)
LEMMA NextCases ==
  ASSUME [Next]_vars
  PROVE  \/ \E p \in Performers, q \in Queues : Pop(p, q)
         \/ \E p \in Performers : Free(p) \/ Defer(p) \/ Again(p)
         \/ CleanUp
         \/ \E p \in Performers : Stays(p)
BY TaskNames DEF Next, Step, Stays

(* The invariant is inductive.                                             *)
LEMMA Preserved == IInv /\ [Next]_vars => IInv'
<1> SUFFICES ASSUME IInv, [Next]_vars PROVE IInv'
  OBVIOUS
<1>1. CASE \E p \in Performers, q \in Queues : Pop(p, q)
  BY <1>1, PopStep
<1>2. CASE \E p \in Performers : Free(p)
  BY <1>2, FreeStep
<1>3. ASSUME NEW p \in Performers, Defer(p) PROVE IInv'
  <2>1. /\ pc[p] = "run" /\ pushed < MaxTasks /\ pushed' = pushed + 1
        /\ UNCHANGED <<pc, doing, to_free, active>>
    BY <1>3 DEF Defer
  <2>2. PICK q \in Queues : Push(q, pushed')
    BY <1>3 DEF Defer
  <2>3. pushed' \in 1 .. MaxTasks /\ pushed' \in 0 .. MaxTasks
    BY <2>1, QueueAssumption DEF IInv, Typed
  <2>4. pushed' \in Tasks
    BY <2>3, TaskNames
  <2> QED
    BY <2>1, <2>2, <2>3, <2>4, PushStep
<1>4. ASSUME NEW p \in Performers, Again(p) PROVE IInv'
  BY <1>4, PushStep, TaskNames, Names DEF Again
<1>5. CASE CleanUp
  <2>1. doing[Main] = NoTask /\ doing \in [Performers -> Tasks \cup {NoTask}]
    BY <1>5, TaskNames DEF CleanUp, IInv, Typed, Places
  <2>2. doing' = [doing EXCEPT ![Main] = NoTask]
    BY <1>5, <2>1 DEF CleanUp
  <2> QED
    BY <1>5, <2>2, PushStep, TaskNames, Names DEF CleanUp
<1>6. CASE \E p \in Performers : Stays(p)
  BY <1>6, StaysStep
<1> QED
  BY <1>1, <1>2, <1>3, <1>4, <1>5, <1>6, NextCases

(* The chains are whole, the blocks owned, the threads where their tasks   *)
(* say: the inductive invariant.                                           *)
THEOREM Invariant == Spec => []IInv
BY StartInv, Preserved, PTL DEF Spec

(* Every variable keeps its type, write and read stay inside the ring, and *)
(* a thread that runs something runs a task, never the junk of a slot that *)
(* nothing was put in: what Pop takes is the first of Contents, which by   *)
(* Whole holds tasks only, and Places carries it to where it runs.         *)
THEOREM TypeCorrect == Spec => []TypeOK
<1>1. IInv => TypeOK
  <2> SUFFICES ASSUME IInv PROVE TypeOK
    OBVIOUS
  <2>1. /\ reader \in [Queues -> Blocks] /\ writer \in [Queues -> Blocks]
        /\ block \in [Blocks -> BlockType] /\ heap \subseteq Heap
        /\ pc \in [Performers -> Queues \cup {"free", "run", "again", "check", "join", "gone"}]
        /\ doing \in [Performers -> Tasks \cup {NoTask}]
        /\ to_free \in [Performers -> Heap \cup {NoBlock}]
        /\ pushed \in 0 .. MaxTasks /\ active \in BOOLEAN
    BY DEF IInv, Typed, StoreType
  <2>2. ASSUME NEW p \in Performers
        PROVE  IF pc[p] \in {"free", "run", "again"} THEN doing[p] \in Tasks
                                                    ELSE doing[p] = NoTask
    <3>1. CASE pc[p] \in {"free", "run"}
      BY <3>1 DEF IInv, Places
    <3>2. CASE pc[p] = "again"
      BY <3>2, TaskNames DEF IInv, Places
    <3>3. CASE pc[p] \in Queues \cup {"check", "join", "gone"}
      BY <3>3 DEF IInv, Places, Queues
    <3> QED
      BY <2>1, <3>1, <3>2, <3>3
  <2> QED
    BY <2>1, <2>2 DEF TypeOK, BlockType
<1> QED
  BY <1>1, Invariant, PTL

(* Blocks neither leak nor are freed while they are in a queue.            *)
THEOREM OwnedBlocks == Spec => []BlocksOwned
<1>1. IInv => BlocksOwned
  BY DEF IInv, Owned
<1> QED
  BY <1>1, Invariant, PTL

(* When fio_start returns both queues are empty.                           *)
THEOREM NoTaskLost == Spec => []NothingLeft
<1>1. IInv => NothingLeft
  BY Names DEF IInv, Ending, NothingLeft
<1> QED
  BY <1>1, Invariant, PTL

-----------------------------------------------------------------------------
(* The refinement. *)

(* What an operation on one queue does to both.                            *)
LEMMA WaitingPush ==
  ASSUME NEW q \in Queues, NEW k,
         Contents(q)' = Append(Contents(q), k), Contents(Other(q))' = Contents(Other(q))
  PROVE  Waiting' = [Waiting EXCEPT ![q] = Append(@, k)]
BY OtherQueue DEF Waiting

LEMMA WaitingPop ==
  ASSUME NEW q \in Queues,
         Contents(q)' = Tail(Contents(q)), Contents(Other(q))' = Contents(Other(q))
  PROVE  Waiting' = [Waiting EXCEPT ![q] = Tail(@)]
BY OtherQueue DEF Waiting

LEMMA WaitingStays ==
  ASSUME \A q \in Queues : Contents(q)' = Contents(q)
  PROVE  Waiting' = Waiting
BY DEF Waiting

(* Init and the steps map to those of TaskFifo.                            *)
LEMMA FifoInit == Init => Fifo!Init
<1> SUFFICES ASSUME Init PROVE Fifo!Init
  OBVIOUS
<1>1. \A q \in Queues : Sound(block, reader[q], writer[q], q)
  BY StartInv DEF IInv, Whole
<1>2. \A q \in Queues : Contents(q) \in Seq(Tasks)
  BY <1>1, SoundFacts DEF Contents
<1>3. Waiting \in [Queues -> Seq(Tasks)]
  BY <1>2 DEF Waiting
<1>4. doing = [p \in Performers |-> NoTask]
  BY DEF Init
<1> QED
  BY <1>3, <1>4 DEF Fifo!Init

LEMMA FifoStep == IInv /\ [Next]_vars => [Fifo!Next]_(Fifo!fvars)
<1> SUFFICES ASSUME IInv, [Next]_vars PROVE Fifo!Next \/ (Waiting' = Waiting /\ doing' = doing)
  BY DEF Fifo!fvars
<1>1. /\ StoreType /\ Whole /\ Owned /\ Places
      /\ doing \in [Performers -> Tasks \cup {NoTask}]
      /\ to_free \in [Performers -> Heap \cup {NoBlock}]
      /\ pushed \in 0 .. MaxTasks
  BY DEF IInv, Typed
<1>2. ASSUME NEW p \in Performers, NEW q \in Queues, Pop(p, q) PROVE Fifo!Next
  <2>1. pc[p] = q
    BY <1>2 DEF Pop
  <2>2. to_free[p] = NoBlock /\ doing[p] = NoTask
    BY <1>1, <2>1 DEF Places, Queues
  <2>3. /\ Contents(q) # <<>>
        /\ doing' = [doing EXCEPT ![p] = Head(Contents(q))]
        /\ Contents(q)' = Tail(Contents(q)) /\ Contents(Other(q))' = Contents(Other(q))
    BY <1>1, <1>2, <2>2, PopEffect
  <2>4. Waiting[q] = Contents(q)
    BY DEF Waiting
  <2>5. Waiting' = [Waiting EXCEPT ![q] = Tail(@)]
    BY <2>3, WaitingPop
  <2>6. Fifo!Take(p, q)
    BY <2>2, <2>3, <2>4, <2>5 DEF Fifo!Take
  <2> QED
    BY <2>6 DEF Fifo!Next
<1>3. ASSUME NEW p \in Performers, Free(p) PROVE Waiting' = Waiting /\ doing' = doing
  <2>1. to_free[p] # NoBlock /\ doing' = doing
    BY <1>1, <1>3 DEF Places, Free
  <2>2. \A q \in Queues : Contents(q)' = Contents(q)
    BY <1>1, <1>3, <2>1, FreeEffect
  <2> QED
    BY <2>1, <2>2, WaitingStays
<1>4. ASSUME NEW p \in Performers, Defer(p) PROVE Fifo!Next
  <2>1. pushed < MaxTasks /\ pushed' = pushed + 1 /\ UNCHANGED <<doing, to_free>>
    BY <1>4 DEF Defer
  <2>2. PICK q \in Queues : Push(q, pushed')
    BY <1>4 DEF Defer
  <2>3. pushed' \in 1 .. MaxTasks
    BY <1>1, <2>1, QueueAssumption
  <2>4. pushed' \in Tasks
    BY <2>3, TaskNames
  <2>5. /\ Contents(q)' = Append(Contents(q), pushed')
        /\ Contents(Other(q))' = Contents(Other(q))
    BY <1>1, <2>1, <2>2, <2>4, PushEffect
  <2>6. Waiting' = [Waiting EXCEPT ![q] = Append(@, pushed')]
    BY <2>5, WaitingPush
  <2>7. Fifo!Push(q, pushed')
    BY <2>1, <2>6 DEF Fifo!Push
  <2> QED
    BY <2>4, <2>7 DEF Fifo!Next
<1>5. ASSUME NEW p \in Performers, Again(p) PROVE Fifo!Next
  <2>1. /\ Push("normal", Cycle) /\ doing' = [doing EXCEPT ![p] = NoTask] /\ UNCHANGED to_free
        /\ doing[p] = Cycle
    BY <1>1, <1>5 DEF Again, Places
  <2>2. "normal" \in Queues /\ Cycle \in Tasks /\ Cycle # NoTask
    BY Names, TaskNames
  <2>3. /\ Contents("normal")' = Append(Contents("normal"), Cycle)
        /\ Contents(Other("normal"))' = Contents(Other("normal"))
    BY <1>1, <2>1, <2>2, PushEffect
  <2>4. Waiting' = [Waiting EXCEPT !["normal"] = Append(@, doing[p])]
    BY <2>1, <2>2, <2>3, WaitingPush
  <2>5. Fifo!FinishAgain(p, "normal")
    BY <2>1, <2>2, <2>4 DEF Fifo!FinishAgain
  <2> QED
    BY <2>2, <2>5 DEF Fifo!Next
<1>6. ASSUME CleanUp PROVE Fifo!Next
  <2>1. Push("normal", Unwind) /\ UNCHANGED <<doing, to_free>>
    BY <1>6 DEF CleanUp
  <2>2. "normal" \in Queues /\ Unwind \in Tasks
    BY Names, TaskNames
  <2>3. /\ Contents("normal")' = Append(Contents("normal"), Unwind)
        /\ Contents(Other("normal"))' = Contents(Other("normal"))
    BY <1>1, <2>1, <2>2, PushEffect
  <2>4. Waiting' = [Waiting EXCEPT !["normal"] = Append(@, Unwind)]
    BY <2>2, <2>3, WaitingPush
  <2>5. Fifo!Push("normal", Unwind)
    BY <2>1, <2>4 DEF Fifo!Push
  <2> QED
    BY <2>2, <2>5 DEF Fifo!Next
<1>7. ASSUME NEW p \in Performers, Stays(p)
      PROVE  Fifo!Next \/ (Waiting' = Waiting /\ doing' = doing)
  <2>1. Waiting' = Waiting
    BY <1>7, StaysStep, WaitingStays
  <2>2. CASE doing' = doing
    BY <2>1, <2>2
  <2>3. CASE doing' # doing
    <3>1. Return(p) /\ doing' = [doing EXCEPT ![p] = NoTask]
      BY <1>7, <2>3 DEF Stays, Miss, Return, Check, End, Stop, vars
    <3>2. doing[p] # NoTask
      BY <1>1, <3>1, TaskNames DEF Return, Places
    <3>3. Fifo!Finish(p)
      BY <2>1, <3>1, <3>2 DEF Fifo!Finish
    <3> QED
      BY <3>3 DEF Fifo!Next
  <2> QED
    BY <2>2, <2>3
<1> QED
  BY <1>2, <1>3, <1>4, <1>5, <1>6, <1>7, NextCases

(* The chains of ring blocks give their tasks first in, first out, each to *)
(* one thread and once.                                                    *)
THEOREM QueuesAreFifo == Spec => ImplementsFifo
BY FifoInit, FifoStep, Invariant, PTL DEF Spec, ImplementsFifo, Fifo!Spec
=============================================================================
