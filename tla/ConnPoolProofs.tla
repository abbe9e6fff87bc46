--------------------------- MODULE ConnPoolProofs ---------------------------
(***************************************************************************)
(* Proofs about ConnPool, for any number of threads, connections and       *)
(* attempts.                                                               *)
(***************************************************************************)
EXTENDS ConnPool, FiniteSetTheorems, TLAPS

(* What the program counter says of the locals of db_exec, and of the      *)
(* index a return is about to store at.                                    *)
LocalsInv ==
  \A t \in Threads :
    /\ pc[t] \in {"idle", "check", "lock", "take", "reunlock", "refused"} => conn[t] = Null
    /\ pc[t] \in {"exec", "giveback", "relock", "dec", "put"} => conn[t] # Null
    /\ pc[t] \in {"check", "lock", "take", "inc", "unlock"} => retries[t] # 0
    /\ pc[t] = "put" => available_connection \in Slots

(* The inductive invariant: the types are no invariant of their own, since *)
(* a read stays in the array's words by OverrunBound and the counter stays *)
(* a natural number by CounterCovers.                                      *)
Base == TypeOK /\ MutexInv /\ LocalsInv /\ CounterCovers /\ OverrunBound

-----------------------------------------------------------------------------
(* The cardinalities that CounterCovers and OverrunBound count.            *)
LEMMA SubsetCard ==
  ASSUME NEW S \in SUBSET Threads
  PROVE  /\ IsFiniteSet(S)
         /\ Cardinality(S) \in Nat
         /\ Cardinality(S) <= Cardinality(Threads)
         /\ \A t \in S : Cardinality(S) >= 1
         /\ \A t \in S : Cardinality(S \ {t}) = Cardinality(S) - 1
         /\ \A t \in Threads \ S : Cardinality(S \cup {t}) = Cardinality(S) + 1
<1>1. IsFiniteSet(S) /\ Cardinality(S) <= Cardinality(Threads)
  BY FS_Subset, PoolAssumption DEF PoolAssumption
<1>2. Cardinality(S) \in Nat
  BY <1>1, FS_CardinalityType
<1>3. ASSUME NEW t \in S PROVE Cardinality(S) >= 1
  BY <1>1, <1>2, FS_EmptySet
<1>4. ASSUME NEW t \in S PROVE Cardinality(S \ {t}) = Cardinality(S) - 1
  BY <1>1, FS_RemoveElement
<1>5. ASSUME NEW t \in Threads \ S PROVE Cardinality(S \cup {t}) = Cardinality(S) + 1
  BY <1>1, FS_AddElement
<1> QED BY <1>1, <1>2, <1>3, <1>4, <1>5

LEMMA ThreadCard == Cardinality(Threads) \in Nat /\ Cardinality(Threads) >= 1
BY SubsetCard, PoolAssumption DEF PoolAssumption

LEMMA InitBase == Init => Base
<1> SUFFICES ASSUME Init PROVE Base
  OBVIOUS
<1> USE PoolAssumption DEF PoolAssumption
<1>1. TypeOK
  <2>1. connections \in [Slots -> Conns \cup {Null, Junk}]
    BY DEF Init
  <2>2. 0 \in 0 .. Retry
    OBVIOUS
  <2>3. pc \in [Threads -> Places] /\ retries \in [Threads -> 0 .. Retry]
    BY <2>2 DEF Init, Places
  <2>4. conn \in [Threads -> Conns \cup {Null, Junk}]
    BY DEF Init
  <2> QED BY <2>1, <2>3, <2>4 DEF Init, TypeOK
<1>2. MutexInv /\ LocalsInv
  BY DEF Init, MutexInv, LocalsInv, Critical
<1>3. Taken = {} /\ Admitted = {}
  BY DEF Init, Taken, Owners, Admitted
<1>4. CounterCovers /\ OverrunBound
  BY <1>3, FS_EmptySet, ThreadCard DEF CounterCovers, OverrunBound, Init
<1> QED BY <1>1, <1>2, <1>4 DEF Base

(* The threads in a critical section are one.                               *)
LEMMA AloneInCritical ==
  ASSUME Base, NEW t \in Threads, pc[t] \in Critical
  PROVE  \A u \in Threads : pc[u] \in Critical => u = t
BY DEF Base, MutexInv

(* An access of the array by a thread that takes or puts meets one of its  *)
(* words.                                                                  *)
LEMMA AccessInSlots ==
  ASSUME Base, NEW t \in Threads
  PROVE  /\ pc[t] = "take" => available_connection \in Slots
         /\ pc[t] = "dec" => available_connection - 1 \in Slots
<1> USE ThreadCard, PoolAssumption DEF PoolAssumption
<1>1. Admitted \in SUBSET Threads /\ Taken \in SUBSET Threads
  BY DEF Admitted, Taken, Owners
<1>2. available_connection \in Nat /\ CounterCovers /\ OverrunBound
  BY DEF Base, TypeOK
<1>3. CASE pc[t] = "take"
  <2>1. t \in Admitted
    BY <1>3 DEF Admitted
  <2>2. Cardinality(Admitted) \in Nat /\ Cardinality(Admitted) >= 1
    BY <1>1, <2>1, SubsetCard
  <2> QED BY <1>2, <1>3, <2>2 DEF OverrunBound, Slots
<1>4. CASE pc[t] = "dec"
  <2>1. t \in Taken
    BY <1>4 DEF Taken, Owners, Base, LocalsInv
  <2>2. Cardinality(Taken) \in Nat /\ Cardinality(Taken) >= 1
    BY <1>1, <2>1, SubsetCard
  <2>3. Cardinality(Admitted) \in Nat
    BY <1>1, SubsetCard
  <2> QED BY <1>2, <1>4, <2>2, <2>3 DEF CounterCovers, OverrunBound, Slots
<1> QED BY <1>3, <1>4

-----------------------------------------------------------------------------
(* Every step keeps each part of Base.                                     *)

LEMMA StepTypeOK == Base /\ Next => TypeOK'
<1> SUFFICES ASSUME Base, NEW t \in Threads,
                    Call(t) \/ Request(t) \/ Exec(t) \/ Return(t) \/ Refuse(t)
             PROVE  TypeOK'
  BY DEF Next
<1> USE PoolAssumption DEF PoolAssumption, Goto
<1>1. TypeOK
  BY DEF Base
<1>2. ASSUME retries[t] # 0, NoConnection(t)
      PROVE  /\ retries' \in [Threads -> 0 .. Retry]
             /\ pc' \in [Threads -> Places]
  <2>1. retries[t] - 1 \in 0 .. Retry
    BY <1>1, <1>2 DEF TypeOK
  <2>2. retries' \in [Threads -> 0 .. Retry]
    BY <1>1, <1>2, <2>1 DEF TypeOK, NoConnection
  <2>3. pc' \in [Threads -> Places]
    BY <1>1, <1>2 DEF TypeOK, NoConnection, Places
  <2> QED BY <2>2, <2>3
<1>3. CASE Call(t)
  <2>1. Retry \in 0 .. Retry
    OBVIOUS
  <2> QED BY <1>1, <1>3, <2>1 DEF TypeOK, Call, Places
<1>4. CASE Check(t)
  <2>1. retries[t] # 0
    BY <1>4 DEF Check, Base, LocalsInv
  <2>2. CASE NoConnection(t)
    BY <1>1, <1>2, <1>4, <2>1, <2>2 DEF TypeOK, Check
  <2>3. CASE Goto(t, "lock") /\ UNCHANGED retries
    BY <1>1, <1>4, <2>3 DEF TypeOK, Check, Places
  <2> QED BY <1>4, <2>2, <2>3 DEF Check
<1>5. CASE Lock(t)
  BY <1>1, <1>5 DEF TypeOK, Lock, Places
<1>6. CASE Take(t)
  <2>1. available_connection \in Slots
    BY <1>6, AccessInSlots DEF Take
  <2> QED BY <1>1, <1>6, <2>1 DEF TypeOK, Take, Places
<1>7. CASE Inc(t)
  BY <1>1, <1>7 DEF TypeOK, Inc, Places
<1>8. CASE Unlock(t)
  <2>1. retries[t] # 0
    BY <1>8 DEF Unlock, Base, LocalsInv
  <2>2. CASE NoConnection(t)
    BY <1>1, <1>2, <1>8, <2>1, <2>2 DEF TypeOK, Unlock
  <2>3. CASE Goto(t, "exec") /\ UNCHANGED retries
    BY <1>1, <1>8, <2>3 DEF TypeOK, Unlock, Places
  <2> QED BY <1>8, <2>2, <2>3 DEF Unlock
<1>9. CASE Exec(t)
  BY <1>1, <1>9 DEF TypeOK, Exec, Places
<1>10. CASE GiveBack(t)
  BY <1>1, <1>10 DEF TypeOK, GiveBack, Places
<1>11. CASE Relock(t)
  BY <1>1, <1>11 DEF TypeOK, Relock, Places
<1>12. CASE Dec(t)
  <2>1. available_connection - 1 \in Nat
    BY <1>12, AccessInSlots, ThreadCard DEF Dec, Slots
  <2> QED BY <1>1, <1>12, <2>1 DEF TypeOK, Dec, Places
<1>13. CASE Put(t)
  BY <1>1, <1>13 DEF TypeOK, Put, Places
<1>14. CASE Reunlock(t)
  BY <1>1, <1>14 DEF TypeOK, Reunlock, Places
<1>15. CASE Refuse(t)
  BY <1>1, <1>15 DEF TypeOK, Refuse, Places
<1> QED
  BY <1>3, <1>4, <1>5, <1>6, <1>7, <1>8, <1>9, <1>10, <1>11, <1>12, <1>13, <1>14,
     <1>15 DEF Request, Return

LEMMA StepMutex == Base /\ Next => MutexInv'
<1> SUFFICES ASSUME Base, NEW t \in Threads,
                    Call(t) \/ Request(t) \/ Exec(t) \/ Return(t) \/ Refuse(t)
             PROVE  MutexInv'
  BY DEF Next
<1> USE PoolAssumption DEF PoolAssumption, Goto, NoConnection, Critical, MutexInv, TypeOK
<1>1. TypeOK /\ MutexInv
  BY DEF Base
<1>2. CASE Call(t)
  BY <1>1, <1>2 DEF Call
<1>3. CASE Check(t)
  BY <1>1, <1>3 DEF Check
<1>4. CASE Lock(t)
  BY <1>1, <1>4 DEF Lock
<1>5. CASE Take(t)
  BY <1>1, <1>5 DEF Take
<1>6. CASE Inc(t)
  BY <1>1, <1>6 DEF Inc
<1>7. CASE Unlock(t)
  BY <1>1, <1>7 DEF Unlock
<1>8. CASE Exec(t)
  BY <1>1, <1>8 DEF Exec
<1>9. CASE GiveBack(t)
  BY <1>1, <1>9 DEF GiveBack
<1>10. CASE Relock(t)
  BY <1>1, <1>10 DEF Relock
<1>11. CASE Dec(t)
  BY <1>1, <1>11 DEF Dec
<1>12. CASE Put(t)
  BY <1>1, <1>12 DEF Put
<1>13. CASE Reunlock(t)
  BY <1>1, <1>13 DEF Reunlock
<1>14. CASE Refuse(t)
  BY <1>1, <1>14 DEF Refuse
<1> QED
  BY <1>2, <1>3, <1>4, <1>5, <1>6, <1>7, <1>8, <1>9, <1>10, <1>11, <1>12, <1>13,
     <1>14 DEF Request, Return

LEMMA StepLocals == Base /\ Next => LocalsInv'
<1> SUFFICES ASSUME Base, NEW t \in Threads,
                    Call(t) \/ Request(t) \/ Exec(t) \/ Return(t) \/ Refuse(t)
             PROVE  LocalsInv'
  BY DEF Next
<1> USE PoolAssumption DEF PoolAssumption, Goto, LocalsInv, TypeOK
<1>1. TypeOK /\ LocalsInv /\ Slots' = Slots
  BY DEF Base, Slots
<1>2. CASE Call(t)
  BY <1>1, <1>2 DEF Call
<1>3. CASE Check(t)
  BY <1>1, <1>3 DEF Check, NoConnection
<1>4. CASE Lock(t)
  BY <1>1, <1>4 DEF Lock
<1>5. CASE Take(t)
  BY <1>1, <1>5 DEF Take
<1>6. CASE Inc(t)
  BY <1>1, <1>6, AloneInCritical DEF Inc, Critical
<1>7. CASE Unlock(t)
  BY <1>1, <1>7 DEF Unlock, NoConnection
<1>8. CASE Exec(t)
  BY <1>1, <1>8 DEF Exec
<1>9. CASE GiveBack(t)
  BY <1>1, <1>9 DEF GiveBack
<1>10. CASE Relock(t)
  BY <1>1, <1>10 DEF Relock
<1>11. CASE Dec(t)
  BY <1>1, <1>11, AloneInCritical, AccessInSlots DEF Dec, Critical
<1>12. CASE Put(t)
  BY <1>1, <1>12 DEF Put
<1>13. CASE Reunlock(t)
  BY <1>1, <1>13 DEF Reunlock
<1>14. CASE Refuse(t)
  BY <1>1, <1>14 DEF Refuse
<1> QED
  BY <1>2, <1>3, <1>4, <1>5, <1>6, <1>7, <1>8, <1>9, <1>10, <1>11, <1>12, <1>13,
     <1>14 DEF Request, Return

LEMMA StepCovers == Base /\ Next => CounterCovers'
<1> SUFFICES ASSUME Base, NEW t \in Threads,
                    Call(t) \/ Request(t) \/ Exec(t) \/ Return(t) \/ Refuse(t)
             PROVE  CounterCovers'
  BY DEF Next
<1> USE PoolAssumption DEF PoolAssumption, Goto
<1>1. TypeOK /\ LocalsInv /\ Taken \in SUBSET Threads
  BY DEF Base, Taken, Owners
<1>2. /\ available_connection \in Nat
      /\ Cardinality(Taken) \in Nat
      /\ Cardinality(Taken) <= available_connection
  BY <1>1, SubsetCard DEF Base, CounterCovers, TypeOK
<1>3. ASSUME available_connection' = available_connection, Taken' = Taken
      PROVE  CounterCovers'
  BY <1>2, <1>3 DEF CounterCovers
<1>4. CASE Call(t)
  BY <1>1, <1>3, <1>4 DEF Call, Taken, Owners, TypeOK
<1>5. CASE Check(t)
  BY <1>1, <1>3, <1>5 DEF Check, NoConnection, Taken, Owners, TypeOK
<1>6. CASE Lock(t)
  BY <1>1, <1>3, <1>6 DEF Lock, Taken, Owners, TypeOK
<1>7. CASE Take(t)
  <2>1. t \notin Taken /\ t \notin Taken'
    BY <1>1, <1>7 DEF Take, Taken, Owners, LocalsInv, TypeOK
  <2>2. Taken' = Taken
    BY <1>1, <1>7, <2>1 DEF Take, Taken, Owners, TypeOK
  <2> QED BY <1>3, <1>7, <2>2 DEF Take
<1>8. CASE Inc(t)
  <2>1. t \notin Taken
    BY <1>8 DEF Inc, Taken
  <2>2. Taken' = Taken \/ Taken' = Taken \cup {t}
    BY <1>1, <1>8 DEF Inc, Taken, Owners, TypeOK
  <2>3. Cardinality(Taken') <= Cardinality(Taken) + 1
    BY <1>1, <1>2, <2>1, <2>2, SubsetCard
  <2>4. Cardinality(Taken') \in Nat
    BY <1>1, <2>2, SubsetCard
  <2> QED BY <1>2, <1>8, <2>3, <2>4 DEF Inc, CounterCovers
<1>9. CASE Unlock(t)
  BY <1>1, <1>3, <1>9 DEF Unlock, NoConnection, Taken, Owners, TypeOK
<1>10. CASE Exec(t)
  BY <1>1, <1>3, <1>10 DEF Exec, Taken, Owners, TypeOK
<1>11. CASE GiveBack(t)
  <2>1. t \in Taken
    BY <1>1, <1>11 DEF GiveBack, Taken, Owners, LocalsInv
  <2>2. available_connection # 0
    BY <1>1, <1>2, <2>1, SubsetCard
  <2> QED BY <1>1, <1>3, <1>11, <2>2 DEF GiveBack, Taken, Owners, TypeOK
<1>12. CASE Relock(t)
  BY <1>1, <1>3, <1>12 DEF Relock, Taken, Owners, TypeOK
<1>13. CASE Dec(t)
  <2>1. t \in Taken
    BY <1>1, <1>13 DEF Dec, Taken, Owners, LocalsInv
  <2>2. Taken' = Taken \ {t}
    BY <1>1, <1>13 DEF Dec, Taken, Owners, TypeOK
  <2>3. Cardinality(Taken') = Cardinality(Taken) - 1
    BY <1>1, <2>1, <2>2, SubsetCard
  <2> QED BY <1>2, <1>13, <2>3 DEF Dec, CounterCovers
<1>14. CASE Put(t)
  BY <1>1, <1>3, <1>14 DEF Put, Taken, Owners, TypeOK
<1>15. CASE Reunlock(t)
  BY <1>1, <1>3, <1>15 DEF Reunlock, Taken, Owners, TypeOK
<1>16. CASE Refuse(t)
  BY <1>1, <1>3, <1>16 DEF Refuse, Taken, Owners, TypeOK
<1> QED
  BY <1>4, <1>5, <1>6, <1>7, <1>8, <1>9, <1>10, <1>11, <1>12, <1>13, <1>14, <1>15,
     <1>16 DEF Request, Return

LEMMA StepOverrun == Base /\ Next => OverrunBound'
<1> SUFFICES ASSUME Base, NEW t \in Threads,
                    Call(t) \/ Request(t) \/ Exec(t) \/ Return(t) \/ Refuse(t)
             PROVE  OverrunBound'
  BY DEF Next
<1> USE PoolAssumption DEF PoolAssumption, Goto
<1>1. TypeOK /\ Admitted \in SUBSET Threads /\ Admitted' \in SUBSET Threads
  BY DEF Base, Admitted
<1>2. /\ available_connection \in Nat
      /\ Cardinality(Admitted) \in Nat
      /\ Cardinality(Admitted') \in Nat
      /\ available_connection + Cardinality(Admitted) <= NumConns + Cardinality(Threads) - 1
  BY <1>1, SubsetCard DEF Base, OverrunBound, TypeOK
<1>3. ASSUME available_connection' = available_connection, Admitted' = Admitted
      PROVE  OverrunBound'
  BY <1>2, <1>3 DEF OverrunBound
<1>4. CASE Call(t)
  BY <1>1, <1>3, <1>4 DEF Call, Admitted, TypeOK
<1>5. CASE Check(t)
  <2>1. CASE available_connection < NumConns
    <3>1. Cardinality(Admitted') <= Cardinality(Threads)
      BY <1>1, SubsetCard
    <3> QED BY <1>2, <1>5, <2>1, <3>1, ThreadCard DEF Check, OverrunBound
  <2>2. CASE available_connection >= NumConns
    BY <1>1, <1>3, <1>5, <2>2 DEF Check, NoConnection, Admitted, TypeOK
  <2> QED BY <1>2, <2>1, <2>2
<1>6. CASE Lock(t)
  BY <1>1, <1>3, <1>6 DEF Lock, Admitted, TypeOK
<1>7. CASE Take(t)
  BY <1>1, <1>3, <1>7 DEF Take, Admitted, TypeOK
<1>8. CASE Inc(t)
  <2>1. t \in Admitted /\ Admitted' = Admitted \ {t}
    BY <1>1, <1>8 DEF Inc, Admitted, TypeOK
  <2>2. Cardinality(Admitted') = Cardinality(Admitted) - 1
    BY <1>1, <2>1, SubsetCard
  <2> QED BY <1>2, <1>8, <2>2, ThreadCard DEF Inc, OverrunBound
<1>9. CASE Unlock(t)
  BY <1>1, <1>3, <1>9 DEF Unlock, NoConnection, Admitted, TypeOK
<1>10. CASE Exec(t)
  BY <1>1, <1>3, <1>10 DEF Exec, Admitted, TypeOK
<1>11. CASE GiveBack(t)
  BY <1>1, <1>3, <1>11 DEF GiveBack, Admitted, TypeOK
<1>12. CASE Relock(t)
  BY <1>1, <1>3, <1>12 DEF Relock, Admitted, TypeOK
<1>13. CASE Dec(t)
  <2>1. Admitted' = Admitted
    BY <1>1, <1>13 DEF Dec, Admitted, TypeOK
  <2> QED BY <1>2, <1>13, <2>1, ThreadCard DEF Dec, OverrunBound
<1>14. CASE Put(t)
  BY <1>1, <1>3, <1>14 DEF Put, Admitted, TypeOK
<1>15. CASE Reunlock(t)
  BY <1>1, <1>3, <1>15 DEF Reunlock, Admitted, TypeOK
<1>16. CASE Refuse(t)
  BY <1>1, <1>3, <1>16 DEF Refuse, Admitted, TypeOK
<1> QED
  BY <1>4, <1>5, <1>6, <1>7, <1>8, <1>9, <1>10, <1>11, <1>12, <1>13, <1>14, <1>15,
     <1>16 DEF Request, Return

LEMMA StutterBase == Base /\ UNCHANGED vars => Base'
BY DEF Base, vars, TypeOK, MutexInv, LocalsInv, CounterCovers, OverrunBound, Taken,
   Owners, Admitted

LEMMA BaseInvariant == Spec => []Base
<1>1. Base /\ [Next]_vars => Base'
  BY StepTypeOK, StepMutex, StepLocals, StepCovers, StepOverrun, StutterBase DEF Base
<1> QED BY InitBase, <1>1, PTL DEF Spec

-----------------------------------------------------------------------------
(* The pool's variables keep their types; in particular every access of    *)
(* the array meets one of the words Slots names and the counter never      *)
(* wraps below zero.                                                       *)
THEOREM TypeCorrect == Spec => []TypeOK
BY BaseInvariant, PTL DEF Base

(* connections_lock excludes.                                              *)
THEOREM MutualExclusion == Spec => []MutexInv
BY BaseInvariant, PTL DEF Base

(* The unlocked emptiness check of a return never drops a connection.      *)
THEOREM ReturnsCovered == Spec => []CounterCovers
BY BaseInvariant, PTL DEF Base

(* The unlocked bound check lets requests overrun the array by at most     *)
(* one entry per thread but one.                                           *)
THEOREM OverrunBounded == Spec => []OverrunBound
BY BaseInvariant, PTL DEF Base

-----------------------------------------------------------------------------
(* How each step moves the boundary between the entries that belong to the *)
(* pool and those that belong to threads: only a read of the array gives   *)
(* one entry away, and only a store takes one back.                        *)

LEMMA AboveBoundary ==
  ASSUME NEW S \in SUBSET Int, NEW a \in S
  PROVE  /\ {i \in S : i >= a + 1} = {i \in S : i >= a} \ {a}
         /\ {i \in S : i >= a} = {i \in S : i >= a + 1} \cup {a}
<1>1. \A i \in S : i >= a <=> i >= a + 1 \/ i = a
  OBVIOUS
<1>2. ~(a >= a + 1)
  OBVIOUS
<1> QED BY <1>1, <1>2, Zenon

LEMMA BoundaryStep ==
  ASSUME Base, NEW t \in Threads,
         Call(t) \/ Request(t) \/ Exec(t) \/ Return(t) \/ Refuse(t)
  PROVE  \/ /\ Take(t)
            /\ available_connection \in FreeSlots
            /\ FreeSlots' = FreeSlots \ {available_connection}
         \/ /\ Put(t)
            /\ available_connection \in Slots \ FreeSlots
            /\ FreeSlots' = FreeSlots \cup {available_connection}
         \/ /\ pc[t] \notin {"take", "put"}
            /\ FreeSlots' = FreeSlots
            /\ UNCHANGED <<connections, conn>>
<1> USE DEF Goto
<1>1. TypeOK /\ LocalsInv /\ Slots \subseteq Int /\ Slots' = Slots
  BY ThreadCard, PoolAssumption DEF Base, Slots, PoolAssumption
<1>2. ASSUME FirstFree' = FirstFree PROVE FreeSlots' = FreeSlots
  BY <1>2 DEF FreeSlots, Slots
<1>3. CASE Call(t)
  BY <1>1, <1>2, <1>3 DEF Call, FirstFree, TypeOK
<1>4. CASE Check(t)
  BY <1>1, <1>2, <1>4 DEF Check, NoConnection, FirstFree, TypeOK
<1>5. CASE Lock(t)
  BY <1>1, <1>2, <1>5 DEF Lock, FirstFree, TypeOK
<1>6. CASE Take(t)
  <2>1. available_connection \in Slots /\ available_connection \in Nat
    BY <1>1, <1>6, AccessInSlots DEF Take, TypeOK
  <2>2. FirstFree = available_connection
    BY <1>6, AloneInCritical DEF Take, FirstFree, Critical
  <2>3. FirstFree' = available_connection + 1
    BY <1>1, <1>6 DEF Take, FirstFree, TypeOK
  <2>4. FreeSlots' = FreeSlots \ {available_connection}
    <3>1. FreeSlots' = {i \in Slots : i >= available_connection + 1}
      BY <1>1, <2>3 DEF FreeSlots
    <3>2. FreeSlots = {i \in Slots : i >= available_connection}
      BY <2>2 DEF FreeSlots
    <3> QED BY <1>1, <2>1, <3>1, <3>2, AboveBoundary
  <2>5. available_connection \in FreeSlots
    BY <2>1, <2>2 DEF FreeSlots
  <2> QED BY <1>6, <2>4, <2>5
<1>7. CASE Inc(t)
  <2>1. FirstFree = available_connection + 1
    BY <1>7 DEF Inc, FirstFree
  <2>2. \A u \in Threads : pc'[u] \notin {"inc", "put"}
    BY <1>1, <1>7, AloneInCritical DEF Inc, Critical, TypeOK
  <2> QED BY <1>2, <1>7, <2>1, <2>2 DEF Inc, FirstFree
<1>8. CASE Unlock(t)
  BY <1>1, <1>2, <1>8 DEF Unlock, NoConnection, FirstFree, TypeOK
<1>9. CASE Exec(t)
  BY <1>1, <1>2, <1>9 DEF Exec, FirstFree, TypeOK
<1>10. CASE GiveBack(t)
  <2>1. Taken \in SUBSET Threads /\ t \in Taken
    BY <1>1, <1>10 DEF GiveBack, Taken, Owners, LocalsInv
  <2>2. available_connection # 0
    BY <1>1, <2>1, SubsetCard DEF Base, CounterCovers, TypeOK
  <2> QED BY <1>1, <1>2, <1>10, <2>2 DEF GiveBack, FirstFree, TypeOK
<1>11. CASE Relock(t)
  BY <1>1, <1>2, <1>11 DEF Relock, FirstFree, TypeOK
<1>12. CASE Dec(t)
  <2>1. FirstFree = available_connection
    BY <1>12, AloneInCritical DEF Dec, FirstFree, Critical
  <2>2. FirstFree' = available_connection
    BY <1>1, <1>12 DEF Dec, FirstFree, TypeOK
  <2> QED BY <1>2, <1>12, <2>1, <2>2 DEF Dec
<1>13. CASE Put(t)
  <2>1. FirstFree = available_connection + 1 /\ available_connection \in Nat
    BY <1>1, <1>13 DEF Put, FirstFree, TypeOK
  <2>2. \A u \in Threads : pc'[u] \notin {"inc", "put"}
    BY <1>1, <1>13, AloneInCritical DEF Put, Critical, TypeOK
  <2>3. FirstFree' = available_connection
    BY <1>13, <2>2 DEF Put, FirstFree
  <2>4. available_connection \in Slots
    BY <1>1, <1>13 DEF Put, LocalsInv
  <2>5. FreeSlots' = FreeSlots \cup {available_connection}
    <3>1. FreeSlots' = {i \in Slots : i >= available_connection}
      BY <1>1, <2>3 DEF FreeSlots
    <3>2. FreeSlots = {i \in Slots : i >= available_connection + 1}
      BY <2>1 DEF FreeSlots
    <3> QED BY <1>1, <2>4, <3>1, <3>2, AboveBoundary
  <2>6. available_connection \notin FreeSlots
    BY <2>1 DEF FreeSlots
  <2> QED BY <1>13, <2>4, <2>5, <2>6
<1>14. CASE Reunlock(t)
  BY <1>1, <1>2, <1>14 DEF Reunlock, FirstFree, TypeOK
<1>15. CASE Refuse(t)
  BY <1>1, <1>2, <1>15 DEF Refuse, FirstFree, TypeOK
<1> QED
  BY <1>3, <1>4, <1>5, <1>6, <1>7, <1>8, <1>9, <1>10, <1>11, <1>12, <1>13, <1>14,
     <1>15 DEF Request, Return

-----------------------------------------------------------------------------
(* ExclusiveUse and NothingLost follow the boundary.                       *)

LEMMA InitPool == Init => ExclusiveUse /\ NothingLost
<1> SUFFICES ASSUME Init PROVE ExclusiveUse /\ NothingLost
  OBVIOUS
<1> USE PoolAssumption DEF PoolAssumption
<1>1. /\ \A i \in Conns : i \in Slots /\ connections[i] = i
      /\ \A i \in Slots \ Conns : connections[i] \notin Conns
      /\ \A t \in Threads : conn[t] \notin Conns
  BY ThreadCard DEF Init, Conns, Slots
<1>2. FreeSlots = Slots
  BY ThreadCard DEF Init, FreeSlots, FirstFree, Slots
<1>3. \A i \in Slots : connections[i] \in Conns => connections[i] = i
  BY <1>1
<1>4. ExclusiveUse
  BY <1>1, <1>2, <1>3 DEF ExclusiveUse
<1>5. NothingLost
  BY <1>1, <1>2 DEF NothingLost
<1> QED BY <1>4, <1>5

LEMMA StepPool == Base /\ ExclusiveUse /\ NothingLost /\ Next
                    => ExclusiveUse' /\ NothingLost'
<1> SUFFICES ASSUME Base, ExclusiveUse, NothingLost, NEW t \in Threads,
                    Call(t) \/ Request(t) \/ Exec(t) \/ Return(t) \/ Refuse(t)
             PROVE  ExclusiveUse' /\ NothingLost'
  BY DEF Next
<1>1. TypeOK /\ FreeSlots \subseteq Slots /\ Conns' = Conns
  BY DEF Base, FreeSlots, Conns
<1>2. Null \notin Conns
  BY PoolAssumption DEF PoolAssumption, Conns
<1>3. CASE /\ Take(t)
           /\ available_connection \in FreeSlots
           /\ FreeSlots' = FreeSlots \ {available_connection}
  <2>1. /\ conn' = [conn EXCEPT ![t] = connections[available_connection]]
        /\ connections' = connections
        /\ conn[t] = Null
    BY <1>3 DEF Take, Base, LocalsInv
  <2>2. /\ conn'[t] = connections[available_connection]
        /\ \A u \in Threads \ {t} : conn'[u] = conn[u]
    BY <1>1, <2>1 DEF TypeOK
  <2>3. ExclusiveUse'
    BY <1>1, <1>3, <2>1, <2>2 DEF ExclusiveUse
  <2>4. NothingLost'
    BY <1>1, <1>2, <1>3, <2>1, <2>2 DEF NothingLost
  <2> QED BY <2>3, <2>4
<1>4. CASE /\ Put(t)
           /\ available_connection \in Slots \ FreeSlots
           /\ FreeSlots' = FreeSlots \cup {available_connection}
  <2>1. /\ conn' = [conn EXCEPT ![t] = Null]
        /\ connections' = [connections EXCEPT ![available_connection] = conn[t]]
    BY <1>4 DEF Put
  <2>2. /\ conn'[t] = Null
        /\ \A u \in Threads \ {t} : conn'[u] = conn[u]
        /\ connections'[available_connection] = conn[t]
        /\ \A i \in FreeSlots : connections'[i] = connections[i]
    BY <1>1, <1>4, <2>1 DEF TypeOK
  <2>3. ExclusiveUse'
    BY <1>1, <1>2, <1>4, <2>2 DEF ExclusiveUse
  <2>4. NothingLost'
    BY <1>1, <1>4, <2>2 DEF NothingLost
  <2> QED BY <2>3, <2>4
<1>5. CASE FreeSlots' = FreeSlots /\ UNCHANGED <<connections, conn>>
  BY <1>1, <1>5 DEF ExclusiveUse, NothingLost
<1> QED BY <1>3, <1>4, <1>5, BoundaryStep

LEMMA PoolInvariant == Spec => [](Base /\ ExclusiveUse /\ NothingLost)
<1>1. Base /\ ExclusiveUse /\ NothingLost /\ UNCHANGED vars
        => ExclusiveUse' /\ NothingLost'
  BY DEF vars, ExclusiveUse, NothingLost, FreeSlots, FirstFree, Slots, Conns
<1>2. Base /\ ExclusiveUse /\ NothingLost /\ Base' /\ [Next]_vars
        => ExclusiveUse' /\ NothingLost'
  BY <1>1, StepPool
<1> QED BY InitPool, BaseInvariant, <1>2, PTL DEF Spec

(* One thread at a time uses a connection, and the pool never holds a      *)
(* connection that serves.                                                 *)
THEOREM UseIsExclusive == Spec => []ExclusiveUse
BY PoolInvariant, PTL

(* Every connection that db_connect opened stays in the array or with a    *)
(* thread.                                                                 *)
THEOREM ConnectionsKept == Spec => []NothingLost
BY PoolInvariant, PTL

-----------------------------------------------------------------------------
(* With a connection for every thread the counter is exact, no entry below *)
(* the end of the array is empty, and so no read is out of bounds.         *)

EnoughInv ==
  /\ available_connection = Cardinality(Taken)
  /\ \A i \in FreeSlots : i < NumConns => connections[i] \in Conns
  /\ \A t \in Threads : conn[t] \in Conns \cup {Null}
  /\ \A t \in Threads : pc[t] \in {"inc", "unlock"} => conn[t] # Null
  /\ NeverRefused

(* A thread that has not taken, or has counted its return, finds the       *)
(* counter below the end of the array.                                     *)
LEMMA RoomLeft ==
  ASSUME Cardinality(Threads) <= NumConns, Base, EnoughInv,
         NEW t \in Threads, t \notin Taken
  PROVE  available_connection < NumConns
<1>1. Taken \cup {t} \in SUBSET Threads /\ Taken \in SUBSET Threads
  BY DEF Taken, Owners
<1>2. /\ Cardinality(Taken \cup {t}) = Cardinality(Taken) + 1
      /\ Cardinality(Taken \cup {t}) <= Cardinality(Threads)
      /\ Cardinality(Taken) \in Nat
  BY <1>1, SubsetCard
<1> QED BY <1>2, ThreadCard, PoolAssumption DEF EnoughInv, PoolAssumption

LEMMA InitEnough == Init => EnoughInv
<1> SUFFICES ASSUME Init PROVE EnoughInv
  OBVIOUS
<1>1. Taken = {} /\ \A t \in Threads : pc[t] = "idle" /\ conn[t] = Null
  BY DEF Init, Taken, Owners
<1>2. \A i \in Slots : i < NumConns => i \in Conns
  BY ThreadCard, PoolAssumption DEF Slots, Conns, PoolAssumption
<1>3. \A i \in FreeSlots : i < NumConns => connections[i] \in Conns
  BY <1>2 DEF Init, FreeSlots
<1> QED BY <1>1, <1>3, FS_EmptySet DEF EnoughInv, NeverRefused, Init

LEMMA StepEnough ==
  ASSUME Cardinality(Threads) <= NumConns
  PROVE  Base /\ EnoughInv /\ Next => EnoughInv'
<1> SUFFICES ASSUME Base, EnoughInv, NEW t \in Threads,
                    Call(t) \/ Request(t) \/ Exec(t) \/ Return(t) \/ Refuse(t)
             PROVE  EnoughInv'
  BY DEF Next
<1> USE PoolAssumption DEF PoolAssumption, Goto
<1>1. /\ TypeOK /\ LocalsInv /\ NeverRefused
      /\ Taken \in SUBSET Threads
      /\ Cardinality(Taken) \in Nat
      /\ available_connection = Cardinality(Taken)
      /\ Conns' = Conns /\ Null \notin Conns
  BY SubsetCard DEF Base, EnoughInv, Taken, Owners, Conns
<1>2. \/ /\ Take(t)
         /\ available_connection \in FreeSlots
         /\ FreeSlots' = FreeSlots \ {available_connection}
      \/ /\ Put(t)
         /\ available_connection \in Slots \ FreeSlots
         /\ FreeSlots' = FreeSlots \cup {available_connection}
      \/ /\ pc[t] \notin {"take", "put"}
         /\ FreeSlots' = FreeSlots
         /\ UNCHANGED <<connections, conn>>
  BY BoundaryStep
<1>3. CASE Take(t)
  <2>1. t \notin Taken /\ t \notin Taken'
    BY <1>1, <1>3 DEF Take, Taken, Owners, LocalsInv, TypeOK
  <2>2. Taken' = Taken
    BY <1>1, <1>3, <2>1 DEF Take, Taken, Owners, TypeOK
  <2>3. available_connection < NumConns
    BY <2>1, RoomLeft
  <2>4. /\ available_connection \in FreeSlots
        /\ FreeSlots' = FreeSlots \ {available_connection}
    BY <1>2, <1>3 DEF Take, Put
  <2>5. connections[available_connection] \in Conns
    BY <2>3, <2>4 DEF EnoughInv
  <2> QED BY <1>1, <1>3, <2>2, <2>4, <2>5 DEF Take, EnoughInv, NeverRefused, TypeOK
<1>4. CASE Put(t)
  <2>1. /\ FreeSlots' = FreeSlots \cup {available_connection}
        /\ FreeSlots \subseteq Slots
    BY <1>2, <1>4 DEF Put, Take, FreeSlots
  <2>2. Taken' = Taken
    BY <1>1, <1>4 DEF Put, Taken, Owners, TypeOK
  <2>3. conn[t] \in Conns /\ available_connection \in Slots
    BY <1>1, <1>4 DEF Put, EnoughInv, LocalsInv
  <2>4. \A i \in FreeSlots' : i < NumConns => connections'[i] \in Conns
    BY <1>1, <1>4, <2>1, <2>3 DEF Put, EnoughInv, TypeOK
  <2> QED BY <1>1, <1>4, <2>2, <2>4 DEF Put, EnoughInv, NeverRefused, TypeOK
<1>5. CASE FreeSlots' = FreeSlots /\ UNCHANGED <<connections, conn>>
  <2>1. /\ \A i \in FreeSlots' : i < NumConns => connections'[i] \in Conns
        /\ \A u \in Threads : conn'[u] \in Conns' \cup {Null}
    BY <1>1, <1>5 DEF EnoughInv
  <2>2. ASSUME available_connection' = available_connection, Taken' = Taken,
               \A u \in Threads : pc'[u] \in {"inc", "unlock"} => conn'[u] # Null,
               \A u \in Threads : pc'[u] # "refused"
        PROVE  EnoughInv'
    BY <1>1, <2>1, <2>2 DEF EnoughInv, NeverRefused
  <2> USE DEF NeverRefused, EnoughInv, Taken, Owners, TypeOK
  <2>3. CASE Call(t)
    BY <1>1, <1>5, <2>2, <2>3 DEF Call
  <2>4. CASE Check(t)
    <3>1. t \notin Taken /\ conn[t] = Null
      BY <2>4 DEF Check, Base, LocalsInv
    <3>2. available_connection < NumConns
      BY <3>1, RoomLeft
    <3>3. Goto(t, "lock") /\ UNCHANGED available_connection
      BY <1>1, <2>4, <3>2 DEF Check
    <3>4. Taken' = Taken
      BY <1>1, <1>5, <3>1, <3>3 DEF Goto
    <3>5. \A u \in Threads : /\ pc'[u] \in {"inc", "unlock"} => conn'[u] # Null
                             /\ pc'[u] # "refused"
      BY <1>1, <1>5, <3>3 DEF Goto
    <3> QED BY <2>2, <3>3, <3>4, <3>5
  <2>5. CASE Lock(t)
    BY <1>1, <1>5, <2>2, <2>5 DEF Lock
  <2>6. CASE Inc(t)
    <3>1. conn[t] # Null /\ t \notin Taken
      BY <2>6 DEF Inc
    <3>2. Taken' = Taken \cup {t}
      BY <1>1, <1>5, <2>6, <3>1 DEF Inc
    <3>3. Cardinality(Taken') = Cardinality(Taken) + 1
      BY <1>1, <3>1, <3>2, SubsetCard
    <3>4. available_connection' = Cardinality(Taken')
      BY <1>1, <2>6, <3>3 DEF Inc
    <3>5. \A u \in Threads : /\ pc'[u] \in {"inc", "unlock"} => conn'[u] # Null
                             /\ pc'[u] # "refused"
      BY <1>1, <1>5, <2>6, <3>1 DEF Inc
    <3> QED BY <2>1, <3>4, <3>5
  <2>7. CASE Unlock(t)
    BY <1>1, <1>5, <2>2, <2>7 DEF Unlock
  <2>8. CASE Exec(t)
    BY <1>1, <1>5, <2>2, <2>8 DEF Exec
  <2>9. CASE GiveBack(t)
    BY <1>1, <1>5, <2>2, <2>9 DEF GiveBack, Base, LocalsInv
  <2>10. CASE Relock(t)
    BY <1>1, <1>5, <2>2, <2>10 DEF Relock
  <2>11. CASE Dec(t)
    <3>1. t \in Taken
      BY <2>11 DEF Dec, Base, LocalsInv
    <3>2. Taken' = Taken \ {t}
      BY <1>1, <1>5, <2>11 DEF Dec
    <3>3. Cardinality(Taken') = Cardinality(Taken) - 1
      BY <1>1, <3>1, <3>2, SubsetCard
    <3>4. available_connection' = Cardinality(Taken')
      BY <1>1, <2>11, <3>3 DEF Dec
    <3>5. \A u \in Threads : /\ pc'[u] \in {"inc", "unlock"} => conn'[u] # Null
                             /\ pc'[u] # "refused"
      BY <1>1, <1>5, <2>11 DEF Dec
    <3> QED BY <2>1, <3>4, <3>5
  <2>12. CASE Reunlock(t)
    BY <1>1, <1>5, <2>2, <2>12 DEF Reunlock, Base, LocalsInv
  <2>13. CASE Refuse(t)
    BY <1>1, <1>5, <2>2, <2>13 DEF Refuse
  <2> QED
    BY <1>3, <1>4, <2>3, <2>4, <2>5, <2>6, <2>7, <2>8, <2>9, <2>10, <2>11, <2>12,
       <2>13 DEF Request, Return
<1> QED BY <1>2, <1>3, <1>4, <1>5

LEMMA EnoughInvariant ==
  ASSUME Cardinality(Threads) <= NumConns
  PROVE  Spec => [](Base /\ EnoughInv)
<1>1. Base /\ EnoughInv /\ UNCHANGED vars => EnoughInv'
  BY DEF vars, EnoughInv, NeverRefused, Taken, Owners, FreeSlots, FirstFree, Slots, Conns
<1>2. Base /\ EnoughInv /\ [Next]_vars => EnoughInv'
  BY <1>1, StepEnough
<1> QED BY InitEnough, BaseInvariant, <1>2, PTL DEF Spec

(* The server of README.md, a connection for every thread: no call of      *)
(* db_exec is sent away.                                                   *)
THEOREM NobodyRefused ==
  ASSUME Cardinality(Threads) <= NumConns
  PROVE  Spec => []NeverRefused
BY EnoughInvariant, PTL DEF EnoughInv

(* And the array is never read or written past its end, ...                *)
THEOREM AccessesInBounds ==
  ASSUME Cardinality(Threads) <= NumConns
  PROVE  Spec => []InBounds
<1>1. Base /\ EnoughInv => InBounds
  <2> SUFFICES ASSUME Base, EnoughInv, NEW t \in Threads, pc[t] \in {"take", "put"}
               PROVE  available_connection < NumConns
    BY DEF InBounds
  <2>1. t \notin Taken
    BY DEF Base, LocalsInv, Taken, Owners
  <2> QED BY <2>1, RoomLeft
<1> QED BY <1>1, EnoughInvariant, PTL

(* ... and the whole pool is available whenever no thread is in db_exec.   *)
THEOREM PoolRefilled ==
  ASSUME Cardinality(Threads) <= NumConns
  PROVE  Spec => []PoolRefills
<1>1. Base /\ EnoughInv => PoolRefills
  <2> SUFFICES ASSUME Base, EnoughInv, \A t \in Threads : pc[t] = "idle"
               PROVE  available_connection = 0
    BY DEF PoolRefills
  <2>1. Taken = {}
    BY DEF Base, LocalsInv, Taken, Owners
  <2> QED BY <2>1, FS_EmptySet DEF EnoughInv
<1> QED BY <1>1, EnoughInvariant, PTL

-----------------------------------------------------------------------------
(* The pool implements the service.                                        *)

LEMMA InitService == Init => Service!Init
BY PoolAssumption DEF Init, Service!Init, wanting, using, PoolAssumption, Conns

(* Every step serves, or changes nothing the service shows, or refuses the *)
(* thread that it sends to the end of db_exec without a connection.        *)
LEMMA StepService ==
  Base /\ ExclusiveUse /\ Next =>
    \/ Service!Serve
    \/ UNCHANGED <<wanting, using>>
    \/ \E t \in Threads : Service!Refuse(t) /\ pc'[t] = "refused"
<1> SUFFICES ASSUME Base, ExclusiveUse, NEW t \in Threads,
                    Call(t) \/ Request(t) \/ Exec(t) \/ Return(t) \/ Refuse(t)
             PROVE  \/ Service!Serve
                    \/ UNCHANGED <<wanting, using>>
                    \/ Service!Refuse(t) /\ pc'[t] = "refused"
  BY DEF Next
<1> USE DEF Goto, TypeOK
<1>1. /\ TypeOK /\ LocalsInv /\ Conns' = Conns
      /\ Null \notin Conns /\ Junk \notin Conns
  BY PoolAssumption DEF Base, PoolAssumption, Conns
<1>2. \/ /\ Take(t)
         /\ available_connection \in FreeSlots
         /\ FreeSlots' = FreeSlots \ {available_connection}
      \/ /\ Put(t)
         /\ available_connection \in Slots \ FreeSlots
         /\ FreeSlots' = FreeSlots \cup {available_connection}
      \/ /\ pc[t] \notin {"take", "put"}
         /\ FreeSlots' = FreeSlots
         /\ UNCHANGED <<connections, conn>>
  BY BoundaryStep
<1>3. CASE Take(t)
  <2>1. available_connection \in FreeSlots /\ conn[t] = Null
    BY <1>1, <1>2, <1>3 DEF Take, Put, LocalsInv
  <2> DEFINE c == connections[available_connection]
  <2>2. /\ conn'[t] = c /\ pc'[t] = "inc"
        /\ \A u \in Threads \ {t} : conn'[u] = conn[u] /\ pc'[u] = pc[u]
    BY <1>1, <1>3 DEF Take
  <2>3. CASE c \in Conns
    <3>1. using' = [using EXCEPT ![t] = c]
      BY <1>1, <2>2, <2>3 DEF using
    <3>2. t \in wanting /\ wanting' = wanting \ {t}
      BY <1>1, <1>3, <2>1, <2>2, <2>3 DEF wanting, Take
    <3>3. c \notin Service!InUse
      BY <2>1, <2>3 DEF Service!InUse, using, ExclusiveUse
    <3> QED BY <2>3, <3>1, <3>2, <3>3 DEF Service!Grant, Service!Serve
  <2>4. CASE c \notin Conns
    <3>1. using' = using /\ wanting' = wanting
      BY <1>1, <1>3, <2>1, <2>2, <2>4 DEF using, wanting, Take
    <3> QED BY <3>1
  <2> QED BY <2>3, <2>4
<1>4. CASE Put(t)
  <2>1. /\ conn'[t] = Null /\ pc[t] = "put" /\ pc'[t] = "reunlock"
        /\ \A u \in Threads \ {t} : conn'[u] = conn[u] /\ pc'[u] = pc[u]
    BY <1>1, <1>4 DEF Put
  <2>2. wanting' = wanting
    BY <1>1, <2>1 DEF wanting
  <2>3. using' = [using EXCEPT ![t] = Null]
    BY <1>1, <2>1 DEF using
  <2>4. using[t] # Null \/ using' = using
    BY <2>3 DEF using
  <2> QED BY <2>2, <2>3, <2>4 DEF Service!Release, Service!Serve
<1>5. CASE /\ pc[t] \notin {"take", "put"}
           /\ UNCHANGED conn
  <2>1. using' = using
    BY <1>1, <1>5 DEF using
  <2>2. CASE Call(t)
    <3>1. t \notin wanting /\ conn[t] = Null
      BY <1>1, <2>2 DEF Call, wanting, LocalsInv
    <3>2. wanting' = wanting \cup {t} /\ using[t] = Null
      BY <1>1, <1>5, <2>2, <3>1 DEF Call, wanting, using
    <3> QED BY <2>1, <3>1, <3>2 DEF Service!Ask, Service!Serve
  <2>3. CASE Check(t) \/ (Unlock(t) /\ conn[t] = Null)
    <3>1. t \in wanting
      BY <1>1, <2>3 DEF Check, Unlock, wanting, LocalsInv
    <3>2. pc' = [pc EXCEPT ![t] = "refused"] \/ wanting' = wanting
      BY <1>1, <1>5, <2>3, <3>1 DEF Check, Unlock, NoConnection, wanting
    <3>3. CASE pc' = [pc EXCEPT ![t] = "refused"]
      <4>1. wanting' = wanting \ {t} /\ pc'[t] = "refused"
        BY <1>1, <1>5, <3>3 DEF wanting
      <4> QED BY <2>1, <3>1, <4>1 DEF Service!Refuse
    <3> QED BY <2>1, <3>2, <3>3
  <2>4. CASE Unlock(t) /\ conn[t] # Null
    BY <1>1, <1>5, <2>1, <2>4 DEF Unlock, wanting
  <2>5. CASE Exec(t)
    <3>1. pc' = pc \/ conn[t] \in Conns
      BY <1>1, <2>5 DEF Exec, LocalsInv
    <3>2. wanting' = wanting
      BY <1>1, <1>5, <2>5, <3>1 DEF Exec, wanting
    <3> QED BY <2>1, <3>2
  <2>6. CASE Lock(t) \/ Inc(t)
    <3>1. wanting' = wanting
      BY <1>1, <1>5, <2>6 DEF Lock, Inc, wanting
    <3> QED BY <2>1, <3>1
  <2>7. CASE GiveBack(t) \/ Relock(t) \/ Dec(t) \/ Reunlock(t) \/ Refuse(t)
    <3>1. wanting' = wanting
      BY <1>1, <1>5, <2>7 DEF GiveBack, Relock, Dec, Reunlock, Refuse, wanting
    <3> QED BY <2>1, <3>1
  <2>8. ~Take(t) /\ ~Put(t)
    BY <1>5 DEF Take, Put
  <2> QED
    BY <2>2, <2>3, <2>4, <2>5, <2>6, <2>7, <2>8 DEF Request, Return
<1> QED BY <1>2, <1>3, <1>4, <1>5

LEMMA StutterService == UNCHANGED vars => UNCHANGED <<wanting, using>>
BY DEF vars, wanting, using, Conns

(* Whatever the number of threads, db_exec grants no connection that is in *)
(* use, and a thread leaves without one only when it is told so.           *)
THEOREM PoolImplementsService == Spec => ImplementsPool
<1>1. Base /\ ExclusiveUse /\ [Next]_vars => [Service!Next]_<<wanting, using>>
  BY StepService, StutterService DEF Service!Next
<1> QED
  BY <1>1, InitService, PoolInvariant, PTL
     DEF Spec, ImplementsPool, Service!Spec, Service!svars

(* With a connection for every thread it implements the service that never *)
(* refuses.                                                                *)
THEOREM PoolImplementsServing ==
  ASSUME Cardinality(Threads) <= NumConns
  PROVE  Spec => ImplementsServing
<1>1. Base /\ ExclusiveUse /\ EnoughInv' /\ [Next]_vars
        => [Service!Serve]_<<wanting, using>>
  BY StepService, StutterService DEF EnoughInv, NeverRefused
<1> QED
  BY <1>1, InitService, PoolInvariant, EnoughInvariant, PTL
     DEF Spec, ImplementsServing, Service!ServingSpec, Service!svars
=============================================================================
