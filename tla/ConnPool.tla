------------------------------ MODULE ConnPool ------------------------------
(***************************************************************************)
(* The connection pool of src/src/db_postgres.h, as the threads of one     *)
(* server process use it through db_exec (src/src/db.c).                   *)
(*                                                                         *)
(* The pool is an array used as a stack that grows towards index 0: the    *)
(* entries below available_connection are taken, the others are available. *)
(* db_exec asks for a connection, up to DB_CONN_POOL_RETRY times, runs the *)
(* query on it and gives it back.  The bound check of a request and the    *)
(* emptiness check of a return are made BEFORE the mutex is taken; the     *)
(* array and the counter are updated under it.                             *)
(*                                                                         *)
(* Every statement that reads or writes shared memory is a step of its     *)
(* own.  The array has NumConns entries; an access beyond the last one is  *)
(* undefined behaviour, and meets the heap words that follow the array:    *)
(* they hold a null word (allocator padding) or something that is not a    *)
(* connection (allocator metadata), and they keep what is stored in them.  *)
(***************************************************************************)
EXTENDS Integers, FiniteSets

CONSTANTS
  Threads,   \* the threads of the facil.io pool that run request handlers
  NumConns,  \* db->context.connections_count, SERVER_DB_CONNS
  Retry,     \* DB_CONN_POOL_RETRY
  Null,      \* a null pointer; also: the mutex is free
  Junk       \* a heap word that is not a connection

ASSUME PoolAssumption ==
  /\ IsFiniteSet(Threads)
  /\ Threads # {}
  /\ NumConns \in Nat \ {0}     \* db_create refuses num_connections < 1
  /\ Retry \in Nat \ {0}
  /\ Null \notin Threads
  /\ Null \notin 0 .. NumConns - 1
  /\ Junk \notin 0 .. NumConns - 1
  /\ Junk # Null

VARIABLES
  connections,           \* the array, and the heap words after it
  available_connection,  \* index of the first available entry
  connections_lock,      \* the thread that has the mutex, or Null
  pc,                    \* where each thread is in db_exec
  conn,                  \* db_exec's local: the connection of each thread
  retries,               \* db_exec's local: attempts left
  crashed                \* the process was killed by a bad pointer

vars == <<connections, available_connection, connections_lock,
          pc, conn, retries, crashed>>

(* The connections that db_connect opened, in the order it stored them.    *)
Conns == 0 .. NumConns - 1

(* The words the pool code can reach: a request that found an available    *)
(* entry can be overtaken by the requests of all the other threads.        *)
Slots == 0 .. NumConns + Cardinality(Threads) - 2

(* The places of db_exec and of the two functions it calls.                *)
Places == {"idle", "check", "lock", "take", "inc", "unlock", "exec",
           "giveback", "relock", "dec", "put", "reunlock", "refused"}

(* The threads inside a critical section of the mutex.                     *)
Critical == {"take", "inc", "unlock", "dec", "put", "reunlock"}

(* The threads that hold something they read from the array: conn is       *)
(* cleared by the store that puts it back.                                 *)
Owners == {t \in Threads : conn[t] # Null}

(* The threads that incremented for a connection and did not decrement.    *)
Taken == {t \in Owners : pc[t] \notin {"inc", "put"}}

(* The threads that passed the bound check and did not increment yet.      *)
Admitted == {t \in Threads : pc[t] \in {"lock", "take", "inc"}}

(* First entry whose content belongs to the pool: the one at               *)
(* available_connection belongs to a thread that read it and has still to  *)
(* increment, or that decremented and has still to store.                  *)
FirstFree ==
  IF \E t \in Threads : pc[t] \in {"inc", "put"}
  THEN available_connection + 1
  ELSE available_connection

FreeSlots == {i \in Slots : i >= FirstFree}

-----------------------------------------------------------------------------
(* db_connect_function_postgres has filled the array and db_stat has set   *)
(* db_state_connected before fio_start creates the threads; nothing        *)
(* changes db->state until they are joined.                                *)
Init ==
  /\ connections \in {f \in [Slots -> Conns \cup {Null, Junk}] :
                        /\ \A i \in Conns : f[i] = i
                        /\ \A i \in Slots \ Conns : f[i] \in {Null, Junk}}
  /\ available_connection = 0
  /\ connections_lock = Null
  /\ pc = [t \in Threads |-> "idle"]
  /\ conn = [t \in Threads |-> Null]
  /\ retries = [t \in Threads |-> 0]
  /\ crashed = FALSE

Goto(t, place) == pc' = [pc EXCEPT ![t] = place]

(* Each definition whose name ends in _Bug is the one after it with the    *)
(* mistake its comment names; no action uses it.                           *)

(* The attempt is not counted, or is counted one time too often.           *)
NoConnection_ForgetBug(t) == Goto(t, "check") /\ UNCHANGED retries
NoConnection_OffByOneBug(t) ==
  /\ retries' = [retries EXCEPT ![t] = @ - 1]
  /\ Goto(t, IF retries[t] = 0 THEN "refused" ELSE "check")

(* db_exec's loop around a request that returned NULL: try again, or give  *)
(* up when this was the last attempt.                                      *)
NoConnection(t) ==
  /\ retries' = [retries EXCEPT ![t] = @ - 1]
  /\ Goto(t, IF retries[t] = 1 THEN "refused" ELSE "check")

(* A handler calls db_exec.                                                *)
Call(t) ==
  /\ pc[t] = "idle"
  /\ Goto(t, "check")
  /\ retries' = [retries EXCEPT ![t] = Retry]
  /\ UNCHANGED <<connections, available_connection, connections_lock, conn, crashed>>

(* > for >=.                                                               *)
Check_OffByOneBug(t) ==
  /\ pc[t] = "check"
  /\ IF available_connection > NumConns
     THEN NoConnection(t)
     ELSE Goto(t, "lock") /\ UNCHANGED retries
  /\ UNCHANGED <<connections, available_connection, connections_lock, conn, crashed>>

(* db_request_conn_postgres: the bound check, outside the mutex.           *)
Check(t) ==
  /\ pc[t] = "check"
  /\ IF available_connection >= NumConns
     THEN NoConnection(t)
     ELSE Goto(t, "lock") /\ UNCHANGED retries
  /\ UNCHANGED <<connections, available_connection, connections_lock, conn, crashed>>

(* The mutex is not waited for.                                            *)
Lock_NoWaitBug(t) ==
  /\ pc[t] = "lock"
  /\ connections_lock' = t
  /\ Goto(t, "take")
  /\ UNCHANGED <<connections, available_connection, conn, retries, crashed>>

Lock(t) ==
  /\ pc[t] = "lock"
  /\ connections_lock = Null
  /\ connections_lock' = t
  /\ Goto(t, "take")
  /\ UNCHANGED <<connections, available_connection, conn, retries, crashed>>

Take(t) ==
  /\ pc[t] = "take"
  /\ conn' = [conn EXCEPT ![t] = connections[available_connection]]
  /\ Goto(t, "inc")
  /\ UNCHANGED <<connections, available_connection, connections_lock, retries, crashed>>

(* The entry is read, but not marked as taken.                             *)
Inc_MissingBug(t) ==
  /\ pc[t] = "inc"
  /\ Goto(t, "unlock")
  /\ UNCHANGED <<connections, available_connection, connections_lock, conn, retries, crashed>>

Inc(t) ==
  /\ pc[t] = "inc"
  /\ available_connection' = available_connection + 1
  /\ Goto(t, "unlock")
  /\ UNCHANGED <<connections, connections_lock, conn, retries, crashed>>

Unlock(t) ==
  /\ pc[t] = "unlock"
  /\ connections_lock' = Null
  /\ IF conn[t] = Null
     THEN NoConnection(t)
     ELSE Goto(t, "exec") /\ UNCHANGED retries
  /\ UNCHANGED <<connections, available_connection, conn, crashed>>

(* db_exec_function_postgres runs the query and returns, with rows or with *)
(* an error; with a pointer that is no connection the process dies.        *)
Exec(t) ==
  /\ pc[t] = "exec"
  /\ IF conn[t] = Junk
     THEN crashed' = TRUE /\ UNCHANGED pc
     ELSE Goto(t, "giveback") /\ UNCHANGED crashed
  /\ UNCHANGED <<connections, available_connection, connections_lock, conn, retries>>

(* The emptiness check is off by one.                                      *)
GiveBack_OneLeftBug(t) ==
  /\ pc[t] = "giveback"
  /\ IF available_connection <= 1
     THEN Goto(t, "idle") /\ conn' = [conn EXCEPT ![t] = Null]
     ELSE Goto(t, "relock") /\ UNCHANGED conn
  /\ UNCHANGED <<connections, available_connection, connections_lock, retries, crashed>>

(* db_return_conn_postgres: the emptiness check, outside the mutex.        *)
GiveBack(t) ==
  /\ pc[t] = "giveback"
  /\ IF available_connection = 0
     THEN Goto(t, "idle") /\ conn' = [conn EXCEPT ![t] = Null]
     ELSE Goto(t, "relock") /\ UNCHANGED conn
  /\ UNCHANGED <<connections, available_connection, connections_lock, retries, crashed>>

Relock(t) ==
  /\ pc[t] = "relock"
  /\ connections_lock = Null
  /\ connections_lock' = t
  /\ Goto(t, "dec")
  /\ UNCHANGED <<connections, available_connection, conn, retries, crashed>>

(* The counter is not moved back.                                          *)
Dec_MissingBug(t) ==
  /\ pc[t] = "dec"
  /\ Goto(t, "put")
  /\ UNCHANGED <<connections, available_connection, connections_lock, conn, retries, crashed>>

Dec(t) ==
  /\ pc[t] = "dec"
  /\ available_connection' = available_connection - 1
  /\ Goto(t, "put")
  /\ UNCHANGED <<connections, connections_lock, conn, retries, crashed>>

(* The entry is written with the index from before the decrement.          *)
Put_OldIndexBug(t) ==
  /\ pc[t] = "put"
  /\ connections' = [connections EXCEPT ![available_connection + 1] = conn[t]]
  /\ conn' = [conn EXCEPT ![t] = Null]
  /\ Goto(t, "reunlock")
  /\ UNCHANGED <<available_connection, connections_lock, retries, crashed>>

Put(t) ==
  /\ pc[t] = "put"
  /\ connections' = [connections EXCEPT ![available_connection] = conn[t]]
  /\ conn' = [conn EXCEPT ![t] = Null]
  /\ Goto(t, "reunlock")
  /\ UNCHANGED <<available_connection, connections_lock, retries, crashed>>

Reunlock(t) ==
  /\ pc[t] = "reunlock"
  /\ connections_lock' = Null
  /\ Goto(t, "idle")
  /\ UNCHANGED <<connections, available_connection, conn, retries, crashed>>

(* db_exec returns its "Could not get connection" result.                  *)
Refuse(t) ==
  /\ pc[t] = "refused"
  /\ Goto(t, "idle")
  /\ UNCHANGED <<connections, available_connection, connections_lock, conn, retries, crashed>>

(* What a thread does between the call of db_exec and its return.          *)
Request(t) == Check(t) \/ Lock(t) \/ Take(t) \/ Inc(t) \/ Unlock(t)
Return(t) == GiveBack(t) \/ Relock(t) \/ Dec(t) \/ Put(t) \/ Reunlock(t)

Next ==
  /\ ~crashed
  /\ \E t \in Threads :
       Call(t) \/ Request(t) \/ Exec(t) \/ Return(t) \/ Refuse(t)

Spec == Init /\ [][Next]_vars

(* The scheduler runs every thread, PQexec returns, and the mutex is       *)
(* handed over fairly: a waiter may lose races for it, not for ever.       *)
Fairness ==
  \A t \in Threads :
    /\ WF_vars(~crashed /\ (Check(t) \/ Take(t) \/ Inc(t) \/ Unlock(t) \/ Exec(t)
               \/ GiveBack(t) \/ Dec(t) \/ Put(t) \/ Reunlock(t) \/ Refuse(t)))
    /\ SF_vars(~crashed /\ (Lock(t) \/ Relock(t)))

FairSpec == Spec /\ Fairness

-----------------------------------------------------------------------------
(* The array and the counter, the locals of every thread.                  *)
TypeOK ==
  /\ connections \in [Slots -> Conns \cup {Null, Junk}]
  /\ available_connection \in Nat
  /\ connections_lock \in Threads \cup {Null}
  /\ pc \in [Threads -> Places]
  /\ conn \in [Threads -> Conns \cup {Null, Junk}]
  /\ retries \in [Threads -> 0 .. Retry]
  /\ crashed \in BOOLEAN

(* connections_lock excludes: whoever is between a pthread_mutex_lock and  *)
(* the unlock that follows is the one thread that has the mutex.           *)
MutexInv == \A t \in Threads : pc[t] \in Critical <=> connections_lock = t

(* A PGconn serves one thread at a time (libpq forbids sharing one), and   *)
(* the array never holds it twice or while it serves: whatever the number  *)
(* of threads, checking outside the mutex does not break this.             *)
ExclusiveUse ==
  /\ \A t, u \in Threads : conn[t] \in Conns /\ conn[t] = conn[u] => t = u
  /\ \A t \in Threads, i \in FreeSlots : conn[t] \in Conns => connections[i] # conn[t]
  /\ \A i, j \in FreeSlots :
       connections[i] \in Conns /\ connections[i] = connections[j] => i = j

(* No opened connection disappears: each serves a thread or lies in the    *)
(* array at or above the counter.  (Whether a request can still reach it   *)
(* is PoolRefills.)                                                        *)
NothingLost ==
  \A c \in Conns :
    (\E t \in Threads : conn[t] = c) \/ (\E i \in FreeSlots : connections[i] = c)

(* The emptiness check of db_return_conn_postgres never drops a            *)
(* connection and the counter never goes below zero, although it is read   *)
(* outside the mutex: the counter covers all that was taken.               *)
CounterCovers == Cardinality(Taken) <= available_connection

(* How far a request can read past the array: every thread but one.        *)
OverrunBound ==
  available_connection + Cardinality(Admitted) <= NumConns + Cardinality(Threads) - 1

-----------------------------------------------------------------------------
(* What holds when there is a connection for every thread, which is how    *)
(* README.md describes the pool.                                           *)

(* No access beyond the array: take reads, put writes an entry of it.      *)
InBounds ==
  \A t \in Threads : pc[t] \in {"take", "put"} => available_connection < NumConns

(* No call of db_exec ends without a connection.                           *)
NeverRefused == \A t \in Threads : pc[t] # "refused"

(* Between requests the pool is as db_connect left it: when no thread is   *)
(* inside db_exec, every connection is available again.                    *)
PoolRefills == (\A t \in Threads : pc[t] = "idle") => available_connection = 0

(* Every call of db_exec returns, or the process died of a junk pointer.   *)
CallReturns ==
  \A t \in Threads : pc[t] = "check" ~> (pc[t] = "idle" \/ crashed)

-----------------------------------------------------------------------------
(* The service the pool offers.  A thread uses a connection from the read  *)
(* of the array to the store that puts it back.                            *)
wanting ==
  {t \in Threads : /\ pc[t] \in {"check", "lock", "take", "inc", "unlock", "exec"}
                   /\ conn[t] \notin Conns}
using == [t \in Threads |-> IF conn[t] \in Conns THEN conn[t] ELSE Null]

Service == INSTANCE PoolService WITH wanting <- wanting, using <- using

(* Whatever the number of threads: nobody gets a connection in use, and    *)
(* who does not get one is told so.                                        *)
ImplementsPool == Service!Spec

(* With a connection for every thread: nobody is sent away.                *)
ImplementsServing == Service!ServingSpec
=============================================================================
