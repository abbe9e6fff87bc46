----------------------------- MODULE DbConnect -----------------------------
(***************************************************************************)
(* How main brings the database connections up and takes them down:        *)
(* db_create, db_connect, the loop that polls db_stat, and db_destroy.     *)
(* The first connection is opened synchronously, the others are started    *)
(* and then polled until all of them answer in one pass.                   *)
(*                                                                         *)
(* main is the only thread.  libpq and the server are the environment: an  *)
(* attempt succeeds, fails or stays in progress, and PQconnectStartParams  *)
(* may be out of memory.                                                   *)
(***************************************************************************)
EXTENDS Integers

CONSTANTS
  NumConns,     \* SERVER_DB_CONNS
  SizeMax,      \* largest value of the size_t that the clean-up loop counts with
  OutOfMemory   \* may PQconnectStartParams return NULL?

ASSUME ConnectAssumption ==
  /\ NumConns \in Nat \ {0}
  /\ SizeMax \in Nat
  /\ NumConns <= SizeMax
  /\ OutOfMemory \in BOOLEAN

VARIABLES
  pc,         \* where main is
  state,      \* db->state
  allocated,  \* db->context.connections is not NULL
  link,       \* what became of the connection of each entry of the array
  i,          \* the index of the loop main is in
  j,          \* the index of the clean-up loop
  all_ok,     \* db_stat: every connection polled in this pass was up
  status      \* the exit status of the process

mainVars == <<pc, state, allocated, link, i, j, all_ok, status>>

Entries == 0 .. NumConns - 1

(* An entry is NULL, or a connection in progress, up, or broken, or one    *)
(* that PQfinish freed - once, or more than once.                          *)
Links == {"null", "pending", "up", "bad", "freed", "freed twice"}

Open == {"pending", "up", "bad"}

States == {"not_connected", "connecting", "connected", "failed_connection"}

Places == {"create", "connect", "start", "cleanup", "stat", "serve", "destroy", "exited"}

MainInit ==
  /\ pc = "create"
  /\ state = "not_connected"
  /\ allocated = FALSE
  /\ link = [e \in Entries |-> "null"]
  /\ i = 0
  /\ j = 0
  /\ all_ok = TRUE
  /\ status = 0

(* Definitions whose name ends in _Bug are as in ConnPool: the definition  *)
(* after it with a mistake, used by no action.                             *)

(* PQfinish(NULL) does nothing; PQfinish of a freed connection frees it    *)
(* again.                                                                  *)
PQfinish(l) ==
  CASE l = "null" -> "null"
    [] l \in Open -> "freed"
    [] OTHER -> "freed twice"

(* db_create refuses a missing host, database or user, or no connections;  *)
(* main then exits with 2.  (The count is checked by ConnectAssumption.)   *)
Create ==
  /\ pc = "create"
  /\ \/ pc' = "connect" /\ UNCHANGED status
     \/ pc' = "exited" /\ status' = 2
  /\ UNCHANGED <<state, allocated, link, i, j, all_ok>>

(* A pass of main's loop starts db_stat: without an array it says          *)
(* invalid_db at once.                                                     *)
BeginStat ==
  IF allocated'
  THEN pc' = "stat" /\ i' = 0 /\ all_ok' = TRUE /\ UNCHANGED status
  ELSE pc' = "destroy" /\ status' = 1 /\ UNCHANGED <<i, all_ok>>

(* db_connect: the synchronous connection; when it fails it is freed and   *)
(* no array is allocated.                                                  *)
ConnectFirst ==
  /\ pc = "connect"
  /\ \/ /\ link' = [link EXCEPT ![0] = "up"]
        /\ allocated' = TRUE
        /\ pc' = "start"
        /\ i' = 1
        /\ UNCHANGED <<state, all_ok, status>>
     \/ /\ link' = [link EXCEPT ![0] = PQfinish("bad")]
        /\ state' = "failed_connection"
        /\ UNCHANGED allocated
        /\ BeginStat
  /\ UNCHANGED j

(* db_connect: PQconnectStartParams for the next entry gives a connection  *)
(* in progress or one that is already broken.                              *)
StartOne ==
  /\ pc = "start"
  /\ i < NumConns
  /\ \E l \in {"pending", "bad"} : link' = [link EXCEPT ![i] = l]
  /\ i' = i + 1
  /\ UNCHANGED <<pc, state, allocated, j, all_ok, status>>

(* db_connect: it gives NULL, and the clean-up loop begins.                *)
StartFails ==
  /\ pc = "start"
  /\ i < NumConns
  /\ OutOfMemory
  /\ j' = i - 1
  /\ pc' = "cleanup"
  /\ UNCHANGED <<state, allocated, link, i, all_ok, status>>

(* The index is taken for a signed one.                                    *)
CleanUp_SignedBug ==
  /\ pc = "cleanup"
  /\ link' = [link EXCEPT ![i] = PQfinish(@)]
  /\ j' = j - 1
  /\ UNCHANGED <<pc, state, allocated, i, all_ok, status>>

(* One turn of the clean-up loop: it frees connections[i], the entry that  *)
(* is NULL, and j >= 0 holds of every size_t: j-- takes 0 to SizeMax, and  *)
(* what follows the loop is not reached.                                   *)
CleanUp ==
  /\ pc = "cleanup"
  /\ link' = [link EXCEPT ![i] = PQfinish(@)]
  /\ j' = IF j = 0 THEN SizeMax ELSE j - 1
  /\ UNCHANGED <<pc, state, allocated, i, all_ok, status>>

StartDone ==
  /\ pc = "start"
  /\ i = NumConns
  /\ state' = "connecting"
  /\ UNCHANGED <<allocated, link, j>>
  /\ BeginStat

(* PQconnectPoll: a connection that is up says so again; one in progress   *)
(* may stay so.                                                            *)
PollResults(l) ==
  CASE l = "pending" -> {"pending", "up", "bad"}
    [] OTHER -> {l}

(* A connection still in progress does not clear all_ok.                   *)
Poll_ForgetBug(l) ==
  /\ pc = "stat"
  /\ i < NumConns
  /\ l \in PollResults(link[i])
  /\ link' = [link EXCEPT ![i] = l]
  /\ IF l = "bad"
     THEN /\ state' = "failed_connection"
          /\ pc' = "destroy"
          /\ status' = 1
          /\ UNCHANGED <<i, all_ok>>
     ELSE /\ i' = i + 1
          /\ UNCHANGED <<pc, state, all_ok, status>>
  /\ UNCHANGED <<allocated, j>>

(* A failure is taken for "not yet".                                       *)
Poll_IgnoreBug(l) ==
  /\ pc = "stat"
  /\ i < NumConns
  /\ l \in PollResults(link[i])
  /\ link' = [link EXCEPT ![i] = l]
  /\ i' = i + 1
  /\ all_ok' = (all_ok /\ l = "up")
  /\ UNCHANGED <<pc, state, allocated, j, status>>

(* db_stat: one connection is polled; a failure ends the pass, and main    *)
(* gives up.  So does an entry that is NULL, which leaves db->state as it  *)
(* is (no pass meets one: the clean-up of db_connect does not come back).  *)
Poll(l) ==
  /\ pc = "stat"
  /\ i < NumConns
  /\ l \in PollResults(link[i])
  /\ link' = [link EXCEPT ![i] = l]
  /\ IF l \in {"null", "bad"}
     THEN /\ state' = IF l = "bad" THEN "failed_connection" ELSE state
          /\ pc' = "destroy"
          /\ status' = 1
          /\ UNCHANGED <<i, all_ok>>
     ELSE /\ i' = i + 1
          /\ all_ok' = (all_ok /\ l = "up")
          /\ UNCHANGED <<pc, state, status>>
  /\ UNCHANGED <<allocated, j>>

(* The end of a pass: main serves when all were up; db->state, which is    *)
(* still connecting, sends it round again when they were not.              *)
EndPass ==
  /\ pc = "stat"
  /\ i = NumConns
  /\ IF all_ok
     THEN state' = "connected" /\ pc' = "serve" /\ UNCHANGED <<i, all_ok>>
     ELSE pc' = "stat" /\ i' = 0 /\ all_ok' = TRUE /\ UNCHANGED state
  /\ UNCHANGED <<allocated, link, j, status>>

(* fio_start returns: the server was told to stop.                         *)
Stop ==
  /\ pc = "serve"
  /\ pc' = "destroy"
  /\ UNCHANGED <<state, allocated, link, i, j, all_ok, status>>

(* The entries before the first are forgotten.                             *)
Destroy_OffByOneBug ==
  /\ pc = "destroy"
  /\ link' = [e \in Entries |-> IF allocated /\ e > 0 THEN PQfinish(link[e]) ELSE link[e]]
  /\ allocated' = FALSE
  /\ pc' = "exited"
  /\ UNCHANGED <<state, i, j, all_ok, status>>

(* db_destroy, then exit or the return of main.                            *)
Destroy ==
  /\ pc = "destroy"
  /\ link' = [e \in Entries |-> IF allocated THEN PQfinish(link[e]) ELSE link[e]]
  /\ allocated' = FALSE
  /\ pc' = "exited"
  /\ UNCHANGED <<state, i, j, all_ok, status>>

PollOne == \E l \in Links : Poll(l)

Connect == Create \/ ConnectFirst \/ StartOne \/ StartFails \/ CleanUp \/ StartDone

MainNext == Connect \/ PollOne \/ EndPass \/ Stop \/ Destroy

MainSpec == MainInit /\ [][MainNext]_mainVars

(* main runs, and a connection in progress is decided in the end, so that  *)
(* polling it often enough gives an answer.                                *)
MainFairness ==
  /\ WF_mainVars(Connect \/ PollOne \/ EndPass \/ Destroy)
  /\ \A e \in Entries : SF_mainVars(i = e /\ \E l \in {"up", "bad"} : Poll(l))

MainFairSpec == MainSpec /\ MainFairness

-----------------------------------------------------------------------------
(* The locals of main and of the functions it calls, db->state, the array. *)
MainTypeOK ==
  /\ pc \in Places
  /\ state \in States
  /\ allocated \in BOOLEAN
  /\ link \in [Entries -> Links]
  /\ i \in 0 .. NumConns
  /\ j \in 0 .. SizeMax
  /\ all_ok \in BOOLEAN
  /\ status \in 0 .. 2

(* fio_start is called, and so a request handler runs, only when every     *)
(* connection of the pool is up and db->state lets db_exec use it: the     *)
(* answers of one pass are enough, although connections come up in any     *)
(* order over many passes.                                                 *)
ServesOnlyConnected ==
  pc = "serve" => /\ state = "connected"
                  /\ allocated
                  /\ \A e \in Entries : link[e] = "up"

(* Whatever happened, a process that ends has freed every connection it    *)
(* opened, and freed none twice.                                           *)
FreedOnce ==
  /\ pc = "exited" => \A e \in Entries : link[e] \notin Open
  /\ \A e \in Entries : link[e] # "freed twice"

(* main does not poll for ever, however the connections come up or fail:   *)
(* it serves, exits, or is in the clean-up loop (FreesAllCreated).         *)
StartupSettles == pc = "create" ~> pc \in {"serve", "exited", "cleanup"}

(* "on mass creating of connections, if error, free all created ones".     *)
FreesAllCreated ==
  pc = "cleanup" ~> \A e \in Entries : link[e] \notin Open
=============================================================================
