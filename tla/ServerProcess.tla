--------------------------- MODULE ServerProcess ---------------------------
(***************************************************************************)
(* The life of a server of docker-compose.yml: main connects (DbConnect),  *)
(* calls fio_start, whose threads share what it connected                  *)
(* (WorkerProcesses), and frees it when fio_start returns.  A fault of a   *)
(* handler kills the process at any time while it serves.                  *)
(***************************************************************************)
EXTENDS DbConnect, WorkerProcesses

ASSUME ServerAssumption == Conns = Entries

vars == <<mainVars, workersVars>>

Init == MainInit /\ WorkersInit

(* main by itself: fio_start returns when it has joined its threads.       *)
Main ==
  /\ MainNext
  /\ pc = "serve" => \A w \in Callers : doing[w] = "idle"
  /\ UNCHANGED workersVars

(* The threads of fio_start.                                               *)
Serve ==
  /\ pc = "serve"
  /\ \/ \E w \in Callers :
          ReadSocket(w) \/ Receive(w) \/ Finish(w) \/ \E c \in Conns : Ask(w, c)
     \/ \E c \in Conns : Reply(c)
  /\ UNCHANGED mainVars

(* The only worker is the process main runs in: it begins again.  Of       *)
(* several, the sentinel forks the one that died again.                    *)
Crash(p) ==
  /\ pc = "serve"
  /\ Die(p)
  /\ IF Cardinality(Processes) = 1
     THEN /\ pc' = "create" /\ state' = "not_connected" /\ allocated' = FALSE
          /\ link' = [e \in Entries |-> "null"]
          /\ i' = 0 /\ j' = 0 /\ all_ok' = TRUE /\ status' = 0
     ELSE UNCHANGED mainVars

Next == Main \/ Serve \/ \E p \in Processes : Crash(p)

Spec == Init /\ [][Next]_vars

FairSpec == Spec /\ MainFairness

-----------------------------------------------------------------------------
(* The types of both parts, and that threads only run between fio_start's  *)
(* beginning and its return.                                               *)
TypeOK ==
  /\ MainTypeOK /\ WorkersTypeOK
  /\ pc # "serve" => \A w \in Callers : doing[w] = "idle"
=============================================================================
