-------------------------- MODULE WorkerProcesses ---------------------------
(***************************************************************************)
(* The processes of one server and the connections main opened before it   *)
(* called fio_start (main.c).  With one worker fio_start serves in that    *)
(* process.  With more it forks them (fio.c, fio_sentinel_worker_thread),  *)
(* so that every process has its own copy of the pool and of libpq's       *)
(* buffers, of the same sockets; a worker that dies is forked again.       *)
(*                                                                         *)
(* Within a process no two threads use a connection at a time (ConnPool).  *)
(* A message is tagged with the thread whose call it belongs to, or with   *)
(* Gone when that thread died.                                             *)
(***************************************************************************)
EXTENDS Naturals, Sequences, FiniteSets

CONSTANTS
  Processes,  \* the workers of the server
  Threads,    \* the threads of a worker
  Conns,      \* the connections main opened
  MaxDeaths,  \* bound: how often a worker dies
  Gone,       \* the tag of a message whose thread died
  NoConn      \* no connection

ASSUME ProcessAssumption ==
  /\ IsFiniteSet(Processes) /\ Processes # {}
  /\ MaxDeaths \in Nat
  /\ NoConn \notin Conns
  /\ Gone \notin Processes \X Threads

Callers == Processes \X Threads
Tags == Callers \cup {Gone}

VARIABLES
  doing,    \* what each thread does
  using,    \* the connection its process gave it
  got,      \* the tag of the answer it got
  asked,    \* the requests in each socket, towards Postgres
  answers,  \* the answers in it
  buffers,  \* the answers a process has read from it, in libpq's buffer
  deaths    \* how many workers died

workersVars == <<doing, using, got, asked, answers, buffers, deaths>>

Silent == [c \in Conns |-> <<>>]

WorkersInit ==
  /\ doing = [w \in Callers |-> "idle"]
  /\ using = [w \in Callers |-> NoConn]
  /\ got = [w \in Callers |-> Gone]
  /\ asked = Silent
  /\ answers = Silent
  /\ buffers = [p \in Processes |-> Silent]
  /\ deaths = 0

(* The pool gives a connection that another thread uses.                   *)
Ask_SharedBug(w, c) ==
  /\ doing[w] = "idle"
  /\ doing' = [doing EXCEPT ![w] = "waiting"]
  /\ using' = [using EXCEPT ![w] = c]
  /\ asked' = [asked EXCEPT ![c] = Append(@, w)]
  /\ UNCHANGED <<got, answers, buffers, deaths>>

(* db_exec gets a connection that its process does not use; PQexecParams   *)
(* sends the statement.                                                    *)
Ask(w, c) ==
  /\ doing[w] = "idle"
  /\ \A v \in Callers : v[1] = w[1] => using[v] # c
  /\ doing' = [doing EXCEPT ![w] = "waiting"]
  /\ using' = [using EXCEPT ![w] = c]
  /\ asked' = [asked EXCEPT ![c] = Append(@, w)]
  /\ UNCHANGED <<got, answers, buffers, deaths>>

(* Postgres answers the requests of a socket one after the other.          *)
Reply(c) ==
  /\ asked[c] # <<>>
  /\ asked' = [asked EXCEPT ![c] = Tail(@)]
  /\ answers' = [answers EXCEPT ![c] = Append(@, Head(asked[c]))]
  /\ UNCHANGED <<doing, using, got, buffers, deaths>>

(* libpq reads what there is in the socket, or a part of it.               *)
ReadSocket(w) ==
  /\ doing[w] = "waiting"
  /\ buffers[w[1]][using[w]] = <<>>
  /\ \E n \in 1 .. Len(answers[using[w]]) :
       /\ buffers' = [buffers EXCEPT ![w[1]][using[w]] = SubSeq(answers[using[w]], 1, n)]
       /\ answers' = [answers EXCEPT ![using[w]] = SubSeq(@, n + 1, Len(@))]
  /\ UNCHANGED <<doing, using, got, asked, deaths>>

(* The connection is not given back.                                       *)
Receive_HoldBug(w) ==
  /\ doing[w] = "waiting"
  /\ buffers[w[1]][using[w]] # <<>>
  /\ got' = [got EXCEPT ![w] = Head(buffers[w[1]][using[w]])]
  /\ buffers' = [buffers EXCEPT ![w[1]][using[w]] = Tail(@)]
  /\ doing' = [doing EXCEPT ![w] = "done"]
  /\ UNCHANGED <<using, asked, answers, deaths>>

(* PQexecParams returns the first answer; the connection is given back.    *)
Receive(w) ==
  /\ doing[w] = "waiting"
  /\ buffers[w[1]][using[w]] # <<>>
  /\ got' = [got EXCEPT ![w] = Head(buffers[w[1]][using[w]])]
  /\ buffers' = [buffers EXCEPT ![w[1]][using[w]] = Tail(@)]
  /\ doing' = [doing EXCEPT ![w] = "done"]
  /\ using' = [using EXCEPT ![w] = NoConn]
  /\ UNCHANGED <<asked, answers, deaths>>

Finish(w) ==
  /\ doing[w] = "done"
  /\ doing' = [doing EXCEPT ![w] = "idle"]
  /\ got' = [got EXCEPT ![w] = Gone]
  /\ UNCHANGED <<using, asked, answers, buffers, deaths>>

Orphaned(messages, p) ==
  [k \in DOMAIN messages |->
     IF messages[k] # Gone /\ messages[k][1] = p THEN Gone ELSE messages[k]]

(* The only worker is the server: docker starts it again, and it opens new *)
(* connections.  The sockets of several workers outlive any one of them.   *)
SocketsAfter(sockets, p) ==
  IF Cardinality(Processes) = 1 THEN Silent
  ELSE [c \in Conns |-> Orphaned(sockets[c], p)]

(* A worker dies, whatever its threads are doing, and is started again.    *)
Die(p) ==
  /\ deaths < MaxDeaths
  /\ deaths' = deaths + 1
  /\ doing' = [w \in Callers |-> IF w[1] = p THEN "idle" ELSE doing[w]]
  /\ using' = [w \in Callers |-> IF w[1] = p THEN NoConn ELSE using[w]]
  /\ got' = [w \in Callers |-> IF w[1] = p THEN Gone ELSE got[w]]
  /\ asked' = SocketsAfter(asked, p)
  /\ answers' = SocketsAfter(answers, p)
  /\ buffers' = [buffers EXCEPT ![p] = Silent]

WorkersNext ==
  \/ \E w \in Callers :
       ReadSocket(w) \/ Receive(w) \/ Finish(w) \/ \E c \in Conns : Ask(w, c)
  \/ \E c \in Conns : Reply(c)
  \/ \E p \in Processes : Die(p)

WorkersSpec == WorkersInit /\ [][WorkersNext]_workersVars

-----------------------------------------------------------------------------
WorkersTypeOK ==
  /\ doing \in [Callers -> {"idle", "waiting", "done"}]
  /\ using \in [Callers -> Conns \cup {NoConn}]
  /\ \A w \in Callers : (using[w] # NoConn) = (doing[w] = "waiting")
  /\ got \in [Callers -> Tags]
  /\ asked \in [Conns -> Seq(Tags)]
  /\ answers \in [Conns -> Seq(Tags)]
  /\ buffers \in [Processes -> [Conns -> Seq(Tags)]]
  /\ deaths \in 0 .. MaxDeaths

(* A call of db_exec gets the answer to its own statement.                 *)
OwnAnswer == \A w \in Callers : doing[w] = "done" => got[w] = w
=============================================================================
