------------------------ MODULE ServerProcessProofs -------------------------
(***************************************************************************)
(* A server from db_create to its end, for any number of connections and   *)
(* threads: main serves only with every connection up, frees each once,    *)
(* and while it serves every call of db_exec gets its own answer.          *)
(***************************************************************************)
EXTENDS ServerProcess, FiniteSetTheorems, SequenceTheorems, TLAPS

(***************************************************************************)
(* The workers: with one worker every call of db_exec gets its own answer, *)
(* for any number of threads and connections: at most one message is on a  *)
(* connection, and it belongs to the thread that uses it.                  *)
(***************************************************************************)

(* There is one message on connection c of worker p, that of w.            *)
Carries(p, c, w) ==
  \/ asked[c] = <<w>> /\ answers[c] = <<>> /\ buffers[p][c] = <<>>
  \/ asked[c] = <<>> /\ answers[c] = <<w>> /\ buffers[p][c] = <<>>
  \/ asked[c] = <<>> /\ answers[c] = <<>> /\ buffers[p][c] = <<w>>

Quiet(p, c) == asked[c] = <<>> /\ answers[c] = <<>> /\ buffers[p][c] = <<>>

ConnInv ==
  \A p \in Processes, c \in Conns :
    \/ Quiet(p, c) /\ \A w \in Callers : using[w] # c
    \/ \E w \in Callers :
         Carries(p, c, w) /\ using[w] = c /\ \A v \in Callers : using[v] = c => v = w

Shape ==
  /\ doing \in [Callers -> {"idle", "waiting", "done"}]
  /\ using \in [Callers -> Conns \cup {NoConn}]
  /\ \A w \in Callers : (using[w] # NoConn) = (doing[w] = "waiting")
  /\ DOMAIN got = Callers
  /\ DOMAIN asked = Conns /\ DOMAIN answers = Conns
  /\ DOMAIN buffers = Processes
  /\ \A p \in Processes : DOMAIN buffers[p] = Conns

IInv == Shape /\ ConnInv /\ OwnAnswer

-----------------------------------------------------------------------------
LEMMA OneProcess ==
  ASSUME Cardinality(Processes) = 1
  PROVE  \A p, q \in Processes : p = q
<1>1. PICK p : Processes = {p}
  BY ProcessAssumption, FS_Singleton
<1> QED
  BY <1>1

LEMMA SingletonSeq ==
  ASSUME NEW x
  PROVE  Len(<<x>>) = 1 /\ SubSeq(<<x>>, 1, 1) = <<x>> /\ SubSeq(<<x>>, 2, 1) = <<>>
<1>1. <<x>> \in Seq({x}) /\ Len(<<x>>) = 1
  OBVIOUS
<1>2. SubSeq(<<x>>, 1, 1) = <<x>>
  BY <1>1, SubSeqFull
<1>3. SubSeq(<<x>>, 2, 1) = <<>>
  BY SubSeqEmpty
<1> QED
  BY <1>1, <1>2, <1>3

LEMMA InitInv == WorkersInit => IInv
BY ProcessAssumption DEF WorkersInit, Silent, IInv, Shape, ConnInv, Quiet, OwnAnswer

(* The invariant of one connection of one worker.                          *)
Fine(p, c) ==
  \/ Quiet(p, c) /\ \A w \in Callers : using[w] # c
  \/ \E w \in Callers :
       Carries(p, c, w) /\ using[w] = c /\ \A v \in Callers : using[v] = c => v = w

(* What a step leaves alone about a connection.                            *)
LEMMA Frame ==
  ASSUME NEW p \in Processes, NEW c \in Conns, Fine(p, c),
         asked'[c] = asked[c], answers'[c] = answers[c], buffers'[p][c] = buffers[p][c],
         \A w \in Callers : (using'[w] = c) = (using[w] = c)
  PROVE  Fine(p, c)'
BY DEF Fine, Quiet, Carries

(* The message of the thread that uses a connection is on it.              *)
LEMMA Carried ==
  ASSUME IInv, NEW p \in Processes, NEW c \in Conns, NEW w \in Callers, using[w] = c
  PROVE  Carries(p, c, w) /\ \A v \in Callers : using[v] = c => v = w
BY DEF IInv, ConnInv

LEMMA AskStep ==
  ASSUME Cardinality(Processes) = 1, IInv, NEW w \in Callers, NEW c \in Conns, Ask(w, c)
  PROVE  IInv'
<1>1. Shape'
  BY ProcessAssumption DEF IInv, Shape, Ask
<1>2. OwnAnswer'
  BY DEF IInv, Shape, OwnAnswer, Ask
<1>3. ASSUME NEW p \in Processes, NEW d \in Conns PROVE Fine(p, d)'
  <2>1. Fine(p, d)
    BY DEF IInv, ConnInv, Fine
  <2>2. CASE d # c
    <3>1. \A v \in Callers : (using'[v] = d) = (using[v] = d)
      BY <2>2, ProcessAssumption DEF IInv, Shape, Ask
    <3> QED
      BY <2>1, <2>2, <3>1, Frame DEF IInv, Shape, Ask
  <2>3. CASE d = c
    <3>1. \A v \in Callers : using[v] # c
      BY OneProcess DEF Ask, Callers
    <3>2. Quiet(p, c)
      BY <2>1, <2>3, <3>1 DEF Fine
    <3>3. asked'[c] = <<w>> /\ answers'[c] = <<>> /\ buffers'[p][c] = <<>>
      BY <3>2 DEF IInv, Shape, Ask, Quiet
    <3>4. using'[w] = c /\ \A v \in Callers : using'[v] = c => v = w
      BY <3>1 DEF IInv, Shape, Ask
    <3> QED
      BY <2>3, <3>3, <3>4 DEF Fine, Carries
  <2> QED
    BY <2>2, <2>3
<1> QED
  BY <1>1, <1>2, <1>3 DEF IInv, ConnInv, Fine

LEMMA ReplyStep ==
  ASSUME IInv, NEW c \in Conns, Reply(c)
  PROVE  IInv'
<1>1. Shape' /\ OwnAnswer'
  BY DEF IInv, Shape, OwnAnswer, Reply
<1>2. ASSUME NEW p \in Processes, NEW d \in Conns PROVE Fine(p, d)'
  <2>1. Fine(p, d)
    BY DEF IInv, ConnInv, Fine
  <2>2. CASE d # c
    BY <2>1, <2>2, Frame DEF IInv, Shape, Reply
  <2>3. CASE d = c
    <3>1. PICK w \in Callers :
            Carries(p, c, w) /\ using[w] = c /\ \A v \in Callers : using[v] = c => v = w
      BY <2>1, <2>3 DEF Fine, Quiet, Reply
    <3>2. asked[c] = <<w>> /\ answers[c] = <<>> /\ buffers[p][c] = <<>>
      BY <3>1 DEF Carries, Reply
    <3>3. asked'[c] = <<>> /\ answers'[c] = <<w>> /\ buffers'[p][c] = <<>>
      BY <3>2 DEF IInv, Shape, Reply
    <3> QED
      BY <2>3, <3>1, <3>3 DEF Fine, Carries, Reply
  <2> QED
    BY <2>2, <2>3
<1> QED
  BY <1>1, <1>2 DEF IInv, ConnInv, Fine

LEMMA ReadSocketStep ==
  ASSUME Cardinality(Processes) = 1, IInv, NEW w \in Callers, ReadSocket(w)
  PROVE  IInv'
<1> DEFINE c == using[w]
<1>1. c \in Conns /\ w[1] \in Processes
  BY DEF IInv, Shape, ReadSocket, Callers
<1>2. Shape' /\ OwnAnswer'
  BY DEF IInv, Shape, OwnAnswer, ReadSocket
<1>3. ASSUME NEW p \in Processes, NEW d \in Conns PROVE Fine(p, d)'
  <2>1. Fine(p, d)
    BY DEF IInv, ConnInv, Fine
  <2>2. p = w[1]
    BY <1>1, OneProcess
  <2>3. CASE d # c
    <3>1. asked'[d] = asked[d] /\ answers'[d] = answers[d] /\ using' = using
      BY <2>3 DEF IInv, Shape, ReadSocket
    <3>2. buffers'[p][d] = buffers[p][d]
      BY <1>1, <2>2, <2>3 DEF IInv, Shape, ReadSocket
    <3> QED
      BY <2>1, <3>1, <3>2, Frame
  <2>4. CASE d = c
    <3>1. Carries(p, c, w) /\ \A v \in Callers : using[v] = c => v = w
      BY <1>1, Carried
    <3>2. PICK n \in 1 .. Len(answers[c]) :
            /\ buffers' = [buffers EXCEPT ![w[1]][c] = SubSeq(answers[c], 1, n)]
            /\ answers' = [answers EXCEPT ![c] = SubSeq(answers[c], n + 1, Len(answers[c]))]
      BY DEF ReadSocket
    <3>3. asked[c] = <<>> /\ answers[c] = <<w>>
      <4>1. buffers[p][c] = <<>>
        BY <2>2 DEF ReadSocket
      <4>2. Len(answers[c]) # 0
        OBVIOUS
      <4>3. answers[c] # <<>>
        BY <4>2
      <4> QED
        BY <3>1, <4>1, <4>3 DEF Carries
    <3>4. Len(answers[c]) = 1 /\ n = 1
      BY <3>3, SingletonSeq
    <3>5. asked'[c] = <<>> /\ answers'[c] = <<>> /\ buffers'[p][c] = <<w>>
      <4>1. /\ buffers' = [buffers EXCEPT ![w[1]][c] = <<w>>]
            /\ answers' = [answers EXCEPT ![c] = <<>>]
        <5>1. SubSeq(answers[c], 1, n) = <<w>>
          BY <3>3, <3>4, SingletonSeq
        <5>2. n + 1 = 2
          BY <3>4
        <5>3. SubSeq(answers[c], n + 1, Len(answers[c])) = <<>>
          BY <3>3, <3>4, <5>2, SingletonSeq
        <5> QED
          BY <3>2, <5>1, <5>3, Zenon
      <4>2. answers'[c] = <<>>
        BY <1>1, <4>1 DEF IInv, Shape
      <4>3. c \in DOMAIN buffers[w[1]] /\ w[1] \in DOMAIN buffers
        BY <1>1 DEF IInv, Shape
      <4>4. buffers'[p][c] = <<w>>
        BY <2>2, <4>1, <4>3
      <4> QED
        BY <3>3, <4>2, <4>4 DEF ReadSocket
    <3> QED
      BY <2>4, <3>1, <3>5 DEF Fine, Carries, ReadSocket
  <2> QED
    BY <2>3, <2>4
<1> QED
  BY <1>2, <1>3 DEF IInv, ConnInv, Fine

LEMMA ReceiveStep ==
  ASSUME Cardinality(Processes) = 1, IInv, NEW w \in Callers, Receive(w)
  PROVE  IInv'
<1> DEFINE c == using[w]
<1>1. c \in Conns /\ c # NoConn /\ w[1] \in Processes
  BY DEF IInv, Shape, Receive, Callers
<1>2. /\ Carries(w[1], c, w) /\ buffers[w[1]][c] = <<w>>
      /\ \A v \in Callers : using[v] = c => v = w
  BY <1>1, Carried DEF Carries, Receive
<1>3. Shape'
  <2>1. DOMAIN buffers' = Processes /\ \A p \in Processes : DOMAIN buffers'[p] = Conns
    BY <1>1 DEF IInv, Shape, Receive
  <2> QED
    BY <1>1, <2>1 DEF IInv, Shape, Receive
<1>4. OwnAnswer'
  BY <1>2 DEF IInv, Shape, OwnAnswer, Receive
<1>5. ASSUME NEW p \in Processes, NEW d \in Conns PROVE Fine(p, d)'
  <2>1. Fine(p, d) /\ p = w[1]
    BY <1>1, OneProcess DEF IInv, ConnInv, Fine
  <2>2. CASE d # c
    <3>1. asked'[d] = asked[d] /\ answers'[d] = answers[d] /\ buffers'[p][d] = buffers[p][d]
      BY <1>1, <2>1, <2>2 DEF IInv, Shape, Receive
    <3>2. \A v \in Callers : (using'[v] = d) = (using[v] = d)
      BY <2>2, ProcessAssumption DEF IInv, Shape, Receive
    <3> QED
      BY <2>1, <3>1, <3>2, Frame
  <2>3. CASE d = c
    <3>1. asked'[c] = <<>> /\ answers'[c] = <<>> /\ buffers'[p][c] = <<>>
      BY <1>1, <1>2, <2>1 DEF IInv, Shape, Receive, Carries
    <3>2. \A v \in Callers : using'[v] # c
      BY <1>1, <1>2, ProcessAssumption DEF IInv, Shape, Receive
    <3> QED
      BY <2>3, <3>1, <3>2 DEF Fine, Quiet
  <2> QED
    BY <2>2, <2>3
<1> QED
  BY <1>3, <1>4, <1>5 DEF IInv, ConnInv, Fine

LEMMA DieStep ==
  ASSUME Cardinality(Processes) = 1, IInv, NEW p \in Processes, Die(p)
  PROVE  IInv'
<1>1. /\ asked' = Silent /\ answers' = Silent /\ buffers' = [buffers EXCEPT ![p] = Silent]
      /\ \A w \in Callers : w[1] = p
  BY OneProcess DEF Die, SocketsAfter, Callers
<1>2. /\ doing' = [w \in Callers |-> "idle"] /\ using' = [w \in Callers |-> NoConn]
      /\ DOMAIN got' = Callers
  BY <1>1 DEF Die
<1>3. Shape' /\ OwnAnswer'
  BY <1>1, <1>2 DEF IInv, Shape, OwnAnswer, Silent
<1>4. ConnInv'
  BY <1>1, <1>2, OneProcess, ProcessAssumption DEF IInv, Shape, ConnInv, Quiet, Silent
<1> QED
  BY <1>3, <1>4 DEF IInv

LEMMA FinishStep ==
  ASSUME IInv, NEW w \in Callers, Finish(w)
  PROVE  IInv'
<1>1. Shape' /\ OwnAnswer'
  BY DEF IInv, Shape, OwnAnswer, Finish
<1>2. ConnInv'
  BY DEF IInv, ConnInv, Finish, Quiet, Carries
<1> QED
  BY <1>1, <1>2 DEF IInv

LEMMA WorkersStep ==
  ASSUME Cardinality(Processes) = 1, IInv, [WorkersNext]_workersVars
  PROVE  IInv'
<1>1. CASE UNCHANGED workersVars
  BY <1>1 DEF workersVars, IInv, Shape, ConnInv, OwnAnswer, Quiet, Carries
<1> QED
  BY <1>1, AskStep, ReplyStep, ReadSocketStep, ReceiveStep, FinishStep, DieStep DEF WorkersNext

(* One worker: every call of db_exec gets the answer to its own statement  *)
(* (OwnAnswer), however often the worker dies.                             *)
THEOREM AnswersAreOwn ==
  ASSUME Cardinality(Processes) = 1
  PROVE  WorkersSpec => []OwnAnswer
<1>1. IInv /\ [WorkersNext]_workersVars => IInv'
  BY WorkersStep
<1>2. IInv => OwnAnswer
  BY DEF IInv
<1> QED
  BY InitInv, <1>1, <1>2, PTL DEF WorkersSpec

(***************************************************************************)
(* main: the array of connections, and the run of the workers within it.   *)
(***************************************************************************)

Opened(n) == \A e \in Entries : IF e < n THEN link[e] \in Open ELSE link[e] = "null"

(* What the array holds at each place of main.  In the clean-up loop i is  *)
(* the entry that PQconnectStartParams left NULL, so that PQfinish does    *)
(* nothing with it; db_stat has seen "up" at every entry it passed while   *)
(* all_ok stands, and a connection that is up stays so.                    *)
PlaceInv ==
  /\ pc \in {"create", "connect"} =>
       ~allocated /\ state = "not_connected" /\ \A e \in Entries : link[e] = "null"
  /\ pc = "start" => allocated /\ i >= 1 /\ Opened(i)
  /\ pc = "cleanup" => allocated /\ i \in 1 .. NumConns - 1 /\ Opened(i)
  /\ pc = "stat" =>
       /\ allocated
       /\ \A e \in Entries : link[e] \in Open
       /\ all_ok => \A e \in Entries : e < i => link[e] = "up"
  /\ pc = "serve" =>
       allocated /\ state = "connected" /\ \A e \in Entries : link[e] = "up"
  /\ pc = "destroy" =>
       \A e \in Entries : link[e] \in (IF allocated THEN Open ELSE {"null", "freed"})
  /\ pc = "exited" => \A e \in Entries : link[e] \in {"null", "freed"}

Numbers ==
  /\ pc \in Places
  /\ link \in [Entries -> Links]
  /\ i \in 0 .. NumConns
  /\ j \in 0 .. SizeMax

MainInv == Numbers /\ PlaceInv

LEMMA MainInitInv == MainInit => MainInv
<1> SUFFICES ASSUME MainInit PROVE MainInv
  OBVIOUS
<1>1. 0 \in 0 .. NumConns /\ 0 \in 0 .. SizeMax
  BY ConnectAssumption DEF ConnectAssumption
<1>2. Numbers
  BY <1>1 DEF MainInit, Numbers, Places, Links
<1>3. PlaceInv
  BY DEF MainInit, PlaceInv
<1> QED
  BY <1>2, <1>3 DEF MainInv

LEMMA CreateStep ==
  ASSUME MainInv, Create
  PROVE  MainInv'
BY DEF MainInv, Numbers, PlaceInv, Create, Places, Opened

LEMMA ConnectFirstStep ==
  ASSUME MainInv, ConnectFirst
  PROVE  MainInv'
<1>1. 0 \in Entries /\ 1 \in 0 .. NumConns /\ 0 \in 0 .. NumConns
  BY ConnectAssumption DEF ConnectAssumption, Entries
<1>2. link \in [Entries -> Links] /\ j' \in 0 .. SizeMax /\ \A e \in Entries : link[e] = "null"
  BY DEF MainInv, Numbers, PlaceInv, ConnectFirst
<1>3. CASE link' = [link EXCEPT ![0] = "up"] /\ allocated' = TRUE /\ pc' = "start" /\ i' = 1
  <2>1. /\ link' \in [Entries -> Links]
        /\ \A e \in Entries : IF e < 1 THEN link'[e] = "up" ELSE link'[e] = "null"
    <3>1. link' \in [Entries -> Links]
      BY <1>1, <1>2, <1>3 DEF Links
    <3>2. \A e \in Entries : link'[e] = IF e = 0 THEN "up" ELSE "null"
      BY <1>1, <1>2, <1>3
    <3>3. \A e \in Entries : e < 1 <=> e = 0
      BY DEF Entries
    <3> QED
      BY <3>1, <3>2, <3>3
  <2>2. Numbers'
    BY <1>1, <1>2, <1>3, <2>1 DEF Numbers, Places
  <2>3. PlaceInv'
    BY <1>3, <2>1 DEF PlaceInv, Opened, Open
  <2> QED
    BY <2>2, <2>3 DEF MainInv
<1>4. CASE link' = [link EXCEPT ![0] = PQfinish("bad")] /\ UNCHANGED allocated /\ BeginStat
  <2>1. ~allocated'
    BY <1>4 DEF MainInv, PlaceInv, ConnectFirst
  <2>2. pc' = "destroy" /\ i' = i
    BY <1>4, <2>1 DEF BeginStat
  <2>3. link' \in [Entries -> Links] /\ \A e \in Entries : link'[e] \in {"null", "freed"}
    BY <1>1, <1>2, <1>4 DEF Links, Open, PQfinish
  <2>4. Numbers'
    BY <1>2, <2>2, <2>3 DEF MainInv, Numbers, Places
  <2>5. PlaceInv'
    BY <2>1, <2>2, <2>3 DEF PlaceInv
  <2> QED
    BY <2>4, <2>5 DEF MainInv
<1> QED
  BY <1>3, <1>4 DEF ConnectFirst

LEMMA StartOneStep ==
  ASSUME MainInv, StartOne
  PROVE  MainInv'
<1>1. PICK l \in {"pending", "bad"} : link' = [link EXCEPT ![i] = l]
  BY DEF StartOne
<1>2. i \in Entries /\ i >= 1 /\ i' = i + 1 /\ Opened(i) /\ link \in [Entries -> Links]
  BY ConnectAssumption DEF ConnectAssumption, MainInv, Numbers, PlaceInv, StartOne, Entries
<1>3. /\ link' \in [Entries -> Links]
      /\ \A e \in Entries : IF e < i + 1 THEN link'[e] \in Open ELSE link'[e] = "null"
  <2>1. link' \in [Entries -> Links]
    BY <1>1, <1>2 DEF Links
  <2>2. \A e \in Entries : link'[e] = IF e = i THEN l ELSE link[e]
    BY <1>1, <1>2
  <2>3. l \in Open /\ \A e \in Entries : e < i + 1 <=> e < i \/ e = i
    BY <1>2 DEF Entries, Open
  <2> QED
    BY <1>2, <2>1, <2>2, <2>3 DEF Opened
<1>4. Numbers'
  BY <1>2, <1>3, ConnectAssumption
     DEF ConnectAssumption, MainInv, Numbers, StartOne, Entries
<1>5. PlaceInv'
  <2>1. i' \in Nat /\ i' >= 1
    BY <1>2, ConnectAssumption DEF ConnectAssumption, Entries
  <2>2. pc' = "start" /\ allocated' /\ Opened(i)'
    <3>1. pc' = "start" /\ allocated'
      BY DEF MainInv, PlaceInv, StartOne
    <3> QED
      BY <1>2, <1>3, <3>1 DEF Opened
  <2> QED
    BY <2>1, <2>2 DEF PlaceInv, Opened
<1> QED
  BY <1>4, <1>5 DEF MainInv

LEMMA StartFailsStep ==
  ASSUME MainInv, StartFails
  PROVE  MainInv'
BY ConnectAssumption
   DEF ConnectAssumption, MainInv, Numbers, PlaceInv, StartFails, Places, Entries, Opened

LEMMA CleanUpStep ==
  ASSUME MainInv, CleanUp
  PROVE  MainInv'
<1>1. /\ i \in Entries /\ link[i] = "null" /\ j \in 0 .. SizeMax
      /\ link \in [Entries -> Links]
  BY ConnectAssumption
     DEF ConnectAssumption, MainInv, Numbers, PlaceInv, CleanUp, Entries, Opened
<1>2. link' = link
  <2>1. PQfinish(link[i]) = link[i]
    BY <1>1 DEF PQfinish, Open
  <2>2. link' = [link EXCEPT ![i] = link[i]]
    BY <2>1 DEF CleanUp
  <2> QED
    BY <1>1, <2>2
<1>3. j' \in 0 .. SizeMax
  BY <1>1, ConnectAssumption DEF ConnectAssumption, CleanUp
<1> QED
  BY <1>2, <1>3 DEF MainInv, Numbers, PlaceInv, CleanUp, Opened

LEMMA StartDoneStep ==
  ASSUME MainInv, StartDone
  PROVE  MainInv'
BY ConnectAssumption
   DEF ConnectAssumption, MainInv, Numbers, PlaceInv, StartDone, BeginStat, Places, States, Entries, Opened

LEMMA PollStep ==
  ASSUME MainInv, NEW l \in Links, Poll(l)
  PROVE  MainInv'
<1>1. /\ pc = "stat" /\ allocated /\ i \in Entries /\ link' = [link EXCEPT ![i] = l]
      /\ link[i] \in Open /\ l \in Open /\ (link[i] = "up" => l = "up")
      /\ UNCHANGED <<allocated, j>>
  <2>1. pc = "stat" /\ allocated /\ \A e \in Entries : link[e] \in Open
    BY DEF MainInv, PlaceInv, Poll
  <2>2. i \in Entries
    BY ConnectAssumption DEF ConnectAssumption, MainInv, Numbers, Poll, Entries
  <2>3. l \in Open /\ (link[i] = "up" => l = "up")
    BY <2>1, <2>2 DEF Poll, PollResults, Open
  <2> QED
    BY <2>1, <2>2, <2>3 DEF Poll
<1>2. /\ link' \in [Entries -> Links]
      /\ \A e \in Entries : link'[e] \in Open /\ (link[e] = "up" => link'[e] = "up")
  BY <1>1 DEF MainInv, Numbers, PlaceInv
<1>3. CASE l = "bad"
  BY <1>1, <1>2, <1>3 DEF MainInv, Numbers, PlaceInv, Poll, Places, States
<1>4. CASE l # "bad"
  <2>1. i' = i + 1 /\ all_ok' = (all_ok /\ l = "up") /\ UNCHANGED <<pc, state, status>>
    BY <1>1, <1>4 DEF Poll, Open
  <2>2. ASSUME all_ok', NEW e \in Entries, e < i' PROVE link'[e] = "up"
    <3>1. all_ok /\ l = "up"
      BY <2>1, <2>2
    <3>2. \A d \in Entries : d < i => link[d] = "up"
      BY <1>1, <3>1 DEF MainInv, PlaceInv
    <3>3. e < i \/ e = i
      BY <1>1, <2>1, <2>2, ConnectAssumption DEF ConnectAssumption, Entries
    <3>4. i \in DOMAIN link
      BY <1>1 DEF MainInv, Numbers
    <3> QED
      BY <1>1, <1>2, <3>1, <3>2, <3>3, <3>4
  <2>3. i' \in 0 .. NumConns
    BY <1>1, <2>1, ConnectAssumption DEF ConnectAssumption, MainInv, Numbers, Entries
  <2> QED
    BY <1>1, <1>2, <2>1, <2>2, <2>3 DEF MainInv, Numbers, PlaceInv
<1> QED
  BY <1>3, <1>4

LEMMA EndPassStep ==
  ASSUME MainInv, EndPass
  PROVE  MainInv'
BY ConnectAssumption DEF ConnectAssumption, MainInv, Numbers, PlaceInv, EndPass, Places, States, Entries

LEMMA StopStep ==
  ASSUME MainInv, Stop
  PROVE  MainInv'
BY DEF MainInv, Numbers, PlaceInv, Stop, Places, Open

LEMMA DestroyStep ==
  ASSUME MainInv, Destroy
  PROVE  MainInv'
<1>1. /\ link' \in [Entries -> Links]
      /\ \A e \in Entries : link'[e] \in {"null", "freed"}
  BY DEF MainInv, Numbers, PlaceInv, Destroy, PQfinish, Links, Open
<1> QED
  BY <1>1 DEF MainInv, Numbers, PlaceInv, Destroy, Places

LEMMA MainStep ==
  ASSUME MainInv, MainNext
  PROVE  MainInv'
BY CreateStep, ConnectFirstStep, StartOneStep, StartFailsStep, CleanUpStep, StartDoneStep,
   PollStep, EndPassStep, StopStep, DestroyStep DEF MainNext, Connect, PollOne

(* When the process of main dies and is started again it begins like the   *)
(* first; with several workers main is another process.                    *)
LEMMA CrashStep ==
  ASSUME MainInv, NEW p \in Processes, Crash(p)
  PROVE  MainInv'
<1>1. CASE Cardinality(Processes) = 1
  <2>1. pc' = "create" /\ state' = "not_connected" /\ allocated' = FALSE
        /\ link' = [e \in Entries |-> "null"] /\ i' = 0 /\ j' = 0
    BY <1>1 DEF Crash
  <2>2. Numbers'
    BY <2>1, ConnectAssumption DEF ConnectAssumption, Numbers, Places, Links
  <2>3. PlaceInv'
    BY <2>1 DEF PlaceInv
  <2> QED
    BY <2>2, <2>3 DEF MainInv
<1>2. CASE Cardinality(Processes) # 1
  BY <1>2 DEF Crash, mainVars, MainInv, Numbers, PlaceInv, Opened
<1> QED
  BY <1>1, <1>2

LEMMA ServerMainInv == Spec => []MainInv
<1>1. Init => MainInv
  BY MainInitInv DEF Init
<1>2. MainInv /\ [Next]_vars => MainInv'
  <2> SUFFICES ASSUME MainInv, [Next]_vars PROVE MainInv'
    OBVIOUS
  <2>1. CASE UNCHANGED mainVars
    BY <2>1 DEF mainVars, MainInv, Numbers, PlaceInv, Opened
  <2>2. CASE Main
    BY <2>2, MainStep DEF Main
  <2> QED
    BY <2>1, <2>2, CrashStep DEF Next, Serve, vars
<1> QED
  BY <1>1, <1>2, PTL DEF Spec

-----------------------------------------------------------------------------
(* main calls fio_start only with db->state connected and every connection *)
(* up (ServesOnlyConnected).                                               *)
THEOREM ServesConnected == Spec => []ServesOnlyConnected
<1>1. MainInv => ServesOnlyConnected
  BY DEF MainInv, PlaceInv, ServesOnlyConnected
<1> QED
  BY <1>1, ServerMainInv, PTL

(* A process that ends has freed what it opened, and nothing twice         *)
(* (FreedOnce).                                                            *)
THEOREM FreesOnce == Spec => []FreedOnce
<1>1. MainInv => FreedOnce
  <2> SUFFICES ASSUME MainInv PROVE FreedOnce
    OBVIOUS
  <2>1. ASSUME NEW e \in Entries PROVE link[e] # "freed twice"
    BY DEF MainInv, Numbers, PlaceInv, Places, Opened, Open
  <2>2. pc = "exited" => \A e \in Entries : link[e] \notin Open
    BY DEF MainInv, PlaceInv, Open
  <2> QED
    BY <2>1, <2>2 DEF FreedOnce
<1> QED
  BY <1>1, ServerMainInv, PTL

(* With one worker every call of db_exec gets the answer to its own        *)
(* statement (OwnAnswer), from the first start of the server to its end.   *)
THEOREM ServerAnswersOwn ==
  ASSUME Cardinality(Processes) = 1
  PROVE  Spec => []OwnAnswer
<1>1. Init => IInv
  BY InitInv DEF Init
<1>2. IInv /\ [Next]_vars => IInv'
  <2>1. [Next]_vars => [WorkersNext]_workersVars
    BY DEF Next, Main, Serve, Crash, WorkersNext, vars
  <2> QED
    BY <2>1, WorkersStep
<1>3. IInv => OwnAnswer
  BY DEF IInv
<1> QED
  BY <1>1, <1>2, <1>3, PTL DEF Spec

-----------------------------------------------------------------------------
(* Types.                                                                  *)

Flags == state \in States /\ allocated \in BOOLEAN /\ all_ok \in BOOLEAN /\ status \in 0 .. 2

LEMMA FlagsStep ==
  ASSUME Flags, Main \/ Serve \/ \E p \in Processes : Crash(p)
  PROVE  Flags'
<1>1. state' \in States /\ status' \in 0 .. 2
  BY DEF Flags, States, Main, MainNext, Connect, Create, ConnectFirst, BeginStat, StartOne,
     StartFails, CleanUp, StartDone, PollOne, Poll, EndPass, Stop, Destroy, Serve, Crash, mainVars
<1>2. allocated' \in BOOLEAN
  BY Zenon DEF Flags, Main, MainNext, Connect, Create, ConnectFirst, StartOne,
     StartFails, CleanUp, StartDone, PollOne, Poll, EndPass, Stop, Destroy, Serve, Crash, mainVars
<1>3. all_ok' \in BOOLEAN
  BY Zenon DEF Flags, Main, MainNext, Connect, Create, ConnectFirst, BeginStat, StartOne,
     StartFails, CleanUp, StartDone, PollOne, Poll, EndPass, Stop, Destroy, Serve, Crash, mainVars
<1> QED
  BY <1>1, <1>2, <1>3 DEF Flags

(* The messages of a socket, when a worker died.                           *)
LEMMA SocketsTyped ==
  ASSUME NEW sockets \in [Conns -> Seq(Tags)], NEW p \in Processes
  PROVE  SocketsAfter(sockets, p) \in [Conns -> Seq(Tags)]
<1>1. Silent \in [Conns -> Seq(Tags)]
  BY DEF Silent
<1>2. ASSUME NEW c \in Conns PROVE Orphaned(sockets[c], p) \in Seq(Tags)
  <2>1. sockets[c] \in Seq(Tags)
    OBVIOUS
  <2>2. DOMAIN sockets[c] = 1 .. Len(sockets[c]) /\ Len(sockets[c]) \in Nat
    BY <2>1
  <2>3. Orphaned(sockets[c], p) \in [1 .. Len(sockets[c]) -> Tags]
    BY <2>1, <2>2 DEF Orphaned, Tags
  <2> QED
    BY <2>2, <2>3, SeqDef
<1> QED
  BY <1>1, <1>2 DEF SocketsAfter

LEMMA WorkersTypesStep ==
  ASSUME WorkersTypeOK, WorkersNext
  PROVE  WorkersTypeOK'
<1>1. ASSUME NEW w \in Callers, NEW c \in Conns, Ask(w, c) PROVE WorkersTypeOK'
  <2>1. w \in Tags /\ c # NoConn
    BY ProcessAssumption DEF ProcessAssumption, Tags
  <2>2. asked' \in [Conns -> Seq(Tags)]
    BY <1>1, <2>1 DEF WorkersTypeOK, Ask
  <2> QED
    BY <1>1, <2>1, <2>2 DEF WorkersTypeOK, Ask
<1>2. ASSUME NEW c \in Conns, Reply(c) PROVE WorkersTypeOK'
  <2>1. asked[c] \in Seq(Tags) /\ asked[c] # <<>>
    BY <1>2 DEF WorkersTypeOK, Reply
  <2>2. Head(asked[c]) \in Tags /\ Tail(asked[c]) \in Seq(Tags)
    BY <2>1
  <2>3. asked' \in [Conns -> Seq(Tags)] /\ answers' \in [Conns -> Seq(Tags)]
    BY <1>2, <2>2 DEF WorkersTypeOK, Reply
  <2> QED
    BY <1>2, <2>3 DEF WorkersTypeOK, Reply
<1>3. ASSUME NEW w \in Callers, ReadSocket(w) PROVE WorkersTypeOK'
  <2> DEFINE c == using[w]
  <2>1. c \in Conns /\ w[1] \in Processes /\ answers[c] \in Seq(Tags)
    BY <1>3 DEF WorkersTypeOK, ReadSocket, Callers
  <2>2. PICK n \in 1 .. Len(answers[c]) :
          /\ buffers' = [buffers EXCEPT ![w[1]][c] = SubSeq(answers[c], 1, n)]
          /\ answers' = [answers EXCEPT ![c] = SubSeq(answers[c], n + 1, Len(answers[c]))]
    BY <1>3 DEF ReadSocket
  <2>3. /\ SubSeq(answers[c], 1, n) \in Seq(Tags)
        /\ SubSeq(answers[c], n + 1, Len(answers[c])) \in Seq(Tags)
    BY <2>1
  <2>4. /\ buffers' \in [Processes -> [Conns -> Seq(Tags)]]
        /\ answers' \in [Conns -> Seq(Tags)]
    BY <2>1, <2>2, <2>3 DEF WorkersTypeOK
  <2> QED
    BY <1>3, <2>4 DEF WorkersTypeOK, ReadSocket
<1>4. ASSUME NEW w \in Callers, Receive(w) PROVE WorkersTypeOK'
  <2> DEFINE c == using[w]
  <2>1. /\ c \in Conns /\ w[1] \in Processes
        /\ buffers[w[1]][c] \in Seq(Tags) /\ buffers[w[1]][c] # <<>>
    BY <1>4 DEF WorkersTypeOK, Receive, Callers
  <2>2. Head(buffers[w[1]][c]) \in Tags /\ Tail(buffers[w[1]][c]) \in Seq(Tags)
    BY <2>1
  <2>3. buffers' \in [Processes -> [Conns -> Seq(Tags)]] /\ got' \in [Callers -> Tags]
    BY <1>4, <2>1, <2>2 DEF WorkersTypeOK, Receive
  <2> QED
    BY <1>4, <2>3, ProcessAssumption DEF ProcessAssumption, WorkersTypeOK, Receive
<1>5. ASSUME NEW w \in Callers, Finish(w) PROVE WorkersTypeOK'
  BY <1>5 DEF WorkersTypeOK, Finish, Tags
<1>6. ASSUME NEW p \in Processes, Die(p) PROVE WorkersTypeOK'
  <2>1. asked' \in [Conns -> Seq(Tags)] /\ answers' \in [Conns -> Seq(Tags)]
    BY <1>6, SocketsTyped DEF WorkersTypeOK, Die
  <2>2. buffers' \in [Processes -> [Conns -> Seq(Tags)]]
    BY <1>6 DEF WorkersTypeOK, Die, Silent
  <2>3. /\ doing' \in [Callers -> {"idle", "waiting", "done"}]
        /\ using' \in [Callers -> Conns \cup {NoConn}]
        /\ got' \in [Callers -> Tags]
        /\ \A w \in Callers : (using'[w] # NoConn) = (doing'[w] = "waiting")
    BY <1>6 DEF WorkersTypeOK, Die, Tags
  <2>4. deaths' \in 0 .. MaxDeaths
    BY <1>6, ProcessAssumption DEF ProcessAssumption, WorkersTypeOK, Die
  <2> QED
    BY <2>1, <2>2, <2>3, <2>4 DEF WorkersTypeOK
<1> QED
  BY <1>1, <1>2, <1>3, <1>4, <1>5, <1>6 DEF WorkersNext

(* Main and its threads keep their types, and threads only run between     *)
(* fio_start's beginning and its return (TypeOK).                          *)
THEOREM ServerTypes == Spec => []TypeOK
<1>1. Init => Flags /\ TypeOK
  <2>1. ASSUME Init PROVE Flags /\ MainTypeOK
    <3>1. Numbers
      BY <2>1, MainInitInv DEF Init, MainInv
    <3>2. state \in States /\ status \in 0 .. 2
      BY <2>1 DEF Init, MainInit, States
    <3>3. allocated \in BOOLEAN /\ all_ok \in BOOLEAN
      BY <2>1, Zenon DEF Init, MainInit
    <3> QED
      BY <3>1, <3>2, <3>3, Zenon DEF Flags, MainTypeOK, Numbers
  <2>2. Init => WorkersTypeOK /\ \A w \in Callers : doing[w] = "idle"
    BY ProcessAssumption
       DEF ProcessAssumption, Init, WorkersInit, WorkersTypeOK, Silent, Tags
  <2> QED
    BY <2>1, <2>2 DEF TypeOK
<1>2. Flags /\ TypeOK /\ MainInv' /\ [Next]_vars => (Flags /\ TypeOK)'
  <2> SUFFICES ASSUME Flags, TypeOK, MainInv', [Next]_vars PROVE (Flags /\ TypeOK)'
    OBVIOUS
  <2>1. CASE UNCHANGED vars
    BY <2>1 DEF vars, mainVars, workersVars, Flags, TypeOK, MainTypeOK, WorkersTypeOK
  <2>2. CASE Next
    <3>1. Flags' /\ MainTypeOK'
      BY <2>2, FlagsStep DEF Next, Flags, MainInv, Numbers, MainTypeOK
    <3>2. WorkersTypeOK'
      <4>1. CASE UNCHANGED workersVars
        BY <4>1 DEF workersVars, TypeOK, WorkersTypeOK
      <4> QED
        BY <2>2, <4>1, WorkersTypesStep DEF Next, Main, Serve, Crash, WorkersNext, TypeOK
    <3>3. ASSUME pc' # "serve", NEW w \in Callers PROVE doing'[w] = "idle"
      <4>1. CASE Main
        BY <3>3, <4>1 DEF Main, TypeOK, workersVars
      <4>2. CASE Serve
        BY <3>3, <4>2 DEF Serve, mainVars
      <4>3. ASSUME NEW p \in Processes, Crash(p) PROVE doing'[w] = "idle"
        <5>1. Cardinality(Processes) = 1 /\ w[1] \in Processes
          BY <3>3, <4>3 DEF Crash, mainVars, Callers
        <5> QED
          BY <4>3, <5>1, OneProcess DEF Crash, Die
      <4> QED
        BY <2>2, <4>1, <4>2, <4>3 DEF Next
    <3> QED
      BY <3>1, <3>2, <3>3 DEF TypeOK
  <2> QED
    BY <2>1, <2>2
<1> QED
  BY <1>1, <1>2, ServerMainInv, PTL DEF Spec
=============================================================================
