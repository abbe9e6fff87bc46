-------------------------- MODULE PessoasApiProofs --------------------------
(***************************************************************************)
(* What PessoasApi promises for any servers, threads, people and requests: *)
(* the invariant holds of the table and, one by one, of every thread; an   *)
(* action changes one thread (or resets some), the others only see the     *)
(* table grow.                                                             *)
(***************************************************************************)
EXTENDS PessoasApi, TLAPS

(* The table and what clients were told of it.                             *)
TableInv ==
  /\ people \in [Ids -> Nicknames \cup {Nobody}]
  /\ told \subseteq Registered
  /\ \A a, b \in Ids : people[a] = people[b] /\ people[a] # Nobody => a = b

(* The person a post of w created: a client had not been told of it.       *)
Creation(w, id) == id \in Registered \ known[w] /\ people[id] = req[w].apelido

IdRow(id) == << <<[type |-> "string", value |-> id]>> >>

PostInv(w) ==
  /\ pc[w] \in {"call", "query"} => req[w].apelido \in Nicknames
  /\ pc[w] # "answered" => response[w] = NoResponse
  /\ pc[w] = "answer" =>
       \/ \E message \in Messages : results[w] = Fatal(message)
       \/ \E id \in Ids : Creation(w, id) /\ results[w] = Tuples(IdRow(id))
  /\ pc[w] = "respond" =>
       \/ results[w].entries = <<>>
       \/ \E id \in Ids : Creation(w, id) /\ results[w].entries = IdRow(id)
  /\ pc[w] = "answered" /\ response[w].status = 201 => \E id \in Ids : Creation(w, id)

ThreadInv(w) ==
  /\ pc[w] \in {"idle", "call", "query", "answer", "respond", "answered", "fault"}
  /\ known[w] \subseteq Registered
  /\ pc[w] = "idle" => req[w] = Nobody /\ response[w] = NoResponse
  /\ pc[w] # "idle" => req[w] \in Requests
  /\ pc[w] # "idle" /\ req[w].op = "post" => PostInv(w)
  /\ pc[w] # "idle" /\ req[w].op = "search" =>
       (req[w].t = "absent" => response[w] = [status |-> 400])

Functions ==
  /\ DOMAIN pc = Workers
  /\ DOMAIN req = Workers
  /\ DOMAIN results = Workers
  /\ DOMAIN response = Workers
  /\ DOMAIN known = Workers

IInv == TableInv /\ Functions /\ \A w \in Workers : ThreadInv(w)

(* The table only grows.                                                   *)
Grows == \A id \in Ids : people[id] # Nobody => people'[id] = people[id]

Same(w) ==
  /\ pc'[w] = pc[w] /\ req'[w] = req[w] /\ results'[w] = results[w]
  /\ response'[w] = response[w] /\ known'[w] = known[w]

-----------------------------------------------------------------------------
(* A post is made of the fields of Posts, and a nickname is among them.    *)
LEMMA PostFields ==
  ASSUME NEW r \in Requests, r.op = "post"
  PROVE  r.apelido \in Nicknames \cup {"long", "not text"}
<1>1. r \in AllRequests
  BY ApiAssumption
<1>2. r \in Posts
  BY <1>1 DEF AllRequests
<1> QED
  BY <1>2 DEF Posts

LEMMA CheckedPost ==
  ASSUME NEW r \in Requests, r.op = "post", CheckPost(r) = "insert"
  PROVE  r.apelido \in Nicknames
<1>1. r.apelido # "long" /\ r.apelido # "not text"
  BY DEF CheckPost
<1> QED
  BY <1>1, PostFields

(* What a thread does not change stays true of it when the table grows.    *)
LEMMA Frame ==
  ASSUME NEW w \in Workers, ThreadInv(w), Same(w), Grows
  PROVE  ThreadInv(w)'
<1>1. \A id \in Ids : Creation(w, id) => Creation(w, id)'
  BY DEF Creation, Same, Grows, Registered
<1>2. Registered \subseteq Registered'
  BY DEF Grows, Registered
<1>3. pc[w] # "idle" /\ req[w].op = "post" => PostInv(w)'
  <2> SUFFICES ASSUME PostInv(w) PROVE PostInv(w)'
    BY DEF ThreadInv
  <2> QED
    BY <1>1 DEF PostInv, Same, Fatal, Tuples, IdRow, NoResponse
<1> QED
  BY <1>2, <1>3 DEF ThreadInv, Same, NoResponse

-----------------------------------------------------------------------------
(* What db_exec's results hold for an answer of Postgres to a post.        *)
LEMMA ErrorResults ==
  ASSUME NEW message
  PROVE  Results(Fatal(message)).entries = <<>>
BY DEF Results, Fatal

LEMMA RowResults ==
  ASSUME NEW id
  PROVE  Results(Tuples(IdRow(id))).entries = IdRow(id)
BY DEF Results, Tuples, ResultCode, ErrorCode

(* Reading the id of an answer: it is the one in the row, or a fault.      *)
LEMMA ReadNothing ==
  ASSUME NEW r, r.entries = <<>>
  PROVE  ReadString(r, 0, 0).type = "fault"
BY DEF ReadString, GetEntryChecked, GetEntry, Nothing, Fault

LEMMA ReadRow ==
  ASSUME NEW r, NEW id, r.entries = IdRow(id), ReadString(r, 0, 0).type # "fault"
  PROVE  ReadString(r, 0, 0).value = id
BY DEF ReadString, GetEntryChecked, GetEntry, Nothing, Fault, IdRow

-----------------------------------------------------------------------------
THEOREM InitInv == Init => IInv
<1> SUFFICES ASSUME Init PROVE IInv
  OBVIOUS
<1>1. TableInv
  BY ApiAssumption DEF Init, TableInv, Registered
<1>2. Functions
  BY DEF Init, Functions
<1>3. ASSUME NEW w \in Workers PROVE ThreadInv(w)
  BY DEF Init, ThreadInv, Registered
<1> QED
  BY <1>1, <1>2, <1>3 DEF IInv

(* The threads other than w, when only w takes a step.                     *)
LEMMA Others ==
  ASSUME IInv, NEW w \in Workers, TableInv', Functions', ThreadInv(w)', Grows,
         \A v \in Workers \ {w} : Same(v)
  PROVE  IInv'
<1>1. ASSUME NEW v \in Workers PROVE ThreadInv(v)'
  BY <1>1, Frame DEF IInv
<1> QED
  BY <1>1 DEF IInv

LEMMA HandleStep ==
  ASSUME IInv, NEW w \in Workers, NEW r \in Requests, Handle(w, r)
  PROVE  IInv'
<1>1. /\ TableInv' /\ Grows
      /\ Functions'
      /\ \A v \in Workers \ {w} : Same(v)
  <2>1. TableInv' /\ Grows
    BY DEF IInv, TableInv, Handle, Registered, Grows
  <2>2. /\ DOMAIN pc' = Workers /\ DOMAIN response' = Workers
        /\ \A v \in Workers \ {w} : pc'[v] = pc[v] /\ response'[v] = response[v]
    BY DEF IInv, Functions, Handle, BeginSearch, BeginPost, AnswerAtOnce, CallDb, DieOf
  <2> QED
    BY <2>1, <2>2 DEF IInv, Functions, Handle, Same
<1>2. ThreadInv(w)'
  <2>1. /\ req'[w] = r /\ known'[w] = told /\ pc[w] = "idle" /\ response[w] = NoResponse
        /\ Registered' = Registered /\ told \subseteq Registered
    <3>1. pc[w] = "idle" /\ req' = [req EXCEPT ![w] = r] /\ known' = [known EXCEPT ![w] = told]
          /\ people' = people
      BY DEF Handle
    <3>2. DOMAIN req = Workers /\ DOMAIN known = Workers
      BY DEF IInv, Functions
    <3>3. req'[w] = r /\ known'[w] = told
      BY <3>1, <3>2
    <3>4. response[w] = NoResponse
      BY <3>1 DEF IInv, ThreadInv
    <3>5. Registered' = Registered
      BY <3>1 DEF Registered
    <3>6. told \subseteq Registered
      BY DEF IInv, TableInv
    <3> QED
      BY <3>1, <3>3, <3>4, <3>5, <3>6
  <2>2. pc'[w] \in {"call", "answered", "fault"}
    BY DEF IInv, Functions, Handle, BeginSearch, BeginPost, AnswerAtOnce, CallDb, DieOf
  <2>3. r.op = "post" => PostInv(w)'
    <3> SUFFICES ASSUME r.op = "post" PROVE PostInv(w)'
      OBVIOUS
    <3>1. pc'[w] \in {"call", "query"} => r.apelido \in Nicknames
      <4>1. pc'[w] = "call" => CheckPost(r) = "insert"
        BY DEF IInv, Functions, Handle, BeginSearch, BeginPost, AnswerAtOnce, CallDb, DieOf
      <4> QED
        BY <2>2, <4>1, CheckedPost
    <3>2. pc'[w] # "answered" => response'[w] = NoResponse
      BY <2>1 DEF IInv, Functions, Handle, BeginSearch, BeginPost, AnswerAtOnce, CallDb, DieOf
    <3>3. pc'[w] = "answered" => response'[w].status # 201
      <4>1. BeginPost(w, r)
        BY DEF Handle
      <4>2. AnswerAtOnce(w, 422) \/ CallDb(w) \/ DieOf(w)
        BY <4>1 DEF BeginPost
      <4>3. pc'[w] = "answered" => response'[w] = [status |-> 422]
        BY <4>2 DEF IInv, Functions, AnswerAtOnce, CallDb, DieOf
      <4> QED
        BY <4>3
    <3> QED
      BY <2>1, <2>2, <3>1, <3>2, <3>3 DEF PostInv
  <2>4. r.op = "search" /\ r.t = "absent" => response'[w] = [status |-> 400]
    BY <2>1 DEF IInv, Functions, Handle, BeginSearch
  <2> QED
    BY <2>1, <2>2, <2>3, <2>4 DEF ThreadInv
<1> QED
  BY <1>1, <1>2, Others

LEMMA AcquireStep ==
  ASSUME IInv, NEW w \in Workers, Acquire(w)
  PROVE  IInv'
<1>1. TableInv' /\ Grows /\ Functions' /\ \A v \in Workers \ {w} : Same(v)
  BY DEF IInv, TableInv, Functions, Acquire, Registered, Grows, Same
<1>2. ThreadInv(w)'
  <2>1. PostInv(w) => PostInv(w)'
    BY DEF IInv, Functions, Acquire, PostInv
  <2> QED
    BY <2>1 DEF IInv, Functions, Acquire, ThreadInv, Registered
<1> QED
  BY <1>1, <1>2, Others

LEMMA RefusedStep ==
  ASSUME IInv, NEW w \in Workers, Refused(w)
  PROVE  IInv'
<1>1. TableInv' /\ Grows /\ Functions' /\ \A v \in Workers \ {w} : Same(v)
  BY DEF IInv, TableInv, Functions, Refused, Registered, Grows, Same
<1>2. ThreadInv(w)'
  <2>1. PostInv(w) => PostInv(w)'
    BY DEF IInv, Functions, Refused, PostInv, NoConnectionResults
  <2> QED
    BY <2>1 DEF IInv, Functions, Refused, ThreadInv, Registered
<1> QED
  BY <1>1, <1>2, Others

LEMMA OverrunStep ==
  ASSUME IInv, NEW w \in Workers, Overrun(w)
  PROVE  IInv'
<1>1. TableInv' /\ Grows /\ Functions' /\ \A v \in Workers \ {w} : Same(v)
  BY DEF IInv, TableInv, Functions, Overrun, DieOf, Registered, Grows, Same
<1>2. ThreadInv(w)'
  <2>1. PostInv(w) => PostInv(w)'
    BY DEF IInv, Functions, Overrun, DieOf, PostInv
  <2> QED
    BY <2>1 DEF IInv, Functions, Overrun, DieOf, ThreadInv, Registered
<1> QED
  BY <1>1, <1>2, Others

(* An insert commits a row for a nickname nobody has, or changes nothing   *)
(* and fails.                                                              *)
LEMMA InsertStep ==
  ASSUME IInv, NEW w \in Workers, Execute(w), Insert(w), req[w].op = "post"
  PROVE  IInv'
<1>1. Functions' /\ \A v \in Workers \ {w} : Same(v)
  BY DEF IInv, Functions, Execute, Insert, Same
<1>2. /\ pc[w] = "query" /\ pc'[w] = "answer" /\ req'[w] = req[w]
      /\ response'[w] = response[w] /\ known'[w] = known[w] /\ req[w] \in Requests
      /\ PostInv(w)
  BY DEF IInv, Functions, Execute, ThreadInv
<1>3. CASE people' = people /\ \E message \in Messages : results'[w] = Fatal(message)
  <2>1. TableInv' /\ Grows /\ Registered' = Registered
    BY <1>3 DEF IInv, TableInv, Execute, Registered, Grows
  <2>2. PostInv(w)'
    BY <1>2, <1>3 DEF PostInv, Fatal, NoResponse
  <2>3. ThreadInv(w)'
    BY <1>2, <2>1, <2>2 DEF IInv, ThreadInv
  <2> QED
    BY <1>1, <2>1, <2>3, Others
<1>4. CASE \E id \in Ids \ Registered :
             /\ \A other \in Ids : people[other] # req[w].apelido
             /\ people' = [people EXCEPT ![id] = req[w].apelido]
             /\ results'[w] = Tuples(IdRow(id))
  <2>1. PICK id \in Ids \ Registered :
             /\ \A other \in Ids : people[other] # req[w].apelido
             /\ people' = [people EXCEPT ![id] = req[w].apelido]
             /\ results'[w] = Tuples(IdRow(id))
    BY <1>4
  <2>2. req[w].apelido \in Nicknames /\ req[w].apelido # Nobody
    BY <1>2, ApiAssumption DEF PostInv
  <2>3. Grows /\ Registered \subseteq Registered'
    BY <2>1 DEF IInv, TableInv, Registered, Grows
  <2>4. TableInv'
    BY <2>1, <2>2, <2>3 DEF IInv, TableInv, Execute
  <2>5. Creation(w, id)'
    BY <1>2, <2>1, <2>2 DEF IInv, TableInv, ThreadInv, Creation, Registered
  <2>6. PostInv(w)'
    BY <1>2, <2>1, <2>5 DEF PostInv, Tuples, IdRow, NoResponse
  <2>7. ThreadInv(w)'
    BY <1>2, <2>3, <2>6 DEF IInv, ThreadInv
  <2> QED
    BY <1>1, <2>3, <2>4, <2>7, Others
<1>5. \/ people' = people /\ \E message \in Messages : results'[w] = Fatal(message)
      \/ \E id \in Ids \ Registered :
             /\ \A other \in Ids : people[other] # req[w].apelido
             /\ people' = [people EXCEPT ![id] = req[w].apelido]
             /\ results'[w] = Tuples(IdRow(id))
  BY DEF IInv, Functions, Insert, Messages, IdRow
<1> QED
  BY <1>3, <1>4, <1>5

LEMMA ExecuteStep ==
  ASSUME IInv, NEW w \in Workers, Execute(w)
  PROVE  IInv'
<1>1. CASE req[w].op = "post"
  BY <1>1, InsertStep DEF Execute
<1>2. CASE req[w].op # "post"
  <2>1. people' = people /\ DOMAIN results' = Workers
        /\ \A v \in Workers \ {w} : results'[v] = results[v]
    BY <1>2 DEF IInv, Functions, Execute, Count, Select, RefuseId
  <2>2. TableInv' /\ Grows /\ Functions' /\ \A v \in Workers \ {w} : Same(v)
    BY <2>1 DEF IInv, TableInv, Functions, Execute, Registered, Grows, Same
  <2>3. ThreadInv(w)'
    BY <1>2, <2>1 DEF IInv, Functions, Execute, ThreadInv, Registered
  <2> QED
    BY <2>2, <2>3, Others
<1> QED
  BY <1>1, <1>2

LEMMA AnswerStep ==
  ASSUME IInv, NEW w \in Workers, Answer(w)
  PROVE  IInv'
<1>1. TableInv' /\ Grows /\ Functions' /\ \A v \in Workers \ {w} : Same(v)
  BY DEF IInv, TableInv, Functions, Answer, Registered, Grows, Same
<1>2. /\ pc[w] # "idle" /\ pc[w] # "answered" /\ pc'[w] = "respond" /\ req'[w] = req[w]
      /\ response'[w] = response[w] /\ known'[w] = known[w] /\ Registered' = Registered
      /\ people' = people
  BY DEF IInv, Functions, Answer, Registered
<1>3. ASSUME PostInv(w) PROVE PostInv(w)'
  <2>1. CASE results'[w] = Results(Fatal("other"))
    BY <1>2, <1>3, <2>1, ErrorResults DEF PostInv
  <2>2. CASE pc[w] = "answer" /\ results'[w] = Results(results[w])
    <3>1. CASE \E message \in Messages : results[w] = Fatal(message)
      BY <1>2, <1>3, <2>2, <3>1, ErrorResults DEF PostInv
    <3>2. CASE \E id \in Ids : Creation(w, id) /\ results[w] = Tuples(IdRow(id))
      <4>1. PICK id \in Ids : Creation(w, id) /\ results[w] = Tuples(IdRow(id))
        BY <3>2
      <4>2. Creation(w, id)' /\ results'[w].entries = IdRow(id)
        BY <1>2, <2>2, <4>1, RowResults DEF Creation
      <4>3. results'[w].entries = IdRow(id)'
        BY <4>2 DEF IdRow
      <4> QED
        BY <1>2, <1>3, <4>2, <4>3 DEF PostInv
    <3> QED
      BY <1>3, <2>2, <3>1, <3>2 DEF PostInv
  <2> QED
    BY <2>1, <2>2 DEF IInv, Functions, Answer
<1>4. ThreadInv(w)'
  BY <1>2, <1>3 DEF IInv, ThreadInv
<1> QED
  BY <1>1, <1>4, Others

(* The rest of on_post: the id that is told is the one of the creation.    *)
LEMMA RespondPostStep ==
  ASSUME IInv, NEW w \in Workers, Finish(w), RespondPost(w)
  PROVE  IInv' /\ (told' = told \/ \E id \in Registered : told' = told \cup {id})
<1>1. /\ pc[w] = "respond" /\ req[w].op = "post" /\ PostInv(w) /\ req[w] \in Requests
      /\ response[w] = NoResponse
  BY DEF IInv, Finish, RespondPost, ThreadInv, PostInv
<1>2. /\ Grows /\ Functions' /\ \A v \in Workers \ {w} : Same(v)
      /\ Registered' = Registered
  BY DEF IInv, Functions, Finish, RespondPost, Respond, DieOf, Registered, Grows, Same
<1>3. people' = people /\ req'[w] = req[w] /\ known'[w] = known[w] /\ results'[w] = results[w]
  BY DEF Finish
<1>4. CASE pc'[w] # "answered"
  <2>1. pc'[w] = "fault" /\ response'[w] = response[w] /\ told' = told
    BY <1>4 DEF IInv, Functions, RespondPost, Respond, DieOf
  <2>2. PostInv(w)'
    BY <1>1, <1>3, <2>1 DEF PostInv, NoResponse
  <2>3. ThreadInv(w)'
    BY <1>1, <1>2, <1>3, <2>1, <2>2 DEF IInv, ThreadInv
  <2>4. TableInv'
    BY <1>2, <1>3, <2>1 DEF IInv, TableInv
  <2> QED
    BY <1>2, <2>1, <2>3, <2>4, Others
<1>5. CASE /\ pc'[w] = "answered"
           /\ \E id \in Ids : Creation(w, id) /\ told' = told \cup {id}
  <2>1. PICK id \in Ids : Creation(w, id) /\ told' = told \cup {id}
    BY <1>5
  <2>2. Creation(w, id)' /\ id \in Registered
    BY <1>2, <1>3, <2>1 DEF Creation
  <2>3. PostInv(w)'
    BY <1>5, <2>2 DEF PostInv
  <2>4. ThreadInv(w)'
    BY <1>1, <1>2, <1>3, <1>5, <2>3 DEF IInv, ThreadInv
  <2>5. TableInv'
    BY <1>2, <1>3, <2>1, <2>2 DEF IInv, TableInv
  <2> QED
    BY <1>2, <2>1, <2>2, <2>4, <2>5, Others
<1>6. CASE pc'[w] = "answered" /\ told' = told /\ response'[w].status # 201
  <2>1. PostInv(w)'
    BY <1>6 DEF PostInv
  <2>2. ThreadInv(w)'
    BY <1>1, <1>2, <1>3, <1>6, <2>1 DEF IInv, ThreadInv
  <2>3. TableInv'
    BY <1>2, <1>3, <1>6 DEF IInv, TableInv
  <2> QED
    BY <1>2, <1>6, <2>2, <2>3, Others
<1>7. pc'[w] = "answered" =>
        \/ \E id \in Ids : Creation(w, id) /\ told' = told \cup {id}
        \/ told' = told /\ response'[w].status # 201
  <2> DEFINE id == ReadString(results[w], 0, 0)
  <2> SUFFICES ASSUME pc'[w] = "answered"
               PROVE  \/ \E i \in Ids : Creation(w, i) /\ told' = told \cup {i}
                      \/ told' = told /\ response'[w].status # 201
    OBVIOUS
  <2>1. CASE id.type # "fault" /\ told' = told \cup {id.value}
    <3>1. PICK i \in Ids : Creation(w, i) /\ results[w].entries = IdRow(i)
      BY <1>1, <2>1, ReadNothing DEF PostInv
    <3>2. id.value = i
      BY <2>1, <3>1, ReadRow
    <3> QED
      BY <2>1, <3>1, <3>2
  <2>2. CASE told' = told /\ \E s \in {422, 500} : response'[w] = Sent(w, [status |-> s])
    BY <1>1, <2>2 DEF Sent
  <2> QED
    <3>1. pc'[w] # "fault"
      OBVIOUS
    <3>2. ~DieOf(w)
      BY <3>1 DEF IInv, Functions, DieOf
    <3> HIDE DEF id
    <3> QED
      BY <3>2, <2>1, <2>2 DEF IInv, Functions, RespondPost, Respond, id
<1> QED
  BY <1>4, <1>5, <1>6, <1>7 DEF IInv, Registered, Creation

(* The rest of the other handlers tells nobody anything.                   *)
LEMMA RespondReadStep ==
  ASSUME IInv, NEW w \in Workers, Finish(w),
         RespondCount(w) \/ RespondSearch(w) \/ RespondUuid(w)
  PROVE  IInv' /\ told' = told
<1>1. told' = told /\ req[w].op \in {"count", "search", "uuid"} /\ pc[w] = "respond"
  BY DEF Finish, RespondCount, RespondSearch, RespondUuid
<1>2. TableInv' /\ Grows /\ Functions' /\ \A v \in Workers \ {w} : Same(v)
  BY <1>1 DEF IInv, TableInv, Functions, Finish, RespondCount, RespondSearch, RespondUuid,
              Respond, DieOf, Registered, Grows, Same
<1>3. /\ pc'[w] \in {"answered", "fault"} /\ req'[w] = req[w] /\ known'[w] = known[w]
      /\ Registered' = Registered
  BY DEF IInv, Functions, Finish, RespondCount, RespondSearch, RespondUuid, Respond, DieOf,
         Registered
<1>4. response'[w] = response[w] \/ response[w] = NoResponse
  BY DEF IInv, Functions, RespondCount, RespondSearch, RespondUuid, Respond, DieOf, Sent
<1>5. ThreadInv(w)'
  BY <1>1, <1>3, <1>4 DEF IInv, ThreadInv, NoResponse
<1> QED
  BY <1>1, <1>2, <1>5, Others

LEMMA FinishStep ==
  ASSUME IInv, NEW w \in Workers, Finish(w)
  PROVE  IInv' /\ (told' = told \/ \E id \in Registered : told' = told \cup {id})
BY RespondPostStep, RespondReadStep DEF Finish

(* Threads that are reset are idle; the others stay as they are.           *)
LEMMA ForgetStep ==
  ASSUME IInv, NEW ws \in SUBSET Workers, Forget(ws), UNCHANGED <<people, told>>
  PROVE  IInv'
<1>1. TableInv' /\ Grows /\ Functions'
  BY DEF IInv, TableInv, Functions, Forget, Cleared, Registered, Grows
<1>2. ASSUME NEW w \in Workers PROVE ThreadInv(w)'
  <2>1. CASE w \in ws
    BY <2>1 DEF Forget, Cleared, ThreadInv
  <2>2. CASE w \notin ws
    <3>1. Same(w)
      BY <2>2 DEF IInv, Functions, Forget, Cleared, Same
    <3> QED
      BY <1>1, <3>1, Frame DEF IInv
  <2> QED
    BY <2>1, <2>2
<1> QED
  BY <1>1, <1>2 DEF IInv

(* Every step keeps the invariant, and is one of the registry or changes   *)
(* neither the table nor what clients were told.                           *)
LEMMA StepInv ==
  ASSUME IInv, [Next]_vars
  PROVE  IInv'
<1>1. CASE UNCHANGED vars
  <2>1. TableInv' /\ Functions' /\ Grows /\ \A w \in Workers : Same(w)
    BY <1>1 DEF IInv, TableInv, Functions, Registered, Grows, Same, vars
  <2> QED
    BY <2>1, Frame DEF IInv
<1>2. ASSUME NEW w \in Workers, NEW r \in Requests, Handle(w, r) PROVE IInv'
  BY <1>2, HandleStep
<1>3. ASSUME NEW w \in Workers, Serve(w) PROVE IInv'
  <2>1. CASE Rest(w)
    BY <2>1, ForgetStep DEF Rest
  <2> QED
    BY <1>3, <2>1, AcquireStep, RefusedStep, OverrunStep, ExecuteStep, AnswerStep,
       FinishStep DEF Serve
<1>4. ASSUME NEW s \in Servers, Die(s) PROVE IInv'
  BY <1>4, ForgetStep DEF Die
<1>5. ASSUME UNCHANGED <<people, told, pc, req, results, response, known>> PROVE IInv'
  <2>1. TableInv' /\ Functions' /\ Grows /\ \A w \in Workers : Same(w)
    BY <1>5 DEF IInv, TableInv, Functions, Registered, Grows, Same
  <2> QED
    BY <2>1, Frame DEF IInv
<1>6. ASSUME NEW s \in Servers, StartServer(s) PROVE IInv'
  BY <1>5, <1>6 DEF StartServer
<1>7. CASE RestartDb
  BY <1>5, <1>7 DEF RestartDb
<1> QED
  BY <1>1, <1>2, <1>3, <1>4, <1>6, <1>7 DEF Next

THEOREM Invariance == Spec => []IInv
BY InitInv, StepInv, PTL DEF Spec

(* For any servers, threads, connections and requests, with any deaths and *)
(* restarts: what clients learn is what a registry with unique nicknames   *)
(* tells (ImplementsRegistry).                                             *)
THEOREM ApiImplementsRegistry == Spec => ImplementsRegistry
<1>1. Init => Registry!Init
  BY DEF Init, Registry!Init
<1>2. IInv /\ [Next]_vars => [Registry!Next]_(Registry!rvars)
  <2> SUFFICES ASSUME IInv, [Next]_vars PROVE [Registry!Next]_(Registry!rvars)
    OBVIOUS
  <2>1. ASSUME NEW w \in Workers, Execute(w) PROVE [Registry!Next]_(Registry!rvars)
    <3>1. CASE people' = people
      BY <2>1, <3>1 DEF Execute, Registry!rvars
    <3>2. CASE Insert(w) /\ req[w].op = "post" /\ people' # people
      <4>1. req[w].apelido \in Nicknames
        BY <2>1, <3>2 DEF IInv, ThreadInv, PostInv, Execute
      <4>2. PICK id \in Ids \ Registered :
               /\ \A other \in Ids : people[other] # req[w].apelido
               /\ people' = [people EXCEPT ![id] = req[w].apelido]
        BY <3>2 DEF Insert
      <4>3. Registry!Register(id, req[w].apelido)
        BY <2>1, <4>2 DEF Execute, Registered, Registry!Register
      <4> QED
        BY <4>1, <4>2, <4>3 DEF Registry!Next
    <3> QED
      BY <2>1, <3>1, <3>2 DEF Execute, Count, Select, RefuseId
  <2>2. ASSUME NEW w \in Workers, Finish(w) PROVE [Registry!Next]_(Registry!rvars)
    <3>1. people' = people /\ (told' = told \/ \E id \in Registered : told' = told \cup {id})
      BY <2>2, FinishStep DEF Finish
    <3> QED
      BY <3>1 DEF Registered, Registry!rvars, Registry!Next, Registry!Tell
  <2>3. ASSUME UNCHANGED <<people, told>> PROVE [Registry!Next]_(Registry!rvars)
    BY <2>3 DEF Registry!rvars
  <2>4. \/ \E w \in Workers : Execute(w) \/ Finish(w)
        \/ UNCHANGED <<people, told>>
    <3>1. ASSUME NEW w \in Workers, Serve(w)
          PROVE  Execute(w) \/ Finish(w) \/ UNCHANGED <<people, told>>
      BY <3>1 DEF Serve, Acquire, Refused, Overrun, Answer, Rest
    <3>2. ASSUME NEW w \in Workers, NEW r \in Requests, Handle(w, r)
          PROVE  UNCHANGED <<people, told>>
      BY <3>2 DEF Handle
    <3>3. ASSUME NEW s \in Servers, Die(s) \/ StartServer(s) PROVE UNCHANGED <<people, told>>
      BY <3>3 DEF Die, StartServer
    <3> QED
      BY <3>1, <3>2, <3>3 DEF Next, vars, RestartDb
  <2> QED
    BY <2>1, <2>2, <2>3, <2>4
<1> QED
  BY <1>1, <1>2, Invariance, PTL DEF Spec, ImplementsRegistry, Registry!Spec

(* No server answers a post as created when its nickname is that of        *)
(* somebody a client was told of before (KnownNicknameRefused).            *)
THEOREM KnownNicknamesRefused == Spec => []KnownNicknameRefused
<1>1. IInv => KnownNicknameRefused
  BY DEF IInv, TableInv, ThreadInv, PostInv, Creation, Registered, KnownNicknameRefused, Answered
<1> QED
  BY <1>1, Invariance, PTL

(* The first answer of on_get_search stands (MissingTermIs400).            *)
THEOREM MissingTermRefused == Spec => []MissingTermIs400
<1>1. IInv => MissingTermIs400
  BY DEF IInv, ThreadInv, MissingTermIs400, Answered
<1> QED
  BY <1>1, Invariance, PTL

=============================================================================
