------------------------- MODULE PessoasReadProofs -------------------------
(***************************************************************************)
(* What the reads of PessoasApi answer.  An answer of Postgres covers what *)
(* clients had been told when the request was sent; the table only grows   *)
(* after that, so it still does when the handler passes it on.             *)
(*                                                                         *)
(* Each invariant here speaks of one thread, so a step is one of a few     *)
(* kinds for that thread (StepKinds): it takes an action, it is reset, or  *)
(* it only sees the table grow.                                            *)
(***************************************************************************)
EXTENDS PessoasApiProofs, FiniteSetTheorems

(* The actions a thread takes, those of StepKinds that do not reset it.    *)
Acts(w) ==
  \/ \E r \in Requests : Handle(w, r)
  \/ Acquire(w) \/ Refused(w) \/ Overrun(w) \/ Execute(w) \/ Answer(w) \/ Finish(w)

LEMMA SomeoneActs ==
  ASSUME IInv, NEW w \in Workers, Acts(w)
  PROVE  Grows /\ \A v \in Workers \ {w} : Same(v)
<1>1. CASE \E r \in Requests : Handle(w, r)
  <2>1. PICK r \in Requests : Handle(w, r)
    BY <1>1
  <2>2. \A v \in Workers \ {w} : pc'[v] = pc[v] /\ response'[v] = response[v]
    BY <2>1 DEF IInv, Functions, Handle, BeginSearch, BeginPost, AnswerAtOnce, CallDb, DieOf
  <2> QED
    BY <2>1, <2>2 DEF IInv, Functions, Handle, Grows, Same
<1>2. CASE Acquire(w) \/ Refused(w) \/ Overrun(w) \/ Answer(w)
  BY <1>2 DEF IInv, Functions, Acquire, Refused, Overrun, Answer, DieOf, Grows, Same
<1>3. CASE Execute(w)
  <2>1. /\ \A v \in Workers \ {w} : results'[v] = results[v]
        /\ \/ people' = people
           \/ \E id \in Ids \ Registered : people' = [people EXCEPT ![id] = req[w].apelido]
    BY <1>3 DEF IInv, Functions, Execute, Insert, Count, Select, RefuseId
  <2>2. Grows
    BY <2>1 DEF IInv, TableInv, Grows, Registered
  <2> QED
    BY <1>3, <2>1, <2>2 DEF IInv, Functions, Execute, Same
<1>4. CASE Finish(w)
  <2>1. \A v \in Workers \ {w} : pc'[v] = pc[v] /\ response'[v] = response[v]
    BY <1>4 DEF IInv, Functions, Finish, RespondCount, RespondSearch, RespondUuid,
                RespondPost, Respond, DieOf
  <2> QED
    BY <1>4, <2>1 DEF Finish, Grows, Same
<1> QED
  BY <1>1, <1>2, <1>3, <1>4 DEF Acts

LEMMA StepKinds ==
  ASSUME IInv, [Next]_vars
  PROVE  /\ Grows
         /\ \A w \in Workers : Acts(w) \/ Same(w) \/ pc'[w] = "idle"
<1>1. ASSUME NEW w \in Workers, Acts(w)
      PROVE  Grows /\ \A v \in Workers : Acts(v) \/ Same(v) \/ pc'[v] = "idle"
  BY <1>1, SomeoneActs
<1>2. ASSUME NEW ws \in SUBSET Workers, Forget(ws), people' = people
      PROVE  Grows /\ \A v \in Workers : Same(v) \/ pc'[v] = "idle"
  BY <1>2 DEF IInv, Functions, Forget, Cleared, Grows, Same
<1>3. ASSUME UNCHANGED <<people, pc, req, results, response, known>>
      PROVE  Grows /\ \A v \in Workers : Same(v)
  BY <1>3 DEF Grows, Same
<1>4. ASSUME NEW w \in Workers, Serve(w)
      PROVE  Acts(w) \/ (Forget({w}) /\ people' = people)
  BY <1>4 DEF Serve, Acts, Rest
<1>5. ASSUME NEW w \in Workers, NEW r \in Requests, Handle(w, r) PROVE Acts(w)
  BY <1>5 DEF Acts
<1>6. ASSUME NEW s \in Servers, Die(s)
      PROVE  \E ws \in SUBSET Workers : Forget(ws) /\ people' = people
  BY <1>6 DEF Die
<1>7. ASSUME (\E s \in Servers : StartServer(s)) \/ RestartDb \/ UNCHANGED vars
      PROVE  UNCHANGED <<people, pc, req, results, response, known>>
  BY <1>7 DEF StartServer, RestartDb, vars
<1> QED
  BY <1>1, <1>2, <1>3, <1>4, <1>5, <1>6, <1>7 DEF Next

-----------------------------------------------------------------------------
(* Counts.                                                                 *)

CountRow(n) == << <<[type |-> "integer", value |-> n]>> >>

Between(w, n) == n \in Cardinality(known[w]) .. Cardinality(Registered)

CountInv(w) ==
  pc[w] # "idle" /\ req[w].op = "count" =>
    /\ pc[w] # "answered" => response[w] = NoResponse
    /\ pc[w] = "answer" => \E n \in Nat : Between(w, n) /\ results[w] = Tuples(CountRow(n))
    /\ pc[w] = "respond" =>
         \/ results[w].entries = <<>>
         \/ \E n \in Nat : Between(w, n) /\ results[w].entries = CountRow(n)
    /\ pc[w] = "answered" /\ response[w].status = 200 => Between(w, response[w].count)

LEMMA RegisteredFinite ==
  ASSUME NEW S \in SUBSET Registered
  PROVE  /\ IsFiniteSet(Registered) /\ IsFiniteSet(S)
         /\ Cardinality(S) \in Nat /\ Cardinality(Registered) \in Nat
         /\ Cardinality(S) <= Cardinality(Registered)
<1>1. Registered \subseteq Ids /\ IsFiniteSet(Ids)
  BY ApiAssumption DEF Registered
<1>2. IsFiniteSet(Registered)
  BY <1>1, FS_Subset
<1> QED
  BY <1>2, FS_Subset, FS_CardinalityType

(* The table does not shrink.                                              *)
LEMMA RegisteredGrows ==
  ASSUME Grows
  PROVE  /\ Cardinality(Registered) \in Nat /\ Cardinality(Registered') \in Nat
         /\ Cardinality(Registered) <= Cardinality(Registered')
<1>1. Registered \subseteq Registered' /\ Registered' \subseteq Ids /\ IsFiniteSet(Ids)
  BY ApiAssumption DEF Grows, Registered
<1>2. IsFiniteSet(Registered')
  BY <1>1, FS_Subset
<1> QED
  BY <1>1, <1>2, FS_Subset, FS_CardinalityType

(* So a number that was between what was told and what there is still is.  *)
LEMMA StillBetween ==
  ASSUME NEW w \in Workers, IInv, Grows, known'[w] = known[w], NEW n, Between(w, n)
  PROVE  Between(w, n)'
<1>1. known[w] \subseteq Registered
  BY DEF IInv, ThreadInv
<1>2. Cardinality(known[w]) \in Nat /\ Cardinality(Registered) \in Nat
  BY <1>1, RegisteredFinite
<1> QED
  BY <1>2, RegisteredGrows DEF Between

(* What a thread that waits for its turn or is reset knows.                *)
LEMMA CountKept ==
  ASSUME IInv, NEW w \in Workers, Grows, Same(w), CountInv(w)
  PROVE  CountInv(w)'
<1>1. \A n : Between(w, n) => Between(w, n)'
  BY StillBetween DEF Same
<1> QED
  BY <1>1 DEF CountInv, Same, Tuples, CountRow, NoResponse

(* Reading the count of an answer: it is the one in the row, or a fault.   *)
LEMMA ReadNoCount ==
  ASSUME NEW r, r.entries = <<>>
  PROVE  ReadInteger(r, 0, 0).type = "fault"
BY DEF ReadInteger, GetEntryChecked, GetEntry, Nothing, Fault

LEMMA ReadCount ==
  ASSUME NEW r, NEW n, r.entries = CountRow(n), ReadInteger(r, 0, 0).type # "fault"
  PROVE  ReadInteger(r, 0, 0).value = n
BY DEF ReadInteger, GetEntryChecked, GetEntry, Nothing, Fault, CountRow

LEMMA CountRowResults ==
  ASSUME NEW n
  PROVE  Results(Tuples(CountRow(n))).entries = CountRow(n)
BY DEF Results, Tuples, ResultCode, ErrorCode

LEMMA CountActs ==
  ASSUME IInv, NEW w \in Workers, Acts(w), Grows, CountInv(w)
  PROVE  CountInv(w)'
<1> USE DEF Functions
<1> SUFFICES ASSUME req'[w].op = "count" PROVE CountInv(w)'
  BY DEF CountInv
<1>1. CASE \E r \in Requests : Handle(w, r)
  <2>1. PICK r \in Requests : Handle(w, r)
    BY <1>1
  <2>2. r.op = "count" /\ pc[w] = "idle" /\ response[w] = NoResponse
    BY <2>1 DEF IInv, ThreadInv, Handle
  <2>3. CallDb(w)
    BY <2>1, <2>2 DEF Handle
  <2> QED
    BY <2>2, <2>3 DEF IInv, CallDb, CountInv, NoResponse
<1> SUFFICES ASSUME pc[w] # "idle", req'[w] = req[w], known'[w] = known[w]
             PROVE  CountInv(w)'
  BY <1>1 DEF Acts, IInv, ThreadInv, Acquire, Refused, Overrun, Execute, Answer, Finish
<1>2. \A n : Between(w, n) => Between(w, n)'
  BY StillBetween
<1>3. CASE Acquire(w) \/ Refused(w) \/ Overrun(w)
  BY <1>3 DEF IInv, Acquire, Refused, Overrun, DieOf, NoConnectionResults, CountInv, NoResponse
<1>4. CASE Execute(w)
  <2>1. pc'[w] = "answer" /\ response'[w] = NoResponse
    BY <1>4 DEF IInv, Execute, CountInv, NoResponse
  <2>2. results'[w] = Tuples(CountRow(Cardinality(Registered))) /\ people' = people
    BY <1>4 DEF IInv, Execute, Count, CountRow
  <2>3. Cardinality(Registered) \in Nat /\ Between(w, Cardinality(Registered))
    <3>1. known[w] \subseteq Registered
      BY DEF IInv, ThreadInv
    <3> QED
      BY <3>1, RegisteredFinite DEF Between
  <2> QED
    BY <1>2, <2>1, <2>2, <2>3 DEF CountInv, Tuples, CountRow, NoResponse
<1>5. CASE Answer(w)
  <2>1. pc'[w] = "respond" /\ response'[w] = NoResponse
    BY <1>5 DEF IInv, Answer, CountInv, NoResponse
  <2>2. CASE results'[w] = Results(Fatal("other"))
    BY <2>1, <2>2, ErrorResults DEF CountInv, NoResponse
  <2>3. CASE pc[w] = "answer" /\ results'[w] = Results(results[w])
    <3>1. PICK n \in Nat : Between(w, n) /\ results[w] = Tuples(CountRow(n))
      BY <2>3 DEF CountInv
    <3> QED
      BY <1>2, <2>1, <2>3, <3>1, CountRowResults DEF CountInv, CountRow, NoResponse
  <2> QED
    BY <1>5, <2>2, <2>3 DEF IInv, Answer
<1>6. CASE Finish(w)
  <2>1. RespondCount(w) /\ pc[w] = "respond" /\ response[w] = NoResponse
    BY <1>6 DEF Finish, RespondSearch, RespondUuid, RespondPost, CountInv
  <2> DEFINE count == ReadInteger(results[w], 0, 0)
  <2>2. CASE Respond(w, [status |-> 500])
    BY <2>1, <2>2 DEF IInv, Respond, Sent, CountInv
  <2>3. CASE DieOf(w)
    BY <2>1, <2>3 DEF IInv, DieOf, CountInv, NoResponse
  <2>4. CASE count.type # "fault" /\ Respond(w, [status |-> 200, count |-> count.value])
    <3>1. PICK n \in Nat : Between(w, n) /\ results[w].entries = CountRow(n)
      BY <2>1, <2>4, ReadNoCount DEF CountInv
    <3>2. count.value = n
      BY <2>4, <3>1, ReadCount
    <3> HIDE DEF count
    <3>3. pc'[w] = "answered" /\ response'[w] = [status |-> 200, count |-> n]
      BY <2>1, <2>4, <3>2 DEF IInv, Respond, Sent
    <3> QED
      BY <1>2, <3>1, <3>3 DEF CountInv
  <2> QED
    BY <2>1, <2>2, <2>3, <2>4 DEF RespondCount
<1> QED
  BY <1>1, <1>3, <1>4, <1>5, <1>6 DEF Acts

LEMMA CountStep ==
  ASSUME IInv, [Next]_vars, \A w \in Workers : CountInv(w)
  PROVE  (\A w \in Workers : CountInv(w))'
<1> SUFFICES ASSUME NEW w \in Workers PROVE CountInv(w)'
  BY DEF Workers
<1>1. CASE pc'[w] = "idle"
  BY <1>1 DEF CountInv
<1> QED
  BY <1>1, StepKinds, CountKept, CountActs

(* With any deaths and restarts, a count that is answered is at least the  *)
(* number of people clients had been told of, at most the number there are *)
(* (CountCovers).                                                          *)
THEOREM CountsCover == Spec => []CountCovers
<1>1. Init => \A w \in Workers : CountInv(w)
  BY DEF Init, CountInv
<1>2. IInv /\ (\A w \in Workers : CountInv(w)) /\ [Next]_vars
        => (\A w \in Workers : CountInv(w))'
  BY CountStep
<1>3. (\A w \in Workers : CountInv(w)) => CountCovers
  BY DEF CountInv, CountCovers, Answered, Between
<1> QED
  BY <1>1, <1>2, <1>3, Invariance, PTL DEF Spec

-----------------------------------------------------------------------------
(* Postgres does not restart and there is a connection for every thread,   *)
(* as docker-compose.yml sets them up: every answer arrives.               *)
Calm == MaxRestarts = 0 /\ Cardinality(Threads) <= NumConns

LinkedInv == linked = Servers /\ restarts = 0

LEMMA LinkedStep ==
  ASSUME Calm, LinkedInv, [Next]_vars
  PROVE  LinkedInv'
<1>1. ~RestartDb
  BY DEF Calm, LinkedInv, RestartDb
<1>2. \A s \in Servers : StartServer(s) => LinkedInv'
  BY DEF LinkedInv, StartServer
<1>3. ASSUME NEW w \in Workers, Serve(w) PROVE UNCHANGED <<linked, restarts>>
  BY <1>3 DEF Serve, Acquire, Refused, Overrun, Execute, Answer, Finish, Rest
<1>4. ASSUME NEW w \in Workers, NEW r \in Requests, Handle(w, r)
      PROVE  UNCHANGED <<linked, restarts>>
  BY <1>4 DEF Handle
<1>5. \A s \in Servers : Die(s) => UNCHANGED <<linked, restarts>>
  BY DEF Die
<1> QED
  BY <1>1, <1>2, <1>3, <1>4, <1>5 DEF Next, LinkedInv, vars

(* What a thread does then.                                                *)
LEMMA CalmActs ==
  ASSUME Calm, LinkedInv, IInv, NEW w \in Workers, Acts(w)
  PROVE  \/ \E r \in Requests : Handle(w, r)
         \/ Acquire(w) \/ Execute(w) \/ Finish(w)
         \/ Answer(w) /\ pc[w] = "answer" /\ results'[w] = Results(results[w])
<1>1. Cardinality(Threads) \in Nat /\ NumConns \in Nat
  BY ApiAssumption, FS_CardinalityType
<1>2. ~Refused(w) /\ ~Overrun(w)
  BY <1>1 DEF Calm, Refused, Overrun
<1>3. w[1] \in linked
  BY DEF LinkedInv, Workers
<1> QED
  BY <1>2, <1>3 DEF Acts, Answer, IInv, Functions

(* Results of rows: the rows, with the code ok.                            *)
LEMMA RowsResults ==
  ASSUME NEW rows
  PROVE  Results(Tuples(rows)) = [code |-> "ok", processed |-> TRUE, entries |-> rows]
<1>1. ResultCode(Tuples(rows)) = "ok"
  BY DEF Tuples, ResultCode, ErrorCode
<1> QED
  BY <1>1 DEF Results, Tuples

-----------------------------------------------------------------------------
(* Requests for people.                                                    *)

(* A select returns the people it is asked for, or Limit of them.          *)
LEMMA SelectionCovers ==
  ASSUME NEW ids, IsFiniteSet(ids), NEW rows \in Selections(ids)
  PROVE  /\ IdsOf(rows) \subseteq ids
         /\ IdsOf(rows) = ids \/ Cardinality(IdsOf(rows)) = Limit
<1> DEFINE n == IF Cardinality(ids) < Limit THEN Cardinality(ids) ELSE Limit
<1>1. n \in Nat /\ Cardinality(ids) \in Nat
  BY FS_CardinalityType, ApiAssumption
<1>2. PICK f \in [1 .. n -> ids] :
        /\ \A a, b \in 1 .. n : f[a] = f[b] => a = b
        /\ rows = [k \in 1 .. n |-> Row(f[k])]
  BY DEF Selections
<1>3. n = Cardinality(ids) \/ n = Limit
  OBVIOUS
<1> HIDE DEF n
<1>4. IdsOf(rows) = {f[k] : k \in 1 .. n}
  BY <1>2 DEF IdsOf, Row
<1>5. f \in Surjection(1 .. n, IdsOf(rows)) /\ f \in Injection(1 .. n, IdsOf(rows))
  BY <1>2, <1>4 DEF Surjection, Injection, IsInjective
<1>6. IsFiniteSet(1 .. n) /\ Cardinality(1 .. n) = n
  BY <1>1, FS_Interval
<1>7. Cardinality(IdsOf(rows)) = n
  BY <1>5, <1>6, FS_Surjection
<1>8. IdsOf(rows) \subseteq ids
  BY <1>2, <1>4
<1> QED
  BY <1>3, <1>7, <1>8, FS_Subset

(* A request for a person a client had been told of, or for everybody.     *)
Asks(w) ==
  \/ req[w].op = "uuid" /\ req[w].id \in known[w]
  \/ req[w].op = "search" /\ req[w].t = "all"

Answers(w, ids) ==
  /\ req[w].op = "uuid" => ids = {req[w].id}
  /\ req[w].op = "search" => known[w] \subseteq ids \/ Cardinality(ids) = Limit

FoundInv(w) ==
  pc[w] # "idle" /\ Asks(w) =>
    /\ pc[w] # "fault"
    /\ pc[w] # "answered" => response[w] = NoResponse
    /\ pc[w] = "answer" => /\ results[w] = Tuples(results[w].rows)
                           /\ Answers(w, IdsOf(results[w].rows))
    /\ pc[w] = "respond" => /\ results[w].code = "ok"
                            /\ Answers(w, IdsOf(results[w].entries))
    /\ pc[w] = "answered" => response[w].status = 200 /\ Answers(w, response[w].ids)

LEMMA SelectAnswers ==
  ASSUME IInv, NEW w \in Workers, pc[w] # "idle", Asks(w), Execute(w)
  PROVE  \E rows : results'[w] = Tuples(rows) /\ Answers(w, IdsOf(rows))
<1>1. known[w] \subseteq Registered /\ IsFiniteSet(Registered)
  BY RegisteredFinite DEF IInv, ThreadInv
<1>2. CASE req[w].op = "search"
  <2>1. PICK rows \in Selections(Registered) : results'[w] = Tuples(rows)
    BY <1>2 DEF IInv, Functions, Execute, Select, Asks
  <2>2. IdsOf(rows) = Registered \/ Cardinality(IdsOf(rows)) = Limit
    BY <1>1, <2>1, SelectionCovers
  <2> QED
    BY <1>1, <1>2, <2>1, <2>2 DEF Answers
<1>3. CASE req[w].op = "uuid"
  <2>1. req[w].id \in Registered /\ req[w].id # "malformed"
    BY <1>1, <1>3, ApiAssumption DEF Asks, Registered
  <2>2. PICK rows \in Selections({req[w].id}) : results'[w] = Tuples(rows)
    <3>1. Select(w, {req[w].id} \cap Registered)
      BY <1>3, <2>1 DEF Execute
    <3>2. {req[w].id} \cap Registered = {req[w].id}
      BY <2>1
    <3> QED
      BY <3>1, <3>2 DEF Select, IInv, Functions
  <2>3. IsFiniteSet({req[w].id}) /\ Cardinality({}) = 0 /\ Limit # 0
    BY FS_Singleton, FS_EmptySet, ApiAssumption
  <2>4. IdsOf(rows) = {req[w].id}
    BY <2>3, <2>2, SelectionCovers
  <2> QED
    BY <1>3, <2>2, <2>4 DEF Answers
<1> QED
  BY <1>2, <1>3 DEF Asks

LEMMA FoundActs ==
  ASSUME Calm, LinkedInv, IInv, NEW w \in Workers, Acts(w), FoundInv(w)
  PROVE  FoundInv(w)'
<1> USE DEF Functions
<1>1. CASE \E r \in Requests : Handle(w, r)
  <2>1. PICK r \in Requests : Handle(w, r)
    BY <1>1
  <2>2. pc[w] = "idle" /\ response[w] = NoResponse /\ req'[w] = r
    BY <2>1 DEF IInv, ThreadInv, Handle
  <2> SUFFICES ASSUME r.op = "uuid" \/ (r.op = "search" /\ r.t = "all") PROVE FoundInv(w)'
    BY <2>2 DEF FoundInv, Asks
  <2>3. pc'[w] = "call" /\ response'[w] = NoResponse
    BY <2>1, <2>2 DEF Handle, CallDb, BeginSearch, IInv
  <2> QED
    BY <2>3 DEF FoundInv, NoResponse
<1> SUFFICES ASSUME pc[w] # "idle", req'[w] = req[w], known'[w] = known[w], Asks(w)
             PROVE  FoundInv(w)'
  <2>1. CASE Acquire(w) \/ Execute(w) \/ Answer(w) \/ Finish(w)
    <3>1. pc[w] # "idle" /\ req'[w] = req[w] /\ known'[w] = known[w]
      BY <2>1 DEF IInv, Acquire, Execute, Answer, Finish
    <3>2. Asks(w)' = Asks(w)
      BY <3>1 DEF Asks
    <3> QED
      BY <3>1, <3>2 DEF FoundInv
  <2> QED
    BY <1>1, <2>1, CalmActs
<1>2. CASE Acquire(w)
  BY <1>2 DEF IInv, Acquire, FoundInv, NoResponse
<1>3. CASE Execute(w)
  <2>1. pc'[w] = "answer" /\ response'[w] = NoResponse
    BY <1>3 DEF IInv, Execute, FoundInv, NoResponse
  <2>2. PICK rows : results'[w] = Tuples(rows) /\ Answers(w, IdsOf(rows))
    BY <1>3, SelectAnswers
  <2>3. Tuples(rows).rows = rows
    BY DEF Tuples
  <2>4. results'[w] = Tuples(rows) /\ results'[w].rows = rows
    BY <2>2, <2>3
  <2>5. (results[w] = Tuples(results[w].rows))'
    BY <2>4 DEF Tuples
  <2>6. Answers(w, IdsOf(results[w].rows))'
    <3>1. IdsOf(results[w].rows)' = IdsOf(rows)
      BY <2>4 DEF IdsOf
    <3> QED
      BY <2>2, <3>1 DEF Answers
  <2> QED
    BY <2>1, <2>5, <2>6 DEF FoundInv, NoResponse
<1>4. CASE Answer(w) /\ pc[w] = "answer" /\ results'[w] = Results(results[w])
  <2>1. pc'[w] = "respond" /\ response'[w] = NoResponse
    BY <1>4 DEF IInv, Answer, FoundInv, NoResponse
  <2>2. /\ results[w] = Tuples(results[w].rows)
        /\ Answers(w, IdsOf(results[w].rows))
    BY <1>4 DEF FoundInv
  <2>3. results'[w].code = "ok" /\ results'[w].entries = results[w].rows
    BY <1>4, <2>2, RowsResults
  <2> QED
    BY <2>1, <2>2, <2>3 DEF FoundInv, Answers, IdsOf, NoResponse
<1>5. CASE Finish(w)
  <2>1. /\ pc[w] = "respond" /\ response[w] = NoResponse /\ results[w].code = "ok"
        /\ Answers(w, IdsOf(results[w].entries))
    BY <1>5 DEF Finish, FoundInv
  <2> DEFINE ids == IdsOf(results[w].entries)
  <2>2. Respond(w, [status |-> 200, ids |-> ids])
    <3>1. CASE req[w].op = "search"
      BY <1>5, <2>1, <3>1 DEF Finish, RespondCount, RespondSearch, RespondUuid, RespondPost
    <3>2. CASE req[w].op = "uuid"
      <4>1. results[w].entries # <<>>
        <5>1. IdsOf(<<>>) = {}
          BY DEF IdsOf
        <5> QED
          BY <2>1, <3>2, <5>1 DEF Answers
      <4> QED
        BY <1>5, <2>1, <3>2, <4>1
           DEF Finish, RespondCount, RespondSearch, RespondUuid, RespondPost
    <3> QED
      BY <3>1, <3>2 DEF Asks
  <2> HIDE DEF ids
  <2>3. pc'[w] = "answered" /\ response'[w] = [status |-> 200, ids |-> ids]
    BY <2>1, <2>2 DEF IInv, Respond, Sent
  <2>4. Answers(w, ids)
    BY <2>1 DEF ids
  <2> QED
    BY <2>3, <2>4 DEF FoundInv, Answers
<1> QED
  BY <1>1, <1>2, <1>3, <1>4, <1>5, CalmActs

LEMMA FoundStep ==
  ASSUME Calm, LinkedInv, IInv, [Next]_vars, \A w \in Workers : FoundInv(w)
  PROVE  (\A w \in Workers : FoundInv(w))'
<1> SUFFICES ASSUME NEW w \in Workers PROVE FoundInv(w)'
  BY DEF Workers
<1>1. CASE Acts(w)
  BY <1>1, FoundActs
<1>2. CASE Same(w)
  <2>1. /\ IdsOf(results[w].rows)' = IdsOf(results[w].rows)
        /\ IdsOf(results[w].entries)' = IdsOf(results[w].entries)
    BY <1>2 DEF Same, IdsOf
  <2>2. Asks(w)' = Asks(w)
    BY <1>2 DEF Same, Asks
  <2> SUFFICES ASSUME pc[w] # "idle", Asks(w), FoundInv(w) PROVE FoundInv(w)'
    BY <1>2, <2>2 DEF Same, FoundInv
  <2>3. pc'[w] = pc[w] /\ response'[w] = response[w] /\ results'[w] = results[w]
    BY <1>2 DEF Same
  <2>4. pc[w] = "answer" => /\ (results[w] = Tuples(results[w].rows))'
                            /\ Answers(w, IdsOf(results[w].rows))'
    BY <1>2, <2>1, <2>3 DEF Same, FoundInv, Answers, Tuples
  <2>5. pc[w] = "respond" => /\ results'[w].code = "ok"
                             /\ Answers(w, IdsOf(results[w].entries))'
    BY <1>2, <2>1, <2>3 DEF Same, FoundInv, Answers
  <2>6. pc[w] = "answered" => response'[w].status = 200 /\ Answers(w, response[w].ids)'
    BY <1>2, <2>3 DEF Same, FoundInv, Answers
  <2>7. pc[w] # "fault" /\ (pc[w] # "answered" => response'[w] = NoResponse)
    BY <2>3 DEF FoundInv
  <2> QED
    BY <2>3, <2>4, <2>5, <2>6, <2>7 DEF FoundInv, NoResponse
<1>3. CASE pc'[w] = "idle"
  BY <1>3 DEF FoundInv
<1> QED
  BY <1>1, <1>2, <1>3, StepKinds

LEMMA FoundInvariance ==
  ASSUME Calm
  PROVE  Spec => [](LinkedInv /\ \A w \in Workers : FoundInv(w))
<1>1. Init => LinkedInv /\ \A w \in Workers : FoundInv(w)
  BY DEF Init, LinkedInv, FoundInv
<1>2. /\ IInv /\ LinkedInv /\ (\A w \in Workers : FoundInv(w)) /\ [Next]_vars
      => LinkedInv' /\ (\A w \in Workers : FoundInv(w))'
  BY FoundStep, LinkedStep
<1> QED
  BY <1>1, <1>2, Invariance, PTL DEF Spec

(* A request for a person some server said it created finds the person, on *)
(* any server (CreatedIsFound).                                            *)
THEOREM CreatedFound ==
  ASSUME Calm
  PROVE  Spec => []CreatedIsFound
<1>1. (\A w \in Workers : FoundInv(w)) => CreatedIsFound
  BY DEF FoundInv, Asks, Answers, CreatedIsFound, Answered
<1> QED
  BY <1>1, FoundInvariance, PTL

(* A search for everybody returns everybody a client was told of before,   *)
(* up to the limit (SearchCovers).                                         *)
THEOREM SearchesCover ==
  ASSUME Calm
  PROVE  Spec => []SearchCovers
<1>1. (\A w \in Workers : FoundInv(w)) => SearchCovers
  BY DEF FoundInv, Asks, Answers, SearchCovers, Answered
<1> QED
  BY <1>1, FoundInvariance, PTL

-----------------------------------------------------------------------------
(* Faults.                                                                 *)

(* Posts whose fields are text, or missing, and whose stack can be stored. *)
WellFormed ==
  \A r \in Requests : r.op = "post" =>
    CheckPost(r) = "invalid" \/ (CheckPost(r) = "insert" /\ r.stack # "unstorable")

(* There is an entry where the handler reads one.                          *)
FineInv(w) ==
  /\ pc[w] # "fault"
  /\ pc[w] # "idle" /\ req[w].op = "post" =>
       /\ pc[w] \in {"call", "query"} => req[w].stack # "unstorable"
       /\ pc[w] = "answer" => \/ results[w] = Fatal("violates unique constraint")
                              \/ \E id \in Ids : results[w] = Tuples(IdRow(id))
       /\ pc[w] = "respond" => \/ results[w].code # "ok"
                               \/ ReadString(results[w], 0, 0).type # "fault"
  /\ pc[w] # "idle" /\ req[w].op = "count" =>
       /\ pc[w] = "respond" => ReadInteger(results[w], 0, 0).type # "fault"

LEMMA ReadOfRow ==
  ASSUME NEW id
  PROVE  ReadString(Results(Tuples(IdRow(id))), 0, 0).type # "fault"
<1>1. /\ Results(Tuples(IdRow(id))).processed = TRUE
      /\ Results(Tuples(IdRow(id))).entries = IdRow(id)
  BY RowsResults
<1>2. GetEntry(Results(Tuples(IdRow(id))), 0, 0) = [type |-> "string", value |-> id]
  BY <1>1 DEF GetEntry, IdRow
<1> QED
  BY <1>2 DEF ReadString, GetEntryChecked

LEMMA ReadOfCount ==
  ASSUME NEW n
  PROVE  ReadInteger(Results(Tuples(CountRow(n))), 0, 0).type # "fault"
<1>1. /\ Results(Tuples(CountRow(n))).processed = TRUE
      /\ Results(Tuples(CountRow(n))).entries = CountRow(n)
  BY RowsResults
<1>2. GetEntry(Results(Tuples(CountRow(n))), 0, 0) = [type |-> "integer", value |-> n]
  BY <1>1 DEF GetEntry, CountRow
<1> QED
  BY <1>2 DEF ReadInteger, GetEntryChecked

LEMMA FineActs ==
  ASSUME Calm, WellFormed, LinkedInv, IInv, NEW w \in Workers, Acts(w), CountInv(w), FineInv(w)
  PROVE  FineInv(w)'
<1> USE DEF Functions
<1>1. CASE \E r \in Requests : Handle(w, r)
  <2>1. PICK r \in Requests : Handle(w, r)
    BY <1>1
  <2>2. req'[w] = r
    BY <2>1 DEF IInv, Handle
  <2>3. CASE r.op = "post"
    <3>1. \/ AnswerAtOnce(w, 422)
          \/ CallDb(w) /\ r.stack # "unstorable"
      BY <2>1, <2>3 DEF WellFormed, Handle, BeginPost
    <3> QED
      BY <2>2, <2>3, <3>1 DEF IInv, AnswerAtOnce, CallDb, FineInv
  <2>4. CASE r.op # "post"
    <3>1. pc'[w] \in {"call", "answered"}
      BY <2>1, <2>4 DEF IInv, Handle, AnswerAtOnce, CallDb, BeginSearch
    <3> QED
      BY <2>2, <2>4, <3>1 DEF FineInv
  <2> QED
    BY <2>3, <2>4
<1>2. CASE Acquire(w)
  BY <1>2 DEF IInv, Acquire, FineInv
<1>3. CASE Execute(w)
  <2>1. pc[w] = "query" /\ pc'[w] = "answer" /\ req'[w] = req[w]
    BY <1>3 DEF IInv, Execute
  <2>2. CASE req[w].op = "post"
    <3>1. Insert(w) /\ req[w].stack # "unstorable"
      BY <1>3, <2>1, <2>2 DEF Execute, FineInv
    <3>2. \/ results'[w] = Fatal("violates unique constraint")
          \/ \E id \in Ids : results'[w] = Tuples(IdRow(id))
      BY <3>1 DEF IInv, Insert, IdRow
    <3> QED
      BY <2>1, <2>2, <3>2 DEF FineInv, Fatal, Tuples, IdRow
  <2> QED
    BY <2>1, <2>2 DEF FineInv
<1>4. CASE Answer(w) /\ pc[w] = "answer" /\ results'[w] = Results(results[w])
  <2>1. pc'[w] = "respond" /\ req'[w] = req[w]
    BY <1>4 DEF IInv, Answer
  <2>2. CASE req[w].op = "post"
    <3>1. CASE results[w] = Fatal("violates unique constraint")
      <4>1. ResultCode(Fatal("violates unique constraint")) = "unique_constrain_violation"
        BY DEF ResultCode, ErrorCode, Fatal
      <4>2. Results(Fatal("violates unique constraint")).code = "unique_constrain_violation"
        BY <4>1 DEF Results
      <4>3. results'[w].code # "ok"
        BY <1>4, <3>1, <4>2
      <4> QED
        BY <2>1, <2>2, <4>3 DEF FineInv
    <3>2. CASE \E id \in Ids : results[w] = Tuples(IdRow(id))
      <4>1. ReadString(results'[w], 0, 0).type # "fault"
        BY <1>4, <3>2, ReadOfRow
      <4>2. (ReadString(results[w], 0, 0).type # "fault")'
        BY <4>1 DEF ReadString, GetEntryChecked, GetEntry, Nothing, Fault
      <4> QED
        BY <2>1, <2>2, <4>2 DEF FineInv
    <3> QED
      BY <1>4, <2>2, <3>1, <3>2 DEF FineInv
  <2>3. CASE req[w].op = "count"
    <3>1. PICK n \in Nat : results[w] = Tuples(CountRow(n))
      BY <1>4, <2>3 DEF CountInv
    <3>2. ReadInteger(results'[w], 0, 0).type # "fault"
      BY <1>4, <3>1, ReadOfCount
    <3>3. (ReadInteger(results[w], 0, 0).type # "fault")'
      BY <3>2 DEF ReadInteger, GetEntryChecked, GetEntry, Nothing, Fault
    <3> QED
      BY <2>1, <2>3, <3>3 DEF FineInv
  <2> QED
    BY <2>1, <2>2, <2>3 DEF FineInv
<1>5. CASE Finish(w)
  <2>1. pc[w] = "respond" /\ req'[w] = req[w]
    BY <1>5 DEF Finish
  <2>2. \E answer : Respond(w, answer)
    BY <1>5, <2>1 DEF Finish, FineInv, RespondCount, RespondSearch, RespondUuid, RespondPost
  <2>3. pc'[w] = "answered"
    BY <2>2 DEF IInv, Respond
  <2> QED
    BY <2>3 DEF FineInv
<1> QED
  BY <1>1, <1>2, <1>3, <1>4, <1>5, CalmActs

LEMMA FineStep ==
  ASSUME Calm, WellFormed, LinkedInv, IInv, [Next]_vars,
         \A w \in Workers : CountInv(w) /\ FineInv(w)
  PROVE  (\A w \in Workers : FineInv(w))'
<1> SUFFICES ASSUME NEW w \in Workers PROVE FineInv(w)'
  BY DEF Workers
<1>1. CASE Acts(w)
  BY <1>1, FineActs
<1>2. CASE Same(w)
  <2>1. /\ pc'[w] = pc[w] /\ req'[w] = req[w] /\ results'[w] = results[w]
        /\ FineInv(w)
    BY <1>2 DEF Same
  <2>2. /\ ReadString(results[w], 0, 0)' = ReadString(results[w], 0, 0)
        /\ ReadInteger(results[w], 0, 0)' = ReadInteger(results[w], 0, 0)
    BY <2>1 DEF ReadString, ReadInteger, GetEntryChecked, GetEntry, Nothing, Fault
  <2> QED
    BY <2>1, <2>2 DEF FineInv, Fatal, Tuples, IdRow
<1>3. CASE pc'[w] = "idle"
  BY <1>3 DEF FineInv
<1> QED
  BY <1>1, <1>2, <1>3, StepKinds

(* With well-formed posts no handler reads an entry that is not there      *)
(* (NoFault).                                                              *)
THEOREM NobodyFaults ==
  ASSUME Calm, WellFormed
  PROVE  Spec => []NoFault
<1>1. Init => LinkedInv /\ \A w \in Workers : CountInv(w) /\ FineInv(w)
  BY DEF Init, LinkedInv, CountInv, FineInv
<1>2. /\ IInv /\ LinkedInv /\ (\A w \in Workers : CountInv(w) /\ FineInv(w)) /\ [Next]_vars
      => LinkedInv' /\ (\A w \in Workers : CountInv(w) /\ FineInv(w))'
  BY CountStep, FineStep, LinkedStep
<1>3. (\A w \in Workers : CountInv(w) /\ FineInv(w)) => NoFault
  BY DEF FineInv, NoFault
<1> QED
  BY <1>1, <1>2, <1>3, Invariance, PTL DEF Spec

-----------------------------------------------------------------------------
(* Types.                                                                  *)

LEMMA ActsTypes ==
  ASSUME TypeOK, IInv', NEW w \in Workers, Acts(w)
  PROVE  TypeOK'
<1>1. people' \in [Ids -> Nicknames \cup {Nobody}] /\ told' \subseteq Ids
  BY DEF IInv, TableInv, Registered
<1>2. CASE \E r \in Requests : Handle(w, r)
  <2>1. PICK r \in Requests : Handle(w, r)
    BY <1>2
  <2>2. /\ \E p \in {"answered", "call", "fault"} : pc' = [pc EXCEPT ![w] = p]
        /\ DOMAIN response' = Workers
    BY <2>1 DEF TypeOK, Handle, BeginSearch, BeginPost, AnswerAtOnce, CallDb, DieOf
  <2> QED
    BY <1>1, <2>1, <2>2 DEF TypeOK, Handle
<1>3. CASE Acquire(w) \/ Refused(w) \/ Overrun(w) \/ Answer(w)
  BY <1>1, <1>3 DEF TypeOK, Acquire, Refused, Overrun, Answer, DieOf
<1>4. CASE Execute(w)
  <2>1. DOMAIN results' = Workers
    BY <1>4 DEF TypeOK, Execute, Insert, Count, Select, RefuseId
  <2> QED
    BY <1>1, <1>4, <2>1 DEF TypeOK, Execute
<1>5. CASE Finish(w)
  <2>1. /\ \E p \in {"answered", "fault"} : pc' = [pc EXCEPT ![w] = p]
        /\ DOMAIN response' = Workers
    BY <1>5 DEF TypeOK, Finish, RespondCount, RespondSearch, RespondUuid, RespondPost,
                Respond, DieOf
  <2> QED
    BY <1>1, <1>5, <2>1 DEF TypeOK, Finish
<1> QED
  BY <1>2, <1>3, <1>4, <1>5 DEF Acts

LEMMA ForgetTypes ==
  ASSUME NEW ws, Forget(ws), TypeOK
  PROVE  /\ pc' \in [Workers -> {"idle", "call", "query", "answer", "respond", "answered",
                                 "fault"}]
         /\ req' \in [Workers -> Requests \cup {Nobody}]
         /\ DOMAIN results' = Workers
         /\ DOMAIN response' = Workers
         /\ known' \in [Workers -> SUBSET Ids]
BY DEF Forget, Cleared, TypeOK

LEMMA TypeStep ==
  ASSUME TypeOK, IInv', [Next]_vars
  PROVE  TypeOK'
<1>1. ASSUME NEW w \in Workers, Serve(w) PROVE TypeOK'
  <2>1. CASE Rest(w)
    BY <2>1, ForgetTypes DEF Rest, TypeOK
  <2> QED
    BY <1>1, <2>1, ActsTypes DEF Serve, Acts
<1>2. ASSUME NEW w \in Workers, NEW r \in Requests, Handle(w, r) PROVE TypeOK'
  BY <1>2, ActsTypes DEF Acts
<1>3. ASSUME NEW s \in Servers, Die(s) PROVE TypeOK'
  BY <1>3, ForgetTypes DEF Die, TypeOK
<1>4. ASSUME NEW s \in Servers, StartServer(s) PROVE TypeOK'
  BY <1>4 DEF StartServer, TypeOK
<1>5. CASE RestartDb
  <2>1. MaxRestarts \in Nat
    BY ApiAssumption
  <2>2. restarts \in 0 .. MaxRestarts /\ restarts < MaxRestarts /\ restarts' = restarts + 1
    BY <1>5 DEF RestartDb, TypeOK
  <2>3. restarts' \in 0 .. MaxRestarts
    BY <2>1, <2>2
  <2> QED
    BY <1>5, <2>3 DEF RestartDb, TypeOK
<1>6. CASE UNCHANGED vars
  BY <1>6 DEF TypeOK, vars
<1> QED
  BY <1>1, <1>2, <1>3, <1>4, <1>5, <1>6 DEF Next

(* The variables have their types (TypeOK): an id that is told is one of   *)
(* the table, never what a read of no entry gives.                         *)
THEOREM ApiTypes == Spec => []TypeOK
<1>1. Init => TypeOK
  <2>1. MaxRestarts \in Nat
    BY ApiAssumption
  <2>2. 0 \in 0 .. MaxRestarts
    BY <2>1
  <2> QED
    BY <2>2 DEF Init, TypeOK
<1>2. IInv' /\ TypeOK /\ [Next]_vars => TypeOK'
  BY TypeStep
<1> QED
  BY <1>1, <1>2, Invariance, PTL DEF Spec
=============================================================================
