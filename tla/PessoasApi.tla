----------------------------- MODULE PessoasApi -----------------------------
(***************************************************************************)
(* The service: the api servers behind nginx, the request handlers of      *)
(* main.c that their threads run, and the table they share in Postgres.    *)
(*                                                                         *)
(* A handler runs alone up to its call of db_exec, so what it checks of    *)
(* the request is one step (Handle), and so are the choice of a connection *)
(* (Acquire, Refused: the service of PoolService, which ConnPool           *)
(* implements), the statement in Postgres (Execute), the return of its     *)
(* answer (Answer) and the rest of the handler (Respond).                  *)
(*                                                                         *)
(* Failures: a server process dies of its own fault, docker starts it      *)
(* again ("restart: always"); Postgres restarts, which breaks every        *)
(* connection, and a server keeps the ones it has as long as it runs.      *)
(***************************************************************************)
EXTENDS QueryResults, FiniteSets

CONSTANTS
  Servers,      \* the api servers (api1, api2)
  Threads,      \* the threads of each server
  NumConns,     \* the connections of each server
  Nicknames,    \* the values of apelido
  Ids,          \* the values gen_random_uuid returns
  Requests,     \* the requests that clients send (a subset of AllRequests)
  Limit,        \* the limit on_get_search passes
  MaxRestarts,  \* bound: how often Postgres restarts
  Nobody        \* no nickname; no response

(* What a body can hold: text is a nickname or text that is too long; a    *)
(* value that is no text (an array, an object) has no C string.  A field   *)
(* that is absent or null reads as the text "null".                        *)
Posts ==
  [op : {"post"},
   apelido : Nicknames \cup {"long", "not text"},
   nome : {"short", "long", "not text"},
   nascimento : {"date", "no date", "not text"},
   stack : {"none", "storable", "unstorable", "long", "not text"}]

(* "unstorable" stack elements make a text that is no array literal.       *)
AllRequests ==
  Posts \cup [op : {"count", "other path", "other method", "no body", "uuid of nothing"}]
        \cup [op : {"uuid"}, id : Ids \cup {"malformed"}]
        \cup [op : {"search"}, t : {"all", "none", "absent"}]

ASSUME ApiAssumption ==
  /\ Requests \subseteq AllRequests
  /\ IsFiniteSet(Servers) /\ IsFiniteSet(Threads) /\ IsFiniteSet(Ids)
  /\ NumConns \in Nat \ {0}
  /\ Limit \in Nat \ {0}
  /\ MaxRestarts \in Nat
  /\ Nobody \notin Nicknames \cup Ids
  /\ Nicknames \cap {"long", "not text"} = {}
  /\ "malformed" \notin Ids

VARIABLES
  people,    \* the table: the nickname of every id, or Nobody
  told,      \* the ids that a 201 response told a client
  up,        \* the servers whose process runs
  linked,    \* the servers whose connections lead to the running Postgres
  restarts,  \* how often Postgres restarted
  pc,        \* where each thread of each server is
  req,       \* the request it handles
  results,   \* the answer of Postgres, then db_exec's results
  response,  \* what its handler sent
  known      \* the ids a client had been told when it sent the request

vars == <<people, told, up, linked, restarts, pc, req, results, response, known>>

Workers == Servers \X Threads

NoResponse == [status |-> 0]

Init ==
  /\ people = [id \in Ids |-> Nobody]
  /\ told = {}
  /\ up = Servers
  /\ linked = Servers
  /\ restarts = 0
  /\ pc = [w \in Workers |-> "idle"]
  /\ req = [w \in Workers |-> Nobody]
  /\ results = [w \in Workers |-> Nobody]
  /\ response = [w \in Workers |-> NoResponse]
  /\ known = [w \in Workers |-> {}]

Registered == {id \in Ids : people[id] # Nobody}

(* Bound: there is a fresh id for every insert that may still commit.      *)
MayInsert ==
  Cardinality(Registered) + Cardinality({w \in Workers : pc[w] \in {"call", "query"}
                                                         /\ req[w].op = "post"})
    < Cardinality(Ids)

(* The last response would win.                                            *)
Sent_LastWinsBug(w, r) == r

(* http_send_body and http_send_error: the first call sends the response   *)
(* and invalidates the handle, the next ones return at once.               *)
Sent(w, r) == IF response[w] = NoResponse THEN r ELSE response[w]

(* on_post up to pessoas_insert: what it answers, or "insert" when it gets *)
(* there.  "fault" is strlen of a NULL string.                             *)
CheckPost(body) ==
  CASE body.apelido = "not text" -> "fault"
    [] body.apelido = "long" -> "invalid"
    [] body.nome = "not text" -> "fault"
    [] body.nome = "long" -> "invalid"
    [] body.nascimento = "not text" -> "fault"
    [] body.nascimento = "no date" -> "invalid"
    [] body.stack = "not text" -> "fault"
    [] body.stack = "long" -> "invalid key freed"
    [] OTHER -> "insert"

(* A handler answers without asking the database.                          *)
AnswerAtOnce(w, status) ==
  /\ response' = [response EXCEPT ![w] = [status |-> status]]
  /\ pc' = [pc EXCEPT ![w] = "answered"]

CallDb(w) == pc' = [pc EXCEPT ![w] = "call"] /\ UNCHANGED response

DieOf(w) == pc' = [pc EXCEPT ![w] = "fault"] /\ UNCHANGED response

(* Without t the answer is sent, and on_get_search goes on.                *)
BeginSearch(w, t) ==
  /\ response' = [response EXCEPT ![w] = IF t = "absent" THEN [status |-> 400] ELSE @]
  /\ pc' = [pc EXCEPT ![w] = "call"]

BeginPost(w, body) ==
  \/ CheckPost(body) = "insert" /\ MayInsert /\ CallDb(w)
  \/ CheckPost(body) \in {"invalid", "invalid key freed"} /\ AnswerAtOnce(w, 422)
  \/ CheckPost(body) = "fault" /\ DieOf(w)
  \* key, which was freed, is freed again: that may damage the heap
  \/ CheckPost(body) = "invalid key freed" /\ DieOf(w)

(* on_request and the handler it calls, up to db_exec.                     *)
Handle(w, r) ==
  /\ w[1] \in up
  /\ pc[w] = "idle"
  /\ \/ r.op = "other method" /\ AnswerAtOnce(w, 405)
     \/ r.op \in {"other path", "uuid of nothing", "no body"} /\ AnswerAtOnce(w, 400)
     \/ r.op \in {"count", "uuid"} /\ CallDb(w)
     \/ r.op = "search" /\ BeginSearch(w, r.t)
     \/ r.op = "post" /\ BeginPost(w, r)
  /\ req' = [req EXCEPT ![w] = r]
  /\ known' = [known EXCEPT ![w] = told]
  /\ UNCHANGED <<people, told, up, linked, restarts, results>>

(* db_exec gets a connection of its server that no other thread uses.      *)
Acquire(w) ==
  /\ w[1] \in up
  /\ pc[w] = "call"
  /\ Cardinality({v \in Workers : v[1] = w[1] /\ pc[v] \in {"query", "answer"}}) < NumConns
  /\ pc' = [pc EXCEPT ![w] = "query"]
  /\ UNCHANGED <<people, told, up, linked, restarts, req, results, response, known>>

(* db_exec gets none: this happens only to a server that has more threads  *)
(* than connections (ConnPool!ImplementsServing).                          *)
Refused(w) ==
  /\ w[1] \in up
  /\ pc[w] = "call"
  /\ Cardinality(Threads) > NumConns
  /\ results' = [results EXCEPT ![w] = NoConnectionResults]
  /\ pc' = [pc EXCEPT ![w] = "respond"]
  /\ UNCHANGED <<people, told, up, linked, restarts, req, response, known>>

(* db_exec gets a word from behind the array, which is no connection: this *)
(* too happens only to a server with more threads than connections         *)
(* (ConnPool!InBounds).                                                    *)
Overrun(w) ==
  /\ w[1] \in up
  /\ pc[w] = "call"
  /\ Cardinality(Threads) > NumConns
  /\ DieOf(w)
  /\ UNCHANGED <<people, told, up, linked, restarts, req, results, known>>

(* Answers of Postgres.                                                    *)
Tuples(rows) == [status |-> "PGRES_TUPLES_OK", message |-> "", rows |-> rows]
Fatal(message) == [status |-> "PGRES_FATAL_ERROR", message |-> message, rows |-> <<>>]

Row(id) == <<[type |-> "string", value |-> id], [type |-> "string", value |-> people[id]]>>

(* The rows a select of some ids may return: in any order, Limit at most.  *)
Selections(ids) ==
  LET n == IF Cardinality(ids) < Limit THEN Cardinality(ids) ELSE Limit
  IN  {[k \in 1 .. n |-> Row(pick[k])] :
         pick \in {f \in [1 .. n -> ids] : \A a, b \in 1 .. n : f[a] = f[b] => a = b}}

(* Uniqueness is not enforced.                                             *)
Insert_NoUniqueBug(w) ==
  IF req[w].stack = "unstorable"
  THEN results' = [results EXCEPT ![w] = Fatal("other")] /\ UNCHANGED people
  ELSE \E id \in Ids \ Registered :
         /\ people' = [people EXCEPT ![id] = req[w].apelido]
         /\ results' = [results EXCEPT ![w] =
                          Tuples(<< <<[type |-> "string", value |-> id]>> >>)]

(* insert into pessoas ... returning id.  The literal of the array is read *)
(* before the row is inserted.                                             *)
Insert(w) ==
  \/ /\ req[w].stack = "unstorable"
     /\ results' = [results EXCEPT ![w] = Fatal("other")]
     /\ UNCHANGED people
  \/ /\ req[w].stack # "unstorable"
     /\ \E id \in Ids : people[id] = req[w].apelido
     /\ results' = [results EXCEPT ![w] = Fatal("violates unique constraint")]
     /\ UNCHANGED people
  \/ /\ req[w].stack # "unstorable"
     /\ \A id \in Ids : people[id] # req[w].apelido
     /\ \E id \in Ids \ Registered :
          /\ people' = [people EXCEPT ![id] = req[w].apelido]
          /\ results' = [results EXCEPT ![w] =
                           Tuples(<< <<[type |-> "string", value |-> id]>> >>)]

Select(w, ids) ==
  /\ \E rows \in Selections(ids) : results' = [results EXCEPT ![w] = Tuples(rows)]
  /\ UNCHANGED people

Count(w) ==
  /\ results' = [results EXCEPT ![w] =
                   Tuples(<< <<[type |-> "integer", value |-> Cardinality(Registered)]>> >>)]
  /\ UNCHANGED people

RefuseId(w) ==
  /\ results' = [results EXCEPT ![w] = Fatal("invalid input syntax")]
  /\ UNCHANGED people

(* Postgres executes the statement and commits.                            *)
Execute(w) ==
  /\ w[1] \in up
  /\ w[1] \in linked
  /\ pc[w] = "query"
  /\ \/ req[w].op = "count" /\ Count(w)
     \/ req[w].op = "search" /\ Select(w, IF req[w].t = "all" THEN Registered ELSE {})
     \/ req[w].op = "uuid" /\ req[w].id = "malformed" /\ RefuseId(w)
     \/ req[w].op = "uuid" /\ req[w].id # "malformed" /\ Select(w, {req[w].id} \cap Registered)
     \/ req[w].op = "post" /\ Insert(w)
  /\ pc' = [pc EXCEPT ![w] = "answer"]
  /\ UNCHANGED <<told, up, linked, restarts, req, response, known>>

(* PQexec returns: with the answer, or, on a broken connection, with the   *)
(* error of the connection.                                                *)
Answer(w) ==
  /\ w[1] \in up
  /\ \/ /\ pc[w] = "answer"
        /\ results' = [results EXCEPT ![w] = Results(@)]
     \/ /\ pc[w] \in {"query", "answer"}
        /\ w[1] \notin linked
        /\ results' = [results EXCEPT ![w] = Results(Fatal("other"))]
  /\ pc' = [pc EXCEPT ![w] = "respond"]
  /\ UNCHANGED <<people, told, up, linked, restarts, req, response, known>>

(* The handler answers and returns to facil.io.                            *)
Respond(w, r) ==
  /\ response' = [response EXCEPT ![w] = Sent(w, r)]
  /\ pc' = [pc EXCEPT ![w] = "answered"]

(* The number of rows of the answer instead of the number in its row.      *)
RespondCount_RowsBug(w) ==
  /\ req[w].op = "count"
  /\ UNCHANGED told
  /\ Respond(w, [status |-> 200, count |-> Len(results[w].entries)])

(* on_get_count; the entry is read only when there is one to read.         *)
RespondCount(w) ==
  /\ req[w].op = "count"
  /\ UNCHANGED told
  /\ LET count == ReadInteger(results[w], 0, 0)
     IN  \/ results[w].code # "ok" /\ Respond(w, [status |-> 500])
         \/ results[w].code = "ok" /\ count.type = "fault" /\ DieOf(w)
         \/ /\ results[w].code = "ok" /\ count.type # "fault"
            /\ Respond(w, [status |-> 200, count |-> count.value])

IdsOf(rows) == {rows[k][1].value : k \in DOMAIN rows}

(* The check of entries_count is off by one.                               *)
RespondSearch_OffByOneBug(w) ==
  /\ req[w].op = "search"
  /\ UNCHANGED told
  /\ Respond(w, [status |-> 200,
                 ids |-> IF Len(results[w].entries) <= 1 THEN {}
                         ELSE IdsOf(results[w].entries)])

(* on_get_search: no entries is an empty list, before the code is looked   *)
(* at.                                                                     *)
RespondSearch(w) ==
  /\ req[w].op = "search"
  /\ UNCHANGED told
  /\ Respond(w, IF results[w].entries = <<>> \/ results[w].code = "ok"
                THEN [status |-> 200, ids |-> IdsOf(results[w].entries)]
                ELSE [status |-> 500])

(* The check of entries_count is off by one.                               *)
RespondUuid_OffByOneBug(w) ==
  /\ req[w].op = "uuid"
  /\ UNCHANGED told
  /\ Respond(w, IF Len(results[w].entries) <= 1 THEN [status |-> 400]
                ELSE [status |-> 200, ids |-> IdsOf(results[w].entries)])

(* The handler returns without an answer when there are no entries.        *)
RespondUuid_SilentBug(w) ==
  /\ req[w].op = "uuid"
  /\ UNCHANGED told
  /\ Respond(w, IF results[w].entries = <<>> THEN NoResponse
                ELSE [status |-> 200, ids |-> IdsOf(results[w].entries)])

(* on_get_uuid: no entries is a bad request, before the code is looked at. *)
RespondUuid(w) ==
  /\ req[w].op = "uuid"
  /\ UNCHANGED told
  /\ Respond(w, CASE results[w].entries = <<>> -> [status |-> 400]
                  [] results[w].entries # <<>> /\ results[w].code = "invalid_type" ->
                       [status |-> 422]
                  [] results[w].entries # <<>> /\ results[w].code = "ok" ->
                       [status |-> 200, ids |-> IdsOf(results[w].entries)]
                  [] OTHER -> [status |-> 500])

(* A unique violation is answered as a created one.                        *)
RespondPost_CodeIgnoredBug(w) ==
  /\ req[w].op = "post"
  /\ LET id == ReadString(results[w], 0, 0)
     IN  IF id.type = "fault"
         THEN Respond(w, [status |-> 201, id |-> Nobody]) /\ UNCHANGED told
         ELSE /\ Respond(w, [status |-> 201, id |-> id.value])
              /\ told' = told \cup {id.value}

(* The results are not looked at before the id is read: there may be none. *)
RespondPost_NoRowBug(w) ==
  /\ req[w].op = "post"
  /\ LET id == ReadString(results[w], 0, 0)
     IN  /\ Respond(w, [status |-> 201, id |-> id.value])
         /\ told' = told \cup {id.value}

(* on_post after pessoas_insert.  Reading the id of an answer that has     *)
(* none is a fault.                                                        *)
RespondPost(w) ==
  /\ req[w].op = "post"
  /\ LET id == ReadString(results[w], 0, 0)
     IN  \/ /\ results[w].code = "ok" /\ id.type # "fault"
            /\ Respond(w, [status |-> 201, id |-> id.value])
            /\ told' = told \cup {id.value}
         \/ /\ results[w].code = "ok" /\ id.type = "fault"
            /\ DieOf(w)
            /\ UNCHANGED told
         \/ /\ results[w].code # "ok"
            /\ Respond(w, [status |-> IF results[w].code \in {"invalid_range", "invalid_type",
                                                             "unique_constrain_violation"}
                                      THEN 422 ELSE 500])
            /\ UNCHANGED told

Finish(w) ==
  /\ w[1] \in up
  /\ pc[w] = "respond"
  /\ RespondCount(w) \/ RespondSearch(w) \/ RespondUuid(w) \/ RespondPost(w)
  /\ UNCHANGED <<people, up, linked, restarts, req, results, known>>

Cleared(f, ws, v) == [w \in Workers |-> IF w \in ws THEN v ELSE f[w]]

Forget(ws) ==
  /\ pc' = Cleared(pc, ws, "idle")
  /\ req' = Cleared(req, ws, Nobody)
  /\ results' = Cleared(results, ws, Nobody)
  /\ response' = Cleared(response, ws, NoResponse)
  /\ known' = Cleared(known, ws, {})

(* The client has its response; the thread is free.                        *)
Rest(w) ==
  /\ w[1] \in up
  /\ pc[w] = "answered"
  /\ Forget({w})
  /\ UNCHANGED <<people, told, up, linked, restarts>>

(* A fault of one thread kills the process, and what its threads did.      *)
Die(s) ==
  /\ s \in up
  /\ \E w \in Workers : w[1] = s /\ pc[w] = "fault"
  /\ up' = up \ {s}
  /\ Forget({w \in Workers : w[1] = s})
  /\ UNCHANGED <<people, told, linked, restarts>>

(* docker starts the server, main opens its connections.                   *)
StartServer(s) ==
  /\ s \notin up
  /\ up' = up \cup {s}
  /\ linked' = linked \cup {s}
  /\ UNCHANGED <<people, told, restarts, pc, req, results, response, known>>

(* Postgres restarts: what was committed stays, every connection breaks.   *)
RestartDb ==
  /\ restarts < MaxRestarts
  /\ restarts' = restarts + 1
  /\ linked' = {}
  /\ UNCHANGED <<people, told, up, pc, req, results, response, known>>

Serve(w) ==
  Acquire(w) \/ Refused(w) \/ Overrun(w) \/ Execute(w) \/ Answer(w) \/ Finish(w) \/ Rest(w)

Next ==
  \/ \E w \in Workers : Serve(w) \/ \E r \in Requests : Handle(w, r)
  \/ \E s \in Servers : Die(s) \/ StartServer(s)
  \/ RestartDb

Spec == Init /\ [][Next]_vars

(* The threads run, PQexec returns, docker restarts what died.             *)
Fairness ==
  /\ \A w \in Workers : WF_vars(Serve(w))
  /\ \A s \in Servers : WF_vars(Die(s) \/ StartServer(s))

FairSpec == Spec /\ Fairness

-----------------------------------------------------------------------------
TypeOK ==
  /\ people \in [Ids -> Nicknames \cup {Nobody}]
  /\ told \subseteq Ids
  /\ up \subseteq Servers
  /\ linked \subseteq Servers
  /\ restarts \in 0 .. MaxRestarts
  /\ pc \in [Workers -> {"idle", "call", "query", "answer", "respond", "answered", "fault"}]
  /\ req \in [Workers -> Requests \cup {Nobody}]
  /\ DOMAIN results = Workers
  /\ DOMAIN response = Workers
  /\ known \in [Workers -> SUBSET Ids]

Answered(w) == pc[w] = "answered"

(* Servers and threads may die, Postgres may restart, connections may be   *)
(* short, requests malformed: what clients learn of people and ids is      *)
(* still what a registry with unique nicknames tells (on_post, the table). *)
Registry == INSTANCE PessoasRegistry WITH people <- people, told <- told
ImplementsRegistry == Registry!Spec

(* A post with the nickname of somebody a client was told of before it was *)
(* sent is not answered as created, by any server (on_post).               *)
KnownNicknameRefused ==
  \A w \in Workers :
    Answered(w) /\ req[w].op = "post" /\ (\E id \in known[w] : people[id] = req[w].apelido)
      => response[w].status # 201

(* A count that is answered is at least the number of people clients were  *)
(* told of before they asked, at most the number there are (on_get_count). *)
CountCovers ==
  \A w \in Workers :
    Answered(w) /\ req[w].op = "count" /\ response[w].status = 200
      => response[w].count \in Cardinality(known[w]) .. Cardinality(Registered)

(* A search without t is answered as a bad request, whatever on_get_search *)
(* does after it sent that answer.                                         *)
MissingTermIs400 ==
  \A w \in Workers :
    Answered(w) /\ req[w].op = "search" /\ req[w].t = "absent" => response[w].status = 400

(* A request for a person some server said it created finds the person, on *)
(* any server (on_post, on_get_uuid).                                      *)
CreatedIsFound ==
  \A w \in Workers :
    Answered(w) /\ req[w].op = "uuid" /\ req[w].id \in known[w]
      => response[w].status = 200 /\ response[w].ids = {req[w].id}

(* A search for everybody returns everybody a client was told of before,   *)
(* up to the limit (on_get_search).                                        *)
SearchCovers ==
  \A w \in Workers :
    Answered(w) /\ req[w].op = "search" /\ req[w].t = "all"
      => /\ response[w].status = 200
         /\ known[w] \subseteq response[w].ids \/ Cardinality(response[w].ids) = Limit

(* No handler reads an entry that is not there: db.h says of the           *)
(* db_results_read_ functions that they give NULL "if null | non existent  *)
(* | invalid".                                                             *)
NoFault == \A w \in Workers : pc[w] # "fault"

(* Every request that reaches the database is answered, unless its server  *)
(* dies.                                                                   *)
RequestsAnswered ==
  \A w \in Workers :
    pc[w] = "call" ~> (Answered(w) /\ response[w] # NoResponse) \/ w[1] \notin up
=============================================================================
