---------------------------- MODULE MCPessoasApi ----------------------------
(* Small instances of PessoasApi.                                          *)
EXTENDS PessoasApi, TLC

CONSTANTS n1, n2

Post(apelido, nome, nascimento, stack) ==
  [op |-> "post", apelido |-> apelido, nome |-> nome, nascimento |-> nascimento,
   stack |-> stack]

Reads ==
  [op : {"count"}] \cup [op : {"uuid"}, id : Ids] \cup [op : {"search"}, t : {"all", "absent"}]

(* What well-meant clients send.                                           *)
UsualRequests ==
  Reads \cup {Post(n1, "short", "date", "none"), Post(n2, "short", "date", "storable"),
             Post("long", "short", "date", "none")}

(* Each way a request can be odd, one at a time.                           *)
OddRequests ==
  UsualRequests
    \cup [op : {"other path", "other method", "no body", "uuid of nothing"}]
    \cup {[op |-> "uuid", id |-> "malformed"], [op |-> "search", t |-> "none"],
          Post("not text", "short", "date", "none"), Post(n1, "long", "date", "none"),
          Post(n1, "not text", "date", "none"), Post(n1, "short", "no date", "none"),
          Post(n1, "short", "not text", "none"), Post(n1, "short", "date", "unstorable"),
          Post(n1, "short", "date", "long"), Post(n1, "short", "date", "not text")}

(* Requests without a database, and those whose answer is read.            *)
StoredOddly == Reads \cup {Post(n1, "short", "date", "none"),
                          Post(n2, "short", "date", "unstorable")}
=============================================================================
