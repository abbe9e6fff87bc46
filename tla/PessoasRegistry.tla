-------------------------- MODULE PessoasRegistry --------------------------
(***************************************************************************)
(* What the clients of the service rely on: a person is registered under   *)
(* an id and a nickname nobody else has, for good, and an id is only told  *)
(* to a client when it is registered.                                      *)
(***************************************************************************)
CONSTANTS
  Ids,        \* the ids of people
  Nicknames,  \* their nicknames
  Nobody      \* the nickname of an id that is not registered

VARIABLES
  people,  \* the nickname of every id, or Nobody
  told     \* the ids that clients were told

rvars == <<people, told>>

Init ==
  /\ people = [id \in Ids |-> Nobody]
  /\ told = {}

Register(id, nickname) ==
  /\ people[id] = Nobody
  /\ \A other \in Ids : people[other] # nickname
  /\ people' = [people EXCEPT ![id] = nickname]
  /\ UNCHANGED told

Tell(id) ==
  /\ people[id] # Nobody
  /\ told' = told \cup {id}
  /\ UNCHANGED people

Next ==
  \E id \in Ids : Tell(id) \/ \E nickname \in Nicknames : Register(id, nickname)

Spec == Init /\ [][Next]_rvars
=============================================================================
