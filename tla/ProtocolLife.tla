---------------------------- MODULE ProtocolLife ----------------------------
(***************************************************************************)
(* What facil.io promises the protocol object of a connection, without     *)
(* sockets, tasks and threads: callbacks run under a lock each, begin only *)
(* while the connection has the protocol, and on_close is called once,     *)
(* after the connection lost it and when no callback runs.                 *)
(***************************************************************************)
CONSTANTS
  Protocols,  \* the protocol objects
  Locks,      \* the locks of each
  NoProtocol  \* no protocol

VARIABLES
  attached,  \* the protocol the connection has
  ever,      \* the protocols that were made
  ended,     \* those whose on_close was called
  busy       \* the locks that callbacks hold

lvars == <<attached, ever, ended, busy>>

Init ==
  /\ attached = NoProtocol
  /\ ever = {} /\ ended = {}
  /\ busy = [p \in Protocols |-> {}]

(* A new protocol is attached, or finds the connection gone.               *)
Make(p) ==
  /\ p \notin ever
  /\ ever' = ever \cup {p}
  /\ attached' \in {p, attached}
  /\ UNCHANGED <<ended, busy>>

Detach ==
  /\ attached # NoProtocol
  /\ attached' = NoProtocol
  /\ UNCHANGED <<ever, ended, busy>>

Begin(p, l) ==
  /\ attached = p
  /\ l \notin busy[p]
  /\ busy' = [busy EXCEPT ![p] = @ \cup {l}]
  /\ UNCHANGED <<attached, ever, ended>>

End(p, l) ==
  /\ l \in busy[p]
  /\ busy' = [busy EXCEPT ![p] = @ \ {l}]
  /\ UNCHANGED <<attached, ever, ended>>

OnClose(p) ==
  /\ p \in ever \ ended
  /\ p # attached
  /\ busy[p] = {}
  /\ ended' = ended \cup {p}
  /\ UNCHANGED <<attached, ever, busy>>

Next ==
  \/ Detach
  \/ \E p \in Protocols :
       Make(p) \/ OnClose(p) \/ \E l \in Locks : Begin(p, l) \/ End(p, l)

Spec == Init /\ [][Next]_lvars
=============================================================================
