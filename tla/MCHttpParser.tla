---------------------------- MODULE MCHttpParser ----------------------------
(* Pairs of requests of the same and of different shapes, and more bare    *)
(* ones than are taken at once.                                            *)
EXTENDS HttpParser

SmallPipelines ==
  LET shapes == {[headers |-> 0, body |-> 0], [headers |-> 0, body |-> 2],
                 [headers |-> 1, body |-> 1]}
  IN  {<<a, b>> : a, b \in shapes} \cup {[k \in 1 .. 3 |-> [headers |-> 0, body |-> 0]]}
=============================================================================
