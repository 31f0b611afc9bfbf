---- MODULE MCGateRequest ----
(* Instance of GateRequest: model values for the workers; the first client may *)
(* send any request, the second one that has a handler.                       *)
EXTENDS GateRequest
CONSTANTS w1, w2

AnyThenServed == [c \in Conns |-> IF c = 1 THEN Kinds ELSE {"known"}]
====
