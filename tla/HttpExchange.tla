----------------------------- MODULE HttpExchange -----------------------------
(***************************************************************************)
(* What GateServer promises an HTTP client ("short connections", comment   *)
(* at HttpConnection.cpp:52): a connection carries one request; it is      *)
(* answered once at most, with the answer to that request, and nothing is  *)
(* sent on it afterwards.  Nothing is said of queues, workers, timers or   *)
(* of the end of the process, which is what module GateRequest adds.       *)
(***************************************************************************)
EXTENDS Naturals

CONSTANTS Conns,      \* the connections
          Kinds,      \* the requests, as far as their answers differ
          Silent,     \* stands for no request and for no answer
          Reply(_)    \* the answer a request of a kind is due

VARIABLES asked,      \* asked[c]: the request read from c, or Silent
          said,       \* said[c]: the answer c's client received, or Silent
          over        \* the connections that are closed

vars == <<asked, said, over>>

Init ==
  /\ asked = [c \in Conns |-> Silent]
  /\ said = [c \in Conns |-> Silent]
  /\ over = {}

Ask(c, k) ==
  /\ c \notin over /\ asked[c] = Silent
  /\ asked' = [asked EXCEPT ![c] = k]
  /\ UNCHANGED <<said, over>>

\* The client is answered and its connection closed.
Answer(c) ==
  /\ c \notin over /\ asked[c] # Silent
  /\ said' = [said EXCEPT ![c] = Reply(asked[c])]
  /\ over' = over \cup {c}
  /\ UNCHANGED asked

\* Connections close without an answer: several when the process ends.
Close(cs) ==
  /\ over' = over \cup cs
  /\ UNCHANGED <<asked, said>>

Next ==
  \/ \E c \in Conns : (\E k \in Kinds : Ask(c, k)) \/ Answer(c)
  \/ \E cs \in SUBSET (Conns \ over) : Close(cs)

Spec == Init /\ [][Next]_vars

\* A client that was answered got the answer to its own request, and its connection
\* is closed.
AnswersFit ==
  \A c \in Conns : said[c] # Silent => said[c] = Reply(asked[c]) /\ c \in over

\* Nobody is answered twice, or asks again on a connection that was answered.
AnsweredOnce ==
  [][\A c \in Conns : said[c] # Silent => said'[c] = said[c] /\ asked'[c] = asked[c]]_vars
=============================================================================
