--------------------------- MODULE OrderedChannel ---------------------------
(***************************************************************************)
(* What CSession::send promises the handlers that call it: the frames of a *)
(* session reach its client whole, in the order in which send accepted     *)
(* them, each once, until the connection breaks.  Module SendQueue adds    *)
(* the queue, the asynchronous writes and their failures.                  *)
(***************************************************************************)
EXTENDS Naturals

CONSTANT MaxSends    \* bound: frames accepted

VARIABLES accepted,  \* frames accepted so far
          delivered, \* number of the last frame the client has whole
          broken     \* the connection is gone

vars == <<accepted, delivered, broken>>

Init == accepted = 0 /\ delivered = 0 /\ broken = FALSE

Accept ==
  /\ accepted < MaxSends
  /\ accepted' = accepted + 1
  /\ UNCHANGED <<delivered, broken>>

Deliver ==
  /\ ~broken
  /\ delivered < accepted
  /\ delivered' = delivered + 1
  /\ UNCHANGED <<accepted, broken>>

Break ==
  /\ broken' = TRUE
  /\ UNCHANGED <<accepted, delivered>>

Next == Accept \/ Deliver \/ Break

Spec == Init /\ [][Next]_vars
=============================================================================
