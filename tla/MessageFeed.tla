----------------------------- MODULE MessageFeed ------------------------------
(***************************************************************************)
(* What the callback of a Redis subscription can rely on: the messages of  *)
(* the channels reach it in the order in which Redis sent them, each of    *)
(* them once at most.  That all of them do is not promised.                *)
(***************************************************************************)
EXTENDS Naturals

CONSTANTS MaxMessages   \* bound: messages Redis sends

VARIABLES sent,         \* messages sent so far, numbered from 1
          newest        \* the last one handed to the callback

vars == <<sent, newest>>

Init == sent = 0 /\ newest = 0

Send == sent < MaxMessages /\ sent' = sent + 1 /\ UNCHANGED newest

Deliver == newest' \in (newest + 1)..sent /\ UNCHANGED sent

Next == Send \/ Deliver

Spec == Init /\ [][Next]_vars
=============================================================================
