---------------------------- MODULE ActorMailbox ----------------------------
(***************************************************************************)
(* What ChatServer's LogicSystem promises its callers (README.md of the    *)
(* repository, "Actor": one task queue per worker, requests distributed by *)
(* a hash of the uid, the order of one user's messages kept): each user    *)
(* has a mailbox, the handlers of one user's messages run one at a time,   *)
(* in the order in which the mailbox accepted the messages, each of them   *)
(* once.  Nothing is said of threads, queues, locks or shutdown, which is  *)
(* what module LogicSystem adds.                                           *)
(***************************************************************************)
EXTENDS Naturals

CONSTANTS Users,     \* the users that send requests
          MaxPosts   \* bound: messages accepted per user

VARIABLES accepted,  \* accepted[u]: messages of u accepted so far
          handled,   \* handled[u]: number of the last message of u whose handler returned
          running    \* running[u]: a handler of a message of u is running

vars == <<accepted, handled, running>>

Init ==
  /\ accepted = [u \in Users |-> 0]
  /\ handled = [u \in Users |-> 0]
  /\ running = [u \in Users |-> FALSE]

Accept(u) ==
  /\ accepted[u] < MaxPosts
  /\ accepted' = [accepted EXCEPT ![u] = @ + 1]
  /\ UNCHANGED <<handled, running>>

Start(u) ==
  /\ ~running[u]
  /\ handled[u] < accepted[u]
  /\ running' = [running EXCEPT ![u] = TRUE]
  /\ UNCHANGED <<accepted, handled>>

Finish(u) ==
  /\ running[u]
  /\ running' = [running EXCEPT ![u] = FALSE]
  /\ handled' = [handled EXCEPT ![u] = @ + 1]
  /\ UNCHANGED accepted

Next == \E u \in Users : Accept(u) \/ Start(u) \/ Finish(u)

Spec == Init /\ [][Next]_vars
=============================================================================
