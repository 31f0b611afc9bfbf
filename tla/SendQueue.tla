------------------------------ MODULE SendQueue ------------------------------
(***************************************************************************)
(* ChatServer/CSession.cpp: how one session sends.  Any thread may call    *)
(* send(): the session's io thread, the worker that handles a request of   *)
(* its user or of another user, the Redis subscriber thread.  send() and   *)
(* the completion handler handle_async_write hold _mutex from their first  *)
(* to their last access of the queue, so each of them is one step.         *)
(*                                                                         *)
(* boost::asio::async_write puts a frame on the wire piece by piece, and   *)
(* two writes outstanding at a time may mix their pieces.  The code must   *)
(* therefore never start one while another is outstanding.  The model lets *)
(* it happen: writes is a set, and every outstanding write may progress.   *)
(***************************************************************************)
EXTENDS Integers, Sequences

CONSTANTS QueueMaxSize,  \* QUEUE_MAX_SIZE
          Pieces,        \* bound: pieces asio needs to write a frame
          MaxSends       \* bound: frames accepted

ASSUME SendAssumption ==
  /\ QueueMaxSize \in Nat
  /\ Pieces \in Nat \ {0}
  /\ MaxSends \in Nat

VARIABLES sendQueue,  \* _send_queue; a frame is its number in order of acceptance
          writes,     \* outstanding writes: the frame and the pieces of it written
          isStop,     \* _isStop; set together with the closing of the socket
          peerUp,     \* the connection to the client still works
          accepted,   \* ghost: frames accepted by send
          received    \* ghost: the last frame the client saw and its pieces so far

vars == <<sendQueue, writes, isStop, peerUp, accepted, received>>

Write == [n : Nat, sent : 0 .. Pieces]

TypeOK ==
  /\ sendQueue \in Seq(Nat)
  /\ writes \subseteq Write
  /\ isStop \in BOOLEAN
  /\ peerUp \in BOOLEAN
  /\ accepted \in Nat
  /\ received \in Write

Init ==
  /\ sendQueue = <<>>
  /\ writes = {}
  /\ isStop = FALSE
  /\ peerUp = TRUE
  /\ accepted = 0
  /\ received = [n |-> 0, sent |-> Pieces]
-----------------------------------------------------------------------------
(* The transport, as asio uses it. *)

asyncWrite(n) == [n |-> n, sent |-> 0]

\* The next piece of an outstanding write reaches the client.
WritePiece ==
  /\ peerUp
  /\ ~isStop
  /\ \E w \in writes :
       /\ w.sent < Pieces
       /\ writes' = (writes \ {w}) \cup {[w EXCEPT !.sent = @ + 1]}
       /\ received' = [w EXCEPT !.sent = @ + 1]
  /\ UNCHANGED <<sendQueue, isStop, peerUp, accepted>>

\* The client goes away or the network fails.  The session itself notices by
\* a failing write (or by its read side, which module Presence models).
PeerDown ==
  /\ peerUp
  /\ peerUp' = FALSE
  /\ UNCHANGED <<sendQueue, writes, isStop, accepted, received>>
-----------------------------------------------------------------------------
Full == Len(sendQueue) > QueueMaxSize

\* send: only a queue that was empty makes send itself start a write; else
\* the completion handler of the outstanding one will.  _isStop is not
\* tested: a closed session goes on queueing.
Send ==
  /\ accepted < MaxSends
  /\ ~Full
  /\ sendQueue' = Append(sendQueue, accepted + 1)
  /\ accepted' = accepted + 1
  /\ writes' = IF sendQueue = <<>>
               THEN writes \cup {asyncWrite(Head(sendQueue'))}
               ELSE writes
  /\ UNCHANGED <<isStop, peerUp, received>>

\* The queue is full: the frame is dropped and the caller is not told.
SendDrop == Full /\ UNCHANGED vars

\* Mutant: the next write is started only by the next send.
WriteDoneNoRestart ==
  \E w \in writes :
    /\ w.sent = Pieces
    /\ sendQueue' = Tail(sendQueue)
    /\ writes' = writes \ {w}
    /\ UNCHANGED <<isStop, peerUp, accepted, received>>

\* Mutant: the frame is not popped before the next write is started.
WriteDoneNoPop ==
  \E w \in writes :
    /\ w.sent = Pieces
    /\ writes' = (writes \ {w}) \cup {asyncWrite(Head(sendQueue))}
    /\ UNCHANGED <<sendQueue, isStop, peerUp, accepted, received>>

\* handle_async_write, no error: pop, then write the next frame if there is one.
WriteDone ==
  \E w \in writes :
    /\ w.sent = Pieces
    /\ sendQueue' = Tail(sendQueue)
    /\ writes' = (writes \ {w}) \cup
                   (IF sendQueue' = <<>> THEN {} ELSE {asyncWrite(Head(sendQueue'))})
    /\ UNCHANGED <<isStop, peerUp, accepted, received>>

\* Mutant: the failed frame is popped too.
WriteErrorPops ==
  \E w \in writes :
    /\ w.sent < Pieces
    /\ ~peerUp
    /\ isStop' = TRUE
    /\ writes' = writes \ {w}
    /\ sendQueue' = Tail(sendQueue)
    /\ UNCHANGED <<peerUp, accepted, received>>

\* handle_async_write with an error: close() shuts the socket; the queue
\* keeps the frame, so no later send finds it empty.
WriteError ==
  \E w \in writes :
    /\ w.sent < Pieces
    /\ ~peerUp
    /\ isStop' = TRUE
    /\ writes' = writes \ {w}
    /\ UNCHANGED <<sendQueue, peerUp, accepted, received>>

Next == Send \/ SendDrop \/ WritePiece \/ WriteDone \/ WriteError \/ PeerDown

\* The io thread runs its completion handlers and a connection that works
\* takes the bytes it is given.  Nobody is obliged to send or to fail.
Fairness == WF_vars(WritePiece) /\ WF_vars(WriteDone) /\ WF_vars(WriteError)

Spec == Init /\ [][Next]_vars

FairSpec == Spec /\ Fairness
-----------------------------------------------------------------------------
(* Properties *)

\* The send queue of a session never holds more than QUEUE_MAX_SIZE + 1 frames,
\* also when its socket is closed and nothing empties it.
QueueBound == Len(sendQueue) <= QueueMaxSize + 1

\* Frames reach the client whole, in order and unmixed, whichever threads
\* call send and whenever the completion handlers run: each piece is the next
\* one of the frame being received, or the first of the next frame when that
\* one is complete.
FramesInOrder ==
  [][received' # received =>
       \/ /\ received'.n = received.n
          /\ received'.sent = received.sent + 1
       \/ /\ received.sent = Pieces
          /\ received'.n = received.n + 1
          /\ received'.sent = 1]_vars

\* A session whose write failed never touches its socket again: nothing is
\* outstanding on it and no later send starts a write.
SilentAfterClose == isStop => writes = {}

\* The queue and the writes of a session implement a channel that delivers in order.
Channel == INSTANCE OrderedChannel
             WITH delivered <- IF received.sent = Pieces THEN received.n
                                                         ELSE received.n - 1,
                  broken <- ~peerUp

ImplementsChannel == Channel!Spec

\* Every frame send accepts reaches the client unless the connection fails.
AcceptedIsReceived ==
  \A n \in 1 .. MaxSends :
    accepted >= n ~> received.n > n \/ received = [n |-> n, sent |-> Pieces] \/ ~peerUp
=============================================================================
