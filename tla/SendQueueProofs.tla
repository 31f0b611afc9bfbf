--------------------------- MODULE SendQueueProofs ---------------------------
(***************************************************************************)
(* Proofs about SendQueue, for every size of the queue and any number of   *)
(* pieces per frame.  The invariant ties the one outstanding write to the  *)
(* head of the queue and to what the client has seen.                      *)
(***************************************************************************)
EXTENDS SendQueue, TLAPS

\* The queued frames are the last accepted ones, in order.
Numbered ==
  /\ Len(sendQueue) <= accepted
  /\ \A i \in 1 .. Len(sendQueue) : sendQueue[i] = accepted - Len(sendQueue) + i

\* There is at most one outstanding write; it writes the head of the queue and
\* the client has seen all frames before it and its pieces so far.
AtFront ==
  /\ \A v, w \in writes : v = w
  /\ \A w \in writes :
       /\ sendQueue # <<>>
       /\ w.n = Head(sendQueue)
       /\ w.sent = 0 => received = [n |-> w.n - 1, sent |-> Pieces]
       /\ w.sent > 0 => received = w

\* Only a failed write leaves a frame queued that nobody writes.
Pending ==
  /\ isStop => writes = {} /\ sendQueue # <<>> /\ ~peerUp
  /\ ~isStop /\ writes = {} => /\ sendQueue = <<>>
                               /\ received = [n |-> accepted, sent |-> Pieces]

IInv == TypeOK /\ QueueBound /\ Numbered /\ AtFront /\ Pending
-----------------------------------------------------------------------------
\* What emplace and pop do to the queue.
LEMMA AppendFacts ==
  ASSUME NEW q \in Seq(Nat), NEW e \in Nat
  PROVE  /\ Append(q, e) \in Seq(Nat)
         /\ Append(q, e) # <<>>
         /\ Len(Append(q, e)) = Len(q) + 1
         /\ \A i \in 1 .. Len(q) : Append(q, e)[i] = q[i]
         /\ Append(q, e)[Len(q) + 1] = e
         /\ q # <<>> => Head(Append(q, e)) = Head(q)
         /\ q = <<>> => Head(Append(q, e)) = e
  <1>1. /\ Append(q, e) \in Seq(Nat)
        /\ Append(q, e) # <<>>
        /\ Len(Append(q, e)) = Len(q) + 1
        /\ \A i \in 1 .. Len(q) : Append(q, e)[i] = q[i]
        /\ Append(q, e)[Len(q) + 1] = e
    OBVIOUS
  <1>2. q # <<>> => Head(Append(q, e)) = Head(q)
    OBVIOUS
  <1>3. q = <<>> => Head(Append(q, e)) = e
    OBVIOUS
  <1> QED BY <1>1, <1>2, <1>3

LEMMA TailFacts ==
  ASSUME NEW q \in Seq(Nat), q # <<>>
  PROVE  /\ Tail(q) \in Seq(Nat)
         /\ Len(Tail(q)) = Len(q) - 1
         /\ Len(q) \in Nat \ {0}
         /\ \A i \in 1 .. Len(Tail(q)) : Tail(q)[i] = q[i + 1]
         /\ Head(q) = q[1]
         /\ Head(q) \in Nat
         /\ Tail(q) # <<>> => Head(Tail(q)) = q[2] /\ Len(q) > 1
         /\ Tail(q) = <<>> => Len(q) = 1
  <1>1. /\ Tail(q) \in Seq(Nat)
        /\ Len(Tail(q)) = Len(q) - 1
        /\ Len(q) \in Nat \ {0}
        /\ \A i \in 1 .. Len(Tail(q)) : Tail(q)[i] = q[i + 1]
    OBVIOUS
  <1>2. Head(q) = q[1] /\ Head(q) \in Nat
    OBVIOUS
  <1>3. Tail(q) # <<>> => Head(Tail(q)) = q[2] /\ Len(q) > 1
    OBVIOUS
  <1>4. ASSUME Tail(q) = <<>> PROVE Len(q) = 1
    <2>1. Len(<<>>) = 0
      OBVIOUS
    <2>2. Len(q) - 1 = 0
      BY <1>1, <1>4, <2>1, Zenon
    <2>3. Len(q) \in Nat
      OBVIOUS
    <2> QED BY <2>2, <2>3
  <1> QED BY <1>1, <1>2, <1>3, <1>4

\* The head of the queue is the oldest frame not yet popped.
LEMMA HeadNumber ==
  ASSUME TypeOK, Numbered, sendQueue # <<>>
  PROVE  Head(sendQueue) = accepted - Len(sendQueue) + 1
  <1>1. Len(sendQueue) \in Nat \ {0} /\ Head(sendQueue) = sendQueue[1]
    BY TailFacts DEF TypeOK
  <1> QED BY <1>1 DEF Numbered

LEMMA InitInv == Init => IInv
  <1> SUFFICES ASSUME Init PROVE IInv
    OBVIOUS
  <1>1. /\ sendQueue \in Seq(Nat) /\ Len(sendQueue) = 0 /\ sendQueue = <<>>
        /\ writes = {} /\ isStop = FALSE /\ peerUp = TRUE /\ accepted = 0
        /\ received = [n |-> 0, sent |-> Pieces]
    BY DEF Init
  <1>2. TypeOK
    <2>1. [n |-> 0, sent |-> Pieces] \in Write
      BY SendAssumption DEF Write
    <2> QED BY <1>1, <2>1, 0 \in Nat DEF TypeOK
  <1>3. QueueBound /\ Numbered
    BY <1>1, SendAssumption DEF QueueBound, Numbered
  <1>4. AtFront /\ Pending
    BY <1>1 DEF AtFront, Pending
  <1> QED BY <1>2, <1>3, <1>4 DEF IInv
-----------------------------------------------------------------------------
(* One lemma per action. *)

LEMMA SendInv == IInv /\ Send => IInv'
  <1> SUFFICES ASSUME IInv, Send PROVE IInv'
    OBVIOUS
  <1> USE DEF IInv
  <1>t. /\ sendQueue \in Seq(Nat) /\ Len(sendQueue) \in Nat
        /\ accepted \in Nat /\ accepted + 1 \in Nat
    BY DEF TypeOK
  <1>q. sendQueue' = Append(sendQueue, accepted + 1) /\ accepted' = accepted + 1
    BY DEF Send
  <1>a. /\ sendQueue' \in Seq(Nat)
        /\ sendQueue' # <<>>
        /\ Len(sendQueue') = Len(sendQueue) + 1
        /\ \A i \in 1 .. Len(sendQueue) : sendQueue'[i] = sendQueue[i]
        /\ sendQueue'[Len(sendQueue) + 1] = accepted + 1
        /\ sendQueue # <<>> => Head(sendQueue') = Head(sendQueue)
        /\ sendQueue = <<>> => Head(sendQueue') = accepted + 1
    BY <1>t, <1>q, AppendFacts
  <1>b. QueueBound'
    <2>1. Len(sendQueue) <= QueueMaxSize
      BY <1>t, SendAssumption DEF Send, Full
    <2> QED BY <1>a, <1>t, <2>1, SendAssumption DEF QueueBound
  <1>m. Numbered'
    <2>1. Len(sendQueue') <= accepted'
      BY <1>t, <1>q, <1>a DEF Numbered
    <2>2. ASSUME NEW i \in 1 .. Len(sendQueue')
          PROVE  sendQueue'[i] = accepted' - Len(sendQueue') + i
      <3>1. CASE i = Len(sendQueue) + 1
        <4>1. sendQueue'[i] = accepted + 1
          BY <1>a, <3>1, Zenon
        <4> QED BY <1>t, <1>q, <1>a, <3>1, <4>1
      <3>2. CASE i # Len(sendQueue) + 1
        <4>1. i \in 1 .. Len(sendQueue)
          BY <1>t, <1>a, <3>2
        <4>2. sendQueue'[i] = sendQueue[i]
          BY <1>a, <4>1, Zenon
        <4>3. sendQueue[i] = accepted - Len(sendQueue) + i
          BY <4>1 DEF Numbered
        <4>4. accepted - Len(sendQueue) = accepted' - Len(sendQueue')
          BY <1>t, <1>q, <1>a
        <4> QED BY <4>2, <4>3, <4>4, Zenon
      <3> QED BY <3>1, <3>2
    <2> QED BY <2>1, <2>2 DEF Numbered
  <1>w. CASE sendQueue = <<>>
    <2>1. writes = {} /\ ~isStop
      BY <1>w DEF AtFront, Pending
    <2>2. writes' = {[n |-> accepted + 1, sent |-> 0]}
      BY <1>w, <1>a, <2>1 DEF Send, asyncWrite
    <2>3. received = [n |-> accepted, sent |-> Pieces]
      BY <2>1 DEF Pending
    <2>4. TypeOK'
      BY <1>t, <1>q, <1>a, <2>2, SendAssumption DEF Send, TypeOK, Write
    <2>5. AtFront'
      BY <1>w, <1>a, <1>t, <2>2, <2>3 DEF Send, AtFront
    <2>6. Pending'
      BY <2>1, <2>2 DEF Send, Pending
    <2> QED BY <1>b, <1>m, <2>4, <2>5, <2>6
  <1>n. CASE sendQueue # <<>>
    <2>1. UNCHANGED <<writes, isStop, peerUp, received>>
      BY <1>n DEF Send
    <2>4. TypeOK'
      BY <1>t, <1>q, <1>a, <2>1 DEF TypeOK
    <2>5. AtFront'
      BY <1>n, <1>a, <2>1 DEF AtFront
    <2>6. Pending'
      BY <1>n, <1>a, <2>1 DEF Pending
    <2> QED BY <1>b, <1>m, <2>4, <2>5, <2>6
  <1> QED BY <1>w, <1>n

LEMMA WritePieceInv == IInv /\ WritePiece => IInv'
  <1> SUFFICES ASSUME IInv, WritePiece PROVE IInv'
    OBVIOUS
  <1> USE DEF IInv
  <1>1. PICK w \in writes :
          /\ w.sent < Pieces
          /\ writes' = (writes \ {w}) \cup {[w EXCEPT !.sent = @ + 1]}
          /\ received' = [w EXCEPT !.sent = @ + 1]
    BY DEF WritePiece
  <1>2. w \in Write /\ writes = {w}
    BY DEF TypeOK, AtFront
  <1>3. /\ writes' = {received'}
        /\ received' = [n |-> w.n, sent |-> w.sent + 1]
        /\ received' \in Write
    BY <1>1, <1>2, SendAssumption DEF Write
  <1>4. UNCHANGED <<sendQueue, isStop, peerUp, accepted>> /\ ~isStop
    BY DEF WritePiece
  <1>5. TypeOK'
    BY <1>3, <1>4 DEF TypeOK
  <1>6. AtFront'
    BY <1>2, <1>3, <1>4 DEF AtFront, Write
  <1>7. Numbered' /\ QueueBound' /\ Pending'
    BY <1>3, <1>4 DEF Numbered, QueueBound, Pending
  <1> QED BY <1>5, <1>6, <1>7

LEMMA WriteDoneInv == IInv /\ WriteDone => IInv'
  <1> SUFFICES ASSUME IInv, WriteDone PROVE IInv'
    OBVIOUS
  <1> USE DEF IInv
  <1>1. PICK w \in writes :
          /\ w.sent = Pieces
          /\ sendQueue' = Tail(sendQueue)
          /\ writes' = (writes \ {w}) \cup
               (IF sendQueue' = <<>> THEN {} ELSE {asyncWrite(Head(sendQueue'))})
    BY DEF WriteDone
  <1>2. /\ w \in Write /\ writes = {w} /\ sendQueue # <<>>
        /\ w.n = Head(sendQueue) /\ received = w /\ ~isStop
    BY <1>1, SendAssumption DEF TypeOK, AtFront, Write, Pending
  <1>3. UNCHANGED <<isStop, peerUp, accepted, received>>
    BY DEF WriteDone
  <1>t. sendQueue \in Seq(Nat) /\ Len(sendQueue) \in Nat /\ accepted \in Nat
    BY DEF TypeOK
  <1>4. /\ sendQueue' \in Seq(Nat)
        /\ Len(sendQueue') = Len(sendQueue) - 1
        /\ Len(sendQueue) > 0
        /\ \A i \in 1 .. Len(sendQueue') : sendQueue'[i] = sendQueue[i + 1]
        /\ sendQueue' # <<>> => Head(sendQueue') = sendQueue[2] /\ Len(sendQueue) > 1
        /\ sendQueue' = <<>> => Len(sendQueue) = 1
    BY <1>1, <1>2, <1>t, TailFacts
  <1>5. w.n = accepted - Len(sendQueue) + 1
    BY <1>2, HeadNumber
  <1>6. Numbered' /\ QueueBound'
    BY <1>3, <1>4, <1>t, SendAssumption DEF Numbered, QueueBound
  <1>7. CASE sendQueue' = <<>>
    <2>1. writes' = {}
      BY <1>1, <1>2, <1>7
    <2>2. received' = [n |-> accepted, sent |-> Pieces]
      BY <1>1, <1>2, <1>3, <1>4, <1>5, <1>7, <1>t DEF Write
    <2>3. TypeOK' /\ AtFront' /\ Pending'
      BY <1>2, <1>3, <1>4, <1>7, <2>1, <2>2 DEF TypeOK, AtFront, Pending
    <2> QED BY <1>6, <2>3
  <1>8. CASE sendQueue' # <<>>
    <2>1. writes' = {[n |-> Head(sendQueue'), sent |-> 0]}
      BY <1>1, <1>2, <1>8 DEF asyncWrite
    <2>2. Head(sendQueue') = w.n + 1 /\ Head(sendQueue') \in Nat
      <3>1. Head(sendQueue') = sendQueue[2] /\ 2 \in 1 .. Len(sendQueue)
        BY <1>4, <1>8, <1>t
      <3>2. Head(sendQueue') = accepted - Len(sendQueue) + 2
        BY <3>1 DEF Numbered
      <3>3. Len(sendQueue) <= accepted
        BY DEF Numbered
      <3> QED BY <1>5, <1>t, <3>2, <3>3
    <2>3. received' = [n |-> w.n, sent |-> Pieces]
      BY <1>1, <1>2, <1>3 DEF Write
    <2>4. TypeOK'
      BY <1>3, <1>4, <2>1, <2>2, SendAssumption DEF TypeOK, Write
    <2>5. w.n \in Nat
      BY <1>2 DEF Write
    <2>6. w.n = Head(sendQueue') - 1
      BY <2>2, <2>5
    <2>7. AtFront'
      BY <1>8, <2>1, <2>3, <2>6 DEF AtFront
    <2>8. Pending'
      BY <1>2, <1>3, <2>1 DEF Pending
    <2> QED BY <1>6, <2>4, <2>7, <2>8
  <1> QED BY <1>7, <1>8

LEMMA WriteErrorInv == IInv /\ WriteError => IInv'
  <1> SUFFICES ASSUME IInv, WriteError PROVE IInv'
    OBVIOUS
  <1> USE DEF IInv
  <1>1. PICK w \in writes : writes' = writes \ {w}
    BY DEF WriteError
  <1>2. writes' = {} /\ sendQueue # <<>>
    BY <1>1 DEF AtFront
  <1>3. isStop' /\ ~peerUp /\ isStop' = TRUE
        /\ UNCHANGED <<sendQueue, peerUp, accepted, received>>
    BY DEF WriteError
  <1> QED BY <1>2, <1>3 DEF TypeOK, QueueBound, Numbered, AtFront, Pending

LEMMA NextInv == IInv /\ [Next]_vars => IInv'
  <1> SUFFICES ASSUME IInv, [Next]_vars PROVE IInv'
    OBVIOUS
  <1>1. CASE Send
    BY <1>1, SendInv
  <1>2. CASE SendDrop
    BY <1>2 DEF SendDrop, vars, IInv, TypeOK, QueueBound, Numbered, AtFront, Pending
  <1>3. CASE WritePiece
    BY <1>3, WritePieceInv
  <1>4. CASE WriteDone
    BY <1>4, WriteDoneInv
  <1>5. CASE WriteError
    BY <1>5, WriteErrorInv
  <1>6. CASE PeerDown
    BY <1>6 DEF PeerDown, IInv, TypeOK, QueueBound, Numbered, AtFront, Pending
  <1>7. CASE UNCHANGED vars
    BY <1>7 DEF vars, IInv, TypeOK, QueueBound, Numbered, AtFront, Pending
  <1> QED BY <1>1, <1>2, <1>3, <1>4, <1>5, <1>6, <1>7 DEF Next

\* The inductive invariant holds in every reachable state of a session's send
\* side.
THEOREM Invariance == Spec => []IInv
  BY InitInv, NextInv, PTL DEF Spec

\* Every variable of the send side keeps its type (CSession::send,
\* handle_async_write).
THEOREM TypeCorrect == Spec => []TypeOK
  BY Invariance, PTL DEF IInv

\* The send queue holds at most QUEUE_MAX_SIZE + 1 frames, before and after
\* the socket is closed (CSession::send).
THEOREM QueueBounded == Spec => []QueueBound
  BY Invariance, PTL DEF IInv

\* After a failed write nothing is ever written again (CSession::send and
\* handle_async_write do not test _isStop: the frame left in the queue is what
\* keeps them from it).
THEOREM NoWriteAfterClose == Spec => []SilentAfterClose
  <1>1. IInv => SilentAfterClose
    BY DEF IInv, Pending, SilentAfterClose
  <1> QED BY <1>1, Invariance, PTL

\* What the client receives only ever grows by the next piece of the stream of
\* accepted frames (CSession::send, handle_async_write).
LEMMA NextFrame ==
  ASSUME IInv, [Next]_vars
  PROVE  \/ UNCHANGED received
         \/ received'.n = received.n /\ received'.sent = received.sent + 1
         \/ /\ received.sent = Pieces
            /\ received'.n = received.n + 1
            /\ received'.sent = 1
  <1>1. CASE WritePiece
    <2>1. PICK w \in writes : received' = [w EXCEPT !.sent = @ + 1]
      BY <1>1 DEF WritePiece
    <2>2. w \in Write /\ received' = [n |-> w.n, sent |-> w.sent + 1]
      BY <2>1 DEF IInv, TypeOK, Write
    <2>3. CASE w.sent = 0
      BY <2>2, <2>3 DEF IInv, AtFront, Write
    <2>4. CASE w.sent > 0
      BY <2>2, <2>4 DEF IInv, AtFront, Write
    <2> QED BY <2>2, <2>3, <2>4, SendAssumption DEF Write
  <1>2. CASE ~WritePiece
    BY <1>2 DEF Next, vars, Send, SendDrop, WriteDone, WriteError, PeerDown
  <1> QED BY <1>1, <1>2

\* Frames reach the client whole, unmixed and in order (CSession::send,
\* handle_async_write).
THEOREM InOrder == Spec => FramesInOrder
  <1>1. IInv /\ [Next]_vars =>
          [received' # received =>
             \/ /\ received'.n = received.n
                /\ received'.sent = received.sent + 1
             \/ /\ received.sent = Pieces
                /\ received'.n = received.n + 1
                /\ received'.sent = 1]_vars
    BY NextFrame
  <1> QED BY <1>1, Invariance, PTL DEF Spec, FramesInOrder
-----------------------------------------------------------------------------
(* Refinement. *)

\* A piece of the frame being written: the client gets the frame whole with
\* its last piece.
LEMMA WritePieceDelivers ==
  ASSUME IInv, WritePiece
  PROVE  Channel!Deliver \/ UNCHANGED Channel!vars
  <1> DEFINE delivered == IF received.sent = Pieces THEN received.n ELSE received.n - 1
  <1>1. PICK w \in writes : w.sent < Pieces /\ received' = [w EXCEPT !.sent = @ + 1]
    BY DEF WritePiece
  <1>2. /\ w.n \in Nat /\ w.sent \in 0 .. Pieces
        /\ received' = [n |-> w.n, sent |-> w.sent + 1]
    BY <1>1 DEF IInv, TypeOK, Write
  <1>3. sendQueue # <<>> /\ w.n = Head(sendQueue)
    BY DEF IInv, AtFront
  <1>4. w.n = accepted - Len(sendQueue) + 1
    BY <1>3, HeadNumber DEF IInv
  <1>5. Len(sendQueue) \in Nat \ {0} /\ accepted \in Nat
    BY <1>3, TailFacts DEF IInv, TypeOK
  <1>6. w.n - 1 < accepted
    BY <1>2, <1>4, <1>5
  <1>7. delivered = w.n - 1
    <2>1. CASE w.sent = 0
      BY <1>2, <2>1 DEF IInv, AtFront
    <2>2. CASE w.sent > 0
      <3>1. received = w
        BY <2>2 DEF IInv, AtFront
      <3>2. w.sent # Pieces
        BY <1>1, <1>2, SendAssumption
      <3> QED BY <3>1, <3>2
    <2> QED BY <1>2, <2>1, <2>2
  <1>8. received'.n = w.n /\ received'.sent = w.sent + 1
    BY <1>2
  <1>9. peerUp /\ UNCHANGED <<accepted, peerUp>>
    BY DEF WritePiece
  <1>10. CASE w.sent + 1 = Pieces
    <2>1. (IF received'.sent = Pieces THEN received'.n ELSE received'.n - 1) = (w.n - 1) + 1
      BY <1>2, <1>8, <1>10
    <2> QED BY <1>6, <1>7, <1>9, <2>1 DEF Channel!Deliver
  <1>11. CASE w.sent + 1 # Pieces
    <2>1. (IF received'.sent = Pieces THEN received'.n ELSE received'.n - 1) = w.n - 1
      BY <1>8, <1>11
    <2> QED BY <1>7, <1>9, <2>1 DEF Channel!vars
  <1> QED BY <1>10, <1>11

LEMMA NextRefines == IInv /\ [Next]_vars => [Channel!Next]_(Channel!vars)
  <1> SUFFICES ASSUME IInv, [Next]_vars PROVE [Channel!Next]_(Channel!vars)
    OBVIOUS
  <1>1. CASE Send
    BY <1>1 DEF Send, Channel!Next, Channel!Accept
  <1>2. CASE WritePiece
    BY <1>2, WritePieceDelivers DEF Channel!Next
  <1>3. CASE PeerDown
    BY <1>3 DEF PeerDown, Channel!Next, Channel!Break
  <1>4. CASE SendDrop \/ WriteDone \/ WriteError \/ UNCHANGED vars
    BY <1>4 DEF SendDrop, WriteDone, WriteError, vars, Channel!vars
  <1> QED BY <1>1, <1>2, <1>3, <1>4 DEF Next

\* The queue and the asynchronous writes of a session are an in-order channel
\* (CSession::send, handle_async_write).
THEOREM Refinement == Spec => ImplementsChannel
  <1>1. Init => Channel!Init
    BY DEF Init, Channel!Init
  <1> QED BY <1>1, NextRefines, Invariance, PTL DEF Spec, ImplementsChannel, Channel!Spec
=============================================================================
