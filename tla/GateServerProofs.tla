-------------------------- MODULE GateServerProofs --------------------------
(***************************************************************************)
(* Proofs about what GateServer does with a request, and about the codes   *)
(* its account handlers accept.                                            *)
(*                                                                         *)
(* GateRequest, for any number of connections and worker threads and every *)
(* queue size.  A request is owned by one party at a time: the io thread   *)
(* until it is pushed, then the queue, a worker, the write.  That it is    *)
(* never owned twice makes every answer the only one; that the io thread   *)
(* ends with the deadline armed or the answer given is what keeps a        *)
(* dropped request from being hung up on early, until the pool of          *)
(* io_contexts is destroyed and every deadline with it.                    *)
(*                                                                         *)
(* VerifyCode, for any addresses, forms and number of codes and any finite *)
(* set of calls.  A code is made for one address, and no call, mail or key *)
(* ever has it for another: that is why a form that passes the comparison  *)
(* holds a code mailed to its own address, although clients know the codes *)
(* of others.                                                              *)
(***************************************************************************)
EXTENDS GateRequest, VerifyCode, FiniteSetTheorems, TLAPS
-----------------------------------------------------------------------------
(* Requests *)

\* Where the io side can be.
ConnPc == {"none", "listening", "reading", "handling", "notifying", "arming", "idle"}

\* Where the io side can be once the request was pushed.
Pushed == {"notifying", "arming", "idle"}

\* Connections are accepted in the order in which they are built.
BuiltInv == \A c, d \in Conns : conn[c] = "listening" /\ c < d => conn[d] = "none"

\* A request is read before it is handled; without the deadline being waited for,
\* a connection whose handling has ended is answered or overdue, or the pool gone.
SilenceInv ==
  \A c \in Conns :
    /\ request[c] # Nobody => conn[c] \in {"handling"} \cup Pushed
    /\ conn[c] = "handling" => request[c] # Nobody
    /\ c \in closed => c \in expired /\ conn[c] = "idle"
    /\ conn[c] = "idle" /\ request[c] # Nobody /\ timer[c] # "waiting" =>
         answer[c] # Nobody \/ c \in expired \/ "pool" \in gone

BaseInv == TypeOK /\ BuiltInv /\ SilenceInv

\* The request of c has been pushed and no answer to it was written.
Due(c) == conn[c] \in Pushed /\ request[c] # Nobody

\* A request that was pushed is in one place: the queue, a worker's hand, the write.
OwnerInv ==
  /\ \A i \in 1..Len(queue) : Due(queue[i])
  /\ \A i, j \in 1..Len(queue) : queue[i] = queue[j] => i = j
  /\ \A w \in Workers : task[w] # Nobody => Due(task[w])
  /\ \A v, w \in Workers : task[v] # Nobody /\ task[v] = task[w] => v = w
  /\ \A w \in Workers, i \in 1..Len(queue) : task[w] # queue[i]
  /\ \A c \in writing : Due(c)
  /\ \A i \in 1..Len(queue) : queue[i] \notin writing
  /\ \A w \in Workers : task[w] \notin writing

\* Some party owns the request of c.
Owned(c) ==
  \/ c \in writing
  \/ \E i \in 1..Len(queue) : queue[i] = c
  \/ \E w \in Workers : task[w] = c

\* Nobody can answer what is answered.
AnswerInv == \A c \in Conns : answer[c] # Nobody => conn[c] = "idle" /\ ~Owned(c)

IInv == BaseInv /\ OwnerInv /\ AnswerInv
-----------------------------------------------------------------------------
LEMMA BaseInit == Init => BaseInv
  <1> SUFFICES ASSUME Init PROVE BaseInv
    OBVIOUS
  <1> USE GateAssumption DEF Init
  <1>1. TypeOK
    <2>1. queue \in Seq(Conns) /\ Len(queue) <= QueueMaxSize + 1
      OBVIOUS
    <2>2. conn \in [Conns -> {"none", "listening", "reading", "handling", "notifying", "arming", "idle"}]
      OBVIOUS
    <2> QED BY <2>1, <2>2 DEF TypeOK
  <1>2. BuiltInv
    BY DEF BuiltInv, Conns
  <1>3. SilenceInv
    BY DEF SilenceInv, Pushed
  <1> QED BY <1>1, <1>2, <1>3 DEF BaseInv

LEMMA ConnsAreNumbers == \A c \in Conns : c \in Int
  BY DEF Conns

\* The queue takes one task more than QUEUE_MAX_SIZE.
LEMMA QueuePush ==
  ASSUME queue \in Seq(Conns), NEW c \in Conns, ~Full
  PROVE  /\ Append(queue, c) \in Seq(Conns)
         /\ Len(queue) \in Nat /\ Len(Append(queue, c)) = Len(queue) + 1
         /\ Append(queue, c)[Len(queue) + 1] = c
         /\ \A i \in 1..Len(queue) : Append(queue, c)[i] = queue[i]
         /\ Len(Append(queue, c)) <= QueueMaxSize + 1
  <1>1. Len(queue) \in Nat /\ Len(queue) <= QueueMaxSize
    BY GateAssumption DEF Full
  <1>2. Len(Append(queue, c)) = Len(queue) + 1
    OBVIOUS
  <1> QED BY <1>1, <1>2, GateAssumption

\* What popping the queue leaves.
LEMMA QueuePop ==
  ASSUME queue \in Seq(Conns), queue # <<>>
  PROVE  /\ Len(queue) \in Nat \ {0}
         /\ Head(queue) = queue[1] /\ Head(queue) \in Conns
         /\ Tail(queue) \in Seq(Conns) /\ Len(Tail(queue)) = Len(queue) - 1
         /\ \A i \in 1..Len(Tail(queue)) : Tail(queue)[i] = queue[i + 1]
  OBVIOUS

\* An answer is being written, or not, or the process has ended.
LEMMA RespondTypes ==
  ASSUME BaseInv, NEW c \in Conns, Respond(c)
  PROVE  writing' \subseteq Conns /\ up' \in BOOLEAN
  BY DEF Respond, BaseInv, TypeOK

\* What the io side, the deadlines and the pool have to do with silence.
LEMMA SilenceSame ==
  ASSUME BuiltInv, SilenceInv, UNCHANGED <<conn, expired, timer, closed, request, answer, gone>>
  PROVE  BuiltInv' /\ SilenceInv'
  BY DEF BuiltInv, SilenceInv

LEMMA WorkerBase == ASSUME BaseInv, NEW w \in Workers, WorkerStep(w) PROVE BaseInv'
  <1>0. BuiltInv' /\ SilenceInv'
    <2>1. UNCHANGED <<conn, expired, timer, closed, request, answer, gone>>
      BY DEF WorkerStep, Check, Block, Spurious, Handle, DrainStart, Drain, DrainEnd, io, service
    <2> QED BY <2>1, SilenceSame DEF BaseInv
  <1> SUFFICES TypeOK'
    BY <1>0 DEF BaseInv
  <1>n. Nobody \notin Conns /\ QueueMaxSize \in Nat
    BY GateAssumption
  <1> USE DEF BaseInv, TypeOK, io, service
  <1>1. CASE Check(w)
    <2>1. CASE isStop
      <3>1. /\ pc[w] = "ready" /\ pc' = [pc EXCEPT ![w] = "stopping"]
            /\ UNCHANGED <<queue, task, lock, io, service>>
        BY <1>1, <2>1 DEF Check
      <3> QED BY <3>1
    <2>2. CASE ~isStop /\ queue # <<>>
      <3>0. queue \in Seq(Conns) /\ Len(queue) <= QueueMaxSize + 1 /\ queue' = Tail(queue)
        BY <1>1, <2>2 DEF Check
      <3>1. queue' \in Seq(Conns) /\ Len(queue') <= QueueMaxSize + 1
        <4>1. /\ Len(queue) \in Nat /\ Tail(queue) \in Seq(Conns)
              /\ Len(Tail(queue)) = Len(queue) - 1
          BY <3>0, <2>2, QueuePop
        <4> QED BY <3>0, <4>1, <1>n
      <3>2. /\ Head(queue) \in Conns
            /\ task' = [task EXCEPT ![w] = Head(queue)]
            /\ pc' = [pc EXCEPT ![w] = "handling"]
            /\ UNCHANGED <<io, service, lock>>
        BY <1>1, <2>2, QueuePop DEF Check
      <3> QED BY <3>1, <3>2, <1>n
    <2>3. CASE ~isStop /\ queue = <<>>
      <3>1. /\ pc[w] = "ready" /\ lock' = w /\ pc' = [pc EXCEPT ![w] = "blocking"]
            /\ UNCHANGED <<queue, task, io, service>>
        BY <1>1, <2>3 DEF Check
      <3> QED BY <3>1
    <2> QED BY <2>1, <2>2, <2>3
  <1>2. CASE Block(w) \/ Spurious(w)
    <2>1. CASE Block(w)
      BY <2>1 DEF Block
    <2>2. CASE Spurious(w)
      BY <2>2 DEF Spurious
    <2> QED BY <1>2, <2>1, <2>2
  <1>3. CASE Handle(w)
    <2>1. writing' \subseteq Conns /\ up' \in BOOLEAN
      BY <1>3, RespondTypes DEF Handle
    <2>2. /\ pc[w] = "handling" /\ pc' = [pc EXCEPT ![w] = "ready"]
          /\ task' = [task EXCEPT ![w] = Nobody]
          /\ UNCHANGED <<conn, expired, timer, closed, request, answer, queue, lock,
                         isStop, main, gone>>
      BY <1>3 DEF Handle
    <2>3. \A v \in Workers : task'[v] # Nobody <=> pc'[v] = "handling"
      BY <2>2
    <2>4. pc' \in [Workers -> {"ready", "blocking", "asleep", "handling",
                               "stopping", "draining", "done"}]
      BY <2>2
    <2>5. task' \in [Workers -> Conns \cup {Nobody}]
      BY <2>2
    <2> QED BY <2>1, <2>2, <2>3, <2>4, <2>5
  <1>4. CASE DrainStart(w) \/ DrainEnd(w)
    <2>1. CASE DrainStart(w)
      BY <2>1 DEF DrainStart
    <2>2. CASE DrainEnd(w)
      BY <2>2 DEF DrainEnd
    <2> QED BY <1>4, <2>1, <2>2
  <1>5. CASE Drain(w)
    <2>1. /\ queue' \in Seq(Conns) /\ Len(queue') <= QueueMaxSize + 1
          /\ Head(queue) \in Conns
      BY <1>5, <1>n, QueuePop DEF Drain
    <2>2. writing' \subseteq Conns /\ up' \in BOOLEAN
      BY <1>5, <2>1, RespondTypes DEF Drain
    <2> QED BY <1>5, <2>1, <2>2 DEF Drain
  <1> QED BY <1>1, <1>2, <1>3, <1>4, <1>5 DEF WorkerStep

LEMMA AcceptBase == ASSUME BaseInv, NEW c \in Conns, Accept(c) PROVE BaseInv'
  <1>1. /\ conn[c] = "listening" /\ conn' \in [Conns -> ConnPc]
        /\ \A d \in Conns : conn'[d] = IF d = c THEN "reading"
                           ELSE IF d = c + 1 THEN "listening" ELSE conn[d]
    BY DEF Accept, BaseInv, TypeOK, ConnPc
  <1>2. UNCHANGED <<expired, timer, closed, request, writing, answer, work, service>>
    BY DEF Accept
  <1>3. \A d \in Conns : d # c => conn[d] # "listening"
    BY <1>1, ConnsAreNumbers DEF BaseInv, BuiltInv
  <1>4. BuiltInv'
    <2> SUFFICES ASSUME NEW d \in Conns, NEW e \in Conns, conn'[d] = "listening", d < e
                 PROVE  conn'[e] = "none"
      BY DEF BuiltInv
    <2>1. d = c + 1
      BY <1>1, <1>3
    <2>2. c < e /\ e # c /\ e # c + 1
      BY <2>1, ConnsAreNumbers
    <2> QED BY <1>1, <2>2 DEF BaseInv, BuiltInv
  <1>5. SilenceInv'
    <2>1. \A d \in Conns : d = c + 1 => conn[d] = "none"
      BY <1>1, ConnsAreNumbers DEF BaseInv, BuiltInv
    <2>2. UNCHANGED <<expired, timer, closed, request, answer, gone>>
      BY <1>2 DEF service
    <2>3. \A d \in Conns : conn[d] \in {"handling"} \cup Pushed => conn'[d] = conn[d]
      BY <1>1, <2>1 DEF Pushed
    <2>4. \A d \in Conns : conn'[d] \in {"handling", "idle"} => conn'[d] = conn[d]
      BY <1>1
    <2> SUFFICES ASSUME NEW d \in Conns
                 PROVE  /\ request'[d] # Nobody => conn'[d] \in {"handling"} \cup Pushed
                        /\ conn'[d] = "handling" => request'[d] # Nobody
                        /\ d \in closed' => d \in expired' /\ conn'[d] = "idle"
                        /\ conn'[d] = "idle" /\ request'[d] # Nobody /\ timer'[d] # "waiting" =>
                             answer'[d] # Nobody \/ d \in expired' \/ "pool" \in gone'
      BY DEF SilenceInv
    <2>5. \/ conn'[d] = conn[d]
          \/ conn[d] \notin {"handling"} \cup Pushed /\ conn'[d] \notin {"handling", "idle"}
      BY <2>3, <2>4
    <2> QED BY <2>2, <2>5 DEF BaseInv, SilenceInv, Pushed
  <1>6. TypeOK'
    BY <1>1, <1>2 DEF BaseInv, TypeOK, ConnPc, work, service
  <1> QED BY <1>4, <1>5, <1>6 DEF BaseInv

LEMMA HandleRequestBase ==
  ASSUME BaseInv, NEW c \in Conns, HandleRequest(c) PROVE BaseInv'
  <1>1. /\ conn[c] = "handling"
        /\ UNCHANGED <<expired, timer, closed, request, writing, answer,
                       lock, pc, task, isStop, main, gone>>
        /\ up' \in BOOLEAN
        /\ \E p \in {"arming", "notifying"} : conn' = [conn EXCEPT ![c] = p]
    BY DEF HandleRequest, BaseInv, TypeOK
  <1>2. queue' \in Seq(Conns) /\ Len(queue') <= QueueMaxSize + 1
    BY QueuePush DEF HandleRequest, BaseInv, TypeOK
  <1>3. TypeOK'
    BY <1>1, <1>2 DEF BaseInv, TypeOK, service
  <1>4. BuiltInv'
    BY <1>1 DEF BaseInv, TypeOK, BuiltInv
  <1>5. SilenceInv'
    BY <1>1 DEF BaseInv, TypeOK, SilenceInv, Pushed
  <1> QED BY <1>3, <1>4, <1>5 DEF BaseInv

LEMMA NotifyBase == ASSUME BaseInv, NEW c \in Conns, Notify(c) PROVE BaseInv'
  <1>1. /\ pc' \in [Workers -> {"ready", "blocking", "asleep", "handling",
                                "stopping", "draining", "done"}]
        /\ \A w \in Workers : task[w] # Nobody <=> pc'[w] = "handling"
    BY DEF Notify, BaseInv, TypeOK
  <1>2. /\ conn[c] = "notifying" /\ conn' = [conn EXCEPT ![c] = "arming"]
        /\ UNCHANGED <<expired, timer, closed, request, writing, answer, queue, lock, task,
                       isStop, main, gone>>
        /\ up' \in BOOLEAN
    BY DEF Notify, BaseInv, TypeOK
  <1>3. TypeOK'
    BY <1>1, <1>2 DEF BaseInv, TypeOK, service
  <1>4. BuiltInv'
    BY <1>2 DEF BaseInv, TypeOK, BuiltInv
  <1>5. SilenceInv'
    BY <1>2 DEF BaseInv, TypeOK, SilenceInv, Pushed
  <1> QED BY <1>3, <1>4, <1>5 DEF BaseInv

LEMMA ConnBase == ASSUME BaseInv, NEW c \in Conns, ConnStep(c) PROVE BaseInv'
  <1> USE DEF work, service
  <1>1. CASE AcceptError(c) \/ Expire(c)
    <2>1. TypeOK' /\ BuiltInv'
      BY <1>1 DEF AcceptError, Expire, BaseInv, TypeOK, BuiltInv
    <2>2. /\ UNCHANGED <<conn, timer, closed, request, answer, gone>>
          /\ \A d \in Conns : conn[d] # "listening" /\ d \in expired => d \in expired'
      BY <1>1 DEF AcceptError, Expire
    <2>3. SilenceInv'
      BY <2>2 DEF BaseInv, SilenceInv, Pushed
    <2> QED BY <2>1, <2>3 DEF BaseInv
  <1>2. ASSUME NEW k \in Kinds, Read(c, k) PROVE BaseInv'
    <2>1. TypeOK' /\ BuiltInv'
      BY <1>2 DEF Read, BaseInv, TypeOK, BuiltInv
    <2>2. /\ conn[c] = "reading" /\ conn' = [conn EXCEPT ![c] = "handling"]
          /\ request' = [request EXCEPT ![c] = k] /\ k # Nobody
          /\ UNCHANGED <<expired, timer, closed, answer, gone>>
      BY <1>2, GateAssumption DEF Read
    <2>3. SilenceInv'
      BY <2>2 DEF BaseInv, TypeOK, SilenceInv, Pushed
    <2> QED BY <2>1, <2>3 DEF BaseInv
  <1>3. CASE ReadError(c)
    BY <1>3 DEF ReadError, BaseInv, TypeOK, BuiltInv, SilenceInv, Pushed
  <1>4. CASE checkDeadLine(c)
    BY <1>4 DEF checkDeadLine, BaseInv, TypeOK, BuiltInv, SilenceInv, Pushed
  <1>5. CASE DeadLine(c)
    <2>1. TypeOK' /\ BuiltInv'
      BY <1>5 DEF DeadLine, BaseInv, TypeOK, BuiltInv
    <2>2. /\ conn[c] = "idle" /\ c \in expired /\ timer' = [timer EXCEPT ![c] = "over"]
          /\ closed' = closed \cup {c}
          /\ UNCHANGED <<conn, expired, request, answer, gone>>
      BY <1>5 DEF DeadLine
    <2>3. SilenceInv'
      BY <2>2 DEF BaseInv, TypeOK, SilenceInv
    <2> QED BY <2>1, <2>3 DEF BaseInv
  <1>6. ASSUME NEW received \in BOOLEAN, Written(c, received) PROVE BaseInv'
    <2>1. PICK a \in Fates : answer' = [answer EXCEPT ![c] = a]
      BY <1>6 DEF Written, Reply, Fates
    <2>2. TypeOK' /\ BuiltInv'
      BY <1>6, <2>1 DEF Written, BaseInv, TypeOK, BuiltInv
    <2>3. /\ conn[c] = "idle" /\ timer' = [timer EXCEPT ![c] = "over"] /\ a # Nobody
          /\ UNCHANGED <<conn, expired, closed, request, gone>>
      BY <1>6, GateAssumption DEF Written
    <2>4. SilenceInv'
      BY <2>1, <2>3 DEF BaseInv, TypeOK, SilenceInv
    <2> QED BY <2>2, <2>4 DEF BaseInv
  <1> QED BY <1>1, <1>2, <1>3, <1>4, <1>5, <1>6,
             AcceptBase, HandleRequestBase, NotifyBase DEF ConnStep

\* The end of main: nothing is forgotten but what the pool and the queue held.
LEMMA MainBase == ASSUME BaseInv, MainStep PROVE BaseInv'
  <1> USE DEF BaseInv, TypeOK, BuiltInv, SilenceInv, Pushed, work, io
  <1>1. CASE CloseStop \/ PoolStop \/ Exit
    <2>1. TypeOK' /\ UNCHANGED io /\ gone' = gone
      BY <1>1 DEF CloseStop, PoolStop, Exit
    <2> QED BY <2>1, SilenceSame
  <1>2. CASE CloseNotify
    <2>1. TypeOK' /\ UNCHANGED io /\ gone' = gone
      BY <1>2 DEF CloseNotify
    <2> QED BY <2>1, SilenceSame
  <1>3. CASE CloseJoin
    <2>1. queue' \in Seq(Conns) /\ Len(queue') <= QueueMaxSize + 1
      BY <1>3, GateAssumption DEF CloseJoin
    <2> QED BY <1>3, <2>1 DEF CloseJoin
  <1>4. CASE PoolDestroy
    BY <1>4 DEF PoolDestroy
  <1> QED BY <1>1, <1>2, <1>3, <1>4 DEF MainStep

LEMMA NextBase == ASSUME BaseInv, [Next]_vars PROVE BaseInv'
  <1>1. CASE Signal
    BY <1>1 DEF Signal, BaseInv, TypeOK, BuiltInv, SilenceInv, Pushed, work
  <1>2. CASE UNCHANGED vars
    BY <1>2 DEF vars, BaseInv, TypeOK, BuiltInv, SilenceInv, work, io, service
  <1> QED BY <1>1, <1>2, MainBase, ConnBase, WorkerBase DEF Next

LEMMA AlwaysBase == Spec => []BaseInv
  BY BaseInit, NextBase, PTL DEF Spec

\* Every variable keeps its type, and the queue holds QUEUE_MAX_SIZE + 1 tasks at
\* most (LogicSystem::pushTask).
THEOREM TypeCorrect == Spec => []TypeOK
  <1>1. BaseInv => TypeOK
    BY DEF BaseInv
  <1> QED BY <1>1, AlwaysBase, PTL

\* As long as the pool of io_contexts exists, only the deadline or a failing write
\* leaves a request unanswered (HttpConnection::start, checkDeadLine;
\* LogicSystem::pushTask, close; AsioIOcontextPool::stop).
THEOREM SilenceExplained == Spec => []OnlyDeadlineSilences
  <1>1. BaseInv => OnlyDeadlineSilences
    BY DEF BaseInv, TypeOK, SilenceInv, Pushed, OnlyDeadlineSilences, Open, Held
  <1> QED BY <1>1, AlwaysBase, PTL

-----------------------------------------------------------------------------
LEMMA HeldOwned ==
  ASSUME BaseInv
  PROVE  \A c : Held(c) <=>
           conn[c] \notin {"none", "idle"} \/ timer[c] = "waiting" \/ Owned(c)
  <1>1. \A c : c \in ToSet(queue) <=> \E i \in 1..Len(queue) : queue[i] = c
    BY DEF ToSet, BaseInv, TypeOK
  <1> QED BY <1>1 DEF Held, Owned

LEMMA HeldOwnedNext ==
  ASSUME BaseInv'
  PROVE  \A c \in Conns : Held(c)' <=>
           conn'[c] \notin {"none", "idle"} \/ timer'[c] = "waiting" \/ Owned(c)'
  <1>1. \A c : (c \in ToSet(queue))' <=> \E i \in 1..Len(queue') : queue'[i] = c
    BY DEF ToSet, BaseInv, TypeOK
  <1> QED BY <1>1 DEF Held, Owned

LEMMA OwnerInit == Init => OwnerInv /\ AnswerInv
  BY DEF Init, OwnerInv, AnswerInv

\* What was pushed stays pushed, an idle connection idle, and no step but the push
\* makes a request owned.
LEMMA Progress ==
  ASSUME BaseInv, Next
  PROVE  /\ \A d \in Conns : Due(d) => Due(d)'
         /\ \A d \in Conns : conn[d] = "idle" => conn'[d] = "idle"
         /\ closed \subseteq closed'
  <1> USE DEF BaseInv, TypeOK, Due, Pushed, work, service, io
  <1>1. ASSUME NEW c \in Conns, ConnStep(c)
        PROVE  /\ \A d \in Conns : Due(d) => Due(d)'
               /\ \A d \in Conns : conn[d] = "idle" => conn'[d] = "idle"
               /\ closed \subseteq closed'
    <2>1. CASE Accept(c)
      <3>1. \A d \in Conns : d = c + 1 => conn[d] = "none"
        BY <2>1, ConnsAreNumbers DEF Accept, BuiltInv
      <3> QED BY <2>1, <3>1 DEF Accept
    <2>2. CASE AcceptError(c) \/ Expire(c) \/ ReadError(c)
      BY <2>2 DEF AcceptError, Expire, ReadError
    <2>3. ASSUME NEW k \in Kinds, Read(c, k)
          PROVE  /\ \A d \in Conns : Due(d) => Due(d)'
                 /\ \A d \in Conns : conn[d] = "idle" => conn'[d] = "idle"
                 /\ closed \subseteq closed'
      BY <2>3 DEF Read
    <2>4. CASE HandleRequest(c)
      BY <2>4 DEF HandleRequest
    <2>5. CASE Notify(c) \/ checkDeadLine(c) \/ DeadLine(c)
      BY <2>5 DEF Notify, checkDeadLine, DeadLine
    <2>6. ASSUME NEW received \in BOOLEAN, Written(c, received)
          PROVE  UNCHANGED <<conn, request, closed>>
      BY <2>6 DEF Written
    <2> QED BY <1>1, <2>1, <2>2, <2>3, <2>4, <2>5, <2>6 DEF ConnStep
  <1>2. ASSUME NEW w \in Workers, WorkerStep(w) PROVE UNCHANGED <<conn, request, closed>>
    BY <1>2 DEF WorkerStep, Check, Block, Spurious, Handle, DrainStart, Drain, DrainEnd
  <1>3. CASE Signal
    BY <1>3 DEF Signal
  <1>4. CASE CloseStop \/ CloseNotify \/ CloseJoin \/ PoolStop \/ Exit
    BY <1>4 DEF CloseStop, CloseNotify, CloseJoin, PoolStop, Exit
  <1>5. CASE PoolDestroy
    BY <1>5 DEF PoolDestroy
  <1> QED BY <1>1, <1>2, <1>3, <1>4, <1>5 DEF Next, MainStep

\* A step that moves no request keeps it with its owner.
LEMMA OwnerSame ==
  ASSUME BaseInv, OwnerInv, UNCHANGED <<queue, task, writing>>,
         \A d \in Conns : Due(d) => Due(d)'
  PROVE  OwnerInv' /\ \A d \in Conns : Owned(d)' <=> Owned(d)
  <1>1. /\ \A i \in 1..Len(queue) : queue[i] \in Conns
        /\ \A w \in Workers : task[w] # Nobody => task[w] \in Conns
        /\ \A c \in writing : c \in Conns
    BY DEF BaseInv, TypeOK
  <1>2. \A i \in 1..Len(queue) : Due(queue[i])'
    BY <1>1 DEF OwnerInv
  <1>3. \A w \in Workers : task[w] # Nobody => Due(task[w])'
    BY <1>1 DEF OwnerInv
  <1>4. \A c \in writing : Due(c)'
    BY <1>1 DEF OwnerInv
  <1> QED BY <1>2, <1>3, <1>4 DEF OwnerInv, Owned

LEMMA PushOwner ==
  ASSUME BaseInv, OwnerInv, NEW c \in Conns, HandleRequest(c),
         queue' # queue, \A d \in Conns : Due(d) => Due(d)'
  PROVE  OwnerInv' /\ \A d \in Conns : Owned(d)' => Owned(d) \/ conn[d] = "handling"
  <1>1. /\ ~Full /\ conn[c] = "handling" /\ conn' = [conn EXCEPT ![c] = "notifying"]
        /\ queue' = Append(queue, c)
        /\ UNCHANGED <<request, writing, task>>
    BY DEF HandleRequest
  <1> DEFINE n == Len(queue)
  <1>2. /\ n \in Nat /\ Len(queue') = n + 1 /\ queue'[n + 1] = c
        /\ \A i \in 1..n : queue'[i] = queue[i]
    BY <1>1, QueuePush DEF BaseInv, TypeOK
  <1>3. \A i \in 1..(n + 1) : i \in 1..n \/ i = n + 1
    BY <1>2
  <1>4. /\ Due(c)' /\ ~Due(c)
        /\ \A i \in 1..n : queue[i] \in Conns
        /\ \A w \in Workers : task[w] # Nobody => task[w] \in Conns
        /\ \A d \in writing : d \in Conns
    BY <1>1 DEF BaseInv, TypeOK, SilenceInv, Due, Pushed
  <1>5. /\ \A i \in 1..n : queue[i] # c
        /\ \A w \in Workers : task[w] # c
        /\ c \notin writing
    BY <1>4, GateAssumption DEF OwnerInv
  <1> HIDE DEF n
  <1>6. /\ \A i \in 1..(n + 1) : Due(queue[i])' /\ queue'[i] \notin writing
        /\ \A i, j \in 1..(n + 1) : queue'[i] = queue'[j] => i = j
        /\ \A w \in Workers, i \in 1..(n + 1) : task[w] # queue'[i]
    BY <1>2, <1>3, <1>4, <1>5 DEF OwnerInv, n
  <1>7. /\ \A w \in Workers : task[w] # Nobody => Due(task[w])'
        /\ \A d \in writing : Due(d)'
    BY <1>1, <1>4 DEF OwnerInv
  <1>8. OwnerInv'
    BY <1>1, <1>2, <1>6, <1>7 DEF OwnerInv
  <1>9. \A d \in Conns : Owned(d)' => Owned(d) \/ d = c
    BY <1>1, <1>2, <1>3 DEF Owned, n
  <1> QED BY <1>1, <1>8, <1>9

\* The head of the queue goes to a worker's hand, to the write, or is lost with the
\* process.
LEMMA PopOwner ==
  ASSUME BaseInv, OwnerInv, UNCHANGED <<conn, request>>,
         queue # <<>>, queue' = Tail(queue),
         \/ /\ UNCHANGED writing
            /\ \E w \in Workers : task' = [task EXCEPT ![w] = Head(queue)]
         \/ UNCHANGED task /\ writing' \in {writing, writing \cup {Head(queue)}}
  PROVE  OwnerInv' /\ \A d \in Conns : Owned(d)' => Owned(d)
  <1> DEFINE n == Len(queue)
             h == Head(queue)
  <1>1. /\ n \in Nat \ {0} /\ h = queue[1] /\ h \in Conns
        /\ Len(queue') = n - 1
        /\ \A i \in 1..(n - 1) : queue'[i] = queue[i + 1]
    BY QueuePop DEF BaseInv, TypeOK
  <1>2. /\ 1 \in 1..n /\ \A i \in 1..(n - 1) : i + 1 \in 1..n /\ i + 1 # 1
        /\ \A i, j \in 1..(n - 1) : i + 1 = j + 1 => i = j
    BY <1>1
  <1>3. /\ \A d : Due(d)' <=> Due(d)
        /\ task \in [Workers -> Conns \cup {Nobody}]
    BY DEF Due, BaseInv, TypeOK
  <1>4. /\ Due(h) /\ h \notin writing /\ \A w \in Workers : task[w] # h
        /\ \A i \in 1..(n - 1) : queue'[i] # h /\ Due(queue'[i]) /\ queue'[i] \notin writing
        /\ \A i, j \in 1..(n - 1) : queue'[i] = queue'[j] => i = j
        /\ \A w \in Workers, i \in 1..(n - 1) : task[w] # queue'[i]
    BY <1>1, <1>2 DEF OwnerInv
  <1>5. CASE UNCHANGED writing /\ \E w \in Workers : task' = [task EXCEPT ![w] = h]
    <2> PICK w \in Workers : task' = [task EXCEPT ![w] = h]
      BY <1>5
    <2>1. \A v \in Workers : task'[v] = IF v = w THEN h ELSE task[v]
      BY <1>3
    <2>2. OwnerInv'
      BY <1>1, <1>3, <1>4, <1>5, <2>1 DEF OwnerInv
    <2> QED BY <1>1, <1>2, <1>5, <2>1, <2>2 DEF Owned
  <1>6. CASE UNCHANGED task /\ writing' \in {writing, writing \cup {h}}
    <2>1. OwnerInv'
      BY <1>1, <1>3, <1>4, <1>6 DEF OwnerInv
    <2> QED BY <1>1, <1>2, <1>6, <2>1 DEF Owned
  <1> QED BY <1>5, <1>6

LEMMA HandleOwner ==
  ASSUME BaseInv, OwnerInv, NEW w \in Workers, Handle(w)
  PROVE  OwnerInv' /\ \A d \in Conns : Owned(d)' => Owned(d)
  <1>1. /\ UNCHANGED <<conn, request, queue>> /\ task[w] # Nobody
        /\ \A v \in Workers : task'[v] = IF v = w THEN Nobody ELSE task[v]
        /\ writing' \in {writing, writing \cup {task[w]}}
    BY DEF Handle, Respond, BaseInv, TypeOK
  <1>2. \A d : Due(d)' <=> Due(d)
    BY <1>1 DEF Due
  <1>3. Nobody \notin writing
    BY GateAssumption DEF BaseInv, TypeOK
  <1>4. /\ Due(task[w]) /\ \A v \in Workers \ {w} : task[v] # task[w]
        /\ \A i \in 1..Len(queue) : task[w] # queue[i] /\ Nobody # queue[i]
    BY <1>1, GateAssumption DEF OwnerInv, BaseInv, TypeOK
  <1>5. /\ \A c \in writing' : Due(c)
        /\ \A i \in 1..Len(queue) : queue[i] \notin writing'
        /\ \A v \in Workers : task'[v] \notin writing'
    BY <1>1, <1>3, <1>4 DEF OwnerInv
  <1>6. OwnerInv'
    BY <1>1, <1>2, <1>4, <1>5 DEF OwnerInv
  <1> QED BY <1>1, <1>6, GateAssumption DEF Owned

\* The end of the queue, or of the writes, leaves the others their requests.
LEMMA FewerOwned ==
  ASSUME BaseInv, OwnerInv, UNCHANGED task,
         \/ queue' = <<>> /\ UNCHANGED writing
         \/ UNCHANGED queue /\ writing' = {},
         \A d \in Conns : Due(d) => Due(d)'
  PROVE  OwnerInv' /\ \A d \in Conns : Owned(d)' => Owned(d)
  <1>1. /\ \A i \in 1..Len(queue) : queue[i] \in Conns
        /\ \A w \in Workers : task[w] # Nobody => task[w] \in Conns
        /\ \A c \in writing : c \in Conns
    BY DEF BaseInv, TypeOK
  <1>2. /\ queue' = queue => \A i \in 1..Len(queue) : Due(queue[i])'
        /\ \A w \in Workers : task[w] # Nobody => Due(task[w])'
        /\ \A c \in writing : Due(c)'
    BY <1>1 DEF OwnerInv
  <1>3. \A i : i \notin 1..Len(<<>>)
    OBVIOUS
  <1> QED BY <1>1, <1>2, <1>3 DEF OwnerInv, Owned

\* Each step keeps requests with one owner, and none but the push makes one owned.
LEMMA NextOwner ==
  ASSUME BaseInv, OwnerInv, Next
  PROVE  OwnerInv' /\ \A d \in Conns : Owned(d)' => Owned(d) \/ conn[d] = "handling"
  <1> USE Progress DEF work, io, service
  <1>1. ASSUME UNCHANGED <<queue, task, writing>>
        PROVE  OwnerInv' /\ \A d \in Conns : Owned(d)' => Owned(d) \/ conn[d] = "handling"
    BY <1>1, OwnerSame
  <1>2. ASSUME NEW c \in Conns, ConnStep(c)
        PROVE  OwnerInv' /\ \A d \in Conns : Owned(d)' => Owned(d) \/ conn[d] = "handling"
    <2>1. CASE Accept(c) \/ AcceptError(c) \/ Expire(c)
      BY <1>1, <2>1 DEF Accept, AcceptError, Expire
    <2>2. CASE ReadError(c) \/ \E k \in Kinds : Read(c, k)
      BY <1>1, <2>2 DEF ReadError, Read
    <2>3. CASE Notify(c) \/ checkDeadLine(c) \/ DeadLine(c)
      BY <1>1, <2>3 DEF Notify, checkDeadLine, DeadLine
    <2>4. CASE HandleRequest(c)
      <3>1. CASE UNCHANGED queue
        BY <1>1, <2>4, <3>1 DEF HandleRequest
      <3>2. CASE queue' # queue
        BY <2>4, <3>2, PushOwner
      <3> QED BY <3>1, <3>2
    <2>5. ASSUME NEW received \in BOOLEAN, Written(c, received)
          PROVE  OwnerInv' /\ \A d \in Conns : Owned(d)' => Owned(d)
      <3>1. UNCHANGED <<conn, request, queue, task>> /\ writing' = writing \ {c}
        BY <2>5 DEF Written
      <3>2. \A d : Due(d)' <=> Due(d)
        BY <3>1 DEF Due
      <3> QED BY <3>1, <3>2 DEF OwnerInv, Owned
    <2> QED BY <1>2, <2>1, <2>2, <2>3, <2>4, <2>5 DEF ConnStep
  <1>3. ASSUME NEW w \in Workers, WorkerStep(w)
        PROVE  OwnerInv' /\ \A d \in Conns : Owned(d)' => Owned(d) \/ conn[d] = "handling"
    <2>1. CASE Check(w)
      <3>1. CASE UNCHANGED <<queue, task>>
        BY <1>1, <2>1, <3>1 DEF Check
      <3>2. CASE ~UNCHANGED <<queue, task>>
        BY <2>1, <3>2, PopOwner DEF Check
      <3> QED BY <3>1, <3>2
    <2>2. CASE Block(w) \/ Spurious(w) \/ DrainStart(w) \/ DrainEnd(w)
      BY <1>1, <2>2 DEF Block, Spurious, DrainStart, DrainEnd
    <2>3. CASE Handle(w)
      BY <2>3, HandleOwner
    <2>4. CASE Drain(w)
      BY <2>4, PopOwner DEF Drain, Respond
    <2> QED BY <1>3, <2>1, <2>2, <2>3, <2>4 DEF WorkerStep
  <1>4. CASE Signal \/ CloseStop \/ CloseNotify \/ PoolStop \/ Exit
    BY <1>1, <1>4 DEF Signal, CloseStop, CloseNotify, PoolStop, Exit
  <1>5. CASE CloseJoin \/ PoolDestroy
    <2>1. /\ UNCHANGED task
          /\ \/ queue' = <<>> /\ UNCHANGED writing
             \/ UNCHANGED queue /\ writing' = {}
      BY <1>5 DEF CloseJoin, PoolDestroy
    <2> QED BY <2>1, FewerOwned
  <1> QED BY <1>2, <1>3, <1>4, <1>5 DEF Next, MainStep

\* Only the end of a write decides on an answer, and ends what was owned.
LEMMA WrittenDisowns ==
  ASSUME BaseInv, OwnerInv, NEW c \in Conns, NEW received \in BOOLEAN, Written(c, received)
  PROVE  ~Owned(c)' /\ conn'[c] = "idle"
  BY DEF Written, work, OwnerInv, Owned

LEMMA AnswerSame ==
  ASSUME Next, ~(\E c \in Conns, received \in BOOLEAN : Written(c, received))
  PROVE  UNCHANGED answer
  BY DEF Next, ConnStep, WorkerStep, Accept, AcceptError, Expire, Read, ReadError,
         HandleRequest, Notify, checkDeadLine, DeadLine, Check, Block, Spurious, Handle,
         DrainStart, Drain, DrainEnd, Signal, MainStep, CloseStop, CloseNotify, CloseJoin,
         PoolStop, PoolDestroy, Exit, io

LEMMA NextAnswer == ASSUME IInv, Next PROVE AnswerInv'
  <1>1. \A d \in Conns : answer[d] # Nobody => conn'[d] = "idle" /\ ~Owned(d)'
    BY NextOwner, Progress DEF IInv, AnswerInv
  <1>2. ASSUME NEW c \in Conns, NEW received \in BOOLEAN, Written(c, received)
        PROVE  AnswerInv'
    <2>1. \A d \in Conns : d # c => answer'[d] = answer[d]
      BY <1>2 DEF Written, IInv, BaseInv, TypeOK
    <2>2. ~Owned(c)' /\ conn'[c] = "idle"
      BY <1>2, WrittenDisowns DEF IInv
    <2> QED BY <1>1, <2>1, <2>2 DEF AnswerInv
  <1>3. CASE UNCHANGED answer
    BY <1>1, <1>3 DEF AnswerInv
  <1> QED BY <1>2, <1>3, AnswerSame

LEMMA NextInv == ASSUME IInv, [Next]_vars PROVE IInv'
  <1>1. CASE Next
    BY <1>1, NextBase, NextOwner, NextAnswer DEF IInv
  <1>2. CASE UNCHANGED vars
    BY <1>2, NextBase DEF vars, io, work, IInv, OwnerInv, AnswerInv, Owned, Due
  <1> QED BY <1>1, <1>2

LEMMA AlwaysInv == Spec => []IInv
  <1>1. Init => IInv
    BY BaseInit, OwnerInit DEF IInv
  <1> QED BY <1>1, NextInv, PTL DEF Spec

-----------------------------------------------------------------------------
(* The refinement.                                                          *)

\* The connections that HttpExchange takes for closed, and the answers it sees.
Over == {c \in Conns : ~up \/ c \in closed \/ (conn[c] = "idle" /\ ~Held(c))}
Said == [c \in Conns |-> IF answer[c] = "lost" THEN Nobody ELSE answer[c]]

\* A wait for the deadline is only started after the push.
LEMMA TimerStarts ==
  ASSUME BaseInv, Next
  PROVE  \A d \in Conns : timer'[d] = "waiting" => timer[d] = "waiting" \/ conn[d] = "arming"
  <1> USE DEF io
  <1>1. ASSUME NEW c \in Conns, checkDeadLine(c) PROVE timer' = [timer EXCEPT ![c] = "waiting"]
    BY <1>1 DEF checkDeadLine
  <1>2. ASSUME NEW c \in Conns, DeadLine(c) \/ \E received \in BOOLEAN : Written(c, received)
        PROVE  timer' = [timer EXCEPT ![c] = "over"]
    BY <1>2 DEF DeadLine, Written
  <1>3. CASE PoolDestroy
    BY <1>3 DEF PoolDestroy
  <1>4. \/ UNCHANGED timer
        \/ PoolDestroy
        \/ \E c \in Conns : \/ checkDeadLine(c) \/ DeadLine(c)
                           \/ \E received \in BOOLEAN : Written(c, received)
    BY DEF Next, ConnStep, WorkerStep, Accept, AcceptError, Expire, Read, ReadError,
           HandleRequest, Notify, Check, Block, Spurious, Handle,
           DrainStart, Drain, DrainEnd, Signal, MainStep, CloseStop, CloseNotify, CloseJoin,
           PoolStop, PoolDestroy, Exit
  <1>5. \A c \in Conns : checkDeadLine(c) => conn[c] = "arming"
    BY DEF checkDeadLine
  <1> QED BY <1>1, <1>2, <1>3, <1>4, <1>5 DEF BaseInv, TypeOK

\* A connection that is over stays over.
LEMMA OverGrows == ASSUME IInv, Next PROVE Over \subseteq Over'
  <1> SUFFICES ASSUME NEW d \in Conns, d \in Over PROVE d \in Over'
    BY DEF Over
  <1>1. BaseInv'
    BY NextBase DEF IInv
  <1>2. up
    BY DEF Next
  <1>3. CASE d \in closed
    BY <1>3, Progress DEF Over, IInv
  <1>4. CASE conn[d] = "idle" /\ ~Held(d)
    <2>1. conn'[d] = "idle" /\ ~Owned(d)'
      BY <1>4, Progress, NextOwner, HeldOwned DEF IInv
    <2>2. timer'[d] # "waiting"
      BY <1>4, TimerStarts DEF IInv, Held
    <2>3. ~Held(d)'
      BY <1>1, <2>1, <2>2, HeldOwnedNext
    <2> QED BY <2>1, <2>3 DEF Over
  <1> QED BY <1>2, <1>3, <1>4 DEF Over

\* A step that reads and answers nothing closes some connections or none.
LEMMA OtherStep ==
  ASSUME IInv, Next, UNCHANGED <<request, answer>>
  PROVE  \E cs \in SUBSET (Conns \ Over) : Exchange!Close(cs)
  <1>1. Over' \ Over \in SUBSET (Conns \ Over) /\ Over' = Over \cup (Over' \ Over)
    BY OverGrows DEF Over
  <1>2. PICK cs \in SUBSET (Conns \ Over) : Over' = Over \cup cs
    BY <1>1
  <1>3. Exchange!Close(cs)
    BY <1>2 DEF Exchange!Close, Over
  <1> QED BY <1>2, <1>3

\* Reading asks.
LEMMA ReadStep ==
  ASSUME IInv, Next, NEW c \in Conns, NEW k \in Kinds, Read(c, k)
  PROVE  Exchange!Ask(c, k)
  <1>1. /\ conn[c] = "reading" /\ up
        /\ conn' = [conn EXCEPT ![c] = "handling"]
        /\ request' = [request EXCEPT ![c] = k]
        /\ UNCHANGED <<timer, closed, writing, answer, queue, task, up>>
    BY DEF Next, Read, work, service
  <1>2. request[c] = Nobody /\ c \notin closed
    BY <1>1 DEF IInv, BaseInv, TypeOK, SilenceInv, Pushed
  <1>3. c \notin Over
    BY <1>1, <1>2 DEF Over
  <1>4. \A d \in Conns \ {c} : conn'[d] = conn[d]
    BY <1>1 DEF IInv, BaseInv, TypeOK
  <1>5. conn'[c] = "handling"
    BY <1>1 DEF IInv, BaseInv, TypeOK
  <1>6. Over' = Over
    BY <1>1, <1>3, <1>2, <1>4, <1>5 DEF Over, Held
  <1> QED BY <1>1, <1>2, <1>3, <1>6 DEF Exchange!Ask, Over

\* The end of a write answers, unless the client is gone or its connection closed.
LEMMA WrittenStep ==
  ASSUME IInv, Next, NEW c \in Conns, NEW received \in BOOLEAN, Written(c, received)
  PROVE  Exchange!Next
  <1>1. /\ c \in writing /\ conn[c] = "idle" /\ up
        /\ received => c \notin closed
        /\ answer' = [answer EXCEPT ![c] = IF received THEN Reply(request[c]) ELSE "lost"]
        /\ timer' = [timer EXCEPT ![c] = "over"]
        /\ writing' = writing \ {c}
        /\ UNCHANGED <<conn, request, closed, queue, task, up>>
    BY DEF Next, Written, work, service
  <1>2. request[c] \in Kinds
    BY <1>1 DEF IInv, BaseInv, TypeOK, OwnerInv, Due
  <1>3. answer[c] = Nobody
    BY <1>1 DEF IInv, AnswerInv, Owned
  <1>4. \E cs \in SUBSET (Conns \ Over) : Over' = Over \cup cs
    <2> DEFINE new == Over' \ Over
    <2>1. new \in SUBSET (Conns \ Over) /\ Over' = Over \cup new
      BY OverGrows DEF Over
    <2> HIDE DEF new
    <2> QED BY <2>1
  <1>5. CASE ~received
    <2>1. Said' = Said
      BY <1>1, <1>3, <1>5 DEF Said, IInv, BaseInv, TypeOK
    <2>2. PICK cs \in SUBSET (Conns \ Over) : Over' = Over \cup cs
      BY <1>4
    <2>3. Exchange!Close(cs)
      BY <1>1, <2>1, <2>2 DEF Exchange!Close, Over, Said
    <2> QED BY <2>2, <2>3 DEF Exchange!Next, Over
  <1>6. CASE received
    <2>1. c \notin Over
      BY <1>1, <1>6 DEF Over, Held
    <2>2. ~Held(c)' /\ BaseInv'
      <3>1. BaseInv'
        BY NextBase DEF IInv
      <3>2. timer'[c] # "waiting"
        BY <1>1 DEF IInv, BaseInv, TypeOK
      <3>3. ~Owned(c)' /\ conn'[c] = "idle"
        BY WrittenDisowns DEF IInv
      <3> QED BY <3>1, <3>2, <3>3, HeldOwnedNext
    <2>3. \A d \in Conns \ {c} : Held(d)' <=> Held(d)
      BY <1>1 DEF Held, IInv, BaseInv, TypeOK
    <2>4. Over' = Over \cup {c}
      BY <1>1, <2>2, <2>3 DEF Over
    <2>5. Said' = [Said EXCEPT ![c] = Reply(request[c])]
      BY <1>1, <1>2, <1>6 DEF Said, IInv, BaseInv, TypeOK, Reply
    <2>6. Exchange!Answer(c)
      BY <1>1, <1>2, <2>1, <2>4, <2>5, GateAssumption DEF Exchange!Answer, Over, Said
    <2> QED BY <2>6 DEF Exchange!Next
  <1> QED BY <1>5, <1>6

LEMMA RequestSame ==
  ASSUME Next, ~(\E c \in Conns, k \in Kinds : Read(c, k))
  PROVE  UNCHANGED request
  BY DEF Next, ConnStep, WorkerStep, Accept, AcceptError, Expire, ReadError, Written,
         HandleRequest, Notify, checkDeadLine, DeadLine, Check, Block, Spurious, Handle,
         DrainStart, Drain, DrainEnd, Signal, MainStep, CloseStop, CloseNotify, CloseJoin,
         PoolStop, PoolDestroy, Exit, io

\* GateRequest implements HttpExchange: a request is answered once at most, with the
\* answer it is due, and nothing follows it on its connection.
THEOREM Refinement == Spec => ImplementsExchange
  <1>1. Init => Exchange!Init
    BY GateAssumption DEF Init, Exchange!Init, Held, ToSet
  <1>2. IInv /\ [Next]_vars => [Exchange!Next]_Exchange!vars
    <2> SUFFICES ASSUME IInv, [Next]_vars PROVE [Exchange!Next]_Exchange!vars
      OBVIOUS
    <2>1. ASSUME NEW c \in Conns, NEW k \in Kinds, Read(c, k), Next PROVE Exchange!Next
      BY <2>1, ReadStep DEF Exchange!Next
    <2>2. ASSUME NEW c \in Conns, NEW received \in BOOLEAN, Written(c, received), Next
          PROVE  Exchange!Next
      BY <2>2, WrittenStep
    <2>3. CASE Next /\ UNCHANGED <<request, answer>>
      BY <2>3, OtherStep DEF Exchange!Next, Over
    <2>4. CASE UNCHANGED vars
      BY <2>4 DEF vars, io, work, service, Exchange!vars, Held
    <2> QED BY <2>1, <2>2, <2>3, <2>4, RequestSame, AnswerSame
  <1> QED BY <1>1, <1>2, AlwaysInv, PTL DEF Spec, ImplementsExchange, Exchange!Spec
\* Nobody is answered before asking, and every answer fits its question.
ExchangeInv ==
  /\ Exchange!AnswersFit
  /\ \A c \in Conns : request[c] = Nobody => Said[c] = Nobody

LEMMA ExchangeSteps ==
  ASSUME IInv, ExchangeInv, [Exchange!Next]_Exchange!vars
  PROVE  /\ ExchangeInv'
         /\ \A c \in Conns : Said[c] # Nobody => Said'[c] = Said[c] /\ request'[c] = request[c]
  <1> DEFINE Fit(said, asked, over) ==
               \A c \in Conns : /\ said[c] # Nobody => said[c] = Reply(asked[c]) /\ c \in over
                                /\ asked[c] = Nobody => said[c] = Nobody
  <1>1. Fit(Said, request, Over)
    BY DEF ExchangeInv, Exchange!AnswersFit, Said, Over
  <1>2. /\ request \in [Conns -> Kinds \cup {Nobody}]
        /\ Said = [c \in Conns |-> Said[c]] /\ Nobody \notin Kinds
    BY GateAssumption DEF IInv, BaseInv, TypeOK, Said
  <1> DEFINE Goal ==
        /\ Fit(Said', request', Over')
        /\ \A c \in Conns : Said[c] # Nobody => Said'[c] = Said[c] /\ request'[c] = request[c]
  <1>3. Goal
    <2>1. CASE Said' = Said /\ request' = request /\ Over \subseteq Over'
      BY <1>1, <2>1
    <2>2. ASSUME NEW c \in Conns, NEW k \in Kinds, Exchange!Ask(c, k) PROVE Goal
      <3>1. /\ c \notin Over /\ request[c] = Nobody /\ request' = [request EXCEPT ![c] = k]
            /\ Said' = Said /\ Over' = Over
        BY <2>2 DEF Exchange!Ask, Said, Over
      <3> HIDE DEF Said, Over
      <3> QED BY <1>1, <1>2, <3>1
    <2>3. ASSUME NEW c \in Conns, Exchange!Answer(c) PROVE Goal
      <3>1. /\ c \notin Over /\ request[c] # Nobody
            /\ Said' = [Said EXCEPT ![c] = Reply(request[c])]
            /\ Over' = Over \cup {c} /\ request' = request
        BY <2>3 DEF Exchange!Answer, Said, Over
      <3> HIDE DEF Said, Over
      <3> QED BY <1>1, <1>2, <3>1
    <2>4. ASSUME NEW cs, Exchange!Close(cs) PROVE Goal
      <3>1. Said' = Said /\ request' = request /\ Over \subseteq Over'
        BY <2>4 DEF Exchange!Close, Said, Over
      <3> QED BY <2>1, <3>1
    <2>5. CASE UNCHANGED Exchange!vars
      <3>1. Said' = Said /\ request' = request /\ Over \subseteq Over'
        BY <2>5 DEF Exchange!vars, Said, Over
      <3> QED BY <2>1, <3>1
    <2> QED BY <2>2, <2>3, <2>4, <2>5 DEF Exchange!Next
  <1>4. ExchangeInv'
    BY <1>3 DEF ExchangeInv, Exchange!AnswersFit, Said, Over
  <1> QED BY <1>3, <1>4

\* Each client that is answered gets the answer to its own request, on a connection that
\* is over, and neither its answer nor its request ever changes (GateServer's handlers).
THEOREM ClientsAnswered == Spec => []Exchange!AnswersFit /\ Exchange!AnsweredOnce
  <1>1. Init => ExchangeInv
    BY GateAssumption DEF Init, ExchangeInv, Exchange!AnswersFit, Said
  <1>2. ASSUME IInv, ExchangeInv, [Exchange!Next]_Exchange!vars
        PROVE  /\ ExchangeInv'
               /\ [\A c \in Conns : Said[c] # Nobody => Said'[c] = Said[c] /\ request'[c] = request[c]]_Exchange!vars
    BY <1>2, ExchangeSteps
  <1>3. ExchangeInv => Exchange!AnswersFit
    BY DEF ExchangeInv
  <1> QED BY <1>1, <1>2, <1>3, AlwaysInv, Refinement, PTL
          DEF Spec, ImplementsExchange, Exchange!Spec, Exchange!AnsweredOnce, Said
-----------------------------------------------------------------------------
(* Codes *)

\* The calls that are about to look for a code.
Getting == {k \in Calls : call[k].at = "get"}

\* Calls that look for a code are counted before they make one.
BudgetInv == made + Cardinality(Getting) <= MaxCodes

\* Code c was made, mailed or stored for address e.
Owns(e, c) ==
  \/ <<e, c>> \in mails \cup stored
  \/ \E k \in Calls : call[k].at # "idle" /\ call[k].email = e /\ call[k].code = c

\* No code was made for two addresses, and what is in Redis was stored there.
CodeOwnerInv ==
  /\ \A d, e \in Emails, c \in Codes : Owns(d, c) /\ Owns(e, c) => d = e
  /\ \A e \in Emails : code[e] # NoCode => <<e, code[e]>> \in stored

\* What is known of a call from its place.
CallInv ==
  \A k \in Calls :
    /\ call[k].code # NoCode => call[k].code <= made
    /\ call[k].at # "idle" => call[k].email \in Emails
    /\ call[k].at \in {"set", "expire", "mail"} => call[k].code # NoCode
    /\ call[k].at \in {"idle", "get"} => call[k].code = NoCode

\* A form at work has an address and a code that was mailed to somebody.
FormInv ==
  \A f \in Forms : form[f].at # "idle" =>
    /\ form[f].email \in Emails
    /\ \E m \in mails : m[2] = form[f].code

\* A code about to be set is known to its call only, and to no call as an old one.
FreshInv ==
  \A k \in Calls : call[k].at = "set" =>
    /\ \A j \in Calls \ {k} : call[j].code # call[k].code
    /\ \A m \in stored : m[2] # call[k].code
    /\ \A j \in Calls : call[k].code \notin call[j].seen

\* What is stored for the address of a call about to set was stored since it looked.
SeenInv ==
  \A k \in Calls :
    /\ call[k].at # "set" => call[k].seen = {}
    /\ call[k].at = "set" => code[call[k].email] \notin call[k].seen
    /\ call[k].seen \subseteq 1 .. made

Base == VerifyTypeOK /\ CallInv

VerifyInv ==
  /\ Base /\ BudgetInv /\ CodeOwnerInv /\ FormInv /\ FreshInv /\ SeenInv
  /\ ChangedWithMailedCode /\ UnlimitedOnlyByFailure
-----------------------------------------------------------------------------
LEMMA VerifyInitInv == VerifyInit => VerifyInv
  <1> SUFFICES ASSUME VerifyInit PROVE VerifyInv
    OBVIOUS
  <1> USE VerifyAssumption DEF VerifyInit, NoCall, NoForm
  <1>1. Base
    BY DEF Base, VerifyTypeOK, CallInv, Call, Form, Codes
  <1>2. BudgetInv
    <2>1. Getting = {}
      BY DEF Getting
    <2> QED BY <2>1, FS_EmptySet DEF BudgetInv
  <1>3. CodeOwnerInv
    BY DEF CodeOwnerInv, Owns
  <1>4. FormInv /\ FreshInv /\ SeenInv
    BY DEF FormInv, FreshInv, SeenInv
  <1>5. ChangedWithMailedCode /\ UnlimitedOnlyByFailure
    BY DEF ChangedWithMailedCode, UnlimitedOnlyByFailure
  <1> QED BY <1>1, <1>2, <1>3, <1>4, <1>5 DEF VerifyInv

\* A code keeps its owner if none gets a code that had one.
LEMMA OwnersKept ==
  ASSUME CodeOwnerInv, \A e \in Emails, c \in Codes : Owns(e, c)' => Owns(e, c),
         \A e \in Emails : code'[e] # NoCode => <<e, code'[e]>> \in stored'
  PROVE  CodeOwnerInv'
  BY DEF CodeOwnerInv

\* Whoever owns a code owns one that was made.
LEMMA OwnedIsMade ==
  ASSUME Base, NEW e, NEW c \in Codes, Owns(e, c)
  PROVE  c <= made
  BY VerifyAssumption DEF Base, VerifyTypeOK, CallInv, Owns, Codes

LEMMA GettingFinite == IsFiniteSet(Getting) /\ Cardinality(Getting) \in Nat
  BY VerifyAssumption, FS_Subset, FS_CardinalityType DEF Getting
-----------------------------------------------------------------------------
LEMMA ExpireInv == ASSUME VerifyInv, NEW e \in Emails, ExpireCode(e) PROVE VerifyInv'
  <1> USE VerifyAssumption DEF VerifyInv, ExpireCode
  <1>1. Base'
    BY DEF Base, VerifyTypeOK, CallInv, gate
  <1>2. BudgetInv'
    BY DEF BudgetInv, Getting
  <1>3. CodeOwnerInv'
    BY DEF CodeOwnerInv, Owns, Base, VerifyTypeOK
  <1>4. FormInv' /\ FreshInv' /\ ChangedWithMailedCode'
    BY DEF FormInv, FreshInv, gate, ChangedWithMailedCode
  <1>5. SeenInv'
    BY DEF SeenInv, Base, VerifyTypeOK, CallInv
  <1>6. UnlimitedOnlyByFailure'
    BY DEF UnlimitedOnlyByFailure, Base, VerifyTypeOK
  <1> QED BY <1>1, <1>2, <1>3, <1>4, <1>5, <1>6

LEMMA QuitInv == ASSUME VerifyInv, Quit PROVE VerifyInv'
  <1> USE DEF VerifyInv, Quit, redis, gate
  <1>1. Base' /\ CodeOwnerInv'
    <2>1. Base'
      BY DEF Base, VerifyTypeOK, CallInv
    <2>2. \A d, c : Owns(d, c)' <=> Owns(d, c)
      BY DEF Owns
    <2> QED BY <2>1, <2>2 DEF CodeOwnerInv
  <1>2. BudgetInv' /\ FormInv' /\ FreshInv' /\ SeenInv'
    BY DEF BudgetInv, Getting, FormInv, FreshInv, SeenInv
  <1>3. ChangedWithMailedCode' /\ UnlimitedOnlyByFailure'
    BY DEF ChangedWithMailedCode, UnlimitedOnlyByFailure
  <1> QED BY <1>1, <1>2, <1>3

LEMMA RestartInv == ASSUME VerifyInv, Restart PROVE VerifyInv'
  <1> USE VerifyAssumption DEF VerifyInv, Restart, NoCall
  <1>1. Base'
    BY DEF Base, VerifyTypeOK, CallInv, Call, gate
  <1>2. BudgetInv'
    <2>1. Getting' = {}
      BY DEF Getting
    <2> QED BY <2>1, FS_EmptySet, GettingFinite DEF BudgetInv, Base, VerifyTypeOK
  <1>3. CodeOwnerInv'
    BY OwnersKept DEF CodeOwnerInv, Owns
  <1>4. FormInv' /\ FreshInv' /\ SeenInv' /\ ChangedWithMailedCode'
    BY DEF FormInv, FreshInv, SeenInv, gate, ChangedWithMailedCode
  <1>5. UnlimitedOnlyByFailure'
    BY DEF UnlimitedOnlyByFailure
  <1> QED BY <1>1, <1>2, <1>3, <1>4, <1>5

LEMMA GetVerifyCodeInv ==
  ASSUME VerifyInv, NEW k \in Calls, NEW e \in Emails, GetVerifyCode(k, e) PROVE VerifyInv'
  <1> USE VerifyAssumption DEF VerifyInv
  <1>0. /\ call[k].at = "idle"
        /\ made + Cardinality(Getting) < MaxCodes
        /\ call' = [call EXCEPT ![k] = [at |-> "get", email |-> e, code |-> NoCode, seen |-> {}]]
        /\ UNCHANGED <<made, redis, open, mails, gate>>
    <2>1. PICK c : /\ c = [NoCall EXCEPT !.at = "get", !.email = e]
                   /\ call' = [call EXCEPT ![k] = c]
      BY DEF GetVerifyCode
    <2>2. c = [at |-> "get", email |-> e, code |-> NoCode, seen |-> {}]
      BY <2>1 DEF NoCall
    <2> QED BY <2>1, <2>2 DEF GetVerifyCode, Getting
  <1>1. Base'
    BY <1>0 DEF Base, VerifyTypeOK, CallInv, Call, gate, redis
  <1>2. BudgetInv'
    <2>1. Getting' = Getting \cup {k} /\ k \notin Getting
      BY <1>0 DEF Getting, Base, VerifyTypeOK
    <2>2. Cardinality(Getting') = Cardinality(Getting) + 1
      BY <2>1, GettingFinite, FS_AddElement
    <2> QED BY <1>0, <2>2, GettingFinite DEF BudgetInv, Base, VerifyTypeOK
  <1>3. CodeOwnerInv'
    <2>1. \A d \in Emails, c \in Codes : Owns(d, c)' => Owns(d, c)
      BY <1>0 DEF Owns, Base, VerifyTypeOK, redis, Codes
    <2> QED BY <1>0, <2>1, OwnersKept DEF CodeOwnerInv, redis
  <1>4. FormInv' /\ ChangedWithMailedCode'
    BY <1>0 DEF FormInv, gate, ChangedWithMailedCode
  <1>5. FreshInv' /\ SeenInv'
    BY <1>0 DEF FreshInv, SeenInv, Base, VerifyTypeOK, CallInv, redis
  <1>6. UnlimitedOnlyByFailure'
    BY <1>0 DEF UnlimitedOnlyByFailure, Base, VerifyTypeOK, redis
  <1> QED BY <1>1, <1>2, <1>3, <1>4, <1>5, <1>6

\* A call found a code.
LEMMA FoundInv ==
  ASSUME VerifyInv, NEW k \in Calls, call[k].at = "get",
         NEW c, c # NoCode, c = code[call[k].email],
         call' = [call EXCEPT ![k].at = "mail", ![k].code = c],
         UNCHANGED <<made, redis, open, mails, gate>>
  PROVE  VerifyInv'
  <1> USE VerifyAssumption DEF VerifyInv
  <1>0. /\ call[k].email \in Emails
        /\ <<call[k].email, c>> \in stored
        /\ c \in Codes /\ c <= made
    BY DEF Base, VerifyTypeOK, CallInv, CodeOwnerInv, Codes
  <1>1. Base'
    BY <1>0 DEF Base, VerifyTypeOK, CallInv, Call, gate, redis
  <1>2. BudgetInv'
    <2>1. Getting' = Getting \ {k} /\ k \in Getting
      BY DEF Getting, Base, VerifyTypeOK
    <2>2. Cardinality(Getting') = Cardinality(Getting) - 1
      BY <2>1, GettingFinite, FS_RemoveElement
    <2> QED BY <2>2, GettingFinite DEF BudgetInv, Base, VerifyTypeOK
  <1>3. CodeOwnerInv'
    <2>1. \A d \in Emails, b \in Codes : Owns(d, b)' => Owns(d, b)
      BY <1>0 DEF Owns, Base, VerifyTypeOK, redis
    <2> QED BY <2>1, OwnersKept DEF CodeOwnerInv, redis
  <1>4. FormInv' /\ ChangedWithMailedCode'
    BY DEF FormInv, gate, ChangedWithMailedCode
  <1>5. FreshInv' /\ SeenInv'
    BY <1>0 DEF FreshInv, SeenInv, Base, VerifyTypeOK, Call, CallInv, redis
  <1>6. UnlimitedOnlyByFailure'
    BY DEF UnlimitedOnlyByFailure, Base, VerifyTypeOK, Call, redis
  <1> QED BY <1>1, <1>2, <1>3, <1>4, <1>5, <1>6

\* A call found none, or could not look, and makes one.
LEMMA MakeInv ==
  ASSUME VerifyInv, NEW k \in Calls, call[k].at = "get",
         NEW S, S = {} \/ (code[call[k].email] = NoCode /\ S = {m[2] : m \in stored}),
         made' = made + 1,
         call' = [call EXCEPT ![k].at = "set", ![k].code = made + 1, ![k].seen = S],
         UNCHANGED <<redis, open, mails, gate>>
  PROVE  VerifyInv'
  <1> USE VerifyAssumption DEF VerifyInv
  <1>0. /\ call[k].email \in Emails /\ made \in Nat
        /\ S \subseteq 1 .. made /\ S \subseteq Codes
        /\ code[call[k].email] \notin S
    <2>1. \A m \in stored : m[2] \in 1 .. made
      BY DEF Base, VerifyTypeOK
    <2> QED BY <2>1 DEF Base, VerifyTypeOK, CallInv, Codes
  <1>1. Getting' = Getting \ {k} /\ k \in Getting
    BY DEF Getting, Base, VerifyTypeOK
  <1>2. /\ Cardinality(Getting') = Cardinality(Getting) - 1
        /\ Cardinality(Getting) \in Nat /\ Cardinality(Getting') \in Nat
    BY <1>1, GettingFinite, FS_RemoveElement, FS_CardinalityType
  <1>3. BudgetInv' /\ made + 1 \in Codes
    BY <1>0, <1>2 DEF BudgetInv, Codes
  <1>4. Base'
    <2>1. call' \in [Calls -> Call]
      <3>1. [at |-> "set", email |-> call[k].email, code |-> made + 1, seen |-> S] \in Call
        BY <1>0, <1>3 DEF Call
      <3>2. call'[k] = [at |-> "set", email |-> call[k].email, code |-> made + 1, seen |-> S]
        BY DEF Base, VerifyTypeOK, Call
      <3>3. /\ \A j \in Calls \ {k} : call'[j] = call[j]
            /\ DOMAIN call' = Calls /\ call' = [j \in Calls |-> call'[j]]
        BY DEF Base, VerifyTypeOK
      <3>4. \A j \in Calls : call'[j] \in Call
        BY <3>1, <3>2, <3>3 DEF Base, VerifyTypeOK
      <3> QED BY <3>3, <3>4
    <2>2. made' \in 0 .. MaxCodes /\ mails' \cup stored' \subseteq Emails \X (1 .. made')
      BY <1>0, <1>3 DEF Base, VerifyTypeOK, redis, Codes
    <2>3. VerifyTypeOK'
      BY <2>1, <2>2 DEF Base, VerifyTypeOK, redis, gate
    <2>4. CallInv'
      BY <1>0, <1>3 DEF Base, VerifyTypeOK, Call, CallInv, Codes
    <2> QED BY <2>3, <2>4 DEF Base
  <1>5. CodeOwnerInv'
    <2>1. \A d \in Emails, b \in Codes :
            Owns(d, b)' => Owns(d, b) \/ (b = made + 1 /\ d = call[k].email)
      BY <1>0 DEF Owns, Base, VerifyTypeOK, Call, redis
    <2>2. \A d \in Emails : made + 1 \in Codes => ~Owns(d, made + 1)
      BY <1>0, OwnedIsMade
    <2> QED BY <2>1, <2>2 DEF CodeOwnerInv, redis
  <1>6. FormInv' /\ ChangedWithMailedCode'
    BY DEF FormInv, gate, ChangedWithMailedCode
  <1>7. FreshInv'
    <2>1. \A j \in Calls \ {k} : call'[j] = call[j]
      BY DEF Base, VerifyTypeOK
    <2>2. call'[k].at = "set" /\ call'[k].code = made + 1 /\ call'[k].seen = S
      BY DEF Base, VerifyTypeOK, Call
    <2>3. \A j \in Calls \ {k} : call[j].code # made + 1 /\ made + 1 \notin call[j].seen
      BY <1>0 DEF Base, CallInv, SeenInv, VerifyTypeOK, Call, Codes
    <2>4. \A m \in stored : m[2] # made + 1
      BY <1>0 DEF Base, VerifyTypeOK
    <2>5. \A j \in Calls \ {k} : call[j].at = "set" => call[j].code \notin S
      BY DEF FreshInv
    <2>6. made + 1 \notin S
      BY <1>0
    <2>7. stored' = stored
      BY DEF redis
    <2>8. /\ \A j \in Calls \ {k} : call'[j].code # call'[k].code
          /\ \A m \in stored : m[2] # call'[k].code
          /\ \A j \in Calls : call'[k].code \notin call'[j].seen
      <3>1. \A j \in Calls \ {k} : call'[j].code # call'[k].code
                                   /\ call'[k].code \notin call'[j].seen
        BY <2>1, <2>2, <2>3
      <3>2. call'[k].code \notin call'[k].seen
        BY <2>2, <2>6
      <3>3. \A m \in stored : m[2] # call'[k].code
        BY <2>2, <2>4
      <3> QED BY <3>1, <3>2, <3>3
    <2>9. ASSUME NEW i \in Calls \ {k}, call[i].at = "set"
          PROVE  /\ \A j \in Calls \ {i} : call'[j].code # call[i].code
                 /\ \A m \in stored : m[2] # call[i].code
                 /\ \A j \in Calls : call[i].code \notin call'[j].seen
      <3>1. \A j \in Calls \ {i, k} : call'[j].code # call[i].code
        BY <2>1, <2>9 DEF FreshInv
      <3>2. call'[k].code # call[i].code
        BY <2>2, <2>3
      <3>3. \A m \in stored : m[2] # call[i].code
        BY <2>9 DEF FreshInv
      <3>4. \A j \in Calls \ {k} : call[i].code \notin call'[j].seen
        BY <2>1, <2>9 DEF FreshInv
      <3>5. call[i].code \notin call'[k].seen
        BY <2>2, <2>5, <2>9
      <3> QED BY <3>1, <3>2, <3>3, <3>4, <3>5
    <2>10. \A i \in Calls : call'[i].at = "set" =>
             /\ \A j \in Calls \ {i} : call'[j].code # call'[i].code
             /\ \A m \in stored' : m[2] # call'[i].code
             /\ \A j \in Calls : call'[i].code \notin call'[j].seen
      <3> SUFFICES ASSUME NEW i \in Calls, call'[i].at = "set"
                   PROVE  /\ \A j \in Calls \ {i} : call'[j].code # call'[i].code
                          /\ \A m \in stored' : m[2] # call'[i].code
                          /\ \A j \in Calls : call'[i].code \notin call'[j].seen
        OBVIOUS
      <3>1. CASE i = k
        BY <2>7, <2>8, <3>1
      <3>2. CASE i # k
        <4>1. call'[i] = call[i]
          BY <2>1, <3>2
        <4> QED BY <2>7, <2>9, <3>2, <4>1
      <3> QED BY <3>1, <3>2
    <2> QED BY <2>10 DEF FreshInv
  <1>8. SeenInv'
    BY <1>0 DEF SeenInv, Base, VerifyTypeOK, Call, redis
  <1>9. UnlimitedOnlyByFailure'
    BY DEF UnlimitedOnlyByFailure, Base, VerifyTypeOK, Call, redis
  <1> QED BY <1>3, <1>4, <1>5, <1>6, <1>7, <1>8, <1>9

LEMMA GetRedisInv ==
  ASSUME VerifyInv, NEW k \in Calls, NEW out \in Outcomes, GetRedis(k, out) PROVE VerifyInv'
  <1>1. /\ call[k].at = "get"
        /\ UNCHANGED <<redis, open, mails, gate>>
    BY DEF GetRedis
  <1>2. CASE out = "ok" /\ code[call[k].email] # NoCode
    BY <1>1, <1>2, FoundInv DEF GetRedis, Found, Key
  <1>3. CASE out = "ok" /\ code[call[k].email] = NoCode
    BY <1>1, <1>3, MakeInv DEF GetRedis, Found, Key
  <1>4. CASE out # "ok"
    BY <1>1, <1>4, MakeInv DEF GetRedis
  <1> QED BY <1>2, <1>3, <1>4

LEMMA SetInv ==
  ASSUME VerifyInv, NEW k \in Calls, NEW out \in Outcomes, Set(k, out) PROVE VerifyInv'
  <1> USE VerifyAssumption DEF VerifyInv, Key, OnFalse
  <1> DEFINE e == call[k].email
             c == call[k].code
  <1>0. /\ call[k].at = "set" /\ e \in Emails /\ c \in Codes /\ c # NoCode
        /\ UNCHANGED <<made, open, mails, gate>>
        /\ call[k] \in Call
    BY DEF Set, Base, VerifyTypeOK, Call, CallInv, Codes
  <1>1. /\ call'[k].at = (IF out = "ok" THEN "expire" ELSE "error")
        /\ call'[k].email = e /\ call'[k].code = c /\ call'[k].seen = {}
        /\ \A j \in Calls \ {k} : call'[j] = call[j]
        /\ call' \in [Calls -> Call]
    <2>1. call' = [call EXCEPT ![k].at = IF out = "ok" THEN "expire" ELSE "error", ![k].seen = {}]
      BY DEF Set
    <2>2. call'[k] = [at |-> IF out = "ok" THEN "expire" ELSE "error", email |-> e,
                      code |-> c, seen |-> {}]
      BY <2>1, <1>0 DEF Base, VerifyTypeOK, Call
    <2>3. /\ \A j \in Calls \ {k} : call'[j] = call[j]
          /\ call' = [j \in Calls |-> call'[j]]
      BY <2>1 DEF Base, VerifyTypeOK
    <2>4. call'[k] \in Call
      BY <2>2, <1>0 DEF Call
    <2>5. call' \in [Calls -> Call]
      BY <2>3, <2>4 DEF Base, VerifyTypeOK
    <2> QED BY <2>2, <2>3, <2>5
  <1>2. \/ out = "failed" /\ UNCHANGED redis
        \/ /\ out # "failed"
           /\ code' = [code EXCEPT ![e] = c]
           /\ ttl' = [ttl EXCEPT ![e] = FALSE]
           /\ stored' = stored \cup {<<e, c>>}
           /\ unlimited' = IF out = "lost" THEN unlimited \cup {e} ELSE unlimited \ {e}
    BY DEF Set
  <1> HIDE DEF e, c
  <1>3. stored' \subseteq stored \cup {<<e, c>>} /\ stored \subseteq stored'
    BY <1>2 DEF redis
  <1>4. \A d \in Emails : code'[d] = code[d] \/ (d = e /\ code'[d] = c /\ <<e, c>> \in stored')
    BY <1>0, <1>2 DEF redis, Base, VerifyTypeOK
  <1>5. Base'
    <2>1. c <= made
      BY <1>0 DEF Base, CallInv, c
    <2>2. mails' \cup stored' \subseteq Emails \X (1 .. made')
      BY <1>0, <1>3, <2>1 DEF Base, VerifyTypeOK, Codes
    <2>3. VerifyTypeOK'
      BY <1>0, <1>1, <1>2, <2>2 DEF Base, VerifyTypeOK, redis, gate
    <2>4. CallInv'
      BY <1>0, <1>1, <2>1 DEF Base, CallInv
    <2> QED BY <2>3, <2>4 DEF Base
  <1>6. BudgetInv'
    <2>1. Getting' = Getting
      BY <1>0, <1>1 DEF Getting
    <2> QED BY <2>1, <1>0 DEF BudgetInv
  <1>7. CodeOwnerInv'
    <2>1. \A d \in Emails, b \in Codes : Owns(d, b)' => Owns(d, b)
      BY <1>0, <1>1, <1>3 DEF Owns, e, c
    <2>2. \A d \in Emails : code'[d] # NoCode => <<d, code'[d]>> \in stored'
      BY <1>3, <1>4 DEF CodeOwnerInv
    <2> QED BY <2>1, <2>2, OwnersKept
  <1>8. FormInv' /\ ChangedWithMailedCode'
    BY <1>0 DEF FormInv, gate, ChangedWithMailedCode
  <1>9. FreshInv'
    <2> SUFFICES ASSUME NEW i \in Calls, call'[i].at = "set"
                 PROVE  /\ \A j \in Calls \ {i} : call'[j].code # call'[i].code
                        /\ \A m \in stored' : m[2] # call'[i].code
                        /\ \A j \in Calls : call'[i].code \notin call'[j].seen
      BY DEF FreshInv
    <2>1. i # k /\ call'[i] = call[i]
      BY <1>1
    <2>2. c # call[i].code
      BY <2>1 DEF FreshInv, c
    <2>3. \A m \in stored' : m[2] # call[i].code
      BY <1>3, <2>1, <2>2 DEF FreshInv
    <2>4. \A j \in Calls \ {i} : call'[j].code # call[i].code
      BY <1>1, <2>1, <2>2 DEF FreshInv
    <2>5. \A j \in Calls : call[i].code \notin call'[j].seen
      BY <1>1, <2>1 DEF FreshInv
    <2> QED BY <2>1, <2>3, <2>4, <2>5
  <1>10. SeenInv'
    <2> SUFFICES ASSUME NEW j \in Calls
                 PROVE  /\ call'[j].at # "set" => call'[j].seen = {}
                        /\ call'[j].at = "set" => code'[call'[j].email] \notin call'[j].seen
                        /\ call'[j].seen \subseteq 1 .. made'
      BY DEF SeenInv
    <2>1. CASE j = k
      BY <1>1, <2>1
    <2>2. CASE j # k
      <3>1. call'[j] = call[j] /\ (call[j].at = "set" => call[j].email \in Emails)
        BY <1>1, <2>2 DEF Base, CallInv
      <3>2. c \notin call[j].seen
        BY <1>0 DEF FreshInv, c
      <3> QED BY <1>0, <1>4, <3>1, <3>2 DEF SeenInv
    <2> QED BY <2>1, <2>2
  <1>11. UnlimitedOnlyByFailure'
    <2> SUFFICES ASSUME NEW d \in Emails, code'[d] # NoCode, ~ttl'[d]
                 PROVE  d \in unlimited' \/ \E j \in Calls : call'[j].at = "expire" /\ call'[j].email = d
      BY DEF UnlimitedOnlyByFailure
    <2>1. CASE UNCHANGED redis
      BY <1>0, <1>1, <2>1 DEF UnlimitedOnlyByFailure, redis
    <2>2. CASE ~UNCHANGED redis /\ d = e
      <3>1. out = "ok" \/ e \in unlimited'
        BY <1>2, <2>2 DEF Outcomes
      <3> QED BY <1>1, <2>2, <3>1
    <2>3. CASE ~UNCHANGED redis /\ d # e
      <3>1. code[d] # NoCode /\ ~ttl[d] /\ (d \in unlimited => d \in unlimited')
        BY <1>0, <1>2, <2>3 DEF Base, VerifyTypeOK
      <3> QED BY <1>0, <1>1, <3>1 DEF UnlimitedOnlyByFailure
    <2> QED BY <2>1, <2>2, <2>3
  <1> QED BY <1>5, <1>6, <1>7, <1>8, <1>9, <1>10, <1>11

\* A call that is about neither to look nor to set goes to another such place.
LEMMA StepInv ==
  ASSUME VerifyInv, NEW k \in Calls, NEW place \in {"mail", "success", "error"},
         call[k].at \in {"expire", "mail"}, Step(k, place)
  PROVE  /\ call' \in [Calls -> Call]
         /\ call'[k].at = place /\ call'[k].seen = {}
         /\ call'[k].email = call[k].email /\ call'[k].code = call[k].code
         /\ \A j \in Calls \ {k} : call'[j] = call[j]
         /\ Getting' = Getting
  <1>1. /\ call'[k].at = place /\ call'[k].seen = {}
        /\ call'[k].email = call[k].email /\ call'[k].code = call[k].code
        /\ \A j \in Calls \ {k} : call'[j] = call[j]
    BY DEF Step, VerifyInv, Base, VerifyTypeOK, Call, SeenInv
  <1>2. call' \in [Calls -> Call]
    BY DEF Step, VerifyInv, Base, VerifyTypeOK, Call
  <1> QED BY <1>1, <1>2 DEF Getting

LEMMA SetExpireInv ==
  ASSUME VerifyInv, NEW k \in Calls, NEW out \in Outcomes, SetExpire(k, out) PROVE VerifyInv'
  <1> USE VerifyAssumption DEF Key, OnFalse
  <1>0. /\ call[k].at = "expire" /\ call[k].email \in Emails /\ call[k].code # NoCode
        /\ UNCHANGED <<made, code, stored, open, mails, gate>>
    BY DEF SetExpire, VerifyInv, Base, CallInv
  <1>1. /\ call' \in [Calls -> Call]
        /\ call'[k].at = (IF out = "ok" THEN "mail" ELSE "error") /\ call'[k].seen = {}
        /\ call'[k].email = call[k].email /\ call'[k].code = call[k].code
        /\ \A j \in Calls \ {k} : call'[j] = call[j]
        /\ Getting' = Getting
    <2>1. Step(k, IF out = "ok" THEN "mail" ELSE "error")
      BY DEF SetExpire
    <2> QED BY <1>0, <2>1, StepInv
  <1>2. \/ unlimited' = unlimited \cup {call[k].email} /\ UNCHANGED ttl
        \/ /\ ttl' = [ttl EXCEPT ![call[k].email] = code[call[k].email] # NoCode]
           /\ unlimited' = unlimited \ {call[k].email}
    BY DEF SetExpire, SetTtl
  <1> USE DEF VerifyInv
  <1>3. Base'
    <2>1. VerifyTypeOK'
      BY <1>0, <1>1, <1>2 DEF Base, VerifyTypeOK, gate
    <2>2. CallInv'
      BY <1>0, <1>1 DEF Base, CallInv
    <2> QED BY <2>1, <2>2 DEF Base
  <1>4. BudgetInv' /\ FormInv' /\ ChangedWithMailedCode'
    BY <1>0, <1>1 DEF BudgetInv, FormInv, gate, ChangedWithMailedCode
  <1>5. CodeOwnerInv'
    <2>1. \A d \in Emails, b \in Codes : Owns(d, b)' => Owns(d, b)
      BY <1>0, <1>1 DEF Owns
    <2> QED BY <1>0, <2>1, OwnersKept DEF CodeOwnerInv
  <1>6. FreshInv'
    BY <1>0, <1>1 DEF FreshInv
  <1>7. SeenInv'
    BY <1>0, <1>1 DEF SeenInv
  <1>8. UnlimitedOnlyByFailure'
    <2> SUFFICES ASSUME NEW d \in Emails, code'[d] # NoCode, ~ttl'[d]
                 PROVE  d \in unlimited' \/ \E j \in Calls : call'[j].at = "expire" /\ call'[j].email = d
      BY DEF UnlimitedOnlyByFailure
    <2>1. CASE d = call[k].email
      BY <1>0, <1>2, <2>1 DEF Base, VerifyTypeOK
    <2>2. CASE d # call[k].email
      <3>1. code[d] # NoCode /\ ~ttl[d] /\ (d \in unlimited => d \in unlimited')
        BY <1>0, <1>2, <2>2 DEF Base, VerifyTypeOK
      <3> QED BY <1>1, <2>2, <3>1 DEF UnlimitedOnlyByFailure
    <2> QED BY <2>1, <2>2
  <1> QED BY <1>3, <1>4, <1>5, <1>6, <1>7, <1>8

LEMMA SendMailInv == ASSUME VerifyInv, NEW k \in Calls, SendMail(k) PROVE VerifyInv'
  <1> USE VerifyAssumption
  <1>0. /\ call[k].at = "mail" /\ call[k].email \in Emails /\ call[k].code # NoCode
        /\ UNCHANGED <<made, redis, open, gate>>
        /\ call[k].code \in 1 .. made
    BY DEF SendMail, VerifyInv, Base, VerifyTypeOK, Call, CallInv, Codes
  <1>1. PICK place \in {"success", "error"} : Step(k, place)
    BY DEF SendMail
  <1>2. /\ call' \in [Calls -> Call]
        /\ call'[k].at = place /\ call'[k].seen = {}
        /\ call'[k].email = call[k].email /\ call'[k].code = call[k].code
        /\ \A j \in Calls \ {k} : call'[j] = call[j]
        /\ Getting' = Getting
    BY <1>0, <1>1, StepInv
  <1>3. mails \subseteq mails' /\ mails' \subseteq mails \cup {<<call[k].email, call[k].code>>}
    BY DEF SendMail
  <1> USE DEF VerifyInv
  <1>4. Base'
    <2>1. mails' \cup stored' \subseteq Emails \X (1 .. made')
      BY <1>0, <1>3 DEF Base, VerifyTypeOK, redis
    <2>2. VerifyTypeOK'
      BY <1>0, <1>2, <2>1 DEF Base, VerifyTypeOK, redis, gate
    <2>3. CallInv'
      BY <1>0, <1>2 DEF Base, CallInv
    <2> QED BY <2>2, <2>3 DEF Base
  <1>5. BudgetInv'
    BY <1>0, <1>2 DEF BudgetInv
  <1>6. FormInv' /\ ChangedWithMailedCode'
    BY <1>0, <1>3 DEF FormInv, gate, ChangedWithMailedCode
  <1>7. CodeOwnerInv'
    <2>1. \A d \in Emails, b \in Codes : Owns(d, b)' => Owns(d, b)
      BY <1>0, <1>2, <1>3 DEF Owns, redis
    <2> QED BY <1>0, <2>1, OwnersKept DEF CodeOwnerInv, redis
  <1>8. FreshInv'
    BY <1>0, <1>1, <1>2 DEF FreshInv, redis
  <1>9. SeenInv'
    BY <1>0, <1>1, <1>2 DEF SeenInv, redis
  <1>10. UnlimitedOnlyByFailure'
    BY <1>0, <1>2 DEF UnlimitedOnlyByFailure, redis
  <1> QED BY <1>4, <1>5, <1>6, <1>7, <1>8, <1>9, <1>10

LEMMA MailAnswerInv == ASSUME VerifyInv, NEW k \in Calls, Answer(k) PROVE VerifyInv'
  <1> USE VerifyAssumption DEF VerifyInv
  <1>0. /\ call[k].at \in {"success", "error"}
        /\ call' = [call EXCEPT ![k] = NoCall]
        /\ UNCHANGED <<made, redis, open, mails, gate>>
    BY DEF Answer, Answers
  <1>1. Base'
    BY <1>0 DEF Base, VerifyTypeOK, CallInv, Call, NoCall, gate, redis
  <1>2. BudgetInv'
    <2>1. Getting' = Getting
      BY <1>0 DEF Getting, NoCall, Base, VerifyTypeOK
    <2> QED BY <1>0, <2>1 DEF BudgetInv
  <1>3. CodeOwnerInv'
    <2>1. \A d \in Emails, b \in Codes : Owns(d, b)' => Owns(d, b)
      BY <1>0 DEF Owns, NoCall, Base, VerifyTypeOK, redis
    <2> QED BY <1>0, <2>1, OwnersKept DEF CodeOwnerInv, redis
  <1>4. FormInv' /\ ChangedWithMailedCode'
    BY <1>0 DEF FormInv, gate, ChangedWithMailedCode
  <1>5. FreshInv' /\ SeenInv'
    BY <1>0 DEF FreshInv, SeenInv, NoCall, Base, VerifyTypeOK, CallInv, redis
  <1>6. UnlimitedOnlyByFailure'
    BY <1>0 DEF UnlimitedOnlyByFailure, NoCall, Base, VerifyTypeOK, redis
  <1> QED BY <1>1, <1>2, <1>3, <1>4, <1>5, <1>6

\* A step of GateServer that leaves forms typed and mailed.
LEMMA FormStepInv ==
  ASSUME VerifyInv, UNCHANGED <<made, redis, open, call, mails>>,
         form' \in [Forms -> Form], account' \subseteq Emails,
         FormInv', ChangedWithMailedCode'
  PROVE  VerifyInv'
  <1> USE DEF VerifyInv, redis
  <1>1. Base'
    BY DEF Base, VerifyTypeOK, CallInv
  <1>2. CodeOwnerInv'
    <2>1. \A d, c : Owns(d, c)' <=> Owns(d, c)
      BY DEF Owns
    <2> QED BY <2>1 DEF CodeOwnerInv
  <1>3. BudgetInv' /\ FreshInv' /\ SeenInv' /\ UnlimitedOnlyByFailure'
    BY DEF BudgetInv, Getting, FreshInv, SeenInv, UnlimitedOnlyByFailure
  <1> QED BY <1>1, <1>2, <1>3

LEMMA SubmitInv ==
  ASSUME VerifyInv, NEW f \in Forms, NEW kind \in {"register", "reset"}, NEW e \in Emails,
         NEW c \in Codes, Submit(f, kind, e, c)
  PROVE  VerifyInv'
  <1>1. /\ form' = [form EXCEPT ![f] = [at |-> "get", kind |-> kind, email |-> e, code |-> c]]
        /\ UNCHANGED <<made, redis, open, call, mails, account>>
        /\ \E m \in mails : m[2] = c
    BY DEF Submit
  <1>2. form' \in [Forms -> Form] /\ account' \subseteq Emails
    BY <1>1 DEF VerifyInv, Base, VerifyTypeOK, Form
  <1>3. FormInv' /\ ChangedWithMailedCode'
    BY <1>1 DEF VerifyInv, Base, VerifyTypeOK, FormInv, ChangedWithMailedCode
  <1> QED BY <1>1, <1>2, <1>3, FormStepInv

\* A form goes to a place for which its code was mailed to its address, or ends.
LEMMA GoInv ==
  ASSUME VerifyInv, NEW f \in Forms, NEW place \in {"idle", "register", "query", "update"},
         Go(f, place), form[f].at # "idle", UNCHANGED <<made, redis, open, call, mails>>,
         account' \subseteq Emails,
         place # "idle" => <<form[f].email, form[f].code>> \in mails
  PROVE  VerifyInv'
  <1>1. CASE place = "idle"
    <2>1. form' = [form EXCEPT ![f] = NoForm]
      BY <1>1 DEF Go
    <2>2. form' \in [Forms -> Form]
      BY <2>1 DEF VerifyInv, Base, VerifyTypeOK, Form, NoForm
    <2>3. FormInv' /\ ChangedWithMailedCode'
      BY <2>1 DEF VerifyInv, Base, VerifyTypeOK, FormInv, ChangedWithMailedCode, NoForm
    <2> QED BY <2>2, <2>3, FormStepInv
  <1>2. CASE place # "idle"
    <2>1. form' = [form EXCEPT ![f] = [form[f] EXCEPT !.at = place]]
      BY <1>2 DEF Go
    <2>2. form' \in [Forms -> Form]
      BY <2>1 DEF VerifyInv, Base, VerifyTypeOK, Form
    <2>3. /\ form'[f].at = place /\ form'[f].email = form[f].email /\ form'[f].code = form[f].code
          /\ \A g \in Forms \ {f} : form'[g] = form[g]
      BY <2>1 DEF VerifyInv, Base, VerifyTypeOK, Form
    <2>4. FormInv' /\ ChangedWithMailedCode'
      BY <1>2, <2>3 DEF VerifyInv, FormInv, ChangedWithMailedCode
    <2> QED BY <2>2, <2>4, FormStepInv
  <1> QED BY <1>1, <1>2

LEMMA CheckCodeInv == ASSUME VerifyInv, NEW f \in Forms, CheckCode(f) PROVE VerifyInv'
  <1> USE VerifyAssumption
  <1>1. /\ form[f].at = "get" /\ UNCHANGED <<made, redis, open, call, mails, account>>
        /\ account' \subseteq Emails
    BY DEF CheckCode, VerifyInv, Base, VerifyTypeOK
  <1>2. CASE Go(f, "idle")
    BY <1>1, <1>2, GoInv
  <1>3. ASSUME Matches(f) PROVE <<form[f].email, form[f].code>> \in mails
    <2>1. PICK m \in mails : m[2] = form[f].code
      BY <1>1 DEF VerifyInv, FormInv
    <2>2. /\ m[1] \in Emails /\ m[2] \in Codes /\ m = <<m[1], m[2]>>
          /\ form[f].email \in Emails
      BY <1>1 DEF VerifyInv, Base, VerifyTypeOK, FormInv, Codes
    <2>3. <<form[f].email, m[2]>> \in stored
      BY <1>3, <2>1, <2>2 DEF Matches, Key, VerifyInv, CodeOwnerInv, Codes
    <2>4. Owns(form[f].email, m[2]) /\ Owns(m[1], m[2])
      BY <2>2, <2>3 DEF Owns
    <2>5. m[1] = form[f].email
      BY <2>2, <2>4 DEF VerifyInv, CodeOwnerInv
    <2> QED BY <2>1, <2>2, <2>5
  <1>4. CASE Matches(f) /\ Go(f, IF form[f].kind = "register" THEN "register" ELSE "query")
    BY <1>1, <1>3, <1>4, GoInv
  <1> QED BY <1>2, <1>4 DEF CheckCode

LEMMA FormsInv ==
  ASSUME VerifyInv, NEW f \in Forms, Register(f) \/ QueryEmail(f) \/ UpdatePassword(f) PROVE VerifyInv'
  <1>1. /\ form[f].at \in {"register", "query", "update"}
        /\ UNCHANGED <<made, redis, open, call, mails>>
        /\ Go(f, "idle") \/ (form[f].at = "query" /\ Go(f, "update"))
    BY DEF Register, QueryEmail, UpdatePassword
  <1>2. account' \subseteq Emails
    BY DEF Register, QueryEmail, UpdatePassword, VerifyInv, Base, VerifyTypeOK, FormInv
  <1>3. <<form[f].email, form[f].code>> \in mails
    BY <1>1 DEF VerifyInv, ChangedWithMailedCode
  <1> QED BY <1>1, <1>2, <1>3, GoInv

LEMMA VerifyNextInv == ASSUME VerifyInv, [VerifyNext]_verifyVars PROVE VerifyInv'
  <1>1. CASE UNCHANGED verifyVars
    <2>1. UNCHANGED <<made, redis, open, call, mails>> /\ UNCHANGED gate
      BY <1>1 DEF verifyVars
    <2>2. form' \in [Forms -> Form] /\ account' \subseteq Emails
      BY <2>1 DEF gate, VerifyInv, Base, VerifyTypeOK
    <2>3. FormInv' /\ ChangedWithMailedCode'
      BY <2>1 DEF gate, VerifyInv, FormInv, ChangedWithMailedCode
    <2> QED BY <2>1, <2>2, <2>3, FormStepInv
  <1>2. ASSUME NEW k \in Calls, CallStep(k) PROVE VerifyInv'
    BY <1>2, GetRedisInv, SetInv, SetExpireInv, SendMailInv, MailAnswerInv DEF CallStep
  <1> QED BY <1>1, <1>2, ExpireInv, QuitInv, RestartInv, GetVerifyCodeInv, SubmitInv,
             CheckCodeInv, FormsInv DEF VerifyNext

\* The inductive invariant.
THEOREM VerifyInvariance == VerifySpec => []VerifyInv
  BY VerifyInitInv, VerifyNextInv, PTL DEF VerifySpec

\* Every variable keeps its type: no call reaches set, expire or mail without a code
\* within the bound, and no time to live without a code (server.js, redis.js).
THEOREM VerifyTypes == VerifySpec => []VerifyTypeOK
  <1>1. VerifyInv => VerifyTypeOK
    BY DEF VerifyInv, Base
  <1> QED BY <1>1, VerifyInvariance, PTL

\* An account is created or gets a new password only with a code that was mailed to
\* its address, whatever calls overlap, expire or fail (GateServer's /user_register
\* and /reset_password, with VerifyServer's GetVerifyCode).
THEOREM MailedBeforeChange == VerifySpec => []ChangedWithMailedCode
  BY VerifyInvariance, PTL DEF VerifyInv

\* What was mailed had been stored, and so had what a call is about to mail.
MailInv ==
  /\ OnlyStoredMailed
  /\ \A k \in Calls : call[k].at \in {"expire", "mail"} => <<call[k].email, call[k].code>> \in stored

LEMMA MailStep == ASSUME VerifyInv, MailInv, NEW k \in Calls, CallStep(k) PROVE MailInv'
  <1> USE DEF VerifyInv, Base, VerifyTypeOK, CallInv
  <1>1. ASSUME NEW out \in Outcomes, GetRedis(k, out) PROVE MailInv'
    <2>1. /\ call[k].at = "get" /\ call[k].email \in Emails
          /\ UNCHANGED <<mails, stored, code>>
      BY <1>1 DEF GetRedis, redis
    <2>2. CASE out = "ok" /\ Found(k) # NoCode
      <3>1. call' = [call EXCEPT ![k].at = "mail", ![k].code = Found(k)]
        BY <1>1, <2>2 DEF GetRedis
      <3>2. /\ call'[k].email = call[k].email /\ call'[k].code = Found(k)
            /\ \A j \in Calls \ {k} : call'[j] = call[j]
        BY <3>1 DEF Call
      <3>3. <<call[k].email, Found(k)>> \in stored
        BY <2>1, <2>2 DEF Found, Key, CodeOwnerInv
      <3> QED BY <2>1, <3>2, <3>3 DEF MailInv, OnlyStoredMailed
    <2>3. CASE ~(out = "ok" /\ Found(k) # NoCode)
      <3>1. call' = [call EXCEPT ![k].at = "set", ![k].code = made + 1,
                                 ![k].seen = IF out = "ok" THEN {m[2] : m \in stored} ELSE {}]
        BY <1>1, <2>3 DEF GetRedis
      <3>2. call'[k].at = "set" /\ \A j \in Calls \ {k} : call'[j] = call[j]
        BY <3>1 DEF Call
      <3> QED BY <2>1, <3>2 DEF MailInv, OnlyStoredMailed
    <2> QED BY <2>2, <2>3
  <1>2. ASSUME NEW out \in Outcomes, Set(k, out) PROVE MailInv'
    <2>1. /\ mails' = mails /\ stored \subseteq stored'
          /\ out = "ok" => <<call[k].email, call[k].code>> \in stored'
      BY <1>2 DEF Set, redis
    <2>2. call' = [call EXCEPT ![k].at = IF out = "ok" THEN "expire" ELSE OnFalse, ![k].seen = {}]
      BY <1>2 DEF Set
    <2>3. /\ call'[k].at = (IF out = "ok" THEN "expire" ELSE OnFalse)
          /\ call'[k].email = call[k].email /\ call'[k].code = call[k].code
          /\ \A j \in Calls \ {k} : call'[j] = call[j]
      BY <2>2 DEF Call
    <2> QED BY <2>1, <2>3 DEF MailInv, OnlyStoredMailed, OnFalse
  <1>3. ASSUME NEW out \in Outcomes, SetExpire(k, out) PROVE MailInv'
    <2>1. /\ call[k].at = "expire" /\ UNCHANGED <<mails, stored>>
          /\ call' = [call EXCEPT ![k].at = IF out = "ok" THEN "mail" ELSE OnFalse]
      BY <1>3 DEF SetExpire, Step
    <2>2. /\ call'[k].email = call[k].email /\ call'[k].code = call[k].code
          /\ \A j \in Calls \ {k} : call'[j] = call[j]
      BY <2>1 DEF Call
    <2> QED BY <2>1, <2>2 DEF MailInv, OnlyStoredMailed
  <1>4. CASE SendMail(k)
    <2>1. /\ call[k].at = "mail" /\ stored' = stored
          /\ mails' \subseteq mails \cup {<<call[k].email, call[k].code>>}
      BY <1>4 DEF SendMail, redis
    <2>2. PICK place \in {"success", "error"} : call' = [call EXCEPT ![k].at = place]
      BY <1>4 DEF SendMail, Step
    <2>3. call'[k].at = place /\ \A j \in Calls \ {k} : call'[j] = call[j]
      BY <2>2 DEF Call
    <2> QED BY <2>1, <2>3 DEF MailInv, OnlyStoredMailed
  <1>5. CASE Answer(k)
    <2>1. /\ UNCHANGED <<mails, stored>> /\ call'[k].at = "idle"
          /\ \A j \in Calls \ {k} : call'[j] = call[j]
      BY <1>5 DEF Answer, NoCall, redis
    <2> QED BY <2>1 DEF MailInv, OnlyStoredMailed
  <1> QED BY <1>1, <1>2, <1>3, <1>4, <1>5 DEF CallStep

\* No mail carries a code that was never stored: a call whose SET failed ends without
\* one (GetVerifyCode, SetRedisExpire).
THEOREM MailedWasStored == VerifySpec => []OnlyStoredMailed
  <1>1. VerifyInit => MailInv
    BY DEF VerifyInit, MailInv, OnlyStoredMailed, NoCall
  <1>2. ASSUME VerifyInv, MailInv, [VerifyNext]_verifyVars PROVE MailInv'
    <2>1. CASE UNCHANGED <<mails, stored, call>>
      BY <1>2, <2>1 DEF MailInv, OnlyStoredMailed
    <2>2. CASE Restart
      BY <1>2, <2>2 DEF Restart, MailInv, OnlyStoredMailed, NoCall
    <2>3. ASSUME NEW k \in Calls, NEW e \in Emails, GetVerifyCode(k, e) PROVE MailInv'
      <3>1. /\ UNCHANGED <<mails, stored>> /\ call'[k].at = "get"
            /\ \A j \in Calls \ {k} : call'[j] = call[j]
        BY <1>2, <2>3 DEF GetVerifyCode, NoCall, redis, VerifyInv, Base, VerifyTypeOK
      <3> QED BY <1>2, <3>1 DEF MailInv, OnlyStoredMailed
    <2>4. \/ UNCHANGED <<mails, stored, call>> \/ Restart
          \/ \E k \in Calls : CallStep(k) \/ \E e \in Emails : GetVerifyCode(k, e)
      BY <1>2 DEF VerifyNext, verifyVars, redis, gate, ExpireCode, Quit, CheckCode, Register,
                  QueryEmail, UpdatePassword, Submit
    <2> QED BY <1>2, <2>1, <2>2, <2>3, <2>4, MailStep
  <1>3. MailInv => OnlyStoredMailed
    BY DEF MailInv
  <1> QED BY <1>1, <1>2, <1>3, VerifyInvariance, PTL DEF VerifySpec

\* Only a failed command, or a restart between set and expire, leaves a code without
\* a time to live behind (SetRedisExpire).
THEOREM UnlimitedByFailure == VerifySpec => []UnlimitedOnlyByFailure
  BY VerifyInvariance, PTL DEF VerifyInv

\* A stored code is replaced only by a call that had looked for one before it was
\* stored, or could not look (GetVerifyCode finds a code and mails it again).
THEOREM ReplacedByOverlap == VerifySpec => ReplacedOnlyByOverlap
  <1> DEFINE A == \A e \in Emails :
       code[e] # NoCode /\ code'[e] \notin {NoCode, code[e]} =>
         \E k \in Calls : /\ call[k].at = "set" /\ call[k].email = e
                         /\ code[e] \notin call[k].seen
  <1>1. VerifyInv /\ [VerifyNext]_verifyVars => [A]_verifyVars
    <2> SUFFICES ASSUME VerifyInv, VerifyNext, NEW e \in Emails,
                        code[e] # NoCode, code'[e] \notin {NoCode, code[e]}
                 PROVE  \E k \in Calls : /\ call[k].at = "set" /\ call[k].email = e
                                         /\ code[e] \notin call[k].seen
      BY DEF A
    <2>1. \E k \in Calls, out \in Outcomes : Set(k, out)
      <3>1. ASSUME NEW d \in Emails, ExpireCode(d) PROVE FALSE
        BY <3>1 DEF ExpireCode, VerifyInv, Base, VerifyTypeOK
      <3>2. CASE UNCHANGED code
        BY <3>2
      <3> QED BY <3>1, <3>2 DEF VerifyNext, Quit, Restart, CallStep, GetRedis, SetExpire, SendMail,
                   Answer, GetVerifyCode, CheckCode, Register, QueryEmail, UpdatePassword,
                   Submit, redis
    <2>2. PICK k \in Calls : call[k].at = "set" /\ call[k].email = e
      BY <2>1 DEF Set, Key, redis, VerifyInv, Base, VerifyTypeOK
    <2> QED BY <2>2 DEF VerifyInv, SeenInv
  <1> QED BY <1>1, VerifyInvariance, PTL DEF VerifySpec, ReplacedOnlyByOverlap
=============================================================================
