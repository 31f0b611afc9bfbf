----------------------------- MODULE GateRequest ------------------------------
(***************************************************************************)
(* GateServer from accept to answer: CServer, HttpConnection and the task  *)
(* queue and worker threads of LogicSystem.  For every connection          *)
(*   the acceptor   builds the connection, and with it its deadline of 60  *)
(*                  seconds, before there is a client; then waits for one  *)
(*   the io thread  reads the request, pushes it to the queue, notifies a  *)
(*                  worker, and only then waits for the deadline; the end  *)
(*                  of the write cancels that wait; handlers of one        *)
(*                  connection run one at a time (one thread per context)  *)
(*   a worker       pops the task, runs its handler, starts the write      *)
(* A connection lives as long as something refers to it; when nothing      *)
(* does, its destructor closes the socket.  A handler of a body that is no *)
(* JSON throws out of its thread, which ends the process.  After a signal  *)
(* main leaves its io_context and returns, and the pool of io_contexts and *)
(* LogicSystem are destroyed with the other singletons: static objects of  *)
(* different translation units, so in either order.  A call of one that is *)
(* destroyed is undefined: it ends the process or has no effect.  What the *)
(* handlers of accounts do is modules VerifyCode and LoginToken.           *)
(***************************************************************************)
EXTENDS Integers, Sequences, SequencesExt, FiniteSets

CONSTANTS MaxConns,     \* bound: connections built
          Asks,         \* bound: Asks[c], the requests that c's client may send
          Workers,      \* worker threads
          QueueMaxSize, \* QUEUE_MAX_SIZE
          Nobody        \* no connection, no worker, no request, no answer

Conns == 1..MaxConns    \* in the order in which they are built

\* Requests: with a handler; with none; a body that is no JSON; neither GET nor POST.
Kinds == {"known", "unknown", "malformed", "other"}

\* What became of an answer.
Fates == {"ok", "not found", "lost"}

ASSUME GateAssumption ==
  /\ MaxConns \in Nat \ {0} /\ QueueMaxSize \in Nat
  /\ Asks \in [Conns -> SUBSET Kinds]
  /\ Nobody \notin Workers /\ Nobody \notin Conns /\ Nobody \notin Kinds \cup Fates

VARIABLES conn,     \* conn[c]: what the io side is doing for c
          expired,  \* connections built 60 seconds ago or earlier
          timer,    \* timer[c]: the wait for the deadline
          closed,   \* connections whose socket the deadline closed
          request,  \* request[c]: what was read from c
          writing,  \* connections with an async_write outstanding
          answer,   \* answer[c]: what c's client received, or that it was lost
          queue,    \* _queue
          lock,     \* the worker that holds _mutex over several steps, or Nobody
          pc, task, \* where each worker is, and the task it has in hand
          isStop,   \* _isStop
          main,     \* what main does: serve, return, or the end of a singleton
          gone,     \* the singletons destroyed: "pool", "logic"
          up        \* the process runs

io == <<conn, expired, timer, closed, request, writing, answer>>
work == <<queue, lock, pc, task>>
service == <<isStop, main, gone, up>>
vars == <<io, work, service>>

\* Something refers to the connection: an asynchronous operation, a task.
Held(c) ==
  \/ conn[c] \notin {"none", "idle"}
  \/ timer[c] = "waiting"
  \/ c \in writing
  \/ c \in ToSet(queue)
  \/ \E w \in Workers : task[w] = c

Open(c) == up /\ Held(c) /\ c \notin closed

Init ==
  /\ conn = [c \in Conns |-> IF c = 1 THEN "listening" ELSE "none"]
  /\ expired = {} /\ closed = {} /\ writing = {}
  /\ timer = [c \in Conns |-> "off"]
  /\ request = [c \in Conns |-> Nobody]
  /\ answer = [c \in Conns |-> Nobody]
  /\ queue = <<>> /\ lock = Nobody
  /\ pc = [w \in Workers |-> "ready"]
  /\ task = [w \in Workers |-> Nobody]
  /\ isStop = FALSE /\ main = "serve" /\ gone = {} /\ up = TRUE

-----------------------------------------------------------------------------
(* CServer::start: the next connection is built when the last is accepted.  *)

Accept(c) ==
  /\ main = "serve" /\ conn[c] = "listening"
  /\ conn' = [d \in Conns |-> IF d = c THEN "reading"
                              ELSE IF d = c + 1 THEN "listening" ELSE conn[d]]
  /\ UNCHANGED <<expired, timer, closed, request, writing, answer, work, service>>

\* The accept fails: start builds another connection in place of this one.
AcceptError(c) ==
  /\ main = "serve" /\ conn[c] = "listening"
  /\ expired' = expired \ {c}
  /\ UNCHANGED <<conn, timer, closed, request, writing, answer, work, service>>

\* Sixty seconds have passed since the connection was built.
Expire(c) ==
  /\ conn[c] # "none" /\ c \notin expired /\ 1..(c - 1) \subseteq expired
  /\ expired' = expired \cup {c}
  /\ UNCHANGED <<conn, timer, closed, request, writing, answer, work, service>>

-----------------------------------------------------------------------------
(* HttpConnection: the handler of async_read, the deadline and the write.   *)

\* The threads of the pool take up handlers.
Running == main # "stop" /\ "pool" \notin gone

Read(c, k) ==
  /\ conn[c] = "reading" /\ Running /\ k \in Asks[c]
  /\ conn' = [conn EXCEPT ![c] = "handling"]
  /\ request' = [request EXCEPT ![c] = k]
  /\ UNCHANGED <<expired, timer, closed, writing, answer, work, service>>

ReadError(c) ==
  /\ conn[c] = "reading" /\ Running
  /\ conn' = [conn EXCEPT ![c] = "idle"]
  /\ UNCHANGED <<expired, timer, closed, request, writing, answer, work, service>>

Full == Len(queue) > QueueMaxSize

\* handleRequest and pushTask: only GET and POST are pushed, and a full queue
\* drops the task without a word.
HandleRequest(c) ==
  /\ conn[c] = "handling"
  /\ \/ /\ request[c] = "other"
        /\ conn' = [conn EXCEPT ![c] = "arming"]
        /\ UNCHANGED <<queue, up>>
     \/ /\ request[c] # "other" /\ "logic" \notin gone /\ lock = Nobody
        /\ conn' = [conn EXCEPT ![c] = IF Full THEN "arming" ELSE "notifying"]
        /\ queue' = IF Full THEN queue ELSE Append(queue, c)
        /\ UNCHANGED up
     \/ /\ request[c] # "other" /\ "logic" \in gone
        /\ conn' = [conn EXCEPT ![c] = "arming"]
        /\ up' \in BOOLEAN
        /\ UNCHANGED queue
  /\ UNCHANGED <<expired, timer, closed, request, writing, answer,
                 lock, pc, task, isStop, main, gone>>

\* _cv.notify_one, after the mutex is released: one of the threads that wait.
Notify(c) ==
  /\ conn[c] = "notifying"
  /\ conn' = [conn EXCEPT ![c] = "arming"]
  /\ LET asleep == {w \in Workers : pc[w] = "asleep"}
     IN  IF asleep = {} THEN UNCHANGED pc
         ELSE \E w \in asleep : pc' = [pc EXCEPT ![w] = "ready"]
  /\ IF "logic" \in gone THEN up' \in BOOLEAN ELSE UNCHANGED up
  /\ UNCHANGED <<expired, timer, closed, request, writing, answer, queue, lock, task,
                 isStop, main, gone>>

\* Mutant: the wait for the deadline is not started.
checkDeadLineNever(c) ==
  /\ conn[c] = "arming"
  /\ conn' = [conn EXCEPT ![c] = "idle"]
  /\ UNCHANGED <<expired, timer, closed, request, writing, answer, work, service>>

checkDeadLine(c) ==
  /\ conn[c] = "arming"
  /\ conn' = [conn EXCEPT ![c] = "idle"]
  /\ timer' = [timer EXCEPT ![c] = "waiting"]
  /\ UNCHANGED <<expired, closed, request, writing, answer, work, service>>

\* The handler of the timer: the socket is closed, whatever is written to it.
DeadLine(c) ==
  /\ conn[c] = "idle" /\ timer[c] = "waiting" /\ c \in expired /\ Running
  /\ timer' = [timer EXCEPT ![c] = "over"]
  /\ closed' = closed \cup {c}
  /\ UNCHANGED <<conn, expired, request, writing, answer, work, service>>

Reply(k) == IF k = "unknown" THEN "not found" ELSE "ok"

\* The write ends, on the client's side or with an error; either way its handler
\* shuts the sending side and cancels the wait for the deadline.  When the pool has
\* stopped the handler does not run, but nobody can tell: no timer fires any more.
Written(c, received) ==
  /\ c \in writing /\ conn[c] = "idle"
  /\ received => c \notin closed
  /\ writing' = writing \ {c}
  /\ answer' = [answer EXCEPT ![c] = IF received THEN Reply(request[c]) ELSE "lost"]
  /\ timer' = [timer EXCEPT ![c] = "over"]
  /\ UNCHANGED <<conn, expired, closed, request, work, service>>

-----------------------------------------------------------------------------
(* LogicSystem::workerThread.                                               *)

\* while (!_isStop), the predicate of _cv.wait and what follows it: leave, take a
\* task, or wait.
Check(w) ==
  /\ pc[w] = "ready"
  /\ \/ /\ isStop
        /\ pc' = [pc EXCEPT ![w] = "stopping"]
        /\ UNCHANGED <<queue, lock, task>>
     \/ /\ ~isStop /\ lock = Nobody /\ queue # <<>>
        /\ task' = [task EXCEPT ![w] = Head(queue)]
        /\ queue' = Tail(queue)
        /\ pc' = [pc EXCEPT ![w] = "handling"]
        /\ UNCHANGED lock
     \/ /\ ~isStop /\ lock = Nobody /\ queue = <<>>
        /\ lock' = w
        /\ pc' = [pc EXCEPT ![w] = "blocking"]
        /\ UNCHANGED <<queue, task>>
  /\ UNCHANGED <<io, service>>

Block(w) ==
  /\ pc[w] = "blocking"
  /\ lock' = Nobody
  /\ pc' = [pc EXCEPT ![w] = "asleep"]
  /\ UNCHANGED <<io, queue, task, service>>

\* A wait may end without a notification.
Spurious(w) ==
  /\ pc[w] = "asleep"
  /\ pc' = [pc EXCEPT ![w] = "ready"]
  /\ UNCHANGED <<io, queue, lock, task, service>>

\* The handler of c's task and response(): the write is started; or the handler
\* throws, which no one catches; or a singleton that it calls, or the pool of the
\* socket, is destroyed: the process ends, or nothing is written.
Respond(c) ==
  \/ /\ request[c] # "malformed"
     /\ writing' = IF "pool" \in gone THEN writing ELSE writing \cup {c}
     /\ UNCHANGED up
  \/ /\ request[c] = "malformed" \/ main # "serve"
     /\ up' = FALSE
     /\ UNCHANGED writing

Handle(w) ==
  /\ pc[w] = "handling"
  /\ Respond(task[w])
  /\ task' = [task EXCEPT ![w] = Nobody]
  /\ pc' = [pc EXCEPT ![w] = "ready"]
  /\ UNCHANGED <<conn, expired, timer, closed, request, answer, queue, lock,
                 isStop, main, gone>>

\* After the loop: what is left in the queue, with the mutex held throughout.
DrainStart(w) ==
  /\ pc[w] = "stopping" /\ lock = Nobody
  /\ lock' = w
  /\ pc' = [pc EXCEPT ![w] = "draining"]
  /\ UNCHANGED <<io, queue, task, service>>

\* Mutant: the task stays in the queue.
DrainKeeps(w) ==
  /\ pc[w] = "draining" /\ queue # <<>>
  /\ Respond(Head(queue))
  /\ UNCHANGED <<conn, expired, timer, closed, request, answer, work,
                 isStop, main, gone>>

Drain(w) ==
  /\ pc[w] = "draining" /\ queue # <<>>
  /\ Respond(Head(queue))
  /\ queue' = Tail(queue)
  /\ UNCHANGED <<conn, expired, timer, closed, request, answer, lock, pc, task,
                 isStop, main, gone>>

DrainEnd(w) ==
  /\ pc[w] = "draining" /\ queue = <<>>
  /\ lock' = Nobody
  /\ pc' = [pc EXCEPT ![w] = "done"]
  /\ UNCHANGED <<io, queue, task, service>>

-----------------------------------------------------------------------------
(* The end of main: its io_context stops, and with it the acceptor; then    *)
(* LogicSystem and the pool are destroyed, in either order.                 *)

\* The connection that waits in async_accept goes with main's io_context.
Signal ==
  /\ main = "serve"
  /\ main' = "return"
  /\ conn' = [c \in Conns |-> IF conn[c] = "listening" THEN "idle" ELSE conn[c]]
  /\ UNCHANGED <<expired, timer, closed, request, writing, answer, work, isStop, gone, up>>

\* LogicSystem::close: _isStop is set and the threads that wait are notified, without
\* the mutex, and joined; then the queue is destroyed, with what was pushed after
\* the last of them had found it empty.
CloseStop ==
  /\ main = "return" /\ "logic" \notin gone
  /\ isStop' = TRUE /\ main' = "notify"
  /\ UNCHANGED <<io, work, gone, up>>

CloseNotify ==
  /\ main = "notify"
  /\ main' = "join"
  /\ pc' = [w \in Workers |-> IF pc[w] = "asleep" THEN "ready" ELSE pc[w]]
  /\ UNCHANGED <<io, queue, lock, task, isStop, gone, up>>

CloseJoin ==
  /\ main = "join" /\ \A w \in Workers : pc[w] = "done"
  /\ main' = "return" /\ gone' = gone \cup {"logic"}
  /\ queue' = <<>>
  /\ UNCHANGED <<io, lock, pc, task, isStop, up>>

\* AsioIOcontextPool::stop: no io_context takes up another handler.
PoolStop ==
  /\ main = "return" /\ "pool" \notin gone
  /\ main' = "stop"
  /\ UNCHANGED <<io, work, isStop, gone, up>>

\* The threads are joined when their last handlers have ended; then the io_contexts
\* are destroyed, and with them all reads, writes and waits that were outstanding.
PoolDestroy ==
  /\ main = "stop"
  /\ \A c \in Conns : conn[c] \notin {"handling", "notifying", "arming"}
  /\ main' = "return" /\ gone' = gone \cup {"pool"}
  /\ conn' = [c \in Conns |-> IF conn[c] = "reading" THEN "idle" ELSE conn[c]]
  /\ timer' = [c \in Conns |-> IF timer[c] = "waiting" THEN "over" ELSE timer[c]]
  /\ writing' = {}
  /\ UNCHANGED <<expired, closed, request, answer, work, isStop, up>>

Exit ==
  /\ main = "return" /\ gone = {"pool", "logic"}
  /\ up' = FALSE
  /\ UNCHANGED <<io, work, isStop, main, gone>>

-----------------------------------------------------------------------------
ConnStep(c) ==
  \/ Accept(c) \/ AcceptError(c) \/ Expire(c)
  \/ (\E k \in Kinds : Read(c, k)) \/ ReadError(c)
  \/ HandleRequest(c) \/ Notify(c) \/ checkDeadLine(c) \/ DeadLine(c)
  \/ \E received \in BOOLEAN : Written(c, received)

WorkerStep(w) ==
  \/ Check(w) \/ Block(w) \/ Spurious(w) \/ Handle(w)
  \/ DrainStart(w) \/ Drain(w) \/ DrainEnd(w)

MainStep == CloseStop \/ CloseNotify \/ CloseJoin \/ PoolStop \/ PoolDestroy \/ Exit

Next ==
  /\ up
  /\ \/ \E c \in Conns : ConnStep(c)
     \/ \E w \in Workers : WorkerStep(w)
     \/ Signal \/ MainStep

Spec == Init /\ [][Next]_vars

\* Time passes, and main, the io threads and the workers run; who finds the mutex free
\* again and again gets it.  Nothing is assumed of clients, nor that a write or a
\* handler ever ends (a handler's call of another server has no deadline), be it in
\* a worker's loop or in its drain.
FairSpec ==
  /\ Spec
  /\ \A c \in Conns :
       /\ WF_vars(up /\ Expire(c)) /\ SF_vars(up /\ HandleRequest(c))
       /\ WF_vars(up /\ (Notify(c) \/ checkDeadLine(c) \/ DeadLine(c)))
  /\ \A w \in Workers :
       WF_vars(up /\ (Check(w) \/ Block(w) \/ DrainStart(w) \/ DrainEnd(w)))
  /\ WF_vars(up /\ MainStep)

-----------------------------------------------------------------------------
(* Properties.                                                              *)

\* Types; the queue holds one task more than QUEUE_MAX_SIZE at most; a worker
\* has a task in hand exactly while it handles it.
TypeOK ==
  /\ conn \in [Conns -> {"none", "listening", "reading", "handling", "notifying",
                         "arming", "idle"}]
  /\ expired \subseteq Conns /\ closed \subseteq Conns /\ writing \subseteq Conns
  /\ timer \in [Conns -> {"off", "waiting", "over"}]
  /\ request \in [Conns -> Kinds \cup {Nobody}]
  /\ answer \in [Conns -> Fates \cup {Nobody}]
  /\ queue \in Seq(Conns) /\ Len(queue) <= QueueMaxSize + 1
  /\ lock \in Workers \cup {Nobody}
  /\ pc \in [Workers -> {"ready", "blocking", "asleep", "handling",
                         "stopping", "draining", "done"}]
  /\ task \in [Workers -> Conns \cup {Nobody}]
  /\ \A w \in Workers : task[w] # Nobody <=> pc[w] = "handling"
  /\ isStop \in BOOLEAN /\ up \in BOOLEAN
  /\ main \in {"serve", "return", "notify", "join", "stop"}
  /\ gone \subseteq {"pool", "logic"}

\* As long as the pool of io_contexts exists a request goes unanswered only if its
\* deadline has passed or the client could not be written to: one that a full queue
\* dropped, whose method is not served, or which a shutdown found too late is not
\* hung up on earlier.  The end of the pool hangs up on all that are left
\* (HttpConnection.cpp:21-22, LogicSystem.cpp:32-35, 80-115, AsioIOcontextPool.cpp:36-45).
OnlyDeadlineSilences ==
  \A c \in Conns :
    request[c] # Nobody /\ up /\ "pool" \notin gone /\ ~Open(c) =>
      answer[c] # Nobody \/ c \in expired

\* A handler keeps its thread: one of a drain, with the mutex held; or, when the pool
\* and all deadlines are gone, one of a worker that main waits for.
Kept ==
  \E w \in Workers :
    \/ pc[w] = "draining" /\ queue # <<>>
    \/ pc[w] = "handling" /\ "pool" \in gone

\* Every request that was read is answered or its connection closed, though
\* handlers hang, tasks are dropped, the process ends or the server is shut down;
\* unless a handler that never returns holds up the shutdown, and with it the mutex
\* that io threads wait for, or what is left in the queue after the pool is gone.
EveryRequestEnds ==
  \A c \in Conns : conn[c] = "handling" ~> (~Open(c) \/ []Kept)

\* One answer at most, the one that is due, and nothing after it.
Exchange == INSTANCE HttpExchange WITH
  Silent <- Nobody,
  asked <- request,
  said <- [c \in Conns |-> IF answer[c] = "lost" THEN Nobody ELSE answer[c]],
  over <- {c \in Conns : ~up \/ c \in closed \/ (conn[c] = "idle" /\ ~Held(c))}

ImplementsExchange == Exchange!Spec
=============================================================================
