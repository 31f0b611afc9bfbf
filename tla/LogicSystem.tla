----------------------------- MODULE LogicSystem -----------------------------
(***************************************************************************)
(* ChatServer/LogicSystem.cpp: the task queues of the chat server.  An io  *)
(* thread that has read a message of an authenticated session calls        *)
(* postMsgToQueue; worker thread w serves queue w; main calls close() on   *)
(* shutdown.                                                               *)
(*                                                                         *)
(* Atomicity.  postMsgToQueue holds _queueMutexes[i] only around a size    *)
(* test and an emplace, so its critical section is one step (Post); the    *)
(* notify_one comes after the unlock and is a step of its own.  A worker   *)
(* holds the mutex of its queue over several steps: it is held exactly in  *)
(* the control states of Holds, so no lock variable is kept.  close()      *)
(* takes no mutex at all: it interleaves with everything.                  *)
(*                                                                         *)
(* Only worker w ever waits on _queueCvs[w]: notify_one and notify_all on  *)
(* it both move w from "waiting" to "lock" when w waits, and are lost when *)
(* it does not.                                                            *)
(***************************************************************************)
EXTENDS Integers, Sequences

CONSTANTS Sessions,      \* the sessions whose io threads post messages
          Uid,           \* Uid[s]: the uid session s is logged in as (CSession::getUid)
          WorkerCount,   \* _workerCount
          QueueMaxSize,  \* QUEUE_MAX_SIZE
          MaxPosts       \* bound: messages accepted per user

ASSUME ConstantsAssumption ==
  /\ WorkerCount \in Nat \ {0}
  /\ QueueMaxSize \in Nat
  /\ MaxPosts \in Nat
  /\ Uid \in [Sessions -> Int]

Workers == 0 .. WorkerCount - 1

Users == {Uid[s] : s \in Sessions}

\* LogicNode.  n is a ghost field: the number of the message among the
\* accepted messages of its user.
Node == [uid : Users, n : Nat]

\* A uid that is not positive goes to the first queue.
getQueueIndex(uid) == IF uid <= 0 THEN 0 ELSE uid % WorkerCount

VARIABLES queue,     \* _queues
          isStop,    \* _isStop
          wpc,       \* where each worker is in workerThread
          cur,       \* the node a worker hands to handleMsg
          ppc,       \* where the io thread of a session is in postMsgToQueue
          closer,    \* where the thread that calls close() is, and its loop index
          accepted,  \* ghost: messages accepted, per user
          handled    \* ghost: number of the last message handled, per user

vars == <<queue, isStop, wpc, cur, ppc, closer, accepted, handled>>

\* Control states of a worker in which it holds the mutex of its queue.
Holds == {"pred", "check", "block", "drain", "drainrun"}

WorkerPc == Holds \cup {"loop", "lock", "waiting", "run", "drainlock", "done"}

TypeOK ==
  /\ queue \in [Workers -> Seq(Node)]
  /\ isStop \in BOOLEAN
  /\ wpc \in [Workers -> WorkerPc]
  /\ cur \in [Workers -> [uid : Users \cup {0}, n : Nat]]
  /\ ppc \in [Sessions -> {"idle", "notify"}]
  /\ closer \in [at : {"open", "notify", "join", "closed"}, i : 0 .. WorkerCount]
  /\ accepted \in [Users -> Nat]
  /\ handled \in [Users -> Nat]

Init ==
  /\ queue = [w \in Workers |-> <<>>]
  /\ isStop = FALSE
  /\ wpc = [w \in Workers |-> "loop"]
  /\ cur = [w \in Workers |-> [uid |-> 0, n |-> 0]]
  /\ ppc = [s \in Sessions |-> "idle"]
  /\ closer = [at |-> "open", i |-> 0]
  /\ accepted = [u \in Users |-> 0]
  /\ handled = [u \in Users |-> 0]
-----------------------------------------------------------------------------
(* postMsgToQueue.  _isStop is not tested: a message may be posted during  *)
(* and after close().                                                      *)

Full(w) == Len(queue[w]) > QueueMaxSize

\* Mutant: notify_one forgotten.
PostSilent(s) ==
  LET u == Uid[s]
      w == getQueueIndex(u)
  IN  /\ ppc[s] = "idle"
      /\ wpc[w] \notin Holds
      /\ ~Full(w)
      /\ accepted[u] < MaxPosts
      /\ accepted' = [accepted EXCEPT ![u] = @ + 1]
      /\ queue' = [queue EXCEPT ![w] = Append(@, [uid |-> u, n |-> accepted[u] + 1])]
      /\ UNCHANGED <<isStop, wpc, cur, ppc, closer, handled>>

Post(s) ==
  LET u == Uid[s]
      w == getQueueIndex(u)
  IN  /\ ppc[s] = "idle"
      /\ wpc[w] \notin Holds
      /\ ~Full(w)
      /\ accepted[u] < MaxPosts
      /\ accepted' = [accepted EXCEPT ![u] = @ + 1]
      /\ queue' = [queue EXCEPT ![w] = Append(@, [uid |-> u, n |-> accepted[u] + 1])]
      /\ ppc' = [ppc EXCEPT ![s] = "notify"]
      /\ UNCHANGED <<isStop, wpc, cur, closer, handled>>

\* The queue is full: the message is dropped and nobody is told.
PostDrop(s) ==
  LET w == getQueueIndex(Uid[s])
  IN  /\ ppc[s] = "idle"
      /\ wpc[w] \notin Holds
      /\ Full(w)
      /\ UNCHANGED vars

\* The waiting worker, if there is one, goes to reacquire the mutex.
Woken(w) == IF wpc[w] = "waiting" THEN [wpc EXCEPT ![w] = "lock"] ELSE wpc

PostNotify(s) ==
  /\ ppc[s] = "notify"
  /\ ppc' = [ppc EXCEPT ![s] = "idle"]
  /\ wpc' = Woken(getQueueIndex(Uid[s]))
  /\ UNCHANGED <<queue, isStop, cur, closer, accepted, handled>>
-----------------------------------------------------------------------------
(* workerThread *)

Goto(w, from, to) == wpc[w] = from /\ wpc' = [wpc EXCEPT ![w] = to]

\* while (!_isStop)
WorkerLoop(w) ==
  /\ Goto(w, "loop", IF isStop THEN "drainlock" ELSE "lock")
  /\ UNCHANGED <<queue, isStop, cur, ppc, closer, accepted, handled>>

\* unique_lock, or the reacquisition inside wait() after a wake-up.
WorkerLock(w) ==
  /\ Goto(w, "lock", "pred")
  /\ UNCHANGED <<queue, isStop, cur, ppc, closer, accepted, handled>>

\* The predicate of wait(), evaluated with the mutex held.
WorkerPred(w) ==
  /\ Goto(w, "pred", IF isStop \/ queue[w] # <<>> THEN "check" ELSE "block")
  /\ UNCHANGED <<queue, isStop, cur, ppc, closer, accepted, handled>>

\* wait() blocks and releases the mutex, as one step.
WorkerBlock(w) ==
  /\ Goto(w, "block", "waiting")
  /\ UNCHANGED <<queue, isStop, cur, ppc, closer, accepted, handled>>

\* A condition variable may wake without a notification.
SpuriousWake(w) ==
  /\ Goto(w, "waiting", "lock")
  /\ UNCHANGED <<queue, isStop, cur, ppc, closer, accepted, handled>>

\* if (_isStop) break: _isStop is read again, it may have been set since
\* the predicate was evaluated.
WorkerBreak(w) ==
  /\ isStop
  /\ Goto(w, "check", "drainlock")
  /\ UNCHANGED <<queue, isStop, cur, ppc, closer, accepted, handled>>

\* front() and pop(), then the mutex is released.
WorkerTake(w) ==
  /\ ~isStop
  /\ queue[w] # <<>>
  /\ Goto(w, "check", "run")
  /\ cur' = [cur EXCEPT ![w] = Head(queue[w])]
  /\ queue' = [queue EXCEPT ![w] = Tail(@)]
  /\ UNCHANGED <<isStop, ppc, closer, accepted, handled>>

\* handleMsg returns; it catches what the handler throws.
WorkerRun(w) ==
  /\ Goto(w, "run", "loop")
  /\ handled' = [handled EXCEPT ![cur[w].uid] = cur[w].n]
  /\ UNCHANGED <<queue, isStop, cur, ppc, closer, accepted>>

\* After the loop the queue is drained with its mutex held; a node is
\* popped only after its handler returned.
DrainLock(w) ==
  /\ Goto(w, "drainlock", "drain")
  /\ UNCHANGED <<queue, isStop, cur, ppc, closer, accepted, handled>>

DrainTake(w) ==
  /\ queue[w] # <<>>
  /\ Goto(w, "drain", "drainrun")
  /\ cur' = [cur EXCEPT ![w] = Head(queue[w])]
  /\ UNCHANGED <<queue, isStop, ppc, closer, accepted, handled>>

\* Mutant: the drain does not pop the node it has handled.
DrainRunNoPop(w) ==
  /\ Goto(w, "drainrun", "drain")
  /\ handled' = [handled EXCEPT ![cur[w].uid] = cur[w].n]
  /\ UNCHANGED <<queue, isStop, cur, ppc, closer, accepted>>

DrainRun(w) ==
  /\ Goto(w, "drainrun", "drain")
  /\ handled' = [handled EXCEPT ![cur[w].uid] = cur[w].n]
  /\ queue' = [queue EXCEPT ![w] = Tail(@)]
  /\ UNCHANGED <<isStop, cur, ppc, closer, accepted>>

DrainDone(w) ==
  /\ queue[w] = <<>>
  /\ Goto(w, "drain", "done")
  /\ UNCHANGED <<queue, isStop, cur, ppc, closer, accepted, handled>>

WorkerStep(w) ==
  \/ WorkerLoop(w) \/ WorkerLock(w) \/ WorkerPred(w) \/ WorkerBlock(w)
  \/ WorkerBreak(w) \/ WorkerTake(w) \/ WorkerRun(w)
  \/ DrainLock(w) \/ DrainTake(w) \/ DrainRun(w) \/ DrainDone(w)
-----------------------------------------------------------------------------
(* close().  _isStop is an atomic that is set without any queue's mutex.   *)

CloseStop ==
  /\ closer.at = "open"
  /\ isStop' = TRUE
  /\ closer' = [at |-> "notify", i |-> 0]
  /\ UNCHANGED <<queue, wpc, cur, ppc, accepted, handled>>

CloseNotify ==
  /\ closer.at = "notify"
  /\ closer.i < WorkerCount
  /\ wpc' = Woken(closer.i)
  /\ closer' = [at |-> IF closer.i + 1 = WorkerCount THEN "join" ELSE "notify",
                i  |-> IF closer.i + 1 = WorkerCount THEN 0 ELSE closer.i + 1]
  /\ UNCHANGED <<queue, isStop, cur, ppc, accepted, handled>>

CloseJoin ==
  /\ closer.at = "join"
  /\ closer.i < WorkerCount
  /\ wpc[closer.i] = "done"
  /\ closer' = [at |-> IF closer.i + 1 = WorkerCount THEN "closed" ELSE "join",
                i  |-> closer.i + 1]
  /\ UNCHANGED <<queue, isStop, wpc, cur, ppc, accepted, handled>>
-----------------------------------------------------------------------------
Next ==
  \/ \E s \in Sessions : Post(s) \/ PostDrop(s) \/ PostNotify(s)
  \/ \E w \in Workers : WorkerStep(w) \/ SpuriousWake(w)
  \/ CloseStop \/ CloseNotify \/ CloseJoin

\* Every thread that can run does: a worker, an io thread that owes a
\* notification, the closing thread once it has begun.  Nobody is obliged
\* to post, to shut down or to wake a thread for no reason.
Fairness ==
  /\ \A w \in Workers : WF_vars(WorkerStep(w))
  /\ \A s \in Sessions : WF_vars(PostNotify(s))
  /\ WF_vars(CloseNotify \/ CloseJoin)

Spec == Init /\ [][Next]_vars

FairSpec == Spec /\ Fairness
-----------------------------------------------------------------------------
(* Properties *)

Running(w, u) == wpc[w] \in {"run", "drainrun"} /\ cur[w].uid = u

\* The code drops when size > QUEUE_MAX_SIZE: a queue never holds more than
\* QUEUE_MAX_SIZE + 1 nodes (postMsgToQueue), also while it is drained.
QueueBound == \A w \in Workers : Len(queue[w]) <= QueueMaxSize + 1

\* The handlers of one user never run on two workers at the same time, which
\* is what lets them update that user's state without a lock of their own.
OneHandlerPerUser ==
  \A u \in Users, w1, w2 \in Workers :
    Running(w1, u) /\ Running(w2, u) => w1 = w2

\* A worker never sleeps over a message: if it waits while its queue is not
\* empty, the notification of the io thread that queued it is still to come
\* (postMsgToQueue notifies after it unlocks; workerThread tests the
\* predicate before it blocks).
NoSleepOverWork ==
  \A w \in Workers :
    wpc[w] = "waiting" /\ queue[w] # <<>> =>
      \E s \in Sessions : ppc[s] = "notify" /\ getQueueIndex(Uid[s]) = w

\* The queued messages of u are in the order of their acceptance.
Ordered(u) ==
  LET q == queue[getQueueIndex(u)]
      mine == {i \in DOMAIN q : q[i].uid = u}
  IN  \A i, j \in mine : i < j => q[i].n < q[j].n

\* Nothing accepted is lost: for every user the messages that are handled,
\* being handled or queued are together exactly 1..accepted[u], and those
\* queued are in order, through the normal loop, shutdown and the drain.
NothingLost ==
  \A u \in Users :
    LET w == getQueueIndex(u)
        queued == {queue[w][i].n : i \in {j \in DOMAIN queue[w] : queue[w][j].uid = u}}
        inHand == IF Running(w, u) THEN {cur[w].n} ELSE {}
    IN  /\ 1 .. accepted[u] = (1 .. handled[u]) \cup inHand \cup queued
        /\ Ordered(u)

\* The task queues implement the per-user mailbox: one handler at a time,
\* in the order of acceptance, each message once.
Mailbox == INSTANCE ActorMailbox
             WITH running <- [u \in Users |-> \E w \in Workers : Running(w, u)]

ImplementsMailbox == Mailbox!Spec

\* While the server is not being shut down, every accepted message is
\* eventually handled: no notification is lost between postMsgToQueue and
\* the wait of the worker.
AcceptedIsHandled ==
  \A u \in Users : \A k \in 1 .. MaxPosts :
    accepted[u] >= k ~> handled[u] >= k \/ isStop

\* README.md: on shutdown resources are released in an orderly way, so close() returns.
CloseReturns == isStop ~> closer.at = "closed"
=============================================================================
