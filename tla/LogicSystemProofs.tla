-------------------------- MODULE LogicSystemProofs --------------------------
(***************************************************************************)
(* Proofs about LogicSystem, for every number of workers, every assignment *)
(* of uids to sessions and every queue size.  The inductive invariant has  *)
(* a data part, which says where each accepted message of a user is, and a *)
(* control part, which says why no worker sleeps over a message.           *)
(***************************************************************************)
EXTENDS LogicSystem, TLAPS

\* A queued message is in the queue its uid is hashed to.
Routed ==
  \A w \in Workers : \A i \in 1 .. Len(queue[w]) :
    getQueueIndex(queue[w][i].uid) = w

\* A queued message is neither handled yet nor, unless it is the one a drain
\* is working on, in the hands of the worker.
Numbered ==
  \A w \in Workers : \A i \in 1 .. Len(queue[w]) :
    LET d == queue[w][i]
    IN  /\ d.n <= accepted[d.uid]
        /\ handled[d.uid] < d.n
        /\ wpc[w] = "run" /\ cur[w].uid = d.uid => cur[w].n < d.n

\* The messages of one user are queued in the order of their acceptance.
Increasing ==
  \A w \in Workers : \A i, j \in 1 .. Len(queue[w]) :
    i < j /\ queue[w][i].uid = queue[w][j].uid => queue[w][i].n < queue[w][j].n

\* Every accepted message is handled, in the hands of the worker or queued,
\* and only accepted messages are handled.
Located(u, k) ==
  LET w == getQueueIndex(u)
  IN  \/ k <= handled[u]
      \/ wpc[w] = "run" /\ cur[w].uid = u /\ cur[w].n = k
      \/ \E i \in 1 .. Len(queue[w]) : queue[w][i].uid = u /\ queue[w][i].n = k

Covered ==
  \A u \in Users :
    /\ handled[u] <= accepted[u]
    /\ \A k \in 1 .. accepted[u] : Located(u, k)

\* The message in the hands of a worker is its user's next one; a drain keeps
\* it at the head of the queue.
InHand ==
  \A w \in Workers :
    /\ wpc[w] \in {"run", "drainrun"} =>
         /\ cur[w].uid \in Users
         /\ getQueueIndex(cur[w].uid) = w
         /\ cur[w].n = handled[cur[w].uid] + 1
         /\ cur[w].n <= accepted[cur[w].uid]
    /\ wpc[w] = "drainrun" => queue[w] # <<>> /\ cur[w] = queue[w][1]

DataInv == Routed /\ Numbered /\ Increasing /\ Covered /\ InHand

\* Between its predicate and its wait a worker holds the mutex, so its queue
\* is still empty.
EmptyBeforeBlock == \A w \in Workers : wpc[w] = "block" => queue[w] = <<>>

SleepInv == EmptyBeforeBlock /\ NoSleepOverWork

IInv == TypeOK /\ QueueBound /\ DataInv /\ SleepInv
-----------------------------------------------------------------------------
\* getQueueIndex: every uid, positive or not, has a queue.
LEMMA QueueIndexInRange == \A u \in Int : getQueueIndex(u) \in Workers
  BY ConstantsAssumption DEF getQueueIndex, Workers

LEMMA UsersAreInts == Users \subseteq Int
  BY ConstantsAssumption DEF Users

\* What emplace does to a queue.
LEMMA AppendFacts ==
  ASSUME NEW S, NEW q \in Seq(S), NEW e \in S
  PROVE  /\ Append(q, e) \in Seq(S)
         /\ Len(Append(q, e)) = Len(q) + 1
         /\ \A i \in 1 .. Len(q) : Append(q, e)[i] = q[i]
         /\ Append(q, e)[Len(q) + 1] = e
         /\ Append(q, e) # <<>>
  OBVIOUS

\* What pop does to a queue.
LEMMA TailFacts ==
  ASSUME NEW S, NEW q \in Seq(S), q # <<>>
  PROVE  /\ Tail(q) \in Seq(S)
         /\ Len(q) \in Nat /\ Len(q) > 0
         /\ Len(Tail(q)) = Len(q) - 1
         /\ \A i \in 1 .. Len(q) - 1 : Tail(q)[i] = q[i + 1]
         /\ Head(q) = q[1]
         /\ q[1] \in S
  OBVIOUS

LEMMA TypeInit == Init => TypeOK
<1> SUFFICES ASSUME Init PROVE TypeOK
  OBVIOUS
<1> USE DEF Init
<1>1. <<>> \in Seq(Node)
  OBVIOUS
<1>2. queue \in [Workers -> Seq(Node)]
  BY <1>1
<1>3. cur \in [Workers -> [uid : Users \cup {0}, n : Nat]]
  OBVIOUS
<1>4. closer \in [at : {"open", "notify", "join", "closed"}, i : 0 .. WorkerCount]
  BY ConstantsAssumption
<1>5. QED
  BY <1>2, <1>3, <1>4 DEF TypeOK, WorkerPc

LEMMA TypeStep == TypeOK /\ InHand /\ [Next]_vars => TypeOK'
<1> SUFFICES ASSUME TypeOK, InHand, [Next]_vars PROVE TypeOK'
  OBVIOUS
<1> USE DEF TypeOK
<1>1. ASSUME NEW s \in Sessions, Post(s) PROVE TypeOK'
  <2> DEFINE u == Uid[s]
             w == getQueueIndex(u)
             e == [uid |-> u, n |-> accepted[u] + 1]
  <2>1. u \in Users /\ w \in Workers
    BY UsersAreInts, QueueIndexInRange DEF Users
  <2>2. e \in Node
    BY <2>1 DEF Node
  <2>3. Append(queue[w], e) \in Seq(Node)
    BY <2>1, <2>2, AppendFacts
  <2>4. queue' = [queue EXCEPT ![w] = Append(queue[w], e)]
    BY <1>1 DEF Post
  <2>5. queue' \in [Workers -> Seq(Node)]
    BY <2>1, <2>3, <2>4
  <2>6. QED
    BY <1>1, <2>1, <2>5 DEF Post
<1>2. ASSUME NEW s \in Sessions, PostDrop(s) PROVE TypeOK'
  BY <1>2 DEF PostDrop, vars
<1>3. ASSUME NEW s \in Sessions, PostNotify(s) PROVE TypeOK'
  BY <1>3 DEF PostNotify, Woken, WorkerPc, Holds
<1>4. ASSUME NEW w \in Workers, WorkerStep(w) PROVE TypeOK'
  <2> USE DEF Goto, WorkerPc, Holds
  <2>1. CASE WorkerLoop(w)  BY <2>1 DEF WorkerLoop
  <2>2. CASE WorkerLock(w)  BY <2>2 DEF WorkerLock
  <2>3. CASE WorkerPred(w)  BY <2>3 DEF WorkerPred
  <2>4. CASE WorkerBlock(w)  BY <2>4 DEF WorkerBlock
  <2>5. CASE WorkerBreak(w)  BY <2>5 DEF WorkerBreak
  <2>6. CASE WorkerTake(w)
    <3>1. Tail(queue[w]) \in Seq(Node) /\ Head(queue[w]) \in Node
      BY <2>6, TailFacts DEF WorkerTake
    <3>2. Head(queue[w]) \in [uid : Users \cup {0}, n : Nat]
      BY <3>1 DEF Node
    <3>3. QED
      BY <2>6, <3>1, <3>2 DEF WorkerTake
  <2>7. CASE WorkerRun(w)  BY <2>7 DEF WorkerRun
  <2>8. CASE DrainLock(w)  BY <2>8 DEF DrainLock
  <2>9. CASE DrainTake(w)
    <3>1. Head(queue[w]) \in Node
      BY <2>9, TailFacts DEF DrainTake
    <3>2. Head(queue[w]) \in [uid : Users \cup {0}, n : Nat]
      BY <3>1 DEF Node
    <3>3. QED
      BY <2>9, <3>2 DEF DrainTake
  <2>10. CASE DrainRun(w)
    <3>1. queue[w] # <<>>
      BY <2>10 DEF DrainRun, InHand
    <3>2. Tail(queue[w]) \in Seq(Node)
      BY <3>1, TailFacts
    <3>3. cur[w].uid \in Users
      BY <2>10 DEF DrainRun, InHand
    <3>4. QED
      BY <2>10, <3>2, <3>3 DEF DrainRun
  <2>11. CASE DrainDone(w)  BY <2>11 DEF DrainDone
  <2>12. QED
    BY <1>4, <2>1, <2>2, <2>3, <2>4, <2>5, <2>6, <2>7, <2>8, <2>9, <2>10, <2>11 DEF WorkerStep
<1>5. ASSUME NEW w \in Workers, SpuriousWake(w) PROVE TypeOK'
  BY <1>5 DEF SpuriousWake, Goto, WorkerPc, Holds
<1>6. CASE CloseStop
  BY <1>6, ConstantsAssumption DEF CloseStop
<1>7. CASE CloseNotify
  <2>1. wpc' \in [Workers -> WorkerPc]
    BY <1>7 DEF CloseNotify, Woken, WorkerPc
  <2>2. closer.i + 1 \in 0 .. WorkerCount /\ 0 \in 0 .. WorkerCount
    BY <1>7, ConstantsAssumption DEF CloseNotify
  <2>3. closer' \in [at : {"open", "notify", "join", "closed"}, i : 0 .. WorkerCount]
    BY <1>7, <2>2 DEF CloseNotify
  <2>4. QED
    BY <1>7, <2>1, <2>3 DEF CloseNotify
<1>8. CASE CloseJoin
  BY <1>8, ConstantsAssumption DEF CloseJoin
<1>9. CASE UNCHANGED vars
  BY <1>9 DEF vars
<1>10. QED
  BY <1>1, <1>2, <1>3, <1>4, <1>5, <1>6, <1>7, <1>8, <1>9 DEF Next
-----------------------------------------------------------------------------
LEMMA DataInit == Init => DataInv
<1> SUFFICES ASSUME Init PROVE DataInv
  OBVIOUS
<1>1. \A w \in Workers : queue[w] = <<>> /\ wpc[w] = "loop"
  BY DEF Init
<1>2. \A u \in Users : accepted[u] = 0
  BY DEF Init
<1>3. Routed /\ Numbered /\ Increasing
  BY <1>1 DEF Routed, Numbered, Increasing
<1>4. Covered /\ InHand
  BY <1>1, <1>2 DEF Covered, InHand, Located, Init
<1>5. QED
  BY <1>3, <1>4 DEF DataInv

\* A step that neither moves a message nor starts or ends a handler.
LEMMA DataControlStep ==
  ASSUME DataInv,
         UNCHANGED <<queue, cur, accepted, handled>>,
         \A w \in Workers : /\ wpc'[w] = "run" <=> wpc[w] = "run"
                            /\ wpc'[w] = "drainrun" <=> wpc[w] = "drainrun"
  PROVE  DataInv'
<1>1. Routed' BY DEF DataInv, Routed
<1>2. Numbered' BY DEF DataInv, Numbered
<1>3. Increasing' BY DEF DataInv, Increasing
<1>4. Covered'
  <2>1. \A u \in Users : getQueueIndex(u) \in Workers
    BY UsersAreInts, QueueIndexInRange
  <2>2. QED
    BY <2>1 DEF DataInv, Covered, Located
<1>5. InHand' BY DEF DataInv, InHand
<1>6. QED BY <1>1, <1>2, <1>3, <1>4, <1>5 DEF DataInv

\* postMsgToQueue gives the message the user's next number and puts it last.
LEMMA DataPost ==
  ASSUME TypeOK, DataInv, NEW s \in Sessions, Post(s)
  PROVE  DataInv'
<1> DEFINE u == Uid[s]
           w == getQueueIndex(u)
           e == [uid |-> u, n |-> accepted[u] + 1]
<1>1. u \in Users /\ w \in Workers
  BY UsersAreInts, QueueIndexInRange DEF Users
<1>2. accepted[u] \in Nat /\ handled[u] \in Nat /\ e \in Node
  BY <1>1 DEF Node, TypeOK
<1>3. /\ queue' = [queue EXCEPT ![w] = Append(queue[w], e)]
      /\ accepted' = [accepted EXCEPT ![u] = accepted[u] + 1]
      /\ UNCHANGED <<wpc, cur, handled>>
      /\ wpc[w] \notin Holds
  BY DEF Post
<1>4. /\ Len(queue'[w]) = Len(queue[w]) + 1
      /\ \A i \in 1 .. Len(queue[w]) : queue'[w][i] = queue[w][i]
      /\ queue'[w][Len(queue[w]) + 1] = e
      /\ Len(queue[w]) \in Nat
  BY <1>1, <1>2, <1>3, AppendFacts DEF TypeOK
<1>5. \A v \in Workers : v # w => queue'[v] = queue[v]
  BY <1>1, <1>3 DEF TypeOK
<1>6. \A x \in Users : accepted'[x] = IF x = u THEN accepted[x] + 1 ELSE accepted[x]
  BY <1>1, <1>3 DEF TypeOK
<1>7. \A v \in Workers : \A i \in 1 .. Len(queue[v]) : queue[v][i] \in Node
  BY DEF TypeOK
<1>8. \A v \in Workers : \A i \in 1 .. Len(queue'[v]) :
        \/ i \in 1 .. Len(queue[v]) /\ queue'[v][i] = queue[v][i]
        \/ v = w /\ i = Len(queue[w]) + 1 /\ queue'[v][i] = e
  BY <1>4, <1>5
<1>9. \A x \in Users : /\ accepted[x] \in Nat /\ handled[x] \in Nat
                        /\ accepted'[x] \in Nat /\ accepted[x] <= accepted'[x]
  <2> SUFFICES ASSUME NEW x \in Users
               PROVE  /\ accepted[x] \in Nat /\ handled[x] \in Nat
                      /\ accepted'[x] \in Nat /\ accepted[x] <= accepted'[x]
    OBVIOUS
  <2>1. accepted[x] \in Nat /\ handled[x] \in Nat
    BY DEF TypeOK
  <2>2. QED
    BY <2>1, <1>6
<1>10. Routed'
  BY <1>8 DEF DataInv, Routed
<1>11. Numbered'
  <2> SUFFICES ASSUME NEW v \in Workers, NEW i \in 1 .. Len(queue'[v])
               PROVE  LET d == queue'[v][i]
                      IN  /\ d.n <= accepted'[d.uid]
                          /\ handled[d.uid] < d.n
                          /\ wpc[v] = "run" /\ cur[v].uid = d.uid => cur[v].n < d.n
    BY <1>3 DEF Numbered
  <2>1. CASE i \in 1 .. Len(queue[v]) /\ queue'[v][i] = queue[v][i]
    <3>1. queue[v][i] \in Node
      BY <2>1, <1>7
    <3>2. queue[v][i].uid \in Users /\ queue[v][i].n \in Nat
      BY <3>1 DEF Node
    <3>3. QED
      BY <2>1, <3>2, <1>9 DEF DataInv, Numbered
  <2>2. CASE v = w /\ queue'[v][i] = e
    <3>1. handled[u] < e.n /\ e.n <= accepted'[u]
      BY <1>1, <1>2, <1>6 DEF DataInv, Covered
    <3>2. wpc[w] = "run" /\ cur[w].uid = u => cur[w].n <= accepted[u]
      BY <1>1 DEF DataInv, InHand
    <3>3. cur[w].n \in Nat
      BY <1>1 DEF TypeOK
    <3>4. QED
      BY <2>2, <3>1, <3>2, <3>3, <1>2
  <2>3. QED
    BY <2>1, <2>2, <1>8
<1>12. Increasing'
  <2> SUFFICES ASSUME NEW v \in Workers, NEW i \in 1 .. Len(queue'[v]),
                      NEW j \in 1 .. Len(queue'[v]),
                      i < j, queue'[v][i].uid = queue'[v][j].uid
               PROVE  queue'[v][i].n < queue'[v][j].n
    BY DEF Increasing
  <2>1. CASE j \in 1 .. Len(queue[v]) /\ queue'[v][j] = queue[v][j]
    <3>1. i \in 1 .. Len(queue[v]) /\ queue'[v][i] = queue[v][i]
      BY <2>1, <1>8, <1>4
    <3>2. QED
      BY <2>1, <3>1 DEF DataInv, Increasing
  <2>2. CASE v = w /\ j = Len(queue[w]) + 1 /\ queue'[v][j] = e
    <3>1. i \in 1 .. Len(queue[w]) /\ queue'[w][i] = queue[w][i]
      BY <2>2, <1>8, <1>4
    <3>2. queue[w][i].n <= accepted[u] /\ queue[w][i].n \in Nat
      BY <2>2, <3>1, <1>1, <1>7 DEF DataInv, Numbered, Node
    <3>3. QED
      BY <2>2, <3>1, <3>2, <1>2
  <2>3. QED
    BY <2>1, <2>2, <1>8
<1>13. Covered'
  <2>1. \A x \in Users : handled'[x] <= accepted'[x]
    BY <1>3, <1>9 DEF DataInv, Covered
  <2>2. ASSUME NEW x \in Users, NEW k \in 1 .. accepted'[x]
        PROVE  Located(x, k)'
    <3>1. getQueueIndex(x) \in Workers
      BY UsersAreInts, QueueIndexInRange
    <3>2. CASE k \in 1 .. accepted[x]
      <4>1. Located(x, k)
        BY <3>2 DEF DataInv, Covered
      <4>2. \A i \in 1 .. Len(queue[getQueueIndex(x)]) :
              /\ i \in 1 .. Len(queue'[getQueueIndex(x)])
              /\ queue'[getQueueIndex(x)][i] = queue[getQueueIndex(x)][i]
        BY <3>1, <1>4, <1>5
      <4>3. QED
        BY <4>1, <4>2, <1>3 DEF Located
    <3>3. CASE x = u /\ k = accepted[u] + 1
      <4>1. Len(queue[w]) + 1 \in 1 .. Len(queue'[w])
        BY <1>4
      <4>2. queue'[w][Len(queue[w]) + 1].uid = u /\ queue'[w][Len(queue[w]) + 1].n = k
        BY <3>3, <1>4
      <4>3. QED
        BY <3>3, <4>1, <4>2 DEF Located
    <3>4. QED
      BY <3>2, <3>3, <1>6, <1>9
  <2>3. QED
    BY <2>1, <2>2 DEF Covered
<1>14. InHand'
  <2> SUFFICES ASSUME NEW v \in Workers
               PROVE  /\ wpc[v] \in {"run", "drainrun"} =>
                           /\ cur[v].uid \in Users
                           /\ getQueueIndex(cur[v].uid) = v
                           /\ cur[v].n = handled[cur[v].uid] + 1
                           /\ cur[v].n <= accepted'[cur[v].uid]
                      /\ wpc[v] = "drainrun" => queue'[v] # <<>> /\ cur[v] = queue'[v][1]
    BY <1>3 DEF InHand
  <2>1. wpc[v] = "drainrun" => v # w
    BY <1>3 DEF Holds
  <2>2. wpc[v] = "drainrun" => queue'[v] # <<>> /\ cur[v] = queue'[v][1]
    BY <2>1, <1>5 DEF DataInv, InHand
  <2>3. cur[v].n \in Nat
    BY DEF TypeOK
  <2>4. QED
    BY <2>2, <2>3, <1>9 DEF DataInv, InHand
<1>15. QED
  BY <1>10, <1>11, <1>12, <1>13, <1>14 DEF DataInv

\* The head of a queue whose worker has nothing in hand is its user's next message.
LEMMA HeadIsNext ==
  ASSUME TypeOK, DataInv, NEW w \in Workers, queue[w] # <<>>, wpc[w] # "run"
  PROVE  /\ queue[w][1] \in Node
         /\ queue[w][1].uid \in Users
         /\ getQueueIndex(queue[w][1].uid) = w
         /\ queue[w][1].n = handled[queue[w][1].uid] + 1
         /\ queue[w][1].n <= accepted[queue[w][1].uid]
<1> DEFINE h == queue[w][1]
           u == h.uid
<1>1. Len(queue[w]) \in Nat /\ Len(queue[w]) > 0 /\ h \in Node
  BY TailFacts DEF TypeOK
<1>2. u \in Users /\ h.n \in Nat /\ handled[u] \in Nat /\ accepted[u] \in Nat
  BY <1>1 DEF Node, TypeOK
<1>3. getQueueIndex(u) = w /\ h.n <= accepted[u] /\ handled[u] < h.n
  BY <1>1 DEF DataInv, Routed, Numbered
<1>4. h.n = handled[u] + 1
  <2> DEFINE k == handled[u] + 1
  <2>1. k \in 1 .. accepted[u]
    BY <1>2, <1>3
  <2>2. Located(u, k)
    BY <1>2, <2>1 DEF DataInv, Covered
  <2>3. ~(k <= handled[u])
    BY <1>2
  <2>4. PICK i \in 1 .. Len(queue[w]) : queue[w][i].uid = u /\ queue[w][i].n = k
    BY <1>3, <2>2, <2>3 DEF Located
  <2>5. CASE i = 1
    BY <2>4, <2>5
  <2>6. CASE 1 < i
    <3>1. h.n < queue[w][i].n
      BY <1>1, <2>4, <2>6 DEF DataInv, Increasing
    <3>2. QED
      BY <1>2, <1>3, <2>4, <3>1
  <2>7. QED
    BY <2>5, <2>6
<1>5. QED
  BY <1>1, <1>2, <1>3, <1>4

\* The worker pops the next message of a user and has it in hand.
LEMMA DataTake ==
  ASSUME TypeOK, DataInv, NEW w \in Workers, WorkerTake(w)
  PROVE  DataInv'
<1> DEFINE q == queue[w]
           h == q[1]
<1>1. /\ queue' = [queue EXCEPT ![w] = Tail(q)]
      /\ cur' = [cur EXCEPT ![w] = Head(q)]
      /\ wpc' = [wpc EXCEPT ![w] = "run"]
      /\ wpc[w] = "check" /\ q # <<>>
      /\ UNCHANGED <<accepted, handled>>
  BY DEF WorkerTake, Goto
<1>2. /\ Len(q) \in Nat /\ Len(q) > 0
      /\ Len(queue'[w]) = Len(q) - 1
      /\ \A i \in 1 .. Len(q) - 1 : queue'[w][i] = q[i + 1]
      /\ cur'[w] = h
  BY <1>1, TailFacts DEF TypeOK
<1>3. \A v \in Workers : v # w => queue'[v] = queue[v] /\ cur'[v] = cur[v] /\ wpc'[v] = wpc[v]
  BY <1>1 DEF TypeOK
<1>4. wpc'[w] = "run"
  BY <1>1 DEF TypeOK
<1>5. /\ h \in Node /\ h.uid \in Users /\ getQueueIndex(h.uid) = w
      /\ h.n = handled[h.uid] + 1 /\ h.n <= accepted[h.uid]
  BY <1>1, HeadIsNext
<1>6. \A v \in Workers : \A i \in 1 .. Len(queue'[v]) :
        \/ v # w /\ i \in 1 .. Len(queue[v]) /\ queue'[v][i] = queue[v][i]
        \/ v = w /\ i + 1 \in 1 .. Len(q) /\ 1 \in 1 .. Len(q) /\ queue'[v][i] = q[i + 1]
  BY <1>2, <1>3
<1>7. Routed'
  BY <1>6 DEF DataInv, Routed
<1>8. Numbered'
  <2> SUFFICES ASSUME NEW v \in Workers, NEW i \in 1 .. Len(queue'[v])
               PROVE  LET d == queue'[v][i]
                      IN  /\ d.n <= accepted[d.uid]
                          /\ handled[d.uid] < d.n
                          /\ wpc'[v] = "run" /\ cur'[v].uid = d.uid => cur'[v].n < d.n
    BY <1>1 DEF Numbered
  <2>1. CASE v # w
    BY <2>1, <1>3, <1>6 DEF DataInv, Numbered
  <2>2. CASE v = w
    <3>1. i + 1 \in 1 .. Len(q) /\ 1 \in 1 .. Len(q) /\ queue'[w][i] = q[i + 1] /\ 1 < i + 1
      BY <2>2, <1>6
    <3>2. q[i + 1].uid = h.uid => h.n < q[i + 1].n
      BY <3>1 DEF DataInv, Increasing
    <3>3. QED
      BY <2>2, <3>1, <3>2, <1>2 DEF DataInv, Numbered
  <2>3. QED
    BY <2>1, <2>2
<1>9. Increasing'
  <2> SUFFICES ASSUME NEW v \in Workers, NEW i \in 1 .. Len(queue'[v]),
                      NEW j \in 1 .. Len(queue'[v]),
                      i < j, queue'[v][i].uid = queue'[v][j].uid
               PROVE  queue'[v][i].n < queue'[v][j].n
    BY DEF Increasing
  <2>1. CASE v # w
    BY <2>1, <1>6 DEF DataInv, Increasing
  <2>2. CASE v = w
    <3>1. /\ i + 1 \in 1 .. Len(q) /\ queue'[w][i] = q[i + 1]
          /\ j + 1 \in 1 .. Len(q) /\ queue'[w][j] = q[j + 1]
          /\ i + 1 < j + 1
      BY <2>2, <1>6
    <3>2. QED
      BY <2>2, <3>1 DEF DataInv, Increasing
  <2>3. QED
    BY <2>1, <2>2
<1>10. Covered'
  <2> SUFFICES ASSUME NEW x \in Users, NEW k \in 1 .. accepted[x]
               PROVE  Located(x, k)'
    BY <1>1 DEF DataInv, Covered
  <2>1. getQueueIndex(x) \in Workers /\ Located(x, k)
    BY UsersAreInts, QueueIndexInRange DEF DataInv, Covered
  <2>2. CASE getQueueIndex(x) # w
    BY <2>1, <2>2, <1>1, <1>3 DEF Located
  <2>3. CASE getQueueIndex(x) = w
    <3>1. CASE k <= handled[x]
      BY <3>1, <1>1 DEF Located
    <3>2. CASE \E i \in 1 .. Len(q) : q[i].uid = x /\ q[i].n = k
      <4>1. PICK i \in 1 .. Len(q) : q[i].uid = x /\ q[i].n = k
        BY <3>2
      <4>2. CASE i = 1
        BY <2>3, <4>1, <4>2, <1>2, <1>4 DEF Located
      <4>3. CASE i # 1
        <5>1. i - 1 \in 1 .. Len(queue'[w]) /\ queue'[w][i - 1] = q[i]
          BY <4>3, <1>2
        <5>2. QED
          BY <2>3, <4>1, <5>1 DEF Located
      <4>4. QED
        BY <4>2, <4>3
    <3>3. QED
      BY <2>1, <2>3, <3>1, <3>2, <1>1 DEF Located
  <2>4. QED
    BY <2>2, <2>3
<1>11. InHand'
  <2> SUFFICES ASSUME NEW v \in Workers
               PROVE  /\ wpc'[v] \in {"run", "drainrun"} =>
                           /\ cur'[v].uid \in Users
                           /\ getQueueIndex(cur'[v].uid) = v
                           /\ cur'[v].n = handled[cur'[v].uid] + 1
                           /\ cur'[v].n <= accepted[cur'[v].uid]
                      /\ wpc'[v] = "drainrun" => queue'[v] # <<>> /\ cur'[v] = queue'[v][1]
    BY <1>1 DEF InHand
  <2>1. CASE v # w
    BY <2>1, <1>3 DEF DataInv, InHand
  <2>2. CASE v = w
    BY <2>2, <1>2, <1>4, <1>5
  <2>3. QED
    BY <2>1, <2>2
<1>12. QED
  BY <1>7, <1>8, <1>9, <1>10, <1>11 DEF DataInv

\* The handler returned: the message the worker had in hand is handled.
LEMMA DataRun ==
  ASSUME TypeOK, DataInv, NEW w \in Workers, WorkerRun(w)
  PROVE  DataInv'
<1> DEFINE u == cur[w].uid
           n == cur[w].n
<1>1. /\ handled' = [handled EXCEPT ![u] = n]
      /\ wpc' = [wpc EXCEPT ![w] = "loop"]
      /\ wpc[w] = "run"
      /\ UNCHANGED <<queue, cur, accepted>>
  BY DEF WorkerRun, Goto
<1>2. /\ u \in Users /\ getQueueIndex(u) = w
      /\ n = handled[u] + 1 /\ n <= accepted[u]
  BY <1>1 DEF DataInv, InHand
<1>3. n \in Nat /\ \A x \in Users : handled[x] \in Nat
  BY DEF TypeOK
<1>4. \A x \in Users : handled'[x] = IF x = u THEN n ELSE handled[x]
  BY <1>1 DEF TypeOK
<1>5. \A v \in Workers : wpc'[v] = IF v = w THEN "loop" ELSE wpc[v]
  BY <1>1 DEF TypeOK
<1>6. \A v \in Workers : \A i \in 1 .. Len(queue[v]) : queue[v][i].uid \in Users
  <2>1. \A v \in Workers : \A i \in 1 .. Len(queue[v]) : queue[v][i] \in Node
    BY DEF TypeOK
  <2>2. QED
    BY <2>1 DEF Node
<1>7. Routed'
  BY <1>1 DEF DataInv, Routed
<1>8. Numbered'
  <2> SUFFICES ASSUME NEW v \in Workers, NEW i \in 1 .. Len(queue[v])
               PROVE  LET d == queue[v][i]
                      IN  /\ d.n <= accepted[d.uid]
                          /\ handled'[d.uid] < d.n
                          /\ wpc'[v] = "run" /\ cur[v].uid = d.uid => cur[v].n < d.n
    BY <1>1 DEF Numbered
  <2>1. CASE queue[v][i].uid = u
    <3>1. v = w
      BY <2>1, <1>2 DEF DataInv, Routed
    <3>2. QED
      BY <2>1, <3>1, <1>1, <1>2, <1>4, <1>5 DEF DataInv, Numbered
  <2>2. CASE queue[v][i].uid # u
    BY <2>2, <1>4, <1>5, <1>6 DEF DataInv, Numbered
  <2>3. QED
    BY <2>1, <2>2
<1>9. Increasing'
  BY <1>1 DEF DataInv, Increasing
<1>10. Covered'
  <2>1. \A x \in Users : handled'[x] <= accepted[x]
    BY <1>2, <1>4 DEF DataInv, Covered
  <2>2. ASSUME NEW x \in Users, NEW k \in 1 .. accepted[x]
        PROVE  Located(x, k)'
    <3>1. getQueueIndex(x) \in Workers /\ Located(x, k)
      BY UsersAreInts, QueueIndexInRange DEF DataInv, Covered
    <3>2. CASE x = u
      <4>1. k <= handled[x] => k <= handled'[x]
        BY <3>2, <1>2, <1>3, <1>4
      <4>2. cur[w].n = k => k <= handled'[x]
        BY <3>2, <1>2, <1>4
      <4>3. QED
        BY <3>1, <3>2, <4>1, <4>2, <1>1, <1>2 DEF Located
    <3>3. CASE x # u
      BY <3>1, <3>3, <1>1, <1>4, <1>5 DEF Located
    <3>4. QED
      BY <3>2, <3>3
  <2>3. QED
    BY <2>1, <2>2, <1>1 DEF Covered
<1>11. InHand'
  <2> SUFFICES ASSUME NEW v \in Workers
               PROVE  /\ wpc'[v] \in {"run", "drainrun"} =>
                           /\ cur[v].uid \in Users
                           /\ getQueueIndex(cur[v].uid) = v
                           /\ cur[v].n = handled'[cur[v].uid] + 1
                           /\ cur[v].n <= accepted[cur[v].uid]
                      /\ wpc'[v] = "drainrun" => queue[v] # <<>> /\ cur[v] = queue[v][1]
    BY <1>1 DEF InHand
  <2>1. CASE v = w
    BY <2>1, <1>5
  <2>2. CASE v # w
    BY <2>2, <1>2, <1>4, <1>5 DEF DataInv, InHand
  <2>3. QED
    BY <2>1, <2>2
<1>12. QED
  BY <1>7, <1>8, <1>9, <1>10, <1>11 DEF DataInv

\* The drain takes the next message in hand and leaves it in the queue.
LEMMA DataDrainTake ==
  ASSUME TypeOK, DataInv, NEW w \in Workers, DrainTake(w)
  PROVE  DataInv'
<1>1. /\ cur' = [cur EXCEPT ![w] = Head(queue[w])]
      /\ wpc' = [wpc EXCEPT ![w] = "drainrun"]
      /\ wpc[w] = "drain" /\ queue[w] # <<>>
      /\ UNCHANGED <<queue, accepted, handled>>
  BY DEF DrainTake, Goto
<1>2. cur'[w] = queue[w][1] /\ wpc'[w] = "drainrun"
  BY <1>1, TailFacts DEF TypeOK
<1>3. \A v \in Workers : v # w => cur'[v] = cur[v] /\ wpc'[v] = wpc[v]
  BY <1>1 DEF TypeOK
<1>4. /\ queue[w][1].uid \in Users
      /\ getQueueIndex(queue[w][1].uid) = w
      /\ queue[w][1].n = handled[queue[w][1].uid] + 1
      /\ queue[w][1].n <= accepted[queue[w][1].uid]
  BY <1>1, HeadIsNext
<1>5. Routed' /\ Increasing'
  BY <1>1 DEF DataInv, Routed, Increasing
<1>6. Numbered'
  BY <1>1, <1>2, <1>3 DEF DataInv, Numbered
<1>7. Covered'
  <2> SUFFICES ASSUME NEW x \in Users, NEW k \in 1 .. accepted[x]
               PROVE  Located(x, k)'
    BY <1>1 DEF DataInv, Covered
  <2>1. getQueueIndex(x) \in Workers /\ Located(x, k)
    BY UsersAreInts, QueueIndexInRange DEF DataInv, Covered
  <2>2. QED
    BY <2>1, <1>1, <1>3 DEF Located
<1>8. InHand'
  BY <1>1, <1>2, <1>3, <1>4 DEF DataInv, InHand
<1>9. QED
  BY <1>5, <1>6, <1>7, <1>8 DEF DataInv

\* A handler of the drain returned: its message is handled and popped.
LEMMA DataDrainRun ==
  ASSUME TypeOK, DataInv, NEW w \in Workers, DrainRun(w)
  PROVE  DataInv'
<1> DEFINE q == queue[w]
           u == cur[w].uid
           n == cur[w].n
<1>1. /\ queue' = [queue EXCEPT ![w] = Tail(q)]
      /\ handled' = [handled EXCEPT ![u] = n]
      /\ wpc' = [wpc EXCEPT ![w] = "drain"]
      /\ wpc[w] = "drainrun"
      /\ UNCHANGED <<cur, accepted>>
  BY DEF DrainRun, Goto
<1>2. /\ u \in Users /\ getQueueIndex(u) = w
      /\ n = handled[u] + 1 /\ n <= accepted[u]
      /\ q # <<>> /\ cur[w] = q[1]
  BY <1>1 DEF DataInv, InHand
<1>3. n \in Nat /\ \A x \in Users : handled[x] \in Nat
  BY DEF TypeOK
<1>4. /\ Len(q) \in Nat /\ Len(q) > 0
      /\ Len(queue'[w]) = Len(q) - 1
      /\ \A i \in 1 .. Len(q) - 1 : queue'[w][i] = q[i + 1]
  BY <1>1, <1>2, TailFacts DEF TypeOK
<1>5. /\ \A v \in Workers : v # w => queue'[v] = queue[v] /\ wpc'[v] = wpc[v]
      /\ wpc'[w] = "drain"
  BY <1>1 DEF TypeOK
<1>6. \A x \in Users : handled'[x] = IF x = u THEN n ELSE handled[x]
  BY <1>1 DEF TypeOK
<1>7. \A v \in Workers : \A i \in 1 .. Len(queue[v]) : queue[v][i].uid \in Users
  <2>1. \A v \in Workers : \A i \in 1 .. Len(queue[v]) : queue[v][i] \in Node
    BY DEF TypeOK
  <2>2. QED
    BY <2>1 DEF Node
<1>8. \A v \in Workers : \A i \in 1 .. Len(queue'[v]) :
        \/ v # w /\ i \in 1 .. Len(queue[v]) /\ queue'[v][i] = queue[v][i]
        \/ v = w /\ i + 1 \in 1 .. Len(q) /\ 1 \in 1 .. Len(q) /\ queue'[v][i] = q[i + 1]
  BY <1>4, <1>5
<1>9. Routed'
  BY <1>8 DEF DataInv, Routed
<1>10. Numbered'
  <2> SUFFICES ASSUME NEW v \in Workers, NEW i \in 1 .. Len(queue'[v])
               PROVE  LET d == queue'[v][i]
                      IN  /\ d.n <= accepted[d.uid]
                          /\ handled'[d.uid] < d.n
                          /\ wpc'[v] = "run" /\ cur[v].uid = d.uid => cur[v].n < d.n
    BY <1>1 DEF Numbered
  <2>1. CASE v # w
    <3>1. i \in 1 .. Len(queue[v]) /\ queue'[v][i] = queue[v][i]
      BY <2>1, <1>8
    <3>2. queue[v][i].uid # u /\ queue[v][i].uid \in Users
      BY <2>1, <3>1, <1>2, <1>7 DEF DataInv, Routed
    <3>3. QED
      BY <2>1, <3>1, <3>2, <1>5, <1>6 DEF DataInv, Numbered
  <2>2. CASE v = w
    <3>1. i + 1 \in 1 .. Len(q) /\ 1 \in 1 .. Len(q) /\ queue'[w][i] = q[i + 1] /\ 1 < i + 1
      BY <2>2, <1>8
    <3>2. q[i + 1].uid = u => n < q[i + 1].n
      BY <3>1, <1>2 DEF DataInv, Increasing
    <3>3. q[i + 1].uid \in Users /\ q[i + 1].n <= accepted[q[i + 1].uid] /\ handled[q[i + 1].uid] < q[i + 1].n
      BY <3>1, <1>7 DEF DataInv, Numbered
    <3>4. handled'[q[i + 1].uid] < q[i + 1].n
      BY <3>2, <3>3, <1>6
    <3>5. QED
      BY <2>2, <3>1, <3>3, <3>4, <1>5
  <2>3. QED
    BY <2>1, <2>2
<1>11. Increasing'
  <2> SUFFICES ASSUME NEW v \in Workers, NEW i \in 1 .. Len(queue'[v]),
                      NEW j \in 1 .. Len(queue'[v]),
                      i < j, queue'[v][i].uid = queue'[v][j].uid
               PROVE  queue'[v][i].n < queue'[v][j].n
    BY DEF Increasing
  <2>1. CASE v # w
    BY <2>1, <1>8 DEF DataInv, Increasing
  <2>2. CASE v = w
    <3>1. /\ i + 1 \in 1 .. Len(q) /\ queue'[w][i] = q[i + 1]
          /\ j + 1 \in 1 .. Len(q) /\ queue'[w][j] = q[j + 1]
          /\ i + 1 < j + 1
      BY <2>2, <1>8
    <3>2. QED
      BY <2>2, <3>1 DEF DataInv, Increasing
  <2>3. QED
    BY <2>1, <2>2
<1>12. Covered'
  <2>1. \A x \in Users : handled'[x] <= accepted[x]
    BY <1>2, <1>6 DEF DataInv, Covered
  <2>2. ASSUME NEW x \in Users, NEW k \in 1 .. accepted[x]
        PROVE  Located(x, k)'
    <3>1. getQueueIndex(x) \in Workers /\ Located(x, k)
      BY UsersAreInts, QueueIndexInRange DEF DataInv, Covered
    <3>2. CASE getQueueIndex(x) # w
      BY <3>1, <3>2, <1>1, <1>2, <1>5, <1>6 DEF Located
    <3>3. CASE getQueueIndex(x) = w
      <4>1. CASE k <= handled[x]
        <5>1. k <= handled'[x]
          BY <4>1, <1>2, <1>3, <1>6
        <5>2. QED
          BY <5>1 DEF Located
      <4>2. CASE \E i \in 1 .. Len(q) : q[i].uid = x /\ q[i].n = k
        <5>1. PICK i \in 1 .. Len(q) : q[i].uid = x /\ q[i].n = k
          BY <4>2
        <5>2. CASE i = 1
          <6>1. k <= handled'[x]
            BY <5>1, <5>2, <1>2, <1>6
          <6>2. QED
            BY <6>1 DEF Located
        <5>3. CASE i # 1
          <6>1. i - 1 \in 1 .. Len(queue'[w]) /\ queue'[w][i - 1] = q[i]
            BY <5>3, <1>4
          <6>2. QED
            BY <3>3, <5>1, <6>1 DEF Located
        <5>4. QED
          BY <5>2, <5>3
      <4>3. QED
        BY <3>1, <3>3, <4>1, <4>2, <1>1 DEF Located
    <3>4. QED
      BY <3>2, <3>3
  <2>3. QED
    BY <2>1, <2>2, <1>1 DEF Covered
<1>13. InHand'
  <2> SUFFICES ASSUME NEW v \in Workers
               PROVE  /\ wpc'[v] \in {"run", "drainrun"} =>
                           /\ cur[v].uid \in Users
                           /\ getQueueIndex(cur[v].uid) = v
                           /\ cur[v].n = handled'[cur[v].uid] + 1
                           /\ cur[v].n <= accepted[cur[v].uid]
                      /\ wpc'[v] = "drainrun" => queue'[v] # <<>> /\ cur[v] = queue'[v][1]
    BY <1>1 DEF InHand
  <2>1. CASE v = w
    BY <2>1, <1>5
  <2>2. CASE v # w
    BY <2>2, <1>2, <1>5, <1>6 DEF DataInv, InHand
  <2>3. QED
    BY <2>1, <2>2
<1>14. QED
  BY <1>9, <1>10, <1>11, <1>12, <1>13 DEF DataInv
-----------------------------------------------------------------------------
LEMMA DataStep == TypeOK /\ DataInv /\ [Next]_vars => DataInv'
<1> SUFFICES ASSUME TypeOK, DataInv, [Next]_vars PROVE DataInv'
  OBVIOUS
<1>1. ASSUME NEW s \in Sessions, Post(s) PROVE DataInv'
  BY <1>1, DataPost
<1>2. ASSUME NEW s \in Sessions, PostDrop(s) PROVE DataInv'
  BY <1>2, DataControlStep DEF PostDrop, vars
<1>3. ASSUME NEW s \in Sessions, PostNotify(s) PROVE DataInv'
  BY <1>3, DataControlStep DEF PostNotify, Woken, TypeOK
<1>4. ASSUME NEW w \in Workers, WorkerStep(w) PROVE DataInv'
  <2> USE DEF Goto, TypeOK
  <2>1. CASE WorkerLoop(w)  BY <2>1, DataControlStep DEF WorkerLoop
  <2>2. CASE WorkerLock(w)  BY <2>2, DataControlStep DEF WorkerLock
  <2>3. CASE WorkerPred(w)  BY <2>3, DataControlStep DEF WorkerPred
  <2>4. CASE WorkerBlock(w)  BY <2>4, DataControlStep DEF WorkerBlock
  <2>5. CASE WorkerBreak(w)  BY <2>5, DataControlStep DEF WorkerBreak
  <2>6. CASE WorkerTake(w)  BY <2>6, DataTake
  <2>7. CASE WorkerRun(w)  BY <2>7, DataRun
  <2>8. CASE DrainLock(w)  BY <2>8, DataControlStep DEF DrainLock
  <2>9. CASE DrainTake(w)  BY <2>9, DataDrainTake
  <2>10. CASE DrainRun(w)  BY <2>10, DataDrainRun
  <2>11. CASE DrainDone(w)  BY <2>11, DataControlStep DEF DrainDone
  <2>12. QED
    BY <1>4, <2>1, <2>2, <2>3, <2>4, <2>5, <2>6, <2>7, <2>8, <2>9, <2>10, <2>11 DEF WorkerStep
<1>5. ASSUME NEW w \in Workers, SpuriousWake(w) PROVE DataInv'
  BY <1>5, DataControlStep DEF SpuriousWake, Goto, TypeOK
<1>6. CASE CloseStop
  BY <1>6, DataControlStep DEF CloseStop
<1>7. CASE CloseNotify
  BY <1>7, DataControlStep DEF CloseNotify, Woken, TypeOK
<1>8. CASE CloseJoin
  BY <1>8, DataControlStep DEF CloseJoin
<1>9. CASE UNCHANGED vars
  BY <1>9, DataControlStep DEF vars
<1>10. QED
  BY <1>1, <1>2, <1>3, <1>4, <1>5, <1>6, <1>7, <1>8, <1>9 DEF Next
-----------------------------------------------------------------------------
LEMMA SleepStep == TypeOK /\ InHand /\ SleepInv /\ [Next]_vars => SleepInv'
<1> SUFFICES ASSUME TypeOK, InHand, SleepInv, [Next]_vars PROVE SleepInv'
  OBVIOUS
<1> USE DEF TypeOK, SleepInv, EmptyBeforeBlock, NoSleepOverWork
<1>1. ASSUME NEW s \in Sessions, Post(s) PROVE SleepInv'
  <2> DEFINE w == getQueueIndex(Uid[s])
  <2>1. /\ wpc[w] # "block"
        /\ UNCHANGED wpc
        /\ ppc' = [ppc EXCEPT ![s] = "notify"]
        /\ \A v \in Workers : v # w => queue'[v] = queue[v]
    BY <1>1 DEF Post, Holds
  <2>2. EmptyBeforeBlock'
    BY <2>1
  <2>3. NoSleepOverWork'
    BY <2>1
  <2>4. QED
    BY <2>2, <2>3
<1>2. ASSUME NEW s \in Sessions, PostDrop(s) PROVE SleepInv'
  BY <1>2 DEF PostDrop, vars
<1>3. ASSUME NEW s \in Sessions, PostNotify(s) PROVE SleepInv'
  <2> DEFINE w == getQueueIndex(Uid[s])
  <2>1. /\ ppc' = [ppc EXCEPT ![s] = "idle"]
        /\ wpc' = Woken(w)
        /\ UNCHANGED queue
    BY <1>3 DEF PostNotify
  <2>2. \A v \in Workers : /\ wpc'[v] = "waiting" => wpc[v] = "waiting" /\ v # w
                           /\ wpc'[v] = "block" => wpc[v] = "block"
    BY <2>1 DEF Woken
  <2>3. EmptyBeforeBlock'
    BY <2>1, <2>2
  <2>4. NoSleepOverWork'
    <3> SUFFICES ASSUME NEW v \in Workers, wpc'[v] = "waiting", queue'[v] # <<>>
                 PROVE  \E t \in Sessions : ppc'[t] = "notify" /\ getQueueIndex(Uid[t]) = v
      BY DEF NoSleepOverWork
    <3>1. PICK t \in Sessions : ppc[t] = "notify" /\ getQueueIndex(Uid[t]) = v
      BY <2>1, <2>2
    <3>2. t # s
      BY <2>2, <3>1
    <3>3. QED
      BY <2>1, <3>1, <3>2
  <2>5. QED
    BY <2>3, <2>4
<1>4. ASSUME NEW w \in Workers, WorkerStep(w) PROVE SleepInv'
  <2> USE DEF Goto
  <2>1. CASE WorkerLoop(w)  BY <2>1 DEF WorkerLoop
  <2>2. CASE WorkerLock(w)  BY <2>2 DEF WorkerLock
  <2>3. CASE WorkerPred(w)  BY <2>3 DEF WorkerPred
  <2>4. CASE WorkerBlock(w)  BY <2>4 DEF WorkerBlock
  <2>5. CASE WorkerBreak(w)  BY <2>5 DEF WorkerBreak
  <2>6. CASE WorkerTake(w)
    <3>1. \A v \in Workers : v # w => queue'[v] = queue[v] /\ wpc'[v] = wpc[v]
      BY <2>6 DEF WorkerTake
    <3>2. wpc'[w] = "run" /\ UNCHANGED ppc
      BY <2>6 DEF WorkerTake
    <3>3. QED
      BY <3>1, <3>2
  <2>7. CASE WorkerRun(w)  BY <2>7 DEF WorkerRun
  <2>8. CASE DrainLock(w)  BY <2>8 DEF DrainLock
  <2>9. CASE DrainTake(w)  BY <2>9 DEF DrainTake
  <2>10. CASE DrainRun(w)
    <3>1. \A v \in Workers : v # w => queue'[v] = queue[v] /\ wpc'[v] = wpc[v]
      BY <2>10 DEF DrainRun
    <3>2. wpc'[w] = "drain" /\ UNCHANGED ppc
      BY <2>10 DEF DrainRun
    <3>3. QED
      BY <3>1, <3>2
  <2>11. CASE DrainDone(w)  BY <2>11 DEF DrainDone
  <2>12. QED
    BY <1>4, <2>1, <2>2, <2>3, <2>4, <2>5, <2>6, <2>7, <2>8, <2>9, <2>10, <2>11 DEF WorkerStep
<1>5. ASSUME NEW w \in Workers, SpuriousWake(w) PROVE SleepInv'
  BY <1>5 DEF SpuriousWake, Goto
<1>6. CASE CloseStop
  BY <1>6 DEF CloseStop
<1>7. CASE CloseNotify
  BY <1>7 DEF CloseNotify, Woken
<1>8. CASE CloseJoin
  BY <1>8 DEF CloseJoin
<1>9. CASE UNCHANGED vars
  BY <1>9 DEF vars
<1>10. QED
  BY <1>1, <1>2, <1>3, <1>4, <1>5, <1>6, <1>7, <1>8, <1>9 DEF Next

LEMMA BoundStep == TypeOK /\ InHand /\ QueueBound /\ [Next]_vars => QueueBound'
<1> SUFFICES ASSUME TypeOK, InHand, QueueBound, [Next]_vars PROVE QueueBound'
  OBVIOUS
<1> USE DEF TypeOK, QueueBound
<1>1. ASSUME NEW s \in Sessions, Post(s) PROVE QueueBound'
  <2> DEFINE u == Uid[s]
             w == getQueueIndex(u)
             e == [uid |-> u, n |-> accepted[u] + 1]
  <2>1. w \in Workers /\ e \in Node /\ queue[w] \in Seq(Node)
    <3>1. u \in Users /\ w \in Workers
      BY UsersAreInts, QueueIndexInRange DEF Users
    <3>2. accepted[u] + 1 \in Nat
      BY <3>1
    <3>3. e \in Node
      BY <3>1, <3>2 DEF Node
    <3>4. QED
      BY <3>1, <3>3
  <2>2. queue' = [queue EXCEPT ![w] = Append(queue[w], e)] /\ ~(Len(queue[w]) > QueueMaxSize)
    BY <1>1 DEF Post, Full
  <2>3. Len(queue'[w]) = Len(queue[w]) + 1 /\ Len(queue[w]) \in Nat
    BY <2>1, <2>2, AppendFacts
  <2>4. \A v \in Workers : v # w => queue'[v] = queue[v]
    BY <2>2
  <2>5. QED
    BY <2>2, <2>3, <2>4, ConstantsAssumption
<1>2. ASSUME NEW w \in Workers, WorkerTake(w) \/ DrainRun(w) PROVE QueueBound'
  <2>1. queue[w] # <<>> /\ queue' = [queue EXCEPT ![w] = Tail(queue[w])]
    BY <1>2 DEF WorkerTake, DrainRun, Goto, InHand
  <2>2. Len(queue'[w]) = Len(queue[w]) - 1 /\ Len(queue[w]) \in Nat
    BY <2>1, TailFacts
  <2>3. \A v \in Workers : v # w => queue'[v] = queue[v]
    BY <2>1
  <2>4. \A v \in Workers : Len(queue[v]) <= QueueMaxSize + 1
    OBVIOUS
  <2>5. Len(queue'[w]) <= QueueMaxSize + 1
    BY <2>2, <2>4, ConstantsAssumption
  <2>6. QED
    BY <2>3, <2>4, <2>5
<1>3. CASE UNCHANGED queue
  BY <1>3
<1>4. ASSUME NEW w \in Workers, WorkerStep(w)
      PROVE  WorkerTake(w) \/ DrainRun(w) \/ UNCHANGED queue
  BY <1>4 DEF WorkerStep, WorkerLoop, WorkerLock, WorkerPred, WorkerBlock, WorkerBreak,
              WorkerRun, DrainLock, DrainTake, DrainDone
<1>5. ASSUME NEW s \in Sessions, PostDrop(s) \/ PostNotify(s) PROVE UNCHANGED queue
  BY <1>5 DEF PostDrop, PostNotify, vars
<1>6. CASE CloseStop \/ CloseNotify \/ CloseJoin \/ UNCHANGED vars
  BY <1>3, <1>6 DEF CloseStop, CloseNotify, CloseJoin, vars
<1>7. ASSUME NEW w \in Workers, SpuriousWake(w) PROVE UNCHANGED queue
  BY <1>7 DEF SpuriousWake
<1>8. QED
  BY <1>1, <1>2, <1>3, <1>4, <1>5, <1>6, <1>7 DEF Next

LEMMA IInvInit == Init => IInv
<1> SUFFICES ASSUME Init PROVE IInv
  OBVIOUS
<1>1. QueueBound
  BY ConstantsAssumption DEF Init, QueueBound
<1>2. SleepInv
  BY DEF Init, SleepInv, EmptyBeforeBlock, NoSleepOverWork
<1>3. QED
  BY <1>1, <1>2, TypeInit, DataInit DEF IInv

LEMMA IInvStep == IInv /\ [Next]_vars => IInv'
  BY TypeStep, DataStep, SleepStep, BoundStep DEF IInv, DataInv

\* The inductive invariant holds in every reachable state.
THEOREM Invariance == Spec => []IInv
  BY IInvInit, IInvStep, PTL DEF Spec

\* Every variable keeps its type.
THEOREM TypeCorrect == Spec => []TypeOK
<1>1. IInv => TypeOK
  BY DEF IInv
<1>2. QED
  BY <1>1, Invariance, PTL

\* No queue outgrows QUEUE_MAX_SIZE + 1 nodes (postMsgToQueue).
THEOREM QueuesBounded == Spec => []QueueBound
<1>1. IInv => QueueBound
  BY DEF IInv
<1>2. QED
  BY <1>1, Invariance, PTL

\* No worker sleeps over a message unless its wake-up is on the way
\* (postMsgToQueue against the wait of workerThread).
THEOREM NeverAsleepOverWork == Spec => []NoSleepOverWork
<1>1. IInv => NoSleepOverWork
  BY DEF IInv, SleepInv
<1>2. QED
  BY <1>1, Invariance, PTL

\* A handler of user u can only run on the worker u is hashed to.
LEMMA RunningOnOwnWorker ==
  ASSUME IInv, NEW w \in Workers, NEW u \in Users, Running(w, u)
  PROVE  getQueueIndex(u) = w /\ cur[w].n = handled[u] + 1
  BY DEF IInv, DataInv, InHand, Running

\* Two handlers of one user never run at the same time.
THEOREM HandlersExclusive == Spec => []OneHandlerPerUser
<1>1. IInv => OneHandlerPerUser
  BY RunningOnOwnWorker DEF OneHandlerPerUser
<1>2. QED
  BY <1>1, Invariance, PTL

\* Nothing accepted is lost and nothing is reordered: what is handled, in hand
\* and queued of a user is 1..accepted[u], through shutdown and the drain.
THEOREM NoMessageLost == Spec => []NothingLost
<1>1. ASSUME IInv, NEW u \in Users
      PROVE  LET w == getQueueIndex(u)
                 queued == {queue[w][i].n : i \in {j \in DOMAIN queue[w] : queue[w][j].uid = u}}
                 inHand == IF Running(w, u) THEN {cur[w].n} ELSE {}
             IN  /\ 1 .. accepted[u] = (1 .. handled[u]) \cup inHand \cup queued
                 /\ Ordered(u)
  <2> DEFINE w == getQueueIndex(u)
             mine == {j \in DOMAIN queue[w] : queue[w][j].uid = u}
             queued == {queue[w][i].n : i \in mine}
             inHand == IF Running(w, u) THEN {cur[w].n} ELSE {}
  <2>1. w \in Workers
    BY UsersAreInts, QueueIndexInRange
  <2>2. queue[w] \in Seq(Node) /\ DOMAIN queue[w] = 1 .. Len(queue[w])
    BY <1>1, <2>1 DEF IInv, TypeOK
  <2>3. accepted[u] \in Nat /\ handled[u] \in Nat /\ handled[u] <= accepted[u]
    BY <1>1 DEF IInv, TypeOK, DataInv, Covered
  <2>4. \A i \in mine : queue[w][i].n \in 1 .. accepted[u]
    <3> SUFFICES ASSUME NEW i \in mine PROVE queue[w][i].n \in 1 .. accepted[u]
      OBVIOUS
    <3>1. i \in 1 .. Len(queue[w]) /\ queue[w][i] \in Node /\ queue[w][i].uid = u
      BY <2>2
    <3>2. queue[w][i].n \in Nat
      BY <3>1 DEF Node
    <3>3. handled[u] < queue[w][i].n /\ queue[w][i].n <= accepted[u]
      BY <1>1, <2>1, <3>1 DEF IInv, DataInv, Numbered
    <3>4. QED
      BY <2>3, <3>2, <3>3
  <2>5. Running(w, u) => cur[w].n \in 1 .. accepted[u]
    BY <1>1, <2>1, <2>3 DEF IInv, DataInv, InHand, Running
  <2>6. ASSUME NEW k \in 1 .. accepted[u]
        PROVE  k \in (1 .. handled[u]) \cup inHand \cup queued
    <3>1. Located(u, k)
      BY <1>1, <2>6 DEF IInv, DataInv, Covered
    <3>2. CASE k <= handled[u]
      BY <2>3, <3>2
    <3>3. CASE wpc[w] = "run" /\ cur[w].uid = u /\ cur[w].n = k
      BY <3>3 DEF Running
    <3>4. CASE \E i \in 1 .. Len(queue[w]) : queue[w][i].uid = u /\ queue[w][i].n = k
      BY <2>2, <3>4
    <3>5. QED
      BY <3>1, <3>2, <3>3, <3>4 DEF Located
  <2>7. (1 .. handled[u]) \cup inHand \cup queued \subseteq 1 .. accepted[u]
    BY <2>3, <2>4, <2>5
  <2>8. 1 .. accepted[u] = (1 .. handled[u]) \cup inHand \cup queued
    BY <2>6, <2>7
  <2>9. Ordered(u)
    BY <1>1, <2>1, <2>2 DEF IInv, DataInv, Increasing, Ordered
  <2>10. QED
    BY <2>8, <2>9
<1>2. IInv => NothingLost
  BY <1>1 DEF NothingLost
<1>3. QED
  BY <1>2, Invariance, PTL
-----------------------------------------------------------------------------
(* The task queues implement the mailbox: every step of LogicSystem is a   *)
(* step of ActorMailbox or leaves the mailbox alone.                       *)

LEMMA MailboxInit == Init => Mailbox!Init
<1> SUFFICES ASSUME Init PROVE Mailbox!Init
  OBVIOUS
<1>1. \A u \in Users, w \in Workers : ~Running(w, u)
  BY DEF Init, Running
<1>2. QED
  BY <1>1 DEF Init, Mailbox!Init

LEMMA MailboxStep == IInv /\ [Next]_vars => [Mailbox!Next]_Mailbox!vars
<1> SUFFICES ASSUME IInv, [Next]_vars PROVE [Mailbox!Next]_Mailbox!vars
  OBVIOUS
<1> USE DEF IInv
\* A step that starts and ends no handler and moves no counter is a stutter.
<1>1. ASSUME UNCHANGED <<accepted, handled>>,
             \A w \in Workers, u \in Users : Running(w, u)' <=> Running(w, u)
      PROVE  UNCHANGED Mailbox!vars
  BY <1>1 DEF Mailbox!vars
<1>2. ASSUME NEW s \in Sessions, Post(s) PROVE Mailbox!Next
  <2>1. Uid[s] \in Users
    BY DEF Users
  <2>2. \A w \in Workers, u \in Users : Running(w, u)' <=> Running(w, u)
    BY <1>2 DEF Post, Running
  <2>3. Mailbox!Accept(Uid[s])
    BY <1>2, <2>2 DEF Post, Mailbox!Accept
  <2>4. QED
    BY <2>1, <2>3 DEF Mailbox!Next
<1>3. ASSUME NEW w \in Workers, WorkerTake(w) \/ DrainTake(w) PROVE Mailbox!Next
  <2>1. /\ cur'[w] = queue[w][1]
        /\ wpc'[w] \in {"run", "drainrun"}
        /\ wpc[w] \notin {"run", "drainrun"}
        /\ \A v \in Workers : v # w => cur'[v] = cur[v] /\ wpc'[v] = wpc[v]
        /\ queue[w] # <<>>
        /\ UNCHANGED <<accepted, handled>>
    BY <1>3, TailFacts DEF WorkerTake, DrainTake, Goto, TypeOK
  <2>2. PICK u \in Users : /\ u = queue[w][1].uid /\ getQueueIndex(u) = w
                           /\ queue[w][1].n = handled[u] + 1
                           /\ queue[w][1].n <= accepted[u]
    BY <2>1, HeadIsNext
  <2>3. \A v \in Workers : ~Running(v, u)
    BY <2>1, <2>2, RunningOnOwnWorker DEF Running
  <2>4. Running(w, u)'
    BY <2>1, <2>2 DEF Running
  <2>5. \A v \in Workers, x \in Users : x # u => (Running(v, x)' <=> Running(v, x))
    BY <2>1, <2>2 DEF Running
  <2>6. handled[u] < accepted[u]
    BY <2>2 DEF TypeOK
  <2>7. Mailbox!Start(u)
    BY <2>1, <2>2, <2>3, <2>4, <2>5, <2>6 DEF Mailbox!Start
  <2>8. QED
    BY <2>2, <2>7 DEF Mailbox!Next
<1>4. ASSUME NEW w \in Workers, WorkerRun(w) \/ DrainRun(w) PROVE Mailbox!Next
  <2> DEFINE u == cur[w].uid
  <2>1. /\ wpc[w] \in {"run", "drainrun"}
        /\ wpc'[w] \notin {"run", "drainrun"}
        /\ \A v \in Workers : v # w => wpc'[v] = wpc[v]
        /\ handled' = [handled EXCEPT ![u] = cur[w].n]
        /\ UNCHANGED <<cur, accepted>>
    BY <1>4 DEF WorkerRun, DrainRun, Goto, TypeOK
  <2>2. u \in Users /\ cur[w].n = handled[u] + 1
    BY <2>1 DEF DataInv, InHand
  <2>3. Running(w, u)
    BY <2>1 DEF Running
  <2>4. \A v \in Workers : ~Running(v, u)'
    BY <2>1, <2>2, <2>3, RunningOnOwnWorker DEF Running
  <2>5. \A v \in Workers, x \in Users : x # u => (Running(v, x)' <=> Running(v, x))
    BY <2>1 DEF Running
  <2>6. Mailbox!Finish(u)
    BY <2>1, <2>2, <2>3, <2>4, <2>5 DEF Mailbox!Finish
  <2>7. QED
    BY <2>2, <2>6 DEF Mailbox!Next
<1>5. ASSUME NEW s \in Sessions, PostDrop(s) \/ PostNotify(s) PROVE UNCHANGED Mailbox!vars
  BY <1>5, <1>1 DEF PostDrop, PostNotify, Woken, Running, vars, TypeOK
<1>6. ASSUME NEW w \in Workers, WorkerStep(w) \/ SpuriousWake(w)
      PROVE  \/ WorkerTake(w) \/ DrainTake(w) \/ WorkerRun(w) \/ DrainRun(w)
             \/ UNCHANGED Mailbox!vars
  <2> SUFFICES ASSUME ~(WorkerTake(w) \/ DrainTake(w) \/ WorkerRun(w) \/ DrainRun(w))
               PROVE  UNCHANGED Mailbox!vars
    OBVIOUS
  <2>1. /\ UNCHANGED <<accepted, handled, cur>>
        /\ \E a, b \in WorkerPc \ {"run", "drainrun"} :
             wpc[w] = a /\ wpc' = [wpc EXCEPT ![w] = b]
    BY <1>6 DEF WorkerStep, WorkerLoop, WorkerLock, WorkerPred, WorkerBlock, WorkerBreak,
                DrainLock, DrainDone, SpuriousWake, Goto, WorkerPc, Holds
  <2>2. \A v \in Workers, u \in Users : Running(v, u)' <=> Running(v, u)
    BY <2>1 DEF Running, TypeOK
  <2>3. QED
    BY <2>1, <2>2, <1>1
<1>7. CASE CloseStop \/ CloseNotify \/ CloseJoin \/ UNCHANGED vars
  BY <1>7, <1>1 DEF CloseStop, CloseNotify, CloseJoin, Woken, Running, vars, TypeOK
<1>8. QED
  BY <1>2, <1>3, <1>4, <1>5, <1>6, <1>7 DEF Next

\* LogicSystem implements the per-user mailbox: the handlers of a user's
\* messages run one at a time, in the order of acceptance, each once.
THEOREM Refinement == Spec => ImplementsMailbox
  BY MailboxInit, MailboxStep, Invariance, PTL DEF Spec, ImplementsMailbox, Mailbox!Spec
=============================================================================
