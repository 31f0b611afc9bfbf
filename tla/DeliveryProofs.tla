--------------------------- MODULE DeliveryProofs ---------------------------
(***************************************************************************)
(* Proofs about Delivery, for any number of servers, users, sessions and   *)
(* messages.  A private message is with one handler and nowhere else; what *)
(* that handler publishes is then in one place of each server.  Places of  *)
(* a later message are behind those of an earlier one.  A message that its *)
(* addressee has not received is in the work of some thread or in an inbox *)
(* or one of the three faults that Delivery counts took it.                *)
(***************************************************************************)
EXTENDS Delivery, SequenceTheorems, TLAPS

\* SessionMgr has a session under its own user and on its own server.
Routes ==
  \A s \in Servers, u \in Users : manager[s][u] # None =>
    Home[manager[s][u]] = s /\ User[manager[s][u]] = u

\* Who is in the group now was addressed by every message of others to it.
Addressed ==
  \A m \in DOMAIN sent :
    /\ sent[m].to = Group => members \ {sent[m].from} \subseteq sent[m].ever
    /\ sent[m].to # Group => sent[m].ever = {sent[m].to}

\* A thread routes a message to addressees of it, and to their sessions here.
JobOk(t) ==
  LET m == job[t].msg
  IN /\ job[t].at = "idle" => job[t] = NoJob
     /\ job[t].at # "idle" => m \in DOMAIN sent
     /\ job[t].at = "members" => sent[m].to = Group
     /\ job[t].at \in {"lookup", "send"} =>
          /\ job[t].todo \subseteq sent[m].ever
          /\ sent[m].to = Group => sent[m].from \notin job[t].todo
     /\ job[t].at = "send" =>
          /\ job[t].to \in job[t].todo
          /\ job[t].hand # None => /\ User[job[t].hand] = job[t].to
                                   /\ Home[job[t].hand] = t[1]

JobInv == \A t \in Threads : JobOk(t)

Once(q, m) == \A i, j \in DOMAIN q : q[i] = m /\ q[j] = m => i = j

Before(q, k, m) == \A i, j \in DOMAIN q : q[i] = k /\ q[j] = m => i < j

Sub(s) == <<s, Subscriber>>

\* A handler that has private message m in hand is the only one that has.
HandlerFirst(m) ==
  \A t \in Threads : t[2] # Subscriber /\ job[t].msg = m =>
    /\ \A o \in Threads : job[o].msg = m => o = t
    /\ \A s \in Servers : m \notin Range(inbox[s])
    /\ \A x \in Sessions : m \notin Range(got[x])

\* It is in one place of a server at a time: queued for the subscriber thread, in
\* its hand or received by a session.
ThenSubscriber(m) ==
  \A s \in Servers :
    /\ Once(inbox[s], m)
    /\ m \in Range(inbox[s]) => job[Sub(s)].msg # m
    /\ \A x \in Sessions : m \in Range(got[x]) /\ Home[x] = s =>
         m \notin Range(inbox[s]) /\ job[Sub(s)].msg # m

ReceivedOnce(m) == \A x \in Sessions : Once(got[x], m)

PrivateInv ==
  \A m \in DOMAIN sent : sent[m].to # Group =>
    HandlerFirst(m) /\ ThenSubscriber(m) /\ ReceivedOnce(m)

IInv == TypeOK /\ Routes /\ Addressed /\ JobInv /\ OnlyAddressees /\ PrivateInv
-----------------------------------------------------------------------------
(* Sequences *)

LEMMA AppendFacts ==
  ASSUME NEW S, NEW q \in Seq(S), NEW e \in S
  PROVE  /\ Append(q, e) \in Seq(S)
         /\ Range(Append(q, e)) = Range(q) \cup {e}
         /\ \A m : Once(q, m) /\ (e # m \/ m \notin Range(q)) => Once(Append(q, e), m)
  <1>1. /\ Append(q, e) \in Seq(S)
        /\ DOMAIN Append(q, e) = 1 .. Len(q) + 1 /\ Len(q) \in Nat
        /\ DOMAIN q = 1 .. Len(q)
        /\ \A i \in 1 .. Len(q) : Append(q, e)[i] = q[i]
        /\ Append(q, e)[Len(q) + 1] = e
    BY AppendProperties, LenProperties
  <1>2. Range(Append(q, e)) = Range(q) \cup {e}
    BY <1>1 DEF Range
  <1>3. ASSUME NEW m, Once(q, m), e # m \/ m \notin Range(q)
        PROVE  Once(Append(q, e), m)
    BY <1>1, <1>3 DEF Once, Range
  <1> QED BY <1>1, <1>2, <1>3

LEMMA TailFacts ==
  ASSUME NEW S, NEW q \in Seq(S), q # <<>>
  PROVE  /\ Tail(q) \in Seq(S) /\ Head(q) \in S
         /\ Head(q) \in Range(q) /\ Range(Tail(q)) \subseteq Range(q)
         /\ \A m : Once(q, m) => Once(Tail(q), m)
         /\ Once(q, Head(q)) => Head(q) \notin Range(Tail(q))
  <1>1. /\ Tail(q) \in Seq(S) /\ Head(q) \in S
        /\ Len(q) \in Nat \ {0} /\ DOMAIN q = 1 .. Len(q)
        /\ DOMAIN Tail(q) = 1 .. Len(q) - 1
        /\ \A i \in 1 .. Len(q) - 1 : Tail(q)[i] = q[i + 1]
        /\ Head(q) = q[1]
    <2>1. Len(q) \in Nat \ {0} /\ DOMAIN q = 1 .. Len(q)
      BY LenProperties, EmptySeq
    <2>2. /\ Tail(q) \in Seq(S) /\ Head(q) \in S /\ Len(Tail(q)) = Len(q) - 1
          /\ \A i \in 1 .. Len(q) - 1 : Tail(q)[i] = q[i + 1]
      BY <2>1, HeadTailProperties
    <2>3. DOMAIN Tail(q) = 1 .. Len(q) - 1
      BY <2>2, LenProperties
    <2> QED BY <2>1, <2>2, <2>3
  <1>2. Head(q) \in Range(q)
    BY <1>1 DEF Range
  <1>3. \A i \in DOMAIN Tail(q) : i + 1 \in DOMAIN q /\ i \in Int /\ Tail(q)[i] = q[i + 1]
    BY <1>1
  <1>4. Range(Tail(q)) \subseteq Range(q)
    BY <1>3 DEF Range
  <1>5. ASSUME NEW m, Once(q, m) PROVE Once(Tail(q), m)
    BY <1>3, <1>5 DEF Once
  <1>6. ASSUME Once(q, Head(q)) PROVE Head(q) \notin Range(Tail(q))
    <2> SUFFICES ASSUME NEW i \in DOMAIN Tail(q), Tail(q)[i] = Head(q) PROVE FALSE
      BY DEF Range
    <2>1. q[i + 1] = q[1] /\ i + 1 \in DOMAIN q /\ 1 \in DOMAIN q
      BY <1>1, <1>3
    <2>2. i + 1 = 1
      BY <2>1, <1>1, <1>6 DEF Once
    <2> QED BY <2>2, <1>1
  <1> QED BY <1>1, <1>2, <1>4, <1>5, <1>6

LEMMA RangeTail ==
  ASSUME NEW S, NEW q \in Seq(S), q # <<>>
  PROVE  Range(q) \subseteq Range(Tail(q)) \cup {Head(q)}
  <1>1. /\ Len(q) \in Nat \ {0} /\ DOMAIN q = 1 .. Len(q)
        /\ DOMAIN Tail(q) = 1 .. Len(q) - 1
        /\ \A i \in 1 .. Len(q) - 1 : Tail(q)[i] = q[i + 1]
        /\ Head(q) = q[1]
    <2>1. Len(q) \in Nat \ {0} /\ DOMAIN q = 1 .. Len(q)
      BY LenProperties, EmptySeq
    <2>2. /\ Tail(q) \in Seq(S) /\ Len(Tail(q)) = Len(q) - 1
          /\ \A i \in 1 .. Len(q) - 1 : Tail(q)[i] = q[i + 1]
      BY <2>1, HeadTailProperties
    <2>3. DOMAIN Tail(q) = 1 .. Len(q) - 1
      BY <2>2, LenProperties
    <2> QED BY <2>1, <2>2, <2>3
  <1>2. ASSUME NEW i \in DOMAIN q, i # 1 PROVE q[i] \in Range(Tail(q))
    <2>1. i - 1 \in DOMAIN Tail(q) /\ Tail(q)[i - 1] = q[i]
      BY <1>1, <1>2
    <2> QED BY <2>1 DEF Range
  <1> QED BY <1>1, <1>2 DEF Range

LEMMA BeforeAppend ==
  ASSUME NEW S, NEW q \in Seq(S), NEW e \in S, NEW k, NEW m, k # m,
         Before(q, k, m), e = k => m \notin Range(q)
  PROVE  Before(Append(q, e), k, m)
  <1>1. /\ DOMAIN Append(q, e) = 1 .. Len(q) + 1 /\ Len(q) \in Nat
        /\ DOMAIN q = 1 .. Len(q)
        /\ \A i \in 1 .. Len(q) : Append(q, e)[i] = q[i]
        /\ Append(q, e)[Len(q) + 1] = e
    BY AppendProperties, LenProperties
  <1>2. \A i \in 1 .. Len(q) : q[i] \in Range(q)
    BY <1>1 DEF Range
  <1> QED BY <1>1, <1>2 DEF Before

LEMMA BeforeTail ==
  ASSUME NEW S, NEW q \in Seq(S), q # <<>>, NEW k, NEW m, Before(q, k, m)
  PROVE  /\ Before(Tail(q), k, m)
         /\ Head(q) = m => k \notin Range(Tail(q))
  <1>1. /\ Len(q) \in Nat \ {0} /\ DOMAIN q = 1 .. Len(q)
        /\ DOMAIN Tail(q) = 1 .. Len(q) - 1
        /\ \A i \in 1 .. Len(q) - 1 : Tail(q)[i] = q[i + 1]
        /\ Head(q) = q[1]
    <2>1. Len(q) \in Nat \ {0} /\ DOMAIN q = 1 .. Len(q)
      BY LenProperties, EmptySeq
    <2>2. /\ Tail(q) \in Seq(S) /\ Len(Tail(q)) = Len(q) - 1
          /\ \A i \in 1 .. Len(q) - 1 : Tail(q)[i] = q[i + 1]
      BY <2>1, HeadTailProperties
    <2>3. DOMAIN Tail(q) = 1 .. Len(q) - 1
      BY <2>2, LenProperties
    <2> QED BY <2>1, <2>2, <2>3
  <1>2. Before(Tail(q), k, m)
    <2> SUFFICES ASSUME NEW i \in DOMAIN Tail(q), NEW j \in DOMAIN Tail(q),
                        Tail(q)[i] = k, Tail(q)[j] = m
                 PROVE  i < j
      BY DEF Before
    <2>1. i + 1 \in DOMAIN q /\ j + 1 \in DOMAIN q /\ q[i + 1] = k /\ q[j + 1] = m
      BY <1>1
    <2>2. i + 1 < j + 1
      BY <2>1 DEF Before
    <2> QED BY <1>1, <2>2
  <1>3. ASSUME Head(q) = m, NEW i \in DOMAIN Tail(q), Tail(q)[i] = k PROVE FALSE
    <2>1. i + 1 \in DOMAIN q /\ q[i + 1] = k /\ 1 \in DOMAIN q /\ q[1] = m
      BY <1>1, <1>3
    <2>2. i + 1 < 1
      BY <2>1 DEF Before
    <2> QED BY <1>1, <2>2
  <1> QED BY <1>2, <1>3 DEF Range

LEMMA PrefixFacts ==
  ASSUME NEW S, NEW q \in Seq(S), NEW n \in 0 .. Len(q)
  PROVE  /\ SubSeq(q, 1, n) \in Seq(S)
         /\ Range(SubSeq(q, 1, n)) \subseteq Range(q)
         /\ \A m : Once(q, m) => Once(SubSeq(q, 1, n), m)
         /\ \A k, m : Before(q, k, m) => Before(SubSeq(q, 1, n), k, m)
  <1>1. Len(q) \in Nat /\ DOMAIN q = 1 .. Len(q)
    BY LenProperties
  <1>2. /\ SubSeq(q, 1, n) \in Seq(S) /\ Len(SubSeq(q, 1, n)) = n
        /\ \A i \in 1 .. n : SubSeq(q, 1, n)[i] = q[i]
    BY <1>1
  <1>3. DOMAIN SubSeq(q, 1, n) \subseteq DOMAIN q
    BY <1>1, <1>2, LenProperties
  <1>4. \A i \in DOMAIN SubSeq(q, 1, n) : SubSeq(q, 1, n)[i] = q[i]
    BY <1>2, LenProperties
  <1> QED BY <1>2, <1>3, <1>4 DEF Range, Once, Before

\* Ids of messages that are there stay ids.
LEMMA SeqWider ==
  ASSUME NEW a \in Nat, NEW b \in Nat, a <= b, NEW q \in Seq(1 .. a)
  PROVE  q \in Seq(1 .. b)
  BY SeqMonotonic

LEMMA ThreadFacts ==
  /\ \A s \in Servers, u \in Users : <<s, u>> \in Threads /\ <<s, u>>[2] # Subscriber
  /\ \A s \in Servers : Sub(s) \in Threads /\ Sub(s)[1] = s /\ Sub(s)[2] = Subscriber
  /\ \A r, s \in Servers : Sub(r) = Sub(s) => r = s
  /\ \A t \in Threads : t[1] \in Servers /\ (t[2] = Subscriber => t = Sub(t[1]))
  BY DeliveryAssumption DEF Threads, Sub
-----------------------------------------------------------------------------
LEMMA InitInv == Init => IInv
  <1> SUFFICES ASSUME Init PROVE IInv
    OBVIOUS
  <1>1. /\ sent = <<>> /\ Len(sent) = 0 /\ DOMAIN sent = {}
        /\ \A S : <<>> \in Seq(S)
    BY EmptySeq DEF Init
  <1>2. TypeOK
    <2>1. /\ phase \in [Sessions -> Phases]
          /\ manager \in [Servers -> [Users -> Sessions \cup {None}]]
      BY DeliveryAssumption DEF Init, Phases
    <2>2. commands \in [Servers -> Seq(Command)]
      BY <1>1 DEF Init
    <2>3. job \in [Threads -> Job] /\ \A t \in Threads : job[t].msg = 0
      BY DeliveryAssumption DEF Init, NoJob, Job
    <2> QED BY <1>1, <2>1, <2>2, <2>3, DeliveryAssumption DEF Init, TypeOK
  <1>3. Routes /\ Addressed
    BY <1>1, DeliveryAssumption DEF Init, Routes, Addressed
  <1>4. JobInv
    BY DEF Init, JobInv, JobOk, NoJob
  <1>5. OnlyAddressees
    BY <1>1 DEF Init, OnlyAddressees, Range
  <1>6. PrivateInv
    BY <1>1 DEF PrivateInv
  <1> QED BY <1>2, <1>3, <1>4, <1>5, <1>6 DEF IInv
LEMMA Bounds ==
  ASSUME IInv
  PROVE  /\ Len(sent) \in Nat /\ DOMAIN sent = 1 .. Len(sent) /\ MaxMsgs \in Nat
         /\ Len(sent) <= MaxMsgs
         /\ \A m \in DOMAIN sent : sent[m] \in Message
         /\ \A s \in Servers : inbox[s] \in Seq(1 .. Len(sent))
                              /\ Range(inbox[s]) \subseteq 1 .. Len(sent)
         /\ \A x \in Sessions : got[x] \in Seq(1 .. Len(sent))
                               /\ Range(got[x]) \subseteq 1 .. Len(sent)
         /\ \A t \in Threads : job[t] \in Job /\ job[t].msg \in 0 .. Len(sent)
  <1> USE DEF IInv, TypeOK
  <1>1. /\ Len(sent) \in Nat /\ DOMAIN sent = 1 .. Len(sent) /\ MaxMsgs \in Nat
        /\ Len(sent) <= MaxMsgs
        /\ \A m \in DOMAIN sent : sent[m] \in Message
    BY LenProperties, ElementOfSeq, DeliveryAssumption
  <1>2. ASSUME NEW q \in Seq(1 .. Len(sent)) PROVE Range(q) \subseteq 1 .. Len(sent)
    BY ElementOfSeq, LenProperties DEF Range
  <1>3. \A t \in Threads : job[t] \in Job /\ job[t].msg \in 0 .. Len(sent)
    BY <1>1 DEF Job
  <1> QED BY <1>1, <1>2, <1>3

-----------------------------------------------------------------------------
(* Sessions and the group *)

\* What one call or command does to the subscriber connection.
LEMMA CallTyped ==
  ASSUME TypeOK, NEW x \in Sessions, NEW verb \in {"SUBSCRIBE", "UNSUBSCRIBE"},
         Call(x, verb)
  PROVE  /\ commands' \in [Servers -> Seq(Command)]
         /\ caller' \in [Servers -> Sessions \cup {None}]
  <1>1. Home[x] \in Servers /\ User[x] \in Users
    BY DeliveryAssumption
  <1>2. CASE UNCHANGED <<commands, caller>>
    BY <1>2 DEF TypeOK
  <1>3. CASE /\ commands' = [commands EXCEPT ![Home[x]] = Append(@, <<verb, User[x]>>)]
             /\ caller' = [caller EXCEPT ![Home[x]] = x]
    <2>1. <<verb, User[x]>> \in Command
      BY <1>1 DEF Command
    <2>2. /\ commands \in [Servers -> Seq(Command)]
          /\ caller \in [Servers -> Sessions \cup {None}]
      BY DEF TypeOK
    <2>3. Append(commands[Home[x]], <<verb, User[x]>>) \in Seq(Command)
      BY <1>1, <2>1, <2>2, AppendProperties
    <2>4. commands' \in [Servers -> Seq(Command)]
      BY <1>3, <2>2, <2>3
    <2> QED BY <1>3, <2>2, <2>4
  <1> QED BY <1>2, <1>3 DEF Call

LEMMA Life ==
  ASSUME IInv, NEW x \in Sessions,
         \/ AddSession(x) \/ Subscribe(x) \/ HangUp(x)
         \/ RemoveSession(x) \/ Unsubscribe(x)
  PROVE  IInv'
  <1> USE DEF IInv
  <1>1. UNCHANGED <<connected, subs, members, sent, inbox, job, got, taken, unpublished>>
    BY DEF AddSession, Subscribe, HangUp, RemoveSession, Unsubscribe, feed, ghost
  <1>2. Addressed' /\ JobInv' /\ OnlyAddressees' /\ PrivateInv'
    BY <1>1 DEF Addressed, JobInv, JobOk, OnlyAddressees, PrivateInv, HandlerFirst,
                ThenSubscriber, ReceivedOnce
  <1>3. Home[x] \in Servers /\ User[x] \in Users
    BY DeliveryAssumption
  <1>4. /\ manager' \in [Servers -> [Users -> Sessions \cup {None}]]
        /\ Routes'
    <2>1. CASE manager' = manager
      BY <2>1 DEF TypeOK, Routes
    <2>2. ASSUME NEW y \in {x, None}, Enter(x, y)
          PROVE  /\ manager' \in [Servers -> [Users -> Sessions \cup {None}]]
                 /\ Routes'
      <3>1. manager' \in [Servers -> [Users -> Sessions \cup {None}]]
        BY <1>3, <2>2 DEF TypeOK, Enter
      <3>2. \A s \in Servers, u \in Users : manager'[s][u] =
              IF s = Home[x] /\ u = User[x] THEN y ELSE manager[s][u]
        BY <1>3, <2>2 DEF TypeOK, Enter
      <3> QED BY <3>1, <3>2 DEF Routes
    <2> QED BY <2>1, <2>2 DEF AddSession, Subscribe, HangUp, RemoveSession, Unsubscribe
  <1>5. phase' \in [Sessions -> Phases]
    <2>1. PICK p \in Phases : phase' = [phase EXCEPT ![x] = p]
      BY DEF AddSession, Subscribe, HangUp, RemoveSession, Unsubscribe, Phase, Phases
    <2> QED BY <2>1 DEF TypeOK
  <1>6. /\ commands' \in [Servers -> Seq(Command)]
        /\ caller' \in [Servers -> Sessions \cup {None}]
    <2>1. CASE UNCHANGED <<commands, caller>>
      BY <2>1 DEF TypeOK
    <2>2. CASE \E verb \in {"SUBSCRIBE", "UNSUBSCRIBE"} : Call(x, verb)
      BY <2>2, CallTyped
    <2> QED BY <2>1, <2>2 DEF AddSession, Subscribe, HangUp, RemoveSession, Unsubscribe, feed
  <1>7. TypeOK'
    BY <1>1, <1>4, <1>5, <1>6 DEF TypeOK
  <1> QED BY <1>2, <1>4, <1>7

\* A step of a subscriber connection takes messages from its inbox, or none.
LEMMA Shorter ==
  ASSUME IInv, NEW s \in Servers,
         CallReturns(s) \/ CallTakes(s) \/ Execute(s) \/ Break(s)
  PROVE  /\ UNCHANGED <<manager, members, sent, job, got, unpublished>>
         /\ inbox' \in [Servers -> Seq(1 .. Len(sent))]
         /\ \A c \in Servers : Range(inbox'[c]) \subseteq Range(inbox[c])
         /\ \A c \in Servers : \A m : Once(inbox[c], m) => Once(inbox'[c], m)
         /\ \A c \in Servers : \A k, m : Before(inbox[c], k, m) => Before(inbox'[c], k, m)
  <1>1. UNCHANGED <<manager, members, sent, job, got, unpublished>>
    BY DEF CallReturns, CallTakes, CallEnds, Execute, Break, ghost
  <1>2. inbox \in [Servers -> Seq(1 .. Len(sent))] /\ inbox[s] \in Seq(1 .. Len(sent))
    BY DEF IInv, TypeOK
  <1>3. CASE inbox' = inbox
    BY <1>1, <1>2, <1>3
  <1>4. CASE inbox[s] # <<>> /\ inbox' = [inbox EXCEPT ![s] = Tail(@)]
    <2>1. /\ Tail(inbox[s]) \in Seq(1 .. Len(sent))
          /\ Range(Tail(inbox[s])) \subseteq Range(inbox[s])
          /\ \A m : Once(inbox[s], m) => Once(Tail(inbox[s]), m)
      BY <1>2, <1>4, TailFacts
    <2>2. \A k, m : Before(inbox[s], k, m) => Before(Tail(inbox[s]), k, m)
      BY <1>2, <1>4, BeforeTail
    <2> QED BY <1>1, <1>2, <1>4, <2>1, <2>2
  <1>5. CASE \E n \in 0 .. Len(inbox[s]) : inbox' = [inbox EXCEPT ![s] = SubSeq(@, 1, n)]
    <2>1. PICK n \in 0 .. Len(inbox[s]) : inbox' = [inbox EXCEPT ![s] = SubSeq(@, 1, n)]
      BY <1>5
    <2>2. /\ SubSeq(inbox[s], 1, n) \in Seq(1 .. Len(sent))
          /\ Range(SubSeq(inbox[s], 1, n)) \subseteq Range(inbox[s])
          /\ \A m : Once(inbox[s], m) => Once(SubSeq(inbox[s], 1, n), m)
          /\ \A k, m : Before(inbox[s], k, m) => Before(SubSeq(inbox[s], 1, n), k, m)
      BY <1>2, PrefixFacts
    <2> QED BY <1>1, <1>2, <2>1, <2>2
  <1> QED BY <1>3, <1>4, <1>5 DEF CallReturns, CallTakes, Execute, Break

LEMMA FeedInv ==
  ASSUME IInv, NEW s \in Servers,
         CallReturns(s) \/ CallTakes(s) \/ Execute(s) \/ Break(s)
  PROVE  IInv'
  <1> USE DEF IInv
  <1>1. /\ UNCHANGED <<manager, members, sent, job, got, unpublished>>
        /\ inbox' \in [Servers -> Seq(1 .. Len(sent))]
        /\ \A c \in Servers : Range(inbox'[c]) \subseteq Range(inbox[c])
        /\ \A c \in Servers : \A m : Once(inbox[c], m) => Once(inbox'[c], m)
    BY Shorter
  <1>2. Routes' /\ Addressed' /\ JobInv' /\ OnlyAddressees'
    BY <1>1 DEF Routes, Addressed, JobInv, JobOk, OnlyAddressees
  <1>3. PrivateInv'
    BY <1>1, ThreadFacts DEF PrivateInv, HandlerFirst, ThenSubscriber, ReceivedOnce
  <1>4. /\ phase' \in [Sessions -> Phases]
        /\ caller' \in [Servers -> Sessions \cup {None}]
    <2>1. CASE UNCHANGED <<phase, caller>>
      BY <2>1 DEF TypeOK
    <2>2. CASE CallEnds(s)
      BY <2>2 DEF CallEnds, TypeOK, Phases
    <2> QED BY <2>1, <2>2 DEF CallReturns, CallTakes, Execute, Break
  <1>5. /\ connected' \in [Servers -> BOOLEAN]
        /\ subs' \in [Servers -> SUBSET Users]
    <2>1. CASE UNCHANGED <<connected, subs>>
      BY <2>1 DEF TypeOK
    <2>2. CASE Execute(s)
      <3>1. connected' = connected /\ \E S \in SUBSET Users : subs' = [subs EXCEPT ![s] = S]
        <4>1. commands[s] \in Seq(Command) /\ commands[s] # <<>>
          BY <2>2 DEF Execute, TypeOK
        <4>2. Head(commands[s]) \in Command
          BY <4>1, HeadTailProperties
        <4>3. Head(commands[s])[2] \in Users
          BY <4>2 DEF Command
        <4>4. /\ subs[s] \cup {Head(commands[s])[2]} \in SUBSET Users
              /\ subs[s] \ {Head(commands[s])[2]} \in SUBSET Users
          BY <4>3 DEF TypeOK
        <4> QED BY <2>2, <4>4 DEF Execute
      <3> QED BY <3>1 DEF TypeOK
    <2>3. CASE Break(s)
      BY <2>3 DEF Break, TypeOK
    <2> QED BY <2>1, <2>2, <2>3 DEF CallReturns, CallTakes, CallEnds
  <1>6. commands' \in [Servers -> Seq(Command)]
    <2>1. commands \in [Servers -> Seq(Command)] /\ commands[s] \in Seq(Command)
      BY DEF TypeOK
    <2>2. CASE Execute(s)
      <3>1. Tail(commands[s]) \in Seq(Command)
        BY <2>1, <2>2, HeadTailProperties DEF Execute
      <3> QED BY <2>1, <2>2, <3>1 DEF Execute
    <2>3. CASE Break(s)
      <3>1. <<>> \in Seq(Command)
        BY EmptySeq
      <3> QED BY <2>1, <2>3, <3>1 DEF Break
    <2>4. CASE UNCHANGED commands
      BY <2>1, <2>4
    <2> QED BY <2>2, <2>3, <2>4 DEF CallReturns, CallTakes, CallEnds
  <1>7. taken' \in [Servers -> SUBSET (1 .. MaxMsgs)]
    <2>1. CASE taken' = taken
      BY <2>1 DEF TypeOK
    <2>2. CASE CallTakes(s)
      <3>1. Head(inbox[s]) \in 1 .. Len(sent)
        BY <2>2, Bounds, TailFacts DEF CallTakes
      <3>2. Head(inbox[s]) \in 1 .. MaxMsgs
        BY <3>1, Bounds
      <3> QED BY <2>2, <3>2 DEF CallTakes, TypeOK
    <2> QED BY <2>1, <2>2 DEF CallReturns, Execute, Break, ghost
  <1>8. TypeOK'
    BY <1>1, <1>4, <1>5, <1>6, <1>7 DEF TypeOK
  <1> QED BY <1>2, <1>3, <1>8

LEMMA GroupChanges ==
  ASSUME IInv, NEW u \in Users, addGroupMember(u) \/ removeGroupMember(u)
  PROVE  IInv'
  <1> USE DEF IInv
  <1>1. /\ UNCHANGED <<phase, manager, connected, commands, subs, caller, taken, unpublished,
                       inbox, job, got>>
        /\ members' \subseteq members \cup {u}
    BY DEF addGroupMember, removeGroupMember, life, feed, ghost
  <1>2. /\ Len(sent) \in Nat /\ DOMAIN sent = 1 .. Len(sent)
        /\ \A m \in DOMAIN sent : sent[m] \in Message
    BY LenProperties, ElementOfSeq DEF TypeOK
  <1>3. /\ DOMAIN sent' = DOMAIN sent
        /\ \A m \in DOMAIN sent :
             /\ sent'[m] \in Message
             /\ sent'[m].from = sent[m].from /\ sent'[m].to = sent[m].to
             /\ sent[m].ever \subseteq sent'[m].ever
             /\ sent'[m].to = Group => members' \ {sent'[m].from} \subseteq sent'[m].ever
             /\ sent'[m].to # Group => sent'[m].ever = sent[m].ever
    <2>1. ASSUME addGroupMember(u), NEW m \in DOMAIN sent
          PROVE  /\ sent'[m] \in Message
                 /\ sent'[m].from = sent[m].from /\ sent'[m].to = sent[m].to
                 /\ sent[m].ever \subseteq sent'[m].ever
                 /\ sent'[m].to = Group => members' \ {sent'[m].from} \subseteq sent'[m].ever
                 /\ sent'[m].to # Group => sent'[m].ever = sent[m].ever
      BY <1>2, <2>1 DEF addGroupMember, Addressed, Message
    <2>2. ASSUME removeGroupMember(u), NEW m \in DOMAIN sent
          PROVE  /\ sent'[m] \in Message
                 /\ sent'[m].from = sent[m].from /\ sent'[m].to = sent[m].to
                 /\ sent[m].ever \subseteq sent'[m].ever
                 /\ sent'[m].to = Group => members' \ {sent'[m].from} \subseteq sent'[m].ever
                 /\ sent'[m].to # Group => sent'[m].ever = sent[m].ever
      BY <1>2, <2>2 DEF removeGroupMember, Addressed, Message
    <2>3. DOMAIN sent' = DOMAIN sent
      BY DEF addGroupMember, removeGroupMember
    <2> QED BY <2>1, <2>2, <2>3
  <1>4. sent' \in Seq(Message) /\ Len(sent') = Len(sent)
    <2>1. sent' \in [1 .. Len(sent) -> Message]
      <3>1. sent' = [m \in 1 .. Len(sent) |-> sent'[m]]
        <4>1. CASE addGroupMember(u)
          BY <1>2, <4>1 DEF addGroupMember
        <4>2. CASE removeGroupMember(u)
          BY <1>2, <4>2 DEF removeGroupMember
        <4> QED BY <4>1, <4>2
      <3> QED BY <1>2, <1>3, <3>1
    <2>2. sent' \in Seq(Message)
      BY <1>2, <2>1
    <2> QED BY <1>2, <2>1, <2>2, LenProperties
  <1>5. TypeOK'
    BY <1>1, <1>4 DEF TypeOK
  <1>6. Routes'
    BY <1>1 DEF Routes
  <1>7. Addressed'
    BY <1>3 DEF Addressed
  <1>8. JobInv'
    BY <1>1, <1>3 DEF JobInv, JobOk
  <1>9. OnlyAddressees'
    <2>1. \A x \in Sessions : Range(got[x]) \subseteq DOMAIN sent
      BY <1>2, ElementOfSeq DEF TypeOK, Range
    <2> QED BY <1>1, <1>3, <2>1 DEF OnlyAddressees
  <1>10. PrivateInv'
    BY <1>1, <1>3 DEF PrivateInv, HandlerFirst, ThenSubscriber, ReceivedOnce
  <1> QED BY <1>5, <1>6, <1>7, <1>8, <1>9, <1>10
-----------------------------------------------------------------------------
(* Handlers and the callback *)

LEMMA JobStep ==
  ASSUME IInv, UNCHANGED sent, NEW t \in Threads, JobOk(t)',
         \A o \in Threads \ {t} : job'[o] = job[o]
  PROVE  JobInv'
  <1> SUFFICES ASSUME NEW o \in Threads PROVE JobOk(o)'
    BY DEF JobInv
  <1>1. CASE o = t
    BY <1>1
  <1>2. CASE o # t
    BY <1>2 DEF IInv, JobInv, JobOk
  <1> QED BY <1>1, <1>2

LEMMA JobTyped ==
  ASSUME IInv, UNCHANGED sent, NEW t \in Threads, NEW J \in Job,
         J.msg \in {job[t].msg, 0}, job' = [job EXCEPT ![t] = J]
  PROVE  /\ job' \in [Threads -> Job]
         /\ \A o \in Threads : job'[o].msg <= Len(sent)
         /\ job'[t] = J
         /\ \A o \in Threads \ {t} : job'[o] = job[o]
  BY Bounds DEF IInv, TypeOK

\* A thread that goes on with its message, or is done with it, duplicates nothing.
LEMMA SameMessage ==
  ASSUME IInv, UNCHANGED <<sent, inbox, got>>, NEW t \in Threads,
         job'[t].msg \in {job[t].msg, 0},
         \A o \in Threads \ {t} : job'[o] = job[o]
  PROVE  PrivateInv'
  <1>1. \A o \in Threads : \A m \in DOMAIN sent : job'[o].msg = m => job[o].msg = m
    BY Bounds
  <1> QED BY <1>1, ThreadFacts
      DEF IInv, PrivateInv, HandlerFirst, ThenSubscriber, ReceivedOnce

LEMMA AdvanceFacts ==
  ASSUME IInv, UNCHANGED sent, NEW t \in Threads, job[t].at = "send", Advance(t)
  PROVE  /\ job' \in [Threads -> Job]
         /\ \A o \in Threads : job'[o].msg <= Len(sent)
         /\ \A o \in Threads \ {t} : job'[o] = job[o]
         /\ JobInv'
         /\ job[t].msg \in DOMAIN sent
         /\ job'[t].msg \in {job[t].msg, 0}
         /\ sent[job[t].msg].to # Group => job'[t].msg = 0
  <1> USE DEF IInv
  <1> DEFINE m == job[t].msg
             left == job[t].todo \ {job[t].to}
             J == IF left = {} THEN NoJob
                  ELSE [job[t] EXCEPT !.at = "lookup", !.todo = left, !.to = None, !.hand = None]
  <1>1. /\ m \in DOMAIN sent
        /\ job[t].todo \subseteq sent[m].ever
        /\ sent[m].to = Group => sent[m].from \notin job[t].todo
        /\ job[t].to \in job[t].todo
    BY DEF JobInv, JobOk
  <1>2. job' = [job EXCEPT ![t] = J]
    BY DEF Advance
  <1>3. J \in Job /\ J.msg \in {m, 0}
    <2>1. NoJob \in Job /\ NoJob.msg = 0
      BY Bounds DEF Job, NoJob
    <2>2. [job[t] EXCEPT !.at = "lookup", !.todo = left, !.to = None, !.hand = None] \in Job
      <3>1. job[t] \in Job /\ left \subseteq Users
        BY Bounds DEF Job
      <3> QED BY <3>1 DEF Job
    <2>3. left # {} => J.msg = m
      BY Bounds DEF Job
    <2> QED BY <2>1, <2>2, <2>3
  <1>4. /\ job' \in [Threads -> Job]
        /\ \A o \in Threads : job'[o].msg <= Len(sent)
        /\ job'[t] = J
        /\ \A o \in Threads \ {t} : job'[o] = job[o]
    BY <1>2, <1>3, JobTyped
  <1>5. JobOk(t)'
    <2>1. CASE left = {}
      BY <1>4, <2>1 DEF JobOk, NoJob
    <2>2. CASE left # {}
      <3>1. /\ J.at = "lookup" /\ J.msg = m /\ J.todo = left
        BY <2>2, Bounds DEF Job
      <3> QED BY <1>1, <1>4, <3>1 DEF JobOk
    <2> QED BY <2>1, <2>2
  <1>6. JobInv'
    BY <1>4, <1>5, JobStep
  <1>7. ASSUME sent[m].to # Group PROVE J.msg = 0
    <2>1. left = {}
      BY <1>1, <1>7 DEF Addressed
    <2> QED BY <2>1 DEF NoJob
  <1> QED BY <1>1, <1>3, <1>4, <1>6, <1>7

LEMMA RequestInv ==
  ASSUME IInv, NEW x \in Sessions, NEW v \in Users \cup {Group}, Request(x, v)
  PROVE  IInv'
  <1> USE DEF IInv
  <1> DEFINE t == <<Home[x], User[x]>>
             n == Len(sent) + 1
             to == IF v = Group THEN members \ {User[x]} ELSE {v}
             new == [from |-> User[x], to |-> v, at |-> Home[x],
                     ever |-> to, always |-> to, up |-> UpAt(Home[x], to)]
             J == Start(n, v)
  <1>1. /\ job[t] = NoJob
        /\ Len(sent) < MaxMsgs
        /\ sent' = Append(sent, new)
        /\ job' = [job EXCEPT ![t] = J]
        /\ UNCHANGED <<phase, manager, connected, commands, subs, caller, taken, unpublished,
                       members, inbox, got>>
    BY DEF Request, life, feed, ghost
  <1>2. t \in Threads /\ t[2] # Subscriber /\ User[x] \in Users
    BY DeliveryAssumption, ThreadFacts
  <1>3. new \in Message
    <2>1. Home[x] \in Servers /\ UpAt(Home[x], to) \subseteq Sessions
      BY DeliveryAssumption DEF UpAt
    <2> QED BY <1>2, <2>1 DEF Message, TypeOK
  <1>4. /\ n \in 1 .. MaxMsgs /\ Len(sent) \in Nat
        /\ sent' \in Seq(Message) /\ Len(sent') = n
        /\ DOMAIN sent = 1 .. Len(sent) /\ DOMAIN sent' = 1 .. n
        /\ \A m \in DOMAIN sent : sent'[m] = sent[m]
        /\ sent'[n] = new
    BY <1>1, <1>3, Bounds, AppendProperties, LenProperties DEF TypeOK
  <1>5. J \in Job /\ J.msg = n
    <2>1. n \in 0 .. MaxMsgs
      BY <1>4
    <2>2. CASE v = Group
      BY <2>1, <2>2 DEF Start, NoJob, Job
    <2>3. CASE v # Group
      BY <2>1, <2>3 DEF Start, NoJob, Job
    <2> QED BY <2>2, <2>3
  <1>6. /\ job'[t] = J
        /\ \A o \in Threads \ {t} : job'[o] = job[o]
        /\ job' \in [Threads -> Job]
    BY <1>1, <1>2, <1>5 DEF TypeOK
  <1>7. TypeOK'
    <2>1. ASSUME NEW o \in Threads PROVE job'[o].msg <= n
      <3>1. CASE o = t
        BY <1>4, <1>5, <1>6, <3>1
      <3>2. CASE o # t
        <4>1. job'[o] = job[o] /\ job[o].msg \in 0 .. Len(sent)
          BY <1>6, <3>2, Bounds
        <4> QED BY <1>4, <4>1
      <3> QED BY <3>1, <3>2
    <2>2. /\ inbox \in [Servers -> Seq(1 .. n)]
          /\ got \in [Sessions -> Seq(1 .. n)]
      BY <1>4, SeqWider DEF TypeOK
    <2> QED BY <1>1, <1>4, <1>6, <2>1, <2>2 DEF TypeOK
  <1>8. Routes'
    BY <1>1 DEF Routes
  <1>9. Addressed'
    <2> SUFFICES ASSUME NEW m \in 1 .. n
                 PROVE  /\ sent'[m].to = Group =>
                             members \ {sent'[m].from} \subseteq sent'[m].ever
                        /\ sent'[m].to # Group => sent'[m].ever = {sent'[m].to}
      BY <1>1, <1>4 DEF Addressed
    <2>1. CASE m = n
      BY <1>4, <2>1
    <2>2. CASE m # n
      BY <1>4, <2>2 DEF Addressed
    <2> QED BY <2>1, <2>2
  <1>10. JobInv'
    <2> SUFFICES ASSUME NEW o \in Threads PROVE JobOk(o)'
      BY DEF JobInv
    <2>1. CASE o = t
      <3>1. /\ J.msg = n /\ J.at \in {"members", "lookup"}
            /\ J.at = "members" => v = Group
            /\ J.at = "lookup" => v # Group /\ J.todo = {v}
        BY DEF Start, NoJob
      <3>2. /\ job'[t] = J /\ n \in DOMAIN sent'
            /\ sent'[n].to = v /\ sent'[n].ever = to
        BY <1>4, <1>6
      <3>3. v # Group => to = {v}
        OBVIOUS
      <3> HIDE DEF J, n, to, new
      <3>4. JobOk(t)'
        BY <3>1, <3>2, <3>3 DEF JobOk
      <3> QED BY <2>1, <3>4
    <2>2. CASE o # t
      <3>1. job'[o] = job[o] /\ JobOk(o)
        BY <1>6, <2>2 DEF JobInv
      <3> QED BY <1>4, <3>1 DEF JobOk, NoJob
    <2> QED BY <2>1, <2>2
  <1>11. OnlyAddressees'
    BY <1>1, <1>4, Bounds DEF OnlyAddressees
  <1>12. PrivateInv'
    <2> SUFFICES ASSUME NEW m \in 1 .. n, sent'[m].to # Group
                 PROVE  HandlerFirst(m)' /\ ThenSubscriber(m)' /\ ReceivedOnce(m)'
      BY <1>4 DEF PrivateInv
    <2>1. CASE m = n
      <3>1. /\ \A s \in Servers : n \notin Range(inbox[s])
            /\ \A y \in Sessions : n \notin Range(got[y])
            /\ \A o \in Threads \ {t} : job'[o].msg # n
        <4>1. n \notin 0 .. Len(sent)
          BY <1>4
        <4>2. /\ \A s \in Servers : n \notin Range(inbox[s])
              /\ \A y \in Sessions : n \notin Range(got[y])
          BY <4>1, Bounds
        <4>3. \A o \in Threads \ {t} : job'[o].msg # n
          BY <1>6, <4>1, Bounds
        <4> QED BY <4>2, <4>3
      <3>2. \A q : n \notin Range(q) => Once(q, n)
        BY DEF Once, Range
      <3> QED BY <1>1, <1>2, <2>1, <3>1, <3>2, ThreadFacts
          DEF HandlerFirst, ThenSubscriber, ReceivedOnce
    <2>2. CASE m # n
      <3>1. m \in DOMAIN sent /\ sent[m].to # Group
        BY <1>4, <2>2
      <3>2. HandlerFirst(m) /\ ThenSubscriber(m) /\ ReceivedOnce(m)
        BY <3>1 DEF PrivateInv
      <3>3. \A o \in Threads : job'[o].msg = m => job[o].msg = m
        BY <1>5, <1>6, <2>2
      <3> QED BY <1>1, <3>2, <3>3, ThreadFacts DEF HandlerFirst, ThenSubscriber, ReceivedOnce
    <2> QED BY <2>1, <2>2
  <1> QED BY <1>7, <1>8, <1>9, <1>10, <1>11, <1>12

LEMMA ReceiveInv ==
  ASSUME IInv, NEW s \in Servers, Receive(s) PROVE IInv'
  <1> USE DEF IInv
  <1> DEFINE t == Sub(s)
             q == inbox[s]
             h == Head(q)
             J == Start(h, sent[h].to)
  <1>1. /\ job[t] = NoJob
        /\ q # <<>>
        /\ job' = [job EXCEPT ![t] = J]
        /\ inbox' = [inbox EXCEPT ![s] = Tail(q)]
        /\ UNCHANGED <<phase, manager, connected, commands, subs, caller, taken, unpublished,
                       members, sent, got>>
    BY DEF Receive, life, feed, ghost, Sub
  <1>2. t \in Threads
    BY ThreadFacts
  <1>3. /\ q \in Seq(1 .. Len(sent)) /\ Tail(q) \in Seq(1 .. Len(sent))
        /\ h \in DOMAIN sent
        /\ h \in Range(q) /\ Range(Tail(q)) \subseteq Range(q)
        /\ \A m : Once(q, m) => Once(Tail(q), m)
        /\ Once(q, h) => h \notin Range(Tail(q))
    BY <1>1, Bounds, TailFacts
  <1>4. J \in Job /\ J.msg = h
    <2>1. h \in 0 .. MaxMsgs /\ sent[h].to \in Users \cup {Group}
      BY <1>3, Bounds DEF Message
    <2> QED BY <2>1 DEF Start, NoJob, Job
  <1>5. /\ job'[t] = J
        /\ \A o \in Threads \ {t} : job'[o] = job[o]
        /\ job' \in [Threads -> Job]
        /\ inbox'[s] = Tail(q)
        /\ \A r \in Servers \ {s} : inbox'[r] = inbox[r]
        /\ inbox' \in [Servers -> Seq(1 .. Len(sent))]
    BY <1>1, <1>2, <1>3, <1>4 DEF TypeOK
  <1>6. TypeOK'
    <2>1. ASSUME NEW o \in Threads PROVE job'[o].msg <= Len(sent)
      <3>1. CASE o = t
        BY <1>3, <1>4, <1>5, <3>1, Bounds
      <3>2. CASE o # t
        BY <1>5, <3>2, Bounds
      <3> QED BY <3>1, <3>2
    <2> QED BY <1>1, <1>5, <2>1 DEF TypeOK
  <1>7. Routes' /\ Addressed' /\ OnlyAddressees'
    BY <1>1 DEF Routes, Addressed, OnlyAddressees
  <1>8. JobInv'
    <2>1. /\ J.msg = h /\ J.at \in {"members", "lookup"}
          /\ J.at = "members" => sent[h].to = Group
          /\ J.at = "lookup" => sent[h].to # Group /\ J.todo = {sent[h].to}
      BY DEF Start, NoJob
    <2>2. sent[h].to # Group => sent[h].ever = {sent[h].to}
      BY <1>3 DEF Addressed
    <2> HIDE DEF J, h, q, t
    <2>3. JobOk(t)'
      BY <1>1, <1>3, <1>5, <2>1, <2>2 DEF JobOk
    <2> QED BY <1>1, <1>2, <1>5, <2>3, JobStep
  <1>9. PrivateInv'
    <2> SUFFICES ASSUME NEW m \in DOMAIN sent, sent[m].to # Group
                 PROVE  HandlerFirst(m)' /\ ThenSubscriber(m)' /\ ReceivedOnce(m)'
      BY <1>1 DEF PrivateInv
    <2>1. HandlerFirst(m) /\ ThenSubscriber(m) /\ ReceivedOnce(m)
      BY DEF PrivateInv
    <2>2. HandlerFirst(m)'
      <3> SUFFICES ASSUME NEW o \in Threads, o[2] # Subscriber, job'[o].msg = m
                   PROVE  /\ \A p \in Threads : job'[p].msg = m => p = o
                          /\ \A r \in Servers : m \notin Range(inbox'[r])
                          /\ \A y \in Sessions : m \notin Range(got'[y])
        BY DEF HandlerFirst
      <3>1. o # t /\ job[o].msg = m
        BY <1>5, ThreadFacts
      <3>2. /\ \A p \in Threads : job[p].msg = m => p = o
            /\ \A r \in Servers : m \notin Range(inbox[r])
            /\ \A y \in Sessions : m \notin Range(got[y])
        BY <2>1, <3>1 DEF HandlerFirst
      <3>3. h # m
        BY <1>3, <3>2
      <3> QED BY <1>1, <1>3, <1>4, <1>5, <3>2, <3>3
    <2>3. ThenSubscriber(m)'
      <3> SUFFICES ASSUME NEW r \in Servers
                   PROVE  /\ Once(inbox'[r], m)
                          /\ m \in Range(inbox'[r]) => job'[Sub(r)].msg # m
                          /\ \A y \in Sessions : m \in Range(got[y]) /\ Home[y] = r =>
                               m \notin Range(inbox'[r]) /\ job'[Sub(r)].msg # m
        BY <1>1 DEF ThenSubscriber
      <3>1. CASE r = s
        BY <1>3, <1>4, <1>5, <2>1, <3>1 DEF ThenSubscriber
      <3>2. CASE r # s
        <4>1. inbox'[r] = inbox[r] /\ job'[Sub(r)] = job[Sub(r)]
          BY <1>5, <3>2, ThreadFacts
        <4> QED BY <2>1, <4>1 DEF ThenSubscriber
      <3> QED BY <3>1, <3>2
    <2>4. ReceivedOnce(m)'
      BY <1>1, <2>1 DEF ReceivedOnce
    <2> QED BY <2>2, <2>3, <2>4
  <1> QED BY <1>6, <1>7, <1>8, <1>9

LEMMA getGroupMembersInv ==
  ASSUME IInv, NEW t \in Threads, getGroupMembers(t) PROVE IInv'
  <1> USE DEF IInv
  <1> DEFINE J == IF Others(t) = {} THEN NoJob
                  ELSE [job[t] EXCEPT !.at = "lookup", !.todo = Others(t)]
             m == job[t].msg
  <1>1. /\ job[t].at = "members"
        /\ job' = [job EXCEPT ![t] = J]
        /\ UNCHANGED <<phase, manager, connected, commands, subs, caller, taken, unpublished,
                       members, sent, inbox, got>>
    BY DEF getGroupMembers, life, feed, ghost
  <1>2. /\ m \in DOMAIN sent /\ sent[m].to = Group
        /\ Others(t) \subseteq sent[m].ever /\ sent[m].from \notin Others(t)
        /\ Others(t) \subseteq Users
    BY <1>1 DEF JobInv, JobOk, Addressed, Others, TypeOK
  <1>3. J \in Job /\ J.msg \in {m, 0}
    <2>1. NoJob \in Job /\ NoJob.msg = 0
      BY Bounds DEF Job, NoJob
    <2>2. job[t] \in Job
      BY Bounds
    <2> QED BY <1>2, <2>1, <2>2 DEF Job
  <1>4. /\ job' \in [Threads -> Job]
        /\ \A o \in Threads : job'[o].msg <= Len(sent)
        /\ job'[t] = J
        /\ \A o \in Threads \ {t} : job'[o] = job[o]
    BY <1>1, <1>3, JobTyped
  <1>5. TypeOK' /\ Routes' /\ Addressed' /\ OnlyAddressees'
    BY <1>1, <1>4 DEF TypeOK, Routes, Addressed, OnlyAddressees
  <1>6. JobInv'
    <2>1. CASE Others(t) = {}
      BY <1>1, <1>4, <2>1, JobStep DEF JobOk, NoJob
    <2>2. CASE Others(t) # {}
      <3>1. J.at = "lookup" /\ J.msg = m /\ J.todo = Others(t)
        BY <2>2, Bounds DEF Job
      <3> QED BY <1>1, <1>2, <1>4, <3>1, JobStep DEF JobOk
    <2> QED BY <2>1, <2>2
  <1>7. PrivateInv'
    BY <1>1, <1>3, <1>4, SameMessage
  <1> QED BY <1>5, <1>6, <1>7

LEMMA getSessionByUidInv ==
  ASSUME IInv, NEW t \in Threads, getSessionByUid(t) PROVE IInv'
  <1> USE DEF IInv
  <1>1. PICK v \in job[t].todo :
          job' = [job EXCEPT ![t] = [@ EXCEPT !.at = "send", !.to = v,
                                              !.hand = manager[ServerOf(t)][v]]]
    BY Zenon DEF getSessionByUid
  <1> DEFINE m == job[t].msg
             y == manager[ServerOf(t)][v]
             J == [job[t] EXCEPT !.at = "send", !.to = v, !.hand = y]
  <1>2. /\ job[t].at = "lookup"
        /\ job' = [job EXCEPT ![t] = J]
        /\ UNCHANGED <<phase, manager, connected, commands, subs, caller, taken, unpublished,
                       members, sent, inbox, got>>
    BY <1>1 DEF getSessionByUid, life, feed, ghost
  <1>3. /\ m \in DOMAIN sent
        /\ job[t].todo \subseteq sent[m].ever
        /\ sent[m].to = Group => sent[m].from \notin job[t].todo
    BY <1>2 DEF JobInv, JobOk
  <1>4. job[t] \in Job /\ v \in Users
    BY Bounds DEF Job
  <1>5. /\ y \in Sessions \cup {None}
        /\ y # None => User[y] = v /\ Home[y] = t[1]
    BY <1>4, ThreadFacts DEF ServerOf, Routes, TypeOK
  <1>6. /\ J \in Job /\ J.msg = m /\ J.at = "send" /\ J.todo = job[t].todo
        /\ J.to = v /\ J.hand = y
    BY <1>4, <1>5 DEF Job
  <1>7. /\ job' \in [Threads -> Job]
        /\ \A o \in Threads : job'[o].msg <= Len(sent)
        /\ job'[t] = J
        /\ \A o \in Threads \ {t} : job'[o] = job[o]
    BY <1>2, <1>6, JobTyped
  <1>8. TypeOK' /\ Routes' /\ Addressed' /\ OnlyAddressees'
    BY <1>2, <1>7 DEF TypeOK, Routes, Addressed, OnlyAddressees
  <1>9. JobInv'
    <2>1. JobOk(t)'
      BY <1>2, <1>3, <1>5, <1>6, <1>7 DEF JobOk
    <2> QED BY <1>2, <1>7, <2>1, JobStep
  <1>10. PrivateInv'
    BY <1>2, <1>6, <1>7, SameMessage
  <1> QED BY <1>8, <1>9, <1>10

LEMMA NobodyHereInv ==
  ASSUME IInv, NEW t \in Threads, NobodyHere(t) PROVE IInv'
  <1> USE DEF IInv
  <1>1. /\ job[t].at = "send" /\ Advance(t)
        /\ UNCHANGED <<phase, manager, connected, commands, subs, caller, taken, unpublished,
                       members, sent, inbox, got>>
    BY DEF NobodyHere, life, feed, ghost
  <1>2. TypeOK' /\ Routes' /\ Addressed' /\ OnlyAddressees' /\ JobInv'
    BY <1>1, AdvanceFacts DEF TypeOK, Routes, Addressed, OnlyAddressees
  <1>3. PrivateInv'
    BY <1>1, AdvanceFacts, SameMessage
  <1> QED BY <1>2, <1>3

LEMMA PublishFailsInv ==
  ASSUME IInv, NEW t \in Threads, PublishFails(t) PROVE IInv'
  <1> USE DEF IInv
  <1>1. /\ job[t].at = "send" /\ Advance(t)
        /\ unpublished' = [unpublished EXCEPT ![job[t].to] = @ \cup {job[t].msg}]
        /\ UNCHANGED <<phase, manager, connected, commands, subs, caller, taken,
                       members, sent, inbox, got>>
    BY DEF PublishFails, life, feed
  <1>2. job[t].msg \in 1 .. MaxMsgs /\ job[t].to \in Users
    BY <1>1, Bounds DEF JobInv, JobOk, Job
  <1>3. unpublished' \in [Users -> SUBSET (1 .. MaxMsgs)]
    BY <1>1, <1>2 DEF TypeOK
  <1>4. TypeOK' /\ Routes' /\ Addressed' /\ OnlyAddressees' /\ JobInv'
    BY <1>1, <1>3, AdvanceFacts DEF TypeOK, Routes, Addressed, OnlyAddressees
  <1>5. PrivateInv'
    BY <1>1, AdvanceFacts, SameMessage
  <1> QED BY <1>4, <1>5

LEMMA SendToSessionInv ==
  ASSUME IInv, NEW t \in Threads, SendToSession(t) PROVE IInv'
  <1> USE DEF IInv
  <1> DEFINE x == job[t].hand
             k == job[t].msg
  <1>1. /\ job[t].at = "send" /\ x # None /\ Advance(t)
        /\ got' = IF Reads(x) THEN [got EXCEPT ![x] = Append(@, k)] ELSE got
        /\ UNCHANGED <<phase, manager, connected, commands, subs, caller, taken, unpublished,
                       members, sent, inbox>>
    BY DEF SendToSession, life, feed, ghost
  <1>2. /\ job' \in [Threads -> Job]
        /\ \A o \in Threads : job'[o].msg <= Len(sent)
        /\ \A o \in Threads \ {t} : job'[o] = job[o]
        /\ JobInv'
        /\ k \in DOMAIN sent
        /\ job'[t].msg \in {k, 0}
        /\ sent[k].to # Group => job'[t].msg = 0
    BY <1>1, AdvanceFacts
  <1>3. /\ x \in Sessions /\ Home[x] = t[1]
        /\ User[x] \in sent[k].ever
        /\ sent[k].to = Group => User[x] # sent[k].from
    BY <1>1, Bounds DEF Job, JobInv, JobOk
  <1>4. /\ Append(got[x], k) \in Seq(1 .. Len(sent))
        /\ Range(Append(got[x], k)) = Range(got[x]) \cup {k}
        /\ \A m : Once(got[x], m) /\ (k # m \/ m \notin Range(got[x]))
                  => Once(Append(got[x], k), m)
    BY <1>2, <1>3, Bounds, AppendFacts
  <1>5. /\ got' \in [Sessions -> Seq(1 .. Len(sent))]
        /\ got'[x] = got[x] \/ got'[x] = Append(got[x], k)
        /\ \A y \in Sessions \ {x} : got'[y] = got[y]
    BY <1>1, <1>3, <1>4 DEF TypeOK
  <1>6. TypeOK' /\ Routes' /\ Addressed'
    BY <1>1, <1>2, <1>5 DEF TypeOK, Routes, Addressed
  <1>7. OnlyAddressees'
    <2> SUFFICES ASSUME NEW y \in Sessions, NEW m \in Range(got'[y])
                 PROVE  /\ User[y] \in sent[m].ever
                        /\ sent[m].to = Group => User[y] # sent[m].from
      BY <1>1 DEF OnlyAddressees
    <2>1. m \in Range(got[y]) \/ (y = x /\ m = k)
      BY <1>4, <1>5
    <2> QED BY <1>3, <2>1 DEF OnlyAddressees
  <1>8. PrivateInv'
    <2> SUFFICES ASSUME NEW m \in DOMAIN sent, sent[m].to # Group
                 PROVE  HandlerFirst(m)' /\ ThenSubscriber(m)' /\ ReceivedOnce(m)'
      BY <1>1 DEF PrivateInv
    <2>1. HandlerFirst(m) /\ ThenSubscriber(m) /\ ReceivedOnce(m)
      BY DEF PrivateInv
    <2>2. m \in Nat \ {0}
      BY Bounds
    <2>3. \A o \in Threads : job'[o].msg = m => job[o].msg = m
      BY <1>2, <2>2
    <2>4. CASE m # k
      <3>1. \A y \in Sessions :
              /\ m \in Range(got'[y]) => m \in Range(got[y])
              /\ Once(got[y], m) => Once(got'[y], m)
        BY <1>4, <1>5, <2>4
      <3> QED BY <1>1, <2>1, <2>3, <3>1, ThreadFacts
          DEF HandlerFirst, ThenSubscriber, ReceivedOnce
    <2>5. CASE m = k
      <3>1. job'[t].msg # m
        BY <1>2, <2>2, <2>5
      <3>2. \A y \in Sessions \ {x} : got'[y] = got[y]
        BY <1>5
      <3>3. CASE t[2] # Subscriber
        <4>1. /\ \A o \in Threads : job[o].msg = m => o = t
              /\ \A r \in Servers : m \notin Range(inbox[r])
              /\ \A y \in Sessions : m \notin Range(got[y])
          BY <2>1, <2>5, <3>3 DEF HandlerFirst
        <4>2. \A o \in Threads : job'[o].msg # m
          BY <2>3, <3>1, <4>1
        <4>3. ReceivedOnce(m)'
          BY <1>4, <1>5, <2>1, <4>1 DEF ReceivedOnce
        <4> QED BY <1>1, <2>1, <4>1, <4>2, <4>3, ThreadFacts
            DEF HandlerFirst, ThenSubscriber
      <3>4. CASE t[2] = Subscriber
        <4>1. t = Sub(Home[x]) /\ Home[x] \in Servers
          BY <1>3, <3>4, ThreadFacts
        <4>2. \A o \in Threads : o[2] # Subscriber => job[o].msg # m
          BY <2>1, <2>5, <3>4 DEF HandlerFirst
        <4>3. m \notin Range(inbox[Home[x]]) /\ m \notin Range(got[x])
          BY <2>1, <2>5, <4>1, <1>3 DEF ThenSubscriber
        <4>4. HandlerFirst(m)'
          BY <2>3, <4>2 DEF HandlerFirst
        <4>5. ReceivedOnce(m)'
          BY <1>4, <1>5, <2>1, <4>3 DEF ReceivedOnce
        <4>6. ThenSubscriber(m)'
          <5> SUFFICES ASSUME NEW r \in Servers
                       PROVE  /\ Once(inbox[r], m)
                              /\ m \in Range(inbox[r]) => job'[Sub(r)].msg # m
                              /\ \A y \in Sessions : m \in Range(got'[y]) /\ Home[y] = r =>
                                   m \notin Range(inbox[r]) /\ job'[Sub(r)].msg # m
            BY <1>1 DEF ThenSubscriber
          <5>1. CASE r = Home[x]
            BY <2>1, <3>1, <4>1, <4>3, <5>1 DEF ThenSubscriber
          <5>2. CASE r # Home[x]
            BY <2>1, <2>3, <3>2, <5>2, ThreadFacts DEF ThenSubscriber
          <5> QED BY <5>1, <5>2
        <4> QED BY <4>4, <4>5, <4>6
      <3> QED BY <3>3, <3>4
    <2> QED BY <2>4, <2>5
  <1> QED BY <1>2, <1>6, <1>7, <1>8

LEMMA PublishInv ==
  ASSUME IInv, NEW t \in Threads, Publish(t) PROVE IInv'
  <1> USE DEF IInv
  <1> DEFINE k == job[t].msg
  <1>1. /\ job[t].at = "send" /\ Advance(t) /\ t[2] # Subscriber
        /\ inbox' = [s \in Servers |-> IF job[t].to \in subs[s]
                                          THEN Append(inbox[s], k) ELSE inbox[s]]
        /\ UNCHANGED <<phase, manager, connected, commands, subs, caller, taken, unpublished,
                       members, sent, got>>
    BY DEF Publish, life, feed, ghost
  <1>2. /\ job' \in [Threads -> Job]
        /\ \A o \in Threads : job'[o].msg <= Len(sent)
        /\ \A o \in Threads \ {t} : job'[o] = job[o]
        /\ JobInv'
        /\ k \in DOMAIN sent
        /\ job'[t].msg \in {k, 0}
        /\ sent[k].to # Group => job'[t].msg = 0
    BY <1>1, AdvanceFacts
  <1>3. \A s \in Servers :
          /\ Append(inbox[s], k) \in Seq(1 .. Len(sent))
          /\ Range(Append(inbox[s], k)) = Range(inbox[s]) \cup {k}
          /\ \A m : Once(inbox[s], m) /\ (k # m \/ m \notin Range(inbox[s]))
                    => Once(Append(inbox[s], k), m)
    <2> SUFFICES ASSUME NEW s \in Servers
                 PROVE  /\ Append(inbox[s], k) \in Seq(1 .. Len(sent))
                        /\ Range(Append(inbox[s], k)) = Range(inbox[s]) \cup {k}
                        /\ \A m : Once(inbox[s], m) /\ (k # m \/ m \notin Range(inbox[s]))
                                  => Once(Append(inbox[s], k), m)
      OBVIOUS
    <2>1. inbox[s] \in Seq(1 .. Len(sent)) /\ k \in 1 .. Len(sent)
      BY <1>2, Bounds
    <2> QED BY <2>1, AppendFacts
  <1>4. /\ inbox' \in [Servers -> Seq(1 .. Len(sent))]
        /\ \A s \in Servers : inbox'[s] \in {inbox[s], Append(inbox[s], k)}
    BY <1>1, <1>3, Bounds
  <1>5. TypeOK' /\ Routes' /\ Addressed' /\ OnlyAddressees'
    BY <1>1, <1>2, <1>4 DEF TypeOK, Routes, Addressed, OnlyAddressees
  <1>6. PrivateInv'
    <2> SUFFICES ASSUME NEW m \in DOMAIN sent, sent[m].to # Group
                 PROVE  HandlerFirst(m)' /\ ThenSubscriber(m)' /\ ReceivedOnce(m)'
      BY <1>1 DEF PrivateInv
    <2>1. HandlerFirst(m) /\ ThenSubscriber(m) /\ ReceivedOnce(m)
      BY DEF PrivateInv
    <2>2. m \in Nat \ {0}
      BY Bounds
    <2>3. \A o \in Threads : job'[o].msg = m => job[o].msg = m
      BY <1>2, <2>2
    <2>4. ReceivedOnce(m)'
      BY <1>1, <2>1 DEF ReceivedOnce
    <2>5. CASE m # k
      <3>1. \A s \in Servers :
              /\ m \in Range(inbox'[s]) => m \in Range(inbox[s])
              /\ Once(inbox[s], m) => Once(inbox'[s], m)
        BY <1>3, <1>4, <2>5
      <3> QED BY <1>1, <2>1, <2>3, <2>4, <3>1, ThreadFacts
          DEF HandlerFirst, ThenSubscriber
    <2>6. CASE m = k
      <3>1. /\ \A o \in Threads : job[o].msg = m => o = t
            /\ \A s \in Servers : m \notin Range(inbox[s])
            /\ \A y \in Sessions : m \notin Range(got[y])
        BY <1>1, <2>1, <2>6 DEF HandlerFirst
      <3>2. \A o \in Threads : job'[o].msg # m
        BY <1>2, <2>2, <2>3, <2>6, <3>1
      <3>3. \A s \in Servers : Once(inbox'[s], m)
        BY <1>3, <1>4, <2>1, <3>1 DEF ThenSubscriber
      <3> QED BY <1>1, <2>4, <3>1, <3>2, <3>3, ThreadFacts
          DEF HandlerFirst, ThenSubscriber
    <2> QED BY <2>5, <2>6
  <1> QED BY <1>2, <1>5, <1>6
-----------------------------------------------------------------------------
LEMMA NextInv == IInv /\ [Next]_vars => IInv'
  <1> SUFFICES ASSUME IInv, [Next]_vars PROVE IInv'
    OBVIOUS
  <1>1. ASSUME NEW x \in Sessions, \/ AddSession(x) \/ Subscribe(x) \/ HangUp(x)
                                   \/ RemoveSession(x) \/ Unsubscribe(x)
        PROVE  IInv'
    BY <1>1, Life
  <1>2. ASSUME NEW u \in Movers, addGroupMember(u) \/ removeGroupMember(u) PROVE IInv'
    BY <1>2, GroupChanges, DeliveryAssumption
  <1>3. ASSUME NEW r \in Traffic, Request(r[1], r[2]) PROVE IInv'
    <2>1. r[1] \in Sessions /\ r[2] \in Users \cup {Group}
      BY DeliveryAssumption
    <2> QED BY <1>3, <2>1, RequestInv
  <1>4. ASSUME NEW s \in Servers, \/ Execute(s) \/ Break(s) \/ CallReturns(s)
                                  \/ CallTakes(s) \/ Receive(s)
        PROVE  IInv'
    BY <1>4, FeedInv, ReceiveInv
  <1>5. ASSUME NEW t \in Threads, Route(t) PROVE IInv'
    BY <1>5, getGroupMembersInv, getSessionByUidInv, SendToSessionInv, PublishInv,
       PublishFailsInv, NobodyHereInv DEF Route
  <1>6. CASE UNCHANGED vars
    <2>1. UNCHANGED <<phase, manager, connected, commands, subs, caller, taken, unpublished,
                       members, sent, inbox, job, got>>
      BY <1>6 DEF vars, life, feed, ghost
    <2>2. (TypeOK /\ Routes /\ Addressed /\ OnlyAddressees)'
      BY <2>1 DEF IInv, TypeOK, Routes, Addressed, OnlyAddressees
    <2>3. JobInv'
      BY <2>1 DEF IInv, JobInv, JobOk
    <2>4. PrivateInv'
      BY <2>1 DEF IInv, PrivateInv, HandlerFirst, ThenSubscriber, ReceivedOnce
    <2> QED BY <2>2, <2>3, <2>4 DEF IInv
  <1> QED BY <1>1, <1>2, <1>3, <1>4, <1>5, <1>6 DEF Next

LEMMA Invariance == Spec => []IInv
  <1> QED BY InitInv, NextInv, PTL DEF Spec

\* Every variable keeps its type.
THEOREM TypeCorrect == Spec => []TypeOK
  <1>1. IInv => TypeOK
    BY DEF IInv
  <1> QED BY <1>1, Invariance, PTL

\* A message only reaches those it was addressed to and never its sender in a
\* group, on however many servers it is fanned out (the handlers of chat messages,
\* the subscriber callback).
THEOREM ReachesAddresseesOnly == Spec => []OnlyAddressees
  <1>1. IInv => OnlyAddressees
    BY DEF IInv
  <1> QED BY <1>1, Invariance, PTL

\* A session receives a private message once at most, whatever routes and
\* subscriptions ended sessions left behind (getSessionByUid, publish, the callback).
THEOREM ReceivedAtMostOnce == Spec => []PrivateAtMostOnce
  <1>1. IInv => PrivateAtMostOnce
    <2> SUFFICES ASSUME IInv, NEW x \in Sessions, NEW i \in DOMAIN got[x],
                        NEW j \in DOMAIN got[x], got[x][i] = got[x][j],
                        sent[got[x][i]].to # Group
                 PROVE  i = j
      BY DEF PrivateAtMostOnce
    <2>1. got[x][i] \in DOMAIN sent
      BY Bounds DEF Range
    <2>2. Once(got[x], got[x][i])
      BY <2>1 DEF IInv, PrivateInv, ReceivedOnce
    <2> QED BY <2>2 DEF Once
  <1> QED BY <1>1, Invariance, PTL
-----------------------------------------------------------------------------
(* Order *)

\* What a handler has in hand its user sent, last of all from this server.
SenderInv ==
  \A t \in Threads : t[2] # Subscriber /\ job[t].msg # 0 =>
    /\ sent[job[t].msg].from = t[2]
    /\ \E y \in Sessions : Home[y] = t[1] /\ User[y] = t[2]
    /\ \A m \in DOMAIN sent :
         sent[m].from = t[2] /\ AllOn(t[2], t[1]) => m <= job[t].msg

\* Private message k was sent before m, both from the same other server.
Pair(s, k, m) ==
  /\ k < m
  /\ sent[k].to = sent[m].to /\ sent[k].to # Group
  /\ sent[k].from = sent[m].from
  /\ \E r \in Servers \ {s} : AllOn(sent[k].from, r)

\* On server s message k is ahead of m at every place, and at no earlier one.
Ordered(s, k, m) ==
  /\ Before(inbox[s], k, m)
  /\ job[Sub(s)].msg = m => k \notin Range(inbox[s])
  /\ \A x \in Sessions : Home[x] = s =>
       /\ Before(got[x], k, m)
       /\ m \in Range(got[x]) => k \notin Range(inbox[s]) /\ job[Sub(s)].msg # k

OrderInv ==
  \A s \in Servers : \A k, m \in DOMAIN sent : Pair(s, k, m) => Ordered(s, k, m)

LEMMA PairFacts ==
  ASSUME IInv, OrderInv, NEW s \in Servers, NEW k \in DOMAIN sent, NEW m \in DOMAIN sent,
         Pair(s, k, m)
  PROVE  Ordered(s, k, m) /\ k # m /\ k # 0 /\ m # 0
  <1>1. k \in Nat \ {0} /\ m \in Nat \ {0}
    BY Bounds
  <1>2. k < m
    BY DEF Pair
  <1>3. Ordered(s, k, m)
    BY DEF OrderInv
  <1> QED BY <1>1, <1>2, <1>3

\* A handler that has a message of a pair in hand is on the sender's server, and
\* has the later one.
LEMMA HandlerElsewhere ==
  ASSUME IInv, SenderInv, NEW s \in Servers, NEW k \in DOMAIN sent, NEW m \in DOMAIN sent,
         Pair(s, k, m), NEW t \in Threads, t[2] # Subscriber, job[t].msg \in {k, m}
  PROVE  t[1] # s /\ job[t].msg = m
  <1>1. k \in Nat \ {0} /\ m \in Nat \ {0} /\ k < m /\ sent[k].from = sent[m].from
    BY Bounds DEF Pair
  <1>2. /\ sent[k].from = t[2]
        /\ \E y \in Sessions : Home[y] = t[1] /\ User[y] = t[2]
        /\ AllOn(t[2], t[1]) => m <= job[t].msg
    BY <1>1 DEF SenderInv
  <1>3. PICK r \in Servers \ {s} : AllOn(t[2], r)
    BY <1>2 DEF Pair
  <1>4. t[1] = r
    BY <1>2, <1>3 DEF AllOn
  <1> QED BY <1>1, <1>2, <1>3, <1>4

\* A step that sends nothing new and starts no handler.
LEMMA SameSender ==
  ASSUME IInv, SenderInv, DOMAIN sent' = DOMAIN sent,
         \A m \in DOMAIN sent : sent'[m].from = sent[m].from,
         \A t \in Threads : t[2] # Subscriber => job'[t].msg \in {job[t].msg, 0}
  PROVE  SenderInv'
  <1> SUFFICES ASSUME NEW t \in Threads, t[2] # Subscriber, job'[t].msg # 0
               PROVE  SenderInv!(t)'
    BY DEF SenderInv
  <1>1. job'[t].msg = job[t].msg /\ job[t].msg \in DOMAIN sent
    BY Bounds
  <1>2. SenderInv!(t)
    BY DEF SenderInv
  <1> QED BY <1>1, <1>2 DEF AllOn

\* A step that moves no message.
LEMMA SamePlaces ==
  ASSUME IInv, OrderInv, UNCHANGED <<inbox, got>>, DOMAIN sent' = DOMAIN sent,
         \A m \in DOMAIN sent : sent'[m].from = sent[m].from /\ sent'[m].to = sent[m].to,
         \A t \in Threads : t[2] = Subscriber => job'[t].msg \in {job[t].msg, 0}
  PROVE  OrderInv'
  <1> SUFFICES ASSUME NEW s \in Servers, NEW k \in DOMAIN sent, NEW m \in DOMAIN sent,
                      Pair(s, k, m)'
               PROVE  Ordered(s, k, m)'
    BY DEF OrderInv
  <1>1. Pair(s, k, m)
    BY DEF Pair, AllOn
  <1>2. Ordered(s, k, m) /\ k # 0 /\ m # 0
    BY <1>1, Bounds DEF OrderInv
  <1>3. job'[Sub(s)].msg \in {job[Sub(s)].msg, 0}
    BY ThreadFacts
  <1> QED BY <1>2, <1>3 DEF Ordered

\* A step of a subscriber connection.
LEMMA FeedOrder ==
  ASSUME IInv, SenderInv, OrderInv, NEW s \in Servers,
         CallReturns(s) \/ CallTakes(s) \/ Execute(s) \/ Break(s)
  PROVE  SenderInv' /\ OrderInv'
  <1>1. /\ UNCHANGED <<sent, job, got>>
        /\ \A c \in Servers : Range(inbox'[c]) \subseteq Range(inbox[c])
        /\ \A c \in Servers : \A k, m : Before(inbox[c], k, m) => Before(inbox'[c], k, m)
    BY Shorter
  <1>2. SenderInv'
    BY <1>1, SameSender
  <1>3. OrderInv'
    <2> SUFFICES ASSUME NEW c \in Servers, NEW k \in DOMAIN sent, NEW m \in DOMAIN sent,
                        Pair(c, k, m)
                 PROVE  Ordered(c, k, m)'
      BY <1>1 DEF OrderInv, Pair, AllOn
    <2>1. Ordered(c, k, m)
      BY DEF OrderInv
    <2> QED BY <1>1, <2>1 DEF Ordered
  <1> QED BY <1>2, <1>3

LEMMA RequestOrder ==
  ASSUME IInv, SenderInv, OrderInv, NEW x \in Sessions, NEW v \in Users \cup {Group},
         Request(x, v)
  PROVE  SenderInv' /\ OrderInv'
  <1> DEFINE t == <<Home[x], User[x]>>
             n == Len(sent) + 1
             to == IF v = Group THEN members \ {User[x]} ELSE {v}
             new == [from |-> User[x], to |-> v, at |-> Home[x],
                     ever |-> to, always |-> to, up |-> UpAt(Home[x], to)]
  <1>1. /\ job[t] = NoJob
        /\ sent' = Append(sent, new)
        /\ job' = [job EXCEPT ![t] = Start(n, v)]
        /\ UNCHANGED <<inbox, got>>
    BY DEF Request, life, feed, ghost
  <1>2. /\ t \in Threads /\ t[2] = User[x] /\ t[1] = Home[x] /\ t[2] # Subscriber
    BY DeliveryAssumption, ThreadFacts
  <1>3. Start(n, v).msg = n
    BY DEF Start, NoJob
  <1>4. new \in Message
    <2>1. Home[x] \in Servers /\ UpAt(Home[x], to) \subseteq Sessions
      BY DeliveryAssumption DEF UpAt
    <2> QED BY <2>1, DeliveryAssumption DEF Message, IInv, TypeOK
  <1>5. /\ Len(sent) \in Nat /\ DOMAIN sent = 1 .. Len(sent) /\ DOMAIN sent' = 1 .. n
        /\ \A m \in DOMAIN sent : sent'[m] = sent[m]
        /\ sent'[n] = new /\ new.from = User[x]
    BY <1>1, <1>4, Bounds, AppendProperties, LenProperties DEF IInv, TypeOK
  <1>6. /\ job'[t].msg = n
        /\ \A o \in Threads \ {t} : job'[o] = job[o]
    BY <1>1, <1>2, <1>3 DEF IInv, TypeOK
  <1> HIDE DEF new, t, n
  <1>7. SenderInv'
    <2> SUFFICES ASSUME NEW o \in Threads, o[2] # Subscriber, job'[o].msg # 0
                 PROVE  /\ sent'[job'[o].msg].from = o[2]
                        /\ \E y \in Sessions : Home[y] = o[1] /\ User[y] = o[2]
                        /\ \A m \in DOMAIN sent' :
                             sent'[m].from = o[2] /\ AllOn(o[2], o[1]) => m <= job'[o].msg
      BY DEF SenderInv, AllOn
    <2>1. CASE o = t
      <3>1. \A m \in DOMAIN sent' : m <= n
        BY <1>5 DEF n
      <3> QED BY <1>2, <1>5, <1>6, <2>1, <3>1
    <2>2. CASE o # t
      <3>1. job'[o] = job[o] /\ job[o].msg \in DOMAIN sent
        BY <1>6, <2>2, Bounds
      <3>2. /\ sent[job[o].msg].from = o[2]
            /\ \E y \in Sessions : Home[y] = o[1] /\ User[y] = o[2]
            /\ \A m \in DOMAIN sent :
                 sent[m].from = o[2] /\ AllOn(o[2], o[1]) => m <= job[o].msg
        BY <3>1 DEF SenderInv
      <3>3. ASSUME sent'[n].from = o[2], AllOn(o[2], o[1]) PROVE FALSE
        <4>1. User[x] = o[2] /\ Home[x] = o[1]
          BY <1>5, <3>3 DEF AllOn
        <4> QED BY <2>2, <4>1 DEF t, Threads
      <3>4. \A m \in DOMAIN sent' : m = n \/ m \in DOMAIN sent
        BY <1>5 DEF n
      <3> QED BY <1>5, <3>1, <3>2, <3>3, <3>4
    <2> QED BY <2>1, <2>2
  <1>8. OrderInv'
    <2> SUFFICES ASSUME NEW s \in Servers, NEW k \in DOMAIN sent', NEW m \in DOMAIN sent',
                        Pair(s, k, m)'
                 PROVE  Ordered(s, k, m)'
      BY DEF OrderInv
    <2>1. k \in DOMAIN sent /\ k < m
      BY <1>5 DEF Pair, n
    <2>2. job'[Sub(s)] = job[Sub(s)]
      BY <1>2, <1>6, ThreadFacts
    <2>3. CASE m \in DOMAIN sent
      <3>1. Pair(s, k, m)
        BY <1>5, <2>1, <2>3 DEF Pair, AllOn
      <3> QED BY <1>1, <2>1, <2>2, <2>3, <3>1 DEF OrderInv, Ordered
    <2>4. CASE m \notin DOMAIN sent
      <3>1. /\ m \notin 0 .. Len(sent)
            /\ m \notin Range(inbox[s]) /\ job[Sub(s)].msg # m
            /\ \A y \in Sessions : m \notin Range(got[y])
        BY <1>5, <2>1, <2>4, Bounds, ThreadFacts DEF n
      <3>2. \A q : m \notin Range(q) => Before(q, k, m)
        BY DEF Before, Range
      <3> QED BY <1>1, <2>2, <3>1, <3>2 DEF Ordered
    <2> QED BY <2>3, <2>4
  <1> QED BY <1>7, <1>8

LEMMA ReceiveOrder ==
  ASSUME IInv, OrderInv, NEW s \in Servers, Receive(s)
  PROVE  OrderInv'
  <1> DEFINE t == Sub(s)
             q == inbox[s]
             h == Head(q)
  <1>1. /\ q # <<>> /\ q \in Seq(1 .. Len(sent))
        /\ job' = [job EXCEPT ![t] = Start(h, sent[h].to)]
        /\ inbox' = [inbox EXCEPT ![s] = Tail(q)]
        /\ UNCHANGED <<sent, got>>
    BY Bounds DEF Receive, Sub
  <1>2. /\ job'[t].msg = h
        /\ \A o \in Threads \ {t} : job'[o] = job[o]
        /\ inbox'[s] = Tail(q)
        /\ \A r \in Servers \ {s} : inbox'[r] = inbox[r]
    <2>1. Start(h, sent[h].to).msg = h
      BY DEF Start, NoJob
    <2> QED BY <1>1, <2>1, ThreadFacts DEF IInv, TypeOK
  <1>3. h \in Range(q) /\ Range(Tail(q)) \subseteq Range(q)
    BY <1>1, TailFacts
  <1> HIDE DEF h, q
  <1> SUFFICES ASSUME NEW r \in Servers, NEW k \in DOMAIN sent, NEW m \in DOMAIN sent,
                      Pair(r, k, m)
               PROVE  Ordered(r, k, m)'
    BY <1>1 DEF OrderInv, Pair, AllOn
  <1>4. Ordered(r, k, m) /\ k # m
    BY PairFacts
  <1>5. CASE r # s
    <2>1. inbox'[r] = inbox[r] /\ job'[Sub(r)] = job[Sub(r)]
      BY <1>2, <1>5, ThreadFacts
    <2> QED BY <1>1, <1>4, <2>1 DEF Ordered
  <1>6. CASE r = s
    <2>1. Before(Tail(q), k, m) /\ (h = m => k \notin Range(Tail(q)))
      <3>1. Before(q, k, m)
        BY <1>4, <1>6 DEF Ordered, q
      <3> QED BY <1>1, <3>1, BeforeTail DEF h
    <2>2. ASSUME NEW y \in Sessions, Home[y] = s
          PROVE  /\ Before(got'[y], k, m)
                 /\ m \in Range(got'[y]) => k \notin Range(inbox'[s]) /\ job'[Sub(s)].msg # k
      BY <1>1, <1>2, <1>3, <1>4, <1>6, <2>2 DEF Ordered, q
    <2> QED BY <1>2, <1>6, <2>1, <2>2 DEF Ordered
  <1> QED BY <1>5, <1>6

LEMMA SendToSessionOrder ==
  ASSUME IInv, SenderInv, OrderInv, NEW t \in Threads, SendToSession(t)
  PROVE  OrderInv'
  <1> DEFINE x == job[t].hand
             e == job[t].msg
  <1>1. /\ job[t].at = "send" /\ x # None /\ Advance(t)
        /\ got' = IF Reads(x) THEN [got EXCEPT ![x] = Append(@, e)] ELSE got
        /\ UNCHANGED <<sent, inbox>>
    BY DEF SendToSession
  <1>2. /\ \A o \in Threads \ {t} : job'[o] = job[o]
        /\ e \in DOMAIN sent /\ job'[t].msg \in {e, 0}
    BY <1>1, AdvanceFacts
  <1>3. x \in Sessions /\ Home[x] = t[1] /\ Home[x] \in Servers
    BY <1>1, Bounds, DeliveryAssumption DEF Job, IInv, JobInv, JobOk
  <1>4. /\ e \in 1 .. Len(sent) /\ got[x] \in Seq(1 .. Len(sent))
        /\ Range(Append(got[x], e)) = Range(got[x]) \cup {e}
    <2>1. e \in 1 .. Len(sent) /\ got[x] \in Seq(1 .. Len(sent))
      BY <1>2, <1>3, Bounds
    <2> HIDE DEF x, e
    <2> QED BY <2>1, AppendFacts
  <1>5. /\ got'[x] = got[x] \/ got'[x] = Append(got[x], e)
        /\ \A y \in Sessions \ {x} : got'[y] = got[y]
    BY <1>1, <1>3 DEF IInv, TypeOK
  <1> HIDE DEF x, e
  <1> SUFFICES ASSUME NEW s \in Servers, NEW k \in DOMAIN sent, NEW m \in DOMAIN sent,
                      Pair(s, k, m)
               PROVE  Ordered(s, k, m)'
    BY <1>1 DEF OrderInv, Pair, AllOn
  <1>6. Ordered(s, k, m) /\ k # m /\ k # 0 /\ m # 0
    BY PairFacts
  <1>7. job'[Sub(s)].msg \in {job[Sub(s)].msg, 0}
    <2>1. CASE Sub(s) = t
      BY <1>2, <2>1 DEF e
    <2>2. CASE Sub(s) # t
      BY <1>2, <2>2, ThreadFacts
    <2> QED BY <2>1, <2>2
  <1>8. ASSUME NEW y \in Sessions, Home[y] = s
        PROVE  /\ Before(got'[y], k, m)
               /\ m \in Range(got'[y]) => k \notin Range(inbox[s]) /\ job'[Sub(s)].msg # k
    <2>1. /\ Before(got[y], k, m)
          /\ m \in Range(got[y]) => k \notin Range(inbox[s]) /\ job[Sub(s)].msg # k
      BY <1>6, <1>8 DEF Ordered
    <2>2. CASE got'[y] = got[y]
      BY <1>6, <1>7, <2>1, <2>2
    <2>3. CASE got'[y] # got[y]
      <3>1. y = x /\ got'[y] = Append(got[x], e) /\ t[1] = s
        BY <1>3, <1>5, <1>8, <2>3
      <3>2. e \in {k, m} => t = Sub(s)
        <4>1. ASSUME e \in {k, m}, t[2] # Subscriber PROVE FALSE
          BY <3>1, <4>1, HandlerElsewhere DEF e
        <4> QED BY <3>1, <4>1, ThreadFacts
      <3>3. e = k => m \notin Range(got[x])
        BY <2>1, <3>1, <3>2 DEF e
      <3>4. Before(got'[y], k, m)
        BY <1>4, <1>6, <2>1, <3>1, <3>3, BeforeAppend
      <3>5. ASSUME m \in Range(got'[y])
            PROVE  k \notin Range(inbox[s]) /\ job'[Sub(s)].msg # k
        <4>1. CASE m \in Range(got[y])
          BY <1>6, <1>7, <2>1, <4>1
        <4>2. CASE e = m
          BY <1>6, <1>7, <3>2, <4>2 DEF Ordered, e
        <4> QED BY <1>4, <3>1, <3>5, <4>1, <4>2
      <3> QED BY <3>4, <3>5
    <2> QED BY <2>2, <2>3
  <1> QED BY <1>1, <1>6, <1>7, <1>8 DEF Ordered

LEMMA PublishOrder ==
  ASSUME IInv, SenderInv, OrderInv, NEW t \in Threads, Publish(t)
  PROVE  OrderInv'
  <1> DEFINE e == job[t].msg
  <1>1. /\ job[t].at = "send" /\ Advance(t) /\ t[2] # Subscriber
        /\ inbox' = [s \in Servers |-> IF job[t].to \in subs[s]
                                          THEN Append(inbox[s], e) ELSE inbox[s]]
        /\ UNCHANGED <<sent, got>>
    BY DEF Publish
  <1>2. /\ \A o \in Threads \ {t} : job'[o] = job[o]
        /\ e \in DOMAIN sent
    BY <1>1, AdvanceFacts
  <1> HIDE DEF e
  <1> SUFFICES ASSUME NEW s \in Servers, NEW k \in DOMAIN sent, NEW m \in DOMAIN sent,
                      Pair(s, k, m)
               PROVE  Ordered(s, k, m)'
    BY <1>1 DEF OrderInv, Pair, AllOn
  <1>3. Ordered(s, k, m) /\ k # m
    BY PairFacts
  <1>4. e # k
    BY <1>1, <1>3, HandlerElsewhere DEF e
  <1>5. job'[Sub(s)] = job[Sub(s)]
    BY <1>1, <1>2, ThreadFacts
  <1>6. Before(inbox'[s], k, m) /\ (k \in Range(inbox'[s]) => k \in Range(inbox[s]))
    <2>1. inbox[s] \in Seq(1 .. Len(sent)) /\ e \in 1 .. Len(sent) /\ Before(inbox[s], k, m)
      BY <1>2, <1>3, Bounds DEF Ordered
    <2>2. /\ Before(Append(inbox[s], e), k, m)
          /\ Range(Append(inbox[s], e)) = Range(inbox[s]) \cup {e}
      BY <1>3, <1>4, <2>1, BeforeAppend, AppendFacts
    <2> QED BY <1>1, <1>4, <2>1, <2>2
  <1> QED BY <1>1, <1>3, <1>5, <1>6 DEF Ordered

LEMMA OrderNext == ASSUME IInv, SenderInv, OrderInv, [Next]_vars PROVE SenderInv' /\ OrderInv'
  <1>1. ASSUME NEW x \in Sessions, \/ AddSession(x) \/ Subscribe(x) \/ HangUp(x)
                                   \/ RemoveSession(x) \/ Unsubscribe(x)
        PROVE  SenderInv' /\ OrderInv'
    <2>1. UNCHANGED <<sent, inbox, job, got>>
      BY <1>1 DEF AddSession, Subscribe, HangUp, RemoveSession, Unsubscribe
    <2> QED BY <2>1, SameSender, SamePlaces
  <1>2. ASSUME NEW u \in Movers, addGroupMember(u) \/ removeGroupMember(u)
        PROVE  SenderInv' /\ OrderInv'
    <2>1. UNCHANGED <<inbox, job, got>>
      BY <1>2 DEF addGroupMember, removeGroupMember
    <2>2. /\ DOMAIN sent' = DOMAIN sent
          /\ \A m \in DOMAIN sent : sent'[m].from = sent[m].from /\ sent'[m].to = sent[m].to
      <3>1. \A m \in DOMAIN sent : sent[m] \in Message
        BY Bounds
      <3>2. CASE addGroupMember(u)
        BY <3>1, <3>2 DEF addGroupMember, Message
      <3>3. CASE removeGroupMember(u)
        BY <3>1, <3>3 DEF removeGroupMember, Message
      <3> QED BY <1>2, <3>2, <3>3
    <2> QED BY <2>1, <2>2, SameSender, SamePlaces
  <1>3. ASSUME NEW r \in Traffic, Request(r[1], r[2]) PROVE SenderInv' /\ OrderInv'
    <2>1. r[1] \in Sessions /\ r[2] \in Users \cup {Group}
      BY DeliveryAssumption
    <2> QED BY <1>3, <2>1, RequestOrder
  <1>4. ASSUME NEW s \in Servers, Receive(s) PROVE SenderInv' /\ OrderInv'
    <2>1. \A o \in Threads : o[2] # Subscriber => job'[o] = job[o]
      BY <1>4, ThreadFacts DEF Receive, Sub, IInv, TypeOK
    <2>2. sent' = sent
      BY <1>4 DEF Receive
    <2> QED BY <1>4, <2>1, <2>2, ReceiveOrder, SameSender
  <1>5. ASSUME NEW t \in Threads, getGroupMembers(t) \/ getSessionByUid(t)
        PROVE  SenderInv' /\ OrderInv'
    <2>1. UNCHANGED <<sent, inbox, got>>
      BY <1>5 DEF getGroupMembers, getSessionByUid
    <2>2. PICK J : /\ job' = [job EXCEPT ![t] = J]
                   /\ J.msg \in {job[t].msg, 0}
      <3>1. job[t] \in Job /\ NoJob.msg = 0
        BY Bounds DEF NoJob
      <3>2. CASE getGroupMembers(t)
        <4> DEFINE J == IF Others(t) = {} THEN NoJob
                        ELSE [job[t] EXCEPT !.at = "lookup", !.todo = Others(t)]
        <4>1. J.msg \in {job[t].msg, 0}
          BY <3>1 DEF Job
        <4>2. job' = [job EXCEPT ![t] = J]
          BY <3>2 DEF getGroupMembers
        <4> HIDE DEF J
        <4> QED BY <4>1, <4>2
      <3>3. CASE getSessionByUid(t)
        BY <3>1, <3>3 DEF getSessionByUid, Job
      <3> QED BY <1>5, <3>2, <3>3
    <2>3. \A o \in Threads : job'[o].msg \in {job[o].msg, 0}
      BY <2>2 DEF IInv, TypeOK
    <2> QED BY <2>1, <2>3, SameSender, SamePlaces
  <1>6. ASSUME NEW t \in Threads, \/ SendToSession(t) \/ Publish(t)
                                  \/ PublishFails(t) \/ NobodyHere(t)
        PROVE  SenderInv' /\ OrderInv'
    <2>1. /\ job[t].at = "send" /\ Advance(t) /\ sent' = sent
          /\ PublishFails(t) \/ NobodyHere(t) => UNCHANGED <<inbox, got>>
      BY <1>6 DEF SendToSession, Publish, PublishFails, NobodyHere
    <2>2. \A o \in Threads : job'[o].msg \in {job[o].msg, 0}
      BY <2>1, AdvanceFacts
    <2> QED BY <1>6, <2>1, <2>2, SameSender, SamePlaces, SendToSessionOrder, PublishOrder
  <1>7. CASE UNCHANGED vars
    <2>1. UNCHANGED <<sent, inbox, job, got>>
      BY <1>7 DEF vars
    <2> QED BY <2>1, SameSender, SamePlaces
  <1> QED BY <1>1, <1>2, <1>3, <1>4, <1>5, <1>6, <1>7, FeedOrder DEF Next, Route

\* Private messages arrive in the order they were sent in when all sessions of
\* their sender are on one other server (publish, the subscriber callback).
THEOREM ArrivesInOrder == Spec => []InOrderAcrossServers
  <1>1. Init => SenderInv /\ OrderInv
    BY DEF Init, SenderInv, OrderInv, NoJob
  <1>2. IInv /\ OrderInv => InOrderAcrossServers
    <2> SUFFICES ASSUME IInv, OrderInv, NEW x \in Sessions, NEW m \in DOMAIN sent,
                        NEW k \in 1 .. m - 1,
                        sent[k].to = sent[m].to, sent[k].to # Group,
                        sent[k].from = sent[m].from,
                        \E r \in Servers \ {Home[x]} : AllOn(sent[k].from, r)
                 PROVE  InOrder(x, k, m)
      BY DEF InOrderAcrossServers
    <2>1. k \in DOMAIN sent /\ k < m /\ Home[x] \in Servers
      BY Bounds, DeliveryAssumption
    <2>2. Ordered(Home[x], k, m)
      BY <2>1 DEF OrderInv, Pair
    <2> QED BY <2>2 DEF Ordered, Before, InOrder
  <1> QED BY <1>1, <1>2, OrderNext, Invariance, PTL DEF Spec
-----------------------------------------------------------------------------
(* What may be lost on the way to a user's only session. *)

\* No other session of the user of x was ever entered.
Lone(x) == \A y \in Sessions \ {x} : User[y] = User[x] => phase[y] = "new"

\* A user's only session has the route of its server.
RouteInv ==
  /\ \A s \in Servers, u \in Users : manager[s][u] # None => phase[manager[s][u]] # "new"
  /\ \A x \in Sessions : Lone(x) /\ phase[x] \in {"entered", "subscribing", "up"} =>
       manager[Home[x]][User[x]] = x

\* Only for a session that has ended Redis is to end a subscription.
UnsubInv ==
  \A s \in Servers : \A i \in DOMAIN commands[s] : commands[s][i][1] = "UNSUBSCRIBE" =>
    \E y \in Sessions : /\ Home[y] = s /\ User[y] = commands[s][i][2]
                        /\ phase[y] \in {"closed", "ended"}

\* Session x is subscribed as long as its connection is sound, if it has to be.
Hears(x, m) ==
  SoleSession(x) /\ Home[x] # sent[m].at /\ connected[Home[x]] => User[x] \in subs[Home[x]]

\* Who was up when a message was saved had logged in, and hears of it; who was
\* addressed at all times is addressed now.
UpInv ==
  \A m \in DOMAIN sent :
    /\ \A x \in sent[m].up : /\ phase[x] \notin {"new", "entered", "subscribing"}
                             /\ Hears(x, m)
    /\ sent[m].to = Group => sent[m].always \subseteq members \ {sent[m].from}
    /\ sent[m].to # Group => sent[m].always \subseteq {sent[m].to}

\* A handler has a message in hand that was saved on its server.
AtInv ==
  \A t \in Threads : t[2] # Subscriber /\ job[t].msg # 0 => sent[job[t].msg].at = t[1]

\* A look-up on its server finds the only session of a user, none elsewhere.
HandInv ==
  \A t \in Threads : job[t].at = "send" =>
    /\ job[t].hand # None => phase[job[t].hand] # "new"
    /\ \A x \in sent[job[t].msg].up :
         SoleSession(x) /\ job[t].to = User[x] /\ t[1] = Home[x] => job[t].hand = x

\* Thread t has yet to route message m to the user of x.
Work(t, m, x) ==
  /\ job[t].msg = m
  /\ job[t].at = "members" \/ (job[t].at \in {"lookup", "send"} /\ User[x] \in job[t].todo)

\* Message m is on its way to x, has been received or went astray.
Pending(m, x) ==
  \/ \E t \in Threads : t[2] # Subscriber /\ Work(t, m, x)
  \/ m \in Range(got[x])
  \/ Home[x] # sent[m].at /\ (m \in Range(inbox[Home[x]]) \/ Work(Sub(Home[x]), m, x))
  \/ Astray(m, x)

CoverInv ==
  \A m \in DOMAIN sent : \A x \in sent[m].up :
    SoleSession(x) /\ User[x] \in sent[m].always => Pending(m, x)

LossInv == RouteInv /\ UnsubInv /\ UpInv /\ AtInv /\ HandInv /\ CoverInv

\* A step that starts no handler.
LEMMA SameAt ==
  ASSUME IInv, AtInv, \A m \in DOMAIN sent : sent'[m].at = sent[m].at,
         \A t \in Threads : t[2] # Subscriber => job'[t].msg \in {job[t].msg, 0}
  PROVE  AtInv'
  <1> SUFFICES ASSUME NEW t \in Threads, t[2] # Subscriber, job'[t].msg # 0
               PROVE  sent'[job'[t].msg].at = t[1]
    BY DEF AtInv
  <1>1. job'[t].msg = job[t].msg /\ job[t].msg \in DOMAIN sent
    BY Bounds
  <1> QED BY <1>1 DEF AtInv

\* A session that was up when a message was saved, and is a user's only one, was
\* it before a step in which no session forgets that it has logged in.
LEMMA StillSole ==
  ASSUME IInv, UpInv,
         \A y \in Sessions : phase'[y] = "new" => phase[y] = "new",
         \A y \in Sessions : phase[y] \notin {"new", "entered", "subscribing"} =>
           /\ phase'[y] \notin {"new", "entered", "subscribing"}
           /\ phase'[y] = "up" => phase[y] = "up",
         NEW m \in DOMAIN sent, NEW y \in sent[m].up
  PROVE  /\ y \in Sessions /\ (SoleSession(y)' => SoleSession(y))
         /\ phase'[y] \notin {"new", "entered", "subscribing"}
  <1>1. y \in Sessions /\ phase[y] \notin {"new", "entered", "subscribing"}
    BY Bounds DEF UpInv, Message
  <1> QED BY <1>1 DEF SoleSession

\* A session that is a user's only one was it before the step, if it was entered.
LEMMA LifeLoss ==
  ASSUME IInv, LossInv, NEW x \in Sessions,
         \/ AddSession(x) \/ Subscribe(x) \/ HangUp(x)
         \/ RemoveSession(x) \/ Unsubscribe(x)
  PROVE  LossInv'
  <1> USE DEF LossInv
  <1>1. UNCHANGED <<connected, subs, members, sent, inbox, job, got, taken, unpublished>>
    BY DEF AddSession, Subscribe, HangUp, RemoveSession, Unsubscribe, feed, ghost
  <1>2. /\ \A y \in Sessions : phase'[y] = "new" => phase[y] = "new"
        /\ \A y \in Sessions : phase[y] \notin {"new", "entered", "subscribing"} =>
             /\ phase'[y] \notin {"new", "entered", "subscribing"}
             /\ phase'[y] = "up" => phase[y] = "up"
        /\ \A y \in Sessions : phase[y] \in {"closed", "ended"} => phase'[y] \in {"closed", "ended"}
    BY DEF AddSession, Subscribe, HangUp, RemoveSession, Unsubscribe, Phase, IInv, TypeOK
  <1>3. \A y \in Sessions : Lone(y)' => Lone(y)
    BY <1>2 DEF Lone
  <1>4. \A m \in DOMAIN sent : \A y \in sent[m].up :
          /\ y \in Sessions /\ (SoleSession(y)' => SoleSession(y))
          /\ phase'[y] \notin {"new", "entered", "subscribing"}
    BY <1>2, StillSole
  <1>5. UpInv'
    BY <1>1, <1>4 DEF UpInv, Hears
  <1>6. HandInv'
    <2> SUFFICES ASSUME NEW t \in Threads, job[t].at = "send"
                 PROVE  /\ job[t].hand # None => phase'[job[t].hand] # "new"
                        /\ \A y \in sent[job[t].msg].up :
                             SoleSession(y)' /\ job[t].to = User[y] /\ t[1] = Home[y]
                               => job[t].hand = y
      BY <1>1 DEF HandInv
    <2>1. job[t].msg \in DOMAIN sent /\ job[t].hand \in Sessions \cup {None}
      BY Bounds DEF IInv, JobInv, JobOk, Job
    <2> QED BY <1>2, <1>4, <2>1 DEF HandInv
  <1>7. CoverInv' /\ AtInv'
    BY <1>1, <1>4 DEF CoverInv, Pending, Astray, Work, AtInv
  <1>8. UnsubInv'
    <2>1. CASE commands' = commands
      BY <1>2, <2>1 DEF UnsubInv
    <2>2. ASSUME NEW verb \in {"SUBSCRIBE", "UNSUBSCRIBE"},
                 verb = "UNSUBSCRIBE" => phase'[x] \in {"closed", "ended"},
                 commands' = [commands EXCEPT ![Home[x]] = Append(@, <<verb, User[x]>>)]
          PROVE  UnsubInv'
      <3> DEFINE e == <<verb, User[x]>>
      <3>1. e[1] = verb /\ e[2] = User[x]
        OBVIOUS
      <3> HIDE DEF e
      <3>2. commands' = [commands EXCEPT ![Home[x]] = Append(@, e)]
        BY <2>2 DEF e
      <3>3. /\ Home[x] \in Servers /\ commands \in [Servers -> Seq(Command)]
        BY DeliveryAssumption DEF IInv, TypeOK
      <3>4. e \in Command
        BY DeliveryAssumption DEF Command, e
      <3> SUFFICES ASSUME NEW s \in Servers, NEW i \in DOMAIN commands'[s],
                          commands'[s][i][1] = "UNSUBSCRIBE"
                   PROVE  \E y \in Sessions : /\ Home[y] = s /\ User[y] = commands'[s][i][2]
                                              /\ phase'[y] \in {"closed", "ended"}
        BY DEF UnsubInv
      <3>5. CASE i \in DOMAIN commands[s] /\ commands'[s][i] = commands[s][i]
        BY <1>2, <3>5 DEF UnsubInv
      <3>6. CASE s = Home[x] /\ commands'[s][i] = e
        BY <2>2, <3>1, <3>6
      <3>7. CASE s # Home[x]
        BY <3>2, <3>3, <3>5, <3>7
      <3>8. CASE s = Home[x]
        <4>1. commands[s] \in Seq(Command) /\ commands'[s] = Append(commands[s], e)
          BY <3>2, <3>3, <3>8
        <4>2. /\ DOMAIN commands'[s] = 1 .. Len(commands[s]) + 1
              /\ DOMAIN commands[s] = 1 .. Len(commands[s]) /\ Len(commands[s]) \in Nat
              /\ \A n \in 1 .. Len(commands[s]) : commands'[s][n] = commands[s][n]
              /\ commands'[s][Len(commands[s]) + 1] = e
          BY <3>4, <4>1, AppendProperties, LenProperties
        <4> QED BY <3>5, <3>6, <3>8, <4>2
      <3> QED BY <3>7, <3>8
    <2>3. CASE Subscribe(x)
      BY <2>1, <2>2, <2>3 DEF Subscribe, Call
    <2>4. CASE Unsubscribe(x)
      <3>1. phase'[x] \in {"closed", "ended"}
        BY <2>4 DEF Unsubscribe, Phase, IInv, TypeOK
      <3> QED BY <2>1, <2>2, <2>4, <3>1 DEF Unsubscribe, Call
    <2> QED BY <2>1, <2>3, <2>4 DEF AddSession, HangUp, RemoveSession, feed
  <1>9. RouteInv'
    <2> USE DEF IInv, TypeOK
    <2>0. Home[x] \in Servers /\ User[x] \in Users
      BY DeliveryAssumption
    <2>1. CASE AddSession(x)
      <3>1. /\ phase[x] = "new" /\ phase' = [phase EXCEPT ![x] = "entered"]
            /\ manager' = [manager EXCEPT ![Home[x]][User[x]] = x]
        BY <2>1 DEF AddSession, Phase, Enter
      <3>2. \A s \in Servers, u \in Users : manager'[s][u] =
              IF s = Home[x] /\ u = User[x] THEN x ELSE manager[s][u]
        BY <2>0, <3>1
      <3>3. \A s \in Servers, u \in Users : manager'[s][u] # None => phase'[manager'[s][u]] # "new"
        BY <3>1, <3>2 DEF RouteInv
      <3>4. ASSUME NEW y \in Sessions, Lone(y)', phase'[y] \in {"entered", "subscribing", "up"}
            PROVE  manager'[Home[y]][User[y]] = y
        <4>1. Home[y] \in Servers /\ User[y] \in Users
          BY DeliveryAssumption
        <4>2. CASE y = x
          BY <3>1, <3>2, <4>1, <4>2
        <4>3. CASE y # x
          <5>1. User[y] # User[x] /\ phase'[y] = phase[y]
            BY <3>1, <3>4, <4>3 DEF Lone
          <5> QED BY <1>3, <3>1, <3>2, <3>4, <4>1, <5>1 DEF RouteInv
        <4> QED BY <4>2, <4>3
      <3> QED BY <3>3, <3>4 DEF RouteInv
    <2>2. CASE Subscribe(x) \/ HangUp(x) \/ Unsubscribe(x)
      <3>1. manager' = manager
        BY <2>2 DEF Subscribe, HangUp, Unsubscribe
      <3>2. \A y \in Sessions : phase'[y] \in {"entered", "subscribing", "up"} =>
              phase[y] \in {"entered", "subscribing", "up"}
        BY <2>2 DEF Subscribe, HangUp, Unsubscribe, Phase
      <3> QED BY <1>2, <1>3, <3>1, <3>2 DEF RouteInv
    <2>3. CASE RemoveSession(x)
      <3>1. /\ phase[x] \in {"gone", "closed"}
            /\ \E p \in {"removed", "ended"} : phase' = [phase EXCEPT ![x] = p]
            /\ manager' = [manager EXCEPT ![Home[x]][User[x]] = None]
        BY <2>3 DEF RemoveSession, Phase, Enter
      <3>2. \A s \in Servers, u \in Users : manager'[s][u] =
              IF s = Home[x] /\ u = User[x] THEN None ELSE manager[s][u]
        BY <2>0, <3>1
      <3>3. \A s \in Servers, u \in Users : manager'[s][u] # None => phase'[manager'[s][u]] # "new"
        BY <3>1, <3>2 DEF RouteInv
      <3>4. ASSUME NEW y \in Sessions, Lone(y)', phase'[y] \in {"entered", "subscribing", "up"}
            PROVE  manager'[Home[y]][User[y]] = y
        <4>1. Home[y] \in Servers /\ User[y] \in Users /\ Lone(y)
          BY <1>3, <3>4, DeliveryAssumption
        <4>2. y # x /\ phase'[y] = phase[y]
          BY <3>1, <3>4
        <4>3. User[y] # User[x]
          BY <3>1, <4>1, <4>2 DEF Lone
        <4> QED BY <3>1, <3>2, <3>4, <4>1, <4>2, <4>3 DEF RouteInv
      <3> QED BY <3>3, <3>4 DEF RouteInv
    <2> QED BY <2>1, <2>2, <2>3
  <1> QED BY <1>5, <1>6, <1>7, <1>8, <1>9

\* A session that waits for its subscription has not logged in when a message is
\* saved; what a call or a broken connection takes from an inbox went astray.
LEMMA FeedLoss ==
  ASSUME IInv, LossInv, NEW s \in Servers,
         CallReturns(s) \/ CallTakes(s) \/ Execute(s) \/ Break(s)
  PROVE  LossInv'
  <1> USE DEF LossInv
  <1>1. UNCHANGED <<manager, members, sent, job, got, unpublished>>
    BY Shorter
  <1>2. /\ \A y \in Sessions : phase'[y] = "new" => phase[y] = "new"
        /\ \A y \in Sessions : phase[y] \notin {"new", "entered", "subscribing"} =>
             phase'[y] = phase[y]
        /\ \A y \in Sessions : phase'[y] \in {"entered", "subscribing", "up"} =>
             phase[y] \in {"entered", "subscribing", "up"}
    <2>1. CASE phase' = phase
      BY <2>1
    <2>2. CASE CallEnds(s)
      BY <2>2 DEF CallEnds, IInv, TypeOK
    <2> QED BY <2>1, <2>2 DEF CallReturns, CallTakes, Execute, Break
  <1>3. \A y \in Sessions : Lone(y)' => Lone(y)
    BY <1>2 DEF Lone
  <1>4. \A m \in DOMAIN sent : \A y \in sent[m].up :
          /\ y \in Sessions /\ (SoleSession(y)' => SoleSession(y))
          /\ phase'[y] \notin {"new", "entered", "subscribing"}
    <2>1. \A y \in Sessions : phase[y] \notin {"new", "entered", "subscribing"} =>
            /\ phase'[y] \notin {"new", "entered", "subscribing"}
            /\ phase'[y] = "up" => phase[y] = "up"
      BY <1>2
    <2> QED BY <1>2, <2>1, StillSole
  <1>5. RouteInv'
    <2>1. \A c \in Servers, u \in Users : manager[c][u] # None => manager[c][u] \in Sessions
      BY DEF IInv, TypeOK
    <2> QED BY <1>1, <1>2, <1>3, <2>1 DEF RouteInv
  <1>6. AtInv'
    BY <1>1 DEF AtInv
  <1>7. HandInv'
    <2> SUFFICES ASSUME NEW t \in Threads, job[t].at = "send"
                 PROVE  /\ job[t].hand # None => phase'[job[t].hand] # "new"
                        /\ \A y \in sent[job[t].msg].up :
                             SoleSession(y)' /\ job[t].to = User[y] /\ t[1] = Home[y]
                               => job[t].hand = y
      BY <1>1 DEF HandInv
    <2>1. job[t].msg \in DOMAIN sent /\ job[t].hand \in Sessions \cup {None}
      BY Bounds DEF IInv, JobInv, JobOk, Job
    <2> QED BY <1>2, <1>4, <2>1 DEF HandInv
  <1>8. commands \in [Servers -> Seq(Command)] /\ commands[s] \in Seq(Command)
    BY DEF IInv, TypeOK
  <1>9. UnsubInv'
    <2>1. \A y \in Sessions : phase[y] \in {"closed", "ended"} => phase'[y] \in {"closed", "ended"}
      BY <1>2
    <2>2. CASE commands' = commands
      BY <2>1, <2>2 DEF UnsubInv
    <2>3. CASE Execute(s)
      <3>1. commands[s] # <<>> /\ commands' = [commands EXCEPT ![s] = Tail(@)]
        BY <2>3 DEF Execute
      <3>2. \A c \in Servers : \A i \in DOMAIN commands'[c] :
              \E j \in DOMAIN commands[c] : commands'[c][i] = commands[c][j]
        <4> SUFFICES ASSUME NEW i \in DOMAIN Tail(commands[s])
                     PROVE  \E j \in DOMAIN commands[s] : Tail(commands[s])[i] = commands[s][j]
          BY <1>8, <3>1
        <4>1. /\ Len(commands[s]) \in Nat \ {0} /\ DOMAIN commands[s] = 1 .. Len(commands[s])
          BY <1>8, <3>1, LenProperties, EmptySeq
        <4>2. /\ Tail(commands[s]) \in Seq(Command)
              /\ Len(Tail(commands[s])) = Len(commands[s]) - 1
              /\ \A n \in 1 .. Len(commands[s]) - 1 : Tail(commands[s])[n] = commands[s][n + 1]
          BY <1>8, <3>1, <4>1, HeadTailProperties
        <4>3. i \in 1 .. Len(commands[s]) - 1
          BY <4>2, LenProperties
        <4>4. i + 1 \in DOMAIN commands[s] /\ Tail(commands[s])[i] = commands[s][i + 1]
          BY <4>1, <4>2, <4>3
        <4> QED BY <4>4
      <3> QED BY <2>1, <3>2 DEF UnsubInv
    <2>4. CASE Break(s)
      <3>1. commands' = [commands EXCEPT ![s] = <<>>]
        BY <2>4 DEF Break
      <3>2. \A c \in Servers : \A i \in DOMAIN commands'[c] :
              i \in DOMAIN commands[c] /\ commands'[c][i] = commands[c][i]
        BY <1>8, <3>1
      <3> QED BY <2>1, <3>2 DEF UnsubInv
    <2> QED BY <2>2, <2>3, <2>4 DEF CallReturns, CallTakes, CallEnds
  <1>10. UpInv'
    <2> SUFFICES ASSUME NEW m \in DOMAIN sent, NEW y \in sent[m].up,
                        SoleSession(y)', Home[y] # sent[m].at, connected'[Home[y]]
                 PROVE  User[y] \in subs'[Home[y]]
      BY <1>1, <1>4 DEF UpInv, Hears
    <2>1. y \in Sessions /\ SoleSession(y) /\ Home[y] \in Servers /\ User[y] \in Users
      BY <1>4, DeliveryAssumption
    <2>2. CASE UNCHANGED <<connected, subs>>
      BY <2>1, <2>2 DEF UpInv, Hears
    <2>3. CASE Break(s)
      BY <2>1, <2>3 DEF UpInv, Hears, Break, IInv, TypeOK
    <2>4. CASE Execute(s)
      <3> DEFINE e == Head(commands[s])
      <3>1. /\ commands[s] # <<>> /\ connected' = connected
            /\ subs' = [subs EXCEPT ![s] = IF e[1] = "SUBSCRIBE" THEN @ \cup {e[2]}
                                                                   ELSE @ \ {e[2]}]
        BY <2>4 DEF Execute
      <3>2. e = commands[s][1] /\ 1 \in DOMAIN commands[s] /\ e \in Command
        BY <1>8, <3>1, HeadTailProperties, LenProperties, EmptySeq
      <3>3. User[y] \in subs[Home[y]]
        BY <2>1, <3>1 DEF UpInv, Hears
      <3>4. CASE e[1] = "SUBSCRIBE" \/ Home[y] # s \/ e[2] # User[y]
        BY <2>1, <3>1, <3>3, <3>4 DEF IInv, TypeOK
      <3>5. CASE e[1] # "SUBSCRIBE" /\ Home[y] = s /\ e[2] = User[y]
        <4>1. e[1] = "UNSUBSCRIBE"
          BY <3>2, <3>5 DEF Command
        <4>2. PICK z \in Sessions : User[z] = User[y] /\ phase[z] \in {"closed", "ended"}
          BY <3>2, <3>5, <4>1 DEF UnsubInv
        <4> QED BY <2>1, <4>2 DEF SoleSession
      <3> QED BY <3>4, <3>5
    <2> QED BY <2>2, <2>3, <2>4 DEF CallReturns, CallTakes, CallEnds
  <1>11. CoverInv'
    <2> SUFFICES ASSUME NEW m \in DOMAIN sent, NEW y \in sent[m].up,
                        SoleSession(y)', User[y] \in sent[m].always
                 PROVE  Pending(m, y)'
      BY <1>1 DEF CoverInv
    <2>1. y \in Sessions /\ Home[y] \in Servers /\ Pending(m, y)
      BY <1>4, DeliveryAssumption DEF CoverInv
    <2>2. Astray(m, y) => Astray(m, y)'
      <3>1. \A c \in Servers : ~connected[c] => ~connected'[c]
        <4>1. CASE connected' = connected
          BY <4>1
        <4>2. CASE Break(s)
          BY <4>2 DEF Break, IInv, TypeOK
        <4> QED BY <4>1, <4>2 DEF CallReturns, CallTakes, CallEnds, Execute
      <3>2. \A c \in Servers : taken[c] \subseteq taken'[c]
        <4>1. CASE taken' = taken
          BY <4>1
        <4>2. CASE CallTakes(s)
          BY <4>2 DEF CallTakes, IInv, TypeOK
        <4> QED BY <4>1, <4>2 DEF CallReturns, Execute, Break, ghost
      <3> QED BY <1>1, <2>1, <3>1, <3>2 DEF Astray
    <2>3. ASSUME Home[y] # sent[m].at, m \in Range(inbox[Home[y]])
          PROVE  m \in Range(inbox'[Home[y]]) \/ Astray(m, y)'
      <3>1. CASE inbox'[Home[y]] = inbox[Home[y]]
        BY <2>3, <3>1
      <3>2. CASE CallTakes(s) /\ Home[y] = s
        <4>1. /\ inbox[s] # <<>> /\ inbox[s] \in Seq(1 .. Len(sent))
              /\ inbox'[s] = Tail(inbox[s]) /\ Head(inbox[s]) \in taken'[s]
          BY <3>2 DEF CallTakes, IInv, TypeOK
        <4>2. m \in Range(Tail(inbox[s])) \cup {Head(inbox[s])}
          BY <2>3, <3>2, <4>1, RangeTail
        <4> QED BY <1>1, <2>3, <3>2, <4>1, <4>2 DEF Astray
      <3>3. CASE Break(s) /\ Home[y] = s
        <4>1. ~connected'[Home[y]]
          BY <3>3 DEF Break, IInv, TypeOK
        <4> QED BY <1>1, <2>3, <4>1 DEF Astray
      <3> QED BY <2>1, <3>1, <3>2, <3>3
          DEF CallReturns, CallTakes, Execute, Break, IInv, TypeOK
    <2>4. \A o \in Threads : Work(o, m, y)' <=> Work(o, m, y)
      BY <1>1 DEF Work
    <2>5. Sub(Home[y]) \in Threads
      BY <2>1, ThreadFacts
    <2> QED BY <1>1, <2>1, <2>2, <2>3, <2>4, <2>5 DEF Pending
  <1> QED BY <1>5, <1>6, <1>7, <1>9, <1>10, <1>11

\* Steps that leave sessions alone.
LEMMA StillRoute ==
  ASSUME RouteInv, UnsubInv, UNCHANGED <<phase, manager, commands>>
  PROVE  RouteInv' /\ UnsubInv' /\ \A x \in Sessions : SoleSession(x)' <=> SoleSession(x)
  BY DEF RouteInv, UnsubInv, Lone, SoleSession

LEMMA GroupLoss ==
  ASSUME IInv, LossInv, NEW u \in Users, addGroupMember(u) \/ removeGroupMember(u)
  PROVE  LossInv'
  <1> USE DEF LossInv
  <1>1. UNCHANGED <<phase, manager, connected, commands, subs, caller, taken, unpublished,
                       inbox, job, got>>
    BY DEF addGroupMember, removeGroupMember, life, feed, ghost
  <1>2. \A m \in DOMAIN sent : sent[m] \in Message
    BY Bounds
  <1>3. /\ DOMAIN sent' = DOMAIN sent
        /\ \A m \in DOMAIN sent :
             /\ sent'[m].from = sent[m].from /\ sent'[m].to = sent[m].to
             /\ sent'[m].at = sent[m].at
             /\ sent'[m].up = sent[m].up /\ sent'[m].always \subseteq sent[m].always
             /\ sent[m].to = Group => sent'[m].always \subseteq members' \ {sent[m].from}
    <2>1. CASE addGroupMember(u)
      BY <1>2, <2>1 DEF addGroupMember, Message, UpInv
    <2>2. CASE removeGroupMember(u)
      BY <1>2, <2>2 DEF removeGroupMember, Message, UpInv
    <2> QED BY <2>1, <2>2
  <1>4. RouteInv' /\ UnsubInv' /\ \A x \in Sessions : SoleSession(x)' <=> SoleSession(x)
    BY <1>1, StillRoute
  <1>5. UpInv'
    BY <1>1, <1>3 DEF UpInv, Hears, SoleSession
  <1>6. \A m \in DOMAIN sent : sent[m].up \subseteq Sessions
    BY <1>2 DEF Message
  <1>7. HandInv'
    BY <1>1, <1>3, <1>4, <1>6 DEF HandInv, IInv, JobInv, JobOk
  <1>8. CoverInv'
    BY <1>1, <1>3, <1>4, <1>6 DEF CoverInv, Pending, Astray, Work
  <1>9. AtInv'
    BY <1>1, <1>3, SameAt
  <1> QED BY <1>4, <1>5, <1>7, <1>8, <1>9

LEMMA RequestLoss ==
  ASSUME IInv, LossInv, NEW x \in Sessions, NEW v \in Users \cup {Group}, Request(x, v)
  PROVE  LossInv'
  <1> USE DEF LossInv
  <1> DEFINE t == <<Home[x], User[x]>>
             n == Len(sent) + 1
             to == IF v = Group THEN members \ {User[x]} ELSE {v}
             new == [from |-> User[x], to |-> v, at |-> Home[x],
                     ever |-> to, always |-> to, up |-> UpAt(Home[x], to)]
             J == Start(n, v)
  <1>1. /\ job[t] = NoJob
        /\ sent' = Append(sent, new)
        /\ job' = [job EXCEPT ![t] = J]
        /\ UNCHANGED <<phase, manager, connected, commands, subs, caller, taken, unpublished,
                       members, inbox, got>>
    BY DEF Request, life, feed, ghost
  <1>2. t \in Threads /\ t[2] # Subscriber
    BY DeliveryAssumption, ThreadFacts
  <1>3. /\ J.msg = n /\ J.at \in {"members", "lookup"}
        /\ J.at = "lookup" => v # Group /\ J.todo = {v}
    BY DEF Start, NoJob
  <1>4. new \in Message
    <2>1. Home[x] \in Servers /\ UpAt(Home[x], to) \subseteq Sessions
      BY DeliveryAssumption DEF UpAt
    <2> QED BY <2>1, DeliveryAssumption DEF Message, IInv, TypeOK
  <1>5. /\ Len(sent) \in Nat /\ DOMAIN sent = 1 .. Len(sent) /\ DOMAIN sent' = 1 .. n
        /\ \A m \in DOMAIN sent : sent'[m] = sent[m]
        /\ sent'[n] = new
    BY <1>1, <1>4, Bounds, AppendProperties, LenProperties DEF IInv, TypeOK
  <1>6. /\ job'[t] = J
        /\ \A o \in Threads \ {t} : job'[o] = job[o]
    BY <1>1, <1>2 DEF IInv, TypeOK
  <1>7. /\ new.up = UpAt(Home[x], to) /\ new.at = Home[x]
        /\ new.to = v /\ new.from = User[x] /\ new.always = to
        /\ v = Group => to = members \ {User[x]}
        /\ v # Group => to = {v}
    OBVIOUS
  <1>8. \A m \in DOMAIN sent' : m = n \/ m \in DOMAIN sent
    BY <1>5
  <1>9. job[t].at = "idle"
    BY <1>1 DEF NoJob
  <1> HIDE DEF new, J, to, t, n
  <1>10. RouteInv' /\ UnsubInv' /\ \A y \in Sessions : SoleSession(y)' <=> SoleSession(y)
    BY <1>1, StillRoute
  <1>11. UpInv'
    <2>1. \A y \in UpAt(Home[x], to) :
            phase[y] = "up" /\ (Home[y] # Home[x] => User[y] \in subs[Home[y]])
      BY DEF UpAt
    <2> QED BY <1>1, <1>5, <1>7, <1>8, <2>1 DEF UpInv, Hears, SoleSession
  <1>12. HandInv'
    <2> SUFFICES ASSUME NEW o \in Threads, job'[o].at = "send"
                 PROVE  HandInv!(o)'
      BY DEF HandInv
    <2>1. o # t /\ job'[o] = job[o]
      BY <1>3, <1>6
    <2>2. job[o].msg \in DOMAIN sent
      BY <2>1 DEF IInv, JobInv, JobOk
    <2>3. sent[job[o].msg].up \subseteq Sessions
      BY <2>2, Bounds DEF Message
    <2>4. HandInv!(o)
      BY DEF HandInv
    <2> QED BY <1>1, <1>5, <1>10, <2>1, <2>2, <2>3, <2>4
  <1>13. CoverInv'
    <2> SUFFICES ASSUME NEW m \in DOMAIN sent', NEW y \in sent'[m].up,
                        SoleSession(y)', User[y] \in sent'[m].always
                 PROVE  Pending(m, y)'
      BY DEF CoverInv
    <2>1. CASE m = n
      <3>1. Work(t, m, y)'
        BY <1>3, <1>5, <1>6, <1>7, <2>1 DEF Work
      <3> QED BY <1>2, <3>1 DEF Pending
    <2>2. CASE m \in DOMAIN sent
      <3>1. y \in sent[m].up /\ y \in Sessions /\ User[y] \in sent[m].always
        BY <1>5, <2>2, Bounds DEF Message
      <3>2. Pending(m, y)
        BY <1>10, <2>2, <3>1 DEF CoverInv
      <3>3. \A o \in Threads : Work(o, m, y) => Work(o, m, y)'
        BY <1>6, <1>9 DEF Work
      <3>4. Sub(Home[y]) \in Threads
        BY <3>1, DeliveryAssumption, ThreadFacts
      <3> QED BY <1>1, <1>5, <2>2, <3>2, <3>3, <3>4 DEF Pending, Astray
    <2> QED BY <1>8, <2>1, <2>2
  <1>14. AtInv'
    <2> SUFFICES ASSUME NEW o \in Threads, o[2] # Subscriber, job'[o].msg # 0
                 PROVE  sent'[job'[o].msg].at = o[1]
      BY DEF AtInv
    <2>1. CASE o = t
      BY <1>3, <1>5, <1>6, <1>7, <2>1 DEF t
    <2>2. CASE o # t
      <3>1. job'[o] = job[o] /\ job[o].msg \in DOMAIN sent
        BY <1>6, <2>2, Bounds
      <3> QED BY <1>5, <3>1 DEF AtInv
    <2> QED BY <2>1, <2>2
  <1> QED BY <1>10, <1>11, <1>12, <1>13, <1>14

LEMMA ReceiveLoss ==
  ASSUME IInv, LossInv, NEW s \in Servers, Receive(s) PROVE LossInv'
  <1> USE DEF LossInv
  <1> DEFINE t == Sub(s)
             q == inbox[s]
             h == Head(q)
             J == Start(h, sent[h].to)
  <1>1. /\ job[t] = NoJob /\ q # <<>> /\ q \in Seq(1 .. Len(sent))
        /\ job' = [job EXCEPT ![t] = J]
        /\ inbox' = [inbox EXCEPT ![s] = Tail(q)]
        /\ UNCHANGED <<phase, manager, connected, commands, subs, caller, taken, unpublished,
                       members, sent, got>>
    BY Bounds DEF Receive, Sub, life, feed, ghost
  <1>2. t \in Threads
    BY ThreadFacts
  <1>3. h \in DOMAIN sent /\ Range(q) \subseteq Range(Tail(q)) \cup {h}
    <2>1. h \in DOMAIN sent
      BY <1>1, TailFacts, Bounds
    <2>2. Range(q) \subseteq Range(Tail(q)) \cup {h}
      BY <1>1, RangeTail
    <2> QED BY <2>1, <2>2
  <1>4. /\ J.msg = h /\ J.at \in {"members", "lookup"}
        /\ J.at = "lookup" => sent[h].to # Group /\ J.todo = {sent[h].to}
    BY DEF Start, NoJob
  <1>5. /\ job'[t] = J
        /\ \A o \in Threads \ {t} : job'[o] = job[o]
        /\ inbox'[s] = Tail(q)
        /\ \A r \in Servers \ {s} : inbox'[r] = inbox[r]
    BY <1>1, <1>2 DEF IInv, TypeOK
  <1>6. job[t].at = "idle"
    BY <1>1 DEF NoJob
  <1> HIDE DEF J, h, q
  <1>7. RouteInv' /\ UnsubInv' /\ \A y \in Sessions : SoleSession(y)' <=> SoleSession(y)
    BY <1>1, StillRoute
  <1>8. UpInv'
    BY <1>1 DEF UpInv, Hears, SoleSession
  <1>9. HandInv'
    <2> SUFFICES ASSUME NEW o \in Threads, job'[o].at = "send"
                 PROVE  HandInv!(o)'
      BY DEF HandInv
    <2>1. job'[o] = job[o]
      BY <1>4, <1>5
    <2>2. job[o].msg \in DOMAIN sent
      BY <2>1 DEF IInv, JobInv, JobOk
    <2>3. sent[job[o].msg].up \subseteq Sessions
      BY <2>2, Bounds DEF Message
    <2>4. HandInv!(o)
      BY DEF HandInv
    <2> QED BY <1>1, <1>7, <2>1, <2>3, <2>4
  <1>10. CoverInv'
    <2> SUFFICES ASSUME NEW m \in DOMAIN sent, NEW y \in sent[m].up,
                        SoleSession(y)', User[y] \in sent[m].always
                 PROVE  Pending(m, y)'
      BY <1>1 DEF CoverInv
    <2>1. y \in Sessions /\ Home[y] \in Servers
      BY Bounds, DeliveryAssumption DEF Message
    <2>2. Pending(m, y)
      BY <1>7, <2>1 DEF CoverInv
    <2>3. \A o \in Threads : Work(o, m, y) => Work(o, m, y)'
      BY <1>5, <1>6 DEF Work
    <2>4. CASE Home[y] = s /\ m = h
      <3>1. Work(t, m, y)'
        BY <1>4, <1>5, <2>4 DEF Work, UpInv
      <3> QED BY <1>1, <2>2, <2>3, <2>4, <3>1 DEF Pending, Astray
    <2>5. CASE ~(Home[y] = s /\ m = h)
      <3>1. m \in Range(inbox[Home[y]]) => m \in Range(inbox'[Home[y]])
        BY <1>3, <1>5, <2>1, <2>5 DEF q
      <3>2. Sub(Home[y]) \in Threads
        BY <2>1, ThreadFacts
      <3> QED BY <1>1, <2>2, <2>3, <3>1, <3>2 DEF Pending, Astray
    <2> QED BY <2>4, <2>5
  <1>11. AtInv'
    <2>1. \A o \in Threads : o[2] # Subscriber => job'[o] = job[o]
      BY <1>5, ThreadFacts
    <2> QED BY <1>1, <2>1, SameAt
  <1> QED BY <1>7, <1>8, <1>9, <1>10, <1>11

LEMMA getGroupMembersLoss ==
  ASSUME IInv, LossInv, NEW t \in Threads, getGroupMembers(t) PROVE LossInv'
  <1> USE DEF LossInv
  <1> DEFINE J == IF Others(t) = {} THEN NoJob
                  ELSE [job[t] EXCEPT !.at = "lookup", !.todo = Others(t)]
             k == job[t].msg
  <1>1. /\ job[t].at = "members"
        /\ job' = [job EXCEPT ![t] = J]
        /\ UNCHANGED <<phase, manager, connected, commands, subs, caller, taken, unpublished,
                       members, sent, inbox, got>>
    BY DEF getGroupMembers, life, feed, ghost
  <1>2. k \in DOMAIN sent /\ sent[k].to = Group /\ job[t] \in Job
    BY <1>1, Bounds DEF IInv, JobInv, JobOk
  <1>3. /\ J.at \in {"idle", "lookup"} /\ J.msg \in {k, 0}
        /\ Others(t) # {} => J.msg = k /\ J.at = "lookup" /\ J.todo = Others(t)
    BY <1>2 DEF NoJob, Job
  <1>4. /\ job'[t] = J
        /\ \A o \in Threads \ {t} : job'[o] = job[o]
    BY <1>1 DEF IInv, TypeOK
  <1> HIDE DEF J
  <1>5. RouteInv' /\ UnsubInv' /\ \A y \in Sessions : SoleSession(y)' <=> SoleSession(y)
    BY <1>1, StillRoute
  <1>6. UpInv'
    BY <1>1 DEF UpInv, Hears, SoleSession
  <1>7. HandInv'
    <2> SUFFICES ASSUME NEW o \in Threads, job'[o].at = "send"
                 PROVE  HandInv!(o)'
      BY DEF HandInv
    <2>1. job'[o] = job[o]
      BY <1>3, <1>4
    <2>2. sent[job[o].msg].up \subseteq Sessions
      BY <2>1, Bounds DEF Message, IInv, JobInv, JobOk
    <2>3. HandInv!(o)
      BY DEF HandInv
    <2> QED BY <1>1, <1>5, <2>1, <2>2, <2>3
  <1>8. CoverInv'
    <2> SUFFICES ASSUME NEW m \in DOMAIN sent, NEW y \in sent[m].up,
                        SoleSession(y)', User[y] \in sent[m].always
                 PROVE  Pending(m, y)'
      BY <1>1 DEF CoverInv
    <2>1. y \in Sessions /\ Home[y] \in Servers
      BY Bounds, DeliveryAssumption DEF Message
    <2>2. Pending(m, y)
      BY <1>5, <2>1 DEF CoverInv
    <2>3. Work(t, m, y) => Work(t, m, y)'
      <3> SUFFICES ASSUME Work(t, m, y) PROVE Work(t, m, y)'
        OBVIOUS
      <3>1. m = k
        BY DEF Work
      <3>2. User[y] \in Others(t)
        BY <1>2, <3>1 DEF UpInv, Others
      <3> QED BY <1>3, <1>4, <3>1, <3>2 DEF Work
    <2>4. \A o \in Threads : Work(o, m, y) => Work(o, m, y)'
      BY <1>4, <2>3 DEF Work
    <2>5. Sub(Home[y]) \in Threads
      BY <2>1, ThreadFacts
    <2> QED BY <1>1, <2>2, <2>4, <2>5 DEF Pending, Astray
  <1>9. AtInv'
    BY <1>1, <1>3, <1>4, SameAt
  <1> QED BY <1>5, <1>6, <1>7, <1>8, <1>9

\* What was up when the message was saved has been entered where it is looked up.
LEMMA getSessionByUidLoss ==
  ASSUME IInv, LossInv, NEW t \in Threads, getSessionByUid(t) PROVE LossInv'
  <1> USE DEF LossInv
  <1>1. PICK v \in job[t].todo :
          job' = [job EXCEPT ![t] = [@ EXCEPT !.at = "send", !.to = v,
                                              !.hand = manager[ServerOf(t)][v]]]
    BY Zenon DEF getSessionByUid
  <1> DEFINE k == job[t].msg
             z == manager[t[1]][v]
             J == [job[t] EXCEPT !.at = "send", !.to = v, !.hand = z]
  <1>2. /\ job[t].at = "lookup"
        /\ job' = [job EXCEPT ![t] = J]
        /\ UNCHANGED <<phase, manager, connected, commands, subs, caller, taken, unpublished,
                       members, sent, inbox, got>>
    BY <1>1 DEF getSessionByUid, life, feed, ghost, ServerOf
  <1>3. k \in DOMAIN sent /\ job[t] \in Job /\ v \in Users /\ t[1] \in Servers
    BY <1>2, Bounds, ThreadFacts DEF IInv, JobInv, JobOk, Job
  <1>4. /\ J.at = "send" /\ J.msg = k /\ J.todo = job[t].todo /\ J.to = v /\ J.hand = z
    BY <1>3 DEF Job
  <1>5. /\ job'[t] = J
        /\ \A o \in Threads \ {t} : job'[o] = job[o]
    BY <1>2 DEF IInv, TypeOK
  <1> HIDE DEF J
  <1>6. RouteInv' /\ UnsubInv' /\ \A y \in Sessions : SoleSession(y)' <=> SoleSession(y)
    BY <1>2, StillRoute
  <1>7. UpInv'
    BY <1>2 DEF UpInv, Hears, SoleSession
  <1>8. HandInv'
    <2> SUFFICES ASSUME NEW o \in Threads, job'[o].at = "send"
                 PROVE  HandInv!(o)'
      BY DEF HandInv
    <2>1. CASE o = t
      <3>1. z # None => phase[z] # "new"
        BY <1>3 DEF RouteInv
      <3>2. sent[k].up \subseteq Sessions
        BY <1>3, Bounds DEF Message
      <3>3. ASSUME NEW y \in sent[k].up, SoleSession(y), v = User[y], t[1] = Home[y]
            PROVE  z = y
        BY <3>2, <3>3 DEF RouteInv, SoleSession, Lone
      <3> QED BY <1>2, <1>4, <1>5, <1>6, <2>1, <3>1, <3>2, <3>3
    <2>2. CASE o # t
      <3>1. job'[o] = job[o]
        BY <1>5, <2>2
      <3>2. sent[job[o].msg].up \subseteq Sessions
        BY <3>1, Bounds DEF Message, IInv, JobInv, JobOk
      <3>3. HandInv!(o)
        BY DEF HandInv
      <3> QED BY <1>2, <1>6, <3>1, <3>2, <3>3
    <2> QED BY <2>1, <2>2
  <1>9. CoverInv'
    <2> SUFFICES ASSUME NEW m \in DOMAIN sent, NEW y \in sent[m].up,
                        SoleSession(y)', User[y] \in sent[m].always
                 PROVE  Pending(m, y)'
      BY <1>2 DEF CoverInv
    <2>1. y \in Sessions /\ Home[y] \in Servers
      BY Bounds, DeliveryAssumption DEF Message
    <2>2. Pending(m, y)
      BY <1>6, <2>1 DEF CoverInv
    <2>3. \A o \in Threads : Work(o, m, y) => Work(o, m, y)'
      BY <1>2, <1>4, <1>5 DEF Work
    <2>4. Sub(Home[y]) \in Threads
      BY <2>1, ThreadFacts
    <2> QED BY <1>2, <2>2, <2>3, <2>4 DEF Pending, Astray
  <1>10. AtInv'
    BY <1>2, <1>4, <1>5, SameAt
  <1> QED BY <1>6, <1>7, <1>8, <1>9, <1>10

\* A thread that is done with an addressee sent to his only session, or put the
\* message in the inbox of its server.
LEMMA AdvanceLoss ==
  ASSUME IInv, LossInv, NEW t \in Threads,
         SendToSession(t) \/ Publish(t) \/ PublishFails(t) \/ NobodyHere(t)
  PROVE  LossInv'
  <1> USE DEF LossInv
  <1> DEFINE k == job[t].msg
             w == job[t].to
             z == job[t].hand
             left == job[t].todo \ {w}
             J == IF left = {} THEN NoJob
                  ELSE [job[t] EXCEPT !.at = "lookup", !.todo = left, !.to = None, !.hand = None]
  <1>1. /\ job[t].at = "send"
        /\ job' = [job EXCEPT ![t] = J]
        /\ UNCHANGED <<phase, manager, connected, commands, subs, caller, taken, members, sent>>
    BY DEF SendToSession, Publish, PublishFails, NobodyHere, Advance, life, feed, ghost
  <1>2. /\ k \in DOMAIN sent /\ job[t] \in Job /\ w \in job[t].todo
        /\ z # None => z \in Sessions /\ User[z] = w /\ Home[z] = t[1]
    BY <1>1, Bounds DEF IInv, JobInv, JobOk, Job
  <1>3. /\ J.at \in {"idle", "lookup"} /\ J.msg \in {k, 0}
        /\ left # {} => J.msg = k /\ J.at = "lookup" /\ J.todo = left
    BY <1>2 DEF NoJob, Job
  <1>4. /\ job'[t] = J
        /\ \A o \in Threads \ {t} : job'[o] = job[o]
    BY <1>1 DEF IInv, TypeOK
  <1>5. /\ \A s \in Servers : Range(inbox[s]) \subseteq Range(inbox'[s])
        /\ \A y \in Sessions : Range(got[y]) \subseteq Range(got'[y])
        /\ SendToSession(t) /\ Reads(z) => k \in Range(got'[z])
        /\ Publish(t) => \A s \in Servers : w \in subs[s] => k \in Range(inbox'[s])
    <2>1. k \in 1 .. Len(sent)
      BY <1>2, Bounds
    <2>2. CASE SendToSession(t)
      <3>1. /\ z # None /\ inbox' = inbox
            /\ got' = IF Reads(z) THEN [got EXCEPT ![z] = Append(@, k)] ELSE got
            /\ ~Publish(t)
        BY <2>2 DEF SendToSession, Publish
      <3>2. z \in Sessions /\ got[z] \in Seq(1 .. Len(sent))
        BY <1>2, <3>1, Bounds
      <3> HIDE DEF k, z
      <3>3. Range(Append(got[z], k)) = Range(got[z]) \cup {k}
        BY <2>1, <3>2, AppendFacts
      <3> QED BY <3>1, <3>2, <3>3 DEF IInv, TypeOK
    <2>3. CASE Publish(t)
      <3>1. /\ inbox' = [s \in Servers |-> IF w \in subs[s] THEN Append(inbox[s], k)
                                           ELSE inbox[s]]
            /\ got' = got /\ ~SendToSession(t)
        BY <2>3 DEF SendToSession, Publish
      <3>2. \A s \in Servers : inbox[s] \in Seq(1 .. Len(sent))
        BY Bounds
      <3> HIDE DEF k
      <3>3. \A s \in Servers : Range(Append(inbox[s], k)) = Range(inbox[s]) \cup {k}
        BY <2>1, <3>2, AppendFacts
      <3> QED BY <3>1, <3>3
    <2>4. CASE PublishFails(t) \/ NobodyHere(t)
      <3>1. UNCHANGED <<inbox, got>> /\ job[t].hand = None
        BY <2>4 DEF PublishFails, NobodyHere
      <3>2. ~SendToSession(t)
        BY <3>1 DEF SendToSession
      <3>3. CASE NobodyHere(t)
        BY <3>1, <3>2, <3>3 DEF NobodyHere, Publish
      <3>4. CASE PublishFails(t) /\ ~Publish(t)
        BY <3>1, <3>2, <3>4
      <3>5. CASE PublishFails(t) /\ Publish(t)
        BY <2>3, <3>5
      <3> QED BY <2>4, <3>3, <3>4, <3>5
    <2> QED BY <2>2, <2>3, <2>4
  <1>6. RouteInv' /\ UnsubInv' /\ \A y \in Sessions : SoleSession(y)' <=> SoleSession(y)
    BY <1>1, StillRoute
  <1>7. UpInv'
    BY <1>1 DEF UpInv, Hears, SoleSession
  <1>8. HandInv'
    <2> SUFFICES ASSUME NEW o \in Threads, job'[o].at = "send"
                 PROVE  HandInv!(o)'
      BY DEF HandInv
    <2>1. job'[o] = job[o]
      BY <1>3, <1>4
    <2>2. sent[job[o].msg].up \subseteq Sessions
      BY <2>1, Bounds DEF Message, IInv, JobInv, JobOk
    <2>3. HandInv!(o)
      BY DEF HandInv
    <2> QED BY <1>1, <1>6, <2>1, <2>2, <2>3
  <1>9. \A u \in Users : unpublished[u] \subseteq unpublished'[u]
    <2>1. CASE unpublished' = unpublished
      BY <2>1
    <2>2. CASE PublishFails(t)
      <3>1. unpublished' = [unpublished EXCEPT ![w] = @ \cup {k}]
        BY <2>2 DEF PublishFails
      <3> HIDE DEF w, k
      <3> QED BY <3>1 DEF IInv, TypeOK
    <2> QED BY <2>1, <2>2 DEF SendToSession, Publish, NobodyHere, ghost
  <1>10. CoverInv'
    <2> SUFFICES ASSUME NEW m \in DOMAIN sent, NEW y \in sent[m].up,
                        SoleSession(y)', User[y] \in sent[m].always
                 PROVE  Pending(m, y)'
      BY <1>1 DEF CoverInv
    <2>1. y \in Sessions /\ Home[y] \in Servers /\ SoleSession(y)
      BY <1>6, Bounds, DeliveryAssumption DEF Message
    <2>2. Pending(m, y)
      BY <2>1 DEF CoverInv
    <2>3. Sub(Home[y]) \in Threads
      BY <2>1, ThreadFacts
    <2>4. \A o \in Threads \ {t} : Work(o, m, y) => Work(o, m, y)'
      BY <1>4 DEF Work
    <2>5. Astray(m, y) => Astray(m, y)'
      BY <1>1, <1>9, <2>1, DeliveryAssumption DEF Astray
    <2>6. CASE ~(Work(t, m, y) /\ w = User[y])
      <3>1. Work(t, m, y) => Work(t, m, y)'
        <4> SUFFICES ASSUME Work(t, m, y) PROVE Work(t, m, y)'
          OBVIOUS
        <4>1. m = k /\ User[y] \in left
          BY <1>1, <2>6 DEF Work
        <4> QED BY <1>3, <1>4, <4>1 DEF Work
      <3> QED BY <1>1, <1>5, <2>1, <2>2, <2>3, <2>4, <2>5, <3>1 DEF Pending
    <2>7. CASE Work(t, m, y) /\ w = User[y]
      <3>1. m = k /\ phase[y] = "up" /\ (t[1] = Home[y] => z = y)
        BY <1>1, <2>1, <2>7 DEF Work, HandInv, SoleSession
      <3>2. t[1] # Home[y] => z = None
        <4> SUFFICES ASSUME t[1] # Home[y], z # None PROVE FALSE
          OBVIOUS
        <4>1. z \in Sessions \ {y} /\ User[z] = User[y]
          BY <1>2, <2>7
        <4> QED BY <1>1, <2>1, <4>1 DEF HandInv, SoleSession
      <3>3. CASE SendToSession(t)
        <4>1. z = y
          BY <3>1, <3>2, <3>3 DEF SendToSession
        <4> QED BY <1>5, <3>1, <3>3, <4>1 DEF Pending, Reads
      <3>4. CASE t[2] # Subscriber /\ z = None
        <4>1. t[1] # Home[y]
          BY <2>1, <3>1, <3>4, DeliveryAssumption
        <4>2. Home[y] # sent[m].at
          BY <1>2, <3>1, <3>4, <4>1, Bounds DEF AtInv
        <4>3. CASE Publish(t)
          <5>1. connected[Home[y]] => User[y] \in subs[Home[y]]
            BY <2>1, <4>2 DEF UpInv, Hears
          <5>2. ~connected[Home[y]] => Astray(m, y)'
            BY <1>1, <4>2 DEF Astray
          <5> QED BY <1>1, <1>5, <2>1, <2>7, <3>1, <4>2, <4>3, <5>1, <5>2 DEF Pending
        <4>4. CASE PublishFails(t)
          <5>1. m \in unpublished'[User[y]]
            BY <2>1, <2>7, <3>1, <4>4, DeliveryAssumption DEF PublishFails, IInv, TypeOK
          <5> QED BY <1>1, <4>2, <5>1 DEF Pending, Astray
        <4> QED BY <3>3, <3>4, <4>3, <4>4 DEF NobodyHere
      <3>5. CASE t[2] = Subscriber /\ t[1] # Home[y]
        <4>1. t # Sub(Home[y])
          BY <2>1, <3>5, ThreadFacts
        <4> QED BY <1>1, <1>5, <2>1, <2>2, <2>3, <2>4, <2>5, <3>5, <4>1 DEF Pending
      <3>6. CASE ~SendToSession(t) /\ t[2] = Subscriber /\ t[1] = Home[y]
        <4>1. z = y /\ y # None
          BY <2>1, <3>1, <3>6, DeliveryAssumption
        <4> QED BY <3>6, <4>1 DEF Publish, PublishFails, NobodyHere
      <3> QED BY <3>3, <3>4, <3>5, <3>6 DEF Publish, PublishFails, NobodyHere
    <2> QED BY <2>6, <2>7
  <1>11. AtInv'
    BY <1>1, <1>3, <1>4, SameAt
  <1> QED BY <1>6, <1>7, <1>8, <1>10, <1>11

LEMMA NextLoss == ASSUME IInv, LossInv, [Next]_vars PROVE LossInv'
  <1>1. ASSUME NEW r \in Traffic, Request(r[1], r[2]) PROVE LossInv'
    <2>1. r[1] \in Sessions /\ r[2] \in Users \cup {Group}
      BY DeliveryAssumption
    <2> QED BY <1>1, <2>1, RequestLoss
  <1>2. ASSUME NEW u \in Movers, addGroupMember(u) \/ removeGroupMember(u) PROVE LossInv'
    BY <1>2, GroupLoss, DeliveryAssumption
  <1>3. CASE UNCHANGED vars
    <2>1. UNCHANGED <<phase, manager, connected, commands, subs, caller, taken, unpublished,
                       members, sent, inbox, job, got>>
      BY <1>3 DEF vars, life, feed, ghost
    <2> QED BY <2>1 DEF LossInv, RouteInv, UnsubInv, Lone, UpInv, Hears, AtInv, HandInv,
                        SoleSession, CoverInv, Pending, Astray, Work
  <1> QED BY <1>1, <1>2, <1>3, LifeLoss, FeedLoss, ReceiveLoss, getGroupMembersLoss,
             getSessionByUidLoss, AdvanceLoss DEF Next, Route

\* A message that nobody routes any more was received by the only session of every
\* addressee who was up all along, and subscribed if on another server than the
\* message was saved on, or it is one of those the code loses: the connection of that
\* server was gone, a call there took it for its reply, or its publication failed
\* (the handlers of chat messages, SessionMgr, publish, subscribe and unsubscribe, the
\* subscriber callback).
THEOREM NothingLostOnTheWay == Spec => []SoleSessionReceives
  <1>1. Init => LossInv
    <2> SUFFICES ASSUME Init PROVE LossInv
      OBVIOUS
    <2>1. sent = <<>> /\ DOMAIN sent = {} /\ \A s \in Servers : DOMAIN commands[s] = {}
      BY EmptySeq DEF Init
    <2>2. RouteInv
      BY DeliveryAssumption DEF Init, RouteInv
    <2> QED BY <2>1, <2>2 DEF Init, LossInv, UnsubInv, UpInv, AtInv, HandInv, CoverInv, NoJob
  <1>2. IInv /\ LossInv => SoleSessionReceives
    <2> SUFFICES ASSUME IInv, LossInv, NEW m \in DOMAIN sent, Settled(m),
                        NEW x \in sent[m].up, SoleSession(x), User[x] \in sent[m].always
                 PROVE  m \in Range(got[x]) \/ Astray(m, x)
      BY DEF SoleSessionReceives
    <2>1. Home[x] \in Servers /\ Sub(Home[x]) \in Threads
      <3>1. x \in Sessions
        BY Bounds DEF Message
      <3> QED BY <3>1, DeliveryAssumption, ThreadFacts
    <2>2. Pending(m, x)
      BY DEF LossInv, CoverInv
    <2> QED BY <2>1, <2>2 DEF Settled, Pending, Work
  <1> QED BY <1>1, <1>2, NextLoss, Invariance, PTL DEF Spec
=============================================================================
