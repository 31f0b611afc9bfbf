--------------------------- MODULE PresenceProofs ---------------------------
(***************************************************************************)
(* Proofs about Presence, for any number of connections and users and any  *)
(* number of connections of one user, of clients that log in once per      *)
(* connection.  What makes removal by uid safe for the session that ends   *)
(* is that a session is entered under no uid but its own.  What a user     *)
(* with one connection is left with follows from where its handlers are.   *)
(***************************************************************************)
EXTENDS Presence, TLAPS

\* A handler that speaks of a uid has one.
UidInv ==
  \A c \in Conns :
    pc[c] \in LoginPc \cup ClosePc \cup {"removeSession"} => who[c] \in Users

\* Nothing happens on a connection before it is accepted.
BornInv ==
  \A c \in Conns : sock[c] = "unborn" =>
    read[c] = "none" /\ pc[c] = "idle" /\ ended[c] = "no"

BaseInv == TypeOK /\ UidInv /\ BornInv

\* A session that stopped reading never logs in again.
LoginInv ==
  \A c \in Conns :
    /\ pc[c] \in LoginPc => ended[c] = "no"
    /\ ended[c] # "no" => read[c] = "none"

\* The route of a session that ends with its client is gone as soon as
\* removeSession has run.
EndInv ==
  \A c \in Conns : ended[c] \in {"eof", "body"} /\ pc[c] # "removeSession" =>
    \A u \in Users : manager[u] # c

IInv == BaseInv /\ LoginInv /\ RoutedIsAuthenticated /\ EndInv
-----------------------------------------------------------------------------
LEMMA InitInv == Init => IInv
  BY PresenceAssumption
  DEF Init, IInv, BaseInv, TypeOK, UidInv, BornInv, LoginInv, RoutedIsAuthenticated, EndInv, Pc, LoginPc, ClosePc, Calling

\* A read that ends.
LEMMA StopReadingBase ==
  ASSUME BaseInv, NEW c \in Conns, NEW how, NEW p, StopReading(c, how, p),
         read[c] # "none",
         how \in {"eof", "body", "length", "aborted", "other"},
         p \in {"idle", "closeSession", Forget(c)}
  PROVE  BaseInv'
  BY DEF BaseInv, TypeOK, UidInv, BornInv, StopReading, Forget, Pc, LoginPc, ClosePc, Calling,
         server, redis, feed, hash

\* A command is appended, or the call returns at once.
LEMMA CallBase ==
  ASSUME BaseInv, NEW c \in Conns, NEW from \in LoginPc \cup ClosePc,
         NEW verb \in {"SUBSCRIBE", "UNSUBSCRIBE"},
         NEW during \in LoginPc \cup ClosePc, NEW after \in LoginPc \cup ClosePc,
         Call(c, from, verb, during, after)
  PROVE  BaseInv'
  <1> USE DEF BaseInv, TypeOK, UidInv, BornInv, Goto
  <1>1. /\ pc[c] = from /\ who[c] \in Users
        /\ \/ pc' = [pc EXCEPT ![c] = during] /\ commands' = Append(commands, <<verb, who[c]>>)
           \/ pc' = [pc EXCEPT ![c] = after] /\ commands' = commands
        /\ UNCHANGED <<sock, peer, read, write, who, ended, accepting, listed, manager,
                      connected, subs, online, count, failed>>
    BY DEF Call, server, hash
  <1>2. commands' \in Seq(Command)
    <2>1. <<verb, who[c]>> \in Command
      BY <1>1 DEF Command
    <2>2. commands \in Seq(Command)
      OBVIOUS
    <2>3. Append(commands, <<verb, who[c]>>) \in Seq(Command)
      BY <2>1, <2>2
    <2> QED BY <1>1, <2>2, <2>3
  <1>3. pc' \in [Conns -> Pc]
    BY <1>1 DEF Pc
  <1>4. TypeOK'
    BY <1>1, <1>2, <1>3
  <1>5. UidInv' /\ BornInv'
    BY <1>1 DEF LoginPc, ClosePc, Calling, Pc
  <1> QED BY <1>4, <1>5

\* Every step keeps the types and gives no uid-less session a uid's work.
LEMMA NextBase == ASSUME BaseInv, [Next]_vars PROVE BaseInv'
  <1> USE DEF BaseInv, TypeOK, UidInv, BornInv, Pc, LoginPc, ClosePc, Calling, Goto, Completes, BodyArrives, Sent
  <1>1. CASE Insert
    BY <1>1 DEF Insert, session, server, redis, feed, hash
  <1>e. CASE Execute \/ Break
    <2>1. UNCHANGED <<sock, peer, read, write, pc, who, ended, accepting, listed, manager,
                      online, count, failed>>
      BY <1>e DEF Execute, Break, session, server, hash
    <2>2. commands \in Seq(Command)
      OBVIOUS
    <2>3. connected' \in BOOLEAN /\ commands' \in Seq(Command)
      <3>1. commands # <<>> => Tail(commands) \in Seq(Command)
        BY <2>2
      <3>2. <<>> \in Seq(Command)
        OBVIOUS
      <3> QED BY <1>e, <3>1, <3>2 DEF Execute, Break
    <2>4. subs' \subseteq Users
      <3>1. commands # <<>> => Head(commands) \in Command
        BY <2>2
      <3> QED BY <1>e, <3>1 DEF Execute, Break, Command
    <2> QED BY <2>1, <2>3, <2>4
  <1>2. ASSUME NEW c \in Conns, Handler(c) PROVE BaseInv'
    <2>1. CASE HeadEof(c) \/ HeadAborted(c) \/ BodyError(c)
      <3>1. /\ read[c] # "none"
            /\ \/ StopReading(c, "eof", Forget(c))
               \/ StopReading(c, "aborted", "idle")
               \/ StopReading(c, "body", Forget(c))
        BY <2>1 DEF HeadEof, HeadAborted, BodyError
      <3>2. CASE StopReading(c, "eof", Forget(c))
        BY <3>1, <3>2, StopReadingBase
      <3>3. CASE StopReading(c, "aborted", "idle")
        BY <3>1, <3>3, StopReadingBase
      <3>4. CASE StopReading(c, "body", Forget(c))
        BY <3>1, <3>4, StopReadingBase
      <3> QED BY <3>1, <3>2, <3>3, <3>4
    <2>2. CASE AddSession(c)
      BY <2>2 DEF AddSession, redis, feed, hash
    <2>3. CASE HSet(c)
      BY <2>3 DEF HSet, Put, server, feed
    <2>4. CASE HIncrBy(c)
      BY <2>4 DEF HIncrBy, server, feed
    <2>5. CASE Reply(c)
      BY <2>5 DEF Reply, server, redis, feed, hash
    <2>6. CASE RemoveSession(c)
      BY <2>6 DEF RemoveSession, redis, feed, hash
    <2>7. CASE CloseSession(c)
      BY <2>7 DEF CloseSession, redis, feed, hash
    <2>8. CASE HDel(c)
      BY <2>8 DEF HDel, Put, server, feed
    <2>9. CASE HDecrBy(c)
      BY <2>9 DEF HDecrBy, server, redis, feed, hash
    <2>10. CASE Subscribe(c)
      BY <2>10, CallBase DEF Subscribe
    <2>11. CASE Unsubscribe(c)
      BY <2>11, CallBase DEF Unsubscribe
    <2>12. CASE SubscribeReturns(c)
      BY <2>12 DEF SubscribeReturns, Returns, server, redis, feed, hash
    <2>13. CASE UnsubscribeReturns(c)
      BY <2>13 DEF UnsubscribeReturns, Returns, server, redis, feed, hash
    <2> QED BY <1>2, <2>1, <2>2, <2>3, <2>4, <2>5, <2>6, <2>7, <2>8, <2>9, <2>10, <2>11, <2>12, <2>13
            DEF Handler
  <1>3. ASSUME NEW c \in Conns, Accept(c) PROVE BaseInv'
    BY <1>3 DEF Accept, redis, feed, hash
  <1>5. ASSUME NEW c \in Conns, NEW how \in {"gone", "silent"}, PeerChanges(c, how)
        PROVE  BaseInv'
    BY <1>5 DEF PeerChanges, server, redis, feed, hash
  <1>6. ASSUME NEW c \in Conns, HeadOk(c) \/ HeadBadLength(c) \/ HeadOtherError(c)
        PROVE  BaseInv'
    <2>1. CASE HeadOk(c)
      BY <2>1 DEF HeadOk, server, redis, feed, hash
    <2>2. CASE HeadBadLength(c)
      BY <2>2, StopReadingBase DEF HeadBadLength
    <2>3. CASE HeadOtherError(c)
      BY <2>3, StopReadingBase DEF HeadOtherError
    <2> QED BY <1>6, <2>1, <2>2, <2>3
  <1>7. ASSUME NEW c \in Conns, BodyAnswered(c) \/ BodyUnanswered(c) PROVE BaseInv'
    BY <1>7 DEF BodyAnswered, BodyUnanswered, server, redis, feed, hash
  <1>8. ASSUME NEW c \in Conns, NEW u \in Users, BodyLogin(c, u) PROVE BaseInv'
    BY <1>8 DEF BodyLogin, server, redis, feed, hash
  <1>9. ASSUME NEW c \in Conns, WriteDone(c) \/ WriteError(c) PROVE BaseInv'
    <2>1. CASE WriteDone(c)
      BY <1>9, <2>1 DEF WriteDone, server, redis, feed, hash
    <2>2. CASE WriteError(c)
      BY <1>9, <2>2 DEF WriteError, server, redis, feed, hash
    <2> QED BY <1>9, <2>1, <2>2
  <1>10. ASSUME NEW u \in Users, Deliver(u) PROVE BaseInv'
    BY <1>10 DEF Deliver, server, redis, feed, hash
  <1>11. CASE UNCHANGED vars
    BY <1>11 DEF vars, session, server, redis, feed, hash
  <1> QED BY <1>1, <1>e, <1>2, <1>3, <1>5, <1>6, <1>7, <1>8, <1>9, <1>10, <1>11 DEF Next

\* Every variable keeps its type (CSession, CServer, SessionMgr).
THEOREM TypeCorrect == Spec => []TypeOK
  <1>1. Init => BaseInv
    BY InitInv DEF IInv
  <1>2. BaseInv => TypeOK
    BY DEF BaseInv
  <1> QED BY <1>1, <1>2, NextBase, PTL DEF Spec
-----------------------------------------------------------------------------
(* The steps that matter to routing, one lemma each. *)

ParamInv == LoginInv /\ RoutedIsAuthenticated /\ EndInv

\* A read that ends: whoever has a uid goes on to removeSession.
LEMMA StopReadingInv ==
  ASSUME IInv, NEW c \in Conns, pc[c] = "idle", read[c] # "none",
         NEW how, NEW p, StopReading(c, how, p),
         \/ how \in {"eof", "body"} /\ p = Forget(c)
         \/ how \in {"length", "aborted", "other"} /\ p \in {"idle", "closeSession"}
  PROVE  ParamInv'
  <1>1. /\ ended' = [ended EXCEPT ![c] = how] /\ read' = [read EXCEPT ![c] = "none"]
        /\ pc' = [pc EXCEPT ![c] = p] /\ UNCHANGED <<who, manager>>
    BY DEF StopReading, server
  <1>2. p \in {"removeSession", "closeSession", "idle"}
        /\ (p = "removeSession" => who[c] \in Users)
    BY DEF Forget, IInv, BaseInv, UidInv, TypeOK
  <1>3. LoginInv'
    BY <1>1, <1>2 DEF IInv, BaseInv, UidInv, TypeOK, LoginInv, LoginPc
  <1>4. RoutedIsAuthenticated'
    BY <1>1 DEF IInv, RoutedIsAuthenticated
  <1>5. EndInv'
    <2> SUFFICES ASSUME NEW d \in Conns, ended'[d] \in {"eof", "body"},
                        pc'[d] # "removeSession", NEW u \in Users
                 PROVE  manager'[u] # d
      BY DEF EndInv
    <2>1. CASE d # c
      BY <1>1, <2>1 DEF IInv, BaseInv, UidInv, TypeOK, EndInv
    <2>2. CASE d = c
      <3>1. who[c] = None
        BY <1>1, <2>2 DEF IInv, BaseInv, UidInv, TypeOK, Forget
      <3> QED BY <1>1, <2>2, <3>1, PresenceAssumption DEF IInv, RoutedIsAuthenticated
    <2> QED BY <2>1, <2>2
  <1> QED BY <1>3, <1>4, <1>5 DEF ParamInv

\* A login: the session had no uid, hence no route, before.
LEMMA BodyLoginInv ==
  ASSUME OneLogin, IInv, NEW c \in Conns, NEW u \in Users, BodyLogin(c, u)
  PROVE  ParamInv'
  <1>1. /\ who[c] = None /\ pc[c] = "idle" /\ read[c] = "body"
        /\ who' = [who EXCEPT ![c] = u] /\ read' = [read EXCEPT ![c] = "none"]
        /\ pc' = [pc EXCEPT ![c] = "addSession"] /\ UNCHANGED <<ended, manager>>
    BY DEF BodyLogin, BodyArrives, Completes, server
  <1>2. ended[c] = "no"
    BY <1>1 DEF IInv, LoginInv
  <1>3. \A v \in Users : manager[v] # c
    BY <1>1, PresenceAssumption DEF IInv, RoutedIsAuthenticated
  <1>4. LoginInv'
    BY <1>1, <1>2 DEF IInv, BaseInv, UidInv, TypeOK, LoginInv, LoginPc
  <1>5. RoutedIsAuthenticated'
    BY <1>1, <1>3 DEF IInv, BaseInv, UidInv, TypeOK, RoutedIsAuthenticated
  <1>6. EndInv'
    BY <1>1, <1>2, <1>3 DEF IInv, BaseInv, UidInv, TypeOK, EndInv
  <1> QED BY <1>4, <1>5, <1>6 DEF ParamInv

LEMMA AddSessionInv ==
  ASSUME IInv, NEW c \in Conns, AddSession(c)
  PROVE  ParamInv'
  <1>1. /\ pc[c] = "addSession" /\ pc' = [pc EXCEPT ![c] = "subscribe"]
        /\ manager' = [manager EXCEPT ![who[c]] = c] /\ UNCHANGED <<read, who, ended>>
    BY DEF AddSession, Goto
  <1>2. ended[c] = "no" /\ who[c] \in Users
    BY <1>1 DEF IInv, BaseInv, UidInv, LoginInv, LoginPc
  <1>3. LoginInv'
    BY <1>1, <1>2 DEF IInv, BaseInv, UidInv, TypeOK, LoginInv, LoginPc
  <1>4. RoutedIsAuthenticated'
    BY <1>1, <1>2 DEF IInv, BaseInv, UidInv, TypeOK, RoutedIsAuthenticated
  <1>5. EndInv'
    BY <1>1, <1>2 DEF IInv, BaseInv, UidInv, TypeOK, EndInv
  <1> QED BY <1>3, <1>4, <1>5 DEF ParamInv

\* Removal by uid removes the only entry the session can have.
LEMMA RemoveSessionInv ==
  ASSUME IInv, NEW c \in Conns, RemoveSession(c)
  PROVE  ParamInv'
  <1>1. /\ pc[c] = "removeSession" /\ pc' = [pc EXCEPT ![c] = "closeSession"]
        /\ manager' = [manager EXCEPT ![who[c]] = None] /\ UNCHANGED <<read, who, ended>>
    BY DEF RemoveSession, Goto
  <1>2. who[c] \in Users
    BY <1>1 DEF IInv, BaseInv, UidInv
  <1>3. \A u \in Users : manager'[u] # None => manager'[u] = manager[u] /\ u # who[c]
    BY <1>1, <1>2 DEF IInv, BaseInv, UidInv, TypeOK
  <1>4. LoginInv'
    BY <1>1 DEF IInv, BaseInv, UidInv, TypeOK, LoginInv, LoginPc
  <1>5. RoutedIsAuthenticated'
    BY <1>1, <1>3 DEF IInv, RoutedIsAuthenticated
  <1>6. EndInv'
    <2> SUFFICES ASSUME NEW d \in Conns, ended'[d] \in {"eof", "body"},
                        pc'[d] # "removeSession", NEW u \in Users, manager'[u] = d
                 PROVE  FALSE
      BY DEF EndInv
    <2>1. manager[u] = d /\ u # who[c] /\ d # None
      BY <1>3, PresenceAssumption
    <2>2. who[d] = u
      BY <2>1 DEF IInv, RoutedIsAuthenticated
    <2>3. d # c
      BY <2>1, <2>2
    <2> QED BY <1>1, <2>1, <2>3 DEF IInv, BaseInv, UidInv, TypeOK, EndInv
  <1> QED BY <1>4, <1>5, <1>6 DEF ParamInv

\* Steps that concern neither reading nor routing.
LEMMA UnchangedInv ==
  ASSUME IInv, UNCHANGED <<manager, who, ended, pc, read>>
  PROVE  ParamInv'
  BY DEF ParamInv, IInv, LoginInv, RoutedIsAuthenticated, EndInv

LEMMA NextInv == ASSUME OneLogin, IInv, [Next]_vars PROVE IInv'
  <1>t. BaseInv'
    BY NextBase DEF IInv
  <1>1. ASSUME Insert \/ Execute \/ Break \/ UNCHANGED vars PROVE ParamInv'
    <2>1. UNCHANGED <<manager, who, ended, pc, read>>
      BY <1>1 DEF Insert, Execute, Break, vars, session, server
    <2> QED BY <2>1, UnchangedInv
  <1>d. ASSUME NEW u \in Users, Deliver(u) PROVE ParamInv'
    BY <1>d, UnchangedInv DEF Deliver, server
  <1>2. ASSUME NEW c \in Conns, Handler(c) PROVE ParamInv'
    <2>1. CASE HeadEof(c)
      BY <2>1, StopReadingInv DEF HeadEof, Completes
    <2>2. CASE HeadAborted(c)
      BY <2>2, StopReadingInv DEF HeadAborted, Completes
    <2>3. CASE BodyError(c)
      BY <2>3, StopReadingInv DEF BodyError, Completes
    <2>4. CASE AddSession(c)
      BY <2>4, AddSessionInv
    <2>5. CASE RemoveSession(c)
      BY <2>5, RemoveSessionInv
    <2>6. CASE HSet(c) \/ HIncrBy(c)
      BY <2>6 DEF HSet, Put, HIncrBy, Goto, server, IInv, BaseInv, UidInv, TypeOK, ParamInv, LoginInv,
                  RoutedIsAuthenticated, EndInv, LoginPc
    <2>7. CASE Reply(c)
      BY <2>7 DEF Reply, Goto, server, IInv, BaseInv, UidInv, TypeOK, ParamInv, LoginInv,
                  RoutedIsAuthenticated, EndInv, LoginPc
    <2>8. CASE CloseSession(c) \/ HDel(c) \/ HDecrBy(c)
      BY <2>8 DEF CloseSession, HDel, HDecrBy, Goto, server, IInv, BaseInv, UidInv, TypeOK, ParamInv,
                  LoginInv, RoutedIsAuthenticated, EndInv, LoginPc
    <2>9. CASE Subscribe(c) \/ SubscribeReturns(c)
      <3>1. /\ pc[c] \in {"subscribe", "subscribing"}
            /\ \E to \in {"subscribing", "hSet"} : pc' = [pc EXCEPT ![c] = to]
            /\ UNCHANGED <<manager, who, ended, read>>
        BY <2>9 DEF Subscribe, SubscribeReturns, Call, Returns, Goto, server
      <3> QED BY <3>1 DEF IInv, BaseInv, UidInv, TypeOK, ParamInv, LoginInv,
                          RoutedIsAuthenticated, EndInv, LoginPc
    <2>10. CASE Unsubscribe(c) \/ UnsubscribeReturns(c)
      <3>1. /\ pc[c] \in {"unsubscribe", "unsubscribing"}
            /\ \E to \in {"unsubscribing", "hDel"} : pc' = [pc EXCEPT ![c] = to]
            /\ UNCHANGED <<manager, who, ended, read>>
        BY <2>10 DEF Unsubscribe, UnsubscribeReturns, Call, Returns, Goto, server
      <3> QED BY <3>1 DEF IInv, BaseInv, UidInv, TypeOK, ParamInv, LoginInv,
                          RoutedIsAuthenticated, EndInv, LoginPc
    <2> QED BY <1>2, <2>1, <2>2, <2>3, <2>4, <2>5, <2>6, <2>7, <2>8, <2>9, <2>10 DEF Handler
  <1>3. ASSUME NEW c \in Conns, Accept(c) PROVE ParamInv'
    <2>1. ended[c] = "no"
      BY <1>3 DEF Accept, IInv, BaseInv, BornInv
    <2> QED BY <1>3, <2>1 DEF Accept, IInv, BaseInv, UidInv, TypeOK, ParamInv, LoginInv, RoutedIsAuthenticated, EndInv
  <1>5. ASSUME NEW c \in Conns, NEW how \in {"gone", "silent"}, PeerChanges(c, how)
        PROVE  ParamInv'
    BY <1>5, UnchangedInv DEF PeerChanges, server
  <1>6. ASSUME NEW c \in Conns, HeadOk(c) \/ BodyAnswered(c) \/ BodyUnanswered(c)
        PROVE  ParamInv'
    <2>1. ended[c] = "no"
      BY <1>6 DEF HeadOk, BodyAnswered, BodyUnanswered, BodyArrives, Completes, IInv, LoginInv
    <2> QED BY <1>6, <2>1 DEF HeadOk, BodyAnswered, BodyUnanswered, server, IInv, BaseInv, UidInv, TypeOK,
                ParamInv, LoginInv, RoutedIsAuthenticated, EndInv
  <1>7. ASSUME NEW c \in Conns, HeadBadLength(c) \/ HeadOtherError(c) PROVE ParamInv'
    BY <1>7, StopReadingInv DEF HeadBadLength, HeadOtherError, Completes
  <1>8. ASSUME NEW c \in Conns, NEW u \in Users, BodyLogin(c, u) PROVE ParamInv'
    BY <1>8, BodyLoginInv
  <1>9. ASSUME NEW c \in Conns, WriteDone(c) PROVE ParamInv'
    BY <1>9, UnchangedInv DEF WriteDone, server
  <1>10. ASSUME NEW c \in Conns, WriteError(c) PROVE ParamInv'
    BY <1>10 DEF WriteError, server, IInv, BaseInv, UidInv, TypeOK, ParamInv, LoginInv,
                 RoutedIsAuthenticated, EndInv, LoginPc
  <1>11. ParamInv'
    BY <1>1, <1>d, <1>2, <1>3, <1>5, <1>6, <1>7, <1>8, <1>9, <1>10 DEF Next
  <1> QED BY <1>t, <1>11 DEF IInv, ParamInv

\* The inductive invariant, for clients that log in once per connection.
THEOREM Invariance == ASSUME OneLogin PROVE Spec => []IInv
  BY InitInv, NextInv, PTL DEF Spec

\* Nobody is routed another user's messages (CSession::handleMessage,
\* SessionMgr::addSession, SessionMgr::removeSession).
THEOREM RoutesAuthenticated == ASSUME OneLogin PROVE Spec => []RoutedIsAuthenticated
  BY Invariance, PTL DEF IInv

\* A session that ended with its client is routed to no more (CSession::readHead,
\* CSession::readBody, SessionMgr::removeSession).
THEOREM DeadUnrouted == ASSUME OneLogin PROVE Spec => []DeadNotRouted
  <1>1. IInv => DeadNotRouted
    BY DEF IInv, EndInv, DeadNotRouted
  <1> QED BY <1>1, Invariance, PTL
-----------------------------------------------------------------------------
(* Reachability. *)

\* Nobody has a uid before it is accepted; what close() does comes after it has
\* closed the socket; a session on its way out by the read side reads no more.
ShapeInv ==
  \A c \in Conns :
    /\ sock[c] = "unborn" => who[c] = None
    /\ pc[c] \in ClosePc => sock[c] = "closed"
    /\ pc[c] = "removeSession" \/ (pc[c] = "closeSession" /\ sock[c] = "open")
         => read[c] = "none"

\* Whoever is online had a session.
OwnedInv == \A u \in online : \E c \in Conns : who[c] = u

\* The users whose channel is, or is about to be, subscribed to.
Heard == {u \in Users : WillBeSubscribed(u)}

\* What the steps of login and end leave behind for a user with one session.
SoleInv ==
  \A c \in Conns : who[c] # None /\ Alone(c) =>
    /\ pc[c] \in {"subscribing", "hSet", "hIncrBy", "reply"} /\ connected => who[c] \in Heard
    /\ pc[c] \in {"hIncrBy", "reply"} /\ c \notin failed => who[c] \in online
    /\ sock[c] = "open" /\ pc[c] \in {"idle", "removeSession", "closeSession"}
         => /\ connected => who[c] \in Heard
            /\ c \notin failed => who[c] \in online
    /\ pc[c] \in {"subscribe", "subscribing", "hSet", "hIncrBy", "reply"}
         => manager[who[c]] # None
    /\ sock[c] = "open" /\ pc[c] = "idle" /\ read[c] # "none"
         => manager[who[c]] # None
    /\ who[c] \in online /\ connected /\ c \notin failed
         => who[c] \in Heard \/ pc[c] \in {"unsubscribing", "hDel"}

ReachInv == ShapeInv /\ OwnedInv /\ SoleInv

\* Who is heard depends on the subscriptions and the commands only.
LEMMA HeardSame == ASSUME UNCHANGED <<commands, subs>> PROVE Heard' = Heard
  BY DEF Heard, WillBeSubscribed

\* Redis gets the next command: what was heard, or about to be, still is.
LEMMA HeardExecute == ASSUME TypeOK, Execute PROVE Heard \subseteq Heard'
  <1> SUFFICES ASSUME NEW u \in Users, WillBeSubscribed(u)
               PROVE  WillBeSubscribed(u)'
    BY DEF Heard
  <1>1. /\ commands # <<>> /\ commands \in Seq(Command)
        /\ commands' = Tail(commands)
        /\ subs' = IF Head(commands)[1] = "SUBSCRIBE" THEN subs \cup {Head(commands)[2]}
                   ELSE subs \ {Head(commands)[2]}
    BY DEF Execute, TypeOK
  <1>2. /\ Len(commands) \in Nat \ {0} /\ DOMAIN commands = 1 .. Len(commands)
        /\ DOMAIN commands' = 1 .. Len(commands) - 1
        /\ \A i \in 1 .. Len(commands) - 1 : commands'[i] = commands[i + 1]
        /\ Head(commands) = commands[1] /\ commands[1] \in Command
    BY <1>1
  <1>3. CASE u \in subs /\ \A j \in DOMAIN commands : commands[j] # <<"UNSUBSCRIBE", u>>
    <2>1. commands[1] # <<"UNSUBSCRIBE", u>>
      BY <1>1, <1>2, <1>3
    <2>2. u \in subs'
      BY <1>1, <1>2, <1>3, <2>1 DEF Command
    <2>3. \A j \in DOMAIN commands' : commands'[j] # <<"UNSUBSCRIBE", u>>
      BY <1>2, <1>3
    <2> QED BY <2>2, <2>3 DEF WillBeSubscribed
  <1>4. CASE \E i \in DOMAIN commands :
               /\ commands[i] = <<"SUBSCRIBE", u>>
               /\ \A j \in DOMAIN commands : commands[j] = <<"UNSUBSCRIBE", u>> => j < i
    <2>1. PICK i \in DOMAIN commands :
               /\ commands[i] = <<"SUBSCRIBE", u>>
               /\ \A j \in DOMAIN commands : commands[j] = <<"UNSUBSCRIBE", u>> => j < i
      BY <1>4
    <2>2. CASE i = 1
      <3>1. u \in subs'
        BY <1>1, <1>2, <2>1, <2>2 DEF Command
      <3>2. \A j \in DOMAIN commands' : commands'[j] # <<"UNSUBSCRIBE", u>>
        BY <1>2, <2>1, <2>2
      <3> QED BY <3>1, <3>2 DEF WillBeSubscribed
    <2>3. CASE i # 1
      <3>1. i - 1 \in DOMAIN commands' /\ commands'[i - 1] = <<"SUBSCRIBE", u>>
        BY <1>2, <2>1, <2>3
      <3>2. \A j \in DOMAIN commands' : commands'[j] = <<"UNSUBSCRIBE", u>> => j < i - 1
        BY <1>2, <2>1
      <3> QED BY <3>1, <3>2 DEF WillBeSubscribed
    <2> QED BY <2>2, <2>3
  <1> QED BY <1>3, <1>4 DEF WillBeSubscribed

\* A command is appended: one to subscribe will be obeyed, one to unsubscribe
\* concerns nobody else.
LEMMA HeardAppend ==
  ASSUME TypeOK, NEW v \in Users, NEW verb \in {"SUBSCRIBE", "UNSUBSCRIBE"},
         subs' = subs, commands' = Append(commands, <<verb, v>>)
  PROVE  /\ Heard \ {v} \subseteq Heard'
         /\ verb = "SUBSCRIBE" => v \in Heard'
  <1>1. /\ Len(commands) \in Nat /\ DOMAIN commands = 1 .. Len(commands)
        /\ DOMAIN commands' = 1 .. Len(commands) + 1
        /\ \A i \in 1 .. Len(commands) : commands'[i] = commands[i]
        /\ commands'[Len(commands) + 1] = <<verb, v>>
    BY DEF TypeOK
  <1>2. ASSUME NEW u \in Users, u # v, WillBeSubscribed(u) PROVE WillBeSubscribed(u)'
    <2>1. \A i \in DOMAIN commands' : \A w \in {"SUBSCRIBE", "UNSUBSCRIBE"} :
            commands'[i] = <<w, u>> => i \in DOMAIN commands /\ commands[i] = <<w, u>>
      BY <1>1, <1>2
    <2>2. \A i \in DOMAIN commands : i \in DOMAIN commands' /\ commands'[i] = commands[i]
      BY <1>1
    <2>3. CASE u \in subs /\ \A j \in DOMAIN commands : commands[j] # <<"UNSUBSCRIBE", u>>
      BY <2>1, <2>3 DEF WillBeSubscribed
    <2>4. CASE \E i \in DOMAIN commands :
                 /\ commands[i] = <<"SUBSCRIBE", u>>
                 /\ \A j \in DOMAIN commands : commands[j] = <<"UNSUBSCRIBE", u>> => j < i
      <3>1. PICK i \in DOMAIN commands :
                 /\ commands[i] = <<"SUBSCRIBE", u>>
                 /\ \A j \in DOMAIN commands : commands[j] = <<"UNSUBSCRIBE", u>> => j < i
        BY <2>4
      <3>2. i \in DOMAIN commands' /\ commands'[i] = <<"SUBSCRIBE", u>>
        BY <2>2, <3>1
      <3>3. \A j \in DOMAIN commands' : commands'[j] = <<"UNSUBSCRIBE", u>> => j < i
        BY <2>1, <3>1
      <3> QED BY <3>2, <3>3 DEF WillBeSubscribed
    <2> QED BY <1>2, <2>3, <2>4 DEF WillBeSubscribed
  <1>3. ASSUME verb = "SUBSCRIBE" PROVE WillBeSubscribed(v)'
    <2>1. /\ Len(commands) + 1 \in DOMAIN commands'
          /\ commands'[Len(commands) + 1] = <<"SUBSCRIBE", v>>
      BY <1>1, <1>3
    <2>2. \A j \in DOMAIN commands' : commands'[j] = <<"UNSUBSCRIBE", v>> => j < Len(commands) + 1
      BY <1>1, <1>3
    <2> QED BY <2>1, <2>2 DEF WillBeSubscribed
  <1> QED BY <1>2, <1>3 DEF Heard

\* A read that ends: whoever has a uid goes on to removeSession, or forgets
\* nothing but the entry of CServer.
LEMMA StopReadingReach ==
  ASSUME IInv, ReachInv, NEW c \in Conns, pc[c] = "idle", read[c] # "none",
         NEW how, NEW p, StopReading(c, how, p),
         p \in {"idle", "closeSession", Forget(c)}
  PROVE  ReachInv'
  <1>1. /\ read' = [read EXCEPT ![c] = "none"] /\ pc' = [pc EXCEPT ![c] = p]
        /\ UNCHANGED <<sock, who, manager, connected, Heard, online, failed>>
        /\ p \in {"idle", "closeSession", "removeSession"}
    BY HeardSame DEF StopReading, Forget, server, redis, feed, hash
  <1> USE DEF IInv, BaseInv, TypeOK
  <1>2. ShapeInv'
    BY <1>1 DEF ReachInv, ShapeInv, ClosePc
  <1>3. OwnedInv'
    BY <1>1 DEF ReachInv, OwnedInv
  <1>4. SoleInv'
    BY <1>1 DEF ReachInv, SoleInv, Alone
  <1> QED BY <1>2, <1>3, <1>4 DEF ReachInv

\* A login: if no other session ever had the uid, it was not online.
LEMMA BodyLoginReach ==
  ASSUME OneLogin, IInv, ReachInv, NEW c \in Conns, NEW u \in Users, BodyLogin(c, u)
  PROVE  ReachInv'
  <1>1. /\ who[c] = None /\ pc[c] = "idle" /\ sock[c] = "open"
        /\ who' = [who EXCEPT ![c] = u] /\ read' = [read EXCEPT ![c] = "none"]
        /\ pc' = [pc EXCEPT ![c] = "addSession"]
        /\ UNCHANGED <<sock, manager, connected, Heard, online, failed>>
    BY HeardSame DEF BodyLogin, BodyArrives, Completes, server, redis, feed, hash
  <1> USE DEF IInv, BaseInv, TypeOK
  <1>2. ShapeInv'
    BY <1>1 DEF ReachInv, ShapeInv, ClosePc
  <1>3. OwnedInv'
    BY <1>1, PresenceAssumption DEF ReachInv, OwnedInv
  <1>4. SoleInv'
    <2> SUFFICES ASSUME NEW d \in Conns, who'[d] # None, Alone(d)'
                 PROVE  SoleInv!(d)'
      BY DEF SoleInv
    <2>1. CASE d = c
      <3>1. u \notin online
        BY <1>1, <2>1, PresenceAssumption DEF ReachInv, OwnedInv, Alone
      <3> QED BY <1>1, <2>1, <3>1
    <2>2. CASE d # c
      <3>1. who[d] = who'[d] /\ Alone(d)
        BY <1>1, <2>2 DEF Alone
      <3> QED BY <1>1, <2>2, <3>1 DEF ReachInv, SoleInv
    <2> QED BY <2>1, <2>2
  <1> QED BY <1>2, <1>3, <1>4 DEF ReachInv

\* subscribe and unsubscribe: the other users stay heard.
LEMMA CallReach ==
  ASSUME IInv, ReachInv, NEW c \in Conns,
         \/ Subscribe(c) \/ SubscribeReturns(c) \/ Unsubscribe(c) \/ UnsubscribeReturns(c)
  PROVE  ReachInv'
  <1> USE DEF IInv, BaseInv, TypeOK
  <1>1. UNCHANGED <<sock, read, who, manager, connected, online, failed>>
    BY DEF Subscribe, SubscribeReturns, Unsubscribe, UnsubscribeReturns, Call, Returns,
           server, redis, feed, hash
  <1>2. \A d \in Conns : Alone(d)' <=> Alone(d)
    BY <1>1 DEF Alone
  <1>3. \/ /\ pc[c] = "subscribe"
           /\ pc' = [pc EXCEPT ![c] = IF connected THEN "subscribing" ELSE "hSet"]
           /\ who[c] \in Users
           /\ connected => Heard \cup {who[c]} \subseteq Heard'
        \/ /\ pc[c] = "subscribing" /\ pc' = [pc EXCEPT ![c] = "hSet"]
           /\ Heard' = Heard
        \/ /\ pc[c] = "unsubscribe"
           /\ pc' = [pc EXCEPT ![c] = IF connected THEN "unsubscribing" ELSE "hDel"]
           /\ connected => Heard \ {who[c]} \subseteq Heard'
        \/ /\ pc[c] = "unsubscribing" /\ pc' = [pc EXCEPT ![c] = "hDel"]
           /\ Heard' = Heard
    <2>1. CASE Subscribe(c)
      <3>1. /\ pc[c] = "subscribe" /\ who[c] \in Users
            /\ pc' = [pc EXCEPT ![c] = IF connected THEN "subscribing" ELSE "hSet"]
            /\ connected => commands' = Append(commands, <<"SUBSCRIBE", who[c]>>)
            /\ subs' = subs
        BY <2>1 DEF Subscribe, Call, Goto, UidInv, LoginPc
      <3> QED BY <3>1, HeardAppend
    <2>2. CASE Unsubscribe(c)
      <3>1. /\ pc[c] = "unsubscribe" /\ who[c] \in Users
            /\ pc' = [pc EXCEPT ![c] = IF connected THEN "unsubscribing" ELSE "hDel"]
            /\ connected => commands' = Append(commands, <<"UNSUBSCRIBE", who[c]>>)
            /\ subs' = subs
        BY <2>2 DEF Unsubscribe, Call, Goto, UidInv, ClosePc
      <3> QED BY <3>1, HeardAppend
    <2>3. CASE SubscribeReturns(c) \/ UnsubscribeReturns(c)
      BY <2>3, HeardSame DEF SubscribeReturns, UnsubscribeReturns, Returns, Goto, redis, feed
    <2> QED BY <2>1, <2>2, <2>3
  <1>4. ShapeInv'
    BY <1>1, <1>3 DEF ReachInv, ShapeInv, ClosePc, BornInv
  <1>5. OwnedInv'
    BY <1>1 DEF ReachInv, OwnedInv
  <1>6. SoleInv'
    <2> SUFFICES ASSUME NEW d \in Conns, who[d] # None, Alone(d)
                 PROVE  SoleInv!(d)'
      BY <1>1, <1>2 DEF SoleInv
    <2>1. SoleInv!(d) /\ who[d] \in Users
      BY DEF ReachInv, SoleInv
    <2>2. CASE d = c
      <3>1. sock[c] = "closed" \/ pc[c] \in {"subscribe", "subscribing"}
        BY <1>3 DEF ReachInv, ShapeInv, ClosePc
      <3> QED BY <1>1, <1>3, <2>1, <2>2, <3>1
    <2>3. CASE d # c
      <3>1. pc'[d] = pc[d] /\ who[d] # who[c]
        BY <1>3, <2>3 DEF Alone
      <3>2. connected /\ who[d] \in Heard => who[d] \in Heard'
        BY <1>3, <3>1
      <3> QED BY <1>1, <2>1, <3>1, <3>2
    <2> QED BY <2>2, <2>3
  <1> QED BY <1>4, <1>5, <1>6 DEF ReachInv

\* The subscriber connection and Redis.
LEMMA FeedReach ==
  ASSUME IInv, ReachInv, Execute \/ Break
  PROVE  ReachInv'
  <1>1. UNCHANGED <<sock, read, pc, who, manager, online, failed>>
    BY DEF Execute, Break, session, server, hash
  <1>2. connected' => connected /\ Heard \subseteq Heard'
    BY HeardExecute DEF Execute, Break, IInv, BaseInv
  <1>3. ShapeInv' /\ OwnedInv'
    BY <1>1 DEF ReachInv, ShapeInv, OwnedInv
  <1>4. SoleInv'
    BY <1>1, <1>2 DEF ReachInv, SoleInv, Alone
  <1> QED BY <1>3, <1>4 DEF ReachInv

\* The steps of a login and of an end that change routing or the hash: what one
\* session takes away is another's only if both are of one user.
LEMMA SessionStepReach ==
  ASSUME IInv, ReachInv, NEW c \in Conns,
         \/ AddSession(c) \/ HSet(c) \/ HIncrBy(c) \/ Reply(c)
         \/ RemoveSession(c) \/ CloseSession(c) \/ HDel(c) \/ HDecrBy(c)
  PROVE  ReachInv'
  <1> USE DEF IInv, BaseInv, TypeOK
  <1>1. UNCHANGED <<who, sock, connected, Heard>>
    BY HeardSame DEF AddSession, HSet, HIncrBy, Reply, RemoveSession, CloseSession,
                     HDel, HDecrBy, redis, feed
  <1>2. \A d \in Conns : Alone(d)' <=> Alone(d)
    BY <1>1 DEF Alone
  <1>3. ShapeInv'
    BY <1>1 DEF ReachInv, ShapeInv, LoginInv, LoginPc, ClosePc, BornInv, Goto,
      AddSession, HSet, HIncrBy, Reply, RemoveSession, CloseSession, HDel, HDecrBy
  <1>4. OwnedInv'
    BY <1>1 DEF ReachInv, OwnedInv, Goto, redis, hash, Put,
      AddSession, HSet, HIncrBy, Reply, RemoveSession, CloseSession, HDel, HDecrBy
  <1>5. SoleInv'
    <2> SUFFICES ASSUME NEW d \in Conns, who[d] # None, Alone(d)
                 PROVE  SoleInv!(d)'
      BY <1>1, <1>2 DEF SoleInv
    <2>1. SoleInv!(d)
      BY DEF ReachInv, SoleInv
    <2>2. who[d] \in Users
      OBVIOUS
    <2>3. CASE AddSession(c)
      BY <1>1, <2>1, <2>2, <2>3, PresenceAssumption DEF AddSession, Goto, redis, hash, UidInv, LoginPc
    <2>4. CASE HSet(c) \/ HIncrBy(c)
      <3>1. CASE d = c
        BY <1>1, <2>1, <2>4, <3>1 DEF HSet, Put, HIncrBy, Goto, server
      <3>2. CASE d # c
        BY <1>1, <2>1, <2>4, <3>2 DEF HSet, Put, HIncrBy, Goto, server, Alone
      <3> QED BY <3>1, <3>2
    <2>5. CASE Reply(c)
      <3>1. /\ pc[c] = "reply" /\ pc' = [pc EXCEPT ![c] = "idle"]
            /\ UNCHANGED <<manager, online, failed>>
            /\ \A e \in Conns : e # c => read'[e] = read[e]
        BY <2>5 DEF Reply, Goto, server, redis, hash
      <3>2. CASE d = c
        BY <1>1, <2>1, <3>1, <3>2
      <3>3. CASE d # c
        BY <1>1, <2>1, <3>1, <3>3
      <3> QED BY <3>2, <3>3
    <2>6. CASE RemoveSession(c)
      BY <1>1, <2>1, <2>2, <2>6 DEF RemoveSession, Goto, redis, hash, Alone, ReachInv, ShapeInv
    <2>7. CASE CloseSession(c)
      BY <1>1, <2>1, <2>7 DEF CloseSession, Goto, redis, hash, ReachInv, ShapeInv
    <2>8. CASE HDel(c)
      <3>1. /\ pc[c] = "hDel" /\ sock[c] = "closed" /\ pc' = [pc EXCEPT ![c] = "hDecrBy"]
            /\ UNCHANGED <<manager, read>>
            /\ \/ online' = online \ {who[c]} /\ failed' = failed
               \/ online' = online /\ failed' = failed \cup {c}
        BY <2>8 DEF HDel, Put, Goto, server, ReachInv, ShapeInv, ClosePc
      <3>2. CASE d = c
        BY <1>1, <2>1, <3>1, <3>2
      <3>3. CASE d # c
        BY <1>1, <2>1, <3>1, <3>3 DEF Alone
      <3> QED BY <3>2, <3>3
    <2>9. CASE HDecrBy(c)
      BY <1>1, <2>1, <2>9 DEF HDecrBy, Goto, server, redis, hash, ReachInv, ShapeInv, ClosePc
    <2> QED BY <2>3, <2>4, <2>5, <2>6, <2>7, <2>8, <2>9
  <1> QED BY <1>3, <1>4, <1>5 DEF ReachInv

\* Steps of one connection that touch neither uids, nor handlers, nor what
\* is shared.
LEMMA QuietReach ==
  ASSUME IInv, ReachInv, NEW c \in Conns,
         UNCHANGED <<who, pc, manager, redis>>,
         \/ UNCHANGED <<sock, read>>
         \/ sock' = sock /\ pc[c] = "idle" /\ read[c] # "none"
              /\ \E r \in {"head", "body"} : read' = [read EXCEPT ![c] = r]
  PROVE  ReachInv'
  <1> USE DEF IInv, BaseInv, TypeOK
  <1>1. UNCHANGED <<connected, Heard, online, failed>>
    BY HeardSame DEF redis, feed, hash
  <1>2. ShapeInv'
    BY DEF ReachInv, ShapeInv, ClosePc
  <1>3. OwnedInv' /\ SoleInv'
    BY <1>1 DEF ReachInv, OwnedInv, SoleInv, Alone
  <1> QED BY <1>2, <1>3 DEF ReachInv

LEMMA NextReach == ASSUME OneLogin, IInv, ReachInv, [Next]_vars PROVE ReachInv'
  <1>1. CASE Insert \/ UNCHANGED vars
    <2>1. UNCHANGED <<who, pc, manager, connected, Heard, online, failed, sock, read>>
      BY <1>1, HeardSame DEF Insert, vars, session, server, redis, feed, hash
    <2> QED BY <2>1 DEF ReachInv, ShapeInv, OwnedInv, SoleInv, Alone
  <1>e. CASE Execute \/ Break
    BY <1>e, FeedReach
  <1>2. ASSUME NEW u \in Users, Deliver(u) PROVE ReachInv'
    <2>1. UNCHANGED <<who, pc, manager, connected, Heard, online, failed, sock, read>>
      BY <1>2, HeardSame DEF Deliver, server, redis, feed, hash
    <2> QED BY <2>1 DEF ReachInv, ShapeInv, OwnedInv, SoleInv, Alone
  <1>3. ASSUME NEW c \in Conns, HeadEof(c) \/ HeadAborted(c) \/ BodyError(c)
                                \/ HeadBadLength(c) \/ HeadOtherError(c)
        PROVE  ReachInv'
    <2>1. /\ pc[c] = "idle" /\ read[c] # "none"
          /\ \E how : \E p \in {"idle", "closeSession", Forget(c)} : StopReading(c, how, p)
      BY <1>3 DEF HeadEof, HeadAborted, BodyError, HeadBadLength, HeadOtherError, Completes
    <2> QED BY <2>1, StopReadingReach
  <1>4. ASSUME NEW c \in Conns,
               \/ AddSession(c) \/ HSet(c) \/ HIncrBy(c) \/ Reply(c)
               \/ RemoveSession(c) \/ CloseSession(c) \/ HDel(c) \/ HDecrBy(c)
        PROVE  ReachInv'
    BY <1>4, SessionStepReach
  <1>c. ASSUME NEW c \in Conns,
               \/ Subscribe(c) \/ SubscribeReturns(c)
               \/ Unsubscribe(c) \/ UnsubscribeReturns(c)
        PROVE  ReachInv'
    BY <1>c, CallReach
  <1>5. ASSUME NEW c \in Conns, Accept(c) PROVE ReachInv'
    <2>1. /\ sock[c] = "unborn" /\ who[c] = None
          /\ sock' = [sock EXCEPT ![c] = "open"] /\ read' = [read EXCEPT ![c] = "head"]
          /\ pc[c] = "idle"
          /\ UNCHANGED <<who, pc, manager, connected, Heard, online, failed>>
      BY <1>5, HeardSame DEF Accept, redis, feed, hash, ReachInv, ShapeInv, IInv, BaseInv, BornInv
    <2>2. ShapeInv'
      BY <2>1 DEF ReachInv, ShapeInv, ClosePc, IInv, BaseInv, TypeOK
    <2>3. OwnedInv' /\ SoleInv'
      BY <2>1 DEF ReachInv, OwnedInv, SoleInv, Alone, IInv, BaseInv, TypeOK
    <2> QED BY <2>2, <2>3 DEF ReachInv
  <1>6. ASSUME NEW c \in Conns, NEW how \in {"gone", "silent"}, PeerChanges(c, how)
        PROVE  ReachInv'
    BY <1>6, QuietReach DEF PeerChanges, server
  <1>7. ASSUME NEW c \in Conns, HeadOk(c) \/ BodyAnswered(c) \/ BodyUnanswered(c)
        PROVE  ReachInv'
    BY <1>7, QuietReach
    DEF HeadOk, BodyAnswered, BodyUnanswered, BodyArrives, Completes, server
  <1>8. ASSUME NEW c \in Conns, NEW u \in Users, BodyLogin(c, u) PROVE ReachInv'
    BY <1>8, BodyLoginReach
  <1>9. ASSUME NEW c \in Conns, WriteDone(c) PROVE ReachInv'
    BY <1>9, QuietReach DEF WriteDone, server
  <1>10. ASSUME NEW c \in Conns, WriteError(c) PROVE ReachInv'
    <2>1. /\ pc[c] = "idle" /\ sock' = [sock EXCEPT ![c] = "closed"]
          /\ pc' = [pc EXCEPT ![c] = IF who[c] = None THEN "closeSession" ELSE "unsubscribe"]
          /\ UNCHANGED <<read, who, manager, connected, Heard, online, failed>>
      BY <1>10, HeardSame DEF WriteError, server, redis, feed, hash
    <2>2. ShapeInv'
      BY <2>1 DEF ReachInv, ShapeInv, ClosePc, IInv, BaseInv, TypeOK
    <2>3. OwnedInv'
      BY <2>1 DEF ReachInv, OwnedInv
    <2>4. SoleInv'
      BY <2>1 DEF ReachInv, SoleInv, Alone, IInv, BaseInv, TypeOK
    <2> QED BY <2>2, <2>3, <2>4 DEF ReachInv
  <1> QED BY <1>1, <1>e, <1>2, <1>3, <1>4, <1>c, <1>5, <1>6, <1>7, <1>8, <1>9, <1>10
          DEF Next, Handler

LEMMA InitReach == Init => ReachInv
  BY DEF Init, ReachInv, ShapeInv, OwnedInv, SoleInv, ClosePc

\* Reachability is inductive on top of IInv.
THEOREM Reachability == ASSUME OneLogin PROVE Spec => []ReachInv
  BY InitReach, NextReach, Invariance, PTL DEF Spec

\* Whoever is online and had one session is subscribed to, or will be as soon as
\* Redis has the command, while the server has its subscriber connection: but for
\* the moment between the two commands of close (CSession::handleMessage,
\* CSession::close, RedisMgr::subscribe, RedisMgr::unsubscribe).
THEOREM OnlineSubscribed == ASSUME OneLogin PROVE Spec => []OnlineIsSubscribed
  <1>1. IInv /\ ReachInv => OnlineIsSubscribed
    BY PresenceAssumption
    DEF IInv, BaseInv, TypeOK, ReachInv, SoleInv, OnlineIsSubscribed, Heard
  <1> QED BY <1>1, Invariance, Reachability, PTL

\* A connected user with one session can be reached, as far as the hash commands
\* and the subscriber connection have not failed (CSession::handleMessage,
\* SessionMgr::addSession, removeSession, RedisMgr::subscribe).
THEOREM SoleReachable == ASSUME OneLogin PROVE Spec => []SoleSessionReachable
  <1>1. ReachInv => SoleSessionReachable
    BY DEF ReachInv, SoleInv, SoleSessionReachable, Connected, Reachable, Heard
  <1> QED BY <1>1, Reachability, PTL
=============================================================================
