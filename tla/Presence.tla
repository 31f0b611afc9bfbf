------------------------------ MODULE Presence ------------------------------
(***************************************************************************)
(* The life of the connections of one ChatServer, from accept to the end   *)
(* of the session, and what it leaves in the three places that say who is  *)
(* online: SessionMgr (routing inside the server), the Redis subscription  *)
(* user:<uid> (routing between servers) and the Redis hash online_users.   *)
(*                                                                         *)
(* Every io_context is run by one thread (AsioIOcontextPool.cpp), so the   *)
(* completion handlers of a connection run one at a time; pc says where    *)
(* the running one is, "idle" if none runs.  The handlers of different     *)
(* connections, the acceptor and the threads that send to a session        *)
(* interleave: every access to SessionMgr, to CServer or to Redis is a     *)
(* step of its own.  The send queue of a session is module SendQueue; here *)
(* write only says whether a write is outstanding or has failed.           *)
(*                                                                         *)
(* subscribe and unsubscribe append a command on the subscriber connection *)
(* and return with whatever reply they get, which may be another's and may *)
(* come before Redis has seen the command, or wait for ever; without that  *)
(* connection they return at once (how replies go astray: RedisSubscriber).*)
(* The other Redis commands may fail, and the handlers ignore that.  The   *)
(* checkToken call is part of the step that reads its answer.              *)
(***************************************************************************)
EXTENDS Integers, Sequences, FiniteSets

CONSTANTS Conns,     \* connections a client may open
          Users,     \* uids, all positive
          None,      \* no connection, no user
          LoginAs,   \* LoginAs[c]: the uids the client of c holds a token of
          OneLogin,  \* clients send ID_CHAT_LOGIN once per connection
          Unlucky    \* bound: connections whose client may vanish without a word, and
                     \* whose commands on Redis hashes may fail

ASSUME PresenceAssumption ==
  /\ None \notin Conns \cup Users
  /\ LoginAs \in [Conns -> SUBSET Users]
  /\ OneLogin \in BOOLEAN
  /\ Unlucky \subseteq Conns

VARIABLES sock,      \* _socket: "unborn" before accept, "open", "closed" by close()
          peer,      \* the client: "up", "gone" (FIN or RST came), "silent" (nothing comes)
          read,      \* the outstanding async_read: "none", "head" or "body"
          write,     \* the send side: "none" or "busy" outstanding, "failed" for good
          pc,        \* where the running handler of the connection is
          who,       \* _uid once _isAuthenticated, else None
          ended,     \* ghost: how reading ended, "no" while it goes on
          accepting, \* the connection the acceptor has started and not yet inserted
          listed,    \* CServer::_sessions
          manager,   \* SessionMgr::_sessions
          connected, \* the subscriber connection is there and sound
          commands,  \* commands appended on it that Redis has not executed yet
          subs,      \* uids whose channel the server is subscribed to
          online,    \* keys of the Redis hash online_users
          count,     \* chatserver:ChatServer:connections
          failed     \* ghost: connections one of whose hSet and hDel failed

session == <<sock, peer, read, write, pc, who, ended>>
server  == <<accepting, listed, manager>>
feed    == <<connected, commands, subs>>
hash    == <<online, count, failed>>
redis   == <<feed, hash>>
vars    == <<session, server, redis>>

Calling == {"subscribing", "unsubscribing"}
LoginPc == {"addSession", "subscribe", "subscribing", "hSet", "hIncrBy", "reply"}
ClosePc == {"unsubscribe", "unsubscribing", "hDel", "hDecrBy"}
Command == {"SUBSCRIBE", "UNSUBSCRIBE"} \X Users
Pc == LoginPc \cup ClosePc \cup {"idle", "removeSession", "closeSession"}

TypeOK ==
  /\ sock \in [Conns -> {"unborn", "open", "closed"}]
  /\ peer \in [Conns -> {"up", "gone", "silent"}]
  /\ read \in [Conns -> {"none", "head", "body"}]
  /\ write \in [Conns -> {"none", "busy", "failed"}]
  /\ pc \in [Conns -> Pc]
  /\ who \in [Conns -> Users \cup {None}]
  /\ ended \in [Conns -> {"no", "eof", "body", "length", "aborted", "other"}]
  /\ accepting \in Conns \cup {None}
  /\ listed \subseteq Conns
  /\ manager \in [Users -> Conns \cup {None}]
  /\ connected \in BOOLEAN
  /\ commands \in Seq(Command)
  /\ subs \subseteq Users
  /\ online \subseteq Users
  /\ count \in Nat
  /\ failed \subseteq Conns

\* startSubscriber, before the first session, may have found no Redis.
Init ==
  /\ sock = [c \in Conns |-> "unborn"]
  /\ peer = [c \in Conns |-> "up"]
  /\ read = [c \in Conns |-> "none"]
  /\ write = [c \in Conns |-> "none"]
  /\ pc = [c \in Conns |-> "idle"]
  /\ who = [c \in Conns |-> None]
  /\ ended = [c \in Conns |-> "no"]
  /\ accepting = None
  /\ listed = {}
  /\ manager = [u \in Users |-> None]
  /\ connected \in BOOLEAN
  /\ commands = <<>>
  /\ subs = {}
  /\ online = {}
  /\ count = 0
  /\ failed = {}
-----------------------------------------------------------------------------
(* The client and the network. *)

PeerChanges(c, how) ==
  /\ sock[c] # "unborn"
  /\ peer[c] = "up"
  /\ how = "silent" => c \in Unlucky
  /\ peer' = [peer EXCEPT ![c] = how]
  /\ UNCHANGED <<sock, read, write, pc, who, ended, server, redis>>
-----------------------------------------------------------------------------
(* CServer::start: the acceptor starts the session, then inserts it. *)

Accept(c) ==
  /\ accepting = None
  /\ sock[c] = "unborn"
  /\ sock' = [sock EXCEPT ![c] = "open"]
  /\ read' = [read EXCEPT ![c] = "head"]
  /\ accepting' = c
  /\ UNCHANGED <<peer, write, pc, who, ended, listed, manager, redis>>

Insert ==
  /\ accepting # None
  /\ listed' = listed \cup {accepting}
  /\ accepting' = None
  /\ UNCHANGED <<session, manager, redis>>
-----------------------------------------------------------------------------
(* Completion of a read. *)

\* The handler of c runs next; it left its read.
Completes(c, r) == pc[c] = "idle" /\ read[c] = r

HeadOk(c) ==
  /\ Completes(c, "head")
  /\ sock[c] = "open" /\ peer[c] = "up"
  /\ read' = [read EXCEPT ![c] = "body"]
  /\ UNCHANGED <<sock, peer, write, pc, who, ended, server, redis>>

\* Reading ends; the handler goes on at p.
StopReading(c, how, p) ==
  /\ read' = [read EXCEPT ![c] = "none"]
  /\ ended' = [ended EXCEPT ![c] = how]
  /\ pc' = [pc EXCEPT ![c] = p]
  /\ UNCHANGED <<sock, peer, write, who, server, redis>>

\* A length field out of range: only CServer forgets the session.
HeadBadLength(c) ==
  /\ Completes(c, "head")
  /\ sock[c] = "open" /\ peer[c] = "up"
  /\ StopReading(c, "length", "closeSession")

Forget(c) == IF who[c] = None THEN "closeSession" ELSE "removeSession"

\* Mutant: SessionMgr is not told.
HeadEofKeepsRoute(c) ==
  /\ Completes(c, "head")
  /\ sock[c] = "open" /\ peer[c] = "gone"
  /\ StopReading(c, "eof", "closeSession")

\* eof or connection_reset.
HeadEof(c) ==
  /\ Completes(c, "head")
  /\ sock[c] = "open" /\ peer[c] = "gone"
  /\ StopReading(c, "eof", Forget(c))

\* Any other error of the head read is only logged: operation_aborted after
\* close(), a time-out of the network.
HeadAborted(c) ==
  /\ Completes(c, "head")
  /\ sock[c] = "closed"
  /\ StopReading(c, "aborted", "idle")

HeadOtherError(c) ==
  /\ Completes(c, "head")
  /\ sock[c] = "open" /\ peer[c] = "silent"
  /\ StopReading(c, "other", "idle")

\* Every error of the body read, also the one close() causes.
BodyError(c) ==
  /\ Completes(c, "body")
  /\ sock[c] = "closed" \/ peer[c] # "up"
  /\ StopReading(c, "body", Forget(c))
-----------------------------------------------------------------------------
(* handleMessage *)

BodyArrives(c) == Completes(c, "body") /\ sock[c] = "open" /\ peer[c] = "up"

\* send() on the session of c, by whatever thread.
Sent(c) == [write EXCEPT ![c] = IF @ = "none" THEN "busy" ELSE @]

\* A ping, a message that is refused, a login that checkToken refuses or whose
\* values do not parse: a reply, and the next head.
BodyAnswered(c) ==
  /\ BodyArrives(c)
  /\ read' = [read EXCEPT ![c] = "head"]
  /\ write' = Sent(c)
  /\ UNCHANGED <<sock, peer, pc, who, ended, server, redis>>

\* A login without uid or token, or a request of an authenticated session, which
\* is queued for LogicSystem: no reply here, and the next head.
BodyUnanswered(c) ==
  /\ BodyArrives(c)
  /\ read' = [read EXCEPT ![c] = "head"]
  /\ UNCHANGED <<sock, peer, write, pc, who, ended, server, redis>>

\* checkToken accepts u.
BodyLogin(c, u) ==
  /\ BodyArrives(c)
  /\ u \in LoginAs[c]
  /\ OneLogin => who[c] = None
  /\ who' = [who EXCEPT ![c] = u]
  /\ read' = [read EXCEPT ![c] = "none"]
  /\ pc' = [pc EXCEPT ![c] = "addSession"]
  /\ UNCHANGED <<sock, peer, write, ended, server, redis>>

Goto(c, from, to) == pc[c] = from /\ pc' = [pc EXCEPT ![c] = to]

AddSession(c) ==
  /\ Goto(c, "addSession", "subscribe")
  /\ manager' = [manager EXCEPT ![who[c]] = c]
  /\ UNCHANGED <<sock, peer, read, write, who, ended, accepting, listed, redis>>

\* subscribe or unsubscribe, under _subscribeMutex: the command is appended, or
\* without a connection nothing is done and the call returns.
Call(c, from, verb, during, after) ==
  /\ \A d \in Conns : pc[d] \notin Calling
  /\ IF connected THEN /\ Goto(c, from, during)
                       /\ commands' = Append(commands, <<verb, who[c]>>)
                  ELSE /\ Goto(c, from, after)
                       /\ UNCHANGED commands
  /\ UNCHANGED <<sock, peer, read, write, who, ended, server, connected, subs, hash>>

\* A call returns with some reply, or because the connection is broken.
Returns(c, from, to) ==
  /\ Goto(c, from, to)
  /\ UNCHANGED <<sock, peer, read, write, who, ended, server, redis>>

Subscribe(c) == Call(c, "subscribe", "SUBSCRIBE", "subscribing", "hSet")
SubscribeReturns(c) == Returns(c, "subscribing", "hSet")

\* hSet or hDel is done, or fails, and nobody looks at its result.
Put(c, keys) ==
  \/ online' = keys /\ UNCHANGED failed
  \/ c \in Unlucky /\ failed' = failed \cup {c} /\ UNCHANGED online

HSet(c) ==
  /\ Goto(c, "hSet", "hIncrBy")
  /\ Put(c, online \cup {who[c]})
  /\ UNCHANGED <<sock, peer, read, write, who, ended, server, feed, count>>

\* It may fail as well, which is left out: nothing reads the count.
HIncrBy(c) ==
  /\ Goto(c, "hIncrBy", "reply")
  /\ count' = count + 1
  /\ UNCHANGED <<sock, peer, read, write, who, ended, server, feed, online, failed>>

\* The login response and the initial data, then the next head.
Reply(c) ==
  /\ Goto(c, "reply", "idle")
  /\ write' = Sent(c)
  /\ read' = [read EXCEPT ![c] = "head"]
  /\ UNCHANGED <<sock, peer, who, ended, server, redis>>
-----------------------------------------------------------------------------
(* The end of a session. *)

\* Mutant: the session itself is looked for instead of its uid's entry.
RemoveSessionOfOther(c) ==
  /\ Goto(c, "removeSession", "closeSession")
  /\ manager' = [u \in Users |-> IF u # who[c] THEN None ELSE manager[u]]
  /\ UNCHANGED <<sock, peer, read, write, who, ended, accepting, listed, redis>>

\* SessionMgr::removeSession: by uid, whatever session is entered under it.
RemoveSession(c) ==
  /\ Goto(c, "removeSession", "closeSession")
  /\ manager' = [manager EXCEPT ![who[c]] = None]
  /\ UNCHANGED <<sock, peer, read, write, who, ended, accepting, listed, redis>>

\* CServer::closeSession.
CloseSession(c) ==
  /\ Goto(c, "closeSession", "idle")
  /\ listed' = listed \ {c}
  /\ UNCHANGED <<sock, peer, read, write, who, ended, accepting, manager, redis>>

\* handle_async_write with an error: close() shuts the socket, which aborts
\* the outstanding read, and goes on to Redis.
WriteError(c) ==
  /\ pc[c] = "idle"
  /\ write[c] = "busy"
  /\ peer[c] # "up"
  /\ write' = [write EXCEPT ![c] = "failed"]
  /\ sock' = [sock EXCEPT ![c] = "closed"]
  /\ pc' = [pc EXCEPT ![c] = IF who[c] = None THEN "closeSession" ELSE "unsubscribe"]
  /\ UNCHANGED <<peer, read, who, ended, server, redis>>

Unsubscribe(c) == Call(c, "unsubscribe", "UNSUBSCRIBE", "unsubscribing", "hDel")
UnsubscribeReturns(c) == Returns(c, "unsubscribing", "hDel")

\* Mutant: the key is left in the hash.
HDelForgotten(c) ==
  /\ Goto(c, "hDel", "hDecrBy")
  /\ UNCHANGED <<sock, peer, read, write, who, ended, server, redis>>

HDel(c) ==
  /\ Goto(c, "hDel", "hDecrBy")
  /\ Put(c, online \ {who[c]})
  /\ UNCHANGED <<sock, peer, read, write, who, ended, server, feed, count>>

\* Redis has no command HDECRBY: the reply is an error and the count stays.
HDecrBy(c) ==
  /\ Goto(c, "hDecrBy", "closeSession")
  /\ UNCHANGED <<sock, peer, read, write, who, ended, server, redis>>
-----------------------------------------------------------------------------
(* Writes. *)

\* A worker or the subscriber thread sends to the session that SessionMgr
\* gives for u.
Deliver(u) ==
  /\ manager[u] # None
  /\ write' = Sent(manager[u])
  /\ UNCHANGED <<sock, peer, read, pc, who, ended, server, redis>>

\* The kernel takes the bytes, also those of a client that is no longer there.
WriteDone(c) ==
  /\ pc[c] = "idle"
  /\ write[c] = "busy"
  /\ write' = [write EXCEPT ![c] = "none"]
  /\ UNCHANGED <<sock, peer, read, pc, who, ended, server, redis>>
-----------------------------------------------------------------------------
(* The subscriber connection and Redis. *)

\* Commands are written and executed in the order they were appended.
Execute ==
  /\ commands # <<>>
  /\ LET u == Head(commands)[2]
     IN  subs' = IF Head(commands)[1] = "SUBSCRIBE" THEN subs \cup {u} ELSE subs \ {u}
  /\ commands' = Tail(commands)
  /\ UNCHANGED <<session, server, connected, hash>>

\* The connection breaks, or two threads spoil what was read: nothing comes
\* through it any more, and it is never opened again.
Break ==
  /\ connected
  /\ connected' = FALSE /\ commands' = <<>> /\ subs' = {}
  /\ UNCHANGED <<session, server, hash>>
-----------------------------------------------------------------------------
\* The steps of the handlers of c.
Handler(c) ==
  \/ HeadEof(c) \/ HeadAborted(c) \/ BodyError(c)
  \/ AddSession(c) \/ HSet(c) \/ HIncrBy(c) \/ Reply(c)
  \/ RemoveSession(c) \/ CloseSession(c) \/ HDel(c) \/ HDecrBy(c)
  \/ Subscribe(c) \/ SubscribeReturns(c) \/ Unsubscribe(c) \/ UnsubscribeReturns(c)

Next ==
  \/ Insert \/ Execute \/ Break
  \/ \E c \in Conns :
       \/ Accept(c) \/ Handler(c)
       \/ \E how \in {"gone", "silent"} : PeerChanges(c, how)
       \/ HeadOk(c) \/ HeadBadLength(c) \/ HeadOtherError(c)
       \/ BodyAnswered(c) \/ BodyUnanswered(c)
       \/ \E u \in Users : BodyLogin(c, u)
       \/ WriteDone(c) \/ WriteError(c)
  \/ \E u \in Users : Deliver(u)

Spec == Init /\ [][Next]_vars
-----------------------------------------------------------------------------
(* Properties *)

\* The session a uid is routed to has been authenticated as that uid, by the
\* check of the token it sent, and is still the session of that uid: nobody
\* receives another user's messages (CSession::handleMessage, SessionMgr).
RoutedIsAuthenticated ==
  \A u \in Users : manager[u] # None => who[manager[u]] = u

\* A session whose reading ended with the client (eof, reset, an error in a
\* body) and whose handler is done is routed to no more, whatever other
\* sessions of its user came and went (readHead, readBody, removeSession).
DeadNotRouted ==
  \A c \in Conns : ended[c] \in {"eof", "body"} /\ pc[c] = "idle" =>
    \A u \in Users : manager[u] # c

\* The user of session c never had another connection.
Alone(c) == \A d \in Conns \ {c} : who[d] # who[c]

\* The channel of u is subscribed to once the commands appended have come to Redis.
WillBeSubscribed(u) ==
  LET Appended(verb) == {i \in DOMAIN commands : commands[i] = <<verb, u>>}
  IN  \/ u \in subs /\ Appended("UNSUBSCRIBE") = {}
      \/ \E i \in Appended("SUBSCRIBE") : \A j \in Appended("UNSUBSCRIBE") : j < i

\* While such a user is in online_users, what another server publishes for it
\* finds this one, or will as soon as the command under way has come to Redis,
\* unless the server has no subscriber connection or a hash command failed;
\* close() goes through the opposite order and is the only other exception
\* (handleMessage, close, RedisMgr::subscribe and unsubscribe).
OnlineIsSubscribed ==
  \A c \in Conns :
    who[c] \in online /\ Alone(c) /\ connected /\ c \notin failed =>
      WillBeSubscribed(who[c]) \/ pc[c] \in {"unsubscribing", "hDel"}

\* The session c has logged in, reads, and can be written to.
Connected(c) ==
  /\ who[c] # None /\ pc[c] = "idle" /\ read[c] # "none"
  /\ sock[c] = "open"

\* The user of session c can be reached from this server; it is shown as online
\* unless that command failed; and, unless the server has no subscriber connection,
\* from other servers as soon as the command under way has come to Redis.
Reachable(c) ==
  /\ manager[who[c]] # None
  /\ c \notin failed => who[c] \in online
  /\ connected => WillBeSubscribed(who[c])

\* A connected user who never had another connection is reachable, whatever
\* other users' sessions do meanwhile on the connections all of them share
\* (handleMessage, close, removeSession, RedisMgr::subscribe and unsubscribe).
SoleSessionReachable ==
  \A c \in Conns : Connected(c) /\ Alone(c) => Reachable(c)

\* A connected user is reachable.
ReachableWhileConnected == \A c \in Conns : Connected(c) => Reachable(c)
=============================================================================
