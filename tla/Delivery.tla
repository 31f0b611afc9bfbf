------------------------------ MODULE Delivery ------------------------------
(***************************************************************************)
(* The way of a chat message through several ChatServers: the handlers of  *)
(* LogicSystem for private and group messages (text and image differ in    *)
(* their payload only), Redis publish/subscribe, and the callback of the   *)
(* subscriber thread.  What tells a user of a friend request, or of the    *)
(* answer to one, is looked up, sent, published and received just like a   *)
(* private message, after the tables were changed (Relations), and is one  *)
(* here.                                                                   *)
(*                                                                         *)
(* A thread looks one addressee up in its server's SessionMgr and sends to *)
(* the session it finds.  A handler publishes for an addressee it does not *)
(* find; Redis puts the message in the inbox of each server subscribed to  *)
(* the addressee's channel, whose subscriber thread looks up in its turn.  *)
(* Look-up and send are two steps: the session may have ended in between.  *)
(*                                                                         *)
(* One handler of a user runs at a time on a server (LogicSystem), and a   *)
(* session's frames arrive in order (SendQueue): what is in got[x] is what *)
(* send queued for the client of session x.  Of the life of a session      *)
(* (Presence) there is what concerns SessionMgr and the subscription.      *)
(* There is one group; groups do not influence each other.                 *)
(*                                                                         *)
(* subscribe and unsubscribe send a command on the connection the          *)
(* subscriber thread reads and return with any reply that comes on it:     *)
(* with the one to their command, which Redis may not even have then, or   *)
(* with a message, which is lost (RedisSubscriber).  That connection may   *)
(* be missing from the start, or break, for good; PUBLISH may fail, and    *)
(* nobody looks at its result.                                             *)
(***************************************************************************)
EXTENDS Integers, FiniteSets, Sequences, Functions

CONSTANTS Servers,
          Users,
          Sessions,  \* sessions that are ever authenticated
          Home,      \* the server of a session
          User,      \* the user of a session
          Group,     \* as an addressee
          None,      \* no session, no user
          Subscriber,\* a server's subscriber thread
          Traffic,   \* bound: <<session, addressee>> for each of which messages may be sent
          MaxMsgs,   \* bound: messages sent
          MaxToGroup,\* bound: those of them that are to the group
          Movers,    \* bound: users that are added to the group and removed from it
          Leavers,   \* bound: sessions whose client hangs up
          Present,   \* bound: sessions that are up and subscribed at the start
          Fragile,   \* bound: servers whose subscriber connection may go wrong, and where
                     \* a call may return with another reply than its own
          MaxFaults  \* bound: connections missing or broken, messages a call took,
                     \* and publications that failed

ASSUME DeliveryAssumption ==
  /\ Home \in [Sessions -> Servers]
  /\ User \in [Sessions -> Users]
  /\ Group \notin Users /\ Subscriber \notin Users
  /\ None \notin Users \cup Sessions
  /\ Traffic \subseteq Sessions \X (Users \cup {Group})
  /\ MaxMsgs \in Nat /\ MaxToGroup \in Nat
  /\ Movers \subseteq Users
  /\ Leavers \subseteq Sessions
  /\ Present \subseteq Sessions
  /\ \A x, y \in Present : Home[x] = Home[y] /\ User[x] = User[y] => x = y
  /\ Fragile \subseteq Servers
  /\ MaxFaults \in Nat

VARIABLES phase,   \* of a session's life
          manager, \* manager[s][u]: the session SessionMgr of s has for u, or None
          connected, \* connected[s]: the subscriber connection of s is there and sound
          commands,\* commands[s]: those sent on it that Redis has not executed yet
          subs,    \* subs[s]: the users whose channel s is subscribed to
          caller,  \* caller[s]: the session that waits in subscribe or unsubscribe
          members, \* group_members
          sent,    \* the messages that were saved, by their id
          inbox,   \* inbox[s]: ids Redis has for the subscriber connection of s
          job,     \* what a thread is doing
          got,     \* got[x]: ids of the messages queued for the client of x
          taken,   \* ghost: taken[s]: ids that calls on s took for their reply
          unpublished \* ghost: unpublished[u]: ids whose publication for u failed

feed == <<connected, commands, subs, caller>>
life == <<phase, manager, feed>>
ghost == <<taken, unpublished>>
vars == <<life, members, sent, inbox, job, got, ghost>>

Threads == Servers \X (Users \cup {Subscriber})

Phases == {"new", "entered", "subscribing", "up", "gone", "removed", "closed", "ended"}
Command == {"SUBSCRIBE", "UNSUBSCRIBE"} \X Users

\* Ghost fields: the server it was saved on; the users that were addressed at some
\* time since the message was saved (ever) and at all times (always), who was in the
\* group if it is to the group; and the sessions that were up when it was saved, and
\* subscribed if on another server.
Message == [from : Users, to : Users \cup {Group}, at : Servers,
            ever : SUBSET Users, always : SUBSET Users, up : SUBSET Sessions]

\* to and hand: the addressee that was looked up and the session found for it.
Job == [at : {"idle", "members", "lookup", "send"}, msg : 0 .. MaxMsgs,
        todo : SUBSET Users, to : Users \cup {None}, hand : Sessions \cup {None}]

NoJob == [at |-> "idle", msg |-> 0, todo |-> {}, to |-> None, hand |-> None]

TypeOK ==
  /\ phase \in [Sessions -> Phases]
  /\ manager \in [Servers -> [Users -> Sessions \cup {None}]]
  /\ connected \in [Servers -> BOOLEAN]
  /\ commands \in [Servers -> Seq(Command)]
  /\ subs \in [Servers -> SUBSET Users]
  /\ caller \in [Servers -> Sessions \cup {None}]
  /\ members \subseteq Users
  /\ sent \in Seq(Message) /\ Len(sent) <= MaxMsgs
  /\ inbox \in [Servers -> Seq(1 .. Len(sent))]
  /\ job \in [Threads -> Job]
  /\ \A t \in Threads : job[t].msg <= Len(sent)
  /\ got \in [Sessions -> Seq(1 .. Len(sent))]
  /\ taken \in [Servers -> SUBSET (1 .. MaxMsgs)]
  /\ unpublished \in [Users -> SUBSET (1 .. MaxMsgs)]

\* What went wrong so far.
Faults ==
  Cardinality({s \in Servers : ~connected[s]})
    + Cardinality({p \in Servers \X (1 .. MaxMsgs) : p[2] \in taken[p[1]]})
    + Cardinality({p \in Users \X (1 .. MaxMsgs) : p[2] \in unpublished[p[1]]})

Init ==
  /\ phase = [x \in Sessions |-> IF x \in Present THEN "up" ELSE "new"]
  /\ manager \in [Servers -> [Users -> Present \cup {None}]]
  /\ \A s \in Servers, u \in Users, x \in Present :
       manager[s][u] = x <=> Home[x] = s /\ User[x] = u
  /\ connected \in [Servers -> BOOLEAN]
  /\ \A s \in Servers \ Fragile : connected[s]
  /\ commands = [s \in Servers |-> <<>>]
  /\ subs = [s \in Servers |->
               {u \in Users : connected[s] /\ \E x \in Present : Home[x] = s /\ User[x] = u}]
  /\ caller = [s \in Servers |-> None]
  /\ members = Users
  /\ sent = <<>>
  /\ inbox = [s \in Servers |-> <<>>]
  /\ job = [t \in Threads |-> NoJob]
  /\ got = [x \in Sessions |-> <<>>]
  /\ taken = [s \in Servers |-> {}]
  /\ unpublished = [u \in Users |-> {}]
  /\ Faults <= MaxFaults
-----------------------------------------------------------------------------
(* Sessions *)

Phase(x, from, to) == phase[x] = from /\ phase' = [phase EXCEPT ![x] = to]

Enter(x, y) == manager' = [manager EXCEPT ![Home[x]][User[x]] = y]

AddSession(x) ==
  /\ Phase(x, "new", "entered")
  /\ Enter(x, x)
  /\ UNCHANGED <<feed, members, sent, inbox, job, got, ghost>>

\* subscribe or unsubscribe on the server of x, one call at a time: the command is
\* sent; without a connection nothing is done.
Call(x, verb) ==
  /\ caller[Home[x]] = None
  /\ IF connected[Home[x]]
     THEN /\ commands' = [commands EXCEPT ![Home[x]] = Append(@, <<verb, User[x]>>)]
          /\ caller' = [caller EXCEPT ![Home[x]] = x]
     ELSE UNCHANGED <<commands, caller>>

Subscribe(x) ==
  /\ Phase(x, "entered", IF connected[Home[x]] THEN "subscribing" ELSE "up")
  /\ Call(x, "SUBSCRIBE")
  /\ UNCHANGED <<manager, connected, subs, members, sent, inbox, job, got, ghost>>

\* The client closes the connection.
HangUp(x) ==
  /\ x \in Leavers
  /\ Phase(x, "up", "gone")
  /\ UNCHANGED <<manager, feed, members, sent, inbox, job, got, ghost>>

\* A read reports it, or a write, or the one and then the other: a read leaves the
\* subscription and a write the entry in SessionMgr.
RemoveSession(x) ==
  /\ Phase(x, "gone", "removed") \/ Phase(x, "closed", "ended")
  /\ caller[Home[x]] # x
  /\ Enter(x, None)
  /\ UNCHANGED <<feed, members, sent, inbox, job, got, ghost>>

Unsubscribe(x) ==
  /\ Phase(x, "gone", "closed") \/ Phase(x, "removed", "ended")
  /\ Call(x, "UNSUBSCRIBE")
  /\ UNCHANGED <<manager, connected, subs, members, sent, inbox, job, got, ghost>>

\* The caller on s is done; after subscribe the session is up.
CallEnds(s) ==
  /\ caller[s] # None
  /\ caller' = [caller EXCEPT ![s] = None]
  /\ phase' = [phase EXCEPT ![caller[s]] = IF @ = "subscribing" THEN "up" ELSE @]
  /\ UNCHANGED <<manager, connected, commands, subs, members, sent, job, got, unpublished>>

\* It got a reply, to its own command or to another, or the connection is broken.
CallReturns(s) ==
  /\ CallEnds(s)
  /\ s \in Fragile \/ commands[s] = <<>>
  /\ UNCHANGED <<inbox, taken>>

\* It got a message, and throws it away.
CallTakes(s) ==
  /\ s \in Fragile
  /\ CallEnds(s)
  /\ inbox[s] # <<>>
  /\ Faults < MaxFaults
  /\ taken' = [taken EXCEPT ![s] = @ \cup {Head(inbox[s])}]
  /\ inbox' = [inbox EXCEPT ![s] = Tail(@)]
-----------------------------------------------------------------------------
(* Redis and the subscriber connections *)

Execute(s) ==
  /\ commands[s] # <<>>
  /\ LET u == Head(commands[s])[2]
     IN  subs' = [subs EXCEPT ![s] = IF Head(commands[s])[1] = "SUBSCRIBE"
                                       THEN @ \cup {u} ELSE @ \ {u}]
  /\ commands' = [commands EXCEPT ![s] = Tail(@)]
  /\ UNCHANGED <<phase, manager, connected, caller, members, sent, inbox, job, got, ghost>>

\* A connection breaks, or two threads spoil what was read from it.  What was read
\* before is still handled; the connection is never opened again.
Break(s) ==
  /\ s \in Fragile
  /\ connected[s]
  /\ Faults < MaxFaults
  /\ connected' = [connected EXCEPT ![s] = FALSE]
  /\ commands' = [commands EXCEPT ![s] = <<>>]
  /\ subs' = [subs EXCEPT ![s] = {}]
  /\ \E n \in 0 .. Len(inbox[s]) : inbox' = [inbox EXCEPT ![s] = SubSeq(@, 1, n)]
  /\ UNCHANGED <<phase, manager, caller, members, sent, job, got, ghost>>
-----------------------------------------------------------------------------
(* The group *)

addGroupMember(u) ==
  /\ u \notin members
  /\ members' = members \cup {u}
  /\ sent' = [m \in DOMAIN sent |-> IF sent[m].to = Group
                                     THEN [sent[m] EXCEPT !.ever = @ \cup {u}]
                                     ELSE sent[m]]
  /\ UNCHANGED <<life, inbox, job, got, ghost>>

removeGroupMember(u) ==
  /\ u \in members
  /\ members' = members \ {u}
  /\ sent' = [m \in DOMAIN sent |-> IF sent[m].to = Group
                                     THEN [sent[m] EXCEPT !.always = @ \ {u}]
                                     ELSE sent[m]]
  /\ UNCHANGED <<life, inbox, job, got, ghost>>
-----------------------------------------------------------------------------
(* Handlers and the subscriber's callback *)

ServerOf(t) == t[1]

\* Message m, to a user or to the group, is to be routed by a thread.
Start(m, to) ==
  IF to = Group THEN [NoJob EXCEPT !.at = "members", !.msg = m]
                ELSE [NoJob EXCEPT !.at = "lookup", !.msg = m, !.todo = {to}]

\* The sessions of these users that are up, and subscribed if not on server s.
UpAt(s, users) ==
  {y \in Sessions : /\ phase[y] = "up" /\ User[y] \in users
                    /\ Home[y] = s \/ User[y] \in subs[Home[y]]}

\* A message of the client of x, to v or to the group, is taken by its worker
\* and saved in the database; one that cannot be saved goes no further.
Request(x, v) ==
  LET t == <<Home[x], User[x]>>
      to == IF v = Group THEN members \ {User[x]} ELSE {v}
  IN /\ phase[x] = "up"
     /\ job[t] = NoJob
     /\ Len(sent) < MaxMsgs
     /\ v = Group => Cardinality({m \in DOMAIN sent : sent[m].to = Group}) < MaxToGroup
     /\ sent' = Append(sent, [from |-> User[x], to |-> v, at |-> Home[x],
                              ever |-> to, always |-> to, up |-> UpAt(Home[x], to)])
     /\ job' = [job EXCEPT ![t] = Start(Len(sent) + 1, v)]
     /\ UNCHANGED <<life, members, inbox, got, ghost>>

\* Mutant: the newest message first.
ReceiveLast(s) ==
  LET t == <<s, Subscriber>>
      m == inbox[s][Len(inbox[s])]
  IN /\ job[t] = NoJob
     /\ inbox[s] # <<>>
     /\ job' = [job EXCEPT ![t] = Start(m, sent[m].to)]
     /\ inbox' = [inbox EXCEPT ![s] = SubSeq(@, 1, Len(@) - 1)]
     /\ UNCHANGED <<life, members, sent, got, ghost>>

\* The subscriber thread takes the next message.
Receive(s) ==
  LET t == <<s, Subscriber>>
  IN /\ job[t] = NoJob
     /\ inbox[s] # <<>>
     /\ job' = [job EXCEPT ![t] = Start(Head(inbox[s]), sent[Head(inbox[s])].to)]
     /\ inbox' = [inbox EXCEPT ![s] = Tail(@)]
     /\ UNCHANGED <<life, members, sent, got, ghost>>

\* The members, as of now, but for the sender.
Others(t) == members \ {sent[job[t].msg].from}

\* Mutant: the sender is not left out.
getGroupMembersAll(t) ==
  /\ job[t].at = "members"
  /\ job' = [job EXCEPT ![t] = [@ EXCEPT !.at = "lookup", !.todo = members]]
  /\ UNCHANGED <<life, members, sent, inbox, got, ghost>>

getGroupMembers(t) ==
  /\ job[t].at = "members"
  /\ job' = [job EXCEPT ![t] =
       IF Others(t) = {} THEN NoJob
                         ELSE [@ EXCEPT !.at = "lookup", !.todo = Others(t)]]
  /\ UNCHANGED <<life, members, sent, inbox, got, ghost>>

\* The loop takes some addressee: the database promises no order.
getSessionByUid(t) ==
  /\ job[t].at = "lookup"
  /\ \E v \in job[t].todo :
       job' = [job EXCEPT ![t] = [@ EXCEPT !.at = "send", !.to = v,
                                           !.hand = manager[ServerOf(t)][v]]]
  /\ UNCHANGED <<life, members, sent, inbox, got, ghost>>

\* Mutant: the loop ends with its first addressee.
AdvanceBreaks(t) == job' = [job EXCEPT ![t] = NoJob]

\* The addressee is done with.
Advance(t) ==
  LET left == job[t].todo \ {job[t].to}
  IN job' = [job EXCEPT ![t] =
       IF left = {} THEN NoJob
       ELSE [@ EXCEPT !.at = "lookup", !.todo = left, !.to = None, !.hand = None]]

Reads(x) == phase[x] \in {"entered", "subscribing", "up"}

\* Mutant: a message that was sent here is published all the same.
SendToSessionAndPublish(t) ==
  /\ job[t].at = "send" /\ job[t].hand # None
  /\ got' = IF Reads(job[t].hand)
              THEN [got EXCEPT ![job[t].hand] = Append(@, job[t].msg)] ELSE got
  /\ inbox' = [s \in Servers |-> IF job[t].to \in subs[s] /\ t[2] # Subscriber
                                   THEN Append(inbox[s], job[t].msg) ELSE inbox[s]]
  /\ Advance(t)
  /\ UNCHANGED <<life, members, sent, ghost>>

\* send() on the session in hand; what a session that has ended is given, or one
\* whose client is gone, is lost.
SendToSession(t) ==
  /\ job[t].at = "send" /\ job[t].hand # None
  /\ got' = IF Reads(job[t].hand)
              THEN [got EXCEPT ![job[t].hand] = Append(@, job[t].msg)] ELSE got
  /\ Advance(t)
  /\ UNCHANGED <<life, members, sent, inbox, ghost>>

\* PUBLISH: in the inbox of every server that is subscribed.
Publish(t) ==
  /\ job[t].at = "send" /\ job[t].hand = None
  /\ t[2] # Subscriber
  /\ inbox' = [s \in Servers |-> IF job[t].to \in subs[s]
                                   THEN Append(inbox[s], job[t].msg) ELSE inbox[s]]
  /\ Advance(t)
  /\ UNCHANGED <<life, members, sent, got, ghost>>

\* PUBLISH fails: the handler goes on with the next addressee.
PublishFails(t) ==
  /\ job[t].at = "send" /\ job[t].hand = None
  /\ t[2] # Subscriber
  /\ Faults < MaxFaults
  /\ unpublished' = [unpublished EXCEPT ![job[t].to] = @ \cup {job[t].msg}]
  /\ Advance(t)
  /\ UNCHANGED <<life, members, sent, inbox, got, taken>>

\* The subscriber has nobody to send to.
NobodyHere(t) ==
  /\ job[t].at = "send" /\ job[t].hand = None
  /\ t[2] = Subscriber
  /\ Advance(t)
  /\ UNCHANGED <<life, members, sent, inbox, got, ghost>>

Route(t) ==
  \/ getGroupMembers(t) \/ getSessionByUid(t)
  \/ SendToSession(t) \/ Publish(t) \/ PublishFails(t) \/ NobodyHere(t)
-----------------------------------------------------------------------------
Next ==
  \/ \E x \in Sessions : \/ AddSession(x) \/ Subscribe(x) \/ HangUp(x)
                         \/ RemoveSession(x) \/ Unsubscribe(x)
  \/ \E u \in Movers : addGroupMember(u) \/ removeGroupMember(u)
  \/ \E r \in Traffic : Request(r[1], r[2])
  \/ \E s \in Servers : Execute(s) \/ Break(s) \/ CallReturns(s) \/ CallTakes(s) \/ Receive(s)
  \/ \E t \in Threads : Route(t)

Spec == Init /\ [][Next]_vars
-----------------------------------------------------------------------------
(* Properties *)

\* A message only reaches the user it is for, or users other than its sender who
\* were in the group at some time since it was saved: the group is read again by
\* each server that fans out, and routes and subscriptions of ended sessions
\* are still followed (getSessionByUid, getGroupMembers, the callback).
OnlyAddressees ==
  \A x \in Sessions : \A m \in Range(got[x]) :
    /\ User[x] \in sent[m].ever
    /\ sent[m].to = Group => User[x] # sent[m].from

\* A session receives a private message once at most, whatever sessions of its
\* user come, go and leave behind on however many servers (the look-up, publish
\* and the callback's look-up).
PrivateAtMostOnce ==
  \A x \in Sessions : \A i, j \in DOMAIN got[x] :
    got[x][i] = got[x][j] /\ sent[got[x][i]].to # Group => i = j

\* A session receives a group message once at most.
GroupAtMostOnce ==
  \A x \in Sessions : \A i, j \in DOMAIN got[x] : got[x][i] = got[x][j] => i = j

\* A session receives private message k before m, or not both.
InOrder(x, k, m) ==
  \A i, j \in DOMAIN got[x] : got[x][i] = k /\ got[x][j] = m => i < j

\* All sessions of u are on server r.
AllOn(u, r) == \A y \in Sessions : User[y] = u => Home[y] = r

\* Private messages from one user to another reach a session in the order they
\* were sent in, if the sender's sessions are all on one other server: they all come
\* through that server's worker and the one subscriber connection.  What a session
\* on the sender's server is sent directly may overtake what was published before it
\* was entered there, and workers of two servers may overtake each other.
InOrderAcrossServers ==
  \A x \in Sessions : \A m \in DOMAIN sent : \A k \in 1 .. m - 1 :
    /\ sent[k].to = sent[m].to /\ sent[k].to # Group
    /\ sent[k].from = sent[m].from
    /\ \E r \in Servers \ {Home[x]} : AllOn(sent[k].from, r)
    => InOrder(x, k, m)

\* No thread routes message m, and it is in no inbox.
Settled(m) ==
  /\ \A t \in Threads : job[t].msg # m
  /\ \A s \in Servers : m \notin Range(inbox[s])

\* x is up and no other session of its user ever was.
SoleSession(x) ==
  phase[x] = "up" /\ \A y \in Sessions \ {x} : User[y] = User[x] => phase[y] = "new"

\* Message m may have gone astray between the servers: the one of x, which is not
\* the one it was saved on, has no sound subscriber connection, a call there took the
\* message, or its publication for the user of x failed.
Astray(m, x) ==
  /\ Home[x] # sent[m].at
  /\ \/ ~connected[Home[x]]
     \/ m \in taken[Home[x]]
     \/ m \in unpublished[User[x]]

\* A message that has settled was received by the addressee, or by every member of
\* the group that stayed in it, if the session was up when the message was saved,
\* is still and is the user's only one: on the server it was saved on always, on
\* another one unless it went astray in one of the three ways the code ignores.
SoleSessionReceives ==
  \A m \in DOMAIN sent : Settled(m) =>
    \A x \in sent[m].up :
      SoleSession(x) /\ User[x] \in sent[m].always => m \in Range(got[x]) \/ Astray(m, x)
=============================================================================
