# WeChat: models, checks and proofs

TLA+ models of the WeChat servers in this repository (C++ and Node.js), the TLC
configurations that check them and TLAPS proofs about them. Paths are relative to
`src/`; line numbers are in `PROJECT.json` under `map`.

Run from this directory: `tlc -config X.cfg MCY.tla` for a run, `tlapm YProofs.tla` for
the proofs (a few minutes each). A run marked *violation* below is expected to end with a counterexample.

## 1. The system

    Qt client --HTTP--> GateServer --gRPC--> StatusServer <--gRPC-- ChatServer (register, heartbeat)
        |                   |  \--gRPC--> VerifyServer (codes by mail)
        |                   |                         \
        +------TCP----------+------------------------> ChatServer --Redis pub/sub--> other ChatServers
                        MySQL (accounts, friends, groups, messages), Redis (tokens, codes, online users, counts)

A client registers or logs in at GateServer, which checks the password in MySQL and asks
StatusServer for a chat server and a token. The client opens a TCP connection to that
ChatServer and sends the token; ChatServer has StatusServer check it, enters the session
under the user's uid, subscribes to the user's Redis channel and enters the user in
`online_users`. From then on requests of the client go through one of several task queues to
a handler; what a handler has to tell another user goes to that user's session if it is
here and is published in Redis if not.

### Inventory

| Component | State | Operations | Hard behaviour | What makes it correct |
|---|---|---|---|---|
| ChatServer `LogicSystem` (queues) | one queue, mutex and condition variable per worker; `_isStop` | `postMsgToQueue`, `workerThread`, `close` | io threads, workers and shutdown interleave at every unlock; lost wake-ups; bounded queue | handlers of one user run one at a time, in order, each message once; nobody sleeps over work; close returns |
| `CSession`, send side | send queue, one outstanding `async_write`, `_isStop` | `send`, `handle_async_write` | `send` from workers, the subscriber and the io thread; write errors; bounded queue | frames reach the client whole and in order; no write after close |
| `CSession` read side, `CServer`, `SessionMgr` | uid and authentication of a session, the two session maps, subscriptions, `online_users`, connection count | accept, `readHead`, `readBody`, login, `close`, `closeSession` | sessions on different io threads change shared maps and Redis; five ways for a session to end | a user is routed to the right, living session, and is reachable while connected |
| StatusServer tokens | `token_<uid>` in Redis | `insertToken`, `checkToken`, `removeToken` | RPC threads interleave between Redis commands; expiry | an old, expired or used token is refused; a token is good once |
| StatusServer registry | `chatServers`, `freeServer`; counts in Redis | `RegisterChatServer`, `Heartbeat`, health check, `choseChatServer` | heartbeats against the health check's rounds; restarts; servers cut off | live servers stay, dead ones leave, clients go to the least loaded registered one |
| MySQL pool | idle sessions, `_isStop`, background threads | `getSession`, `returnSession`, `checkConnection`, `reconnect`, `close` | waiters and `notify_one`; nested use; broken sessions; detached threads | sessions are used by one operation at a time; every operation returns |
| Redis pool, gRPC stub pools | as above | as above | as above | as above |
| Redis subscriber | one hiredis context for three kinds of thread | `subscribe`, `unsubscribe`, `subscriberLoop`, `close` | replies read by another thread than the one that asked; no connection, and nobody is told | each message and each reply reaches whom it is for |
| Message routing: handlers of private and group messages, subscriber callback | none of its own; `SessionMgr`, `group_members`, Redis channels | look up, send or publish, fan out to members; the callback does the same on other servers | look-up, then send; the receiver moves between servers; publish to nobody, or failed; members change during fan-out | only addressees get a message, once and in order; a user who stays connected gets it unless the Redis connections lost it |
| Friends and groups: five handlers and their tables in MySQL | requests, friendships, groups, members | `addFriendRequest`, `updateFriendRequestStatus`, `addFriendRelation`, `createGroup`, ... | check, then insert; several statements without a transaction; two servers, one database | friends only after asking and accepting; what a reply says is stored; a pair or a group is left half done by failures only |
| GateServer HTTP | connection, deadline timer, task queue, pool of io_contexts | accept, read, `pushTask`, workers, `response`, the end of main and of the singletons | timer against worker; dropped tasks; exceptions in workers; singletons destroyed in either order; handlers that hang | one answer at most, the right one; every request is answered or closed |
| VerifyServer, registration | code in Redis with an expiry | `GetVerifyCode`; register and reset by code | an `await` between get, set, expire and mail; the connection is quit on an error | an account changes only with a code mailed to its address; a code is replaced only by a call that overlapped another |
| Framing | 16-bit lengths, receive buffers | `encodeMessage`, `readMessage`, `readHead`, `send` | lengths that do not fit | the stream stays readable |
| Qt client, configuration, generated and vendored code | | | | not modelled |

The hazards this code is exposed to, each at its line, are in `PROJECT.json` under `hazards`
with the properties that watch them, or a note why none does.

## 2. Modules

| Module | Of | What it is |
|---|---|---|
| `ActorMailbox` | abstract | what the queues promise: per user, handlers one at a time, in order of acceptance |
| `LogicSystem` | ChatServer/LogicSystem.cpp | queues, workers and shutdown at the granularity of the mutexes |
| `OrderedChannel` | abstract | what a session's send side promises: an in-order channel |
| `SendQueue` | ChatServer/CSession.cpp | send queue and writes of one session |
| `Presence` | CSession.cpp, CServer.cpp, SessionMgr.cpp, RedisMgr.cpp | sessions from accept to end, login, routing, presence in Redis |
| `LoginToken` | StatusServiceImpl.cpp | tokens, at the granularity of Redis commands |
| `Registry` | StatusServiceImpl.cpp, both main.cpp | chat servers, heartbeats, health check, choice |
| `MySQLPool` | ChatServer/MySQLMgr.cpp | the session pool with its waiters and threads |
| `Delivery` | LogicSystem.cpp (handlers and callback), SessionMgr.cpp, RedisMgr.cpp | the way of a chat message over several ChatServers |
| `MessageFeed` | abstract | what the callback of a Redis subscription relies on: messages in order, each once at most |
| `RedisSubscriber` | ChatServer/RedisMgr.cpp, external: hiredis | the subscriber's context, shared by its loop, the callers of `subscribe` and `close` |
| `FriendBook` | abstract | what is promised about friends: asked, accepted, stored, told, in this order |
| `Relations` | ChatServer/LogicSystem.cpp, ChatServer/MySQLMgr.cpp | friend requests, friendships, groups and members, statement by statement |
| `VerifyCode` | VerifyServer/*.js, GateServer/LogicSystem.cpp, MySQLMgr.cpp, VerifyGrpcClient.cpp | codes from the call that makes them to the registration that uses them |
| `HttpExchange` | abstract | what an HTTP client is promised: one answer at most, to its own request |
| `GateRequest` | GateServer: CServer, HttpConnection, LogicSystem | connections, their deadlines, the task queue, workers and shutdown |
| `MC...` | | model values and definitions for TLC |
| `LogicSystemProofs`, `SendQueueProofs`, `PresenceProofs`, `DeliveryProofs`, `RedisSubscriberProofs` | | theorems and proofs about the module they extend |
| `StatusServerProofs` | | about `LoginToken` and `Registry` |
| `GateServerProofs` | | about `GateRequest` and `VerifyCode` |
| `DatabaseProofs` | | about `Relations` and `MySQLPool` |

A proof module that is about two models extends both. The one named second has its own names for
the definitions every specification has (`RegistrySpec`, `VerifyInit`, `PoolTypeOK`, `poolVars`, ...),
so that the two can be read together; they share no variable and are not composed.

An operator whose comment begins with *Mutant* is a plausible bug in the definition that
follows it; it is used by nothing but the list of mutants in `PROJECT.json`, which says
which property it would violate.

**LogicSystem.** `ppc[s]` is where the io thread of session `s` is in `postMsgToQueue` (idle or
about to notify), `wpc[w]` where worker `w` is in `workerThread`: top of the loop, wanting the
lock, predicate evaluated and about to block, waiting, running a handler, or in the drain. Each mutex section is a
step; the predicate and the blocking are two, because `close` sets `_isStop` and notifies without the mutex.
A message is a uid and its number among the accepted ones of that uid. `getQueueIndex` is
modelled as written, for uids that are not positive too: GateServer asks for tokens for uid -1 or
-2 when its look-up fails.

**SendQueue.** A frame is a number and goes over the wire in `Pieces`. `writes` is a set, so
that a mistake which starts a second `async_write` has the effect it has on a socket: pieces of
two frames mix. After an error the frame stays in the queue, which is all that keeps
later calls of `send` from writing to the closed socket.

**Presence.** `pc[c]` is the step a handler of session `c` is at; everything between two
accesses to shared state (a map, a Redis command) is one step. `sock`, `read`, `write` are the
socket, the outstanding read and write; `peer` is the client. `manager` is SessionMgr's map,
`listed` CServer's; `subs`, `online` and `count` are what is in Redis. `ended[c]` remembers by which
path reading ended, because every path cleans up something else. `subscribe` and `unsubscribe` promise
little, and the login goes on whatever they did: without a sound subscriber connection (`connected`) they
do nothing; with one they append their command and return with any reply, maybe before Redis
has executed the command (`commands`). The connection may be missing from the start and
may break at any moment, and is never opened again. `hSet` and `hDel` may fail for the connections in `Unlucky`.

**LoginToken.** `token[u]` is the Redis key. Ghost fields of a call record what was true when
it began, for the properties speak of calls that begin after something.

**Registry.** Time is the health check's rounds. `late[n]` counts rounds since the last
heartbeat that arrived; `Drift` bounds it for a server that runs and can be reached: both loops
sleep five seconds, so it is 1 or 2, against `maxMissedHeartbeats` = 5. The code's `GET` of a hash is
an error, so `currentCount` is 0 for every server.

**MySQLPool.** An operation is `Nested` if it holds a session while it calls another operation
(`resetPassword`, `loginAcconut`, `loginEmail`, `createGroup`). The detached threads of `reconnect` are counted by how far
they are (`starting`, `adding`). Sessions in the pool are a set.

**Delivery.** The four handlers of chat messages, and what tells a user of a friend request or its answer, are
routed by the same steps; the module calls them all messages. A thread is a user's handler on a server, or a server's subscriber thread; `job[t]`
is what it is routing: about to read the members, to look an addressee up, or to send by what
it found (`hand`). `Request` is the handler up to the message's being saved, `Publish` puts it
in the `inbox` of each subscribed server, `Receive` takes it from there; `PublishFails` is what the
handlers do not notice. Of `Presence` there is what routing
sees: a session is entered, subscribed, and when its client is gone a failing read takes the route away, a failing write the
subscription, or each after the other. Of `RedisSubscriber` there is what routing suffers from:
`subscribe` and `unsubscribe` (`caller`) append to `commands`, which Redis executes later, and return
with any reply (`CallReturns`) or with a message out of the `inbox`, which is lost (`CallTakes`); a server's
connection may be missing or break (`Break`). `taken` and `unpublished` remember what was lost which way, so that
`SoleSessionReceives` can say that there is no other. Of `LogicSystem` and `SendQueue` there is what they
promise: one handler of a user at a time on a server, and a session that receives in order
what it is sent. A message records who was addressed at some time since it was saved and at all
times, for the members are read again on each server. The client's `fromUid` is taken for the
session's user: handlers believe it, and the Qt client fills it in truthfully.

**RedisSubscriber.** `at[t]` is where a thread is in `redisGetReply`: taking a reply from the
reader's buffer, writing the output buffer, or blocked reading the socket. `_subscribeMutex`
is held by a caller over its whole call and never by the loop, so any of the threads may
read what is meant for another; a message a caller reads is taken for the answer and lost, and
what one thread read too much of waits in the buffer while another blocks. Two threads in the
buffer at once is a data race: it goes well or leaves the context in error (that it may crash is
left out). A context in error is never replaced, and `close` frees it before joining the
loop. `Presence` and `Delivery` have the same calls in fewer steps: whatever may go
wrong here - a reply that is another's, a message taken for a reply, a context that is missing or in
error - may go wrong there too; this module is about how it comes to that.

**Relations.** A handler is a worker thread of a server of its own; `stmt[h]` is the statement it
is about to execute and every statement ends executed, lost (executed, but the handler sees an
error) or failed. A crash loses a handler between two statements. The handlers believe
`from` and `to` of the request; a client answers only a request it was shown, changes groups it
knows, and asks nobody but others. As written: `createGroup` ignores the result of the
insert of its owner's row, and adding members stops at the first who is one already, so that a
retry after a partial failure never gets past those added before. Not modelled of these
handlers: the history reply, which mixes group ids and uids of the two tables, and that the Qt
client's answer to a request has no `requestId`, at which the handler throws; a client that
sends one is assumed.

**VerifyCode.** `call[k]` is at one of the awaits of `GetVerifyCode` (`get`, `set`, `expire`, mail);
the event loop may run any other call there. Every command may fail before or after Redis
executed it, and an error of the connection makes `redis.js` quit it, after which all
fail until a restart. `form[f]` is a registration or reset of GateServer between its reading of the code and
its statement in MySQL. A code stays in Redis after it was used. It lives ten minutes, the mail
says three. `VerifyGrpcClient.cpp:17` overwrites an error by success, so GateServer tells its client
of a mail nobody sent; its gRPC call has no deadline. Codes are modelled as new for each call.

**GateRequest.** `conn[c]` is what the io side does for a connection, `timer[c]` its wait for the
deadline, `pc[w]` the place of a worker. The 60 seconds run from the construction of the connection,
which is before there is a client, and end a wait that starts only after the request was pushed;
reading has no deadline. A connection lives as long as a read, a task, a worker's hand, a timer or
a write refers to it, and closes when none does: a request that a full queue dropped, or whose
method is not served, keeps its client waiting until the deadline. A body that is no JSON throws out of the worker and ends the process.
`QUEUE_MAX_SIZE` is used but defined nowhere in GateServer's tree, so it is a constant. Handlers of accounts are
opaque: they may return or hang. After a signal `main` goes on to the end of the singletons:
`LogicSystem` is closed, its workers drain the queue with the mutex held, and it is destroyed; the pool of io_contexts is stopped,
joined and destroyed, with all reads, writes and deadlines that are outstanding. They are static
objects of different translation units, so the model has both orders (`gone`). Work of one
that needs the other after its end is undefined, and so is a handler's use of the other
singletons once `main` returns (their end has no step of its own): the process ends, or nothing
is written.

## 3. Runs

Every bound is a CONSTANT marked *bound* in its module, or a small set.

| Run (cfg) | Question | Bounds and why they are enough |
|---|---|---|
| LogicSystem | Do the queues implement the mailbox, shutdown included, and is every accepted message handled? | 2 workers, two devices of one user and one of another whose uid is -1, all three served by one worker: a user has two io threads and a queue has two users' work; queues of 1+1 and two messages for each user, so that they overflow |
| SendQueue | Is a session's send side an in-order channel? | frames of 3 pieces (one could not mix), queue of 3+1, ten frames: overflow, drain and failure occur in every position |
| Presence | Is a route left to a session that read the end of its client, and is a user reachable while his only connection lasts? | two connections, the second of the same user (a second device, a reconnect) or of another; every interleaving of their handlers and every way to end; a subscriber connection that is missing, breaks or answers too early; the first client may vanish without a word, and its hash commands fail |
| PresenceReconnect *violation* | Is a user reachable while connected, when he reconnects? | two connections of one user |
| LoginToken | Are replaced, expired and used tokens refused, and does the newest stay valid? | two users, three tokens, three overlapping calls: a token can be replaced twice, and one can be shown in all three calls |
| Registry | Do live servers stay and dead ones leave? | a configured server and one that only registers and may be cut off; a limit of 2 rounds (5 in the code; the proofs are for every limit), one restart |
| MySQLPool | Is a session used by one operation at a time; is no notification lost; can anything but exhaustion keep an operation; what does `close` leave? | three operations (one waits, one returns, one barges in), two of them nested; a pool of one session, started full or empty, room for a second because `reconnect` overfills the pool; a broken session; `close` at any moment or never |
| Delivery | Does a message only reach addressees, a private one once and in order, and a user's only session unless it was lost in one of three ways? | `a` with a session on the first server, `b` with one on each of two (the first of which may hang up, so that routes and subscriptions stay behind), who joins and leaves the group, and a third user who is in the group and on no server, so that a fan-out goes on after its first addressee; both write to each other; two messages, one of them to the group at most, for order needs two; one fault, of the subscriber connection of the first server, of a call on it, or of a publication: each kind occurs at every moment |
| RedisSubscriber | Does the callback get messages in order and once, what loses one, and where can a message wait for ever? | the loop and two callers (one inside a call, one waiting for the mutex), two channels, three calls, two messages: a stray reply can be a message or an answer to either call |
| Relations | Are friends only those who asked and accepted, do replies say what is stored, and what is left half done? | two users, two servers; three requests (one pending in each direction and a third) or one group (no handler touches both); lists of members that name a user once or twice |
| VerifyCode | Is only a stored code mailed, does an account change only with a code mailed to its address, and which code is replaced? | two addresses, two calls at a time on one or two of them, one form, two codes: one can replace the other |
| GateRequest | Is a request answered once, with its own answer, or closed, and what silences a client? | two connections, two workers (the deadline of one connection against the handler of another), a queue of 0+1, which is full with one task; the first client sends a request of any kind, the second one that is served; a signal at any moment, and both orders of the end |

All of them are exhaustive within their bounds. The largest have 10^5 to 10^6 distinct states;
`Delivery` takes about two minutes, `GateRequest` a minute and a half, the others less. Deadlock is not
checked because every one of these systems may stop: clients stop sending, operations end,
servers shut down.

### Fairness

- `LogicSystem`: weak fairness of each worker's step, of an io thread that has to notify, and of the thread
  in `close`. Threads are scheduled; nobody is obliged to post or to shut down, and spurious
  wake-ups are not relied on.
- `SendQueue`: asio runs completion handlers, and a connection that works takes bytes.
- `Registry`: both loops go on. The health check needs strong fairness because its guard states the assumption on
  time (no reachable server is later than `Drift`), which comes and goes; the loop itself waits for nobody.
- `MySQLPool`: threads go on. Nobody is obliged to call, to close, to break, and opening a
  session may always fail. Each operation is called once, so that a waiter cannot be overtaken for ever: with an
  unbounded stream of operations the code does allow that.
- `VerifyCode`: each call goes on, for Redis and the mail server answer or fail; nobody is obliged
  to ask, to register, or to restart VerifyServer.
- `RedisSubscriber`: Redis executes what it was sent, the loop and a caller inside a call go on; nobody is
  obliged to call or to publish.
- `GateRequest`: time passes, and the threads run: main, the io threads, and a worker up to its handler.
  The io thread gets the mutex under strong fairness, because workers that come back for it
  make it free again and again. Nothing is assumed of clients, of writes, or of handlers, in the loop or in
  the drain: a handler that calls VerifyServer may wait for ever.
- `Presence`, `Delivery`, `LoginToken`, `Relations` have safety properties only and assume no fairness.

### What the code does not keep

The run `PresenceReconnect` is the finding of the project: a user who reconnects loses the new
session's route and subscription when the old session ends, and is not reachable while
connected. `findings` has the line of code and the document it contradicts.

What the properties of the runs except is what the code does not keep either; without one of these
exceptions TLC finds the property violated:

- `SoleSessionReachable`, `OnlineIsSubscribed` (Presence): without a sound subscriber connection a user logs
  in, and is shown as online, with no subscription; with one, the subscription may come after the login reply.
- `SoleSessionReceives` (Delivery): a message on its way to another server is lost if that server has no sound
  connection, if a login or the end of a session there took it for its answer, or if the publication failed. Nobody is told.
- `DeadNotRouted` (Presence) is about sessions that read the end of their client; a failed write, a bad length or another
  error of the head leaves the route to a dead session in place.
- `OnlyDeadlineSilences`, `EveryRequestEnds` (GateRequest): the end of the pool hangs up on the requests that are left, also
  on those the drain would have answered; a handler that hangs in the drain keeps the mutex, and a
  request whose io thread waits for it is neither answered nor closed.

Some properties are defined in the modules because a reader of the documents would expect them, and
run by no configuration because they do not hold. Added to the configuration of its module,
TLC shows a counterexample of each:

- `CloseReturns` (LogicSystem): `close` may hang on a notification sent between a worker's predicate and its blocking.
- `OperationReturns` (MySQLPool): operations that take a second session can wait for each other for ever.
- `GroupAtMostOnce` (Delivery): a group message reaches each of n members on another server n
  times, because it is published once for each and every copy is sent to all. Seen with `Home <- MCHomeAway`,
  `User <- MCUserEach`, `Present = {a1, b1, b2}`, for two members on another server are needed.
- `SubscribedIsDelivered` (RedisSubscriber): a message on a subscribed channel may be taken for
  the answer to another thread's command.
- `LeastLoaded` (Registry): every count reads 0. Seen with `Servers = ConfigServers = {a, b}`, `Flaky = {}`,
  `MaxConns = 2`, for two servers with different counts are needed.

The models have more behaviour that a reader of `src/README.md` would not expect, visible at one look
at the code; `hazards` has the lines. A user whose connection ended
by its client stays in `online_users`, and in the connection count, which is never decremented. Calls with one token
that overlap may both be accepted. A private message sent directly, to a session the receiver has just opened
on the sender's server, may overtake one that went through Redis: `InOrderAcrossServers` excepts that,
and senders with sessions on several servers, whose handlers may overtake each other. A silent client is never dropped
(no timer exists). A chat server that was removed while it was cut off never comes back, and with an
empty list the one chosen last is given out. A database session lost in use is not
replaced; `WaitsOnlyWhenExhausted` counts a pool that lost all of them as exhausted. A call
that matched the old token may delete the new one: `NewestStaysValid` excepts exactly that.

## 4. Proofs

All are for every value of the constants that satisfies the module's named ASSUME: these say that
bounds are numbers, that model values differ, that where a proof counts them there are finitely many operations
and sessions (`MySQLPool`), calls (`VerifyCode`) or handlers (`Relations`), and what the text below
names. The bounds that keep TLC's runs finite are constants like the others: no proof uses that they are
small. For each specification the proofs show `Init => IInv` and `IInv /\ [Next]_vars => IInv'` for an
inductive `IInv`, one lemma or step per action, and derive the theorems from it. Each `IInv` was an
invariant of a TLC run before it was proved. A refinement is proved from `IInv` too: the initial
state is one of the abstract specification, and each action is one of its actions or leaves its
variables alone.

- `LogicSystemProofs`: `TypeOK`, `QueueBound`, `NoSleepOverWork`, `OneHandlerPerUser`, `NothingLost`, and the
  refinement of `ActorMailbox`. `IInv` adds that a queue holds only messages of users it serves
  (so that one worker at most runs a user's handlers), that numbers are ordered by user, and what a
  worker has in hand at each place.
- `SendQueueProofs`: `TypeOK`, `QueueBound`, `SilentAfterClose`, `FramesInOrder` and the refinement of
  `OrderedChannel`. The heart of `IInv`: there is one write at most, it is of the head of the queue, and a
  closed session with nothing outstanding has a non-empty queue.
- `PresenceProofs`: `TypeOK`, `RoutedIsAuthenticated`, `DeadNotRouted`, `OnlineIsSubscribed`,
  `SoleSessionReachable`, for any number of connections of a user, under `OneLogin` (a client logs in once per connection, as the Qt client does). What is needed is that a session
  is never entered under a uid other than its own, that one which stopped reading cannot log in
  again, and that after `removeSession` its route is gone whoever's route that was. For a user
  with one connection, `ReachInv` says what each step of its login and its end has left in the map, in
  `online_users`, and in the channels together with the commands still under way to Redis - which are executed in
  order, so the last one for a channel decides -, as long as the connection is sound and
  no hash command of it failed, and that nothing is there for a user no session ever named.
- `StatusServerProofs`, tokens: `TypeOK`, `NoSupersededToken`, `NoExpiredToken`, `UsedUpOnReturn`,
  `NewestStaysValid`, for any number of
  overlapping calls. Tokens are numbered, so "replaced" and "used" become facts about order: a token
  that left the key never enters it again.
- `StatusServerProofs`, registry: `RegistryTypeOK`, `LiveIsRegistered`, `RemovedOnlyIfSilent`, for every
  `MaxMissed >= Drift`. `RegistryInv` is that `missed` never runs ahead of `late`.
- `DatabaseProofs`, pool: `PoolTypeOK`, `Exclusive`, `NoSleepOverSession`, `NoWaiterAfterClose`, `NoneAfterClose`. The
  count behind "no notification is lost" is inductive as it stands: every session that enters
  the pool sends a waiter, every session taken is taken by one on its way.
- `DatabaseProofs`, friends and groups: `TypeOK`, `RepliesAreTrue`, `HalfDoneOnlyByFailure`,
  `RacesAreBounded` and the refinement of `FriendBook`, for any users, any number of servers, any lists of
  members. None of them is inductive. `RelInv` adds, for each statement a handler may
  stand at, the kind of its message (`PlaceInv`) and what the statements before it
  established (`KnownInv`): that the request was accepted, that the group's id is the one of its row, which of the
  members on the list are rows already. `Grows` collects what no statement of any handler takes
  back - rows keep their ids, `agreed`, friendships and `joined` only grow - and `OthersKeep` shows that
  nobody can spoil what a handler knows, so each action has only its own handler to account
  for. For the races `RaceInv` counts: pending requests of a pair and the handlers that have found none and are
  about to insert one are together no more than the handlers. Without the second summand
  an insertion could not be shown to be within the bound; with it, a handler that finds
  none pending sets the first to zero. What `FriendBook` promises in plain words (`InOrder`, proved only) follows
  from its next-state relation and the refinement.
- `DeliveryProofs`: `TypeOK`, `OnlyAddressees`, `PrivateAtMostOnce`, `InOrderAcrossServers`,
  `SoleSessionReceives`, for any number of servers, sessions and messages. `IInv` adds that a private message is with one handler and nowhere else, or on each
  server in one place at most: queued for the subscriber thread, in its hand, or received; and
  that whoever is in the group now was addressed by every message to it that others sent. For order: a sender's handler has his newest message,
  and at every place of a server an earlier message is ahead of a later one. For loss (`LossInv`): the
  route of a user's only session is in place while it is up, and so is its subscription while the connection is sound, for
  only sessions that ended have an UNSUBSCRIBE under way; and a message it has not received is
  still in the work of a handler, in an inbox or with the subscriber thread of its server, or is
  accounted for by one of the three losses.
- `RedisSubscriberProofs`: `TypeOK`, `LossesAreStrays` and the refinement of `MessageFeed`, for any threads,
  channels, calls and messages. What Redis sent and nobody parsed is one sequence, the `Pipe`: buffer and socket
  are its two parts and a read only moves the boundary. `IInv` says that messages in it are in
  order and newer than all that left it - given to the callback, in the loop's hand, or lost to a
  caller - which makes the feed ordered and free of copies, and gives each message one fate
  (`OneFate`, proved only); `LossesAreStrays` is an equation that every send, parse and take changes on both
  sides alike.
- `GateServerProofs`, requests: `TypeOK`, `OnlyDeadlineSilences` and the refinement of `HttpExchange`, for any
  number of connections and workers and any size of queue. The heart of `IInv`: a pushed request is in
  exactly one of the queue, a worker's hand and the outstanding write (so an answer is sent
  once, by one worker), what is written is the answer to what was read, and as long as the pool of
  io_contexts exists a client is left without one only if the 60 seconds of its connection have passed, whatever
  the shutdown has come to. What `HttpExchange` promises in
  plain words (`AnswersFit`, `AnsweredOnce`, proved only) follows from its next-state relation and the refinement.
- `GateServerProofs`, codes: `VerifyTypeOK`, `OnlyStoredMailed`, `ChangedWithMailedCode`, `UnlimitedOnlyByFailure`,
  `ReplacedOnlyByOverlap`, for any addresses, forms and finite set of calls. `VerifyInv` adds that a code belongs to one
  address wherever it is (key, call, mail), so that a form whose code matches holds a
  mail to its own address; that codes are new; and, for the last property, what a call has seen since
  it looked: the codes that had been stored when its `get` found none, or failed. On top of it `MailInv` has that what
  a call is about to mail was stored.

`QueueBound`, `OneHandlerPerUser`, `NothingLost`, `FramesInOrder`, `RoutedIsAuthenticated`, `NoExpiredToken`,
`NoWaiterAfterClose`, `NoneAfterClose` and the type invariants but those of `Relations` and
`RedisSubscriber` are proved and no longer checked by a run: a proof covers every value of the constants, the refinements checked
imply several of them, and the runs keep what is hardest to get right. (While a proof
was being found they were invariants of the runs.)

Every safety property, action property and refinement of a passing run is proved. Only model-checked:
liveness (`AcceptedIsHandled`, `AcceptedIsReceived`, `DeadIsRemoved`, `CloseFreesAll`,
`WaitsOnlyWhenExhausted`, `EveryRequestEnds`, `EveryCallAnswered`, `StuckOnlyInBuffer`). All of it rests on
weak or strong fairness, whose ENABLED the prover does not handle.

## 5. Not modelled, and assumptions

- Message contents, SQL, JSON, hashing, configuration, wording; the Qt client's interface.
- The pool of Redis connections and the pools of gRPC stubs: blocking pools with less behaviour than `MySQLPool` has.
- Look-ups that only read: login by name or e-mail, friend lists, search, history.
- Redis commands succeed in `LoginToken`, and so does `hIncrBy` in `Presence` (nothing reads the count) and MySQL
  in `Delivery`. Commands that fail are in `Presence`, `Delivery`, `Relations` and `VerifyCode`, and sessions that break in `MySQLPool`.
- Lengths of frames: `send` takes a `short`, the client stores 16 bits. Arithmetic without concurrency, listed as a hazard.
- A message whose session ends before its handler runs is dropped by the handler's weak
  pointer; `LogicSystem` counts it as handled.
- In `Delivery`, a message that cannot be saved (the sender gets an error, nobody else anything).
- A caller of `subscribe` that waits for ever for a reply another thread took is a behaviour of `Presence` and
  `Delivery` (a call need not return), and a question of liveness only in `RedisSubscriber`.
- Destruction of singletons while detached threads still run, in the C++ servers, but for `LogicSystem` and
  the pool of io_contexts in GateServer; the detached threads of the pools that outlive everything are not modelled.
- Parts of the sources would not compile as they are (HTML entities in StatusServer, `CServer::run`,
  `QUEUE_MAX_SIZE` in GateServer); they are modelled as they are meant by their text.
- Most lines of the repository are generated (`*.pb.*`), vendored (`node_modules`), built
  (`cmake-build-debug`) or user interface; none of them has behaviour of this system to model.

## 6. What is left

1. A refinement: that the calls of `subscribe` in `Presence` and `Delivery` allow all that `RedisSubscriber` does, which
   section 2 argues.
2. The Redis pool and the stub pools as instances of an abstract exclusive pool that `MySQLPool` implements too.
3. Proofs that compose: `Delivery` takes the promises of `ActorMailbox` and `OrderedChannel` for its
   threads and sessions; that the modules which implement these fit it there is argued in section 2, not proved.
