----------------------------- MODULE MySQLPool -----------------------------
(***************************************************************************)
(* ChatServer/MySQLMgr.cpp: the pool of database sessions                  *)
(* (MySQLConnectPool), its guard (SessionGuard) and the operations of      *)
(* MySQLMgr as far as they use it.  GateServer has the same pool.          *)
(*                                                                         *)
(* An operation takes one session, or is Nested: it holds one while it     *)
(* calls another operation, which takes a second (resetPassword,           *)
(* loginAcconut, loginEmail, createGroup).  What runs besides: the         *)
(* constructor, the thread of checkConnection, the detached threads of     *)
(* reconnect, and close.  _mutex makes each critical section one step.     *)
(* _sessions is a set: which session of it is taken matters to nothing     *)
(* said here.                                                              *)
(*                                                                         *)
(* The definitions that every specification has bear this module's name:   *)
(* DatabaseProofs extends it next to Relations.                            *)
(***************************************************************************)
EXTENDS Integers, FiniteSets

CONSTANTS Ops,       \* operations, each a call of MySQLMgr by some thread
          Nested,    \* those that take a second session
          PoolSize,  \* _poolSize
          Sessions,  \* bound: names for sessions that are open at one time
          NoSession,
          MaxBreaks  \* bound: sessions the database drops

ASSUME PoolAssumption ==
  /\ IsFiniteSet(Ops) /\ IsFiniteSet(Sessions)
  /\ Nested \subseteq Ops
  /\ PoolSize \in Nat /\ MaxBreaks \in Nat
  /\ NoSession \notin Sessions

VARIABLES idle,     \* _sessions
          stop,     \* _isStop
          broken,   \* open sessions on which statements fail
          breaks,   \* sessions dropped so far
          at,       \* where each operation is
          todo,     \* calls of getSession an operation has yet to make
          held,     \* the sessions its guards hold
          ret,      \* the session it is giving back
          checker,  \* "ctor" until the constructor ends; is checkConnection running?
          starting, \* threads of reconnect that have not read the size yet
          adding,   \* adding[i]: threads of reconnect about to add session i
          closing   \* where close is

opvars == <<at, todo, held, ret>>
refill == <<starting, adding>>
poolVars == <<idle, stop, broken, breaks, opvars, checker, refill, closing>>

PoolTypeOK ==
  /\ idle \subseteq Sessions
  /\ stop \in BOOLEAN
  /\ broken \subseteq Sessions
  /\ breaks \in 0 .. MaxBreaks
  /\ at \in [Ops -> {"new", "get", "blocked", "use", "return", "done"}]
  /\ todo \in [Ops -> 0 .. 2]
  /\ held \in [Ops -> SUBSET Sessions]
  /\ ret \in [Ops -> Sessions \cup {NoSession}]
  /\ checker \in {"ctor", "on", "off"}
  /\ starting \in Nat
  /\ adding \in [0 .. PoolSize -> Nat]
  /\ closing \in {"no", "stopped", "done"}

\* The constructor has opened what it could and called reconnect for the rest.
PoolInit ==
  /\ idle \in SUBSET Sessions /\ Cardinality(idle) <= PoolSize
  /\ stop = FALSE
  /\ broken = {} /\ breaks = 0
  /\ at = [o \in Ops |-> "new"]
  /\ todo = [o \in Ops |-> IF o \in Nested THEN 2 ELSE 1]
  /\ held = [o \in Ops |-> {}]
  /\ ret = [o \in Ops |-> NoSession]
  /\ checker = "ctor"
  /\ starting = IF Cardinality(idle) < PoolSize THEN 1 ELSE 0
  /\ adding = [i \in 0 .. PoolSize |-> 0]
  /\ closing = "no"

Open == idle \cup UNION {held[o] : o \in Ops}

\* The constructor gives up when there is no session yet; nothing undoes that.
CtorEnd ==
  /\ checker = "ctor"
  /\ checker' = IF idle = {} THEN "off" ELSE "on"
  /\ stop' = (idle = {})
  /\ UNCHANGED <<idle, broken, breaks, opvars, refill, closing>>

\* The database drops a session.
Break(s) ==
  /\ breaks < MaxBreaks /\ s \in Open \ broken
  /\ breaks' = breaks + 1
  /\ broken' = broken \cup {s}
  /\ UNCHANGED <<idle, stop, opvars, checker, refill, closing>>
-----------------------------------------------------------------------------
(* Operations. *)

Blocked == {o \in Ops : at[o] = "blocked"}

\* notify_one, in the program counters pc: some waiter goes on.
Notified(pc) ==
  IF Blocked = {} THEN {pc} ELSE {[pc EXCEPT ![o] = "get"] : o \in Blocked}

Call(o) ==
  /\ at[o] = "new" /\ checker # "ctor"
  /\ at' = [at EXCEPT ![o] = "get"]
  /\ UNCHANGED <<idle, stop, broken, breaks, todo, held, ret, checker, refill, closing>>

\* A stopped pool gives nothing, and the operation gives up.
GetNothing(o) ==
  /\ at[o] = "get" /\ stop
  /\ at' = [at EXCEPT ![o] = "use"]
  /\ todo' = [todo EXCEPT ![o] = 0]
  /\ UNCHANGED <<idle, stop, broken, breaks, held, ret, checker, refill, closing>>

\* wait: the predicate is false.
GetBlocks(o) ==
  /\ at[o] = "get" /\ ~stop /\ idle = {}
  /\ at' = [at EXCEPT ![o] = "blocked"]
  /\ UNCHANGED <<idle, stop, broken, breaks, todo, held, ret, checker, refill, closing>>

\* Mutant: the session stays in the pool.
GetSessionCopies(o) ==
  /\ at[o] = "get" /\ ~stop
  /\ \E s \in idle : held' = [held EXCEPT ![o] = @ \cup {s}]
  /\ at' = [at EXCEPT ![o] = "use"]
  /\ todo' = [todo EXCEPT ![o] = @ - 1]
  /\ UNCHANGED <<idle, stop, broken, breaks, ret, checker, refill, closing>>

GetSession(o) ==
  /\ at[o] = "get" /\ ~stop
  /\ \E s \in idle : /\ idle' = idle \ {s}
                     /\ held' = [held EXCEPT ![o] = @ \cup {s}]
  /\ at' = [at EXCEPT ![o] = "use"]
  /\ todo' = [todo EXCEPT ![o] = @ - 1]
  /\ UNCHANGED <<stop, broken, breaks, ret, checker, refill, closing>>

SpuriousWake(o) ==
  /\ at[o] = "blocked"
  /\ at' = [at EXCEPT ![o] = "get"]
  /\ UNCHANGED <<idle, stop, broken, breaks, todo, held, ret, checker, refill, closing>>

\* A nested operation asks for its second session.
CallInner(o) ==
  /\ at[o] = "use" /\ todo[o] > 0
  /\ at' = [at EXCEPT ![o] = "get"]
  /\ UNCHANGED <<idle, stop, broken, breaks, todo, held, ret, checker, refill, closing>>

\* returnSession: a guard's destructor finds _isStop set, or the session does
\* not answer SELECT 1; it is dropped, and nobody opens another for it.
DropSession(o) ==
  /\ at[o] = "use" /\ todo[o] = 0
  /\ \E s \in held[o] :
       /\ stop \/ s \in broken
       /\ held' = [held EXCEPT ![o] = @ \ {s}]
       /\ broken' = broken \ {s}
  /\ UNCHANGED <<idle, stop, breaks, at, todo, ret, checker, refill, closing>>

\* returnSession: the session answers.
CheckReturn(o) ==
  /\ at[o] = "use" /\ todo[o] = 0 /\ ~stop
  /\ \E s \in held[o] \ broken : ret' = [ret EXCEPT ![o] = s]
  /\ at' = [at EXCEPT ![o] = "return"]
  /\ UNCHANGED <<idle, stop, broken, breaks, todo, held, checker, refill, closing>>

\* Mutant: no notification.
ReturnSessionSilently(o) ==
  /\ at[o] = "return"
  /\ idle' = idle \cup {ret[o]}
  /\ held' = [held EXCEPT ![o] = @ \ {ret[o]}]
  /\ ret' = [ret EXCEPT ![o] = NoSession]
  /\ at' = [at EXCEPT ![o] = "use"]
  /\ UNCHANGED <<stop, broken, breaks, todo, checker, refill, closing>>

\* returnSession: emplace_back and notify_one.  close may have run in between.
ReturnSession(o) ==
  /\ at[o] = "return"
  /\ idle' = idle \cup {ret[o]}
  /\ held' = [held EXCEPT ![o] = @ \ {ret[o]}]
  /\ ret' = [ret EXCEPT ![o] = NoSession]
  /\ at' \in Notified([at EXCEPT ![o] = "use"])
  /\ UNCHANGED <<stop, broken, breaks, todo, checker, refill, closing>>

Finish(o) ==
  /\ at[o] = "use" /\ todo[o] = 0 /\ held[o] = {}
  /\ at' = [at EXCEPT ![o] = "done"]
  /\ UNCHANGED <<idle, stop, broken, breaks, todo, held, ret, checker, refill, closing>>

\* What an operation's thread does by itself once it is called.
OpStep(o) ==
  \/ GetNothing(o) \/ GetBlocks(o) \/ GetSession(o) \/ CallInner(o)
  \/ DropSession(o) \/ CheckReturn(o) \/ ReturnSession(o) \/ Finish(o)
-----------------------------------------------------------------------------
(* The pool's own threads. *)

\* A round of checkConnection; one that finds every session well does nothing.
CheckConnection ==
  /\ checker = "on" /\ idle \cap broken # {}
  /\ idle' = idle \ broken
  /\ broken' = broken \ idle
  /\ starting' = IF stop THEN starting ELSE starting + Cardinality(idle \cap broken)
  /\ UNCHANGED <<stop, breaks, opvars, checker, adding, closing>>

\* reconnect reads _sessions.size() without the mutex: a size of some moment, or
\* any number when a thread is about to grow, and so to reallocate, the vector.
SizeRead ==
  IF (\E i \in 0 .. PoolSize : adding[i] > 0) \/ (\E o \in Ops : at[o] = "return")
  THEN 0 .. PoolSize
  ELSE {IF Cardinality(idle) < PoolSize THEN Cardinality(idle) ELSE PoolSize}

RefillStart ==
  /\ starting > 0
  /\ starting' = starting - 1
  /\ \E num \in SizeRead : adding' = [adding EXCEPT ![num] = @ + 1]
  /\ UNCHANGED <<idle, stop, broken, breaks, opvars, checker, closing>>

\* The thread moves on from session i to session i + 1; at PoolSize it ends.
RefillNext(i) == adding' = [adding EXCEPT ![i] = @ - 1, ![i + 1] = @ + 1]

RefillAdd(i) ==
  /\ i < PoolSize /\ adding[i] > 0 /\ ~stop
  /\ \E s \in Sessions \ Open : idle' = idle \cup {s}
  /\ at' \in Notified(at)
  /\ RefillNext(i)
  /\ UNCHANGED <<stop, broken, breaks, todo, held, ret, checker, starting, closing>>

RefillSkip(i) ==
  /\ i < PoolSize /\ adding[i] > 0 /\ stop
  /\ RefillNext(i)
  /\ UNCHANGED <<idle, stop, broken, breaks, opvars, checker, starting, closing>>

\* Opening the session throws, or the loop is done: the thread ends.
RefillEnd(i) ==
  /\ adding[i] > 0
  /\ adding' = [adding EXCEPT ![i] = @ - 1]
  /\ UNCHANGED <<idle, stop, broken, breaks, opvars, checker, starting, closing>>

CloseStop ==
  /\ closing = "no" /\ checker # "ctor"
  /\ closing' = "stopped"
  /\ stop' = TRUE
  /\ UNCHANGED <<idle, broken, breaks, opvars, checker, refill>>

\* Mutant: notify_one.
CloseNotifyOne ==
  /\ closing = "stopped"
  /\ closing' = "done"
  /\ idle' = {}
  /\ broken' = broken \ idle
  /\ at' \in Notified(at)
  /\ UNCHANGED <<stop, breaks, todo, held, ret, checker, refill>>

\* close: notify_all, and the sessions in the pool are closed.
Close ==
  /\ closing = "stopped"
  /\ closing' = "done"
  /\ idle' = {}
  /\ broken' = broken \ idle
  /\ at' = [o \in Ops |-> IF o \in Blocked THEN "get" ELSE at[o]]
  /\ UNCHANGED <<stop, breaks, todo, held, ret, checker, refill>>

PoolStep ==
  \/ CtorEnd \/ CheckConnection \/ RefillStart
  \/ \E i \in 0 .. PoolSize : RefillAdd(i) \/ RefillSkip(i) \/ RefillEnd(i)
  \/ CloseStop \/ Close

PoolNext ==
  \/ \E o \in Ops : Call(o) \/ OpStep(o) \/ SpuriousWake(o)
  \/ PoolStep
  \/ \E s \in Sessions : Break(s)

PoolSpec == PoolInit /\ [][PoolNext]_poolVars

\* Threads go on.  Nobody is obliged to call an operation or close, nor the
\* database to drop a session, the kernel to wake a waiter or open to fail.
Fairness ==
  /\ \A o \in Ops : WF_poolVars(OpStep(o))
  /\ WF_poolVars(CtorEnd) /\ WF_poolVars(CheckConnection) /\ WF_poolVars(Close)
  /\ WF_poolVars(RefillStart)
  /\ \A i \in 0 .. PoolSize : WF_poolVars(RefillAdd(i) \/ RefillSkip(i) \/ RefillEnd(i))

PoolFairSpec == PoolSpec /\ Fairness
-----------------------------------------------------------------------------
(* Properties *)

\* No two operations use one session at a time, and none uses one that is in
\* the pool (getSession, returnSession, checkConnection, reconnect).
Exclusive ==
  \A o \in Ops : /\ held[o] \cap idle = {}
                 /\ \A p \in Ops \ {o} : held[o] \cap held[p] = {}

\* While somebody waits, at least as many threads are on their way to the pool
\* as it has sessions: no notification is lost (getSession, returnSession,
\* reconnect notify one waiter per session).
NoSleepOverSession ==
  ~stop /\ Blocked # {} =>
    Cardinality(idle) <= Cardinality({o \in Ops : at[o] = "get"})

\* Nobody waits for a closed pool (close sets _isStop before it takes _mutex
\* and notifies under it).
NoWaiterAfterClose == closing = "done" => Blocked = {}

\* After close has returned nobody obtains a session, not even one that was
\* given back too late for close to see it.
NoneAfterClose ==
  [][closing = "done" => \A o \in Ops : held'[o] \subseteq held[o]]_poolVars

\* Every session that is open is held by an operation that asks for another.
Exhausted ==
  \A s \in Open : \E o \in Ops : at[o] \in {"get", "blocked"} /\ s \in held[o]

\* An operation that never returns waits for a pool whose sessions are all gone
\* or held by operations that wait like it; nothing else keeps it (getSession,
\* returnSession, close, the guards of the operations).
WaitsOnlyWhenExhausted ==
  \A o \in Ops : <>[](at[o] \in {"new", "done"}) \/ <>[]Exhausted

\* Every operation that was called returns.
OperationReturns == \A o \in Ops : at[o] # "new" ~> at[o] = "done"

\* When the pool is closed every operation that was called returns.
CloseFreesAll == \A o \in Ops : at[o] # "new" /\ closing # "no" ~> at[o] = "done"
=============================================================================
