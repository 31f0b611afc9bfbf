------------------------------ MODULE Registry ------------------------------
(***************************************************************************)
(* StatusServer/StatusServiceImpl.cpp: which chat servers there are and    *)
(* which one a client is sent to; with the two loops of ChatServer's       *)
(* main.cpp it depends on, registration and heartbeat.  serverMutex makes  *)
(* each RPC handler and each round of the health check one step.           *)
(*                                                                         *)
(* Time is counted in rounds of the health check.  Both loops sleep five   *)
(* seconds per round, so a round seldom finds more than one heartbeat      *)
(* missing; late[n] counts the rounds since the last heartbeat of n that   *)
(* arrived, and Drift bounds it for a server that runs and is not cut off. *)
(*                                                                         *)
(* The definitions that every specification has bear this module's name:   *)
(* StatusServerProofs extends it next to LoginToken.                       *)
(***************************************************************************)
EXTENDS Integers

CONSTANTS Servers,        \* names of chat servers
          ConfigServers,  \* those in config.ini of the StatusServer
          Flaky,          \* those the network may cut off
          NoServer,
          MaxMissed,      \* maxMissedHeartbeats
          Drift,          \* rounds between two heartbeats of a live server, at most
          LateCap,        \* bound: late is not counted further
          MaxConns,       \* bound: connections counted per server
          MaxRestarts     \* bound: restarts of the StatusServer

ASSUME RegistryAssumption ==
  /\ ConfigServers \subseteq Servers
  /\ Flaky \subseteq Servers
  /\ NoServer \notin Servers
  /\ MaxMissed \in Nat /\ Drift \in Nat /\ LateCap \in Nat
  /\ MaxConns \in Nat /\ MaxRestarts \in Nat
  /\ Drift <= MaxMissed
  /\ MaxMissed < LateCap

VARIABLES registered, \* keys of chatServers
          missed,     \* missedHeartbeats of each
          freeServer, \* freeServer.name
          conns,      \* the hashes chatserver:<name>:connections in Redis
          alive,      \* the chat servers that run
          cut,        \* the chat servers whose heartbeats fail
          late,       \* rounds since the last heartbeat of each that arrived
          restarts,   \* restarts of the StatusServer
          choice      \* ghost: the last choice, of what, and the counts it had to go by

registryVars == <<registered, missed, freeServer, conns, alive, cut, late, restarts, choice>>

Choice == [name : Servers \cup {NoServer}, among : SUBSET Servers, loads : [Servers -> Nat]]

RegistryTypeOK ==
  /\ registered \subseteq Servers
  /\ missed \in [Servers -> 0 .. MaxMissed]
  /\ freeServer \in Servers \cup {NoServer}
  /\ conns \in [Servers -> Nat]
  /\ alive \subseteq Servers
  /\ cut \subseteq Flaky
  /\ late \in [Servers -> 0 .. LateCap]
  /\ restarts \in Nat
  /\ choice \in Choice

\* What the constructor makes of config.ini; it reads no state from Redis.
Boot(reg, miss, free) ==
  /\ reg = ConfigServers
  /\ miss = [n \in Servers |-> 0]
  /\ free \in IF ConfigServers = {} THEN {NoServer} ELSE ConfigServers

RegistryInit ==
  /\ Boot(registered, missed, freeServer)
  /\ conns = [n \in Servers |-> 0]
  /\ alive = {}
  /\ cut = {}
  /\ late = [n \in Servers |-> 0]
  /\ restarts = 0
  /\ choice = [name |-> NoServer, among |-> {}, loads |-> conns]
-----------------------------------------------------------------------------
(* The chat servers. *)

\* main registers, or gives up and exits; RegisterChatServer overwrites.
RegisterChatServer(n) ==
  /\ n \notin alive \cup cut
  /\ alive' = alive \cup {n}
  /\ registered' = registered \cup {n}
  /\ missed' = [missed EXCEPT ![n] = 0]
  /\ late' = [late EXCEPT ![n] = 0]
  /\ UNCHANGED <<freeServer, conns, cut, restarts, choice>>

Crash(n) ==
  /\ n \in alive
  /\ alive' = alive \ {n}
  /\ UNCHANGED <<registered, missed, freeServer, conns, cut, late, restarts, choice>>

Cut(n) ==
  /\ n \in Flaky \ cut
  /\ cut' = cut \cup {n}
  /\ UNCHANGED <<registered, missed, freeServer, conns, alive, late, restarts, choice>>

Heal(n) ==
  /\ n \in cut
  /\ cut' = cut \ {n}
  /\ UNCHANGED <<registered, missed, freeServer, conns, alive, late, restarts, choice>>

\* Mutant: a heartbeat takes one off the count instead of clearing it.
HeartbeatDecrements(n) ==
  /\ n \in alive \ cut
  /\ late' = [late EXCEPT ![n] = 0]
  /\ missed' = [missed EXCEPT ![n] = IF n \in registered /\ @ > 0 THEN @ - 1 ELSE @]
  /\ UNCHANGED <<registered, freeServer, conns, alive, cut, restarts, choice>>

\* The heartbeat of a server that is not registered gets SERVER_NOT_FOUND,
\* which the heartbeat thread does not look at.
Heartbeat(n) ==
  /\ n \in alive \ cut
  /\ late' = [late EXCEPT ![n] = 0]
  /\ missed' = [missed EXCEPT ![n] = IF n \in registered THEN 0 ELSE @]
  /\ UNCHANGED <<registered, freeServer, conns, alive, cut, restarts, choice>>
-----------------------------------------------------------------------------
(* The StatusServer. *)

\* Mutant: one round less.
GoneOneLess(n) == n \in registered /\ missed[n] + 1 >= MaxMissed

Gone(n) == n \in registered /\ missed[n] >= MaxMissed

\* Mutant: the count starts again after every round.
HealthCheckForgets ==
  /\ \A n \in alive \ cut : late[n] < Drift
  /\ registered' = {n \in registered : ~Gone(n)}
  /\ missed' = [n \in Servers |-> IF n \in registered' THEN 1 ELSE 0]
  /\ conns' = [n \in Servers |-> IF Gone(n) THEN 0 ELSE conns[n]]
  /\ late' = [n \in Servers |-> IF late[n] < LateCap THEN late[n] + 1 ELSE late[n]]
  /\ UNCHANGED <<freeServer, alive, cut, restarts, choice>>

\* A round: what has missed enough is removed with its connection count, the
\* rest is counted one up.  missed of a removed server is kept at 0.
HealthCheck ==
  /\ \A n \in alive \ cut : late[n] < Drift
  /\ registered' = {n \in registered : ~Gone(n)}
  /\ missed' = [n \in Servers |-> IF n \in registered' THEN missed[n] + 1 ELSE 0]
  /\ conns' = [n \in Servers |-> IF Gone(n) THEN 0 ELSE conns[n]]
  /\ late' = [n \in Servers |-> IF late[n] < LateCap THEN late[n] + 1 ELSE late[n]]
  /\ UNCHANGED <<freeServer, alive, cut, restarts, choice>>

\* The count choseChatServer goes by: GET on a hash is an error, read as 0.
currentCount(n) == 0

\* choseChatServer: the first of the map with the least count; the map's order
\* is not specified.  An empty map leaves the server chosen last.
choseChatServer ==
  LET best == {n \in registered : \A r \in registered : currentCount(n) <= currentCount(r)}
  IN  \E n \in IF registered = {} THEN {freeServer} ELSE best :
        /\ freeServer' = n
        /\ conns' = IF n = NoServer THEN conns ELSE [conns EXCEPT ![n] = @ + 1]
        /\ choice' = [name |-> n, among |-> registered, loads |-> conns]

GetChatServer ==
  /\ \A n \in Servers : conns[n] < MaxConns
  /\ choseChatServer
  /\ UNCHANGED <<registered, missed, alive, cut, late, restarts>>

\* The StatusServer stops and is started again.
Restart ==
  /\ restarts < MaxRestarts
  /\ restarts' = restarts + 1
  /\ Boot(registered', missed', freeServer')
  /\ UNCHANGED <<conns, alive, cut, late, choice>>

RegistryNext ==
  \/ \E n \in Servers :
       RegisterChatServer(n) \/ Crash(n) \/ Cut(n) \/ Heal(n) \/ Heartbeat(n)
  \/ HealthCheck \/ GetChatServer \/ Restart

\* Both loops go on; nobody is obliged to start, to fail or to ask.  The guard of
\* HealthCheck is an assumption on time, not a wait, and must not stop the loop
\* of a StatusServer that sees a server come and go: strong fairness.
Fairness ==
  SF_registryVars(HealthCheck) /\ \A n \in Servers : WF_registryVars(Heartbeat(n))

RegistrySpec == RegistryInit /\ [][RegistryNext]_registryVars

RegistryFairSpec == RegistrySpec /\ Fairness
-----------------------------------------------------------------------------
(* Properties *)

\* A server the network never cuts off stays in the list from its registration
\* to its end, through restarts of the StatusServer if it is in its config.ini,
\* as long as its heartbeats come at least every Drift rounds.
LiveIsRegistered ==
  \A n \in alive \ Flaky :
    restarts = 0 \/ n \in ConfigServers => n \in registered

\* A server leaves the list of a running StatusServer only after MaxMissed
\* rounds without a heartbeat.
RemovedOnlyIfSilent ==
  [][\A n \in registered \ registered' :
       late[n] >= MaxMissed \/ restarts' # restarts]_registryVars

\* A server that stopped is removed.
DeadIsRemoved == \A n \in Servers : n \notin alive ~> n \notin registered \/ n \in alive

\* A client is sent to the registered server with the least connections.
LeastLoaded ==
  choice.name \in choice.among =>
    \A r \in choice.among : choice.loads[choice.name] <= choice.loads[r]
=============================================================================
