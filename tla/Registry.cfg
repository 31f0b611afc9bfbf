\* One configured server, one that only registers and may be cut off.
CONSTANTS
  a = a
  b = b
  NoServer = NoServer
  Servers = {a, b}
  ConfigServers = {a}
  Flaky = {b}
  MaxMissed = 2
  Drift = 2
  LateCap = 3
  MaxConns = 1
  MaxRestarts = 1
SPECIFICATION RegistryFairSpec
INVARIANT LiveIsRegistered
PROPERTIES RemovedOnlyIfSilent DeadIsRemoved
CHECK_DEADLOCK FALSE
