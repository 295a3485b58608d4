\* Two of everything that can meet another of its kind, a second loop task for a
\* start before the first has ended, and every limit within reach.  The UDP server and a full rule list can stop.
SPECIFICATION ComponentsSpec
CONSTANTS
  Parts <- MCParts
  LoopIds = {l1, l2}
  NoTask = NoTask
  Sids = {s1, s2, s3}
  Clients = {c1, c2}
  Devices = {d1, d2}
  MaxDevices = 1
  AllowedDevices = {d1}
  MaxOpen = 2
  Amounts = {1, 2}
  Threshold = 3
  MaxTotal = 4
  Identities = {i1, i2}
  Hosts = {h1, h2, unknown}
  Unparsed = {unknown}
  Targets <- MCTargets
  Names = {n1, n2}
  MaxAccessRules = 2
  MaxRules = 3
  Metrics = {m1}
  Keep = 2
  MaxAlerts = 2
  MaxConnections = 3
  Servers = {v1, v2}
  MaxFailures = 2
  FailureBound = 3
  TaskIds = {t1, t2, t3}
  Datagrams = {g1, g2}
  MaxSealed = 5
  MaxPairs = 2
  Covers <- MCCovers
  Final = "final"
  Priorities <- MCPriorities
  MaxAdded = 4
  MaxDecided = 1
  Conns = {x1, x2}
  MaxRetries = 2
  Callers = {a1, a2}
INVARIANTS
  OneLoop TablesAgree DevicesCounted WarningIsCurrent ChecksReachable 
  BestRuleDecides SocketsClosed ProxyRestored
CHECK_DEADLOCK FALSE
