------------------------------- MODULE Components -------------------------------
(***************************************************************************)
(* The parts around the tunnel, each with its whole life.  They share no   *)
(* state: what two of them do in one order has the same effect in any      *)
(* other.  So a behaviour moves one of them, focus, and leaves the others  *)
(* as they are created, and the behaviours together cover every part.      *)
(***************************************************************************)
EXTENDS Integers, FiniteSets

CONSTANTS
  Parts,                                            \* what focus ranges over
  LoopIds, NoTask, Sids, Clients, Devices, MaxDevices, AllowedDevices, MaxOpen,
  Amounts, Threshold, MaxTotal, Identities, Hosts, Unparsed, Targets, Names,
  MaxAccessRules, MaxRules, Metrics, Keep, MaxAlerts, MaxConnections, Servers,
  MaxFailures, FailureBound, TaskIds, Datagrams, MaxSealed, MaxPairs, Covers, Final,
  Priorities, MaxAdded, MaxDecided, Conns, MaxRetries,
  Callers                                           \* as in the modules

\* A server is not unhealthy before a check has failed; the configuration names
\* finitely many devices; priorities are integers of either sign; and what is
\* reported and what the threshold is set to are numbers of bytes.
ASSUME ComponentsAssumption ==
  /\ MaxFailures \in Nat \ {0}
  /\ IsFiniteSet(AllowedDevices) /\ MaxDevices \in Nat
  /\ Priorities \subseteq Int /\ Amounts \subseteq Nat /\ Threshold \in Nat

VARIABLES
  focus,
  sessionLoop, sessions, byClient,
  deviceLoop, devices, connections, open, muddled,
  trafficLoop, clientStats, globalStats, warnings, reporter, warned,
  identities, whitelist, blacklist, accessRules, defaultAllow,
  collectLoop, alertLoop, metrics, cooling, alerts,
  monitorLoop, total, shown, last, rate,
  checking, status, checkTasks, task, told,
  serving, datagram,
  at, sealed, sent, gone, taken,
  tls, running, parts, call, configured, crt, key, expired, pairs, failed, crossed,
  mode, rules, added, decisions,
  listening, waits, registered, place, attempt, sockets, held, localOpen,
  targets, active, stopping, toCancel, awaited, cut, left,
  platform, service, saved, client, calls, before, clean

Session == INSTANCE SessionManager
Device == INSTANCE DeviceManager
Traffic == INSTANCE TrafficManager
Auth == INSTANCE AuthManager
Metric == INSTANCE Monitoring WITH Names <- Metrics
Status == INSTANCE ServerMonitor
Health == INSTANCE HealthChecker
Udp == INSTANCE UDPServer
WebSocket == INSTANCE WebSocketHandler
Server == INSTANCE ServerLifecycle
Routing == INSTANCE RuleMatcher
Proxy == INSTANCE LocalProxy
System == INSTANCE SystemProxy

sessionVars == <<sessionLoop, sessions, byClient>>
deviceVars == <<deviceLoop, devices, connections, open, muddled>>
trafficVars == <<trafficLoop, clientStats, globalStats, warnings, reporter, warned>>
authVars == <<identities, whitelist, blacklist, accessRules, defaultAllow>>
metricVars == <<collectLoop, alertLoop, metrics, cooling, alerts>>
statusVars == <<monitorLoop, total, shown, last, rate>>
healthVars == <<checking, status, checkTasks, task, told>>
udpVars == <<serving, datagram>>
webSocketVars == <<at, sealed, sent, gone, taken>>
serverVars == <<tls, running, parts, call, configured, crt, key, expired, pairs, failed,
                crossed>>
routingVars == <<mode, rules, added, decisions>>
proxyVars == <<listening, waits, registered, place, attempt, sockets, held, localOpen,
               targets, active, stopping, toCancel, awaited, cut, left>>
systemVars == <<platform, service, saved, client, calls, before, clean>>

managers == <<sessionVars, deviceVars, trafficVars, authVars>>
watchers == <<metricVars, statusVars, healthVars>>
servers == <<udpVars, webSocketVars, serverVars>>
clientSide == <<routingVars, proxyVars, systemVars>>
componentsVars == <<focus, managers, watchers, servers, clientSide>>

\* A part out of focus starts in one of its initial states.
ComponentsInit ==
  /\ focus \in Parts
  /\ Session!Init /\ Device!Init /\ Traffic!Init
  /\ Auth!Init
  /\ focus # "auth" => whitelist = {} /\ blacklist = {} /\ ~defaultAllow
  /\ Metric!Init /\ Status!Init /\ Health!Init
  /\ Udp!Init /\ WebSocket!Init /\ Server!Init
  /\ focus # "server" => ~tls
  /\ Routing!Init
  /\ focus # "routing" => rules[1].pattern = CHOOSE p \in DOMAIN Covers \ {Final} : TRUE
  /\ Proxy!Init
  /\ focus # "proxy" => ~waits /\ ~registered
  /\ System!Init
  /\ focus # "system" => /\ platform = "other"
                         /\ \A k \in System!Kinds : service[k] = [on |-> FALSE, server |-> "none"]

ManagersStep ==
  /\ \/ /\ focus = "sessions" /\ Session!Next
        /\ UNCHANGED <<deviceVars, trafficVars, authVars>>
     \/ /\ focus = "devices" /\ Device!Next
        /\ UNCHANGED <<sessionVars, trafficVars, authVars>>
     \/ /\ focus = "traffic" /\ Traffic!Next
        /\ UNCHANGED <<sessionVars, deviceVars, authVars>>
     \/ /\ focus = "auth" /\ Auth!Next
        /\ UNCHANGED <<sessionVars, deviceVars, trafficVars>>
  /\ UNCHANGED <<focus, watchers, servers, clientSide>>

WatchersStep ==
  /\ \/ focus = "metrics" /\ Metric!Next /\ UNCHANGED <<statusVars, healthVars>>
     \/ focus = "status" /\ Status!Next /\ UNCHANGED <<metricVars, healthVars>>
     \/ focus = "health" /\ Health!Next /\ UNCHANGED <<metricVars, statusVars>>
  /\ UNCHANGED <<focus, managers, servers, clientSide>>

ServersStep ==
  /\ \/ focus = "udp" /\ Udp!Next /\ UNCHANGED <<webSocketVars, serverVars>>
     \/ focus = "websocket" /\ WebSocket!Next /\ UNCHANGED <<udpVars, serverVars>>
     \/ focus = "server" /\ Server!Next /\ UNCHANGED <<udpVars, webSocketVars>>
  /\ UNCHANGED <<focus, managers, watchers, clientSide>>

ClientStep ==
  /\ \/ focus = "routing" /\ Routing!Next /\ UNCHANGED <<proxyVars, systemVars>>
     \/ focus = "proxy" /\ Proxy!Next /\ UNCHANGED <<routingVars, systemVars>>
     \/ focus = "system" /\ System!Next /\ UNCHANGED <<routingVars, proxyVars>>
  /\ UNCHANGED <<focus, managers, watchers, servers>>

ComponentsNext == ManagersStep \/ WatchersStep \/ ServersStep \/ ClientStep
ComponentsSpec == ComponentsInit /\ [][ComponentsNext]_componentsVars

\* Of each background loop, in whatever order it is started and stopped and its
\* tasks come to run, the last task created goes on while _running is set, no
\* other does, and none after a stop.
OneLoop ==
  /\ Session!Loop!OneLoop /\ Device!Loop!OneLoop /\ Traffic!Loop!OneLoop
  /\ Status!Loop!OneLoop
  /\ Metric!Collecting!OneLoop /\ Metric!Alerting!OneLoop

\* The session manager's two tables agree.
TablesAgree == Session!TablesAgree

\* The device manager's counts and status follow the connections.
DevicesCounted == Device!DevicesCounted

\* A traffic warning belongs to the present period and to a task that sees to it.
WarningIsCurrent == Traffic!WarningIsCurrent

\* Every health check that goes on can be stopped, and alerts tell the health.
ChecksReachable == Health!ChecksReachable

\* A server that runs has its parts, whatever failed, and one that does not has
\* none when nothing failed: as long as no start and stop ran beside each other.
PartsRunning == Server!PartsRunning

\* The best rule that covers a target decides about it.
BestRuleDecides == Routing!BestRuleDecides

\* A client connection ends with its sockets closed, but for what a cancellation
\* in the finally or in a direct connection leaves.
SocketsClosed == Proxy!SocketsClosed

\* stop gives the system's proxy settings back, but for the server of one that was
\* off and for one that was on without a server.
ProxyRestored == System!ProxyRestored
=============================================================================
