--------------------------- MODULE Components_proofs ---------------------------
(***************************************************************************)
(* Proofs about the parts around the tunnel: for any number of sessions,   *)
(* clients, servers, tasks and whatever else the modules take as           *)
(* constants.                                                              *)
(***************************************************************************)
EXTENDS Components, Induction_proofs, FiniteSetTheorems, SequenceTheorems, TLAPS

-----------------------------------------------------------------------------
\* A step of the whole is a step of a part or leaves it alone.

\* So it is for the session manager.
LEMMA SessionStep == [ComponentsNext]_componentsVars => [Session!Next]_sessionVars
  BY DEF ComponentsNext, ManagersStep, WatchersStep, ServersStep, ClientStep,
         componentsVars, managers

\* For the device manager.
LEMMA DeviceStep == [ComponentsNext]_componentsVars => [Device!Next]_deviceVars
  BY DEF ComponentsNext, ManagersStep, WatchersStep, ServersStep, ClientStep,
         componentsVars, managers

\* For the traffic manager.
LEMMA TrafficStep == [ComponentsNext]_componentsVars => [Traffic!Next]_trafficVars
  BY DEF ComponentsNext, ManagersStep, WatchersStep, ServersStep, ClientStep,
         componentsVars, managers

\* For metrics and alerts.
LEMMA MetricStep == [ComponentsNext]_componentsVars => [Metric!Next]_metricVars
  BY DEF ComponentsNext, ManagersStep, WatchersStep, ServersStep, ClientStep,
         componentsVars, watchers

\* For the server monitor.
LEMMA StatusStep == [ComponentsNext]_componentsVars => [Status!Next]_statusVars
  BY DEF ComponentsNext, ManagersStep, WatchersStep, ServersStep, ClientStep,
         componentsVars, watchers

\* For the health checker.
LEMMA HealthStep == [ComponentsNext]_componentsVars => [Health!Next]_healthVars
  BY DEF ComponentsNext, ManagersStep, WatchersStep, ServersStep, ClientStep,
         componentsVars, watchers

-----------------------------------------------------------------------------
\* The background loops.

\* What a loop is: the task last created goes on while _running is set.
LoopInv(l) ==
  /\ l \in [running : BOOLEAN, task : [LoopIds -> {"none", "asleep", "cancelled"}],
            current : LoopIds \cup {NoTask}]
  /\ l.running => l.current \in LoopIds
  /\ {i \in LoopIds : l.task[i] = "asleep"} = IF l.running THEN {l.current} ELSE {}

\* What any user of a loop may do to it.
LoopStep(l, m) ==
  \/ /\ ~l.running
     /\ \E i \in LoopIds :
          m = [running |-> TRUE, task |-> [l.task EXCEPT ![i] = "asleep"], current |-> i]
  \/ l.running /\ m = [l EXCEPT !.running = FALSE, !.task[l.current] = "cancelled"]
  \/ \E i \in LoopIds : l.task[i] = "cancelled" /\ m = [l EXCEPT !.task[i] = "none"]
  \/ \E i \in LoopIds : /\ l.task[i] = "asleep"
                        /\ m = IF l.running THEN l ELSE [l EXCEPT !.task[i] = "none"]
  \/ m = l

\* One task goes on, whatever is done to the loop.
LEMMA LoopKeeps ==
  ASSUME NEW l, NEW m, LoopInv(l), LoopStep(l, m)
  PROVE  LoopInv(m)
<1>1. ASSUME ~l.running, NEW i \in LoopIds,
             m = [running |-> TRUE, task |-> [l.task EXCEPT ![i] = "asleep"], current |-> i]
      PROVE  LoopInv(m)
  BY <1>1 DEF LoopInv
<1>2. ASSUME l.running, m = [l EXCEPT !.running = FALSE, !.task[l.current] = "cancelled"]
      PROVE  LoopInv(m)
  BY <1>2 DEF LoopInv
<1>3. ASSUME NEW i \in LoopIds, l.task[i] = "cancelled", m = [l EXCEPT !.task[i] = "none"]
      PROVE  LoopInv(m)
  BY <1>3 DEF LoopInv
<1>4. ASSUME NEW i \in LoopIds, l.task[i] = "asleep",
             m = IF l.running THEN l ELSE [l EXCEPT !.task[i] = "none"]
      PROVE  LoopInv(m)
  BY <1>4 DEF LoopInv
<1> QED
  BY <1>1, <1>2, <1>3, <1>4 DEF LoopStep

\* A loop that was never started is one.
LEMMA LoopStarts ==
  LoopInv([running |-> FALSE, task |-> [i \in LoopIds |-> "none"], current |-> NoTask])
  BY DEF LoopInv

\* The loops of all parts.
LoopsInv ==
  /\ LoopInv(sessionLoop) /\ LoopInv(deviceLoop) /\ LoopInv(trafficLoop)
  /\ LoopInv(monitorLoop) /\ LoopInv(collectLoop) /\ LoopInv(alertLoop)

\* Each part does to its loop what LoopStep says.
LEMMA SessionLoop ==
  ASSUME [Session!Next]_sessionVars
  PROVE  LoopStep(sessionLoop, sessionLoop')
  BY DEF Session!Next, Session!UpdateSession, Session!GrowsLate, Session!CreateSession,
         Session!EndSession, Session!CleanupExpired, Session!StartStop, sessionVars,
         Session!Loop!Life, Session!Loop!Start, Session!Loop!Stop, Session!Loop!Cancelled,
         Session!Loop!Turn, Session!Loop!Asleep, LoopStep

\* The device manager does so.
LEMMA DeviceLoop ==
  ASSUME [Device!Next]_deviceVars
  PROVE  LoopStep(deviceLoop, deviceLoop')
  BY DEF Device!Next, Device!RegisterDevice, Device!UnregisterDevice, Device!DeviceConnect,
         Device!DeviceDisconnect, Device!UpdateDeviceActivity, Device!GrowsIdle,
         Device!UpdateIdleStatus, Device!StartStop, deviceVars,
         Device!Loop!Life, Device!Loop!Start, Device!Loop!Stop, Device!Loop!Cancelled,
         Device!Loop!Turn, Device!Loop!Asleep, LoopStep

\* The traffic manager does so.
LEMMA TrafficLoop ==
  ASSUME [Traffic!Next]_trafficVars
  PROVE  LoopStep(trafficLoop, trafficLoop')
  BY DEF Traffic!Next, Traffic!RecordTransfer, Traffic!CallbacksDone,
         Traffic!CallbacksCancelled, Traffic!CleanupTurn, Traffic!StartStop, trafficVars,
         Traffic!Loop!Life, Traffic!Loop!Start, Traffic!Loop!Stop, Traffic!Loop!Cancelled,
         Traffic!Loop!Turn, Traffic!Loop!Asleep, LoopStep

\* The server monitor does so.
LEMMA StatusLoop ==
  ASSUME [Status!Next]_statusVars
  PROVE  LoopStep(monitorLoop, monitorLoop')
  BY DEF Status!Next, Status!ConnectionArrives, Status!UpdateStatus, Status!StartStop,
         statusVars, Status!Loop!Life, Status!Loop!Start, Status!Loop!Stop,
         Status!Loop!Cancelled, Status!Loop!Turn, Status!Loop!Asleep, LoopStep

\* The collector and the alert manager do so.
LEMMA MetricLoops ==
  ASSUME [Metric!Next]_metricVars
  PROVE  LoopStep(collectLoop, collectLoop') /\ LoopStep(alertLoop, alertLoop')
  BY DEF Metric!Next, Metric!AddMetric, Metric!Collect, Metric!ClearMetrics,
         Metric!CoolsDown, Metric!CheckThresholds, Metric!ClearAlerts, Metric!StartStop,
         metricVars, Metric!Collecting!Life, Metric!Collecting!Start,
         Metric!Collecting!Stop, Metric!Collecting!Cancelled, Metric!Collecting!Turn,
         Metric!Collecting!Asleep, Metric!Alerting!Life, Metric!Alerting!Start,
         Metric!Alerting!Stop, Metric!Alerting!Cancelled, Metric!Alerting!Turn,
         Metric!Alerting!Asleep, LoopStep

\* Of the session, device and traffic managers, the monitor, the collector and the
\* alert manager, each has one background task while it runs and none after its
\* stop, in whatever order starts, stops and the tasks' own steps come.
THEOREM LoopsCorrect == ComponentsSpec => []OneLoop
<1>1. ComponentsInit => LoopsInv
  BY LoopStarts DEF ComponentsInit, LoopsInv, Session!Init, Session!Loop!Init,
     Device!Init, Device!Loop!Init, Traffic!Init, Traffic!Loop!Init, Status!Init,
     Status!Loop!Init, Metric!Init, Metric!Collecting!Init, Metric!Alerting!Init
<1>2. LoopsInv /\ [ComponentsNext]_componentsVars => LoopsInv'
  <2> SUFFICES ASSUME LoopsInv, [ComponentsNext]_componentsVars PROVE LoopsInv'
    OBVIOUS
  <2>1. LoopStep(sessionLoop, sessionLoop') /\ LoopStep(deviceLoop, deviceLoop')
        /\ LoopStep(trafficLoop, trafficLoop')
    BY SessionStep, DeviceStep, TrafficStep, SessionLoop, DeviceLoop, TrafficLoop
  <2>2. LoopStep(monitorLoop, monitorLoop') /\ LoopStep(collectLoop, collectLoop')
        /\ LoopStep(alertLoop, alertLoop')
    BY StatusStep, MetricStep, StatusLoop, MetricLoops
  <2> QED
    BY <2>1, <2>2, LoopKeeps DEF LoopsInv
<1>3. LoopsInv => OneLoop
  BY DEF LoopsInv, LoopInv, OneLoop, Session!Loop!OneLoop, Device!Loop!OneLoop,
     Traffic!Loop!OneLoop, Status!Loop!OneLoop, Metric!Collecting!OneLoop,
     Metric!Alerting!OneLoop, Session!Loop!Asleep, Device!Loop!Asleep,
     Traffic!Loop!Asleep, Status!Loop!Asleep, Metric!Collecting!Asleep,
     Metric!Alerting!Asleep
<1> QED
  BY <1>1, <1>2, <1>3, PTL DEF ComponentsSpec

-----------------------------------------------------------------------------
\* The session tables.

\* A session, and the two tables as functions.
Record == [client : Clients, active : BOOLEAN, late : BOOLEAN]

TablesType ==
  /\ sessions \in [DOMAIN sessions -> Record]
  /\ byClient \in [DOMAIN byClient -> SUBSET Sids]
  /\ DOMAIN sessions \subseteq Sids /\ DOMAIN byClient \subseteq Clients

\* A step that keeps every session with its client, and the index, keeps the tables.
LEMMA SameSessions ==
  ASSUME TablesType, TablesAgree, byClient' = byClient,
         DOMAIN sessions' = DOMAIN sessions, sessions' \in [DOMAIN sessions -> Record],
         \A s \in DOMAIN sessions : sessions'[s].client = sessions[s].client
  PROVE  TablesType' /\ TablesAgree'
  BY DEF TablesType, TablesAgree, Session!TablesAgree, Session!IdsOf

\* create_session keeps them.
LEMMA CreateKeeps ==
  ASSUME TablesType, TablesAgree, NEW s \in Sids, NEW c \in Clients,
         Session!CreateSession(s, c)
  PROVE  TablesType' /\ TablesAgree'
<1>1. /\ s \notin DOMAIN sessions
      /\ DOMAIN sessions' = DOMAIN sessions \cup {s}
      /\ sessions'[s] = [client |-> c, active |-> TRUE, late |-> FALSE]
      /\ \A x \in DOMAIN sessions : sessions'[x] = sessions[x]
      /\ sessions' \in [DOMAIN sessions' -> Record]
  BY DEF Session!CreateSession, Session!Put, TablesType, Record
<1>2. /\ DOMAIN byClient' = DOMAIN byClient \cup {c}
      /\ byClient'[c] = Session!IdsOf(c) \cup {s}
      /\ \A d \in DOMAIN byClient \ {c} : byClient'[d] = byClient[d]
      /\ byClient' \in [DOMAIN byClient' -> SUBSET Sids]
  BY DEF Session!CreateSession, Session!Put, TablesType, Session!IdsOf
<1>3. TablesType'
  BY <1>1, <1>2 DEF TablesType
<1>4. ASSUME NEW x \in DOMAIN sessions'
      PROVE  /\ sessions'[x].client \in DOMAIN byClient'
             /\ x \in byClient'[sessions'[x].client]
  <2>1. CASE x = s
    BY <1>1, <1>2, <2>1
  <2>2. CASE x # s
    <3>1. x \in Session!IdsOf(sessions[x].client) /\ sessions'[x] = sessions[x]
      BY <1>1, <1>4, <2>2 DEF TablesAgree, Session!TablesAgree
    <3>2. sessions[x].client \in DOMAIN byClient /\ x \in byClient[sessions[x].client]
      BY <3>1 DEF Session!IdsOf
    <3> QED
      BY <1>2, <3>1, <3>2 DEF Session!IdsOf
  <2> QED
    BY <2>1, <2>2
<1>5. ASSUME NEW d \in DOMAIN byClient'
      PROVE  /\ byClient'[d] # {}
             /\ \A x \in byClient'[d] : x \in DOMAIN sessions' /\ sessions'[x].client = d
  <2>1. CASE d = c
    <3>1. \A x \in Session!IdsOf(c) : x \in DOMAIN sessions /\ sessions[x].client = c
      BY DEF Session!IdsOf, TablesAgree, Session!TablesAgree
    <3> QED
      BY <1>1, <1>2, <2>1, <3>1
  <2>2. CASE d # c
    BY <1>1, <1>2, <1>5, <2>2 DEF TablesAgree, Session!TablesAgree
  <2> QED
    BY <2>1, <2>2
<1> QED
  BY <1>3, <1>4, <1>5 DEF TablesAgree, Session!TablesAgree, Session!IdsOf

\* The cleanup keeps them: what leaves one table leaves the other.
LEMMA CleanupTablesKeeps ==
  ASSUME TablesType, TablesAgree, Session!CleanupExpired
  PROVE  TablesType' /\ TablesAgree'
<1> DEFINE ended == Session!Expired
<1>1. /\ DOMAIN sessions' = DOMAIN sessions \ ended
      /\ \A x \in DOMAIN sessions' : sessions'[x] = sessions[x]
      /\ sessions' \in [DOMAIN sessions' -> Record]
  BY DEF Session!CleanupExpired, TablesType, Session!Restrict
<1>2. /\ DOMAIN byClient' = {c \in DOMAIN byClient : byClient[c] \ ended # {}}
      /\ \A c \in DOMAIN byClient' : byClient'[c] = byClient[c] \ ended
      /\ byClient' \in [DOMAIN byClient' -> SUBSET Sids]
  BY DEF Session!CleanupExpired, TablesType
<1>3. TablesType'
  BY <1>1, <1>2 DEF TablesType
<1>4. TablesAgree'
  <2>1. ASSUME NEW s \in DOMAIN sessions'
        PROVE  s \in Session!IdsOf(sessions[s].client) /\ s \notin ended
    BY <1>1, <2>1 DEF TablesAgree, Session!TablesAgree
  <2>2. ASSUME NEW c \in DOMAIN byClient', NEW s \in byClient'[c]
        PROVE  s \in DOMAIN sessions /\ sessions[s].client = c /\ s \notin ended
    BY <1>2, <2>2 DEF TablesAgree, Session!TablesAgree
  <2> QED
    BY <1>1, <1>2, <2>1, <2>2 DEF TablesAgree, Session!TablesAgree, Session!IdsOf
<1> QED
  BY <1>3, <1>4

\* _sessions and _client_sessions name the same sessions under the same clients and
\* no client is left behind without any, for any mixture of creating, ending,
\* expiring and cleaning up.
THEOREM TablesCorrect == ComponentsSpec => []TablesAgree
<1>1. ComponentsInit => TablesType /\ TablesAgree
  BY DEF ComponentsInit, Session!Init, TablesType, TablesAgree, Session!TablesAgree
<1>2. TablesType /\ TablesAgree /\ [ComponentsNext]_componentsVars
        => TablesType' /\ TablesAgree'
  <2> SUFFICES ASSUME TablesType, TablesAgree, [Session!Next]_sessionVars
               PROVE  TablesType' /\ TablesAgree'
    BY SessionStep
  <2>1. ASSUME NEW s \in Sids, Session!UpdateSession(s) \/ Session!GrowsLate(s)
        PROVE  TablesType' /\ TablesAgree'
    <3>1. PICK b \in BOOLEAN : /\ s \in DOMAIN sessions /\ byClient' = byClient
                               /\ sessions' = [sessions EXCEPT ![s].late = b]
      BY <2>1 DEF Session!UpdateSession, Session!GrowsLate
    <3>2. /\ byClient' = byClient /\ DOMAIN sessions' = DOMAIN sessions
          /\ sessions' \in [DOMAIN sessions -> Record]
          /\ \A x \in DOMAIN sessions : sessions'[x].client = sessions[x].client
      BY <3>1 DEF TablesType, Record
    <3> QED
      BY <3>2, SameSessions
  <2>2. ASSUME NEW s \in Sids, NEW c \in Clients, Session!CreateSession(s, c)
        PROVE  TablesType' /\ TablesAgree'
    BY <2>2, CreateKeeps
  <2>3. ASSUME NEW c \in Clients, Session!EndSession(c)
        PROVE  TablesType' /\ TablesAgree'
    <3>1. /\ byClient' = byClient /\ DOMAIN sessions' = DOMAIN sessions
          /\ sessions' \in [DOMAIN sessions -> Record]
          /\ \A x \in DOMAIN sessions : sessions'[x].client = sessions[x].client
      BY <2>3 DEF Session!EndSession, TablesType, Record
    <3> QED
      BY <3>1, SameSessions
  <2>4. CASE Session!CleanupExpired
    BY <2>4, CleanupTablesKeeps
  <2>5. CASE UNCHANGED <<sessions, byClient>>
    BY <2>5 DEF TablesType, TablesAgree, Session!TablesAgree, Session!IdsOf
  <2> QED
    BY <2>1, <2>2, <2>3, <2>4, <2>5 DEF Session!Next, Session!StartStop, sessionVars
<1> QED
  BY <1>1, <1>2, PTL DEF ComponentsSpec

-----------------------------------------------------------------------------
\* The devices.

\* What is kept of a device.
Listed == [status : {"online", "idle", "offline"}, idle : BOOLEAN]

\* The tables of the device manager as functions; a count that is there is positive.
DevicesType ==
  /\ devices \in [DOMAIN devices -> Listed]
  /\ IsFiniteSet(DOMAIN devices)
  /\ connections \in [DOMAIN connections -> Nat \ {0}]
  /\ open \in [Devices -> Nat]

DevicesInv == DevicesType /\ DevicesCounted

\* The two parts of the invariant that say something of each device.
DevicesEach ==
  /\ \A d \in DOMAIN connections \cap DOMAIN devices : devices[d].status = "online"
  /\ \A d \in Devices \ muddled : open[d] = Device!Count(d)

\* The part that is about their number.
DevicesLimit ==
  DOMAIN devices \subseteq AllowedDevices \/ Cardinality(DOMAIN devices) <= MaxDevices

\* The number of devices is the same in the module's words.
LEMMA SameNumber == \A S : Device!Cardinality(S) = Cardinality(S)
  BY DEF Device!Cardinality, Cardinality

\* A step that registers and removes no device keeps the limit.
LEMMA SameDevices ==
  ASSUME DevicesInv, DOMAIN devices' = DOMAIN devices
  PROVE  DevicesLimit' /\ IsFiniteSet(DOMAIN devices')
  BY SameNumber
     DEF DevicesInv, DevicesType, Listed, DevicesCounted, Device!DevicesCounted,
         DevicesLimit

\* Registering keeps the invariant: the limit is looked at before.
LEMMA RegisterKeeps ==
  ASSUME DevicesInv, NEW d \in Devices, Device!RegisterDevice(d)
  PROVE  DevicesInv'
<1>1. /\ devices' = Device!Put(devices, d, [status |-> "online", idle |-> FALSE])
      /\ UNCHANGED <<connections, open, muddled>>
  BY DEF Device!RegisterDevice
<1>2. /\ devices' \in [DOMAIN devices' -> Listed]
      /\ DOMAIN devices' = DOMAIN devices \cup {d}
      /\ devices'[d].status = "online"
      /\ \A x \in DOMAIN devices : x # d => devices'[x] = devices[x]
  BY <1>1 DEF Device!Put, DevicesInv, DevicesType, Listed
<1>3. DevicesEach'
  BY <1>1, <1>2
     DEF DevicesInv, DevicesType, Listed, DevicesEach, DevicesCounted, Device!DevicesCounted,
         Device!Count
<1>4. DevicesLimit' /\ IsFiniteSet(DOMAIN devices')
  <2>1. CASE d \in DOMAIN devices
    BY <1>2, <2>1, SameDevices
  <2>2. CASE d \notin DOMAIN devices
    <3>1. /\ IsFiniteSet(DOMAIN devices')
          /\ Cardinality(DOMAIN devices') = Cardinality(DOMAIN devices) + 1
      BY <1>2, <2>2, FS_AddElement DEF DevicesInv, DevicesType, Listed
    <3>2. Cardinality(DOMAIN devices) \in Nat
      BY FS_CardinalityType DEF DevicesInv, DevicesType, Listed
    <3>3. Cardinality(DOMAIN devices) < MaxDevices
      BY <2>2, SameNumber DEF Device!RegisterDevice, Device!Known
    <3> QED
      BY SameNumber, <3>1, <3>2, <3>3, ComponentsAssumption DEF DevicesLimit
  <2> QED
    BY <2>1, <2>2
<1> QED
  BY SameNumber, <1>1, <1>2, <1>3, <1>4
     DEF DevicesInv, DevicesType, Listed, DevicesEach, DevicesLimit, DevicesCounted,
         Device!DevicesCounted, Device!Count

\* Unregistering keeps it.
LEMMA UnregisterKeeps ==
  ASSUME DevicesInv, NEW d \in Devices, Device!UnregisterDevice(d)
  PROVE  DevicesInv'
<1>1. /\ devices' = [x \in DOMAIN devices \ {d} |-> devices[x]]
      /\ UNCHANGED <<connections, open, muddled>>
  BY DEF Device!UnregisterDevice, Device!Restrict
<1>2. /\ devices' \in [DOMAIN devices' -> Listed]
      /\ DOMAIN devices' = DOMAIN devices \ {d}
      /\ \A x \in DOMAIN devices' : devices'[x] = devices[x]
  BY <1>1 DEF DevicesInv, DevicesType, Listed
<1>3. /\ IsFiniteSet(DOMAIN devices')
      /\ Cardinality(DOMAIN devices') <= Cardinality(DOMAIN devices)
  BY <1>2, FS_Subset DEF DevicesInv, DevicesType, Listed
<1>4. Cardinality(DOMAIN devices) \in Nat /\ Cardinality(DOMAIN devices') \in Nat
  BY <1>3, FS_CardinalityType DEF DevicesInv, DevicesType, Listed
<1>5. DevicesLimit'
  BY SameNumber, <1>2, <1>3, <1>4, ComponentsAssumption
     DEF DevicesInv, DevicesCounted, Device!DevicesCounted, DevicesLimit
<1> QED
  BY SameNumber, <1>1, <1>2, <1>3, <1>5
     DEF DevicesInv, DevicesType, Listed, DevicesLimit, DevicesCounted, Device!DevicesCounted,
         Device!Count

\* Connecting keeps it: a device that is known is counted and online.
LEMMA ConnectKeeps ==
  ASSUME DevicesInv, NEW d \in Devices, Device!DeviceConnect(d)
  PROVE  DevicesInv'
<1>1. open' = [open EXCEPT ![d] = @ + 1] /\ open' \in [Devices -> Nat]
  BY DEF Device!DeviceConnect, DevicesInv, DevicesType
<1>2. CASE /\ devices' = [devices EXCEPT ![d].status = "online"] /\ d \in DOMAIN devices
           /\ connections' = Device!Put(connections, d, Device!Count(d) + 1)
           /\ UNCHANGED muddled
  <2>1. Device!Count(d) \in Nat
    BY DEF Device!Count, DevicesInv, DevicesType
  <2>2. /\ devices' \in [DOMAIN devices' -> Listed]
        /\ DOMAIN devices' = DOMAIN devices /\ devices'[d].status = "online"
        /\ \A x \in DOMAIN devices : x # d => devices'[x] = devices[x]
    BY <1>2 DEF DevicesInv, DevicesType, Listed
  <2>3. /\ connections' \in [DOMAIN connections' -> Nat \ {0}]
        /\ DOMAIN connections' = DOMAIN connections \cup {d}
        /\ connections'[d] = Device!Count(d) + 1
        /\ \A x \in DOMAIN connections : x # d => connections'[x] = connections[x]
    BY <1>2, <2>1 DEF Device!Put, DevicesInv, DevicesType, Listed
  <2>4. /\ Device!Count(d)' = Device!Count(d) + 1
        /\ \A x \in Devices \ {d} : Device!Count(x)' = Device!Count(x)
    BY <2>3 DEF Device!Count
  <2>5. DevicesEach'
    <3>1. \A x \in DOMAIN connections' \cap DOMAIN devices' : devices'[x].status = "online"
      BY <2>2, <2>3 DEF DevicesInv, DevicesCounted, Device!DevicesCounted
    <3>2. \A x \in Devices \ muddled' : open'[x] = Device!Count(x)'
      BY <1>1, <1>2, <2>4
         DEF DevicesInv, DevicesType, Listed, DevicesCounted, Device!DevicesCounted
    <3> QED
      BY <3>1, <3>2 DEF DevicesEach
  <2> QED
    BY SameNumber, <1>1, <2>2, <2>3, <2>5, SameDevices
       DEF DevicesInv, DevicesType, Listed, DevicesEach, DevicesLimit, DevicesCounted,
           Device!DevicesCounted
<1>3. CASE muddled' = muddled \cup {d} /\ UNCHANGED <<devices, connections>>
  BY <1>1, <1>3
     DEF DevicesInv, DevicesType, Listed, DevicesCounted, Device!DevicesCounted, Device!Count
<1> QED
  BY <1>2, <1>3 DEF Device!DeviceConnect, Device!Known

\* Disconnecting keeps it: the last connection takes the count with it.
LEMMA DisconnectKeeps ==
  ASSUME DevicesInv, NEW d \in Devices, Device!DeviceDisconnect(d)
  PROVE  DevicesInv'
<1>1. /\ open' = [open EXCEPT ![d] = @ - 1] /\ open' \in [Devices -> Nat]
      /\ \A x \in Devices \ {d} : open'[x] = open[x]
      /\ open'[d] = open[d] - 1
  BY DEF Device!DeviceDisconnect, DevicesInv, DevicesType
<1>2. CASE /\ d \in DOMAIN connections /\ d \in DOMAIN devices /\ Device!LastConnection(d)
           /\ connections' = Device!Restrict(connections, DOMAIN connections \ {d})
           /\ devices' = [devices EXCEPT ![d].status = "idle"]
           /\ UNCHANGED muddled
  <2>1. connections[d] = 1
    BY <1>2 DEF Device!LastConnection, DevicesInv, DevicesType
  <2>2. /\ devices' \in [DOMAIN devices' -> Listed]
        /\ DOMAIN devices' = DOMAIN devices
        /\ \A x \in DOMAIN devices : x # d => devices'[x] = devices[x]
    BY <1>2 DEF DevicesInv, DevicesType, Listed
  <2>3. /\ connections' \in [DOMAIN connections' -> Nat \ {0}]
        /\ DOMAIN connections' = DOMAIN connections \ {d}
        /\ \A x \in DOMAIN connections' : connections'[x] = connections[x]
    BY <1>2 DEF Device!Restrict, DevicesInv, DevicesType
  <2>4. /\ Device!Count(d) = 1 /\ Device!Count(d)' = 0
        /\ \A x \in Devices \ {d} : Device!Count(x)' = Device!Count(x)
    BY <1>2, <2>1, <2>3 DEF Device!Count
  <2>5. DevicesEach'
    <3>1. \A x \in DOMAIN connections' \cap DOMAIN devices' : devices'[x].status = "online"
      BY <2>2, <2>3 DEF DevicesInv, DevicesCounted, Device!DevicesCounted
    <3>2. \A x \in Devices \ muddled' : open'[x] = Device!Count(x)'
      BY <1>1, <1>2, <2>4 DEF DevicesInv, DevicesCounted, Device!DevicesCounted
    <3> QED
      BY <3>1, <3>2 DEF DevicesEach
  <2> QED
    BY SameNumber, <1>1, <2>2, <2>3, <2>5, SameDevices
       DEF DevicesInv, DevicesType, Listed, DevicesEach, DevicesLimit, DevicesCounted,
           Device!DevicesCounted
<1>3. CASE /\ d \in DOMAIN connections /\ ~Device!LastConnection(d)
           /\ connections' = [connections EXCEPT ![d] = @ - 1]
           /\ UNCHANGED <<devices, muddled>>
  <2>1. /\ connections' \in [DOMAIN connections -> Nat \ {0}]
        /\ connections'[d] = connections[d] - 1
        /\ \A x \in DOMAIN connections : x # d => connections'[x] = connections[x]
    BY <1>3 DEF Device!LastConnection, DevicesInv, DevicesType
  <2>2. DOMAIN connections' = DOMAIN connections
    BY <1>3
  <2>3. /\ Device!Count(d)' = Device!Count(d) - 1
        /\ \A x \in Devices \ {d} : Device!Count(x)' = Device!Count(x)
    BY <1>3, <2>1, <2>2 DEF Device!Count
  <2>4. DevicesEach'
    <3>1. \A x \in DOMAIN connections' \cap DOMAIN devices' : devices'[x].status = "online"
      BY <1>3, <2>2 DEF DevicesInv, DevicesCounted, Device!DevicesCounted
    <3>2. \A x \in Devices \ muddled' : open'[x] = Device!Count(x)'
      BY <1>1, <1>3, <2>3 DEF DevicesInv, DevicesCounted, Device!DevicesCounted
    <3> QED
      BY <3>1, <3>2 DEF DevicesEach
  <2> QED
    BY <1>1, <1>3, <2>1, <2>2, <2>4
       DEF DevicesInv, DevicesType, Listed, DevicesEach, DevicesCounted, Device!DevicesCounted
<1>4. CASE muddled' = muddled \cup {d} /\ UNCHANGED <<devices, connections>>
  BY <1>1, <1>4
     DEF DevicesInv, DevicesType, Listed, DevicesCounted, Device!DevicesCounted, Device!Count
<1> QED
  BY <1>2, <1>3, <1>4 DEF Device!DeviceDisconnect, Device!Known

\* The idle loop and the clock keep it: a device with a connection stays online.
LEMMA IdleKeeps ==
  ASSUME DevicesInv, UNCHANGED <<connections, open, muddled>>,
         devices' \in [DOMAIN devices -> Listed],
         \A d \in DOMAIN devices :
           d \in DOMAIN connections => devices'[d].status = devices[d].status
  PROVE  DevicesInv'
<1>1. DOMAIN devices' = DOMAIN devices
  OBVIOUS
<1> QED
  BY <1>1
     DEF DevicesInv, DevicesType, Listed, DevicesCounted, Device!DevicesCounted, Device!Count

\* For any number of devices and any limit: a device with a connection is online,
\* the count is that of the callers' connections unless one came or went while the
\* device was not registered, and registering respects the limit.
THEOREM DevicesCorrect == ComponentsSpec => []DevicesCounted
<1>1. ComponentsInit => DevicesInv
  <2> SUFFICES ASSUME Device!Init PROVE DevicesInv
    BY DEF ComponentsInit
  <2>1. DOMAIN devices = AllowedDevices /\ DOMAIN connections = {}
    BY DEF Device!Init
  <2>2. DevicesType
    BY <2>1, ComponentsAssumption DEF Device!Init, DevicesType, Listed
  <2> QED
    BY <2>1, <2>2
       DEF Device!Init, DevicesInv, DevicesCounted, Device!DevicesCounted, Device!Count
<1>2. DevicesInv /\ [ComponentsNext]_componentsVars => DevicesInv'
  <2> SUFFICES ASSUME DevicesInv, [Device!Next]_deviceVars PROVE DevicesInv'
    BY DeviceStep
  <2>1. CASE UNCHANGED <<devices, connections, open, muddled>>
    BY <2>1
       DEF DevicesInv, DevicesType, Listed, DevicesCounted, Device!DevicesCounted, Device!Count
  <2>2. ASSUME NEW d \in Devices,
               Device!UpdateDeviceActivity(d) \/ Device!GrowsIdle(d)
        PROVE  DevicesInv'
    <3>1. PICK b \in BOOLEAN : /\ devices' = [devices EXCEPT ![d].idle = b]
                               /\ UNCHANGED <<connections, open, muddled>>
      BY <2>2 DEF Device!UpdateDeviceActivity, Device!GrowsIdle
    <3>2. /\ devices' \in [DOMAIN devices -> Listed]
          /\ \A x \in DOMAIN devices : devices'[x].status = devices[x].status
      BY <3>1 DEF DevicesInv, DevicesType, Listed
    <3> QED
      BY <3>1, <3>2, IdleKeeps
  <2>3. CASE Device!UpdateIdleStatus
    <3>1. /\ devices' \in [DOMAIN devices -> Listed]
          /\ \A x \in DOMAIN devices :
               x \in DOMAIN connections => devices'[x].status = devices[x].status
          /\ UNCHANGED <<connections, open, muddled>>
      BY <2>3 DEF Device!UpdateIdleStatus, DevicesInv, DevicesType, Listed
    <3> QED
      BY <3>1, IdleKeeps
  <2> QED
    BY <2>1, <2>2, <2>3, RegisterKeeps, UnregisterKeeps, ConnectKeeps, DisconnectKeeps
       DEF Device!Next, Device!StartStop, deviceVars
<1> QED
  BY <1>1, <1>2, PTL DEF ComponentsSpec, DevicesInv

-----------------------------------------------------------------------------
\* The health checks.

\* The tables of the checker as functions.
HealthType ==
  /\ status \in [DOMAIN status -> [healthy : BOOLEAN, failures : Nat]]
  /\ task \in [DOMAIN task -> [server : Servers, at : {"loop", "check", "cancelled"}]]
  /\ checkTasks \in [DOMAIN checkTasks -> TaskIds]
  /\ told \in [DOMAIN told -> BOOLEAN] /\ DOMAIN status \subseteq DOMAIN told
  /\ DOMAIN status \subseteq Servers

HealthInv == HealthType /\ ChecksReachable

\* add_server keeps the invariant.
LEMMA AddServerKeeps ==
  ASSUME HealthInv, NEW s \in Servers, Health!AddServer(s)
  PROVE  HealthInv'
<1>1. PICK i \in TaskIds \ (DOMAIN task \cup Health!Range(checkTasks)) :
        /\ task' = Health!Put(task, i, [server |-> s, at |-> "loop"])
        /\ checkTasks' = Health!Put(checkTasks, s, i)
  BY DEF Health!AddServer
<1>2. /\ s \notin DOMAIN status
      /\ status' = Health!Put(status, s, [healthy |-> TRUE, failures |-> 0])
      /\ told' = Health!Put(told, s, TRUE)
  BY DEF Health!AddServer
<1>3. HealthType'
  BY <1>1, <1>2 DEF HealthInv, HealthType, Health!Put
<1>4. ASSUME NEW j \in DOMAIN task', task'[j].at # "cancelled"
      PROVE  /\ task'[j].server \in DOMAIN status' /\ task'[j].server \in DOMAIN checkTasks'
             /\ checkTasks'[task'[j].server] = j
  <2>1. CASE j = i
    BY <1>1, <1>2, <2>1 DEF HealthInv, HealthType, Health!Put
  <2>2. CASE j # i
    BY <1>1, <1>2, <1>4, <2>2
       DEF HealthInv, HealthType, ChecksReachable, Health!ChecksReachable, Health!Put
  <2> QED
    BY <2>1, <2>2
<1>5. ASSUME NEW x \in DOMAIN status'
      PROVE  /\ told'[x] = status'[x].healthy
             /\ status'[x].healthy <=> status'[x].failures < MaxFailures
  <2>1. CASE x = s
    <3>1. status'[x] = [healthy |-> TRUE, failures |-> 0] /\ told'[x] = TRUE
      BY <1>2, <2>1 DEF Health!Put
    <3>2. status'[x].healthy = TRUE /\ status'[x].failures = 0 /\ 0 < MaxFailures
      BY <3>1, ComponentsAssumption
    <3> QED
      BY <3>1, <3>2
  <2>2. CASE x # s
    <3>1. x \in DOMAIN status /\ status'[x] = status[x] /\ told'[x] = told[x]
      BY <1>2, <1>5, <2>2 DEF Health!Put, HealthInv, HealthType
    <3> QED
      BY <3>1 DEF HealthInv, ChecksReachable, Health!ChecksReachable
  <2> QED
    BY <2>1, <2>2
<1> QED
  BY <1>3, <1>4, <1>5 DEF HealthInv, ChecksReachable, Health!ChecksReachable

\* A task that goes on is registered, and its server is there.
LEMMA TaskRegistered ==
  ASSUME HealthInv, NEW j \in DOMAIN task, task[j].at # "cancelled"
  PROVE  /\ task[j].server \in DOMAIN status /\ task[j].server \in DOMAIN checkTasks
         /\ checkTasks[task[j].server] = j
  BY DEF HealthInv, ChecksReachable, Health!ChecksReachable

\* Cancelling leaves the other tasks as they are.
LEMMA CancellingFacts ==
  ASSUME HealthInv, NEW T, task' = Health!Cancelling(T)
  PROVE  /\ task' \in [DOMAIN task -> [server : Servers, at : {"loop", "check", "cancelled"}]]
         /\ DOMAIN task' = DOMAIN task
         /\ \A j \in DOMAIN task : task'[j].at # "cancelled"
              => j \notin T /\ task'[j] = task[j]
  BY DEF Health!Cancelling, HealthInv, HealthType

\* stop keeps the invariant: it cancels every task that went on.
LEMMA StopKeeps ==
  ASSUME HealthInv, Health!Stop
  PROVE  HealthInv'
<1>1. /\ task' = Health!Cancelling({checkTasks[x] : x \in DOMAIN checkTasks})
      /\ checkTasks' = <<>> /\ UNCHANGED <<status, told>>
  BY DEF Health!Stop
<1>2. HealthType'
  BY <1>1, CancellingFacts DEF HealthInv, HealthType
<1>3. \A j \in DOMAIN task' : task'[j].at = "cancelled"
  BY <1>1, CancellingFacts, TaskRegistered
<1> QED
  BY <1>1, <1>2, <1>3 DEF HealthInv, ChecksReachable, Health!ChecksReachable

\* remove_server keeps it: the server's task is the one registered for it.
LEMMA RemoveKeeps ==
  ASSUME HealthInv, NEW s \in Servers, Health!RemoveServer(s)
  PROVE  HealthInv'
<1>1. /\ task' = Health!Cancelling({checkTasks[x] : x \in {s} \cap DOMAIN checkTasks})
      /\ checkTasks' = [x \in DOMAIN checkTasks \ {s} |-> checkTasks[x]]
      /\ status' = [x \in DOMAIN status \ {s} |-> status[x]] /\ told' = told
  BY DEF Health!RemoveServer, Health!Restrict
<1>2. HealthType'
  BY <1>1, CancellingFacts DEF HealthInv, HealthType
<1>3. ASSUME NEW j \in DOMAIN task', task'[j].at # "cancelled"
      PROVE  /\ task'[j].server \in DOMAIN status' /\ task'[j].server \in DOMAIN checkTasks'
             /\ checkTasks'[task'[j].server] = j
  <2> DEFINE x == task[j].server
  <2>1. /\ j \in DOMAIN task /\ task'[j] = task[j]
        /\ j \notin {checkTasks[y] : y \in {s} \cap DOMAIN checkTasks}
    BY <1>1, <1>3, CancellingFacts
  <2>2. x \in DOMAIN status /\ x \in DOMAIN checkTasks /\ checkTasks[x] = j
    BY <1>3, <2>1, TaskRegistered
  <2>3. x # s
    BY <2>1, <2>2
  <2> QED
    BY <1>1, <2>1, <2>2, <2>3
<1> QED
  BY <1>1, <1>2, <1>3 DEF HealthInv, ChecksReachable, Health!ChecksReachable

\* A task that ends keeps it, whatever it ends for.
LEMMA TaskEndKeeps ==
  ASSUME HealthInv, NEW i, task' = Health!Restrict(task, DOMAIN task \ {i}),
         UNCHANGED <<status, checkTasks, told>>
  PROVE  HealthInv'
<1>1. HealthType'
  BY DEF HealthInv, HealthType, Health!Restrict
<1> QED
  BY <1>1 DEF HealthInv, ChecksReachable, Health!ChecksReachable, Health!Restrict

\* A check that comes back keeps it.
LEMMA CheckKeeps ==
  ASSUME HealthInv, NEW i, i \in DOMAIN task, task[i].at = "check",
         NEW healthy \in BOOLEAN, Health!EndCheck(i, healthy)
  PROVE  HealthInv'
<1> DEFINE s == task[i].server
           old == status[s]
           failures == IF healthy THEN 0 ELSE old.failures + 1
           new == [healthy |-> healthy \/ (old.healthy /\ failures < MaxFailures),
                   failures |-> failures]
<1>1. /\ status' = [status EXCEPT ![s] = new]
      /\ told' = IF new.healthy # old.healthy THEN [told EXCEPT ![s] = new.healthy] ELSE told
      /\ task' = [task EXCEPT ![i].at = "loop"] /\ checkTasks' = checkTasks
  BY DEF Health!EndCheck
<1>2. s \in DOMAIN status /\ s \in DOMAIN checkTasks /\ checkTasks[s] = i /\ s \in Servers
  BY TaskRegistered DEF HealthInv, HealthType
<1>3. /\ old.healthy \in BOOLEAN /\ old.failures \in Nat /\ told[s] = old.healthy
      /\ old.healthy <=> old.failures < MaxFailures
  BY <1>2 DEF HealthInv, HealthType, ChecksReachable, Health!ChecksReachable
<1>4. /\ failures \in Nat /\ new.healthy \in BOOLEAN /\ new.failures = failures
      /\ new.healthy <=> failures < MaxFailures
      /\ new \in [healthy : BOOLEAN, failures : Nat]
  BY <1>3, ComponentsAssumption
<1> HIDE DEF new, failures, old
<1>5. HealthType'
  BY <1>1, <1>2, <1>4 DEF HealthInv, HealthType
<1>6. \A x \in DOMAIN status' : /\ told'[x] = status'[x].healthy
                                /\ status'[x].healthy <=> status'[x].failures < MaxFailures
  <2> SUFFICES ASSUME NEW x \in DOMAIN status'
               PROVE  /\ told'[x] = status'[x].healthy
                      /\ status'[x].healthy <=> status'[x].failures < MaxFailures
    OBVIOUS
  <2>1. CASE x = s
    <3>1. status'[x] = new /\ told'[x] = new.healthy
      BY <1>1, <1>2, <1>3, <1>4, <2>1 DEF HealthInv, HealthType, old
    <3> QED
      BY <1>4, <3>1
  <2>2. CASE x # s
    <3>1. x \in DOMAIN status /\ status'[x] = status[x] /\ told'[x] = told[x]
      BY <1>1, <2>2 DEF HealthInv, HealthType
    <3> QED
      BY <3>1 DEF HealthInv, ChecksReachable, Health!ChecksReachable
  <2> QED
    BY <2>1, <2>2
<1>7. \A j \in DOMAIN task' : task'[j].at # "cancelled" =>
        /\ j \in DOMAIN task /\ task[j].at # "cancelled" /\ task'[j].server = task[j].server
  BY <1>1 DEF HealthInv, HealthType
<1>8. DOMAIN status' = DOMAIN status
  BY <1>1
<1>9. \A j \in DOMAIN task' : task'[j].at # "cancelled" =>
        /\ task'[j].server \in DOMAIN status' /\ task'[j].server \in DOMAIN checkTasks'
        /\ checkTasks'[task'[j].server] = j
  BY <1>1, <1>7, <1>8, TaskRegistered
<1> QED
  BY <1>5, <1>6, <1>9 DEF HealthInv, ChecksReachable, Health!ChecksReachable

\* However servers come and go and the checker stops and starts while checks are
\* out: a check that goes on is the one registered for a server that is there, so
\* removing the server or stopping reaches it, and the callbacks have heard of
\* every change of a server's health.
THEOREM ChecksCorrect == ComponentsSpec => []ChecksReachable
<1>1. ComponentsInit => HealthInv
  BY DEF ComponentsInit, Health!Init, HealthInv, HealthType, ChecksReachable,
         Health!ChecksReachable
<1>2. HealthInv /\ [ComponentsNext]_componentsVars => HealthInv'
  <2> SUFFICES ASSUME HealthInv, [Health!Next]_healthVars PROVE HealthInv'
    BY HealthStep
  <2>1. CASE UNCHANGED <<status, checkTasks, task, told>>
    BY <2>1 DEF HealthInv, HealthType, ChecksReachable, Health!ChecksReachable
  <2>2. CASE Health!Stop
    BY <2>2, StopKeeps
  <2>3. ASSUME NEW s \in Servers, Health!AddServer(s) PROVE HealthInv'
    BY <2>3, AddServerKeeps
  <2>4. ASSUME NEW s \in Servers, Health!RemoveServer(s) PROVE HealthInv'
    BY <2>4, RemoveKeeps
  <2>5. ASSUME NEW i \in TaskIds, Health!BeginCheck(i) PROVE HealthInv'
    <3>1. i \in DOMAIN task /\ task[i].at = "loop" /\ UNCHANGED <<status, checkTasks, told>>
      BY <2>5 DEF Health!BeginCheck
    <3>2. CASE task' = [task EXCEPT ![i].at = "check"]
      <4>1. HealthType'
        BY <3>1, <3>2 DEF HealthInv, HealthType
      <4>2. \A j \in DOMAIN task' : /\ j \in DOMAIN task /\ task'[j].server = task[j].server
                                    /\ task'[j].at # "cancelled" => task[j].at # "cancelled"
        BY <3>1, <3>2 DEF HealthInv, HealthType
      <4> QED
        BY <3>1, <4>1, <4>2 DEF HealthInv, ChecksReachable, Health!ChecksReachable
    <3>3. CASE task' = Health!Restrict(task, DOMAIN task \ {i})
      BY <3>1, <3>3, TaskEndKeeps
    <3> QED
      BY <2>5, <3>2, <3>3 DEF Health!BeginCheck
  <2>6. ASSUME NEW i \in TaskIds, Health!Check(i) PROVE HealthInv'
    BY <2>6, CheckKeeps DEF Health!Check
  <2>7. ASSUME NEW i \in TaskIds, Health!CancelledTask(i) PROVE HealthInv'
    BY <2>7, TaskEndKeeps DEF Health!CancelledTask
  <2> QED
    BY <2>1, <2>2, <2>3, <2>4, <2>5, <2>6, <2>7
       DEF Health!Next, Health!Start, healthVars
<1>3. HealthInv => ChecksReachable
  BY DEF HealthInv
<1> QED
  BY <1>1, <1>2, <1>3, PTL DEF ComponentsSpec
-----------------------------------------------------------------------------
\* The client's local proxy.

\* A step of the whole is one of the local proxy or leaves it alone.
LEMMA ProxyStep == [ComponentsNext]_componentsVars => [Proxy!Next]_proxyVars
  BY DEF ComponentsNext, ManagersStep, WatchersStep, ServersStep, ClientStep,
         componentsVars, clientSide

\* Where a connection has no socket to the server.
NoSocket == {"new", "accepted", "handshake", "dial", "direct dial", "direct", "parting",
             "closing", "closed", "over"}

\* The only socket is the adapter's, there is none before an attempt and after the
\* finally, and the local socket is closed unless the finally was cut short.
ProxyInv ==
  /\ DOMAIN place = Conns /\ DOMAIN sockets = Conns /\ DOMAIN held = Conns
  /\ \A c \in Conns :
       /\ sockets[c] \subseteq {held[c]}
       /\ place[c] \in NoSocket => sockets[c] = {}
       /\ place[c] = "closed" => c \notin localOpen
       /\ place[c] = "over" => (c \in localOpen => c \in cut)

\* The finally closes the adapter's socket, which is the only one.
LEMMA EndsKeeps ==
  ASSUME ProxyInv, NEW c \in Conns, Proxy!Ends(c)
  PROVE  ProxyInv'
<1>1. /\ DOMAIN place' = Conns /\ DOMAIN sockets' = Conns /\ held' = held /\ cut' = cut
      /\ place'[c] \in {"closing", "closed"} /\ sockets'[c] = {}
      /\ place'[c] = "closed" => c \notin localOpen'
      /\ localOpen' \subseteq localOpen
      /\ \A d \in Conns \ {c} : place'[d] = place[d] /\ sockets'[d] = sockets[d]
  BY DEF Proxy!Ends, Proxy!stopVars, ProxyInv
<1> QED
  BY <1>1 DEF ProxyInv

\* A step that goes on in the handshake, the dialling or the relay, and leaves the
\* sockets as they are.
LEMMA GoesKeeps ==
  ASSUME ProxyInv, NEW c \in Conns, NEW from, NEW to, Proxy!Goes(c, from, to),
         to \notin {"closed", "over"}, to \in NoSocket => from \in NoSocket,
         UNCHANGED <<sockets, held, cut>>,
         localOpen' \ {c} = localOpen \ {c}
  PROVE  ProxyInv'
<1>1. /\ DOMAIN place' = Conns /\ place[c] = from /\ place'[c] = to
      /\ \A d \in Conns \ {c} : /\ place'[d] = place[d]
                                /\ d \in localOpen' <=> d \in localOpen
  BY DEF Proxy!Goes, ProxyInv
<1> QED
  BY <1>1 DEF ProxyInv

\* A new attempt's socket is the adapter's, and the one before it has none left.
LEMMA DialKeeps ==
  ASSUME ProxyInv, NEW c \in Conns, Proxy!Dial(c) \/ Proxy!Retry(c)
  PROVE  ProxyInv'
<1>1. CASE Proxy!Dial(c)
  <2>1. /\ DOMAIN place' = Conns /\ DOMAIN sockets' = Conns /\ DOMAIN held' = Conns
        /\ UNCHANGED <<localOpen, cut>>
        /\ place[c] = "dial" /\ place'[c] = "hello"
        /\ sockets'[c] = sockets[c] \cup {attempt[c]} /\ held'[c] = attempt[c]
        /\ \A d \in Conns \ {c} :
             place'[d] = place[d] /\ sockets'[d] = sockets[d] /\ held'[d] = held[d]
    BY <1>1 DEF Proxy!Dial, Proxy!Goes, Proxy!stopVars, ProxyInv
  <2>2. sockets[c] = {}
    BY <2>1 DEF ProxyInv, NoSocket
  <2> QED
    BY <2>1, <2>2 DEF ProxyInv, NoSocket
<1>2. CASE Proxy!Retry(c)
  <2>1. /\ DOMAIN place' = Conns /\ DOMAIN sockets' = Conns /\ held' = held
        /\ UNCHANGED <<localOpen, cut>>
        /\ place'[c] = "dial" /\ sockets'[c] = sockets[c] \ {held[c]}
        /\ \A d \in Conns \ {c} : place'[d] = place[d] /\ sockets'[d] = sockets[d]
    BY <1>2 DEF Proxy!Retry, Proxy!Goes, Proxy!stopVars, ProxyInv
  <2> QED
    BY <2>1 DEF ProxyInv
<1> QED
  BY <1>1, <1>2

\* What the finally does after its first await, and what cancelling does to it.
LEMMA FinallyKeeps ==
  ASSUME ProxyInv, NEW c \in Conns,
         Proxy!ClosesLocal(c) \/ Proxy!Over(c) \/ Proxy!CancelTask(c)
  PROVE  ProxyInv'
<1>1. CASE Proxy!ClosesLocal(c)
  <2>1. /\ DOMAIN place' = Conns /\ UNCHANGED <<sockets, held, cut>>
        /\ place[c] = "closing" /\ place'[c] = "closed" /\ localOpen' = localOpen \ {c}
        /\ \A d \in Conns \ {c} : place'[d] = place[d]
    BY <1>1 DEF Proxy!ClosesLocal, Proxy!Goes, Proxy!stopVars, Proxy!tunnelVars, Proxy!socketVars, ProxyInv
  <2> QED
    BY <2>1 DEF ProxyInv, NoSocket
<1>2. CASE Proxy!Over(c)
  <2>1. /\ DOMAIN place' = Conns /\ UNCHANGED <<sockets, held, cut, localOpen>>
        /\ place[c] = "closed" /\ place'[c] = "over"
        /\ \A d \in Conns \ {c} : place'[d] = place[d]
    BY <1>2 DEF Proxy!Over, Proxy!Goes, Proxy!stopVars, Proxy!tunnelVars, Proxy!socketVars, ProxyInv
  <2> QED
    BY <2>1 DEF ProxyInv, NoSocket
<1>3. CASE Proxy!CancelTask(c)
  <2>1. UNCHANGED <<sockets, held, localOpen>>
    BY <1>3 DEF Proxy!CancelTask, Proxy!socketVars
  <2>2. CASE place[c] \in {"closing", "closed"} /\ place' = [place EXCEPT ![c] = "over"]
             /\ cut' = cut \cup {c}
    BY <2>1, <2>2 DEF ProxyInv, NoSocket
  <2>3. CASE UNCHANGED <<place, cut>>
    BY <2>1, <2>3 DEF ProxyInv
  <2>4. CASE place' = [place EXCEPT ![c] = "cancelled"] /\ UNCHANGED cut
    BY <2>1, <2>4 DEF ProxyInv, NoSocket
  <2> QED
    BY <1>3, <2>2, <2>3, <2>4 DEF Proxy!CancelTask
<1> QED
  BY <1>1, <1>2, <1>3

\* The socket to a target is open in the relay, or was left there.
TargetsInv ==
  /\ DOMAIN place = Conns
  /\ \A c \in targets : c \in Conns /\ (place[c] = "direct" \/ c \in left)

\* A task that is not in the relay of a direct connection goes on, to anywhere.
LEMMA OthersKeep ==
  ASSUME TargetsInv, NEW c \in Conns, place[c] # "direct", NEW to,
         place' = [place EXCEPT ![c] = to], UNCHANGED <<targets, left>>
  PROVE  TargetsInv'
  BY DEF TargetsInv

LEMMA TargetsKeep ==
  ASSUME TargetsInv, [Proxy!Next]_proxyVars
  PROVE  TargetsInv'
<1>1. CASE UNCHANGED <<place, targets, left>>
  BY <1>1 DEF TargetsInv
<1>2. CASE Proxy!Start \/ Proxy!Stop \/ Proxy!WaitClosed \/ Proxy!TaskAwaited
           \/ Proxy!Stopped
  BY <1>1, <1>2
     DEF Proxy!Start, Proxy!Stop, Proxy!WaitClosed, Proxy!TaskAwaited, Proxy!Stopped,
         Proxy!socketVars
<1>3. ASSUME NEW c \in Conns, place[c] # "direct", Proxy!Ends(c)
      PROVE  TargetsInv'
  <2>1. /\ UNCHANGED <<targets, left>>
        /\ \/ place' = [place EXCEPT ![c] = "closing"]
           \/ place' = [place EXCEPT ![c] = "closed"]
    BY <1>3 DEF Proxy!Ends, Proxy!stopVars
  <2> QED
    BY <1>3, <2>1, OthersKeep
<1>4. ASSUME NEW c \in Conns,
             Proxy!HandshakeFails(c) \/ Proxy!ProtocolMissing(c) \/ Proxy!ConnectFails(c)
             \/ Proxy!RelayEnds(c) \/ Proxy!Cancelled(c)
      PROVE  TargetsInv'
  BY <1>3, <1>4
     DEF Proxy!HandshakeFails, Proxy!ProtocolMissing, Proxy!ConnectFails,
         Proxy!RelayEnds, Proxy!Cancelled
<1>5. ASSUME NEW c \in Conns, NEW from, from # "direct", NEW to, Proxy!Goes(c, from, to),
             UNCHANGED <<targets, left>>
      PROVE  TargetsInv'
  BY <1>5, OthersKeep DEF Proxy!Goes
<1>6. ASSUME NEW c \in Conns,
             Proxy!Accept(c) \/ Proxy!Begin(c) \/ Proxy!HandshakeDone(c) \/ Proxy!Dial(c)
             \/ Proxy!Accepted(c) \/ Proxy!AttemptFails(c) \/ Proxy!Retry(c)
             \/ Proxy!ClosesLocal(c) \/ Proxy!Over(c)
      PROVE  TargetsInv'
  <2>1. UNCHANGED <<targets, left>>
    BY <1>6 DEF Proxy!Accept, Proxy!Begin, Proxy!HandshakeDone, Proxy!Dial, Proxy!Accepted,
                Proxy!AttemptFails, Proxy!Retry, Proxy!ClosesLocal, Proxy!Over,
                Proxy!stopVars, Proxy!socketVars
  <2> QED
    BY <1>5, <1>6, <2>1
       DEF Proxy!Accept, Proxy!Begin, Proxy!HandshakeDone, Proxy!Dial, Proxy!Accepted,
           Proxy!AttemptFails, Proxy!Retry, Proxy!ClosesLocal, Proxy!Over
<1>7. ASSUME NEW c \in Conns, Proxy!DirectConnect(c) PROVE TargetsInv'
  BY <1>7 DEF Proxy!DirectConnect, Proxy!Goes, Proxy!stopVars, TargetsInv
<1>8. ASSUME NEW c \in Conns, Proxy!DirectEnds(c) PROVE TargetsInv'
  BY <1>8 DEF Proxy!DirectEnds, Proxy!Goes, Proxy!stopVars, TargetsInv
<1>9. ASSUME NEW c \in Conns, Proxy!CancelTask(c) PROVE TargetsInv'
  <2>1. /\ UNCHANGED targets
        /\ left' = IF place[c] = "direct" THEN left \cup {c} ELSE left
        /\ \/ place' = [place EXCEPT ![c] = "over"]
           \/ UNCHANGED place
           \/ place' = [place EXCEPT ![c] = "cancelled"]
    BY <1>9 DEF Proxy!CancelTask, Proxy!socketVars
  <2> QED
    BY <2>1 DEF TargetsInv
<1> QED
  BY <1>1, <1>2, <1>4, <1>6, <1>7, <1>8, <1>9 DEF Proxy!Next, proxyVars

\* For any number of connections and of attempts: through retries, failures and
\* cancellation at any await, at most one socket to the server per connection, none
\* of them left behind by a task, and the local one and a direct target's only by a
\* task that was cancelled in its finally or in the relay.
THEOREM SocketsCorrect == ComponentsSpec => []SocketsClosed
<1>1. ComponentsInit => ProxyInv
  BY DEF ComponentsInit, Proxy!Init, ProxyInv, NoSocket
<1>2. ProxyInv /\ [ComponentsNext]_componentsVars => ProxyInv'
  <2> SUFFICES ASSUME ProxyInv, [Proxy!Next]_proxyVars PROVE ProxyInv'
    BY ProxyStep
  <2>1. CASE UNCHANGED <<place, sockets, held, localOpen, cut>>
    BY <2>1 DEF ProxyInv
  <2>2. CASE Proxy!Start \/ Proxy!Stop \/ Proxy!WaitClosed \/ Proxy!TaskAwaited
             \/ Proxy!Stopped
    BY <2>1, <2>2
       DEF Proxy!Start, Proxy!Stop, Proxy!WaitClosed, Proxy!TaskAwaited, Proxy!Stopped,
           Proxy!socketVars
  <2>3. ASSUME NEW c \in Conns,
               Proxy!HandshakeFails(c) \/ Proxy!ProtocolMissing(c) \/ Proxy!ConnectFails(c)
               \/ Proxy!RelayEnds(c) \/ Proxy!Cancelled(c)
        PROVE  ProxyInv'
    BY <2>3, EndsKeeps
       DEF Proxy!HandshakeFails, Proxy!ProtocolMissing, Proxy!ConnectFails,
           Proxy!RelayEnds, Proxy!Cancelled
  <2>4. ASSUME NEW c \in Conns, Proxy!Accept(c) PROVE ProxyInv'
    <3>1. /\ Proxy!Goes(c, "new", "accepted") /\ UNCHANGED <<sockets, held, cut>>
          /\ localOpen' \ {c} = localOpen \ {c}
      BY <2>4 DEF Proxy!Accept, Proxy!stopVars, Proxy!tunnelVars, Proxy!socketVars
    <3> QED
      BY <3>1, GoesKeeps DEF NoSocket
  <2>5. ASSUME NEW c \in Conns, Proxy!Begin(c) PROVE ProxyInv'
    BY <2>5, GoesKeeps DEF Proxy!Begin, Proxy!stopVars, Proxy!tunnelVars, Proxy!socketVars, NoSocket
  <2>6. ASSUME NEW c \in Conns, Proxy!HandshakeDone(c) PROVE ProxyInv'
    BY <2>6, GoesKeeps DEF Proxy!HandshakeDone, Proxy!stopVars, Proxy!tunnelVars, Proxy!socketVars, NoSocket
  <2>7. ASSUME NEW c \in Conns, Proxy!Accepted(c) PROVE ProxyInv'
    BY <2>7, GoesKeeps DEF Proxy!Accepted, Proxy!stopVars, Proxy!tunnelVars, Proxy!socketVars, NoSocket
  <2>8. ASSUME NEW c \in Conns, Proxy!AttemptFails(c) PROVE ProxyInv'
    BY <2>8, GoesKeeps DEF Proxy!AttemptFails, Proxy!stopVars, Proxy!tunnelVars, Proxy!socketVars, NoSocket
  <2>9. ASSUME NEW c \in Conns, Proxy!DirectConnect(c) \/ Proxy!DirectEnds(c) PROVE ProxyInv'
    BY <2>9, GoesKeeps
       DEF Proxy!DirectConnect, Proxy!DirectEnds, Proxy!stopVars, Proxy!tunnelVars, Proxy!socketVars, NoSocket
  <2> QED
    BY <2>1, <2>2, <2>3, <2>4, <2>5, <2>6, <2>7, <2>8, <2>9, DialKeeps, FinallyKeeps
       DEF Proxy!Next, proxyVars
<1>3. ComponentsInit => TargetsInv
  BY DEF ComponentsInit, Proxy!Init, TargetsInv
<1>4. TargetsInv /\ [ComponentsNext]_componentsVars => TargetsInv'
  BY ProxyStep, TargetsKeep
<1>5. ProxyInv /\ TargetsInv => SocketsClosed
  <2> SUFFICES ASSUME ProxyInv, TargetsInv, NEW c \in Conns
               PROVE  /\ \A a, b \in sockets[c] : a = b
                      /\ place[c] = "over" =>
                           /\ sockets[c] = {}
                           /\ c \in localOpen => c \in cut
                           /\ c \in targets => c \in left
    BY DEF SocketsClosed, Proxy!SocketsClosed
  <2> QED
    BY DEF ProxyInv, TargetsInv, NoSocket
<1> QED
  BY <1>1, <1>2, <1>3, <1>4, <1>5, PTL DEF ComponentsSpec

-----------------------------------------------------------------------------
\* The traffic warnings.

\* The table of warnings and the reporters, as functions.
WarningsType ==
  /\ warnings \in [DOMAIN warnings -> {"up", "down", "notified", "abandoned"}]
  /\ DOMAIN warnings \subseteq Clients
  /\ reporter \in [Clients -> [{"up", "down"} -> {"idle", "calling", "ended"}]]

\* Every warning is one of the present period, and has a task or is settled.
WarningsCurrent ==
  \A c \in DOMAIN warnings :
    /\ c \in warned /\ globalStats >= Threshold
    /\ warnings[c] \in {"up", "down"} => reporter[c][warnings[c]] = "calling"

\* The clients' shares are finitely many, and add up to the total.
SharesInv ==
  /\ IsFiniteSet(DOMAIN clientStats)
  /\ clientStats \in [DOMAIN clientStats -> Nat]
  /\ globalStats = Sum(clientStats, DOMAIN clientStats)
  /\ globalStats \in Nat

TrafficInv == WarningsType /\ WarningsCurrent /\ SharesInv

\* A report keeps the sum: what a client's share grows by, the total grows by.
LEMMA SharesKeep ==
  ASSUME SharesInv, NEW c \in Clients, NEW n \in Nat, globalStats' = globalStats + n,
         clientStats' = Put(clientStats, c,
           (IF c \in DOMAIN clientStats THEN clientStats[c] ELSE 0) + n)
  PROVE  SharesInv'
<1> DEFINE old == IF c \in DOMAIN clientStats THEN clientStats[c] ELSE 0
           D == DOMAIN clientStats
<1>1. old \in Nat /\ clientStats \in [D -> Int]
  BY DEF SharesInv
<1>2. /\ DOMAIN clientStats' = D \cup {c}
      /\ clientStats' \in [D \cup {c} -> Nat]
  BY <1>1 DEF Put, SharesInv
<1>3. Sum(clientStats', D \cup {c}) = Sum(clientStats, D) + (old + n) - old
  BY <1>1, PutSum DEF SharesInv
<1>4. IsFiniteSet(D \cup {c})
  BY FS_AddElement DEF SharesInv
<1>5. globalStats \in Nat /\ globalStats = Sum(clientStats, D)
  BY DEF SharesInv
<1>6. Sum(clientStats', D \cup {c}) = globalStats + n
  <2> HIDE DEF old, D
  <2> QED
    BY <1>1, <1>3, <1>5
<1> QED
  BY <1>2, <1>4, <1>5, <1>6 DEF SharesInv

\* A report warns in its own task's name or leaves the warnings alone.
LEMMA ReportKeeps ==
  ASSUME TrafficInv, NEW c \in Clients, NEW t \in {"up", "down"}, NEW n \in Nat,
         Traffic!RecordTransfer(c, t, n)
  PROVE  TrafficInv'
<1>1. SharesInv'
  <2>1. /\ globalStats' = globalStats + n
        /\ clientStats' = Put(clientStats, c,
             (IF c \in DOMAIN clientStats THEN clientStats[c] ELSE 0) + n)
    BY DEF Traffic!RecordTransfer, Traffic!Put, Put
  <2> QED
    BY <2>1, SharesKeep DEF TrafficInv
<1>2. globalStats' >= globalStats /\ globalStats \in Nat /\ globalStats' \in Nat
  BY DEF Traffic!RecordTransfer, TrafficInv, SharesInv
<1>3. CASE UNCHANGED <<warnings, reporter, warned>>
  <2>1. globalStats >= Threshold => globalStats' >= Threshold
    BY <1>2, ComponentsAssumption
  <2> QED
    BY <1>1, <1>3, <2>1 DEF TrafficInv, WarningsType, WarningsCurrent
<1>4. CASE /\ globalStats' >= Threshold
           /\ warnings' = Traffic!Put(warnings, c, t)
           /\ reporter' = [reporter EXCEPT ![c][t] = "calling"]
           /\ warned' = warned \cup {c}
  <2>1. /\ DOMAIN warnings' = DOMAIN warnings \cup {c}
        /\ warnings'[c] = t
        /\ \A d \in DOMAIN warnings \ {c} : warnings'[d] = warnings[d]
    BY <1>4 DEF Traffic!Put
  <2>2. WarningsType'
    BY <1>4, <2>1 DEF Traffic!Put, TrafficInv, WarningsType
  <2>3. WarningsCurrent'
    BY <1>4, <2>1 DEF TrafficInv, WarningsType, WarningsCurrent
  <2> QED
    BY <1>1, <2>2, <2>3 DEF TrafficInv
<1> QED
  BY <1>3, <1>4 DEF Traffic!RecordTransfer, Traffic!CheckWarnings

\* A task that is through with the callbacks settles its own warning and no other.
LEMMA SettleKeeps ==
  ASSUME TrafficInv, NEW c \in Clients, NEW t \in {"up", "down"},
         NEW next \in {"idle", "ended"}, NEW settled \in {"notified", "abandoned"},
         reporter' = [reporter EXCEPT ![c][t] = next],
         warnings' = IF Traffic!WarningOf(c) = t THEN [warnings EXCEPT ![c] = settled]
                     ELSE warnings,
         UNCHANGED <<clientStats, globalStats, warned>>
  PROVE  TrafficInv'
<1>1. SharesInv'
  BY DEF TrafficInv, SharesInv
<1>2. WarningsType'
  BY DEF TrafficInv, WarningsType, Traffic!WarningOf
<1>3. ASSUME NEW d \in DOMAIN warnings'
      PROVE  /\ d \in warned' /\ globalStats' >= Threshold
             /\ warnings'[d] \in {"up", "down"} => reporter'[d][warnings'[d]] = "calling"
  <2>1. d \in DOMAIN warnings /\ d \in Clients
    BY <1>3 DEF TrafficInv, WarningsType
  <2>2. d \in warned' /\ globalStats' >= Threshold
    BY <2>1 DEF TrafficInv, WarningsCurrent
  <2>3. ASSUME warnings'[d] \in {"up", "down"}
        PROVE  warnings'[d] = warnings[d] /\ ~(d = c /\ warnings[d] = t)
    BY <2>1, <2>3 DEF TrafficInv, WarningsType, Traffic!WarningOf
  <2>4. ASSUME warnings'[d] \in {"up", "down"}
        PROVE  reporter'[d][warnings'[d]] = "calling"
    BY <2>1, <2>3, <2>4 DEF TrafficInv, WarningsType, WarningsCurrent
  <2> QED
    BY <2>2, <2>4
<1> QED
  BY <1>1, <1>2, <1>3 DEF TrafficInv, WarningsCurrent

\* For any number of clients, any amounts and any threshold: a warning that stands
\* belongs to the present period and has a task that awaits its callbacks or is
\* settled, through reports, resets and cancellations in any order; and the total
\* is the sum of the clients' shares.
THEOREM WarningCorrect == ComponentsSpec => []WarningIsCurrent
<1>1. ComponentsInit => TrafficInv
  <2> SUFFICES ASSUME ComponentsInit PROVE TrafficInv
    OBVIOUS
  <2>1. /\ clientStats = <<>> /\ globalStats = 0 /\ warnings = <<>>
        /\ reporter = [c \in Clients |-> [t \in {"up", "down"} |-> "idle"]]
    BY DEF ComponentsInit, Traffic!Init, Traffic!Tasks
  <2>2. DOMAIN clientStats = {} /\ DOMAIN warnings = {}
    BY <2>1
  <2>3. IsFiniteSet({}) /\ Sum(clientStats, {}) = 0
    BY FS_EmptySet, SumDef
  <2> QED
    BY <2>1, <2>2, <2>3
       DEF TrafficInv, WarningsType, WarningsCurrent, SharesInv
<1>2. TrafficInv /\ [ComponentsNext]_componentsVars => TrafficInv'
  <2> SUFFICES ASSUME TrafficInv, [Traffic!Next]_trafficVars PROVE TrafficInv'
    BY TrafficStep
  <2>1. ASSUME NEW c \in Clients, NEW t \in {"up", "down"}, NEW n \in Amounts,
               Traffic!RecordTransfer(c, t, n)
        PROVE  TrafficInv'
    BY <2>1, ReportKeeps, ComponentsAssumption
  <2>2. ASSUME NEW c \in Clients, NEW t \in {"up", "down"},
               Traffic!CallbacksDone(c, t) \/ Traffic!CallbacksCancelled(c, t)
        PROVE  TrafficInv'
    <3>1. CASE Traffic!CallbacksDone(c, t)
      BY <3>1, SettleKeeps DEF Traffic!CallbacksDone
    <3>2. CASE Traffic!CallbacksCancelled(c, t)
      BY <3>2, SettleKeeps DEF Traffic!CallbacksCancelled
    <3> QED
      BY <2>2, <3>1, <3>2
  <2>3. CASE Traffic!ResetStats
    <3>1. /\ clientStats' = <<>> /\ globalStats' = 0 /\ warnings' = <<>>
          /\ UNCHANGED reporter
      BY <2>3 DEF Traffic!ResetStats
    <3>2. DOMAIN clientStats' = {} /\ DOMAIN warnings' = {}
      BY <3>1
    <3>3. IsFiniteSet({}) /\ Sum(clientStats', {}) = 0
      BY FS_EmptySet, SumDef
    <3> QED
      BY <3>1, <3>2, <3>3 DEF TrafficInv, WarningsType, WarningsCurrent, SharesInv
  <2>4. CASE UNCHANGED <<clientStats, globalStats, warnings, reporter, warned>>
    BY <2>4 DEF TrafficInv, WarningsType, WarningsCurrent, SharesInv
  <2> QED
    BY <2>1, <2>2, <2>3, <2>4
       DEF Traffic!Next, Traffic!Tasks, Traffic!CleanupTurn, Traffic!StartStop, trafficVars
<1>3. TrafficInv => WarningIsCurrent
  <2>1. Traffic!FoldFunction(+, 0, clientStats) = Sum(clientStats, DOMAIN clientStats)
    BY DEF Traffic!FoldFunction, Traffic!FoldFunctionOnSet, Traffic!MapThenFoldSet,
           Sum, Sums, Some
  <2>2. WarningsCurrent =>
          \A c \in DOMAIN warnings :
            /\ c \in warned /\ globalStats >= Threshold
            /\ warnings[c] \in Traffic!Tasks => reporter[c][warnings[c]] = "calling"
    BY DEF WarningsCurrent, Traffic!Tasks
  <2>3. TrafficInv => globalStats = Traffic!FoldFunction(+, 0, clientStats)
    BY <2>1 DEF TrafficInv, SharesInv
  <2> QED
    BY <2>2, <2>3 DEF TrafficInv, WarningIsCurrent, Traffic!WarningIsCurrent
<1> QED
  BY <1>1, <1>2, <1>3, PTL DEF ComponentsSpec

-----------------------------------------------------------------------------
\* The routing rules.

Rules == [pattern : DOMAIN Covers \cup {Final}, proxy : BOOLEAN,
          priority : Int, serial : Nat]

\* The order of the list: by priority, and among equals by who came first.
Better(r, s) == r.priority > s.priority \/ (r.priority = s.priority /\ r.serial < s.serial)

Ordered(list) == \A i, j \in 1..Len(list) : i < j => Better(list[i], list[j])

RulesInv ==
  /\ rules \in Seq(Rules) /\ added \in Nat
  /\ Ordered(rules)
  /\ \A i \in 1..Len(rules) : rules[i].serial < added

\* What is known of a rule of a list.
LEMMA RuleFields ==
  ASSUME NEW list \in Seq(Rules)
  PROVE  \A i \in 1..Len(list) :
           list[i] \in Rules /\ list[i].priority \in Int /\ list[i].serial \in Nat
<1>1. \A i \in 1..Len(list) : list[i] \in Rules
  BY ElementOfSeq
<1> QED
  BY <1>1 DEF Rules

\* In an ordered list, the rules that are not below a priority are the first n.
LEMMA CutExists ==
  ASSUME NEW list \in Seq(Rules), Ordered(list), NEW p \in Int
  PROVE  \E n \in 0..Len(list) : \A i \in DOMAIN list : i <= n <=> list[i].priority >= p
<1> DEFINE Below == {n \in 0..Len(list) :
                       \A i \in 1..Len(list) : i > n => list[i].priority < p}
<1>1. Len(list) \in Below /\ Below \in SUBSET Nat
  OBVIOUS
<1>2. PICK n \in Below : \A m \in Below : n <= m
  BY <1>1, LeastNumber
<1>3. ASSUME NEW i \in 1..Len(list), i <= n
      PROVE  list[i].priority >= p
  <2>1. n - 1 \in 0..Len(list) /\ n - 1 \notin Below
    BY <1>2, <1>3
  <2>2. PICK j \in 1..Len(list) : j > n - 1 /\ ~(list[j].priority < p)
    BY <2>1
  <2>3. j = n
    BY <1>2, <2>2
  <2>4. list[i].priority \in Int /\ list[n].priority \in Int
    BY <2>2, <2>3, RuleFields
  <2>5. i = n \/ Better(list[i], list[n])
    BY <1>3, <2>2, <2>3 DEF Ordered
  <2>6. list[n].priority >= p
    BY <2>2, <2>3, <2>4
  <2> QED
    BY <2>4, <2>5, <2>6 DEF Better
<1>4. ASSUME NEW i \in 1..Len(list), ~(i <= n)
      PROVE  ~(list[i].priority >= p)
  BY <1>2, <1>4, RuleFields
<1>5. n \in 0..Len(list) /\ DOMAIN list = 1..Len(list)
  BY <1>2
<1> QED
  BY <1>3, <1>4, <1>5

\* A new rule in its place: the list stays ordered, and has its rules and the new
\* one.
LEMMA InsertOrdered ==
  ASSUME NEW list \in Seq(Rules), Ordered(list), NEW rule \in Rules,
         \A i \in 1..Len(list) : list[i].serial < rule.serial
  PROVE  /\ Routing!Insert(list, rule) \in Seq(Rules)
         /\ Ordered(Routing!Insert(list, rule))
         /\ \A i \in 1..Len(Routing!Insert(list, rule)) :
              Routing!Insert(list, rule)[i].serial <= rule.serial
<1> DEFINE n == CHOOSE n \in 0..Len(list) :
                  \A i \in DOMAIN list : i <= n <=> list[i].priority >= rule.priority
           front == SubSeq(list, 1, n)
           rear == SubSeq(list, n + 1, Len(list))
           new == front \o <<rule>> \o rear
<1>1. /\ n \in 0..Len(list)
      /\ \A i \in 1..Len(list) : i <= n <=> list[i].priority >= rule.priority
  <2>1. rule.priority \in Int
    BY DEF Rules
  <2>2. \E m \in 0..Len(list) : \A i \in DOMAIN list : i <= m <=> list[i].priority >= rule.priority
    BY <2>1, CutExists
  <2> QED
    BY <2>2
<1>2. Routing!Insert(list, rule) = new
  BY DEF Routing!Insert
<1> HIDE DEF n
<1>3. /\ front \in Seq(Rules) /\ Len(front) = n
      /\ \A i \in 1..n : front[i] = list[i]
  BY <1>1
<1>4. /\ rear \in Seq(Rules) /\ Len(rear) = Len(list) - n
      /\ \A i \in 1..(Len(list) - n) : rear[i] = list[n + i]
  BY <1>1
<1> HIDE DEF front, rear
<1>5. /\ new \in Seq(Rules) /\ Len(new) = Len(list) + 1
      /\ \A i \in 1..n : new[i] = list[i]
      /\ new[n + 1] = rule
      /\ \A i \in (n + 2)..(Len(list) + 1) : new[i] = list[i - 1]
  BY <1>1, <1>3, <1>4, SMTT(30)
<1> HIDE DEF new
<1>6. /\ \A i \in 1..Len(list) : list[i].priority \in Int /\ list[i].serial \in Nat
      /\ rule.priority \in Int /\ rule.serial \in Nat
  BY RuleFields DEF Rules
<1>7. ASSUME NEW i \in 1..Len(new), NEW j \in 1..Len(new), i < j
      PROVE  Better(new[i], new[j])
  <2>1. CASE i <= n /\ j <= n
    BY <1>1, <1>5, <1>7, <2>1 DEF Ordered
  <2>2. CASE i <= n /\ j = n + 1
    BY <1>1, <1>5, <1>6, <2>2 DEF Better
  <2>3. CASE i = n + 1 /\ j > n + 1
    <3>1. new[j] = list[j - 1] /\ j - 1 \in 1..Len(list) /\ ~(j - 1 <= n)
      <4>1. j \in (n + 2)..(Len(list) + 1)
        BY <1>1, <1>5, <2>3
      <4> QED
        BY <1>1, <1>5, <4>1
    <3>2. new[i] = rule /\ ~(list[j - 1].priority >= rule.priority)
      BY <1>1, <1>5, <2>3, <3>1
    <3> QED
      BY <1>6, <3>1, <3>2 DEF Better
  <2>4. CASE i <= n /\ j > n + 1
    <3>1. new[i] = list[i] /\ new[j] = list[j - 1] /\ i < j - 1
          /\ i \in 1..Len(list) /\ j - 1 \in 1..Len(list)
      BY <1>1, <1>5, <2>4
    <3> QED
      BY <3>1 DEF Ordered
  <2>5. CASE i > n + 1
    <3>1. new[i] = list[i - 1] /\ new[j] = list[j - 1] /\ i - 1 < j - 1
          /\ i - 1 \in 1..Len(list) /\ j - 1 \in 1..Len(list)
      BY <1>1, <1>5, <1>7, <2>5
    <3> QED
      BY <3>1 DEF Ordered
  <2> QED
    BY <1>1, <1>7, <2>1, <2>2, <2>3, <2>4, <2>5
<1>8. ASSUME NEW i \in 1..Len(new)
      PROVE  new[i].serial <= rule.serial
  <2>1. new[i] = rule \/ \E j \in 1..Len(list) : new[i] = list[j]
    <3>1. CASE i <= n
      BY <1>1, <1>5, <3>1
    <3>2. CASE i > n + 1
      <4>1. new[i] = list[i - 1] /\ i - 1 \in 1..Len(list)
        BY <1>1, <1>5, <3>2
      <4> QED
        BY <4>1
    <3> QED
      BY <1>1, <1>5, <3>1, <3>2
  <2> QED
    BY <1>6, <2>1
<1> QED
  BY <1>2, <1>5, <1>7, <1>8 DEF Ordered

\* A list without its i-th rule.
Without(list, i) == SubSeq(list, 1, i - 1) \o SubSeq(list, i + 1, Len(list))

\* What is left of a list is ordered.
LEMMA RemoveOrdered ==
  ASSUME NEW list \in Seq(Rules), Ordered(list), NEW i \in 1..Len(list)
  PROVE  /\ Without(list, i) \in Seq(Rules) /\ Ordered(Without(list, i))
         /\ \A j \in 1..Len(Without(list, i)) :
              \E k \in 1..Len(list) : Without(list, i)[j] = list[k]
<1> DEFINE front == SubSeq(list, 1, i - 1)
           rear == SubSeq(list, i + 1, Len(list))
           rest == front \o rear
           From(j) == IF j < i THEN j ELSE j + 1
<1>1. /\ front \in Seq(Rules) /\ Len(front) = i - 1
      /\ \A j \in 1..(i - 1) : front[j] = list[j]
  OBVIOUS
<1>2. /\ rear \in Seq(Rules) /\ Len(rear) = Len(list) - i
      /\ \A j \in 1..(Len(list) - i) : rear[j] = list[i + j]
  OBVIOUS
<1>3. Without(list, i) = rest
  BY DEF Without
<1> HIDE DEF front, rear
<1>4. /\ rest \in Seq(Rules) /\ Len(rest) = Len(list) - 1
      /\ \A j \in 1..(i - 1) : rest[j] = list[j]
      /\ \A j \in i..(Len(list) - 1) : rest[j] = list[j + 1]
  <2>1. rest \in Seq(Rules) /\ Len(rest) = Len(front) + Len(rear)
    <3>1. front \in Seq(Rules) /\ rear \in Seq(Rules)
      BY <1>1, <1>2
    <3> QED
      BY <3>1, ConcatProperties
  <2>2. ASSUME NEW j \in 1..(i - 1)
        PROVE  rest[j] = list[j]
    BY <1>1, <1>2
  <2>3. ASSUME NEW j \in i..(Len(list) - 1)
        PROVE  rest[j] = list[j + 1]
    <3>1. rest[j] = rear[j - (i - 1)]
      BY <1>1, <1>2
    <3>2. j - (i - 1) \in 1..(Len(list) - i) /\ i + (j - (i - 1)) = j + 1
      OBVIOUS
    <3> QED
      BY <1>2, <3>1, <3>2
  <2>4. Len(rest) = Len(list) - 1
    BY <1>1, <1>2, <2>1
  <2> QED
    BY <2>1, <2>2, <2>3, <2>4
<1> HIDE DEF rest
<1>5. ASSUME NEW j \in 1..Len(rest)
      PROVE  From(j) \in 1..Len(list) /\ rest[j] = list[From(j)]
  BY <1>4
<1>6. \A j, k \in 1..Len(rest) : j < k => From(j) < From(k)
  BY <1>4
<1> HIDE DEF From
<1>7. Ordered(rest)
  BY <1>5, <1>6 DEF Ordered
<1> QED
  BY <1>3, <1>4, <1>5, <1>7

\* In an ordered list the first rule that covers a target is better than all others
\* that do.
LEMMA FirstIsBest ==
  ASSUME RulesInv
  PROVE  BestRuleDecides
<1>1. SUFFICES ASSUME NEW t \in Targets
               PROVE  LET covering == {r \in Routing!Range(rules) : t \in Covers[r.pattern]}
                      IN Routing!Match(t) <=>
                           \E r \in covering : r.proxy /\ \A s \in covering \ {r} : Better(r, s)
  BY DEF BestRuleDecides, Routing!BestRuleDecides, Better
<1> DEFINE covering == {r \in Routing!Range(rules) : t \in Covers[r.pattern]}
           Hit(i) == t \in Covers[rules[i].pattern]
<1>2. /\ \A i \in 1..Len(rules) : Hit(i) => rules[i] \in covering
      /\ \A r \in covering : \E i \in 1..Len(rules) : r = rules[i] /\ Hit(i)
  BY DEF RulesInv, Routing!Range
<1>3. \A r, s \in Rules : ~(Better(r, s) /\ Better(s, r))
  BY DEF Rules, Better
<1>4. \A i \in 1..Len(rules) : rules[i] \in Rules
  BY DEF RulesInv
<1>5. ASSUME Routing!Match(t)
      PROVE  \E r \in covering : r.proxy /\ \A s \in covering \ {r} : Better(r, s)
  <2>1. PICK i \in 1..Len(rules) : Hit(i) /\ rules[i].proxy /\ \A j \in 1..(i - 1) : ~Hit(j)
    BY <1>5 DEF Routing!Match, RulesInv
  <2>2. ASSUME NEW s \in covering \ {rules[i]}
        PROVE  Better(rules[i], s)
    <3>1. PICK j \in 1..Len(rules) : s = rules[j] /\ Hit(j)
      BY <1>2
    <3>2. i < j
      BY <2>1, <2>2, <3>1
    <3> QED
      BY <3>1, <3>2 DEF RulesInv, Ordered
  <2> QED
    BY <1>2, <2>1, <2>2
<1>6. ASSUME NEW r \in covering, r.proxy, \A s \in covering \ {r} : Better(r, s)
      PROVE  Routing!Match(t)
  <2>1. PICK i \in 1..Len(rules) : r = rules[i] /\ Hit(i)
    BY <1>2
  <2>2. ASSUME NEW j \in 1..(i - 1), Hit(j)
        PROVE  FALSE
    <3>1. j \in 1..Len(rules) /\ Better(rules[j], r)
      BY <2>1 DEF RulesInv, Ordered
    <3>2. rules[j] # r
      BY <1>3, <1>4, <2>1, <3>1
    <3>3. Better(r, rules[j])
      BY <1>2, <1>6, <2>2, <3>1, <3>2
    <3> QED
      BY <1>3, <1>4, <2>1, <3>1, <3>3
  <2> QED
    BY <1>6, <2>1, <2>2 DEF Routing!Match, RulesInv
<1> HIDE DEF covering
<1> QED
  BY <1>5, <1>6 DEF covering

\* For any patterns and whatever they cover, any integer priorities and any length
\* of the list: after any history of adding, removing, loading and clearing, the
\* best rule that covers a target decides about it.
THEOREM RulesCorrect == ComponentsSpec => []BestRuleDecides
<1>0. [ComponentsNext]_componentsVars => [Routing!Next]_routingVars
  BY DEF ComponentsNext, ManagersStep, WatchersStep, ServersStep, ClientStep,
         componentsVars, clientSide
<1>1. ComponentsInit => RulesInv
  <2> SUFFICES ASSUME NEW p \in DOMAIN Covers,
                      rules = <<Routing!Rule(p, TRUE, 0, 0), Routing!Rule(Final, FALSE, 0, 1)>>,
                      added = 2
               PROVE  RulesInv
    BY DEF ComponentsInit, Routing!Init, Routing!Patterns
  <2> QED
    BY DEF RulesInv, Ordered, Better, Rules, Routing!Rule
<1>2. RulesInv /\ [ComponentsNext]_componentsVars => RulesInv'
  <2> SUFFICES ASSUME RulesInv, [Routing!Next]_routingVars PROVE RulesInv'
    BY <1>0
  <2>0. \A p \in DOMAIN Covers, b \in BOOLEAN, n \in Int, k \in Nat :
          /\ Routing!Rule(p, b, n, k) \in Rules
          /\ Routing!Rule(p, b, n, k).serial = k
    BY DEF Routing!Rule, Rules
  <2>1. ASSUME NEW p \in DOMAIN Covers, NEW b \in BOOLEAN, NEW n \in Priorities \cup {0},
               Routing!AddRule(p, b, n)
        PROVE  RulesInv'
    <3> DEFINE rule == Routing!Rule(p, b, n, added)
    <3>1. rule \in Rules /\ rule.serial = added
      <4>1. n \in Int /\ added \in Nat
        BY ComponentsAssumption DEF RulesInv
      <4> QED
        BY <2>0, <4>1
    <3>2. rules' = Routing!Insert(rules, rule) /\ added' = added + 1
      BY <2>1 DEF Routing!AddRule
    <3> HIDE DEF rule
    <3>3. /\ rules' \in Seq(Rules) /\ Ordered(rules')
          /\ \A i \in 1..Len(rules') : rules'[i].serial <= added
      BY <3>1, <3>2, InsertOrdered DEF RulesInv
    <3>4. \A i \in 1..Len(rules') : rules'[i].serial \in Nat
      BY <3>3, RuleFields
    <3> QED
      BY <3>2, <3>3, <3>4 DEF RulesInv
  <2>2. ASSUME NEW p \in DOMAIN Covers, NEW q \in DOMAIN Covers, NEW n \in Priorities \cup {999},
               Routing!LoadRules(p, q, n)
        PROVE  RulesInv'
    <3> DEFINE first == Routing!Rule(p, TRUE, 1000, 0)
               second == Routing!Rule(q, FALSE, n, 1)
    <3>1. first \in Rules /\ first.serial = 0 /\ second \in Rules /\ second.serial = 1
      <4>1. n \in Int
        BY ComponentsAssumption
      <4>2. first \in Rules /\ first.serial = 0
        BY DEF Routing!Rule, Rules
      <4>3. second \in Rules /\ second.serial = 1
        BY <4>1 DEF Routing!Rule, Rules
      <4> HIDE DEF first, second
      <4> QED
        BY <4>2, <4>3
    <3>2. rules' = Routing!Insert(<<first>>, second) /\ added' = 2
      BY <2>2 DEF Routing!LoadRules
    <3> HIDE DEF first, second
    <3> DEFINE list == <<first>>
    <3>3. /\ list \in Seq(Rules) /\ Ordered(list)
          /\ \A i \in 1..Len(list) : list[i].serial < second.serial
      BY <3>1 DEF Ordered
    <3>4. /\ rules' \in Seq(Rules) /\ Ordered(rules')
          /\ \A i \in 1..Len(rules') : rules'[i].serial <= 1
      <4>1. rules' = Routing!Insert(list, second)
        BY <3>2
      <4> HIDE DEF list
      <4> QED
        BY <3>1, <3>3, <4>1, InsertOrdered
    <3>5. \A i \in 1..Len(rules') : rules'[i].serial \in Nat
      BY <3>4, RuleFields
    <3>6. \A i \in 1..Len(rules') : rules'[i].serial < 2
      BY <3>4, <3>5
    <3> QED
      BY <3>2, <3>4, <3>6 DEF RulesInv
  <2>3. ASSUME NEW p \in DOMAIN Covers, Routing!RemoveRule(p)
        PROVE  RulesInv'
    <3>0. rules \in Seq(Rules) /\ DOMAIN rules = 1..Len(rules)
      BY DEF RulesInv
    <3>1. PICK i \in 1..Len(rules) :
            rules' = Without(rules, i)
      BY <2>3, <3>0 DEF Routing!RemoveRule, Without
    <3>2. UNCHANGED added
      BY <2>3 DEF Routing!RemoveRule
    <3>3. /\ rules' \in Seq(Rules) /\ Ordered(rules')
          /\ \A j \in 1..Len(rules') : \E k \in 1..Len(rules) : rules'[j] = rules[k]
      <4>1. Ordered(rules)
        BY DEF RulesInv
      <4> QED
        BY <3>0, <3>1, <4>1, RemoveOrdered
    <3> QED
      BY <3>2, <3>3 DEF RulesInv
  <2>4. CASE Routing!ClearRules
    BY <2>4 DEF Routing!ClearRules, RulesInv, Ordered
  <2>5. CASE UNCHANGED <<rules, added>>
    BY <2>5 DEF RulesInv, Ordered
  <2> QED
    BY <2>1, <2>2, <2>3, <2>4, <2>5
       DEF Routing!Next, Routing!Patterns, Routing!SetMode, Routing!ShouldProxy, routingVars
<1> QED
  BY <1>1, <1>2, FirstIsBest, PTL DEF ComponentsSpec

-----------------------------------------------------------------------------
\* The server's parts.

\* The parts a running server has in any case, and those it may have.
Required == Server!Managers \cup {"udp", "tcp"}
Startable == Required \cup {"web"}

StartStages == {"udp", "cert", "truncate_crt", "write_crt", "truncate_key", "write_key",
                "context", "tcp", "web"}

\* What may still run when stop has come so far.
Unstopped ==
  [tcp |-> Startable, udp |-> Startable \ {"tcp"}, web |-> Server!Managers \cup {"web"},
   monitor |-> Server!Managers, traffic |-> {"traffic", "devices", "sessions"},
   devices |-> {"devices", "sessions"}, sessions |-> {"sessions"}]

\* A start has started what comes before its stage, and there is no stop beside it;
\* a stop has stopped what comes before its own.
CallInv(c) ==
  /\ Server!Starting(c) =>
       /\ Server!Managers \subseteq parts
       /\ call[c].at # "udp" => "udp" \in parts
       /\ call[c].at = "web" => "tcp" \in parts
       /\ \A d \in Callers : ~Server!Stopping(d)
  /\ Server!Stopping(c) =>
       /\ ~running
       /\ ~failed => parts \subseteq Unstopped[call[c].at]

\* Where a call may be.
CallsInv ==
  /\ call \in [Callers -> [does : {"nothing", "start", "stop"},
                          at : StartStages \cup DOMAIN Unstopped \cup {"end"}]]
  /\ \A c \in Callers : /\ call[c].does = "nothing" => call[c] = Server!Idle
                        /\ Server!Stopping(c) => call[c].at \in DOMAIN Unstopped

\* The calls, each where it may be; and, unless a start and a stop have crossed, what
\* they have done to the parts.
PartsInv ==
  /\ parts \subseteq Startable /\ CallsInv
  /\ ~crossed => \A c \in Callers : CallInv(c)
  /\ Server!PartsRunning

\* For the server.
LEMMA ServerStep == [ComponentsNext]_componentsVars => [Server!Next]_serverVars
  BY DEF ComponentsNext, ManagersStep, WatchersStep, ServersStep, ClientStep,
         componentsVars, servers

\* c is in the list s.
Has(s, c) == \E i \in 1..Len(s) : s[i] = c

\* What is left of a list without its head.
LEMMA TailOf ==
  ASSUME NEW S, NEW s \in Seq(S), s # <<>>
  PROVE  /\ Tail(s) \in Seq(S) /\ Len(Tail(s)) = Len(s) - 1 /\ Len(s) \in Nat \ {0}
         /\ \A i \in 1..Len(Tail(s)) : Tail(s)[i] = s[i + 1]
  OBVIOUS

\* A start goes on to another stage.
LEMMA StartGoesOn ==
  ASSUME PartsInv, NEW c \in Callers, Server!Starting(c), NEW to \in StartStages,
         Server!GoesTo(c, to), UNCHANGED <<running, failed, crossed>>,
         parts \subseteq parts', parts' \subseteq Startable,
         ~crossed => (to # "udp" => "udp" \in parts') /\ (to = "web" => "tcp" \in parts')
  PROVE  PartsInv'
<1>1. /\ call'[c].does = "start" /\ call'[c].at = to
      /\ \A d \in Callers \ {c} : call'[d] = call[d]
      /\ call' \in [Callers -> [does : {"nothing", "start", "stop"},
                               at : StartStages \cup DOMAIN Unstopped \cup {"end"}]]
  BY DEF PartsInv, CallsInv, Server!GoesTo, Server!Starting
<1>2. CallsInv'
  BY <1>1 DEF PartsInv, CallsInv, Server!Stopping
<1>3. ASSUME ~crossed, NEW d \in Callers PROVE CallInv(d)'
  <2>1. CallInv(c) /\ CallInv(d)
    BY <1>3 DEF PartsInv
  <2>2. \A e \in Callers : ~Server!Stopping(e) /\ ~Server!Stopping(e)'
    BY <1>1, <2>1 DEF CallInv, Server!Stopping
  <2>3. CASE d = c
    BY <1>1, <1>3, <2>1, <2>2, <2>3 DEF CallInv
  <2>4. CASE d # c
    BY <1>1, <2>1, <2>2, <2>4 DEF CallInv, Server!Starting
  <2> QED
    BY <2>3, <2>4
<1>4. Server!PartsRunning'
  <2>1. call'[c] # Server!Idle
    BY <1>1 DEF Server!Idle
  <2> QED
    BY <2>1 DEF PartsInv, Server!PartsRunning
<1> QED
  BY <1>2, <1>3, <1>4 DEF PartsInv

\* A start is through.
LEMMA StartReturns ==
  ASSUME PartsInv, NEW c \in Callers, Server!Starting(c), Server!Returns(c),
         running', UNCHANGED <<failed, crossed>>,
         parts \subseteq parts', parts' \subseteq Startable,
         ~crossed => Required \subseteq parts'
  PROVE  PartsInv'
<1>1. /\ call'[c] = Server!Idle /\ \A d \in Callers \ {c} : call'[d] = call[d]
      /\ ~Server!Starting(c)' /\ ~Server!Stopping(c)' /\ CallsInv'
  BY DEF PartsInv, CallsInv, Server!Returns, Server!Idle, Server!Starting, Server!Stopping
<1>2. ASSUME ~crossed, NEW d \in Callers PROVE CallInv(d)'
  <2>1. CallInv(c) /\ CallInv(d)
    BY <1>2 DEF PartsInv
  <2>2. \A e \in Callers : ~Server!Stopping(e)'
    BY <1>1, <2>1 DEF CallInv, Server!Stopping
  <2> QED
    BY <1>1, <2>1, <2>2 DEF CallInv, Server!Starting
<1>3. Server!PartsRunning'
  BY DEF Server!PartsRunning, Required
<1> QED
  BY <1>1, <1>2, <1>3 DEF PartsInv

\* A call raises: it is over, and said to have failed.
LEMMA RaiseKeeps ==
  ASSUME PartsInv, NEW c \in Callers, Server!Raise(c),
         parts \subseteq parts', parts' \subseteq Startable
  PROVE  PartsInv'
<1>1. /\ call'[c] = Server!Idle /\ \A d \in Callers \ {c} : call'[d] = call[d]
      /\ ~Server!Starting(c)' /\ ~Server!Stopping(c)' /\ CallsInv'
      /\ failed' /\ UNCHANGED <<running, crossed>>
  BY DEF PartsInv, CallsInv, Server!Raise, Server!Returns, Server!Idle, Server!Starting,
         Server!Stopping
<1>2. ASSUME ~crossed, NEW d \in Callers PROVE CallInv(d)'
  <2>1. CallInv(d)
    BY <1>2 DEF PartsInv
  <2>2. ASSUME NEW e \in Callers, Server!Stopping(e)' PROVE Server!Stopping(e)
    BY <1>1, <2>2 DEF Server!Stopping
  <2> QED
    BY <1>1, <2>1, <2>2 DEF CallInv, Server!Starting, Server!Stopping
<1>3. Server!PartsRunning'
  BY <1>1 DEF PartsInv, Server!PartsRunning
<1> QED
  BY <1>1, <1>2, <1>3 DEF PartsInv

\* start begins: the managers run.
LEMMA StartBegins ==
  ASSUME PartsInv, NEW c \in Callers, Server!StartCall(c)
  PROVE  PartsInv'
<1>0. /\ call[c] = Server!Idle /\ ~running /\ parts' = parts \cup Server!Managers
      /\ parts \subseteq Startable /\ parts' \subseteq Startable
  BY DEF Server!StartCall, PartsInv, Startable, Required
<1>1. CASE Server!Raise(c)
  BY <1>0, <1>1, RaiseKeeps
<1>2. CASE /\ call' = [call EXCEPT ![c] = [does |-> "start", at |-> "udp"]]
           /\ crossed' = (crossed \/ \E d \in Callers : Server!Stopping(d))
           /\ UNCHANGED <<running, failed>>
  <2>1. /\ call'[c].does = "start" /\ call'[c].at = "udp"
        /\ \A d \in Callers \ {c} : call'[d] = call[d]
        /\ ~Server!Stopping(c)' /\ CallsInv'
    BY <1>2 DEF PartsInv, CallsInv, StartStages, Server!Stopping
  <2>2. ASSUME ~crossed', NEW d \in Callers PROVE CallInv(d)'
    <3>1. CallInv(d) /\ \A e \in Callers : ~Server!Stopping(e)
      BY <1>2, <2>2 DEF PartsInv
    <3>2. \A e \in Callers : ~Server!Stopping(e)'
      BY <2>1, <3>1 DEF Server!Stopping
    <3>3. CASE d = c
      BY <1>0, <2>1, <3>2, <3>3 DEF CallInv
    <3>4. CASE d # c
      BY <1>0, <2>1, <3>1, <3>2, <3>4 DEF CallInv, Server!Starting
    <3> QED
      BY <3>3, <3>4
  <2>3. Server!PartsRunning'
    <3>1. call'[c] # Server!Idle /\ ~running'
      BY <1>0, <1>2, <2>1 DEF Server!Idle
    <3> QED
      BY <3>1 DEF Server!PartsRunning
  <2> QED
    BY <1>0, <2>1, <2>2, <2>3 DEF PartsInv
<1> QED
  BY <1>1, <1>2 DEF Server!StartCall, Server!files

\* stop begins: the server no longer says it runs, and all may be running.
LEMMA StopBegins ==
  ASSUME PartsInv, NEW c \in Callers, Server!StopCall(c)
  PROVE  PartsInv'
<1>1. /\ call[c] = Server!Idle /\ running /\ ~running'
      /\ call' = [call EXCEPT ![c] = [does |-> "stop", at |-> "tcp"]]
      /\ crossed' = (crossed \/ \E d \in Callers : Server!Starting(d))
      /\ UNCHANGED <<parts, failed>>
  BY DEF Server!StopCall
<1>2. /\ call'[c].does = "stop" /\ call'[c].at = "tcp"
      /\ \A d \in Callers \ {c} : call'[d] = call[d]
      /\ ~Server!Starting(c)' /\ CallsInv'
  BY <1>1 DEF PartsInv, CallsInv, Unstopped, Server!Starting, Server!Stopping
<1>3. ASSUME ~crossed', NEW d \in Callers PROVE CallInv(d)'
  <2>1. CallInv(d) /\ \A e \in Callers : ~Server!Starting(e)
    BY <1>1, <1>3 DEF PartsInv
  <2>2. ~Server!Starting(d)'
    BY <1>2, <2>1 DEF Server!Starting
  <2>3. CASE d = c
    <3>1. parts' \subseteq Unstopped[call'[c].at]
      BY <1>1, <1>2 DEF PartsInv, Unstopped
    <3> QED
      BY <1>1, <2>2, <2>3, <3>1 DEF CallInv
  <2>4. CASE d # c
    BY <1>1, <1>2, <2>1, <2>2, <2>4 DEF CallInv, Server!Stopping
  <2> QED
    BY <2>3, <2>4
<1>4. Server!PartsRunning'
  <2>1. call'[c] # Server!Idle
    BY <1>2 DEF Server!Idle
  <2> QED
    BY <1>1, <2>1 DEF Server!PartsRunning
<1> QED
  BY <1>1, <1>2, <1>3, <1>4 DEF PartsInv

\* stop is through with a part; after the last nothing is left.
LEMMA StopGoesOn ==
  ASSUME PartsInv, NEW c \in Callers, Server!StopPart(c)
  PROVE  PartsInv'
<1> DEFINE next == Server!StopOrder[call[c].at]
<1>1. /\ Server!Stopping(c) /\ parts' = parts \ {call[c].at}
      /\ UNCHANGED <<running, failed, crossed>>
      /\ IF next = "end" THEN Server!Returns(c) ELSE Server!GoesTo(c, next)
  BY DEF Server!StopPart
<1>2. /\ call[c].at \in DOMAIN Unstopped /\ next \in DOMAIN Unstopped \cup {"end"}
      /\ next # "end" => Unstopped[call[c].at] \ {call[c].at} \subseteq Unstopped[next]
      /\ next = "end" => Unstopped[call[c].at] \ {call[c].at} = {}
  <2>1. call[c].at \in DOMAIN Unstopped
    BY <1>1 DEF PartsInv, CallsInv
  <2> QED
    BY <2>1 DEF Unstopped, Startable, Required, Server!Managers, Server!StopOrder
<1> HIDE DEF next
<1>3. /\ \A d \in Callers \ {c} : call'[d] = call[d]
      /\ ~Server!Starting(c)'
      /\ next = "end" => call'[c] = Server!Idle /\ ~Server!Stopping(c)'
      /\ next # "end" => call'[c].does = "stop" /\ call'[c].at = next
      /\ CallsInv'
  <2>1. CASE next = "end"
    BY <1>1, <2>1
       DEF PartsInv, CallsInv, Server!Returns, Server!Idle, Server!Starting, Server!Stopping
  <2>2. CASE next # "end"
    <3>1. Server!GoesTo(c, next) /\ next \in DOMAIN Unstopped
      BY <1>1, <1>2, <2>2
    <3>2. /\ call'[c].does = "stop" /\ call'[c].at = next
          /\ \A d \in Callers \ {c} : call'[d] = call[d]
          /\ call' \in [Callers -> [does : {"nothing", "start", "stop"},
                                   at : StartStages \cup DOMAIN Unstopped \cup {"end"}]]
      BY <1>1, <3>1 DEF PartsInv, CallsInv, Server!GoesTo, Server!Stopping
    <3>3. CallsInv'
      BY <3>1, <3>2 DEF PartsInv, CallsInv, Server!Stopping
    <3> QED
      BY <2>2, <3>2, <3>3 DEF Server!Starting
  <2> QED
    BY <2>1, <2>2
<1>4. ASSUME ~crossed, NEW d \in Callers PROVE CallInv(d)'
  <2>1. CallInv(c) /\ CallInv(d)
    BY <1>4 DEF PartsInv
  <2>2. ~running' /\ ~Server!Starting(d)'
    BY <1>1, <1>3, <2>1 DEF CallInv, Server!Starting
  <2>3. CASE d = c
    <3>1. ASSUME ~failed, next # "end" PROVE parts' \subseteq Unstopped[next]
      BY <1>1, <1>2, <2>1, <3>1 DEF CallInv
    <3> QED
      BY <1>1, <1>3, <2>2, <2>3, <3>1 DEF CallInv
  <2>4. CASE d # c
    BY <1>1, <1>3, <2>1, <2>2, <2>4 DEF CallInv, Server!Stopping
  <2> QED
    BY <2>3, <2>4
<1>5. Server!PartsRunning'
  <2> SUFFICES ASSUME ~crossed
               PROVE  /\ ~running
                      /\ ~failed /\ call'[c] = Server!Idle => parts' = {}
    BY <1>1 DEF Server!PartsRunning
  <2>1. CallInv(c)
    BY DEF PartsInv
  <2>2. ~running /\ (~failed => parts \subseteq Unstopped[call[c].at])
    BY <1>1, <2>1 DEF CallInv
  <2>3. call'[c] = Server!Idle => next = "end"
    BY <1>3 DEF Server!Idle
  <2> QED
    BY <1>1, <1>2, <2>2, <2>3
<1> QED
  BY <1>1, <1>3, <1>4, <1>5 DEF PartsInv

\* A server that says it runs has all its parts but perhaps the WebSocket server,
\* whatever failed before and however many starts overlapped, and one that does not,
\* with no call under way or failed, has none: for any number of callers, and
\* starts, stops and failures between two parts, as long as no start and no stop
\* were under way together.
THEOREM PartsCorrect == ComponentsSpec => []PartsRunning
<1>1. ComponentsInit => PartsInv
  BY DEF ComponentsInit, Server!Init, PartsInv, CallsInv, CallInv, Server!PartsRunning,
         Server!Idle, Server!Starting, Server!Stopping
<1>2. PartsInv /\ [ComponentsNext]_componentsVars => PartsInv'
  <2> SUFFICES ASSUME PartsInv, [Server!Next]_serverVars PROVE PartsInv'
    BY ServerStep
  <2>0. parts \subseteq Startable
    BY DEF PartsInv
  <2>1. ASSUME NEW c \in Callers, Server!UdpUp(c) PROVE PartsInv'
    <3>1. /\ Server!Starting(c) /\ "udp" \in parts' /\ parts \subseteq parts'
          /\ parts' \subseteq Startable /\ UNCHANGED <<running, failed, crossed>>
          /\ Server!GoesTo(c, IF tls THEN "cert" ELSE "tcp")
      BY <2>0, <2>1
         DEF Server!UdpUp, Server!StartsAt, Server!Starting, Startable, Required
    <3>2. CASE tls
      BY <3>1, <3>2, StartGoesOn DEF StartStages
    <3>3. CASE ~tls
      BY <3>1, <3>3, StartGoesOn DEF StartStages
    <3> QED
      BY <3>2, <3>3
  <2>2. ASSUME NEW c \in Callers, Server!TcpUp(c) PROVE PartsInv'
    <3>1. /\ Server!Starting(c) /\ call[c].at = "tcp" /\ "tcp" \in parts'
          /\ parts \subseteq parts' /\ parts' \subseteq Startable
          /\ UNCHANGED <<failed, crossed>>
      BY <2>0, <2>2
         DEF Server!TcpUp, Server!StartsAt, Server!Starting, Startable, Required
    <3>2. ~crossed => Server!Managers \subseteq parts /\ "udp" \in parts
      BY <3>1 DEF PartsInv, CallInv
    <3>3. CASE Server!GoesTo(c, "web") /\ UNCHANGED running
      BY <3>1, <3>2, <3>3, StartGoesOn DEF StartStages
    <3>4. CASE Server!Returns(c) /\ running' = TRUE
      BY <3>1, <3>2, <3>4, StartReturns DEF Required
    <3> QED
      BY <2>2, <3>3, <3>4 DEF Server!TcpUp
  <2>3. ASSUME NEW c \in Callers, Server!WebUp(c) PROVE PartsInv'
    <3>1. /\ Server!Starting(c) /\ call[c].at = "web" /\ running' /\ Server!Returns(c)
          /\ parts \subseteq parts' /\ parts' \subseteq Startable
          /\ UNCHANGED <<failed, crossed>>
      BY <2>0, <2>3 DEF Server!WebUp, Server!StartsAt, Server!Starting, Startable
    <3>2. ~crossed => Required \subseteq parts
      BY <3>1 DEF PartsInv, CallInv, Required
    <3> QED
      BY <3>1, <3>2, StartReturns
  <2>4. ASSUME NEW c \in Callers,
               Server!ConfiguredCert(c) \/ Server!GenerateCert(c) \/ Server!SaveCert(c)
               \/ Server!LoadCert(c)
        PROVE  PartsInv'
    <3>1. PICK from, to \in StartStages :
            /\ from # "udp" /\ to \notin {"udp", "web"}
            /\ Server!StartsAt(c, from) /\ Server!GoesTo(c, to)
            /\ UNCHANGED <<running, parts, failed, crossed>>
      <4>1. CASE Server!ConfiguredCert(c)
        BY <4>1 DEF Server!ConfiguredCert, StartStages
      <4>2. CASE Server!GenerateCert(c)
        BY <4>2 DEF Server!GenerateCert, StartStages
      <4>3. CASE Server!LoadCert(c)
        BY <4>3 DEF Server!LoadCert, Server!files, StartStages
      <4>4. CASE Server!SaveCert(c)
        <5>1. PICK from \in {"truncate_crt", "write_crt", "truncate_key", "write_key"} :
                Server!StartsAt(c, from)
          BY <4>4 DEF Server!SaveCert
        <5>2. /\ Server!GoesTo(c, Server!Saves[from])
              /\ UNCHANGED <<running, parts, failed, crossed>>
          BY <4>4, <5>1 DEF Server!SaveCert, Server!StartsAt
        <5> QED
          BY <5>1, <5>2 DEF Server!Saves, StartStages
      <4> QED
        BY <2>4, <4>1, <4>2, <4>3, <4>4
    <3>2. Server!Starting(c) /\ call[c].at = from
      BY <3>1 DEF Server!StartsAt, Server!Starting
    <3>3. ~crossed => "udp" \in parts'
      BY <3>1, <3>2 DEF PartsInv, CallInv
    <3> QED
      BY <2>0, <3>1, <3>2, <3>3, StartGoesOn
  <2>5. ASSUME NEW c \in Callers,
               Server!PartFails(c) \/ Server!SaveCertFails(c) \/ Server!LoadCertFails(c)
               \/ Server!StopPartFails(c)
        PROVE  PartsInv'
    <3>1. Server!Raise(c) /\ UNCHANGED parts
      BY <2>5 DEF Server!PartFails, Server!SaveCertFails, Server!LoadCertFails,
                  Server!StopPartFails
    <3> QED
      BY <2>0, <3>1, RaiseKeeps
  <2>6. CASE Server!Crash
    BY <2>6 DEF Server!Crash, PartsInv, CallsInv, CallInv, Server!PartsRunning,
                Server!Idle, Server!Starting, Server!Stopping
  <2>7. CASE UNCHANGED <<running, parts, call, failed, crossed>>
    BY <2>7 DEF PartsInv, CallsInv, CallInv, Server!PartsRunning, Server!Starting,
                Server!Stopping
  <2> QED
    BY <2>1, <2>2, <2>3, <2>4, <2>5, <2>6, <2>7, StartBegins, StopBegins, StopGoesOn
       DEF Server!Next, Server!Start, Server!Cert, Server!Stop, Server!Expire, serverVars
<1>3. PartsInv => PartsRunning
  BY DEF PartsInv, PartsRunning
<1> QED
  BY <1>1, <1>2, <1>3, PTL DEF ComponentsSpec

-----------------------------------------------------------------------------
\* The system's proxy settings.

\* What is in a list that is one behind the other, and in one without its head.
LEMMA HasJoined ==
  ASSUME NEW S, NEW s \in Seq(S), NEW t \in Seq(S), NEW c
  PROVE  Has(s \o t, c) <=> Has(s, c) \/ Has(t, c)
<1>1. /\ Len(s \o t) = Len(s) + Len(t) /\ Len(s) \in Nat /\ Len(t) \in Nat
      /\ \A i \in 1..Len(s) + Len(t) :
           (s \o t)[i] = IF i <= Len(s) THEN s[i] ELSE t[i - Len(s)]
  BY ConcatProperties, LenProperties
<1>2. ASSUME Has(s \o t, c) PROVE Has(s, c) \/ Has(t, c)
  <2>1. PICK i \in 1..Len(s) + Len(t) : (s \o t)[i] = c
    BY <1>1, <1>2 DEF Has
  <2>2. CASE i <= Len(s)
    <3>1. i \in 1..Len(s) /\ s[i] = c
      BY <1>1, <2>1, <2>2
    <3> QED
      BY <3>1 DEF Has
  <2>3. CASE ~(i <= Len(s))
    <3>1. i - Len(s) \in 1..Len(t) /\ t[i - Len(s)] = c
      BY <1>1, <2>1, <2>3
    <3> QED
      BY <3>1 DEF Has
  <2> QED
    BY <2>2, <2>3
<1>3. ASSUME Has(s, c) PROVE Has(s \o t, c)
  <2>1. PICK i \in 1..Len(s) : s[i] = c
    BY <1>3 DEF Has
  <2>2. i \in 1..Len(s) + Len(t) /\ i <= Len(s)
    BY <1>1
  <2>3. (s \o t)[i] = c
    BY <1>1, <2>1, <2>2
  <2> QED
    BY <1>1, <2>2, <2>3 DEF Has
<1>4. ASSUME Has(t, c) PROVE Has(s \o t, c)
  <2>1. PICK i \in 1..Len(t) : t[i] = c
    BY <1>4 DEF Has
  <2>2. /\ i + Len(s) \in 1..Len(s) + Len(t) /\ ~(i + Len(s) <= Len(s))
        /\ (i + Len(s)) - Len(s) = i
    BY <1>1
  <2>3. (s \o t)[i + Len(s)] = t[(i + Len(s)) - Len(s)]
    BY <1>1, <2>2
  <2>4. (s \o t)[i + Len(s)] = c
    BY <2>1, <2>2, <2>3
  <2> QED
    BY <1>1, <2>2, <2>4 DEF Has
<1> QED
  BY <1>2, <1>3, <1>4

LEMMA HasFirst ==
  ASSUME NEW S, NEW s \in Seq(S), s # <<>>, NEW c
  PROVE  /\ Head(s) \in S /\ Tail(s) \in Seq(S)
         /\ Has(s, c) <=> c = Head(s) \/ Has(Tail(s), c)
<1>1. /\ Tail(s) \in Seq(S) /\ Len(Tail(s)) = Len(s) - 1 /\ Len(s) \in Nat \ {0}
      /\ \A i \in 1..Len(Tail(s)) : Tail(s)[i] = s[i + 1]
  BY TailOf
<1>2. Head(s) = s[1] /\ Head(s) \in S
  BY <1>1
<1>3. ASSUME Has(s, c) PROVE c = Head(s) \/ Has(Tail(s), c)
  <2>1. PICK i \in 1..Len(s) : s[i] = c
    BY <1>3 DEF Has
  <2>2. CASE i = 1
    BY <1>2, <2>1, <2>2
  <2>3. CASE i # 1
    <3>1. i - 1 \in 1..Len(Tail(s)) /\ (i - 1) + 1 = i
      BY <1>1, <2>3
    <3>2. Tail(s)[i - 1] = c
      BY <1>1, <2>1, <3>1
    <3> QED
      BY <3>1, <3>2 DEF Has
  <2> QED
    BY <2>2, <2>3
<1>4. ASSUME c = Head(s) PROVE Has(s, c)
  <2>1. 1 \in 1..Len(s)
    BY <1>1
  <2> QED
    BY <1>2, <1>4, <2>1 DEF Has
<1>5. ASSUME Has(Tail(s), c) PROVE Has(s, c)
  <2>1. PICK i \in 1..Len(Tail(s)) : Tail(s)[i] = c
    BY <1>5 DEF Has
  <2>2. i + 1 \in 1..Len(s) /\ s[i + 1] = c
    BY <1>1, <2>1
  <2> QED
    BY <2>2 DEF Has
<1> QED
  BY <1>1, <1>2, <1>3, <1>4, <1>5

Settings == [on : BOOLEAN, server : {"none", "theirs", "ours"}]
Calls == [kind : System!Kinds, do : {"on", "off", "server"}, server : {"none", "theirs", "ours"}]

SettingsType ==
  /\ service \in [System!Kinds -> Settings]
  /\ saved \in [System!Kinds -> Settings]
  /\ before \in [System!Kinds -> Settings]
  /\ calls \in Seq(Calls)

\* What the calls still to be made leave of a setting: one that was off is off or
\* will be switched off, and one that was on with a server has that server and is
\* on, or will be; nothing else is called for it.
Restoring(k) ==
  /\ ~before[k].on =>
       /\ ~service[k].on \/ Has(calls, System!Off(k))
       /\ \A c \in Calls : Has(calls, c) /\ c.kind = k => c = System!Off(k)
  /\ before[k].on /\ before[k].server # "none" =>
       /\ service[k].on \/ Has(calls, System!On(k))
       /\ service[k].server = before[k].server
            \/ Has(calls, System!Server(k, before[k].server))
       /\ \A c \in Calls : Has(calls, c) /\ c.kind = k =>
            c \in {System!On(k), System!Server(k, before[k].server)}

\* As long as nothing has failed: what was read is what was there before; where the
\* client sets nothing nothing changes; and stop is on its way back.
SystemInv ==
  /\ SettingsType
  /\ client \in {"stopped", "setting", "running", "restoring"}
  /\ clean /\ platform = "Darwin" /\ client # "stopped" => saved = before
  /\ platform # "Darwin" => client \in {"stopped", "running"}
  /\ clean /\ platform # "Darwin" => service = before
  /\ clean /\ client = "restoring" => \A k \in System!Kinds : Restoring(k)
  /\ System!ProxyRestored

\* For the proxy settings.
LEMMA SystemStep == [ComponentsNext]_componentsVars => [System!Next]_systemVars
  BY DEF ComponentsNext, ManagersStep, WatchersStep, ServersStep, ClientStep,
         componentsVars, clientSide

\* The calls of set_proxy and restore_proxy are calls.
LEMMA CallsAreCalls ==
  ASSUME NEW k \in System!Kinds, NEW s \in {"none", "theirs", "ours"}
  PROVE  System!On(k) \in Calls /\ System!Off(k) \in Calls /\ System!Server(k, s) \in Calls
  BY DEF System!On, System!Off, System!Server, Calls

LEMMA SetCallsAreCalls == System!SetCalls \in Seq(Calls)
<1>1. /\ "socks" \in System!Kinds /\ "web" \in System!Kinds /\ "secure" \in System!Kinds
  BY DEF System!Kinds
<1>2. \A k \in System!Kinds : System!On(k) \in Calls /\ System!Server(k, "ours") \in Calls
  BY CallsAreCalls
<1> QED
  BY <1>1, <1>2 DEF System!SetCalls

\* What is called to give one setting back.
LEMMA RestoreCallsOf ==
  ASSUME SettingsType, NEW k \in System!Kinds
  PROVE  /\ System!RestoreCalls(k) \in Seq(Calls)
         /\ \A c : Has(System!RestoreCalls(k), c) <=>
              \/ ~saved[k].on /\ c = System!Off(k)
              \/ /\ saved[k].on /\ saved[k].server # "none"
                 /\ c \in {System!On(k), System!Server(k, saved[k].server)}
<1>1. saved[k].on \in BOOLEAN /\ saved[k].server \in {"none", "theirs", "ours"}
  BY DEF SettingsType, Settings
<1>2. /\ System!On(k) \in Calls /\ System!Off(k) \in Calls
      /\ System!Server(k, saved[k].server) \in Calls
  BY <1>1, CallsAreCalls
<1>3. CASE ~saved[k].on
  <2>1. System!RestoreCalls(k) = <<System!Off(k)>>
    BY <1>3 DEF System!RestoreCalls
  <2>2. /\ System!RestoreCalls(k) \in Seq(Calls)
        /\ \A c : Has(System!RestoreCalls(k), c) <=> c = System!Off(k)
    BY <1>2, <2>1 DEF Has
  <2> QED
    BY <1>3, <2>2
<1>4. CASE saved[k].on /\ saved[k].server = "none"
  <2>1. System!RestoreCalls(k) = <<>>
    BY <1>4 DEF System!RestoreCalls
  <2>2. /\ System!RestoreCalls(k) \in Seq(Calls)
        /\ \A c : ~Has(System!RestoreCalls(k), c)
    BY <2>1 DEF Has
  <2> QED
    BY <1>4, <2>2
<1>5. CASE saved[k].on /\ saved[k].server # "none"
  <2>1. System!RestoreCalls(k) = <<System!Server(k, saved[k].server), System!On(k)>>
    BY <1>5 DEF System!RestoreCalls
  <2>2. /\ System!RestoreCalls(k) \in Seq(Calls)
        /\ \A c : Has(System!RestoreCalls(k), c) <=>
             c \in {System!On(k), System!Server(k, saved[k].server)}
    BY <1>2, <2>1 DEF Has
  <2> QED
    BY <1>5, <2>2
<1> QED
  BY <1>1, <1>3, <1>4, <1>5

\* All that is called to give the settings back, one setting after the other.
LEMMA AllRestored ==
  ASSUME SettingsType
  PROVE  LET all == System!RestoreCalls("socks") \o System!RestoreCalls("web")
                      \o System!RestoreCalls("secure") IN
         /\ all \in Seq(Calls)
         /\ \A c : Has(all, c) <=> \E k \in System!Kinds : Has(System!RestoreCalls(k), c)
<1> DEFINE r(k) == System!RestoreCalls(k)
<1>1. System!Kinds = {"socks", "web", "secure"}
  BY DEF System!Kinds
<1>2. r("socks") \in Seq(Calls) /\ r("web") \in Seq(Calls) /\ r("secure") \in Seq(Calls)
  BY <1>1, RestoreCallsOf
<1> HIDE DEF r
<1>3. r("socks") \o r("web") \in Seq(Calls)
  BY <1>2, ConcatProperties
<1>4. (r("socks") \o r("web")) \o r("secure") \in Seq(Calls)
  BY <1>2, <1>3, ConcatProperties
<1>5. ASSUME NEW c
      PROVE  Has((r("socks") \o r("web")) \o r("secure"), c) <=>
               Has(r("socks"), c) \/ Has(r("web"), c) \/ Has(r("secure"), c)
  <2>1. Has(r("socks") \o r("web"), c) <=> Has(r("socks"), c) \/ Has(r("web"), c)
    BY <1>2, HasJoined
  <2>2. Has((r("socks") \o r("web")) \o r("secure"), c) <=>
          Has(r("socks") \o r("web"), c) \/ Has(r("secure"), c)
    <3> DEFINE first == r("socks") \o r("web")
    <3>1. first \in Seq(Calls) /\ r("secure") \in Seq(Calls)
      BY <1>2, <1>3
    <3> HIDE DEF first
    <3>2. Has(first \o r("secure"), c) <=> Has(first, c) \/ Has(r("secure"), c)
      BY <3>1, HasJoined
    <3> QED
      BY <3>2 DEF first
  <2> QED
    BY <2>1, <2>2
<1> QED
  BY <1>1, <1>4, <1>5 DEF r

\* start reads the settings and begins to set them.
LEMMA SystemStarts ==
  ASSUME SystemInv, System!Start
  PROVE  SystemInv'
<1>0. SettingsType /\ before' = service /\ service' = service /\ platform' = platform
  BY DEF SystemInv, System!Start
<1>1. CASE platform = "Darwin"
  <2>1. PICK failing \in SUBSET System!Kinds :
          /\ saved' = [k \in System!Kinds |-> IF k \in failing THEN System!Unread ELSE service[k]]
          /\ clean' = (failing = {})
    BY <1>1 DEF System!Start
  <2>2. client' = "setting" /\ calls' = System!SetCalls
    BY <1>1 DEF System!Start
  <2>3. calls' \in Seq(Calls)
    BY <2>2, SetCallsAreCalls
  <2>4. System!Unread \in Settings
    BY DEF System!Unread, Settings
  <2>5. SettingsType'
    BY <1>0, <2>1, <2>3, <2>4 DEF SettingsType
  <2>6. clean' => saved' = before'
    BY <1>0, <2>1 DEF SettingsType
  <2> QED
    BY <1>0, <1>1, <2>2, <2>5, <2>6 DEF SystemInv, System!ProxyRestored
<1>2. CASE platform # "Darwin"
  <2>1. client' = "running" /\ saved' = saved /\ calls' = calls
    BY <1>2 DEF System!Start
  <2>2. SettingsType'
    BY <1>0, <2>1 DEF SettingsType
  <2> QED
    BY <1>0, <1>2, <2>1, <2>2 DEF SystemInv, System!ProxyRestored
<1> QED
  BY <1>1, <1>2

\* stop begins to give the settings back.
LEMMA SystemStops ==
  ASSUME SystemInv, System!Stop
  PROVE  SystemInv'
<1>0. /\ SettingsType /\ client = "running"
      /\ UNCHANGED <<platform, service, saved, before, clean>>
  BY DEF SystemInv, System!Stop
<1>1. CASE platform = "Darwin"
  <2>1. /\ client' = "restoring"
        /\ calls' = System!RestoreCalls("socks") \o System!RestoreCalls("web")
                      \o System!RestoreCalls("secure")
    BY <1>1 DEF System!Stop
  <2>2. /\ calls' \in Seq(Calls)
        /\ \A c : Has(calls', c) <=> \E k \in System!Kinds : Has(System!RestoreCalls(k), c)
    BY <1>0, <2>1, AllRestored
  <2>3. SettingsType'
    BY <1>0, <2>2 DEF SettingsType
  <2>4. ASSUME clean, NEW k \in System!Kinds
        PROVE  Restoring(k)'
    <3>1. saved = before
      BY <1>0, <1>1, <2>4 DEF SystemInv
    <3>2. \A j \in System!Kinds : \A c : Has(System!RestoreCalls(j), c) <=>
            \/ ~before[j].on /\ c = System!Off(j)
            \/ /\ before[j].on /\ before[j].server # "none"
               /\ c \in {System!On(j), System!Server(j, before[j].server)}
      BY <1>0, <3>1, RestoreCallsOf
    <3>3. ASSUME NEW c, Has(System!RestoreCalls(k), c)
          PROVE  Has(calls', c)
      BY <2>2, <3>3
    <3>4. ASSUME NEW c \in Calls, Has(calls', c), c.kind = k
          PROVE  Has(System!RestoreCalls(k), c)
      <4>1. PICK j \in System!Kinds : Has(System!RestoreCalls(j), c)
        BY <2>2, <3>4
      <4>2. c \in {System!Off(j), System!On(j), System!Server(j, before[j].server)}
        BY <3>2, <4>1
      <4>3. c.kind = j
        BY <4>2 DEF System!Off, System!On, System!Server
      <4> QED
        BY <3>4, <4>1, <4>3
    <3>5. UNCHANGED <<before, service>>
      BY <1>0
    <3>6. before[k].on \in BOOLEAN
      BY <1>0 DEF SettingsType, Settings
    <3>7. CASE ~before[k].on
      <4>1. Has(calls', System!Off(k))
        BY <3>2, <3>3, <3>7
      <4>2. \A c \in Calls : Has(calls', c) /\ c.kind = k => c = System!Off(k)
        BY <3>2, <3>4, <3>7
      <4> QED
        BY <3>5, <3>7, <4>1, <4>2 DEF Restoring
    <3>8. CASE before[k].on /\ before[k].server # "none"
      <4>1. Has(calls', System!On(k)) /\ Has(calls', System!Server(k, before[k].server))
        BY <3>2, <3>3, <3>8
      <4>2. \A c \in Calls : Has(calls', c) /\ c.kind = k =>
              c \in {System!On(k), System!Server(k, before[k].server)}
        BY <3>2, <3>4, <3>8
      <4> QED
        BY <3>5, <3>8, <4>1, <4>2 DEF Restoring
    <3>9. CASE before[k].on /\ before[k].server = "none"
      BY <3>5, <3>9 DEF Restoring
    <3> QED
      BY <3>6, <3>7, <3>8, <3>9
  <2> QED
    BY <1>0, <1>1, <2>1, <2>3, <2>4 DEF SystemInv, System!ProxyRestored
<1>2. CASE platform # "Darwin"
  <2>1. client' = "stopped" /\ calls' = calls
    BY <1>2 DEF System!Stop
  <2>2. SettingsType'
    BY <1>0, <2>1 DEF SettingsType
  <2> QED
    BY <1>0, <1>2, <2>1, <2>2 DEF SystemInv, System!ProxyRestored
<1> QED
  BY <1>1, <1>2

\* A call goes through: what it changes is what was to be given back.
LEMMA SystemCalls ==
  ASSUME SystemInv, System!Call
  PROVE  SystemInv'
<1> DEFINE c == Head(calls)
<1>0. /\ SettingsType /\ client \in {"setting", "restoring"} /\ calls # <<>>
      /\ calls' = Tail(calls)
      /\ service' = IF c.do = "server" THEN [service EXCEPT ![c.kind].server = c.server]
                    ELSE [service EXCEPT ![c.kind].on = (c.do = "on")]
      /\ UNCHANGED <<platform, saved, client, before, clean>>
  BY DEF SystemInv, System!Call, System!Busy
<1>1. /\ c \in Calls /\ calls' \in Seq(Calls)
      /\ \A x : Has(calls, x) <=> x = c \/ Has(calls', x)
  <2>1. calls \in Seq(Calls)
    BY <1>0 DEF SettingsType
  <2> QED
    BY <1>0, <2>1, HasFirst
<1> HIDE DEF c
<1>2. /\ c.kind \in System!Kinds /\ c.server \in {"none", "theirs", "ours"}
      /\ c.do \in {"on", "off", "server"}
  BY <1>1 DEF Calls
<1>3. /\ service' \in [System!Kinds -> Settings]
      /\ \A k \in System!Kinds \ {c.kind} : service'[k] = service[k]
      /\ c.do = "server" => /\ service'[c.kind].server = c.server
                            /\ service'[c.kind].on = service[c.kind].on
      /\ c.do # "server" => /\ service'[c.kind].server = service[c.kind].server
                            /\ service'[c.kind].on <=> c.do = "on"
  <2>1. service \in [System!Kinds -> Settings]
    BY <1>0 DEF SettingsType
  <2>2. CASE c.do = "server"
    <3>1. service' = [service EXCEPT ![c.kind].server = c.server]
      BY <1>0, <2>2
    <3> QED
      BY <1>2, <2>1, <2>2, <3>1 DEF Settings
  <2>3. CASE c.do # "server"
    <3>1. service' = [service EXCEPT ![c.kind].on = (c.do = "on")]
      BY <1>0, <2>3
    <3>2. CASE c.do = "on"
      <4>1. service' = [service EXCEPT ![c.kind].on = TRUE]
        BY <3>1, <3>2
      <4> QED
        BY <1>2, <2>1, <3>2, <4>1 DEF Settings
    <3>3. CASE c.do # "on"
      <4>1. service' = [service EXCEPT ![c.kind].on = FALSE]
        BY <3>1, <3>3
      <4> QED
        BY <1>2, <2>1, <2>3, <3>3, <4>1 DEF Settings
    <3> QED
      BY <3>2, <3>3
  <2> QED
    BY <2>2, <2>3
<1>4. SettingsType'
  BY <1>0, <1>1, <1>3 DEF SettingsType
<1>5. ASSUME clean, client = "restoring", NEW k \in System!Kinds
      PROVE  Restoring(k)'
  <2>0. Restoring(k) /\ before' = before
    BY <1>0, <1>5 DEF SystemInv
  <2>1. CASE c.kind # k
    <3>1. service'[k] = service[k]
      BY <1>3, <2>1
    <3>2. ASSUME NEW x, x.kind = k
          PROVE  Has(calls, x) <=> Has(calls', x)
      BY <1>1, <2>1, <3>2
    <3>3. /\ System!Off(k).kind = k /\ System!On(k).kind = k
          /\ System!Server(k, before[k].server).kind = k
      BY DEF System!Off, System!On, System!Server
    <3> QED
      BY <2>0, <3>1, <3>2, <3>3 DEF Restoring
  <2>2. CASE c.kind = k
    <3>1. Has(calls, c) /\ \A x : Has(calls', x) => Has(calls, x)
      BY <1>1
    <3>2. CASE ~before[k].on
      <4>1. c = System!Off(k)
        BY <1>1, <2>0, <2>2, <3>1, <3>2 DEF Restoring
      <4>2. ~service'[k].on
        <5>1. c.do = "off"
          BY <4>1 DEF System!Off
        <5> QED
          BY <1>3, <2>2, <5>1
      <4> QED
        BY <2>0, <3>1, <3>2, <4>2 DEF Restoring
    <3>3. CASE before[k].on /\ before[k].server # "none"
      <4>1. c = System!On(k) \/ c = System!Server(k, before[k].server)
        BY <1>1, <2>0, <2>2, <3>1, <3>3 DEF Restoring
      <4>2. System!On(k) # System!Server(k, before[k].server)
        BY DEF System!On, System!Server
      <4>3. CASE c = System!On(k)
        <5>1. service'[k].on /\ service'[k].server = service[k].server
          <6>1. c.do = "on"
            BY <4>3 DEF System!On
          <6> QED
            BY <1>3, <2>2, <6>1
        <5> QED
          BY <1>1, <2>0, <3>1, <3>3, <4>2, <4>3, <5>1 DEF Restoring
      <4>4. CASE c = System!Server(k, before[k].server)
        <5>1. service'[k].server = before[k].server /\ service'[k].on = service[k].on
          BY <1>3, <2>2, <4>4 DEF System!Server
        <5> QED
          BY <1>1, <2>0, <3>1, <3>3, <4>2, <4>4, <5>1 DEF Restoring
      <4> QED
        BY <4>1, <4>3, <4>4
    <3>4. CASE before[k].on /\ before[k].server = "none"
      BY <2>0, <3>4 DEF Restoring
    <3>5. before[k].on \in BOOLEAN
      BY <1>0 DEF SettingsType, Settings
    <3> QED
      BY <3>2, <3>3, <3>4, <3>5
  <2> QED
    BY <2>1, <2>2
<1>6. platform = "Darwin"
  BY <1>0 DEF SystemInv
<1> QED
  BY <1>0, <1>4, <1>5, <1>6 DEF SystemInv, System!ProxyRestored

\* With no call left to be made the settings are back.
LEMMA SystemCallsDone ==
  ASSUME SystemInv, System!CallsDone
  PROVE  SystemInv'
<1>0. /\ SettingsType /\ client \in {"setting", "restoring"} /\ calls = <<>>
      /\ client' = IF client = "setting" THEN "running" ELSE "stopped"
      /\ UNCHANGED <<platform, service, saved, calls, before, clean>>
  BY DEF SystemInv, System!CallsDone, System!Busy, System!Done
<1>1. SettingsType'
  BY <1>0 DEF SettingsType
<1>2. System!ProxyRestored'
  <2>1. SUFFICES ASSUME client = "restoring", clean, NEW k \in System!Kinds
        PROVE  /\ ~before[k].on => ~service[k].on
               /\ before[k].on /\ before[k].server # "none" => service[k] = before[k]
    BY <1>0 DEF System!ProxyRestored
  <2>2. Restoring(k)
    BY <2>1 DEF SystemInv
  <2>3. \A x : ~Has(calls, x)
    BY <1>0 DEF Has
  <2>4. /\ ~before[k].on => ~service[k].on
        /\ before[k].on /\ before[k].server # "none" =>
             service[k].on /\ service[k].server = before[k].server
    BY <2>2, <2>3 DEF Restoring
  <2>5. service[k] \in Settings /\ before[k] \in Settings
    BY <1>0 DEF SettingsType
  <2>6. ASSUME before[k].on, service[k].on, service[k].server = before[k].server
        PROVE  service[k] = before[k]
    BY <2>5, <2>6 DEF Settings
  <2> QED
    BY <2>4, <2>6
<1> QED
  BY <1>0, <1>1, <1>2 DEF SystemInv

\* After a stop a setting that was off is off, and one that was on with a server is
\* on with that server, even when set_proxy stopped half way: for any number of
\* starts and stops and whatever failed before, as long as the settings were read, no
\* call of restore failed and nobody else set them.  The server of a setting that was
\* off is not among what is put back.
THEOREM ProxyCorrect == ComponentsSpec => []ProxyRestored
<1>1. ComponentsInit => SystemInv
  <2> SUFFICES ASSUME ComponentsInit PROVE SystemInv
    OBVIOUS
  <2>0. System!Init
    BY DEF ComponentsInit
  <2>1. System!Theirs \subseteq Settings /\ System!Unread \in Settings
    BY DEF System!Theirs, System!Unread, Settings
  <2>2. /\ service \in [System!Kinds -> System!Theirs] /\ before = service
        /\ saved = [k \in System!Kinds |-> System!Unread] /\ calls = <<>>
        /\ client = "stopped"
    BY <2>0 DEF System!Init
  <2>3. SettingsType
    BY <2>1, <2>2 DEF SettingsType
  <2> QED
    BY <2>2, <2>3 DEF SystemInv, System!ProxyRestored
<1>2. SystemInv /\ [ComponentsNext]_componentsVars => SystemInv'
  <2> SUFFICES ASSUME SystemInv, [System!Next]_systemVars PROVE SystemInv'
    BY SystemStep
  <2>0. SettingsType /\ System!Theirs \subseteq Settings
    BY DEF SystemInv, System!Theirs, Settings
  <2>1. CASE System!CallFails
    <3>1. /\ calls' = <<>> /\ UNCHANGED <<platform, service, saved, before>>
          /\ client \in {"setting", "restoring"}
          /\ clean' = (clean /\ client = "setting")
          /\ client' = IF client = "setting" THEN "running" ELSE "stopped"
      BY <2>1 DEF System!CallFails, System!Done, System!Busy
    <3>2. SettingsType'
      BY <2>0, <3>1 DEF SettingsType
    <3> QED
      BY <3>1, <3>2 DEF SystemInv, System!ProxyRestored
  <2>2. CASE System!Crash
    <3>1. /\ calls' = <<>> /\ clean' = FALSE /\ UNCHANGED <<platform, service, before>>
          /\ client' = "stopped" /\ saved' = [k \in System!Kinds |-> System!Unread]
      BY <2>2 DEF System!Crash
    <3>2. System!Unread \in Settings
      BY DEF System!Unread, Settings
    <3>3. SettingsType'
      BY <2>0, <3>1, <3>2 DEF SettingsType
    <3> QED
      BY <3>1, <3>3 DEF SystemInv, System!ProxyRestored
  <2>3. CASE \E k \in System!Kinds, setting \in System!Theirs : System!SomebodySets(k, setting)
    <3>1. PICK k \in System!Kinds, setting \in System!Theirs : System!SomebodySets(k, setting)
      BY <2>3
    <3>2. /\ service' = [service EXCEPT ![k] = setting] /\ clean' = FALSE
          /\ UNCHANGED <<platform, saved, client, calls, before>>
      BY <3>1 DEF System!SomebodySets
    <3>3. setting \in Settings
      BY <2>0
    <3>4. SettingsType'
      BY <2>0, <3>2, <3>3 DEF SettingsType
    <3> QED
      BY <3>2, <3>4 DEF SystemInv, System!ProxyRestored
  <2>4. CASE UNCHANGED systemVars
    BY <2>4 DEF systemVars, SystemInv, SettingsType, Restoring, System!ProxyRestored
  <2> QED
    BY <2>1, <2>2, <2>3, <2>4, SystemStarts, SystemStops, SystemCalls, SystemCallsDone
       DEF System!Next
<1>3. SystemInv => ProxyRestored
  BY DEF SystemInv, ProxyRestored
<1> QED
  BY <1>1, <1>2, <1>3, PTL DEF ComponentsSpec
===============================================================================
