------------------------------ MODULE DeviceManager ------------------------------
(***************************************************************************)
(* DeviceManager: registered devices with a status, and a table of their   *)
(* open connections that outlives the registration.                        *)
(***************************************************************************)
EXTENDS Integers, FiniteSets, Functions, Dictionaries

CONSTANTS
  Devices, MaxDevices,
  AllowedDevices,  \* registered by the constructor, whatever the limit
  MaxOpen,         \* bound on the connections of a device, and on the count
  LoopIds, NoTask

VARIABLES
  deviceLoop,   \* the idle status loop
  devices,      \* _devices: status, and whether last_seen is IDLE_TIMEOUT ago
  connections,  \* _connections
  open,         \* (history) connections the callers have open, per device
  muddled       \* (history) devices with a connect or disconnect not counted

vars == <<deviceLoop, devices, connections, open, muddled>>

Loop == INSTANCE BackgroundLoop WITH loop <- deviceLoop

Init ==
  /\ Loop!Init
  /\ devices = [d \in AllowedDevices |-> [status |-> "offline", idle |-> FALSE]]
  /\ connections = <<>>
  /\ open = [d \in Devices |-> 0]
  /\ muddled = {}

Known(d) == d \in DOMAIN devices
Count(d) == IF d \in DOMAIN connections THEN connections[d] ELSE 0

\* A device that is known already comes back online, also above the limit.
RegisterDevice(d) ==
  /\ Known(d) \/ Cardinality(DOMAIN devices) < MaxDevices
  /\ devices' = Put(devices, d, [status |-> "online", idle |-> FALSE])
  /\ UNCHANGED <<deviceLoop, connections, open, muddled>>

UnregisterDevice(d) ==
  /\ Known(d)
  /\ devices' = Restrict(devices, DOMAIN devices \ {d})
  /\ UNCHANGED <<deviceLoop, connections, open, muddled>>

\* Of a device that is not registered, neither connect nor disconnect counts.
DeviceConnect(d) ==
  /\ open[d] < MaxOpen /\ Count(d) < MaxOpen
  /\ open' = [open EXCEPT ![d] = @ + 1]
  /\ \/ /\ Known(d)
        /\ devices' = [devices EXCEPT ![d].status = "online"]
        /\ connections' = Put(connections, d, Count(d) + 1)
        /\ UNCHANGED muddled
     \/ /\ ~Known(d)
        /\ muddled' = muddled \cup {d}
        /\ UNCHANGED <<devices, connections>>
  /\ UNCHANGED deviceLoop

\* Faulty: every disconnect makes the device idle.
LastGone(d) == connections[d] >= 1

\* _connections[device_id] <= 0 once it is counted down.
LastConnection(d) == connections[d] - 1 <= 0

DeviceDisconnect(d) ==
  /\ open[d] > 0
  /\ open' = [open EXCEPT ![d] = @ - 1]
  /\ \/ /\ Known(d) /\ d \in DOMAIN connections /\ LastConnection(d)
        /\ connections' = Restrict(connections, DOMAIN connections \ {d})
        /\ devices' = [devices EXCEPT ![d].status = "idle"]
        /\ UNCHANGED muddled
     \/ /\ Known(d) /\ d \in DOMAIN connections /\ ~LastConnection(d)
        /\ connections' = [connections EXCEPT ![d] = @ - 1]
        /\ UNCHANGED <<devices, muddled>>
     \/ /\ ~Known(d) \/ d \notin DOMAIN connections
        /\ muddled' = muddled \cup {d}
        /\ UNCHANGED <<devices, connections>>
  /\ UNCHANGED deviceLoop

UpdateDeviceActivity(d) ==
  /\ Known(d)
  /\ devices' = [devices EXCEPT ![d].idle = FALSE]
  /\ UNCHANGED <<deviceLoop, connections, open, muddled>>

GrowsIdle(d) ==
  /\ Known(d)
  /\ devices' = [devices EXCEPT ![d].idle = TRUE]
  /\ UNCHANGED <<deviceLoop, connections, open, muddled>>

UpdateIdleStatus ==
  /\ Loop!Turn
  /\ devices' = [d \in DOMAIN devices |->
       IF devices[d].status = "online" /\ d \notin DOMAIN connections /\ devices[d].idle
       THEN [devices[d] EXCEPT !.status = "idle"] ELSE devices[d]]
  /\ UNCHANGED <<connections, open, muddled>>

StartStop == Loop!Life /\ UNCHANGED <<devices, connections, open, muddled>>

Next ==
  \/ \E d \in Devices :
       \/ RegisterDevice(d) \/ UnregisterDevice(d) \/ DeviceConnect(d)
       \/ DeviceDisconnect(d) \/ UpdateDeviceActivity(d) \/ GrowsIdle(d)
  \/ UpdateIdleStatus
  \/ StartStop

\* A device with a connection is online whatever the idle loop, the other
\* connections and registrations do, and its count is exact unless a connection
\* came or went while it was not registered; the limit holds but for the devices
\* allowed from the start.
DevicesCounted ==
  /\ \A d \in DOMAIN connections \cap DOMAIN devices : devices[d].status = "online"
  /\ \A d \in Devices \ muddled : open[d] = Count(d)
  /\ DOMAIN devices \subseteq AllowedDevices \/ Cardinality(DOMAIN devices) <= MaxDevices
=============================================================================
