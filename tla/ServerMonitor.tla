----------------------------- MODULE ServerMonitor -----------------------------
(***************************************************************************)
(* Monitor: every UPDATE_INTERVAL it copies the counts of the other parts  *)
(* and derives a request rate from what it saw the time before.            *)
(***************************************************************************)
EXTENDS Integers

CONSTANTS MaxConnections, LoopIds, NoTask

VARIABLES
  monitorLoop,  \* the update loop
  total,        \* the connection handler's total_connections
  shown,        \* _status.total_connections
  last,         \* _last_total_connections
  rate          \* request_rate, in requests per UPDATE_INTERVAL

vars == <<monitorLoop, total, shown, last, rate>>

Loop == INSTANCE BackgroundLoop WITH loop <- monitorLoop

Init == Loop!Init /\ total = 0 /\ shown = 0 /\ last = 0 /\ rate = 0

ConnectionArrives ==
  /\ total < MaxConnections
  /\ total' = total + 1
  /\ UNCHANGED <<monitorLoop, shown, last, rate>>

\* The traffic manager's statistics have no "total_sent" or "total_received", so
\* the bytes and the throughput shown stay 0.
UpdateStatus ==
  /\ Loop!Turn
  /\ shown' = total
  /\ rate' = shown' - last
  /\ last' = shown'
  /\ UNCHANGED total

StartStop == Loop!Life /\ UNCHANGED <<total, shown, last, rate>>

Next == ConnectionArrives \/ UpdateStatus \/ StartStop
=============================================================================
