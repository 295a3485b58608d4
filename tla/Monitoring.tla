------------------------------- MODULE Monitoring -------------------------------
(***************************************************************************)
(* MetricsCollector, which keeps the last values of each metric, and       *)
(* AlertManager, whose loop compares the newest one with its thresholds;   *)
(* MonitoringManager starts and stops both.  Callbacks and exports only    *)
(* read.  The collector's three tasks live and die together and count as   *)
(* one.                                                                    *)
(***************************************************************************)
EXTENDS Naturals, Sequences, Functions, Dictionaries

CONSTANTS
  Names,      \* metrics with a threshold
  Keep,       \* values kept of a metric (1000)
  MaxAlerts,  \* bound on _alerts, which is never trimmed
  LoopIds, NoTask

VARIABLES
  collectLoop,  \* the collector's tasks
  alertLoop,    \* the alert manager's task
  metrics,      \* _metrics: for each value whether it is beyond the threshold
  cooling,      \* thresholds last triggered less than their cooldown ago
  alerts        \* _alerts

vars == <<collectLoop, alertLoop, metrics, cooling, alerts>>

Collecting == INSTANCE BackgroundLoop WITH loop <- collectLoop
Alerting == INSTANCE BackgroundLoop WITH loop <- alertLoop

Init ==
  Collecting!Init /\ Alerting!Init /\ metrics = <<>> /\ cooling = {} /\ alerts = <<>>

Values(n) == IF n \in DOMAIN metrics THEN metrics[n] ELSE <<>>
LastOf(s, k) == IF Len(s) > k THEN SubSeq(s, Len(s) - k + 1, Len(s)) ELSE s

AddMetric(n, beyond) ==
  /\ metrics' = Put(metrics, n, LastOf(Append(Values(n), beyond), Keep))
  /\ UNCHANGED <<collectLoop, alertLoop, cooling, alerts>>

ClearMetrics(N) ==
  /\ metrics' = Restrict(metrics, DOMAIN metrics \ N)
  /\ UNCHANGED <<collectLoop, alertLoop, cooling, alerts>>

\* A sampling task wakes up and adds its metrics.
Collect(n, beyond) ==
  /\ Collecting!Turn
  /\ metrics' = Put(metrics, n, LastOf(Append(Values(n), beyond), Keep))
  /\ UNCHANGED <<alertLoop, cooling, alerts>>

Triggered == {n \in DOMAIN metrics : metrics[n][Len(metrics[n])]} \ cooling

CheckThresholds ==
  /\ Alerting!Turn
  /\ Len(alerts) < MaxAlerts
  /\ cooling' = cooling \cup Triggered
  /\ alerts' = IF Triggered = {} THEN alerts ELSE Append(alerts, Triggered)
  /\ UNCHANGED <<collectLoop, metrics>>

CoolsDown(n) ==
  /\ n \in cooling
  /\ cooling' = cooling \ {n}
  /\ UNCHANGED <<collectLoop, alertLoop, metrics, alerts>>

ClearAlerts == alerts' = <<>> /\ UNCHANGED <<collectLoop, alertLoop, metrics, cooling>>

\* stop does not wait for the tasks it cancels.
StartStop ==
  /\ \/ Collecting!Life /\ UNCHANGED alertLoop
     \/ Alerting!Life /\ UNCHANGED collectLoop
  /\ UNCHANGED <<metrics, cooling, alerts>>

Next ==
  \/ \E n \in Names, beyond \in BOOLEAN : AddMetric(n, beyond) \/ Collect(n, beyond)
  \/ \E N \in {Names} \cup {{n} : n \in Names} : ClearMetrics(N)
  \/ \E n \in Names : CoolsDown(n)
  \/ CheckThresholds \/ ClearAlerts \/ StartStop
=============================================================================
