----------------------------- MODULE TrafficManager -----------------------------
(***************************************************************************)
(* TrafficManager with its warnings.  A relay task reports what it copied, *)
(* and when the total has reached the threshold it puts a warning under    *)
(* its client's id and awaits the callbacks; meanwhile the other task of   *)
(* the same client may report, the monthly reset may clear everything, or  *)
(* the task may be cancelled.  ConnectionHandler has the quota.            *)
(***************************************************************************)
EXTENDS Naturals, Functions, Dictionaries

CONSTANTS
  Clients,
  Amounts,      \* what one report may carry
  Threshold,    \* warning_threshold_mb
  MaxTotal,     \* bound on the total between two resets
  LoopIds, NoTask

VARIABLES
  trafficLoop,  \* the cleanup loop
  clientStats,  \* _client_stats
  globalStats,  \* _global_stats
  warnings,     \* _warnings: the task that awaits the callbacks of the warning,
                \* or "notified", or "abandoned" by a task cancelled in the await
  reporter,     \* each relay task: "idle", "calling" the callbacks, or "ended"
  warned        \* (history) clients whose callbacks were called since the reset

vars == <<trafficLoop, clientStats, globalStats, warnings, reporter, warned>>

Loop == INSTANCE BackgroundLoop WITH loop <- trafficLoop

Tasks == {"up", "down"}

Init ==
  /\ Loop!Init
  /\ clientStats = <<>>
  /\ globalStats = 0
  /\ warnings = <<>>
  /\ reporter = [c \in Clients |-> [t \in Tasks |-> "idle"]]
  /\ warned = {}

WarningOf(c) == IF c \in DOMAIN warnings THEN warnings[c] ELSE "none"

\* _check_warnings up to the first await; a warning not yet notified is replaced.
CheckWarnings(c, t) ==
  \/ /\ globalStats' >= Threshold /\ WarningOf(c) # "notified"
     /\ warnings' = Put(warnings, c, t)
     /\ reporter' = [reporter EXCEPT ![c][t] = "calling"]
     /\ warned' = warned \cup {c}
  \/ /\ globalStats' < Threshold \/ WarningOf(c) = "notified"
     /\ UNCHANGED <<warnings, reporter, warned>>

RecordTransfer(c, t, n) ==
  /\ reporter[c][t] = "idle"
  /\ globalStats + n <= MaxTotal
  /\ clientStats' =
       Put(clientStats, c, (IF c \in DOMAIN clientStats THEN clientStats[c] ELSE 0) + n)
  /\ globalStats' = globalStats + n
  /\ CheckWarnings(c, t)
  /\ UNCHANGED trafficLoop

\* Faulty: the client's entry is marked, whatever warning it is by now.
CallbacksDoneByClient(c, t) ==
  /\ reporter[c][t] = "calling"
  /\ reporter' = [reporter EXCEPT ![c][t] = "idle"]
  /\ warnings' = Put(warnings, c, "notified")
  /\ UNCHANGED <<trafficLoop, clientStats, globalStats, warned>>

\* The task marks its own warning, which may not be the table's any more.
CallbacksDone(c, t) ==
  /\ reporter[c][t] = "calling"
  /\ reporter' = [reporter EXCEPT ![c][t] = "idle"]
  /\ warnings' = IF WarningOf(c) = t THEN [warnings EXCEPT ![c] = "notified"] ELSE warnings
  /\ UNCHANGED <<trafficLoop, clientStats, globalStats, warned>>

CallbacksCancelled(c, t) ==
  /\ reporter[c][t] = "calling"
  /\ reporter' = [reporter EXCEPT ![c][t] = "ended"]
  /\ warnings' = IF WarningOf(c) = t THEN [warnings EXCEPT ![c] = "abandoned"] ELSE warnings
  /\ UNCHANGED <<trafficLoop, clientStats, globalStats, warned>>

ResetStats ==
  /\ clientStats' = <<>>
  /\ globalStats' = 0
  /\ warnings' = <<>>
  /\ warned' = {}
  /\ UNCHANGED reporter

\* The loop's work: a reset if the day has come.  _cleanup_old_stats goes by
\* end_time, which nothing sets, so it never finds anything.
CleanupTurn ==
  /\ Loop!Turn
  /\ \/ ResetStats
     \/ UNCHANGED <<clientStats, globalStats, warnings, reporter, warned>>

StartStop ==
  Loop!Life /\ UNCHANGED <<clientStats, globalStats, warnings, reporter, warned>>

Next ==
  \/ \E c \in Clients, t \in Tasks :
       \/ \E n \in Amounts : RecordTransfer(c, t, n)
       \/ CallbacksDone(c, t) \/ CallbacksCancelled(c, t)
  \/ CleanupTurn
  \/ StartStop

\* A warning counts as notified, and silences its client, only if the callbacks
\* were called for that client since the last reset, and one not yet notified has
\* a task that still awaits them; the total is the sum of the clients' shares.
WarningIsCurrent ==
  /\ \A c \in DOMAIN warnings :
       /\ c \in warned /\ globalStats >= Threshold
       /\ warnings[c] \in Tasks => reporter[c][warnings[c]] = "calling"
  /\ globalStats = FoldFunction(+, 0, clientStats)
=============================================================================
