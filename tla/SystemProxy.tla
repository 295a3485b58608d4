------------------------------- MODULE SystemProxy -------------------------------
(***************************************************************************)
(* Client.start and stop with ProxyManager, which on macOS points three    *)
(* system settings at the local proxy and puts them back from what it read *)
(* before, one networksetup call after the other.  Any call may fail, the  *)
(* process may die between two, and somebody else may change the settings. *)
(***************************************************************************)
EXTENDS Sequences

VARIABLES
  platform,   \* "Darwin", or another one, where nothing is read or set
  service,    \* the system's settings: whether on, and which server
  saved,      \* _original_settings: what was read of each, or "unread"
  client,     \* "stopped", "setting", "running" or "restoring"
  calls,      \* networksetup calls still to be made
  before,     \* (history) the settings start found
  clean       \* (history) since start all was read, no call of restore failed, and
              \* nobody interfered

vars == <<platform, service, saved, client, calls, before, clean>>

Kinds == {"socks", "web", "secure"}
Theirs == [on : BOOLEAN, server : {"none", "theirs"}]
Unread == [on |-> TRUE, server |-> "none"]   \* no "Enabled: No" in it, and no host

Init ==
  /\ platform \in {"Darwin", "other"}
  /\ service \in [Kinds -> Theirs]
  /\ saved = [k \in Kinds |-> Unread]
  /\ client = "stopped"
  /\ calls = <<>>
  /\ before = service
  /\ clean = TRUE

On(k) == [kind |-> k, do |-> "on", server |-> "none"]
Off(k) == [kind |-> k, do |-> "off", server |-> "none"]
Server(k, s) == [kind |-> k, do |-> "server", server |-> s]

SetCalls ==
  <<On("socks"), Server("socks", "ours"), On("web"), Server("web", "ours"),
    On("secure"), Server("secure", "ours")>>

\* Faulty: what was on is only switched on again.
RestoreCallsStateOnly(k) == IF saved[k].on THEN <<On(k)>> ELSE <<Off(k)>>

\* One that was off is only switched off; one without a host is left alone.
RestoreCalls(k) ==
  IF ~saved[k].on THEN <<Off(k)>>
  ELSE IF saved[k].server = "none" THEN <<>> ELSE <<Server(k, saved[k].server), On(k)>>

\* The local proxy is up, and the settings are read; a failure to read is not
\* noticed.  When the local proxy does not come up nothing has changed.
Start ==
  /\ client = "stopped"
  /\ before' = service
  /\ \/ /\ platform = "Darwin"
        /\ \E failing \in SUBSET Kinds :
             /\ saved' = [k \in Kinds |-> IF k \in failing THEN Unread ELSE service[k]]
             /\ clean' = (failing = {})
        /\ client' = "setting"
        /\ calls' = SetCalls
     \/ /\ platform # "Darwin"
        /\ client' = "running"
        /\ clean' = TRUE
        /\ UNCHANGED <<saved, calls>>
  /\ UNCHANGED <<platform, service>>

\* The local proxy has stopped; when stopping it fails the client still runs.
Stop ==
  /\ client = "running"
  /\ \/ /\ platform = "Darwin"
        /\ client' = "restoring"
        /\ calls' = RestoreCalls("socks") \o RestoreCalls("web") \o RestoreCalls("secure")
     \/ platform # "Darwin" /\ client' = "stopped" /\ UNCHANGED calls
  /\ UNCHANGED <<platform, service, saved, before, clean>>

Busy == client \in {"setting", "restoring"}

\* set_proxy and restore_proxy report a failure to a caller that ignores it.
Done == client' = IF client = "setting" THEN "running" ELSE "stopped"

Call ==
  /\ Busy /\ calls # <<>>
  /\ LET c == Head(calls) IN
       service' = IF c.do = "server" THEN [service EXCEPT ![c.kind].server = c.server]
                  ELSE [service EXCEPT ![c.kind].on = (c.do = "on")]
  /\ calls' = Tail(calls)
  /\ UNCHANGED <<platform, saved, client, before, clean>>

CallsDone ==
  /\ Busy /\ calls = <<>>
  /\ Done
  /\ UNCHANGED <<platform, service, saved, calls, before, clean>>

\* check=True: the calls after a failed one are not made.  restore starts from what
\* was read, whatever set_proxy came to.
CallFails ==
  /\ Busy /\ calls # <<>>
  /\ calls' = <<>>
  /\ Done
  /\ clean' = (clean /\ client = "setting")
  /\ UNCHANGED <<platform, service, saved, before>>

\* The process dies and is started again: what is set stays, what was read is lost.
Crash ==
  /\ client # "stopped"
  /\ client' = "stopped"
  /\ calls' = <<>>
  /\ saved' = [k \in Kinds |-> Unread]
  /\ clean' = FALSE
  /\ UNCHANGED <<platform, service, before>>

SomebodySets(k, setting) ==
  /\ client # "stopped" /\ clean /\ service[k] # setting
  /\ service' = [service EXCEPT ![k] = setting]
  /\ clean' = FALSE
  /\ UNCHANGED <<platform, saved, client, calls, before>>

Next ==
  \/ Start \/ Stop \/ Call \/ CallsDone \/ CallFails \/ Crash
  \/ \E k \in Kinds, setting \in Theirs : SomebodySets(k, setting)

\* After a stop a setting that was off is off, and one that was on with a server is
\* on with that server, even when set_proxy had stopped half way.  Of a setting that
\* was off the server is not put back, and one that was on without a server is left
\* as set_proxy made it.
ProxyRestored ==
  client = "stopped" /\ clean =>
    \A k \in Kinds :
      /\ ~before[k].on => ~service[k].on
      /\ before[k].on /\ before[k].server # "none" => service[k] = before[k]
=============================================================================
