------------------------------- MODULE LocalProxy -------------------------------
(***************************************************************************)
(* LocalProxy: one task per connection of a local application, through the *)
(* SOCKS5 handshake to a tunnel, opened with retries, or to the target     *)
(* itself; and stop, which cancels the tasks one after the other.  What    *)
(* goes through a tunnel is in Tunnel.                                     *)
(***************************************************************************)
EXTENDS Naturals

CONSTANTS Conns, MaxRetries

VARIABLES
  listening,   \* _running: start has opened the listening socket
  waits,       \* Python 3.12 or newer: wait_closed waits for the connections
  registered,  \* a factory is registered for the protocol; in src/ nothing
               \* imports the module that does it
  place,       \* where each connection's task is
  attempt,     \* of connect, from 0
  sockets,     \* the attempts whose socket to the server is open
  held,        \* the attempt whose socket the adapter has, or MaxRetries
  localOpen,   \* the socket to the application is open
  targets,     \* the socket to the target itself, without a tunnel, is open
  active,      \* _active_connections
  stopping,    \* stop: "no", "waiting" in wait_closed, or "cancelling"
  toCancel,    \* what is left of the list of tasks that stop goes through
  awaited,     \* the task it awaits, or {}
  cut,         \* (history) cancelled in the finally of _handle_connection
  left         \* (history) cancelled in the relay of _direct_connect

vars == <<listening, waits, registered, place, attempt, sockets, held, localOpen,
          targets, active, stopping, toCancel, awaited, cut, left>>

stopVars == <<listening, waits, registered, stopping, toCancel, awaited, cut, left>>
tunnelVars == <<attempt, sockets, held>>
socketVars == <<attempt, sockets, held, localOpen, targets>>

Init ==
  /\ listening = FALSE
  /\ waits \in BOOLEAN
  /\ registered \in BOOLEAN
  /\ place = [c \in Conns |-> "new"]
  /\ attempt = [c \in Conns |-> 0]
  /\ sockets = [c \in Conns |-> {}]
  /\ held = [c \in Conns |-> MaxRetries]
  /\ localOpen = {} /\ targets = {}
  /\ active = {}
  /\ stopping = "no"
  /\ toCancel = {}
  /\ awaited = {}
  /\ cut = {} /\ left = {}

\* A port already in use makes start_server raise, and nothing changes.  Client
\* does not start while its stop is under way.
Start ==
  /\ ~listening /\ stopping = "no"
  /\ listening' = TRUE
  /\ UNCHANGED <<waits, registered, place, socketVars, active, stopping, toCancel,
                 awaited, cut, left>>

-----------------------------------------------------------------------------
\* _handle_connection.

Goes(c, from, to) == place[c] = from /\ place' = [place EXCEPT ![c] = to]

\* The event loop accepts and creates the task, which has not run yet.
Accept(c) ==
  /\ listening
  /\ Goes(c, "new", "accepted")
  /\ localOpen' = localOpen \cup {c}
  /\ UNCHANGED <<stopVars, tunnelVars, targets, active>>

Begin(c) ==
  /\ Goes(c, "accepted", "handshake")
  /\ active' = active \cup {c}
  /\ UNCHANGED <<stopVars, socketVars>>

\* The finally, up to its first await: the task leaves _active_connections, and
\* with a tunnel closes the adapter's socket before the local one.
Ends(c) ==
  /\ active' = active \ {c}
  /\ sockets' = [sockets EXCEPT ![c] = @ \ {held[c]}]
  /\ \/ held[c] # MaxRetries /\ place' = [place EXCEPT ![c] = "closing"] /\ UNCHANGED localOpen
     \/ /\ held[c] = MaxRetries
        /\ place' = [place EXCEPT ![c] = "closed"]
        /\ localOpen' = localOpen \ {c}
  /\ UNCHANGED <<stopVars, attempt, held, targets>>

\* A greeting or request that is short, late, of another version or command, or
\* without the method: nothing is routed.
HandshakeFails(c) == place[c] = "handshake" /\ Ends(c)

\* The application has been told of success, before anything is connected.
HandshakeDone(c) ==
  /\ \/ registered /\ Goes(c, "handshake", "dial")
     \/ Goes(c, "handshake", "direct dial")
  /\ UNCHANGED <<stopVars, socketVars, active>>

\* ValueError: no factory for the protocol.
ProtocolMissing(c) == ~registered /\ place[c] = "handshake" /\ Ends(c)

\* An attempt of connect: the socket, then salt, request and reply.
Dial(c) ==
  /\ Goes(c, "dial", "hello")
  /\ sockets' = [sockets EXCEPT ![c] = @ \cup {attempt[c]}]
  /\ held' = [held EXCEPT ![c] = attempt[c]]
  /\ UNCHANGED <<stopVars, attempt, localOpen, targets, active>>

Accepted(c) ==
  /\ Goes(c, "hello", "relay")
  /\ UNCHANGED <<stopVars, socketVars, active>>

LastAttempt(c) == attempt[c] + 1 = MaxRetries

AttemptFails(c) ==
  /\ ~LastAttempt(c)
  /\ Goes(c, "dial", "backoff") \/ Goes(c, "hello", "backoff")
  /\ UNCHANGED <<stopVars, socketVars, active>>

ConnectFails(c) == place[c] \in {"dial", "hello"} /\ LastAttempt(c) /\ Ends(c)

\* Faulty: the adapter goes on to the next socket.
RetryWithoutClose(c) ==
  /\ Goes(c, "backoff", "dial")
  /\ attempt' = [attempt EXCEPT ![c] = @ + 1]
  /\ UNCHANGED <<stopVars, sockets, held, localOpen, targets, active>>

\* The sleep is over: the socket of the failed attempt is closed, and the next
\* attempt begins.
Retry(c) ==
  /\ Goes(c, "backoff", "dial")
  /\ sockets' = [sockets EXCEPT ![c] = @ \ {held[c]}]
  /\ attempt' = [attempt EXCEPT ![c] = @ + 1]
  /\ UNCHANGED <<stopVars, held, localOpen, targets, active>>

DirectConnect(c) ==
  /\ Goes(c, "direct dial", "direct")
  /\ targets' = targets \cup {c}
  /\ UNCHANGED <<stopVars, tunnelVars, localOpen, active>>

\* Both directions are at their end, by a failure or not: the target's socket is
\* closed, and that is awaited.
DirectEnds(c) ==
  /\ Goes(c, "direct", "parting")
  /\ targets' = targets \ {c}
  /\ UNCHANGED <<stopVars, tunnelVars, localOpen, active>>

RelayEnds(c) == place[c] \in {"relay", "direct dial", "parting"} /\ Ends(c)

\* CancelledError goes through to the finally, whatever the task awaited.
Cancelled(c) == place[c] = "cancelled" /\ Ends(c)

ClosesLocal(c) ==
  /\ Goes(c, "closing", "closed")
  /\ localOpen' = localOpen \ {c}
  /\ UNCHANGED <<stopVars, tunnelVars, targets, active>>

Over(c) == Goes(c, "closed", "over") /\ UNCHANGED <<stopVars, socketVars, active>>

-----------------------------------------------------------------------------
\* stop.

Stop ==
  /\ listening
  /\ listening' = FALSE
  /\ stopping' = "waiting"
  /\ UNCHANGED <<waits, registered, place, socketVars, active, toCancel, awaited, cut,
                 left>>

\* From 3.12 on, wait_closed returns when no connection is open any more.
WaitClosed ==
  /\ stopping = "waiting"
  /\ waits => localOpen = {}
  /\ stopping' = "cancelling"
  /\ toCancel' = active
  /\ UNCHANGED <<listening, waits, registered, place, socketVars, active, awaited, cut,
                 left>>

\* A task of the list may by now be in its finally, which is cut short there:
\* past the adapter the local socket is not closed.  In the relay of a direct
\* connection the close behind it is not reached.
CancelTask(c) ==
  /\ stopping = "cancelling" /\ awaited = {} /\ c \in toCancel
  /\ toCancel' = toCancel \ {c}
  /\ awaited' = {c}
  /\ \/ place[c] \in {"closing", "closed"} /\ place' = [place EXCEPT ![c] = "over"] /\ cut' = cut \cup {c}
     \/ place[c] = "over" /\ UNCHANGED <<place, cut>>
     \/ /\ place[c] \notin {"closing", "closed", "over"}
        /\ place' = [place EXCEPT ![c] = "cancelled"]
        /\ UNCHANGED cut
  /\ left' = IF place[c] = "direct" THEN left \cup {c} ELSE left
  /\ UNCHANGED <<listening, waits, registered, socketVars, active, stopping>>

TaskAwaited ==
  /\ awaited # {} /\ \A c \in awaited : place[c] = "over"
  /\ awaited' = {}
  /\ UNCHANGED <<listening, waits, registered, place, socketVars, active, stopping,
                 toCancel, cut, left>>

Stopped ==
  /\ stopping = "cancelling" /\ toCancel = {} /\ awaited = {}
  /\ stopping' = "no"
  /\ UNCHANGED <<listening, waits, registered, place, socketVars, active, toCancel,
                 awaited, cut, left>>

Next ==
  \/ Start \/ Stop \/ WaitClosed \/ TaskAwaited \/ Stopped
  \/ \E c \in Conns :
       \/ Accept(c) \/ Begin(c) \/ HandshakeFails(c) \/ HandshakeDone(c)
       \/ ProtocolMissing(c) \/ Dial(c) \/ Accepted(c) \/ AttemptFails(c)
       \/ ConnectFails(c) \/ Retry(c) \/ DirectConnect(c) \/ DirectEnds(c)
       \/ RelayEnds(c) \/ Cancelled(c) \/ ClosesLocal(c) \/ Over(c) \/ CancelTask(c)

\* Through retries, failures and cancellation at any await, a connection has at
\* most one socket to the server, and its task takes it and the others along when it
\* ends; only a task cancelled in its finally may leave the local one, and one
\* cancelled in the relay of a direct connection the target's.
SocketsClosed ==
  \A c \in Conns :
    /\ \A a, b \in sockets[c] : a = b
    /\ place[c] = "over" =>
         /\ sockets[c] = {}
         /\ c \in localOpen => c \in cut
         /\ c \in targets => c \in left
=============================================================================
