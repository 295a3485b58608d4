--------------------------- MODULE ConnectionHandler ---------------------------
(***************************************************************************)
(* The server's connections together: ConnectionHandler admits them up to  *)
(* max_connections, each one runs ServerProtocol.handle, and what its two  *)
(* relay tasks copy is reported to the TrafficManager, whose total decides *)
(* who is admitted next.  The wire is left out (see Tunnel).               *)
(*                                                                         *)
(* A relay task reports what it has copied once that reaches the buffer    *)
(* size of the connection, which the packets of both tasks move up and     *)
(* down.  The task that reads the target awaits each write to the client   *)
(* before it counts it; the other one awaits a drain before it reports.    *)
(* The end of the other task cancels them there.                           *)
(***************************************************************************)
EXTENDS Integers, FiniteSets, Functions

CONSTANTS
  Protocols,       \* the connections, each with an address of its own
  MaxActive,       \* max_connections
  MinBuffer,       \* MIN_BUFFER_SIZE, in some unit of data
  DefaultBuffer,   \* DEFAULT_BUFFER_SIZE
  MaxBuffer,       \* MAX_BUFFER_SIZE
  Chunks,          \* how much a read may return
  Limit,           \* limit_mb of the TrafficManager, 0 for no limit
  MaxMoved         \* bound on what all connections carry

ASSUME HandlerAssumption ==
  /\ IsFiniteSet(Protocols)
  /\ MaxActive \in Nat
  /\ MinBuffer \in Nat \ {0} /\ DefaultBuffer \in Nat /\ MaxBuffer \in Nat
  /\ MinBuffer <= DefaultBuffer /\ DefaultBuffer <= MaxBuffer
  /\ Chunks \subseteq Nat \ {0}
  /\ Limit \in Nat
  /\ MaxMoved \in Nat

VARIABLES
  stage,      \* where each connection is in handle_connection and handle
  active,     \* _active_connections
  notified,   \* the count the connection callback was last called with
  size,       \* _buffer_size of each connection
  task,       \* its relay tasks: "copying", "waiting" for a drain, or "over"
  pending,    \* total_sent and total_received: counted, not yet reported
  writing,    \* the data of the write to the client that "down" awaits, or was
              \* awaiting when it ended
  moved,      \* what each connection has carried in fact
  clientUsed, \* _client_stats of the TrafficManager, by client address
  used        \* its _global_stats

relayVars == <<size, task, pending, writing, moved, clientUsed, used>>
handlerVars == <<stage, active, notified, relayVars>>

Tasks == {"up", "down"}

\* The stages between the two ends of handle_connection's try block.  The last two
\* are those of close: it awaits wait_closed of the connection to the target, if
\* there is one, then of the connection to the client.
Handled == {"handshake", "request", "dialing", "relay", "udp", "parting", "hangup"}

HandlerType ==
  /\ stage \in [Protocols -> Handled \cup {"new", "rejected", "closed"}]
  /\ active \subseteq Protocols
  /\ notified \in Nat
  /\ size \in [Protocols -> MinBuffer .. MaxBuffer]
  /\ task \in [Protocols -> [Tasks -> {"copying", "waiting", "over"}]]
  /\ pending \in [Protocols -> [Tasks -> Nat]]
  /\ writing \in [Protocols -> Nat]
  /\ moved \in [Protocols -> Nat]
  /\ clientUsed \in [Protocols -> Nat]
  /\ used \in Nat

Init ==
  /\ stage = [p \in Protocols |-> "new"]
  /\ active = {}
  /\ notified = 0
  /\ size = [p \in Protocols |-> DefaultBuffer]
  /\ task = [p \in Protocols |-> [t \in Tasks |-> "copying"]]
  /\ pending = [p \in Protocols |-> [t \in Tasks |-> 0]]
  /\ writing = [p \in Protocols |-> 0]
  /\ moved = [p \in Protocols |-> 0]
  /\ clientUsed = [p \in Protocols |-> 0]
  /\ used = 0

-----------------------------------------------------------------------------
\* handle_connection

Accept(p) ==
  /\ stage[p] = "new"
  /\ Cardinality(active) < MaxActive
  /\ active' = active \cup {p}
  /\ notified' = Cardinality(active')
  /\ stage' = [stage EXCEPT ![p] = "handshake"]
  /\ UNCHANGED relayVars

\* No room: the writer is closed and the handler forgets it.
Reject(p) ==
  /\ stage[p] = "new"
  /\ Cardinality(active) >= MaxActive
  /\ stage' = [stage EXCEPT ![p] = "rejected"]
  /\ UNCHANGED <<active, notified, relayVars>>

\* Faulty: the slot is given back only where handle returned from the relay.
LeaveSomeSlots(p) ==
  /\ stage[p] = "hangup"
  /\ stage' = [stage EXCEPT ![p] = "closed"]
  /\ active' = IF \E t \in Tasks : task[p][t] = "over" THEN active \ {p} ELSE active
  /\ notified' = Cardinality(active')
  /\ UNCHANGED relayVars

\* close is through, and the finally clause of handle_connection follows.
Leave(p) ==
  /\ stage[p] = "hangup"
  /\ stage' = [stage EXCEPT ![p] = "closed"]
  /\ active' = active \ {p}
  /\ notified' = Cardinality(active')
  /\ UNCHANGED relayVars

-----------------------------------------------------------------------------
\* ServerProtocol.handle

Move(p, from, to) ==
  /\ stage[p] = from
  /\ stage' = [stage EXCEPT ![p] = to]
  /\ UNCHANGED <<active, notified, relayVars>>

SaltReceived(p) == Move(p, "handshake", "request")

\* check_quota: the total of all clients against the limit.
HasQuota == Limit = 0 \/ used < Limit

\* check_access admits a CONNECT request; the target is dialed next.
Admit(p) ==
  /\ HasQuota
  /\ Move(p, "request", "dialing")

Connected(p) == Move(p, "dialing", "relay")

\* check_access admits a UDP_ASSOCIATE request: the connection is kept for 300
\* seconds, and _relay returns at once for want of a target.
Associate(p) ==
  /\ HasQuota
  /\ Move(p, "request", "udp")

AssociationEnds(p) == Move(p, "udp", "hangup")

\* A timeout or any error before there is a target, access denied among them.
Fail(p) == \E from \in {"handshake", "request", "dialing"} : Move(p, from, "hangup")

\* The target was reached, and the client to be told so is gone.
ReplyFails(p) == Move(p, "dialing", "parting")

\* close goes on to the client's connection once the target's is flushed.
Parted(p) == Move(p, "parting", "hangup")

-----------------------------------------------------------------------------
\* The relay tasks

\* Faulty: the growth is not cut at the maximum.
AdjustedUncapped(p, n) ==
  {size[p]}
    \cup {s \in {size[p] + 1} : 5 * n > 4 * size[p]}
    \cup {s \in {size[p] - 1} : 5 * n < size[p] /\ s >= MinBuffer}

\* _adjust_buffer_size.  Where an adjustment is due, every 100 packets or 10
\* seconds, a packet near the size raises it and a small one lowers it, by 20%;
\* one unit stands for that.
Adjusted(p, n) ==
  {size[p]}
    \cup {s \in {size[p] + 1} : 5 * n > 4 * size[p] /\ s <= MaxBuffer}
    \cup {s \in {size[p] - 1} : 5 * n < size[p] /\ s >= MinBuffer}

\* What the client sent is written to the target and counted: what a read returned
\* and what was left of an earlier packet.  A drain is awaited only before a report.
CopyUp(p) ==
  /\ stage[p] = "relay"
  /\ task[p]["up"] = "copying"
  /\ \E n \in Chunks :
       /\ SumFunction(moved) + n <= MaxMoved
       /\ \E s \in Adjusted(p, n) : size' = [size EXCEPT ![p] = s]
       /\ moved' = [moved EXCEPT ![p] = @ + n]
       /\ pending' = [pending EXCEPT ![p]["up"] = @ + n]
  /\ task' = [task EXCEPT ![p]["up"] =
                IF pending'[p]["up"] >= size'[p] THEN "waiting" ELSE "copying"]
  /\ UNCHANGED <<stage, active, notified, writing, clientUsed, used>>

\* What a read of the target returned, at most the buffer size, is written to the
\* client; it is counted when the write has been awaited.
CopyDown(p) ==
  /\ stage[p] = "relay"
  /\ task[p]["down"] = "copying"
  /\ \E n \in Chunks :
       /\ n <= size[p]
       /\ SumFunction(moved) + n <= MaxMoved
       /\ \E s \in Adjusted(p, n) : size' = [size EXCEPT ![p] = s]
       /\ moved' = [moved EXCEPT ![p] = @ + n]
       /\ writing' = [writing EXCEPT ![p] = n]
  /\ task' = [task EXCEPT ![p]["down"] = "waiting"]
  /\ UNCHANGED <<stage, active, notified, pending, clientUsed, used>>

\* What a task has to report when its await returns.
Counted(p, t) == pending[p][t] + (IF t = "down" THEN writing[p] ELSE 0)

\* Faulty: the downstream task has lost its report.
IsDueUp(p, t) == t = "up"

\* Is there something to report after the await?  "up" has looked before it,
\* "down" looks at the size the other task may have changed meanwhile.
IsDue(p, t) == t = "up" \/ Counted(p, t) >= size[p]

\* The await of a task is over.
Resume(p, t) ==
  /\ stage[p] = "relay"
  /\ task[p][t] = "waiting"
  /\ task' = [task EXCEPT ![p][t] = "copying"]
  /\ writing' = IF t = "down" THEN [writing EXCEPT ![p] = 0] ELSE writing
  /\ UNCHANGED <<stage, active, notified, size, moved>>

\* Faulty: what was reported is not taken off the count.
ReportAgain(p, t) ==
  /\ Resume(p, t)
  /\ IsDue(p, t)
  /\ clientUsed' = [clientUsed EXCEPT ![p] = @ + Counted(p, t)]
  /\ used' = used + Counted(p, t)
  /\ pending' = [pending EXCEPT ![p][t] = Counted(p, t)]

\* on_data_transfer and record_transfer.
Report(p, t) ==
  /\ Resume(p, t)
  /\ IsDue(p, t)
  /\ clientUsed' = [clientUsed EXCEPT ![p] = @ + Counted(p, t)]
  /\ used' = used + Counted(p, t)
  /\ pending' = [pending EXCEPT ![p][t] = 0]

GoOn(p, t) ==
  /\ Resume(p, t)
  /\ ~IsDue(p, t)
  /\ pending' = [pending EXCEPT ![p][t] = Counted(p, t)]
  /\ UNCHANGED <<clientUsed, used>>

\* The task reads end-of-file, or its read, write or drain raises; whatever it
\* has not reported stays unreported, and a write it awaited stays uncounted.
EndTask(p, t) ==
  /\ stage[p] = "relay"
  /\ task[p][t] # "over"
  /\ task' = [task EXCEPT ![p][t] = "over"]
  /\ UNCHANGED <<stage, active, notified, size, pending, writing, moved, clientUsed, used>>

\* Faulty: asyncio.wait with ALL_COMPLETED.
EndRelayBoth(p) ==
  /\ \A t \in Tasks : task[p][t] = "over"
  /\ Move(p, "relay", "parting")

\* asyncio.wait returns with the first task done and _relay cancels the other.
EndRelay(p) ==
  /\ \E t \in Tasks : task[p][t] = "over"
  /\ Move(p, "relay", "parting")

-----------------------------------------------------------------------------
Relay(p) ==
  CopyUp(p) \/ CopyDown(p) \/ \E t \in Tasks : Report(p, t) \/ GoOn(p, t) \/ EndTask(p, t)

\* What clients and targets do, which they need not.
Peers(p) ==
  Accept(p) \/ Reject(p) \/ SaltReceived(p) \/ Admit(p) \/ Associate(p) \/ Relay(p)

\* What the server does of itself: timeouts, and the end of a relay.
Server(p) ==
  Fail(p) \/ ReplyFails(p) \/ Connected(p) \/ AssociationEnds(p) \/ EndRelay(p)

\* The waits of close, which last until the peer has taken what was written to it.
Close(p) == Parted(p) \/ Leave(p)

Next == \E p \in Protocols : Peers(p) \/ Server(p) \/ Close(p)

HandlerSpec == Init /\ [][Next]_handlerVars

\* The salt, the dialing and an association have timeouts, and a close with no
\* more than a reply to flush returns.  A client that has sent its salt may stay
\* silent for ever, and a peer that data was written to may never read it.
FairHandlerSpec ==
  /\ HandlerSpec
  /\ \A p \in Protocols :
       /\ WF_handlerVars(stage[p] \in {"handshake", "dialing", "udp", "relay"} /\ Server(p))
       /\ WF_handlerVars(moved[p] = 0 /\ Close(p))

-----------------------------------------------------------------------------
\* The handler never serves more than max_connections at once, it holds a slot
\* for exactly the connections it serves, and the callback has told the count
\* (handle_connection, whatever way handle ends).
SlotsExact ==
  /\ Cardinality(active) <= MaxActive
  /\ active = {p \in Protocols : stage[p] \in Handled}
  /\ notified = Cardinality(active)

\* Traffic is reported once at most, and what is not reported is still in a counter
\* of the connection that carried it, but for the one write to the client that is
\* awaited: it is in no counter yet, and never will be if the tunnel ends there
\* (the resets of total_sent and total_received, against cancellation between
\* copy, count and report).
CountedOnce ==
  \A p \in Protocols :
    /\ moved[p] = clientUsed[p] + pending[p]["up"] + pending[p]["down"] + writing[p]
    /\ task[p]["down"] = "copying" => writing[p] = 0
    /\ writing[p] \in Chunks \cup {0}

\* What a live connection has carried unreported is less than two full buffers
\* and a chunk in each direction, although both tasks move the threshold.
LagBounded ==
  \A p \in Protocols : \A t \in Tasks :
    \/ Counted(p, t) < MaxBuffer
    \/ task[p][t] # "copying" /\ \E c \in Chunks : Counted(p, t) - c < MaxBuffer

\* A slot is given back, if the peers of the connection take what was written to
\* them before its close.  Only a client that keeps its request back, and a relay
\* with both its tasks alive, may then hold one for ever: every other stage has a
\* timeout, and a relay task that ends takes the other one with it.
SlotsComeBack ==
  \A p \in Protocols :
    []<>(stage[p] \notin {"parting", "hangup"} \/ moved[p] = 0)
      => (p \in active ~>
            \/ p \notin active
            \/ stage[p] = "request"
            \/ stage[p] = "relay" /\ \A t \in Tasks : task[p][t] # "over")
===============================================================================
