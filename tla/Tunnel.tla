-------------------------------- MODULE Tunnel --------------------------------
(***************************************************************************)
(* One tunnel: a ClientProtocol and the ServerProtocol that serves it, over *)
(* the two directions of a PacketStream.  The client sends its salt and a  *)
(* request, the server checks access, connects to the target and answers,  *)
(* then two relay tasks on each side copy data until one of them ends.     *)
(* The task that writes to the target, or to the application, awaits a     *)
(* drain now and then, and close awaits that what was written is flushed:  *)
(* waits that last as long as the peer does not read.                      *)
(*                                                                         *)
(* "up" is client to server: packet 1 is the request.  "down" is server to *)
(* client: packet 1 is the reply; kinds records what each packet carries.  *)
(***************************************************************************)
EXTENDS PacketStream

CONSTANT
  MayBurst    \* may one read from application or target exceed MAX_PACKET_SIZE?

ASSUME TunnelAssumption ==
  /\ Streams = {"up", "down"}
  /\ MayBurst \in BOOLEAN

VARIABLES
  cpc,          \* where the client is in connect, relay and close
  spc,          \* where the server is in handle
  dialed,       \* the server's connection to the target is open
  app,          \* the local application: "open", "ended" its stream, or "failed"
  target,       \* the target, likewise
  kinds         \* for each packet of "down": "ok", "refused" or "data"

controlVars == <<cpc, spc, dialed, app, target, kinds>>
tunnelVars == <<streamVars, controlVars>>

\* Both relay tasks are alive; in "draining", the one that reads the tunnel
\* awaits the drain of what it wrote to the target, or to the application.
Relaying == {"relay", "draining"}

\* The stages of close: "parting" awaits wait_closed of the connection to the
\* target or the application, "hangup" that of the tunnel's own connection.
Leaving == {"closing", "parting", "hangup", "closed"}

TunnelType ==
  /\ PacketStreamType
  /\ cpc \in {"connecting", "salted", "requested"} \cup Relaying \cup Leaving
  /\ spc \in {"handshake", "request", "dialing"} \cup Relaying \cup Leaving
  /\ dialed \in BOOLEAN
  /\ app \in {"open", "ended", "failed"} /\ target \in {"open", "ended", "failed"}
  /\ kinds \in Seq({"ok", "refused", "data"})
  /\ Len(kinds) = sent["down"]

TunnelInit ==
  /\ Init
  /\ cpc = "connecting"
  /\ spc = "handshake"
  /\ dialed = FALSE
  /\ app = "open"
  /\ target = "open"
  /\ kinds = <<>>

\* A task is cancelled only where it awaits, never between a read() and the
\* loop that decrypts what it returned.
AtAwait(s) == run[s] # "parsing"

\* The receiver of a direction is done, in whichever way.
Over(s) == run[s] \in {"failed", "lost", "ended"}

\* A relay task that has handed on all its buffer holds may await a drain before
\* it reads again: when it has written as much as _buffer_size says, which both
\* tasks move up and down.
DrainMayFollow(s) ==
  run[s] = "parsing" /\ run'[s] = "reading" /\ Len(out[s]) > 1

-----------------------------------------------------------------------------
\* The client: ClientProtocol.connect, relay and close.

ClientSendSalt ==
  /\ cpc = "connecting"
  /\ cpc' = "salted"
  /\ UNCHANGED <<streamVars, spc, dialed, app, target, kinds>>

ClientSendRequest ==
  /\ cpc = "salted"
  /\ ~Over("down")
  /\ Send("up")
  /\ cpc' = "requested"
  /\ UNCHANGED <<spc, dialed, app, target, kinds>>

\* read_encrypted takes the reply, then the downstream relay task goes on.
ClientReceive ==
  /\ \/ cpc = "requested" /\ phase["down"] = "head"
     \/ cpc = "relay"
  /\ Receive("down")
  /\ \/ cpc' = cpc
     \/ cpc = "relay" /\ DrainMayFollow("down") /\ cpc' = "draining"
  /\ UNCHANGED <<spc, dialed, app, target, kinds>>

\* drain returns: the application has read enough.
ClientDrained ==
  /\ cpc = "draining"
  /\ cpc' = "relay"
  /\ UNCHANGED <<streamVars, spc, dialed, app, target, kinds>>

\* Faulty: any reply will do.
ClientTakeAnyReply ==
  /\ cpc = "requested"
  /\ phase["down"] = "relay"
  /\ cpc' = "relay"
  /\ UNCHANGED <<streamVars, spc, dialed, app, target, kinds>>

\* _read_encrypted returned the reply.
ClientTakeReply ==
  /\ cpc = "requested"
  /\ phase["down"] = "relay"
  /\ cpc' = IF kinds[1] = "ok" THEN "relay" ELSE "closing"
  /\ UNCHANGED <<streamVars, spc, dialed, app, target, kinds>>

\* Faulty: data follows the request without waiting for the reply.
ClientRelayUpEarly ==
  /\ cpc \in {"requested", "relay"}
  /\ app = "open"
  /\ Send("up")
  /\ UNCHANGED controlVars

\* The upstream relay task: data read from the application is one packet.
ClientRelayUp ==
  /\ cpc \in Relaying
  /\ app = "open"
  /\ Send("up")
  /\ UNCHANGED controlVars

\* The application ends its stream, or its connection breaks: then reads, writes
\* and drains raise.
AppOver ==
  /\ cpc \in Relaying
  /\ app = "open"
  /\ app' \in {"ended", "failed"}
  /\ UNCHANGED <<streamVars, cpc, spc, dialed, target, kinds>>

\* Faulty: a failed attempt to connect is not noticed.
ClientGiveUpRelayOnly ==
  /\ cpc \in Relaying
  /\ Over("down")
  /\ cpc' = "closing"
  /\ UNCHANGED <<streamVars, spc, dialed, app, target, kinds>>

\* connect fails, or the task that reads the tunnel ends and takes the other one
\* with it.
ClientGiveUp ==
  /\ cpc \in {"salted", "requested"} \cup Relaying
  /\ Over("down")
  /\ cpc' = "closing"
  /\ UNCHANGED <<streamVars, spc, dialed, app, target, kinds>>

\* A relay task finds the application gone, which takes the one that reads it
\* as long as its last write to the tunnel does, and the other one with it.
ClientAppGone ==
  /\ cpc \in Relaying
  /\ app # "open"
  /\ AtAwait("down")
  /\ cpc' = "closing"
  /\ UNCHANGED <<streamVars, spc, dialed, app, target, kinds>>

\* A read from the application returns more than MAX_PACKET_SIZE bytes.
ClientRelayBurst ==
  /\ MayBurst
  /\ cpc \in Relaying
  /\ app = "open"
  /\ AtAwait("down")
  /\ cpc' = "closing"
  /\ UNCHANGED <<streamVars, spc, dialed, app, target, kinds>>

\* close: the tunnel's connection first ...
ClientClose ==
  /\ cpc = "closing"
  /\ CloseSender("up")
  /\ cpc' = "hangup"
  /\ UNCHANGED <<spc, dialed, app, target, kinds>>

\* ... which is waited for, then the application's ...
ClientHungUp ==
  /\ cpc = "hangup"
  /\ cpc' = "parting"
  /\ UNCHANGED <<streamVars, spc, dialed, app, target, kinds>>

\* ... which is waited for, too.
ClientParted ==
  /\ cpc = "parting"
  /\ cpc' = "closed"
  /\ UNCHANGED <<streamVars, spc, dialed, app, target, kinds>>

Client ==
  \/ ClientSendSalt \/ ClientSendRequest \/ ClientReceive
  \/ ClientTakeReply \/ ClientGiveUp \/ ClientClose

-----------------------------------------------------------------------------
\* The server: ServerProtocol.handle, _relay and close.

\* read(16) returns the whole salt and the cipher is set up.
ServerHandshake ==
  /\ spc = "handshake"
  /\ cpc # "connecting"
  /\ spc' = "request"
  /\ UNCHANGED <<streamVars, cpc, dialed, app, target, kinds>>

\* The salt does not come within HANDSHAKE_TIMEOUT, read(16) raises or returns
\* less than 16 bytes; there is no cipher yet, so there is no answer either.
ServerHandshakeFails ==
  /\ spc = "handshake"
  /\ spc' = "closing"
  /\ UNCHANGED <<streamVars, cpc, dialed, app, target, kinds>>

ServerReceive ==
  /\ \/ spc = "request" /\ phase["up"] = "head"
     \/ spc = "relay"
  /\ Receive("up")
  /\ \/ spc' = spc
     \/ spc = "relay" /\ DrainMayFollow("up") /\ spc' = "draining"
  /\ UNCHANGED <<cpc, dialed, app, target, kinds>>

\* drain returns: the target has read enough.
ServerDrained ==
  /\ spc = "draining"
  /\ spc' = "relay"
  /\ UNCHANGED <<streamVars, cpc, dialed, app, target, kinds>>

Answer(kind) ==
  /\ Send("down")
  /\ kinds' = Append(kinds, kind)

\* check_access admits the request.
ServerAdmit ==
  /\ spc = "request"
  /\ phase["up"] = "relay"
  /\ spc' = "dialing"
  /\ UNCHANGED <<streamVars, cpc, dialed, app, target, kinds>>

\* Faulty: an error of a relay task reaches handle's error handlers, too.
ServerRefuseAlways ==
  /\ \/ spc = "request" /\ (Over("up") \/ phase["up"] = "relay")
     \/ spc = "dialing"
     \/ spc = "relay" /\ run["up"] \in {"failed", "lost"}
  /\ Answer("refused")
  /\ spc' = "closing"
  /\ UNCHANGED <<cpc, dialed, app, target>>

\* An unreadable request, denied access, or a target that cannot be reached
\* within the connect timeout: _send_error_response, then close.
ServerRefuse ==
  /\ \/ spc = "request" /\ (Over("up") \/ phase["up"] = "relay")
     \/ spc = "dialing" /\ ~Over("up")
  /\ Answer("refused")
  /\ spc' = "closing"
  /\ UNCHANGED <<cpc, dialed, app, target>>

\* The connection to the client was lost while the server dialed: neither reply
\* can be written.
ServerReplyFails ==
  /\ spc = "dialing"
  /\ Over("up")
  /\ dialed' \in BOOLEAN
  /\ spc' = "closing"
  /\ UNCHANGED <<streamVars, cpc, app, target, kinds>>

\* open_connection succeeds; the success response opens the relay.
ServerConnect ==
  /\ spc = "dialing"
  /\ ~Over("up")
  /\ dialed' = TRUE
  /\ Answer("ok")
  /\ spc' = "relay"
  /\ UNCHANGED <<cpc, app, target>>

\* The downstream relay task: data read from the target is one packet.
ServerRelayDown ==
  /\ spc \in Relaying
  /\ target = "open"
  /\ Answer("data")
  /\ UNCHANGED <<cpc, spc, dialed, app, target>>

\* The target ends its stream, or the connection to it breaks: then reads raise,
\* and so do writes and drains.
TargetOver ==
  /\ spc \in Relaying
  /\ target = "open"
  /\ target' \in {"ended", "failed"}
  /\ UNCHANGED <<streamVars, cpc, spc, dialed, app, kinds>>

\* A read from the target returns more than MAX_PACKET_SIZE bytes (the buffer
\* holds up to 256 KB): encrypt_packet raises and the task ends.
ServerRelayBurst ==
  /\ MayBurst
  /\ spc \in Relaying
  /\ target = "open"
  /\ AtAwait("up")
  /\ spc' = "closing"
  /\ UNCHANGED <<streamVars, cpc, dialed, app, target, kinds>>

\* Faulty: a tunnel is given up when the client has nothing to send.
ServerGiveUpIdle ==
  /\ spc \in Relaying
  /\ AtAwait("up")
  /\ spc' = "closing"
  /\ UNCHANGED <<streamVars, cpc, dialed, app, target, kinds>>

\* The task that reads the tunnel ends and takes the other one with it.
ServerGiveUp ==
  /\ spc \in Relaying
  /\ Over("up")
  /\ spc' = "closing"
  /\ UNCHANGED <<streamVars, cpc, dialed, app, target, kinds>>

\* A relay task finds the target gone: the read returns b"" or raises, which is
\* noticed when the last write to the client is through, or a write or a drain
\* raises.
ServerTargetGone ==
  /\ spc \in Relaying
  /\ target # "open"
  /\ AtAwait("up")
  /\ spc' = "closing"
  /\ UNCHANGED <<streamVars, cpc, dialed, app, target, kinds>>

\* close: the target's connection first, if there is one; only when that is
\* flushed and closed ...
ServerClose ==
  /\ spc = "closing"
  /\ dialed
  /\ dialed' = FALSE
  /\ spc' = "parting"
  /\ UNCHANGED <<streamVars, cpc, app, target, kinds>>

\* Faulty: close leaves the connection to the client open.
ServerHangUpTargetOnly ==
  /\ \/ spc = "closing" /\ ~dialed
     \/ spc = "parting"
  /\ spc' = "hangup"
  /\ UNCHANGED <<streamVars, cpc, dialed, app, target, kinds>>

\* ... the tunnel's ...
ServerHangUp ==
  /\ \/ spc = "closing" /\ ~dialed
     \/ spc = "parting"
  /\ CloseSender("down")
  /\ spc' = "hangup"
  /\ UNCHANGED <<cpc, dialed, app, target, kinds>>

\* ... which is waited for as well.
ServerHungUp ==
  /\ spc = "hangup"
  /\ spc' = "closed"
  /\ UNCHANGED <<streamVars, cpc, dialed, app, target, kinds>>

Server ==
  \/ ServerHandshake \/ ServerReceive \/ ServerAdmit \/ ServerConnect
  \/ ServerRefuse \/ ServerReplyFails \/ ServerGiveUp \/ ServerClose

-----------------------------------------------------------------------------
\* The connection is lost for the receiver of a direction: a close while data
\* was unread, or a network that gave up.
ConnectionLost(s) ==
  /\ Reset(s)
  /\ UNCHANGED controlVars

Environment ==
  \/ AppOver \/ ClientAppGone \/ TargetOver \/ ServerTargetGone
  \/ ClientRelayUp \/ ClientRelayBurst \/ ServerRelayDown \/ ServerRelayBurst
  \/ ServerHandshakeFails
  \/ ConnectionLost("up") \/ ConnectionLost("down")

\* The waits for a peer to take what was written to it.
Waits ==
  \/ ClientDrained \/ ClientHungUp \/ ClientParted
  \/ ServerDrained \/ ServerHangUp \/ ServerHungUp

TunnelNext == Client \/ Server \/ Environment \/ Waits

TunnelSpec == TunnelInit /\ [][TunnelNext]_tunnelVars

\* Nothing is left to flush in a direction: its receiver has read all of it, or
\* the connection is lost.
Flushed(s) == arrived[s] = 3 * sent[s] \/ \E t \in Streams : run[t] = "lost"

\* Nothing but the control packet was written to the target.
TargetUntouched == Len(out["up"]) <= 1

\* Both event loops run what is ready, TCP delivers what was written, and the
\* connect timeout bounds dialing.  A close returns once there is nothing left to
\* flush, or the other side is gone.  The application and the target owe nothing:
\* nobody has to send data, to close, or to read what was written to him.
FairTunnelSpec ==
  /\ TunnelSpec
  /\ WF_tunnelVars(Client)
  /\ WF_tunnelVars(Server)
  /\ WF_tunnelVars((spc = "closing" \/ TargetUntouched) /\ ServerHangUp)
  /\ WF_tunnelVars((Flushed("up") \/ spc = "closed") /\ ClientHungUp)
  /\ WF_tunnelVars((Flushed("down") \/ cpc \in {"parting", "closed"}) /\ ServerHungUp)

-----------------------------------------------------------------------------
\* The client relays, and the server takes data off the tunnel, only on a
\* tunnel whose request was admitted and whose target was reached: the reply
\* the client acted on was "ok", and the server had dialed before it (connect,
\* _handle_request and _handle_connect).
GrantFirst ==
  /\ Len(out["up"]) > 1 => kinds[1] = "ok"
  /\ cpc \in Relaying => kinds[1] = "ok"
  /\ cpc \in Relaying /\ spc \notin Leaving => dialed

\* No reply reaches the application as data, and no data is taken for a reply:
\* "down" carries one reply, first, and nothing after a refusal (the error
\* handlers of handle run _send_error_response at most once, never after the
\* success response opened the relay).
OneReplyFirst ==
  \A i \in 1 .. Len(kinds) :
    /\ (i = 1) <=> (kinds[i] # "data")
    /\ i > 1 => kinds[1] = "ok"

\* _read_encrypted on the server drops whatever follows the request in its
\* buffer.  Nothing can be lost by that: the client writes no data before it
\* has the reply, and the server replies only after it took the request.
RequestAlone ==
  spc \in {"handshake", "request", "dialing"} => sent["up"] <= 1

\* So no piece of an upload is ever dropped, not even by a read that returns all
\* there is, and a server whose relay reads end-of-file has passed on all of it.
UploadComplete ==
  /\ NothingDroppedFrom("up")
  /\ run["up"] = "ended" => Len(out["up"]) = sent["up"]

\* When the client's relay reads end-of-file from the tunnel, the application has
\* got all the server relayed, and there is a cause beyond the server: the target
\* ended its stream or broke, or the server had lost the client's direction
\* (_relay and close on both sides, which end a tunnel the same way for every
\* reason).  What the client cannot tell is which: a target that broke in the
\* middle of a download looks like one that was done.
EndHasCause ==
  run["down"] = "ended" =>
    /\ target # "open" \/ run["up"] \in {"failed", "lost"}
    /\ Len(out["down"]) = sent["down"]

\* Every time the server waits for the target to read, and the client for the
\* application, the wait is over at last.  The code sets no bound to it.
PeersRead ==
  /\ []<>(spc \notin {"draining", "parting"})
  /\ []<>(cpc \notin {"draining", "parting"})

\* If the peers read, a packet that was written is handed on, or the tunnel comes
\* down: no packet is stuck in a buffer of a tunnel that stays open (the inner
\* loops of the relay tasks, which go on until the buffer holds no whole packet).
DeliveredOrClosed ==
  PeersRead =>
    \A s \in Streams : \A n \in 1 .. MaxPackets :
      sent[s] >= n ~> Len(out[s]) >= n \/ (eof["up"] /\ eof["down"])

\* Each side has closed the tunnel, over a connection that is not lost, and waits
\* for the other to read what is still on its way, which the other does no more.
WaitForEachOther ==
  /\ cpc = "hangup" /\ ~Flushed("up")
  /\ spc = "hangup" /\ ~Flushed("down")

\* If the peers read, a tunnel does not stay half open: once one side has closed
\* it, the other does so, and close returns on both, unless each is left with
\* data the other no longer reads (relay tasks that wait for both directions, a
\* cancelled task, and the waits of the two close methods for one another).
BothSidesClose ==
  PeersRead =>
    (cpc = "hangup" \/ spc = "hangup"
       ~> (cpc = "closed" /\ spc = "closed") \/ WaitForEachOther)

\* A request is answered or the attempt fails; connect does not hang, whatever
\* the target and the application do.
RequestSettled == cpc = "requested" ~> cpc = "relay" \/ eof["up"]
===============================================================================
