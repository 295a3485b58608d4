---------------------------- MODULE WebSocketHandler ----------------------------
(***************************************************************************)
(* handle_websocket over one connection: the salt, then requests, each     *)
(* served before the next message is read.  _handle_connect and            *)
(* _handle_udp_associate name a ws_adapter that only their caller has:     *)
(* where they use it they raise NameError, after the packet has been       *)
(* encrypted, and their handlers encrypt another one.                      *)
(***************************************************************************)
EXTENDS Naturals, Sequences, FiniteSets

CONSTANT MaxSealed   \* bound on the packets encrypted

VARIABLES
  at,       \* "auth", "salt", "request", "access", "udp access", "dial",
            \* "relay", or "over"
  sealed,   \* packets encrypted: the cipher's nonce
  sent,     \* what was sent to the client, each with its nonce
  gone,     \* the client's side of the WebSocket is closed
  taken     \* (history) chunks read from targets

vars == <<at, sealed, sent, gone, taken>>

Init == at = "auth" /\ sealed = 0 /\ sent = <<>> /\ gone = FALSE /\ taken = 0

Goes(from, to) == at = from /\ at' = to
Silent == UNCHANGED <<sealed, sent, gone, taken>>

\* n packets are encrypted and the last one is sent; to a closed WebSocket
\* sending fails, whichever handler tries.
Reply(n, what) ==
  /\ sealed + n <= MaxSealed
  /\ sealed' = sealed + n
  /\ sent' = IF gone THEN sent
             ELSE Append(sent, [nonce |-> sealed + n - 1, what |-> what])
  /\ UNCHANGED <<gone, taken>>

\* 401, or the WebSocket is prepared.
ValidateAuth ==
  /\ Goes("auth", "over") \/ Goes("auth", "salt")
  /\ Silent

\* The first message is the salt, or too short for it.
Handshake ==
  /\ Goes("salt", "request") \/ Goes("salt", "over")
  /\ Silent

\* A packet that cannot be decrypted ends the connection; a request that cannot
\* be parsed, or of another command, only gets its answer, and when that cannot
\* be sent the next handler encrypts one more and ends the connection, too.
BadMessage ==
  \/ Goes("request", "over") /\ Reply(1, "failure")
  \/ ~gone /\ Goes("request", "request") /\ Reply(1, "failure")
  \/ gone /\ Goes("request", "over") /\ Reply(2, "failure")

Request ==
  /\ Goes("request", "access") \/ Goes("request", "udp access")
  /\ Silent

\* _handle_connect: the refusal is encrypted three times, and the answer to a
\* check that raised twice, before one gets out.
AccessRefused == Goes("access", "request") /\ Reply(3, "failure")
AccessRaises == Goes("access", "request") /\ Reply(2, "failure")
AccessGranted == Goes("access", "dial") /\ Silent

\* _handle_udp_associate: no port and success end like a refusal.
UdpAssociate == Goes("udp access", "request") /\ (Reply(2, "failure") \/ Reply(3, "failure"))

DialFails == Goes("dial", "request") /\ Reply(1, "failure")

\* When the success cannot be sent the target is closed at once.
Dial ==
  /\ Goes("dial", IF gone THEN "request" ELSE "relay")
  /\ Reply(1, "success")

\* relay_to_target is over before it has read anything.  relay_to_client reads a
\* chunk, encrypts it, and fails to send it; gather ends and the target is
\* closed.  What the client sent meanwhile is read as its next request.
RelayChunk ==
  /\ Goes("relay", "request")
  /\ sealed < MaxSealed
  /\ sealed' = sealed + 1
  /\ taken' = taken + 1
  /\ UNCHANGED <<sent, gone>>

TargetEnds == Goes("relay", "request") /\ Silent

\* Nobody reads the WebSocket during a dial or a relay, so it goes unnoticed.
ClientGone ==
  /\ ~gone /\ at # "over"
  /\ gone' = TRUE
  /\ UNCHANGED <<at, sealed, sent, taken>>

ReadClosed ==
  /\ gone
  /\ Goes("salt", "over") \/ Goes("request", "over")
  /\ Silent

Next ==
  \/ ValidateAuth \/ Handshake \/ BadMessage \/ Request
  \/ AccessRefused \/ AccessRaises \/ AccessGranted \/ UdpAssociate
  \/ DialFails \/ Dial \/ RelayChunk \/ TargetEnds
  \/ ClientGone \/ ReadClosed

Spec == Init /\ [][Next]_vars

\* "Data relay between client and target servers": when a relay is over, what was
\* read from the target has been sent to the client that is still there.
RelayDelivers ==
  at = "request" /\ ~gone => Cardinality({i \in DOMAIN sent : sent[i].what = "data"}) = taken
=============================================================================
