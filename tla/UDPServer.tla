-------------------------------- MODULE UDPServer --------------------------------
(***************************************************************************)
(* UDPServer: every datagram gets a task and a relay socket of its own,    *)
(* which outlive a stop; only the answer needs the server running.         *)
(***************************************************************************)
CONSTANT Datagrams

VARIABLES
  serving,   \* _running, with _transport open
  datagram   \* each datagram's task: "new", "relaying", "answered", "over"

vars == <<serving, datagram>>

Init == serving = FALSE /\ datagram = [d \in Datagrams |-> "new"]

\* A start of a running server raises RuntimeError.
Start == ~serving /\ serving' = TRUE /\ UNCHANGED datagram
Stop == serving /\ serving' = FALSE /\ UNCHANGED datagram

Goes(d, from, to) ==
  datagram[d] = from /\ datagram' = [datagram EXCEPT ![d] = to] /\ UNCHANGED serving

\* Too short, not decrypted, fragmented, without data, or the server has stopped.
ProcessInvalid(d) == Goes(d, "new", "over")
ProcessAndRelay(d) == serving /\ Goes(d, "new", "relaying")

\* A response within the timeout; sending through a closed transport fails.
SendResponse(d) == Goes(d, "relaying", IF serving THEN "answered" ELSE "over")
RelayTimesOut(d) == Goes(d, "relaying", "over")

Next ==
  \/ Start \/ Stop
  \/ \E d \in Datagrams :
       ProcessInvalid(d) \/ ProcessAndRelay(d) \/ SendResponse(d) \/ RelayTimesOut(d)
=============================================================================
