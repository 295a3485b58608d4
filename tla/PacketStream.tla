----------------------------- MODULE PacketStream -----------------------------
(***************************************************************************)
(* One direction of a LinkMan tunnel: the packets AEADCipher.encrypt_packet *)
(* writes to a byte stream, and the receiver that reassembles them with    *)
(* AEADCipher.decrypt_packet.  Client and server run the same code: first  *)
(* _read_encrypted takes the control packet (the request, or the reply),   *)
(* then a relay task takes the data packets.                               *)
(*                                                                         *)
(* A packet is three pieces on the wire, the coarsest cut that decides     *)
(* every branch of decrypt_packet: two halves of the sealed length (one    *)
(* alone is "insufficient data for length") and the sealed payload.        *)
(* Packet i occupies pieces 3(i-1)+1 .. 3i, and its length and payload are *)
(* sealed under the nonces 2(i-1) and 2(i-1)+1.  The stream neither loses  *)
(* nor reorders pieces (TCP); where one read() ends is up to the network.  *)
(***************************************************************************)
EXTENDS Integers, Sequences

CONSTANTS
  Streams,         \* the directions, e.g. client to server and back
  MaxPackets,      \* bound on the packets a sender writes
  MaySplit,        \* may a read() end inside a packet?
  MayOverrunHead   \* may the read() that completes the control packet also
                   \* return pieces of the data behind it?

ASSUME PacketStreamAssumption ==
  /\ MaxPackets \in Nat \ {0}
  /\ MaySplit \in BOOLEAN
  /\ MayOverrunHead \in BOOLEAN

VARIABLES
  sent,      \* packets encrypted and written by the sender
  eof,       \* the sender closed its side
  arrived,   \* pieces that read() has returned to the receiver
  buf,       \* pieces in the receiver's local variable "buffer"
  nonce,     \* the receiver's _server_nonce
  phase,     \* "head": in _read_encrypted; "relay": in the relay task
  run,       \* what the receiver's loop is doing
  out        \* packets the receiver decrypted, in order

streamVars == <<sent, eof, arrived, buf, nonce, phase, run, out>>

PacketStreamType ==
  /\ sent \in [Streams -> Nat]
  /\ eof \in [Streams -> BOOLEAN]
  /\ arrived \in [Streams -> Nat]
  /\ buf \in [Streams -> Nat]
  /\ nonce \in [Streams -> Nat]
  /\ phase \in [Streams -> {"head", "relay"}]
  /\ run \in [Streams -> {"reading", "parsing", "failed", "lost", "ended"}]
  /\ out \in [Streams -> Seq(Nat)]

Init ==
  /\ sent = [s \in Streams |-> 0]
  /\ eof = [s \in Streams |-> FALSE]
  /\ arrived = [s \in Streams |-> 0]
  /\ buf = [s \in Streams |-> 0]
  /\ nonce = [s \in Streams |-> 0]
  /\ phase = [s \in Streams |-> "head"]
  /\ run = [s \in Streams |-> "reading"]
  /\ out = [s \in Streams |-> <<>>]

-----------------------------------------------------------------------------
\* Where in the stream the first piece of the receiver's buffer lies.
Start(s) == arrived[s] - buf[s]

\* The pieces after the packet boundary at or before Start(s).
PacketAt(s) == Start(s) \div 3

\* Faulty: no side counts its packets, every one is sealed under one nonce.
TagValidAnyPacket(s) == Start(s) % 3 = 0

\* Does the next length decrypt?  Only if the buffer starts at a packet and
\* the receiver's nonce is the one that packet was sealed under; otherwise the
\* cipher raises InvalidTag.
TagValid(s) == Start(s) % 3 = 0 /\ nonce[s] = 2 * PacketAt(s)

\* The ends of read() the environment allows: a read may always return several
\* whole data packets at once.
ChunkAllowed(s, k) ==
  /\ MaySplit \/ (arrived[s] + k) % 3 = 0
  /\ MayOverrunHead \/ phase[s] = "relay" \/ arrived[s] + k <= 3

-----------------------------------------------------------------------------
\* encrypt_packet and the write of its result.
Send(s) ==
  /\ ~eof[s]
  /\ sent[s] < MaxPackets
  /\ sent' = [sent EXCEPT ![s] = @ + 1]
  /\ UNCHANGED <<eof, arrived, buf, nonce, phase, run, out>>

CloseSender(s) ==
  /\ ~eof[s]
  /\ eof' = [eof EXCEPT ![s] = TRUE]
  /\ UNCHANGED <<sent, arrived, buf, nonce, phase, run, out>>

\* read() returns a chunk, which is appended to the buffer.
Read(s) ==
  /\ run[s] = "reading"
  /\ \E k \in 1 .. (3 * sent[s] - arrived[s]) :
       /\ ChunkAllowed(s, k)
       /\ arrived' = [arrived EXCEPT ![s] = @ + k]
       /\ buf' = [buf EXCEPT ![s] = @ + k]
  /\ run' = [run EXCEPT ![s] = "parsing"]
  /\ UNCHANGED <<sent, eof, nonce, phase, out>>

\* read() returns b"": an error while a control packet is awaited (an
\* incomplete packet, or empty data the caller cannot parse), the regular end
\* of a relay task otherwise, whatever its buffer still holds.
ReadEof(s) ==
  /\ run[s] = "reading"
  /\ eof[s] /\ arrived[s] = 3 * sent[s]
  /\ run' = [run EXCEPT ![s] = IF phase[s] = "head" THEN "failed" ELSE "ended"]
  /\ UNCHANGED <<sent, eof, arrived, buf, nonce, phase, out>>

\* The buffer is empty, or decrypt_packet raises "Insufficient data for
\* length": back to read().
ParseShort(s) ==
  /\ run[s] = "parsing"
  /\ buf[s] < 2
  /\ run' = [run EXCEPT ![s] = "reading"]
  /\ UNCHANGED <<sent, eof, arrived, buf, nonce, phase, out>>

\* Faulty: both nonces of the packet are spent before its payload is there.
ParseNoPayloadSpendsBoth(s) ==
  /\ run[s] = "parsing"
  /\ buf[s] = 2
  /\ TagValid(s)
  /\ nonce' = [nonce EXCEPT ![s] = @ + 2]
  /\ run' = [run EXCEPT ![s] = "reading"]
  /\ UNCHANGED <<sent, eof, arrived, buf, phase, out>>

\* decrypt_packet raises "Insufficient data for payload".  It has decrypted the
\* length and moved the nonce on; the buffer still starts with that length.
ParseNoPayload(s) ==
  /\ run[s] = "parsing"
  /\ buf[s] = 2
  /\ TagValid(s)
  /\ nonce' = [nonce EXCEPT ![s] = @ + 1]
  /\ run' = [run EXCEPT ![s] = "reading"]
  /\ UNCHANGED <<sent, eof, arrived, buf, phase, out>>

\* Faulty: a failed authentication passes for the end of the stream.
ParseInvalidTagEnds(s) ==
  /\ run[s] = "parsing"
  /\ buf[s] >= 2
  /\ ~TagValid(s)
  /\ run' = [run EXCEPT ![s] = "ended"]
  /\ UNCHANGED <<sent, eof, arrived, buf, nonce, phase, out>>

\* decrypt_packet raises InvalidTag, which no caller takes for an incomplete
\* packet: the reader gives up.
ParseInvalidTag(s) ==
  /\ run[s] = "parsing"
  /\ buf[s] >= 2
  /\ ~TagValid(s)
  /\ run' = [run EXCEPT ![s] = "failed"]
  /\ UNCHANGED <<sent, eof, arrived, buf, nonce, phase, out>>

\* Faulty: the check for the payload forgets the payload's own tag.
ParsePacketUnguarded(s) ==
  /\ run[s] = "parsing"
  /\ buf[s] >= 2
  /\ TagValid(s)
  /\ out' = [out EXCEPT ![s] = Append(@, PacketAt(s) + 1)]
  /\ nonce' = [nonce EXCEPT ![s] = @ + 2]
  /\ buf' = [buf EXCEPT ![s] = @ - 3]
  /\ phase' = [phase EXCEPT ![s] = "relay"]
  /\ UNCHANGED <<sent, eof, arrived, run>>

\* Faulty: the relay drops the rest, as _read_encrypted does.
ParsePacketDropsRest(s) ==
  /\ run[s] = "parsing"
  /\ buf[s] >= 3
  /\ TagValid(s)
  /\ out' = [out EXCEPT ![s] = Append(@, PacketAt(s) + 1)]
  /\ nonce' = [nonce EXCEPT ![s] = @ + 2]
  /\ buf' = [buf EXCEPT ![s] = 0]
  /\ run' = [run EXCEPT ![s] = "reading"]
  /\ phase' = [phase EXCEPT ![s] = "relay"]
  /\ UNCHANGED <<sent, eof, arrived>>

\* Faulty: one packet per read, the rest waits for the next read.
ParsePacketOnce(s) ==
  /\ run[s] = "parsing"
  /\ buf[s] >= 3
  /\ TagValid(s)
  /\ out' = [out EXCEPT ![s] = Append(@, PacketAt(s) + 1)]
  /\ nonce' = [nonce EXCEPT ![s] = @ + 2]
  /\ buf' = [buf EXCEPT ![s] = IF phase[s] = "head" THEN 0 ELSE @ - 3]
  /\ run' = [run EXCEPT ![s] = "reading"]
  /\ phase' = [phase EXCEPT ![s] = "relay"]
  /\ UNCHANGED <<sent, eof, arrived>>

\* decrypt_packet returns (payload, rest).  The relay loop goes on with rest;
\* _read_encrypted returns the payload and its local buffer is gone.
ParsePacket(s) ==
  /\ run[s] = "parsing"
  /\ buf[s] >= 3
  /\ TagValid(s)
  /\ out' = [out EXCEPT ![s] = Append(@, PacketAt(s) + 1)]
  /\ nonce' = [nonce EXCEPT ![s] = @ + 2]
  /\ IF phase[s] = "head"
     THEN /\ buf' = [buf EXCEPT ![s] = 0]
          /\ run' = [run EXCEPT ![s] = "reading"]
          /\ phase' = [phase EXCEPT ![s] = "relay"]
     ELSE /\ buf' = [buf EXCEPT ![s] = @ - 3]
          /\ UNCHANGED <<run, phase>>
  /\ UNCHANGED <<sent, eof, arrived>>

\* read() raises: the connection is lost.
Reset(s) ==
  /\ run[s] = "reading"
  /\ run' = [run EXCEPT ![s] = "lost"]
  /\ UNCHANGED <<sent, eof, arrived, buf, nonce, phase, out>>

Parse(s) ==
  \/ ParseShort(s)
  \/ ParseNoPayload(s)
  \/ ParseInvalidTag(s)
  \/ ParsePacket(s)

Receive(s) == Read(s) \/ ReadEof(s) \/ Parse(s)

Next == \E s \in Streams : Send(s) \/ CloseSender(s) \/ Receive(s) \/ Reset(s)

Spec == Init /\ [][Next]_streamVars

-----------------------------------------------------------------------------
\* What the receiver hands on is packet 1, 2, 3, ... with no gap, no repetition
\* and no packet twice, however the reads cut the stream and whatever part of
\* it a caller of decrypt_packet dropped (AEADCipher.decrypt_packet, the loops
\* of _relay_upstream and _relay_downstream, _read_encrypted).
InOrder == \A s \in Streams : \A i \in 1 .. Len(out[s]) : out[s][i] = i

\* A relay task that ends by reading end-of-file, as opposed to an error, has
\* handed on every packet its peer wrote: a closed tunnel is no truncated one.
CleanEndComplete ==
  \A s \in Streams : run[s] = "ended" => Len(out[s]) = sent[s]

\* What decrypt_packet calls incomplete is only that: once the rest of a packet
\* is there, the packet at the head of the buffer decrypts, as long as nothing
\* was dropped before it ("Incomplete packet, continue reading", the relay
\* tasks of both sides).
IncompleteIsResumed ==
  \A s \in Streams :
    /\ run[s] = "parsing" /\ buf[s] >= 3
    /\ arrived[s] = 3 * Len(out[s]) + buf[s]
    => TagValid(s)

\* Why InOrder holds.  A live receiver's nonce is two per packet handed on, or
\* one more once a length was decrypted whose payload is still to come; with a
\* nonce like that the tag check refuses every packet but the next one.
NonceInStep ==
  \A s \in Streams :
    nonce[s] \in {2 * Len(out[s]), 2 * Len(out[s]) + 1}

\* Why CleanEndComplete holds when no read overruns the control packet: nothing
\* is ever dropped, so what arrived is what was handed on plus what the buffer
\* holds, and the buffer holds no whole packet while read() waits.
NothingDroppedFrom(s) ==
  /\ arrived[s] = 3 * Len(out[s]) + buf[s]
  /\ arrived[s] <= 3 * sent[s]
  /\ run[s] = "reading" => buf[s] <= 2
  /\ phase[s] = "head" => arrived[s] <= 3

NothingDropped == \A s \in Streams : NothingDroppedFrom(s)

\* The direction seen by the code above it.
PipeState ==
  [s \in Streams |-> CASE run[s] = "ended" -> "done"
                       [] run[s] \in {"failed", "lost"} -> "broken"
                       [] OTHER -> "open"]

Pipe == INSTANCE PacketPipe WITH
          written <- sent,
          closed <- eof,
          delivered <- [s \in Streams |-> Len(out[s])],
          state <- PipeState

\* Each direction implements the abstract pipe.
ImplementsPipe == Pipe!PipeSpec
===============================================================================
