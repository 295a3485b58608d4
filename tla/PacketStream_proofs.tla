-------------------------- MODULE PacketStream_proofs --------------------------
(***************************************************************************)
(* Proofs about one direction of a tunnel, for any set of directions, any  *)
(* number of packets and any way the network may cut the stream.           *)
(***************************************************************************)
EXTENDS PacketStream, TLAPS

\* Every variable keeps its type, in every behaviour of the receiver and the
\* sender of a direction.
THEOREM TypeCorrect == Spec => []PacketStreamType
<1>1. Init => PacketStreamType
  BY DEF Init, PacketStreamType
<1>2. PacketStreamType /\ [Next]_streamVars => PacketStreamType'
  <2> SUFFICES ASSUME PacketStreamType, [Next]_streamVars
               PROVE  PacketStreamType'
    OBVIOUS
  <2> USE DEF PacketStreamType
  <2>1. ASSUME NEW s \in Streams, Send(s) PROVE PacketStreamType'
    BY <2>1 DEF Send
  <2>2. ASSUME NEW s \in Streams, CloseSender(s) PROVE PacketStreamType'
    BY <2>2 DEF CloseSender
  <2>3. ASSUME NEW s \in Streams, Read(s) PROVE PacketStreamType'
    <3>1. PICK k \in 1 .. (3 * sent[s] - arrived[s]) :
            /\ arrived' = [arrived EXCEPT ![s] = arrived[s] + k]
            /\ buf' = [buf EXCEPT ![s] = buf[s] + k]
      BY <2>3 DEF Read
    <3>2. arrived[s] + k \in Nat /\ buf[s] + k \in Nat
      OBVIOUS
    <3>3. /\ run' = [run EXCEPT ![s] = "parsing"]
          /\ UNCHANGED <<sent, eof, nonce, phase, out>>
      BY <2>3 DEF Read
    <3> QED
      BY <3>1, <3>2, <3>3
  <2>4. ASSUME NEW s \in Streams, ReadEof(s) PROVE PacketStreamType'
    BY <2>4 DEF ReadEof
  <2>5. ASSUME NEW s \in Streams, ParseShort(s) PROVE PacketStreamType'
    BY <2>5 DEF ParseShort
  <2>6. ASSUME NEW s \in Streams, ParseNoPayload(s) PROVE PacketStreamType'
    BY <2>6 DEF ParseNoPayload
  <2>7. ASSUME NEW s \in Streams, ParseInvalidTag(s) PROVE PacketStreamType'
    BY <2>7 DEF ParseInvalidTag
  <2>8. ASSUME NEW s \in Streams, ParsePacket(s) PROVE PacketStreamType'
    <3>1. PacketAt(s) + 1 \in Nat
      <4>1. Start(s) \in Int /\ 2 * PacketAt(s) = nonce[s]
        BY <2>8 DEF ParsePacket, TagValid, Start
      <4>2. PacketAt(s) \in Int
        BY <4>1 DEF PacketAt
      <4> QED
        BY <4>1, <4>2
    <3>2. out' \in [Streams -> Seq(Nat)]
      BY <2>8, <3>1 DEF ParsePacket
    <3>3. nonce' \in [Streams -> Nat] /\ UNCHANGED <<sent, eof, arrived>>
      BY <2>8 DEF ParsePacket
    <3>4. CASE phase[s] = "head"
      <4>1. /\ buf' = [buf EXCEPT ![s] = 0]
            /\ run' = [run EXCEPT ![s] = "reading"]
            /\ phase' = [phase EXCEPT ![s] = "relay"]
        BY <2>8, <3>4 DEF ParsePacket
      <4> QED
        BY <3>2, <3>3, <4>1
    <3>5. CASE phase[s] # "head"
      <4>1. /\ buf' = [buf EXCEPT ![s] = buf[s] - 3]
            /\ buf[s] - 3 \in Nat
            /\ UNCHANGED <<run, phase>>
        BY <2>8, <3>5 DEF ParsePacket
      <4>2. buf' \in [Streams -> Nat]
        BY <4>1
      <4> QED
        BY <3>2, <3>3, <4>1, <4>2
    <3> QED
      BY <3>4, <3>5
  <2>9. ASSUME NEW s \in Streams, Reset(s) PROVE PacketStreamType'
    BY <2>9 DEF Reset
  <2>10. CASE UNCHANGED streamVars
    BY <2>10 DEF streamVars
  <2> QED
    BY <2>1, <2>2, <2>3, <2>4, <2>5, <2>6, <2>7, <2>8, <2>9, <2>10
       DEF Next, Receive, Parse
<1> QED
  BY <1>1, <1>2, PTL DEF Spec

-----------------------------------------------------------------------------
\* A packet decrypts only if it is the one after those handed on: its nonce
\* gives away its number.
LEMMA NextPacketOnly ==
  ASSUME NEW s \in Streams, PacketStreamType, NonceInStep, TagValid(s)
  PROVE  /\ PacketAt(s) = Len(out[s])
         /\ nonce[s] = 2 * Len(out[s])
         /\ Start(s) = 3 * Len(out[s])
<1>1. /\ Len(out[s]) \in Nat
      /\ nonce[s] \in {2 * Len(out[s]), 2 * Len(out[s]) + 1}
  BY DEF NonceInStep, PacketStreamType
<1>2. Start(s) \in Int
  BY DEF Start, PacketStreamType
<1>3. PacketAt(s) \in Int /\ Start(s) = 3 * PacketAt(s)
  BY <1>2 DEF TagValid, PacketAt
<1> QED
  BY <1>1, <1>3 DEF TagValid

\* What ParsePacket does to the packets handed on: it appends the next one.
LEMMA ParsePacketAppends ==
  ASSUME NEW s \in Streams, PacketStreamType, NonceInStep, ParsePacket(s)
  PROVE  /\ out' = [out EXCEPT ![s] = Append(out[s], Len(out[s]) + 1)]
         /\ nonce' = [nonce EXCEPT ![s] = 2 * (Len(out[s]) + 1)]
<1>1. PacketAt(s) = Len(out[s]) /\ nonce[s] = 2 * Len(out[s])
  BY NextPacketOnly DEF ParsePacket
<1>2. nonce[s] + 2 = 2 * (Len(out[s]) + 1)
  BY <1>1 DEF PacketStreamType
<1> QED
  BY <1>1, <1>2 DEF ParsePacket

\* The receiver never hands on a packet out of order, twice or after a gap,
\* whatever the reads are and whatever the head drops.
THEOREM OrderCorrect == Spec => [](NonceInStep /\ InOrder)
<1>1. Init => NonceInStep /\ InOrder
  BY DEF Init, NonceInStep, InOrder
<1>2. PacketStreamType /\ NonceInStep /\ InOrder /\ [Next]_streamVars
        => (NonceInStep /\ InOrder)'
  <2> SUFFICES ASSUME PacketStreamType, NonceInStep, InOrder, [Next]_streamVars
               PROVE  (NonceInStep /\ InOrder)'
    OBVIOUS
  <2>1. CASE UNCHANGED <<out, nonce>>
    BY <2>1 DEF NonceInStep, InOrder
  <2>2. ASSUME NEW s \in Streams, ParseNoPayload(s)
        PROVE  (NonceInStep /\ InOrder)'
    <3>1. nonce[s] = 2 * Len(out[s])
      BY <2>2, NextPacketOnly DEF ParseNoPayload
    <3>2. nonce' = [nonce EXCEPT ![s] = 2 * Len(out[s]) + 1] /\ UNCHANGED out
      BY <2>2, <3>1 DEF ParseNoPayload
    <3> QED
      BY <3>2 DEF NonceInStep, InOrder, PacketStreamType
  <2>3. ASSUME NEW s \in Streams, ParsePacket(s)
        PROVE  (NonceInStep /\ InOrder)'
    <3>1. /\ out' = [out EXCEPT ![s] = Append(out[s], Len(out[s]) + 1)]
          /\ nonce' = [nonce EXCEPT ![s] = 2 * (Len(out[s]) + 1)]
      BY <2>3, ParsePacketAppends
    <3>2. /\ out[s] \in Seq(Nat) /\ Len(out[s]) + 1 \in Nat
          /\ Len(out'[s]) = Len(out[s]) + 1
          /\ nonce'[s] = 2 * Len(out'[s])
      BY <3>1 DEF PacketStreamType
    <3>3. \A i \in 1 .. Len(out'[s]) : out'[s][i] = i
      BY <3>1, <3>2 DEF InOrder, PacketStreamType
    <3>4. \A t \in Streams \ {s} : out'[t] = out[t] /\ nonce'[t] = nonce[t]
      BY <3>1 DEF PacketStreamType
    <3> QED
      BY <3>2, <3>3, <3>4 DEF NonceInStep, InOrder
  <2> QED
    BY <2>1, <2>2, <2>3
       DEF Next, Receive, Parse, Send, CloseSender, Read, ReadEof, ParseShort,
           ParseInvalidTag, Reset, streamVars
<1> QED
  BY <1>1, <1>2, TypeCorrect, PTL DEF Spec

-----------------------------------------------------------------------------
\* As long as the receiver of a direction has no more than the control packet in
\* front of it, a step drops nothing: what arrived is what was handed on and what
\* the buffer holds.
LEMMA NothingDroppedFromStep ==
  ASSUME PacketStreamType, NonceInStep, [Next]_streamVars,
         NEW t \in Streams, NothingDroppedFrom(t),
         phase'[t] = "head" => arrived'[t] <= 3
  PROVE  NothingDroppedFrom(t)'
<1>t. Len(out[t]) \in Nat /\ sent[t] \in Nat /\ arrived[t] \in Nat /\ buf[t] \in Nat
  BY DEF PacketStreamType
<1>0. CASE UNCHANGED <<sent[t], arrived[t], buf[t], phase[t], run[t], out[t]>>
  BY <1>t, <1>0 DEF NothingDroppedFrom
<1>1. CASE UNCHANGED streamVars
  BY <1>0, <1>1 DEF streamVars
<1>2. ASSUME NEW s \in Streams, Send(s) PROVE NothingDroppedFrom(t)'
  <2>1. /\ sent'[t] \in {sent[t], sent[t] + 1}
        /\ UNCHANGED <<arrived, buf, phase, run, out>>
    BY <1>2 DEF Send, PacketStreamType
  <2> QED
    BY <1>t, <2>1 DEF NothingDroppedFrom
<1>3. ASSUME NEW s \in Streams, CloseSender(s) PROVE NothingDroppedFrom(t)'
  BY <1>0, <1>3 DEF CloseSender
<1>4. ASSUME NEW s \in Streams, Read(s) PROVE NothingDroppedFrom(t)'
  <2>1. PICK k \in 1 .. (3 * sent[s] - arrived[s]) :
          /\ arrived' = [arrived EXCEPT ![s] = arrived[s] + k]
          /\ buf' = [buf EXCEPT ![s] = buf[s] + k]
    BY <1>4 DEF Read
  <2>2. run' = [run EXCEPT ![s] = "parsing"] /\ UNCHANGED <<sent, phase, out>>
    BY <1>4 DEF Read
  <2>3. CASE s # t
    BY <1>0, <2>1, <2>2, <2>3 DEF PacketStreamType
  <2>4. CASE s = t
    <3>1. /\ arrived'[t] = arrived[t] + k /\ buf'[t] = buf[t] + k
          /\ run'[t] = "parsing"
      BY <2>1, <2>2, <2>4 DEF PacketStreamType
    <3>2. k \in Nat /\ arrived[t] + k <= 3 * sent[t]
      BY <1>t, <2>1, <2>4
    <3> QED
      BY <1>t, <2>2, <3>1, <3>2 DEF NothingDroppedFrom
  <2> QED
    BY <2>3, <2>4
<1>5. ASSUME NEW s \in Streams, ReadEof(s) PROVE NothingDroppedFrom(t)'
  <2>1. /\ run'[t] = "reading" => run[t] = "reading"
        /\ UNCHANGED <<sent, arrived, buf, phase, out>>
    BY <1>5 DEF ReadEof, PacketStreamType
  <2> QED
    BY <1>t, <2>1 DEF NothingDroppedFrom
<1>6. ASSUME NEW s \in Streams, ParseShort(s) PROVE NothingDroppedFrom(t)'
  <2>1. /\ run'[t] = "reading" => run[t] = "reading" \/ buf[t] < 2
        /\ UNCHANGED <<sent, arrived, buf, phase, out>>
    BY <1>6 DEF ParseShort, PacketStreamType
  <2> QED
    BY <1>t, <2>1 DEF NothingDroppedFrom
<1>7. ASSUME NEW s \in Streams, ParseNoPayload(s) PROVE NothingDroppedFrom(t)'
  <2>1. /\ run'[t] = "reading" => run[t] = "reading" \/ buf[t] = 2
        /\ UNCHANGED <<sent, arrived, buf, phase, out>>
    BY <1>7 DEF ParseNoPayload, PacketStreamType
  <2> QED
    BY <1>t, <2>1 DEF NothingDroppedFrom
<1>8. ASSUME NEW s \in Streams, ParseInvalidTag(s) \/ Reset(s)
      PROVE  NothingDroppedFrom(t)'
  <2>1. /\ run'[t] = "reading" => run[t] = "reading"
        /\ UNCHANGED <<sent, arrived, buf, phase, out>>
    BY <1>8 DEF ParseInvalidTag, Reset, PacketStreamType
  <2> QED
    BY <1>t, <2>1 DEF NothingDroppedFrom
<1>9. ASSUME NEW s \in Streams, ParsePacket(s) PROVE NothingDroppedFrom(t)'
  <2>1. /\ out' = [out EXCEPT ![s] = Append(out[s], Len(out[s]) + 1)]
        /\ UNCHANGED <<sent, arrived>>
        /\ run[s] = "parsing" /\ buf[s] >= 3
    BY <1>9, ParsePacketAppends DEF ParsePacket
  <2>2. CASE s # t
    <3>1. buf'[t] = buf[t] /\ run'[t] = run[t] /\ phase'[t] = phase[t]
      BY <1>9, <2>2 DEF ParsePacket, PacketStreamType
    <3>2. out'[t] = out[t]
      BY <2>1, <2>2 DEF PacketStreamType
    <3> QED
      BY <1>0, <2>1, <3>1, <3>2
  <2>3. CASE s = t
    <3>1. Len(out'[t]) = Len(out[t]) + 1
      BY <2>1, <2>3 DEF PacketStreamType
    <3>0. arrived'[t] = arrived[t] /\ sent'[t] = sent[t]
      BY <2>1
    <3>2. CASE phase[t] = "head"
      <4>1. buf'[t] = 0 /\ phase'[t] = "relay"
        BY <1>9, <2>3, <3>2 DEF ParsePacket, PacketStreamType
      <4>2. buf[t] = 3 /\ Len(out[t]) = 0 /\ arrived[t] = 3
        BY <1>t, <2>1, <2>3, <3>2 DEF NothingDroppedFrom
      <4>3. arrived'[t] = 3 * Len(out'[t]) + buf'[t]
        BY <3>0, <3>1, <4>1, <4>2
      <4> QED
        BY <1>t, <3>0, <4>1, <4>3 DEF NothingDroppedFrom
    <3>3. CASE phase[t] # "head"
      <4>1. buf'[t] = buf[t] - 3 /\ run'[t] = "parsing" /\ phase'[t] = phase[t]
        BY <1>9, <2>1, <2>3, <3>3 DEF ParsePacket, PacketStreamType
      <4>2. arrived'[t] = 3 * Len(out'[t]) + buf'[t]
        <5>1. arrived[t] = 3 * Len(out[t]) + buf[t]
          BY <1>t DEF NothingDroppedFrom
        <5>2. 3 * Len(out'[t]) = 3 * Len(out[t]) + 3
          BY <1>t, <3>1
        <5> QED
          BY <1>t, <3>0, <4>1, <5>1, <5>2
      <4> QED
        BY <1>t, <3>0, <3>3, <4>1, <4>2 DEF NothingDroppedFrom
    <3> QED
      BY <3>2, <3>3
  <2> QED
    BY <2>2, <2>3
<1> QED
  BY <1>1, <1>2, <1>3, <1>4, <1>5, <1>6, <1>7, <1>8, <1>9
     DEF Next, Receive, Parse

\* A step of a receiver whose reads do not overrun the control packet.
LEMMA NothingDroppedStep ==
  ASSUME ~MayOverrunHead, PacketStreamType, NonceInStep, NothingDropped,
         [Next]_streamVars
  PROVE  NothingDropped'
<1> SUFFICES ASSUME NEW t \in Streams
             PROVE  NothingDroppedFrom(t)'
  BY DEF NothingDropped
<1>1. NothingDroppedFrom(t)
  BY DEF NothingDropped
<1>2. phase'[t] = "head" => arrived'[t] <= 3
  <2>1. ASSUME NEW s \in Streams, Read(s), phase'[t] = "head"
        PROVE  arrived'[t] <= 3
    <3>1. PICK k \in 1 .. (3 * sent[s] - arrived[s]) :
            ChunkAllowed(s, k) /\ arrived' = [arrived EXCEPT ![s] = arrived[s] + k]
      BY <2>1 DEF Read
    <3>2. phase[t] = "head"
      BY <2>1 DEF Read
    <3> QED
      BY <1>1, <3>1, <3>2 DEF ChunkAllowed, NothingDroppedFrom, PacketStreamType
  <2>2. ASSUME NEW s \in Streams, ParsePacket(s), phase'[t] = "head"
        PROVE  phase[t] = "head" /\ UNCHANGED arrived
    <3>1. CASE phase[s] = "head"
      BY <2>2, <3>1 DEF ParsePacket, PacketStreamType
    <3>2. CASE phase[s] # "head"
      BY <2>2, <3>2 DEF ParsePacket
    <3> QED
      BY <3>1, <3>2
  <2>3. CASE UNCHANGED <<arrived, phase>>
    BY <1>1, <2>3 DEF NothingDroppedFrom
  <2> QED
    BY <1>1, <2>1, <2>2, <2>3
       DEF Next, Receive, Parse, Send, CloseSender, ReadEof, ParseShort, ParseNoPayload,
           ParseInvalidTag, Reset, streamVars, NothingDroppedFrom
<1> QED
  BY <1>1, <1>2, NothingDroppedFromStep

\* Neither direction loses anything it read, as long as no read overruns the
\* control packet: whatever else the network does with the stream.
THEOREM NothingDroppedCorrect ==
  ASSUME ~MayOverrunHead
  PROVE  Spec => []NothingDropped
<1>1. Init => NothingDropped
  <2> SUFFICES ASSUME Init, NEW s \in Streams
               PROVE  NothingDroppedFrom(s)
    BY DEF NothingDropped
  <2>1. /\ sent[s] = 0 /\ arrived[s] = 0 /\ buf[s] = 0 /\ out[s] = <<>>
    BY DEF Init
  <2>2. Len(out[s]) = 0
    BY <2>1
  <2> QED
    BY <2>1, <2>2 DEF NothingDroppedFrom
<1>2. PacketStreamType /\ NonceInStep /\ NothingDropped /\ [Next]_streamVars
        => NothingDropped'
  BY NothingDroppedStep
<1> QED
  BY <1>1, <1>2, TypeCorrect, OrderCorrect, PTL DEF Spec

\* A receiver that has come to end-of-file has handed on all that was written, and
\* no more can be.
EndComplete(s) == run[s] = "ended" => eof[s] /\ Len(out[s]) = sent[s]

LEMMA EndCompleteStep ==
  ASSUME PacketStreamType, [Next]_streamVars,
         NEW t \in Streams, NothingDroppedFrom(t), EndComplete(t)
  PROVE  EndComplete(t)'
<1> SUFFICES ASSUME run'[t] = "ended"
             PROVE  eof'[t] /\ Len(out'[t]) = sent'[t]
  BY DEF EndComplete
<1>1. ASSUME NEW s \in Streams, ReadEof(s)
      PROVE  eof'[t] /\ Len(out'[t]) = sent'[t]
  <2>1. UNCHANGED <<sent, eof, out>>
    BY <1>1 DEF ReadEof
  <2>2. CASE run[t] = "ended"
    BY <2>1, <2>2 DEF EndComplete
  <2>3. CASE run[t] # "ended"
    <3>1. run[t] = "reading" /\ eof[t] /\ arrived[t] = 3 * sent[t]
      BY <1>1, <2>3 DEF ReadEof, PacketStreamType
    <3>2. arrived[t] = 3 * Len(out[t]) + buf[t] /\ buf[t] <= 2
      BY <3>1 DEF NothingDroppedFrom
    <3>3. Len(out[t]) \in Nat /\ buf[t] \in Nat /\ sent[t] \in Nat
      BY DEF PacketStreamType
    <3>4. Len(out[t]) = sent[t]
      BY <3>1, <3>2, <3>3
    <3> QED
      BY <2>1, <3>1, <3>4
  <2> QED
    BY <2>2, <2>3
<1>2. ASSUME NEW s \in Streams, Send(s) \/ CloseSender(s)
      PROVE  eof'[t] /\ Len(out'[t]) = sent'[t]
  <2>1. /\ run[t] = "ended" /\ eof[t]
        /\ UNCHANGED out
        /\ eof'[t] /\ sent'[t] = sent[t]
    BY <1>2 DEF Send, CloseSender, PacketStreamType, EndComplete
  <2> QED
    BY <1>2, <2>1 DEF EndComplete
<1>3. ASSUME NEW s \in Streams, Read(s) \/ Parse(s) \/ Reset(s)
      PROVE  eof'[t] /\ Len(out'[t]) = sent'[t]
  <2>1. UNCHANGED <<sent, eof>>
    BY <1>3 DEF Read, Parse, ParseShort, ParseNoPayload, ParseInvalidTag,
                ParsePacket, Reset
  <2>2. run[t] = "ended" /\ out'[t] = out[t]
    BY <1>3 DEF Read, Parse, ParseShort, ParseNoPayload, ParseInvalidTag,
                ParsePacket, Reset, PacketStreamType
  <2> QED
    BY <2>1, <2>2 DEF EndComplete
<1>4. CASE UNCHANGED streamVars
  BY <1>4 DEF streamVars, EndComplete
<1> QED
  BY <1>1, <1>2, <1>3, <1>4 DEF Next, Receive

\* A relay that ends at end-of-file has handed on all its peer wrote, for every
\* way of cutting the stream that leaves the control packet alone.
THEOREM CompleteCorrect ==
  ASSUME ~MayOverrunHead
  PROVE  Spec => []CleanEndComplete
<1> DEFINE EndInv == \A s \in Streams : EndComplete(s)
<1>1. Init => EndInv
  BY DEF Init, EndComplete
<1>2. PacketStreamType /\ NothingDropped /\ EndInv /\ [Next]_streamVars => EndInv'
  BY EndCompleteStep DEF NothingDropped
<1>3. EndInv => CleanEndComplete
  BY DEF CleanEndComplete, EndComplete
<1> QED
  BY <1>1, <1>2, <1>3, TypeCorrect, NothingDroppedCorrect, PTL DEF Spec

\* One step of a direction is one step of the abstract pipe, or none.
LEMMA PipeStep ==
  ASSUME ~MayOverrunHead, PacketStreamType, NonceInStep, NothingDropped,
         [Next]_streamVars
  PROVE  [Pipe!PipeNext]_(Pipe!pipeVars)
<1> DEFINE handedOn == [s \in Streams |-> Len(out[s])]
<1>1. CASE UNCHANGED streamVars
  BY <1>1 DEF streamVars, Pipe!pipeVars, PipeState
<1>2. ASSUME NEW s \in Streams, Send(s) PROVE Pipe!PipeNext
  <2>1. Pipe!Write(s)
    BY <1>2 DEF Send, Pipe!Write, PipeState
  <2> QED
    BY <2>1 DEF Pipe!PipeNext
<1>3. ASSUME NEW s \in Streams, CloseSender(s) PROVE Pipe!PipeNext
  <2>1. Pipe!Close(s)
    BY <1>3 DEF CloseSender, Pipe!Close, PipeState
  <2> QED
    BY <2>1 DEF Pipe!PipeNext
<1>4. ASSUME NEW s \in Streams, Read(s) \/ ParseShort(s) \/ ParseNoPayload(s)
      PROVE  UNCHANGED Pipe!pipeVars
  <2>1. UNCHANGED <<sent, eof, out>>
    BY <1>4 DEF Read, ParseShort, ParseNoPayload
  <2>2. \A t \in Streams : PipeState'[t] = PipeState[t]
    BY <1>4 DEF Read, ParseShort, ParseNoPayload, PipeState, PacketStreamType
  <2> QED
    BY <2>1, <2>2 DEF Pipe!pipeVars, PipeState
<1>5. ASSUME NEW s \in Streams, ReadEof(s) PROVE Pipe!PipeNext
  <2>1. UNCHANGED <<sent, eof, out>> /\ run[s] = "reading"
    BY <1>5 DEF ReadEof
  <2>2. CASE phase[s] = "head"
    <3>1. run' = [run EXCEPT ![s] = "failed"]
      BY <1>5, <2>2 DEF ReadEof
    <3>2. PipeState' = [PipeState EXCEPT ![s] = "broken"] /\ PipeState[s] = "open"
      BY <2>1, <3>1 DEF PipeState, PacketStreamType
    <3>3. Pipe!Break(s)
      BY <2>1, <3>2 DEF Pipe!Break
    <3> QED
      BY <3>3 DEF Pipe!PipeNext
  <2>3. CASE phase[s] # "head"
    <3>1. run' = [run EXCEPT ![s] = "ended"]
      BY <1>5, <2>3 DEF ReadEof
    <3>2. PipeState' = [PipeState EXCEPT ![s] = "done"] /\ PipeState[s] = "open"
      BY <2>1, <3>1 DEF PipeState, PacketStreamType
    <3>3. eof[s] /\ Len(out[s]) = sent[s]
      <4>1. eof[s] /\ arrived[s] = 3 * sent[s]
        BY <1>5 DEF ReadEof
      <4>2. arrived[s] = 3 * Len(out[s]) + buf[s] /\ buf[s] <= 2
        BY <2>1 DEF NothingDropped, NothingDroppedFrom
      <4>3. Len(out[s]) \in Nat /\ buf[s] \in Nat /\ sent[s] \in Nat
        BY DEF PacketStreamType
      <4> QED
        BY <4>1, <4>2, <4>3
    <3>4. Pipe!Finish(s)
      BY <2>1, <3>2, <3>3 DEF Pipe!Finish
    <3> QED
      BY <3>4 DEF Pipe!PipeNext
  <2> QED
    BY <2>2, <2>3
<1>6. ASSUME NEW s \in Streams, ParseInvalidTag(s) \/ Reset(s)
      PROVE  Pipe!PipeNext
  <2>1. /\ UNCHANGED <<sent, eof, out>>
        /\ run[s] \in {"reading", "parsing"}
        /\ \/ run' = [run EXCEPT ![s] = "failed"]
           \/ run' = [run EXCEPT ![s] = "lost"]
    BY <1>6 DEF ParseInvalidTag, Reset
  <2>2. PipeState' = [PipeState EXCEPT ![s] = "broken"] /\ PipeState[s] = "open"
    <3>1. run'[s] \in {"failed", "lost"} /\ \A t \in Streams \ {s} : run'[t] = run[t]
      BY <2>1 DEF PacketStreamType
    <3> QED
      BY <2>1, <3>1 DEF PipeState
  <2>3. Pipe!Break(s)
    BY <2>1, <2>2 DEF Pipe!Break
  <2> QED
    BY <2>3 DEF Pipe!PipeNext
<1>7. ASSUME NEW s \in Streams, ParsePacket(s) PROVE Pipe!PipeNext
  <2>1. /\ UNCHANGED <<sent, eof, arrived>>
        /\ run[s] = "parsing" /\ buf[s] >= 3
        /\ run'[s] \in {"reading", "parsing"}
        /\ \A t \in Streams \ {s} : run'[t] = run[t]
    BY <1>7 DEF ParsePacket, PacketStreamType
  <2>2. PipeState' = PipeState /\ PipeState[s] = "open"
    BY <2>1 DEF PipeState, PacketStreamType
  <2>3. handedOn' = [handedOn EXCEPT ![s] = handedOn[s] + 1]
    <3>1. out' = [out EXCEPT ![s] = Append(out[s], Len(out[s]) + 1)]
      BY <1>7, ParsePacketAppends
    <3>2. Len(out'[s]) = Len(out[s]) + 1 /\ \A t \in Streams \ {s} : out'[t] = out[t]
      BY <3>1 DEF PacketStreamType
    <3> QED
      BY <3>2
  <2>4. handedOn[s] < sent[s]
    <3>1. 3 * Len(out[s]) + buf[s] <= 3 * sent[s]
      BY DEF NothingDropped, NothingDroppedFrom
    <3>2. Len(out[s]) \in Nat /\ buf[s] \in Nat /\ sent[s] \in Nat
      BY DEF PacketStreamType
    <3> QED
      BY <2>1, <3>1, <3>2
  <2>5. Pipe!Deliver(s)
    BY <2>1, <2>2, <2>3, <2>4 DEF Pipe!Deliver
  <2> QED
    BY <2>5 DEF Pipe!PipeNext
<1> QED
  BY <1>1, <1>2, <1>3, <1>4, <1>5, <1>6, <1>7 DEF Next, Receive, Parse

\* Each direction of the tunnel is the abstract pipe: what was written comes
\* out in order, until it breaks, and end-of-file means that all came out.
THEOREM PipeCorrect ==
  ASSUME ~MayOverrunHead
  PROVE  Spec => ImplementsPipe
<1>1. Init => Pipe!PipeInit
  BY DEF Init, Pipe!PipeInit, PipeState
<1>2. PacketStreamType /\ NonceInStep /\ NothingDropped /\ [Next]_streamVars
        => [Pipe!PipeNext]_(Pipe!pipeVars)
  BY PipeStep
<1> QED
  BY <1>1, <1>2, TypeCorrect, OrderCorrect, NothingDroppedCorrect, PTL
     DEF Spec, ImplementsPipe, Pipe!PipeSpec
===============================================================================
