----------------------------- MODULE Tunnel_proofs -----------------------------
(***************************************************************************)
(* Proofs about one tunnel, for any number of packets, any way the network *)
(* may cut the streams and any read that is too large.                     *)
(***************************************************************************)
EXTENDS Tunnel, PacketStream_proofs

\* A step of the tunnel is a step of one of its directions, or of neither.
LEMMA StreamStep ==
  ASSUME [TunnelNext]_tunnelVars
  PROVE  [Next]_streamVars
<1>s. "up" \in Streams /\ "down" \in Streams
  BY TunnelAssumption
<1>1. CASE UNCHANGED streamVars
  BY <1>1
<1>2. CASE \E s \in Streams : Send(s) \/ CloseSender(s) \/ Receive(s) \/ Reset(s)
  BY <1>2 DEF Next
<1>3. CASE Client
  BY <1>s, <1>1, <1>2, <1>3
     DEF Client, ClientSendSalt, ClientSendRequest, ClientReceive, ClientTakeReply,
         ClientGiveUp, ClientClose
<1>4. CASE Server
  BY <1>s, <1>1, <1>2, <1>4
     DEF Server, ServerHandshake, ServerReceive, ServerAdmit, ServerConnect,
         ServerRefuse, ServerReplyFails, ServerGiveUp, ServerClose, Answer
<1>5. CASE Environment
  BY <1>s, <1>1, <1>2, <1>5
     DEF Environment, AppOver, ClientAppGone, TargetOver, ServerTargetGone,
         ClientRelayUp, ClientRelayBurst, ServerRelayDown, ServerRelayBurst,
         ServerHandshakeFails, ConnectionLost, Answer
<1>6. CASE Waits
  BY <1>s, <1>1, <1>2, <1>6
     DEF Waits, ClientDrained, ClientHungUp, ClientParted, ServerDrained, ServerHangUp,
         ServerHungUp
<1>7. CASE UNCHANGED tunnelVars
  BY <1>1, <1>7 DEF tunnelVars
<1> QED
  BY <1>3, <1>4, <1>5, <1>6, <1>7 DEF TunnelNext

\* Client and server drive their two streams as PacketStream allows, so what is
\* proved of a direction holds in a tunnel.
THEOREM TunnelStreams == TunnelSpec => Spec
<1>1. TunnelInit => Init
  BY DEF TunnelInit
<1>2. [TunnelNext]_tunnelVars => [Next]_streamVars
  BY StreamStep
<1> QED
  BY <1>1, <1>2, PTL DEF TunnelSpec, Spec

\* Whatever either side of a tunnel takes out of it is in order.
THEOREM TunnelInOrder == TunnelSpec => [](NonceInStep /\ InOrder)
BY TunnelStreams, OrderCorrect, PTL

\* Each receiver's nonce is two per packet it handed on, or one more: it never falls
\* out of step with the sender's while its relay goes on.
THEOREM TunnelNonce == TunnelSpec => []NonceInStep
BY TunnelInOrder, PTL

\* When no read overruns the control packet, neither side drops anything it read.
THEOREM TunnelComplete ==
  ASSUME ~MayOverrunHead
  PROVE  TunnelSpec => [](NothingDropped /\ CleanEndComplete)
BY TunnelStreams, NothingDroppedCorrect, CompleteCorrect, PTL

-----------------------------------------------------------------------------
\* The control packet comes first: none has been taken before it was sent.
HeadFirst ==
  \A s \in Streams :
    /\ arrived[s] <= 3 * sent[s]
    /\ phase[s] = "head" => out[s] = <<>>
    /\ phase[s] = "relay" => sent[s] >= 1

LEMMA HeadFirstCorrect == Spec => []HeadFirst
<1>1. Init => HeadFirst
  <2> SUFFICES ASSUME Init, NEW s \in Streams
               PROVE  /\ arrived[s] <= 3 * sent[s]
                      /\ phase[s] = "head" => out[s] = <<>>
                      /\ phase[s] = "relay" => sent[s] >= 1
    BY DEF HeadFirst
  <2>1. arrived[s] = 0 /\ sent[s] = 0 /\ phase[s] = "head" /\ out[s] = <<>>
    BY DEF Init
  <2> QED
    BY <2>1
<1>2. PacketStreamType /\ NonceInStep /\ HeadFirst /\ [Next]_streamVars => HeadFirst'
  <2> SUFFICES ASSUME PacketStreamType, NonceInStep, HeadFirst, [Next]_streamVars,
                      NEW t \in Streams
               PROVE  /\ arrived'[t] <= 3 * sent'[t]
                      /\ phase'[t] = "head" => out'[t] = <<>>
                      /\ phase'[t] = "relay" => sent'[t] >= 1
    BY DEF HeadFirst
  <2>t. /\ arrived[t] \in Nat /\ sent[t] \in Nat /\ buf[t] \in Nat
        /\ arrived[t] <= 3 * sent[t]
        /\ phase[t] = "head" => out[t] = <<>>
        /\ phase[t] = "relay" => sent[t] >= 1
    BY DEF PacketStreamType, HeadFirst
  <2>1. ASSUME NEW s \in Streams, Send(s)
        PROVE  /\ sent'[t] \in {sent[t], sent[t] + 1}
               /\ UNCHANGED <<arrived, phase, out>>
    BY <2>1 DEF Send, PacketStreamType
  <2>2. ASSUME NEW s \in Streams, Read(s)
        PROVE  /\ arrived'[t] <= 3 * sent[t]
               /\ UNCHANGED <<sent, phase, out>>
    <3>1. PICK k \in 1 .. (3 * sent[s] - arrived[s]) :
            arrived' = [arrived EXCEPT ![s] = arrived[s] + k]
      BY <2>2 DEF Read
    <3>2. sent[s] \in Nat /\ arrived[s] \in Nat /\ arrived[s] + k <= 3 * sent[s]
      BY <3>1 DEF PacketStreamType
    <3>3. arrived'[t] \in {arrived[t], arrived[s] + k} /\ (s # t => arrived'[t] = arrived[t])
      BY <3>1 DEF PacketStreamType
    <3>4. arrived'[t] <= 3 * sent[t]
      BY <2>t, <3>2, <3>3
    <3> QED
      BY <2>2, <3>4 DEF Read
  <2>3. ASSUME NEW s \in Streams, ParsePacket(s)
        PROVE  /\ UNCHANGED <<sent, arrived>>
               /\ phase'[t] = "head" => phase[t] = "head" /\ out'[t] = out[t]
               /\ phase'[t] = "relay" => phase[t] = "relay" \/ sent[t] >= 1
    <3>1. UNCHANGED <<sent, arrived>> /\ buf[s] >= 3
      BY <2>3 DEF ParsePacket
    <3>2. CASE s # t
      BY <2>3, <3>1, <3>2 DEF ParsePacket, PacketStreamType
    <3>3. CASE s = t
      <4>1. Len(out[t]) \in Nat
        BY DEF PacketStreamType
      <4>2. arrived[t] - buf[t] = 3 * Len(out[t])
        BY <2>3, <3>3, NextPacketOnly DEF ParsePacket, Start
      <4>3. sent[t] >= 1
        BY <2>t, <3>1, <3>3, <4>1, <4>2
      <4>4. phase'[t] = "relay"
        BY <2>3, <3>3 DEF ParsePacket, PacketStreamType
      <4> QED
        BY <3>1, <4>3, <4>4
    <3> QED
      BY <3>2, <3>3
  <2>4. CASE UNCHANGED <<sent, arrived, phase, out>>
    BY <2>t, <2>4
  <2> QED
    BY <2>t, <2>1, <2>2, <2>3, <2>4
       DEF Next, Receive, Parse, CloseSender, ReadEof, ParseShort, ParseNoPayload,
           ParseInvalidTag, Reset, streamVars
<1> QED
  BY <1>1, <1>2, TypeCorrect, OrderCorrect, PTL DEF Spec

-----------------------------------------------------------------------------
\* The type of a tunnel: what the server sent is what kinds records.
THEOREM TunnelTypeCorrect == TunnelSpec => []TunnelType
<1> DEFINE
      ControlType ==
        /\ cpc \in {"connecting", "salted", "requested"} \cup Relaying \cup Leaving
        /\ spc \in {"handshake", "request", "dialing"} \cup Relaying \cup Leaving
        /\ dialed \in BOOLEAN
        /\ app \in {"open", "ended", "failed"} /\ target \in {"open", "ended", "failed"}
      KindsType ==
        /\ kinds \in Seq({"ok", "refused", "data"})
        /\ Len(kinds) = sent["down"]
<1>s. "up" \in Streams /\ "down" \in Streams
  BY TunnelAssumption
<1>1. TunnelInit => ControlType /\ KindsType
  <2> SUFFICES ASSUME TunnelInit
               PROVE  ControlType /\ KindsType
    OBVIOUS
  <2>1. ControlType
    BY DEF TunnelInit
  <2>2. kinds = <<>> /\ sent["down"] = 0
    BY <1>s DEF TunnelInit, Init
  <2>3. Len(kinds) = 0
    BY <2>2
  <2> QED
    BY <2>1, <2>2, <2>3
<1>2. ControlType /\ [TunnelNext]_tunnelVars => ControlType'
  <2> SUFFICES ASSUME ControlType, [TunnelNext]_tunnelVars
               PROVE  ControlType'
    OBVIOUS
  <2> USE DEF Relaying, Leaving
  <2>1. CASE Client
    <3>1. /\ UNCHANGED <<spc, dialed, app, target>>
          /\ cpc' \in {cpc, "salted", "requested", "relay", "draining", "closing", "hangup"}
      BY <2>1
         DEF Client, ClientSendSalt, ClientSendRequest, ClientReceive, ClientTakeReply,
             ClientGiveUp, ClientClose
    <3> QED
      BY <3>1
  <2>2. CASE Server
    <3>1. /\ UNCHANGED <<cpc, app, target>>
          /\ spc' \in {spc, "request", "dialing", "relay", "draining", "closing", "parting"}
      BY <2>2
         DEF Server, ServerHandshake, ServerReceive, ServerAdmit, ServerConnect,
             ServerRefuse, ServerReplyFails, ServerGiveUp, ServerClose
    <3>2. dialed' = dialed \/ dialed' \in BOOLEAN
      BY <2>2
         DEF Server, ServerHandshake, ServerReceive, ServerAdmit, ServerConnect,
             ServerRefuse, ServerReplyFails, ServerGiveUp, ServerClose
    <3> QED
      BY <3>1, <3>2
  <2>3. CASE Environment
    <3>1. /\ UNCHANGED dialed
          /\ cpc' \in {cpc, "closing"}
          /\ spc' \in {spc, "closing"}
      BY <2>3
         DEF Environment, AppOver, ClientAppGone, TargetOver, ServerTargetGone,
             ClientRelayUp, ClientRelayBurst, ServerRelayDown, ServerRelayBurst,
             ServerHandshakeFails, ConnectionLost, controlVars
    <3>2. /\ app' = app \/ app' \in {"ended", "failed"}
          /\ target' = target \/ target' \in {"ended", "failed"}
      BY <2>3
         DEF Environment, AppOver, ClientAppGone, TargetOver, ServerTargetGone,
             ClientRelayUp, ClientRelayBurst, ServerRelayDown, ServerRelayBurst,
             ServerHandshakeFails, ConnectionLost, controlVars
    <3> QED
      BY <3>1, <3>2
  <2>4. CASE Waits
    <3>1. /\ UNCHANGED <<dialed, app, target>>
          /\ cpc' \in {cpc, "relay", "parting", "closed"}
          /\ spc' \in {spc, "relay", "hangup", "closed"}
      BY <2>4
         DEF Waits, ClientDrained, ClientHungUp, ClientParted, ServerDrained,
             ServerHangUp, ServerHungUp
    <3> QED
      BY <3>1
  <2>5. CASE UNCHANGED tunnelVars
    BY <2>5 DEF tunnelVars, controlVars
  <2> QED
    BY <2>1, <2>2, <2>3, <2>4, <2>5 DEF TunnelNext
<1>3. PacketStreamType /\ KindsType /\ [TunnelNext]_tunnelVars => KindsType'
  <2> SUFFICES ASSUME PacketStreamType, KindsType, [TunnelNext]_tunnelVars
               PROVE  KindsType'
    OBVIOUS
  <2>1. ASSUME NEW kind \in {"ok", "refused", "data"}, Answer(kind)
        PROVE  KindsType'
    <3>1. sent' = [sent EXCEPT !["down"] = sent["down"] + 1]
      BY <2>1 DEF Answer, Send
    <3>2. sent'["down"] = sent["down"] + 1
      BY <1>s, <3>1 DEF PacketStreamType
    <3>3. kinds' = Append(kinds, kind)
      BY <2>1 DEF Answer
    <3> QED
      BY <3>2, <3>3
  <2>2. CASE UNCHANGED kinds /\ UNCHANGED sent
    BY <2>2
  <2>3. CASE UNCHANGED kinds /\ Send("up")
    <3>1. sent'["down"] = sent["down"]
      BY <1>s, <2>3 DEF Send, PacketStreamType
    <3> QED
      BY <2>3, <3>1
  <2>4. ASSUME NEW s \in Streams, CloseSender(s) \/ Receive(s) \/ Reset(s)
        PROVE  UNCHANGED sent
    BY <2>4 DEF CloseSender, Receive, Read, ReadEof, Parse, ParseShort,
                ParseNoPayload, ParseInvalidTag, ParsePacket, Reset
  <2>5. CASE Client
    BY <1>s, <2>2, <2>3, <2>4, <2>5
       DEF Client, ClientSendSalt, ClientSendRequest, ClientReceive, ClientTakeReply,
           ClientGiveUp, ClientClose, streamVars, controlVars
  <2>6. CASE Server
    BY <1>s, <2>1, <2>2, <2>4, <2>6
       DEF Server, ServerHandshake, ServerReceive, ServerAdmit, ServerConnect,
           ServerRefuse, ServerReplyFails, ServerGiveUp, ServerClose,
           streamVars, controlVars
  <2>7. CASE Environment
    BY <1>s, <2>1, <2>2, <2>3, <2>4, <2>7
       DEF Environment, AppOver, ClientAppGone, TargetOver, ServerTargetGone,
           ClientRelayUp, ClientRelayBurst, ServerRelayDown, ServerRelayBurst,
           ServerHandshakeFails, ConnectionLost, streamVars, controlVars
  <2>8. CASE Waits
    BY <1>s, <2>2, <2>4, <2>8
       DEF Waits, ClientDrained, ClientHungUp, ClientParted, ServerDrained, ServerHangUp,
           ServerHungUp, streamVars
  <2>9. CASE UNCHANGED tunnelVars
    BY <2>2, <2>9 DEF tunnelVars, streamVars, controlVars
  <2> QED
    BY <2>5, <2>6, <2>7, <2>8, <2>9 DEF TunnelNext
<1>4. PacketStreamType /\ ControlType /\ KindsType => TunnelType
  BY DEF TunnelType
<1> QED
  BY <1>1, <1>2, <1>3, <1>4, TunnelStreams, TypeCorrect, PTL DEF TunnelSpec

-----------------------------------------------------------------------------
\* The server has granted the request.
Granted == Len(kinds) >= 1 /\ kinds[1] = "ok"

Early == {"handshake", "request", "dialing"}

\* What client and server know of each other.  Whoever relays does so on a
\* grant; there is no reply before the server has dialed; and nothing but the
\* request is on its way up until then.
GrantInv ==
  /\ cpc \in {"connecting", "salted"} => sent["up"] = 0
  /\ spc \in Early => Len(kinds) = 0
  /\ spc \in Relaying => dialed /\ Granted
  /\ cpc \in Relaying => Granted
  /\ Len(out["up"]) > 1 => Granted
  /\ OneReplyFirst
  /\ RequestAlone

LEMMA GrantInvStep ==
  ASSUME TunnelType, TunnelType', HeadFirst, GrantInv, [TunnelNext]_tunnelVars
  PROVE  GrantInv'
<1>s. "up" \in Streams /\ "down" \in Streams /\ "up" # "down"
  BY TunnelAssumption
<1>t. /\ kinds \in Seq({"ok", "refused", "data"})
      /\ Len(kinds) \in Nat /\ Len(kinds) = sent["down"]
      /\ sent["up"] \in Nat /\ Len(out["up"]) \in Nat
  BY <1>s DEF TunnelType, PacketStreamType
<1> USE DEF Early, Relaying
\* A step that sends nothing, takes no data packet off "up", and does not open
\* the relay of either side.
<1>0. ASSUME UNCHANGED <<kinds, sent>>,
             Len(out'["up"]) > 1 => Len(out["up"]) > 1,
             cpc' \in Relaying => cpc \in Relaying,
             cpc' \in {"connecting", "salted"} => cpc \in {"connecting", "salted"},
             spc' \in Relaying => spc \in Relaying /\ dialed' = dialed,
             spc' \in Early => spc \in Early
      PROVE  GrantInv'
  BY <1>0 DEF GrantInv, OneReplyFirst, RequestAlone, Granted
<1>1. ASSUME NEW kind \in {"ok", "refused", "data"}, Answer(kind)
      PROVE  /\ Len(kinds') = Len(kinds) + 1
             /\ kinds'[Len(kinds) + 1] = kind
             /\ \A i \in 1 .. Len(kinds) : kinds'[i] = kinds[i]
             /\ sent'["up"] = sent["up"]
             /\ UNCHANGED out
  <2>1. kinds' = Append(kinds, kind)
    BY <1>1 DEF Answer
  <2>2. sent' = [sent EXCEPT !["down"] = sent["down"] + 1] /\ UNCHANGED out
    BY <1>1 DEF Answer, Send
  <2> QED
    BY <1>s, <1>t, <2>1, <2>2, SMTT(30) DEF TunnelType, PacketStreamType
<1>2. ASSUME Send("up")
      PROVE  /\ sent'["up"] = sent["up"] + 1
             /\ UNCHANGED out
  BY <1>s, <1>2 DEF Send, TunnelType, PacketStreamType
<1>3. ASSUME NEW s \in Streams, CloseSender(s) \/ Reset(s)
      PROVE  UNCHANGED <<sent, out>>
  BY <1>3 DEF CloseSender, Reset
<1>4. ASSUME NEW s \in Streams, Receive(s)
      PROVE  /\ UNCHANGED sent
             /\ \A t \in Streams \ {s} : out'[t] = out[t]
             /\ Len(out'[s]) <= Len(out[s]) + 1
             /\ phase[s] = "head" => Len(out'[s]) <= 1
  <2>1. CASE UNCHANGED <<sent, out>>
    <3>1. Len(out[s]) \in Nat
      BY DEF TunnelType, PacketStreamType
    <3>2. phase[s] = "head" => Len(out[s]) = 0
      BY DEF HeadFirst
    <3> QED
      BY <2>1, <3>1, <3>2
  <2>2. CASE ParsePacket(s)
    <3>1. UNCHANGED sent /\ out' = [out EXCEPT ![s] = Append(out[s], PacketAt(s) + 1)]
      BY <2>2 DEF ParsePacket
    <3>2. out[s] \in Seq(Nat) /\ out \in [Streams -> Seq(Nat)] /\ out'[s] \in Seq(Nat)
      BY DEF TunnelType, PacketStreamType
    <3>3. out'[s] = Append(out[s], PacketAt(s) + 1)
      BY <3>1, <3>2
    <3>4. Len(out'[s]) = Len(out[s]) + 1
      BY <3>2, <3>3
    <3>5. phase[s] = "head" => Len(out[s]) = 0
      BY DEF HeadFirst
    <3> QED
      BY <3>1, <3>2, <3>4, <3>5
  <2> QED
    BY <1>4, <2>1, <2>2
       DEF Receive, Read, ReadEof, Parse, ParseShort, ParseNoPayload, ParseInvalidTag
<1>5. CASE \/ ClientSendSalt \/ ClientGiveUp \/ ClientRelayBurst \/ AppOver \/ ClientAppGone
           \/ ClientDrained \/ ClientHungUp \/ ClientParted
  <2>1. UNCHANGED <<streamVars, spc, dialed, kinds>>
    BY <1>5 DEF ClientSendSalt, ClientGiveUp, ClientRelayBurst, AppOver, ClientAppGone,
                ClientDrained, ClientHungUp, ClientParted
  <2>2. /\ cpc' \in Relaying => cpc \in Relaying
        /\ cpc' \in {"connecting", "salted"} => cpc \in {"connecting", "salted"}
    BY <1>5 DEF ClientSendSalt, ClientGiveUp, ClientRelayBurst, AppOver, ClientAppGone,
                ClientDrained, ClientHungUp, ClientParted
  <2> QED
    BY <1>0, <2>1, <2>2 DEF streamVars
<1>6. CASE ClientSendRequest
  <2>1. /\ cpc = "salted" /\ cpc' = "requested" /\ sent'["up"] = 1
        /\ UNCHANGED <<spc, dialed, kinds, out>>
    BY <1>2, <1>6 DEF ClientSendRequest, GrantInv
  <2> QED
    BY <2>1 DEF GrantInv, OneReplyFirst, RequestAlone, Granted
<1>7. CASE ClientReceive
  <2>1. UNCHANGED <<sent, kinds, spc, dialed>> /\ out'["up"] = out["up"]
    BY <1>s, <1>4, <1>7 DEF ClientReceive
  <2>2. /\ cpc' \in Relaying => cpc \in Relaying
        /\ cpc' \in {"connecting", "salted"} => cpc \in {"connecting", "salted"}
    BY <1>7 DEF ClientReceive
  <2> QED
    BY <1>0, <2>1, <2>2
<1>8. CASE ClientTakeReply
  <2>1. /\ UNCHANGED <<streamVars, spc, dialed, kinds>>
        /\ phase["down"] = "relay"
        /\ (cpc' = "relay" /\ kinds[1] = "ok") \/ cpc' = "closing"
    BY <1>8 DEF ClientTakeReply
  <2>2. Len(kinds) >= 1
    BY <1>s, <1>t, <2>1 DEF HeadFirst
  <2>3. cpc' = "relay" => Granted'
    BY <2>1, <2>2 DEF Granted
  <2> QED
    BY <2>1, <2>3 DEF GrantInv, OneReplyFirst, RequestAlone, Granted, streamVars
<1>9. CASE ClientRelayUp
  <2>1. /\ cpc \in Relaying /\ UNCHANGED <<cpc, spc, dialed, kinds, out>>
    BY <1>2, <1>9 DEF ClientRelayUp, controlVars
  <2>2. Granted /\ spc \notin Early
    BY <1>t, <2>1 DEF GrantInv, Granted
  <2> QED
    BY <2>1, <2>2 DEF GrantInv, OneReplyFirst, RequestAlone, Granted
<1>10. CASE ClientClose
  BY <1>s, <1>0, <1>3, <1>10 DEF ClientClose
<1>11. CASE \/ ServerHandshake \/ ServerHandshakeFails \/ ServerAdmit \/ ServerReplyFails
            \/ ServerGiveUp \/ ServerRelayBurst \/ TargetOver \/ ServerTargetGone
            \/ ServerDrained \/ ServerClose \/ ServerHungUp
  <2>1. /\ UNCHANGED <<streamVars, cpc, kinds>>
        /\ spc' \in Relaying => spc \in Relaying /\ dialed' = dialed
        /\ spc' \in Early => spc \in Early
    BY <1>11 DEF ServerHandshake, ServerHandshakeFails, ServerAdmit, ServerReplyFails,
                 ServerGiveUp, ServerRelayBurst, TargetOver, ServerTargetGone,
                 ServerDrained, ServerClose, ServerHungUp
  <2> QED
    BY <1>0, <2>1 DEF streamVars
<1>12. CASE ServerReceive
  <2>1. /\ UNCHANGED <<sent, kinds, cpc, dialed>>
        /\ \/ spc = "request" /\ spc' = "request" /\ Len(out'["up"]) <= 1
           \/ spc = "relay" /\ spc' \in Relaying
    BY <1>s, <1>4, <1>12 DEF ServerReceive
  <2>2. CASE spc = "request" /\ spc' = "request" /\ Len(out'["up"]) <= 1
    <3>1. Len(out'["up"]) \in Nat
      BY <1>s DEF TunnelType, PacketStreamType
    <3> QED
      BY <1>0, <2>1, <2>2, <3>1
  <2>3. CASE spc = "relay" /\ spc' \in Relaying
    BY <2>1, <2>3 DEF GrantInv, OneReplyFirst, RequestAlone, Granted
  <2> QED
    BY <2>1, <2>2, <2>3
<1>13. CASE ServerRefuse
  <2>1. /\ spc \in Early /\ spc' = "closing" /\ UNCHANGED <<cpc, dialed>>
        /\ Answer("refused")
    BY <1>13 DEF ServerRefuse
  <2>2. Len(kinds) = 0 /\ Len(kinds') = 1 /\ kinds'[1] = "refused"
    BY <1>1, <2>1 DEF GrantInv
  <2>3. OneReplyFirst'
    BY <2>2 DEF OneReplyFirst
  <2> QED
    BY <1>1, <2>1, <2>2, <2>3 DEF GrantInv, RequestAlone, Granted
<1>14. CASE ServerConnect
  <2>1. /\ spc \in Early /\ spc' = "relay" /\ dialed' /\ UNCHANGED cpc
        /\ Answer("ok")
    BY <1>14 DEF ServerConnect
  <2>2. Len(kinds) = 0 /\ Len(kinds') = 1 /\ kinds'[1] = "ok"
    BY <1>1, <2>1 DEF GrantInv
  <2>3. OneReplyFirst' /\ Granted'
    BY <2>2 DEF OneReplyFirst, Granted
  <2> QED
    BY <1>1, <2>1, <2>3 DEF GrantInv, RequestAlone
<1>15. CASE ServerRelayDown
  <2>1. spc \in Relaying /\ Answer("data") /\ UNCHANGED <<cpc, spc, dialed>>
    BY <1>15 DEF ServerRelayDown
  <2>2. Granted
    BY <2>1 DEF GrantInv
  <2>3. Granted' /\ Len(kinds) >= 1
    BY <1>1, <1>t, <2>1, <2>2 DEF Granted
  <2>4. OneReplyFirst'
    BY <1>1, <1>t, <2>1, <2>3 DEF GrantInv, OneReplyFirst, Granted
  <2> QED
    BY <1>1, <2>1, <2>3, <2>4 DEF GrantInv, RequestAlone
<1>16. CASE ServerHangUp
  <2>1. UNCHANGED <<sent, out, cpc, kinds>> /\ spc' = "hangup"
    BY <1>s, <1>3, <1>16 DEF ServerHangUp
  <2> QED
    BY <1>0, <2>1
<1>17. CASE \E s \in Streams : ConnectionLost(s)
  <2>1. UNCHANGED <<sent, out, controlVars>>
    BY <1>3, <1>17 DEF ConnectionLost
  <2> QED
    BY <1>0, <2>1 DEF controlVars
<1>18. CASE UNCHANGED tunnelVars
  BY <1>0, <1>18 DEF tunnelVars, streamVars, controlVars
<1> QED
  BY <1>s, <1>5, <1>6, <1>7, <1>8, <1>9, <1>10, <1>11, <1>12, <1>13, <1>14, <1>15,
     <1>16, <1>17, <1>18
     DEF TunnelNext, Client, Server, Environment, Waits

\* So it holds in every behaviour.
LEMMA GrantInvCorrect == TunnelSpec => []GrantInv
<1>1. TunnelInit => GrantInv
  <2> SUFFICES ASSUME TunnelInit
               PROVE  GrantInv
    OBVIOUS
  <2>1. /\ kinds = <<>> /\ sent["up"] = 0 /\ out["up"] = <<>>
        /\ cpc = "connecting" /\ spc = "handshake"
    BY TunnelAssumption DEF TunnelInit, Init
  <2>2. Len(kinds) = 0 /\ Len(out["up"]) = 0
    BY <2>1
  <2> QED
    BY <2>1, <2>2 DEF GrantInv, OneReplyFirst, RequestAlone, Relaying
<1>2. TunnelType /\ TunnelType' /\ HeadFirst /\ GrantInv /\ [TunnelNext]_tunnelVars
        => GrantInv'
  BY GrantInvStep
<1> QED
  BY <1>1, <1>2, TunnelTypeCorrect, TunnelStreams, HeadFirstCorrect, PTL DEF TunnelSpec

\* The client relays and the server takes data off the tunnel only on a request
\* that was granted, after one reply that is never mistaken for data, and nothing
\* can be lost behind the request.
THEOREM GrantCorrect == TunnelSpec => [](GrantFirst /\ OneReplyFirst /\ RequestAlone)
<1>1. TunnelType /\ GrantInv => GrantFirst /\ OneReplyFirst /\ RequestAlone
  <2> SUFFICES ASSUME TunnelType, GrantInv
               PROVE  GrantFirst
    BY DEF GrantInv
  <2>1. cpc \in Relaying => spc \in Relaying \cup Leaving
    BY DEF GrantInv, Granted, TunnelType, Early
  <2> QED
    BY <2>1 DEF GrantInv, GrantFirst, Granted
<1> QED
  BY <1>1, TunnelTypeCorrect, GrantInvCorrect, PTL

\* Whatever the server's failures and timeouts, it sends one reply, and sends it
\* before any data.
THEOREM OneReplyCorrect == TunnelSpec => []OneReplyFirst
BY GrantCorrect, PTL

\* The client's request is alone in its direction until the reply has come.
THEOREM RequestCorrect == TunnelSpec => []RequestAlone
BY GrantCorrect, PTL

-----------------------------------------------------------------------------
\* An upload is complete however much its reads return: data goes up only on a
\* grant, and there is one only after the server has taken the request.
UploadInv ==
  /\ spc \in {"dialing"} \cup Relaying => phase["up"] = "relay"
  /\ Granted => phase["up"] = "relay"
  /\ sent["up"] > 1 => Granted

\* What the steps of a direction do to where its receiver is.
LEMMA PhaseGoesOn ==
  ASSUME PacketStreamType, NEW s \in Streams, Send(s) \/ CloseSender(s) \/ Receive(s) \/ Reset(s)
  PROVE  /\ \A t \in Streams : phase[t] = "relay" => phase'[t] = "relay"
         /\ ~Send(s) => UNCHANGED sent
<1>1. CASE ParsePacket(s)
  <2>1. \A t \in Streams : phase[t] = "relay" => phase'[t] = "relay"
    <3>1. CASE phase[s] = "head"
      BY <1>1, <3>1 DEF ParsePacket, PacketStreamType
    <3>2. CASE phase[s] # "head"
      BY <1>1, <3>2 DEF ParsePacket
    <3> QED
      BY <3>1, <3>2
  <2> QED
    BY <1>1, <2>1 DEF ParsePacket
<1>2. CASE ~ParsePacket(s)
  BY <1>2 DEF Send, CloseSender, Receive, Read, ReadEof, Parse, ParseShort, ParseNoPayload,
              ParseInvalidTag, Reset
<1> QED
  BY <1>1, <1>2

LEMMA UploadInvStep ==
  ASSUME TunnelType, GrantInv, UploadInv, [TunnelNext]_tunnelVars
  PROVE  UploadInv'
<1>s. "up" \in Streams /\ "down" \in Streams /\ "up" # "down"
  BY TunnelAssumption
<1>t. /\ PacketStreamType /\ kinds \in Seq({"ok", "refused", "data"})
      /\ sent["up"] \in Nat /\ Len(kinds) \in Nat
  BY <1>s DEF TunnelType, PacketStreamType
\* A step that writes nothing.
<1>1. ASSUME UNCHANGED <<sent, kinds>>, phase["up"] = "relay" => phase'["up"] = "relay",
             spc' \in {"dialing"} \cup Relaying
               => spc \in {"dialing"} \cup Relaying \/ phase["up"] = "relay"
      PROVE  UploadInv'
  BY <1>1 DEF UploadInv, Granted
<1>2. ASSUME NEW s \in Streams, CloseSender(s) \/ Receive(s) \/ Reset(s)
      PROVE  UNCHANGED sent /\ (phase["up"] = "relay" => phase'["up"] = "relay")
  <2>1. UNCHANGED sent
    BY <1>2 DEF CloseSender, Receive, Read, ReadEof, Parse, ParseShort, ParseNoPayload,
                ParseInvalidTag, ParsePacket, Reset
  <2> QED
    BY <1>s, <1>t, <1>2, <2>1, PhaseGoesOn
\* A step of the client that writes.
<1>3. ASSUME Send("up"), sent["up"] = 0 \/ Granted, UNCHANGED <<spc, kinds>>
      PROVE  UploadInv'
  <2>1. sent'["up"] = sent["up"] + 1 /\ UNCHANGED phase
    BY <1>s, <1>t, <1>3 DEF Send, PacketStreamType
  <2> QED
    BY <1>t, <1>3, <2>1 DEF UploadInv, Granted
\* A step of the server that answers.
<1>4. ASSUME NEW kind \in {"ok", "refused", "data"}, Answer(kind),
             kind = "ok" \/ Len(kinds) >= 1 => phase["up"] = "relay",
             spc' \in {"dialing"} \cup Relaying => spc \in {"dialing"} \cup Relaying
      PROVE  UploadInv'
  <2>1. sent'["up"] = sent["up"] /\ UNCHANGED phase /\ kinds' = Append(kinds, kind)
    BY <1>s, <1>t, <1>4 DEF Answer, Send, PacketStreamType
  <2>2. Granted' => Granted \/ phase["up"] = "relay"
    <3>1. CASE Len(kinds) >= 1
      BY <1>4, <3>1
    <3>2. CASE Len(kinds) = 0
      BY <1>t, <1>4, <2>1, <3>2 DEF Granted
    <3> QED
      BY <1>t, <3>1, <3>2
  <2>3. Granted => Granted'
    BY <1>t, <2>1 DEF Granted
  <2> QED
    BY <1>4, <2>1, <2>2, <2>3 DEF UploadInv
<1>5. ASSUME Len(kinds) >= 1 PROVE spc \notin Early
  BY <1>5 DEF GrantInv
<1> USE DEF Relaying
<1>6. CASE \/ ClientSendSalt \/ ClientTakeReply \/ ClientGiveUp \/ AppOver \/ ClientAppGone
           \/ ClientRelayBurst \/ ClientDrained \/ ClientHungUp \/ ClientParted
  BY <1>1, <1>6
     DEF ClientSendSalt, ClientTakeReply, ClientGiveUp, AppOver, ClientAppGone,
         ClientRelayBurst, ClientDrained, ClientHungUp, ClientParted, streamVars
<1>15. CASE \/ ServerHandshake \/ ServerHandshakeFails \/ ServerAdmit \/ ServerReplyFails
            \/ TargetOver \/ ServerTargetGone \/ ServerGiveUp \/ ServerRelayBurst
            \/ ServerDrained \/ ServerClose \/ ServerHungUp
  BY <1>1, <1>15
     DEF ServerHandshake, ServerHandshakeFails, ServerAdmit, ServerReplyFails,
         TargetOver, ServerTargetGone, ServerGiveUp, ServerRelayBurst,
         ServerDrained, ServerClose, ServerHungUp, streamVars
<1>7. CASE ClientReceive \/ ServerReceive \/ ConnectionLost("up") \/ ConnectionLost("down")
  BY <1>s, <1>1, <1>2, <1>7 DEF ClientReceive, ServerReceive, ConnectionLost, controlVars
<1>8. CASE ClientClose \/ ServerHangUp
  BY <1>s, <1>1, <1>2, <1>8 DEF ClientClose, ServerHangUp
<1>9. CASE ClientSendRequest
  BY <1>3, <1>9 DEF ClientSendRequest, GrantInv
<1>10. CASE ClientRelayUp
  BY <1>3, <1>10 DEF ClientRelayUp, GrantInv, controlVars
<1>11. CASE ServerRefuse
  <2>1. Answer("refused") /\ spc' = "closing" /\ spc \in Early
    BY <1>11 DEF ServerRefuse, Early
  <2> QED
    BY <1>4, <1>5, <2>1
<1>12. CASE ServerConnect
  <2>1. Answer("ok") /\ spc' = "relay" /\ spc = "dialing"
    BY <1>12 DEF ServerConnect
  <2> QED
    BY <1>4, <2>1 DEF UploadInv
<1>13. CASE ServerRelayDown
  <2>1. Answer("data") /\ spc' = spc /\ spc \in Relaying
    BY <1>13 DEF ServerRelayDown
  <2> QED
    BY <1>4, <2>1 DEF UploadInv
<1>14. CASE UNCHANGED tunnelVars
  BY <1>1, <1>14 DEF tunnelVars, streamVars, controlVars
<1> QED
  BY <1>6, <1>7, <1>8, <1>9, <1>10, <1>11, <1>12, <1>13, <1>14, <1>15
     DEF TunnelNext, Client, Server, Environment, Waits

\* The server loses nothing of what a client sends, and its relay does not end at
\* end-of-file before all of it: with no assumption about the network's reads.
THEOREM UploadCorrect == TunnelSpec => []UploadComplete
<1> DEFINE Upload == UploadInv /\ NothingDroppedFrom("up") /\ EndComplete("up")
<1>s. "up" \in Streams
  BY TunnelAssumption
<1>1. TunnelInit => Upload
  <2> SUFFICES ASSUME TunnelInit PROVE Upload
    OBVIOUS
  <2>1. /\ sent["up"] = 0 /\ arrived["up"] = 0 /\ buf["up"] = 0 /\ out["up"] = <<>>
        /\ run["up"] = "reading" /\ kinds = <<>> /\ spc = "handshake"
    BY <1>s DEF TunnelInit, Init
  <2>2. Len(out["up"]) = 0 /\ Len(kinds) = 0
    BY <2>1
  <2> QED
    BY <2>1, <2>2 DEF UploadInv, Granted, NothingDroppedFrom, EndComplete, Relaying
<1>2. /\ TunnelType /\ TunnelType' /\ NonceInStep /\ HeadFirst' /\ GrantInv /\ Upload
      /\ [TunnelNext]_tunnelVars
      => Upload'
  <2> SUFFICES ASSUME TunnelType, TunnelType', NonceInStep, HeadFirst', GrantInv, Upload,
                      [TunnelNext]_tunnelVars
               PROVE  Upload'
    OBVIOUS
  <2>1. UploadInv'
    BY UploadInvStep
  <2>2. phase'["up"] = "head" => arrived'["up"] <= 3
    <3>1. /\ sent'["up"] \in Nat /\ arrived'["up"] \in Nat
          /\ arrived'["up"] <= 3 * sent'["up"]
      BY <1>s DEF TunnelType, PacketStreamType, HeadFirst
    <3>2. phase'["up"] = "head" => ~(sent'["up"] > 1)
      BY <2>1 DEF UploadInv
    <3> QED
      BY <3>1, <3>2
  <2>3. PacketStreamType /\ [Next]_streamVars
    BY StreamStep DEF TunnelType
  <2> QED
    BY <1>s, <2>1, <2>2, <2>3, NothingDroppedFromStep, EndCompleteStep
<1>3. Upload => UploadComplete
  BY DEF EndComplete, UploadComplete
<1> QED
  BY <1>1, <1>2, <1>3, TunnelTypeCorrect, TunnelNonce, TunnelStreams, HeadFirstCorrect,
     GrantInvCorrect, PTL DEF TunnelSpec

-----------------------------------------------------------------------------
\* How a tunnel without overlarge reads ends.  Each side closes last of all; a
\* server that granted the request gives up for its target's end or failure or for
\* what became of the client's direction, and that direction ends only by a client
\* that has closed and so reads no more.
EndsInv ==
  /\ eof["down"] => spc \in {"hangup", "closed"}
  /\ eof["up"] => cpc \in {"hangup", "parting", "closed"}
  /\ run["up"] = "ended" => eof["up"]
  /\ spc \in Leaving /\ Granted => target # "open" \/ Over("up")
  /\ run["down"] = "ended" => target # "open" \/ run["up"] \in {"failed", "lost"}

\* What the steps of a receiver do to the places of the two loops.
LEMMA ReceiveEnds ==
  ASSUME PacketStreamType, NEW s \in Streams, Receive(s)
  PROVE  /\ UNCHANGED eof /\ ~Over(s)
         /\ \A t \in Streams \ {s} : run'[t] = run[t]
         /\ run'[s] = "ended" => eof[s] /\ phase[s] = "relay"
<1>1. CASE Read(s)
  BY <1>1 DEF Read, Over, PacketStreamType
<1>2. CASE ReadEof(s)
  BY <1>2 DEF ReadEof, Over, PacketStreamType
<1>3. CASE Parse(s)
  BY <1>3 DEF Parse, ParseShort, ParseNoPayload, ParseInvalidTag, ParsePacket, Over,
              PacketStreamType
<1> QED
  BY <1>1, <1>2, <1>3 DEF Receive

\* Every step of either side keeps the invariant.
LEMMA EndsStep ==
  ASSUME ~MayBurst, TunnelType, GrantInv, EndsInv, [TunnelNext]_tunnelVars
  PROVE  EndsInv'
<1>s. "up" \in Streams /\ "down" \in Streams /\ "up" # "down"
  BY TunnelAssumption
<1>t. PacketStreamType /\ kinds \in Seq({"ok", "refused", "data"})
  BY DEF TunnelType
<1> USE DEF Relaying, Leaving
\* A step of the client that closes nothing.
<1>1. ASSUME UNCHANGED <<eof, run, spc, target, kinds>>,
             cpc \in {"hangup", "parting", "closed"} => cpc' \in {"hangup", "parting", "closed"}
      PROVE  EndsInv'
  BY <1>1 DEF EndsInv, Over, Granted
\* A step of the server that closes nothing.
<1>2. ASSUME UNCHANGED <<eof, run, cpc>>,
             spc \notin {"hangup", "closed"} \/ spc' \in {"hangup", "closed"},
             target # "open" => target' # "open",
             spc' \in Leaving /\ Granted' => target' # "open" \/ Over("up")
      PROVE  EndsInv'
  BY <1>2 DEF EndsInv, Over
<1>3. ASSUME NEW s \in Streams, Send(s) PROVE UNCHANGED <<eof, run>>
  BY <1>3 DEF Send
<1>4. ASSUME spc \in Early PROVE ~Granted
  BY <1>4 DEF GrantInv, Granted
<1>5. CASE \/ ClientSendSalt \/ ClientSendRequest \/ ClientTakeReply \/ ClientGiveUp
           \/ ClientRelayUp \/ AppOver \/ ClientAppGone \/ ClientDrained
           \/ ClientHungUp \/ ClientParted
  BY <1>s, <1>1, <1>3, <1>5
     DEF ClientSendSalt, ClientSendRequest, ClientTakeReply, ClientGiveUp, ClientRelayUp,
         AppOver, ClientAppGone, ClientDrained, ClientHungUp, ClientParted, streamVars,
         controlVars
<1>6. CASE ClientReceive
  <2>1. /\ UNCHANGED <<eof, spc, target, kinds>> /\ run'["up"] = run["up"]
        /\ run'["down"] = "ended" => eof["down"] /\ phase["down"] = "relay"
    BY <1>s, <1>t, <1>6, ReceiveEnds DEF ClientReceive
  <2>2. cpc \in {"requested", "relay"} /\ cpc' \in {"requested", "relay", "draining"}
    BY <1>6 DEF ClientReceive
  <2>3. ASSUME run'["down"] = "ended"
        PROVE  target # "open" \/ run["up"] \in {"failed", "lost"}
    <3>1. cpc = "relay" /\ spc \in {"hangup", "closed"} /\ Granted
      BY <1>6, <2>1, <2>3 DEF ClientReceive, EndsInv, GrantInv
    <3>2. run["up"] # "ended"
      BY <3>1 DEF EndsInv
    <3> QED
      BY <3>1, <3>2 DEF EndsInv, Over
  <2> QED
    BY <2>1, <2>2, <2>3 DEF EndsInv, Over, Granted
<1>7. CASE ClientClose
  <2>1. /\ eof' = [eof EXCEPT !["up"] = TRUE] /\ cpc' = "hangup"
        /\ UNCHANGED <<run, spc, target, kinds>>
    BY <1>7 DEF ClientClose, CloseSender
  <2>2. eof'["down"] = eof["down"] /\ eof'["up"] = TRUE
    BY <1>s, <1>t, <2>1 DEF PacketStreamType
  <2> QED
    BY <2>1, <2>2 DEF EndsInv, Over, Granted
<1>8. CASE ServerHandshake \/ ServerHandshakeFails \/ ServerAdmit \/ ServerReplyFails
  <2>1. /\ UNCHANGED <<eof, run, cpc, kinds, target>> /\ spc \in Early
    BY <1>8 DEF ServerHandshake, ServerHandshakeFails, ServerAdmit, ServerReplyFails,
                streamVars, Early
  <2>2. ~Granted /\ ~Granted'
    BY <1>4, <2>1 DEF Granted
  <2> QED
    BY <1>2, <2>1, <2>2 DEF Early
<1>9. CASE ServerRefuse
  <2>1. /\ UNCHANGED <<eof, run, cpc, target>> /\ spc \in Early
        /\ kinds' = Append(kinds, "refused")
    BY <1>s, <1>3, <1>9 DEF ServerRefuse, Answer, Early
  <2>2. Len(kinds) = 0
    BY <2>1 DEF GrantInv
  <2>3. kinds'[1] = "refused"
    BY <1>t, <2>1, <2>2
  <2> QED
    BY <1>2, <2>1, <2>3 DEF Early, Granted
<1>10. CASE ServerConnect \/ ServerRelayDown \/ TargetOver \/ ServerDrained
  BY <1>s, <1>2, <1>3, <1>10
     DEF ServerConnect, ServerRelayDown, TargetOver, ServerDrained, Answer, streamVars
<1>11. CASE ServerGiveUp \/ ServerTargetGone
  BY <1>2, <1>11 DEF ServerGiveUp, ServerTargetGone, streamVars
<1>12. CASE ServerReceive
  <2>1. /\ UNCHANGED <<eof, cpc, target, kinds>> /\ run'["down"] = run["down"]
        /\ run'["up"] = "ended" => eof["up"]
        /\ run["up"] \notin {"failed", "lost"}
    BY <1>s, <1>t, <1>12, ReceiveEnds DEF ServerReceive, Over
  <2>2. spc \notin Leaving /\ spc' \notin Leaving
    BY <1>12 DEF ServerReceive
  <2> QED
    BY <2>1, <2>2 DEF EndsInv
<1>13. CASE ServerClose \/ ServerHungUp
  <2>1. /\ UNCHANGED <<eof, run, cpc, target, kinds>>
        /\ spc \in Leaving
        /\ spc \notin {"hangup", "closed"} \/ spc' \in {"hangup", "closed"}
    BY <1>13 DEF ServerClose, ServerHungUp, streamVars
  <2>2. Granted' = Granted
    BY <2>1 DEF Granted
  <2> QED
    BY <1>2, <2>1, <2>2 DEF EndsInv
<1>17. CASE ServerHangUp
  <2>1. /\ eof' = [eof EXCEPT !["down"] = TRUE] /\ spc \in Leaving /\ spc' = "hangup"
        /\ UNCHANGED <<run, cpc, target, kinds>>
    BY <1>17 DEF ServerHangUp, CloseSender
  <2>2. eof'["up"] = eof["up"]
    BY <1>s, <1>t, <2>1 DEF PacketStreamType
  <2> QED
    BY <2>1, <2>2 DEF EndsInv, Over, Granted
<1>14. ASSUME NEW s \in Streams, ConnectionLost(s) PROVE EndsInv'
  <2>1. /\ UNCHANGED <<eof, controlVars>> /\ run[s] = "reading" /\ run'[s] = "lost"
        /\ \A t \in Streams \ {s} : run'[t] = run[t]
    BY <1>t, <1>14 DEF ConnectionLost, Reset, PacketStreamType
  <2>2. CASE s = "up"
    BY <1>s, <2>1, <2>2 DEF EndsInv, Over, Granted, controlVars
  <2>3. CASE s # "up"
    BY <1>s, <2>1, <2>3 DEF EndsInv, Over, Granted, controlVars
  <2> QED
    BY <2>2, <2>3
<1>15. CASE UNCHANGED tunnelVars
  BY <1>1, <1>15 DEF tunnelVars, streamVars, controlVars
<1>16. ~ClientRelayBurst /\ ~ServerRelayBurst
  BY DEF ClientRelayBurst, ServerRelayBurst
<1> QED
  BY <1>s, <1>5, <1>6, <1>7, <1>8, <1>9, <1>10, <1>11, <1>12, <1>13, <1>14, <1>15, <1>16,
     <1>17
     DEF TunnelNext, Client, Server, Environment, Waits

\* When no read is overlarge and none overruns the control packet: an end of file
\* on the client's side of a tunnel comes after all the server relayed, and means
\* that the target ended or failed, or that the server had lost the client's
\* direction.
THEOREM EndCauseCorrect ==
  ASSUME ~MayBurst, ~MayOverrunHead
  PROVE  TunnelSpec => []EndHasCause
<1>1. TunnelInit => EndsInv
  BY TunnelAssumption DEF TunnelInit, Init, EndsInv, Leaving
<1>2. TunnelType /\ GrantInv /\ EndsInv /\ [TunnelNext]_tunnelVars => EndsInv'
  BY EndsStep
<1>3. EndsInv /\ CleanEndComplete => EndHasCause
  BY TunnelAssumption DEF EndsInv, CleanEndComplete, EndHasCause
<1> QED
  BY <1>1, <1>2, <1>3, TunnelTypeCorrect, GrantInvCorrect, TunnelComplete, PTL
     DEF TunnelSpec
===============================================================================
