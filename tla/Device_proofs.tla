---------------------------- MODULE Device_proofs ----------------------------
(***************************************************************************)
(* The parts of DeviceParts together: each of them takes its own steps in  *)
(* the composition, so that what holds of a part holds there. And of five  *)
(* parts: what the receiver unpacks is what the transmitter packed, for    *)
(* every value of every channel; an update of a receiver leaves no packet  *)
(* out, for an image of any length; the ring between the UART interrupt    *)
(* and the main loop keeps the bytes in their order; the bytes of the      *)
(* telemetry queue are a queue of frames, which gives out the newest of a  *)
(* kind; and a long hold of the button begins binding, once.               *)
(***************************************************************************)
EXTENDS DeviceParts, Parser_proofs, Radio_proofs

\* One value's part of the byte it starts in, and of the byte it ends in.
LEMMA LowPart ==
  ASSUME NEW v, NEW n, NEW x, NEW s, v[n] = x, Scale[n] = s
  PROVE  LowBits(v, n) = (x * s) % 256
BY Zenon DEF LowBits

LEMMA HighPart ==
  ASSUME NEW v, NEW n, NEW x, NEW s, v[n] = x, Scale[4 - n] = s
  PROVE  HighBits(v, n) = x \div s
BY Zenon DEF HighBits

\* A group comes out of its five bytes as it went in.
LEMMA GroupRoundTrip ==
  ASSUME NEW v \in [Groups -> Values10]
  PROVE  \A n \in Groups : UnpackedValue(PackedBytes(v), n) = v[n] * 2
<1> DEFINE a == v[0]
           b == v[1]
           c == v[2]
           d == v[3]
           w == PackedBytes(v)
<1>1. v[0] = a /\ v[1] = b /\ v[2] = c /\ v[3] = d
  OBVIOUS
<1>2. a \in 0 .. 1023 /\ b \in 0 .. 1023 /\ c \in 0 .. 1023 /\ d \in 0 .. 1023
  BY DEF Groups, Values10
<1>3. /\ w[0] = LowBits(v, 0) + 0
      /\ w[1] = LowBits(v, 1) + HighBits(v, 0)
      /\ w[2] = LowBits(v, 2) + HighBits(v, 1)
      /\ w[3] = LowBits(v, 3) + HighBits(v, 2)
      /\ w[4] = 0 + HighBits(v, 3)
  BY DEF PackedBytes, Groups
<1> HIDE DEF a, b, c, d, w
<1>4. /\ Scale[0] = 1 /\ Scale[1] = 4 /\ Scale[2] = 16 /\ Scale[3] = 64
      /\ Scale[4 - 0] = 256 /\ Scale[4 - 1] = 64 /\ Scale[4 - 2] = 16 /\ Scale[4 - 3] = 4
  BY DEF Scale
<1>5. /\ LowBits(v, 0) = (a * 1) % 256 /\ LowBits(v, 1) = (b * 4) % 256
      /\ LowBits(v, 2) = (c * 16) % 256 /\ LowBits(v, 3) = (d * 64) % 256
  BY <1>1, <1>4, LowPart
<1>6. /\ HighBits(v, 0) = a \div 256 /\ HighBits(v, 1) = b \div 64
      /\ HighBits(v, 2) = c \div 16 /\ HighBits(v, 3) = d \div 4
  BY <1>1, <1>4, HighPart
<1>7. UnpackedValue(w, 0) = a * 2
  <2> DEFINE x == (((a * 1) % 256) + 0)
             y == (((b * 4) % 256) + (a \div 256))
  <2>1. w[0] = x
    BY <1>3, <1>5, <1>6, Zenon
  <2>2. w[1] = y
    BY <1>3, <1>5, <1>6, Zenon
  <2>3. ((x + 256 * y) \div 1) % 1024 = a
    BY <1>2, SMTT(60)
  <2> HIDE DEF x, y
  <2>4. w[0 + 1] = y
    BY <2>2
  <2>5. Scale[0] = 1
    BY <1>4
  <2>6. (w[0] + 256 * w[0 + 1]) \div Scale[0] = (x + 256 * y) \div 1
    BY <2>1, <2>4, <2>5, Zenon
  <2>7. ((w[0] + 256 * w[0 + 1]) \div Scale[0]) % 1024 = a
    BY <2>3, <2>6, ZenonT(60)
  <2>8. UnpackedValue(w, 0) = (((w[0] + 256 * w[0 + 1]) \div Scale[0]) % 1024) * 2
    BY Zenon DEF UnpackedValue
  <2> QED  BY <2>7, <2>8, Zenon
<1>8. UnpackedValue(w, 1) = b * 2
  <2> DEFINE x == (((b * 4) % 256) + (a \div 256))
             y == (((c * 16) % 256) + (b \div 64))
  <2>1. w[1] = x
    BY <1>3, <1>5, <1>6, Zenon
  <2>2. w[2] = y
    BY <1>3, <1>5, <1>6, Zenon
  <2>3. ((x + 256 * y) \div 4) % 1024 = b
    BY <1>2, SMTT(60)
  <2> HIDE DEF x, y
  <2>4. w[1 + 1] = y
    BY <2>2
  <2>5. Scale[1] = 4
    BY <1>4
  <2>6. (w[1] + 256 * w[1 + 1]) \div Scale[1] = (x + 256 * y) \div 4
    BY <2>1, <2>4, <2>5, Zenon
  <2>7. ((w[1] + 256 * w[1 + 1]) \div Scale[1]) % 1024 = b
    BY <2>3, <2>6, ZenonT(60)
  <2>8. UnpackedValue(w, 1) = (((w[1] + 256 * w[1 + 1]) \div Scale[1]) % 1024) * 2
    BY Zenon DEF UnpackedValue
  <2> QED  BY <2>7, <2>8, Zenon
<1>9. UnpackedValue(w, 2) = c * 2
  <2> DEFINE x == (((c * 16) % 256) + (b \div 64))
             y == (((d * 64) % 256) + (c \div 16))
  <2>1. w[2] = x
    BY <1>3, <1>5, <1>6, Zenon
  <2>2. w[3] = y
    BY <1>3, <1>5, <1>6, Zenon
  <2>3. ((x + 256 * y) \div 16) % 1024 = c
    BY <1>2, SMTT(60)
  <2> HIDE DEF x, y
  <2>4. w[2 + 1] = y
    BY <2>2
  <2>5. Scale[2] = 16
    BY <1>4
  <2>6. (w[2] + 256 * w[2 + 1]) \div Scale[2] = (x + 256 * y) \div 16
    BY <2>1, <2>4, <2>5, Zenon
  <2>7. ((w[2] + 256 * w[2 + 1]) \div Scale[2]) % 1024 = c
    BY <2>3, <2>6, ZenonT(60)
  <2>8. UnpackedValue(w, 2) = (((w[2] + 256 * w[2 + 1]) \div Scale[2]) % 1024) * 2
    BY Zenon DEF UnpackedValue
  <2> QED  BY <2>7, <2>8, Zenon
<1>10. UnpackedValue(w, 3) = d * 2
  <2> DEFINE x == (((d * 64) % 256) + (c \div 16))
             y == (0 + (d \div 4))
  <2>1. w[3] = x
    BY <1>3, <1>5, <1>6, Zenon
  <2>2. w[4] = y
    BY <1>3, <1>5, <1>6, Zenon
  <2>3. ((x + 256 * y) \div 64) % 1024 = d
    BY <1>2, SMTT(60)
  <2> HIDE DEF x, y
  <2>4. w[3 + 1] = y
    BY <2>2
  <2>5. Scale[3] = 64
    BY <1>4
  <2>6. (w[3] + 256 * w[3 + 1]) \div Scale[3] = (x + 256 * y) \div 64
    BY <2>1, <2>4, <2>5, Zenon
  <2>7. ((w[3] + 256 * w[3 + 1]) \div Scale[3]) % 1024 = d
    BY <2>3, <2>6, ZenonT(60)
  <2>8. UnpackedValue(w, 3) = (((w[3] + 256 * w[3 + 1]) \div Scale[3]) % 1024) * 2
    BY Zenon DEF UnpackedValue
  <2> QED  BY <2>7, <2>8, Zenon
<1> QED  BY <1>1, <1>7, <1>8, <1>9, <1>10 DEF w, Groups

\* Decimated values fit the ten bits of a packed one.
LEMMA GroupType ==
  ASSUME NEW channels \in [Channels -> Values11], NEW first \in 0 .. 12
  PROVE  /\ Group(channels, first) \in [Groups -> Values10]
         /\ \A n \in Groups : Group(channels, first)[n] * 2 = Carried(channels[first + n])
<1>1. ASSUME NEW n \in Groups
      PROVE  /\ channels[first + n] \div 2 \in Values10
             /\ (channels[first + n] \div 2) * 2 = Carried(channels[first + n])
  <2> DEFINE x == channels[first + n]
  <2>0. first + n \in Channels
    BY DEF Channels, Groups
  <2>1. x \in 0 .. 2047
    BY <2>0 DEF Values11
  <2> HIDE DEF x
  <2>2. x \div 2 \in 0 .. 1023
    BY <2>1, Z3
  <2>3. (x \div 2) * 2 = 2 * (x \div 2)
    BY <2>2
  <2> QED  BY <2>2, <2>3 DEF x, Carried, Values10
<1>2. Group(channels, first) = [n \in Groups |-> channels[first + n] \div 2]
  BY DEF Group, Decimate11to10
<1> QED  BY <1>1, <1>2

\* What the receiver holds after a packet that was made of input; the channels of the two
\* groups that go with it.
Got(held, input, mode, high) == UnpackChannelData(held, GenerateChannelData(input, mode, high), mode)
CarriedBy(mode, high) == (LowGroup(mode, high) .. LowGroup(mode, high) + 3)
                         \cup (HighGroup(mode, high) .. HighGroup(mode, high) + 3)

\* What a packet does to channel c: a channel it carries arrives without its lowest bit,
\* the others are left alone, channel 4 excepted: with eight or twelve channels the arming
\* switch goes with every packet, as the bit it is.
Crosses(held, input, mode, high, c) ==
  /\ c \in CarriedBy(mode, high) => Got(held, input, mode, high)[c] = Carried(input[c])
  /\ c \notin CarriedBy(mode, high) /\ (c # 4 \/ mode = "16ch") =>
       Got(held, input, mode, high)[c] = held[c]
  /\ c = 4 /\ mode # "16ch" => Got(held, input, mode, high)[c] = FromBit(input[4] > 992)

\* Every channel crosses, whichever half the packet is and whatever the receiver held
\* before.
THEOREM PacketRoundTrip ==
  ASSUME NEW input \in [Channels -> Values11], NEW held,
         NEW mode \in PackingModes, NEW high \in BOOLEAN, NEW c \in Channels
  PROVE  Crosses(held, input, mode, high, c)
<1> DEFINE low == LowGroup(mode, high)
           up == HighGroup(mode, high)
           packet == GenerateChannelData(input, mode, high)
           got == UnpackChannelData(held, packet, mode)
<1>1. low \in 0 .. 12 /\ up \in 0 .. 12
  BY DEF LowGroup, HighGroup, PackingModes
<1>2. /\ packet.high = high
      /\ packet.low4 = PackedBytes(Group(input, low))
      /\ packet.high4 = PackedBytes(Group(input, up))
      /\ packet.ch4 = (input[4] > 992)
  BY DEF GenerateChannelData
<1>3. got[c] = IF c \in up .. up + 3 THEN UnpackedValue(packet.high4, c - up)
               ELSE IF c \in low .. low + 3 THEN UnpackedValue(packet.low4, c - low)
               ELSE IF c = 4 /\ mode # "16ch" THEN FromBit(packet.ch4)
               ELSE held[c]
  BY <1>2 DEF UnpackChannelData
<1>4. ASSUME NEW first \in 0 .. 12, c \in first .. first + 3
      PROVE  UnpackedValue(PackedBytes(Group(input, first)), c - first) = Carried(input[c])
  <2>1. c - first \in Groups /\ first + (c - first) = c
    BY <1>4 DEF Groups, Channels
  <2>2. UnpackedValue(PackedBytes(Group(input, first)), c - first) = Group(input, first)[c - first] * 2
    BY <2>1, GroupType, GroupRoundTrip
  <2> QED  BY <2>1, <2>2, GroupType
<1>5. c = 4 /\ mode # "16ch" => c \notin up .. up + 3 /\ c \notin low .. low + 3
  BY DEF LowGroup, HighGroup, PackingModes
<1>6. got = Got(held, input, mode, high) /\ CarriedBy(mode, high) = (low .. low + 3) \cup (up .. up + 3)
  BY DEF Got, CarriedBy
<1> HIDE DEF low, up, packet, got
<1>7. CASE c \in up .. up + 3
  BY <1>1, <1>2, <1>3, <1>4, <1>5, <1>6, <1>7 DEF Crosses
<1>8. CASE c \notin up .. up + 3 /\ c \in low .. low + 3
  BY <1>1, <1>2, <1>3, <1>4, <1>5, <1>6, <1>8 DEF Crosses
<1>9. CASE c \notin up .. up + 3 /\ c \notin low .. low + 3
  BY <1>2, <1>3, <1>6, <1>9 DEF Crosses
<1> QED  BY <1>7, <1>8, <1>9

ModeChannels(mode) ==
  CASE mode = "8ch" -> 0 .. 8 [] mode = "12ch" -> 0 .. 12 [] mode = "16ch" -> 0 .. 15

\* Two packets that follow each other renew all the channels of the mode, whatever the
\* receiver held before and wherever FullResIsHighAux (flag) stood when the first was
\* made; the sticks and the arming switch of eight and twelve channels are those of the
\* second.
THEOREM TwoPacketsCarryAll ==
  ASSUME NEW first \in [Channels -> Values11], NEW second \in [Channels -> Values11], NEW held,
         NEW mode \in PackingModes, NEW flag \in BOOLEAN, NEW c \in ModeChannels(mode)
  PROVE  LET one == Got(held, first, mode, SentHigh(mode, flag))
             two == Got(one, second, mode, SentHigh(mode, HighAfter(mode, flag)))
         IN IF c = 4 /\ mode # "16ch" THEN two[c] = FromBit(second[4] > 992)
            ELSE /\ two[c] \in {Carried(first[c]), Carried(second[c])}
                 /\ c < 4 /\ mode # "16ch" => two[c] = Carried(second[c])
<1> DEFINE a == SentHigh(mode, flag)
           b == SentHigh(mode, HighAfter(mode, flag))
           one == Got(held, first, mode, a)
           two == Got(one, second, mode, b)
<1>1. c \in Channels /\ a \in BOOLEAN /\ b \in BOOLEAN
  BY DEF ModeChannels, PackingModes, Channels, SentHigh, HighAfter
<1>2. \/ c = 4 /\ mode # "16ch"
      \/ c \in CarriedBy(mode, b) \/ c \in CarriedBy(mode, a)
  <2>1. CASE mode = "8ch"
    BY <2>1 DEF ModeChannels, SentHigh, HighAfter, CarriedBy, LowGroup, HighGroup
  <2>2. CASE mode = "12ch"
    BY <2>2 DEF ModeChannels, SentHigh, HighAfter, CarriedBy, LowGroup, HighGroup
  <2>3. CASE mode = "16ch"
    BY <2>3 DEF ModeChannels, SentHigh, HighAfter, CarriedBy, LowGroup, HighGroup
  <2> QED  BY <2>1, <2>2, <2>3 DEF PackingModes
<1>3. c < 4 /\ mode # "16ch" => c \in CarriedBy(mode, b)
  BY <1>1 DEF Channels, PackingModes, CarriedBy, LowGroup
<1> HIDE DEF a, b
<1> HIDE DEF one, two
<1>4. Crosses(held, first, mode, a, c) /\ Crosses(one, second, mode, b, c)
  BY <1>1, PacketRoundTrip
<1>5. one = Got(held, first, mode, a) /\ two = Got(one, second, mode, b)
  BY DEF one, two
<1>6. IF c = 4 /\ mode # "16ch" THEN two[c] = FromBit(second[4] > 992)
      ELSE /\ two[c] \in {Carried(first[c]), Carried(second[c])}
           /\ c < 4 /\ mode # "16ch" => two[c] = Carried(second[c])
  BY <1>2, <1>3, <1>4, <1>5 DEF Crosses
<1> QED  BY <1>6 DEF one, two, a, b
-----------------------------------------------------------------------------
(* The receiver update *)

\* While packets go out, those before the next one have been given to the radio, and
\* the end is awaited only behind the last; the radio holds a packet of the image in
\* those states and in no state of the handshake.
OtaInv ==
  /\ OtaTypeOK
  /\ slots.mode = "upgrade" => slots.packet \in Image
  /\ ota.state \in Handshaking => slots.mode # "upgrade"
  /\ ota.state \in Upgrading =>
       /\ ota.next \in 2 .. TotalPackets + 1
       /\ 1 .. ota.next - 1 \subseteq offered
  /\ ota.state = "wait_finish" => ota.next = TotalPackets + 1

LEMMA OtaInitInv == OtaInit => OtaInv
BY OtaAssumption
DEF OtaInit, OtaInv, OtaTypeOK, OtaStates, Handshaking, Upgrading, Ended, Closed, Image

\* The states are told apart.
LEMMA OtherStates ==
  /\ "wait_ack_tx" \in OtaStates /\ "wait_ack_tx" \notin Upgrading \cup Handshaking
  /\ \A s \in Ended : s \in OtaStates /\ s \notin Upgrading \cup Handshaking
  /\ \A s \in Handshaking : s \in OtaStates /\ s \notin Upgrading
  /\ \A s \in Upgrading : s \in OtaStates /\ s \notin Handshaking
  /\ "wait_handshake_tx" \in Handshaking /\ "wait_handshake_response" \in Handshaking
  /\ {"done", "failed", "version_same"} \subseteq Ended
  /\ {"wait_upgrade_bcn", "sending", "wait_finish"} \subseteq Upgrading
  /\ \A s \in OtaStates : s \in Upgrading \cup Handshaking \cup Ended \cup {"wait_ack_tx"}
BY DEF OtaStates, Handshaking, Upgrading, Ended

\* The end of an update, good or bad.
LEMMA ClosingKeeps ==
  ASSUME OtaInv, NEW state \in Ended, Closing(state), burnt' \subseteq Image, offered' \subseteq Image
  PROVE  OtaInv'
<1>1. ota' \in [state : OtaStates, next : 0 .. TotalPackets + 1, ready : BOOLEAN] /\ ota'.state = state
  BY OtherStates DEF Closing, OtaInv, OtaTypeOK
<1>2. slots' \in [mode : {"closed", "tx", "rx", "upgrade"}, packet : 0 .. TotalPackets] /\ slots'.mode = "closed"
  BY OtaAssumption DEF Closing, Closed
<1>3. state # "wait_finish"
  BY DEF Ended
<1> QED BY <1>1, <1>2, <1>3, OtherStates DEF OtaInv, OtaTypeOK

\* A packet for the radio, and the state that follows it.
LEMMA SendKeeps ==
  ASSUME OtaInv, NEW index \in Image, SendPacket(index), burnt' \subseteq Image,
         NEW next \in 2 .. TotalPackets + 1, 1 .. next - 1 \subseteq offered',
         ota' = Continued([ota EXCEPT !.next = next])
  PROVE  OtaInv'
<1>1. ota' \in [state : OtaStates, next : 0 .. TotalPackets + 1, ready : BOOLEAN]
      /\ ota'.next = next /\ ota'.state \in Upgrading
      /\ (ota'.state = "wait_finish" => next = TotalPackets + 1)
  <2> DEFINE o == [ota EXCEPT !.next = next]
             state == IF next > TotalPackets THEN "wait_finish" ELSE "sending"
  <2>1. o \in [state : OtaStates, next : 0 .. TotalPackets + 1, ready : BOOLEAN] /\ o.next = next
    BY OtaAssumption DEF OtaInv, OtaTypeOK
  <2>2. ota' = [o EXCEPT !.state = state]
    BY <2>1 DEF Continued
  <2>3. state \in Upgrading /\ state \in OtaStates /\ (state = "wait_finish" => next = TotalPackets + 1)
    BY OtaAssumption, OtherStates
  <2> HIDE DEF o, state
  <2> QED BY <2>1, <2>2, <2>3
<1>2. slots' \in [mode : {"closed", "tx", "rx", "upgrade"}, packet : 0 .. TotalPackets]
      /\ slots'.packet = index
  BY OtaAssumption DEF SendPacket, Image
<1>3. offered' \subseteq Image
  BY DEF SendPacket, OtaInv, OtaTypeOK
<1> QED BY <1>1, <1>2, <1>3, OtherStates DEF OtaInv, OtaTypeOK

\* The radio set up without a packet.
LEMMA HandshakeKeeps ==
  ASSUME OtaInv, NEW m \in {"closed", "tx", "rx"}, Mode(m), NEW state \in OtaStates \ Upgrading,
         NEW ready \in BOOLEAN, ota' = [ota EXCEPT !.state = state, !.ready = ready],
         UNCHANGED burnt, offered' \in {offered, {}}
  PROVE  OtaInv'
<1>1. ota' \in [state : OtaStates, next : 0 .. TotalPackets + 1, ready : BOOLEAN] /\ ota'.state = state
  BY DEF OtaInv, OtaTypeOK
<1>2. slots' \in [mode : {"closed", "tx", "rx", "upgrade"}, packet : 0 .. TotalPackets]
      /\ slots'.mode # "upgrade"
  BY OtaAssumption DEF Mode
<1>3. state # "wait_finish"
  BY OtherStates
<1> QED BY <1>1, <1>2, <1>3 DEF OtaInv, OtaTypeOK

LEMMA OtaStepInv == OtaInv /\ [OtaNext]_otaVars => OtaInv'
<1> SUFFICES ASSUME OtaInv, OtaNext PROVE OtaInv'
  BY DEF otaVars, OtaInv, OtaTypeOK
<1>0. /\ ota \in [state : OtaStates, next : 0 .. TotalPackets + 1, ready : BOOLEAN]
      /\ burnt \subseteq Image /\ offered \subseteq Image
  BY DEF OtaInv, OtaTypeOK
<1>1. ASSUME Fail, burnt' \subseteq Image PROVE OtaInv'
  BY <1>0, <1>1, ClosingKeeps, OtherStates DEF Fail
<1>2. CASE OtaStart
  <2>1. burnt' \subseteq Image /\ offered' = {} /\ ota.state \in Ended
    BY <1>0, <1>2 DEF OtaStart
  <2>2. CASE ota' = [ota EXCEPT !.state = "failed"] /\ UNCHANGED slots
    <3>1. ota' \in [state : OtaStates, next : 0 .. TotalPackets + 1, ready : BOOLEAN]
          /\ ota'.state = "failed"
      BY <1>0, <2>2, OtherStates
    <3> QED BY <2>1, <2>2, <3>1, OtherStates DEF OtaInv, OtaTypeOK
  <2>3. CASE Fail
    BY <1>1, <2>1, <2>3
  <2>4. CASE ota' = [state |-> "wait_handshake_tx", next |-> ota.next, ready |-> TRUE] /\ Mode("tx")
    <3>1. ota' \in [state : OtaStates, next : 0 .. TotalPackets + 1, ready : BOOLEAN]
          /\ ota'.state = "wait_handshake_tx"
      BY <1>0, <2>4, OtherStates
    <3>2. slots' \in [mode : {"closed", "tx", "rx", "upgrade"}, packet : 0 .. TotalPackets]
          /\ slots'.mode = "tx"
      BY <2>4, OtaAssumption DEF Mode
    <3> QED BY <2>1, <3>1, <3>2, OtherStates DEF OtaInv, OtaTypeOK
  <2> QED BY <1>2, <2>2, <2>3, <2>4 DEF OtaStart
<1>3. CASE OtaTimedOut
  <2>1. CASE ota.state \in Handshaking
    <3>1. slots.mode \in {"closed", "tx", "rx"} /\ ota.state \in OtaStates \ Upgrading
      BY <2>1, OtherStates DEF OtaInv, OtaTypeOK
    <3>2. UNCHANGED <<burnt, offered>> /\ HandshakeRequest
      BY <1>3, <2>1 DEF OtaTimedOut
    <3>3. CASE ota' = [ota EXCEPT !.state = "wait_handshake_tx", !.ready = TRUE] /\ Mode("tx")
      BY <3>2, <3>3, HandshakeKeeps, OtherStates
    <3>4. ASSUME NEW m \in {slots.mode, "tx"}, ota' = [ota EXCEPT !.ready = @ \/ m = "tx"], Mode(m)
          PROVE  OtaInv'
      <4>1. m \in {"closed", "tx", "rx"} /\ (ota.ready \/ m = "tx") \in BOOLEAN
        BY <1>0, <3>1
      <4>2. ota' = [ota EXCEPT !.state = ota.state, !.ready = ota.ready \/ m = "tx"]
        BY <1>0, <3>4
      <4> QED BY <3>1, <3>2, <3>4, <4>1, <4>2, HandshakeKeeps
    <3> QED BY <3>2, <3>3, <3>4 DEF HandshakeRequest
  <2>2. CASE ota.state \notin Handshaking
    BY <1>0, <1>3, <2>2, ClosingKeeps, OtherStates DEF OtaTimedOut
  <2> QED BY <2>1, <2>2
<1>4. CASE RequestSent
  <2>1. UNCHANGED <<burnt, offered>>
    BY <1>4 DEF RequestSent
  <2>2. CASE ota' = [ota EXCEPT !.state = "wait_handshake_response"] /\ Mode("rx")
    <3>1. ota' = [ota EXCEPT !.state = "wait_handshake_response", !.ready = ota.ready]
      BY <1>0, <2>2
    <3> QED BY <1>0, <2>1, <2>2, <3>1, HandshakeKeeps, OtherStates
  <2>3. CASE Closing("failed")
    BY <1>0, <2>1, <2>3, ClosingKeeps, OtherStates
  <2> QED BY <1>4, <2>2, <2>3 DEF RequestSent
<1>5. CASE ResponseHeard
  <2>1. UNCHANGED <<burnt, offered>>
    BY <1>5 DEF ResponseHeard, HandshakeAck
  <2>2. CASE ota' = [ota EXCEPT !.state = "wait_ack_tx"] /\ Mode("tx")
    <3>1. ota' = [ota EXCEPT !.state = "wait_ack_tx", !.ready = ota.ready]
      BY <1>0, <2>2
    <3> QED BY <1>0, <2>1, <2>2, <3>1, HandshakeKeeps, OtherStates
  <2>3. CASE Closing("failed") \/ Closing("version_same")
    BY <1>0, <2>1, <2>3, ClosingKeeps, OtherStates
  <2> QED BY <1>5, <2>2, <2>3 DEF ResponseHeard, HandshakeAck
<1>6. CASE AckSent
  <2>1. UNCHANGED burnt
    BY <1>6 DEF AckSent
  <2>2. CASE InitUpgradeSlots
    <3>1. ota' \in [state : OtaStates, next : 0 .. TotalPackets + 1, ready : BOOLEAN]
          /\ ota'.state = "wait_upgrade_bcn" /\ ota'.next = 2 /\ 2 \in 2 .. TotalPackets + 1
      BY <2>2, OtaAssumption, OtherStates DEF InitUpgradeSlots
    <3>2. slots' \in [mode : {"closed", "tx", "rx", "upgrade"}, packet : 0 .. TotalPackets]
          /\ slots'.packet = 1 /\ 1 \in Image
      BY <2>2, OtaAssumption DEF InitUpgradeSlots, SendPacket, Image
    <3>3. offered' = offered \cup {1}
      BY <2>2 DEF InitUpgradeSlots, SendPacket
    <3> QED BY <1>0, <2>1, <3>1, <3>2, <3>3, OtherStates DEF OtaInv, OtaTypeOK
  <2>3. CASE Fail
    BY <1>0, <1>1, <2>1, <2>3
  <2> QED BY <1>6, <2>2, <2>3 DEF AckSent
<1>7. CASE TxSlotDone
  <2>1. burnt' \subseteq Image
    BY <1>0, <1>7 DEF TxSlotDone, OtaInv
  <2>2. CASE ota.state # "sending"
    BY <1>7, <2>1, <2>2 DEF TxSlotDone, OtaInv, OtaTypeOK
  <2>3. CASE ota.state = "sending"
    <3>1. SendNextPacket /\ ota.next \in 2 .. TotalPackets + 1 /\ 1 .. ota.next - 1 \subseteq offered
      BY <1>7, <2>3, OtherStates DEF TxSlotDone, OtaInv
    <3>2. CASE ota.next > TotalPackets
      <4>1. ota' = [ota EXCEPT !.state = "wait_finish"] /\ UNCHANGED <<slots, offered>>
        BY <3>1, <3>2 DEF SendNextPacket
      <4>2. ota' \in [state : OtaStates, next : 0 .. TotalPackets + 1, ready : BOOLEAN]
            /\ ota'.state = "wait_finish" /\ ota'.next = TotalPackets + 1 /\ ota'.next = ota.next
        BY <1>0, <3>1, <3>2, <4>1, OtaAssumption, OtherStates
      <4> QED BY <2>1, <3>1, <4>1, <4>2, OtherStates DEF OtaInv, OtaTypeOK
    <3>3. ASSUME ota.next <= TotalPackets, SendPacket(ota.next),
                 ota' = Continued([ota EXCEPT !.next = @ + 1])
          PROVE  OtaInv'
      <4>1. ota.next \in Image /\ ota.next + 1 \in 2 .. TotalPackets + 1
            /\ 1 .. (ota.next + 1) - 1 \subseteq offered'
        BY <3>1, <3>3, OtaAssumption DEF Image, SendPacket
      <4> QED BY <2>1, <3>3, <4>1, SendKeeps
    <3>4. CASE Fail
      BY <1>1, <2>1, <3>4
    <3> QED BY <3>1, <3>2, <3>3, <3>4, OtaAssumption DEF SendNextPacket
  <2> QED BY <2>2, <2>3
<1>8. CASE BeaconHeard
  <2>1. ota' \in [state : OtaStates, next : 0 .. TotalPackets + 1, ready : BOOLEAN]
        /\ ota'.state = "sending" /\ ota'.next = ota.next /\ ota.state \in Upgrading
    BY <1>0, <1>8, OtherStates DEF BeaconHeard
  <2> QED BY <1>8, <2>1, OtherStates DEF BeaconHeard, OtaInv, OtaTypeOK
<1>9. CASE ResendAsked
  <2>1. UNCHANGED burnt /\ ota.state \in Upgrading
    BY <1>9 DEF ResendAsked
  <2>2. ASSUME NEW index \in Image, SendPacket(index), ota' = Continued(Resent(index)) PROVE OtaInv'
    <3>1. ota.next \in 2 .. TotalPackets + 1 /\ 1 .. ota.next - 1 \subseteq offered'
      BY <2>1, <2>2 DEF OtaInv, SendPacket
    <3>2. Resent(index) = [ota EXCEPT !.next = ota.next]
      BY <1>0 DEF Resent
    <3> QED BY <1>0, <2>1, <2>2, <3>1, <3>2, SendKeeps
  <2>3. CASE Fail
    BY <1>0, <1>1, <2>1, <2>3
  <2>4. PICK index \in 0 .. TotalPackets + 1 :
          \/ index \in Image /\ SendPacket(index) /\ ota' = Continued(Resent(index))
          \/ Fail
    BY <1>9, Zenon DEF ResendAsked
  <2>5. CASE index \in Image /\ SendPacket(index) /\ ota' = Continued(Resent(index))
    BY <2>2, <2>5
  <2> QED BY <2>3, <2>4, <2>5
<1>10. CASE FinishHeard
  BY <1>0, <1>10, ClosingKeeps, OtherStates DEF FinishHeard
<1> QED
  BY <1>2, <1>3, <1>4, <1>5, <1>6, <1>7, <1>8, <1>9, <1>10 DEF OtaNext

\* Whatever the receiver asks for again and whatever fails, the sender waits for the
\* end only when the radio was given every packet (rx_ota_sender.c:264-313).
THEOREM NoneLeftOut == OtaSpec => [](OtaTypeOK /\ OtaOffersAll)
<1>1. OtaInv => OtaTypeOK /\ OtaOffersAll
  <2>1. OtaInv /\ ota.state = "wait_finish" => 1 .. (TotalPackets + 1) - 1 \subseteq offered
    BY OtherStates DEF OtaInv
  <2>2. (TotalPackets + 1) - 1 = TotalPackets
    BY OtaAssumption
  <2> QED BY <2>1, <2>2 DEF OtaInv, OtaTypeOK, OtaOffersAll, Image
<1> QED BY <1>1, OtaInitInv, OtaStepInv, PTL DEF OtaSpec
-----------------------------------------------------------------------------
(* The parts together *)

-----------------------------------------------------------------------------
(* The ring between the UART interrupt and the main loop *)
Places == 0..RingSize - 1
RingBytes == 0..MaxUartBytes
Readers == [at : {"idle", "wr", "copy", "resetWr"}, rd : Places, n : 0..MaxRead,
            copied : Seq(RingBytes)]

\* The i-th place of the ring from a on.
Place(a, i) == IF a + i - 1 < RingSize THEN a + i - 1 ELSE a + i - 1 - RingSize

RingTypes ==
  /\ rxWr \in Places /\ rxRd \in Places
  /\ rxData \in [Places -> RingBytes]
  /\ reader \in Readers /\ reader.n < RingSize
  /\ IF reader.at = "copy" THEN Len(reader.copied) <= reader.n ELSE reader.copied = <<>>
  /\ delivered \in Seq(RingBytes) /\ kept \in Seq(RingBytes)
  /\ uartBytes \in 0..MaxUartBytes
  /\ raced \in BOOLEAN

\* What was kept is what was delivered and then what waits.
KeptRight(dlv, kpt, rd, wr, bytes) ==
  /\ Len(kpt) = Len(dlv) + Stored(rd, wr)
  /\ \A i \in 1..Len(dlv) : kpt[i] = dlv[i]
  /\ \A i \in 1..Stored(rd, wr) : kpt[Len(dlv) + i] = bytes[Place(rd, i)]

\* As long as nothing raced, what the main loop has loaded and copied is what the ring
\* still holds.
RingInv ==
  /\ RingTypes
  /\ ~raced =>
       /\ IF reader.at = "resetWr" THEN kept = delivered /\ rxRd = 0
          ELSE KeptRight(delivered, kept, rxRd, rxWr, rxData)
       /\ reader.at \in {"wr", "copy"} => reader.rd = rxRd
       /\ reader.at = "copy" =>
            /\ reader.n <= Stored(rxRd, rxWr)
            /\ \A i \in 1..Len(reader.copied) : reader.copied[i] = rxData[Place(rxRd, i)]

LEMMA RoundTheRing ==
  \A x \in Nat :
    x < 2 * RingSize => x % RingSize = IF x < RingSize THEN x ELSE x - RingSize
<1> USE RingAssumption
<1> TAKE x \in Nat
<1> HAVE x < 2 * RingSize
<1>1. CASE x < RingSize
  BY <1>1
<1>2. CASE x >= RingSize
  BY <1>2
<1> QED BY <1>1, <1>2

LEMMA StoredFacts ==
  ASSUME NEW rd \in Places, NEW wr \in Places
  PROVE  /\ Stored(rd, wr) \in 0..RingSize - 1
         /\ rd = wr <=> Stored(rd, wr) = 0
         /\ (wr + 1) % RingSize \in Places /\ (rd + 1) % RingSize \in Places
         /\ (wr + 1) % RingSize = rd <=> Stored(rd, wr) = RingSize - 1
         /\ (wr + 1) % RingSize # rd => Stored(rd, (wr + 1) % RingSize) = Stored(rd, wr) + 1
         /\ (wr + 1) % RingSize = rd =>
              Stored((rd + 1) % RingSize, (wr + 1) % RingSize) = Stored(rd, wr)
         /\ Place(rd, Stored(rd, wr) + 1) = wr
         /\ \A i \in 1..Stored(rd, wr) : Place(rd, i) \in Places /\ Place(rd, i) # wr
<1>1. RingSize \in Nat /\ RingSize > 1
  BY RingAssumption
<1>2. (wr + 1) % RingSize = IF wr + 1 < RingSize THEN wr + 1 ELSE 0
  BY <1>1, RoundTheRing DEF Places
<1>3. (rd + 1) % RingSize = IF rd + 1 < RingSize THEN rd + 1 ELSE 0
  BY <1>1, RoundTheRing DEF Places
<1>4. rd \in Nat /\ wr \in Nat /\ rd < RingSize /\ wr < RingSize
  BY <1>1 DEF Places
<1>5. (wr + 1) % RingSize \in Places /\ (rd + 1) % RingSize \in Places
  BY <1>1, <1>2, <1>3, <1>4 DEF Places
<1>6. Stored(rd, wr) \in 0..RingSize - 1 /\ (rd = wr <=> Stored(rd, wr) = 0)
  BY <1>1, <1>4 DEF Stored
<1>7. (wr + 1) % RingSize = rd <=> Stored(rd, wr) = RingSize - 1
  BY <1>1, <1>2, <1>4 DEF Stored
<1>8. (wr + 1) % RingSize # rd => Stored(rd, (wr + 1) % RingSize) = Stored(rd, wr) + 1
  BY <1>1, <1>2, <1>4 DEF Stored
<1>9. (wr + 1) % RingSize = rd =>
              Stored((rd + 1) % RingSize, (wr + 1) % RingSize) = Stored(rd, wr)
  BY <1>1, <1>2, <1>3, <1>4 DEF Stored
<1>10. Place(rd, Stored(rd, wr) + 1) = wr
  BY <1>1, <1>4 DEF Stored, Place
<1>11. \A i \in 1..Stored(rd, wr) : Place(rd, i) \in Places /\ Place(rd, i) # wr
  BY <1>1, <1>4 DEF Stored, Place, Places
<1> QED BY <1>5, <1>6, <1>7, <1>8, <1>9, <1>10, <1>11

\* A byte that finds room joins the end of what waits.
LEMMA ByteAppended ==
  ASSUME RingTypes, KeptRight(delivered, kept, rxRd, rxWr, rxData), ~Full, NEW b \in RingBytes
  PROVE  KeptRight(delivered, Append(kept, b), rxRd, (rxWr + 1) % RingSize,
                   [rxData EXCEPT ![rxWr] = b])
<1>1. /\ rxWr \in Places /\ rxRd \in Places /\ rxData \in [Places -> RingBytes]
      /\ kept \in Seq(RingBytes) /\ Len(delivered) \in Nat
      /\ RingSize \in Nat /\ RingSize > 1 /\ rxWr \in Nat /\ rxRd \in Nat
  BY RingAssumption DEF RingTypes, Places
<1> DEFINE n == Stored(rxRd, rxWr)
           wr == (rxWr + 1) % RingSize
           bytes == [rxData EXCEPT ![rxWr] = b]
<1>2. /\ n \in Nat /\ Stored(rxRd, wr) = n + 1 /\ Place(rxRd, n + 1) = rxWr
      /\ \A i \in 1..n : Place(rxRd, i) \in Places /\ Place(rxRd, i) # rxWr
  <2>1. (rxWr + 1) % RingSize # rxRd
    BY DEF Full
  <2> QED BY <1>1, <2>1, StoredFacts
<1>3. /\ Len(kept) = Len(delivered) + n
      /\ \A i \in 1..Len(delivered) : kept[i] = delivered[i]
      /\ \A i \in 1..n : kept[Len(delivered) + i] = rxData[Place(rxRd, i)]
  BY DEF KeptRight
<1>4. bytes[rxWr] = b /\ \A i \in 1..n : bytes[Place(rxRd, i)] = rxData[Place(rxRd, i)]
  BY <1>1, <1>2
<1>5. /\ Len(Append(kept, b)) = Len(kept) + 1 /\ Append(kept, b)[Len(kept) + 1] = b
      /\ \A i \in 1..Len(kept) : Append(kept, b)[i] = kept[i]
  BY <1>1
<1> HIDE DEF n, wr, bytes
<1>6. Len(kept) \in Nat
  BY <1>1
<1>7. \A i \in 1..n + 1 : Append(kept, b)[Len(delivered) + i] = bytes[Place(rxRd, i)]
  <2> SUFFICES ASSUME NEW i \in 1..n + 1
               PROVE  Append(kept, b)[Len(delivered) + i] = bytes[Place(rxRd, i)]
    OBVIOUS
  <2>1. CASE i = n + 1
    BY <1>1, <1>2, <1>3, <1>4, <1>5, <2>1
  <2>2. CASE i # n + 1
    <3>1. i \in 1..n /\ Len(delivered) + i \in 1..Len(kept)
      BY <1>1, <1>2, <1>3, <2>2
    <3> QED BY <1>3, <1>4, <1>5, <3>1
  <2> QED BY <2>1, <2>2
<1>8. \A i \in 1..Len(delivered) : Append(kept, b)[i] = delivered[i]
  BY <1>1, <1>2, <1>3, <1>5
<1>9. Len(Append(kept, b)) = Len(delivered) + (n + 1) /\ Stored(rxRd, wr) = n + 1
  BY <1>1, <1>2, <1>3, <1>5, <1>6
<1>10. KeptRight(delivered, Append(kept, b), rxRd, wr, bytes)
  BY <1>7, <1>8, <1>9 DEF KeptRight
<1> QED BY <1>10 DEF wr, bytes

\* A byte that finds the ring full takes the place of the oldest that waits.
LEMMA OldestReplaced ==
  ASSUME RingTypes, KeptRight(delivered, kept, rxRd, rxWr, rxData), Full, NEW b \in RingBytes
  PROVE  /\ WithoutOldest \in Seq(RingBytes)
         /\ KeptRight(delivered, Append(WithoutOldest, b), (rxRd + 1) % RingSize,
                      (rxWr + 1) % RingSize, [rxData EXCEPT ![rxWr] = b])
<1>1. /\ rxWr \in Places /\ rxRd \in Places /\ rxData \in [Places -> RingBytes]
      /\ kept \in Seq(RingBytes) /\ Len(delivered) \in Nat /\ Len(kept) \in Nat
      /\ RingSize \in Nat /\ RingSize > 1 /\ rxWr \in Nat /\ rxRd \in Nat
  BY RingAssumption DEF RingTypes, Places
<1> DEFINE n == Stored(rxRd, rxWr)
           wr == (rxWr + 1) % RingSize
           rd == (rxRd + 1) % RingSize
           bytes == [rxData EXCEPT ![rxWr] = b]
           d == Len(delivered)
<1>2. /\ n = RingSize - 1 /\ Stored(rd, wr) = n /\ wr = rxRd /\ rd \in Places
      /\ \A i \in 1..n : Place(rxRd, i) \in Places /\ Place(rxRd, i) # rxWr
  BY <1>1, StoredFacts DEF Full
<1>3. /\ Len(kept) = d + n
      /\ \A i \in 1..d : kept[i] = delivered[i]
      /\ \A i \in 1..n : kept[d + i] = rxData[Place(rxRd, i)]
  BY DEF KeptRight
<1>4. /\ rd = IF rxRd + 1 < RingSize THEN rxRd + 1 ELSE 0
      /\ Place(rxRd, n + 1) = rxWr
      /\ \A i \in 1..n : Place(rd, i) = Place(rxRd, i + 1)
  <2>1. rd = IF rxRd + 1 < RingSize THEN rxRd + 1 ELSE 0
    <3>1. rxRd \in Nat /\ rxRd + 1 \in Nat /\ rxRd + 1 < 2 * RingSize /\ rxRd < RingSize
      BY <1>1 DEF Places
    <3>a. PICK x \in Nat : x = rxRd + 1
      BY <3>1
    <3>2. rd = IF rxRd + 1 < RingSize THEN rxRd + 1 ELSE rxRd + 1 - RingSize
      <4>1. x % RingSize = IF x < RingSize THEN x ELSE x - RingSize
        BY <3>1, <3>a, RoundTheRing
      <4> QED BY <1>1, <3>1, <3>a, <4>1
    <3> HIDE DEF rd
    <3> QED BY <1>1, <3>1, <3>2
  <2>2. Place(rxRd, n + 1) = rxWr
    BY <1>1, StoredFacts
  <2>3. rxRd \in Nat /\ rxRd < RingSize
    BY <1>1 DEF Places
  <2> HIDE DEF rd, n
  <2> QED BY <1>1, <1>2, <2>1, <2>2, <2>3 DEF Place
<1>5. bytes[rxWr] = b /\ \A i \in 1..n : bytes[Place(rxRd, i)] = rxData[Place(rxRd, i)]
  BY <1>1, <1>2
<1> DEFINE w == WithoutOldest
<1>6. /\ w \in Seq(RingBytes) /\ Len(w) = Len(kept) - 1
      /\ \A i \in 1..Len(kept) - 1 : w[i] = IF i <= d THEN kept[i] ELSE kept[i + 1]
  <2>1. w = [i \in 1..Len(kept) - 1 |-> IF i <= d THEN kept[i] ELSE kept[i + 1]]
    BY DEF WithoutOldest
  <2>2. Len(kept) - 1 \in Nat
    BY <1>1, <1>2, <1>3
  <2>3. \A i \in 1..Len(kept) - 1 : kept[i] \in RingBytes /\ kept[i + 1] \in RingBytes
    BY <1>1
  <2> HIDE DEF w
  <2>4. w \in [1..Len(kept) - 1 -> RingBytes]
    BY <2>1, <2>3
  <2>5. w \in Seq(RingBytes)
    BY <2>2, <2>4
  <2> QED BY <2>1, <2>2, <2>5
<1> HIDE DEF n, wr, rd, bytes, w
<1>7. /\ Len(Append(w, b)) = Len(kept) /\ Append(w, b)[Len(kept)] = b
      /\ \A i \in 1..Len(kept) - 1 : Append(w, b)[i] = w[i]
  BY <1>1, <1>6
<1> HIDE DEF d
<1>8. d \in Nat /\ n \in Nat /\ n >= 1
  BY <1>1, <1>2 DEF d
<1>9. \A i \in 1..d : Append(w, b)[i] = delivered[i]
  <2> SUFFICES ASSUME NEW i \in 1..d PROVE Append(w, b)[i] = delivered[i]
    OBVIOUS
  <2>1. i \in 1..Len(kept) - 1 /\ i <= d
    BY <1>1, <1>3, <1>8
  <2> QED BY <1>3, <1>6, <1>7, <2>1
<1>10. \A i \in 1..n : Append(w, b)[d + i] = bytes[Place(rd, i)]
  <2> SUFFICES ASSUME NEW i \in 1..n PROVE Append(w, b)[d + i] = bytes[Place(rd, i)]
    OBVIOUS
  <2>1. CASE i = n
    BY <1>3, <1>4, <1>5, <1>7, <1>8, <2>1
  <2>2. CASE i # n
    <3>1. d + i \in 1..Len(kept) - 1 /\ ~(d + i <= d) /\ i + 1 \in 1..n
          /\ d + i + 1 = d + (i + 1)
      BY <1>1, <1>3, <1>8, <2>2
    <3>2. Append(w, b)[d + i] = kept[d + (i + 1)]
      BY <1>6, <1>7, <3>1
    <3>3. kept[d + (i + 1)] = rxData[Place(rxRd, i + 1)]
      BY <1>3, <3>1
    <3> QED BY <1>4, <1>5, <3>1, <3>2, <3>3
  <2> QED BY <2>1, <2>2
<1> QED BY <1>1, <1>2, <1>3, <1>6, <1>7, <1>9, <1>10 DEF KeptRight, wr, rd, bytes, w, d

LEMMA RingStarts == RingInit => RingInv
<1> SUFFICES ASSUME RingInit PROVE RingInv
  OBVIOUS
<1>1. RingSize \in Nat /\ RingSize > 1 /\ MaxRead \in Nat /\ MaxUartBytes \in Nat
  BY RingAssumption
<1>2. RingTypes
  BY <1>1 DEF RingInit, RingTypes, Places, RingBytes, Readers, Idle
<1>3. Stored(rxRd, rxWr) = 0
  BY <1>1 DEF RingInit, Stored
<1>4. KeptRight(delivered, kept, rxRd, rxWr, rxData)
  BY <1>3 DEF RingInit, KeptRight
<1> QED BY <1>2, <1>4 DEF RingInv, RingInit, Idle

LEMMA UartByteStep == RingInv /\ UartByte => RingInv'
<1> SUFFICES ASSUME RingInv, UartByte PROVE RingInv'
  OBVIOUS
<1> DEFINE b == uartBytes + 1
<1>1. RingTypes /\ RingSize \in Nat /\ RingSize > 1 /\ MaxUartBytes \in Nat
  BY RingAssumption DEF RingInv
<1>2. b \in RingBytes /\ uartBytes' = b
  BY <1>1 DEF UartByte, RingTypes, RingBytes
<1>3. /\ rxData' = [rxData EXCEPT ![rxWr] = b] /\ rxWr' = (rxWr + 1) % RingSize
      /\ rxRd' = IF Full THEN (rxRd + 1) % RingSize ELSE rxRd
      /\ kept' = Append(IF Full THEN WithoutOldest ELSE kept, b)
      /\ UNCHANGED <<reader, delivered>>
      /\ raced' = (raced \/ reader.at = "resetWr" \/ (Full /\ reader.at # "idle"))
  BY <1>2 DEF UartByte
<1> HIDE DEF b
<1>4. /\ rxWr \in Places /\ rxRd \in Places /\ rxData \in [Places -> RingBytes]
      /\ kept \in Seq(RingBytes) /\ rxWr \in Nat /\ rxRd \in Nat
  BY <1>1 DEF RingTypes, Places
<1>5. WithoutOldest \in Seq(RingBytes)
  <2>1. \A i \in 1..Len(kept) - 1 : kept[i] \in RingBytes /\ kept[i + 1] \in RingBytes
    BY <1>4
  <2>2. WithoutOldest \in [1..Len(kept) - 1 -> RingBytes]
    BY <2>1 DEF WithoutOldest
  <2>3. CASE Len(kept) >= 1
    BY <1>4, <2>2, <2>3
  <2>4. CASE Len(kept) = 0
    <3>1. 1..Len(kept) - 1 = 1..0
      BY <2>4
    <3> QED BY <2>2, <3>1
  <2> QED BY <1>4, <2>3, <2>4
<1>6. RingTypes'
  <2>1. rxWr' \in Places /\ rxRd' \in Places
    BY <1>3, <1>4, StoredFacts
  <2>2. rxData' \in [Places -> RingBytes] /\ kept' \in Seq(RingBytes)
    BY <1>2, <1>3, <1>4, <1>5
  <2> QED BY <1>1, <1>2, <1>3, <2>1, <2>2 DEF RingTypes, RingBytes
<1>7. ASSUME ~raced' PROVE
        /\ IF reader'.at = "resetWr" THEN kept' = delivered' /\ rxRd' = 0
           ELSE KeptRight(delivered', kept', rxRd', rxWr', rxData')
        /\ reader'.at \in {"wr", "copy"} => reader'.rd = rxRd'
        /\ reader'.at = "copy" =>
            /\ reader'.n <= Stored(rxRd', rxWr')
            /\ \A i \in 1..Len(reader'.copied) : reader'.copied[i] = rxData'[Place(rxRd', i)]
  <2>1. ~raced /\ reader.at # "resetWr" /\ (Full => reader.at = "idle")
    BY <1>3, <1>7
  <2>2. KeptRight(delivered, kept, rxRd, rxWr, rxData)
    BY <2>1 DEF RingInv
  <2>3. CASE Full
    BY <1>1, <1>2, <1>3, <2>1, <2>2, <2>3, OldestReplaced
  <2>4. CASE ~Full
    <3>1. KeptRight(delivered', kept', rxRd', rxWr', rxData')
      BY <1>1, <1>2, <1>3, <2>2, <2>4, ByteAppended
    <3>2. /\ Stored(rxRd', rxWr') = Stored(rxRd, rxWr) + 1 /\ Stored(rxRd, rxWr) \in Nat
          /\ rxRd' = rxRd
          /\ \A i \in 1..Stored(rxRd, rxWr) : Place(rxRd, i) \in Places /\ Place(rxRd, i) # rxWr
      <4>1. (rxWr + 1) % RingSize # rxRd /\ rxRd' = rxRd
        BY <1>3, <2>4 DEF Full
      <4>2. /\ Stored(rxRd, rxWr) \in Nat
            /\ \A i \in 1..Stored(rxRd, rxWr) : Place(rxRd, i) \in Places /\ Place(rxRd, i) # rxWr
            /\ Stored(rxRd, (rxWr + 1) % RingSize) = Stored(rxRd, rxWr) + 1
        BY <1>1, <1>4, <4>1, StoredFacts
      <4> QED BY <1>3, <4>1, <4>2
    <3>3. CASE reader.at = "copy"
      <4>1. /\ reader.n <= Stored(rxRd, rxWr) /\ reader.n \in Nat /\ Len(reader.copied) \in Nat
            /\ Len(reader.copied) <= reader.n
            /\ \A i \in 1..Len(reader.copied) : reader.copied[i] = rxData[Place(rxRd, i)]
        BY <1>1, <2>1, <3>3, RingAssumption DEF RingInv, RingTypes, Readers
      <4>2. \A i \in 1..Len(reader.copied) : rxData'[Place(rxRd, i)] = rxData[Place(rxRd, i)]
        BY <1>3, <1>4, <3>2, <4>1
      <4> QED BY <1>3, <2>1, <3>1, <3>2, <3>3, <4>1, <4>2 DEF RingInv
    <3>4. CASE reader.at # "copy"
      BY <1>3, <2>1, <3>1, <3>2, <3>4 DEF RingInv
    <3> QED BY <3>3, <3>4
  <2> QED BY <2>3, <2>4
<1> QED BY <1>6, <1>7 DEF RingInv

\* Any step of the main loop that leaves the ring alone.
LEMMA LoadStep == RingInv /\ (LoadRd \/ LoadWr \/ CopyByte) => RingInv'
<1> SUFFICES ASSUME RingInv, LoadRd \/ LoadWr \/ CopyByte PROVE RingInv'
  OBVIOUS
<1>1. RingTypes /\ RingSize \in Nat /\ RingSize > 1 /\ MaxUartBytes \in Nat /\ MaxRead \in Nat
  BY RingAssumption DEF RingInv
<1>2. /\ UNCHANGED <<rxWr, rxRd, rxData, delivered, kept, uartBytes, raced>>
      /\ reader.at # "resetWr"
  BY DEF LoadRd, LoadWr, CopyByte, ring
<1>3. /\ rxWr \in Places /\ rxRd \in Places /\ rxData \in [Places -> RingBytes]
      /\ reader \in Readers
  BY <1>1 DEF RingTypes
<1>4. CASE LoadRd
  <2>1. reader' = [at |-> "wr", rd |-> rxRd, n |-> 0, copied |-> <<>>]
    BY <1>4 DEF LoadRd, Idle
  <2>2. RingTypes'
    BY <1>1, <1>2, <1>3, <2>1 DEF RingTypes, Readers
  <2> QED BY <1>2, <2>1, <2>2 DEF RingInv
<1>5. CASE LoadWr
  <2> DEFINE a == Stored(reader.rd, rxWr)
             m == IF MaxRead < a THEN MaxRead ELSE a
  <2>1. a \in 0..RingSize - 1
    BY <1>3, StoredFacts DEF Readers
  <2>2. reader.at = "wr" /\ reader' = [reader EXCEPT !.at = "copy", !.n = m]
    BY <1>5 DEF LoadWr
  <2>3. m \in 0..MaxRead /\ m < RingSize /\ m <= a
    BY <1>1, <2>1
  <2> HIDE DEF m
  <2>4. /\ reader' \in Readers /\ reader'.at = "copy" /\ reader'.n = m /\ reader'.rd = reader.rd
        /\ reader'.copied = reader.copied
    BY <1>3, <2>2, <2>3 DEF Readers
  <2>5. reader.copied = <<>>
    BY <2>2 DEF RingInv, RingTypes
  <2>6. RingTypes'
    BY <1>1, <1>2, <2>3, <2>4, <2>5 DEF RingTypes
  <2> QED BY <1>2, <2>2, <2>3, <2>4, <2>5, <2>6 DEF RingInv
<1>6. CASE CopyByte
  <2> DEFINE l == Len(reader.copied)
             c == rxData[(reader.rd + l) % RingSize]
  <2>1. /\ reader.at = "copy" /\ l < reader.n /\ l \in Nat
        /\ reader' = [reader EXCEPT !.copied = Append(@, c)]
    BY <1>3, <1>6 DEF CopyByte, Readers
  <2>2. reader.rd \in Places /\ reader.n \in Nat /\ reader.n < RingSize
    BY <1>1, <1>3 DEF Readers, RingTypes
  <2>3. (reader.rd + l) % RingSize = Place(reader.rd, l + 1) /\ Place(reader.rd, l + 1) \in Places
    <3>1. l \in Nat /\ l < RingSize /\ reader.rd \in 0..RingSize - 1
      <4> HIDE DEF l
      <4> QED BY <1>1, <2>1, <2>2 DEF Places
    <3> HIDE DEF l
    <3>2. reader.rd + l \in Nat /\ reader.rd + l < 2 * RingSize
      BY <1>1, <3>1
    <3>3. (reader.rd + l) % RingSize = IF reader.rd + l < RingSize THEN reader.rd + l
                                       ELSE reader.rd + l - RingSize
      BY <1>1, <3>1, <3>2, RoundTheRing
    <3>4. reader.rd + (l + 1) - 1 = reader.rd + l
      BY <3>1
    <3> QED BY <1>1, <3>1, <3>3, <3>4 DEF Place, Places
  <2>4. c \in RingBytes
    BY <1>3, <2>3
  <2> HIDE DEF c, l
  <2> DEFINE s == Append(reader.copied, c)
  <2>a. s \in Seq(RingBytes) /\ reader' = [reader EXCEPT !.copied = s]
    BY <1>3, <2>1, <2>4 DEF Readers
  <2> HIDE DEF s
  <2>b. /\ reader' \in Readers /\ reader'.at = reader.at /\ reader'.n = reader.n
        /\ reader'.rd = reader.rd /\ reader'.copied = s
    BY <1>3, <2>a DEF Readers
  <2>5. /\ reader' \in Readers /\ reader'.at = "copy" /\ reader'.n = reader.n
        /\ reader'.rd = reader.rd /\ reader'.copied = Append(reader.copied, c)
    BY <2>1, <2>b DEF s
  <2>6. /\ Len(reader'.copied) = l + 1 /\ reader'.copied[l + 1] = c
        /\ \A i \in 1..l : reader'.copied[i] = reader.copied[i]
    BY <1>3, <2>4, <2>5 DEF Readers, l
  <2>7. RingTypes'
    BY <1>1, <1>2, <2>1, <2>2, <2>5, <2>6 DEF RingTypes
  <2>8. ASSUME ~raced PROVE \A i \in 1..l + 1 : reader'.copied[i] = rxData[Place(rxRd, i)]
    <3> SUFFICES ASSUME NEW i \in 1..l + 1 PROVE reader'.copied[i] = rxData[Place(rxRd, i)]
      OBVIOUS
    <3>1. reader.rd = rxRd /\ \A j \in 1..l : reader.copied[j] = rxData[Place(rxRd, j)]
      BY <2>1, <2>8 DEF RingInv, l
    <3>2. CASE i = l + 1
      BY <2>3, <2>6, <3>1, <3>2 DEF c
    <3>3. CASE i # l + 1
      <4>1. i \in 1..l
        BY <2>1, <3>3
      <4> QED BY <2>6, <3>1, <4>1
    <3> QED BY <3>2, <3>3
  <2> QED BY <1>2, <2>1, <2>5, <2>6, <2>7, <2>8 DEF RingInv
<1> QED BY <1>4, <1>5, <1>6

\* The read is over: its bytes are delivered, and the ring begins behind them.
LEMMA StoreRdStep == RingInv /\ StoreRd => RingInv'
<1> SUFFICES ASSUME RingInv, StoreRd PROVE RingInv'
  OBVIOUS
<1>1. RingTypes /\ RingSize \in Nat /\ RingSize > 1 /\ MaxRead \in Nat
  BY RingAssumption DEF RingInv
<1> DEFINE l == Len(reader.copied)
           d == Len(delivered)
           dlv == delivered \o reader.copied
<1>2. /\ rxWr \in Places /\ rxRd \in Places /\ reader \in Readers
      /\ delivered \in Seq(RingBytes) /\ kept \in Seq(RingBytes)
      /\ rxWr \in Nat /\ rxRd \in Nat /\ rxWr < RingSize /\ rxRd < RingSize
  BY <1>1 DEF RingTypes, Places
<1>3. /\ reader.at = "copy" /\ l = reader.n /\ delivered' = dlv /\ reader' = Idle
      /\ rxRd' = IF reader.n = 0 THEN rxRd ELSE NewRd
      /\ UNCHANGED <<rxWr, rxData, kept, uartBytes, raced>>
  BY DEF StoreRd
<1>4. /\ reader.copied \in Seq(RingBytes) /\ l \in Nat /\ l < RingSize /\ d \in Nat
      /\ reader.rd \in Nat /\ reader.rd < RingSize
  BY <1>1, <1>2, <1>3 DEF RingTypes, Readers, Places
<1>5. /\ dlv \in Seq(RingBytes) /\ Len(dlv) = d + l
      /\ \A i \in 1..d : dlv[i] = delivered[i]
      /\ \A i \in 1..l : dlv[d + i] = reader.copied[i]
  BY <1>2, <1>4
<1> HIDE DEF l, d, dlv
<1>6. /\ rxRd' \in Places
      /\ reader.rd = rxRd =>
           rxRd' = IF rxRd + l < RingSize THEN rxRd + l ELSE rxRd + l - RingSize
  <2>1. NewRd = IF reader.rd + l >= RingSize THEN reader.rd + l - RingSize ELSE reader.rd + l
    <3>1. reader.n = l
      BY <1>3
    <3> QED BY <1>1, <1>4, <3>1 DEF NewRd
  <2>2. rxRd' = IF l = 0 THEN rxRd ELSE NewRd
    BY <1>3
  <2>3. NewRd \in Places
    BY <1>1, <1>4, <2>1 DEF Places
  <2>4. CASE l = 0
    BY <1>1, <1>2, <1>4, <2>2, <2>4
  <2>5. CASE l # 0
    BY <1>1, <1>2, <1>4, <2>1, <2>2, <2>3, <2>5
  <2> QED BY <2>4, <2>5
<1>7. RingTypes'
  <2>1. reader' \in Readers /\ reader'.at = "idle" /\ reader'.n = 0 /\ reader'.copied = <<>>
    BY <1>1, <1>3 DEF Readers, Idle, Places
  <2>2. delivered' \in Seq(RingBytes)
    BY <1>3, <1>5
  <2> QED BY <1>1, <1>3, <1>6, <2>1, <2>2 DEF RingTypes
<1>8. ASSUME ~raced PROVE KeptRight(dlv, kept, rxRd', rxWr, rxData)
  <2>1. /\ KeptRight(delivered, kept, rxRd, rxWr, rxData)
        /\ reader.rd = rxRd /\ l <= Stored(rxRd, rxWr)
        /\ \A i \in 1..l : reader.copied[i] = rxData[Place(rxRd, i)]
    BY <1>3, <1>8 DEF RingInv, l
  <2> DEFINE n == Stored(rxRd, rxWr)
  <2>2. /\ Len(kept) = d + n
        /\ \A i \in 1..d : kept[i] = delivered[i]
        /\ \A i \in 1..n : kept[d + i] = rxData[Place(rxRd, i)]
    BY <2>1 DEF KeptRight, d
  <2>3. n \in Nat /\ l <= n /\ rxRd \in Nat /\ rxWr \in Nat /\ rxRd < RingSize /\ rxWr < RingSize
    BY <1>1, <1>2, <2>1, StoredFacts
  <2>4. rxRd' = IF rxRd + l < RingSize THEN rxRd + l ELSE rxRd + l - RingSize
    BY <1>6, <2>1
  <2>5. Stored(rxRd', rxWr) = n - l
    BY <1>1, <1>4, <2>3, <2>4 DEF Stored
  <2>6. \A i \in 1..n - l : Place(rxRd', i) = Place(rxRd, l + i)
    <3>1. n < RingSize
      BY <1>1, <1>2, StoredFacts
    <3> HIDE DEF n
    <3> QED BY <1>1, <1>4, <2>3, <2>4, <3>1 DEF Place
  <2> HIDE DEF n
  <2>7. \A i \in 1..Len(dlv) : kept[i] = dlv[i]
    <3> SUFFICES ASSUME NEW i \in 1..d + l PROVE kept[i] = dlv[i]
      BY <1>5
    <3>1. CASE i <= d
      BY <1>4, <1>5, <2>2, <3>1
    <3>2. CASE i > d
      <4>1. i - d \in 1..l /\ i - d \in 1..n /\ d + (i - d) = i
        BY <1>4, <2>3, <3>2
      <4> QED BY <1>5, <2>1, <2>2, <4>1
    <3> QED BY <1>4, <3>1, <3>2
  <2>8. \A i \in 1..n - l : kept[Len(dlv) + i] = rxData[Place(rxRd', i)]
    <3> SUFFICES ASSUME NEW i \in 1..n - l PROVE kept[d + l + i] = rxData[Place(rxRd', i)]
      BY <1>5
    <3>1. l + i \in 1..n /\ d + (l + i) = d + l + i
      BY <1>4, <2>3
    <3> QED BY <2>2, <2>6, <3>1
  <2>9. Len(kept) = Len(dlv) + (n - l)
    BY <1>4, <1>5, <2>2, <2>3
  <2>10. Stored(rxRd', rxWr) = n - l
    BY <2>5 DEF n
  <2> HIDE DEF n
  <2> QED BY <2>7, <2>8, <2>9, <2>10 DEF KeptRight
<1>9. reader'.at = "idle"
  BY <1>3 DEF Idle
<1> QED BY <1>3, <1>7, <1>8, <1>9 DEF RingInv

\* The ring is emptied, in two steps.
LEMMA ResetStep == RingInv /\ (ResetRd \/ ResetWr) => RingInv'
<1> SUFFICES ASSUME RingInv, ResetRd \/ ResetWr PROVE RingInv'
  OBVIOUS
<1>1. RingTypes /\ RingSize \in Nat /\ RingSize > 1 /\ MaxRead \in Nat /\ MaxUartBytes \in Nat
  BY RingAssumption DEF RingInv
<1>2. CASE ResetRd
  <2>1. /\ reader' = [at |-> "resetWr", rd |-> 0, n |-> 0, copied |-> <<>>]
        /\ rxRd' = 0 /\ kept' = delivered /\ rxData' = [i \in 0..RingSize - 1 |-> 0]
        /\ UNCHANGED <<rxWr, delivered, uartBytes, raced>>
    BY <1>2 DEF ResetRd, Idle
  <2>2. RingTypes'
    BY <1>1, <2>1 DEF RingTypes, Readers, Places, RingBytes
  <2> QED BY <2>1, <2>2 DEF RingInv
<1>3. CASE ResetWr
  <2>1. /\ reader.at = "resetWr" /\ reader' = Idle /\ rxWr' = 0
        /\ UNCHANGED <<rxRd, rxData, delivered, kept, uartBytes, raced>>
    BY <1>3 DEF ResetWr
  <2>2. RingTypes'
    BY <1>1, <2>1 DEF RingTypes, Readers, Places, Idle
  <2>3. ~raced => KeptRight(delivered, delivered, 0, 0, rxData)
    BY DEF KeptRight, Stored
  <2> QED BY <2>1, <2>2, <2>3 DEF RingInv, Idle
<1> QED BY <1>2, <1>3

LEMMA RingStep == RingInv /\ [RingNext]_ringVars => RingInv'
<1>1. RingInv /\ UNCHANGED ringVars => RingInv'
  BY DEF RingInv, RingTypes, KeptRight, Stored, Place, ringVars
<1> QED BY <1>1, UartByteStep, LoadStep, StoreRdStep, ResetStep DEF RingNext

\* What waits, in its order, is what the invariant counts.
LEMMA RingOrdered == RingInv => RingTypeOK /\ RingKeepsOrder
<1> SUFFICES ASSUME RingInv PROVE RingTypeOK /\ RingKeepsOrder
  OBVIOUS
<1>1. /\ RingTypes /\ RingSize \in Nat /\ RingSize > 1
      /\ rxWr \in Places /\ rxRd \in Places /\ rxData \in [Places -> RingBytes]
      /\ delivered \in Seq(RingBytes) /\ kept \in Seq(RingBytes)
      /\ rxWr \in Nat /\ rxRd \in Nat /\ rxWr < RingSize /\ rxRd < RingSize
  BY RingAssumption DEF RingInv, RingTypes, Places
<1>2. RingTypeOK
  BY <1>1 DEF RingTypes, RingTypeOK, Readers, Places, RingBytes
<1>3. ASSUME ~raced, reader.at # "resetWr" PROVE delivered \o InRing = kept
  <2> DEFINE n == Stored(rxRd, rxWr)
             d == Len(delivered)
             w == InRing
  <2>1. /\ Len(kept) = d + n
        /\ \A i \in 1..d : kept[i] = delivered[i]
        /\ \A i \in 1..n : kept[d + i] = rxData[Place(rxRd, i)]
    BY <1>3 DEF RingInv, KeptRight
  <2>2. n \in Nat /\ n < RingSize /\ d \in Nat /\ \A i \in 1..n : Place(rxRd, i) \in Places
    <3>1. d \in Nat
      BY <1>1
    <3>2. n \in 0..RingSize - 1 /\ \A i \in 1..n : Place(rxRd, i) \in Places
      BY <1>1, StoredFacts
    <3> QED BY <1>1, <3>1, <3>2
  <2>3. w = [i \in 1..n |-> rxData[(rxRd + i - 1) % RingSize]]
    BY DEF InRing
  <2> HIDE DEF w, n
  <2>4. ASSUME NEW i \in 1..n PROVE (rxRd + i - 1) % RingSize = Place(rxRd, i)
    <3>1. rxRd + i - 1 \in Nat /\ rxRd + i - 1 < 2 * RingSize
      BY <1>1, <2>2 DEF Places
    <3>2. PICK x \in Nat : x = rxRd + i - 1
      BY <3>1
    <3>3. x % RingSize = IF x < RingSize THEN x ELSE x - RingSize
      BY <3>1, <3>2, RoundTheRing
    <3> QED BY <1>1, <2>2, <3>2, <3>3 DEF Place
  <2>5. /\ w \in [1..n -> RingBytes]
        /\ \A i \in 1..n : w[i] = rxData[Place(rxRd, i)]
    BY <1>1, <2>2, <2>3, <2>4
  <2>6. w \in Seq(RingBytes) /\ Len(w) = n
    BY <2>2, <2>5
  <2>7. /\ delivered \o w \in Seq(RingBytes) /\ Len(delivered \o w) = d + n
        /\ \A i \in 1..d : (delivered \o w)[i] = delivered[i]
        /\ \A i \in 1..n : (delivered \o w)[d + i] = w[i]
    BY <1>1, <2>6
  <2> DEFINE both == delivered \o w
  <2>8. \A i \in 1..d + n : both[i] = kept[i]
    <3> HIDE DEF d
    <3> SUFFICES ASSUME NEW i \in 1..d + n PROVE both[i] = kept[i]
      OBVIOUS
    <3>1. CASE i <= d
      BY <2>1, <2>2, <2>7, <3>1
    <3>2. CASE i > d
      <4>1. i - d \in 1..n /\ d + (i - d) = i
        BY <2>2, <3>2
      <4>2. both[d + (i - d)] = w[i - d]
        BY <2>7, <4>1
      <4> QED BY <2>1, <2>5, <4>1, <4>2
    <3>3. i \in Nat /\ d \in Nat
      BY <2>2 DEF d
    <3>4. i <= d \/ i > d
      BY <3>3
    <3> QED BY <3>1, <3>2, <3>4
  <2>9. both \in Seq(RingBytes) /\ Len(both) = Len(kept)
    BY <2>1, <2>7
  <2> HIDE DEF both
  <2>10. both = kept
    BY <1>1, <2>1, <2>8, <2>9
  <2> QED BY <2>10 DEF both, w
<1> QED BY <1>2, <1>3 DEF RingKeepsOrder

\* UartRing: whatever the sizes of the ring and of a read, and wherever the interrupt
\* falls between two accesses of the main loop, the bytes come out in their order, none
\* twice, as long as the ring did not overflow under a read.
THEOREM RingOrder == RingSpec => [](RingTypeOK /\ RingKeepsOrder)
<1>1. RingInit => RingInv
  BY RingStarts
<1>2. RingInv /\ [RingNext]_ringVars => RingInv'
  BY RingStep
<1>3. RingInv => RingTypeOK /\ RingKeepsOrder
  BY RingOrdered
<1> QED BY <1>1, <1>2, <1>3, PTL DEF RingSpec

-----------------------------------------------------------------------------
(***************************************************************************)
(* The telemetry queue. Its bytes are entries, one behind the other, each  *)
(* with a whole frame in it; and of every superseding kind at most one is  *)
(* live, with the number of the newest frame of that kind. Marking,        *)
(* overwriting, skipping and appending keep that, so that what is given    *)
(* out is never an older frame.                                            *)
(***************************************************************************)

Bytes == 0..255

\* Size bytes.
LEMMA SizeFacts ==
  ASSUME NEW x \in Bytes
  PROVE  /\ Size(x) \in 0..127 /\ (~IsDel(x) => Size(x) = x)
         /\ Del + Size(x) \in Bytes /\ Size(Del + Size(x)) = Size(x) /\ IsDel(Del + Size(x))
BY DEF Size, IsDel, Del, Bytes

\* The bytes of a sequence of bytes.
LEMMA ByteAt ==
  ASSUME NEW b \in Seq(Bytes)
  PROVE  Len(b) \in Nat /\ \A i \in 1..Len(b) : b[i] \in Bytes
OBVIOUS

\* A part of a sequence of bytes, and two sequences in a row.
CanSub(b, m, n) == /\ SubSeq(b, m + 1, n) \in Seq(Bytes) /\ Len(SubSeq(b, m + 1, n)) = n - m
                   /\ \A i \in 1..n - m : SubSeq(b, m + 1, n)[i] = b[m + i]
LEMMA PartOf ==
  ASSUME NEW b \in Seq(Bytes), NEW m \in Nat, NEW n \in Nat, m <= n, n <= Len(b)
  PROVE  CanSub(b, m, n)
<1>1. \A i \in (m + 1)..n : b[i] \in Bytes
  <2>1. Len(b) \in Nat /\ \A i \in 1..Len(b) : b[i] \in Bytes
    BY ByteAt
  <2> QED BY <2>1
<1>2. /\ SubSeq(b, m + 1, n) \in Seq(Bytes)
      /\ Len(SubSeq(b, m + 1, n)) = IF m + 1 <= n THEN n - (m + 1) + 1 ELSE 0
      /\ \A i \in 1..n - (m + 1) + 1 : SubSeq(b, m + 1, n)[i] = b[(m + 1) + i - 1]
  <2>1. m + 1 \in Int /\ n \in Int
    OBVIOUS
  <2> QED BY <1>1, <2>1, SubSeqProperties
<1>3. n - (m + 1) + 1 = n - m /\ \A i \in 1..n - m : (m + 1) + i - 1 = m + i
  OBVIOUS
<1>4. Len(SubSeq(b, m + 1, n)) = n - m
  BY <1>2
<1> QED BY <1>2, <1>3, <1>4 DEF CanSub

\* A frame's bytes.
LEMMA FrameFacts ==
  ASSUME NEW f \in Frames
  PROVE  /\ f \in Seq(Bytes) /\ Len(f) \in Lengths /\ Len(f) \in 3..127 /\ f[1] = Len(f)
         /\ f[2] = KindOf(f) /\ f[3] = NumberOf(f) /\ f[2] \in Kinds /\ f[3] \in 1..MaxFrames
         /\ \A i \in 1..Len(f) : f[i] \in Bytes
<1>1. PICK k \in Kinds, n \in Lengths, v \in 1..MaxFrames : f = Frame(k, n, v)
  BY DEF Frames
<1>2. n \in 3..127 /\ n \in Bytes /\ k \in Bytes /\ v \in Bytes /\ 1..MaxFrames \in SUBSET Nat
  BY SizeAssumption, KindAssumption DEF Bytes
<1> DEFINE g == [i \in 1..n-2 |-> v]
<1>3. g \in Seq(Bytes) /\ Len(g) = n - 2 /\ g[1] = v
  BY <1>2
<1> HIDE DEF g
<1>4. <<n, k>> \in Seq(Bytes) /\ Len(<<n, k>>) = 2
  BY <1>2
<1>5. f = <<n, k>> \o g
  BY <1>1 DEF Frame, g
<1>6. /\ f \in Seq(Bytes) /\ Len(f) = 2 + (n - 2)
      /\ \A i \in 1..2 + (n - 2) : f[i] = IF i <= 2 THEN <<n, k>>[i] ELSE g[i - 2]
  <2>1. /\ <<n, k>> \o g \in Seq(Bytes) /\ Len(<<n, k>> \o g) = Len(<<n, k>>) + Len(g)
        /\ \A i \in 1..Len(<<n, k>>) + Len(g) :
             (<<n, k>> \o g)[i] = IF i <= Len(<<n, k>>) THEN <<n, k>>[i] ELSE g[i - Len(<<n, k>>)]
    BY <1>3, <1>4, ConcatProperties
  <2> QED BY <1>3, <1>4, <1>5, <2>1
<1>7. Len(f) = n /\ f[1] = n /\ f[2] = k /\ f[3] = v
  <2>1. 2 + (n - 2) = n /\ 1 \in 1..n /\ 2 \in 1..n /\ 3 \in 1..n
    BY <1>2
  <2>2. f[3] = g[3 - 2]
    BY <1>6, <2>1
  <2> QED BY <1>3, <1>6, <2>1, <2>2
<1>8. \A i \in 1..Len(f) : f[i] \in Bytes
  BY <1>6, ByteAt
<1> QED BY <1>2, <1>6, <1>7, <1>8 DEF KindOf, NumberOf

\* The frame f is in the entry of b at p.
Entry(b, p, f) == /\ Len(f) <= Size(b[p + 1])
                  /\ \A i \in 1..Len(f) : b[p + 1 + i] = f[i]

\* b is a sequence of entries that begin at the positions P.
Parsed(b, P) ==
  /\ b \in Seq(Bytes) /\ P \in SUBSET Nat /\ \A p \in P : p < Len(b)
  /\ Len(b) > 0 => 0 \in P
  /\ \A p \in P : After(b, p) \in P \cup {Len(b)} /\ \A q \in P : p < q => After(b, p) <= q
  /\ \A p \in P : \E f \in Frames : Entry(b, p, f)

\* An entry of b.
LEMMA EntryFacts ==
  ASSUME NEW b, NEW P, Parsed(b, P), NEW p \in P
  PROVE  /\ p \in Nat /\ p < Len(b) /\ b[p + 1] \in Bytes /\ Size(b[p + 1]) \in 0..127
         /\ After(b, p) = p + 1 + Size(b[p + 1]) /\ After(b, p) <= Len(b)
         /\ After(b, p) > p /\ After(b, p) \in Nat
<1>1. p \in Nat /\ p < Len(b) /\ b \in Seq(Bytes) /\ Len(b) \in Nat
  BY ByteAt DEF Parsed
<1>2. b[p + 1] \in Bytes
  <2>1. p + 1 \in 1..Len(b)
    BY <1>1
  <2> QED BY <1>1, <2>1, ByteAt
<1>3. Size(b[p + 1]) \in 0..127
  BY <1>2, SizeFacts
<1> DEFINE z == Size(b[p + 1])
           a == After(b, p)
<1>4. a = p + 1 + z
  BY DEF After, Get
<1>5. a = Len(b) \/ a < Len(b)
  BY DEF Parsed
<1>6. z \in 0..127
  BY <1>3
<1> HIDE DEF z, a
<1>7. a \in Nat /\ a > p /\ a <= Len(b)
  BY <1>1, <1>4, <1>5, <1>6
<1> QED BY <1>1, <1>2, <1>4, <1>6, <1>7 DEF z, a

\* What a frame's entry holds.
LEMMA EntryHolds ==
  ASSUME NEW b, NEW P, Parsed(b, P), NEW p \in P, NEW f \in Frames, Entry(b, p, f)
  PROVE  /\ b[p + 2] = Len(f) /\ b[p + 3] = f[2] /\ b[p + 4] = f[3]
         /\ p + 1 + Len(f) <= Len(b) /\ FrameAt(b, p) = f
<1>1. /\ p \in Nat /\ p < Len(b) /\ Size(b[p + 1]) \in 0..127
      /\ p + 1 + Size(b[p + 1]) <= Len(b)
  BY EntryFacts
<1>2. /\ f \in Seq(Bytes) /\ Len(f) \in 3..127 /\ f[1] = Len(f)
  BY FrameFacts
<1>3. Len(f) <= Size(b[p + 1]) /\ \A i \in 1..Len(f) : b[p + 1 + i] = f[i]
  BY DEF Entry
<1>4. b \in Seq(Bytes) /\ p + 1 + Len(f) <= Len(b) /\ Len(b) \in Nat
  <2>1. b \in Seq(Bytes) /\ Len(b) \in Nat
    BY ByteAt DEF Parsed
  <2> DEFINE z == Size(b[p + 1])
  <2>2. z \in 0..127 /\ p + 1 + z <= Len(b) /\ Len(f) <= z
    BY <1>1, <1>3
  <2> HIDE DEF z
  <2> QED BY <1>1, <1>2, <2>1, <2>2
<1>5. b[p + 2] = Len(f) /\ b[p + 3] = f[2] /\ b[p + 4] = f[3]
  <2>1. p + 1 + 1 = p + 2 /\ p + 1 + 2 = p + 3 /\ p + 1 + 3 = p + 4
    BY <1>1
  <2>2. Len(f) >= 3 /\ 1 \in 1..Len(f) /\ 2 \in 1..Len(f) /\ 3 \in 1..Len(f)
    <3>1. \A n \in 3..127 : n >= 3 /\ 1 \in 1..n /\ 2 \in 1..n /\ 3 \in 1..n
      OBVIOUS
    <3> QED BY <1>2, <3>1
  <2> QED BY <1>2, <1>3, <2>1, <2>2
<1>6. FrameAt(b, p) = SubSeq(b, p + 2, p + 1 + Len(f))
  <2>1. Get(b, p + 1) = Len(f)
    <3>1. p + 1 + 1 = p + 2
      BY <1>1
    <3> QED BY <1>5, <3>1 DEF Get
  <2> QED BY <2>1 DEF FrameAt
<1> DEFINE g == SubSeq(b, p + 2, p + 1 + Len(f))
<1>7. g \in Seq(Bytes) /\ Len(g) = Len(f) /\ \A i \in 1..Len(f) : g[i] = b[p + 1 + i]
  <2>1. CanSub(b, p + 1, p + 1 + Len(f))
    BY <1>1, <1>2, <1>4, PartOf
  <2>2. p + 1 + 1 = p + 2 /\ (p + 1 + Len(f)) - (p + 1) = Len(f)
    BY <1>1, <1>2
  <2> QED BY <2>1, <2>2 DEF CanSub
<1> HIDE DEF g
<1>8. g = f
  BY <1>2, <1>3, <1>7, SeqEqual
<1> QED BY <1>4, <1>5, <1>6, <1>8 DEF g

\* A loop that only goes up ends, and has a value at each place.
CanDescend(N, D, e, step, H) ==
  \E f \in [Nat -> D] : \A p \in Nat : f[p] = IF p >= N THEN e ELSE H[p, f[step[p]]]
LEMMA Descends ==
  ASSUME NEW N \in Nat, NEW D, NEW e \in D, NEW step \in [Nat -> Nat],
         \A p \in Nat : step[p] > p, NEW H \in [Nat \X D -> D]
  PROVE  CanDescend(N, D, e, step, H)
<1> DEFINE Value(g, p) == IF p >= N THEN e ELSE H[p, g[step[p]]]
           Good(g, n) == \A p \in Nat : p + n >= N => g[p] = Value(g, p)
           S == {n \in Nat : \E g \in [Nat -> D] : Good(g, n)}
<1>0. /\ \A p, n \in Nat : p >= N => p + n >= N
      /\ \A p, q, n \in Nat : q > p /\ p + (n + 1) >= N => q + n >= N
      /\ \A p \in Nat : p + 0 >= N => p >= N
      /\ \A p \in Nat : p + N >= N
  OBVIOUS
<1>1. 0 \in S
  <2> DEFINE g == [p \in Nat |-> e]
  <2>1. g \in [Nat -> D] /\ \A p \in Nat : g[p] = e
    OBVIOUS
  <2> HIDE DEF g
  <2>2. \A p \in Nat : p + 0 >= N => g[p] = Value(g, p)
    BY <1>0, <2>1
  <2> QED BY <2>1, <2>2
<1>2. ASSUME NEW n \in S PROVE n + 1 \in S
  <2>1. n \in Nat
    OBVIOUS
  <2>2. PICK g \in [Nat -> D] : Good(g, n)
    OBVIOUS
  <2> DEFINE h == [p \in Nat |-> IF p + n >= N THEN g[p] ELSE H[p, g[step[p]]]]
  <2>3. h \in [Nat -> D]
    <3>1. ASSUME NEW p \in Nat PROVE (IF p + n >= N THEN g[p] ELSE H[p, g[step[p]]]) \in D
      <4>1. step[p] \in Nat /\ g[p] \in D
        OBVIOUS
      <4>2. g[step[p]] \in D
        BY <4>1
      <4>3. H[p, g[step[p]]] \in D
        BY <4>2
      <4> QED BY <4>1, <4>3
    <3> QED BY <3>1
  <2>4. ASSUME NEW p \in Nat, p + (n + 1) >= N PROVE h[p] = Value(h, p)
    <3>1. CASE p >= N
      <4>1. p + n >= N
        BY <1>0, <2>1, <3>1
      <4>2. h[p] = g[p] /\ g[p] = e
        BY <2>2, <3>1, <4>1
      <4> QED BY <3>1, <4>2
    <3>2. CASE ~(p >= N)
      <4>1. step[p] \in Nat /\ step[p] > p
        OBVIOUS
      <4>2. step[p] + n >= N
        BY <1>0, <2>1, <2>4, <4>1
      <4>3. h[step[p]] = g[step[p]]
        BY <4>1, <4>2
      <4>4. h[p] = H[p, g[step[p]]]
        <5>1. p + n >= N => g[p] = H[p, g[step[p]]]
          BY <2>2, <3>2
        <5> QED BY <5>1
      <4>5. Value(h, p) = H[p, h[step[p]]]
        BY <3>2
      <4> HIDE DEF h, Value
      <4> QED BY <4>3, <4>4, <4>5
    <3> QED BY <3>1, <3>2
  <2>5. Good(h, n + 1)
    <3> HIDE DEF h, Value
    <3> QED BY <2>4
  <2> HIDE DEF h, Good
  <2> QED BY <2>1, <2>3, <2>5
<1>3. S = Nat
  <2> HIDE DEF S
  <2>1. S \in SUBSET Nat
    BY DEF S
  <2> QED BY <1>1, <1>2, <2>1, Induction
<1>4. PICK g \in [Nat -> D] : Good(g, N)
  BY <1>3
<1>5. \A p \in Nat : g[p] = Value(g, p)
  <2> HIDE DEF Value
  <2> QED BY <1>0, <1>4
<1> QED BY <1>5 DEF CanDescend

\* What holds at the end, and at an entry if it holds at the next, holds at all of them.
LEMMA EntryByEntry ==
  ASSUME NEW b, NEW P, Parsed(b, P), NEW T \in SUBSET Nat, Len(b) \in T,
         \A p \in P : After(b, p) \in T => p \in T
  PROVE  P \subseteq T
<1> DEFINE N == Len(b)
           S == {n \in Nat : \A p \in P : p + n >= N => p \in T}
<1>1. N \in Nat /\ P \in SUBSET Nat /\ \A p \in P : p < N
  BY ByteAt DEF Parsed
<1>2. 0 \in S
  BY <1>1
<1>3. ASSUME NEW n \in S PROVE n + 1 \in S
  <2> SUFFICES ASSUME NEW p \in P, p + (n + 1) >= N PROVE p \in T
    OBVIOUS
  <2>1. After(b, p) \in Nat /\ After(b, p) > p /\ After(b, p) \in P \cup {N}
    BY EntryFacts DEF Parsed
  <2>2. After(b, p) + n >= N
    BY <1>1, <2>1
  <2>3. After(b, p) \in T
    BY <2>1, <2>2
  <2> QED BY <2>3
<1>4. S = Nat
  <2> HIDE DEF S
  <2>1. S \in SUBSET Nat
    BY DEF S
  <2> QED BY <1>2, <1>3, <2>1, Induction
<1>5. \A p \in P : p + N >= N
  BY <1>1
<1> QED BY <1>1, <1>4, <1>5

\* The step from an entry to the next, as a function.
Onward(b) == [p \in Nat |-> IF p < Len(b) THEN After(b, p) ELSE p + 1]
LEMMA OnwardGoesUp ==
  ASSUME NEW b \in Seq(Bytes)
  PROVE  Onward(b) \in [Nat -> Nat] /\ \A p \in Nat : Onward(b)[p] > p
<1>1. ASSUME NEW p \in Nat, p < Len(b) PROVE After(b, p) \in Nat /\ After(b, p) > p
  <2>1. p + 1 \in 1..Len(b)
    BY <1>1, ByteAt
  <2> DEFINE z == Size(b[p + 1])
  <2>2. z \in 0..127 /\ After(b, p) = p + 1 + z
    BY <2>1, ByteAt, SizeFacts DEF After, Get
  <2> HIDE DEF z
  <2> QED BY <2>2
<1>2. \A p \in Nat : (IF p < Len(b) THEN After(b, p) ELSE p + 1) \in Nat
                     /\ (IF p < Len(b) THEN After(b, p) ELSE p + 1) > p
  BY <1>1
<1> QED BY <1>2 DEF Onward

\* The loops come to the first entry, from each to the next, and to the end.
LEMMA StartsAre ==
  ASSUME NEW b, NEW P, Parsed(b, P)
  PROVE  Starts(b) = P
<1> DEFINE N == Len(b)
           D == SUBSET Nat
           H == [x \in Nat \X D |-> {x[1]} \cup x[2]]
           Is(f) == f = [p \in Nat |-> IF p >= N THEN {} ELSE {p} \cup f[After(b, p)]]
           from == CHOOSE f : Is(f)
<1>1. N \in Nat /\ b \in Seq(Bytes) /\ P \in SUBSET Nat /\ \A p \in P : p < N
  BY ByteAt DEF Parsed
<1>2. Starts(b) = from[0]
  BY DEF Starts
<1>3. PICK g \in [Nat -> D] : \A p \in Nat : g[p] = IF p >= N THEN {} ELSE H[p, g[Onward(b)[p]]]
  <2>1. H \in [Nat \X D -> D] /\ {} \in D
    OBVIOUS
  <2> HIDE DEF D, H
  <2>2. CanDescend(N, D, {}, Onward(b), H)
    BY <1>1, <2>1, OnwardGoesUp, Descends
  <2> QED BY <2>2 DEF CanDescend
<1>4. ASSUME NEW p \in Nat, ~(p >= N) PROVE H[p, g[Onward(b)[p]]] = {p} \cup g[After(b, p)]
  <2>1. Onward(b)[p] = After(b, p) /\ Onward(b)[p] \in Nat
    BY <1>1, <1>4, OnwardGoesUp DEF Onward
  <2>2. g[After(b, p)] \in D
    BY <2>1
  <2> QED BY <2>1, <2>2
<1>5. Is(g)
  <2>1. \A p \in Nat : g[p] = IF p >= N THEN {} ELSE {p} \cup g[After(b, p)]
    BY <1>3, <1>4
  <2> QED BY <2>1
<1>6. Is(from)
  <2> HIDE DEF Is
  <2> QED BY <1>5
<1>7. \A p \in Nat : from[p] = IF p >= N THEN {} ELSE {p} \cup from[After(b, p)]
  <2> HIDE DEF from
  <2> QED BY <1>6
<1> HIDE DEF from, N
<1> DEFINE T == {p \in Nat : from[p] = {q \in P : p <= q}}
<1>8. N \in T
  <2> HIDE DEF T
  <2>1. N >= N /\ \A q \in P : ~(N <= q)
    BY <1>1
  <2>2. from[N] = {}
    BY <1>1, <1>7, <2>1
  <2>3. {q \in P : N <= q} = {}
    BY <2>1
  <2> QED BY <1>1, <2>2, <2>3 DEF T
<1>9. ASSUME NEW p \in P, After(b, p) \in T PROVE p \in T
  <2>1. p \in Nat /\ p < N /\ After(b, p) \in Nat /\ After(b, p) > p
    BY EntryFacts DEF N
  <2>2. from[p] = {p} \cup {q \in P : After(b, p) <= q}
    <3> HIDE DEF T
    <3>1. ~(p >= N)
      BY <1>1, <2>1
    <3>2. from[p] = {p} \cup from[After(b, p)]
      BY <1>7, <2>1, <3>1
    <3>3. from[After(b, p)] = {q \in P : After(b, p) <= q}
      BY <1>9 DEF T
    <3> QED BY <3>2, <3>3
  <2>3. \A q \in P : p <= q <=> q = p \/ After(b, p) <= q
    <3>1. \A q \in P : q \in Nat /\ (p < q => After(b, p) <= q)
      BY <1>1 DEF Parsed
    <3> QED BY <2>1, <3>1
  <2> HIDE DEF from
  <2> QED BY <2>1, <2>2, <2>3
<1>10. 0 \in T
  <2>1. P \subseteq T
    <3> HIDE DEF T
    <3>1. T \in SUBSET Nat
      BY DEF T
    <3> QED BY <1>8, <1>9, <3>1, EntryByEntry DEF N
  <2>2. 0 \in P \/ N = 0
    BY <1>1 DEF Parsed, N
  <2> QED BY <1>8, <2>1, <2>2
<1>11. {q \in P : 0 <= q} = P
  BY <1>1
<1>12. from[0] = {q \in P : 0 <= q}
  BY <1>10
<1> QED BY <1>2, <1>11, <1>12

\* A live entry of kind k begins at p.
LiveOf(b, p, k) == ~IsDel(b[p + 1]) /\ b[p + 3] = k

\* There is none of kind k in b, or of a superseding kind one, with the newest number.
NoneOf(b, P, k) == \A p \in P : ~LiveOf(b, p, k)
Latest(b, P, s) ==
  \A p, q \in P : \A k \in Superseding :
    LiveOf(b, p, k) => b[p + 4] = s[k] /\ (LiveOf(b, q, k) => p = q)

\* The entry of c at q is that of b at p.
SameEntry(b, p, c, q) == c[q + 1] = b[p + 1] /\ \A f \in Frames : Entry(b, p, f) => Entry(c, q, f)

\* Entries skipped: what is behind them stays.
Behind(P, m) == {q \in Nat : q + m \in P}
CanSkip(b, P, m, c, Q) ==
  /\ Parsed(c, Q) /\ Len(c) <= Len(b)
  /\ \A q \in Q : SameEntry(b, q + m, c, q)
  /\ \A s : Latest(b, P, s) => Latest(c, Q, s)
  /\ \A k : NoneOf(b, P, k) => NoneOf(c, Q, k)
LEMMA SkippedKeeps ==
  ASSUME NEW b, NEW P, Parsed(b, P), NEW m \in P \cup {Len(b)}, NEW c,
         c = SubSeq(b, m + 1, Len(b)), NEW Q, Q = Behind(P, m)
  PROVE  CanSkip(b, P, m, c, Q)
<1>1. b \in Seq(Bytes) /\ Len(b) \in Nat /\ P \in SUBSET Nat /\ \A p \in P : p < Len(b)
  BY ByteAt DEF Parsed
<1>2. m \in Nat /\ m <= Len(b)
  BY <1>1
<1>3. c \in Seq(Bytes) /\ Len(c) = Len(b) - m /\ \A i \in 1..Len(b) - m : c[i] = b[m + i]
  <2>1. CanSub(b, m, Len(b))
    BY <1>1, <1>2, PartOf
  <2> QED BY <2>1 DEF CanSub
<1>4. \A q \in Q : q \in Nat /\ q + m \in P
  BY DEF Behind
<1>5. \A p \in P : m <= p => p - m \in Q
  <2> SUFFICES ASSUME NEW p \in P, m <= p PROVE p - m \in Q
    OBVIOUS
  <2>1. p - m \in Nat /\ (p - m) + m = p
    BY <1>1, <1>2
  <2> QED BY <2>1 DEF Behind
\* the bytes of an entry are where they were, m further
<1>6. ASSUME NEW q \in Q
      PROVE  /\ q \in Nat /\ q + m \in P /\ q < Len(c)
             /\ c[q + 1] = b[(q + m) + 1] /\ After(c, q) = After(b, q + m) - m
             /\ After(b, q + m) \in Nat /\ After(b, q + m) <= Len(b)
             /\ \A f \in Frames : Entry(b, q + m, f) => Entry(c, q, f)
             /\ c[q + 3] = b[(q + m) + 3] /\ c[q + 4] = b[(q + m) + 4]
  <2> DEFINE p == q + m
             z == Size(b[p + 1])
  <2>1. q \in Nat /\ p \in P
    BY <1>4
  <2>2. p \in Nat /\ p = q + m /\ p < Len(b)
    BY <1>1, <1>2, <2>1
  <2> HIDE DEF p
  <2>3. After(b, p) = p + 1 + z /\ z \in 0..127 /\ p + 1 + z <= Len(b)
    BY <2>1, EntryFacts
  <2>4. c[q + 1] = b[p + 1]
    <3>1. q + 1 \in 1..Len(b) - m /\ m + (q + 1) = p + 1
      BY <1>1, <1>2, <2>1, <2>2
    <3> QED BY <1>3, <3>1
  <2>5. After(c, q) = q + 1 + z
    BY <2>4 DEF After, Get
  <2> HIDE DEF z
  <2>6. After(c, q) = After(b, p) - m /\ After(b, p) \in Nat /\ After(b, p) <= Len(b)
    BY <1>2, <2>1, <2>2, <2>3, <2>5
  <2>7. ASSUME NEW i \in 1..z PROVE c[q + 1 + i] = b[p + 1 + i]
    <3>1. q + 1 + i \in 1..Len(b) - m /\ m + (q + 1 + i) = p + 1 + i
      BY <1>1, <1>2, <2>1, <2>2, <2>3
    <3> QED BY <1>3, <3>1
  <2>8. ASSUME NEW f \in Frames, Entry(b, p, f) PROVE Entry(c, q, f)
    <3>1. Len(f) \in Nat /\ Len(f) <= z
      BY <2>8, FrameFacts DEF Entry, z
    <3>2. \A i \in 1..Len(f) : i \in 1..z /\ b[p + 1 + i] = f[i]
      BY <2>3, <2>8, <3>1 DEF Entry
    <3>3. \A i \in 1..Len(f) : c[q + 1 + i] = f[i]
      BY <2>7, <3>2
    <3>4. Len(f) <= Size(c[q + 1])
      BY <2>4, <3>1 DEF z
    <3> QED BY <3>3, <3>4 DEF Entry
  <2>9. c[q + 3] = b[p + 3] /\ c[q + 4] = b[p + 4]
    <3>1. PICK f \in Frames : Entry(b, p, f)
      BY <2>1 DEF Parsed
    <3>2. Len(f) \in 3..127 /\ Len(f) <= z
      BY <3>1, FrameFacts DEF Entry, z
    <3>3. 2 \in 1..z /\ 3 \in 1..z
      <4>1. \A n \in 3..127, y \in 0..127 : n <= y => 2 \in 1..y /\ 3 \in 1..y
        OBVIOUS
      <4> QED BY <2>3, <3>2, <4>1
    <3>4. c[q + 1 + 2] = b[p + 1 + 2] /\ c[q + 1 + 3] = b[p + 1 + 3]
      BY <2>7, <3>3
    <3>5. /\ q + 1 + 2 = q + 3 /\ q + 1 + 3 = q + 4
          /\ p + 1 + 2 = p + 3 /\ p + 1 + 3 = p + 4
      BY <2>1, <2>2
    <3> QED BY <3>4, <3>5
  <2>10. q < Len(c)
    BY <1>1, <1>2, <1>3, <2>1, <2>2
  <2> QED BY <2>1, <2>4, <2>6, <2>8, <2>9, <2>10 DEF p
<1>7. ASSUME NEW q \in Q
      PROVE  /\ After(c, q) \in Q \cup {Len(c)}
             /\ \A r \in Q : q < r => After(c, q) <= r
             /\ \E f \in Frames : Entry(c, q, f)
  <2> DEFINE p == q + m
             a == After(b, p)
  <2>1. p \in P /\ q \in Nat /\ a \in Nat /\ a <= Len(b) /\ After(c, q) = a - m
    BY <1>6
  <2>2. a \in P \cup {Len(b)} /\ \A t \in P : p < t => a <= t
    BY <2>1 DEF Parsed
  <2>3. \E f \in Frames : Entry(c, q, f)
    BY <1>6, <2>1 DEF Parsed
  <2>4. a > p
    BY <2>1, EntryFacts
  <2> HIDE DEF a
  <2>5. After(c, q) \in Q \cup {Len(c)}
    <3>1. CASE a \in P
      <4>1. m <= a
        BY <1>2, <2>1, <2>4
      <4> QED BY <1>5, <2>1, <3>1, <4>1
    <3>2. CASE a = Len(b)
      BY <1>3, <2>1, <3>2
    <3> QED BY <2>2, <3>1, <3>2
  <2>6. ASSUME NEW r \in Q, q < r PROVE After(c, q) <= r
    <3>1. r \in Nat /\ r + m \in P /\ p < r + m
      BY <1>2, <1>4, <2>1, <2>6
    <3>2. a <= r + m
      BY <2>2, <3>1
    <3> QED BY <1>2, <2>1, <3>1, <3>2
  <2> QED BY <2>3, <2>5, <2>6
<1>8. Len(c) > 0 => 0 \in Q
  <2> SUFFICES ASSUME Len(c) > 0 PROVE 0 \in Q
    OBVIOUS
  <2>1. m \in P
    BY <1>1, <1>2, <1>3
  <2>2. m - m = 0 /\ m <= m
    BY <1>2
  <2> QED BY <1>5, <2>1, <2>2
<1>9. Parsed(c, Q)
  <2>1. Q \in SUBSET Nat /\ \A q \in Q : q < Len(c)
    BY <1>6
  <2> QED BY <1>3, <1>7, <1>8, <2>1 DEF Parsed
<1>10. \A k : \A q \in Q : LiveOf(c, q, k) <=> LiveOf(b, q + m, k)
  BY <1>6, Zenon DEF LiveOf
<1>11. ASSUME NEW s, Latest(b, P, s) PROVE Latest(c, Q, s)
  <2> SUFFICES ASSUME NEW p \in Q, NEW q \in Q, NEW k \in Superseding, LiveOf(c, p, k)
               PROVE  c[p + 4] = s[k] /\ (LiveOf(c, q, k) => p = q)
    BY DEF Latest
  <2>1. LiveOf(b, p + m, k) /\ p + m \in P /\ q + m \in P /\ p \in Nat /\ q \in Nat
    BY <1>4, <1>10
  <2>2. b[(p + m) + 4] = s[k] /\ (LiveOf(b, q + m, k) => p + m = q + m)
    BY <1>11, <2>1 DEF Latest
  <2>3. p + m = q + m => p = q
    BY <1>2, <2>1
  <2> QED BY <1>6, <1>10, <2>2, <2>3
<1>12. ASSUME NEW k, NoneOf(b, P, k) PROVE NoneOf(c, Q, k)
  BY <1>4, <1>10, <1>12 DEF NoneOf
<1>13. Len(c) <= Len(b)
  BY <1>1, <1>2, <1>3
<1>14. \A q \in Q : SameEntry(b, q + m, c, q)
  BY <1>6 DEF SameEntry
<1> QED BY <1>9, <1>11, <1>12, <1>13, <1>14, Zenon DEF CanSkip

\* A frame appended at the end.
CanPush(b, P, f, c, Q) ==
  /\ Parsed(c, Q) /\ Len(c) = Len(b) + Len(f) + 1
  /\ \A p \in P : SameEntry(b, p, c, p)
  /\ Entry(c, Len(b), f) /\ ~IsDel(c[Len(b) + 1])
  /\ \A s, t : /\ Latest(b, P, s) /\ (f[2] \in Superseding => NoneOf(b, P, f[2]))
               /\ t[f[2]] = f[3] /\ \A k \in Superseding : k # f[2] => t[k] = s[k]
               => Latest(c, Q, t)
LEMMA PushedKeeps ==
  ASSUME NEW b, NEW P, Parsed(b, P), NEW f \in Frames, NEW c, c = b \o <<Len(f)>> \o f,
         NEW Q, Q = P \cup {Len(b)}
  PROVE  CanPush(b, P, f, c, Q)
<1> DEFINE N == Len(b)
           L == Len(f)
<1>1. b \in Seq(Bytes) /\ N \in Nat /\ P \in SUBSET Nat /\ \A p \in P : p < N
  BY ByteAt DEF Parsed
<1>2. f \in Seq(Bytes) /\ L \in 3..127 /\ L \in Nat /\ f[1] = L
  BY FrameFacts
<1>3. /\ c \in Seq(Bytes) /\ Len(c) = N + L + 1
      /\ \A i \in 1..N : c[i] = b[i]
      /\ c[N + 1] = L
      /\ \A i \in 1..L : c[N + 1 + i] = f[i]
  <2> DEFINE d == b \o <<L>>
  <2>1. <<L>> \in Seq(Bytes) /\ Len(<<L>>) = 1 /\ <<L>>[1] = L
    <3>1. L \in Bytes
      BY <1>2 DEF Bytes
    <3> QED BY <3>1
  <2>2. /\ d \in Seq(Bytes) /\ Len(d) = N + 1
        /\ \A i \in 1..N + 1 : d[i] = IF i <= N THEN b[i] ELSE <<L>>[i - N]
    <3> HIDE DEF L
    <3> QED BY <1>1, <2>1, ConcatProperties
  <2>3. d[N + 1] = L /\ \A i \in 1..N : d[i] = b[i]
    <3>1. N + 1 \in 1..N + 1 /\ ~(N + 1 <= N) /\ (N + 1) - N = 1
      BY <1>1
    <3>2. d[N + 1] = <<L>>[1]
      BY <2>2, <3>1
    <3>3. \A i \in 1..N : d[i] = b[i]
      BY <1>1, <2>2
    <3> QED BY <2>1, <3>2, <3>3
  <2>4. c = d \o f
    OBVIOUS
  <2> HIDE DEF d
  <2>5. /\ c \in Seq(Bytes) /\ Len(c) = Len(d) + L
        /\ \A i \in 1..Len(d) + L : c[i] = IF i <= Len(d) THEN d[i] ELSE f[i - Len(d)]
    <3>1. d \in Seq(Bytes) /\ f \in Seq(Bytes)
      BY <1>2, <2>2
    <3>2. /\ d \o f \in Seq(Bytes) /\ Len(d \o f) = Len(d) + Len(f)
          /\ \A i \in 1..Len(d) + Len(f) : (d \o f)[i] = IF i <= Len(d) THEN d[i] ELSE f[i - Len(d)]
      BY <3>1, ConcatProperties, Zenon
    <3> QED BY <2>4, <3>2, Zenon
  <2>6. \A i \in 1..N + 1 : c[i] = d[i]
    BY <1>1, <1>2, <2>2, <2>5
  <2>7. \A i \in 1..L : c[N + 1 + i] = f[i]
    <3> SUFFICES ASSUME NEW i \in 1..L PROVE c[N + 1 + i] = f[i]
      OBVIOUS
    <3>1. /\ N + 1 + i \in 1..(N + 1) + L /\ ~(N + 1 + i <= N + 1)
          /\ (N + 1 + i) - (N + 1) = i
      BY <1>1, <1>2
    <3> QED BY <2>2, <2>5, <3>1
  <2>8. N + 1 \in 1..N + 1 /\ \A i \in 1..N : i \in 1..N + 1
    BY <1>1
  <2>9. Len(c) = N + L + 1
    <3> HIDE DEF L
    <3> QED BY <1>1, <1>2, <2>2, <2>5
  <2>10. c[N + 1] = L /\ \A i \in 1..N : c[i] = b[i]
    <3> HIDE DEF L
    <3> QED BY <2>3, <2>6, <2>8
  <2> QED BY <2>5, <2>7, <2>9, <2>10
<1>4. L \in Bytes /\ Size(L) = L /\ ~IsDel(L)
  <2>1. \A x \in 3..127 : x \in Bytes /\ Size(x) = x /\ ~IsDel(x)
    <3> SUFFICES ASSUME NEW x \in 3..127 PROVE x \in Bytes /\ Size(x) = x /\ ~IsDel(x)
      OBVIOUS
    <3>1. x \in Bytes /\ ~IsDel(x)
      BY DEF Bytes, IsDel, Del
    <3> QED BY <3>1, SizeFacts
  <2> QED BY <1>2, <2>1
<1> HIDE DEF L
<1>5. /\ After(c, N) = N + 1 + L /\ Entry(c, N, f)
      /\ c[N + 2] = f[1] /\ c[N + 3] = f[2] /\ c[N + 4] = f[3]
  <2>1. After(c, N) = N + 1 + L
    BY <1>3, <1>4 DEF After, Get
  <2>2. L <= L
    BY <1>2
  <2>3. 1 \in 1..L /\ 2 \in 1..L /\ 3 \in 1..L
    <3>1. \A n \in 3..127 : 1 \in 1..n /\ 2 \in 1..n /\ 3 \in 1..n
      OBVIOUS
    <3> QED BY <1>2, <3>1
  <2>4. N + 1 + 1 = N + 2 /\ N + 1 + 2 = N + 3 /\ N + 1 + 3 = N + 4
    BY <1>1
  <2>5. c[N + 2] = f[1] /\ c[N + 3] = f[2] /\ c[N + 4] = f[3]
    BY <1>3, <2>3, <2>4
  <2>6. Entry(c, N, f)
    BY <1>3, <1>4, <2>2 DEF Entry, L
  <2> QED BY <2>1, <2>5, <2>6
\* the entries before are as they were
<1>6. ASSUME NEW p \in P
      PROVE  /\ p \in Nat /\ p < N /\ After(c, p) = After(b, p)
             /\ After(b, p) \in P \cup {N} /\ After(b, p) <= N
             /\ (\A q \in P : p < q => After(b, p) <= q)
             /\ (\A g \in Frames : Entry(b, p, g) => Entry(c, p, g))
             /\ c[p + 1] = b[p + 1] /\ c[p + 3] = b[p + 3] /\ c[p + 4] = b[p + 4]
  <2> DEFINE z == Size(b[p + 1])
  <2>1. /\ p \in Nat /\ p < N /\ After(b, p) = p + 1 + z /\ z \in 0..127
        /\ p + 1 + z <= N /\ After(b, p) <= N
    BY EntryFacts
  <2> HIDE DEF z
  <2>2. c[p + 1] = b[p + 1]
    <3>1. p + 1 \in 1..N
      BY <1>1, <2>1
    <3> QED BY <1>3, <3>1
  <2>3. After(c, p) = After(b, p)
    BY <2>2 DEF After, Get
  <2>4. \A i \in 1..z : c[p + 1 + i] = b[p + 1 + i]
    <3> SUFFICES ASSUME NEW i \in 1..z PROVE c[p + 1 + i] = b[p + 1 + i]
      OBVIOUS
    <3>1. p + 1 + i \in 1..N
      BY <1>1, <2>1
    <3> QED BY <1>3, <3>1
  <2>5. \A n \in 3..127 :
          n <= z => 2 \in 1..z /\ 3 \in 1..z /\ \A i \in 1..n : i \in 1..z
    BY <2>1
  <2>6. ASSUME NEW g \in Frames, Entry(b, p, g)
        PROVE  Entry(c, p, g) /\ 2 \in 1..z /\ 3 \in 1..z
    <3>1. Len(g) \in 3..127 /\ Len(g) <= z /\ \A i \in 1..Len(g) : b[p + 1 + i] = g[i]
      BY <2>6, FrameFacts DEF Entry, z
    <3>2. 2 \in 1..z /\ 3 \in 1..z /\ \A i \in 1..Len(g) : i \in 1..z
      BY <2>5, <3>1
    <3>3. \A i \in 1..Len(g) : c[p + 1 + i] = g[i]
      BY <2>4, <3>1, <3>2
    <3> QED BY <2>2, <3>1, <3>2, <3>3 DEF Entry, z
  <2>7. \E g \in Frames : Entry(b, p, g)
    BY DEF Parsed
  <2>8. 2 \in 1..z /\ 3 \in 1..z
    BY <2>6, <2>7
  <2>9. p + 1 + 2 = p + 3 /\ p + 1 + 3 = p + 4
    BY <2>1
  <2>10. c[p + 3] = b[p + 3] /\ c[p + 4] = b[p + 4]
    BY <2>4, <2>8, <2>9
  <2>11. After(b, p) \in P \cup {N} /\ \A q \in P : p < q => After(b, p) <= q
    BY DEF Parsed
  <2> QED BY <2>1, <2>2, <2>3, <2>6, <2>10, <2>11
<1>7. Parsed(c, Q)
  <2>1. Q \in SUBSET Nat /\ \A p \in Q : p < Len(c)
    <3>1. N < N + L + 1 /\ \A p \in P : p < N + L + 1
      BY <1>1, <1>2
    <3> QED BY <1>1, <1>3, <3>1
  <2>2. 0 \in Q
    BY <1>1 DEF Parsed
  <2>3. ASSUME NEW p \in Q
        PROVE  /\ After(c, p) \in Q \cup {Len(c)}
               /\ \A q \in Q : p < q => After(c, p) <= q
               /\ \E g \in Frames : Entry(c, p, g)
    <3>1. CASE p \in P
      <4>1. \E g \in Frames : Entry(b, p, g)
        BY <3>1 DEF Parsed
      <4> QED BY <1>6, <3>1, <4>1
    <3>2. CASE p = N
      <4>1. After(c, p) = Len(c)
        BY <1>1, <1>2, <1>3, <1>5, <3>2
      <4>2. \A q \in Q : ~(p < q)
        BY <1>1, <3>2
      <4> QED BY <1>5, <3>2, <4>1, <4>2
    <3> QED BY <3>1, <3>2
  <2> QED BY <1>3, <2>1, <2>2, <2>3 DEF Parsed
<1>8. /\ \A k : \A p \in P : LiveOf(c, p, k) <=> LiveOf(b, p, k)
      /\ \A k : LiveOf(c, N, k) <=> k = f[2]
  BY <1>3, <1>4, <1>5, <1>6, Zenon DEF LiveOf
<1>9. ASSUME NEW s, NEW t, Latest(b, P, s), f[2] \in Superseding => NoneOf(b, P, f[2]),
             t[f[2]] = f[3], \A k \in Superseding : k # f[2] => t[k] = s[k]
      PROVE  Latest(c, Q, t)
  <2> SUFFICES ASSUME NEW p \in Q, NEW q \in Q, NEW k \in Superseding, LiveOf(c, p, k)
               PROVE  c[p + 4] = t[k] /\ (LiveOf(c, q, k) => p = q)
    BY DEF Latest
  <2>1. CASE k = f[2]
    <3>1. \A r \in P : ~LiveOf(c, r, k)
      BY <1>8, <1>9, <2>1 DEF NoneOf
    <3>2. p = N
      BY <3>1
    <3> QED BY <1>5, <1>9, <2>1, <3>1, <3>2
  <2>2. CASE k # f[2]
    <3>1. p \in P /\ LiveOf(b, p, k)
      BY <1>8, <2>2
    <3>2. b[p + 4] = s[k] /\ t[k] = s[k] /\ c[p + 4] = b[p + 4]
      BY <1>6, <1>9, <2>2, <3>1 DEF Latest
    <3>3. LiveOf(c, q, k) => q \in P /\ LiveOf(b, q, k)
      BY <1>8, <2>2
    <3>4. LiveOf(c, q, k) => p = q
      BY <1>9, <3>1, <3>3 DEF Latest
    <3> QED BY <3>2, <3>4
  <2> QED BY <2>1, <2>2
<1>10. Len(c) = Len(b) + Len(f) + 1
  BY <1>3 DEF L
<1>11. \A p \in P : SameEntry(b, p, c, p)
  BY <1>6 DEF SameEntry
<1>12. Entry(c, Len(b), f) /\ ~IsDel(c[Len(b) + 1])
  BY <1>3, <1>4, <1>5
<1> QED BY <1>7, <1>9, <1>10, <1>11, <1>12, Zenon DEF CanPush

\* One entry changed, its size kept: the others stay.
PatchedFrom(b, P, p, c) ==
  /\ Parsed(c, P)
  /\ \A q \in P : q # p => /\ SameEntry(b, q, c, q) /\ c[q + 1] = b[q + 1]
                         /\ c[q + 3] = b[q + 3] /\ c[q + 4] = b[q + 4]
LEMMA PatchedKeeps ==
  ASSUME NEW b, NEW P, Parsed(b, P), NEW p \in P, NEW c \in Seq(Bytes), Len(c) = Len(b),
         \A i \in 1..Len(b) : ~(p < i /\ i <= After(b, p)) => c[i] = b[i],
         Size(c[p + 1]) = Size(b[p + 1]), NEW g \in Frames, Entry(c, p, g)
  PROVE  PatchedFrom(b, P, p, c)
<1> DEFINE N == Len(b)
<1>1. b \in Seq(Bytes) /\ N \in Nat /\ P \in SUBSET Nat /\ \A q \in P : q < N
  BY ByteAt DEF Parsed
<1>2. p \in Nat /\ After(b, p) \in Nat /\ p < After(b, p)
  BY EntryFacts
<1>3. ASSUME NEW q \in P, q # p
      PROVE  /\ After(c, q) = After(b, q) /\ (\E f \in Frames : Entry(c, q, f))
             /\ SameEntry(b, q, c, q) /\ c[q + 1] = b[q + 1] /\ c[q + 3] = b[q + 3] /\ c[q + 4] = b[q + 4]
  <2> DEFINE z == Size(b[q + 1])
             a == After(b, q)
  <2>1. /\ q \in Nat /\ q < N /\ a = q + 1 + z /\ z \in 0..127
        /\ a <= N /\ a \in Nat
    BY EntryFacts
  <2>2. q + 1 + z <= p \/ After(b, p) <= q
    <3>1. q < p => a <= p
      BY DEF Parsed
    <3>2. p < q => After(b, p) <= q
      BY DEF Parsed
    <3> HIDE DEF a, z
    <3> QED BY <1>2, <1>3, <2>1, <3>1, <3>2
  <2> HIDE DEF z, a
  <2>3. ASSUME NEW i \in 0..z PROVE c[q + 1 + i] = b[q + 1 + i]
    <3>1. q + 1 + i \in 1..N /\ ~(p < q + 1 + i /\ q + 1 + i <= After(b, p))
      BY <1>1, <1>2, <2>1, <2>2
    <3> QED BY <3>1
  <2>4. c[q + 1] = b[q + 1]
    <3>1. 0 \in 0..z /\ q + 1 + 0 = q + 1
      BY <2>1
    <3> QED BY <2>3, <3>1
  <2>5. After(c, q) = After(b, q)
    BY <2>4 DEF After, Get
  <2>6. \A n \in 3..127 :
          n <= z => 2 \in 0..z /\ 3 \in 0..z /\ \A i \in 1..n : i \in 0..z
    BY <2>1
  <2>7. ASSUME NEW f \in Frames, Entry(b, q, f)
        PROVE  Entry(c, q, f) /\ 2 \in 0..z /\ 3 \in 0..z
    <3>1. Len(f) \in 3..127 /\ Len(f) <= z /\ \A i \in 1..Len(f) : b[q + 1 + i] = f[i]
      BY <2>7, FrameFacts DEF Entry, z
    <3>2. 2 \in 0..z /\ 3 \in 0..z /\ \A i \in 1..Len(f) : i \in 0..z
      BY <2>6, <3>1
    <3>3. \A i \in 1..Len(f) : c[q + 1 + i] = f[i]
      BY <2>3, <3>1, <3>2
    <3> QED BY <2>4, <3>1, <3>2, <3>3 DEF Entry, z
  <2>8. PICK f \in Frames : Entry(b, q, f)
    BY DEF Parsed
  <2>9. Entry(c, q, f) /\ 2 \in 0..z /\ 3 \in 0..z
    BY <2>7, <2>8
  <2>10. q + 1 + 2 = q + 3 /\ q + 1 + 3 = q + 4
    BY <2>1
  <2>11. c[q + 3] = b[q + 3] /\ c[q + 4] = b[q + 4]
    BY <2>3, <2>9, <2>10
  <2>12. SameEntry(b, q, c, q)
    BY <2>4, <2>7 DEF SameEntry
  <2> QED BY <2>4, <2>5, <2>9, <2>11, <2>12
<1>4. After(c, p) = After(b, p)
  BY DEF After, Get
<1>5. \A q \in P : After(c, q) = After(b, q) /\ \E f \in Frames : Entry(c, q, f)
  BY <1>3, <1>4
<1>6. Parsed(c, P)
  BY <1>5 DEF Parsed
<1> QED BY <1>3, <1>6 DEF PatchedFrom

\* An entry marked as deleted.
LEMMA MarkedKeeps ==
  ASSUME NEW b, NEW P, Parsed(b, P), NEW p \in P, NEW c, c = MarkDeleted(b, p)
  PROVE  /\ Parsed(c, P) /\ Len(c) = Len(b)
         /\ IsDel(c[p + 1]) /\ \A q \in P : q # p => SameEntry(b, q, c, q)
         /\ \A s : Latest(b, P, s) => Latest(c, P, s)
         /\ \A s, k : Latest(b, P, s) /\ k \in Superseding /\ LiveOf(b, p, k) => NoneOf(c, P, k)
<1> DEFINE x == b[p + 1]
<1>1. b \in Seq(Bytes) /\ Len(b) \in Nat /\ P \in SUBSET Nat
  BY ByteAt DEF Parsed
<1>2. /\ p \in Nat /\ p < Len(b) /\ x \in Bytes /\ Size(x) \in 0..127
      /\ After(b, p) = p + 1 + Size(x) /\ After(b, p) \in Nat
  BY EntryFacts
<1>3. p + 1 \in 1..Len(b)
  BY <1>1, <1>2
<1> DEFINE y == Del + Size(x)
<1>4. y \in Bytes /\ Size(y) = Size(x) /\ IsDel(y)
  BY <1>2, SizeFacts
<1>5. c = [b EXCEPT ![p + 1] = y]
  BY DEF MarkDeleted, ReplaceAt, Get
<1> HIDE DEF x, y
<1>6. /\ c \in Seq(Bytes) /\ Len(c) = Len(b) /\ c[p + 1] = y
      /\ \A i \in 1..Len(b) : i # p + 1 => c[i] = b[i]
  BY <1>1, <1>3, <1>4, <1>5
<1>7. PICK g \in Frames : Entry(b, p, g)
  BY DEF Parsed
<1>8. Entry(c, p, g)
  <2>1. Len(g) \in 3..127 /\ Len(g) <= Size(x) /\ \A i \in 1..Len(g) : b[p + 1 + i] = g[i]
    BY <1>7, FrameFacts DEF Entry, x
  <2>2. p + 1 + Len(g) <= Len(b)
    BY <1>7, EntryHolds
  <2>3. ASSUME NEW i \in 1..Len(g) PROVE c[p + 1 + i] = g[i]
    <3>1. p + 1 + i \in 1..Len(b) /\ p + 1 + i # p + 1
      BY <1>1, <1>2, <2>1, <2>2
    <3> QED BY <1>6, <2>1, <3>1
  <2> QED BY <1>4, <1>6, <2>1, <2>3 DEF Entry
<1>9. PatchedFrom(b, P, p, c)
  <2>1. \A i \in 1..Len(b) : ~(p < i /\ i <= After(b, p)) => c[i] = b[i]
    <3> SUFFICES ASSUME NEW i \in 1..Len(b), ~(p < i /\ i <= After(b, p)) PROVE c[i] = b[i]
      OBVIOUS
    <3>1. p + 1 <= After(b, p)
      <4>1. \A z \in 0..127 : p + 1 <= p + 1 + z
        BY <1>2
      <4> QED BY <1>2, <4>1, Zenon
    <3>2. i # p + 1
      BY <1>2, <3>1
    <3> QED BY <1>6, <3>2
  <2>2. Size(c[p + 1]) = Size(b[p + 1])
    BY <1>4, <1>6 DEF x
  <2> QED BY <1>6, <1>8, <2>1, <2>2, PatchedKeeps
<1>10. /\ \A k : ~LiveOf(c, p, k)
       /\ \A k : \A q \in P : q # p => (LiveOf(c, q, k) <=> LiveOf(b, q, k)) /\ c[q + 4] = b[q + 4]
  BY <1>4, <1>6, <1>9, Zenon DEF LiveOf, PatchedFrom
<1>11. ASSUME NEW s, Latest(b, P, s) PROVE Latest(c, P, s)
  <2> SUFFICES ASSUME NEW r \in P, NEW q \in P, NEW k \in Superseding, LiveOf(c, r, k)
               PROVE  c[r + 4] = s[k] /\ (LiveOf(c, q, k) => r = q)
    BY DEF Latest
  <2>1. r # p /\ LiveOf(b, r, k) /\ c[r + 4] = b[r + 4]
    BY <1>10
  <2>2. b[r + 4] = s[k] /\ (LiveOf(b, q, k) => r = q)
    BY <1>11, <2>1 DEF Latest
  <2>3. LiveOf(c, q, k) => LiveOf(b, q, k)
    BY <1>10
  <2> QED BY <2>1, <2>2, <2>3
<1>12. ASSUME NEW s, NEW k \in Superseding, Latest(b, P, s), LiveOf(b, p, k)
       PROVE  NoneOf(c, P, k)
  <2> SUFFICES ASSUME NEW q \in P, LiveOf(c, q, k) PROVE FALSE
    BY DEF NoneOf
  <2>1. q # p /\ LiveOf(b, q, k)
    BY <1>10
  <2> QED BY <1>12, <2>1 DEF Latest
<1> QED BY <1>4, <1>6, <1>9, <1>11, <1>12 DEF PatchedFrom

\* A frame written over the waiting one of its kind.
LEMMA OverwrittenKeeps ==
  ASSUME NEW b, NEW P, Parsed(b, P), NEW p \in P, NEW f \in Frames,
         Len(f) <= Size(b[p + 1]), NEW c, c = Overwritten(b, p, f)
  PROVE  /\ Parsed(c, P) /\ Len(c) = Len(b)
         /\ c[p + 1] = b[p + 1] /\ Entry(c, p, f)
         /\ \A q \in P : q # p => SameEntry(b, q, c, q)
         /\ \A s, t : /\ Latest(b, P, s) /\ f[2] \in Superseding /\ LiveOf(b, p, f[2])
                      /\ t[f[2]] = f[3] /\ \A k \in Superseding : k # f[2] => t[k] = s[k]
                      => Latest(c, P, t)
<1> DEFINE z == Size(b[p + 1])
<1>1. b \in Seq(Bytes) /\ Len(b) \in Nat /\ P \in SUBSET Nat
  BY ByteAt DEF Parsed
<1>2. /\ p \in Nat /\ p < Len(b) /\ z \in 0..127
      /\ After(b, p) = p + 1 + z /\ After(b, p) \in Nat /\ p + 1 + z <= Len(b)
  BY EntryFacts
<1>3. /\ f \in Seq(Bytes) /\ Len(f) \in 3..127 /\ Len(f) \in Nat /\ Len(f) <= z
      /\ \A i \in 1..Len(f) : f[i] \in Bytes
  BY FrameFacts
<1> DEFINE In(i) == i \in p + 2..p + 1 + Len(f)
           B == [i \in 1..Len(b) |-> IF In(i) THEN f[i - p - 1] ELSE b[i]]
<1>4. c = B
  BY DEF Overwritten
<1> HIDE DEF z
<1>5. \A i \in 1..Len(b) : (IF In(i) THEN f[i - p - 1] ELSE b[i]) \in Bytes
  <2> SUFFICES ASSUME NEW i \in 1..Len(b) PROVE (IF In(i) THEN f[i - p - 1] ELSE b[i]) \in Bytes
    OBVIOUS
  <2>1. CASE In(i)
    <3>1. i - p - 1 \in 1..Len(f)
      BY <1>2, <1>3, <2>1
    <3> QED BY <1>3, <2>1, <3>1
  <2>2. CASE ~In(i)
    BY <1>1, <2>2, ByteAt
  <2> QED BY <2>1, <2>2
<1>6. /\ c \in Seq(Bytes) /\ Len(c) = Len(b)
      /\ \A i \in 1..Len(b) : c[i] = IF In(i) THEN f[i - p - 1] ELSE b[i]
  <2>1. B \in [1..Len(b) -> Bytes]
    BY <1>5
  <2>2. B \in Seq(Bytes) /\ Len(B) = Len(b)
    <3> HIDE DEF B
    <3> QED BY <1>1, <2>1
  <2> QED BY <1>4, <2>2
<1>7. c[p + 1] = b[p + 1]
  <2>1. p + 1 \in 1..Len(b) /\ ~In(p + 1)
    BY <1>1, <1>2
  <2> HIDE DEF In
  <2> QED BY <1>6, <2>1
<1>8. Entry(c, p, f)
  <2> SUFFICES ASSUME NEW i \in 1..Len(f) PROVE c[p + 1 + i] = f[i]
    BY <1>3, <1>7 DEF Entry, z
  <2>1. p + 1 + i \in 1..Len(b) /\ In(p + 1 + i) /\ (p + 1 + i) - p - 1 = i
    BY <1>1, <1>2, <1>3
  <2> HIDE DEF In
  <2> QED BY <1>6, <2>1
<1>9. PatchedFrom(b, P, p, c)
  <2>1. \A i \in 1..Len(b) : ~(p < i /\ i <= After(b, p)) => c[i] = b[i]
    <3> SUFFICES ASSUME NEW i \in 1..Len(b), ~(p < i /\ i <= After(b, p)) PROVE c[i] = b[i]
      OBVIOUS
    <3>1. ~In(i)
      BY <1>2, <1>3
    <3> HIDE DEF In
    <3> QED BY <1>6, <3>1
  <2>2. Size(c[p + 1]) = Size(b[p + 1])
    BY <1>7
  <2> HIDE DEF B
  <2> QED BY <1>6, <1>8, <2>1, <2>2, PatchedKeeps
<1>10. c[p + 3] = f[2] /\ c[p + 4] = f[3]
  <2>1. Parsed(c, P)
    BY <1>9 DEF PatchedFrom
  <2> QED BY <1>8, <2>1, EntryHolds
<1>11. /\ \A k : LiveOf(c, p, k) => k = f[2]
       /\ \A k : \A q \in P : q # p => (LiveOf(c, q, k) <=> LiveOf(b, q, k)) /\ c[q + 4] = b[q + 4]
  BY <1>9, <1>10, Zenon DEF LiveOf, PatchedFrom
<1>12. ASSUME NEW s, NEW t, Latest(b, P, s), f[2] \in Superseding, LiveOf(b, p, f[2]),
              t[f[2]] = f[3], \A k \in Superseding : k # f[2] => t[k] = s[k]
       PROVE  Latest(c, P, t)
  <2> SUFFICES ASSUME NEW r \in P, NEW q \in P, NEW k \in Superseding, LiveOf(c, r, k)
               PROVE  c[r + 4] = t[k] /\ (LiveOf(c, q, k) => r = q)
    BY DEF Latest
  <2>1. CASE k = f[2]
    <3>1. \A e \in P : e # p => ~LiveOf(c, e, k)
      <4> SUFFICES ASSUME NEW e \in P, e # p, LiveOf(c, e, k) PROVE FALSE
        OBVIOUS
      <4>1. LiveOf(b, e, k)
        BY <1>11
      <4> QED BY <1>12, <2>1, <4>1 DEF Latest
    <3> QED BY <1>10, <1>12, <2>1, <3>1
  <2>2. CASE k # f[2]
    <3>1. r # p /\ LiveOf(b, r, k) /\ c[r + 4] = b[r + 4]
      BY <1>11, <2>2
    <3>2. b[r + 4] = s[k] /\ (LiveOf(b, q, k) => r = q)
      BY <1>12, <3>1 DEF Latest
    <3>3. LiveOf(c, q, k) => LiveOf(b, q, k)
      BY <1>11, <2>2
    <3> QED BY <1>12, <2>2, <3>1, <3>2, <3>3
  <2> QED BY <2>1, <2>2
<1> QED BY <1>6, <1>7, <1>8, <1>9, <1>12 DEF PatchedFrom

\* The entries of b hold frames, and the newest of every superseding kind, once.
Ready(b, s) == Parsed(b, Starts(b)) /\ Latest(b, Starts(b), s)

LEMMA ReadyIf ==
  ASSUME NEW b, NEW P, NEW s, Parsed(b, P), Latest(b, P, s)
  PROVE  Ready(b, s)
BY StartsAre DEF Ready

\* The live entries.
LEMMA LiveFacts ==
  ASSUME NEW b, Parsed(b, Starts(b)), NEW K
  PROVE  /\ Live(b, K) \in SUBSET Nat
         /\ \A p : p \in Live(b, K) <=> p \in Starts(b) /\ ~IsDel(b[p + 1]) /\ b[p + 3] \in K
<1>1. Starts(b) \in SUBSET Nat
  BY DEF Parsed
<1>2. ASSUME NEW p \in Starts(b) PROVE Get(b, p) = b[p + 1] /\ Get(b, p + 2) = b[p + 3]
  <2>1. p + 2 + 1 = p + 3
    BY <1>1
  <2> QED BY <2>1 DEF Get
<1> QED BY <1>1, <1>2 DEF Live

\* What is given out is a frame, and the newest of its kind.
GivenRight(f, s) == f \in Frames /\ (KindOf(f) \in Superseding => NumberOf(f) = s[KindOf(f)])
LEMMA GivesRight ==
  ASSUME NEW b, NEW s, Ready(b, s), NEW K, NEW p \in Live(b, K)
  PROVE  GivenRight(FrameAt(b, p), s)
<1>1. p \in Starts(b) /\ ~IsDel(b[p + 1])
  BY LiveFacts DEF Ready
<1>2. PICK f \in Frames : Entry(b, p, f)
  BY <1>1 DEF Ready, Parsed
<1>3. FrameAt(b, p) = f /\ b[p + 3] = f[2] /\ b[p + 4] = f[3]
  BY <1>1, <1>2, EntryHolds DEF Ready
<1>4. f[2] = KindOf(f) /\ f[3] = NumberOf(f)
  BY FrameFacts
<1>5. f[2] \in Superseding => f[3] = s[f[2]]
  BY <1>1, <1>3 DEF Ready, Latest, LiveOf
<1> QED BY <1>3, <1>4, <1>5 DEF GivenRight

\* Entries skipped in a FIFO that is ready.
LEMMA SkipTo ==
  ASSUME NEW b, NEW P, Parsed(b, P), NEW m \in P \cup {Len(b)}
  PROVE  CanSkip(b, P, m, SubSeq(b, m + 1, Len(b)), Behind(P, m))
<1> DEFINE c == SubSeq(b, m + 1, Len(b))
           Q == Behind(P, m)
<1>1. c = SubSeq(b, m + 1, Len(b)) /\ Q = Behind(P, m)
  OBVIOUS
<1> HIDE DEF c, Q
<1>2. CanSkip(b, P, m, c, Q)
  BY <1>1, SkippedKeeps
<1> QED BY <1>1, <1>2

LEMMA PushTo ==
  ASSUME NEW b, NEW P, Parsed(b, P), NEW f \in Frames
  PROVE  CanPush(b, P, f, b \o <<Len(f)>> \o f, P \cup {Len(b)})
<1> DEFINE c == b \o <<Len(f)>> \o f
           Q == P \cup {Len(b)}
<1>1. c = b \o <<Len(f)>> \o f /\ Q = P \cup {Len(b)}
  OBVIOUS
<1> HIDE DEF c, Q
<1>2. CanPush(b, P, f, c, Q)
  BY <1>1, PushedKeeps
<1> QED BY <1>1, <1>2

LEMMA SkipReady ==
  ASSUME NEW b, NEW s, Ready(b, s), NEW m \in Starts(b) \cup {Len(b)}
  PROVE  /\ Ready(SubSeq(b, m + 1, Len(b)), s)
         /\ Len(SubSeq(b, m + 1, Len(b))) <= Len(b)
<1> DEFINE P == Starts(b)
           Q == Behind(P, m)
           c == SubSeq(b, m + 1, Len(b))
<1>1. Parsed(b, P) /\ Latest(b, P, s)
  BY DEF Ready
<1>2. CanSkip(b, P, m, c, Q)
  BY <1>1, SkipTo, Zenon
<1> HIDE DEF P, Q, c
<1>3. Parsed(c, Q) /\ Latest(c, Q, s) /\ Len(c) <= Len(b)
  BY <1>1, <1>2 DEF CanSkip
<1>4. Ready(c, s)
  BY <1>3, ReadyIf, Zenon
<1> QED BY <1>3, <1>4 DEF c

\* The oldest entries make room, and the frame is put at the end.
PushesBehind(b, P, f, m, c, Q) ==
  /\ c = SubSeq(b, m + 1, Len(b)) /\ Q = Behind(P, m) /\ Available(c, f)
  /\ CanSkip(b, P, m, c, Q)
  /\ CanPush(c, Q, f, Pushed(b, f), Q \cup {Len(c)})
LEMMA PushedIs ==
  ASSUME NEW b, NEW P, Parsed(b, P), NEW f \in Frames
  PROVE  \E m \in P \cup {Len(b)} : \E c, Q : PushesBehind(b, P, f, m, c, Q)
<1> DEFINE From(p) == SubSeq(b, p + 1, Len(b))
           Fit == {p \in Starts(b) \cup {Len(b)} : Available(From(p), f)}
           m == Min(Fit)
           c == From(m)
           Q == Behind(P, m)
<1>1. Starts(b) = P /\ P \in SUBSET Nat /\ Len(b) \in Nat
  BY StartsAre, ByteAt DEF Parsed
<1>2. Len(f) \in Lengths /\ Len(f) \in Nat
  BY FrameFacts
<1>3. Len(b) \in Fit
  <2>1. Len(From(Len(b))) = 0
    BY <1>1
  <2>2. 0 + Len(f) + 1 < FifoSize
    BY <1>2, SizeAssumption
  <2> QED BY <2>1, <2>2 DEF Available
<1>4. Fit \in SUBSET Nat
  BY <1>1
<1> HIDE DEF Fit
<1>5. m \in Fit
  BY <1>3, <1>4, MinIn
<1>6. m \in P \cup {Len(b)} /\ Available(c, f)
  BY <1>1, <1>5 DEF Fit
<1>7. Pushed(b, f) = c \o <<Len(f)>> \o f
  BY DEF Pushed, MadeRoom, Fit
<1> HIDE DEF m
<1>8. c = SubSeq(b, m + 1, Len(b)) /\ Q = Behind(P, m)
  OBVIOUS
<1>9. CanSkip(b, P, m, c, Q)
  BY <1>6, SkipTo, Zenon
<1> HIDE DEF c, Q
<1>10. Parsed(c, Q)
  BY <1>9 DEF CanSkip
<1>11. CanPush(c, Q, f, Pushed(b, f), Q \cup {Len(c)})
  <2>1. CanPush(c, Q, f, c \o <<Len(f)>> \o f, Q \cup {Len(c)})
    BY <1>10, PushTo, Zenon
  <2> QED BY <1>7, <2>1, Zenon
<1>12. PushesBehind(b, P, f, m, c, Q)
  BY <1>6, <1>8, <1>9, <1>11 DEF PushesBehind
<1> QED BY <1>6, <1>12

LEMMA PushReady ==
  ASSUME NEW b, NEW P, NEW s, NEW t, Parsed(b, P), Latest(b, P, s), NEW f \in Frames,
         f[2] \in Superseding => NoneOf(b, P, f[2]),
         t[f[2]] = f[3], \A k \in Superseding : k # f[2] => t[k] = s[k]
  PROVE  Ready(Pushed(b, f), t) /\ Len(Pushed(b, f)) < FifoSize
<1>1. PICK m \in P \cup {Len(b)} : \E c, Q : PushesBehind(b, P, f, m, c, Q)
  BY PushedIs
<1>2. PICK c, Q : PushesBehind(b, P, f, m, c, Q)
  BY <1>1
<1> DEFINE d == Pushed(b, f)
           R == Q \cup {Len(c)}
<1> HIDE DEF d, R
<1>3. CanSkip(b, P, m, c, Q) /\ CanPush(c, Q, f, d, R) /\ Available(c, f)
  BY <1>2 DEF PushesBehind, d, R
<1>4. Latest(c, Q, s) /\ (f[2] \in Superseding => NoneOf(c, Q, f[2]))
  BY <1>3 DEF CanSkip
<1>5. Parsed(d, R) /\ Len(d) = Len(c) + Len(f) + 1 /\ Latest(d, R, t)
  BY <1>3, <1>4, Zenon DEF CanPush
<1>6. Ready(d, t)
  BY <1>5, ReadyIf
<1>7. Len(d) < FifoSize
  BY <1>3, <1>5 DEF Available
<1> QED BY <1>6, <1>7 DEF d

\* Every variable has its type, and the bytes are entries as they should be.
QueueInv == TypeOK /\ Ready(fifo, sent)
Held(b, s) == Ready(b, s) /\ Len(b) < FifoSize

LEMMA HeldTyped ==
  ASSUME NEW b, NEW s, Held(b, s)
  PROVE  Len(b) < FifoSize /\ \A i \in 1..Len(b) : b[i] \in 0..255
<1>1. b \in Seq(Bytes)
  BY DEF Held, Ready, Parsed
<1>2. \A i \in 1..Len(b) : b[i] \in Bytes
  BY <1>1, ByteAt
<1> QED BY <1>2 DEF Held, Bytes

LEMMA QueueStart == Init => QueueInv
<1> SUFFICES ASSUME Init PROVE QueueInv
  OBVIOUS
<1>1. fifo = <<>> /\ Len(fifo) = 0
  BY DEF Init
<1>2. Parsed(fifo, {})
  <2>1. fifo \in Seq(Bytes)
    BY <1>1
  <2> QED BY <1>1, <2>1 DEF Parsed
<1>3. Latest(fifo, {}, sent)
  BY DEF Latest
<1>4. Ready(fifo, sent)
  BY <1>2, <1>3, ReadyIf
<1>5. TypeOK
  BY <1>1, SizeAssumption DEF Init, TypeOK
<1> QED BY <1>4, <1>5 DEF QueueInv

\* A live entry marked as deleted, in a FIFO that is ready.
LEMMA MarkReady ==
  ASSUME NEW b, NEW s, Held(b, s), NEW p \in Starts(b)
  PROVE  Held(MarkDeleted(b, p), s)
<1> DEFINE c == MarkDeleted(b, p)
           P == Starts(b)
<1>1. c = MarkDeleted(b, p) /\ Parsed(b, P) /\ Latest(b, P, s) /\ p \in P
  BY DEF Held, Ready
<1> HIDE DEF c, P
<1>2. Parsed(c, P) /\ Len(c) = Len(b) /\ Latest(c, P, s)
  BY <1>1, MarkedKeeps
<1>3. Ready(c, s)
  BY <1>2, ReadyIf
<1> QED BY <1>1, <1>2, <1>3 DEF Held

\* A newer frame in the place of the waiting one.
Newer(f, s, t) == t[f[2]] = f[3] /\ \A k \in Superseding : k # f[2] => t[k] = s[k]
LEMMA SupersededReady ==
  ASSUME Held(fifo, sent), NEW f \in Frames, f[2] \in Superseding,
         NEW p \in Live(fifo, {f[2]}), NEW t, Newer(f, sent, t)
  PROVE  Held(Superseded(p, f), t)
<1> DEFINE P == Starts(fifo)
           c == Overwritten(fifo, p, f)
           d == MarkDeleted(fifo, p)
<1>1. Parsed(fifo, P) /\ Latest(fifo, P, sent)
  BY DEF Held, Ready
<1>2. p \in P /\ LiveOf(fifo, p, f[2]) /\ ~IsDel(fifo[p + 1])
  BY <1>1, LiveFacts DEF LiveOf
<1>3. p \in Nat /\ fifo[p + 1] \in Bytes /\ Size(fifo[p + 1]) = fifo[p + 1]
  BY <1>1, <1>2, EntryFacts, SizeFacts
<1>4. Get(fifo, p) = fifo[p + 1]
  BY DEF Get
<1>5. c = Overwritten(fifo, p, f) /\ d = MarkDeleted(fifo, p) /\ Len(f) \in Nat
  BY FrameFacts
<1> HIDE DEF c, d, P
<1>6. CASE Get(fifo, p) >= Len(f)
  <2>1. Superseded(p, f) = c
    BY <1>5, <1>6 DEF Superseded
  <2>2. Len(f) <= Size(fifo[p + 1])
    BY <1>3, <1>4, <1>5, <1>6 DEF Bytes
  <2>3. Parsed(c, P) /\ Len(c) = Len(fifo) /\ Latest(c, P, t)
    BY <1>1, <1>2, <1>5, <2>2, OverwrittenKeeps DEF Newer
  <2>4. Ready(c, t)
    BY <2>3, ReadyIf
  <2> QED BY <2>1, <2>3, <2>4 DEF Held
<1>7. CASE ~(Get(fifo, p) >= Len(f))
  <2>1. Superseded(p, f) = Pushed(d, f)
    BY <1>5, <1>7 DEF Superseded
  <2>2. Parsed(d, P) /\ Latest(d, P, sent) /\ NoneOf(d, P, f[2])
    BY <1>1, <1>2, <1>5, MarkedKeeps
  <2>3. Ready(Pushed(d, f), t) /\ Len(Pushed(d, f)) < FifoSize
    BY <2>2, PushReady DEF Newer
  <2> QED BY <2>1, <2>3 DEF Held
<1> QED BY <1>6, <1>7

\* The frame appended has the next number.
LEMMA SerialOf ==
  ASSUME NEW t \in [Kinds -> 0..MaxFrames]
  PROVE  /\ Max0({t[k] : k \in Kinds}) \in 0..MaxFrames
         /\ \A k \in Kinds : t[k] <= Max0({t[i] : i \in Kinds})
<1> DEFINE S == {t[k] : k \in Kinds} \cup {0}
<1>1. MaxFrames \in Nat /\ S \in SUBSET (0..MaxFrames) /\ S # {}
  BY SizeAssumption
<1>2. Max(S) \in S /\ \A y \in S : y <= Max(S)
  <2> HIDE DEF S
  <2> QED BY <1>1, MaxIn
<1> QED BY <1>1, <1>2 DEF Max0

LEMMA SerialIs ==
  ASSUME TypeOK
  PROVE  Serial \in 0..MaxFrames
BY SerialOf DEF TypeOK, Serial

LEMMA AppendedIs ==
  ASSUME TypeOK, AppendSome
  PROVE  \E f \in Frames : NumberOf(f) = Serial + 1 /\ AppendTelemetryPackage(f)
<1>1. Serial \in 0..MaxFrames /\ MaxFrames \in Nat
  BY SerialIs, SizeAssumption
<1>2. PICK k \in Kinds, n \in Lengths : AppendTelemetryPackage(Frame(k, n, Serial + 1))
  BY DEF AppendSome
<1> DEFINE f == Frame(k, n, Serial + 1)
<1>3. f \in Frames
  <2>1. Serial + 1 \in 1..MaxFrames
    BY <1>1 DEF AppendSome
  <2> QED BY <2>1 DEF Frames
<1>4. NumberOf(f) = Serial + 1
  <2>1. n \in 3..127
    BY SizeAssumption
  <2> QED BY <2>1 DEF Frame, NumberOf
<1> QED BY <1>2, <1>3, <1>4

LEMMA AppendStep ==
  ASSUME QueueInv, AppendSome
  PROVE  QueueInv' /\ out' = out
<1>1. Held(fifo, sent) /\ TypeOK
  BY DEF QueueInv, TypeOK, Held
<1>4. PICK f \in Frames : NumberOf(f) = Serial + 1 /\ AppendTelemetryPackage(f)
  BY AppendedIs DEF QueueInv
<1>5. AppendTelemetryPackage(f)
  BY <1>4
<1> DEFINE t == [sent EXCEPT ![KindOf(f)] = NumberOf(f)]
           same == IF KindOf(f) \in Superseding THEN Live(fifo, {KindOf(f)}) ELSE {}
<1>6. /\ fifo' = IF same # {} THEN Superseded(Min(same), f) ELSE Pushed(fifo, f)
      /\ count' = IF KindOf(f) \in Prioritised THEN (count + 1) % 256 ELSE count
      /\ sent' = t /\ out' = out
  BY <1>5, Zenon DEF AppendTelemetryPackage
<1>7. KindOf(f) = f[2] /\ NumberOf(f) = f[3] /\ f[2] \in Kinds /\ f[3] \in 1..MaxFrames
  BY <1>4, FrameFacts
<1>8. t \in [Kinds -> 0..MaxFrames] /\ Newer(f, sent, t)
  BY <1>1, <1>7, KindAssumption DEF TypeOK, Newer
<1>9. Held(fifo', t)
  <2> HIDE DEF t
  <2>1. CASE same = {}
    <3>1. Parsed(fifo, Starts(fifo)) /\ Latest(fifo, Starts(fifo), sent)
      BY <1>1 DEF Held, Ready
    <3>2. f[2] \in Superseding => NoneOf(fifo, Starts(fifo), f[2])
      BY <1>7, <2>1, <3>1, LiveFacts DEF NoneOf, LiveOf
    <3>3. Ready(Pushed(fifo, f), t) /\ Len(Pushed(fifo, f)) < FifoSize
      BY <1>4, <1>8, <3>1, <3>2, PushReady DEF Newer
    <3> QED BY <1>6, <2>1, <3>3 DEF Held
  <2>2. CASE same # {}
    <3>1. same = Live(fifo, {f[2]}) /\ f[2] \in Superseding
      BY <1>7, <2>2
    <3>2. same \in SUBSET Nat
      BY <1>1, <3>1, LiveFacts DEF Held, Ready
    <3>3. Min(same) \in same
      BY <2>2, <3>2, MinIn
    <3>4. Held(Superseded(Min(same), f), t)
      BY <1>1, <1>4, <1>8, <3>1, <3>3, SupersededReady
    <3> QED BY <1>6, <2>2, <3>4
  <2> QED BY <2>1, <2>2
<1>10. count' \in 0..255
  BY <1>1, <1>6 DEF TypeOK
<1>11. TypeOK'
  <2>1. Len(fifo') < FifoSize /\ \A i \in 1..Len(fifo') : fifo'[i] \in 0..255
    BY <1>9, HeldTyped
  <2> QED BY <1>1, <1>6, <1>8, <1>10, <2>1 DEF TypeOK
<1> QED BY <1>6, <1>9, <1>11 DEF QueueInv, Held

\* A frame given out, of those of the kinds K.
LEMMA GivenFrom ==
  ASSUME Held(fifo, sent), NEW K, Live(fifo, K) # {}
  PROVE  /\ GivenRight(FrameAt(fifo, Min(Live(fifo, K))), sent)
         /\ Held(MarkDeleted(fifo, Min(Live(fifo, K))), sent)
         /\ Held(SubSeq(fifo, After(fifo, Min(Live(fifo, K))) + 1, Len(fifo)), sent)
<1> DEFINE p == Min(Live(fifo, K))
<1>1. Ready(fifo, sent) /\ Parsed(fifo, Starts(fifo)) /\ Len(fifo) \in Nat /\ FifoSize \in Nat
  BY ByteAt, SizeAssumption DEF Held, Ready, Parsed
<1>2. Live(fifo, K) \in SUBSET Nat
  BY <1>1, LiveFacts
<1>3. p \in Live(fifo, K)
  BY <1>2, MinIn
<1> HIDE DEF p
<1>4. GivenRight(FrameAt(fifo, p), sent)
  BY <1>1, <1>3, GivesRight
<1>5. p \in Starts(fifo)
  BY <1>1, <1>3, LiveFacts
<1>6. Held(MarkDeleted(fifo, p), sent)
  BY <1>5, MarkReady
<1>7. Held(SubSeq(fifo, After(fifo, p) + 1, Len(fifo)), sent)
  <2> DEFINE a == After(fifo, p)
             c == SubSeq(fifo, a + 1, Len(fifo))
  <2>1. a \in Starts(fifo) \cup {Len(fifo)}
    BY <1>1, <1>5 DEF Parsed
  <2> HIDE DEF a
  <2>2. Ready(c, sent) /\ Len(c) <= Len(fifo)
    BY <1>1, <2>1, SkipReady
  <2>3. Len(c) \in Nat /\ Len(fifo) < FifoSize
    BY <2>2, ByteAt DEF Held, Ready, Parsed
  <2> HIDE DEF c
  <2>4. Held(c, sent)
    BY <1>1, <2>2, <2>3 DEF Held
  <2> QED BY <2>4 DEF c, a
<1> QED BY <1>4, <1>6, <1>7 DEF p

LEMMA GetPrioritisedStep ==
  ASSUME QueueInv, GetPrioritised
  PROVE  QueueInv' /\ GivenRight(out', sent)
<1> DEFINE p == Min(PrioritisedEntries)
<1>1. Held(fifo, sent) /\ TypeOK
  BY DEF QueueInv, TypeOK, Held
<1>2. PrioritisedEntries = Live(fifo, Prioritised) /\ Live(fifo, Prioritised) # {} /\ count # 0
  BY DEF GetPrioritised, PrioritisedEntries
<1>3. /\ out' = FrameAt(fifo, p) /\ sent' = sent /\ count' = count - 1
      /\ fifo' = IF p = 0 THEN SubSeq(fifo, After(fifo, 0) + 1, Len(fifo))
                 ELSE MarkDeleted(fifo, p)
  BY DEF GetPrioritised
<1>4. /\ GivenRight(FrameAt(fifo, p), sent) /\ Held(MarkDeleted(fifo, p), sent)
      /\ Held(SubSeq(fifo, After(fifo, p) + 1, Len(fifo)), sent)
  BY <1>1, <1>2, GivenFrom
<1> HIDE DEF p
<1>5. Held(fifo', sent)
  BY <1>3, <1>4
<1>6. out' \in Frames /\ count' \in 0..255
  BY <1>1, <1>2, <1>3, <1>4 DEF GivenRight, TypeOK
<1>7. TypeOK'
  <2>1. Len(fifo') < FifoSize /\ \A i \in 1..Len(fifo') : fifo'[i] \in 0..255
    BY <1>5, HeldTyped
  <2> QED BY <1>1, <1>3, <1>6, <2>1 DEF TypeOK
<1> QED BY <1>3, <1>4, <1>5, <1>7 DEF QueueInv, Held

LEMMA GetHeadStep ==
  ASSUME QueueInv, GetHead
  PROVE  QueueInv' /\ (out' # out => GivenRight(out', sent))
<1> DEFINE live == Live(fifo, Kinds)
           p == Min(live)
<1>1. Held(fifo, sent) /\ TypeOK
  BY DEF QueueInv, TypeOK, Held
<1>2. /\ sent' = sent /\ count' = 0
      /\ IF live = {} THEN fifo' = <<>> /\ UNCHANGED out
         ELSE /\ out' = FrameAt(fifo, p)
              /\ fifo' = SubSeq(fifo, After(fifo, p) + 1, Len(fifo))
  BY DEF GetHead
<1>3. CASE live = {}
  <2>1. fifo' = <<>> /\ out' = out /\ Len(fifo') = 0
    BY <1>2, <1>3
  <2>2. Parsed(fifo', {})
    <3>1. fifo' \in Seq(Bytes)
      BY <2>1
    <3> QED BY <2>1, <3>1 DEF Parsed
  <2>3. Latest(fifo', {}, sent)
    BY DEF Latest
  <2>4. Ready(fifo', sent')
    BY <1>2, <2>2, <2>3, ReadyIf
  <2>5. TypeOK'
    BY <1>1, <1>2, <2>1, SizeAssumption DEF TypeOK
  <2> QED BY <2>1, <2>4, <2>5 DEF QueueInv
<1>4. CASE live # {}
  <2>1. /\ GivenRight(FrameAt(fifo, p), sent)
        /\ Held(SubSeq(fifo, After(fifo, p) + 1, Len(fifo)), sent)
    BY <1>1, <1>4, GivenFrom
  <2> HIDE DEF p, live
  <2>2. out' = FrameAt(fifo, p) /\ Held(fifo', sent)
    BY <1>2, <1>4, <2>1
  <2>3. TypeOK'
    <3>1. Len(fifo') < FifoSize /\ \A i \in 1..Len(fifo') : fifo'[i] \in 0..255
      BY <2>2, HeldTyped
    <3> QED BY <1>1, <1>2, <2>1, <2>2, <3>1 DEF TypeOK, GivenRight
  <2> QED BY <1>2, <2>1, <2>2, <2>3 DEF QueueInv, Held
<1> QED BY <1>3, <1>4

LEMMA QueueStep ==
  QueueInv /\ [Next]_vars =>
    QueueInv' /\ (out' # out => GivenRight(out', sent))
<1> SUFFICES ASSUME QueueInv, [Next]_vars
             PROVE  QueueInv' /\ (out' # out => GivenRight(out', sent))
  OBVIOUS
<1>1. CASE AppendSome
  BY <1>1, AppendStep
<1>2. CASE GetPrioritised
  BY <1>2, GetPrioritisedStep
<1>3. CASE GetHead
  BY <1>3, GetHeadStep
<1>4. CASE UNCHANGED vars
  BY <1>4 DEF vars, QueueInv, TypeOK
<1> QED BY <1>1, <1>2, <1>3, <1>4 DEF Next

\* The queue's variables keep their types, for any sizes of FIFO and frames in which the
\* longest frame fits: what is given out is a whole frame that was appended, and the
\* FIFO is never filled to the last byte, where push would flush it (telemetry.c).
THEOREM QueueTyped == Spec => []TypeOK
<1>1. QueueInv /\ [Next]_vars => QueueInv'
  BY QueueStep
<1>2. QueueInv => TypeOK
  BY DEF QueueInv
<1> QED BY <1>1, <1>2, QueueStart, PTL DEF Spec

\* A frame of a superseding kind that the queue gives out is the newest of its kind that
\* was appended (ACTION_OVERWRITE in AppendTelemetryPackage, GetNextPayload).
THEOREM NewestGiven == Spec => NewestIsGiven
<1>1. QueueInv /\ [Next]_vars => QueueInv'
  BY QueueStep
<1>2. QueueInv /\ [Next]_vars =>
        [out' # out /\ KindOf(out') \in Superseding => NumberOf(out') = sent[KindOf(out')]]_vars
  BY QueueStep DEF GivenRight
<1> QED BY <1>1, <1>2, QueueStart, PTL DEF Spec, NewestIsGiven

-----------------------------------------------------------------------------
(***************************************************************************)
(* The queue's bytes as a sequence of frames. s lists the positions of the *)
(* live entries of b, upwards, and w the frames in them.                   *)
(***************************************************************************)
View(b, P, s, w) ==
  /\ w \in Seq(Frames) /\ s \in [1..Len(w) -> Nat]
  /\ \A i \in 1..Len(w) : s[i] \in P /\ ~IsDel(b[s[i] + 1]) /\ Entry(b, s[i], w[i])
  /\ \A i, j \in 1..Len(w) : i < j => s[i] < s[j]
  /\ \A p \in P : ~IsDel(b[p + 1]) => \E i \in 1..Len(w) : s[i] = p

\* The first k of the n positions of s are before p, the others are not.
SplitAt(n, s, p, k) == /\ k \in 0..n
                   /\ \A j \in 1..n : (j <= k => s[j] < p) /\ (k < j => p <= s[j])

\* A list of positions can be cut anywhere.
LEMMA CanSplit ==
  ASSUME NEW n \in Nat, NEW s \in [1..n -> Nat], NEW p \in Nat,
         \A i, j \in 1..n : i < j => s[i] < s[j]
  PROVE  \E k \in 0..n : SplitAt(n, s, p, k)
<1> DEFINE T == {k \in 0..n : \A j \in 1..n : k < j => p <= s[j]}
<1>1. n \in T /\ T \in SUBSET Nat
  OBVIOUS
<1>2. PICK k \in T : \A y \in T : ~(y < k)
  BY <1>1, LeastNumber
<1>3. ASSUME NEW j \in 1..n, j <= k PROVE s[j] < p
  <2> SUFFICES ASSUME ~(s[j] < p) PROVE FALSE
    OBVIOUS
  <2>1. s[j] \in Nat /\ p <= s[j] /\ j - 1 \in 0..n /\ j - 1 < k /\ k \in 0..n
    BY <1>3
  <2>2. ASSUME NEW i \in 1..n, j - 1 < i PROVE p <= s[i]
    <3>1. i = j \/ j < i
      BY <2>2
    <3>2. s[i] \in Nat /\ (j < i => s[j] < s[i])
      OBVIOUS
    <3> QED BY <2>1, <3>1, <3>2
  <2>3. j - 1 \in T
    BY <2>1, <2>2
  <2> QED BY <1>2, <2>1, <2>3
<1> QED BY <1>2, <1>3 DEF SplitAt

\* The part of a sequence of frames behind the first k, and the whole.
LEMMA Rest ==
  ASSUME NEW w \in Seq(Frames), NEW k \in 0..Len(w)
  PROVE  /\ SubSeq(w, k + 1, Len(w)) \in Seq(Frames) /\ Len(SubSeq(w, k + 1, Len(w))) = Len(w) - k
         /\ \A i \in 1..Len(w) - k : SubSeq(w, k + 1, Len(w))[i] = w[k + i]
<1>1. Len(w) \in Nat /\ k \in Nat /\ \A i \in 1..Len(w) : w[i] \in Frames
  OBVIOUS
<1> DEFINE n == Len(w)
<1> HIDE DEF n
<1>2. n \in Nat /\ k \in 0..n /\ \A i \in (k + 1)..n : w[i] \in Frames
  BY <1>1 DEF n
<1>3. /\ SubSeq(w, k + 1, n) \in Seq(Frames)
      /\ Len(SubSeq(w, k + 1, n)) = IF k + 1 <= n THEN n - (k + 1) + 1 ELSE 0
      /\ \A i \in 1..n - (k + 1) + 1 : SubSeq(w, k + 1, n)[i] = w[(k + 1) + i - 1]
  <2>1. k + 1 \in Int /\ n \in Int
    BY <1>2
  <2> QED BY <1>2, <2>1, SubSeqProperties
<1>4. Len(SubSeq(w, k + 1, n)) = n - k
  BY <1>2, <1>3
<1>5. ASSUME NEW i \in 1..n - k PROVE SubSeq(w, k + 1, n)[i] = w[k + i]
  <2>1. i \in 1..n - (k + 1) + 1 /\ (k + 1) + i - 1 = k + i
    BY <1>2
  <2> QED BY <1>3, <2>1
<1> QED BY <1>3, <1>4, <1>5 DEF n

\* The first frame of a part, and the others.
LEMMA FirstOfRest ==
  ASSUME NEW w \in Seq(Frames), NEW k \in 0..Len(w), k + 1 \in 1..Len(w)
  PROVE  <<w[k + 1]>> \o SubSeq(w, (k + 1) + 1, Len(w)) = SubSeq(w, k + 1, Len(w))
<1> DEFINE n == Len(w)
           u == <<w[k + 1]>>
           v == SubSeq(w, (k + 1) + 1, n)
           t == SubSeq(w, k + 1, n)
<1>1. n \in Nat /\ k \in Nat /\ k + 1 <= n /\ k + 1 \in 0..Len(w) /\ w[k + 1] \in Frames
  OBVIOUS
<1>2. v \in Seq(Frames) /\ Len(v) = n - (k + 1) /\ \A j \in 1..n - (k + 1) : v[j] = w[(k + 1) + j]
  BY <1>1, Rest, Zenon
<1>3. t \in Seq(Frames) /\ Len(t) = n - k /\ \A j \in 1..n - k : t[j] = w[k + j]
  BY <1>1, Rest, Zenon
<1>4. u \in Seq(Frames) /\ Len(u) = 1 /\ u[1] = w[k + 1]
  BY <1>1
<1> HIDE DEF n, u, v, t
<1>5. /\ u \o v \in Seq(Frames) /\ Len(u \o v) = Len(u) + Len(v)
      /\ \A j \in 1..Len(u) + Len(v) : (u \o v)[j] = IF j <= Len(u) THEN u[j] ELSE v[j - Len(u)]
  <2>1. u \in Seq(Frames) /\ v \in Seq(Frames)
    BY <1>2, <1>4
  <2> QED BY <2>1, ConcatProperties, Zenon
<1>6. Len(u) + Len(v) = n - k
  BY <1>1, <1>2, <1>4
<1>7. ASSUME NEW j \in 1..n - k PROVE (u \o v)[j] = t[j]
  <2>1. (u \o v)[j] = IF j <= 1 THEN u[j] ELSE v[j - 1]
    BY <1>4, <1>5, <1>6
  <2>2. CASE j <= 1
    <3>1. j = 1 /\ k + j = k + 1
      BY <1>1, <2>2
    <3> QED BY <1>3, <1>4, <2>1, <3>1
  <2>3. CASE ~(j <= 1)
    <3>1. j - 1 \in 1..n - (k + 1) /\ (k + 1) + (j - 1) = k + j
      BY <1>1, <2>3
    <3> QED BY <1>2, <1>3, <2>1, <2>3, <3>1
  <2> QED BY <2>2, <2>3
<1>8. u \o v = t
  BY <1>3, <1>5, <1>6, <1>7, SeqEqual
<1> QED BY <1>8 DEF n, u, v, t

\* Both loops and the list come to the same frames.
LEMMA ViewIs ==
  ASSUME NEW b, NEW P, Parsed(b, P), NEW s, NEW w, View(b, P, s, w)
  PROVE  LiveFrames(b) = w
<1> DEFINE N == Len(b)
           n == Len(w)
           X == {FrameAt(b, p) : p \in Nat}
           D == Seq(X)
           One(p) == IF IsDel(Get(b, p)) THEN <<>> ELSE <<FrameAt(b, p)>>
           H == [x \in Nat \X D |-> One(x[1]) \o x[2]]
           Is(f) == f = [p \in Nat |-> IF p >= N THEN <<>> ELSE One(p) \o f[After(b, p)]]
           from == CHOOSE f : Is(f)
<1>1. /\ N \in Nat /\ b \in Seq(Bytes) /\ P \in SUBSET Nat /\ \A p \in P : p < N
      /\ n \in Nat /\ w \in Seq(Frames) /\ s \in [1..n -> Nat]
  BY ByteAt DEF Parsed, View
<1>2. LiveFrames(b) = from[0]
  BY DEF LiveFrames
<1>3. \A p \in Nat : One(p) \in D
  <2>1. \A p \in Nat : FrameAt(b, p) \in X
    OBVIOUS
  <2> HIDE DEF X
  <2>2. \A p \in Nat : <<FrameAt(b, p)>> \in Seq(X)
    BY <2>1
  <2> QED BY <2>2
<1> HIDE DEF X, One
<1>4. PICK g \in [Nat -> D] :
        \A p \in Nat : g[p] = IF p >= N THEN <<>> ELSE H[p, g[Onward(b)[p]]]
  <2>1. H \in [Nat \X D -> D] /\ <<>> \in D
    <3>1. \A x \in Nat \X D : One(x[1]) \o x[2] \in D
      <4> SUFFICES ASSUME NEW x \in Nat \X D PROVE One(x[1]) \o x[2] \in D
        OBVIOUS
      <4>1. One(x[1]) \in D /\ x[2] \in D
        BY <1>3
      <4> QED BY <4>1
    <3>2. <<>> \in D
      OBVIOUS
    <3> HIDE DEF D
    <3> QED BY <3>1, <3>2
  <2> HIDE DEF D, H
  <2>2. CanDescend(N, D, <<>>, Onward(b), H)
    BY <1>1, <2>1, OnwardGoesUp, Descends
  <2> QED BY <2>2 DEF CanDescend
<1>5. ASSUME NEW p \in Nat, ~(p >= N) PROVE H[p, g[Onward(b)[p]]] = One(p) \o g[After(b, p)]
  <2>1. Onward(b)[p] = After(b, p) /\ Onward(b)[p] \in Nat
    BY <1>1, <1>5, OnwardGoesUp DEF Onward
  <2> HIDE DEF D
  <2>2. g[After(b, p)] \in D
    BY <2>1
  <2> QED BY <2>1, <2>2
<1>6. Is(g)
  <2>1. \A p \in Nat : g[p] = IF p >= N THEN <<>> ELSE One(p) \o g[After(b, p)]
    BY <1>4, <1>5
  <2> HIDE DEF D
  <2> QED BY <2>1
<1>7. Is(from)
  <2> HIDE DEF Is
  <2> QED BY <1>6
<1>8. \A p \in Nat : from[p] = IF p >= N THEN <<>> ELSE One(p) \o from[After(b, p)]
  <2> HIDE DEF from
  <2> QED BY <1>7
<1> HIDE DEF from, N, n, D, H, Is
<1> DEFINE Part(k) == SubSeq(w, k + 1, n)
           T == {p \in Nat : \A k \in 0..n : SplitAt(n, s, p, k) => from[p] = Part(k)}
<1>9. \A k \in 0..n : /\ Part(k) \in Seq(Frames) /\ Len(Part(k)) = n - k
                      /\ \A i \in 1..n - k : Part(k)[i] = w[k + i]
  BY <1>1, Rest DEF n
<1>10. N \in T
  <2>1. from[N] = <<>>
    <3>1. N >= N
      BY <1>1
    <3> QED BY <1>1, <1>8, <3>1
  <2>2. ASSUME NEW k \in 0..n, SplitAt(n, s, N, k) PROVE Part(k) = <<>>
    <3>1. \A j \in 1..n : s[j] \in Nat /\ s[j] < N
      BY <1>1 DEF View, n
    <3>2. ~(k < n)
      <4> SUFFICES ASSUME k < n PROVE FALSE
        OBVIOUS
      <4>1. n \in 1..n
        BY <1>1
      <4>2. N <= s[n]
        BY <2>2, <4>1 DEF SplitAt
      <4> QED BY <1>1, <3>1, <4>1, <4>2
    <3>3. n - k = 0
      BY <1>1, <3>2
    <3>4. Part(k) \in Seq(Frames) /\ Len(Part(k)) = 0
      BY <1>9, <3>3
    <3> HIDE DEF Part
    <3> QED BY <3>4, EmptySeq
  <2> HIDE DEF Part
  <2> QED BY <1>1, <2>1, <2>2
<1>11. ASSUME NEW p \in P, After(b, p) \in T PROVE p \in T
  <2> DEFINE a == After(b, p)
  <2>1. p \in Nat /\ p < N /\ a \in Nat /\ a > p
    BY EntryFacts DEF N
  <2>2. \A q \in P : q \in Nat /\ (p < q => a <= q)
    BY <1>1 DEF Parsed
  <2>3. from[p] = One(p) \o from[a]
    <3>1. ~(p >= N)
      BY <1>1, <2>1
    <3> QED BY <1>8, <2>1, <3>1
  <2>4. \A k \in 0..n : SplitAt(n, s, a, k) => from[a] = Part(k)
    BY <1>11
  <2>5. \A j \in 1..n : s[j] \in P
    BY DEF View, n
  <2> HIDE DEF T, a
  <2> SUFFICES ASSUME NEW k \in 0..n, SplitAt(n, s, p, k) PROVE from[p] = Part(k)
    BY <2>1 DEF T
  <2>6. \A j \in 1..n : (j <= k => s[j] < p) /\ (k < j => p <= s[j])
    BY DEF SplitAt
  <2> HIDE DEF Part
  <2>7. CASE IsDel(b[p + 1])
    <3>1. \A j \in 1..n : s[j] # p
      BY <2>7 DEF View, n
    <3>2. ASSUME NEW j \in 1..n PROVE (j <= k => s[j] < a) /\ (k < j => a <= s[j])
      <4> DEFINE q == s[j]
      <4>1. q \in Nat /\ q # p /\ (p < q => a <= q)
        BY <2>2, <2>5, <3>1
      <4>2. (j <= k => q < p) /\ (k < j => p <= q)
        BY <2>6
      <4> HIDE DEF q
      <4>3. (j <= k => q < a) /\ (k < j => a <= q)
        BY <2>1, <4>1, <4>2
      <4> QED BY <4>3 DEF q
    <3>3. from[a] = Part(k)
      BY <2>4, <3>2 DEF SplitAt
    <3>4. One(p) = <<>>
      BY <2>7 DEF One, Get
    <3> QED BY <1>9, <2>3, <3>3, <3>4, ConcatEmptySeq
  <2>8. CASE ~IsDel(b[p + 1])
    <3>1. PICK i \in 1..n : s[i] = p
      BY <2>8 DEF View, n
    <3>2. i = k + 1
      <4>1. ~(i <= k)
        BY <2>1, <2>6, <3>1
      <4>2. ~(k + 1 < i)
        <5> SUFFICES ASSUME k + 1 < i PROVE FALSE
          OBVIOUS
        <5>1. k + 1 \in 1..n /\ k < k + 1
          BY <1>1
        <5>2. p <= s[k + 1] /\ s[k + 1] \in Nat
          BY <1>1, <2>6, <5>1
        <5>3. s[k + 1] < s[i]
          BY <5>1 DEF View, n
        <5> DEFINE q == s[k + 1]
        <5> HIDE DEF q
        <5>4. p <= q /\ q \in Nat /\ q < p
          BY <3>1, <5>2, <5>3 DEF q
        <5> QED BY <2>1, <5>4
      <4> QED BY <1>1, <4>1, <4>2
    <3>3. k + 1 \in 0..n /\ k + 1 \in 1..n /\ s[k + 1] = p
      BY <3>1, <3>2
    <3>4. ASSUME NEW j \in 1..n PROVE (j <= k + 1 => s[j] < a) /\ (k + 1 < j => a <= s[j])
      <4> DEFINE q == s[j]
      <4>1. q \in Nat /\ (p < q => a <= q)
        BY <2>2, <2>5
      <4>2. j <= k => q < p
        BY <2>6
      <4>3. k + 1 < j => p < q
        BY <3>3 DEF View, n
      <4>4. j = k + 1 => q = p
        BY <3>3
      <4> HIDE DEF q
      <4>5. j <= k \/ j = k + 1 \/ k + 1 < j
        BY <1>1
      <4>6. (j <= k + 1 => q < a) /\ (k + 1 < j => a <= q)
        BY <1>1, <2>1, <4>1, <4>2, <4>3, <4>4, <4>5
      <4> QED BY <4>6 DEF q
    <3>5. from[a] = Part(k + 1)
      BY <2>4, <3>3, <3>4 DEF SplitAt
    <3>6. One(p) = <<w[k + 1]>> /\ w[k + 1] \in Frames
      <4>1. w[k + 1] \in Frames /\ Entry(b, p, w[k + 1])
        BY <1>1, <3>3 DEF View, n
      <4>2. FrameAt(b, p) = w[k + 1]
        BY <4>1, EntryHolds
      <4> QED BY <2>8, <4>1, <4>2 DEF One, Get
    <3>7. <<w[k + 1]>> \o Part(k + 1) = Part(k)
      <4>1. k \in 0..Len(w) /\ k + 1 \in 1..Len(w)
        BY <3>3 DEF n
      <4> QED BY <1>1, <4>1, FirstOfRest DEF Part, n
    <3> QED BY <2>3, <3>5, <3>6, <3>7
  <2> QED BY <2>7, <2>8
<1>12. 0 \in T
  <2>1. P \subseteq T
    <3> HIDE DEF T
    <3>1. T \in SUBSET Nat
      BY DEF T
    <3> QED BY <1>10, <1>11, <3>1, EntryByEntry DEF N
  <2>2. 0 \in P \/ N = 0
    BY <1>1 DEF Parsed, N
  <2> QED BY <1>10, <2>1, <2>2
<1>13. SplitAt(n, s, 0, 0) /\ 0 \in 0..n
  BY <1>1 DEF SplitAt
<1>14. from[0] = Part(0)
  BY <1>12, <1>13
<1>15. Part(0) = w
  <2>1. Part(0) \in Seq(Frames) /\ Len(Part(0)) = n - 0 /\ \A i \in 1..n - 0 : Part(0)[i] = w[0 + i]
    BY <1>9, <1>13
  <2>2. n - 0 = n /\ \A i \in 1..n : 0 + i = i
    BY <1>1
  <2> HIDE DEF Part
  <2> QED BY <1>1, <2>1, <2>2, SeqEqual DEF n
<1> QED BY <1>2, <1>14, <1>15

\* A sequence of frames with one taken out.
LEMMA WithoutOne ==
  ASSUME NEW w \in Seq(Frames), NEW i \in 1..Len(w)
  PROVE  /\ RemoveAt(w, i) \in Seq(Frames) /\ Len(RemoveAt(w, i)) = Len(w) - 1
         /\ \A j \in 1..Len(w) - 1 : RemoveAt(w, i)[j] = IF j < i THEN w[j] ELSE w[j + 1]
<1> DEFINE n == Len(w)
           u == SubSeq(w, 1, i - 1)
           v == SubSeq(w, i + 1, n)
<1>1. n \in Nat /\ i \in 1..n /\ i \in 0..Len(w) /\ \A j \in 1..n : w[j] \in Frames
  OBVIOUS
<1>2. v \in Seq(Frames) /\ Len(v) = n - i /\ \A j \in 1..n - i : v[j] = w[i + j]
  BY <1>1, Rest, Zenon
<1>3. u \in Seq(Frames) /\ Len(u) = i - 1 /\ \A j \in 1..i - 1 : u[j] = w[j]
  <2>1. 1 \in Int /\ i - 1 \in Int /\ \A j \in 1..i - 1 : w[j] \in Frames
    BY <1>1
  <2>2. /\ u \in Seq(Frames) /\ Len(u) = IF 1 <= i - 1 THEN (i - 1) - 1 + 1 ELSE 0
        /\ \A j \in 1..(i - 1) - 1 + 1 : u[j] = w[1 + j - 1]
    BY <2>1, SubSeqProperties
  <2>3. (i - 1) - 1 + 1 = i - 1 /\ \A j \in 1..i - 1 : 1 + j - 1 = j
    BY <1>1
  <2>4. ~(1 <= i - 1) => i - 1 = 0
    BY <1>1
  <2> HIDE DEF u
  <2> QED BY <2>2, <2>3, <2>4
<1> HIDE DEF n, u, v
<1>4. /\ u \o v \in Seq(Frames) /\ Len(u \o v) = Len(u) + Len(v)
      /\ \A j \in 1..Len(u) + Len(v) : (u \o v)[j] = IF j <= Len(u) THEN u[j] ELSE v[j - Len(u)]
  <2>1. u \in Seq(Frames) /\ v \in Seq(Frames)
    BY <1>2, <1>3
  <2> QED BY <2>1, ConcatProperties, Zenon
<1>5. Len(u) + Len(v) = n - 1
  BY <1>1, <1>2, <1>3
<1>6. ASSUME NEW j \in 1..n - 1 PROVE (u \o v)[j] = IF j < i THEN w[j] ELSE w[j + 1]
  <2>1. (u \o v)[j] = IF j <= i - 1 THEN u[j] ELSE v[j - (i - 1)]
    BY <1>3, <1>4, <1>5
  <2>2. CASE j < i
    <3>1. j <= i - 1 /\ j \in 1..i - 1
      BY <1>1, <2>2
    <3> QED BY <1>3, <2>1, <2>2, <3>1
  <2>3. CASE ~(j < i)
    <3>1. ~(j <= i - 1) /\ j - (i - 1) \in 1..n - i /\ i + (j - (i - 1)) = j + 1
      BY <1>1, <2>3
    <3> QED BY <1>2, <2>1, <2>3, <3>1
  <2> QED BY <2>2, <2>3
<1>7. RemoveAt(w, i) = u \o v
  BY DEF RemoveAt, n, u, v
<1> QED BY <1>4, <1>5, <1>6, <1>7 DEF n

\* Entries skipped: the frames in them are gone from the front.
LEMMA SkipView ==
  ASSUME NEW b, NEW P, Parsed(b, P), NEW m \in P \cup {Len(b)}, NEW c, NEW Q,
         Q = Behind(P, m), CanSkip(b, P, m, c, Q),
         NEW s, NEW w, View(b, P, s, w), NEW k, SplitAt(Len(w), s, m, k)
  PROVE  \E r : View(c, Q, r, SubSeq(w, k + 1, Len(w)))
<1> DEFINE n == Len(w)
           v == SubSeq(w, k + 1, n)
           r == [i \in 1..n - k |-> s[k + i] - m]
<1>1. /\ n \in Nat /\ k \in 0..n /\ k \in Nat /\ w \in Seq(Frames) /\ s \in [1..n -> Nat]
      /\ m \in Nat /\ \A j \in 1..n : k < j => m <= s[j]
  BY ByteAt DEF Parsed, View, SplitAt
<1>2. v \in Seq(Frames) /\ Len(v) = n - k /\ \A i \in 1..n - k : v[i] = w[k + i]
  BY <1>1, Rest
<1> HIDE DEF v, n
<1>3. \A i \in 1..n - k : k + i \in 1..n /\ k < k + i
  BY <1>1
<1>4. ASSUME NEW i \in 1..n - k PROVE s[k + i] - m \in Nat /\ (s[k + i] - m) + m = s[k + i]
  <2>1. s[k + i] \in Nat /\ m <= s[k + i]
    BY <1>1, <1>3
  <2> QED BY <1>1, <2>1
<1>5. r \in [1..n - k -> Nat]
  BY <1>4
<1>6. \A i \in 1..n - k : r[i] + m = s[k + i]
  BY <1>4
<1>7. ASSUME NEW i \in 1..n - k
      PROVE  r[i] \in Q /\ ~IsDel(c[r[i] + 1]) /\ Entry(c, r[i], v[i])
  <2>1. s[k + i] \in P /\ ~IsDel(b[s[k + i] + 1]) /\ Entry(b, s[k + i], w[k + i])
    BY <1>3 DEF View, n
  <2>2. r[i] \in Q
    BY <1>5, <1>6, <2>1 DEF Behind
  <2>3. SameEntry(b, s[k + i], c, r[i])
    BY <1>6, <2>2 DEF CanSkip
  <2>4. v[i] = w[k + i] /\ w[k + i] \in Frames
    BY <1>1, <1>2, <1>3 DEF n
  <2> HIDE DEF r
  <2> QED BY <2>1, <2>2, <2>3, <2>4 DEF SameEntry
<1>8. ASSUME NEW i \in 1..n - k, NEW j \in 1..n - k, i < j PROVE r[i] < r[j]
  <2>1. k + i < k + j
    BY <1>1, <1>8
  <2>2. s[k + i] < s[k + j]
    BY <1>3, <2>1 DEF View, n
  <2>3. s[k + i] \in Nat /\ s[k + j] \in Nat
    BY <1>1, <1>3
  <2> QED BY <1>1, <2>2, <2>3
<1>9. ASSUME NEW q \in Q, ~IsDel(c[q + 1]) PROVE \E i \in 1..n - k : r[i] = q
  <2>1. q \in Nat /\ q + m \in P /\ ~IsDel(b[(q + m) + 1])
    BY <1>9 DEF Behind, CanSkip, SameEntry
  <2>2. PICK j \in 1..n : s[j] = q + m
    BY <2>1 DEF View, n
  <2>3. ~(j <= k)
    <3>1. m <= s[j]
      BY <1>1, <2>1, <2>2
    <3>2. j <= k => s[j] < m
      BY DEF SplitAt, n
    <3> QED BY <1>1, <2>1, <2>2, <3>1, <3>2
  <2>4. j - k \in 1..n - k /\ k + (j - k) = j
    BY <1>1, <2>3
  <2>5. r[j - k] = (q + m) - m
    BY <2>2, <2>4
  <2>6. r[j - k] = q
    BY <1>1, <2>1, <2>5
  <2> HIDE DEF r
  <2> QED BY <2>4, <2>6
<1> HIDE DEF r
<1>10. View(c, Q, r, v)
  BY <1>2, <1>5, <1>7, <1>8, <1>9 DEF View
<1> QED BY <1>10 DEF v, n

\* A frame appended.
LEMMA PushView ==
  ASSUME NEW b, NEW P, Parsed(b, P), NEW f \in Frames, NEW c, NEW Q, Q = P \cup {Len(b)},
         CanPush(b, P, f, c, Q), NEW s, NEW w, View(b, P, s, w)
  PROVE  \E r : View(c, Q, r, Append(w, f))
<1> DEFINE n == Len(w)
           N == Len(b)
           v == Append(w, f)
           r == [i \in 1..n + 1 |-> IF i = n + 1 THEN N ELSE s[i]]
<1>1. /\ n \in Nat /\ w \in Seq(Frames) /\ s \in [1..n -> Nat] /\ N \in Nat
      /\ \A p \in P : p \in Nat /\ p < N
  BY ByteAt DEF Parsed, View
<1>2. /\ v \in Seq(Frames) /\ Len(v) = n + 1 /\ \A i \in 1..n : v[i] = w[i]
      /\ v[n + 1] = f
  BY <1>1, AppendProperties
<1> HIDE DEF v, n, N
<1>3. \A i \in 1..n + 1 : i \in 1..n \/ i = n + 1
  BY <1>1
<1>4. \A i \in 1..n : i # n + 1 /\ i \in 1..n + 1 /\ n + 1 \in 1..n + 1
  BY <1>1
<1>5. /\ r \in [1..n + 1 -> Nat] /\ (\A i \in 1..n : r[i] = s[i]) /\ r[n + 1] = N
  <2>1. n + 1 \in 1..n + 1
    BY <1>1
  <2> QED BY <1>1, <1>3, <1>4, <2>1
<1> HIDE DEF r
<1>6. ASSUME NEW i \in 1..n
      PROVE  r[i] \in P /\ ~IsDel(c[r[i] + 1]) /\ Entry(c, r[i], v[i]) /\ r[i] < N
  <2>1. s[i] \in P /\ ~IsDel(b[s[i] + 1]) /\ Entry(b, s[i], w[i]) /\ w[i] \in Frames
    BY <1>1 DEF View, n
  <2>2. SameEntry(b, s[i], c, s[i])
    BY <2>1 DEF CanPush
  <2> QED BY <1>1, <1>2, <1>5, <2>1, <2>2 DEF SameEntry
<1>7. ~IsDel(c[N + 1]) /\ Entry(c, N, f)
  BY DEF CanPush, N
<1>8. ASSUME NEW i \in 1..n + 1
      PROVE  r[i] \in Q /\ ~IsDel(c[r[i] + 1]) /\ Entry(c, r[i], v[i])
  BY <1>2, <1>3, <1>5, <1>6, <1>7 DEF N
<1>9. ASSUME NEW i \in 1..n + 1, NEW j \in 1..n + 1, i < j PROVE r[i] < r[j]
  <2>1. i \in 1..n
    BY <1>1, <1>9
  <2>2. CASE j \in 1..n
    BY <1>5, <1>9, <2>1, <2>2 DEF View, n
  <2>3. CASE j = n + 1
    BY <1>5, <1>6, <2>1, <2>3
  <2> QED BY <1>3, <2>2, <2>3
<1>10. ASSUME NEW p \in Q, ~IsDel(c[p + 1]) PROVE \E i \in 1..n + 1 : r[i] = p
  <2>1. CASE p \in P
    <3>1. ~IsDel(b[p + 1])
      BY <1>10, <2>1 DEF CanPush, SameEntry
    <3>2. PICK i \in 1..n : s[i] = p
      BY <2>1, <3>1 DEF View, n
    <3> QED BY <1>4, <1>5, <3>2
  <2>2. CASE p = N
    <3>1. n + 1 \in 1..n + 1
      BY <1>1
    <3> QED BY <1>5, <2>2, <3>1
  <2> QED BY <2>1, <2>2 DEF N
<1>11. View(c, Q, r, v)
  BY <1>2, <1>5, <1>8, <1>9, <1>10 DEF View
<1> QED BY <1>11 DEF v

\* An entry marked as deleted.
LEMMA MarkView ==
  ASSUME NEW b, NEW P, Parsed(b, P), NEW s, NEW w, View(b, P, s, w), NEW x \in 1..Len(w),
         NEW c, c = MarkDeleted(b, s[x])
  PROVE  \E r : View(c, P, r, RemoveAt(w, x))
<1> DEFINE n == Len(w)
           v == RemoveAt(w, x)
           Kept(i) == IF i < x THEN i ELSE i + 1
           r == [i \in 1..n - 1 |-> s[Kept(i)]]
<1>1. n \in Nat /\ x \in 1..n /\ w \in Seq(Frames) /\ s \in [1..n -> Nat] /\ P \in SUBSET Nat
  BY DEF Parsed, View
<1>2. /\ v \in Seq(Frames) /\ Len(v) = n - 1
      /\ \A i \in 1..n - 1 : v[i] = IF i < x THEN w[i] ELSE w[i + 1]
  BY <1>1, WithoutOne
<1>3. s[x] \in P
  BY DEF View
<1>4. /\ Parsed(c, P) /\ IsDel(c[s[x] + 1]) /\ \A q \in P : q # s[x] => SameEntry(b, q, c, q)
  BY <1>3, MarkedKeeps
<1> HIDE DEF v, n
<1>5. \A i \in 1..n - 1 : Kept(i) \in 1..n /\ Kept(i) # x
  BY <1>1
<1>6. \A i, j \in 1..n - 1 : i < j => Kept(i) < Kept(j)
  BY <1>1
<1>7. \A i \in 1..n - 1 : v[i] = w[Kept(i)]
  BY <1>2
<1>8. \A j \in 1..n : j # x => \E i \in 1..n - 1 : Kept(i) = j
  <2> SUFFICES ASSUME NEW j \in 1..n, j # x PROVE \E i \in 1..n - 1 : Kept(i) = j
    OBVIOUS
  <2>1. CASE j < x
    <3>1. j \in 1..n - 1
      BY <1>1, <2>1
    <3> QED BY <2>1, <3>1
  <2>2. CASE ~(j < x)
    <3>1. j - 1 \in 1..n - 1 /\ ~(j - 1 < x) /\ (j - 1) + 1 = j
      BY <1>1, <2>2
    <3>2. Kept(j - 1) = j
      BY <3>1
    <3> HIDE DEF Kept
    <3> QED BY <3>1, <3>2
  <2> QED BY <2>1, <2>2
<1> HIDE DEF Kept
<1>9. \A i, j \in 1..n : i # j => s[i] # s[j]
  <2> SUFFICES ASSUME NEW i \in 1..n, NEW j \in 1..n, i # j PROVE s[i] # s[j]
    OBVIOUS
  <2>1. i < j \/ j < i
    BY <1>1
  <2>2. (i < j => s[i] < s[j]) /\ (j < i => s[j] < s[i])
    BY DEF View, n
  <2> DEFINE y == s[i]
             z == s[j]
  <2>3. y \in Nat /\ z \in Nat
    BY <1>1
  <2> HIDE DEF y, z
  <2>4. y # z
    BY <2>1, <2>2, <2>3 DEF y, z
  <2> QED BY <2>4 DEF y, z
<1>10. r \in [1..n - 1 -> Nat]
  BY <1>1, <1>5
<1>11. \A i \in 1..n - 1 : r[i] = s[Kept(i)]
  OBVIOUS
<1> HIDE DEF r
<1>12. ASSUME NEW i \in 1..n - 1
       PROVE  r[i] \in P /\ ~IsDel(c[r[i] + 1]) /\ Entry(c, r[i], v[i])
  <2> DEFINE j == Kept(i)
  <2>1. j \in 1..n /\ r[i] = s[j] /\ s[j] # s[x] /\ v[i] = w[j]
    BY <1>1, <1>5, <1>7, <1>9, <1>11
  <2> HIDE DEF j
  <2>2. s[j] \in P /\ ~IsDel(b[s[j] + 1]) /\ Entry(b, s[j], w[j]) /\ w[j] \in Frames
    BY <1>1, <2>1 DEF View, n
  <2>3. SameEntry(b, s[j], c, s[j])
    BY <1>4, <2>1, <2>2
  <2> QED BY <2>1, <2>2, <2>3 DEF SameEntry
<1>13. ASSUME NEW i \in 1..n - 1, NEW j \in 1..n - 1, i < j PROVE r[i] < r[j]
  BY <1>5, <1>6, <1>11, <1>13 DEF View, n
<1>14. ASSUME NEW p \in P, ~IsDel(c[p + 1]) PROVE \E i \in 1..n - 1 : r[i] = p
  <2>1. p # s[x]
    BY <1>4, <1>14
  <2>2. ~IsDel(b[p + 1])
    BY <1>4, <1>14, <2>1 DEF SameEntry
  <2>3. PICK j \in 1..n : s[j] = p
    BY <2>2 DEF View, n
  <2> QED BY <1>8, <1>11, <2>1, <2>3
<1>15. View(c, P, r, v)
  BY <1>2, <1>10, <1>12, <1>13, <1>14 DEF View
<1> QED BY <1>15 DEF v

\* A waiting frame overwritten.
LEMMA OverwriteView ==
  ASSUME NEW b, NEW P, Parsed(b, P), NEW s, NEW w, View(b, P, s, w), NEW x \in 1..Len(w),
         NEW f \in Frames, Len(f) <= Size(b[s[x] + 1]), NEW c, c = Overwritten(b, s[x], f)
  PROVE  View(c, P, s, ReplaceAt(w, x, f))
<1> DEFINE n == Len(w)
           v == ReplaceAt(w, x, f)
<1>1. n \in Nat /\ w \in Seq(Frames) /\ s \in [1..n -> Nat] /\ P \in SUBSET Nat
  BY DEF Parsed, View
<1>2. v \in Seq(Frames) /\ Len(v) = n /\ \A i \in 1..n : v[i] = IF i = x THEN f ELSE w[i]
  <2>1. v = [w EXCEPT ![x] = f]
    BY DEF ReplaceAt
  <2> HIDE DEF v
  <2> QED BY <1>1, <2>1, ExceptSeq
<1>3. s[x] \in P
  BY DEF View
<1>4. /\ c[s[x] + 1] = b[s[x] + 1] /\ Entry(c, s[x], f)
      /\ \A q \in P : q # s[x] => SameEntry(b, q, c, q)
  BY <1>3, OverwrittenKeeps
<1> HIDE DEF v, n
<1>5. ASSUME NEW i \in 1..n PROVE ~IsDel(c[s[i] + 1]) /\ Entry(c, s[i], v[i])
  <2>1. s[i] \in P /\ ~IsDel(b[s[i] + 1]) /\ Entry(b, s[i], w[i]) /\ w[i] \in Frames
    BY <1>1 DEF View, n
  <2>2. CASE i = x
    BY <1>2, <1>4, <2>1, <2>2
  <2>3. CASE i # x
    <3>1. i < x \/ x < i
      BY <2>3 DEF n
    <3>2. (i < x => s[i] < s[x]) /\ (x < i => s[x] < s[i])
      BY DEF View, n
    <3> DEFINE y == s[i]
               z == s[x]
    <3>3. y \in Nat /\ z \in Nat
      BY <1>1, <1>3, <2>1
    <3> HIDE DEF y, z
    <3>4. y # z
      BY <3>1, <3>2, <3>3 DEF y, z
    <3>5. SameEntry(b, s[i], c, s[i])
      BY <1>4, <2>1, <3>4 DEF y, z
    <3> QED BY <1>2, <2>1, <2>3, <3>5 DEF SameEntry
  <2> QED BY <2>2, <2>3
<1>6. ASSUME NEW p \in P, ~IsDel(c[p + 1]) PROVE \E i \in 1..n : s[i] = p
  <2>1. ~IsDel(b[p + 1])
    BY <1>4, <1>6 DEF SameEntry
  <2> QED BY <2>1 DEF View, n
<1>7. \A i, j \in 1..n : i < j => s[i] < s[j]
  BY DEF View, n
<1>8. \A i \in 1..n : s[i] \in P
  BY DEF View, n
<1>9. View(c, P, s, v)
  BY <1>1, <1>2, <1>5, <1>6, <1>7, <1>8 DEF View
<1> QED BY <1>9 DEF v

\* The prioritised ones of a sequence of frames: how many, and after each change.
Counted(w) == {i \in 1..Len(w) : KindOf(w[i]) \in Prioritised}
Many(w) == Cardinality(Counted(w))
Extra(f) == IF KindOf(f) \in Prioritised THEN 1 ELSE 0

LEMMA CountedFinite ==
  ASSUME NEW w \in Seq(Frames)
  PROVE  IsFiniteSet(Counted(w)) /\ Many(w) \in Nat /\ (Many(w) = 0 => Counted(w) = {})
<1>1. 1 \in Int /\ Len(w) \in Int
  OBVIOUS
<1>2. IsFiniteSet(1..Len(w))
  BY <1>1, FS_Interval
<1>3. Counted(w) \in SUBSET (1..Len(w))
  BY DEF Counted
<1>4. IsFiniteSet(Counted(w))
  BY <1>2, <1>3, FS_Subset
<1> QED BY <1>4, FS_CardinalityType, FS_EmptySet DEF Many

\* Each counted frame of v was one of those of w that S lists.
LEMMA CountedFrom ==
  ASSUME NEW w \in Seq(Frames), NEW v \in Seq(Frames), NEW S \in SUBSET Counted(w),
         NEW h \in [1..Len(v) -> Int],
         \A i, j \in 1..Len(v) : i # j => h[i] # h[j],
         \A i \in Counted(v) : h[i] \in S
  PROVE  Many(v) <= Cardinality(S) /\ IsFiniteSet(S)
<1> DEFINE C == Counted(v)
           g == [i \in C |-> h[i]]
<1>1. IsFiniteSet(S)
  BY CountedFinite, FS_Subset
<1>2. C \in SUBSET (1..Len(v))
  BY DEF Counted
<1>3. g \in Injection(C, S)
  <2>1. g \in [C -> S]
    OBVIOUS
  <2>2. \A i, j \in C : g[i] = g[j] => i = j
    BY <1>2
  <2> HIDE DEF g, C
  <2> QED BY <2>1, <2>2 DEF Injection, IsInjective
<1> HIDE DEF g, C
<1>4. Cardinality(C) <= Cardinality(S)
  BY <1>1, <1>3, FS_Injection
<1> QED BY <1>1, <1>4 DEF Many, C

LEMMA ManyInRest ==
  ASSUME NEW w \in Seq(Frames), NEW k \in 0..Len(w)
  PROVE  Many(SubSeq(w, k + 1, Len(w))) <= Many(w)
<1> DEFINE v == SubSeq(w, k + 1, Len(w))
           n == Len(w)
           h == [i \in 1..Len(v) |-> k + i]
<1>1. v \in Seq(Frames) /\ Len(v) = n - k /\ \A i \in 1..n - k : v[i] = w[k + i]
  BY Rest
<1>2. n \in Nat /\ k \in Nat /\ k \in 0..n
  OBVIOUS
<1> HIDE DEF v, n
<1>3. h \in [1..Len(v) -> Int] /\ \A i, j \in 1..Len(v) : i # j => h[i] # h[j]
  BY <1>1, <1>2
<1>4. \A i \in Counted(v) : h[i] \in Counted(w)
  BY <1>1, <1>2 DEF Counted, n
<1> HIDE DEF h
<1>5. Many(v) <= Cardinality(Counted(w))
  BY <1>1, <1>3, <1>4, CountedFrom
<1> QED BY <1>5 DEF Many, v, n

LEMMA ManyWithout ==
  ASSUME NEW w \in Seq(Frames), NEW x \in 1..Len(w)
  PROVE  Many(RemoveAt(w, x)) <= Many(w) - Extra(w[x])
<1> DEFINE v == RemoveAt(w, x)
           n == Len(w)
           h == [i \in 1..Len(v) |-> IF i < x THEN i ELSE i + 1]
           S == Counted(w) \ {x}
<1>1. /\ v \in Seq(Frames) /\ Len(v) = n - 1
      /\ \A i \in 1..n - 1 : v[i] = IF i < x THEN w[i] ELSE w[i + 1]
  BY WithoutOne
<1>2. n \in Nat /\ x \in 1..n
  OBVIOUS
<1> HIDE DEF v, n
<1>3. h \in [1..Len(v) -> Int] /\ \A i, j \in 1..Len(v) : i # j => h[i] # h[j]
  BY <1>1, <1>2
<1>4. \A i \in Counted(v) : h[i] \in S
  BY <1>1, <1>2 DEF Counted, n
<1> HIDE DEF h
<1>5. Many(v) <= Cardinality(S)
  <2>1. S \in SUBSET Counted(w)
    OBVIOUS
  <2> HIDE DEF S
  <2> QED BY <1>1, <1>3, <1>4, <2>1, CountedFrom
<1>6. Cardinality(S) = Many(w) - Extra(w[x])
  <2>1. x \in Counted(w) <=> KindOf(w[x]) \in Prioritised
    BY DEF Counted
  <2>2. Cardinality(S) = IF x \in Counted(w) THEN Many(w) - 1 ELSE Many(w)
    BY CountedFinite, FS_RemoveElement DEF Many
  <2>3. Many(w) \in Nat
    BY CountedFinite
  <2> QED BY <2>1, <2>2, <2>3 DEF Extra
<1> QED BY <1>5, <1>6 DEF v

LEMMA ManyAppended ==
  ASSUME NEW w \in Seq(Frames), NEW f \in Frames
  PROVE  Many(Append(w, f)) <= Many(w) + Extra(f)
<1> DEFINE v == Append(w, f)
           n == Len(w)
           C == Counted(w)
           x == n + 1
<1>1. v \in Seq(Frames) /\ Len(v) = n + 1 /\ (\A i \in 1..n : v[i] = w[i]) /\ v[n + 1] = f
  BY AppendProperties
<1>2. n \in Nat
  OBVIOUS
<1> HIDE DEF v, n
<1>3. Counted(v) \in SUBSET (IF KindOf(f) \in Prioritised THEN C \cup {x} ELSE C)
  <2> SUFFICES ASSUME NEW i \in Counted(v)
               PROVE  i \in IF KindOf(f) \in Prioritised THEN C \cup {x} ELSE C
    OBVIOUS
  <2>1. i \in 1..n + 1 /\ KindOf(v[i]) \in Prioritised
    BY <1>1 DEF Counted
  <2>2. i \in 1..n \/ i = n + 1
    BY <1>2, <2>1
  <2>3. i \in 1..n => i \in C
    BY <1>1, <2>1 DEF Counted, n
  <2> QED BY <1>1, <2>1, <2>2, <2>3
<1>4. IsFiniteSet(C) /\ Many(w) \in Nat /\ Cardinality(C) = Many(w) /\ x \notin C
  <2>1. x \notin 1..n
    BY <1>2
  <2> QED BY <2>1, CountedFinite DEF Many, Counted, n
<1> HIDE DEF C, x
<1>5. IsFiniteSet(C \cup {x}) /\ Cardinality(C \cup {x}) = Many(w) + 1
  BY <1>4, FS_AddElement
<1>6. CASE KindOf(f) \in Prioritised
  <2>1. Many(v) <= Many(w) + 1
    BY <1>3, <1>5, <1>6, FS_Subset DEF Many
  <2> QED BY <1>6, <2>1 DEF Extra, v
<1>7. CASE KindOf(f) \notin Prioritised
  <2>1. Many(v) <= Many(w)
    BY <1>3, <1>4, <1>7, FS_Subset DEF Many
  <2> QED BY <1>4, <1>7, <2>1 DEF Extra, v
<1> QED BY <1>6, <1>7

LEMMA ManyReplaced ==
  ASSUME NEW w \in Seq(Frames), NEW x \in 1..Len(w), NEW f \in Frames, KindOf(f) = KindOf(w[x])
  PROVE  ReplaceAt(w, x, f) \in Seq(Frames) /\ Many(ReplaceAt(w, x, f)) = Many(w)
<1> DEFINE v == ReplaceAt(w, x, f)
<1>1. v \in Seq(Frames) /\ Len(v) = Len(w) /\ \A i \in 1..Len(w) : v[i] = IF i = x THEN f ELSE w[i]
  <2>1. v = [w EXCEPT ![x] = f]
    BY DEF ReplaceAt
  <2> HIDE DEF v
  <2> QED BY <2>1, ExceptSeq
<1> HIDE DEF v
<1>2. Counted(v) = Counted(w)
  BY <1>1 DEF Counted
<1> QED BY <1>1, <1>2 DEF Many, v

\* A frame put into a sequence of frames, as Put of FrameQueue says.
WaitsIn(w, f) == {i \in DOMAIN w : KindOf(w[i]) = KindOf(f) /\ KindOf(f) \in Superseding}
PutTo(w, f, v) ==
  \/ \E i \in WaitsIn(w, f) : v = ReplaceAt(w, i, f)
  \/ \E u \in IF WaitsIn(w, f) = {} THEN {w} ELSE {RemoveAt(w, i) : i \in WaitsIn(w, f)} :
       \E n \in 0..Len(u) : v = Append(SubSeq(u, n + 1, Len(u)), f)

LEMMA ManyPut ==
  ASSUME NEW w \in Seq(Frames), NEW f \in Frames, NEW v, PutTo(w, f, v)
  PROVE  v \in Seq(Frames) /\ Many(v) <= Many(w) + Extra(f)
<1>1. Many(w) \in Nat /\ Extra(f) \in Nat /\ DOMAIN w = 1..Len(w)
  BY CountedFinite DEF Extra
<1>2. CASE \E i \in WaitsIn(w, f) : v = ReplaceAt(w, i, f)
  <2>1. PICK i \in 1..Len(w) : v = ReplaceAt(w, i, f) /\ KindOf(f) = KindOf(w[i])
    BY <1>1, <1>2 DEF WaitsIn
  <2>2. v \in Seq(Frames) /\ Many(v) = Many(w)
    BY <2>1, ManyReplaced
  <2> QED BY <1>1, <2>2
<1>3. ASSUME NEW u \in IF WaitsIn(w, f) = {} THEN {w} ELSE {RemoveAt(w, i) : i \in WaitsIn(w, f)},
             NEW n \in 0..Len(u), v = Append(SubSeq(u, n + 1, Len(u)), f)
      PROVE  v \in Seq(Frames) /\ Many(v) <= Many(w) + Extra(f)
  <2>1. u \in Seq(Frames) /\ Many(u) <= Many(w)
    <3>1. CASE u = w
      BY <1>1, <3>1
    <3>2. CASE u # w
      <4>1. PICK i \in 1..Len(w) : u = RemoveAt(w, i)
        BY <1>1, <3>2 DEF WaitsIn
      <4>2. u \in Seq(Frames) /\ Many(u) <= Many(w) - Extra(w[i])
        BY <4>1, WithoutOne, ManyWithout
      <4>3. Many(u) \in Nat /\ Extra(w[i]) \in Nat
        BY <4>2, CountedFinite DEF Extra
      <4> QED BY <1>1, <4>2, <4>3
    <3> QED BY <3>1, <3>2
  <2> DEFINE t == SubSeq(u, n + 1, Len(u))
  <2>2. t \in Seq(Frames) /\ Many(t) <= Many(u)
    BY <2>1, Rest, ManyInRest
  <2> HIDE DEF t
  <2>3. v = Append(t, f)
    BY <1>3 DEF t
  <2>4. v \in Seq(Frames) /\ Many(v) <= Many(t) + Extra(f)
    BY <2>2, <2>3, ManyAppended, AppendProperties
  <2>5. Many(v) \in Nat /\ Many(t) \in Nat /\ Many(u) \in Nat
    BY <2>1, <2>2, <2>4, CountedFinite
  <2> QED BY <1>1, <2>1, <2>2, <2>4, <2>5
<1> QED BY <1>2, <1>3 DEF PutTo

\* The frames in the bytes, found by the loops.
Shown(b, w) == \E s : View(b, Starts(b), s, w)

LEMMA ShownIs ==
  ASSUME NEW b, Parsed(b, Starts(b)), NEW w, Shown(b, w)
  PROVE  LiveFrames(b) = w
BY ViewIs DEF Shown

LEMMA ShownIf ==
  ASSUME NEW b, NEW P, Parsed(b, P), NEW w, NEW s, View(b, P, s, w)
  PROVE  Shown(b, w)
BY StartsAre DEF Shown

\* The live entries of some kinds, in the bytes and in the sequence.
LEMMA LiveAre ==
  ASSUME NEW b, Parsed(b, Starts(b)), NEW s, NEW w, View(b, Starts(b), s, w), NEW K
  PROVE  \A p : p \in Live(b, K) <=> \E i \in 1..Len(w) : s[i] = p /\ KindOf(w[i]) \in K
<1> DEFINE P == Starts(b)
<1> HIDE DEF P
<1>1. Parsed(b, P) /\ View(b, P, s, w)
  BY DEF P
<1>2. \A p : p \in Live(b, K) <=> p \in P /\ ~IsDel(b[p + 1]) /\ b[p + 3] \in K
  BY LiveFacts DEF P
<1>3. ASSUME NEW i \in 1..Len(w)
      PROVE  s[i] \in P /\ ~IsDel(b[s[i] + 1]) /\ b[s[i] + 3] = KindOf(w[i])
  <2>1. s[i] \in P /\ ~IsDel(b[s[i] + 1]) /\ Entry(b, s[i], w[i]) /\ w[i] \in Frames
    BY <1>1 DEF View
  <2>2. b[s[i] + 3] = w[i][2]
    BY <1>1, <2>1, EntryHolds
  <2> QED BY <2>1, <2>2 DEF KindOf
<1>4. ASSUME NEW p \in Live(b, K) PROVE \E i \in 1..Len(w) : s[i] = p /\ KindOf(w[i]) \in K
  <2>1. p \in P /\ ~IsDel(b[p + 1]) /\ b[p + 3] \in K
    BY <1>2
  <2>2. PICK i \in 1..Len(w) : s[i] = p
    BY <1>1, <2>1 DEF View
  <2> QED BY <1>3, <2>1, <2>2
<1> QED BY <1>2, <1>3, <1>4

\* The first of them.
LEMMA FirstOf ==
  ASSUME NEW b, Parsed(b, Starts(b)), NEW s, NEW w, View(b, Starts(b), s, w), NEW K,
         Live(b, K) # {}
  PROVE  \E x \in 1..Len(w) : /\ s[x] = Min(Live(b, K)) /\ KindOf(w[x]) \in K
                              /\ \A j \in 1..x - 1 : KindOf(w[j]) \notin K
<1>1. Live(b, K) \in SUBSET Nat
  BY LiveFacts
<1> DEFINE p == Min(Live(b, K))
<1>2. p \in Live(b, K) /\ \A y \in Live(b, K) : p <= y
  BY <1>1, MinIn
<1> HIDE DEF p
<1>3. PICK x \in 1..Len(w) : s[x] = p /\ KindOf(w[x]) \in K
  BY <1>2, LiveAre
<1>4. ASSUME NEW j \in 1..x - 1 PROVE KindOf(w[j]) \notin K
  <2> SUFFICES ASSUME KindOf(w[j]) \in K PROVE FALSE
    OBVIOUS
  <2>1. j \in 1..Len(w) /\ j < x
    BY DEF View
  <2>2. s[j] \in Live(b, K)
    BY <2>1, LiveAre
  <2> DEFINE y == s[j]
  <2>3. p <= y /\ y < p /\ y \in Nat /\ p \in Nat
    BY <1>1, <1>2, <1>3, <2>1, <2>2 DEF View
  <2> HIDE DEF y
  <2> QED BY <2>3
<1> QED BY <1>3, <1>4 DEF p

\* The first live frame gone, with all before it.
LEMMA FirstGone ==
  ASSUME NEW b, NEW P, Parsed(b, P), NEW s, NEW w, View(b, P, s, w), 1 \in 1..Len(w)
  PROVE  Shown(SubSeq(b, After(b, s[1]) + 1, Len(b)), RemoveAt(w, 1))
<1> DEFINE n == Len(w)
           p == s[1]
           a == After(b, p)
           c == SubSeq(b, a + 1, Len(b))
           Q == Behind(P, a)
<1>1. n \in Nat /\ w \in Seq(Frames) /\ s \in [1..n -> Nat] /\ p \in P
  BY DEF View
<1>2. p \in Nat /\ a \in Nat /\ p < a /\ a \in P \cup {Len(b)} /\ \A q \in P : p < q => a <= q
  <2> HIDE DEF p
  <2> QED BY <1>1, EntryFacts DEF Parsed
<1> HIDE DEF a, p
<1>3. CanSkip(b, P, a, c, Q)
  BY <1>2, SkipTo, Zenon
<1>4. SplitAt(n, s, a, 1)
  <2>1. ASSUME NEW j \in 1..n PROVE (j <= 1 => s[j] < a) /\ (1 < j => a <= s[j])
    <3>1. 1 < j => p < s[j]
      BY DEF View, p
    <3>2. s[j] \in P
      BY DEF View
    <3>3. j <= 1 => j = 1
      OBVIOUS
    <3> QED BY <1>2, <3>1, <3>2, <3>3 DEF p
  <2> QED BY <1>1, <2>1 DEF SplitAt
<1>5. c = SubSeq(b, a + 1, Len(b)) /\ Q = Behind(P, a)
  OBVIOUS
<1> HIDE DEF c, Q
<1>6. \E r : View(c, Q, r, SubSeq(w, 1 + 1, Len(w)))
  BY <1>2, <1>3, <1>4, <1>5, SkipView
<1>7. SubSeq(w, 1 + 1, Len(w)) = RemoveAt(w, 1)
  <2> DEFINE u == SubSeq(w, 1 + 1, Len(w))
             v == RemoveAt(w, 1)
  <2>1. 1 \in 0..Len(w)
    OBVIOUS
  <2>2. u \in Seq(Frames) /\ Len(u) = n - 1 /\ \A i \in 1..n - 1 : u[i] = w[1 + i]
    BY <1>1, <2>1, Rest
  <2>3. /\ v \in Seq(Frames) /\ Len(v) = n - 1
        /\ \A i \in 1..n - 1 : v[i] = IF i < 1 THEN w[i] ELSE w[i + 1]
    BY <1>1, WithoutOne
  <2>4. \A i \in 1..n - 1 : ~(i < 1) /\ 1 + i = i + 1
    BY <1>1
  <2> HIDE DEF u, v, n
  <2>5. u = v
    BY <2>2, <2>3, <2>4, SeqEqual
  <2> QED BY <2>5 DEF u, v
<1>8. Parsed(c, Q)
  BY <1>3 DEF CanSkip
<1>9. Shown(c, RemoveAt(w, 1))
  BY <1>6, <1>7, <1>8, ShownIf
<1> QED BY <1>9 DEF c, a, p

\* Room made and a frame appended.
LEMMA PushShows ==
  ASSUME NEW b, NEW P, Parsed(b, P), NEW s, NEW w, View(b, P, s, w), NEW f \in Frames
  PROVE  \E k \in 0..Len(w) : Shown(Pushed(b, f), Append(SubSeq(w, k + 1, Len(w)), f))
<1>1. PICK m \in P \cup {Len(b)} : \E c, Q : PushesBehind(b, P, f, m, c, Q)
  BY PushedIs
<1>2. PICK c, Q : PushesBehind(b, P, f, m, c, Q)
  BY <1>1
<1> DEFINE d == Pushed(b, f)
           R == Q \cup {Len(c)}
           n == Len(w)
<1>3. n \in Nat /\ s \in [1..n -> Nat] /\ m \in Nat /\ \A i, j \in 1..n : i < j => s[i] < s[j]
  BY ByteAt DEF View, Parsed
<1>4. PICK k \in 0..n : SplitAt(n, s, m, k)
  BY <1>3, CanSplit
<1> HIDE DEF d
<1>5. Q = Behind(P, m) /\ CanSkip(b, P, m, c, Q) /\ CanPush(c, Q, f, d, R)
  BY <1>2 DEF PushesBehind, d
<1>6. PICK r : View(c, Q, r, SubSeq(w, k + 1, n))
  BY <1>4, <1>5, SkipView
<1>7. Parsed(c, Q) /\ R = Q \cup {Len(c)}
  BY <1>5 DEF CanSkip
<1> HIDE DEF R
<1> DEFINE v == SubSeq(w, k + 1, n)
<1> HIDE DEF v
<1>8. View(c, Q, r, v)
  BY <1>6 DEF v
<1>9. PICK t : View(d, R, t, Append(v, f))
  BY <1>5, <1>7, <1>8, PushView
<1>10. Parsed(d, R)
  BY <1>5 DEF CanPush
<1>11. Shown(d, Append(v, f))
  BY <1>9, <1>10, ShownIf
<1> QED BY <1>11 DEF d, v

\* A waiting frame superseded.
LEMMA SupersededShows ==
  ASSUME Parsed(fifo, Starts(fifo)), NEW s, NEW w, View(fifo, Starts(fifo), s, w),
         NEW f \in Frames, NEW x \in WaitsIn(w, f)
  PROVE  \E v : Shown(Superseded(s[x], f), v) /\ PutTo(w, f, v)
<1> DEFINE P == Starts(fifo)
           p == s[x]
           c == Overwritten(fifo, p, f)
           d == MarkDeleted(fifo, p)
<1>1. Parsed(fifo, P) /\ View(fifo, P, s, w)
  OBVIOUS
<1>2. w \in Seq(Frames) /\ x \in 1..Len(w)
  BY DEF View, WaitsIn
<1>3. p \in P /\ ~IsDel(fifo[p + 1])
  BY <1>2 DEF View
<1> HIDE DEF P
<1>4. p \in Nat /\ fifo[p + 1] \in Bytes /\ Size(fifo[p + 1]) = fifo[p + 1]
  BY <1>1, <1>3, EntryFacts, SizeFacts
<1>5. c = Overwritten(fifo, p, f) /\ d = MarkDeleted(fifo, p) /\ Len(f) \in Nat
  BY FrameFacts
<1>6. Get(fifo, p) = fifo[p + 1]
  BY DEF Get
<1> HIDE DEF c, d
<1>7. CASE Get(fifo, p) >= Len(f)
  <2>1. Superseded(p, f) = c
    BY <1>5, <1>7 DEF Superseded
  <2>2. Len(f) <= Size(fifo[p + 1])
    BY <1>4, <1>5, <1>6, <1>7 DEF Bytes
  <2>3. View(c, P, s, ReplaceAt(w, x, f))
    BY <1>1, <1>2, <1>5, <2>2, OverwriteView
  <2>4. Parsed(c, P)
    BY <1>1, <1>3, <1>5, <2>2, OverwrittenKeeps
  <2>5. Shown(c, ReplaceAt(w, x, f))
    BY <2>3, <2>4, ShownIf
  <2>6. PutTo(w, f, ReplaceAt(w, x, f))
    BY DEF PutTo
  <2> QED BY <2>1, <2>5, <2>6
<1>8. CASE ~(Get(fifo, p) >= Len(f))
  <2>1. Superseded(p, f) = Pushed(d, f)
    BY <1>5, <1>8 DEF Superseded
  <2> DEFINE u == RemoveAt(w, x)
  <2>2. PICK r : View(d, P, r, u)
    BY <1>1, <1>2, <1>5, MarkView
  <2>3. Parsed(d, P)
    BY <1>1, <1>3, <1>5, MarkedKeeps
  <2>4. u \in {RemoveAt(w, i) : i \in WaitsIn(w, f)} /\ WaitsIn(w, f) # {}
    OBVIOUS
  <2> HIDE DEF u
  <2>5. PICK k \in 0..Len(u) : Shown(Pushed(d, f), Append(SubSeq(u, k + 1, Len(u)), f))
    BY <2>2, <2>3, PushShows
  <2>6. PutTo(w, f, Append(SubSeq(u, k + 1, Len(u)), f))
    BY <2>4 DEF PutTo
  <2> QED BY <2>1, <2>5, <2>6
<1> QED BY <1>7, <1>8

\* The bytes show the frames of FrameQueue, and the counter counts no fewer prioritised
\* frames than wait: when it is zero, none does. It has no more than eight bits hold.
ViewInv ==
  /\ QueueInv /\ Shown(fifo, LiveFrames(fifo))
  /\ Many(LiveFrames(fifo)) <= count /\ count <= Serial

LEMMA ViewFacts ==
  ASSUME ViewInv
  PROVE  /\ TypeOK /\ Held(fifo, sent) /\ Parsed(fifo, Starts(fifo))
         /\ LiveFrames(fifo) \in Seq(Frames) /\ Many(LiveFrames(fifo)) \in Nat
         /\ count \in Nat /\ Serial \in Nat
<1>1. TypeOK /\ Held(fifo, sent) /\ Parsed(fifo, Starts(fifo))
  BY DEF ViewInv, QueueInv, TypeOK, Held, Ready
<1>2. LiveFrames(fifo) \in Seq(Frames)
  BY DEF ViewInv, Shown, View
<1>3. count \in Nat /\ Serial \in Nat
  <2>1. MaxFrames \in Nat
    BY SizeAssumption
  <2> QED BY <1>1, <2>1, SerialIs DEF TypeOK
<1> QED BY <1>1, <1>2, <1>3, CountedFinite

\* An empty FIFO shows no frame.
LEMMA EmptyShown ==
  /\ LiveFrames(<<>>) = <<>> /\ Shown(<<>>, <<>>) /\ Many(<<>>) = 0
<1>1. Len(<<>>) = 0 /\ <<>> \in Seq(Bytes) /\ <<>> \in Seq(Frames)
  OBVIOUS
<1>2. Parsed(<<>>, {})
  BY <1>1 DEF Parsed
<1> DEFINE s == [i \in 1..Len(<<>>) |-> 0]
<1>3. View(<<>>, {}, s, <<>>)
  BY <1>1 DEF View
<1>4. Shown(<<>>, <<>>)
  BY <1>2, <1>3, ShownIf
<1>5. LiveFrames(<<>>) = <<>>
  BY <1>2, <1>3, ViewIs
<1>6. Counted(<<>>) = {}
  BY <1>1 DEF Counted
<1> QED BY <1>4, <1>5, <1>6, FS_EmptySet DEF Many

LEMMA ViewStart ==
  ASSUME Init
  PROVE  ViewInv /\ LiveFrames(fifo) = <<>> /\ out = <<>>
<1>1. fifo = <<>> /\ count = 0 /\ out = <<>>
  BY DEF Init
<1>2. QueueInv
  BY QueueStart
<1>3. Serial \in 0..MaxFrames /\ MaxFrames \in Nat
  BY <1>2, SerialIs, SizeAssumption DEF QueueInv
<1>4. Serial >= 0
  BY <1>3
<1> QED BY <1>1, <1>2, <1>4, EmptyShown DEF ViewInv

\* A frame appended is put into the sequence.
LEMMA AppendMaps ==
  ASSUME ViewInv, AppendSome
  PROVE  /\ ViewInv' /\ out' = out
         /\ \E f \in Frames : PutTo(LiveFrames(fifo), f, LiveFrames(fifo'))
<1> DEFINE w == LiveFrames(fifo)
<1>1. /\ TypeOK /\ Held(fifo, sent) /\ Parsed(fifo, Starts(fifo)) /\ Shown(fifo, w)
      /\ Many(w) <= count /\ count <= Serial /\ w \in Seq(Frames) /\ Many(w) \in Nat
      /\ count \in Nat /\ Serial \in Nat /\ QueueInv
  BY ViewFacts DEF ViewInv
<1>2. PICK f \in Frames : NumberOf(f) = Serial + 1 /\ AppendTelemetryPackage(f)
  BY <1>1, AppendedIs
<1> DEFINE same == IF KindOf(f) \in Superseding THEN Live(fifo, {KindOf(f)}) ELSE {}
<1>3. /\ fifo' = IF same # {} THEN Superseded(Min(same), f) ELSE Pushed(fifo, f)
      /\ count' = IF KindOf(f) \in Prioritised THEN (count + 1) % 256 ELSE count
      /\ sent' = [sent EXCEPT ![KindOf(f)] = NumberOf(f)] /\ out' = out
  BY <1>2, Zenon DEF AppendTelemetryPackage
<1>4. QueueInv'
  BY <1>1, AppendStep
<1>5. PICK s : View(fifo, Starts(fifo), s, w)
  BY <1>1 DEF Shown
<1> HIDE DEF w
<1>6. \E v : Shown(fifo', v) /\ PutTo(w, f, v)
  <2>1. CASE same = {}
    <3>1. WaitsIn(w, f) = {}
      <4>1. ASSUME NEW i \in WaitsIn(w, f) PROVE FALSE
        <5>1. i \in 1..Len(w) /\ KindOf(w[i]) = KindOf(f) /\ KindOf(f) \in Superseding
          BY <1>1 DEF WaitsIn
        <5>2. s[i] \in Live(fifo, {KindOf(f)})
          BY <1>1, <1>5, <5>1, LiveAre
        <5> QED BY <2>1, <5>1, <5>2
      <4> QED BY <4>1
    <3>2. PICK k \in 0..Len(w) : Shown(Pushed(fifo, f), Append(SubSeq(w, k + 1, Len(w)), f))
      BY <1>1, <1>5, PushShows
    <3>3. PutTo(w, f, Append(SubSeq(w, k + 1, Len(w)), f))
      BY <3>1 DEF PutTo
    <3> QED BY <1>3, <2>1, <3>2, <3>3
  <2>2. CASE same # {}
    <3>1. same = Live(fifo, {KindOf(f)}) /\ KindOf(f) \in Superseding
      BY <2>2
    <3>2. PICK x \in 1..Len(w) : s[x] = Min(same) /\ KindOf(w[x]) \in {KindOf(f)}
      <4> HIDE DEF same
      <4> DEFINE K == {KindOf(f)}
      <4>1. same = Live(fifo, K)
        BY <3>1
      <4> HIDE DEF K
      <4>2. \E x \in 1..Len(w) : s[x] = Min(Live(fifo, K)) /\ KindOf(w[x]) \in K
        BY <1>1, <1>5, <2>2, <4>1, FirstOf
      <4> QED BY <4>1, <4>2 DEF K
    <3>3. x \in WaitsIn(w, f)
      BY <1>1, <3>1, <3>2 DEF WaitsIn
    <3>4. \E v : Shown(Superseded(s[x], f), v) /\ PutTo(w, f, v)
      BY <1>1, <1>5, <3>3, SupersededShows
    <3> QED BY <1>3, <2>2, <3>2, <3>4
  <2> QED BY <2>1, <2>2
<1>7. PICK v : Shown(fifo', v) /\ PutTo(w, f, v)
  BY <1>6
<1>8. LiveFrames(fifo') = v
  <2>1. Parsed(fifo', Starts(fifo'))
    BY <1>4 DEF QueueInv, Ready
  <2> QED BY <1>7, <2>1, ShownIs
<1>9. Many(v) <= Many(w) + Extra(f) /\ Many(v) \in Nat
  BY <1>1, <1>7, ManyPut, CountedFinite
<1>10. Serial' >= Serial + 1 /\ Serial' \in Nat
  <2>1. KindOf(f) \in Kinds /\ sent'[KindOf(f)] = Serial + 1
    BY <1>1, <1>2, <1>3, FrameFacts DEF TypeOK
  <2>2. sent' \in [Kinds -> 0..MaxFrames] /\ MaxFrames \in Nat
    BY <1>4, SizeAssumption DEF QueueInv, TypeOK
  <2>3. Serial' \in 0..MaxFrames /\ \A k \in Kinds : sent'[k] <= Serial'
    BY <2>2, SerialOf DEF Serial
  <2> DEFINE y == Serial'
  <2>4. y \in Nat /\ Serial + 1 <= y
    BY <2>1, <2>2, <2>3
  <2> HIDE DEF y
  <2>5. y >= Serial + 1 /\ y \in Nat
    BY <1>1, <2>4
  <2> QED BY <2>5 DEF y
<1>11. count' = count + Extra(f)
  <2>1. Serial < MaxFrames /\ MaxFrames \in 0..255
    BY SizeAssumption DEF AppendSome
  <2>2. (count + 1) % 256 = count + 1
    BY <1>1, <2>1
  <2> QED BY <1>1, <1>3, <2>2 DEF Extra
<1>12. Many(v) <= count' /\ count' <= Serial'
  <2>1. Extra(f) \in 0..1
    BY DEF Extra
  <2> QED BY <1>1, <1>9, <1>10, <1>11, <2>1
<1>13. ViewInv'
  BY <1>4, <1>7, <1>8, <1>12 DEF ViewInv
<1> QED BY <1>3, <1>7, <1>8, <1>13 DEF w

\* A frame taken from a sequence of frames, as Take of FrameQueue says.
GivenOut(w, f, v) ==
  /\ w # <<>>
  /\ \E i \in DOMAIN w :
       /\ \/ KindOf(w[i]) \in Prioritised /\ \A j \in 1..i-1 : KindOf(w[j]) \notin Prioritised
          \/ i = 1 /\ \A j \in DOMAIN w : KindOf(w[j]) \notin Prioritised
       /\ f = w[i] /\ v = RemoveAt(w, i)

\* The first frame of the kinds K is where the loops find it.
LEMMA GivesFirst ==
  ASSUME ViewInv, NEW K, Live(fifo, K) # {}
  PROVE  \E x \in 1..Len(LiveFrames(fifo)) :
           /\ KindOf(LiveFrames(fifo)[x]) \in K
           /\ \A j \in 1..x - 1 : KindOf(LiveFrames(fifo)[j]) \notin K
           /\ FrameAt(fifo, Min(Live(fifo, K))) = LiveFrames(fifo)[x]
           /\ Shown(MarkDeleted(fifo, Min(Live(fifo, K))), RemoveAt(LiveFrames(fifo), x))
           /\ Min(Live(fifo, K)) = 0 => x = 1
           /\ x = 1 =>
                Shown(SubSeq(fifo, After(fifo, Min(Live(fifo, K))) + 1, Len(fifo)),
                      RemoveAt(LiveFrames(fifo), x))
<1> DEFINE w == LiveFrames(fifo)
           P == Starts(fifo)
           p == Min(Live(fifo, K))
<1>1. Parsed(fifo, P) /\ Shown(fifo, w) /\ w \in Seq(Frames)
  BY ViewFacts DEF ViewInv
<1>2. PICK s : View(fifo, P, s, w)
  BY <1>1 DEF Shown
<1>3. PICK x \in 1..Len(w) : /\ s[x] = p /\ KindOf(w[x]) \in K
                             /\ \A j \in 1..x - 1 : KindOf(w[j]) \notin K
  BY <1>1, <1>2, FirstOf
<1> HIDE DEF w, P, p
<1>4. FrameAt(fifo, p) = w[x]
  <2>1. p \in P /\ Entry(fifo, p, w[x]) /\ w[x] \in Frames
    BY <1>1, <1>2, <1>3 DEF View
  <2> QED BY <1>1, <2>1, EntryHolds
<1>5. Shown(MarkDeleted(fifo, p), RemoveAt(w, x))
  <2> DEFINE c == MarkDeleted(fifo, s[x])
  <2>1. c = MarkDeleted(fifo, s[x]) /\ s[x] \in P
    BY <1>2 DEF View
  <2> HIDE DEF c
  <2>2. \E r : View(c, P, r, RemoveAt(w, x))
    BY <1>1, <1>2, <2>1, MarkView
  <2>3. Parsed(c, P)
    BY <1>1, <2>1, MarkedKeeps
  <2>4. Shown(c, RemoveAt(w, x))
    BY <2>2, <2>3, ShownIf
  <2> QED BY <1>3, <2>1, <2>4
<1>6. p = 0 => x = 1
  <2> SUFFICES ASSUME p = 0, x # 1 PROVE FALSE
    OBVIOUS
  <2>1. 1 \in 1..Len(w) /\ 1 < x
    BY <1>1
  <2>2. s[1] < s[x] /\ s[1] \in Nat
    BY <1>2, <2>1 DEF View
  <2> QED BY <1>3, <2>2
<1>7. x = 1 => Shown(SubSeq(fifo, After(fifo, p) + 1, Len(fifo)), RemoveAt(w, x))
  <2> SUFFICES ASSUME x = 1
               PROVE  Shown(SubSeq(fifo, After(fifo, p) + 1, Len(fifo)), RemoveAt(w, x))
    OBVIOUS
  <2>1. 1 \in 1..Len(w) /\ s[1] = p
    BY <1>3
  <2>2. Shown(SubSeq(fifo, After(fifo, s[1]) + 1, Len(fifo)), RemoveAt(w, 1))
    BY <1>1, <1>2, <2>1, FirstGone
  <2> QED BY <2>1, <2>2
<1> QED BY <1>3, <1>4, <1>5, <1>6, <1>7 DEF w, p

\* A prioritised frame taken out of the middle.
LEMMA PrioritisedMaps ==
  ASSUME ViewInv, GetPrioritised
  PROVE  ViewInv' /\ GivenOut(LiveFrames(fifo), out', LiveFrames(fifo'))
<1> DEFINE w == LiveFrames(fifo)
           p == Min(PrioritisedEntries)
<1>1. /\ Parsed(fifo, Starts(fifo)) /\ Many(w) <= count /\ count <= Serial /\ w \in Seq(Frames)
      /\ Many(w) \in Nat /\ count \in Nat /\ Serial \in Nat /\ QueueInv
  BY ViewFacts DEF ViewInv
<1>2. PrioritisedEntries = Live(fifo, Prioritised) /\ Live(fifo, Prioritised) # {}
  BY DEF GetPrioritised, PrioritisedEntries
<1>3. /\ out' = FrameAt(fifo, p) /\ sent' = sent /\ count' = count - 1
      /\ fifo' = IF p = 0 THEN SubSeq(fifo, After(fifo, 0) + 1, Len(fifo))
                 ELSE MarkDeleted(fifo, p)
  BY DEF GetPrioritised
<1>4. QueueInv'
  BY <1>1, GetPrioritisedStep
<1> HIDE DEF w
<1>5. PICK x \in 1..Len(w) :
        /\ KindOf(w[x]) \in Prioritised /\ \A j \in 1..x - 1 : KindOf(w[j]) \notin Prioritised
        /\ FrameAt(fifo, p) = w[x] /\ Shown(MarkDeleted(fifo, p), RemoveAt(w, x))
        /\ p = 0 => x = 1
        /\ x = 1 => Shown(SubSeq(fifo, After(fifo, p) + 1, Len(fifo)), RemoveAt(w, x))
  BY <1>2, GivesFirst DEF w
<1> HIDE DEF p
<1> DEFINE v == RemoveAt(w, x)
<1>6. Shown(fifo', v)
  BY <1>3, <1>5
<1>7. v \in Seq(Frames) /\ Many(v) <= Many(w) - 1
  BY <1>1, <1>5, WithoutOne, ManyWithout DEF Extra
<1> HIDE DEF v
<1>8. LiveFrames(fifo') = v
  <2>1. Parsed(fifo', Starts(fifo'))
    BY <1>4 DEF QueueInv, Ready
  <2> QED BY <1>6, <2>1, ShownIs
<1>9. Many(v) <= count' /\ count' <= Serial'
  <2>1. Serial' = Serial /\ Many(v) \in Nat
    BY <1>3, <1>7, CountedFinite DEF Serial
  <2> QED BY <1>1, <1>3, <1>7, <2>1
<1>10. ViewInv'
  BY <1>4, <1>6, <1>8, <1>9 DEF ViewInv
<1>11. GivenOut(w, out', v)
  <2>1. w # <<>> /\ DOMAIN w = 1..Len(w)
    BY <1>1, <1>5
  <2> QED BY <1>3, <1>5, <2>1 DEF GivenOut, v
<1> QED BY <1>8, <1>10, <1>11 DEF w

\* Otherwise the first of all, or none.
LEMMA HeadMaps ==
  ASSUME ViewInv, GetHead
  PROVE  /\ ViewInv'
         /\ \/ GivenOut(LiveFrames(fifo), out', LiveFrames(fifo'))
            \/ LiveFrames(fifo') = LiveFrames(fifo) /\ out' = out
<1> DEFINE w == LiveFrames(fifo)
           all == Live(fifo, Kinds)
           p == Min(all)
<1>1. /\ Parsed(fifo, Starts(fifo)) /\ Many(w) <= count /\ count <= Serial /\ w \in Seq(Frames)
      /\ Many(w) \in Nat /\ count \in Nat /\ Serial \in Nat /\ QueueInv /\ Shown(fifo, w)
  BY ViewFacts DEF ViewInv
<1>2. /\ sent' = sent /\ count' = 0 /\ PrioritisedEntries = {}
      /\ IF all = {} THEN fifo' = <<>> /\ UNCHANGED out
         ELSE /\ out' = FrameAt(fifo, p)
              /\ fifo' = SubSeq(fifo, After(fifo, p) + 1, Len(fifo))
  BY DEF GetHead
<1>3. QueueInv'
  BY <1>1, GetHeadStep
<1>4. PICK s : View(fifo, Starts(fifo), s, w)
  BY <1>1 DEF Shown
<1> HIDE DEF w
<1>5. \A i \in 1..Len(w) : KindOf(w[i]) \in Kinds /\ KindOf(w[i]) \notin Prioritised
  <2> SUFFICES ASSUME NEW i \in 1..Len(w)
               PROVE  KindOf(w[i]) \in Kinds /\ KindOf(w[i]) \notin Prioritised
    OBVIOUS
  <2>1. KindOf(w[i]) \in Kinds
    BY <1>1, FrameFacts
  <2>2. CASE count = 0
    <3>1. Counted(w) = {}
      BY <1>1, <2>2, CountedFinite
    <3> QED BY <2>1, <3>1 DEF Counted
  <2>3. CASE count # 0
    <3>1. Live(fifo, Prioritised) = {}
      BY <1>2, <2>3 DEF PrioritisedEntries
    <3> QED BY <1>1, <1>4, <2>1, <3>1, LiveAre
  <2> QED BY <2>2, <2>3
<1>6. Serial' = Serial
  BY <1>2 DEF Serial
<1>7. CASE all = {}
  <2>1. fifo' = <<>> /\ out' = out
    BY <1>2, <1>7
  <2>2. w = <<>>
    <3>1. \A i \in 1..Len(w) : FALSE
      BY <1>1, <1>4, <1>5, <1>7, LiveAre
    <3>2. Len(w) = 0
      <4>1. Len(w) \in Nat
        BY <1>1
      <4>2. Len(w) # 0 => 1 \in 1..Len(w)
        BY <4>1
      <4> QED BY <3>1, <4>2
    <3> QED BY <1>1, <3>2, EmptySeq
  <2>3. LiveFrames(fifo') = <<>> /\ Shown(fifo', <<>>) /\ Many(<<>>) = 0
    BY <2>1, EmptyShown
  <2>4. ViewInv'
    BY <1>1, <1>2, <1>3, <1>6, <2>3 DEF ViewInv
  <2> QED BY <2>1, <2>2, <2>3, <2>4 DEF w
<1>8. CASE all # {}
  <2>1. PICK x \in 1..Len(w) :
          /\ \A j \in 1..x - 1 : KindOf(w[j]) \notin Kinds
          /\ FrameAt(fifo, p) = w[x]
          /\ x = 1 => Shown(SubSeq(fifo, After(fifo, p) + 1, Len(fifo)), RemoveAt(w, x))
    BY <1>8, GivesFirst DEF w
  <2> HIDE DEF p, all
  <2>2. x = 1
    <3>1. Len(w) \in Nat
      BY <1>1
    <3>2. x # 1 => 1 \in 1..x - 1 /\ 1 \in 1..Len(w)
      BY <3>1
    <3> QED BY <1>5, <2>1, <3>2
  <2> DEFINE v == RemoveAt(w, x)
  <2>3. out' = w[x] /\ Shown(fifo', v)
    BY <1>2, <1>8, <2>1, <2>2
  <2>4. v \in Seq(Frames) /\ Many(v) <= Many(w) - Extra(w[x])
    BY <1>1, WithoutOne, ManyWithout
  <2>5. Many(v) = 0
    <3>1. Many(w) = 0
      <4>1. Counted(w) = {}
        BY <1>5 DEF Counted
      <4> QED BY <4>1, FS_EmptySet DEF Many
    <3>2. Extra(w[x]) = 0 /\ Many(v) \in Nat
      BY <1>5, <2>4, CountedFinite DEF Extra
    <3> QED BY <2>4, <3>1, <3>2
  <2>6. LiveFrames(fifo') = v
    <3>1. Parsed(fifo', Starts(fifo'))
      BY <1>3 DEF QueueInv, Ready
    <3> HIDE DEF v
    <3> QED BY <2>3, <3>1, ShownIs
  <2>7. ViewInv'
    BY <1>1, <1>2, <1>3, <1>6, <2>3, <2>5, <2>6 DEF ViewInv
  <2>8. GivenOut(w, out', v)
    <3>1. w # <<>> /\ DOMAIN w = 1..Len(w)
      BY <1>1, <2>1
    <3> QED BY <1>5, <2>2, <2>3, <3>1 DEF GivenOut
  <2> QED BY <2>6, <2>7, <2>8 DEF w
<1> QED BY <1>7, <1>8

LEMMA SameOperators ==
  \A w, i, f : Queue!ReplaceAt(w, i, f) = ReplaceAt(w, i, f) /\ Queue!RemoveAt(w, i) = RemoveAt(w, i)
BY Zenon DEF Queue!ReplaceAt, ReplaceAt, Queue!RemoveAt, RemoveAt

\* Every step of the queue is one of FrameQueue, or changes nothing it sees.
LEMMA ViewStep ==
  ASSUME ViewInv, [Next]_vars
  PROVE  ViewInv' /\ [Queue!FrameNext]_(Queue!fvars)
<1>1. CASE AppendSome
  <2>1. PICK f \in Frames : PutTo(LiveFrames(fifo), f, LiveFrames(fifo'))
    BY <1>1, AppendMaps
  <2>2. Queue!Put(f)
    BY <1>1, <2>1, AppendMaps, SameOperators, Zenon DEF Queue!Put, Queue!Waiting, PutTo, WaitsIn
  <2> QED BY <1>1, <2>2, AppendMaps DEF Queue!FrameNext, Queue!fvars
<1>2. ASSUME GivenOut(LiveFrames(fifo), out', LiveFrames(fifo'))
      PROVE  [Queue!FrameNext]_(Queue!fvars)
  <2>1. Queue!Take
    BY <1>2, SameOperators, Zenon DEF Queue!Take, GivenOut
  <2>2. LiveFrames(fifo') # LiveFrames(fifo)
    <3> DEFINE w == LiveFrames(fifo)
    <3>1. w \in Seq(Frames)
      BY ViewFacts
    <3> HIDE DEF w
    <3>2. PICK i \in 1..Len(w) : LiveFrames(fifo') = RemoveAt(w, i)
      BY <1>2, <3>1 DEF GivenOut, w
    <3>3. Len(RemoveAt(w, i)) = Len(w) - 1 /\ Len(w) \in Nat
      BY <3>1, WithoutOne
    <3> QED BY <3>2, <3>3 DEF w
  <2> QED BY <2>1, <2>2 DEF Queue!FrameNext
<1>3. CASE GetPrioritised
  BY <1>2, <1>3, PrioritisedMaps
<1>4. CASE GetHead
  BY <1>2, <1>4, HeadMaps DEF Queue!fvars
<1>5. CASE UNCHANGED vars
  <2>1. fifo' = fifo /\ count' = count /\ out' = out /\ sent' = sent
    BY <1>5 DEF vars
  <2>2. Serial' = Serial
    BY <2>1 DEF Serial
  <2>3. QueueInv'
    BY <2>1 DEF ViewInv, QueueInv, TypeOK
  <2> QED BY <2>1, <2>2, <2>3 DEF ViewInv, Queue!fvars
<1> QED BY <1>1, <1>3, <1>4, <1>5 DEF Next

\* The bytes are a queue of frames, whatever the kinds, the lengths and the size of the
\* FIFO: frames wait in order, a newer one of a superseding kind takes the place of the
\* waiting one, the prioritised are given out first, and every one that is given out was
\* appended and is given once (telemetry.c on FIFO.h). For as many frames as a byte
\* numbers (MaxFrames), so that prioritizedCount does not wrap.
THEOREM QueueIsFrameQueue == Spec => ImplementsQueue
<1>1. Init => ViewInv /\ Queue!FrameInit
  BY ViewStart DEF Queue!FrameInit
<1>2. ViewInv /\ [Next]_vars => ViewInv' /\ [Queue!FrameNext]_(Queue!fvars)
  BY ViewStep
<1> QED BY <1>1, <1>2, PTL DEF Spec, ImplementsQueue, Queue!FrameSpec

-----------------------------------------------------------------------------
(***************************************************************************)
(* The button. A hold that is n long presses old has lasted n times more   *)
(* than LongTime, and at most n times LongTime and the gap of a sample.    *)
(***************************************************************************)
\* A hold that is n long presses and some time old.
HeldFor(n, t, since, b) ==
  /\ since <= LongTime
  /\ n * (LongTime + 1) + since <= t /\ t <= n * (LongTime + MaxGap) + since
  /\ b = IF n >= 3 THEN 1 ELSE 0

ButtonInv ==
  /\ ButtonTypeOK
  /\ hold.samples = 0 => button.state[3] = 1
  /\ hold.samples = 1 => button.state[3] = 0 /\ button.state[2] = 1
  /\ hold.samples = 2 => /\ button.state[3] = 0 /\ button.state[2] = 0
                         /\ HeldFor(button.longs, hold.time, button.since, hold.bindings)
  /\ hold.samples # 2 => hold.time = 0 /\ hold.bindings = 0
  /\ button \in [state : [1..3 -> {0, 1}], since : Nat, long : BOOLEAN, longs : Nat, shorts : Nat]
  /\ \E x, y, z \in {0, 1} : button.state = <<x, y, z>>

LEMMA ButtonSizes ==
  /\ LongTime \in Nat \ {0} /\ MultiTime \in Nat /\ MaxGap \in Nat \ {0}
  /\ MaxHold \in Nat /\ CountMod \in Nat \ {0}
  /\ 3 * (LongTime + MaxGap) < MaxHold /\ MaxHold < LongTime * CountMod
<1>1. /\ LongTime \in Nat /\ MultiTime \in Nat /\ MaxGap \in Nat \ {0}
      /\ MaxHold \in Nat /\ CountMod \in Nat
      /\ 3 * (LongTime + MaxGap) < MaxHold /\ MaxHold < LongTime * CountMod
  BY ButtonAssumption
<1>2. LongTime # 0
  <2>1. 0 * CountMod = 0
    BY <1>1
  <2> QED BY <1>1, <2>1
<1>3. CountMod # 0
  <2>1. LongTime * 0 = 0
    BY <1>1
  <2> QED BY <1>1, <2>1
<1> QED BY <1>1, <1>2, <1>3

\* What the invariant says of the hold.
LEMMA HoldBinds == ButtonInv => BindsByLongHold
<1> SUFFICES ASSUME ButtonInv PROVE BindsByLongHold
  OBVIOUS
<1> DEFINE n == button.longs
           t == hold.time
           s == button.since
<1>1. n \in Nat /\ t \in Nat /\ s \in Nat /\ hold.samples \in 0..2
  BY DEF ButtonInv, ButtonTypeOK
<1>2. CASE hold.samples # 2
  <2>1. t = 0 /\ hold.bindings = 0
    BY <1>2 DEF ButtonInv
  <2>2. 0 < 3 * (LongTime + MaxGap)
    BY ButtonSizes
  <2> QED BY <2>1, <2>2, ButtonSizes DEF BindsByLongHold
<1>3. CASE hold.samples = 2
  <2>1. HeldFor(n, t, s, hold.bindings)
    BY <1>3 DEF ButtonInv
  <2> HIDE DEF n, t, s
  <2>2. CASE n >= 3
    <3>1. hold.bindings = 1
      BY <2>1, <2>2 DEF HeldFor
    <3>2. 3 * (LongTime + 1) <= n * (LongTime + 1)
      <4>1. n - 3 \in Nat /\ n = 3 + (n - 3)
        BY <1>1, <2>2
      <4>2. \A d, l \in Nat : (3 + d) * l = 3 * l + d * l /\ d * l \in Nat
        OBVIOUS
      <4>3. LongTime + 1 \in Nat
        BY ButtonSizes
      <4>4. n * (LongTime + 1) = 3 * (LongTime + 1) + (n - 3) * (LongTime + 1)
            /\ (n - 3) * (LongTime + 1) \in Nat
        BY <4>1, <4>2, <4>3, Zenon
      <4> DEFINE u == (n - 3) * (LongTime + 1)
                 w == 3 * (LongTime + 1)
      <4>5. w \in Nat
        BY ButtonSizes
      <4> HIDE DEF u, w
      <4> QED BY <4>4, <4>5 DEF u, w
    <3>3. n * (LongTime + 1) \in Nat
      BY <1>1, ButtonSizes
    <3>4. 3 * (LongTime + 1) <= t
      <4> DEFINE u == n * (LongTime + 1)
      <4>1. u + s <= t /\ u \in Nat /\ 3 * (LongTime + 1) <= u
        BY <2>1, <3>2, <3>3 DEF HeldFor
      <4> HIDE DEF u
      <4> QED BY <1>1, <4>1, ButtonSizes
    <3>5. 3 * LongTime < t
      BY <1>1, <3>4, ButtonSizes
    <3> QED BY <3>1, <3>5 DEF BindsByLongHold, t
  <2>3. CASE n < 3
    <3>1. hold.bindings = 0
      BY <1>1, <2>1, <2>3 DEF HeldFor
    <3>2. n * (LongTime + MaxGap) <= 2 * (LongTime + MaxGap)
      <4>1. n = 0 \/ n = 1 \/ n = 2
        BY <1>1, <2>3
      <4> QED BY <4>1, ButtonSizes
    <3>3. t < 3 * (LongTime + MaxGap)
      <4> DEFINE u == n * (LongTime + MaxGap)
      <4>1. u \in Nat
        BY <1>1, ButtonSizes
      <4>2. t <= u + s /\ s <= LongTime /\ u <= 2 * (LongTime + MaxGap)
        BY <2>1, <3>2 DEF HeldFor
      <4> HIDE DEF u
      <4> QED BY <1>1, <4>1, <4>2, ButtonSizes
    <3>4. ~(t >= 3 * (LongTime + MaxGap))
      BY <1>1, <3>3, ButtonSizes
    <3> QED BY <3>1, <3>4 DEF BindsByLongHold, t
  <2> QED BY <1>1, <2>2, <2>3
<1> QED BY <1>1, <1>2, <1>3

LEMMA ButtonStart == ButtonInit => ButtonInv
<1> SUFFICES ASSUME ButtonInit PROVE ButtonInv
  OBVIOUS
<1>1. button = [state |-> <<1, 1, 1>>, since |-> 0, long |-> FALSE, longs |-> 0, shorts |-> 0]
      /\ hold = [samples |-> 0, time |-> 0, bindings |-> 0]
  BY DEF ButtonInit, NoHold
<1>2. ButtonTypeOK
  BY <1>1, ButtonSizes DEF ButtonTypeOK
<1> QED BY <1>1, <1>2 DEF ButtonInv

\* A sample.
LEMMA UpdateKeeps ==
  ASSUME ButtonInv, NEW level \in {0, 1}, NEW gap \in 1..MaxGap, Update(level, gap),
         level = 0 => hold.time + gap <= MaxHold
  PROVE  ButtonInv'
<1> DEFINE s == button.since + gap
           c == Lesser(s, LongTime + MultiTime + 1)
           r == IF s > MultiTime THEN 0 ELSE button.shorts
<1>1. PICK x, y, z \in {0, 1} : button.state = <<x, y, z>>
  BY DEF ButtonInv
<1>2. /\ button.since \in 0..LongTime + MultiTime + 1 /\ button.long \in BOOLEAN
      /\ button.longs \in 0..CountMod - 1 /\ button.shorts \in 0..CountMod - 1
      /\ hold \in [samples : 0..2, time : 0..MaxHold, bindings : Nat]
  BY DEF ButtonInv, ButtonTypeOK
<1>3. s \in Nat /\ gap \in Nat /\ c \in 0..LongTime + MultiTime + 1 /\ (s <= LongTime => c = s)
      /\ (s > LongTime => c > LongTime)
  BY <1>2, ButtonSizes DEF Lesser
<1>4. r \in 0..CountMod - 1
  BY <1>2, ButtonSizes
<1> DEFINE b == [state |-> <<y, z, level>>, since |-> c, long |-> button.long,
                 longs |-> button.longs, shorts |-> r]
<1>5. button = [state |-> <<x, y, z>>, since |-> button.since, long |-> button.long,
                longs |-> button.longs, shorts |-> button.shorts]
  BY <1>1 DEF ButtonInv
<1>6. /\ button' = Updated(b)
      /\ hold' = IF level # Pressed THEN NoHold
                 ELSE [samples |-> Lesser(hold.samples + 1, 2),
                       time |-> IF hold.samples = 2 THEN hold.time + gap ELSE 0,
                       bindings |-> hold.bindings + (IF BindsNow(b) THEN 1 ELSE 0)]
  <2> HIDE DEF c, r
  <2>1. b = [button EXCEPT !.since = c, !.shorts = r, !.state = <<@[2], @[3], level>>]
    <3>1. button.state[2] = y /\ button.state[3] = z
      BY <1>1
    <3>2. [button EXCEPT !.since = c, !.shorts = r, !.state = <<@[2], @[3], level>>]
            = [button EXCEPT !.since = c, !.shorts = r, !.state = <<y, z, level>>]
      BY <3>1
    <3> DEFINE d == [button EXCEPT !.since = c, !.shorts = r, !.state = <<y, z, level>>]
    <3>3. d = [[state |-> <<x, y, z>>, since |-> button.since, long |-> button.long,
                longs |-> button.longs, shorts |-> button.shorts]
                 EXCEPT !.since = c, !.shorts = r, !.state = <<y, z, level>>]
      BY <1>5
    <3> HIDE DEF d
    <3>4. d = [state |-> <<y, z, level>>, since |-> c, long |-> button.long,
               longs |-> button.longs, shorts |-> r]
      BY <3>3
    <3> QED BY <3>2, <3>4 DEF d
  <2> HIDE DEF b
  <2> QED BY <2>1 DEF Update, c, r, s
<1> HIDE DEF c, r, s
<1>7. b.state = <<y, z, level>> /\ b.since = c /\ b.long = button.long /\ b.longs = button.longs
      /\ b.shorts = r
  OBVIOUS
<1> DEFINE L == button.longs
           M(v) == (v + 1) % CountMod
<1>8. ASSUME NEW v \in 0..CountMod - 1 PROVE M(v) \in 0..CountMod - 1
  BY ButtonSizes
\* what the four cases make of the button
<1> DEFINE Rec(since, long, longs, shorts) ==
             [state |-> <<y, z, level>>, since |-> since, long |-> long, longs |-> longs, shorts |-> shorts]
<1>9. /\ <<y, z, level>> = StateRise => button' = Rec(c, FALSE, L, IF button.long THEN r ELSE M(r))
      /\ <<y, z, level>> = StateFall => button' = Rec(0, button.long, 0, r)
      /\ <<y, z, level>> = StateHeld /\ c > LongTime => button' = Rec(0, TRUE, M(L), r)
      /\ (<<y, z, level>> \notin {StateRise, StateFall} /\ ~(<<y, z, level>> = StateHeld /\ c > LongTime))
           => button' = b
      /\ BindsNow(b) <=> (<<y, z, level>> = StateHeld /\ c > LongTime /\ L = 2)
  <2>1. StateRise # StateFall /\ StateRise # StateHeld /\ StateFall # StateHeld
    BY DEF StateRise, StateFall, StateHeld
  <2> QED BY <1>6, <2>1 DEF Updated, Risen, Fallen, LongDue, LongPressed, BindsNow
<1>10. \E e, n, h : \E g \in BOOLEAN : /\ button' = Rec(e, g, n, h) /\ e \in 0..LongTime + MultiTime + 1
                            /\ n \in 0..CountMod - 1 /\ h \in 0..CountMod - 1
  <2>1. 0 \in 0..LongTime + MultiTime + 1 /\ 0 \in 0..CountMod - 1
    BY ButtonSizes
  <2>2. M(L) \in 0..CountMod - 1 /\ M(r) \in 0..CountMod - 1
    BY <1>2, <1>4, <1>8
  <2> HIDE DEF M, L
  <2>3. L \in 0..CountMod - 1
    BY <1>2 DEF L
  <2>4. button' = Rec(c, FALSE, L, IF button.long THEN r ELSE M(r)) \/ button' = Rec(0, button.long, 0, r)
        \/ button' = Rec(0, TRUE, M(L), r) \/ button' = Rec(c, button.long, L, r)
    BY <1>9 DEF L
  <2> HIDE DEF Rec
  <2> QED BY <1>2, <1>3, <1>4, <2>1, <2>2, <2>3, <2>4
<1>11. PICK e, n, h, g : /\ button' = Rec(e, g, n, h) /\ e \in 0..LongTime + MultiTime + 1
                         /\ n \in 0..CountMod - 1 /\ h \in 0..CountMod - 1 /\ g \in BOOLEAN
  BY <1>10
<1>12. /\ button'.state = <<y, z, level>> /\ button'.since = e /\ button'.long = g
       /\ button'.longs = n /\ button'.shorts = h
       /\ <<y, z, level>> \in [1..3 -> {0, 1}]
       /\ button' \in [state : [1..3 -> {0, 1}], since : Nat, long : BOOLEAN, longs : Nat, shorts : Nat]
  BY <1>11, ButtonSizes
<1>13. \E u, v, w \in {0, 1} : button'.state = <<u, v, w>>
  BY <1>12
<1> HIDE DEF Rec, b
<1>14. CASE level = 1
  <2>1. hold' = [samples |-> 0, time |-> 0, bindings |-> 0]
    BY <1>6, <1>14 DEF Pressed, NoHold
  <2>2. ButtonTypeOK'
    BY <1>11, <1>12, <2>1, ButtonSizes DEF ButtonTypeOK
  <2> QED BY <1>12, <1>13, <1>14, <2>1, <2>2 DEF ButtonInv
<1>15. CASE level = 0
  <2> DEFINE t == IF hold.samples = 2 THEN hold.time + gap ELSE 0
             k == hold.bindings + (IF BindsNow(b) THEN 1 ELSE 0)
  <2>1. /\ hold'.samples = Lesser(hold.samples + 1, 2) /\ hold'.time = t /\ hold'.bindings = k
        /\ hold' \in [samples : 0..2, time : 0..MaxHold, bindings : Nat]
    BY <1>2, <1>3, <1>6, <1>15, ButtonSizes DEF Pressed, Lesser
  <2>2. ButtonTypeOK'
    BY <1>11, <1>12, <2>1 DEF ButtonTypeOK
  <2>3. CASE hold.samples = 0
    <3>1. z = 1 /\ hold.bindings = 0
      BY <1>1, <2>3 DEF ButtonInv
    <3>2. ~BindsNow(b)
      BY <1>9, <1>15, <3>1 DEF StateHeld
    <3>3. hold'.samples = 1 /\ hold'.time = 0 /\ hold'.bindings = 0
      BY <2>1, <2>3, <3>1, <3>2 DEF Lesser
    <3> QED BY <1>12, <1>13, <1>15, <2>2, <3>1, <3>3 DEF ButtonInv
  <2>4. CASE hold.samples = 1
    <3>1. y = 1 /\ z = 0 /\ hold.bindings = 0
      BY <1>1, <2>4 DEF ButtonInv
    <3>2. ~BindsNow(b) /\ button' = Rec(0, button.long, 0, r)
      BY <1>9, <1>15, <3>1 DEF StateHeld, StateFall
    <3>3. hold'.samples = 2 /\ hold'.time = 0 /\ hold'.bindings = 0
      BY <2>1, <2>4, <3>1, <3>2 DEF Lesser
    <3>4. button'.since = 0 /\ button'.longs = 0
      BY <3>2 DEF Rec
    <3>5. HeldFor(0, 0, 0, 0)
      BY ButtonSizes DEF HeldFor
    <3> QED BY <1>12, <1>13, <1>15, <2>2, <3>1, <3>3, <3>4, <3>5 DEF ButtonInv
  <2>5. CASE hold.samples = 2
    <3>1. y = 0 /\ z = 0 /\ HeldFor(L, hold.time, button.since, hold.bindings)
      BY <1>1, <2>5 DEF ButtonInv
    <3>2. <<y, z, level>> = StateHeld /\ StateHeld \notin {StateRise, StateFall}
      BY <1>15, <3>1 DEF StateHeld, StateRise, StateFall
    <3>3. hold'.samples = 2 /\ t = hold.time + gap
      BY <2>1, <2>5 DEF Lesser
    <3>4. HeldFor(n, t, e, k)
      <4>1. /\ L \in Nat /\ hold.time \in Nat /\ button.since \in Nat /\ L < CountMod
            /\ hold.time + gap <= MaxHold
        BY <1>2, <1>15, ButtonSizes
      <4> DEFINE u == L * (LongTime + 1)
                 w == L * (LongTime + MaxGap)
      <4>2. u \in Nat /\ w \in Nat
        BY <4>1, ButtonSizes
      <4>3. /\ u + button.since <= hold.time /\ hold.time <= w + button.since
            /\ button.since <= LongTime /\ hold.bindings = IF L >= 3 THEN 1 ELSE 0
        BY <3>1 DEF HeldFor
      <4>4. CASE c > LongTime
        <5>1. button' = Rec(0, TRUE, M(L), r) /\ (BindsNow(b) <=> L = 2)
          BY <1>9, <3>2, <4>4
        <5>2. e = 0 /\ n = M(L)
          BY <1>12, <5>1 DEF Rec
        <5>3. s > LongTime
          BY <1>3, <4>4, ButtonSizes
        <5>4. (L + 1) * (LongTime + 1) = u + (LongTime + 1)
              /\ (L + 1) * (LongTime + MaxGap) = w + (LongTime + MaxGap)
              /\ (L + 1) * (LongTime + 1) = (L + 1) * LongTime + (L + 1)
              /\ (L + 1) * LongTime = LongTime * (L + 1) /\ (L + 1) * LongTime \in Nat
              /\ LongTime * CountMod \in Nat
          <6>1. \A l \in Nat : (L + 1) * l = L * l + l
            BY <4>1, OneMore
          <6>2. \A i, j \in Nat : i * (j + 1) = i * j + i /\ i * j = j * i /\ i * j \in Nat
            OBVIOUS
          <6>3. LongTime + 1 \in Nat /\ LongTime + MaxGap \in Nat /\ L + 1 \in Nat
            BY <4>1, ButtonSizes
          <6>4. LongTime \in Nat /\ CountMod \in Nat
            BY ButtonSizes
          <6> HIDE DEF L
          <6>5. (L + 1) * (LongTime + 1) = u + (LongTime + 1)
            BY <6>1, <6>3, Zenon
          <6>6. (L + 1) * (LongTime + MaxGap) = w + (LongTime + MaxGap)
            BY <6>1, <6>3, Zenon
          <6>7. (L + 1) * (LongTime + 1) = (L + 1) * LongTime + (L + 1)
            BY <6>2, <6>3, <6>4, Zenon
          <6>8. (L + 1) * LongTime = LongTime * (L + 1) /\ (L + 1) * LongTime \in Nat
                /\ LongTime * CountMod \in Nat
            BY <6>2, <6>3, <6>4, Zenon
          <6> QED BY <6>5, <6>6, <6>7, <6>8, Zenon
        <5> DEFINE p == (L + 1) * (LongTime + 1)
                   q == (L + 1) * (LongTime + MaxGap)
                   o == (L + 1) * LongTime
                   a == LongTime * CountMod
        <5> HIDE DEF u, w, p, q, o, a
        <5>5. p = u + (LongTime + 1) /\ q = w + (LongTime + MaxGap) /\ p = o + (L + 1) /\ o \in Nat
              /\ o = LongTime * (L + 1) /\ a \in Nat /\ MaxHold < a
          BY <5>4, ButtonSizes DEF u, w, p, q, o, a
        <5>6. p <= t /\ t <= q
          BY <1>3, <3>3, <4>1, <4>2, <4>3, <5>3, <5>5, ButtonSizes DEF s
        <5>7. o < a
          BY <3>3, <4>1, <4>2, <5>5, <5>6, ButtonSizes
        <5>8. L + 1 < CountMod
          BY <4>1, <5>5, <5>7, ProductOrder, ButtonSizes DEF a
        <5>9. n = L + 1
          BY <4>1, <5>2, <5>8, ButtonSizes
        <5>10. k = IF n >= 3 THEN 1 ELSE 0
          BY <4>1, <4>3, <5>1, <5>9
        <5>11. n * (LongTime + 1) + e = p /\ n * (LongTime + MaxGap) + e = q
          BY <4>2, <5>2, <5>5, <5>9, ButtonSizes DEF p, q
        <5> QED BY <5>2, <5>6, <5>10, <5>11, ButtonSizes DEF HeldFor
      <4>5. CASE ~(c > LongTime)
        <5>1. button' = b /\ ~BindsNow(b)
          BY <1>9, <3>2, <4>5
        <5>2. e = c /\ n = L
          BY <1>7, <1>12, <5>1
        <5>3. c = s /\ s <= LongTime
          BY <1>3, <4>5, ButtonSizes
        <5>4. k = hold.bindings
          BY <1>2, <5>1
        <5> HIDE DEF u, w, k, t
        <5>5. u + c <= t /\ t <= w + c /\ c <= LongTime
          BY <1>3, <3>3, <4>1, <4>2, <4>3, <5>3, ButtonSizes DEF s
        <5> QED BY <4>3, <5>2, <5>4, <5>5 DEF HeldFor, u, w
      <4> QED BY <4>4, <4>5
    <3> QED BY <1>12, <1>13, <1>15, <2>1, <2>2, <3>1, <3>3, <3>4 DEF ButtonInv
  <2> QED BY <1>2, <2>3, <2>4, <2>5
<1> QED BY <1>14, <1>15

LEMMA ButtonStep == ButtonInv /\ [ButtonNext]_buttonVars => ButtonInv'
<1> SUFFICES ASSUME ButtonInv, [ButtonNext]_buttonVars PROVE ButtonInv'
  OBVIOUS
<1>1. hold.time \in Nat
  BY DEF ButtonInv, ButtonTypeOK
<1>2. CASE Sample
  <2>1. PICK level \in {0, 1}, gap \in 1..MaxGap : Update(level, gap)
    BY <1>2 DEF Sample
  <2>2. hold.time + gap <= MaxHold
    BY <1>1, <1>2, ButtonSizes DEF Sample
  <2> QED BY <2>1, <2>2, UpdateKeeps
<1>3. CASE Release
  <2>1. Update(1, 1) /\ 1 \in 1..MaxGap
    BY <1>3, ButtonSizes DEF Release
  <2> QED BY <2>1, UpdateKeeps
<1>4. CASE UNCHANGED buttonVars
  BY <1>4 DEF buttonVars, ButtonInv, ButtonTypeOK, HeldFor
<1> QED BY <1>2, <1>3, <1>4 DEF ButtonNext

\* Binding begins once in a hold of the button, after three long presses of it and not of
\* several, however late the samples come (update and handlePress in devButton.c); and
\* the count of long presses, eight bits wide, does not wrap within a hold.
THEOREM HoldBindsOnce == ButtonSpec => [](ButtonTypeOK /\ BindsByLongHold)
<1>1. ButtonInv => ButtonTypeOK /\ BindsByLongHold
  BY HoldBinds DEF ButtonInv
<1> QED BY <1>1, ButtonStart, ButtonStep, PTL DEF ButtonSpec

-----------------------------------------------------------------------------
LEMMA PartsStart ==
  DeviceInit =>
    /\ Init /\ HandsetInit /\ RingInit /\ TxRadioInit /\ RxInit /\ OtaInit
    /\ MenuInit /\ RxMenuInit /\ ButtonInit /\ SbusInit /\ ParserInit
BY DEF DeviceInit

LEMMA PartsStep ==
  [DeviceNext]_deviceVars =>
    /\ [Next]_vars /\ [HandsetNext]_handsetVars /\ [RingNext]_ringVars /\ [TxRadioNext]_txRadioVars
    /\ [RxNext]_rxVars /\ [OtaNext]_otaVars
    /\ [MenuNext]_menuVars /\ [RxMenuNext]_rxMenuVars /\ [ButtonNext]_buttonVars
    /\ [SbusNext]_sbusVars /\ [ParserNext]_parserVars
BY DEF DeviceNext, deviceVars, QueueTurn, RingTurn, CrsfTurn, SbusTurn, ParserTurn, TxRadioTurn,
       RxTurn, OtaTurn, MenuTurn, RxMenuTurn, ButtonTurn

\* The composition implements each of the parts: no step of one touches another.
THEOREM PartsRun ==
  DeviceSpec => /\ Spec /\ HandsetSpec /\ RingSpec /\ TxRadioSpec /\ RxSpec /\ OtaSpec
                /\ MenuSpec /\ RxMenuSpec /\ ButtonSpec /\ SbusSpec /\ ParserSpec
BY PartsStart, PartsStep, PTL
   DEF DeviceSpec, Spec, HandsetSpec, RingSpec, TxRadioSpec, RxSpec, OtaSpec, MenuSpec, RxMenuSpec,
       ButtonSpec, SbusSpec, ParserSpec

\* In the two devices too what the program has decided reaches the radios, the serial
\* output and the menus, although the one event flag is raised in many places.
THEOREM AllFollow == DeviceSpec => []DevicesFollow
BY PartsRun, Follows, RxFollows, TxSettingsRight, RxSettingsRight, PTL DEF DevicesFollow

\* A restart of either device comes up with the settings it ran with, unless they are
\* marked as modified and still to be stored.
THEOREM AllSettingsKept == DeviceSpec => []SettingsKept
BY PartsRun, TxSettingsRight, RxSettingsRight, PTL DEF SettingsKept

\* Every part of the two devices keeps its types: no buffer overflows, no index leaves
\* its table (DeviceTypeOK).
THEOREM DevicesTyped == DeviceSpec => []DeviceTypeOK
<1>1. DeviceSpec => /\ []TypeOK /\ []RingTypeOK /\ []HandsetTypeOK /\ []SbusTypeOK
                    /\ []ParserTypeOK /\ []TxRadioTypeOK /\ []RxTypeOK /\ []OtaTypeOK
                    /\ []MenuTypeOK /\ []RxMenuTypeOK /\ []ButtonTypeOK
  BY PartsRun, QueueTyped, RingOrder, HandsetTyped, SbusTyped, ParserTyped, TypeCorrect, RxFollows,
     NoneLeftOut, TxSettingsRight, RxSettingsRight, HoldBindsOnce, PTL
<1> QED BY <1>1, PTL DEF DeviceTypeOK

\* What the other side sends is taken: the serial parsers lose good frames only where
\* damage before them leaves bytes that look like a frame's beginning, and find the
\* frames again; no request to the receiver's menu is overtaken; and a long hold of the
\* button begins binding, once (InputsTaken).
THEOREM InputsAllTaken == DeviceSpec => []InputsTaken
BY PartsRun, HandsetResynced, SbusResynced, ParserResynced, RxSettingsRight, HoldBindsOnce, PTL DEF InputsTaken

\* The telemetry queue, the serial rings, the answers to the handset, the update and the
\* power, in the composition.
THEOREM DevicesSafe ==
  DeviceSpec => /\ [](TypeOK /\ RingKeepsOrder /\ AnswersWhole /\ OtaOffersAll)
                /\ ImplementsQueue /\ NewestIsGiven /\ PowerCapped
BY PartsRun, QueueTyped, QueueIsFrameQueue, NewestGiven, RingOrder, AnswersAreWhole, NoneLeftOut, PowerIsCapped, PTL
=============================================================================
