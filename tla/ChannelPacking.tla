--------------------------- MODULE ChannelPacking ---------------------------
(***************************************************************************)
(* The RC channels in a packet. Sixteen channels of eleven bits lose their *)
(* lowest bit and travel in two groups of four, each packed into five      *)
(* bytes; with sixteen or twelve channels the packets alternate between    *)
(* two choices of groups, with eight they do not. All air rates of this    *)
(* program use the packet of ten bytes: the layouts of the short packet    *)
(* are never reached.                                                      *)
(***************************************************************************)
EXTENDS Integers

Channels == 0 .. 15
Values11 == 0 .. 2047
Values10 == 0 .. 1023
Groups == 0 .. 3                           \* places in a group of four
PackingModes == {"8ch", "16ch", "12ch"}    \* smWideOr8ch, smHybridOr16ch, sm12ch

\* What a shift by 0, 2, 4, 6 or 8 bits multiplies by.
Scale == [n \in 0 .. 4 |-> CASE n = 0 -> 1 [] n = 1 -> 4 [] n = 2 -> 16 [] n = 3 -> 64 [] n = 4 -> 256]

Decimate11to10(v) == v \div 2

\* PackUInt11ToChannels4x10: value n starts 2n bits into byte n and ends in the next.
LowBits(v, n) == (v[n] * Scale[n]) % 256
HighBits(v, n) == v[n] \div Scale[4 - n]
PackedBytes(v) ==
  [k \in 0 .. 4 |-> (IF k \in Groups THEN LowBits(v, k) ELSE 0)
                    + (IF k - 1 \in Groups THEN HighBits(v, k - 1) ELSE 0)]

\* UnpackChannels4x10ToUInt11: ten bits from 2n bits into byte n, one bit up.
UnpackedValue(bytes, n) == (((bytes[n] + 256 * bytes[n + 1]) \div Scale[n]) % 1024) * 2

\* The first channel of the second group, and of the first.
HighGroup(mode, high) ==
  CASE mode = "16ch" -> IF high THEN 12 ELSE 4
    [] mode = "12ch" -> IF high THEN 9 ELSE 5
    [] mode = "8ch" -> 5
LowGroup(mode, high) == IF mode = "16ch" /\ high THEN 8 ELSE 0

Group(channels, first) == [n \in Groups |-> Decimate11to10(channels[first + n])]

\* GenerateChannelData8ch12ch. Channel 4, the arming switch, is a bit of its own.
GenerateChannelData(channels, mode, high) ==
  [high |-> high,
   ch4 |-> channels[4] > 992,
   low4 |-> PackedBytes(Group(channels, LowGroup(mode, high))),
   high4 |-> PackedBytes(Group(channels, HighGroup(mode, high)))]

\* Which choice of groups a packet gets, and FullResIsHighAux after it: with twelve
\* channels and sixteen every packet gets the other one, with eight none.
SentHigh(mode, isHighAux) == mode # "8ch" /\ isHighAux
HighAfter(mode, isHighAux) == IF mode = "8ch" THEN isHighAux ELSE ~isHighAux

\* BIT_to_CRSF
FromBit(b) == IF b THEN 1792 ELSE 191

\* UnpackChannelData8ch: the channels the packet does not carry stay.
UnpackChannelData(channels, packet, mode) ==
  LET low == LowGroup(mode, packet.high)
      high == HighGroup(mode, packet.high)
  IN [c \in Channels |->
        IF c \in high .. high + 3 THEN UnpackedValue(packet.high4, c - high)
        ELSE IF c \in low .. low + 3 THEN UnpackedValue(packet.low4, c - low)
        ELSE IF c = 4 /\ mode # "16ch" THEN FromBit(packet.ch4)
        ELSE channels[c]]

\* A channel as it arrives: without its lowest bit.
Carried(v) == 2 * (v \div 2)
=============================================================================
