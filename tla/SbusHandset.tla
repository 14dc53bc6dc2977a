---------------------------- MODULE SbusHandset ----------------------------
(***************************************************************************)
(* The other handset of the transmitter, built in instead of CRSF's: SBUS  *)
(* frames of a fixed length between a header and a footer byte, without a  *)
(* checksum, on a one-way line (SBUSHandset.c). The line damages and loses *)
(* bytes; 250 ms without a frame is a disconnection.                       *)
(*                                                                         *)
(* The bytes in between are any, headers and footers among them: channels  *)
(* are packed so that every byte occurs. The ring is UartRing.             *)
(***************************************************************************)
EXTENDS Integers, Sequences, SequencesExt, FiniteSetsExt

CONSTANTS
  Header, Footers, SbusJunk,   \* SBUS_HEADER, the two footers, a damaged byte
  SbusFrameLen,                \* SBUS_FRAME_LEN
  SbusContents,                \* what the handset sends between header and footer
  SbusTimeout,                 \* 250 ms, in ticks
  MaxSbusFrames, MaxSbusDamages   \* bounds

ASSUME SbusAssumption ==
  /\ SbusFrameLen \in Nat /\ SbusFrameLen > 3
  /\ Header \in Nat \ Footers /\ Footers \subseteq Nat /\ SbusJunk \subseteq Nat
  /\ \A c \in SbusContents : c \in Seq(Nat) /\ Len(c) = SbusFrameLen - 2
  /\ SbusTimeout \in Nat /\ MaxSbusFrames \in Nat

VARIABLES
  sline,      \* bytes that have arrived and are not read yet
  sbuf,       \* sParseBuf up to sParseLen
  swire,      \* history: all the bytes that ever arrived
  sstarts,    \* history: where in swire each frame begins
  sdamaged,   \* history: the frames that were damaged
  taken,      \* history: the frames taken, and where they began
  sinceGood,  \* time since the last one, up to one more than the timeout
  sconnected  \* controllerConnected

sbusVars == <<sline, sbuf, swire, sstarts, sdamaged, taken, sinceGood, sconnected>>

SbusFrame(c, footer) == <<Header>> \o c \o <<footer>>
SbusDamaged(f) ==
  {RemoveAt(f, i) : i \in DOMAIN f} \cup ({ReplaceAt(f, i, b) : i \in DOMAIN f, b \in SbusJunk} \ {f})

SbusSend ==
  /\ Len(sstarts) < MaxSbusFrames
  /\ Len(sline) < SbusFrameLen
  /\ sstarts' = Append(sstarts, Len(swire) + 1)
  /\ \E c \in SbusContents, footer \in Footers :
       LET f == SbusFrame(c, footer)
       IN \/ sline' = sline \o f /\ swire' = swire \o f /\ UNCHANGED sdamaged
          \/ /\ Cardinality(sdamaged) < MaxSbusDamages
             /\ sdamaged' = sdamaged \cup {Len(sstarts')}
             /\ \E g \in SbusDamaged(f) : sline' = sline \o g /\ swire' = swire \o g
  /\ UNCHANGED <<sbuf, taken, sinceGood, sconnected>>

SbusTick ==
  /\ sinceGood <= SbusTimeout
  /\ sinceGood' = sinceGood + 1
  /\ UNCHANGED <<sline, sbuf, swire, sstarts, sdamaged, taken, sconnected>>
-----------------------------------------------------------------------------
\* SbusAlignToHeader, from the i-th byte.
ToHeader(s, i) ==
  LET headers == {j \in i..Len(s) : s[j] = Header}
  IN IF headers = {} THEN <<>> ELSE SubSeq(s, Min(headers), Len(s))

\* Mutant of FrameThere: the footer is not looked at.
FrameThereNoFooter(s) == s[1] = Header

FrameThere(s) == s[1] = Header /\ s[SbusFrameLen] \in Footers

\* Mutant of TakeOne: behind a header without its footer a whole frame is thrown away.
TakeOneDropsFrame(w) ==
  IF FrameThere(w[1])
  THEN <<ToHeader(SubSeq(w[1], SbusFrameLen + 1, Len(w[1])), 1),
         Append(w[2], <<Len(w[1]), SubSeq(w[1], 1, SbusFrameLen)>>)>>
  ELSE <<ToHeader(w[1], SbusFrameLen + 1), w[2]>>

\* One turn of the loop over the buffer: w is <<buffer, frames taken>>, of which each
\* is noted with how many bytes the buffer held.
TakeOne(w) ==
  IF FrameThere(w[1])
  THEN <<ToHeader(SubSeq(w[1], SbusFrameLen + 1, Len(w[1])), 1),
         Append(w[2], <<Len(w[1]), SubSeq(w[1], 1, SbusFrameLen)>>)>>
  ELSE <<ToHeader(w[1], 2), w[2]>>
TakenFrom(s) ==
  LET loop[v \in 0..2 * SbusFrameLen] ==
        IF v = 0 THEN <<s, <<>>>>
        ELSE LET u == loop[v - 1] IN IF Len(u[1]) >= SbusFrameLen THEN TakeOne(u) ELSE u
  IN loop[2 * SbusFrameLen]

\* What the loop took, with where in swire it begins: end is one past the buffer it
\* began with.
Noted(t, end) == [i \in DOMAIN t |-> [at |-> end - t[i][1], frame |-> t[i][2]]]

\* The bytes that were read from the line.
SbusRead == Len(swire) - Len(sline)

\* handleInput with up to k new bytes. A full buffer is moved on to its next header
\* instead of being read into.
SbusHandleInput ==
  /\ \E k \in 0..Min({Len(sline), 2 * SbusFrameLen - Len(sbuf)}) :
       LET s == IF Len(sbuf) < 2 * SbusFrameLen THEN sbuf \o SubSeq(sline, 1, k)
                ELSE ToHeader(sbuf, 2)
           w == TakenFrom(ToHeader(s, 1))
       IN /\ sline' = SubSeq(sline, k + 1, Len(sline))
          /\ sbuf' = w[1]
          /\ taken' = taken \o Noted(w[2], SbusRead + k + 1)
          /\ sinceGood' = IF w[2] # <<>> THEN 0 ELSE sinceGood
          /\ sconnected' = \/ w[2] # <<>>
                           \/ sconnected /\ sinceGood <= SbusTimeout
  /\ UNCHANGED <<swire, sstarts, sdamaged>>

SbusInit ==
  /\ sline = <<>> /\ sbuf = <<>> /\ swire = <<>> /\ sstarts = <<>> /\ sdamaged = {}
  /\ taken = <<>> /\ sinceGood = 0 /\ sconnected = FALSE
SbusNext == SbusSend \/ SbusTick \/ SbusHandleInput
SbusSpec == SbusInit /\ [][SbusNext]_sbusVars
-----------------------------------------------------------------------------
\* Type correctness: the parse buffer never overflows.
SbusTypeOK ==
  /\ Len(sbuf) <= 2 * SbusFrameLen
  /\ Len(sstarts) \in 0..MaxSbusFrames /\ sdamaged \subseteq DOMAIN sstarts
  /\ sinceGood \in 0..SbusTimeout + 1 /\ sconnected \in BOOLEAN

\* A header in front of a frame, with a footer in its place inside that frame.
SbusStraddled(n) ==
  \E q \in 1..sstarts[n] - 1 : /\ q + SbusFrameLen > sstarts[n] /\ swire[q] = Header
                               /\ swire[q + SbusFrameLen - 1] \in Footers
SbusTakes(n) == \E i \in DOMAIN taken : taken[i].at = sstarts[n]

\* Without a checksum the header and the footer are what holds the parser to the
\* frames. It never leaves them by itself: a good frame that was read to its end is
\* taken, unless the one before was damaged or passed over and something across its
\* beginning looks like a frame. What is taken came over the line, in order, no byte
\* in two frames.
SbusResyncs ==
  /\ \A n \in DOMAIN sstarts \ sdamaged : sstarts[n] + SbusFrameLen - 1 <= SbusRead =>
       SbusTakes(n) \/ (n > 1 /\ (n - 1 \in sdamaged \/ ~SbusTakes(n - 1)) /\ SbusStraddled(n))
  /\ \A i \in DOMAIN taken :
       /\ taken[i].frame = SubSeq(swire, taken[i].at, taken[i].at + SbusFrameLen - 1)
       /\ i > 1 => taken[i - 1].at + SbusFrameLen <= taken[i].at
=============================================================================
