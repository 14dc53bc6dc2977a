---------------------------- MODULE CrsfHandset ----------------------------
(***************************************************************************)
(* The transmitter's CRSF handset (CRSFHandset.c): the parser that finds   *)
(* frames in the bytes of a serial line that loses and damages them, what  *)
(* each frame makes the transmitter do, and the output FIFO that sends     *)
(* answers and telemetry back in pieces.                                   *)
(*                                                                         *)
(* Frames are those of CrsfFrame; a byte of an answer is the answer's      *)
(* number. The ring in between is UartRing.                                *)
(***************************************************************************)
EXTENDS CrsfFrame, FiniteSetsExt

CONSTANTS
  MaxPacketLen,    \* CRSF_MAX_PACKET_LEN
  PeriodBytes,     \* bytes written in one period
  AnswerLen,       \* bytes of an answer
  OutSize,         \* bytes of SerialOutFIFO
  HandsetKinds,    \* the kinds of frames the handset sends
  MaxHandsetFrames, MaxDamages, MaxAnswers   \* bounds

Rc == 1          \* CRSF_FRAMETYPE_RC_CHANNELS_PACKED
Ping == 6        \* CRSF_FRAMETYPE_DEVICE_PING, broadcast; with Sync = 6 its byte, like its
                 \* addresses, looks like a start byte
Command == 3     \* binding, model select, parameter: for the transmitter itself
Msp == 4         \* an extended frame to the flight controller

ASSUME HandsetAssumption == /\ HandsetKinds \subseteq {Rc, Ping, Command, Msp}
                            /\ MaxPacketLen \in Nat /\ MaxPacketLen >= FrameLen
                            /\ AnswerLen \in Nat \ {0} /\ PeriodBytes \in Nat \ {0}
                            /\ OutSize \in Nat /\ OutSize > AnswerLen
                            /\ MaxHandsetFrames \in Nat /\ MaxAnswers \in Nat
                            /\ MaxHandsetFrames < ByteValues

VARIABLES
  hline,     \* bytes that have arrived and are not read yet
  hbuf,      \* inBuffer up to SerialInPacketPtr
  hwire,     \* history: all the bytes that ever arrived
  hstarts,   \* history: where in hwire each frame begins
  hsent,     \* the kinds of the frames the handset has sent
  damaged,   \* history: the numbers of those a byte of which was damaged or lost
  handled,   \* history: frames handled, with what was done
  pingsOn,   \* ForwardDevicePings
  connected,
  hout,      \* SerialOutFIFO: the packets in it
  htail,     \* what is left of the packet being written (packageLengthRemaining)
  written,   \* history: the bytes written to the handset
  answers

inVars == <<hline, hbuf, hwire, hstarts, hsent, damaged, handled, pingsOn, connected>>
outVars == <<hout, htail, written, answers>>
handsetVars == <<inVars, outVars>>
-----------------------------------------------------------------------------
(* The serial line, from the handset *)
SendFrame ==
  /\ Len(hsent) < MaxHandsetFrames
  /\ Len(hline) < 2 * FrameLen
  /\ \E k \in HandsetKinds :
       LET n == Len(hsent) + 1
           f == FrameOf(k, n)
       IN /\ hsent' = Append(hsent, k) /\ hstarts' = Append(hstarts, Len(hwire) + 1)
          /\ \/ hline' = hline \o f /\ hwire' = hwire \o f /\ UNCHANGED damaged
             \/ /\ Cardinality(damaged) < MaxDamages
                /\ damaged' = damaged \cup {n}
                /\ \E g \in DamagedFrames(f) : hline' = hline \o g /\ hwire' = hwire \o g
  /\ UNCHANGED <<hbuf, handled, pingsOn, connected, outVars>>

\* The link to the receiver comes up or is lost.
LinkChange == pingsOn' = ~pingsOn /\ UNCHANGED <<hline, hbuf, hwire, hstarts, hsent, damaged, handled, connected, outVars>>
-----------------------------------------------------------------------------
(* Output *)
OutBytes(q) == AnswerLen * Len(q) + Len(q)

\* ensure, then push: the oldest packets make room.
Queued(q, n) ==
  LET room(i) == OutBytes(SubSeq(q, i + 1, Len(q))) + AnswerLen + 1 <= OutSize
  IN Append(SubSeq(q, Min({i \in 0..Len(q) : room(i)}) + 1, Len(q)), n)

\* handleOutput's loop: packets are taken out whole and written in pieces of what
\* the period has left. w is <<FIFO, tail, written, bytes left>>.
Piece(w) ==
  LET new == w[2] = <<>>
      packet == IF ~new THEN w[2] ELSE IF w[1] = <<>> THEN <<>>
                ELSE [i \in 1..AnswerLen |-> Head(w[1])]
      n == IF Len(packet) < w[4] THEN Len(packet) ELSE w[4]
  IN <<IF new /\ w[1] # <<>> THEN Tail(w[1]) ELSE w[1], SubSeq(packet, n + 1, Len(packet)),
       w[3] \o SubSeq(packet, 1, n), w[4] - n>>
Written(w) ==
  LET loop[v \in 0..OutSize] ==
        IF v = 0 THEN Piece(w)
        ELSE LET u == loop[v - 1] IN IF u[4] # 0 /\ u[1] # <<>> THEN Piece(u) ELSE u
  IN loop[OutSize]

\* Mutant of HandleOutput: what is left of a packet is forgotten.
HandleOutputForgets(q, there) ==
  IF ~there THEN hout' = <<>> /\ UNCHANGED <<htail, written>>
  ELSE LET w == Written(<<q, <<>>, written, PeriodBytes>>)
       IN hout' = w[1] /\ htail' = w[2] /\ written' = w[3]

\* handleOutput: the FIFO is flushed with no handset there.
HandleOutput(q, there) ==
  IF ~there THEN hout' = <<>> /\ UNCHANGED <<htail, written>>
  ELSE LET w == Written(<<q, htail, written, PeriodBytes>>)
       IN hout' = w[1] /\ htail' = w[2] /\ written' = w[3]

\* sendTelemetryToTX: link statistics are left out when anything waits.
SendTelemetryToTX ==
  /\ connected /\ answers < MaxAnswers
  /\ answers' = answers + 1
  /\ hout' \in {Queued(hout, answers')} \cup (IF hout = <<>> THEN {} ELSE {hout})
  /\ UNCHANGED <<inVars, htail, written>>
-----------------------------------------------------------------------------
(* Input *)

\* alignBufferToSync: from the first start byte at i or later, or nothing.
AlignedFrom(s, i) ==
  LET starts == {j \in i..Len(s) : s[j] = Sync}
  IN IF starts = {} THEN <<>> ELSE SubSeq(s, Min(starts), Len(s))

TotalLen(s) == s[2] + 2
\* Mutant of BadLength: what is longer than the buffer is waited for.
BadLengthShortOnly(s) == TotalLen(s) < 4

BadLength(s) == TotalLen(s) < 4 \/ TotalLen(s) > MaxPacketLen
CrcGood(s) == s[TotalLen(s)] = Crc(SubSeq(s, 3, TotalLen(s) - 1))

\* ProcessInternalCrsfPackage and the forwarding before it.
Does(k) == [channels |-> k = Rc, forward |-> k = Msp \/ (k = Ping /\ pingsOn),
            reply |-> k = Ping, command |-> k = Command]

\* ProcessPacket of a good frame; an answer to a ping is queued, and the output runs.
ProcessPacket(s) ==
  LET k == s[3]
      reply == Does(k).reply /\ answers < MaxAnswers
  IN /\ handled' = Append(handled, [n |-> s[4], kind |-> k, does |-> Does(k)])
     /\ connected' = TRUE
     /\ answers' = IF reply THEN answers + 1 ELSE answers
     /\ HandleOutput(IF reply THEN Queued(hout, answers + 1) ELSE hout, TRUE)

\* Mutant of Skipped: the whole buffer is emptied after a frame.
SkippedAll(s) == <<>>

Skipped(s) == SubSeq(s, TotalLen(s) + 1, Len(s))

\* handleInput with k new bytes: at most one frame is taken.
Parse(s, k) ==
  IF Len(s) < 3
  THEN /\ hbuf' = s
       /\ IF s = <<>> /\ k = 0 THEN HandleOutput(hout, connected)
          ELSE UNCHANGED <<hout, htail, written>>
       /\ UNCHANGED <<handled, connected, answers>>
  ELSE IF BadLength(s)
  THEN hbuf' = AlignedFrom(s, 2) /\ UNCHANGED <<handled, connected, outVars>>
  ELSE IF Len(s) < TotalLen(s)
  THEN hbuf' = s /\ UNCHANGED <<handled, connected, outVars>>
  ELSE /\ hbuf' = Skipped(s)
       /\ IF CrcGood(s) THEN ProcessPacket(s)
          ELSE UNCHANGED <<handled, connected, outVars>>

HandleInput ==
  /\ \E k \in 0..Min({Len(hline), MaxPacketLen - Len(hbuf)}) :
       /\ hline' = SubSeq(hline, k + 1, Len(hline))
       /\ Parse(AlignedFrom(hbuf \o SubSeq(hline, 1, k), 1), k)
  /\ UNCHANGED <<hwire, hstarts, hsent, damaged, pingsOn>>
-----------------------------------------------------------------------------
HandsetInit ==
  /\ hline = <<>> /\ hbuf = <<>> /\ hwire = <<>> /\ hstarts = <<>> /\ hsent = <<>>
  /\ damaged = {} /\ handled = <<>>
  /\ pingsOn = FALSE /\ connected = FALSE
  /\ hout = <<>> /\ htail = <<>> /\ written = <<>> /\ answers = 0
HandsetNext == SendFrame \/ LinkChange \/ SendTelemetryToTX \/ HandleInput
HandsetSpec == HandsetInit /\ [][HandsetNext]_handsetVars
-----------------------------------------------------------------------------
\* Type correctness: the parse buffer never overflows, nor does the FIFO.
HandsetTypeOK ==
  /\ Len(hbuf) <= MaxPacketLen
  /\ hsent \in Seq(HandsetKinds) /\ damaged \subseteq DOMAIN hsent
  /\ pingsOn \in BOOLEAN /\ connected \in BOOLEAN
  /\ OutBytes(hout) <= OutSize /\ Len(htail) < AnswerLen
  /\ answers \in 0..MaxAnswers

\* The bytes read from the line, and those of them the parser is past.
HandsetRead == Len(hwire) - Len(hline)
HandsetPast == HandsetRead - Len(hbuf)

\* A start byte in front of a frame, with a length behind it that reaches into the frame.
Straddled(n) ==
  \E q \in 1..hstarts[n] - 1 : /\ hwire[q] = Sync /\ hwire[q + 1] + 2 \in 4..MaxPacketLen
                               /\ q + hwire[q + 1] + 2 > hstarts[n]
Handles(n) == \E i \in DOMAIN handled : handled[i].n = n

\* The parser never leaves the frames by itself, and finds them again: it never sits
\* on a full buffer, so that it passes every byte by the time it has read what the
\* longest packet has from there on, and a good frame is handled when the parser is
\* past its beginning, unless the frame before was damaged or passed over and a false
\* length reaches into it. What is handled was sent, with its kind, in order, each
\* frame once.
HandsetResyncs ==
  /\ Len(hbuf) < MaxPacketLen
  /\ \A n \in DOMAIN hsent \ damaged : hstarts[n] <= HandsetPast =>
       Handles(n) \/ (n > 1 /\ (n - 1 \in damaged \/ ~Handles(n - 1)) /\ Straddled(n))
  /\ \A i \in DOMAIN handled :
       /\ handled[i].n \in DOMAIN hsent
       /\ handled[i].kind = hsent[handled[i].n]
       /\ i > 1 => handled[i - 1].n < handled[i].n

\* Answers are not torn: an answer too long for one period is finished before the
\* next is begun, although newer ones may push waiting ones out of the FIFO.
AnswersWhole ==
  \A a \in 1..MaxAnswers :
    LET at == {i \in DOMAIN written : written[i] = a}
        owed == IF htail # <<>> /\ Head(htail) = a THEN Len(htail) ELSE 0
    IN at # {} => /\ Cardinality(at) + owed = AnswerLen
                  /\ Max(at) - Min(at) + 1 = Cardinality(at)
=============================================================================
