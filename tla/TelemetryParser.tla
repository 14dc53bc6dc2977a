-------------------------- MODULE TelemetryParser --------------------------
(***************************************************************************)
(* The receiver's CRSF input from the flight controller: telemetry.c's     *)
(* state machine fed a byte at a time by the main loop, which gives up a   *)
(* frame when its next byte takes too long, and what SerialCRSF.c does     *)
(* with a frame that is not passed on to the telemetry queue.              *)
(***************************************************************************)
EXTENDS CrsfFrame, FiniteSetsExt

CONSTANTS
  FcKinds,          \* the kinds of frames the flight controller sends
  MaxTelemetryLen,  \* CRSF_MAX_PACKET_LEN
  FrameTimeout,     \* CRSF_UART_FRAME_TIMEOUT_MS, in ticks
  SerialFifo,       \* bytes of the FIFO of answers
  MaxFcFrames, MaxFcDamages   \* bounds

Sensor == 1       \* battery, barometer: passed on, and noted
Heartbeat == 2    \* dropped
BindCommand == 3  \* "bd", or CRSF's own
ModelMatch == 4   \* "mm"
ReceiverPing == 5 \* CRSF_FRAMETYPE_DEVICE_PING, to the receiver
Bootloader == 6   \* "bl"
Internal == {BindCommand, ModelMatch, ReceiverPing, Bootloader}
InfoLen == 3      \* bytes of an answer to a ping

ASSUME ParserAssumption == /\ FcKinds \subseteq {Sensor, Heartbeat} \cup Internal
                           /\ MaxTelemetryLen \in Nat /\ MaxTelemetryLen >= FrameLen
                           /\ FrameTimeout \in Nat /\ SerialFifo \in Nat
                           /\ MaxFcFrames \in Nat /\ MaxFcFrames < ByteValues

VARIABLES
  fcLine,    \* bytes that have arrived, each with the number of its frame
  tlmState,  \* telemetry_state
  tlmBuf,    \* CRSFinBuffer, up to currentTelemetryByte
  sinceByte, \* time since s_lastTelemetryByteMillis, up to one more than the timeout
  fcSent,    \* the kinds of the frames the flight controller has sent
  fcDamaged, \* history: the numbers of those a byte of which was damaged or lost
  fcTaken,   \* history: the frames taken
  clean,     \* history: those that found the parser idle, or a pause, and had none inside
  fcLast,    \* history: the frame the last byte was of
  sensorSeen,\* crsfBatterySensorDetected, crsfBaroSensorDetected
  rout       \* the answers in SerialIO's FIFO

parserVars == <<fcLine, tlmState, tlmBuf, sinceByte, fcSent, fcDamaged, fcTaken, clean, fcLast,
                sensorSeen, rout>>
-----------------------------------------------------------------------------
FcSend ==
  /\ Len(fcSent) < MaxFcFrames /\ Len(fcLine) < FrameLen
  /\ \E k \in FcKinds :
       LET n == Len(fcSent) + 1
           line(g) == fcLine \o [i \in DOMAIN g |-> <<g[i], n>>]
       IN /\ fcSent' = Append(fcSent, k)
          /\ \/ fcLine' = line(FrameOf(k, n)) /\ UNCHANGED fcDamaged
             \/ /\ Cardinality(fcDamaged) < MaxFcDamages
                /\ fcDamaged' = fcDamaged \cup {n}
                /\ \E g \in DamagedFrames(FrameOf(k, n)) : fcLine' = line(g)
  /\ UNCHANGED <<tlmState, tlmBuf, sinceByte, fcTaken, clean, fcLast, sensorSeen, rout>>

\* Time passes between two bytes: on the line, or because the main loop is busy.
FcTick ==
  /\ sinceByte <= FrameTimeout
  /\ sinceByte' = sinceByte + 1
  /\ UNCHANGED <<fcLine, tlmState, tlmBuf, fcSent, fcDamaged, fcTaken, clean, fcLast, sensorSeen, rout>>
-----------------------------------------------------------------------------
\* Mutant of TimedOut: a frame is never given up.
TimedOutNever == FALSE

TimedOut == tlmState # "idle" /\ sinceByte > FrameTimeout

\* queueMSPFrameTransmission: a packet that does not fit flushes the FIFO.
RoutQueued(p) == IF (Len(rout) + 1) * (InfoLen + 1) > SerialFifo THEN <<>> ELSE Append(rout, p)

\* AppendTelemetryPackage as far as the queue (TelemetryQueue), and processBytes.
TakeFrame(s) ==
  LET k == s[3]
  IN /\ fcTaken' = Append(fcTaken, [n |-> s[4], kind |-> k,
                                    queued |-> k # Heartbeat /\ k \notin Internal])
     /\ sensorSeen' = (sensorSeen \/ k = Sensor)
     /\ rout' = IF k = ReceiverPing THEN RoutQueued(s[4]) ELSE rout

Nothing == UNCHANGED <<fcTaken, sensorSeen, rout>>

\* RXhandleUARTin in state st with the bytes s before b.
Handle(st, s, b) ==
  CASE st = "idle" ->
         /\ tlmState' = IF b = Sync THEN "length" ELSE "idle"
         /\ tlmBuf' = IF b = Sync THEN <<b>> ELSE <<>>
         /\ Nothing
    [] st = "length" ->
         LET bad == b < 2 \/ b > MaxTelemetryLen - 2
         IN /\ tlmState' = IF bad THEN "idle" ELSE "data"
            /\ tlmBuf' = IF bad THEN <<>> ELSE Append(s, b)
            /\ Nothing
    [] st = "data" ->
         LET t == Append(s, b)
             over == Len(t) = t[2] + 2
         IN /\ tlmState' = IF over THEN "idle" ELSE "data"
            /\ tlmBuf' = IF over THEN <<>> ELSE t
            /\ IF over /\ b = Crc(SubSeq(t, 3, Len(t) - 1)) THEN TakeFrame(t) ELSE Nothing

\* A byte of processSerialInput.
HandleUARTin ==
  /\ fcLine # <<>>
  /\ LET b == Head(fcLine)[1]
         n == Head(fcLine)[2]
     IN /\ IF TimedOut THEN Handle("idle", <<>>, b) ELSE Handle(tlmState, tlmBuf, b)
        /\ fcLast' = n
        /\ clean' = IF n # fcLast
                    THEN IF tlmState = "idle" \/ sinceByte > FrameTimeout THEN clean \cup {n} ELSE clean
                    ELSE IF sinceByte > FrameTimeout THEN clean \ {n} ELSE clean
  /\ sinceByte' = 0
  /\ fcLine' = Tail(fcLine)
  /\ UNCHANGED <<fcSent, fcDamaged>>

\* sendQueuedData.
SendQueuedData ==
  /\ rout # <<>>
  /\ \E k \in 1..Len(rout) : rout' = SubSeq(rout, k + 1, Len(rout))
  /\ UNCHANGED <<fcLine, tlmState, tlmBuf, sinceByte, fcSent, fcDamaged, fcTaken, clean, fcLast, sensorSeen>>

\* Telemetry_Init and ResetState.
ParserInit ==
  /\ fcLine = <<>> /\ tlmState = "idle" /\ tlmBuf = <<>> /\ sinceByte = 0
  /\ fcSent = <<>> /\ fcDamaged = {} /\ fcTaken = <<>> /\ clean = {} /\ fcLast = 0
  /\ sensorSeen = FALSE /\ rout = <<>>
ParserNext == FcSend \/ FcTick \/ HandleUARTin \/ SendQueuedData
ParserSpec == ParserInit /\ [][ParserNext]_parserVars
-----------------------------------------------------------------------------
\* The variables hold values of their types; the buffer does not overflow.
ParserTypeOK ==
  /\ tlmState \in {"idle", "length", "data"} /\ Len(tlmBuf) < MaxTelemetryLen
  /\ sinceByte \in 0..FrameTimeout + 1
  /\ fcDamaged \subseteq DOMAIN fcSent /\ clean \subseteq DOMAIN fcSent
  /\ Len(rout) * (InfoLen + 1) <= SerialFifo

\* Whatever the line did before, a frame that comes whole to an idle parser or after
\* a pause is taken; what is taken was sent, with its kind, in order, each frame once.
Over(n) == fcLast > n \/ (fcLast = n /\ \A i \in DOMAIN fcLine : fcLine[i][2] # n)
ParserResyncs ==
  /\ \A n \in clean \ fcDamaged : Over(n) => \E i \in DOMAIN fcTaken : fcTaken[i].n = n
  /\ \A i \in DOMAIN fcTaken :
       /\ fcTaken[i].n \in DOMAIN fcSent
       /\ fcTaken[i].kind = fcSent[fcTaken[i].n]
       /\ i > 1 => fcTaken[i - 1].n < fcTaken[i].n
=============================================================================
