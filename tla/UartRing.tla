------------------------------ MODULE UartRing ------------------------------
(***************************************************************************)
(* The ring between the UART receive interrupt and the main loop: the same *)
(* code in the receiver's serial port and in the two handset parsers. One  *)
(* slot stays free. When the ring is full the interrupt throws the oldest  *)
(* byte away, by moving the index the main loop reads from; it preempts    *)
(* the main loop between any two of its accesses.                          *)
(*                                                                         *)
(* The n-th byte to arrive is the number n.                                *)
(***************************************************************************)
EXTENDS Integers, Sequences

CONSTANTS
  RingSize,      \* CRSF_RX_BUF_SIZE, defaultMaxSerialWriteSize, SBUS_RX_BUF_SIZE
  MaxRead,       \* bytes asked for by one read
  MaxUartBytes, MaxRingResets   \* bounds

ASSUME RingAssumption == /\ RingSize \in Nat /\ RingSize > 1 /\ MaxRead \in Nat \ {0}
                         /\ MaxUartBytes \in Nat /\ MaxRingResets \in Nat

VARIABLES
  rxWr, rxRd, rxData,   \* s_rx_wr, s_rx_rd, sRxDataBuf
  reader,       \* where the main loop is, with its local variables
  delivered,    \* what it has handed to the parser
  kept,         \* history: the bytes that have arrived and not been thrown away
  uartBytes, ringResets,
  raced         \* history: the interrupt moved an index the main loop was using

ringVars == <<rxWr, rxRd, rxData, reader, delivered, kept, uartBytes, ringResets, raced>>
ring == <<rxWr, rxRd, rxData>>

Idle == [at |-> "idle", rd |-> 0, n |-> 0, copied |-> <<>>]
Stored(rd, wr) == IF wr >= rd THEN wr - rd ELSE RingSize - rd + wr
-----------------------------------------------------------------------------
(* The interrupt: one byte *)
Full == (rxWr + 1) % RingSize = rxRd

\* The oldest byte of the ring is the first kept one that is not delivered yet.
WithoutOldest == [i \in 1..Len(kept) - 1 |->
                    IF i <= Len(delivered) THEN kept[i] ELSE kept[i + 1]]

UartByte ==
  /\ uartBytes < MaxUartBytes
  /\ uartBytes' = uartBytes + 1
  /\ rxData' = [rxData EXCEPT ![rxWr] = uartBytes']
  /\ rxWr' = (rxWr + 1) % RingSize
  /\ rxRd' = IF Full THEN (rxRd + 1) % RingSize ELSE rxRd
  /\ raced' = (raced \/ reader.at = "resetWr" \/ (Full /\ reader.at # "idle"))
  /\ kept' = Append(IF Full THEN WithoutOldest ELSE kept, uartBytes')
  /\ UNCHANGED <<reader, delivered, ringResets>>
-----------------------------------------------------------------------------
(* The main loop: readBytes of up to MaxRead bytes; with none there it does
   nothing *)
LoadRd ==
  /\ reader.at = "idle"
  /\ rxRd # rxWr
  /\ reader' = [Idle EXCEPT !.at = "wr", !.rd = rxRd]
  /\ UNCHANGED <<ring, delivered, kept, uartBytes, ringResets, raced>>

LoadWr ==
  /\ reader.at = "wr"
  /\ LET available == Stored(reader.rd, rxWr)
     IN reader' = [reader EXCEPT !.at = "copy",
                                 !.n = IF MaxRead < available THEN MaxRead ELSE available]
  /\ UNCHANGED <<ring, delivered, kept, uartBytes, ringResets, raced>>

\* The two copies, up to the end of the ring and on from its start.
CopyByte ==
  /\ reader.at = "copy"
  /\ Len(reader.copied) < reader.n
  /\ reader' = [reader EXCEPT
       !.copied = Append(@, rxData[(reader.rd + Len(reader.copied)) % RingSize])]
  /\ UNCHANGED <<ring, delivered, kept, uartBytes, ringResets, raced>>

\* Mutant of NewRd: an index one past the end of the ring.
NewRdPastEnd == LET rd == reader.rd + reader.n
                IN IF rd > RingSize THEN rd - RingSize ELSE rd

NewRd == LET rd == reader.rd + reader.n IN IF rd >= RingSize THEN rd - RingSize ELSE rd

\* The index is stored as computed, unless nothing was read: what the interrupt
\* did to it meanwhile is undone. The bytes go to the parser.
StoreRd ==
  /\ reader.at = "copy"
  /\ Len(reader.copied) = reader.n
  /\ rxRd' = IF reader.n = 0 THEN rxRd ELSE NewRd
  /\ delivered' = delivered \o reader.copied
  /\ reader' = Idle
  /\ UNCHANGED <<rxWr, rxData, kept, uartBytes, ringResets, raced>>

\* CRSFHandset_UartInBufRst, when the radio starts: the bytes, then the two
\* indices. What was in the ring is gone.
ResetRd ==
  /\ reader.at = "idle" /\ ringResets < MaxRingResets
  /\ ringResets' = ringResets + 1
  /\ rxData' = [i \in 0..RingSize - 1 |-> 0]
  /\ rxRd' = 0
  /\ reader' = [Idle EXCEPT !.at = "resetWr"]
  /\ kept' = delivered
  /\ UNCHANGED <<rxWr, delivered, uartBytes, raced>>

ResetWr ==
  /\ reader.at = "resetWr"
  /\ rxWr' = 0
  /\ reader' = Idle
  /\ UNCHANGED <<rxRd, rxData, delivered, kept, uartBytes, ringResets, raced>>
-----------------------------------------------------------------------------
\* The ring has been used: its indices are anywhere.
RingInit ==
  /\ rxWr \in 0..RingSize - 1 /\ rxRd = rxWr
  /\ rxData = [i \in 0..RingSize - 1 |-> 0]
  /\ reader = Idle
  /\ delivered = <<>> /\ kept = <<>>
  /\ uartBytes = 0 /\ ringResets = 0
  /\ raced = FALSE
RingNext == UartByte \/ LoadRd \/ LoadWr \/ CopyByte \/ StoreRd \/ ResetRd \/ ResetWr
RingSpec == RingInit /\ [][RingNext]_ringVars
-----------------------------------------------------------------------------
\* Type correctness; the indices stay inside the ring even after a race.
RingTypeOK ==
  /\ rxWr \in 0..RingSize - 1 /\ rxRd \in 0..RingSize - 1
  /\ rxData \in [0..RingSize - 1 -> 0..MaxUartBytes]
  /\ reader.at \in {"idle", "wr", "copy", "resetWr"}
  /\ reader.rd \in 0..RingSize - 1 /\ reader.n \in 0..MaxRead
  /\ delivered \in Seq(0..MaxUartBytes)
  /\ raced \in BOOLEAN

\* The ring without a lock: as long as it does not overflow while the main loop is
\* reading it, what has been handed out and what waits are exactly the bytes that
\* were not thrown away, in their order, none twice, wherever the indices wrap.
InRing == [i \in 1..Stored(rxRd, rxWr) |-> rxData[(rxRd + i - 1) % RingSize]]
RingKeepsOrder ==
  ~raced /\ reader.at # "resetWr" => delivered \o InRing = kept
=============================================================================
