---------------------------- MODULE AirportFifo ----------------------------
(***************************************************************************)
(* AirPort's UART-to-RF FIFO: a ring written by the UART receive interrupt *)
(* and read, and reset, by the main loop, without a lock (airport.c). The  *)
(* two counters run freely modulo 2^16. The interrupt preempts the main    *)
(* loop between any two of its accesses and runs to completion.            *)
(*                                                                         *)
(* The n-th byte to arrive is the number n. overflowCount, which nothing   *)
(* reads, is left out. The other FIFO, RF to UART, has both ends in the    *)
(* main loop: it behaves as this one does without interruptions.           *)
(***************************************************************************)
EXTENDS Integers, Sequences

CONSTANTS
  CounterMod,  \* 2^16, the range of the counters
  Capacity,    \* AIRPORT_FIFO_CAPACITY
  MaxPayload,  \* AIRPORT_OTA_MAX_PAYLOAD
  MaxBytes,    \* bound: bytes that arrive
  MaxResets    \* bound: resets

ASSUME CounterAssumption == /\ Capacity \in Nat \ {0} /\ CounterMod \in Nat
                            /\ CounterMod > Capacity
                            /\ CounterMod % Capacity = 0
ASSUME BoundAssumption == /\ MaxPayload \in Nat \ {0}
                          /\ MaxBytes \in Nat /\ MaxResets \in Nat

VARIABLES
  head, tail,  \* the counters
  data,        \* the ring
  pc,          \* where the main loop is
  count,       \* OtaPackAirportData: bytes the packet announces
  payload,     \* the bytes popped into it so far
  sent,        \* the bytes handed to the radio so far
  arrived, resets

mainVars == <<tail, pc, count, payload, sent, resets>>
vars == <<head, tail, data, pc, count, payload, sent, arrived, resets>>

Counters == 0..(CounterMod - 1)
Slot(c) == c % Capacity

\* Mutant of Size: the difference is not taken modulo 2^16.
SizeUnwrapped(h, t) == h - t

\* AirportFifo_Size: the difference of the counters as a uint16_t.
Size(h, t) == (h - t) % CounterMod
-----------------------------------------------------------------------------
(* The interrupt: AirportFifo_PushBytes of one byte *)

\* Mutant of HasRoom: one byte too many.
HasRoomForOneMore == Size(head, tail) <= Capacity
HasRoom == Size(head, tail) < Capacity

UartByte ==
  /\ arrived < MaxBytes
  /\ arrived' = arrived + 1
  /\ IF HasRoom
     THEN /\ data' = [data EXCEPT ![Slot(head)] = arrived']
          /\ head' = (head + 1) % CounterMod
     ELSE UNCHANGED <<head, data>>
  /\ UNCHANGED mainVars
-----------------------------------------------------------------------------
(* The main loop *)

\* OtaPackAirportData: the packet announces what is there now, at most
\* MaxPayload. With nothing there no packet is built (rx_main.c).
StartPacket ==
  /\ pc = "idle"
  /\ Size(head, tail) > 0
  /\ count' = IF Size(head, tail) > MaxPayload THEN MaxPayload ELSE Size(head, tail)
  /\ pc' = "pop"
  /\ UNCHANGED <<head, tail, data, payload, sent, arrived, resets>>

\* AirportFifo_PopBytes, one turn of its loop: read the byte, then give its
\* slot back.
PopByte ==
  /\ pc = "pop"
  /\ Len(payload) < count
  /\ tail # head
  /\ payload' = Append(payload, data[Slot(tail)])
  /\ pc' = "release"
  /\ UNCHANGED <<head, tail, data, count, sent, arrived, resets>>

\* Mutant of ReleaseSlot: the counter does not come round to zero.
ReleaseSlotUnwrapped ==
  /\ pc = "release"
  /\ tail' = tail + 1
  /\ pc' = "pop"
  /\ UNCHANGED <<head, data, count, payload, sent, arrived, resets>>

ReleaseSlot ==
  /\ pc = "release"
  /\ tail' = (tail + 1) % CounterMod
  /\ pc' = "pop"
  /\ UNCHANGED <<head, data, count, payload, sent, arrived, resets>>

\* The loop ends at the announced count, or early with the FIFO empty; the
\* packet is sent with the count it announced either way.
SendPacket ==
  /\ pc = "pop"
  /\ Len(payload) = count \/ tail = head
  /\ sent' = sent \o payload
  /\ payload' = <<>>
  /\ pc' = "idle"
  /\ UNCHANGED <<head, tail, data, count, arrived, resets>>

\* AirportFifo_Reset: head first, then tail. Called from LostConnection and
\* when the link comes up, with the interrupt enabled.
ResetHead ==
  /\ pc = "idle"
  /\ resets < MaxResets
  /\ resets' = resets + 1
  /\ head' = 0
  /\ pc' = "resetTail"
  /\ UNCHANGED <<tail, data, count, payload, sent, arrived>>

ResetTail ==
  /\ pc = "resetTail"
  /\ tail' = 0
  /\ pc' = "idle"
  /\ UNCHANGED <<head, data, count, payload, sent, arrived, resets>>
-----------------------------------------------------------------------------
\* The two counters have run for any number of laps since the last reset.
Init ==
  /\ head \in Counters
  /\ tail = head
  /\ data = [s \in 0..(Capacity - 1) |-> 0]
  /\ pc = "idle"
  /\ count = 0
  /\ payload = <<>>
  /\ sent = <<>>
  /\ arrived = 0
  /\ resets = 0

Main == StartPacket \/ PopByte \/ ReleaseSlot \/ SendPacket \/ ResetTail
Next == UartByte \/ Main \/ ResetHead

Spec == Init /\ [][Next]_vars

\* The main loop keeps running and, on a link that stays up, keeps sending.
FairSpec == Spec /\ WF_vars(Main)
-----------------------------------------------------------------------------
(* Properties *)

\* Type correctness; with it, that both counters stay in their range.
TypeOK ==
  /\ head \in Counters /\ tail \in Counters
  /\ data \in [0..(Capacity - 1) -> Nat]
  /\ pc \in {"idle", "pop", "release", "resetTail"}
  /\ count \in 0..MaxPayload
  /\ payload \in Seq(Nat) /\ sent \in Seq(Nat)
  /\ arrived \in 0..MaxBytes
  /\ resets \in 0..MaxResets

\* OtaPackAirportData ignores how many bytes AirportFifo_PopBytes returned: a
\* packet never announces a byte it does not carry, whatever the interrupt did
\* between the size being read and the last byte being popped.
CountIsCarried ==
  [][SendPacket => Len(payload) = count]_vars

\* The bytes inside, oldest first. Between the two stores of a reset they are
\* what has come in since the first.
Oldest == IF pc = "resetTail" THEN 0 ELSE tail
InRing == LET n == Size(head, Oldest) IN
          [i \in 1..n |-> data[Slot(Oldest + i - 1)]]

\* The bytes that have left: a popped byte leaves when its slot is released.
Left == sent \o (IF pc = "release" THEN SubSeq(payload, 1, Len(payload) - 1) ELSE payload)

\* The lock-free ring implements the bounded queue: whatever the interleaving
\* of the interrupt with the pops and the resets, and wherever the counters
\* wrap, no byte is overwritten, repeated, reordered, or refused with room left.
Queue == INSTANCE ByteQueue WITH queue <- InRing, out <- Left,
                                 emptying <- (pc = "resetTail")
ImplementsQueue == Queue!Spec

\* What has arrived does not stay in the FIFO for ever.
BytesLeave == <>[](head = tail /\ pc = "idle")
=============================================================================
