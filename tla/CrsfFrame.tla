------------------------------ MODULE CrsfFrame ------------------------------
(***************************************************************************)
(* A CRSF frame on a serial line that loses and damages bytes, for the two *)
(* parsers, CrsfHandset and TelemetryParser. A frame is its start byte,    *)
(* length, kind (type and addresses), number and CRC. The CRC is a sum     *)
(* without collisions, a byte of its own: that of eight bits takes one     *)
(* damaged frame in 256 for a good one.                                    *)
(***************************************************************************)
EXTENDS Integers, Sequences, SequencesExt

CONSTANTS
  ByteValues,  \* a byte that is not a CRC is less than this
  Sync,        \* the start byte: CRSF_SYNC_BYTE, CRSF_ADDRESS_CRSF_TRANSMITTER
  Junk         \* what a damaged byte becomes

ASSUME LineAssumption == /\ ByteValues \in Nat /\ ByteValues >= 8
                         /\ Sync \in 0..ByteValues - 1 \ {3}
                         /\ Junk \subseteq 0..ByteValues - 1

FrameLen == 5
Crc(s) ==
  LET sum[i \in 0..Len(s)] == IF i = 0 THEN 16 ELSE ByteValues * sum[i - 1] + s[i] IN sum[Len(s)]
FrameOf(k, n) == <<Sync, 3, k, n, Crc(<<k, n>>)>>

\* A frame with a byte lost or damaged.
DamagedFrames(f) ==
  ({RemoveAt(f, i) : i \in DOMAIN f} \cup {ReplaceAt(f, i, b) : i \in DOMAIN f, b \in Junk}) \ {f}
=============================================================================
