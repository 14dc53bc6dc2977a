-------------------------------- MODULE Fhss --------------------------------
(***************************************************************************)
(* The hop sequence (FHSS.c): blocks of all the channels, the sync channel *)
(* first, the others shuffled by swaps with entries a generator seeded     *)
(* with the UID picks. Built in setup, and by the receiver again when it   *)
(* leaves binding with another UID. Entry i of the array is written        *)
(* <<i \div FreqCount, i % FreqCount>>; the generator gives any number.    *)
(***************************************************************************)
EXTENDS Naturals

CONSTANTS
  FreqCount,    \* freq_count of the domain, 40
  SequenceLen,  \* FHSS_SEQUENCE_LEN
  TemplateLen   \* ELRS_TLM_TEMPLATE_LEN, the slots that have an entry

\* One channel less and the sync channel would not be one; the slots have their
\* entries in the blocks that are built.
ASSUME FhssAssumption ==
  /\ FreqCount \in Nat /\ FreqCount >= 3
  /\ SequenceLen \in Nat /\ SequenceLen >= FreqCount
  /\ TemplateLen \in 1..FreqCount * (SequenceLen \div FreqCount)

VARIABLES
  hops,     \* FHSSsequence
  cursor    \* i of the second loop, or behind the last entry

fhssVars == <<hops, cursor>>

Hops == 0..FreqCount - 1   \* the channels, and the places in a block
Blocks == 0..(SequenceLen \div FreqCount) - 1   \* primaryBandCount is that many blocks
SyncChannel == FreqCount \div 2 + 1
EntryOf(i) == <<i \div FreqCount, i % FreqCount>>
-----------------------------------------------------------------------------
\* The first loop: the channels in their order, 0 where the sync channel would be.
Filled ==
  [e \in Blocks \X Hops |->
     IF e[2] = 0 THEN SyncChannel ELSE IF e[2] = SyncChannel THEN 0 ELSE e[2]]

Building == cursor[1] \in Blocks

\* Mutant of Partners: rngN without the 1 that keeps off the sync channel.
PartnersFromFirst == 0..FreqCount - 2

\* rngN(freqCount - 1) + 1
Partners == 1..FreqCount - 1

Advance == cursor' = IF cursor[2] + 1 \in Hops THEN <<cursor[1], cursor[2] + 1>> ELSE <<cursor[1] + 1, 0>>

\* A pass of the second loop at the sync channel, and at another entry.
PassSync == Building /\ cursor[2] = 0 /\ Advance /\ UNCHANGED hops

Swap ==
  /\ Building /\ cursor[2] # 0
  /\ \E p \in Partners :
       hops' = [hops EXCEPT ![cursor] = hops[<<cursor[1], p>>], ![<<cursor[1], p>>] = hops[cursor]]
  /\ Advance

\* FHSSrandomiseFHSSsequence once more.
Rebuild == ~Building /\ hops' = Filled /\ cursor' = <<0, 0>>

FhssInit == hops = Filled /\ cursor = <<0, 0>>
FhssNext == PassSync \/ Swap \/ Rebuild
FhssSpec == FhssInit /\ [][FhssNext]_fhssVars
-----------------------------------------------------------------------------
\* The variables hold values of their types.
FhssTypeOK ==
  /\ hops \in [Blocks \X Hops -> Hops]
  /\ cursor \in (Blocks \X Hops) \cup {<<SequenceLen \div FreqCount, 0>>}

\* The requirements of FHSS.c:50: the sync channel at the start of every block and
\* nowhere else, and every channel once in a block.
HopsEvenly ==
  \A b \in Blocks, p, q \in Hops :
    /\ hops[<<b, p>>] = SyncChannel <=> p = 0
    /\ hops[<<b, p>>] = hops[<<b, q>>] => p = q

\* No channel twice in a row, from block to block either.
NeverTwiceInRow ==
  \A b, c \in Blocks, p \in Hops :
    hops[<<b, p>>] # hops[IF p + 1 \in Hops THEN <<b, p + 1>> ELSE <<c, 0>>]

\* FHSSgetFreq: the channel of a slot; the last slot's is not that of the first.
SlotChannel(slot) == hops[EntryOf(slot % TemplateLen)]
FrameWraps == (TemplateLen - 1) % FreqCount # 0 => SlotChannel(TemplateLen - 1) # SlotChannel(TemplateLen)

\* The sequence is a fair hopping one at every step of its shuffling.
HopsRight == HopsEvenly /\ NeverTwiceInRow /\ FrameWraps
=============================================================================
