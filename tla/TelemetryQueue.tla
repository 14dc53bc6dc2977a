--------------------------- MODULE TelemetryQueue ---------------------------
(***************************************************************************)
(* The receiver's queue of CRSF frames (telemetry.c on the byte FIFO of    *)
(* FIFO.h): frames are appended by the serial port, the battery sensor and *)
(* the parameter menu, and given out one at a time to the telemetry link.  *)
(*                                                                         *)
(* An entry is a size byte, with a bit that marks it deleted, and a frame. *)
(* A frame's bytes are its length, its kind (the type and whatever the     *)
(* type's comparator looks at) and its payload, here the number of the     *)
(* frame over and over. Everything runs in the receiver's main loop.       *)
(***************************************************************************)
EXTENDS Integers, Sequences, FiniteSetsExt, SequencesExt

CONSTANTS
  Kinds,        \* frame types, with their source or destination: numbers
  Superseding,  \* those a newer frame of which overwrites a waiting one
  Prioritised,  \* isPrioritised
  Lengths,      \* frame lengths in bytes
  FifoSize,     \* FIFO_SIZE
  MaxFrames     \* bound: frames appended

ASSUME KindAssumption == Kinds \subseteq 0..255 /\ Superseding \subseteq Kinds
                         /\ Prioritised \subseteq Kinds
\* The longest frame fits into the empty FIFO, and a length into seven bits.
ASSUME SizeAssumption == /\ Lengths \subseteq 3..127 /\ FifoSize \in Nat \ {0}
                         /\ \A n \in Lengths : n + 1 < FifoSize
                         /\ MaxFrames \in 0..255

VARIABLES
  fifo,    \* messagePayloads, from head to tail
  count,   \* prioritizedCount, eight bits
  out,     \* the frame last given out
  sent     \* ghost: per kind, the number of the newest frame appended

vars == <<fifo, count, out, sent>>

Max0(S) == Max(S \cup {0})
Serial == Max0({sent[k] : k \in Kinds})

Frame(k, n, v) == <<n, k>> \o [i \in 1..n-2 |-> v]
Frames == {Frame(k, n, v) : k \in Kinds, n \in Lengths, v \in 1..MaxFrames}
KindOf(f) == f[2]
NumberOf(f) == f[3]
-----------------------------------------------------------------------------
Del == 128                       \* SET_DEL
IsDel(b) == b >= Del             \* IS_DEL
Size(b) == b % Del               \* SIZE
Get(b, i) == b[i + 1]            \* get: positions count from 0

\* The positions of the entries of b: those the loops come to, from one to the next.
After(b, p) == p + 1 + Size(Get(b, p))
Starts(b) ==
  LET from[p \in Nat] == IF p >= Len(b) THEN {} ELSE {p} \cup from[After(b, p)] IN from[0]

\* The live entries of b whose kind is in T. The loops take the first.
Live(b, T) == {p \in Starts(b) : ~IsDel(Get(b, p)) /\ Get(b, p + 2) \in T}
FrameAt(b, p) == SubSeq(b, p + 2, p + 1 + Get(b, p + 1))

MarkDeleted(b, p) == ReplaceAt(b, p + 1, Del + Size(Get(b, p)))
Overwritten(b, p, f) ==
  [i \in 1..Len(b) |-> IF i \in p+2..p+1+Len(f) THEN f[i - p - 1] ELSE b[i]]

\* Mutant of Available: the size byte is forgotten.
AvailableForFrame(b, f) == Len(b) + Len(f) < FifoSize

\* available, for the frame and its size byte.
Available(b, f) == Len(b) + Len(f) + 1 < FifoSize

\* The oldest entries, deleted or not, are skipped until the frame fits.
MadeRoom(b, f) ==
  LET from(p) == SubSeq(b, p + 1, Len(b))
  IN from(Min({p \in Starts(b) \cup {Len(b)} : Available(from(p), f)}))
Pushed(b, f) == MadeRoom(b, f) \o <<Len(f)>> \o f

\* Mutant of Superseded: a waiting frame too short for the new one stays.
SupersededStays(p, f) ==
  IF Get(fifo, p) >= Len(f) THEN Overwritten(fifo, p, f) ELSE Pushed(fifo, f)

\* ACTION_OVERWRITE: in the place of the waiting frame, if it has the room.
Superseded(p, f) ==
  IF Get(fifo, p) >= Len(f) THEN Overwritten(fifo, p, f)
  ELSE Pushed(MarkDeleted(fifo, p), f)

AppendTelemetryPackage(f) ==
  LET k == KindOf(f)
      same == IF k \in Superseding THEN Live(fifo, {k}) ELSE {}
  IN /\ fifo' = IF same # {} THEN Superseded(Min(same), f) ELSE Pushed(fifo, f)
     /\ count' = IF k \in Prioritised THEN (count + 1) % 256 ELSE count
     /\ sent' = [sent EXCEPT ![k] = NumberOf(f)]
     /\ UNCHANGED out

\* Mutant of PrioritisedEntries: the counter is not asked.
PrioritisedNever == {}

PrioritisedEntries == IF count = 0 THEN {} ELSE Live(fifo, Prioritised)

\* GetNextPayload: the first prioritised frame, taken out of the middle by
\* marking it deleted.
GetPrioritised ==
  /\ PrioritisedEntries # {}
  /\ LET p == Min(PrioritisedEntries)
     IN /\ out' = FrameAt(fifo, p)
        /\ fifo' = IF p = 0 THEN SubSeq(fifo, After(fifo, 0) + 1, Len(fifo))
                   ELSE MarkDeleted(fifo, p)
        /\ count' = count - 1
  /\ UNCHANGED sent

\* GetNextPayload: the first frame that is not deleted, or none.
GetHead ==
  /\ PrioritisedEntries = {}
  /\ count' = 0
  /\ LET live == Live(fifo, Kinds)
         p == Min(live)
     IN IF live = {} THEN fifo' = <<>> /\ UNCHANGED out
        ELSE /\ out' = FrameAt(fifo, p)
             /\ fifo' = SubSeq(fifo, After(fifo, p) + 1, Len(fifo))
  /\ UNCHANGED sent

AppendSome ==
  /\ Serial < MaxFrames
  /\ \E k \in Kinds, n \in Lengths : AppendTelemetryPackage(Frame(k, n, Serial + 1))

Init == fifo = <<>> /\ count = 0 /\ out = <<>> /\ sent = [k \in Kinds |-> 0]
Next == AppendSome \/ GetPrioritised \/ GetHead
Spec == Init /\ [][Next]_vars
-----------------------------------------------------------------------------
\* Every variable has its type: in particular the FIFO is never filled to the
\* last byte, where push would flush it.
TypeOK ==
  /\ Len(fifo) < FifoSize /\ \A i \in 1..Len(fifo) : fifo[i] \in 0..255
  /\ count \in 0..255
  /\ out \in Frames \cup {<<>>}
  /\ sent \in [Kinds -> 0..MaxFrames]

\* The latest value: a frame of a superseding kind that is given out is the newest
\* of its kind that was appended, however often the queue was overwritten, marked
\* and compacted in between; an older value never follows a newer one.
NewestIsGiven ==
  [][out' # out /\ KindOf(out') \in Superseding => NumberOf(out') = sent[KindOf(out')]]_vars

\* The bytes are a queue of frames: what is given out is a whole frame that was
\* appended, prioritised frames first and otherwise in order, none twice, and none
\* is lost but the oldest when there is no room.
LiveFrames(b) ==
  LET from[p \in Nat] ==
        IF p >= Len(b) THEN <<>>
        ELSE (IF IsDel(Get(b, p)) THEN <<>> ELSE <<FrameAt(b, p)>>) \o from[After(b, p)]
  IN from[0]
Queue == INSTANCE FrameQueue WITH
  live <- LiveFrames(fifo),
  Kind <- KindOf, AllFrames <- Frames
ImplementsQueue == Queue!FrameSpec
=============================================================================
