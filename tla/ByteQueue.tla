----------------------------- MODULE ByteQueue -----------------------------
(***************************************************************************)
(* What AirPort's UART FIFO promises: a bounded queue of bytes. A byte is  *)
(* refused only when the queue is full or is being emptied; bytes leave in *)
(* order, each once; and emptying the queue leaves nothing older than the  *)
(* moment it began.                                                        *)
(***************************************************************************)
EXTENDS Integers, Sequences

CONSTANT Capacity

VARIABLES
  arrived,   \* bytes that have arrived; the n-th is the number n
  queue,     \* the bytes inside
  out,       \* the bytes that have left, in order
  emptying   \* the queue is being emptied

queueVars == <<arrived, queue, out, emptying>>

Init == arrived = 0 /\ queue = <<>> /\ out = <<>> /\ emptying = FALSE

Arrive ==
  /\ arrived' = arrived + 1
  /\ \/ Len(queue) < Capacity /\ queue' = Append(queue, arrived')
     \/ (Len(queue) = Capacity \/ emptying) /\ queue' = queue
  /\ UNCHANGED <<out, emptying>>

Leave ==
  /\ queue # <<>>
  /\ out' = Append(out, Head(queue))
  /\ queue' = Tail(queue)
  /\ UNCHANGED <<arrived, emptying>>

BeginEmptying ==
  /\ emptying' = TRUE
  /\ queue' = <<>>
  /\ UNCHANGED <<arrived, out>>

EndEmptying == emptying' = FALSE /\ UNCHANGED <<arrived, queue, out>>

Next == Arrive \/ Leave \/ BeginEmptying \/ EndEmptying

Spec == Init /\ [][Next]_queueVars
=============================================================================
