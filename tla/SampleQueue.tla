---------------------------- MODULE SampleQueue ----------------------------
(***************************************************************************)
(* What RingBuffer<T> (ring_buffer.h) promises its two threads: a bounded  *)
(* first-in first-out queue of samples.  A push appends, in one step, a    *)
(* non-empty prefix of its caller's data, never beyond the capacity; a pop *)
(* removes, in one step, a non-empty prefix of the queue and hands exactly *)
(* that to its caller.  Nothing is reordered, overwritten or invented.     *)
(***************************************************************************)
EXTENDS Integers, Sequences

CONSTANTS Sample,    \* the element type T
          Capacity,  \* the number of elements the queue can hold
          Batches    \* the data a push may be called with

VARIABLES queue,     \* the samples pushed and not yet popped, oldest first
          popped     \* what the most recent pop handed to its caller

qvars == <<queue, popped>>

QTypeOK == /\ queue  \in Seq(Sample)
           /\ popped \in Seq(Sample)
           /\ Len(queue) <= Capacity

QInit == queue = <<>> /\ popped = <<>>

QPush(batch, n) == /\ Len(queue) + n <= Capacity
                   /\ queue' = queue \o SubSeq(batch, 1, n)
                   /\ UNCHANGED popped

QPop(n) == /\ popped' = SubSeq(queue, 1, n)
           /\ queue'  = SubSeq(queue, n + 1, Len(queue))

QNext == \/ \E batch \in Batches : \E n \in 1 .. Len(batch) : QPush(batch, n)
         \/ \E n \in 1 .. Len(queue) : QPop(n)

QSpec == QInit /\ [][QNext]_qvars
=============================================================================
