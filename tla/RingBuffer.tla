----------------------------- MODULE RingBuffer -----------------------------
(***************************************************************************)
(* The single-producer single-consumer ring buffer of ring_buffer.h.       *)
(*                                                                         *)
(* The producer is the capture thread (push), the consumer is one render   *)
(* thread (pop).  They share buffer_, head_ and tail_ and take no lock.    *)
(* A call is split at its accesses to shared memory: the load of the other *)
(* side's index, the element copies of the two memcpy calls, which the     *)
(* library may do in any order, and the store that publishes the own       *)
(* index.  A call that finds nothing to do returns 0 and changes nothing.  *)
(*                                                                         *)
(* head_ and tail_ are size_t counters that are never reduced modulo the   *)
(* capacity, only by the width of size_t: they live in 0 .. Modulus - 1.   *)
(***************************************************************************)
EXTENDS Integers, Sequences

CONSTANTS Capacity,  \* mask_ + 1
          Modulus,   \* 2 ^ (width of size_t)
          Sample,    \* the element type T
          Zero,      \* the value make_unique<T[]> gives every element
          Batches,   \* the data a push may be called with
          Requests   \* the counts a pop may be called with

\* The capacity is a power of two smaller than 2 ^ width, so it divides the
\* modulus and a full buffer is told from an empty one.
ASSUME CapacityAssumption ==
    /\ Capacity \in Nat \ {0}
    /\ \E wraps \in 2 .. Modulus : Modulus = wraps * Capacity
    /\ Modulus \in Nat

ASSUME CallerAssumption ==
    /\ Zero \in Sample
    /\ \A batch \in Batches : batch \in Seq(Sample) /\ batch # <<>>
    /\ Requests \subseteq Nat \ {0}

VARIABLES head,      \* head_, written by the producer
          tail,      \* tail_, written by the consumer
          buffer,    \* buffer_
          pushing,   \* what the push under way is to write, <<>> when none
          toWrite,   \* offsets of pushing its memcpy calls have yet to copy
          reading,   \* how many elements the pop under way is to read, or 0
          toRead,    \* offsets its memcpy calls have yet to copy
          readBuf,   \* the destination of the pop under way
          popped     \* what the last completed pop handed over

producer == <<head, pushing, toWrite>>
consumer == <<tail, reading, toRead, readBuf, popped>>
vars     == <<head, tail, buffer, pushing, toWrite, reading, toRead, readBuf,
              popped>>

\* Mutant of AvailableRead: subtracts masked indices, so full looks empty.
AvailableReadMasked(h, t) == (h - t) % Capacity

AvailableRead(h, t) == (h - t) % Modulus

\* Mutant of AvailableWrite: one element too many.
AvailableWriteOffByOne(h, t) == Capacity + 1 - AvailableRead(h, t)

AvailableWrite(h, t) == Capacity - AvailableRead(h, t)

\* The element a memcpy touches for the k-th element of a transfer that starts
\* at counter i: the part up to the end of the array, then the part at its start.
Slot(i, k) == LET index == i % Capacity
                  first == Capacity - index
              IN  IF k < first THEN index + k ELSE k - first

\* Mutant of Transfer: forgets the minimum.
TransferAll(count, avail) == count

Transfer(count, avail) == IF count < avail THEN count ELSE avail

\* Mutant of Advance: a counter that does not wrap at the width of size_t.
AdvanceUnbounded(i, n) == i + n

Advance(i, n) == (i + n) % Modulus

Offsets(n) == 0 .. n - 1

-----------------------------------------------------------------------------
Init == /\ head = 0 /\ tail = 0
        /\ buffer = [s \in 0 .. Capacity - 1 |-> Zero]
        /\ pushing = <<>> /\ toWrite = {}
        /\ reading = 0 /\ toRead = {} /\ readBuf = <<>>
        /\ popped = <<>>

(* push *)
PushBegin(batch) ==
    LET n == Transfer(Len(batch), AvailableWrite(head, tail))
    IN  /\ pushing = <<>>
        /\ AvailableWrite(head, tail) # 0
        /\ pushing' = SubSeq(batch, 1, n)
        /\ toWrite' = Offsets(n)
        /\ UNCHANGED <<head, buffer, consumer>>

PushCopy(k) == /\ k \in toWrite
               /\ buffer'  = [buffer EXCEPT ![Slot(head, k)] = pushing[k + 1]]
               /\ toWrite' = toWrite \ {k}
               /\ UNCHANGED <<head, pushing, consumer>>

\* Mutant of PushEnd: publishes head_ without waiting for the copies.
PushEndEarly == /\ pushing # <<>>
                /\ head'    = Advance(head, Len(pushing))
                /\ pushing' = <<>>
                /\ toWrite' = {}
                /\ UNCHANGED <<buffer, consumer>>

PushEnd == /\ pushing # <<>>
           /\ toWrite = {}
           /\ head'    = Advance(head, Len(pushing))
           /\ pushing' = <<>>
           /\ UNCHANGED <<toWrite, buffer, consumer>>

(* pop *)
PopBegin(count) ==
    LET n == Transfer(count, AvailableRead(head, tail))
    IN  /\ reading = 0
        /\ AvailableRead(head, tail) # 0
        /\ reading' = n
        /\ toRead'  = Offsets(n)
        /\ readBuf' = [j \in 1 .. n |-> Zero]
        /\ UNCHANGED <<tail, popped, buffer, producer>>

PopCopy(k) == /\ k \in toRead
              /\ readBuf' = [readBuf EXCEPT ![k + 1] = buffer[Slot(tail, k)]]
              /\ toRead'  = toRead \ {k}
              /\ UNCHANGED <<tail, reading, popped, buffer, producer>>

PopEnd == /\ reading # 0
          /\ toRead = {}
          /\ tail'    = Advance(tail, reading)
          /\ popped'  = readBuf
          /\ reading' = 0
          /\ readBuf' = <<>>
          /\ UNCHANGED <<toRead, buffer, producer>>

Producer == \/ \E batch \in Batches : PushBegin(batch)
            \/ \E k \in toWrite : PushCopy(k)
            \/ PushEnd

Consumer == \/ \E count \in Requests : PopBegin(count)
            \/ \E k \in toRead : PopCopy(k)
            \/ PopEnd

Next == Producer \/ Consumer

Spec == Init /\ [][Next]_vars

-----------------------------------------------------------------------------
Used == AvailableRead(head, tail)

\* Every variable keeps its type; a transfer never exceeds the buffer.
TypeOK == /\ head \in 0 .. Modulus - 1
          /\ tail \in 0 .. Modulus - 1
          /\ buffer \in [0 .. Capacity - 1 -> Sample]
          /\ pushing \in Seq(Sample)
          /\ toWrite \subseteq Offsets(Len(pushing))
          /\ reading \in 0 .. Capacity
          /\ toRead \subseteq Offsets(reading)
          /\ readBuf \in [1 .. reading -> Sample]
          /\ popped \in Seq(Sample)

\* A push under way fits beside everything that is still unread, and a pop
\* under way reads only published samples, however stale the index it loaded
\* has become and however often the counters have wrapped around.
NoOverrun == /\ Used + Len(pushing) <= Capacity
             /\ reading <= Used

\* The two threads never touch the same element at the same time: this is why
\* push and pop need no lock (ring_buffer.h:36, 65: one writer, one reader).
NoSlotConflict == \A k \in toWrite, j \in toRead : Slot(head, k) # Slot(tail, j)

\* What the copies have done so far is still in place.
CopiedOk ==
    /\ \A k \in Offsets(Len(pushing)) \ toWrite :
           buffer[Slot(head, k)] = pushing[k + 1]
    /\ \A k \in Offsets(reading) \ toRead :
           readBuf[k + 1] = buffer[Slot(tail, k)]

\* What is being pushed is a non-empty prefix of the caller's data.
PushOk == pushing # <<>> =>
    \E batch \in Batches : \E n \in 1 .. Len(batch) : pushing = SubSeq(batch, 1, n)

\* The inductive invariant.
RingInv == TypeOK /\ NoOverrun /\ CopiedOk /\ PushOk

\* The ring buffer implements the bounded FIFO queue: its contents are the
\* elements from tail to head, and each publishing store is one queue step.
Contents == [i \in 1 .. Used |-> buffer[Slot(tail, i - 1)]]

Queue == INSTANCE SampleQueue WITH queue <- Contents

FifoQueue == Queue!QSpec
=============================================================================
