-------------------------- MODULE RingBuffer_proofs --------------------------
(***************************************************************************)
(* Proofs about RingBuffer, for every capacity, counter width, sample set  *)
(* and caller: type correctness, no overrun, no two threads on one element *)
(* and the refinement of the bounded FIFO queue.                           *)
(***************************************************************************)
EXTENDS RingBuffer, ModularArithmetic, SequenceTheorems

(***************************************************************************)
(* Arithmetic of the counters                                              *)
(***************************************************************************)

\* The constants, without the product that says the one divides the other.
LEMMA Constants ==
    /\ Capacity \in Nat \ {0}
    /\ Modulus \in Nat \ {0}
    /\ Capacity < Modulus
<1>1. PICK wraps \in 2 .. Modulus : Modulus = wraps * Capacity
  BY CapacityAssumption
<1>2. wraps * Capacity >= 2 * Capacity
  BY <1>1, CapacityAssumption
<1> QED BY <1>1, <1>2, CapacityAssumption

\* Adding to a counter that has wrapped at the width of size_t reaches the
\* same element as adding to one that has not.
LEMMA WrapKeepsSlot ==
    ASSUME NEW x \in Nat, NEW k \in Nat
    PROVE  ((x % Modulus) + k) % Capacity = (x + k) % Capacity
<1>1. \E wraps \in Nat \ {0} : Modulus = wraps * Capacity
  BY CapacityAssumption
<1>2. /\ Capacity \in Nat \ {0} /\ Modulus \in Nat \ {0}
      /\ x \in Int /\ k \in Int
  BY Constants
<1>3. (x + k) % Capacity = ((x % Modulus) + k) % Capacity
  BY <1>1, <1>2, ModOfMultiple
<1> QED BY <1>3

\* The two memcpy calls touch the element of the counter plus the offset.
LEMMA SlotValue ==
    ASSUME NEW i \in Nat, NEW k \in 0 .. Capacity - 1
    PROVE  /\ Slot(i, k) = (i + k) % Capacity
           /\ Slot(i, k) \in 0 .. Capacity - 1
<1> DEFINE q == i \div Capacity
           r == i % Capacity
           x == i + k
<1>1. i = q * Capacity + r /\ q \in Int /\ r \in 0 .. Capacity - 1
  BY Division, Constants
<1>2. Slot(i, k) = IF k < Capacity - r THEN r + k ELSE k - (Capacity - r)
  BY DEF Slot
<1> HIDE DEF q, r
<1>3. CASE k < Capacity - r
  <2>1. x = q * Capacity + (r + k) /\ r + k \in 0 .. Capacity - 1 /\ x \in Int
    BY <1>1, <1>3, Constants
  <2> HIDE DEF x
  <2>2. x % Capacity = r + k
    BY <2>1, <1>1, ModUnique, Constants
  <2> QED BY <1>2, <1>3, <2>1, <2>2 DEF x
<1>4. CASE ~(k < Capacity - r)
  <2> DEFINE p == q + 1
  <2>1. /\ x = p * Capacity + (k - (Capacity - r)) /\ x \in Int /\ p \in Int
        /\ k - (Capacity - r) \in 0 .. Capacity - 1
    BY <1>1, <1>4, Constants
  <2> HIDE DEF x, p
  <2>2. x % Capacity = k - (Capacity - r)
    BY <2>1, ModUnique, Constants
  <2> QED BY <1>2, <1>4, <2>1, <2>2 DEF x
<1> QED BY <1>3, <1>4

\* Counting on from an advanced counter is counting on from the old one.
LEMMA SlotShift ==
    ASSUME NEW i \in Nat, NEW u \in Nat, NEW k \in Nat, u + k < Capacity
    PROVE  Slot(Advance(i, u), k) = Slot(i, u + k)
<1>1. Advance(i, u) \in Nat /\ i + u \in Nat
  BY Constants DEF Advance
<1>2. Slot(Advance(i, u), k) = (((i + u) % Modulus) + k) % Capacity
  BY <1>1, SlotValue, Constants DEF Advance
<1>3. Slot(i, u + k) = (i + (u + k)) % Capacity
  BY SlotValue, Constants
<1>4. (((i + u) % Modulus) + k) % Capacity = ((i + u) + k) % Capacity
  BY <1>1, WrapKeepsSlot
<1>5. (i + u) + k = i + (u + k)
  OBVIOUS
<1> QED BY <1>2, <1>3, <1>4, <1>5

\* Offsets of one lap around the buffer name different elements.
LEMMA SlotInjective ==
    ASSUME NEW i \in Nat, NEW j \in 0 .. Capacity - 1,
           NEW k \in 0 .. Capacity - 1, Slot(i, j) = Slot(i, k)
    PROVE  j = k
<1>1. (i + j) % Capacity = (i + k) % Capacity
  BY SlotValue
<1> DEFINE x == i + j
           y == i + k
<1>2. x \in Int /\ y \in Int /\ x - y \in -(Capacity - 1) .. Capacity - 1
  BY Constants
<1> HIDE DEF x, y
<1>3. x = y
  BY <1>1, <1>2, ModInjective, Constants DEF x, y
<1> QED BY <1>3 DEF x, y

\* The counters' modular difference and sum, written out.
LEMMA ReadValue ==
    ASSUME NEW h \in 0 .. Modulus - 1, NEW t \in 0 .. Modulus - 1
    PROVE  AvailableRead(h, t) = IF h >= t THEN h - t ELSE h - t + Modulus
<1> DEFINE x == h - t
<1>1. x \in -Modulus .. Modulus - 1
  BY Constants
<1> HIDE DEF x
<1>2. x % Modulus = IF x >= 0 THEN x ELSE x + Modulus
  BY <1>1, ModDifference, Constants
<1> QED BY <1>2, Constants DEF AvailableRead, x

LEMMA AdvanceValue ==
    ASSUME NEW i \in 0 .. Modulus - 1, NEW n \in 0 .. Modulus - 1
    PROVE  Advance(i, n) = IF i + n < Modulus THEN i + n ELSE i + n - Modulus
<1> DEFINE x == i + n
<1>1. x \in 0 .. 2 * Modulus - 1
  BY Constants
<1> HIDE DEF x
<1>2. x % Modulus = IF x < Modulus THEN x ELSE x - Modulus
  BY <1>1, ModSum, Constants
<1> QED BY <1>2, Constants DEF Advance, x

\* How far the producer is ahead of the consumer.
LEMMA UsedValue ==
    ASSUME NEW h \in 0 .. Modulus - 1, NEW t \in 0 .. Modulus - 1
    PROVE  /\ AvailableRead(h, t) \in 0 .. Modulus - 1
           /\ h = Advance(t, AvailableRead(h, t))
<1> DEFINE u == AvailableRead(h, t)
<1>1. u = IF h >= t THEN h - t ELSE h - t + Modulus
  BY ReadValue
<1> HIDE DEF u
<1>2. u \in 0 .. Modulus - 1
  BY <1>1, Constants
<1>3. Advance(t, u) = IF t + u < Modulus THEN t + u ELSE t + u - Modulus
  BY <1>2, AdvanceValue
<1> QED BY <1>1, <1>2, <1>3, Constants DEF u

\* A push of n elements adds n to what is unread, a pop takes n away.
LEMMA UsedAdvance ==
    ASSUME NEW h \in 0 .. Modulus - 1, NEW t \in 0 .. Modulus - 1, NEW n \in Nat
    PROVE  /\ Advance(h, n) \in 0 .. Modulus - 1
           /\ AvailableRead(h, t) + n < Modulus =>
                 AvailableRead(Advance(h, n), t) = AvailableRead(h, t) + n
           /\ n <= AvailableRead(h, t) =>
                 AvailableRead(h, Advance(t, n)) = AvailableRead(h, t) - n
<1>1. \A i \in 0 .. Modulus - 1 : Advance(i, n) \in 0 .. Modulus - 1
  BY Constants DEF Advance
<1> DEFINE u == AvailableRead(h, t)
           g == Advance(h, n)
           s == Advance(t, n)
<1>2. u \in 0 .. Modulus - 1 /\ u = IF h >= t THEN h - t ELSE h - t + Modulus
  BY UsedValue, ReadValue
<1>3. g \in 0 .. Modulus - 1 /\ s \in 0 .. Modulus - 1
  BY <1>1
<1>4. /\ AvailableRead(g, t) = IF g >= t THEN g - t ELSE g - t + Modulus
      /\ AvailableRead(h, s) = IF h >= s THEN h - s ELSE h - s + Modulus
  BY <1>3, ReadValue
<1>5. n < Modulus =>
        /\ g = IF h + n < Modulus THEN h + n ELSE h + n - Modulus
        /\ s = IF t + n < Modulus THEN t + n ELSE t + n - Modulus
  <2>1. n < Modulus => n \in 0 .. Modulus - 1
    BY Constants
  <2> QED BY <2>1, AdvanceValue
<1> HIDE DEF u, g, s
<1>6. u + n < Modulus => AvailableRead(g, t) = u + n
  BY <1>2, <1>3, <1>4, <1>5, Constants
<1>7. n <= u => AvailableRead(h, s) = u - n
  BY <1>2, <1>3, <1>4, <1>5, Constants
<1> QED BY <1>3, <1>6, <1>7 DEF u, g, s

(***************************************************************************)
(* The inductive invariant                                                 *)
(***************************************************************************)

\* What a transfer of count elements takes from avail.
LEMMA TransferValue ==
    ASSUME NEW count \in Nat, NEW avail \in Nat
    PROVE  /\ Transfer(count, avail) \in Nat
           /\ Transfer(count, avail) <= count
           /\ Transfer(count, avail) <= avail
           /\ count # 0 /\ avail # 0 => Transfer(count, avail) # 0
BY DEF Transfer

\* The elements a push may write and those a pop may read are disjoint.
LEMMA WindowsDisjoint ==
    ASSUME TypeOK, NoOverrun,
           NEW k \in Offsets(Len(pushing)), NEW j \in Offsets(Used)
    PROVE  Slot(head, k) # Slot(tail, j)
<1>1. /\ head \in 0 .. Modulus - 1 /\ tail \in 0 .. Modulus - 1
      /\ Len(pushing) \in Nat
  BY LenProperties DEF TypeOK
<1>2. Used \in Nat /\ head = Advance(tail, Used)
  BY <1>1, UsedValue, Constants DEF Used
<1>3. k \in Nat /\ j \in Nat /\ j < Used /\ Used + k < Capacity
  BY <1>1, <1>2, Constants DEF NoOverrun, Offsets
<1>4. Slot(head, k) = Slot(tail, Used + k)
  BY <1>1, <1>2, <1>3, SlotShift, Constants
<1>5. Used + k \in 0 .. Capacity - 1 /\ j \in 0 .. Capacity - 1 /\ j # Used + k
  BY <1>2, <1>3, Constants
<1> QED BY <1>1, <1>4, <1>5, SlotInjective, Constants

\* Two elements of one transfer go to different places.
LEMMA OffsetsDisjoint ==
    ASSUME NEW i \in 0 .. Modulus - 1, NEW n \in 0 .. Capacity,
           NEW j \in Offsets(n), NEW k \in Offsets(n), j # k
    PROVE  Slot(i, j) # Slot(i, k)
<1>1. i \in Nat /\ j \in 0 .. Capacity - 1 /\ k \in 0 .. Capacity - 1
  BY Constants DEF Offsets
<1> QED BY <1>1, SlotInjective

LEMMA InitRingInv == Init => RingInv
<1> SUFFICES ASSUME Init PROVE RingInv
  OBVIOUS
<1> USE DEF Init
<1>1. <<>> \in Seq(Sample) /\ Len(<<>>) = 0 /\ <<>> \in [1 .. 0 -> Sample]
  BY EmptySeq, LenProperties
<1>2. Offsets(0) = {}
  BY DEF Offsets
<1>3. TypeOK
  BY <1>1, <1>2, CallerAssumption, Constants DEF TypeOK
<1>4. Used = 0
  BY ReadValue, Constants DEF Used
<1>5. NoOverrun
  BY <1>1, <1>4, Constants DEF NoOverrun
<1>6. CopiedOk
  BY <1>1, <1>2 DEF CopiedOk
<1> QED BY <1>3, <1>5, <1>6 DEF RingInv, PushOk

\* Facts about the numbers of a state that satisfies the invariant.
LEMMA InvFacts ==
    ASSUME RingInv
    PROVE  /\ head \in 0 .. Modulus - 1 /\ tail \in 0 .. Modulus - 1
           /\ Used \in 0 .. Capacity
           /\ Len(pushing) \in 0 .. Capacity
           /\ Used + Len(pushing) <= Capacity
           /\ reading \in 0 .. Used
           /\ AvailableRead(head, tail) = Used
           /\ AvailableWrite(head, tail) = Capacity - Used
<1>1. /\ head \in 0 .. Modulus - 1 /\ tail \in 0 .. Modulus - 1
      /\ Len(pushing) \in Nat /\ reading \in 0 .. Capacity
  BY LenProperties DEF RingInv, TypeOK
<1>2. Used \in 0 .. Modulus - 1
  BY <1>1, UsedValue DEF Used
<1> QED BY <1>1, <1>2, Constants DEF RingInv, NoOverrun, Used, AvailableWrite

(***************************************************************************)
(* Every step preserves it                                                 *)
(***************************************************************************)
LEMMA PushBeginInv ==
    ASSUME RingInv, NEW batch \in Batches, PushBegin(batch)
    PROVE  RingInv'
<1> DEFINE n == Transfer(Len(batch), AvailableWrite(head, tail))
<1>1. batch \in Seq(Sample) /\ Len(batch) \in Nat \ {0}
  BY CallerAssumption, EmptySeq, LenProperties
<1>2. n \in 1 .. Len(batch) /\ n <= Capacity - Used
  <2>1. /\ AvailableWrite(head, tail) = Capacity - Used
        /\ Capacity - Used \in Nat /\ Capacity - Used # 0
    BY InvFacts, Constants DEF PushBegin
  <2> QED BY <1>1, <2>1, TransferValue
<1> HIDE DEF n
<1>3. pushing' = SubSeq(batch, 1, n) /\ toWrite' = Offsets(n)
  BY DEF PushBegin, n
<1>4. pushing' \in Seq(Sample) /\ Len(pushing') = n
  BY <1>1, <1>2, <1>3, SubSeqProperties, ElementOfSeq
<1>5. UNCHANGED <<head, tail, buffer, reading, toRead, readBuf, popped>>
  BY DEF PushBegin, consumer
<1>6. TypeOK'
  BY <1>3, <1>4, <1>5 DEF RingInv, TypeOK
<1>7. NoOverrun'
  BY <1>2, <1>4, <1>5, InvFacts, Constants DEF RingInv, NoOverrun, Used
<1>8. CopiedOk'
  BY <1>3, <1>4, <1>5 DEF RingInv, CopiedOk
<1>9. PushOk'
  BY <1>2, <1>3 DEF PushOk
<1> QED BY <1>6, <1>7, <1>8, <1>9 DEF RingInv

LEMMA PushCopyInv ==
    ASSUME RingInv, NEW k \in toWrite, PushCopy(k)
    PROVE  RingInv'
<1>1. k \in Offsets(Len(pushing)) /\ k + 1 \in 1 .. Len(pushing)
  BY InvFacts DEF RingInv, TypeOK, Offsets
<1>2. Slot(head, k) \in 0 .. Capacity - 1
  <2>1. head \in Nat /\ k \in 0 .. Capacity - 1
    BY <1>1, InvFacts, Constants DEF Offsets
  <2> QED BY <2>1, SlotValue
<1>3. pushing[k + 1] \in Sample
  BY <1>1, ElementOfSeq DEF RingInv, TypeOK
<1>4. /\ buffer' = [buffer EXCEPT ![Slot(head, k)] = pushing[k + 1]]
      /\ toWrite' = toWrite \ {k}
      /\ UNCHANGED <<head, tail, pushing, reading, toRead, readBuf, popped>>
  BY DEF PushCopy, consumer
<1>5. TypeOK'
  BY <1>2, <1>3, <1>4 DEF RingInv, TypeOK
<1>6. NoOverrun'
  BY <1>4 DEF RingInv, NoOverrun, Used
<1>7. buffer'[Slot(head, k)] = pushing[k + 1] /\ DOMAIN buffer = 0 .. Capacity - 1
  BY <1>2, <1>4 DEF RingInv, TypeOK
<1>8. \A j \in Offsets(Len(pushing)) :
         j # k => buffer'[Slot(head, j)] = buffer[Slot(head, j)]
  BY <1>1, <1>4, InvFacts, OffsetsDisjoint, Constants DEF RingInv, TypeOK
<1>9. \A j \in Offsets(reading) : buffer'[Slot(tail, j)] = buffer[Slot(tail, j)]
  <2> SUFFICES ASSUME NEW j \in Offsets(reading)
               PROVE  buffer'[Slot(tail, j)] = buffer[Slot(tail, j)]
    OBVIOUS
  <2>1. j \in Offsets(Used)
    BY InvFacts DEF Offsets
  <2>2. Slot(head, k) # Slot(tail, j)
    BY <1>1, <2>1, WindowsDisjoint DEF RingInv
  <2> QED BY <1>4, <2>2 DEF RingInv, TypeOK
<1>10. CopiedOk'
  BY <1>4, <1>7, <1>8, <1>9 DEF RingInv, CopiedOk
<1>11. PushOk'
  BY <1>4 DEF RingInv, PushOk
<1> QED BY <1>5, <1>6, <1>10, <1>11 DEF RingInv

LEMMA PushEndInv ==
    ASSUME RingInv, PushEnd
    PROVE  /\ RingInv'
           /\ Used' = Used + Len(pushing)
<1>1. /\ head' = Advance(head, Len(pushing)) /\ pushing' = <<>>
      /\ UNCHANGED <<tail, toWrite, buffer, reading, toRead, readBuf, popped>>
  BY DEF PushEnd, consumer
<1>2. Len(pushing) \in Nat /\ Used + Len(pushing) < Modulus
  BY InvFacts, Constants
<1>3. head' \in 0 .. Modulus - 1 /\ Used' = Used + Len(pushing)
  BY <1>1, <1>2, InvFacts, UsedAdvance DEF Used
<1>4. <<>> \in Seq(Sample) /\ Len(<<>>) = 0
  BY EmptySeq
<1>5. toWrite = {} /\ Offsets(0) = {}
  BY DEF PushEnd, Offsets
<1>6. TypeOK'
  BY <1>1, <1>3, <1>4, <1>5 DEF RingInv, TypeOK
<1>7. NoOverrun'
  BY <1>1, <1>3, <1>4, InvFacts DEF NoOverrun
<1>8. CopiedOk'
  BY <1>1, <1>4, <1>5 DEF RingInv, CopiedOk
<1>9. PushOk'
  BY <1>1 DEF PushOk
<1> QED BY <1>3, <1>6, <1>7, <1>8, <1>9 DEF RingInv

LEMMA PopBeginInv ==
    ASSUME RingInv, NEW count \in Requests, PopBegin(count)
    PROVE  RingInv'
<1> DEFINE n == Transfer(count, AvailableRead(head, tail))
<1>1. n \in 1 .. Used
  <2>1. AvailableRead(head, tail) = Used /\ Used \in Nat /\ Used # 0
    BY InvFacts, Constants DEF PopBegin
  <2>2. count \in Nat /\ count # 0
    BY CallerAssumption
  <2> QED BY <2>1, <2>2, TransferValue
<1> HIDE DEF n
<1>2. /\ reading' = n /\ toRead' = Offsets(n) /\ readBuf' = [j \in 1 .. n |-> Zero]
      /\ UNCHANGED <<head, tail, buffer, pushing, toWrite, popped>>
  BY DEF PopBegin, n, producer
<1>3. readBuf' \in [1 .. n -> Sample]
  BY <1>2, CallerAssumption
<1>4. n \in 0 .. Capacity
  BY <1>1, InvFacts, Constants
<1>5. TypeOK'
  BY <1>2, <1>3, <1>4 DEF RingInv, TypeOK
<1>6. NoOverrun'
  BY <1>1, <1>2, InvFacts, Constants DEF RingInv, NoOverrun, Used
<1>7. CopiedOk'
  BY <1>2 DEF RingInv, CopiedOk
<1>8. PushOk'
  BY <1>2 DEF RingInv, PushOk
<1> QED BY <1>5, <1>6, <1>7, <1>8 DEF RingInv

LEMMA PopCopyInv ==
    ASSUME RingInv, NEW k \in toRead, PopCopy(k)
    PROVE  RingInv'
<1>1. k \in Offsets(reading) /\ k + 1 \in 1 .. reading /\ k \in 0 .. Capacity - 1
  BY InvFacts, Constants DEF RingInv, TypeOK, Offsets
<1>2. buffer[Slot(tail, k)] \in Sample
  <2>1. tail \in Nat
    BY InvFacts, Constants
  <2> QED BY <1>1, <2>1, SlotValue DEF RingInv, TypeOK
<1>3. /\ readBuf' = [readBuf EXCEPT ![k + 1] = buffer[Slot(tail, k)]]
      /\ toRead' = toRead \ {k}
      /\ UNCHANGED <<head, tail, buffer, pushing, toWrite, reading, popped>>
  BY DEF PopCopy, producer
<1>4. TypeOK'
  BY <1>1, <1>2, <1>3 DEF RingInv, TypeOK
<1>5. NoOverrun'
  BY <1>3 DEF RingInv, NoOverrun, Used
<1>6. CopiedOk'
  <2>1. readBuf'[k + 1] = buffer[Slot(tail, k)]
    BY <1>1, <1>3 DEF RingInv, TypeOK
  <2>2. \A j \in Offsets(reading) : j # k => readBuf'[j + 1] = readBuf[j + 1]
    BY <1>1, <1>3, InvFacts DEF RingInv, TypeOK, Offsets
  <2> QED BY <1>3, <2>1, <2>2 DEF RingInv, CopiedOk
<1>7. PushOk'
  BY <1>3 DEF RingInv, PushOk
<1> QED BY <1>4, <1>5, <1>6, <1>7 DEF RingInv

LEMMA PopEndInv ==
    ASSUME RingInv, PopEnd
    PROVE  /\ RingInv'
           /\ Used' = Used - reading
<1>1. /\ tail' = Advance(tail, reading) /\ popped' = readBuf
      /\ reading' = 0 /\ readBuf' = <<>>
      /\ UNCHANGED <<head, toRead, buffer, pushing, toWrite>>
  BY DEF PopEnd, producer
<1>2. reading \in Nat /\ reading <= Used
  BY InvFacts, Constants
<1>3. tail' \in 0 .. Modulus - 1 /\ Used' = Used - reading
  BY <1>1, <1>2, InvFacts, UsedAdvance DEF Used
<1>4. popped' \in Seq(Sample)
  BY <1>1, <1>2, SeqDef DEF RingInv, TypeOK
<1>5. <<>> \in [1 .. 0 -> Sample]
  BY EmptySeq, LenProperties
<1>6. toRead = {} /\ Offsets(0) = {}
  BY DEF PopEnd, Offsets
<1>7. TypeOK'
  BY <1>1, <1>3, <1>4, <1>5, <1>6, Constants DEF RingInv, TypeOK
<1>8. NoOverrun'
  BY <1>1, <1>2, <1>3, InvFacts, Constants DEF NoOverrun
<1>9. CopiedOk'
  BY <1>1, <1>6 DEF RingInv, CopiedOk
<1>10. PushOk'
  BY <1>1 DEF RingInv, PushOk
<1> QED BY <1>3, <1>7, <1>8, <1>9, <1>10 DEF RingInv

LEMMA NextRingInv == RingInv /\ [Next]_vars => RingInv'
<1> SUFFICES ASSUME RingInv, [Next]_vars PROVE RingInv'
  OBVIOUS
<1>1. ASSUME NEW batch \in Batches, PushBegin(batch) PROVE RingInv'
  BY <1>1, PushBeginInv
<1>2. ASSUME NEW k \in toWrite, PushCopy(k) PROVE RingInv'
  BY <1>2, PushCopyInv
<1>3. CASE PushEnd
  BY <1>3, PushEndInv
<1>4. ASSUME NEW count \in Requests, PopBegin(count) PROVE RingInv'
  BY <1>4, PopBeginInv
<1>5. ASSUME NEW k \in toRead, PopCopy(k) PROVE RingInv'
  BY <1>5, PopCopyInv
<1>6. CASE PopEnd
  BY <1>6, PopEndInv
<1>7. CASE UNCHANGED vars
  BY <1>7 DEF vars, RingInv, TypeOK, NoOverrun, Used, CopiedOk, PushOk
<1> QED BY <1>1, <1>2, <1>3, <1>4, <1>5, <1>6, <1>7 DEF Next, Producer, Consumer

\* The inductive invariant holds in every reachable state, for every capacity,
\* counter width and caller: copies under way stay in place.
THEOREM Invariance == Spec => []RingInv
<1> QED BY InitRingInv, NextRingInv, PTL DEF Spec

\* head_ and tail_ stay size_t values and every transfer stays within the array.
THEOREM TypeCorrect == Spec => []TypeOK
<1>1. RingInv => TypeOK
  BY DEF RingInv
<1> QED BY <1>1, Invariance, PTL

\* A push never overruns unread samples, a pop never reads unpublished ones,
\* also when the counters have wrapped at the width of size_t.
THEOREM Bounded == Spec => []NoOverrun
<1>1. RingInv => NoOverrun
  BY DEF RingInv
<1> QED BY <1>1, Invariance, PTL

\* What a call under way has copied stays in place, whatever the other thread does.
THEOREM CopiesStay == Spec => []CopiedOk
<1>1. RingInv => CopiedOk
  BY DEF RingInv
<1> QED BY <1>1, Invariance, PTL

\* The memcpy calls of push and pop never touch a common element, so the two
\* threads need no lock.
THEOREM RaceFree == Spec => []NoSlotConflict
<1>1. RingInv => NoSlotConflict
  <2> SUFFICES ASSUME RingInv, NEW k \in toWrite, NEW j \in toRead
               PROVE  Slot(head, k) # Slot(tail, j)
    BY DEF NoSlotConflict
  <2>1. k \in Offsets(Len(pushing)) /\ j \in Offsets(reading)
    BY DEF RingInv, TypeOK
  <2>2. j \in Offsets(Used)
    BY <2>1, InvFacts DEF Offsets
  <2> QED BY <2>1, <2>2, WindowsDisjoint DEF RingInv
<1> QED BY <1>1, Invariance, PTL

(***************************************************************************)
(* The ring buffer implements the bounded FIFO queue                       *)
(***************************************************************************)
LEMMA WindowSeq ==
    ASSUME NEW b \in [0 .. Capacity - 1 -> Sample], NEW t \in 0 .. Modulus - 1,
           NEW u \in 0 .. Capacity
    PROVE  LET window == [i \in 1 .. u |-> b[Slot(t, i - 1)]]
           IN  /\ window \in Seq(Sample)
               /\ Len(window) = u
               /\ \A i \in 1 .. u : window[i] = b[Slot(t, i - 1)]
<1> DEFINE window == [i \in 1 .. u |-> b[Slot(t, i - 1)]]
<1>1. u \in Nat /\ t \in Nat
  BY Constants
<1>2. ASSUME NEW i \in 1 .. u PROVE b[Slot(t, i - 1)] \in Sample
  <2>1. i - 1 \in 0 .. Capacity - 1
    BY Constants
  <2> QED BY <1>1, <2>1, SlotValue
<1>3. window \in [1 .. u -> Sample]
  BY <1>2
<1>4. window \in Seq(Sample)
  BY <1>1, <1>3, SeqDef
<1>5. Len(window) = u
  BY <1>1, <1>3, <1>4, LenProperties
<1> QED BY <1>4, <1>5

LEMMA ContentsSeq ==
    ASSUME RingInv
    PROVE  /\ Contents \in Seq(Sample)
           /\ Len(Contents) = Used
           /\ \A i \in 1 .. Used : Contents[i] = buffer[Slot(tail, i - 1)]
<1>1. /\ buffer \in [0 .. Capacity - 1 -> Sample]
      /\ tail \in 0 .. Modulus - 1 /\ Used \in 0 .. Capacity
  BY InvFacts DEF RingInv, TypeOK
<1> QED BY <1>1, WindowSeq DEF Contents

LEMMA ContentsSeqNext ==
    ASSUME RingInv', Used' \in 0 .. Capacity
    PROVE  /\ Contents' \in Seq(Sample)
           /\ Len(Contents') = Used'
           /\ \A i \in 1 .. Used' : Contents'[i] = buffer'[Slot(tail', i - 1)]
<1>1. /\ buffer' \in [0 .. Capacity - 1 -> Sample]
      /\ tail' \in 0 .. Modulus - 1
  BY DEF RingInv, TypeOK
<1> QED BY <1>1, WindowSeq DEF Contents

\* Copying into the free part leaves the queued samples alone.
LEMMA PushCopyStutters ==
    ASSUME RingInv, NEW k \in toWrite, PushCopy(k)
    PROVE  UNCHANGED Queue!qvars
<1>1. /\ buffer' = [buffer EXCEPT ![Slot(head, k)] = pushing[k + 1]]
      /\ UNCHANGED <<head, tail, popped>>
  BY DEF PushCopy, consumer
<1>2. ASSUME NEW i \in 1 .. Used
      PROVE  buffer'[Slot(tail, i - 1)] = buffer[Slot(tail, i - 1)]
  <2>1. k \in Offsets(Len(pushing)) /\ i - 1 \in Offsets(Used)
    BY InvFacts DEF RingInv, TypeOK, Offsets
  <2>2. Slot(head, k) # Slot(tail, i - 1)
    BY <2>1, WindowsDisjoint DEF RingInv
  <2> QED BY <1>1, <2>2 DEF RingInv, TypeOK
<1>3. Contents' = Contents
  BY <1>1, <1>2 DEF Contents, Used
<1> QED BY <1>1, <1>3 DEF Queue!qvars

\* Publishing head_ appends exactly the data copied.
LEMMA PushEndPushes ==
    ASSUME RingInv, PushEnd
    PROVE  \E batch \in Batches : \E n \in 1 .. Len(batch) : Queue!QPush(batch, n)
<1>1. /\ UNCHANGED <<tail, buffer, popped>> /\ toWrite = {} /\ pushing # <<>>
  BY DEF PushEnd, consumer
<1>2. RingInv' /\ Used' = Used + Len(pushing)
  BY PushEndInv
<1>3. pushing \in Seq(Sample) /\ Len(pushing) \in Nat /\ Used \in Nat
  BY InvFacts, Constants DEF RingInv, TypeOK
<1>4. ASSUME NEW k \in Offsets(Len(pushing))
      PROVE  buffer[Slot(tail, Used + k)] = pushing[k + 1]
  <2>1. k \in Nat /\ Used + k < Capacity /\ tail \in Nat
    BY <1>3, InvFacts, Constants DEF Offsets
  <2>2. head = Advance(tail, Used)
    BY InvFacts, UsedValue
  <2>3. Slot(head, k) = Slot(tail, Used + k)
    BY <1>3, <2>1, <2>2, SlotShift
  <2> QED BY <1>1, <2>3 DEF RingInv, CopiedOk
<1>5. Contents' = Contents \o pushing
  <2>1. /\ Contents \o pushing \in Seq(Sample)
        /\ Len(Contents \o pushing) = Used + Len(pushing)
        /\ \A i \in 1 .. Used + Len(pushing) :
               (Contents \o pushing)[i]
                   = IF i <= Used THEN Contents[i] ELSE pushing[i - Used]
    <3>1. Contents \in Seq(Sample) /\ Len(Contents) = Used
      BY ContentsSeq
    <3> HIDE DEF Contents
    <3> QED BY <1>3, <3>1, ConcatProperties
  <2>2. /\ Contents' \in Seq(Sample) /\ Len(Contents') = Used + Len(pushing)
        /\ \A i \in 1 .. Used + Len(pushing) :
               Contents'[i] = buffer[Slot(tail, i - 1)]
    <3>1. Used' \in 0 .. Capacity
      BY <1>2, <1>3, InvFacts, Constants
    <3> QED BY <1>1, <1>2, <3>1, ContentsSeqNext
  <2>3. ASSUME NEW i \in 1 .. Used + Len(pushing)
        PROVE  Contents'[i] = (Contents \o pushing)[i]
    <3>1. CASE i <= Used
      BY <1>3, <2>1, <2>2, <3>1, ContentsSeq
    <3>2. CASE ~(i <= Used)
      <4> DEFINE k == i - Used - 1
      <4>1. k \in Offsets(Len(pushing)) /\ Used + k = i - 1 /\ k + 1 = i - Used
        BY <1>3, <3>2 DEF Offsets
      <4>2. buffer[Slot(tail, i - 1)] = pushing[i - Used]
        BY <1>4, <4>1
      <4> HIDE DEF k
      <4>3. (Contents \o pushing)[i] = pushing[i - Used]
        BY <2>1, <3>2, Zenon
      <4>4. Contents'[i] = buffer[Slot(tail, i - 1)]
        BY <2>2, Zenon
      <4> QED BY <4>2, <4>3, <4>4
    <3> QED BY <3>1, <3>2
  <2> QED BY <2>1, <2>2, <2>3, SeqEqual
<1>6. PICK batch \in Batches :
         \E n \in 1 .. Len(batch) : pushing = SubSeq(batch, 1, n)
  BY <1>1 DEF RingInv, PushOk
<1> PICK n \in 1 .. Len(batch) : pushing = SubSeq(batch, 1, n)
  BY <1>6
<1>7. Len(pushing) = n
  <2>1. batch \in Seq(Sample)
    BY CallerAssumption
  <2> QED BY <1>6, <2>1, SubSeqProperties, ElementOfSeq, LenProperties
<1>8. Len(Contents) + n <= Capacity
  BY <1>7, ContentsSeq, InvFacts
<1>9. Queue!QPush(batch, n)
  BY <1>1, <1>5, <1>6, <1>8 DEF Queue!QPush
<1> QED BY <1>9

\* Publishing tail_ removes exactly the prefix handed to the caller.
LEMMA PopEndPops ==
    ASSUME RingInv, PopEnd
    PROVE  \E n \in 1 .. Len(Contents) : Queue!QPop(n)
<1>1. /\ tail' = Advance(tail, reading) /\ popped' = readBuf
      /\ UNCHANGED buffer /\ toRead = {} /\ reading # 0
  BY DEF PopEnd, producer
<1>2. RingInv' /\ Used' = Used - reading
  BY PopEndInv
<1>3. /\ reading \in 1 .. Used /\ Used \in Nat /\ tail \in Nat
      /\ Len(Contents) = Used /\ Contents \in Seq(Sample)
  BY <1>1, InvFacts, ContentsSeq, Constants
<1>4. popped' = SubSeq(Contents, 1, reading)
  <2>1. /\ SubSeq(Contents, 1, reading) \in Seq(Sample)
        /\ Len(SubSeq(Contents, 1, reading)) = reading
        /\ \A i \in 1 .. reading : SubSeq(Contents, 1, reading)[i] = Contents[i]
    BY <1>3, SubSeqProperties, ElementOfSeq
  <2>2. readBuf \in Seq(Sample) /\ Len(readBuf) = reading
    <3>1. readBuf \in [1 .. reading -> Sample] /\ reading \in Nat
      BY <1>3 DEF RingInv, TypeOK
    <3> QED BY <3>1, SeqDef, LenProperties
  <2>3. ASSUME NEW i \in 1 .. reading PROVE readBuf[i] = Contents[i]
    <3>1. i - 1 \in Offsets(reading) \ toRead /\ (i - 1) + 1 = i
      BY <1>1, <1>3 DEF Offsets
    <3>2. readBuf[i] = buffer[Slot(tail, i - 1)]
      BY <3>1 DEF RingInv, CopiedOk
    <3> QED BY <1>3, <3>2, ContentsSeq
  <2> QED BY <1>1, <2>1, <2>2, <2>3, SeqEqual
<1>5. Contents' = SubSeq(Contents, reading + 1, Used)
  <2> DEFINE rest == SubSeq(Contents, reading + 1, Used)
  <2>1. /\ rest \in Seq(Sample) /\ Len(rest) = Used - reading
        /\ \A i \in 1 .. Used - reading : rest[i] = Contents[reading + i]
    <3>1. \A i \in reading + 1 .. Used : Contents[i] \in Sample
      BY <1>3, ElementOfSeq
    <3> QED BY <1>3, <3>1, SubSeqProperties
  <2>2. /\ Contents' \in Seq(Sample) /\ Len(Contents') = Used - reading
        /\ \A i \in 1 .. Used - reading :
               Contents'[i] = buffer[Slot(Advance(tail, reading), i - 1)]
    <3>1. Used' \in 0 .. Capacity
      BY <1>2, <1>3, InvFacts, Constants
    <3> QED BY <1>1, <1>2, <3>1, ContentsSeqNext
  <2>3. ASSUME NEW i \in 1 .. Used - reading PROVE Contents'[i] = rest[i]
    <3>1. /\ i - 1 \in Nat /\ reading + (i - 1) < Capacity
          /\ reading + i \in 1 .. Used /\ (reading + i) - 1 = reading + (i - 1)
      BY <1>3, InvFacts, Constants
    <3>2. Slot(Advance(tail, reading), i - 1) = Slot(tail, reading + (i - 1))
      BY <1>3, <3>1, SlotShift
    <3>3. Contents[reading + i] = buffer[Slot(tail, reading + (i - 1))]
      BY <3>1, ContentsSeq
    <3> QED BY <2>1, <2>2, <3>2, <3>3
  <2> HIDE DEF rest
  <2>4. Contents' = rest
    BY <2>1, <2>2, <2>3, SeqEqual
  <2> QED BY <2>4 DEF rest
<1>6. Queue!QPop(reading)
  BY <1>3, <1>4, <1>5 DEF Queue!QPop
<1> QED BY <1>3, <1>6

\* The ring buffer is a bounded FIFO queue: every publishing store is one push
\* or one pop of the queue, and every other step leaves the queue alone.
THEOREM ImplementsQueue == Spec => FifoQueue
<1>1. Init => Queue!QInit
  <2> SUFFICES ASSUME Init PROVE Contents = <<>> /\ popped = <<>>
    BY DEF Queue!QInit
  <2>1. RingInv /\ Used = 0
    BY InitRingInv, ReadValue, Constants DEF Init, Used
  <2>2. Contents \in Seq(Sample) /\ Len(Contents) = 0
    BY <2>1, ContentsSeq
  <2> QED BY <2>2, EmptySeq DEF Init
<1>2. RingInv /\ [Next]_vars => [Queue!QNext]_Queue!qvars
  <2> SUFFICES ASSUME RingInv, [Next]_vars
               PROVE  Queue!QNext \/ UNCHANGED Queue!qvars
    OBVIOUS
  <2>1. ASSUME NEW batch \in Batches, PushBegin(batch) PROVE UNCHANGED Queue!qvars
    BY <2>1 DEF PushBegin, consumer, Queue!qvars, Contents, Used
  <2>2. ASSUME NEW k \in toWrite, PushCopy(k) PROVE UNCHANGED Queue!qvars
    BY <2>2, PushCopyStutters
  <2>3. CASE PushEnd
    BY <2>3, PushEndPushes DEF Queue!QNext
  <2>4. ASSUME NEW count \in Requests, PopBegin(count) PROVE UNCHANGED Queue!qvars
    BY <2>4 DEF PopBegin, producer, Queue!qvars, Contents, Used
  <2>5. ASSUME NEW k \in toRead, PopCopy(k) PROVE UNCHANGED Queue!qvars
    BY <2>5 DEF PopCopy, producer, Queue!qvars, Contents, Used
  <2>6. CASE PopEnd
    BY <2>6, PopEndPops DEF Queue!QNext
  <2>7. CASE UNCHANGED vars
    BY <2>7 DEF vars, Queue!qvars, Contents, Used
  <2> QED BY <2>1, <2>2, <2>3, <2>4, <2>5, <2>6, <2>7 DEF Next, Producer, Consumer
<1> QED BY <1>1, <1>2, Invariance, PTL DEF Spec, FifoQueue, Queue!QSpec
=============================================================================
