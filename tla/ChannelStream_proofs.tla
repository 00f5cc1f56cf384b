------------------------ MODULE ChannelStream_proofs ------------------------
(***************************************************************************)
(* Theorems about ChannelStream, for every format, size of a packet and    *)
(* order in which the capture thread and the render thread run.            *)
(*                                                                         *)
(* The capacity of a ring comes first: next_power_of_two gives the least   *)
(* power of two that holds the request, so the ring has room for the       *)
(* samples that were asked for.  Then the samples: their types, their      *)
(* order and their slots, each from an invariant of the device, the ring   *)
(* and the batch.                                                          *)
(***************************************************************************)
EXTENDS ChannelStream, ModularArithmetic, SequenceTheorems, WellFoundedInduction

-----------------------------------------------------------------------------
(* The capacity of a ring *)

\* A set of naturals that is not empty has a least element.
LEMMA Smallest ==
    ASSUME NEW T \in SUBSET Nat, T # {}
    PROVE  \E m \in T : \A c \in T : m <= c
<1> DEFINE Below == {ss \in Nat \X Nat : ss[1] < ss[2]}
<1>1. IsWellFoundedOn(Below, Nat)
  BY NatLessThanWellFounded DEF OpToRel
<1>2. \E m \in T : \A c \in T : ~ (<<c, m>> \in Below)
  <2> HIDE DEF Below
  <2> QED  BY <1>1, WFMin, Zenon
<1>3. ASSUME NEW m \in T, \A c \in T : ~ (<<c, m>> \in Below), NEW c \in T
      PROVE  m <= c
  <2>1. m \in Nat /\ c \in Nat
    OBVIOUS
  <2>2. c < m => <<c, m>> \in Below
    BY <2>1
  <2>3. ~ (c < m)
    BY <1>3, <2>2, Zenon
  <2> QED  BY <2>1, <2>3
<1> QED  BY <1>2, <1>3

\* A word that is not zero has a highest one.
LEMMA Highest ==
    ASSUME NEW v \in Word, v # {}
    PROVE  \E m \in v : \A c \in v : c <= m
<1> DEFINE T == {Width - 1 - b : b \in v}
<1>1. T \in SUBSET Nat /\ T # {}
  <2>1. ASSUME NEW b \in v PROVE Width - 1 - b \in Nat
    <3>1. b \in 0 .. Width - 1
      BY DEF Word, Bit
    <3> QED  BY <3>1, WordAssumption
  <2>2. PICK b \in v : TRUE
    OBVIOUS
  <2> QED  BY <2>1, <2>2
<1>2. PICK t \in T : \A c \in T : t <= c
  BY <1>1, Smallest
<1>3. PICK m \in v : t = Width - 1 - m
  BY <1>2
<1>4. ASSUME NEW c \in v PROVE c <= m
  <2>1. Width - 1 - m <= Width - 1 - c
    BY <1>2, <1>3
  <2>2. c \in Int /\ m \in Int /\ Width \in Int
    BY WordAssumption DEF Word, Bit
  <2> QED  BY <2>1, <2>2
<1> QED  BY <1>4

LEMMA LowestOneIs ==
    ASSUME NEW v \in Word, v # {}
    PROVE  LowestOne(v) \in v /\ \A c \in v : LowestOne(v) <= c
<1>1. v \in SUBSET Nat
  BY WordAssumption DEF Word, Bit
<1>2. \E b \in v : \A c \in v : b <= c
  BY <1>1, Smallest
<1> QED  BY <1>2 DEF LowestOne

\* v has no bit above m, and the n highest of those up to it.
Filled(v, m, n) == v \subseteq 0 .. m /\ \A b \in 0 .. m : m - b < n => b \in v

\* A shift by n doubles what is filled.
LEMMA SmearFills ==
    ASSUME NEW m \in Bit, NEW n \in Nat \ {0}, NEW v, Filled(v, m, n)
    PROVE  Filled(Smear(v, n), m, 2 * n)
<1>1. m \in Nat /\ 0 .. m \subseteq Bit /\ Bit \subseteq Nat
  BY WordAssumption DEF Bit
<1>2. v \subseteq 0 .. m /\ \A b \in 0 .. m : m - b < n => b \in v
  BY DEF Filled
<1>3. ASSUME NEW b \in Smear(v, n) PROVE b \in 0 .. m
  <2>1. b \in v \/ (b \in Nat /\ b + n \in 0 .. m)
    BY <1>1, <1>2 DEF Smear
  <2>2. CASE b \in v
    BY <2>2, <1>2
  <2>3. ASSUME b \in Nat, b + n \in 0 .. m PROVE b \in 0 .. m
    BY <2>3, <1>1
  <2> QED  BY <2>1, <2>2, <2>3
<1>4. ASSUME NEW b \in 0 .. m, m - b < 2 * n PROVE b \in Smear(v, n)
  <2>1. b \in v \/ (b + n \in 0 .. m /\ m - (b + n) < n)
    BY <1>1, <1>2, <1>4
  <2> QED  BY <2>1, <1>1, <1>2 DEF Smear
<1> QED  BY <1>3, <1>4 DEF Filled

\* The six shifts turn on every bit below the highest one.
LEMMA SmearedDown ==
    ASSUME Width = 64, NEW v \in Word, NEW m \in v, \A c \in v : c <= m
    PROVE  Smear(Smear(Smear(Smear(Smear(Smear(v, 1), 2), 4), 8), 16), 32) = 0 .. m
<1>0. m \in Bit /\ Bit = 0 .. 63
  BY DEF Word, Bit
<1>1. Filled(v, m, 1)
  <2>1. \A c \in v : c \in 0 .. m
    BY <1>0 DEF Word
  <2> QED  BY <2>1, <1>0 DEF Filled
<1>2. Filled(Smear(v, 1), m, 2)
  BY <1>0, <1>1, SmearFills, 2 * 1 = 2
<1>3. Filled(Smear(Smear(v, 1), 2), m, 4)
  BY <1>0, <1>2, SmearFills, 2 * 2 = 4
<1>4. Filled(Smear(Smear(Smear(v, 1), 2), 4), m, 8)
  BY <1>0, <1>3, SmearFills, 2 * 4 = 8
<1>5. Filled(Smear(Smear(Smear(Smear(v, 1), 2), 4), 8), m, 16)
  BY <1>0, <1>4, SmearFills, 2 * 8 = 16
<1>6. Filled(Smear(Smear(Smear(Smear(Smear(v, 1), 2), 4), 8), 16), m, 32)
  BY <1>0, <1>5, SmearFills, 2 * 16 = 32
<1>7. Filled(Smear(Smear(Smear(Smear(Smear(Smear(v, 1), 2), 4), 8), 16), 32), m, 64)
  BY <1>0, <1>6, SmearFills, 2 * 32 = 64
<1>8. \A b \in 0 .. m : m - b < 64
  BY <1>0
<1> QED  BY <1>7, <1>8 DEF Filled

\* The carry of 0 .. m runs to m + 1.
LEMMA Carry ==
    ASSUME NEW m \in Nat, m + 1 \in Bit
    PROVE  Increment(0 .. m) = {m + 1}
<1>1. LowestZero(0 .. m) = m + 1
  <2> DEFINE Least(b) == \A c \in (0 .. Width) \ (0 .. m) : b <= c
  <2>1. m + 1 \in (0 .. Width) \ (0 .. m) /\ Least(m + 1)
    BY WordAssumption DEF Bit
  <2>2. ASSUME NEW b \in (0 .. Width) \ (0 .. m), Least(b)
        PROVE  b = m + 1
    BY <2>1, <2>2
  <2>3. \A b \in (0 .. Width) \ (0 .. m) : Least(b) => b = m + 1
    BY <2>2
  <2> HIDE DEF Least
  <2>4. (CHOOSE b \in (0 .. Width) \ (0 .. m) : Least(b)) = m + 1
    BY <2>1, <2>3
  <2> QED  BY <2>4 DEF LowestZero, Least
<1> QED  BY <1>1 DEF Increment

\* The request is rounded up to the least power of two that holds it
\* (ring_buffer.h:110-120), for each request for which there is one in the word.
THEOREM LeastPowerOfTwo ==
    ASSUME Width = 64, NEW v \in Word, HasPower(v)
    PROVE  LeastPower(v, NextPowerOfTwo(v))
<1>0. Bit = 0 .. 63
  BY DEF Bit
<1>1. CASE v = {}
  <2>1. NextPowerOfTwo(v) = {0}
    BY <1>1 DEF NextPowerOfTwo
  <2>2. 0 \in Bit /\ ~Less({0}, v)
    BY <1>0, <1>1 DEF Less
  <2>3. \A k \in Bit : 0 <= k
    BY <1>0
  <2> QED  BY <2>1, <2>2, <2>3 DEF LeastPower
<1>2. CASE v # {}
  <2> DEFINE low == LowestOne(v)
             d   == Decrement(v)
  <2>1. low \in v /\ low \in Bit /\ \A c \in v : low <= c
    BY <1>2, LowestOneIs DEF Word
  <2>2. PICK top \in v : \A c \in v : c <= top
    BY <1>2, Highest
  <2>3. top \in Bit
    BY DEF Word
  <2>4. d \in Word /\ \A b \in Bit : b \in d <=> (b \in v /\ b > low) \/ b < low
    BY <2>1 DEF Decrement, Word
  <2>10. \A k \in Bit : ~Less({k}, v) <=> k > top \/ v = {k}
    <3> SUFFICES ASSUME NEW k \in Bit
                 PROVE  ~Less({k}, v) <=> k > top \/ v = {k}
      OBVIOUS
    <3>1. Less({k}, v) <=> \E b \in v \ {k} : k \in v \/ k < b
      BY DEF Less
    <3>2. ASSUME k > top PROVE ~Less({k}, v)
      BY <1>0, <2>2, <2>3, <3>1, <3>2 DEF Word
    <3>3. ASSUME v = {k} PROVE ~Less({k}, v)
      BY <3>1, <3>3
    <3>4. ASSUME ~(k > top), v # {k} PROVE Less({k}, v)
      <4>1. CASE k \in v
        BY <4>1, <3>1, <3>4
      <4>2. CASE k \notin v
        <5>1. k < top
          BY <4>2, <3>4, <2>2, <2>3, <1>0
        <5> QED  BY <5>1, <4>2, <3>1, <2>2
      <4> QED  BY <4>1, <4>2
    <3> QED  BY <3>2, <3>3, <3>4
  <2>5. CASE v = {top}
    <3>1. low = top
      BY <2>1, <2>5
    <3>2. d = {b \in Bit : b < top}
      BY <2>4, <2>5, <3>1, <1>0, <2>3 DEF Word
    <3>3. NextPowerOfTwo(v) = {top}
      <4>1. CASE top = 0
        <5>1. d = {}
          BY <3>2, <4>1, <1>0
        <5>2. \A k \in Nat : Smear({}, k) = {}
          BY <1>0 DEF Smear
        <5>3. Increment({}) = {0}
          <6>1. LowestZero({}) = 0
            BY WordAssumption DEF LowestZero
          <6>2. {b \in {} : b > 0} = {} /\ {0} \cap Bit = {0}
            BY <1>0
          <6>3. Increment({}) = {b \in {} : b > 0} \cup ({0} \cap Bit)
            BY <6>1 DEF Increment
          <6> QED  BY <6>2, <6>3
        <5> QED  BY <5>1, <5>2, <5>3, <1>2, <4>1 DEF NextPowerOfTwo
      <4>2. CASE top # 0
        <5>1. top - 1 \in Nat /\ (top - 1) + 1 = top /\ d = 0 .. top - 1
          BY <3>2, <4>2, <2>3, <1>0
        <5>2. Smear(Smear(Smear(Smear(Smear(Smear(d, 1), 2), 4), 8), 16), 32)
                 = 0 .. top - 1
          <6>1. top - 1 \in d /\ \A c \in d : c <= top - 1
            BY <5>1
          <6> HIDE DEF d
          <6> QED  BY <6>1, <2>4, SmearedDown
        <5>3. Increment(0 .. top - 1) = {top}
          <6>1. (top - 1) + 1 \in Bit
            BY <5>1, <2>3
          <6> QED  BY <5>1, <6>1, Carry
        <5> QED  BY <5>2, <5>3, <1>2 DEF NextPowerOfTwo
      <4> QED  BY <4>1, <4>2
    <3>4. \A k \in Bit : ~Less({k}, v) => top <= k
      <4> SUFFICES ASSUME NEW k \in Bit, ~Less({k}, v)
                   PROVE  top <= k
        OBVIOUS
      <4>1. k > top \/ v = {k}
        BY <2>10
      <4>2. v = {k} => top = k
        BY <2>5
      <4> QED  BY <4>1, <4>2, <2>3, <1>0
    <3>5. ~Less({top}, v)
      BY <2>10, <2>5, <2>3
    <3> QED  BY <3>3, <3>4, <3>5, <2>3 DEF LeastPower
  <2>6. CASE v # {top}
    <3>1. low < top
      <4>1. PICK b \in v : b # top
        BY <2>6
      <4>2. b \in Bit /\ low <= b /\ b <= top
        BY <2>1, <2>2 DEF Word
      <4> QED  BY <4>1, <4>2, <2>1, <2>3, <1>0
    <3>2. top \in d /\ \A c \in d : c <= top
      <4>1. top \in d
        BY <2>3, <2>4, <3>1, <2>1, <1>0
      <4>2. ASSUME NEW c \in d PROVE c <= top
        BY <2>2, <2>3, <2>4, <3>1, <2>1, <1>0 DEF Word
      <4> QED  BY <4>1, <4>2
    <3>3. Smear(Smear(Smear(Smear(Smear(Smear(d, 1), 2), 4), 8), 16), 32) = 0 .. top
      <4> HIDE DEF d
      <4> QED  BY <3>2, <2>4, SmearedDown
    <3>4. top + 1 \in Bit
      <4>1. 63 > top \/ v = {63}
        BY <2>10, <1>0 DEF HasPower
      <4>2. v # {63}
        BY <2>6, <2>2
      <4> QED  BY <4>1, <4>2, <2>3, <1>0
    <3>5. NextPowerOfTwo(v) = {top + 1}
      <4>1. Increment(0 .. top) = {top + 1}
        BY <3>4, <2>3, <1>0, Carry
      <4> QED  BY <3>3, <4>1, <1>2 DEF NextPowerOfTwo
    <3>6. ~Less({top + 1}, v)
      <4>1. top + 1 > top
        BY <2>3, <1>0
      <4> QED  BY <2>10, <3>4, <4>1
    <3>7. \A k \in Bit : ~Less({k}, v) => top + 1 <= k
      <4> SUFFICES ASSUME NEW k \in Bit, ~Less({k}, v)
                   PROVE  top + 1 <= k
        OBVIOUS
      <4>1. k > top \/ v = {k}
        BY <2>10
      <4>2. v # {k}
        BY <2>6, <2>2
      <4> QED  BY <4>1, <4>2, <2>3, <1>0
    <3> QED  BY <3>4, <3>5, <3>6, <3>7 DEF LeastPower
  <2> QED  BY <2>5, <2>6
<1> QED  BY <1>1, <1>2

\* Whatever a ring is asked to hold, the capacity it is made with is the least
\* power of two that does (ring_buffer.h:20-25, 110-120).
THEOREM RingHoldsRequest ==
    ASSUME Width = 64
    PROVE  Spec => []CapacityIsLeastPower
<1>1. CapacityIsLeastPower
  <2>1. \A ch : Bits(RingCapacitySamples(ch)) \in Word
    BY DEF Bits, Word
  <2>2. Requests \subseteq Word
    BY WordAssumption
  <2>3. \A v \in Word : HasPower(v) => LeastPower(v, NextPowerOfTwo(v))
    BY LeastPowerOfTwo
  <2> QED  BY <2>1, <2>2, <2>3 DEF CapacityIsLeastPower
<1> QED  BY <1>1, PTL

\* The powers of two, which the provers know one by one.
Doubles(b) == 2^b \in Nat \ {0} /\ 2^(b + 1) = 2 * 2^b

LEMMA PowersDouble == \A b \in 0 .. 31 : Doubles(b)
<1>1. /\ Doubles(0) /\ Doubles(1) /\ Doubles(2) /\ Doubles(3) /\ Doubles(4)
      /\ Doubles(5) /\ Doubles(6) /\ Doubles(7) /\ Doubles(8) /\ Doubles(9)
  BY DEF Doubles
<1>2. /\ Doubles(10) /\ Doubles(11) /\ Doubles(12) /\ Doubles(13) /\ Doubles(14)
      /\ Doubles(15) /\ Doubles(16) /\ Doubles(17) /\ Doubles(18) /\ Doubles(19)
  BY DEF Doubles
<1>3. /\ Doubles(20) /\ Doubles(21) /\ Doubles(22) /\ Doubles(23) /\ Doubles(24)
      /\ Doubles(25) /\ Doubles(26) /\ Doubles(27) /\ Doubles(28) /\ Doubles(29)
      /\ Doubles(30) /\ Doubles(31)
  BY DEF Doubles
<1>4. \A b \in 0 .. 9 : Doubles(b)
  BY <1>1
<1>5. \A b \in 10 .. 19 : Doubles(b)
  BY <1>2
<1>6. \A b \in 20 .. 31 : Doubles(b)
  BY <1>3
<1> SUFFICES ASSUME NEW b \in 0 .. 31
             PROVE  Doubles(b)
  OBVIOUS
<1>7. b \in 0 .. 9 \/ b \in 10 .. 19 \/ b \in 20 .. 31
  OBVIOUS
<1> QED  BY <1>4, <1>5, <1>6, <1>7, Zenon

\* The quotients by two powers of two that follow each other differ by a bit.
LEMMA Halves ==
    ASSUME NEW n \in Nat, NEW b \in 0 .. 31
    PROVE  /\ n \div 2^b \in Nat
           /\ n \div 2^(b + 1) \in Nat
           /\ n \div 2^b = 2 * (n \div 2^(b + 1)) + ((n \div 2^b) % 2)
<1>1. 2^b \in Nat \ {0} /\ 2^(b + 1) = 2 * 2^b
  BY PowersDouble DEF Doubles
<1> DEFINE p == 2^b
<1> HIDE DEF p
<1>2. /\ n \div p \in Nat
      /\ n \div (2 * p) \in Nat
      /\ n \div p = 2 * (n \div (2 * p)) + ((n \div p) % 2)
  BY <1>1, HalfQuotient DEF p
<1> QED  BY <1>1, <1>2, Zenon DEF p

\* What Bits covers.
Covered(n) == n \in Nat /\ n < 2^31

\* A number below 2^31 with no bit from m on is below 2^m.
LEMMA NoHighBits ==
    ASSUME NEW n \in Nat, Covered(n), NEW m \in 0 .. 31,
           \A b \in m .. 30 : (n \div 2^b) % 2 = 0
    PROVE  n \div 2^m = 0
<1> DEFINE T == {31 - b : b \in {c \in m .. 31 : n \div 2^c # 0}}
<1>1. \A b \in 0 .. 31 : b = 31 => n \div 2^b = 0
  BY NoQuotient DEF Covered
<1>2. ASSUME n \div 2^m # 0 PROVE FALSE
  <2>1. 31 - m \in T /\ T \in SUBSET Nat
    BY <1>2
  <2>2. PICK t \in T : \A c \in T : t <= c
    <3> HIDE DEF T
    <3> QED  BY <2>1, Smallest
  <2>3. PICK b \in m .. 31 : n \div 2^b # 0 /\ t = 31 - b
    BY <2>2
  <2>4. b \in m .. 30 /\ b \in 0 .. 31
    <3>1. b # 31
      <4>1. b \in 0 .. 31
        OBVIOUS
      <4> QED  BY <1>1, <2>3, <4>1, Zenon
    <3> QED  BY <3>1
  <2>5. n \div 2^(b + 1) = 0
    <3>1. ASSUME n \div 2^(b + 1) # 0 PROVE FALSE
      <4>1. b + 1 \in m .. 31
        BY <2>4
      <4>2. 31 - (b + 1) \in T
        BY <3>1, <4>1
      <4>3. 31 - b <= 31 - (b + 1)
        BY <2>2, <2>3, <4>2
      <4> QED  BY <4>3, <2>4
    <3> QED  BY <3>1
  <2>6. (n \div 2^b) % 2 = 0
    BY <2>4
  <2>7. n \div 2^b = 2 * (n \div 2^(b + 1)) + ((n \div 2^b) % 2)
    BY <2>4, Halves
  <2>8. n \div 2^b = 2 * 0 + 0
    BY <2>5, <2>6, <2>7, Zenon
  <2> QED  BY <2>3, <2>8
<1> QED  BY <1>2

\* A number with no bit below m is a multiple of 2^m.
LEMMA NoLowBits ==
    ASSUME NEW n \in Nat, NEW m \in 0 .. 31,
           \A b \in 0 .. m - 1 : (n \div 2^b) % 2 = 0
    PROVE  n = (n \div 2^m) * 2^m
<1> DEFINE T == {b \in 0 .. m : n # (n \div 2^b) * 2^b}
<1>1. n = (n \div 2^0) * 2^0
  BY 2^0 = 1
<1>2. ASSUME n # (n \div 2^m) * 2^m PROVE FALSE
  <2>1. m \in T /\ T \in SUBSET Nat
    BY <1>2
  <2>2. PICK t \in T : \A c \in T : t <= c
    <3> HIDE DEF T
    <3> QED  BY <2>1, Smallest
  <2>3. t \in 0 .. m /\ n # (n \div 2^t) * 2^t
    BY <2>2
  <2>4. t # 0
    BY <1>1, <2>3, Zenon
  <2> DEFINE b == t - 1
  <2>5. b \in 0 .. m - 1 /\ t = b + 1 /\ b \in 0 .. 31
    BY <2>3, <2>4
  <2>6. b \notin T
    <3>1. b \in T => t <= b
      BY <2>2
    <3> QED  BY <3>1, <2>3
  <2> HIDE DEF b
  <2>7. n = (n \div 2^b) * 2^b
    BY <2>5, <2>6
  <2>8. n \div 2^b = 2 * (n \div 2^(b + 1)) + ((n \div 2^b) % 2)
    BY <2>5, Halves
  <2>9. (n \div 2^b) % 2 = 0
    BY <2>5
  <2>10. n \div 2^b \in Nat /\ n \div 2^(b + 1) \in Nat
         /\ 2^b \in Nat \ {0} /\ 2^(b + 1) = 2 * 2^b
    BY <2>5, Halves, PowersDouble DEF Doubles
  <2>11. n = (n \div 2^(b + 1)) * 2^(b + 1)
    <3> DEFINE x == n \div 2^b
               y == n \div 2^(b + 1)
               p == 2^b
               z == 2^(b + 1)
    <3>1. n = x * p /\ x = 2 * y + (x % 2) /\ x % 2 = 0
      BY <2>7, <2>8, <2>9, Zenon
    <3>2. x \in Nat /\ y \in Int /\ p \in Nat /\ z = 2 * p
      BY <2>10
    <3> HIDE DEF x, y, p, z
    <3>3. x = 2 * y
      BY <3>1, <3>2
    <3>4. n = y * z
      BY <3>1, <3>2, <3>3
    <3> QED  BY <3>4, Zenon DEF y, z
  <2> QED  BY <2>11, <2>3, <2>5
<1> QED  BY <1>2

\* The value of a power of two.
LEMMA ValueOfPower ==
    ASSUME NEW m \in 0 .. 31
    PROVE  Value({m}) = 2^m
<1> DEFINE pick(s) == CHOOSE x \in s : TRUE
           Sum(f) == f = [s \in SUBSET {m} |-> IF s = {} THEN 0
                                           ELSE LET x == pick(s) IN 2^x + f[s \ {x}]]
           w == [s \in SUBSET {m} |-> IF s = {} THEN 0 ELSE 2^m]
<1>1. \A s \in SUBSET {m} : s = {} \/ s = {m}
  OBVIOUS
<1>2. pick({m}) = m
  OBVIOUS
<1>3. 2^m + 0 = 2^m
  BY PowersDouble DEF Doubles
<1>4. ASSUME NEW f, Sum(f) PROVE f[{m}] = 2^m
  <2>1. {} \in SUBSET {m} /\ {m} \in SUBSET {m} /\ {m} # {} /\ {m} \ {m} = {}
    OBVIOUS
  <2> HIDE DEF pick
  <2>2. f[{}] = 0
    BY <1>4, <2>1
  <2>3. f[{m}] = 2^m + f[{m} \ {m}]
    BY <1>2, <1>4, <2>1
  <2> QED  BY <2>1, <2>2, <2>3, <1>3
<1>5. Sum(w)
  <2> HIDE DEF pick
  <2>1. \A s \in SUBSET {m} : w[s] = IF s = {} THEN 0 ELSE 2^pick(s) + w[s \ {pick(s)}]
    <3>1. w[{}] = 0
      OBVIOUS
    <3>2. w[{m}] = 2^m
      OBVIOUS
    <3>3. {m} \ {m} = {} /\ {m} # {}
      OBVIOUS
    <3>4. w[{m}] = 2^pick({m}) + w[{m} \ {pick({m})}]
      BY <3>1, <3>2, <3>3, <1>2, <1>3
    <3> HIDE DEF w
    <3> QED  BY <1>1, <3>1, <3>3, <3>4, Zenon
  <2> DEFINE g == [s \in SUBSET {m} |-> IF s = {} THEN 0
                                           ELSE LET x == pick(s) IN 2^x + w[s \ {x}]]
  <2>2. \A s \in SUBSET {m} : g[s] = w[s]
    <3> HIDE DEF w
    <3> QED  BY <2>1
  <2>3. w = [s \in SUBSET {m} |-> w[s]] /\ g = [s \in SUBSET {m} |-> g[s]]
    OBVIOUS
  <2>4. w = g
    <3> HIDE DEF w, g
    <3> QED  BY <2>2, <2>3
  <2> HIDE DEF w
  <2> QED  BY <2>4
<1>6. \E f : Sum(f)
  <2> HIDE DEF Sum
  <2> QED  BY <1>5
<1>7. Sum(CHOOSE f : Sum(f))
  <2> HIDE DEF Sum
  <2> QED  BY <1>6
<1>8. (CHOOSE f : Sum(f))[{m}] = 2^m
  <2> HIDE DEF Sum
  <2> QED  BY <1>4, <1>7
<1> QED  BY <1>8 DEF Value, MapThenSumSet, MapThenFoldSet

\* The capacity of a ring is a power of two that is no less than the bits of the
\* request, in the order of words.
LEMMA CapacityIsPower ==
    ASSUME Width = 64, NEW ch
    PROVE  \E m \in 0 .. 31 : /\ Capacity(ch) = 2^m
                              /\ ~Less({m}, Bits(RingCapacitySamples(ch)))
<1> DEFINE v == Bits(RingCapacitySamples(ch))
<1>1. v \in Word /\ v \subseteq 0 .. 30
  BY DEF Bits, Word
<1>2. Bit = 0 .. 63
  BY DEF Bit
<1> HIDE DEF v
<1>3. \A k \in {31, Width - 1} : ~Less({k}, v)
  BY <1>1 DEF Less
<1>4. LeastPower(v, NextPowerOfTwo(v))
  BY <1>1, <1>3, LeastPowerOfTwo DEF HasPower
<1>5. PICK m \in Bit : /\ NextPowerOfTwo(v) = {m}
                       /\ ~Less({m}, v)
                       /\ \A k \in Bit : ~Less({k}, v) => m <= k
  BY <1>4 DEF LeastPower
<1>6. m \in 0 .. 31
  BY <1>2, <1>3, <1>5
<1>7. Capacity(ch) = 2^m
  BY <1>5, <1>6, ValueOfPower DEF Capacity, v
<1> QED  BY <1>5, <1>6, <1>7 DEF v

\* The capacity of a ring is a number.
LEMMA CapacityInNat ==
    ASSUME Width = 64, NEW ch
    PROVE  Capacity(ch) \in Nat \ {0}
BY CapacityIsPower, PowersDouble DEF Doubles

\* A power of two that is no less than a number in the order of words is no less
\* than the number.
LEMMA PowerHolds ==
    ASSUME Width = 64, NEW n, Covered(n), NEW m \in 0 .. 31, ~Less({m}, Bits(n))
    PROVE  n <= 2^m
<1>0. n \in Nat
  BY DEF Covered
<1>1. \A b \in 0 .. 30 : b \in Bits(n) <=> (n \div 2^b) % 2 = 1
  BY DEF Bits, Bit
<1>2. \A b \in 0 .. 30 : (n \div 2^b) % 2 \in 0 .. 1
  <2> TAKE b \in 0 .. 30
  <2> DEFINE q == n \div 2^b
  <2>1. q \in Nat
    <3>1. b \in 0 .. 31
      OBVIOUS
    <3> QED  BY <1>0, <3>1, Halves, Zenon
  <2> HIDE DEF q
  <2>2. q % 2 \in 0 .. 1
    BY <2>1
  <2> QED  BY <2>2, Zenon DEF q
<1>3. \A b \in 0 .. 30 : b \notin Bits(n) => (n \div 2^b) % 2 = 0
  <2> TAKE b \in 0 .. 30
  <2> DEFINE r == (n \div 2^b) % 2
  <2>1. r \in 0 .. 1 /\ (b \in Bits(n) <=> r = 1)
    BY <1>1, <1>2, Zenon
  <2> HIDE DEF r
  <2>2. b \notin Bits(n) => r = 0
    BY <2>1
  <2> QED  BY <2>2, Zenon DEF r
<1>4. Bits(n) \subseteq 0 .. 30 /\ 2^m \in Nat \ {0}
  BY PowersDouble DEF Bits, Doubles
<1>5. CASE m \in Bits(n)
  <2>1. Bits(n) = {m}
    BY <1>5 DEF Less
  <2>2. m \in 0 .. 30
    BY <1>4, <1>5
  <2>3. m + 1 \in 0 .. 31 /\ \A b \in m + 1 .. 30 : b \in 0 .. 30 /\ b # m
    BY <2>2
  <2>4. \A b \in m + 1 .. 30 : (n \div 2^b) % 2 = 0
    BY <1>3, <2>1, <2>3, Zenon
  <2>5. n \div 2^(m + 1) = 0
    BY <1>0, <2>3, <2>4, NoHighBits, Zenon
  <2>6. \A b \in 0 .. m - 1 : b \in 0 .. 30 /\ b # m
    BY <2>2
  <2>7. \A b \in 0 .. m - 1 : (n \div 2^b) % 2 = 0
    BY <1>3, <2>1, <2>6, Zenon
  <2>8. n = (n \div 2^m) * 2^m
    BY <1>0, <2>7, NoLowBits, Zenon
  <2>9. n \div 2^m = 2 * (n \div 2^(m + 1)) + ((n \div 2^m) % 2)
    BY <1>0, Halves
  <2>10. (n \div 2^m) % 2 = 1
    BY <1>1, <1>5, <2>2, Zenon
  <2>11. n \div 2^m = 2 * 0 + 1
    BY <2>5, <2>9, <2>10, Zenon
  <2>12. n = 1 * 2^m
    BY <2>8, <2>11
  <2> QED  BY <2>12, <1>4
<1>6. CASE m \notin Bits(n)
  <2>1. \A b \in m .. 30 : b \in 0 .. 30 /\ b \notin Bits(n)
    <3>1. \A b \in Bits(n) : ~(m < b)
      BY <1>6 DEF Less
    <3> QED  BY <3>1, <1>4, <1>6
  <2>2. \A b \in m .. 30 : (n \div 2^b) % 2 = 0
    BY <1>3, <2>1, Zenon
  <2>3. n \div 2^m = 0
    BY <1>0, <2>2, NoHighBits, Zenon
  <2> DEFINE p == 2^m
  <2>4. n \div p = 0 /\ p \in Nat \ {0}
    BY <2>3, <1>4, Zenon
  <2> HIDE DEF p
  <2>5. n < p
    BY <1>0, <2>4, NoQuotient
  <2>6. n <= p
    BY <1>0, <2>4, <2>5
  <2> QED  BY <2>6, Zenon DEF p
<1> QED  BY <1>5, <1>6

\* A ring holds the samples that are asked for.
LEMMA CapacityHolds ==
    ASSUME Width = 64, NEW ch, Covered(RingCapacitySamples(ch))
    PROVE  Capacity(ch) >= RingCapacitySamples(ch)
<1>1. PICK m \in 0 .. 31 : /\ Capacity(ch) = 2^m
                           /\ ~Less({m}, Bits(RingCapacitySamples(ch)))
  BY CapacityIsPower
<1>2. RingCapacitySamples(ch) <= 2^m
  BY <1>1, PowerHolds
<1>3. RingCapacitySamples(ch) \in Nat /\ 2^m \in Nat
  BY PowersDouble DEF Covered, Doubles
<1> QED  BY <1>1, <1>2, <1>3

-----------------------------------------------------------------------------
(* The types *)

\* The capacities are numbers, and there is a channel at least.
LEMMA FormatTypes ==
    ASSUME Width = 64, TypeOK
    PROVE  /\ channels \in Nat \ {0} /\ capChannels \in Nat \ {0}
           /\ Capacity(channels) \in Nat \ {0}
           /\ captured \in Nat
           /\ wanted \in Nat /\ found \in 0 .. wanted /\ found <= Len(ring)
           /\ Len(device) \in Nat /\ Len(ring) \in Nat /\ Len(batch) \in Nat
<1>1. channels \in Nat \ {0} /\ capChannels \in Nat \ {0} /\ captured \in Nat
  BY StreamAssumption DEF TypeOK
<1>2. Len(device) \in Nat /\ Len(ring) \in Nat /\ Len(batch) \in Nat
  BY DEF TypeOK
<1>3. wanted \in Nat
  <2>1. PICK frames \in 0 .. DeviceFrames : wanted = frames * channels
    BY DEF TypeOK
  <2> QED  BY <1>1, <2>1, StreamAssumption
<1>4. found \in 0 .. wanted /\ found <= Len(ring)
  BY <1>2, <1>3 DEF TypeOK, AtMost
<1> QED  BY <1>1, <1>2, <1>3, <1>4, CapacityInNat

\* The frame and the channel of a sample of a packet of n frames.
LEMMA FrameRange ==
    ASSUME NEW ch \in Nat \ {0}, NEW n \in Nat, NEW i \in 1 .. n * ch
    PROVE  FrameOf(i, ch) \in 0 .. n - 1 /\ ChannelOf(i, ch) \in 0 .. ch - 1
<1> DEFINE f == (i - 1) \div ch
           c == (i - 1) % ch
<1>0. n * ch \in Nat /\ i - 1 \in Int
  OBVIOUS
<1>1. i - 1 = f * ch + c /\ f \in Int /\ c \in 0 .. ch - 1
  BY <1>0, Division
<1> HIDE DEF f, c
<1>2. n * ch \in Nat /\ i - 1 \in 0 .. n * ch - 1
  BY <1>0
<1>3. f < 0 => f * ch <= -ch
  BY <1>1
<1>4. f >= n => f * ch >= n * ch
  BY <1>1
<1>5. f \in 0 .. n - 1
  BY <1>1, <1>2, <1>3, <1>4
<1> QED  BY <1>1, <1>5 DEF FrameOf, ChannelOf, f, c

\* A sample of a frame is not the one that stands for silence.
LEMMA FramesAreNotSilence ==
    ASSUME NEW f \in 1 .. MaxFrames, NEW c \in Nat
    PROVE  <<f, c>> # Silence /\ <<f, c>> \in Sample
BY StreamAssumption DEF Sample

\* What a capture makes of a packet, and how much of it it keeps.
Kept(n) == AtMost(n * channels, Capacity(channels) - Len(ring))

LEMMA PacketCut ==
    ASSUME Width = 64, TypeOK, CapturePacket
    PROVE  \E n \in PacketFrames :
              /\ n \in Nat \ {0} /\ captured + n <= MaxFrames /\ captured' = captured + n
              /\ batch' \in Seq(Sample)
              /\ Len(batch') = Kept(n) /\ Kept(n) \in 0 .. n * channels
              /\ \A i \in 1 .. Kept(n) :
                    /\ FrameOf(i, channels) \in 0 .. n - 1
                    /\ ChannelOf(i, channels) \in 0 .. channels - 1
              /\ \/ \A i \in 1 .. Kept(n) : batch'[i] = Silence
                 \/ \A i \in 1 .. Kept(n) :
                       batch'[i] = IF ChannelOf(i, channels) < capChannels
                                     THEN <<captured + 1 + FrameOf(i, channels),
                                            ChannelOf(i, channels)>>
                                     ELSE Silence
<1> USE FormatTypes
<1>1. PICK n \in PacketFrames :
         /\ captured + n <= MaxFrames /\ captured' = captured + n
         /\ \E samples \in {Remapped(n), Silent(n)} :
               batch' = SubSeq(samples, 1, AtMost(Len(samples),
                                                  Capacity(channels) - Len(ring)))
  BY DEF CapturePacket
<1>2. n \in Nat \ {0} /\ n * channels \in Nat
  BY StreamAssumption
<1>3. \A i \in 1 .. n * channels : /\ FrameOf(i, channels) \in 0 .. n - 1
                                   /\ ChannelOf(i, channels) \in 0 .. channels - 1
  BY <1>2, FrameRange
<1>4. \A i \in 1 .. n * channels :
         <<captured + 1 + FrameOf(i, channels), ChannelOf(i, channels)>> \in Sample
  <2> TAKE i \in 1 .. n * channels
  <2>1. /\ captured + 1 + FrameOf(i, channels) \in 1 .. MaxFrames
        /\ ChannelOf(i, channels) \in Nat
    <3> DEFINE f == FrameOf(i, channels)
               c == ChannelOf(i, channels)
    <3>1. f \in 0 .. n - 1 /\ c \in 0 .. channels - 1
      BY <1>3
    <3> HIDE DEF f, c
    <3>2. /\ captured \in Nat /\ n \in Nat /\ MaxFrames \in Nat /\ captured + n <= MaxFrames
          /\ channels \in Nat
      BY <1>1, <1>2, StreamAssumption
    <3>3. captured + 1 + f \in 1 .. MaxFrames /\ c \in Nat
      BY ONLY <3>1, <3>2
    <3> QED  BY <3>3 DEF f, c
  <2> QED  BY <2>1, FramesAreNotSilence
<1>5. Silence \in Sample
  BY DEF Sample
<1>6. /\ Remapped(n) \in Seq(Sample) /\ Len(Remapped(n)) = n * channels
      /\ Silent(n) \in Seq(Sample) /\ Len(Silent(n)) = n * channels
  <2>1. \A i \in 1 .. n * channels : Remapped(n)[i] \in Sample /\ Silent(n)[i] \in Sample
    BY <1>4, <1>5 DEF Remapped, Silent
  <2> DEFINE k == n * channels
             r == Remapped(n)
             s == Silent(n)
  <2>2. r \in [1 .. k -> Sample] /\ s \in [1 .. k -> Sample]
    BY <2>1 DEF Remapped, Silent
  <2> HIDE DEF k, r, s
  <2>3. k \in Nat
    BY <1>2 DEF k
  <2>4. /\ r \in Seq(Sample) /\ Len(r) = k
        /\ s \in Seq(Sample) /\ Len(s) = k
    BY ONLY <2>2, <2>3
  <2> QED  BY <2>4 DEF k, r, s
<1>7. Kept(n) \in 0 .. n * channels
  <2>1. Capacity(channels) - Len(ring) \in Nat
    BY DEF TypeOK
  <2> QED  BY <1>2, <2>1 DEF Kept, AtMost
<1>8. PICK samples \in {Remapped(n), Silent(n)} : batch' = SubSeq(samples, 1, Kept(n))
  BY <1>1, <1>6 DEF Kept
<1>9. samples \in Seq(Sample) /\ Len(samples) = n * channels
  BY <1>6
<1>10. /\ batch' \in Seq(Sample) /\ Len(batch') = Kept(n)
       /\ \A i \in 1 .. Kept(n) : batch'[i] = samples[i]
  <2>1. 1 \in 1 .. Len(samples) + 1 /\ Kept(n) \in 0 .. Len(samples)
    BY <1>2, <1>7, <1>9
  <2> QED  BY <1>2, <1>7, <1>8, <1>9, <2>1, SubSeqProperties
<1>11. \A i \in 1 .. Kept(n) : i \in 1 .. n * channels
  BY <1>2, <1>7
<1>12. CASE samples = Silent(n)
  BY <1>1, <1>2, <1>3, <1>7, <1>10, <1>11, <1>12 DEF Silent
<1>13. CASE samples = Remapped(n)
  BY <1>1, <1>2, <1>3, <1>7, <1>10, <1>11, <1>13 DEF Remapped
<1> QED  BY <1>8, <1>12, <1>13

\* What a push appends.
LEMMA PushAppends ==
    ASSUME TypeOK, PublishPush
    PROVE  /\ ring' \in Seq(Sample) /\ Len(ring') = Len(ring) + Len(batch)
           /\ \A i \in 1 .. Len(ring') :
                 ring'[i] = IF i <= Len(ring) THEN ring[i] ELSE batch[i - Len(ring)]
           /\ batch' \in Seq(Sample) /\ Len(batch') = 0
BY ConcatProperties DEF TypeOK, PublishPush

\* What a pop moves from the ring to the device.
LEMMA PopMoves ==
    ASSUME Width = 64, TypeOK, Render
    PROVE  /\ device' \in Seq(Sample) /\ Len(device') = wanted
           /\ \A i \in 1 .. wanted : device'[i] = IF i <= found THEN ring[i] ELSE Silence
           /\ ring' \in Seq(Sample) /\ Len(ring') = Len(ring) - found
           /\ \A i \in 1 .. Len(ring') : ring'[i] = ring[i + found]
<1> USE FormatTypes
<1>1. ring \in Seq(Sample) /\ Silence \in Sample
  BY DEF TypeOK, Sample
<1>2. \A i \in 1 .. wanted : device'[i] = IF i <= found THEN ring[i] ELSE Silence
  BY DEF Render
<1>3. device' \in Seq(Sample) /\ Len(device') = wanted
  <2>1. \A i \in 1 .. wanted : device'[i] \in Sample
    <3> TAKE i \in 1 .. wanted
    <3>1. i <= found => i \in 1 .. Len(ring)
      OBVIOUS
    <3> QED  BY <1>1, <1>2, <3>1
  <2>2. device' = [i \in 1 .. wanted |-> device'[i]]
    BY DEF Render
  <2> QED  BY <2>1, <2>2
<1>4. /\ ring' \in Seq(Sample) /\ Len(ring') = Len(ring) - found
      /\ \A i \in 1 .. Len(ring') : ring'[i] = ring[i + found]
  <2>1. ring' = SubSeq(ring, found + 1, Len(ring))
    BY DEF Render
  <2>2. found + 1 \in 1 .. Len(ring) + 1 /\ Len(ring) \in found .. Len(ring)
    OBVIOUS
  <2> QED  BY <1>1, <2>1, <2>2, SubSeqProperties
<1> QED  BY <1>2, <1>3, <1>4

\* Each step keeps the types.
LEMMA NextTypeOK ==
    ASSUME Width = 64, TypeOK, [Next]_vars
    PROVE  TypeOK'
<1> USE FormatTypes, StreamAssumption
<1>1. CASE CapturePacket
  <2>1. PICK n \in PacketFrames :
           /\ n \in Nat \ {0} /\ captured + n <= MaxFrames /\ captured' = captured + n
           /\ batch' \in Seq(Sample) /\ Len(batch') = Kept(n) /\ Kept(n) \in 0 .. n * channels
    BY <1>1, PacketCut
  <2>2. Len(ring) + Kept(n) <= Capacity(channels)
    <3>1. n * channels \in Nat
      BY <2>1
    <3> QED  BY <2>1, <3>1 DEF Kept, AtMost
  <2> QED  BY <1>1, <2>1, <2>2 DEF TypeOK, CapturePacket, formats, Capacity,
                                     RingCapacitySamples
<1>2. CASE PublishPush
  <2>1. /\ ring' \in Seq(Sample) /\ Len(ring') = Len(ring) + Len(batch)
        /\ batch' \in Seq(Sample) /\ Len(batch') = 0
    BY <1>2, PushAppends
  <2> QED  BY <1>2, <2>1 DEF TypeOK, PublishPush, formats, AtMost, Capacity,
                                     RingCapacitySamples
<1>3. CASE RenderRequest
  <2>1. PICK frames \in 1 .. DeviceFrames : wanted' = frames * channels
    BY <1>3 DEF RenderRequest
  <2>2. wanted' \in Nat
    BY <2>1
  <2>3. found' \in 0 .. AtMost(wanted', Len(ring))
    BY <1>3, <2>2 DEF RenderRequest, AtMost
  <2>4. wanted' \in {x * channels : x \in 0 .. DeviceFrames}
    BY <2>1
  <2> QED  BY <1>3, <2>3, <2>4 DEF TypeOK, RenderRequest, formats, Capacity,
                                     RingCapacitySamples
<1>4. CASE Render
  <2>1. /\ device' \in Seq(Sample)
        /\ ring' \in Seq(Sample) /\ Len(ring') = Len(ring) - found
    BY <1>4, PopMoves
  <2>2. 0 \in {frames * channels : frames \in 0 .. DeviceFrames}
    <3>1. 0 = 0 * channels /\ 0 \in 0 .. DeviceFrames
      OBVIOUS
    <3> QED  BY <3>1
  <2> QED  BY <1>4, <2>1, <2>2 DEF TypeOK, Render, formats, AtMost, Capacity,
                                     RingCapacitySamples
<1>5. CASE UNCHANGED vars
  BY <1>5 DEF TypeOK, vars, formats, Capacity, RingCapacitySamples
<1> QED  BY <1>1, <1>2, <1>3, <1>4, <1>5 DEF Next

LEMMA InitTypeOK == Width = 64 /\ Init => TypeOK
<1> SUFFICES ASSUME Width = 64, Init PROVE TypeOK
  OBVIOUS
<1>1. 0 = 0 * channels /\ 0 \in 0 .. DeviceFrames /\ channels \in Nat
  BY StreamAssumption DEF Init
<1>2. 0 \in {frames * channels : frames \in 0 .. DeviceFrames}
  BY <1>1
<1>3. Capacity(channels) \in Nat
  BY CapacityInNat
<1> QED  BY <1>2, <1>3, StreamAssumption DEF Init, TypeOK, AtMost

\* The samples keep their types, what is found by a pop is in the ring, and the ring
\* and what is about to be pushed are no more than the ring holds.
THEOREM TypesHold ==
    ASSUME Width = 64
    PROVE  Spec => []TypeOK
<1>1. Init => TypeOK
  BY InitTypeOK
<1>2. TypeOK /\ [Next]_vars => TypeOK'
  BY NextTypeOK
<1> QED  BY <1>1, <1>2, PTL DEF Spec

-----------------------------------------------------------------------------
(* The order of the samples *)

\* What the samples in order are: of each of the device, the ring and the batch, and
\* of each two of them.  The frames in them have been captured.
Earlier(s, t)  == s[1] < t[1] \/ (s[1] = t[1] /\ s[2] < t[2])
Ordered(s)     == \A i, j \in 1 .. Len(s) :
                     i < j /\ s[i] # Silence /\ s[j] # Silence => Earlier(s[i], s[j])
Precedes(s, t) == \A i \in 1 .. Len(s), j \in 1 .. Len(t) :
                     s[i] # Silence /\ t[j] # Silence => Earlier(s[i], t[j])
Past(s)        == \A i \in 1 .. Len(s) : s[i] # Silence => s[i][1] <= captured

OrderInv == /\ Past(device) /\ Past(ring) /\ Past(batch)
            /\ Ordered(device) /\ Ordered(ring) /\ Ordered(batch)
            /\ Precedes(device, ring) /\ Precedes(device, batch) /\ Precedes(ring, batch)

\* A sample that is not silent is a frame and a channel.
LEMMA SampleParts ==
    ASSUME NEW s \in Seq(Sample), NEW i \in 1 .. Len(s), s[i] # Silence
    PROVE  s[i][1] \in 1 .. MaxFrames /\ s[i][2] \in Nat
<1>1. s[i] \in (1 .. MaxFrames) \X Nat
  BY ElementOfSeq DEF Sample
<1> QED  BY <1>1

\* Of two samples of a packet the later one has the later frame, or its later channel.
LEMMA PacketOrdered ==
    ASSUME NEW ch \in Nat \ {0}, NEW i \in Nat \ {0}, NEW j \in Nat \ {0}, i < j
    PROVE  \/ FrameOf(i, ch) < FrameOf(j, ch)
           \/ FrameOf(i, ch) = FrameOf(j, ch) /\ ChannelOf(i, ch) < ChannelOf(j, ch)
<1> DEFINE f(x) == (x - 1) \div ch
           c(x) == (x - 1) % ch
<1>1. \A x \in Nat \ {0} : x - 1 = f(x) * ch + c(x) /\ f(x) \in Int /\ c(x) \in 0 .. ch - 1
  <2> TAKE x \in Nat \ {0}
  <2>1. x - 1 \in Int
    OBVIOUS
  <2> QED  BY <2>1, Division
<1> HIDE DEF f, c
<1>2. CASE f(i) > f(j)
  <2> DEFINE d == f(i) - f(j)
  <2>1. d \in Nat \ {0} /\ f(i) = f(j) + d
    BY <1>1, <1>2
  <2> HIDE DEF d
  <2>2. f(i) * ch = f(j) * ch + d * ch
    BY <1>1, <2>1
  <2>3. d * ch >= ch
    BY <2>1
  <2>4. f(i) * ch \in Int /\ f(j) * ch \in Int /\ d * ch \in Int
    BY <1>1, <2>1
  <2> QED  BY <1>1, <2>2, <2>3, <2>4
<1>3. CASE f(i) = f(j)
  <2>1. c(i) < c(j)
    <3>1. f(i) * ch \in Int /\ f(i) * ch = f(j) * ch
      BY <1>1, <1>3
    <3> QED  BY <1>1, <3>1
  <2> QED  BY <1>3, <2>1 DEF FrameOf, ChannelOf, f, c
<1>4. CASE f(i) < f(j)
  BY <1>4 DEF FrameOf, f
<1>5. f(i) \in Int /\ f(j) \in Int
  BY <1>1
<1> QED  BY <1>2, <1>3, <1>4, <1>5

\* A packet comes after what was captured before it, and is in order.
LEMMA CapturedInOrder ==
    ASSUME Width = 64, TypeOK, CapturePacket
    PROVE  /\ captured' >= captured
           /\ \A i \in 1 .. Len(batch') :
                 batch'[i] # Silence => /\ captured < batch'[i][1]
                                        /\ batch'[i][1] <= captured'
           /\ Ordered(batch)'
<1> USE FormatTypes
<1>1. PICK n \in PacketFrames :
         /\ n \in Nat \ {0} /\ captured' = captured + n
         /\ Len(batch') = Kept(n) /\ Kept(n) \in Nat
         /\ \A i \in 1 .. Kept(n) :
               /\ FrameOf(i, channels) \in 0 .. n - 1
               /\ ChannelOf(i, channels) \in 0 .. channels - 1
               /\ batch'[i] # Silence =>
                     batch'[i] = <<captured + 1 + FrameOf(i, channels),
                                   ChannelOf(i, channels)>>
  <2>1. \A n \in PacketFrames : n \in Nat /\ n * channels \in Nat
    BY StreamAssumption
  <2>2. \A n \in PacketFrames : Kept(n) \in 0 .. n * channels => Kept(n) \in Nat
    BY <2>1
  <2> QED  BY <2>2, PacketCut
<1>2. ASSUME NEW i \in 1 .. Len(batch'), batch'[i] # Silence
      PROVE  captured < batch'[i][1] /\ batch'[i][1] <= captured'
  <2> DEFINE f == FrameOf(i, channels)
  <2>1. f \in 0 .. n - 1 /\ batch'[i][1] = captured + 1 + f
    BY <1>1, <1>2
  <2> HIDE DEF f
  <2> QED  BY <1>1, <2>1
<1>3. ASSUME NEW i \in 1 .. Len(batch'), NEW j \in 1 .. Len(batch'), i < j,
             batch'[i] # Silence, batch'[j] # Silence
      PROVE  Earlier(batch'[i], batch'[j])
  <2>1. i \in Nat \ {0} /\ j \in Nat \ {0}
    BY <1>1
  <2> DEFINE f == FrameOf(i, channels)
             g == FrameOf(j, channels)
             c == ChannelOf(i, channels)
             d == ChannelOf(j, channels)
  <2>2. f < g \/ (f = g /\ c < d)
    BY <1>3, <2>1, PacketOrdered
  <2>3. /\ f \in 0 .. n - 1 /\ batch'[i] = <<captured + 1 + f, c>>
        /\ g \in 0 .. n - 1 /\ batch'[j] = <<captured + 1 + g, d>>
    <3>1. i \in 1 .. Kept(n) /\ j \in 1 .. Kept(n)
      BY <1>1
    <3> QED  BY <1>1, <1>3, <3>1, Zenon
  <2> HIDE DEF f, g, c, d
  <2> QED  BY <2>2, <2>3 DEF Earlier
<1> QED  BY <1>1, <1>2, <1>3 DEF Ordered

\* Each step keeps the samples in order.
LEMMA NextOrderInv ==
    ASSUME Width = 64, TypeOK, TypeOK', OrderInv, [Next]_vars
    PROVE  OrderInv'
<1> USE FormatTypes
<1>0. device \in Seq(Sample) /\ ring \in Seq(Sample) /\ batch \in Seq(Sample)
  BY DEF TypeOK
<1>1. CASE CapturePacket
  <2>1. UNCHANGED <<ring, device>> /\ batch = <<>>
    BY <1>1 DEF CapturePacket
  <2>2. captured' >= captured /\ captured' \in Nat /\ Len(batch') \in Nat
    BY <1>1, CapturedInOrder DEF TypeOK
  <2>3. \A i \in 1 .. Len(batch') : batch'[i] # Silence => /\ captured < batch'[i][1]
                                                           /\ batch'[i][1] <= captured'
    BY <1>1, CapturedInOrder
  <2>4. ASSUME NEW s \in Seq(Sample), Past(s)
        PROVE  /\ \A i \in 1 .. Len(s) : s[i] # Silence => s[i][1] <= captured'
               /\ \A i \in 1 .. Len(s), j \in 1 .. Len(batch') :
                     s[i] # Silence /\ batch'[j] # Silence => Earlier(s[i], batch'[j])
    <3>1. \A i \in 1 .. Len(s) : s[i] # Silence => s[i][1] \in Int /\ s[i][1] <= captured
      BY <2>4, SampleParts DEF Past
    <3>2. \A j \in 1 .. Len(batch') : batch'[j] # Silence => batch'[j][1] \in Int
      <4>1. batch' \in Seq(Sample)
        BY DEF TypeOK
      <4> QED  BY <4>1, SampleParts
    <3>3. \A i \in 1 .. Len(s) : s[i] # Silence => s[i][1] <= captured'
      BY <2>2, <3>1
    <3>4. ASSUME NEW i \in 1 .. Len(s), NEW j \in 1 .. Len(batch'),
                 s[i] # Silence, batch'[j] # Silence
          PROVE  s[i][1] < batch'[j][1]
      BY <2>3, <3>1, <3>2, <3>4
    <3> QED  BY <3>3, <3>4 DEF Earlier
  <2>5. Past(device)' /\ Past(ring)' /\ Precedes(device, batch)' /\ Precedes(ring, batch)'
    BY <1>0, <2>1, <2>4 DEF OrderInv, Past, Precedes
  <2>6. Past(batch)' /\ Ordered(batch)'
    BY <1>1, <2>3, CapturedInOrder DEF Past
  <2>7. Ordered(device)' /\ Ordered(ring)' /\ Precedes(device, ring)'
    BY <2>1 DEF OrderInv, Ordered, Precedes
  <2> QED  BY <2>5, <2>6, <2>7 DEF OrderInv
<1>2. CASE PublishPush
  <2>1. UNCHANGED <<device, captured>>
    BY <1>2 DEF PublishPush
  <2>2. /\ Len(ring') = Len(ring) + Len(batch) /\ Len(batch') = 0
        /\ \A i \in 1 .. Len(ring') :
              ring'[i] = IF i <= Len(ring) THEN ring[i] ELSE batch[i - Len(ring)]
    BY <1>2, PushAppends
  <2>3. \A i \in 1 .. Len(ring') :
           \/ i \in 1 .. Len(ring) /\ ring'[i] = ring[i]
           \/ /\ i > Len(ring) /\ i - Len(ring) \in 1 .. Len(batch)
              /\ ring'[i] = batch[i - Len(ring)]
    BY <2>2
  <2>4. Past(device)' /\ Ordered(device)'
    BY <2>1 DEF OrderInv, Past, Ordered
  <2>5. Past(batch)' /\ Ordered(batch)' /\ Precedes(device, batch)' /\ Precedes(ring, batch)'
    BY <2>2 DEF Past, Ordered, Precedes
  <2>6. Past(ring)'
    BY <2>1, <2>3 DEF OrderInv, Past
  <2>7. Precedes(device, ring)'
    BY <2>1, <2>3 DEF OrderInv, Precedes
  <2>8. Ordered(ring)'
    <3> SUFFICES ASSUME NEW i \in 1 .. Len(ring'), NEW j \in 1 .. Len(ring'), i < j,
                        ring'[i] # Silence, ring'[j] # Silence
                 PROVE  Earlier(ring'[i], ring'[j])
      BY DEF Ordered
    <3>1. CASE i \in 1 .. Len(ring) /\ ring'[i] = ring[i]
      <4>1. CASE j \in 1 .. Len(ring) /\ ring'[j] = ring[j]
        BY <3>1, <4>1 DEF OrderInv, Ordered
      <4>2. CASE j - Len(ring) \in 1 .. Len(batch) /\ ring'[j] = batch[j - Len(ring)]
        BY <3>1, <4>2 DEF OrderInv, Precedes
      <4> QED  BY <2>3, <4>1, <4>2
    <3>2. CASE i > Len(ring) /\ i - Len(ring) \in 1 .. Len(batch)
                  /\ ring'[i] = batch[i - Len(ring)]
      <4>1. j - Len(ring) \in 1 .. Len(batch) /\ ring'[j] = batch[j - Len(ring)]
               /\ i - Len(ring) < j - Len(ring)
        BY <2>3, <2>2, <3>2
      <4> QED  BY <3>2, <4>1 DEF OrderInv, Ordered
    <3> QED  BY <2>3, <3>1, <3>2
  <2> QED  BY <2>4, <2>5, <2>6, <2>7, <2>8 DEF OrderInv
<1>3. CASE Render
  <2>1. UNCHANGED <<batch, captured>>
    BY <1>3 DEF Render
  <2>2. /\ Len(device') = wanted
        /\ \A i \in 1 .. wanted : device'[i] = IF i <= found THEN ring[i] ELSE Silence
        /\ Len(ring') = Len(ring) - found
        /\ \A i \in 1 .. Len(ring') : ring'[i] = ring[i + found]
    BY <1>3, PopMoves
  <2>3. \A i \in 1 .. Len(device') : device'[i] # Silence =>
           i <= found /\ i \in 1 .. Len(ring) /\ device'[i] = ring[i]
    BY <2>2
  <2>4. \A i \in 1 .. Len(ring') : i + found \in 1 .. Len(ring) /\ ring'[i] = ring[i + found]
    BY <2>2
  <2>5. Past(device)' /\ Past(ring)' /\ Past(batch)'
    BY <2>1, <2>3, <2>4 DEF OrderInv, Past
  <2>6. Ordered(device)' /\ Ordered(batch)'
    BY <2>1, <2>3 DEF OrderInv, Ordered
  <2>7. Ordered(ring)'
    <3> SUFFICES ASSUME NEW i \in 1 .. Len(ring'), NEW j \in 1 .. Len(ring'), i < j,
                        ring'[i] # Silence, ring'[j] # Silence
                 PROVE  Earlier(ring'[i], ring'[j])
      BY DEF Ordered
    <3>1. i + found < j + found
      BY <2>2
    <3> QED  BY <2>4, <3>1 DEF OrderInv, Ordered
  <2>8. Precedes(device, ring)'
    <3> SUFFICES ASSUME NEW i \in 1 .. Len(device'), NEW j \in 1 .. Len(ring'),
                        device'[i] # Silence, ring'[j] # Silence
                 PROVE  Earlier(device'[i], ring'[j])
      BY DEF Precedes
    <3>1. i < j + found
      BY <2>2, <2>3
    <3> QED  BY <2>3, <2>4, <3>1 DEF OrderInv, Ordered
  <2>9. Precedes(device, batch)' /\ Precedes(ring, batch)'
    BY <2>1, <2>3, <2>4 DEF OrderInv, Precedes
  <2> QED  BY <2>5, <2>6, <2>7, <2>8, <2>9 DEF OrderInv
<1>4. CASE UNCHANGED <<device, ring, batch, captured>>
  BY <1>4 DEF OrderInv, Past, Ordered, Precedes
<1> QED  BY <1>1, <1>2, <1>3, <1>4 DEF Next, RenderRequest, vars

\* The three in order are one stream in order.
LEMMA OrderedStream == TypeOK /\ OrderInv => InOrder
<1> SUFFICES ASSUME TypeOK, OrderInv PROVE InOrder
  OBVIOUS
<1> DEFINE stream == device \o ring \o batch
           d == Len(device)
           r == Len(ring)
<1>0. device \in Seq(Sample) /\ ring \in Seq(Sample) /\ batch \in Seq(Sample)
  BY DEF TypeOK
<1>1. d \in Nat /\ r \in Nat /\ Len(batch) \in Nat
  BY <1>0
<1>2. \A i \in DOMAIN stream :
         /\ i \in Nat
         /\ \/ i \in 1 .. d /\ stream[i] = device[i]
            \/ i > d /\ i - d \in 1 .. r /\ stream[i] = ring[i - d]
            \/ i > d + r /\ i - d - r \in 1 .. Len(batch) /\ stream[i] = batch[i - d - r]
  <2> DEFINE first == device \o ring
  <2>1. /\ first \in Seq(Sample) /\ Len(first) = d + r
        /\ \A i \in 1 .. Len(first) : first[i] = IF i <= d THEN device[i] ELSE ring[i - d]
    BY <1>0, ConcatProperties
  <2> HIDE DEF first
  <2>2. /\ first \o batch \in Seq(Sample) /\ Len(first \o batch) = Len(first) + Len(batch)
        /\ \A i \in 1 .. Len(first \o batch) :
              (first \o batch)[i] = IF i <= Len(first) THEN first[i] ELSE batch[i - Len(first)]
    <3>1. first \in Seq(Sample) /\ batch \in Seq(Sample)
      BY <1>0, <2>1
    <3> QED  BY <3>1, ConcatProperties, Zenon
  <2>3. stream \in Seq(Sample) /\ DOMAIN stream = 1 .. d + r + Len(batch)
    BY <1>1, <2>1, <2>2 DEF first
  <2>4. \A i \in 1 .. d + r + Len(batch) :
           stream[i] = IF i <= d + r THEN IF i <= d THEN device[i] ELSE ring[i - d]
                       ELSE batch[i - d - r]
    BY <1>1, <2>1, <2>2 DEF first
  <2> HIDE DEF stream, d, r
  <2>5. \A i \in 1 .. d + r + Len(batch) :
           /\ i <= d => i \in 1 .. d /\ stream[i] = device[i]
           /\ i > d /\ i <= d + r => i - d \in 1 .. r /\ stream[i] = ring[i - d]
           /\ i > d + r => i - d - r \in 1 .. Len(batch) /\ stream[i] = batch[i - d - r]
    BY <1>1, <2>4
  <2> QED  BY <1>1, <2>3, <2>5
<1> SUFFICES ASSUME NEW i \in DOMAIN stream, NEW j \in DOMAIN stream, i < j,
                    stream[i] # Silence, stream[j] # Silence
             PROVE  Earlier(stream[i], stream[j])
  BY DEF InOrder, Earlier
<1> HIDE DEF stream
<1>3. CASE i \in 1 .. d /\ stream[i] = device[i]
  <2>1. CASE j \in 1 .. d /\ stream[j] = device[j]
    BY <1>3, <2>1 DEF OrderInv, Ordered
  <2>2. CASE j - d \in 1 .. r /\ stream[j] = ring[j - d]
    BY <1>3, <2>2 DEF OrderInv, Precedes
  <2>3. CASE j - d - r \in 1 .. Len(batch) /\ stream[j] = batch[j - d - r]
    BY <1>3, <2>3 DEF OrderInv, Precedes
  <2> QED  BY <1>2, <2>1, <2>2, <2>3
<1>4. CASE i > d /\ i - d \in 1 .. r /\ stream[i] = ring[i - d]
  <2>1. ~ (j \in 1 .. d)
    BY <1>1, <1>2, <1>4
  <2>2. CASE j - d \in 1 .. r /\ stream[j] = ring[j - d]
    <3>1. i - d < j - d
      BY <1>1, <1>2
    <3> QED  BY <1>4, <2>2, <3>1 DEF OrderInv, Ordered
  <2>3. CASE j - d - r \in 1 .. Len(batch) /\ stream[j] = batch[j - d - r]
    BY <1>4, <2>3 DEF OrderInv, Precedes
  <2> QED  BY <1>2, <2>1, <2>2, <2>3
<1>5. CASE i > d + r /\ i - d - r \in 1 .. Len(batch) /\ stream[i] = batch[i - d - r]
  <2>1. ~ (j \in 1 .. d) /\ ~ (j - d \in 1 .. r)
    BY <1>1, <1>2, <1>5
  <2>2. j - d - r \in 1 .. Len(batch) /\ stream[j] = batch[j - d - r]
    BY <1>2, <2>1
  <2>3. i - d - r < j - d - r
    BY <1>1, <1>2
  <2> QED  BY <1>5, <2>2, <2>3 DEF OrderInv, Ordered
<1> QED  BY <1>2, <1>3, <1>4, <1>5

LEMMA InitOrderInv == Init => OrderInv
BY DEF Init, OrderInv, Past, Ordered, Precedes

\* No sample is played twice, and none before one that was captured earlier, whatever
\* the two threads do between the two steps of a push or a pop.
THEOREM StreamInOrder ==
    ASSUME Width = 64
    PROVE  Spec => []InOrder
<1>1. Spec => []TypeOK
  BY TypesHold
<1>2. Init => OrderInv
  BY InitOrderInv
<1>3. TypeOK /\ TypeOK' /\ OrderInv /\ [Next]_vars => OrderInv'
  BY NextOrderInv
<1>4. TypeOK /\ OrderInv => InOrder
  BY OrderedStream
<1> QED  BY <1>1, <1>2, <1>3, <1>4, PTL DEF Spec

-----------------------------------------------------------------------------
(* The frames *)

\* The samples are whole frames: their number is a multiple of the channels, and the
\* slots of a frame hold the channels of one captured frame.
Multiple(x) == \E q \in Nat : x = q * channels
SameFrame(s, i, j) ==
    /\ s[i] # Silence => s[i][2] = ChannelOf(i, channels)
    /\ FrameOf(i, channels) = FrameOf(j, channels) /\ s[i] # Silence
          => \/ s[j] # Silence /\ s[j][1] = s[i][1]
             \/ ChannelOf(j, channels) >= capChannels
InSlots(s)  == \A i, j \in 1 .. Len(s) : SameFrame(s, i, j)
Framed(s)   == Multiple(Len(s)) /\ InSlots(s)

FrameInv == Capacity(channels) % channels = 0 =>
               /\ Framed(device) /\ Framed(ring) /\ Framed(batch)
               /\ Multiple(wanted) /\ Multiple(found)

\* Samples that are moved by whole frames keep their slots.
LEMMA FrameShift ==
    ASSUME NEW ch \in Nat \ {0}, NEW q \in Nat, NEW i \in Nat \ {0}
    PROVE  /\ FrameOf(i + q * ch, ch) = FrameOf(i, ch) + q
           /\ ChannelOf(i + q * ch, ch) = ChannelOf(i, ch)
           /\ FrameOf(i, ch) \in Int
<1> DEFINE f == (i - 1) \div ch
           c == (i - 1) % ch
           x == (i + q * ch) - 1
<1>1. i - 1 = f * ch + c /\ f \in Int /\ c \in 0 .. ch - 1
  <2>1. i - 1 \in Int
    OBVIOUS
  <2> QED  BY <2>1, Division
<1> HIDE DEF f, c
<1>2. x = (f + q) * ch + c /\ x \in Int /\ f + q \in Int
  <2>1. (f + q) * ch = f * ch + q * ch
    BY <1>1
  <2>2. f * ch \in Int /\ q * ch \in Int /\ (f + q) * ch \in Int
    BY <1>1
  <2> QED  BY <1>1, <2>1, <2>2
<1> HIDE DEF x
<1>3. x \div ch = f + q /\ x % ch = c
  BY <1>1, <1>2, DivUnique, ModUnique
<1> QED  BY <1>1, <1>3, Zenon DEF FrameOf, ChannelOf, f, c, x

\* The first samples are the first frames.
LEMMA FrameWithin ==
    ASSUME NEW ch \in Nat \ {0}, NEW q \in Nat, NEW i \in Nat \ {0}
    PROVE  i <= q * ch <=> FrameOf(i, ch) < q
<1> DEFINE f == FrameOf(i, ch)
           c == (i - 1) % ch
<1>1. i - 1 = f * ch + c /\ f \in Int /\ c \in 0 .. ch - 1
  <2>1. i - 1 \in Int
    OBVIOUS
  <2> QED  BY <2>1, Division DEF FrameOf
<1> HIDE DEF f, c
<1>2. f * ch \in Int /\ q * ch \in Int
  BY <1>1
<1>3. ASSUME f < q PROVE i <= q * ch
  <2> DEFINE d == q - f
  <2>1. d \in Nat \ {0} /\ q = f + d
    BY <1>1, <1>3
  <2> HIDE DEF d
  <2>2. q * ch = f * ch + d * ch /\ d * ch >= ch /\ d * ch \in Int
    BY <1>1, <2>1
  <2> QED  BY <1>1, <1>2, <2>2
<1>4. ASSUME ~ (f < q) PROVE ~ (i <= q * ch)
  <2> DEFINE d == f - q
  <2>1. d \in Nat /\ f = q + d
    BY <1>1, <1>4
  <2> HIDE DEF d
  <2>2. f * ch = q * ch + d * ch /\ d * ch >= 0 /\ d * ch \in Int
    BY <1>1, <2>1
  <2> QED  BY <1>1, <1>2, <2>2
<1> QED  BY <1>3, <1>4 DEF f

\* Sums and differences of multiples, and the lesser of two.
LEMMA Multiples ==
    ASSUME channels \in Nat \ {0}, NEW x, NEW y, Multiple(x), Multiple(y)
    PROVE  /\ x \in Nat /\ y \in Nat
           /\ Multiple(x + y)
           /\ y <= x => Multiple(x - y)
           /\ Multiple(AtMost(x, y))
<1>1. PICK p \in Nat : x = p * channels
  BY DEF Multiple
<1>2. PICK q \in Nat : y = q * channels
  BY DEF Multiple
<1>3. x \in Nat /\ y \in Nat
  BY <1>1, <1>2
<1>4. Multiple(x + y)
  <2>1. x + y = (p + q) * channels /\ p + q \in Nat
    BY <1>1, <1>2
  <2> QED  BY <2>1 DEF Multiple
<1>5. ASSUME y <= x PROVE Multiple(x - y)
  <2>1. p >= q
    <3>1. ASSUME p < q PROVE FALSE
      <4> DEFINE d == q - p
      <4>1. d \in Nat \ {0} /\ q = p + d
        BY <3>1
      <4> HIDE DEF d
      <4>2. y = x + d * channels /\ d * channels >= channels /\ d * channels \in Int
        BY <1>1, <1>2, <4>1
      <4> QED  BY <1>3, <1>5, <4>2
    <3> QED  BY <3>1
  <2>2. x - y = (p - q) * channels /\ p - q \in Nat
    BY <1>1, <1>2, <2>1
  <2> QED  BY <2>2 DEF Multiple
<1>6. Multiple(AtMost(x, y))
  BY DEF AtMost
<1> QED  BY <1>3, <1>4, <1>5, <1>6

\* A packet is put into the ring by whole frames, as the room in the ring is.
LEMMA CaptureFrames ==
    ASSUME Width = 64, TypeOK, Capacity(channels) % channels = 0, Framed(ring),
           CapturePacket
    PROVE  Framed(batch')
<1> USE FormatTypes
<1>1. PICK n \in PacketFrames :
         /\ n \in Nat \ {0} /\ captured + n <= MaxFrames
         /\ Len(batch') = Kept(n) /\ Kept(n) \in 0 .. n * channels
         /\ \A i \in 1 .. Kept(n) :
               /\ FrameOf(i, channels) \in 0 .. n - 1
               /\ ChannelOf(i, channels) \in 0 .. channels - 1
         /\ \/ \A i \in 1 .. Kept(n) : batch'[i] = Silence
            \/ \A i \in 1 .. Kept(n) :
                  batch'[i] = IF ChannelOf(i, channels) < capChannels
                                THEN <<captured + 1 + FrameOf(i, channels),
                                       ChannelOf(i, channels)>>
                                ELSE Silence
  BY PacketCut
<1>2. Multiple(Kept(n))
  <2>1. Multiple(n * channels)
    BY <1>1 DEF Multiple
  <2>2. Multiple(Capacity(channels))
    <3> DEFINE q == Capacity(channels) \div channels
    <3>1. Capacity(channels) \in Int
      OBVIOUS
    <3>2. Capacity(channels) = q * channels + (Capacity(channels) % channels) /\ q \in Int
      BY <3>1, Division
    <3> HIDE DEF q
    <3>3. Capacity(channels) = q * channels
      BY <3>2
    <3>4. q < 0 => q * channels < 0
      BY <3>2
    <3>5. q \in Nat
      BY <3>2, <3>3, <3>4
    <3> QED  BY <3>3, <3>5 DEF Multiple
  <2>3. Len(ring) <= Capacity(channels) /\ Multiple(Len(ring))
    BY DEF TypeOK, Framed
  <2>4. Multiple(Capacity(channels) - Len(ring))
    BY <2>2, <2>3, Multiples
  <2> QED  BY <2>1, <2>4, Multiples DEF Kept
<1>3. \A i \in 1 .. Kept(n) : batch'[i] # Silence =>
         /\ ChannelOf(i, channels) < capChannels
         /\ batch'[i][1] = captured + 1 + FrameOf(i, channels)
         /\ batch'[i][2] = ChannelOf(i, channels)
         /\ \A j \in 1 .. Kept(n) : ChannelOf(j, channels) < capChannels =>
               /\ batch'[j] # Silence
               /\ batch'[j][1] = captured + 1 + FrameOf(j, channels)
  <2>1. CASE \A i \in 1 .. Kept(n) : batch'[i] = Silence
    BY <2>1
  <2>2. CASE \A i \in 1 .. Kept(n) :
                batch'[i] = IF ChannelOf(i, channels) < capChannels
                              THEN <<captured + 1 + FrameOf(i, channels),
                                     ChannelOf(i, channels)>>
                              ELSE Silence
    <3>1. ASSUME NEW j \in 1 .. Kept(n), ChannelOf(j, channels) < capChannels
          PROVE  batch'[j] # Silence
      <4> DEFINE f == FrameOf(j, channels)
                 c == ChannelOf(j, channels)
      <4>1. f \in 0 .. n - 1 /\ c \in 0 .. channels - 1
        BY <1>1
      <4>2. batch'[j] = <<captured + 1 + f, c>>
        BY <2>2, <3>1
      <4> HIDE DEF f, c
      <4>3. /\ captured \in Nat /\ n \in Nat /\ MaxFrames \in Nat /\ channels \in Nat
            /\ captured + n <= MaxFrames
        BY <1>1, StreamAssumption
      <4>4. captured + 1 + f \in 1 .. MaxFrames /\ c \in Nat
        BY ONLY <4>1, <4>3
      <4> QED  BY <4>2, <4>4, FramesAreNotSilence
    <3>2. ASSUME NEW j \in 1 .. Kept(n), ChannelOf(j, channels) < capChannels
          PROVE  batch'[j] = <<captured + 1 + FrameOf(j, channels), ChannelOf(j, channels)>>
      BY <2>2, <3>2
    <3>3. \A i \in 1 .. Kept(n) : batch'[i] # Silence => ChannelOf(i, channels) < capChannels
      BY <2>2
    <3> QED  BY <3>1, <3>2, <3>3
  <2> QED  BY <1>1, <2>1, <2>2
<1>4. InSlots(batch')
  <2> SUFFICES ASSUME NEW i \in 1 .. Kept(n), NEW j \in 1 .. Kept(n)
               PROVE  SameFrame(batch', i, j)
    BY <1>1 DEF InSlots
  <2>1. ChannelOf(j, channels) \in Nat
    BY <1>1
  <2> QED  BY <1>3, <2>1 DEF SameFrame
<1> QED  BY <1>1, <1>2, <1>4 DEF Framed

\* What is appended to whole frames begins a frame.
LEMMA PushFrames ==
    ASSUME Width = 64, TypeOK, Framed(ring), Framed(batch), PublishPush
    PROVE  Framed(ring') /\ Framed(batch')
<1> USE FormatTypes
<1>1. /\ Len(ring') = Len(ring) + Len(batch) /\ Len(batch') = 0
      /\ \A i \in 1 .. Len(ring') :
            ring'[i] = IF i <= Len(ring) THEN ring[i] ELSE batch[i - Len(ring)]
  BY PushAppends
<1>2. Multiple(Len(ring'))
  <2>1. Multiple(Len(ring) + Len(batch))
    BY Multiples DEF Framed
  <2> QED  BY <1>1, <2>1 DEF Multiple
<1>3. InSlots(ring')
  <2>1. PICK q \in Nat : Len(ring) = q * channels
    BY DEF Framed, Multiple
  <2> DEFINE r == Len(ring)
  <2>2. \A i \in 1 .. Len(ring') :
           \/ /\ i \in 1 .. r /\ ring'[i] = ring[i] /\ FrameOf(i, channels) < q
           \/ /\ i - r \in 1 .. Len(batch) /\ ring'[i] = batch[i - r]
              /\ ~ (FrameOf(i, channels) < q)
              /\ FrameOf(i, channels) = FrameOf(i - r, channels) + q
              /\ FrameOf(i - r, channels) \in Int
              /\ ChannelOf(i, channels) = ChannelOf(i - r, channels)
    <3> TAKE i \in 1 .. Len(ring')
    <3>0. i \in Nat \ {0}
      OBVIOUS
    <3>1. i <= r <=> FrameOf(i, channels) < q
      BY <2>1, <3>0, FrameWithin
    <3>2. CASE i <= r
      BY <1>1, <3>0, <3>1, <3>2
    <3>3. CASE ~ (i <= r)
      <4> DEFINE k == i - r
      <4>1. k \in 1 .. Len(batch) /\ k \in Nat \ {0} /\ i = k + q * channels
               /\ ring'[i] = batch[k]
        <5>1. k \in 1 .. Len(batch) /\ ring'[i] = batch[k]
          BY <1>1, <3>0, <3>3
        <5>2. i = k + r /\ r = q * channels
          BY <2>1, <3>0
        <5> HIDE DEF r, k
        <5> QED  BY <5>1, <5>2
      <4> HIDE DEF k
      <4>2. /\ FrameOf(i, channels) = FrameOf(k, channels) + q
            /\ ChannelOf(i, channels) = ChannelOf(k, channels)
            /\ FrameOf(k, channels) \in Int
        BY <4>1, FrameShift
      <4> QED  BY <3>1, <3>3, <4>1, <4>2 DEF k
    <3> QED  BY <3>2, <3>3
  <2> SUFFICES ASSUME NEW i \in 1 .. Len(ring'), NEW j \in 1 .. Len(ring')
               PROVE  SameFrame(ring', i, j)
    BY DEF InSlots
  <2>3. CASE i \in 1 .. r /\ ring'[i] = ring[i] /\ FrameOf(i, channels) < q
    <3>1. FrameOf(i, channels) = FrameOf(j, channels) => j \in 1 .. r /\ ring'[j] = ring[j]
      BY <2>2, <2>3
    <3> QED  BY <2>3, <3>1 DEF Framed, InSlots, SameFrame
  <2>4. CASE /\ i - r \in 1 .. Len(batch) /\ ring'[i] = batch[i - r]
             /\ ~ (FrameOf(i, channels) < q)
             /\ FrameOf(i, channels) = FrameOf(i - r, channels) + q
             /\ FrameOf(i - r, channels) \in Int
             /\ ChannelOf(i, channels) = ChannelOf(i - r, channels)
    <3>1. FrameOf(i, channels) = FrameOf(j, channels) =>
             /\ j - r \in 1 .. Len(batch) /\ ring'[j] = batch[j - r]
             /\ FrameOf(i - r, channels) = FrameOf(j - r, channels)
             /\ ChannelOf(j, channels) = ChannelOf(j - r, channels)
      BY <2>2, <2>4
    <3> HIDE DEF r
    <3> QED  BY <2>4, <3>1 DEF Framed, InSlots, SameFrame
  <2> QED  BY <2>2, <2>3, <2>4
<1>4. Multiple(Len(batch')) /\ InSlots(batch')
  <2>1. 0 = 0 * channels
    OBVIOUS
  <2>2. Multiple(Len(batch'))
    BY <1>1, <2>1 DEF Multiple
  <2>3. InSlots(batch')
    BY ONLY <1>1 DEF InSlots
  <2> QED  BY <2>2, <2>3
<1> QED  BY <1>2, <1>3, <1>4 DEF Framed

\* What a pop takes off ends a frame, and so does the silence after it.
LEMMA PopFrames ==
    ASSUME Width = 64, TypeOK, Framed(ring), Multiple(wanted), Multiple(found), Render
    PROVE  Framed(device') /\ Framed(ring')
<1> USE FormatTypes
<1>1. /\ Len(device') = wanted
      /\ \A i \in 1 .. wanted : device'[i] = IF i <= found THEN ring[i] ELSE Silence
      /\ Len(ring') = Len(ring) - found
      /\ \A i \in 1 .. Len(ring') : ring'[i] = ring[i + found]
  BY PopMoves
<1>2. PICK q \in Nat : found = q * channels
  BY DEF Multiple
<1>3. InSlots(device')
  <2> SUFFICES ASSUME NEW i \in 1 .. wanted, NEW j \in 1 .. wanted
               PROVE  SameFrame(device', i, j)
    BY <1>1 DEF InSlots
  <2>1. i \in Nat \ {0} /\ j \in Nat \ {0}
    OBVIOUS
  <2>2. device'[i] # Silence => i <= found /\ i \in 1 .. Len(ring) /\ device'[i] = ring[i]
    BY <1>1
  <2>3. FrameOf(i, channels) = FrameOf(j, channels) /\ device'[i] # Silence =>
           j <= found /\ j \in 1 .. Len(ring) /\ device'[j] = ring[j]
    <3>1. i <= found <=> FrameOf(i, channels) < q
      BY <1>2, <2>1, FrameWithin
    <3>2. j <= found <=> FrameOf(j, channels) < q
      BY <1>2, <2>1, FrameWithin
    <3> QED  BY <1>1, <2>2, <3>1, <3>2
  <2> QED  BY <2>2, <2>3 DEF Framed, InSlots, SameFrame
<1>4. InSlots(ring')
  <2>1. \A i \in 1 .. Len(ring') :
           /\ i + found \in 1 .. Len(ring) /\ ring'[i] = ring[i + found]
           /\ FrameOf(i + found, channels) = FrameOf(i, channels) + q
           /\ ChannelOf(i + found, channels) = ChannelOf(i, channels)
    <3> TAKE i \in 1 .. Len(ring')
    <3>1. i \in Nat \ {0} /\ i + found \in 1 .. Len(ring)
      BY <1>1
    <3> QED  BY <1>1, <1>2, <3>1, FrameShift
  <2> SUFFICES ASSUME NEW i \in 1 .. Len(ring'), NEW j \in 1 .. Len(ring')
               PROVE  SameFrame(ring', i, j)
    BY DEF InSlots
  <2>2. FrameOf(i, channels) = FrameOf(j, channels)
           => FrameOf(i + found, channels) = FrameOf(j + found, channels)
    BY <2>1
  <2> DEFINE x == i + found
             y == j + found
  <2>3. /\ x \in 1 .. Len(ring) /\ y \in 1 .. Len(ring)
        /\ ring'[i] = ring[x] /\ ring'[j] = ring[y]
        /\ ChannelOf(x, channels) = ChannelOf(i, channels)
        /\ ChannelOf(y, channels) = ChannelOf(j, channels)
    BY <2>1
  <2>4. FrameOf(i, channels) = FrameOf(j, channels)
           => FrameOf(x, channels) = FrameOf(y, channels)
    BY <2>2
  <2> HIDE DEF x, y
  <2> QED  BY <2>3, <2>4 DEF Framed, InSlots, SameFrame
<1>5. Multiple(Len(ring'))
  <2>1. Multiple(Len(ring) - found)
    BY Multiples DEF Framed
  <2> QED  BY <1>1, <2>1 DEF Multiple
<1> QED  BY <1>1, <1>3, <1>4, <1>5 DEF Framed

\* Each step keeps whole frames.
LEMMA NextFrameInv ==
    ASSUME Width = 64, TypeOK, FrameInv, [Next]_vars
    PROVE  FrameInv'
<1> USE FormatTypes
<1>1. UNCHANGED channels /\ UNCHANGED capChannels /\ UNCHANGED Capacity(channels)
  <2>1. UNCHANGED formats
    BY DEF Next, CapturePacket, PublishPush, RenderRequest, Render, vars
  <2> QED  BY <2>1 DEF formats, Capacity, RingCapacitySamples
<1> SUFFICES ASSUME Capacity(channels) % channels = 0
             PROVE  /\ Framed(device') /\ Framed(ring') /\ Framed(batch')
                    /\ Multiple(wanted') /\ Multiple(found')
  BY <1>1 DEF FrameInv, Framed, Multiple, InSlots, SameFrame
<1>2. /\ Framed(device) /\ Framed(ring) /\ Framed(batch)
      /\ Multiple(wanted) /\ Multiple(found)
  BY DEF FrameInv
<1>3. CASE CapturePacket
  <2>1. UNCHANGED <<ring, device, wanted, found>>
    BY <1>3 DEF CapturePacket
  <2>2. Framed(batch')
    BY <1>2, <1>3, CaptureFrames
  <2> QED  BY <1>2, <2>1, <2>2
<1>4. CASE PublishPush
  <2>1. UNCHANGED <<device, wanted, found>>
    BY <1>4 DEF PublishPush
  <2>2. Framed(ring') /\ Framed(batch')
    BY <1>2, <1>4, PushFrames
  <2> QED  BY <1>2, <2>1, <2>2
<1>5. CASE RenderRequest
  <2>1. UNCHANGED <<device, ring, batch>> /\ found' = AtMost(wanted', Len(ring))
    BY <1>5 DEF RenderRequest
  <2>2. Multiple(wanted')
    <3>1. \A frames \in 1 .. DeviceFrames : frames \in Nat
      OBVIOUS
    <3> QED  BY <1>5, <3>1 DEF RenderRequest, Multiple
  <2>3. Multiple(found')
    BY <1>2, <2>1, <2>2, Multiples DEF Framed
  <2> QED  BY <1>2, <2>1, <2>2, <2>3
<1>6. CASE Render
  <2>1. UNCHANGED batch /\ wanted' = 0 /\ found' = 0
    BY <1>6 DEF Render
  <2>2. Framed(device') /\ Framed(ring')
    BY <1>2, <1>6, PopFrames
  <2>3. Multiple(0)
    <3>1. 0 = 0 * channels
      OBVIOUS
    <3> QED  BY <3>1 DEF Multiple
  <2> QED  BY <1>2, <2>1, <2>2, <2>3
<1>7. CASE UNCHANGED vars
  BY <1>2, <1>7 DEF vars
<1> QED  BY <1>3, <1>4, <1>5, <1>6, <1>7 DEF Next

LEMMA FramedDevice == TypeOK /\ FrameInv => WholeFrames
<1> SUFFICES ASSUME TypeOK, FrameInv, Capacity(channels) % channels = 0
             PROVE  \A i, j \in DOMAIN device :
                       /\ device[i] # Silence => device[i][2] = ChannelOf(i, channels)
                       /\ FrameOf(i, channels) = FrameOf(j, channels) /\ device[i] # Silence
                             => \/ device[j] # Silence /\ device[j][1] = device[i][1]
                                \/ ChannelOf(j, channels) >= capChannels
  BY DEF WholeFrames
<1>1. DOMAIN device = 1 .. Len(device)
  BY DEF TypeOK
<1>2. InSlots(device)
  BY DEF FrameInv, Framed
<1> QED  BY ONLY <1>1, <1>2 DEF InSlots, SameFrame

LEMMA InitFrameInv == Init => FrameInv
<1> SUFFICES ASSUME Init PROVE FrameInv
  OBVIOUS
<1>1. channels \in Nat /\ 0 = 0 * channels
  BY StreamAssumption DEF Init
<1>2. Multiple(0)
  BY <1>1 DEF Multiple
<1>3. Len(<<>>) = 0 /\ InSlots(<<>>)
  BY DEF InSlots
<1> QED  BY <1>2, <1>3 DEF Init, FrameInv, Framed

\* No channel is played in the place of another, and no frame is put together from
\* two, for each format and whatever a full ring leaves out.
THEOREM FramesStayWhole ==
    ASSUME Width = 64
    PROVE  Spec => []WholeFrames
<1>1. Spec => []TypeOK
  BY TypesHold
<1>2. Init => FrameInv
  BY InitFrameInv
<1>3. TypeOK /\ FrameInv /\ [Next]_vars => FrameInv'
  BY NextFrameInv
<1>4. TypeOK /\ FrameInv => WholeFrames
  BY FramedDevice
<1> QED  BY <1>1, <1>2, <1>3, <1>4, PTL DEF Spec

-----------------------------------------------------------------------------
(* What a full ring leaves out *)

LEMMA CutOnlyWhenFull ==
    ASSUME Width = 64, \A ch \in RenderChannels : Covered(RingCapacitySamples(ch)),
           TypeOK, [Next]_vars,
           captured' # captured, Len(batch') < (captured' - captured) * channels
    PROVE  Len(ring) + (captured' - captured) * channels > 4 * BufferFrames * channels
<1> USE FormatTypes
<1>1. CapturePacket
  BY DEF Next, PublishPush, RenderRequest, Render, vars
<1>2. PICK n \in PacketFrames :
         /\ n \in Nat \ {0} /\ captured' = captured + n
         /\ Len(batch') = Kept(n) /\ Kept(n) \in 0 .. n * channels
  BY <1>1, PacketCut
<1> DEFINE k == n * channels
           asked == 4 * BufferFrames * channels
<1>3. (captured' - captured) * channels = k /\ k \in Nat
  <2>1. captured' - captured = n
    BY <1>2
  <2> QED  BY <1>2, <2>1
<1>4. Kept(n) = Capacity(channels) - Len(ring)
  <2>1. Kept(n) < k
    BY <1>2, <1>3
  <2> QED  BY <1>3, <2>1 DEF Kept, AtMost
<1>5. Capacity(channels) >= asked /\ asked \in Nat
  <2>1. Capacity(channels) >= RingCapacitySamples(channels)
    BY CapacityHolds DEF TypeOK
  <2>2. RingCapacitySamples(channels) = asked /\ asked \in Nat
    BY StreamAssumption DEF RingCapacitySamples
  <2> QED  BY <2>1, <2>2
<1>6. Capacity(channels) - Len(ring) < k
  BY <1>2, <1>3, <1>4
<1> HIDE DEF k, asked
<1>7. Len(ring) + k > asked
  BY <1>3, <1>5, <1>6
<1> QED  BY <1>3, <1>7 DEF asked

\* What the source gives the constants: BUFFER_SIZE_FRAMES, and a count of channels
\* of 16 bits (common.h:11, audio_engine.cpp:25-27).
SourceFormats == BufferFrames <= 4800 /\ \A ch \in RenderChannels : ch < 65536

\* Each request is below 2^31.
LEMMA RequestsCovered ==
    ASSUME SourceFormats, NEW ch \in RenderChannels
    PROVE  Covered(RingCapacitySamples(ch))
<1>1. ch \in Nat /\ ch < 65536
  BY StreamAssumption DEF SourceFormats
<1>2. BufferFrames \in Nat /\ BufferFrames <= 4800
  BY StreamAssumption DEF SourceFormats
<1> DEFINE n == BufferFrames * ch
<1>3. n \in Nat /\ n <= 4800 * ch
  BY ONLY <1>1, <1>2
<1> HIDE DEF n
<1>4. n * 4 \in Nat /\ n * 4 < 2^31
  BY ONLY <1>1, <1>3
<1> QED  BY <1>4 DEF Covered, RingCapacitySamples, n

\* A ring drops samples only when more than four buffers of frames would wait in it.
THEOREM RingGivesHeadroom ==
    ASSUME Width = 64, SourceFormats
    PROVE  Spec => Headroom
<1>0. \A ch \in RenderChannels : Covered(RingCapacitySamples(ch))
  BY RequestsCovered
<1>1. Spec => []TypeOK
  BY TypesHold
<1>2. TypeOK /\ [Next]_vars
         => [captured' # captured /\ Len(batch') < (captured' - captured) * channels
                => Len(ring) + (captured' - captured) * channels
                      > 4 * BufferFrames * channels]_vars
  BY <1>0, CutOnlyWhenFull
<1> QED  BY <1>1, <1>2, PTL DEF Spec, Headroom
=============================================================================
