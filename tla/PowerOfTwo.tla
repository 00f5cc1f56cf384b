----------------------------- MODULE PowerOfTwo -----------------------------
(***************************************************************************)
(* next_power_of_two (ring_buffer.h), which gives a ring its capacity.     *)
(*                                                                         *)
(* A size_t is the set of its bits that are one, so that shifts and the    *)
(* carries of + 1 and - 1 act on bits as they do in the machine, and 2^63  *)
(* needs no big number.                                                    *)
(***************************************************************************)
EXTENDS Integers, FiniteSetsExt

CONSTANTS Width,     \* bits of a size_t
          Requests   \* capacities a ring may be asked for, as sets of bits

Bit  == 0 .. Width - 1
Word == SUBSET Bit

ASSUME WordAssumption == /\ Width \in Nat \ {0}
                         /\ Requests \subseteq Word

\* A number below 2^31 as its bits, and back.
Bits(n)  == {b \in Bit \cap (0 .. 30) : (n \div 2^b) % 2 = 1}
Value(v) == MapThenSumSet(LAMBDA b : 2^b, v)

\* x < y: the highest bit in which they differ is one of y's.
Less(x, y) == \E b \in y \ x : \A c \in x \ y : c < b

\* The lowest bit that is one, or zero.
LowestOne(v)  == CHOOSE b \in v : \A c \in v : b <= c
LowestZero(v) == CHOOSE b \in (0 .. Width) \ v : \A c \in (0 .. Width) \ v : b <= c

\* v - 1 for v > 0: the borrow turns the zeros below the lowest one to ones.
Decrement(v) == {b \in v : b > LowestOne(v)} \cup {b \in Bit : b < LowestOne(v)}

\* v + 1: the carry turns the ones below the lowest zero to zeros, and is lost
\* when it leaves the word.
Increment(v) == {b \in v : b > LowestZero(v)} \cup ({LowestZero(v)} \cap Bit)

\* v | (v >> k)
Smear(v, k) == v \cup {b \in Bit : b + k \in v}

\* Bug: a request that is a power of two is doubled.
NextPowerOfTwoDoubled(v) ==
    IF v = {}
      THEN {0}
      ELSE Increment(Smear(Smear(Smear(Smear(Smear(Smear(v, 1), 2), 4), 8), 16), 32))

NextPowerOfTwo(v) ==
    IF v = {}
      THEN {0}
      ELSE Increment(Smear(Smear(Smear(Smear(Smear(Smear(Decrement(v), 1), 2), 4), 8),
                                 16), 32))

\* A power of two that is no less than v, and no greater one than necessary.
LeastPower(v, p) == \E m \in Bit : /\ p = {m}
                                   /\ ~Less({m}, v)
                                   /\ \A k \in Bit : ~Less({k}, v) => m <= k

\* There is one in the word.
HasPower(v) == ~Less({Width - 1}, v)
=============================================================================
