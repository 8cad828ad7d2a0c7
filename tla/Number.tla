------------------------------- MODULE Number -------------------------------
(***************************************************************************)
(* udiv64 and umod64, src/lib/number.c.  The 64-bit build divides with the *)
(* processor; the 32-bit build runs a loop over the bits of the dividend,  *)
(* from the highest, that is the same in both functions: udiv64 returns    *)
(* its quotient, umod64 its remainder.  One step is one iteration.         *)
(***************************************************************************)
EXTENDS Integers

CONSTANT Width   \* bits of a uint64_t

ASSUME NumberAssumption == Width \in Nat \ {0}

\* Of 2.
Power[k \in 0 .. Width] == IF k = 0 THEN 1 ELSE 2 * Power[k - 1]

VARIABLES
  cpu,    \* "x86" or "x86_64"
  n, d,   \* dividend and divisor
  q, r,   \* quotient and remainder
  bit     \* i, the bit the loop looks at next; -1 when it is through

divVars == <<n, d, q, r, bit>>

NumberInit ==
  /\ cpu \in {"x86", "x86_64"}
  /\ n = 0 /\ d = 1 /\ q = 0 /\ r = 0 /\ bit = -1

\* The processor divides at once.  It does not divide by 0: see Calculator.
Divide(dividend, divisor) ==
  /\ n' = dividend /\ d' = divisor
  /\ IF cpu = "x86"
     THEN q' = 0 /\ r' = 0 /\ bit' = Width - 1
     ELSE q' = dividend \div divisor /\ r' = dividend % divisor /\ bit' = -1

\* Shifting moves the highest bit of r out of the word.
Shifted == ((2 * r) % Power[Width]) + ((n \div Power[bit]) % 2)

\* Mutant: a remainder as large as the divisor stays.
DivideBitLate ==
  /\ bit >= 0
  /\ IF Shifted > d
     THEN r' = Shifted - d /\ q' = q + Power[bit]
     ELSE r' = Shifted /\ q' = q
  /\ bit' = bit - 1
  /\ UNCHANGED <<cpu, n, d>>

DivideBit ==
  /\ bit >= 0
  /\ IF Shifted >= d
     THEN r' = Shifted - d /\ q' = q + Power[bit]
     ELSE r' = Shifted /\ q' = q
  /\ bit' = bit - 1
  /\ UNCHANGED <<cpu, n, d>>

\* After every iteration quotient and remainder are those of the bits looked at
\* so far: the shift never loses a bit, for no divisor.  A divisor of 0 leaves
\* the dividend as remainder and sets every bit of the quotient.
DivInv ==
  LET seen == n \div Power[bit + 1]
      found == q \div Power[bit + 1]
  IN /\ q = found * Power[bit + 1]
     /\ d > 0 => seen = found * d + r /\ r < d
     /\ d = 0 => r = seen /\ q + Power[bit + 1] = Power[Width]
=============================================================================
