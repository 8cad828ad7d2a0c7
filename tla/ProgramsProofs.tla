---------------------------- MODULE ProgramsProofs ----------------------------
(***************************************************************************)
(* Proofs about the programs that compute on text and numbers, for every   *)
(* width of a word, file and string.                                       *)
(***************************************************************************)
EXTENDS Programs, FiniteSetTheorems, SequenceTheorems, WellFoundedInduction, TLAPS

-----------------------------------------------------------------------------
(* Numbers, and functions defined from one number to the next *)

\* The order of the natural numbers, as a relation, is well founded.
LEMMA NumbersWellFounded ==
  \E R : IsWellFoundedOn(R, Nat) /\ \A x, y \in Nat : x < y => <<x, y>> \in R
<1>1. IsWellFoundedOn(OpToRel(<, Nat), Nat)
  BY NatLessThanWellFounded, Zenon
<1>2. \A x, y \in Nat : x < y => <<x, y>> \in OpToRel(<, Nat)
  BY Zenon DEF OpToRel
<1>3. QED BY <1>1, <1>2, Zenon

\* A set of numbers that is not empty has a least one.
LEMMA LeastNumber ==
  ASSUME NEW S, S \subseteq Nat, S # {}
  PROVE  \E x \in S : \A y \in S : x <= y
<1>1. PICK R : IsWellFoundedOn(R, Nat) /\ \A x, y \in Nat : x < y => <<x, y>> \in R
  BY NumbersWellFounded, Zenon
<1>2. IsWellFoundedOn(R, Nat)
  BY <1>1
<1>3. PICK x \in S : \A y \in S : ~(<<y, x>> \in R)
  BY <1>2, WFMin
<1>4. ASSUME NEW y \in S PROVE x <= y
  <2>1. x \in Nat /\ y \in Nat
    OBVIOUS
  <2>2. ~(y < x)
    BY <1>1, <1>3, <2>1, Zenon
  <2>3. QED BY <2>1, <2>2
<1>5. QED BY <1>4

\* What holds of 0, and of a number whenever it holds of the one before, holds up to top.
LEMMA Upwards ==
  ASSUME NEW top \in Nat, NEW P, 0 \in P, \A k \in 1 .. top : k - 1 \in P => k \in P
  PROVE  0 .. top \subseteq P
<1> DEFINE S == {k \in 0 .. top : k \notin P}
<1>1. SUFFICES ASSUME S # {} PROVE FALSE
  OBVIOUS
<1>2. PICK k \in S : \A y \in S : k <= y
  <2>1. S \subseteq Nat
    OBVIOUS
  <2> HIDE DEF S
  <2>2. QED BY <1>1, <2>1, LeastNumber
<1>3. k \in 1 .. top /\ k - 1 \notin S
  BY <1>2
<1>4. QED BY <1>2, <1>3

\* F is applied to every number up to top and the value at the number before it.
Along(g, top, S, base, F) ==
  /\ g \in [0 .. top -> S]
  /\ g[0] = base
  /\ \A k \in 1 .. top : g[k] = F[<<k, g[k - 1]>>]

LEMMA AlongExists ==
  ASSUME NEW top \in Nat, NEW S, NEW base \in S, NEW F, \A k \in 1 .. top, x \in S : F[<<k, x>>] \in S
  PROVE  \E g : Along(g, top, S, base, F)
<1> DEFINE P == {m \in 0 .. top : \E g : Along(g, m, S, base, F)}
<1>1. 0 \in P
  <2>1. Along([k \in 0 .. 0 |-> base], 0, S, base, F)
    BY DEF Along
  <2>2. QED BY <2>1
<1>2. ASSUME NEW m \in 1 .. top, m - 1 \in P PROVE m \in P
  <2>1. PICK f : Along(f, m - 1, S, base, F)
    BY <1>2
  <2> DEFINE g == [k \in 0 .. m |-> IF k = m THEN F[<<m, f[m - 1]>>] ELSE f[k]]
  <2>2. f \in [0 .. (m - 1) -> S] /\ m - 1 \in 0 .. (m - 1)
    BY <2>1 DEF Along
  <2>3. F[<<m, f[m - 1]>>] \in S
    BY <2>2
  <2>4. g \in [0 .. m -> S]
    BY <2>2, <2>3
  <2>5. g[0] = base
    BY <2>1 DEF Along
  <2>6. ASSUME NEW k \in 1 .. m PROVE g[k] = F[<<k, g[k - 1]>>]
    <3>1. CASE k = m
      BY <3>1
    <3>2. CASE k # m
      <4>1. k \in 1 .. (m - 1) /\ k - 1 # m /\ k - 1 \in 0 .. m /\ k \in 0 .. m
        BY <3>2
      <4>2. f[k] = F[<<k, f[k - 1]>>]
        BY <2>1, <4>1 DEF Along
      <4>3. QED BY <3>2, <4>1, <4>2
    <3>3. QED BY <3>1, <3>2
  <2> HIDE DEF g
  <2>7. Along(g, m, S, base, F)
    BY <2>4, <2>5, <2>6 DEF Along
  <2>8. QED BY <2>7
<1>3. 0 .. top \subseteq P
  <2> HIDE DEF P
  <2>1. QED BY <1>1, <1>2, Upwards
<1>4. top \in P
  BY <1>3
<1>5. QED BY <1>4

\* A quotient and a remainder that fit are those of the division.
LEMMA Division ==
  ASSUME NEW a \in Nat, NEW b \in Nat, b > 0, NEW h \in Nat, NEW t \in Nat, t < b, a = h * b + t
  PROVE  a \div b = h /\ a % b = t
<1>1. PICK x, y \in Int : x = a \div b /\ y = a % b
  OBVIOUS
<1>2. y \in Nat /\ y < b /\ a = x * b + y
  BY <1>1
<1>3. x \in Nat
  <2>1. CASE x < 0
    <3>1. x * b <= -b
      BY <2>1
    <3>2. QED BY <1>2, <3>1
  <2>2. QED BY <2>1
<1>4. x = h
  <2>1. CASE x < h
    <3>1. x + 1 <= h /\ (x + 1) * b <= h * b /\ (x + 1) * b = x * b + b
      BY <1>3, <2>1
    <3>2. QED BY <1>2, <3>1
  <2>2. CASE h < x
    <3>1. h + 1 <= x /\ (h + 1) * b <= x * b /\ (h + 1) * b = h * b + b
      BY <1>3, <2>2
    <3>2. QED BY <1>2, <3>1
  <2>3. QED BY <1>3, <2>1, <2>2
<1>5. y = t
  BY <1>2, <1>4
<1>6. QED BY <1>1, <1>4, <1>5

\* One bit more of a.
LEMMA NextBit ==
  ASSUME NEW a \in Nat, NEW p \in Nat, p > 0
  PROVE  /\ a \div p \in Nat /\ (a \div p) % 2 \in {0, 1} /\ a \div (2 * p) \in Nat
         /\ a \div p = 2 * (a \div (2 * p)) + ((a \div p) % 2)
         /\ (a \div p) * p <= a
<1>1. PICK m, s \in Int : m = a \div p /\ s = a % p
  OBVIOUS
<1>2. m \in Nat /\ s \in Nat /\ s < p /\ a = m * p + s
  BY <1>1
<1>3. PICK h, e \in Int : h = m \div 2 /\ e = m % 2
  OBVIOUS
<1>4. h \in Nat /\ e \in {0, 1} /\ m = 2 * h + e
  BY <1>2, <1>3
<1>5. m * p = h * (2 * p) + e * p
  BY <1>2, <1>4
<1>6. e * p + s \in Nat /\ e * p + s < 2 * p
  BY <1>2, <1>4
<1>7. a = h * (2 * p) + (e * p + s) /\ 2 * p \in Nat /\ 2 * p > 0
  BY <1>2, <1>5
<1>8. PICK t : t = e * p + s
  OBVIOUS
<1>9. PICK b : b = 2 * p
  OBVIOUS
<1>10. a \div b = h
  BY <1>4, <1>6, <1>7, <1>8, <1>9, Division
<1>11. m * p <= a
  BY <1>2
<1>12. QED BY <1>1, <1>2, <1>3, <1>4, <1>9, <1>10, <1>11

LEMMA Powers ==
  /\ Power \in [0 .. Width -> Nat]
  /\ Power[0] = 1
  /\ \A k \in 1 .. Width : Power[k] = 2 * Power[k - 1]
  /\ \A k \in 0 .. Width : Power[k] >= 1
<1> DEFINE F == [p \in (1 .. Width) \X Nat |-> 2 * p[2]]
           B(f) == f = [k \in 0 .. Width |-> IF k = 0 THEN 1 ELSE 2 * f[k - 1]]
<1>1. Width \in Nat
  BY NumberAssumption
<1>2. \A k \in 1 .. Width, x \in Nat : F[<<k, x>>] = 2 * x
  OBVIOUS
<1> HIDE DEF F
<1>3. PICK g : Along(g, Width, Nat, 1, F)
  <2>1. ASSUME NEW k \in 1 .. Width, NEW x \in Nat PROVE F[<<k, x>>] \in Nat
    <3>1. F[<<k, x>>] = 2 * x /\ 2 * x \in Nat
      BY <1>2
    <3>2. QED BY <3>1
  <2>2. PICK one \in Nat : one = 1
    OBVIOUS
  <2>3. \E g : Along(g, Width, Nat, one, F)
    BY <1>1, <2>1, AlongExists
  <2>4. QED BY <2>2, <2>3
<1>4. g \in [0 .. Width -> Nat] /\ g[0] = 1 /\ \A k \in 1 .. Width : g[k] = 2 * g[k - 1]
  <2>1. ASSUME NEW k \in 1 .. Width PROVE g[k] = 2 * g[k - 1]
    <3>1. g[k - 1] \in Nat
      BY <1>1, <1>3 DEF Along
    <3>2. QED BY <1>2, <1>3, <3>1 DEF Along
  <2>2. QED BY <1>3, <2>1 DEF Along
<1>5. B(g)
  <2>1. \A k \in 0 .. Width : g[k] = IF k = 0 THEN 1 ELSE 2 * g[k - 1]
    BY <1>1, <1>4
  <2>2. QED BY <1>4, <2>1
<1>6. B(Power)
  <2>1. Power = CHOOSE f : B(f)
    BY DEF Power
  <2>2. QED BY <1>5, <2>1, Zenon
<1>7. /\ DOMAIN Power = 0 .. Width
      /\ \A k \in 0 .. Width : Power[k] = IF k = 0 THEN 1 ELSE 2 * Power[k - 1]
  <2> DEFINE body == [k \in 0 .. Width |-> IF k = 0 THEN 1 ELSE 2 * Power[k - 1]]
  <2>1. Power = body
    BY <1>6
  <2>2. DOMAIN body = 0 .. Width /\ \A k \in 0 .. Width : body[k] = IF k = 0 THEN 1 ELSE 2 * Power[k - 1]
    OBVIOUS
  <2> HIDE DEF body
  <2>3. QED BY <2>1, <2>2
<1> DEFINE P == {k \in 0 .. Width : Power[k] \in Nat /\ Power[k] >= 1}
<1>8. 0 \in P
  BY <1>1, <1>7
<1>9. \A k \in 1 .. Width : k - 1 \in P => k \in P
  BY <1>1, <1>7
<1>10. 0 .. Width \subseteq P
  <2> HIDE DEF P
  <2>1. QED BY <1>1, <1>8, <1>9, Upwards
<1>11. Power \in [0 .. Width -> Nat]
  <2>1. Power = [k \in 0 .. Width |-> Power[k]]
    BY <1>6, <1>7
  <2>2. QED BY <1>10, <2>1
<1>12. QED BY <1>1, <1>7, <1>10, <1>11

-----------------------------------------------------------------------------
(* Division bit by bit *)

Words == 0 .. (Power[Width] - 1)

DivTypes ==
  /\ cpu \in {"x86", "x86_64"}
  /\ n \in Words /\ d \in Nat /\ q \in Words /\ r \in Words
  /\ bit \in -1 .. (Width - 1)

DivGood == DivTypes /\ DivInv

\* DivInv with the power by name.
Divided(p) ==
  /\ q = (q \div p) * p
  /\ d > 0 => n \div p = (q \div p) * d + r /\ r < d
  /\ d = 0 => r = n \div p /\ q + p = Power[Width]

LEMMA DivInvIs == DivInv <=> Divided(Power[bit + 1])
BY DEF DivInv, Divided

LEMMA WordFacts ==
  /\ Power[Width] \in Nat /\ Power[Width] >= 2 /\ Width \in Nat /\ Width >= 1
  /\ Words \subseteq Nat /\ 0 \in Words /\ 1 \in Words
  /\ \A x \in Nat : x \in Words <=> x < Power[Width]
<1>1. Width \in Nat /\ Width >= 1
  BY NumberAssumption
<1>2. Power[Width] = 2 * Power[Width - 1] /\ Power[Width - 1] >= 1 /\ Power[Width - 1] \in Nat
  BY <1>1, Powers
<1>3. Power[Width] \in Nat /\ Power[Width] >= 2
  BY <1>2
<1>4. QED BY <1>1, <1>3 DEF Words

LEMMA BitStep == DivGood /\ DivideBit => DivGood'
<1> SUFFICES ASSUME DivGood, DivideBit PROVE DivGood'
  OBVIOUS
<1>1. /\ n \in Nat /\ d \in Nat /\ q \in Nat /\ r \in Nat /\ bit \in 0 .. (Width - 1)
      /\ n < Power[Width] /\ q < Power[Width] /\ Power[Width] \in Nat
  BY WordFacts DEF DivGood, DivTypes, DivideBit
<1>2. PICK p \in Nat : p = Power[bit] /\ p >= 1 /\ Power[bit + 1] = 2 * p
  <2>1. bit \in 0 .. Width /\ bit + 1 \in 1 .. Width /\ (bit + 1) - 1 = bit
    BY <1>1, WordFacts
  <2>2. Power[bit] \in Nat /\ Power[bit] >= 1 /\ Power[bit + 1] = 2 * Power[(bit + 1) - 1]
    BY <2>1, Powers
  <2>3. QED BY <2>1, <2>2
<1>3. Divided(2 * p)
  BY <1>2, DivInvIs DEF DivGood
<1>4. /\ n \div p \in Nat /\ (n \div p) % 2 \in {0, 1} /\ n \div (2 * p) \in Nat
      /\ n \div p = 2 * (n \div (2 * p)) + ((n \div p) % 2)
      /\ (n \div p) * p <= n
  <2>1. n \in Nat /\ p \in Nat /\ p > 0
    BY <1>1, <1>2
  <2>2. QED BY <2>1, NextBit, Zenon
<1>5. PICK m, seen, e : m = n \div p /\ seen = n \div (2 * p) /\ e = (n \div p) % 2
  OBVIOUS
<1>6. /\ m \in Nat /\ seen \in Nat /\ e \in Nat
      /\ m = 2 * seen + e /\ e \in {0, 1} /\ m * p <= n
  BY <1>4, <1>5
<1>7. PICK found \in Nat : found = q \div (2 * p)
  BY <1>1, <1>2, NextBit
<1>8. q = found * (2 * p) /\ q = (2 * found) * p
  BY <1>3, <1>7 DEF Divided
<1>9. m <= n
  BY <1>1, <1>2, <1>6
<1>10. r <= seen
  <2>1. CASE d > 0
    <3>1. seen = found * d + r /\ found * d \in Nat
      BY <1>1, <1>3, <1>5, <1>7, <2>1 DEF Divided
    <3>2. QED BY <1>1, <3>1
  <2>2. CASE d = 0
    BY <1>1, <1>3, <1>5, <2>2 DEF Divided
  <2>3. QED BY <1>1, <2>1, <2>2
<1>11. PICK w \in Nat : w = Power[Width]
  BY <1>1
<1>12. (2 * r) % w = 2 * r
  <2>1. 2 * r \in Nat /\ 2 * r < w
    BY <1>1, <1>6, <1>9, <1>10, <1>11
  <2>2. QED BY <1>11, <2>1
<1>13. PICK s \in Nat : s = Shifted /\ s = 2 * r + e
  BY <1>1, <1>2, <1>5, <1>6, <1>11, <1>12 DEF Shifted
<1>14. bit' = bit - 1 /\ UNCHANGED <<cpu, n, d>> /\ bit' + 1 = bit /\ bit' \in -1 .. (Width - 1)
  <2>1. bit' = bit - 1 /\ UNCHANGED <<cpu, n, d>>
    BY DEF DivideBit
  <2>2. bit \in Int /\ bit >= 0 /\ bit <= Width - 1 /\ Width \in Int
    BY <1>1, WordFacts
  <2>3. (bit - 1) + 1 = bit /\ bit - 1 \in -1 .. (Width - 1)
    BY <2>2
  <2>4. QED BY <2>1, <2>3
<1>15. SUFFICES /\ r' \in Nat /\ q' \in Nat /\ r' < w /\ q' < w
                /\ q' = (q' \div p) * p
                /\ d > 0 => m = (q' \div p) * d + r' /\ r' < d
                /\ d = 0 => r' = m /\ q' + p = w
  <2>1. ASSUME /\ r' \in Nat /\ q' \in Nat /\ r' < w /\ q' < w
               /\ q' = (q' \div p) * p
               /\ d > 0 => m = (q' \div p) * d + r' /\ r' < d
               /\ d = 0 => r' = m /\ q' + p = w
        PROVE  DivGood'
    <3>1. Power[bit' + 1] = p
      BY <1>2, <1>14
    <3>2. Divided(p)'
      BY <1>2, <1>5, <1>11, <1>14, <2>1 DEF Divided
    <3>3. DivInv'
      BY <1>5, <1>11, <1>14, <2>1, <3>1 DEF DivInv
    <3>4. DivTypes'
      BY <1>11, <1>14, <2>1, WordFacts DEF DivGood, DivTypes, Words
    <3>5. QED BY <3>3, <3>4 DEF DivGood
  <2>2. QED BY <2>1
<1>16. CASE s >= d
  <2>1. r' = s - d /\ q' = q + p
    BY <1>2, <1>13, <1>16 DEF DivideBit
  <2>2. q' = (2 * found + 1) * p + 0 /\ q' \in Nat
    BY <1>1, <1>8, <2>1
  <2>3. q' \div p = 2 * found + 1
    BY <1>2, <2>2, Division
  <2>4. r' \in Nat /\ q' = (q' \div p) * p
    BY <1>1, <1>13, <1>16, <2>1, <2>2, <2>3
  <2>5. CASE d > 0
    <3>1. seen = found * d + r /\ r < d
      BY <1>3, <1>5, <1>7, <2>5 DEF Divided
    <3>2. r' < d /\ m = (2 * found + 1) * d + r'
      BY <1>1, <1>6, <1>13, <2>1, <3>1
    <3>3. 2 * found + 1 <= m
      <4>1. \A x, y \in Nat : y > 0 => x * y \in Nat /\ x <= x * y
        OBVIOUS
      <4>2. PICK x \in Nat : x = 2 * found + 1
        OBVIOUS
      <4>3. x * d \in Nat /\ x <= x * d /\ m = x * d + r'
        BY <1>1, <2>5, <3>2, <4>1, <4>2
      <4>4. QED BY <2>4, <4>2, <4>3
    <3>4. q' <= m * p /\ r' <= m
      <4>1. \A x, y, z \in Nat : x <= y => x * z <= y * z
        OBVIOUS
      <4>2. PICK x \in Nat : x = 2 * found + 1
        OBVIOUS
      <4>3. x * p <= m * p
        BY <1>2, <1>6, <3>3, <4>1, <4>2
      <4>4. x * d \in Nat /\ m = x * d + r'
        BY <1>1, <3>2, <4>2
      <4>5. QED BY <1>6, <2>2, <2>4, <4>2, <4>3, <4>4
    <3>5. q' < w /\ r' < w
      <4>1. m * p \in Nat
        BY <1>2, <1>6
      <4>2. QED BY <1>1, <1>6, <1>9, <1>11, <2>2, <2>4, <3>4, <4>1
    <3>6. m = (q' \div p) * d + r'
      BY <2>3, <3>2
    <3>7. ~(d = 0)
      BY <2>5
    <3>8. QED BY <2>2, <2>4, <3>2, <3>5, <3>6, <3>7
  <2>6. CASE d = 0
    <3>1. r = seen /\ q + 2 * p = w
      BY <1>3, <1>5, <1>11, <2>6 DEF Divided
    <3>2. r' = m /\ q' + p = w
      BY <1>1, <1>2, <1>6, <1>13, <2>1, <2>6, <3>1
    <3>3. QED BY <1>1, <1>2, <1>9, <1>11, <2>2, <2>4, <2>6, <3>2
  <2>7. QED BY <1>1, <2>5, <2>6
<1>17. CASE ~(s >= d)
  <2>1. r' = s /\ q' = q /\ d > 0
    BY <1>1, <1>2, <1>13, <1>17 DEF DivideBit
  <2>2. q' = (2 * found) * p + 0 /\ q' \in Nat
    BY <1>1, <1>8, <2>1
  <2>3. q' \div p = 2 * found
    BY <1>2, <2>2, Division
  <2>4. seen = found * d + r
    BY <1>3, <1>5, <1>7, <2>1 DEF Divided
  <2>5. r' < d /\ m = (2 * found) * d + r'
    BY <1>1, <1>6, <1>13, <1>17, <2>1, <2>4
  <2>6. r' < w
    <3>1. PICK x \in Nat : x = (2 * found) * d
      BY <1>1
    <3>2. m = x + r' /\ r' \in Nat
      BY <1>13, <2>1, <2>5, <3>1
    <3>3. r' <= m
      BY <1>6, <3>1, <3>2
    <3>4. QED BY <1>1, <1>6, <1>9, <1>11, <3>2, <3>3
  <2>7. r' \in Nat /\ q' < w /\ ~(d = 0)
    BY <1>1, <1>11, <1>13, <2>1
  <2>8. q' = (q' \div p) * p
    BY <2>2, <2>3, <1>8, <2>1
  <2>9. m = (q' \div p) * d + r'
    BY <2>3, <2>5
  <2>10. QED BY <2>2, <2>5, <2>6, <2>7, <2>8, <2>9
<1>18. QED BY <1>16, <1>17


\* The loop starts with nothing looked at, and the processor has looked at everything.
LEMMA Divides ==
  ASSUME DivTypes, NEW dividend \in Words, NEW divisor \in Nat, Divide(dividend, divisor),
         cpu' = cpu, ~(cpu = "x86_64" /\ divisor = 0)
  PROVE  DivGood'
<1>1. /\ dividend \in Nat /\ Width \in Nat /\ Width >= 1 /\ Power[Width] \in Nat
      /\ Power[Width] >= 2 /\ dividend < Power[Width] /\ Power[0] = 1 /\ 0 \in Words
  BY WordFacts, Powers
<1>2. n' = dividend /\ d' = divisor
  BY DEF Divide
<1>3. CASE cpu = "x86"
  <2>1. q' = 0 /\ r' = 0 /\ bit' = Width - 1 /\ bit' + 1 = Width
    BY <1>1, <1>3 DEF Divide
  <2>2. PICK w \in Nat : w = Power[Width]
    BY <1>1
  <2>3. 0 \div w = 0 /\ dividend \div w = 0
    <3>1. 0 = 0 * w + 0 /\ dividend = 0 * w + dividend /\ 0 < w /\ dividend < w
      BY <1>1, <2>2
    <3>2. QED BY <1>1, <2>2, <3>1, Division
  <2>4. /\ q' = (q' \div w) * w
        /\ d' > 0 => n' \div w = (q' \div w) * d' + r' /\ r' < d'
        /\ d' = 0 => r' = n' \div w /\ q' + w = w
    <3>1. q' \div w = 0 /\ n' \div w = 0
      BY <1>2, <2>1, <2>3
    <3>2. 0 = 0 * w /\ 0 = 0 * divisor + 0 /\ 0 + w = w
      BY <2>2
    <3>3. QED BY <1>2, <2>1, <3>1, <3>2
  <2>5. DivInv'
    BY <2>1, <2>2, <2>4 DEF DivInv
  <2>6. DivTypes'
    BY <1>1, <1>2, <1>3, <2>1 DEF DivTypes
  <2>7. QED BY <2>5, <2>6 DEF DivGood
<1>4. CASE cpu # "x86"
  <2>1. cpu = "x86_64" /\ divisor > 0
    BY <1>4 DEF DivTypes
  <2>2. q' = dividend \div divisor /\ r' = dividend % divisor /\ bit' = -1 /\ bit' + 1 = 0
    BY <1>4 DEF Divide
  <2>3. PICK h, t \in Int : h = dividend \div divisor /\ t = dividend % divisor
    BY <1>1, <2>1
  <2>4. t \in Nat /\ t < divisor /\ h \in Nat /\ dividend = h * divisor + t
    BY <1>1, <2>1, <2>3
  <2>5. h <= dividend /\ t <= dividend
    <3>1. \A x, y \in Nat : y > 0 => x * y \in Nat /\ x <= x * y
      OBVIOUS
    <3>2. h * divisor \in Nat /\ h <= h * divisor
      BY <2>1, <2>4, <3>1
    <3>3. QED BY <2>4, <3>2
  <2>6. q' = h /\ r' = t
    BY <2>2, <2>3
  <2>7. h \div 1 = h /\ dividend \div 1 = dividend
    BY <1>1, <2>4
  <2>8. DivInv'
    <3>1. h = h * 1 /\ ~(divisor = 0)
      BY <2>1, <2>4
    <3>2. QED BY <1>1, <1>2, <2>2, <2>4, <2>6, <2>7, <3>1 DEF DivInv
  <2>9. h \in Words /\ t \in Words
    BY <1>1, <2>4, <2>5, WordFacts
  <2>10. DivTypes'
    BY <1>1, <1>2, <2>1, <2>2, <2>6, <2>9 DEF DivTypes
  <2>11. QED BY <2>8, <2>10 DEF DivGood
<1>5. QED BY <1>3, <1>4

SignedWords == {x \in Int : -Power[Width - 1] <= x /\ x < Power[Width - 1]}

LEMMA WordOf ==
  ASSUME NEW x \in Int
  PROVE  Word(x) \in Words /\ Word(x) \in Nat /\ Signed(x) \in SignedWords
<1>1. PICK h, w \in Nat : h = Power[Width - 1] /\ w = Power[Width] /\ w = 2 * h /\ h >= 1
  <2>1. Width \in 1 .. Width /\ Width - 1 \in 0 .. Width
    BY WordFacts
  <2>2. QED BY <2>1, Powers
<1>2. x % w \in 0 .. (w - 1)
  BY <1>1
<1>3. Word(x) \in Words /\ Word(x) \in Nat
  BY <1>1, <1>2 DEF Word, Words
<1>4. Signed(x) = IF x % w >= h THEN (x % w) - w ELSE x % w
  BY <1>1 DEF Signed, Word
<1>5. PICK y \in 0 .. (w - 1) : y = x % w
  BY <1>2
<1>6. Signed(x) \in Int /\ -h <= Signed(x) /\ Signed(x) < h
  BY <1>1, <1>4, <1>5
<1>7. QED BY <1>1, <1>3, <1>6 DEF SignedWords

\* A divisor that is not 0 is not 0 as an unsigned word either.
LEMMA WordNotZero ==
  ASSUME NEW x \in SignedWords, Word(x) = 0
  PROVE  x = 0
<1>1. PICK h, w \in Nat : h = Power[Width - 1] /\ w = Power[Width] /\ w = 2 * h /\ h >= 1
  <2>1. Width \in 1 .. Width /\ Width - 1 \in 0 .. Width
    BY WordFacts
  <2>2. QED BY <2>1, Powers
<1>2. x \in Int /\ -h <= x /\ x < h /\ x % w = 0
  BY <1>1 DEF SignedWords, Word
<1>3. PICK k \in Int : k = x \div w
  BY <1>1, <1>2
<1>4. x = w * k
  <2>1. \A y \in Int, z \in Nat \ {0} : y = z * (y \div z) + (y % z)
    OBVIOUS
  <2>2. w \in Nat \ {0} /\ x % w = 0
    BY <1>1, <1>2
  <2>3. x = w * k + 0
    BY <1>2, <1>3, <2>1, <2>2
  <2>4. QED BY <1>1, <2>3
<1>5. CASE k >= 1
  <2>1. w * k >= w
    BY <1>1, <1>5
  <2>2. QED BY <1>1, <1>2, <1>4, <2>1
<1>6. CASE k <= -1
  <2>1. w * k <= -w
    BY <1>1, <1>6
  <2>2. QED BY <1>1, <1>2, <1>4, <2>1
<1>7. CASE k = 0
  BY <1>1, <1>4, <1>7
<1>8. QED BY <1>5, <1>6, <1>7

-----------------------------------------------------------------------------
(* The calculator's numbers *)

CalcTypes ==
  /\ sign \in Signs
  /\ entered \in Int \X Int /\ left \in Int /\ right \in SignedWords
  /\ value \in Words /\ minus \in BOOLEAN /\ digits \in Seq(Nat)

NumbersInv == CalcTypes /\ DivGood

LEMMA NumbersStart == NumberInit /\ CalculatorInit => NumbersInv
<1> SUFFICES ASSUME NumberInit, CalculatorInit PROVE NumbersInv
  OBVIOUS
<1>1. PICK h \in Nat : h = Power[Width - 1] /\ h >= 1
  <2>1. Width - 1 \in 0 .. Width
    BY WordFacts
  <2>2. QED BY <2>1, Powers
<1>2. 0 \in SignedWords /\ 0 \in Words /\ 1 \in Nat
  BY <1>1, WordFacts DEF SignedWords
<1>3. <<0>> \in Seq(Nat) /\ <<0, 0>> \in Int \X Int
  OBVIOUS
<1>4. CalcTypes
  BY <1>2, <1>3 DEF CalcTypes, CalculatorInit, Signs
<1>5. -1 \in -1 .. (Width - 1)
  BY WordFacts
<1>6. DivTypes
  BY <1>2, <1>5 DEF DivTypes, NumberInit
<1>7. DivInv
  <2>1. n = 0 /\ d = 1 /\ q = 0 /\ r = 0 /\ bit + 1 = 0 /\ Power[0] = 1
    BY Powers DEF NumberInit
  <2>2. 0 \div 1 = 0 /\ 0 = 0 * 1 /\ 0 = 0 * 1 + 0 /\ 0 < 1 /\ ~(1 = 0)
    OBVIOUS
  <2>3. QED BY <2>1, <2>2 DEF DivInv
<1>8. QED BY <1>4, <1>6, <1>7 DEF NumbersInv, DivGood

LEMMA NumbersStay == NumbersInv /\ UNCHANGED numVars => NumbersInv'
BY DEF NumbersInv, CalcTypes, DivGood, DivTypes, DivInv, numVars, divVars, calcVars

LEMMA DivisionStays == DivGood /\ UNCHANGED <<cpu, divVars>> => DivGood'
BY DEF DivGood, DivTypes, DivInv, divVars

\* What is handed to utoa is a word.
LEMMA Splits ==
  ASSUME NEW result \in Int, Split(result)
  PROVE  value' \in Words /\ minus' \in BOOLEAN
<1>1. (IF result < 0 THEN -result ELSE result) \in Int
  OBVIOUS
<1>2. QED BY <1>1, WordOf DEF Split

\* CalcTypes and DivGood hold after every step of the calculator.
LEMMA NumbersKept ==
  ASSUME NumbersInv, CalcKey \/ CalcGo
  PROVE  NumbersInv'
<1>1. CalcTypes /\ DivGood
  BY DEF NumbersInv
<1>2. left \in Int /\ right \in Int /\ sign \in Signs /\ value \in Words /\ digits \in Seq(Nat)
  BY <1>1 DEF CalcTypes, SignedWords
<1>3. ASSUME calculator_main \/ AskedAgain PROVE NumbersInv'
  BY <1>1, <1>3, DivisionStays DEF calculator_main, AskedAgain, NumbersInv, CalcTypes, calcVars
<1>4. ASSUME NEW typed \in Signs, EnterSign(typed) PROVE NumbersInv'
  BY <1>1, <1>4, DivisionStays DEF EnterSign, NumbersInv, CalcTypes
<1>5. ASSUME NEW typed \in Typed, EnterLeft(typed) \/ EnterRight(typed) PROVE NumbersInv'
  <2>1. typed \in Int
    BY CalculatorAssumption
  <2>2. Signed(typed) \in SignedWords /\ Signed(typed) \in Int
    BY <2>1, WordOf DEF SignedWords
  <2>3. entered' \in Int \X Int
    <3>1. \A j \in {1, 2} : [entered EXCEPT ![j] = typed] \in Int \X Int
      BY <1>1, <2>1 DEF CalcTypes
    <3>2. QED BY <1>5, <3>1 DEF EnterLeft, EnterRight
  <2>4. DivGood'
    BY <1>1, <1>5, DivisionStays DEF EnterLeft, EnterRight
  <2>5. QED BY <1>1, <1>5, <2>2, <2>3, <2>4 DEF EnterLeft, EnterRight, NumbersInv, CalcTypes
<1>6. ASSUME Result PROVE NumbersInv'
  <2> DEFINE exact == CASE sign = "+" -> left + right
                        [] sign = "-" -> left - right
                        [] sign = "*" -> left * right
  <2>1. exact \in Int
    BY <1>2, <1>6 DEF Result, Signs
  <2>2. Show(Signed(exact))
    BY <1>6 DEF Result
  <2> HIDE DEF exact
  <2>3. Signed(exact) \in Int
    BY <2>1, WordOf DEF SignedWords
  <2>4. value' \in Words /\ minus' \in BOOLEAN /\ digits' = <<>>
    BY <2>2, <2>3, Splits DEF Show
  <2>5. <<>> \in Seq(Nat)
    OBVIOUS
  <2>6. DivGood'
    BY <1>1, <1>6, DivisionStays DEF Result
  <2>7. QED BY <1>1, <1>6, <2>4, <2>5, <2>6 DEF Result, NumbersInv, CalcTypes
<1>7. ASSUME Quotient PROVE NumbersInv'
  <2>1. Word(left) \in Words /\ Word(right) \in Nat /\ cpu' = cpu /\ Divide(Word(left), Word(right))
    BY <1>2, <1>7, WordOf DEF Quotient
  <2>2. ~(cpu = "x86_64" /\ Word(right) = 0)
    BY <1>1, <1>7, WordNotZero DEF Quotient, CalcTypes
  <2>3. DivGood'
    BY <1>1, <2>1, <2>2, Divides DEF DivGood
  <2>4. QED BY <1>1, <1>7, <2>3 DEF Quotient, NumbersInv, CalcTypes
<1>8. ASSUME DivideError PROVE NumbersInv'
  BY <1>1, <1>8, DivisionStays DEF DivideError, NumbersInv, CalcTypes
<1>9. ASSUME QuotientFound PROVE NumbersInv'
  <2>1. q \in Int
    BY <1>1, WordFacts DEF DivGood, DivTypes
  <2>2. Signed(q) \in Int
    BY <2>1, WordOf DEF SignedWords
  <2>3. value' \in Words /\ minus' \in BOOLEAN /\ digits' = <<>>
    BY <1>9, <2>2, Splits DEF QuotientFound, Show
  <2>4. <<>> \in Seq(Nat)
    OBVIOUS
  <2>5. DivGood'
    BY <1>1, <1>9, DivisionStays DEF QuotientFound
  <2>6. QED BY <1>1, <1>9, <2>3, <2>4, <2>5 DEF QuotientFound, NumbersInv, CalcTypes
<1>10. ASSUME Zero PROVE NumbersInv'
  <2>1. <<0>> \in Seq(Nat)
    OBVIOUS
  <2>2. QED BY <1>1, <1>10, <2>1, DivisionStays DEF Zero, NumbersInv, CalcTypes
<1>11. ASSUME NextDigit PROVE NumbersInv'
  <2>1. Base \in Nat /\ Base # 0 /\ cpu' = cpu /\ Divide(value, Base)
    BY <1>11 DEF NextDigit, Base
  <2>2. DivGood'
    BY <1>1, <1>2, <2>1, Divides DEF DivGood
  <2>3. QED BY <1>1, <1>11, <2>2 DEF NextDigit, NumbersInv, CalcTypes
<1>12. ASSUME DigitFound PROVE NumbersInv'
  <2>1. r \in Nat /\ q \in Words
    BY <1>1, WordFacts DEF DivGood, DivTypes
  <2>2. Append(digits, r) \in Seq(Nat)
    BY <1>2, <2>1
  <2>3. DivGood'
    BY <1>1, <1>12, DivisionStays DEF DigitFound
  <2>4. QED BY <1>1, <1>12, <2>1, <2>2, <2>3 DEF DigitFound, NumbersInv, CalcTypes
<1>13. ASSUME Reversed PROVE NumbersInv'
  <2>1. \A k \in DOMAIN digits : Len(digits) + 1 - k \in DOMAIN digits /\ digits[Len(digits) + 1 - k] \in Nat
    BY <1>2
  <2>2. [k \in DOMAIN digits |-> digits[Len(digits) + 1 - k]] \in Seq(Nat)
    BY <1>2, <2>1
  <2>3. DivGood'
    BY <1>1, <1>13, DivisionStays DEF Reversed
  <2>4. QED BY <1>1, <1>13, <2>2, <2>3 DEF Reversed, NumbersInv, CalcTypes
<1>14. ASSUME Dividing PROVE NumbersInv'
  <2>1. DivGood'
    BY <1>1, <1>14, BitStep DEF Dividing
  <2>2. QED BY <1>1, <1>14, <2>1 DEF Dividing, calcVars, NumbersInv, CalcTypes
<1>15. CASE CalcKey
  BY <1>3, <1>4, <1>5, <1>15 DEF CalcKey
<1>16. CASE CalcGo
  BY <1>6, <1>7, <1>8, <1>9, <1>10, <1>11, <1>12, <1>13, <1>14, <1>16 DEF CalcGo, CalcStep
<1>17. QED BY <1>15, <1>16

LEMMA NumbersAlways == NumbersInv /\ [Next]_vars => NumbersInv'
<1> SUFFICES ASSUME NumbersInv, [Next]_vars PROVE NumbersInv'
  OBVIOUS
<1>1. CASE CalcKey \/ CalcGo
  BY <1>1, NumbersKept
<1>2. CASE ~(CalcKey \/ CalcGo)
  <2>1. UNCHANGED numVars
    BY <1>2 DEF vars, Next, Keyboard, Processor, ReplaceStart, UsersStart, HexKey, ReplaceGo, UsersGo,
                HexGo, ExceptionRaised, MessageGo, kernelpanic
  <2>2. QED BY <2>1, NumbersStay
<1>3. QED BY <1>1, <1>2

\* udiv64 and umod64: after every iteration quotient and remainder are those of
\* the bits looked at so far.
THEOREM DivisionBitByBit == FairSpec => []DivInv
<1>1. Init => NumbersInv
  BY NumbersStart DEF Init, CalculatorInit
<1>2. NumbersInv => DivInv
  BY DEF NumbersInv, DivGood
<1>3. QED BY <1>1, <1>2, NumbersAlways, PTL DEF FairSpec, Spec

-----------------------------------------------------------------------------
(* What utoa shows *)

\* g adds up digits from the first to the last, and begins with base.
Adds(g, s, base) ==
  /\ g \in [0 .. Len(s) -> Nat]
  /\ g[0] = base
  /\ \A k \in 1 .. Len(s) : g[k] = Base * g[k - 1] + s[k]

ShownAs(s, m) ==
  LET upto[k \in 0 .. Len(s)] == IF k = 0 THEN 0 ELSE Base * upto[k - 1] + s[k]
  IN IF m THEN -upto[Len(s)] ELSE upto[Len(s)]

LEMMA ShownIs == Shown = ShownAs(digits, minus) /\ Shown' = ShownAs(digits', minus')
BY DEF Shown, ShownAs

LEMMA SumShown ==
  ASSUME NEW s \in Seq(Nat), NEW m \in BOOLEAN, NEW g, Adds(g, s, 0)
  PROVE  ShownAs(s, m) = IF m THEN -g[Len(s)] ELSE g[Len(s)]
<1> DEFINE B(f) == f = [k \in 0 .. Len(s) |-> IF k = 0 THEN 0 ELSE Base * f[k - 1] + s[k]]
           u == CHOOSE f : B(f)
<1>1. B(g)
  <2>1. \A k \in 0 .. Len(s) : g[k] = IF k = 0 THEN 0 ELSE Base * g[k - 1] + s[k]
    BY DEF Adds
  <2>2. g = [k \in 0 .. Len(s) |-> g[k]]
    BY DEF Adds
  <2>3. QED BY <2>1, <2>2
<1>2. B(u)
  BY <1>1, Zenon
<1>3. ShownAs(s, m) = IF m THEN -u[Len(s)] ELSE u[Len(s)]
  BY DEF ShownAs
<1>4. \A k \in 0 .. Len(s) : u[k] = IF k = 0 THEN 0 ELSE Base * u[k - 1] + s[k]
  <2> DEFINE body == [k \in 0 .. Len(s) |-> IF k = 0 THEN 0 ELSE Base * u[k - 1] + s[k]]
  <2>1. u = body
    BY <1>2, Zenon
  <2>2. \A k \in 0 .. Len(s) : body[k] = IF k = 0 THEN 0 ELSE Base * u[k - 1] + s[k]
    OBVIOUS
  <2> HIDE DEF u, body
  <2>3. QED BY <2>1, <2>2
<1> HIDE DEF u
<1> DEFINE P == {k \in 0 .. Len(s) : u[k] = g[k]}
<1>5. Len(s) \in Nat /\ 0 \in P
  BY <1>4 DEF Adds
<1>6. ASSUME NEW k \in 1 .. Len(s), k - 1 \in P PROVE k \in P
  <2>1. k \in 0 .. Len(s) /\ k # 0 /\ u[k - 1] = g[k - 1]
    BY <1>6
  <2>2. u[k] = Base * u[k - 1] + s[k] /\ g[k] = Base * g[k - 1] + s[k]
    BY <1>4, <2>1 DEF Adds
  <2>3. QED BY <2>1, <2>2
<1>7. 0 .. Len(s) \subseteq P
  <2> HIDE DEF P
  <2>1. QED BY <1>5, <1>6, Upwards
<1>8. u[Len(s)] = g[Len(s)]
  BY <1>5, <1>7
<1>9. QED BY <1>3, <1>8

\* The magnitude m and the sign printed are those of the line entered, whenever
\* the calculator is to give its result.
Fits(m) ==
  Small(entered[1]) /\ Small(entered[2]) =>
    \A x \in Meant : Small(x) => (minus <=> x < 0) /\ m = IF x < 0 THEN -x ELSE x

\* What is left of the value, with the digits found so far behind it, last first.
Rebuilt(g, s, base) ==
  /\ g \in [0 .. Len(s) -> Nat]
  /\ g[0] = base
  /\ \A k \in 1 .. Len(s) : g[k] = Base * g[k - 1] + s[Len(s) + 1 - k]

Rebuilds == \E g : Rebuilt(g, digits, value) /\ Fits(g[Len(digits)])

ShownInv ==
  /\ calc \in {"right", "result", "quotient"} => left = Signed(entered[1])
  /\ calc \in {"result", "quotient"} => right = Signed(entered[2])
  /\ calc = "quotient" => n = Word(left) /\ d = Word(right) /\ sign = "/"
  /\ calc \in {"utoa", "digit"} => Rebuilds
  /\ calc = "utoa" /\ value = 0 /\ digits # <<>> => digits[Len(digits)] # 0
  /\ calc = "digit" => n = value /\ d = Base /\ value # 0
  /\ ShownRight

LEMMA SmallStays ==
  ASSUME NEW x \in Int, Small(x)
  PROVE  /\ Signed(x) = x
         /\ x >= 0 => Word(x) = x
         /\ x < 0 => Word(-x) = -x
<1>1. PICK h, w \in Nat : h = Power[Width - 1] /\ w = Power[Width] /\ w = 2 * h /\ h >= 1
  <2>1. Width \in 1 .. Width /\ Width - 1 \in 0 .. Width
    BY WordFacts
  <2>2. QED BY <2>1, Powers
<1>2. -h <= x /\ x < h
  BY <1>1 DEF Small
<1>3. ASSUME NEW y \in Nat, y < w PROVE y % w = y
  <2>1. y = 0 * w + y
    BY <1>1
  <2>2. QED BY <1>1, <1>3, <2>1, Division
<1>4. CASE x >= 0
  <2>1. x \in Nat /\ x < w
    BY <1>1, <1>2, <1>4
  <2>2. x % w = x
    BY <1>3, <2>1
  <2>3. Word(x) = x
    BY <1>1, <2>2 DEF Word
  <2>4. QED BY <1>1, <1>2, <1>4, <2>3 DEF Signed
<1>5. CASE x < 0
  <2>1. -x \in Nat /\ -x < w
    BY <1>1, <1>2, <1>5
  <2>2. (-x) % w = -x
    BY <1>3, <2>1
  <2>3. Word(-x) = -x
    BY <1>1, <2>2 DEF Word
  <2>4. PICK k, y \in Int : k = x \div w /\ y = x % w
    BY <1>1
  <2>5. y \in Nat /\ y < w /\ x = w * k + y
    <3>1. \A a \in Int, b \in Nat \ {0} : a % b \in 0 .. (b - 1) /\ a = b * (a \div b) + (a % b)
      OBVIOUS
    <3>2. w \in Nat \ {0}
      BY <1>1
    <3>3. QED BY <2>4, <3>1, <3>2
  <2>6. k = -1
    <3>1. CASE k >= 0
      <4>1. w * k >= 0
        BY <1>1, <3>1
      <4>2. QED BY <1>5, <2>5, <4>1
    <3>2. CASE k <= -2
      <4>1. w * k <= -2 * w
        BY <1>1, <3>2
      <4>2. QED BY <1>1, <1>2, <2>5, <4>1
    <3>3. QED BY <3>1, <3>2
  <2>7. y = x + w /\ y >= h
    BY <1>1, <1>2, <2>5, <2>6
  <2>8. Word(x) = x + w
    BY <1>1, <2>4, <2>7 DEF Word
  <2>9. Signed(x) = x
    BY <1>1, <1>2, <2>7, <2>8 DEF Signed
  <2>10. QED BY <1>5, <2>3, <2>9
<1>6. QED BY <1>4, <1>5

\* The value and the sign are those of a result that is right.
LEMMA SplitFits ==
  ASSUME NumbersInv, NEW result \in Int, Split(result), UNCHANGED <<entered, sign>>,
         Small(entered[1]) /\ Small(entered[2]) => \A x \in Meant : Small(x) => result = x
  PROVE  Fits(value)'
<1>1. Meant' = Meant
  BY DEF Meant
<1>2. ASSUME Small(entered[1]), Small(entered[2]), NEW x \in Meant, Small(x)
      PROVE  (minus' <=> x < 0) /\ value' = IF x < 0 THEN -x ELSE x
  <2>1. result = x /\ x \in Int
    BY <1>2
  <2>2. minus' = (x < 0) /\ value' = Word(IF x < 0 THEN -x ELSE x)
    BY <2>1 DEF Split
  <2>3. x >= 0 => Word(x) = x
    BY <1>2, <2>1, SmallStays
  <2>4. x < 0 => Word(-x) = -x
    BY <1>2, <2>1, SmallStays
  <2>5. value' = IF x < 0 THEN -x ELSE x
    BY <2>1, <2>2, <2>3, <2>4
  <2>6. minus' <=> x < 0
    BY <2>2, Zenon
  <2>7. QED BY <2>5, <2>6, Zenon
<1>3. QED BY <1>1, <1>2 DEF Fits

\* utoa begins with the whole value and no digit.
LEMMA ShowStarts ==
  ASSUME Fits(value)', digits' = <<>>, value' \in Words
  PROVE  Rebuilds'
<1>1. value' \in Nat
  BY WordFacts
<1>2. PICK g : g = [k \in 0 .. 0 |-> value']
  OBVIOUS
<1>3. Rebuilt(g, <<>>, value') /\ g[0] = value'
  BY <1>1, <1>2 DEF Rebuilt
<1>4. (Rebuilt(g, digits, value) /\ Fits(g[Len(digits)]))'
  <2>1. g[Len(digits')] = value'
    BY <1>3
  <2>2. Fits(g[Len(digits)])'
    BY <2>1 DEF Fits
  <2>3. Rebuilt(g, digits, value)'
    BY <1>3 DEF Rebuilt
  <2>4. QED BY <2>2, <2>3
<1>5. QED BY <1>4 DEF Rebuilds

LEMMA ShownRightStays ==
  ASSUME ShownRight, UNCHANGED <<digits, minus, entered, sign>>, calc' = "idle" => calc = "idle"
  PROVE  ShownRight'
<1>1. Shown' = Shown
  BY ShownIs, Zenon
<1>2. Meant' = Meant
  BY DEF Meant
<1>3. QED BY <1>1, <1>2 DEF ShownRight

LEMMA RebuildsStays ==
  ASSUME Rebuilds, UNCHANGED <<digits, minus, entered, sign, value>>
  PROVE  Rebuilds'
<1>1. PICK g : Rebuilt(g, digits, value) /\ Fits(g[Len(digits)])
  BY DEF Rebuilds
<1>2. Meant' = Meant
  BY DEF Meant
<1>3. Fits(g[Len(digits)])'
  BY <1>1, <1>2 DEF Fits
<1>4. Rebuilt(g, digits, value)'
  BY <1>1 DEF Rebuilt
<1>5. QED BY <1>3, <1>4 DEF Rebuilds

\* The loop is through: n, d, q and r are those of a division.
LEMMA Through ==
  ASSUME DivGood, bit < 0
  PROVE  /\ n \in Nat /\ d \in Nat /\ q \in Nat /\ r \in Nat
         /\ d > 0 => n = q * d + r /\ r < d
<1>1. n \in Nat /\ d \in Nat /\ q \in Nat /\ r \in Nat
  BY WordFacts DEF DivGood, DivTypes
<1>2. bit \in Int /\ bit >= -1
  BY WordFacts DEF DivGood, DivTypes
<1>3. bit + 1 = 0
  BY <1>2
<1>4. Power[bit + 1] = 1
  BY <1>3, Powers
<1>5. Divided(1)
  BY <1>4, DivInvIs DEF DivGood
<1>6. n \div 1 = n /\ q \div 1 = q
  BY <1>1
<1>7. QED BY <1>1, <1>5, <1>6 DEF Divided

\* A result is computed and handed to utoa.
LEMMA ResultShown ==
  ASSUME NumbersInv, ShownInv, Result \/ QuotientFound, NumbersInv'
  PROVE  ShownInv'
<1>1. /\ left \in Int /\ right \in Int /\ entered[1] \in Int /\ entered[2] \in Int /\ sign \in Signs
      /\ left = Signed(entered[1]) /\ right = Signed(entered[2])
      /\ calc \in {"result", "quotient"}
  BY DEF NumbersInv, CalcTypes, SignedWords, ShownInv, Result, QuotientFound
<1>2. ASSUME Small(entered[1]), Small(entered[2]) PROVE left = entered[1] /\ right = entered[2]
  BY <1>1, <1>2, SmallStays
<1>3. PICK result \in Int :
        /\ Show(result)
        /\ Small(entered[1]) /\ Small(entered[2]) => \A x \in Meant : Small(x) => result = x
  <2>1. CASE Result
    <3> DEFINE exact == CASE sign = "+" -> left + right
                          [] sign = "-" -> left - right
                          [] sign = "*" -> left * right
    <3>1. exact \in Int
      BY <1>1, <2>1 DEF Result, Signs
    <3>2. ASSUME Small(entered[1]), Small(entered[2]), NEW x \in Meant PROVE exact = x
      BY <1>1, <1>2, <2>1, <3>2 DEF Result, Signs, Meant
    <3>3. Show(Signed(exact))
      BY <2>1 DEF Result
    <3> HIDE DEF exact
    <3>4. Signed(exact) \in Int
      BY <3>1, WordOf DEF SignedWords
    <3>5. ASSUME Small(entered[1]), Small(entered[2]), NEW x \in Meant, Small(x)
          PROVE  Signed(exact) = x
      BY <3>1, <3>2, <3>5, SmallStays
    <3>6. QED BY <3>3, <3>4, <3>5
  <2>2. CASE QuotientFound
    <3>1. /\ bit < 0 /\ Show(Signed(q)) /\ n = Word(left) /\ d = Word(right) /\ sign = "/"
          /\ DivGood
      BY <2>2 DEF QuotientFound, ShownInv, NumbersInv
    <3>2. /\ n \in Nat /\ d \in Nat /\ q \in Nat /\ r \in Nat
          /\ d > 0 => n = q * d + r /\ r < d
      BY <3>1, Through
    <3>3. ASSUME Small(entered[1]), Small(entered[2]), NEW x \in Meant PROVE q = x
      <4>1. entered[1] >= 0 /\ entered[2] > 0 /\ x = entered[1] \div entered[2]
        BY <3>1, <3>3 DEF Meant
      <4>2. n = entered[1] /\ d = entered[2]
        BY <1>1, <1>2, <3>1, <3>3, <4>1, SmallStays
      <4>3. n \div d = q
        BY <3>2, <4>1, <4>2, Division
      <4>4. QED BY <4>1, <4>2, <4>3
    <3>4. Signed(q) \in Int
      BY <3>2, WordOf DEF SignedWords
    <3>5. ASSUME Small(entered[1]), Small(entered[2]), NEW x \in Meant, Small(x)
          PROVE  Signed(q) = x
      BY <3>2, <3>3, <3>5, SmallStays
    <3>6. QED BY <3>1, <3>4, <3>5
  <2>3. QED BY <2>1, <2>2
<1>4. UNCHANGED <<entered, sign>> /\ calc' = "utoa" /\ digits' = <<>> /\ Split(result)
  BY <1>3 DEF Result, QuotientFound, Show
<1>5. Fits(value)'
  BY <1>3, <1>4, SplitFits
<1>6. Rebuilds'
  BY <1>4, <1>5, ShowStarts DEF NumbersInv, CalcTypes
<1>7. QED BY <1>4, <1>6 DEF ShownInv, ShownRight

\* One digit more is found.
LEMMA DigitShown ==
  ASSUME NumbersInv, ShownInv, DigitFound
  PROVE  ShownInv'
<1>1. /\ calc = "digit" /\ bit < 0 /\ digits' = Append(digits, r) /\ value' = q /\ calc' = "utoa"
      /\ UNCHANGED <<entered, sign, minus>>
      /\ DivGood /\ n = value /\ d = 10 /\ value # 0 /\ Rebuilds /\ digits \in Seq(Nat)
  BY DEF DigitFound, ShownInv, NumbersInv, CalcTypes, Base
<1>2. n \in Nat /\ q \in Nat /\ r \in Nat /\ n = q * 10 + r /\ r < 10
  BY <1>1, Through
<1>3. PICK g : Rebuilt(g, digits, value) /\ Fits(g[Len(digits)])
  BY <1>1 DEF Rebuilds
<1>4. PICK l \in Nat : l = Len(digits)
  BY <1>1
<1>5. PICK s \in Seq(Nat) : s = Append(digits, r)
  <2>1. digits \in Seq(Nat) /\ r \in Nat
    BY <1>1, <1>2
  <2>2. Append(digits, r) \in Seq(Nat)
    BY <2>1
  <2>3. QED BY <2>2
<1>6. Len(s) = l + 1 /\ s[l + 1] = r /\ \A k \in 1 .. l : s[k] = digits[k]
  BY <1>1, <1>2, <1>4, <1>5
<1>7. PICK f : f = [k \in 0 .. (l + 1) |-> IF k = 0 THEN q ELSE g[k - 1]]
  OBVIOUS
<1>8. /\ g \in [0 .. l -> Nat] /\ g[0] = n
      /\ \A k \in 1 .. l : g[k] = 10 * g[k - 1] + digits[l + 1 - k]
  BY <1>1, <1>3, <1>4 DEF Rebuilt, Base
<1>9. f \in [0 .. (l + 1) -> Nat] /\ f[0] = q /\ \A k \in 1 .. (l + 1) : f[k] = g[k - 1]
  BY <1>2, <1>4, <1>7, <1>8
<1>10. ASSUME NEW k \in 1 .. (l + 1) PROVE f[k] = 10 * f[k - 1] + s[(l + 1) + 1 - k]
  <2>1. CASE k = 1
    <3>1. f[k] = n /\ f[k - 1] = q /\ s[(l + 1) + 1 - k] = r
      BY <1>4, <1>6, <1>8, <1>9, <2>1
    <3>2. QED BY <1>2, <3>1
  <2>2. CASE k # 1
    <3>1. PICK j \in 1 .. l : j = k - 1
      BY <1>4, <2>2
    <3>2. f[k] = g[j] /\ f[k - 1] = g[j - 1] /\ l + 1 - j \in 1 .. l /\ (l + 1) + 1 - k = l + 1 - j
      BY <1>4, <1>9, <3>1
    <3>3. QED BY <1>6, <1>8, <3>1, <3>2
  <2>3. QED BY <2>1, <2>2
<1>11. Rebuilt(f, s, q)
  BY <1>4, <1>6, <1>9, <1>10 DEF Rebuilt, Base
<1>12. f[l + 1] = g[l]
  BY <1>4, <1>9
<1>13. Fits(f[Len(s)])'
  <2>1. Meant' = Meant
    BY <1>1 DEF Meant
  <2>2. Fits(g[l])
    BY <1>3, <1>4
  <2>3. Fits(g[l])'
    BY <1>1, <2>1, <2>2 DEF Fits
  <2>4. QED BY <1>6, <1>12, <2>3
<1>14. Rebuilds'
  <2>1. Rebuilt(f, digits', value') /\ digits' = s
    BY <1>1, <1>5, <1>11
  <2>2. (Rebuilt(f, digits, value) /\ Fits(f[Len(digits)]))'
    BY <1>13, <2>1 DEF Rebuilt, Fits
  <2>3. QED BY <2>2 DEF Rebuilds
<1>15. value' = 0 => digits'[Len(digits')] # 0
  BY <1>1, <1>2, <1>5, <1>6
<1>16. QED BY <1>1, <1>14, <1>15 DEF ShownInv, ShownRight

\* utoa returns.
LEMMA ReturnShown ==
  ASSUME NumbersInv, ShownInv, Zero \/ Reversed
  PROVE  ShownInv'
<1>1. /\ calc = "utoa" /\ calc' = "idle" /\ value = 0
      /\ UNCHANGED <<entered, sign, minus>>
      /\ Rebuilds /\ digits \in Seq(Nat) /\ minus \in BOOLEAN
      /\ entered[1] \in Int /\ entered[2] \in Int /\ sign \in Signs
      /\ digits # <<>> => digits[Len(digits)] # 0
  BY DEF Zero, Reversed, ShownInv, NumbersInv, CalcTypes
<1>2. PICK g : Rebuilt(g, digits, value) /\ Fits(g[Len(digits)])
  BY <1>1 DEF Rebuilds
<1>3. PICK l \in Nat : l = Len(digits)
  BY <1>1
<1>4. /\ g \in [0 .. l -> Nat] /\ g[0] = 0
      /\ \A k \in 1 .. l : g[k] = 10 * g[k - 1] + digits[l + 1 - k]
  BY <1>1, <1>2, <1>3 DEF Rebuilt, Base
<1>5. \E s \in Seq(Nat) :
        /\ digits' = s /\ s # <<>> /\ (s[1] = 0 => Len(s) = 1)
        /\ \E f : Adds(f, s, 0) /\ f[Len(s)] = g[l]
  <2>1. CASE Zero
    <3>1. digits = <<>> /\ digits' = <<0>>
      BY <2>1 DEF Zero
    <3>2. PICK s : s = <<0>>
      OBVIOUS
    <3>3. PICK f : f = [k \in 0 .. 1 |-> 0]
      OBVIOUS
    <3>4. s \in Seq(Nat) /\ Len(s) = 1 /\ s[1] = 0 /\ s # <<>>
      BY <3>2
    <3>5. Adds(f, s, 0)
      BY <3>3, <3>4 DEF Adds, Base
    <3>6. f[Len(s)] = g[l]
      BY <1>3, <1>4, <3>1, <3>3, <3>4
    <3>7. QED BY <3>1, <3>2, <3>4, <3>5, <3>6
  <2>2. CASE Reversed
    <3>1. digits # <<>> /\ digits' = [k \in DOMAIN digits |-> digits[Len(digits) + 1 - k]]
      BY <2>2 DEF Reversed
    <3>2. DOMAIN digits = 1 .. l /\ l >= 1 /\ \A k \in 1 .. l : l + 1 - k \in 1 .. l /\ digits[l + 1 - k] \in Nat
      BY <1>1, <1>3, <3>1
    <3>3. PICK s : s = [k \in 1 .. l |-> digits[l + 1 - k]]
      OBVIOUS
    <3>4. s \in Seq(Nat) /\ Len(s) = l /\ \A k \in 1 .. l : s[k] = digits[l + 1 - k]
      BY <1>3, <3>2, <3>3
    <3>5. digits' = s
      BY <1>3, <3>1, <3>2, <3>3
    <3>6. s # <<>> /\ s[1] # 0
      BY <1>1, <1>3, <3>1, <3>2, <3>4
    <3>7. Adds(g, s, 0)
      BY <1>4, <3>4 DEF Adds, Base
    <3>8. QED BY <3>4, <3>5, <3>6, <3>7
  <2>3. QED BY <2>1, <2>2
<1>6. PICK s, f :
        /\ s \in Seq(Nat) /\ digits' = s /\ s # <<>> /\ (s[1] = 0 => Len(s) = 1)
        /\ Adds(f, s, 0) /\ f[Len(s)] = g[l]
  BY <1>5
<1>7. PICK m \in Nat : m = g[l]
  BY <1>3, <1>4
<1>8. Shown' = IF minus THEN -m ELSE m
  <2>1. ShownAs(s, minus) = IF minus THEN -f[Len(s)] ELSE f[Len(s)]
    BY <1>1, <1>6, SumShown, Zenon
  <2>2. Shown' = ShownAs(s, minus)
    BY <1>1, <1>6, ShownIs, Zenon
  <2>3. QED BY <1>6, <1>7, <2>1, <2>2
<1>9. ASSUME Small(entered[1]), Small(entered[2]), NEW x \in Meant, Small(x) PROVE Shown' = x
  <2>1. (minus <=> x < 0) /\ m = IF x < 0 THEN -x ELSE x
    BY <1>2, <1>3, <1>7, <1>9 DEF Fits
  <2>2. x \in Int
    BY <1>1, <1>9 DEF Meant, Signs
  <2>3. QED BY <1>8, <2>1, <2>2
<1>10. Meant' = Meant
  BY <1>1 DEF Meant
<1>11. ShownRight'
  BY <1>1, <1>6, <1>9, <1>10 DEF ShownRight
<1>12. QED BY <1>1, <1>11 DEF ShownInv

LEMMA ShownStart == Init => ShownInv
<1> SUFFICES ASSUME Init PROVE ShownInv
  OBVIOUS
<1>1. calc = "idle" /\ sign = "+" /\ entered = <<0, 0>> /\ digits = <<0>> /\ minus = FALSE
  BY DEF Init, CalculatorInit
<1>2. PICK s : s = <<0>>
  OBVIOUS
<1>3. s \in Seq(Nat) /\ Len(s) = 1 /\ s[1] = 0 /\ s # <<>>
  BY <1>2
<1>4. PICK f : f = [k \in 0 .. 1 |-> 0]
  OBVIOUS
<1>5. Adds(f, s, 0) /\ f[Len(s)] = 0
  BY <1>3, <1>4 DEF Adds, Base
<1>6. Shown = 0
  <2>1. FALSE \in BOOLEAN
    OBVIOUS
  <2>2. ShownAs(s, FALSE) = IF FALSE THEN -f[Len(s)] ELSE f[Len(s)]
    BY <1>3, <1>5, <2>1, SumShown, Zenon
  <2>3. Shown = ShownAs(s, FALSE)
    BY <1>1, <1>2, ShownIs, Zenon
  <2>4. QED BY <1>5, <2>2, <2>3
<1>7. Meant = {0}
  BY <1>1 DEF Meant
<1>8. ShownRight
  BY <1>1, <1>2, <1>3, <1>6, <1>7 DEF ShownRight
<1>9. QED BY <1>1, <1>8 DEF ShownInv

LEMMA ShownKept ==
  ASSUME NumbersInv, NumbersInv', ShownInv, CalcKey \/ CalcGo
  PROVE  ShownInv'
<1>1. ShownRight /\ entered \in Int \X Int
  BY DEF ShownInv, NumbersInv, CalcTypes
<1>2. ASSUME calculator_main PROVE ShownInv'
  BY <1>2 DEF calculator_main, ShownInv, ShownRight
<1>3. ASSUME AskedAgain PROVE ShownInv'
  <2>1. UNCHANGED <<cpu, divVars, calcVars>>
    BY <1>3 DEF AskedAgain
  <2>2. UNCHANGED <<calc, sign, entered, left, right, value, minus, digits, n, d>>
    BY <2>1 DEF calcVars, divVars
  <2>3. ShownRight'
    BY <1>1, <2>2, ShownRightStays
  <2>4. Rebuilds => Rebuilds'
    BY <2>2, RebuildsStays
  <2>5. QED BY <2>2, <2>3, <2>4 DEF ShownInv
<1>4. ASSUME NEW typed \in Signs, EnterSign(typed) PROVE ShownInv'
  BY <1>4 DEF EnterSign, ShownInv, ShownRight
<1>5. ASSUME NEW typed \in Typed, EnterLeft(typed) PROVE ShownInv'
  BY <1>1, <1>5 DEF EnterLeft, ShownInv, ShownRight
<1>6. ASSUME NEW typed \in Typed, EnterRight(typed) PROVE ShownInv'
  BY <1>1, <1>6 DEF EnterRight, ShownInv, ShownRight
<1>7. ASSUME Quotient PROVE ShownInv'
  BY <1>7 DEF Quotient, Divide, ShownInv, ShownRight
<1>8. ASSUME DivideError PROVE ShownInv'
  BY <1>8 DEF DivideError, ShownInv, ShownRight
<1>9. ASSUME NextDigit PROVE ShownInv'
  <2>1. /\ calc = "utoa" /\ calc' = "digit" /\ value # 0 /\ n' = value /\ d' = Base
        /\ UNCHANGED <<sign, entered, value, minus, digits>>
    BY <1>9 DEF NextDigit, Divide
  <2>2. Rebuilds'
    BY <2>1, RebuildsStays DEF ShownInv
  <2>3. QED BY <2>1, <2>2 DEF ShownInv, ShownRight
<1>10. ASSUME Dividing PROVE ShownInv'
  <2>1. UNCHANGED <<calc, sign, entered, left, right, value, minus, digits, n, d>>
    BY <1>10 DEF Dividing, DivideBit, calcVars
  <2>2. ShownRight'
    BY <1>1, <2>1, ShownRightStays
  <2>3. Rebuilds => Rebuilds'
    BY <2>1, RebuildsStays
  <2>4. QED BY <2>1, <2>2, <2>3 DEF ShownInv
<1>11. CASE CalcKey
  BY <1>2, <1>3, <1>4, <1>5, <1>6, <1>11 DEF CalcKey
<1>12. CASE CalcGo
  BY <1>7, <1>8, <1>9, <1>10, <1>12, ResultShown, DigitShown, ReturnShown DEF CalcGo, CalcStep
<1>13. QED BY <1>11, <1>12

LEMMA ShownAlways == NumbersInv /\ NumbersInv' /\ ShownInv /\ [Next]_vars => ShownInv'
<1> SUFFICES ASSUME NumbersInv, NumbersInv', ShownInv, [Next]_vars PROVE ShownInv'
  OBVIOUS
<1>1. CASE CalcKey \/ CalcGo
  BY <1>1, ShownKept
<1>2. CASE ~(CalcKey \/ CalcGo)
  <2>1. UNCHANGED numVars
    BY <1>2 DEF vars, Next, Keyboard, Processor, ReplaceStart, UsersStart, HexKey, ReplaceGo, UsersGo,
                HexGo, ExceptionRaised, MessageGo, kernelpanic
  <2>2. UNCHANGED <<calc, sign, entered, left, right, value, minus, digits, n, d>>
    BY <2>1 DEF numVars, calcVars, divVars
  <2>3. ShownRight'
    BY <2>2, ShownRightStays DEF ShownInv
  <2>4. Rebuilds => Rebuilds'
    BY <2>2, RebuildsStays
  <2>5. QED BY <2>2, <2>3, <2>4 DEF ShownInv
<1>3. QED BY <1>1, <1>2

\* The calculator shows the result of the line entered, whenever the numbers and their
\* result fit into a word, and no leading zero: udiv64, umod64 and utoa for every width.
THEOREM CalculatorShowsResult == FairSpec => []ShownRight
<1>1. Init => NumbersInv /\ ShownInv
  BY NumbersStart, ShownStart DEF Init, CalculatorInit
<1>2. NumbersInv /\ ShownInv /\ [Next]_vars => (NumbersInv /\ ShownInv)'
  BY NumbersAlways, ShownAlways
<1>3. NumbersInv /\ ShownInv => ShownRight
  BY DEF ShownInv
<1>4. QED BY <1>1, <1>2, <1>3, PTL DEF FairSpec, Spec

-----------------------------------------------------------------------------
(* The hexadecimal line *)

Letters == Digits \cup {Space, Other}

HexTypes ==
  /\ data \in Seq(Bytes) /\ opened \in Seq(Bytes) /\ byte \in Seq(Bytes)
  /\ line \in Seq(Letters) /\ kept \in Nat /\ next \in Nat

\* The line has room for all digits of the file that was opened.
Room16 == hex_size(opened) < LengthRange

\* What was never erased stands in the line as it was printed.
LineKept ==
  /\ kept <= Len(line) /\ kept <= Len(print_hexdump(opened))
  /\ \A j \in 1 .. kept : line[j] = print_hexdump(opened)[j]

\* Bytes whose digits were never erased are parsed from where they were printed.
BytesKept ==
  /\ \A k \in DOMAIN opened : k <= Len(byte) /\ 3 * k - 1 <= kept => byte[k] = opened[k]
  /\ 3 * Len(byte) - 1 <= kept => next = IF Len(byte) = 0 THEN 0 ELSE 3 * Len(byte) - 1

HexInv ==
  /\ HexTypes
  /\ hexedit \in {"edit", "parse"} => data = opened /\ (Room16 => LineKept)
  /\ hexedit = "parse" => Len(byte) <= Len(data) /\ next <= Len(line) /\ (Room16 => BytesKept)
  /\ PrefixKept

\* Where the digits of a byte are printed.
LEMMA Printed ==
  ASSUME NEW file \in Seq(Bytes)
  PROVE  /\ print_hexdump(file) \in Seq(Letters)
         /\ Len(print_hexdump(file)) = IF Len(file) = 0 THEN 0 ELSE 3 * Len(file) - 1
         /\ \A b \in Nat : b < Len(file) =>
              /\ print_hexdump(file)[3 * b + 1] = file[b + 1][1]
              /\ print_hexdump(file)[3 * b + 2] = file[b + 1][2]
              /\ b > 0 => print_hexdump(file)[3 * b] = Space
<1> DEFINE text(k) == IF k % 3 = 0 THEN Space ELSE file[(k \div 3) + 1][k % 3]
<1>1. PICK l \in Nat : l = Len(file)
  OBVIOUS
<1>2. PICK top \in Nat : top = IF l = 0 THEN 0 ELSE 3 * l - 1
  <2>1. l # 0 => 3 * l - 1 \in Nat
    OBVIOUS
  <2>2. QED BY <2>1
<1>3. print_hexdump(file) = [k \in 1 .. top |-> text(k)]
  BY <1>1, <1>2 DEF print_hexdump
<1>4. ASSUME NEW b \in Nat PROVE /\ (3 * b) % 3 = 0
                                  /\ (3 * b + 1) % 3 = 1 /\ (3 * b + 1) \div 3 = b
                                  /\ (3 * b + 2) % 3 = 2 /\ (3 * b + 2) \div 3 = b
  OBVIOUS
<1>5. ASSUME NEW b \in 1 .. l PROVE file[b][1] \in Digits /\ file[b][2] \in Digits
  <2>1. file[b] \in Digits \X Digits
    BY <1>1, <1>5 DEF Bytes
  <2>2. QED BY <2>1
<1>6. ASSUME NEW k \in 1 .. top PROVE text(k) \in Letters
  <2>1. CASE k % 3 = 0
    BY <2>1 DEF Letters
  <2>2. CASE k % 3 # 0
    <3>1. k % 3 \in {1, 2} /\ (k \div 3) + 1 \in 1 .. l
      BY <1>1, <1>2, <2>2
    <3>2. QED BY <1>5, <2>2, <3>1 DEF Letters
  <2>3. QED BY <2>1, <2>2
<1>7. ASSUME NEW b \in Nat, b < l
      PROVE  text(3 * b + 1) = file[b + 1][1] /\ text(3 * b + 2) = file[b + 1][2] /\ text(3 * b) = Space
  BY <1>4
<1> HIDE DEF text
<1>8. [k \in 1 .. top |-> text(k)] \in Seq(Letters) /\ Len([k \in 1 .. top |-> text(k)]) = top
  BY <1>2, <1>6
<1>9. ASSUME NEW b \in Nat, b < l
      PROVE  3 * b + 1 \in 1 .. top /\ 3 * b + 2 \in 1 .. top /\ (b > 0 => 3 * b \in 1 .. top)
  BY <1>2, <1>9
<1>10. QED BY <1>1, <1>2, <1>3, <1>7, <1>8, <1>9

\* A digit with none before it is the first.
LEMMA FirstDigit ==
  ASSUME line \in Seq(Letters), NEW i \in Nat, NEW k \in Nat, i <= k, k < Len(line),
         line[k + 1] \in Digits, \A l \in i .. (k - 1) : line[l + 1] \notin Digits
  PROVE  DigitFrom(i) = k
<1> DEFINE P(x) == /\ x = Len(line) \/ line[x + 1] \in Digits
                   /\ \A l \in i .. (x - 1) : line[l + 1] \notin Digits
           x == CHOOSE j \in i .. Len(line) : P(j)
<1>1. k \in i .. Len(line) /\ P(k)
  OBVIOUS
<1>2. x \in i .. Len(line) /\ P(x)
  BY <1>1, Zenon
<1>3. DigitFrom(i) = x
  BY DEF DigitFrom
<1> HIDE DEF x
<1>4. CASE x < k
  BY <1>2, <1>4
<1>5. CASE x > k
  BY <1>2, <1>5
<1>6. QED BY <1>2, <1>3, <1>4, <1>5

\* There is a first digit, or the line ends.
LEMMA SomeDigit ==
  ASSUME line \in Seq(Letters), NEW i \in Nat, i <= Len(line)
  PROVE  /\ DigitFrom(i) \in i .. Len(line)
         /\ Within(DigitFrom(i)) => line[DigitFrom(i) + 1] \in Digits
<1> DEFINE S == {k \in i .. Len(line) : k = Len(line) \/ line[k + 1] \in Digits}
           P(x) == /\ x = Len(line) \/ line[x + 1] \in Digits
                   /\ \A l \in i .. (x - 1) : line[l + 1] \notin Digits
           x == CHOOSE j \in i .. Len(line) : P(j)
<1>1. S \subseteq Nat /\ S # {}
  <2>1. Len(line) \in S
    OBVIOUS
  <2>2. QED BY <2>1
<1>2. PICK k \in S : \A y \in S : k <= y
  <2> HIDE DEF S
  <2>1. QED BY <1>1, LeastNumber
<1>3. k \in i .. Len(line) /\ P(k)
  <2>1. k \in i .. Len(line) /\ (k = Len(line) \/ line[k + 1] \in Digits)
    OBVIOUS
  <2>2. ASSUME NEW l \in i .. (k - 1), line[l + 1] \in Digits PROVE FALSE
    <3>1. l \in S /\ l < k
      BY <2>1, <2>2
    <3>2. k <= l
      BY <1>2, <3>1, Zenon
    <3>3. QED BY <2>1, <3>1, <3>2
  <2>3. QED BY <2>1, <2>2
<1>4. x \in i .. Len(line) /\ P(x)
  BY <1>3, Zenon
<1>5. DigitFrom(i) = x
  BY DEF DigitFrom
<1> HIDE DEF x
<1>6. QED BY <1>4, <1>5 DEF Within

\* Where the next byte is found, while it stands in what was never erased.
LEMMA AtByte ==
  ASSUME HexTypes, data = opened, LineKept, BytesKept, NEW b \in Nat, b = Len(byte),
         b < Len(opened), 3 * b + 2 <= kept
  PROVE  /\ DigitFrom(next) = 3 * b /\ DigitFrom(3 * b + 1) = 3 * b + 1
         /\ Within(3 * b) /\ Within(3 * b + 1)
         /\ line[3 * b + 1] = opened[b + 1][1] /\ line[3 * b + 2] = opened[b + 1][2]
<1>1. /\ line \in Seq(Letters) /\ kept \in Nat /\ next \in Nat /\ opened \in Seq(Bytes)
      /\ kept <= Len(line) /\ Len(line) \in Nat
      /\ \A j \in 1 .. kept : line[j] = print_hexdump(opened)[j]
  BY DEF HexTypes, LineKept
<1>2. PICK text : text = print_hexdump(opened)
  OBVIOUS
<1>3. /\ text[3 * b + 1] = opened[b + 1][1] /\ text[3 * b + 2] = opened[b + 1][2]
      /\ b > 0 => text[3 * b] = Space
  BY <1>1, <1>2, Printed
<1>4. /\ line[3 * b + 1] = opened[b + 1][1] /\ line[3 * b + 2] = opened[b + 1][2]
      /\ b > 0 => line[3 * b] = Space
  <2>1. 3 * b + 1 \in 1 .. kept /\ 3 * b + 2 \in 1 .. kept /\ (b > 0 => 3 * b \in 1 .. kept)
    BY <1>1
  <2>2. QED BY <1>1, <1>2, <1>3, <2>1
<1>5. opened[b + 1][1] \in Digits /\ opened[b + 1][2] \in Digits
  <2>1. opened[b + 1] \in Digits \X Digits
    BY <1>1 DEF Bytes
  <2>2. QED BY <2>1
<1>6. 3 * b < Len(line) /\ 3 * b + 1 < Len(line) /\ 3 * b \in Nat /\ 3 * b + 1 \in Nat
  BY <1>1
<1>7. DigitFrom(3 * b + 1) = 3 * b + 1
  <2>1. PICK k \in Nat : k = 3 * b + 1
    BY <1>6
  <2>2. line[k + 1] \in Digits /\ k < Len(line) /\ \A l \in k .. (k - 1) : line[l + 1] \notin Digits
    BY <1>4, <1>5, <1>6, <2>1
  <2>3. DigitFrom(k) = k
    BY <1>1, <2>2, FirstDigit
  <2>4. QED BY <2>1, <2>3
<1>8. DigitFrom(next) = 3 * b
  <2>1. PICK k \in Nat : k = 3 * b
    BY <1>6
  <2>2. line[k + 1] \in Digits /\ k < Len(line)
    BY <1>4, <1>5, <1>6, <2>1
  <2>3. next = IF b = 0 THEN 0 ELSE 3 * b - 1
    BY <1>1 DEF BytesKept
  <2>4. next <= k /\ \A l \in next .. (k - 1) : line[l + 1] \notin Digits
    <3>1. CASE b = 0
      BY <2>1, <2>3, <3>1
    <3>2. CASE b # 0
      <4>1. next = k - 1 /\ \A l \in next .. (k - 1) : l + 1 = k
        BY <1>1, <2>1, <2>3, <3>2
      <4>2. line[k] = Space /\ Space \notin Digits
        BY <1>4, <2>1, <3>2 DEF Space, Digits
      <4>3. QED BY <2>1, <4>1, <4>2
    <3>3. QED BY <3>1, <3>2
  <2>5. DigitFrom(next) = k
    BY <1>1, <2>2, <2>4, FirstDigit
  <2>6. QED BY <2>1, <2>5
<1>9. QED BY <1>4, <1>6, <1>7, <1>8 DEF Within

LEMMA HexStart == HexInit => HexInv
<1> SUFFICES ASSUME HexInit PROVE HexInv
  OBVIOUS
<1>1. data \in Seq(Bytes) /\ opened = data /\ byte = <<>> /\ line = <<>> /\ kept = 0 /\ next = 0
      /\ hexedit = "idle"
  BY HexEditAssumption DEF HexInit
<1>2. <<>> \in Seq(Bytes) /\ <<>> \in Seq(Letters)
  OBVIOUS
<1>3. HexTypes
  BY <1>1, <1>2 DEF HexTypes
<1>4. PrefixKept
  <2>1. \A k \in DOMAIN opened : ~(3 * k - 1 <= kept)
    BY <1>1
  <2>2. Len(data) <= Len(opened)
    BY <1>1
  <2>3. QED BY <2>1, <2>2 DEF PrefixKept
<1>5. QED BY <1>1, <1>3, <1>4 DEF HexInv

LEMMA HexStays == HexInv /\ UNCHANGED hexVars => HexInv'
BY DEF HexInv, HexTypes, hexVars, Room16, LineKept, BytesKept, PrefixKept

\* A file is opened and printed.
LEMMA OpenKeeps ==
  ASSUME HexInv, hexedit_main
  PROVE  HexInv'
<1>1. /\ data \in Seq(Bytes) /\ byte \in Seq(Bytes) /\ next \in Nat
      /\ hexedit' = "edit" /\ line' = Filled(print_hexdump(data), Limit(data))
      /\ opened' = data /\ kept' = Len(print_hexdump(data)) /\ UNCHANGED <<data, byte, next>>
  BY DEF HexInv, HexTypes, hexedit_main
<1>2. PICK text : text = print_hexdump(data)
  OBVIOUS
<1>3. text \in Seq(Letters) /\ Len(text) = IF Len(data) = 0 THEN 0 ELSE 3 * Len(data) - 1
  BY <1>1, <1>2, Printed
<1>4. PICK limit \in Int : limit = Limit(data)
  <2>1. hex_size(data) \in Nat /\ LengthRange \in Nat \ {0}
    BY <1>1, HexEditAssumption DEF hex_size
  <2>2. QED BY <2>1 DEF Limit
<1>5. PICK m \in 0 .. Len(text) : line' = SubSeq(text, 1, m) /\ m = IF Len(text) < limit THEN Len(text)
                                                                    ELSE IF limit < 0 THEN 0 ELSE limit
  <2>1. PICK l \in Nat : l = Len(text)
    BY <1>3
  <2>2. (IF l < limit THEN l ELSE IF limit < 0 THEN 0 ELSE limit) \in 0 .. l
    OBVIOUS
  <2>3. line' = SubSeq(text, 1, IF l < limit THEN l ELSE IF limit < 0 THEN 0 ELSE limit)
    BY <1>1, <1>2, <1>4, <2>1 DEF Filled
  <2>4. QED BY <2>1, <2>2, <2>3
<1>6. line' \in Seq(Letters) /\ Len(line') = m /\ \A j \in 1 .. m : line'[j] = text[j]
  BY <1>3, <1>5
<1>7. HexTypes'
  BY <1>1, <1>2, <1>3, <1>6 DEF HexTypes
<1>8. Room16' => LineKept'
  <2>1. SUFFICES ASSUME hex_size(data) < LengthRange PROVE LineKept'
    BY <1>1 DEF Room16
  <2>2. limit = 3 * Len(data)
    <3>1. PICK h, w \in Nat : h = hex_size(data) /\ w = LengthRange /\ h = 3 * Len(data) + 1
      BY <1>1, HexEditAssumption DEF hex_size
    <3>2. h < w
      BY <2>1, <3>1
    <3>3. h % w = h
      BY <3>2
    <3>4. QED BY <1>4, <3>1, <3>3 DEF Limit
  <2>3. m = Len(text)
    BY <1>1, <1>3, <1>5, <2>2
  <2>4. QED BY <1>1, <1>2, <1>3, <1>6, <2>3 DEF LineKept
<1>9. QED BY <1>1, <1>7, <1>8 DEF HexInv, PrefixKept

\* A key is pressed in the line.
LEMMA LineKeyKeeps ==
  ASSUME HexInv, (\E char \in Digits \cup {Space, Other} : Type(char)) \/ Erase \/ Enter
  PROVE  HexInv'
<1>1. HexTypes /\ hexedit = "edit" /\ data = opened /\ (Room16 => LineKept)
  BY DEF HexInv, Type, Erase, Enter
<1>2. ASSUME NEW char \in Digits \cup {Space, Other}, Type(char) PROVE HexInv'
  <2>1. line' = Append(line, char) /\ UNCHANGED <<data, hexedit, byte, next, opened, kept, edits>>
    BY <1>2 DEF Type
  <2>2. /\ line' \in Seq(Letters) /\ Len(line') = Len(line) + 1
        /\ \A j \in 1 .. Len(line) : line'[j] = line[j]
    BY <1>1, <2>1 DEF HexTypes, Letters
  <2>3. HexTypes'
    BY <1>1, <2>1, <2>2 DEF HexTypes
  <2>4. LineKept => LineKept'
    <3>1. ASSUME LineKept PROVE LineKept'
      <4>1. kept \in Nat /\ kept <= Len(line) /\ Len(line) \in Nat
        BY <1>1, <3>1 DEF LineKept, HexTypes
      <4>2. QED BY <2>1, <2>2, <3>1, <4>1 DEF LineKept
    <3>2. QED BY <3>1
  <2>5. Room16' => Room16
    BY <2>1 DEF Room16
  <2>6. QED BY <1>1, <2>1, <2>3, <2>4, <2>5 DEF HexInv, PrefixKept
<1>3. ASSUME Erase PROVE HexInv'
  <2>1. /\ line # <<>> /\ line' = SubSeq(line, 1, Len(line) - 1)
        /\ kept' = (IF Len(line') < kept THEN Len(line') ELSE kept)
        /\ UNCHANGED <<data, hexedit, byte, next, opened, edits>>
    BY <1>3 DEF Erase
  <2>2. PICK l \in Nat : Len(line) = l + 1
    <3>1. PICK h \in Nat : h = Len(line)
      BY <1>1 DEF HexTypes
    <3>2. h # 0
      BY <1>1, <2>1, <3>1 DEF HexTypes
    <3>3. h - 1 \in Nat /\ h = (h - 1) + 1
      BY <3>2
    <3>4. QED BY <3>1, <3>3
  <2>3. line' \in Seq(Letters) /\ Len(line') = l /\ \A j \in 1 .. l : line'[j] = line[j]
    BY <1>1, <2>1, <2>2 DEF HexTypes
  <2>4. kept' \in Nat /\ kept' <= l /\ kept' <= kept /\ kept \in Nat
    BY <1>1, <2>1, <2>3 DEF HexTypes
  <2>5. HexTypes'
    BY <1>1, <2>1, <2>3, <2>4 DEF HexTypes
  <2>6. LineKept => LineKept'
    <3>1. ASSUME LineKept PROVE LineKept'
      <4>1. kept <= Len(print_hexdump(opened)) /\ Len(print_hexdump(opened)) \in Nat
        BY <1>1, <3>1, Printed DEF LineKept, HexTypes
      <4>2. QED BY <2>1, <2>3, <2>4, <3>1, <4>1 DEF LineKept
    <3>2. QED BY <3>1
  <2>7. Room16' => Room16
    BY <2>1 DEF Room16
  <2>8. QED BY <1>1, <2>1, <2>5, <2>6, <2>7 DEF HexInv, PrefixKept
<1>4. ASSUME Enter PROVE HexInv'
  <2>1. /\ hexedit' = (IF data = <<>> THEN "idle" ELSE "parse") /\ byte' = <<>> /\ next' = 0
        /\ UNCHANGED <<data, line, opened, kept, edits>>
    BY <1>4 DEF Enter
  <2>2. <<>> \in Seq(Bytes) /\ Len(<<>>) = 0
    OBVIOUS
  <2>3. HexTypes'
    BY <1>1, <2>1, <2>2 DEF HexTypes
  <2>4. LineKept => LineKept'
    BY <2>1 DEF LineKept
  <2>5. Room16' => Room16
    BY <2>1 DEF Room16
  <2>6. BytesKept'
    <3>1. \A k \in DOMAIN opened : ~(k <= 0)
      BY <1>1 DEF HexTypes
    <3>2. QED BY <2>1, <2>2, <3>1 DEF BytesKept
  <2>7. Len(byte') <= Len(data') /\ next' <= Len(line')
    BY <1>1, <2>1, <2>2 DEF HexTypes
  <2>8. PrefixKept'
    <3>1. CASE data = <<>>
      BY <1>1, <2>1, <3>1 DEF PrefixKept, HexTypes
    <3>2. CASE data # <<>>
      BY <2>1, <3>2 DEF PrefixKept
    <3>3. QED BY <3>1, <3>2
  <2>9. QED BY <1>1, <2>1, <2>3, <2>4, <2>5, <2>6, <2>7, <2>8 DEF HexInv
<1>5. QED BY <1>2, <1>3, <1>4

\* A byte is parsed.
LEMMA ParseKeeps ==
  ASSUME HexInv, ParseByte
  PROVE  HexInv'
<1>1. /\ HexTypes /\ hexedit = "parse" /\ data = opened /\ (Room16 => LineKept)
      /\ Len(byte) <= Len(data) /\ next <= Len(line) /\ (Room16 => BytesKept)
  BY DEF HexInv, ParseByte, MoreBytes
<1>2. /\ line \in Seq(Letters) /\ byte \in Seq(Bytes) /\ next \in Nat /\ kept \in Nat
      /\ Len(line) \in Nat /\ opened \in Seq(Bytes)
  BY <1>1 DEF HexTypes
<1>3. PICK high, low : high = DigitFrom(next) /\ low = DigitFrom(high + 1)
  OBVIOUS
<1>4. PICK pair : pair = <<line[high + 1], IF Within(low) THEN line[low + 1] ELSE 0>>
  OBVIOUS
<1>5. /\ byte' = Append(byte, pair) /\ next' = (IF Within(low) THEN low + 1 ELSE low)
      /\ Len(byte) < Len(data) /\ Within(high)
      /\ UNCHANGED <<data, hexedit, line, opened, kept, edits>>
  BY <1>3, <1>4, Zenon DEF ParseByte, MoreBytes
<1>6. high \in next .. Len(line) /\ line[high + 1] \in Digits
  BY <1>1, <1>2, <1>3, <1>5, SomeDigit
<1>7. high \in Nat /\ high + 1 \in Nat /\ high + 1 <= Len(line)
  BY <1>2, <1>5, <1>6 DEF Within
<1>8. low \in (high + 1) .. Len(line) /\ (Within(low) => line[low + 1] \in Digits)
  BY <1>2, <1>3, <1>7, SomeDigit
<1>9. 0 \in Digits
  BY HexEditAssumption DEF Digits
<1>10. pair \in Bytes
  BY <1>4, <1>6, <1>8, <1>9 DEF Bytes
<1>11. PICK b \in Nat : b = Len(byte)
  BY <1>2
<1>12. /\ byte' \in Seq(Bytes) /\ Len(byte') = b + 1 /\ byte'[b + 1] = pair
       /\ \A k \in 1 .. b : byte'[k] = byte[k]
  BY <1>2, <1>5, <1>10, <1>11
<1>13. next' \in Nat /\ next' <= Len(line)
  BY <1>2, <1>5, <1>7, <1>8 DEF Within
<1>14. HexTypes'
  BY <1>1, <1>5, <1>12, <1>13 DEF HexTypes
<1>15. (Room16 => LineKept)'
  BY <1>1, <1>5 DEF Room16, LineKept
<1>16. ASSUME Room16 PROVE BytesKept'
  <2>1. LineKept /\ BytesKept
    BY <1>1, <1>16
  <2>2. ASSUME 3 * b + 2 <= kept PROVE pair = opened[b + 1] /\ next' = 3 * b + 2
    <3>1. /\ DigitFrom(next) = 3 * b /\ DigitFrom(3 * b + 1) = 3 * b + 1
          /\ Within(3 * b) /\ Within(3 * b + 1)
          /\ line[3 * b + 1] = opened[b + 1][1] /\ line[3 * b + 2] = opened[b + 1][2]
      <4>1. b < Len(opened)
        BY <1>1, <1>5, <1>11
      <4>2. QED BY <1>1, <1>11, <2>1, <2>2, <4>1, AtByte
    <3>2. high = 3 * b /\ low = 3 * b + 1 /\ low + 1 = 3 * b + 2
      BY <1>3, <3>1
    <3>3. pair = <<opened[b + 1][1], opened[b + 1][2]>> /\ next' = 3 * b + 2
      BY <1>4, <1>5, <3>1, <3>2
    <3>4. opened[b + 1] \in Digits \X Digits
      BY <1>1, <1>2, <1>5, <1>11 DEF Bytes
    <3>5. opened[b + 1] = <<opened[b + 1][1], opened[b + 1][2]>>
      BY <3>4
    <3>6. QED BY <3>3, <3>5
  <2>3. ASSUME NEW k \in DOMAIN opened, k <= b + 1, 3 * k - 1 <= kept PROVE byte'[k] = opened[k]
    <3>1. k \in Nat /\ k >= 1
      BY <1>2
    <3>2. CASE k <= b
      BY <1>11, <1>12, <2>1, <2>3, <3>1, <3>2 DEF BytesKept
    <3>3. CASE ~(k <= b)
      <4>1. k = b + 1 /\ 3 * b + 2 <= kept
        BY <1>2, <2>3, <3>1, <3>3
      <4>2. QED BY <1>12, <2>2, <4>1
    <3>4. QED BY <3>2, <3>3
  <2>4. 3 * (b + 1) - 1 <= kept => next' = 3 * (b + 1) - 1
    <3>1. 3 * (b + 1) - 1 = 3 * b + 2
      OBVIOUS
    <3>2. QED BY <2>2, <3>1
  <2>5. b + 1 # 0
    OBVIOUS
  <2>6. QED BY <1>5, <1>12, <2>3, <2>4, <2>5 DEF BytesKept
<1>17. Room16' => Room16
  BY <1>5 DEF Room16
<1>18. Len(byte') <= Len(data') /\ next' <= Len(line')
  BY <1>2, <1>5, <1>11, <1>12, <1>13 DEF HexTypes
<1>19. QED BY <1>1, <1>5, <1>14, <1>15, <1>16, <1>17, <1>18 DEF HexInv, PrefixKept

\* What was parsed becomes the file.
LEMMA SaveKeeps ==
  ASSUME HexInv, hexedit_save
  PROVE  HexInv'
<1>1. /\ HexTypes /\ hexedit = "parse" /\ data = opened /\ (Room16 => LineKept)
      /\ Len(byte) <= Len(data) /\ (Room16 => BytesKept)
      /\ ~MoreBytes /\ data' = byte /\ hexedit' = "idle"
      /\ UNCHANGED <<line, byte, next, opened, kept, edits>>
  BY DEF HexInv, hexedit_save
<1>2. PICK b \in Nat : b = Len(byte)
  BY <1>1 DEF HexTypes
<1>3. HexTypes'
  BY <1>1 DEF HexTypes
<1>4. ASSUME Room16, NEW k \in DOMAIN opened, 3 * k - 1 <= kept
      PROVE  k \in DOMAIN byte /\ byte[k] = opened[k]
  <2>1. k \in Nat /\ k >= 1 /\ k <= Len(opened) /\ Len(opened) \in Nat /\ kept \in Nat
    BY <1>1 DEF HexTypes
  <2>2. ASSUME ~(k <= b) PROVE FALSE
    <3>1. b < Len(opened) /\ 3 * b + 2 <= kept
      BY <1>4, <2>1, <2>2
    <3>2. DigitFrom(next) = 3 * b /\ Within(3 * b)
      BY <1>1, <1>2, <1>4, <3>1, AtByte
    <3>3. MoreBytes
      BY <1>1, <1>2, <3>1, <3>2 DEF MoreBytes
    <3>4. QED BY <1>1, <3>3
  <2>3. k \in DOMAIN byte
    BY <1>1, <1>2, <2>1, <2>2 DEF HexTypes
  <2>4. QED BY <1>1, <1>2, <1>4, <2>2, <2>3 DEF BytesKept
<1>5. PrefixKept'
  BY <1>1, <1>4 DEF PrefixKept, Room16
<1>6. QED BY <1>1, <1>3, <1>5 DEF HexInv

LEMMA HexAlways == HexInv /\ [Next]_vars => HexInv'
<1> SUFFICES ASSUME HexInv, [Next]_vars PROVE HexInv'
  OBVIOUS
<1>1. CASE HexKey \/ HexGo
  BY <1>1, OpenKeeps, LineKeyKeeps, ParseKeeps, SaveKeeps DEF HexKey, HexGo
<1>2. CASE ~(HexKey \/ HexGo)
  <2>1. UNCHANGED hexVars
    BY <1>2 DEF vars, Next, Keyboard, Processor, ReplaceStart, UsersStart, CalcKey, ReplaceGo, UsersGo,
                CalcGo, ExceptionRaised, MessageGo, kernelpanic
  <2>2. QED BY <2>1, HexStays
<1>3. QED BY <1>1, <1>2

\* hexedit saves the bytes whose digits were never erased as they were, in their places,
\* and no edit makes the file longer.
THEOREM UntouchedBytesKept == FairSpec => []PrefixKept
<1>1. Init => HexInv
  BY HexStart DEF Init
<1>2. HexInv => PrefixKept
  BY DEF HexInv
<1>3. QED BY <1>1, <1>2, HexAlways, PTL DEF FairSpec, Spec

-----------------------------------------------------------------------------
(* The string str_replace is to return *)

CallTypes == [begin : Seq(Chars), what : Seq(Chars), repl : Seq(Chars)]

\* What stands in the new string for each character of `begin'.
Parts(ask) ==
  [p \in DOMAIN ask.begin |->
     IF p \in Taken(ask) THEN ask.repl
     ELSE IF \E k \in Taken(ask) : p \in Inside(ask, k) THEN <<>>
     ELSE <<ask.begin[p]>>]

\* g joins the parts up to each of them.
Joined(g, parts) ==
  /\ g \in [0 .. Len(parts) -> Seq(Chars)]
  /\ g[0] = <<>>
  /\ \A k \in 1 .. Len(parts) : g[k] = g[k - 1] \o parts[k]

LEMMA JoinedExists ==
  ASSUME NEW parts \in Seq(Seq(Chars))
  PROVE  \E g : Joined(g, parts)
<1>1. PICK top \in Nat : top = Len(parts)
  OBVIOUS
<1>2. \A k \in 1 .. top : parts[k] \in Seq(Chars)
  BY <1>1
<1> DEFINE F == [x \in (1 .. top) \X Seq(Chars) |-> x[2] \o parts[x[1]]]
<1>3. \A k \in 1 .. top, s \in Seq(Chars) : F[<<k, s>>] = s \o parts[k]
  OBVIOUS
<1> HIDE DEF F
<1>4. ASSUME NEW k \in 1 .. top, NEW s \in Seq(Chars) PROVE F[<<k, s>>] \in Seq(Chars)
  <2>1. s \o parts[k] \in Seq(Chars)
    BY <1>2
  <2>2. QED BY <1>3, <2>1
<1>5. PICK base : base = <<>>
  OBVIOUS
<1>6. base \in Seq(Chars)
  BY <1>5
<1>7. PICK g : Along(g, top, Seq(Chars), base, F)
  BY <1>4, <1>6, AlongExists
<1>8. /\ g \in [0 .. top -> Seq(Chars)] /\ g[0] = base
      /\ \A k \in 1 .. top : g[k] = F[<<k, g[k - 1]>>]
  BY <1>7 DEF Along
<1>9. ASSUME NEW k \in 1 .. top PROVE g[k] = g[k - 1] \o parts[k]
  <2>1. g[k - 1] \in Seq(Chars)
    BY <1>8
  <2>2. g[k] = F[<<k, g[k - 1]>>]
    BY <1>8
  <2>3. QED BY <1>3, <2>1, <2>2
<1>10. Joined(g, parts)
  BY <1>1, <1>5, <1>8, <1>9 DEF Joined
<1>11. QED BY <1>10

LEMMA Flattened ==
  ASSUME NEW parts \in Seq(Seq(Chars)), NEW g, Joined(g, parts)
  PROVE  FlattenSeq(parts) = g[Len(parts)]
<1>1. PICK top \in Nat : top = Len(parts)
  OBVIOUS
<1>2. /\ g \in [0 .. top -> Seq(Chars)] /\ g[0] = <<>>
      /\ \A k \in 1 .. top : g[k] = g[k - 1] \o parts[k]
      /\ \A k \in 1 .. top : parts[k] \in Seq(Chars)
  <2>1. \A k \in 1 .. top : parts[k] \in Seq(Chars)
    BY <1>1
  <2>2. QED BY <1>1, <2>1 DEF Joined
<1>3. CASE top = 0
  <2>1. parts = <<>>
    <3>1. Len(parts) = 0
      BY <1>1, <1>3
    <3>2. QED BY <3>1
  <2>2. FlattenSeq(parts) = parts
    BY <1>1, <1>3 DEF FlattenSeq
  <2>3. QED BY <1>1, <1>2, <1>3, <2>1, <2>2
<1>4. CASE top # 0
  <2> DEFINE B(f) == f = [i \in 1 .. Len(parts) |-> IF i = 1 THEN parts[i] ELSE f[i - 1] \o parts[i]]
             u == CHOOSE f : B(f)
             v == [i \in 1 .. top |-> g[i]]
  <2>1. g[1] = parts[1]
    <3>1. 1 \in 1 .. top /\ 1 - 1 = 0
      BY <1>4
    <3>2. g[1] = g[1 - 1] \o parts[1] /\ parts[1] \in Seq(Chars)
      BY <1>2, <3>1
    <3>3. g[1] = <<>> \o parts[1]
      BY <1>2, <3>1, <3>2
    <3>4. <<>> \o parts[1] = parts[1]
      BY <3>2, ConcatEmptySeq, Zenon
    <3>5. QED BY <3>3, <3>4
  <2>2. \A i \in 1 .. top : v[i] = IF i = 1 THEN parts[i] ELSE v[i - 1] \o parts[i]
    <3>1. ASSUME NEW i \in 1 .. top, i # 1 PROVE v[i] = v[i - 1] \o parts[i]
      <4>1. i - 1 \in 1 .. top
        BY <3>1
      <4>2. v[i] = g[i] /\ v[i - 1] = g[i - 1] /\ g[i] = g[i - 1] \o parts[i]
        BY <1>2, <4>1
      <4>3. QED BY <4>2
    <3>2. QED BY <2>1, <3>1
  <2>3. B(v)
    BY <1>1, <2>2
  <2>4. B(u)
    BY <2>3, Zenon
  <2>5. FlattenSeq(parts) = u[Len(parts)]
    BY <1>1, <1>4 DEF FlattenSeq
  <2>6. \A i \in 1 .. top : u[i] = IF i = 1 THEN parts[i] ELSE u[i - 1] \o parts[i]
    <3> DEFINE body == [i \in 1 .. top |-> IF i = 1 THEN parts[i] ELSE u[i - 1] \o parts[i]]
    <3>1. u = body
      BY <1>1, <2>4, Zenon
    <3>2. \A i \in 1 .. top : body[i] = IF i = 1 THEN parts[i] ELSE u[i - 1] \o parts[i]
      OBVIOUS
    <3> HIDE DEF u, body
    <3>3. QED BY <3>1, <3>2
  <2> HIDE DEF u
  <2> DEFINE P == {k \in 0 .. top : k = 0 \/ u[k] = g[k]}
  <2>7. 0 \in P
    OBVIOUS
  <2>8. ASSUME NEW k \in 1 .. top, k - 1 \in P PROVE k \in P
    <3>1. CASE k = 1
      BY <2>1, <2>6, <2>8, <3>1
    <3>2. CASE k # 1
      <4>1. u[k - 1] = g[k - 1]
        BY <2>8, <3>2
      <4>2. u[k] = u[k - 1] \o parts[k]
        BY <1>4, <2>6, <3>2
      <4>3. g[k] = g[k - 1] \o parts[k]
        BY <1>2
      <4>4. u[k] = g[k]
        BY <4>1, <4>2, <4>3
      <4>5. QED BY <4>4
    <3>3. QED BY <3>1, <3>2
  <2>9. 0 .. top \subseteq P
    <3> HIDE DEF P
    <3>1. QED BY <2>7, <2>8, Upwards
  <2>10. u[top] = g[top]
    BY <1>4, <2>9
  <2>11. QED BY <1>1, <2>5, <2>10
<1>5. QED BY <1>3, <1>4

\* What is joined up to one part begins what is joined up to the last.
LEMMA JoinedBegins ==
  ASSUME NEW parts \in Seq(Seq(Chars)), NEW g, Joined(g, parts), NEW i \in 0 .. Len(parts)
  PROVE  IsPrefix(g[i], g[Len(parts)])
<1>1. PICK top \in Nat : top = Len(parts)
  OBVIOUS
<1>2. /\ g \in [0 .. top -> Seq(Chars)] /\ i \in 0 .. top
      /\ \A k \in 1 .. top : g[k] = g[k - 1] \o parts[k]
      /\ \A k \in 1 .. top : parts[k] \in Seq(Chars)
  <2>1. \A k \in 1 .. top : parts[k] \in Seq(Chars)
    BY <1>1
  <2>2. QED BY <1>1, <2>1 DEF Joined
<1>3. PICK s \in Seq(Chars) : s = g[i]
  BY <1>2
<1> DEFINE Begins(t) == Len(s) <= Len(t) /\ \A j \in 1 .. Len(s) : t[j] = s[j]
           P == {k \in 0 .. top : k < i \/ Begins(g[k])}
<1>4. 0 \in P
  BY <1>2, <1>3
<1>5. ASSUME NEW k \in 1 .. top, k - 1 \in P PROVE k \in P
  <2>1. CASE k <= i
    BY <1>2, <1>3, <2>1
  <2>2. CASE ~(k <= i)
    <3>1. Begins(g[k - 1])
      BY <1>2, <1>5, <2>2
    <3>2. PICK t \in Seq(Chars), w \in Seq(Chars) : t = g[k - 1] /\ w = parts[k]
      BY <1>2
    <3>3. g[k] = t \o w
      BY <1>2, <3>2
    <3>4. PICK v : v = t \o w
      OBVIOUS
    <3>5. Len(v) = Len(t) + Len(w) /\ \A j \in 1 .. Len(t) : v[j] = t[j]
      BY <3>4
    <3>6. Len(s) <= Len(t) /\ \A j \in 1 .. Len(s) : t[j] = s[j]
      BY <3>1, <3>2
    <3>7. Len(s) <= Len(v) /\ \A j \in 1 .. Len(s) : v[j] = s[j]
      BY <3>5, <3>6
    <3>8. g[k] = v
      BY <3>3, <3>4
    <3>9. Begins(g[k])
      BY <3>7, <3>8
    <3>10. QED BY <3>9
  <2>3. QED BY <2>1, <2>2
<1>6. 0 .. top \subseteq P
  <2> HIDE DEF P
  <2>1. QED BY <1>4, <1>5, Upwards
<1>7. Begins(g[top])
  BY <1>2, <1>6
<1>8. PICK t \in Seq(Chars) : t = g[top]
  BY <1>2
<1>9. Len(s) <= Len(t) /\ \A j \in 1 .. Len(s) : t[j] = s[j]
  BY <1>7, <1>8
<1>10. SubSeq(s, 1, Len(s)) = SubSeq(t, 1, Len(s))
  <2>1. SubSeq(s, 1, Len(s)) = [j \in 1 .. Len(s) |-> s[j]] /\ SubSeq(t, 1, Len(s)) = [j \in 1 .. Len(s) |-> t[j]]
    BY <1>9
  <2>2. QED BY <1>9, <2>1
<1>11. QED BY <1>1, <1>3, <1>8, <1>9, <1>10 DEF IsPrefix

\* The occurrences taken from the left, each that does not begin inside one already taken.
Greedy(ask, S) ==
  /\ S \in SUBSET Occurrences(ask)
  /\ \A p \in Occurrences(ask) : p \in S <=> \A k \in S : p \notin Inside(ask, k)

LEMMA GreedyExists ==
  ASSUME NEW ask \in CallTypes
  PROVE  \E S : Greedy(ask, S)
<1>1. PICK top \in Nat : top = Len(ask.begin)
  BY DEF CallTypes
<1>2. Occurrences(ask) \subseteq 1 .. top
  BY <1>1 DEF Occurrences
<1>3. PICK occurs : occurs = Occurrences(ask)
  OBVIOUS
<1>4. ASSUME NEW k \in Nat, NEW p \in Inside(ask, k) PROVE p > k
  BY <1>4 DEF Inside
<1> DEFINE Fits1(p, T) == \A k \in T : p \notin Inside(ask, k)
           F == [x \in (1 .. top) \X SUBSET (1 .. top) |->
                   IF x[1] \in occurs /\ Fits1(x[1], x[2]) THEN x[2] \cup {x[1]} ELSE x[2]]
<1>5. \A p \in 1 .. top, T \in SUBSET (1 .. top) :
        F[<<p, T>>] = IF p \in occurs /\ Fits1(p, T) THEN T \cup {p} ELSE T
  OBVIOUS
<1> HIDE DEF F
<1>6. PICK g : Along(g, top, SUBSET (1 .. top), {}, F)
  <2>1. PICK base : base = {}
    OBVIOUS
  <2>2. base \in SUBSET (1 .. top)
    BY <2>1
  <2>3. ASSUME NEW p \in 1 .. top, NEW T \in SUBSET (1 .. top) PROVE F[<<p, T>>] \in SUBSET (1 .. top)
    <3>1. F[<<p, T>>] = IF p \in occurs /\ Fits1(p, T) THEN T \cup {p} ELSE T
      BY <1>5
    <3> HIDE DEF Fits1
    <3>2. T \cup {p} \in SUBSET (1 .. top)
      OBVIOUS
    <3>3. QED BY <3>1, <3>2
  <2>4. \E g : Along(g, top, SUBSET (1 .. top), base, F)
    BY <2>2, <2>3, AlongExists
  <2>5. QED BY <2>1, <2>4
<1>7. /\ \A k \in 0 .. top : g[k] \subseteq 1 .. top
      /\ g[0] = {}
      /\ \A k \in 1 .. top :
           g[k] = IF k \in occurs /\ Fits1(k, g[k - 1]) THEN g[k - 1] \cup {k} ELSE g[k - 1]
  <2> HIDE DEF Fits1
  <2>1. g \in [0 .. top -> SUBSET (1 .. top)] /\ g[0] = {} /\ \A k \in 1 .. top : g[k] = F[<<k, g[k - 1]>>]
    BY <1>6 DEF Along
  <2>2. ASSUME NEW k \in 1 .. top
        PROVE  g[k] = IF k \in occurs /\ Fits1(k, g[k - 1]) THEN g[k - 1] \cup {k} ELSE g[k - 1]
    <3>1. g[k - 1] \in SUBSET (1 .. top)
      BY <2>1
    <3>2. g[k] = F[<<k, g[k - 1]>>]
      BY <2>1
    <3>3. QED BY <1>5, <3>1, <3>2
  <2>3. QED BY <2>1, <2>2
<1> DEFINE P == {k \in 0 .. top : g[k] \subseteq occurs \cap (1 .. k) /\ \A j \in 0 .. k : g[j] = g[k] \cap (1 .. j)}
<1>8. 0 \in P
  BY <1>7
<1>9. ASSUME NEW k \in 1 .. top, k - 1 \in P PROVE k \in P
  <2> HIDE DEF Fits1
  <2>1. k - 1 \in 0 .. top /\ g[k - 1] \subseteq occurs \cap (1 .. (k - 1))
        /\ \A j \in 0 .. (k - 1) : g[j] = g[k - 1] \cap (1 .. j)
    BY <1>9
  <2>2. g[k] = g[k - 1] \cup {k} \/ g[k] = g[k - 1]
    BY <1>7
  <2>3. k \in g[k] => k \in occurs
    BY <1>7, <2>1
  <2>4. g[k] \subseteq occurs \cap (1 .. k)
    BY <2>1, <2>2, <2>3
  <2>5. ASSUME NEW j \in 0 .. k PROVE g[j] = g[k] \cap (1 .. j)
    <3>1. CASE j = k
      BY <2>4, <3>1
    <3>2. CASE j # k
      BY <2>1, <2>2, <3>2
    <3>3. QED BY <3>1, <3>2
  <2>6. QED BY <2>4, <2>5
<1>10. 0 .. top \subseteq P
  <2> HIDE DEF P, Fits1
  <2>1. QED BY <1>8, <1>9, Upwards
<1>11. PICK T : T = g[top]
  OBVIOUS
<1>12. T \subseteq occurs /\ \A j \in 0 .. top : g[j] = T \cap (1 .. j) /\ j \in P
  BY <1>10, <1>11
<1>13. ASSUME NEW p \in occurs PROVE p \in T <=> \A k \in T : p \notin Inside(ask, k)
  <2>1. p \in 1 .. top /\ p - 1 \in 0 .. top /\ p \in 0 .. top
    BY <1>2, <1>3
  <2>2. g[p] = T \cap (1 .. p) /\ g[p - 1] = T \cap (1 .. (p - 1))
    BY <1>12, <2>1
  <2>3. p \in T <=> p \in g[p]
    BY <2>1, <2>2
  <2>4. p \notin g[p - 1]
    BY <2>1, <2>2
  <2>5. p \in g[p] <=> Fits1(p, g[p - 1])
    <3> HIDE DEF Fits1
    <3>1. QED BY <1>7, <2>1, <2>4
  <2>6. ASSUME NEW k \in T PROVE k \in g[p - 1] \/ p \notin Inside(ask, k)
    <3>1. k \in 1 .. top
      BY <1>2, <1>3, <1>12
    <3>2. CASE k <= p - 1
      BY <2>1, <2>2, <3>1, <3>2
    <3>3. CASE ~(k <= p - 1)
      <4>1. ~(p > k)
        BY <2>1, <3>1, <3>3
      <4>2. QED BY <1>4, <3>1, <4>1
    <3>4. QED BY <3>2, <3>3
  <2>7. g[p - 1] \subseteq T
    BY <2>2
  <2>8. Fits1(p, g[p - 1]) <=> \A k \in T : p \notin Inside(ask, k)
    BY <2>6, <2>7, Zenon
  <2>9. QED BY <2>3, <2>5, <2>8
<1>14. Greedy(ask, T)
  BY <1>3, <1>12, <1>13 DEF Greedy
<1>15. QED BY <1>14

LEMMA TakenGreedy == ASSUME NEW ask \in CallTypes PROVE Greedy(ask, Taken(ask))
<1>1. \E S \in SUBSET Occurrences(ask) : Greedy(ask, S)
  BY GreedyExists DEF Greedy
<1>2. Taken(ask) = CHOOSE S \in SUBSET Occurrences(ask) :
                     \A p \in Occurrences(ask) : p \in S <=> \A k \in S : p \notin Inside(ask, k)
  BY DEF Taken
<1>3. QED BY <1>1, <1>2, Zenon DEF Greedy

\* The new string, joined up to each character of `begin'.
Done(ask) == CHOOSE g : Joined(g, Parts(ask))

LEMMA PartsJoined ==
  ASSUME NEW ask \in CallTypes
  PROVE  /\ Parts(ask) \in Seq(Seq(Chars)) /\ Len(Parts(ask)) = Len(ask.begin)
         /\ Joined(Done(ask), Parts(ask))
         /\ Replaced(ask) = Done(ask)[Len(ask.begin)]
<1>1. PICK top \in Nat : top = Len(ask.begin)
  BY DEF CallTypes
<1>2. DOMAIN ask.begin = 1 .. top /\ ask.repl \in Seq(Chars)
      /\ \A p \in 1 .. top : ask.begin[p] \in Chars
  BY <1>1 DEF CallTypes
<1> DEFINE part(p) == IF p \in Taken(ask) THEN ask.repl
                      ELSE IF \E k \in Taken(ask) : p \in Inside(ask, k) THEN <<>>
                      ELSE <<ask.begin[p]>>
<1>3. ASSUME NEW p \in 1 .. top PROVE part(p) \in Seq(Chars)
  <2>1. <<>> \in Seq(Chars)
    OBVIOUS
  <2>2. ask.begin[p] \in Chars
    BY <1>2
  <2>3. <<ask.begin[p]>> \in Seq(Chars)
    BY <2>2
  <2>4. QED BY <1>2, <2>1, <2>3, Zenon
<1>4. Parts(ask) = [p \in 1 .. top |-> part(p)]
  BY <1>2 DEF Parts
<1>5. Replaced(ask) = FlattenSeq(Parts(ask))
  BY DEF Replaced, Parts
<1> HIDE DEF part
<1>6. Parts(ask) \in Seq(Seq(Chars)) /\ Len(Parts(ask)) = top
  BY <1>3, <1>4
<1>7. Joined(Done(ask), Parts(ask))
  <2>1. \E g : Joined(g, Parts(ask))
    BY <1>6, JoinedExists
  <2>2. QED BY <2>1, Zenon DEF Done
<1>8. FlattenSeq(Parts(ask)) = Done(ask)[Len(Parts(ask))]
  BY <1>6, <1>7, Flattened, Zenon
<1>9. QED BY <1>1, <1>5, <1>6, <1>7, <1>8

\* No occurrence that was taken reaches over i.
Boundary(ask, i) ==
  /\ i \in 0 .. Len(ask.begin)
  /\ \A k \in Taken(ask) : k <= i => k + Len(ask.what) - 1 <= i

LEMMA DoneAt ==
  ASSUME NEW ask \in CallTypes
  PROVE  /\ Done(ask)[0] = <<>>
         /\ \A i \in 0 .. Len(ask.begin) : Done(ask)[i] \in Seq(Chars)
         /\ \A i \in 1 .. Len(ask.begin) : Done(ask)[i] = Done(ask)[i - 1] \o Parts(ask)[i]
BY PartsJoined DEF Joined

LEMMA TakenIn ==
  ASSUME NEW ask \in CallTypes, NEW k \in Taken(ask)
  PROVE  k \in 1 .. Len(ask.begin) /\ k \in Occurrences(ask) /\ k + Len(ask.what) - 1 <= Len(ask.begin)
BY TakenGreedy DEF Greedy, Occurrences

\* A character where no occurrence begins is copied.
LEMMA PlainStep ==
  ASSUME NEW ask \in CallTypes, NEW i \in Nat, i < Len(ask.begin), Boundary(ask, i),
         i + 1 \notin Occurrences(ask)
  PROVE  Boundary(ask, i + 1) /\ Done(ask)[i + 1] = Append(Done(ask)[i], ask.begin[i + 1])
<1>1. PICK top \in Nat, w \in Nat : top = Len(ask.begin) /\ w = Len(ask.what)
  BY DEF CallTypes
<1>2. \A k \in Taken(ask) : k \in 1 .. top /\ k # i + 1 /\ (k <= i => k + w - 1 <= i)
  BY <1>1, TakenIn DEF Boundary
<1>3. Boundary(ask, i + 1)
  BY <1>1, <1>2 DEF Boundary
<1>4. i + 1 \notin Taken(ask)
  BY <1>2
<1>5. ~(\E k \in Taken(ask) : i + 1 \in Inside(ask, k))
  BY <1>1, <1>2 DEF Inside
<1>6. i + 1 \in DOMAIN ask.begin /\ ask.begin[i + 1] \in Chars /\ i + 1 \in 1 .. Len(ask.begin)
  BY <1>1 DEF CallTypes
<1>7. Parts(ask)[i + 1] = <<ask.begin[i + 1]>>
  BY <1>4, <1>5, <1>6 DEF Parts
<1>8. Done(ask)[i + 1] = Done(ask)[i] \o <<ask.begin[i + 1]>> /\ Done(ask)[i] \in Seq(Chars)
  <2>1. (i + 1) - 1 = i /\ i \in 0 .. Len(ask.begin)
    BY <1>1
  <2>2. Done(ask)[i + 1] = Done(ask)[(i + 1) - 1] \o Parts(ask)[i + 1]
    BY <1>6, DoneAt
  <2>3. Done(ask)[i] \in Seq(Chars)
    BY <2>1, DoneAt
  <2>4. QED BY <1>7, <2>1, <2>2, <2>3
<1>9. Done(ask)[i] \o <<ask.begin[i + 1]>> = Append(Done(ask)[i], ask.begin[i + 1])
  BY <1>6, <1>8, AppendIsConcat
<1>10. QED BY <1>3, <1>8, <1>9

BeginsAt(ask, p) == p \in Occurrences(ask)

\* An occurrence is taken, and gives way to what replaces it.
LEMMA TakenStep ==
  ASSUME NEW ask \in CallTypes, NEW i \in Nat, Boundary(ask, i), BeginsAt(ask, i + 1)
  PROVE  /\ Boundary(ask, i + Len(ask.what))
         /\ Done(ask)[i + Len(ask.what)] = Done(ask)[i] \o ask.repl
<1>1. PICK top, w : top \in Nat /\ w \in Nat /\ top = Len(ask.begin) /\ w = Len(ask.what)
  <2>1. Len(ask.begin) \in Nat /\ Len(ask.what) \in Nat
    BY DEF CallTypes
  <2>2. QED BY <2>1
<1>2. top \in Nat /\ w \in Nat
  BY <1>1, Zenon
<1>3. i + 1 \in 1 .. top /\ i + w <= top /\ w >= 1
  <2>1. ask.what # <<>> /\ ask.what \in Seq(Chars) /\ i + 1 + w - 1 <= top /\ i + 1 \in 1 .. top
    BY <1>1 DEF Occurrences, CallTypes, BeginsAt
  <2>2. w # 0
    <3>1. Len(ask.what) # 0
      BY <2>1
    <3>2. QED BY <1>1, <3>1
  <2>3. QED BY <1>2, <2>1, <2>2
<1>4. \A k \in Taken(ask) : k \in 1 .. top /\ (k <= i => k + w - 1 <= i)
  BY <1>1, TakenIn DEF Boundary
<1>5. ASSUME NEW k \in Taken(ask) PROVE i + 1 \notin Inside(ask, k)
  BY <1>1, <1>4 DEF Inside
<1>6. i + 1 \in Taken(ask)
  BY <1>5, TakenGreedy DEF Greedy, BeginsAt
<1>7. ASSUME NEW p \in (i + 2) .. (i + w) PROVE p \notin Taken(ask) /\ p \in Inside(ask, i + 1)
  <2>1. p \in Inside(ask, i + 1)
    <3>1. p - 1 >= i + 1 /\ p \in (i + 1 + 1) .. (i + 1 + w - 1)
      BY <1>2
    <3>2. QED BY <1>1, <3>1 DEF Inside
  <2>2. QED BY <1>6, <2>1, TakenGreedy DEF Greedy
<1>8. Boundary(ask, i + w)
  <2>1. ASSUME NEW k \in Taken(ask), k <= i + w PROVE k + w - 1 <= i + w
    <3>1. k \in Nat /\ k \notin (i + 2) .. (i + w)
      BY <1>4, <1>7
    <3>2. k <= i \/ k = i + 1
      BY <2>1, <3>1
    <3>3. QED BY <1>1, <1>4, <3>1, <3>2
  <2>2. QED BY <1>1, <1>3, <2>1 DEF Boundary
<1>9. PICK new : new = Done(ask)[i] \o ask.repl
  OBVIOUS
<1>10. new \in Seq(Chars) /\ Done(ask)[i] \in Seq(Chars)
  <2>1. Done(ask)[i] \in Seq(Chars) /\ ask.repl \in Seq(Chars)
    BY DoneAt DEF Boundary, CallTypes
  <2>2. QED BY <1>9, <2>1
<1> DEFINE P == {k \in 0 .. (w - 1) : Done(ask)[i + 1 + k] = new}
<1>11. 0 \in P
  <2>1. i + 1 \in DOMAIN ask.begin /\ (i + 1) - 1 = i /\ i + 1 \in 1 .. Len(ask.begin)
    BY <1>1, <1>3 DEF CallTypes
  <2>2. Parts(ask)[i + 1] = ask.repl
    BY <1>6, <2>1 DEF Parts
  <2>3. Done(ask)[i + 1] = Done(ask)[(i + 1) - 1] \o Parts(ask)[i + 1]
    BY <2>1, DoneAt
  <2>4. Done(ask)[i + 1] = new /\ i + 1 + 0 = i + 1
    BY <1>9, <2>1, <2>2, <2>3
  <2>5. 0 \in 0 .. (w - 1)
    BY <1>2, <1>3
  <2>6. QED BY <2>4, <2>5
<1>12. ASSUME NEW k \in 1 .. (w - 1), k - 1 \in P PROVE k \in P
  <2>1. PICK p \in (i + 2) .. (i + w) : p = i + 1 + k
    BY <1>2, <1>3
  <2>2. p \in DOMAIN ask.begin /\ p \in 1 .. Len(ask.begin) /\ p - 1 = i + 1 + (k - 1)
    BY <1>1, <1>3, <2>1 DEF CallTypes
  <2>3. Parts(ask)[p] = <<>>
    BY <1>6, <1>7, <2>2 DEF Parts
  <2>4. Done(ask)[p] = Done(ask)[p - 1] \o Parts(ask)[p]
    BY <2>2, DoneAt
  <2>5. Done(ask)[p - 1] = new
    BY <1>12, <2>2
  <2>6. new \o <<>> = new
    BY <1>10, ConcatEmptySeq, Zenon
  <2>7. Done(ask)[i + 1 + k] = new
    BY <2>1, <2>3, <2>4, <2>5, <2>6
  <2>8. QED BY <2>7
<1>13. 0 .. (w - 1) \subseteq P
  <2>1. w - 1 \in Nat
    BY <1>2, <1>3
  <2> HIDE DEF P
  <2>2. QED BY <1>11, <1>12, <2>1, Upwards
<1>14. Done(ask)[i + w] = new
  <2>1. w - 1 \in P
    BY <1>2, <1>3, <1>13
  <2>2. i + 1 + (w - 1) = i + w
    BY <1>2
  <2>3. QED BY <2>1, <2>2
<1>15. QED BY <1>1, <1>8, <1>9, <1>14

-----------------------------------------------------------------------------
(* The loops of str_replace *)

ReplaceTypes ==
  /\ call \in CallTypes
  /\ at \in Nat /\ count \in Nat /\ outlen \in Int /\ out \in Seq(Chars)
  /\ replace \in {"idle", "count", "room", "copy", "panic"}

Spread(ask) == Len(ask.repl) - Len(ask.what)

\* Both loops stand on the same boundaries between occurrences; the first has counted those in
\* front of it, the second has written what they and the characters between them become.
LoopInv ==
  /\ ReplaceTypes
  /\ replace = "count" => /\ call.what # <<>> /\ Boundary(call, at)
                          /\ Len(Done(call)[at]) = at + count * Spread(call)
  /\ replace = "room" => Len(Replaced(call)) = Len(call.begin) + count * Spread(call)
  /\ replace = "copy" => Boundary(call, at) /\ outlen = Len(Replaced(call)) /\ out = Done(call)[at]
  /\ replace \in {"count", "room"} => out = <<>>
  /\ replace = "idle" => out = Replaced(call)

LEMMA LoopIsRight == LoopInv => ReplaceInv
<1> SUFFICES ASSUME LoopInv PROVE ReplaceInv
  OBVIOUS
<1>1. call \in CallTypes
  BY DEF LoopInv, ReplaceTypes
<1>2. ASSUME replace = "copy" PROVE IsPrefix(out, Replaced(call))
  <2>1. out = Done(call)[at] /\ at \in 0 .. Len(call.begin)
    BY <1>2 DEF LoopInv, Boundary
  <2>2. PICK parts, g : parts = Parts(call) /\ g = Done(call)
    OBVIOUS
  <2>3. /\ parts \in Seq(Seq(Chars)) /\ Len(parts) = Len(call.begin) /\ Joined(g, parts)
        /\ Replaced(call) = g[Len(parts)]
    BY <1>1, <2>2, PartsJoined
  <2>4. at \in 0 .. Len(parts)
    BY <2>1, <2>3
  <2>5. IsPrefix(g[at], g[Len(parts)])
    BY <2>3, <2>4, JoinedBegins
  <2>6. QED BY <2>1, <2>2, <2>3, <2>5
<1>3. QED BY <1>2 DEF LoopInv, ReplaceInv

\* What the loops compare is whether an occurrence begins here.
LEMMA MatchIs ==
  ASSUME call \in CallTypes, at \in Nat
  PROVE  (wlen > 0 /\ match) <=> BeginsAt(call, at + 1)
<1>1. PICK s, t : s = call.begin /\ t = call.what
  OBVIOUS
<1>2. s \in Seq(Chars) /\ t \in Seq(Chars)
  BY <1>1 DEF CallTypes
<1>3. PICK top \in Nat : top = Len(s)
  BY <1>2
<1>4. PICK w \in Nat : w = Len(t)
  BY <1>2
<1>5. (wlen > 0 /\ match) <=> w > 0 /\ \A j \in 1 .. w : at + j <= top /\ s[at + j] = t[j]
  BY <1>1, <1>3, <1>4 DEF wlen, match, blen
<1>6. BeginsAt(call, at + 1) <=>
        /\ at + 1 \in 1 .. top /\ at + 1 + w - 1 <= top
        /\ t # <<>> /\ SubSeq(s, at + 1, at + 1 + w - 1) = t
  BY <1>1, <1>3, <1>4 DEF BeginsAt, Occurrences
<1>7. at + 1 + w - 1 = at + w
  OBVIOUS
<1>8. t # <<>> <=> w > 0
  <2>1. t = <<>> <=> Len(t) = 0
    BY <1>2
  <2>2. QED BY <1>4, <2>1
<1>9. ASSUME w > 0
      PROVE  (\A j \in 1 .. w : at + j <= top /\ s[at + j] = t[j]) <=>
               at + 1 \in 1 .. top /\ at + w <= top /\ SubSeq(s, at + 1, at + w) = t
  <2>1. (\A j \in 1 .. w : at + j <= top) <=> at + w <= top
    BY <1>9
  <2>2. at + w <= top => at + 1 \in 1 .. top
    BY <1>9
  <2>3. ASSUME at + w <= top PROVE SubSeq(s, at + 1, at + w) = t <=> \A j \in 1 .. w : s[at + j] = t[j]
    <3>1. PICK u : u = SubSeq(s, at + 1, at + w)
      OBVIOUS
    <3>2. u = [j \in 1 .. w |-> s[at + j]]
      <4>1. u = [j \in 1 .. (at + w - (at + 1) + 1) |-> s[at + 1 + j - 1]]
        BY <1>2, <1>3, <1>9, <2>3, <3>1
      <4>2. at + w - (at + 1) + 1 = w /\ \A j \in 1 .. w : at + 1 + j - 1 = at + j
        OBVIOUS
      <4>3. QED BY <4>1, <4>2
    <3>3. u \in Seq(Chars) /\ Len(u) = w /\ \A j \in 1 .. w : u[j] = s[at + j]
      <4>1. \A j \in 1 .. w : s[at + j] \in Chars
        BY <1>2, <1>3, <2>3
      <4>2. QED BY <3>2, <4>1
    <3>4. ASSUME \A j \in 1 .. w : s[at + j] = t[j] PROVE u = t
      BY <1>2, <1>4, <3>3, <3>4, SeqEqual
    <3>5. QED BY <3>1, <3>3, <3>4
  <2>4. QED BY <2>1, <2>2, <2>3
<1>10. QED BY <1>5, <1>6, <1>7, <1>8, <1>9

LEMMA BoundaryAtStart == ASSUME NEW ask \in CallTypes PROVE Boundary(ask, 0)
<1>1. \A k \in Taken(ask) : ~(k <= 0)
  BY TakenIn
<1>2. Len(ask.begin) \in Nat
  BY DEF CallTypes
<1>3. QED BY <1>1, <1>2 DEF Boundary

\* An empty `what' is found nowhere.
LEMMA NothingFound ==
  ASSUME NEW ask \in CallTypes, ask.what = <<>>
  PROVE  Len(Replaced(ask)) = Len(ask.begin)
<1>1. PICK top \in Nat : top = Len(ask.begin)
  BY DEF CallTypes
<1> DEFINE P == {i \in 0 .. top : Boundary(ask, i) /\ Len(Done(ask)[i]) = i}
<1>2. 0 \in P
  <2>1. Boundary(ask, 0) /\ Done(ask)[0] = <<>>
    BY BoundaryAtStart, DoneAt
  <2>2. Len(Done(ask)[0]) = 0
    BY <2>1
  <2>3. QED BY <2>1, <2>2
<1>3. ASSUME NEW i \in 1 .. top, i - 1 \in P PROVE i \in P
  <2>1. PICK k \in Nat : k = i - 1
    BY <1>3
  <2>2. Boundary(ask, k) /\ Len(Done(ask)[k]) = k /\ k < Len(ask.begin) /\ k + 1 = i
    BY <1>1, <1>3, <2>1
  <2>3. k + 1 \notin Occurrences(ask)
    BY DEF Occurrences
  <2>4. Boundary(ask, k + 1) /\ Done(ask)[k + 1] = Append(Done(ask)[k], ask.begin[k + 1])
    BY <2>2, <2>3, PlainStep
  <2>5. Done(ask)[k] \in Seq(Chars)
    BY <2>2, DoneAt DEF Boundary
  <2>6. ask.begin[k + 1] \in Chars
    BY <1>1, <1>3, <2>2 DEF CallTypes
  <2>7. Len(Done(ask)[k + 1]) = k + 1
    BY <2>2, <2>4, <2>5, <2>6
  <2>8. QED BY <2>2, <2>4, <2>7
<1>4. 0 .. top \subseteq P
  <2> HIDE DEF P
  <2>1. QED BY <1>2, <1>3, Upwards
<1>5. Len(Done(ask)[top]) = top
  BY <1>4
<1>6. QED BY <1>1, <1>5, PartsJoined

LEMMA LoopStart == ReplaceInit => LoopInv
<1> SUFFICES ASSUME ReplaceInit PROVE LoopInv
  OBVIOUS
<1>1. <<>> \in Seq(Chars)
  OBVIOUS
<1>2. call \in CallTypes /\ call.begin = <<>>
  BY <1>1 DEF ReplaceInit, NoCall, CallTypes
<1>3. ReplaceTypes
  BY <1>1, <1>2 DEF ReplaceInit, ReplaceTypes
<1>4. Replaced(call) = <<>>
  <2>1. Len(call.begin) = 0
    BY <1>2
  <2>2. QED BY <1>2, <2>1, PartsJoined, DoneAt
<1>5. QED BY <1>3, <1>4 DEF ReplaceInit, LoopInv

LEMMA LoopStays == LoopInv /\ UNCHANGED replaceVars => LoopInv'
BY DEF LoopInv, ReplaceTypes, replaceVars

\* A call begins.
LEMMA CallKeeps ==
  ASSUME LoopInv, NEW ask \in Calls, ReplaceCall(ask)
  PROVE  LoopInv'
<1>1. /\ call' = ask /\ replace' = (IF ask.what = <<>> THEN "room" ELSE "count")
      /\ at' = 0 /\ count' = 0 /\ outlen' = 0 /\ out' = <<>>
  BY DEF ReplaceCall
<1>2. ask \in CallTypes
  BY StrReplaceAssumption DEF CallTypes
<1>3. <<>> \in Seq(Chars)
  OBVIOUS
<1>4. ReplaceTypes'
  BY <1>1, <1>2, <1>3 DEF ReplaceTypes
<1>5. Spread(ask) \in Int /\ Len(ask.begin) \in Nat
  BY <1>2 DEF Spread, CallTypes
<1>6. ASSUME ask.what # <<>> PROVE Boundary(ask, 0) /\ Len(Done(ask)[0]) = 0 + 0 * Spread(ask)
  <2>1. Len(Done(ask)[0]) = 0
    <3>1. Done(ask)[0] = <<>>
      BY <1>2, DoneAt
    <3>2. QED BY <3>1
  <2>2. QED BY <1>2, <1>5, <2>1, BoundaryAtStart
<1>7. ASSUME ask.what = <<>> PROVE Len(Replaced(ask)) = Len(ask.begin) + 0 * Spread(ask)
  <2>1. Len(Replaced(ask)) = Len(ask.begin)
    BY <1>2, <1>7, NothingFound
  <2>2. QED BY <1>5, <2>1
<1>8. QED BY <1>1, <1>4, <1>6, <1>7 DEF LoopInv

\* One step of either loop.
LEMMA LoopStep ==
  ASSUME LoopInv, ReplaceStep
  PROVE  LoopInv'
<1>1. /\ ReplaceTypes /\ call \in CallTypes /\ at \in Nat /\ count \in Nat
      /\ out \in Seq(Chars) /\ outlen \in Int
  BY DEF LoopInv, ReplaceTypes
<1>2. PICK x \in Int : x = Spread(call) /\ rlen - wlen = x
  <2>1. Len(call.repl) \in Nat /\ Len(call.what) \in Nat
    BY <1>1 DEF CallTypes
  <2>2. Spread(call) \in Int /\ rlen - wlen = Spread(call)
    BY <2>1 DEF Spread, rlen, wlen
  <2>3. QED BY <2>2
<1>3. PICK top \in Nat : top = Len(call.begin) /\ blen = top
  <2>1. Len(call.begin) \in Nat
    BY <1>1 DEF CallTypes
  <2>2. QED BY <2>1 DEF blen
<1>4. PICK w \in Nat : w = Len(call.what) /\ wlen = w
  <2>1. Len(call.what) \in Nat
    BY <1>1 DEF CallTypes
  <2>2. QED BY <2>1 DEF wlen
<1>5. ASSUME NEW i \in 0 .. top PROVE Done(call)[i] \in Seq(Chars) /\ Len(Done(call)[i]) \in Nat
  <2>1. Done(call)[i] \in Seq(Chars)
    BY <1>1, <1>3, DoneAt
  <2>2. QED BY <2>1
<1>6. ASSUME Count PROVE LoopInv'
  <2>1. /\ replace = "count" /\ at < top
        /\ count' = count + (IF match THEN 1 ELSE 0)
        /\ at' = at + (IF match THEN w ELSE 1)
        /\ UNCHANGED <<call, replace, outlen, out>>
        /\ call.what # <<>> /\ Boundary(call, at)
        /\ Len(Done(call)[at]) = at + count * x
    BY <1>2, <1>3, <1>4, <1>6 DEF Count, LoopInv
  <2>2. w > 0
    <3>1. Len(call.what) # 0
      BY <1>1, <2>1 DEF CallTypes
    <3>2. QED BY <1>4, <3>1
  <2>3. match <=> BeginsAt(call, at + 1)
    BY <1>1, <1>4, <2>2, MatchIs
  <2>4. CASE match
    <3>1. count' = count + 1 /\ at' = at + w
      BY <2>1, <2>4
    <3>2. Boundary(call, at + w) /\ Done(call)[at + w] = Done(call)[at] \o call.repl
      BY <1>1, <1>4, <2>1, <2>3, <2>4, TakenStep
    <3>3. Len(Done(call)[at + w]) = Len(Done(call)[at]) + Len(call.repl)
      <4>1. Done(call)[at] \in Seq(Chars) /\ call.repl \in Seq(Chars)
        BY <1>1, <1>3, <1>5, <2>1 DEF Boundary, CallTypes
      <4>2. QED BY <3>2, <4>1
    <3>4. Len(call.repl) = w + x
      <4>1. Len(call.repl) \in Nat
        BY <1>1 DEF CallTypes
      <4>2. QED BY <1>2, <1>4, <4>1 DEF Spread
    <3>5. \A y, z \in Int : (y + 1) * z = y * z + z
      OBVIOUS
    <3>6. (count + 1) * x = count * x + x /\ count * x \in Int
      BY <1>1, <3>5
    <3>7. Len(Done(call)[at + w]) = (at + w) + (count + 1) * x
      BY <1>1, <2>1, <3>3, <3>4, <3>6
    <3>8. ReplaceTypes'
      BY <1>1, <2>1, <3>1 DEF ReplaceTypes
    <3>9. QED BY <1>2, <2>1, <3>1, <3>2, <3>7, <3>8 DEF LoopInv, Spread
  <2>5. CASE ~match
    <3>1. count' = count /\ at' = at + 1
      BY <1>1, <2>1, <2>5
    <3>2. at + 1 \notin Occurrences(call)
      BY <2>3, <2>5 DEF BeginsAt
    <3>3. Boundary(call, at + 1) /\ Done(call)[at + 1] = Append(Done(call)[at], call.begin[at + 1])
      BY <1>1, <1>3, <2>1, <3>2, PlainStep
    <3>4. Len(Done(call)[at + 1]) = Len(Done(call)[at]) + 1
      <4>1. Done(call)[at] \in Seq(Chars) /\ call.begin[at + 1] \in Chars
        BY <1>1, <1>3, <1>5, <2>1 DEF Boundary, CallTypes
      <4>2. QED BY <3>3, <4>1
    <3>5. count * x \in Int
      BY <1>1
    <3>6. Len(Done(call)[at + 1]) = (at + 1) + count * x
      BY <1>1, <2>1, <3>4, <3>5
    <3>7. ReplaceTypes'
      BY <1>1, <2>1, <3>1 DEF ReplaceTypes
    <3>8. QED BY <1>2, <2>1, <3>1, <3>3, <3>6, <3>7 DEF LoopInv, Spread
  <2>6. QED BY <2>4, <2>5
<1>7. ASSUME Counted PROVE LoopInv'
  <2>1. /\ replace = "count" /\ at >= top /\ replace' = "room" /\ UNCHANGED <<call, at, count, outlen, out>>
        /\ Boundary(call, at) /\ Len(Done(call)[at]) = at + count * x
    BY <1>2, <1>3, <1>7 DEF Counted, LoopInv
  <2>2. at = top
    BY <1>3, <2>1 DEF Boundary
  <2>3. Len(Replaced(call)) = Len(call.begin) + count * Spread(call)
    BY <1>1, <1>2, <1>3, <2>1, <2>2, PartsJoined
  <2>4. ReplaceTypes'
    BY <1>1, <2>1 DEF ReplaceTypes
  <2>5. QED BY <2>1, <2>3, <2>4 DEF LoopInv
<1>8. ASSUME Room PROVE LoopInv'
  <2>1. /\ replace = "room" /\ replace' = "copy" /\ at' = 0 /\ UNCHANGED <<call, count, out>>
        /\ outlen' = top + count * x /\ Len(Replaced(call)) = top + count * x
    BY <1>2, <1>3, <1>8 DEF Room, LoopInv
  <2>2. out' = Done(call)[0]
    BY <1>1, <1>8, <2>1, DoneAt DEF LoopInv
  <2>3. outlen' = Len(Replaced(call)) /\ outlen' \in Int
    <3>1. count * x \in Int
      BY <1>1
    <3>2. QED BY <2>1, <3>1
  <2>4. Boundary(call, 0)
    BY <1>1, BoundaryAtStart
  <2>5. ReplaceTypes'
    BY <1>1, <2>1, <2>3 DEF ReplaceTypes
  <2>6. QED BY <2>1, <2>2, <2>3, <2>4, <2>5 DEF LoopInv
<1>9. ASSUME RoomOutOfMemory PROVE LoopInv'
  BY <1>9 DEF RoomOutOfMemory, LoopInv, ReplaceTypes
<1>10. ASSUME Copy PROVE LoopInv'
  <2>1. /\ replace = "copy" /\ at < top /\ UNCHANGED <<call, replace, count, outlen>>
        /\ IF w > 0 /\ match
           THEN out' = out \o call.repl /\ at' = at + w
           ELSE out' = Append(out, call.begin[at + 1]) /\ at' = at + 1
        /\ Boundary(call, at) /\ outlen = Len(Replaced(call)) /\ out = Done(call)[at]
    BY <1>3, <1>4, <1>10 DEF Copy, LoopInv
  <2>2. (w > 0 /\ match) <=> BeginsAt(call, at + 1)
    BY <1>1, <1>4, MatchIs
  <2>3. Boundary(call, at') /\ out' = Done(call)[at'] /\ at' \in Nat
    <3>1. CASE w > 0 /\ match
      <4>1. out' = out \o call.repl /\ at' = at + w
        BY <2>1, <3>1
      <4>2. Boundary(call, at + w) /\ Done(call)[at + w] = Done(call)[at] \o call.repl
        BY <1>1, <1>4, <2>1, <2>2, <3>1, TakenStep
      <4>3. QED BY <1>1, <2>1, <4>1, <4>2
    <3>2. CASE ~(w > 0 /\ match)
      <4>1. out' = Append(out, call.begin[at + 1]) /\ at' = at + 1
        BY <2>1, <3>2
      <4>2. at + 1 \notin Occurrences(call)
        BY <2>2, <3>2 DEF BeginsAt
      <4>3. Boundary(call, at + 1) /\ Done(call)[at + 1] = Append(Done(call)[at], call.begin[at + 1])
        BY <1>1, <1>3, <2>1, <4>2, PlainStep
      <4>4. QED BY <1>1, <2>1, <4>1, <4>3
    <3>3. QED BY <3>1, <3>2
  <2>4. out' \in Seq(Chars)
    BY <1>3, <1>5, <2>3 DEF Boundary
  <2>5. ReplaceTypes'
    BY <1>1, <2>1, <2>3, <2>4 DEF ReplaceTypes
  <2>6. QED BY <2>1, <2>3, <2>5 DEF LoopInv
<1>11. ASSUME Return PROVE LoopInv'
  <2>1. /\ replace = "copy" /\ at >= top /\ replace' = "idle" /\ UNCHANGED <<call, at, count, outlen, out>>
        /\ Boundary(call, at) /\ out = Done(call)[at]
    BY <1>3, <1>11 DEF Return, LoopInv
  <2>2. at = top
    BY <1>3, <2>1 DEF Boundary
  <2>3. out = Replaced(call)
    BY <1>1, <1>3, <2>1, <2>2, PartsJoined
  <2>4. ReplaceTypes'
    BY <1>1, <2>1 DEF ReplaceTypes
  <2>5. QED BY <2>1, <2>3, <2>4 DEF LoopInv
<1>12. QED BY <1>6, <1>7, <1>8, <1>9, <1>10, <1>11 DEF ReplaceStep

LEMMA LoopAlways == LoopInv /\ [Next]_vars => LoopInv'
<1> SUFFICES ASSUME LoopInv, [Next]_vars PROVE LoopInv'
  OBVIOUS
<1>1. CASE ReplaceStart \/ ExceptionRaised
  BY <1>1, CallKeeps, ProgramsAssumption DEF ReplaceStart, ExceptionRaised
<1>2. CASE ReplaceGo \/ MessageGo
  BY <1>2, LoopStep DEF ReplaceGo, MessageGo
<1>3. CASE ~(ReplaceStart \/ ExceptionRaised \/ ReplaceGo \/ MessageGo)
  <2>1. UNCHANGED replaceVars
    BY <1>3 DEF vars, Next, Keyboard, Processor, UsersStart, HexKey, CalcKey, UsersGo,
                HexGo, CalcGo, kernelpanic
  <2>2. QED BY <2>1, LoopStays
<1>4. QED BY <1>1, <1>2, <1>3

\* str_replace asks malloc for exactly the characters it goes on to write, and returns the
\* string with every occurrence replaced that does not begin inside one already taken.
THEOREM ReplacesAsPromised == FairSpec => []ReplaceInv
<1>1. Init => LoopInv
  BY LoopStart DEF Init
<1>2. QED BY <1>1, LoopAlways, LoopIsRight, PTL DEF FairSpec, Spec

-----------------------------------------------------------------------------
(* The users file: what is known of the table while it is filled *)

\* What a text is made of: the strings, of which the provers do not know what is one.
Char == STRING \cup {End, Unknown, Newline, ColonMark, CommaMark}

Cells == [0 .. (NameSize - 1) -> Char]

UserEntries ==
  [user_id : Nat, username : Cells, password : Cells,
   groups : [0 .. (GroupsMax - 1) -> Cells], group_count : Nat]

UserTypes ==
  /\ buf \in Seq(Char)
  /\ users \in [1 .. UsersMax -> UserEntries]
  /\ parse \in {"idle", "line", "chars", "wild"}
  /\ pos \in 0 .. Len(buf)
  /\ out_count \in 0 .. UsersMax
  /\ field \in Nat
  /\ char_i \in 0 .. (NameSize - 1)
  /\ group_i \in 0 .. GroupsMax
  /\ group_char_i \in 0 .. (NameSize - 1)

\* The lines of what the pass has read, the last of them maybe not to its end.
LinesRead == Pieces(SubSeq(buf, 1, pos), Newline)

\* The first cells hold what was read of a name, which has no terminator yet.
Filling(cells, filled, name) ==
  filled = Kept(name) /\ \A k \in 0 .. (filled - 1) : cells[k] = name[k + 1]

\* The groups of a field, all of them ended.
GroupsSaid(list, e) ==
  /\ e.group_count = Len(Ending(Pieces(list, CommaMark)))
  /\ \A g \in 1 .. e.group_count : Read(e.groups[g - 1]) = Short(Ending(Pieces(list, CommaMark))[g])

\* Of m groups with a comma behind them, and one more of which k characters are filled in.
GroupsFilling(list, e, m, k) ==
  LET groups == Pieces(list, CommaMark)
  IN /\ e.group_count = m /\ Len(groups) = m + 1
     /\ \A g \in 1 .. m : Read(e.groups[g - 1]) = Short(groups[g])
     /\ m < GroupsMax => Filling(e.groups[m], k, groups[m + 1])
     /\ m = GroupsMax => groups[m + 1] = <<>>

\* The entry holds what was read of its line, up to the field f, of which i characters are filled in.
EntryFilling(text, e, f, i, m, k) ==
  /\ Len(Fields(text)) = f + 1
  /\ e.user_id = Decimal(Fields(text)[1])
  /\ f = 1 => Filling(e.username, i, Fields(text)[2])
  /\ f > 1 => Read(e.username) = Short(Fields(text)[2])
  /\ f = 2 => Filling(e.password, i, Fields(text)[3])
  /\ f > 2 => Read(e.password) = Short(Fields(text)[3])
  /\ f < 3 => m = 0 /\ k = 0 /\ e.group_count = 0
  /\ f = 3 => GroupsFilling(Fields(text)[4], e, m, k)
  /\ f > 3 => GroupsSaid(Fields(text)[4], e)

\* The entries filled say what the lines in front of the pass say.
EntriesSay(lines) == \A k \in 1 .. out_count : Complete(lines[k]) => Says(lines[k], users[k])

AllRead == out_count = IF Len(Lines(buf)) < UsersMax THEN Len(Lines(buf)) ELSE UsersMax

TooManyGroups == \E k \in DOMAIN Lines(buf) : Complete(Lines(buf)[k]) /\ Len(GroupsOf(Lines(buf)[k])) > GroupsMax

UsersInv ==
  /\ UserTypes
  /\ parse \in {"line", "chars"} => EntriesSay(LinesRead)
  /\ parse = "line" =>
       /\ out_count = Len(Ending(LinesRead))
       /\ pos < Len(buf) => LinesRead[Len(LinesRead)] = <<>>
  /\ parse = "chars" =>
       /\ out_count < UsersMax /\ out_count + 1 = Len(LinesRead)
       /\ pos = Len(buf) => LinesRead[out_count + 1] # <<>>
       /\ EntryFilling(LinesRead[out_count + 1], ue, field, char_i, group_i, group_char_i)
  /\ parse = "idle" => AllRead /\ EntriesSay(Lines(buf))
  /\ parse = "wild" => TooManyGroups

-----------------------------------------------------------------------------
(* The pieces of a text between its separators *)

LEMMA Appended ==
  ASSUME NEW text \in Seq(Char), NEW char \in Char
  PROVE  /\ Append(text, char) \in Seq(Char)
         /\ Len(Append(text, char)) = Len(text) + 1
         /\ \A k \in 1 .. Len(text) : Append(text, char)[k] = text[k]
         /\ Append(text, char)[Len(text) + 1] = char
<1>1. Append(text, char) \in Seq(Char)
  BY AppendProperties
<1>2. Len(Append(text, char)) = Len(text) + 1
  BY AppendProperties
<1>3. \A k \in 1 .. Len(text) : Append(text, char)[k] = text[k]
  OBVIOUS
<1>4. Append(text, char)[Len(text) + 1] = char
  BY AppendProperties
<1>5. QED BY <1>1, <1>2, <1>3, <1>4

\* What stands behind a and up to b.
LEMMA Slice ==
  ASSUME NEW text \in Seq(Char), NEW a \in Nat, NEW b \in Nat, a <= b, b <= Len(text)
  PROVE  /\ SubSeq(text, a + 1, b) \in Seq(Char)
         /\ Len(SubSeq(text, a + 1, b)) = b - a
         /\ \A i \in 1 .. (b - a) : SubSeq(text, a + 1, b)[i] = text[a + i]
<1>1. \A i \in (a + 1) .. b : text[i] \in Char
  OBVIOUS
<1>2. /\ SubSeq(text, a + 1, b) \in Seq(Char)
      /\ Len(SubSeq(text, a + 1, b)) = b - a
  BY <1>1
<1>3. ASSUME NEW i \in 1 .. (b - a) PROVE SubSeq(text, a + 1, b)[i] = text[a + i]
  <2>1. (a + 1) + i - 1 = a + i /\ i \in 1 .. (b - (a + 1) + 1)
    OBVIOUS
  <2>2. QED BY <2>1
<1>4. QED BY <1>2, <1>3

\* g lists the cuts of the text in their order.
CutsAre(g, top, text, sep) ==
  /\ top \in Nat /\ top > 0
  /\ g \in [0 .. top -> Nat]
  /\ g[0] = 0 /\ g[top] = Len(text) + 1
  /\ \A i \in 0 .. top, j \in 0 .. top : i < j => g[i] < g[j]
  /\ Cuts(text, sep) = {g[i] : i \in 0 .. top}

\* What grows has as many values as arguments.
LEMMA ValuesCounted ==
  ASSUME NEW top \in Nat, NEW g \in [0 .. top -> Nat], NEW m \in 0 .. (top + 1),
         \A i \in 0 .. top, j \in 0 .. top : i < j => g[i] < g[j]
  PROVE  Cardinality({g[i] : i \in 0 .. (m - 1)}) = m
<1> DEFINE h == [i \in 0 .. (m - 1) |-> g[i]]
           V == {g[i] : i \in 0 .. (m - 1)}
<1>1. h \in [0 .. (m - 1) -> V]
  OBVIOUS
<1>2. \A b \in V : \E a \in 0 .. (m - 1) : h[a] = b
  OBVIOUS
<1>3. ASSUME NEW i \in 0 .. (m - 1), NEW j \in 0 .. (m - 1), h[i] = h[j] PROVE i = j
  <2>1. g[i] \in Nat /\ g[j] \in Nat /\ i \in 0 .. top /\ j \in 0 .. top /\ g[i] = g[j]
    BY <1>3
  <2>2. ~(i < j) /\ ~(j < i)
    BY <2>1
  <2>3. QED BY <2>1, <2>2
<1> HIDE DEF h, V
<1>4. ExistsBijection(0 .. (m - 1), V)
  <2>1. h \in Bijection(0 .. (m - 1), V)
    BY <1>1, <1>2, <1>3 DEF Bijection, Injection, Surjection, IsInjective
  <2>2. QED BY <2>1, Zenon DEF ExistsBijection
<1>5. IsFiniteSet(0 .. (m - 1)) /\ Cardinality(0 .. (m - 1)) = m
  <2>1. 0 \in Int /\ m - 1 \in Int /\ m \in Nat
    OBVIOUS
  <2>2. Cardinality(0 .. (m - 1)) = IF 0 > m - 1 THEN 0 ELSE (m - 1) - 0 + 1
    BY <2>1, FS_Interval
  <2>3. IsFiniteSet(0 .. (m - 1))
    BY <2>1, FS_Interval
  <2>4. QED BY <2>1, <2>2, <2>3
<1>6. Cardinality(V) = m
  BY <1>4, <1>5, FS_Bijection
<1>7. QED BY <1>6 DEF V

LEMMA CutCounted ==
  ASSUME NEW text \in Seq(Char), NEW sep \in Char, NEW top \in Nat, NEW g,
         CutsAre(g, top, text, sep), NEW m \in 0 .. top
  PROVE  Cardinality(Before(text, sep, g[m])) = m
<1>1. /\ g \in [0 .. top -> Nat] /\ Cuts(text, sep) = {g[i] : i \in 0 .. top}
      /\ \A i \in 0 .. top, j \in 0 .. top : i < j => g[i] < g[j]
  BY DEF CutsAre
<1>2. ASSUME NEW i \in 0 .. top PROVE g[i] < g[m] <=> i < m
  <2>1. g[i] \in Nat /\ g[m] \in Nat
    BY <1>1
  <2>2. i < m => g[i] < g[m]
    BY <1>1
  <2>3. m < i => g[m] < g[i]
    BY <1>1
  <2>4. QED BY <2>1, <2>2, <2>3
<1>3. Before(text, sep, g[m]) = {g[i] : i \in 0 .. (m - 1)}
  <2>1. ASSUME NEW x PROVE x \in Before(text, sep, g[m]) <=> x \in {g[i] : i \in 0 .. (m - 1)}
    <3>1. x \in Before(text, sep, g[m]) <=> x \in {g[i] : i \in 0 .. top} /\ x < g[m]
      BY <1>1 DEF Before
    <3>2. ASSUME NEW i \in 0 .. top, x = g[i], x < g[m] PROVE x \in {g[j] : j \in 0 .. (m - 1)}
      <4>1. i \in 0 .. (m - 1)
        BY <1>2, <3>2
      <4>2. QED BY <3>2, <4>1
    <3>3. ASSUME NEW i \in 0 .. (m - 1), x = g[i] PROVE x \in {g[j] : j \in 0 .. top} /\ x < g[m]
      <4>1. i \in 0 .. top /\ i < m
        OBVIOUS
      <4>2. QED BY <1>2, <3>3, <4>1
    <3>4. QED BY <3>1, <3>2, <3>3
  <2>2. QED BY <2>1, Zenon
<1>4. m \in 0 .. (top + 1)
  OBVIOUS
<1>5. QED BY <1>1, <1>3, <1>4, ValuesCounted

\* The pieces stand between neighbours of the list.
PiecesAre(g, top, text, sep) ==
  /\ Pieces(text, sep) \in Seq(Seq(Char)) /\ Len(Pieces(text, sep)) = top
  /\ \A k \in 1 .. top :
       /\ g[k - 1] \in Nat /\ g[k] \in Nat /\ g[k - 1] < g[k] /\ g[k] <= Len(text) + 1
       /\ Pieces(text, sep)[k] = SubSeq(text, g[k - 1] + 1, g[k] - 1)

LEMMA PiecesBetween ==
  ASSUME NEW text \in Seq(Char), NEW sep \in Char, NEW top \in Nat, NEW g, CutsAre(g, top, text, sep)
  PROVE  PiecesAre(g, top, text, sep)
<1>1. /\ g \in [0 .. top -> Nat] /\ Cuts(text, sep) = {g[i] : i \in 0 .. top}
      /\ \A i \in 0 .. top, j \in 0 .. top : i < j => g[i] < g[j]
  BY DEF CutsAre
<1>2. Cardinality(Cuts(text, sep)) = top + 1
  <2>1. top + 1 \in 0 .. (top + 1) /\ (top + 1) - 1 = top
    OBVIOUS
  <2>2. QED BY <1>1, <2>1, ValuesCounted
<1>3. ASSUME NEW m \in 0 .. top PROVE Cut(text, sep, m) = g[m]
  <2>1. g[m] \in Cuts(text, sep) /\ Cardinality(Before(text, sep, g[m])) = m
    BY <1>1, CutCounted
  <2>2. ASSUME NEW x \in Cuts(text, sep), Cardinality(Before(text, sep, x)) = m PROVE x = g[m]
    <3>1. PICK i \in 0 .. top : x = g[i]
      BY <1>1
    <3>2. Cardinality(Before(text, sep, g[i])) = i
      BY CutCounted
    <3>3. QED BY <2>2, <3>1, <3>2
  <2>3. QED BY <2>1, <2>2 DEF Cut
<1>4. (top + 1) - 1 = top
  OBVIOUS
<1>5. ASSUME NEW k \in 1 .. top PROVE Cut(text, sep, k - 1) = g[k - 1] /\ Cut(text, sep, k) = g[k]
  <2>1. k \in 0 .. top /\ k - 1 \in 0 .. top
    OBVIOUS
  <2>2. QED BY <1>3, <2>1
<1>6. ASSUME NEW k \in 1 .. top
      PROVE  g[k - 1] \in Nat /\ g[k] \in Nat /\ g[k - 1] < g[k] /\ g[k] <= Len(text) + 1
  <2>1. k - 1 \in 0 .. top /\ k \in 0 .. top /\ k - 1 < k /\ top \in 0 .. top
    OBVIOUS
  <2>2. g[top] = Len(text) + 1
    BY DEF CutsAre
  <2>3. g[k - 1] \in Nat /\ g[k] \in Nat /\ g[k - 1] < g[k]
    BY <1>1, <2>1
  <2>4. k = top \/ g[k] < g[top]
    BY <1>1, <2>1
  <2>5. PICK here \in Nat, last \in Nat : here = g[k] /\ last = g[top] /\ (here = last \/ here < last)
    <3>1. g[k] \in Nat /\ g[top] \in Nat
      BY <2>2, <2>3
    <3>2. QED BY <2>4, <3>1, Zenon
  <2>6. here <= last
    BY <2>5
  <2>7. QED BY <2>2, <2>3, <2>5, <2>6
<1>7. ASSUME NEW k \in 1 .. top PROVE SubSeq(text, g[k - 1] + 1, g[k] - 1) \in Seq(Char)
  <2>1. PICK a \in Nat, b \in Nat : a = g[k - 1] /\ b = g[k] - 1 /\ a <= b /\ b <= Len(text)
    <3>1. PICK x \in Nat, y \in Nat : x = g[k - 1] /\ y = g[k] /\ x < y /\ y <= Len(text) + 1
      BY <1>6
    <3>2. y - 1 \in Nat /\ x <= y - 1 /\ y - 1 <= Len(text)
      BY <3>1
    <3>3. QED BY <3>1, <3>2, Zenon
  <2>2. QED BY <2>1, Slice
<1>8. Pieces(text, sep) = [k \in 1 .. top |-> SubSeq(text, g[k - 1] + 1, g[k] - 1)]
  BY <1>2, <1>4, <1>5 DEF Pieces
<1>9. \A k \in 1 .. top : Pieces(text, sep)[k] = SubSeq(text, g[k - 1] + 1, g[k] - 1)
  BY <1>8
<1>10. Pieces(text, sep) \in [1 .. top -> Seq(Char)]
  BY <1>7, <1>8
<1>11. Pieces(text, sep) \in Seq(Seq(Char)) /\ Len(Pieces(text, sep)) = top
  BY <1>10
<1>12. QED BY <1>6, <1>9, <1>11 DEF PiecesAre

LEMMA CutsOfNothing ==
  ASSUME NEW sep \in Char PROVE CutsAre([i \in 0 .. 1 |-> i], 1, <<>>, sep)
<1>1. Cuts(<<>>, sep) = {0, 1}
  BY DEF Cuts
<1> DEFINE g == [i \in 0 .. 1 |-> i]
<1>2. /\ g \in [0 .. 1 -> Nat] /\ g[0] = 0 /\ g[1] = 1
      /\ \A i \in 0 .. 1, j \in 0 .. 1 : i < j => g[i] < g[j]
  OBVIOUS
<1>3. {g[i] : i \in 0 .. 1} = {0, 1}
  <2>1. 0 .. 1 = {0, 1}
    OBVIOUS
  <2>2. QED BY <1>2, <2>1
<1> HIDE DEF g
<1>4. Len(<<>>) + 1 = 1
  OBVIOUS
<1>5. CutsAre(g, 1, <<>>, sep)
  BY <1>1, <1>2, <1>3, <1>4 DEF CutsAre
<1>6. QED BY <1>5 DEF g

\* A character more moves the last cut, a separator leaves it and makes another.
LEMMA CutsOfMore ==
  ASSUME NEW text \in Seq(Char), NEW sep \in Char, NEW char \in Char,
         NEW top \in Nat, NEW g, CutsAre(g, top, text, sep)
  PROVE  /\ char # sep => CutsAre([g EXCEPT ![top] = Len(text) + 2], top, Append(text, char), sep)
         /\ char = sep => CutsAre([i \in 0 .. (top + 1) |-> IF i = top + 1 THEN Len(text) + 2 ELSE g[i]],
                                  top + 1, Append(text, char), sep)
<1>1. /\ top > 0 /\ g \in [0 .. top -> Nat] /\ g[0] = 0 /\ g[top] = Len(text) + 1
      /\ Cuts(text, sep) = {g[i] : i \in 0 .. top}
      /\ \A i \in 0 .. top, j \in 0 .. top : i < j => g[i] < g[j]
  BY DEF CutsAre
<1>2. PICK len \in Nat : len = Len(text) /\ Len(Append(text, char)) = len + 1 /\ (len + 1) + 1 = len + 2
  OBVIOUS
<1>3. DOMAIN text = 1 .. len /\ DOMAIN Append(text, char) = 1 .. (len + 1)
  BY <1>2
<1>4. /\ \A k \in 1 .. len : Append(text, char)[k] = text[k]
      /\ Append(text, char)[len + 1] = char
  <2>1. /\ \A k \in 1 .. Len(text) : Append(text, char)[k] = text[k]
        /\ Append(text, char)[Len(text) + 1] = char
    BY Appended, Zenon
  <2>2. QED BY <1>2, <2>1
<1>5. \A i \in 0 .. (top - 1) : g[i] \in Nat /\ g[i] <= len
  BY <1>1, <1>2
<1>6. Cuts(Append(text, char), sep)
        = (Cuts(text, sep) \ {len + 1}) \cup {len + 2} \cup (IF char = sep THEN {len + 1} ELSE {})
  <2> DEFINE more == Append(text, char)
  <2>1. DOMAIN more = 1 .. (len + 1) /\ Len(more) = len + 1
        /\ (\A k \in 1 .. len : more[k] = text[k]) /\ more[len + 1] = char
    BY <1>2, <1>3, <1>4
  <2> HIDE DEF more
  <2>2. ASSUME NEW x
        PROVE  x \in Cuts(more, sep) <=>
                 x \in (Cuts(text, sep) \ {len + 1}) \cup {len + 2} \cup (IF char = sep THEN {len + 1} ELSE {})
    <3>1. x \in Cuts(more, sep) <=> x = 0 \/ x = len + 2 \/ (x \in 1 .. (len + 1) /\ more[x] = sep)
      BY <2>1, <1>2 DEF Cuts
    <3>2. x \in Cuts(text, sep) <=> x = 0 \/ x = len + 1 \/ (x \in 1 .. len /\ text[x] = sep)
      BY <1>2, <1>3 DEF Cuts
    <3>3. x \in 1 .. (len + 1) <=> x \in 1 .. len \/ x = len + 1
      OBVIOUS
    <3>4. len + 1 # 0 /\ len + 1 \notin 1 .. len
      OBVIOUS
    <3>5. QED BY <2>1, <3>1, <3>2, <3>3, <3>4
  <2>3. Cuts(more, sep) = (Cuts(text, sep) \ {len + 1}) \cup {len + 2} \cup (IF char = sep THEN {len + 1} ELSE {})
    BY <2>2, Zenon
  <2>4. QED BY <2>3 DEF more
<1>7. Cuts(text, sep) \ {len + 1} = {g[i] : i \in 0 .. (top - 1)}
  <2>1. ASSUME NEW i \in 0 .. top PROVE g[i] # len + 1 <=> i \in 0 .. (top - 1)
    BY <1>1, <1>2, <1>5
  <2>2. QED BY <1>1, <2>1
<1>8. CASE char # sep
  <2> DEFINE h == [g EXCEPT ![top] = len + 2]
  <2>1. h \in [0 .. top -> Nat] /\ h[0] = 0 /\ h[top] = len + 2 /\ \A i \in 0 .. (top - 1) : h[i] = g[i]
    BY <1>1
  <2> HIDE DEF h
  <2>2. ASSUME NEW i \in 0 .. top, NEW j \in 0 .. top, i < j PROVE h[i] < h[j]
    <3>1. h[i] = g[i] /\ g[i] \in Nat /\ g[i] <= len
      BY <1>5, <2>1, <2>2
    <3>2. CASE j = top
      BY <2>1, <3>1, <3>2
    <3>3. CASE j # top
      <4>1. h[j] = g[j]
        BY <2>1, <3>3
      <4>2. QED BY <1>1, <2>2, <3>1, <4>1
    <3>4. QED BY <3>2, <3>3
  <2>3. Cuts(Append(text, char), sep) = {h[i] : i \in 0 .. top}
    <3>1. \A x : x \in {h[i] : i \in 0 .. top} <=> x = h[top] \/ x \in {h[i] : i \in 0 .. (top - 1)}
      <4>1. \A i : i \in 0 .. top <=> i = top \/ i \in 0 .. (top - 1)
        BY <1>1
      <4>2. ASSUME NEW x, x \in {h[i] : i \in 0 .. top} PROVE x = h[top] \/ x \in {h[i] : i \in 0 .. (top - 1)}
        <5>1. PICK i \in 0 .. top : x = h[i]
          BY <4>2
        <5>2. QED BY <4>1, <5>1
      <4>3. ASSUME NEW x, x = h[top] \/ x \in {h[i] : i \in 0 .. (top - 1)} PROVE x \in {h[i] : i \in 0 .. top}
        <5>1. PICK i : (i = top \/ i \in 0 .. (top - 1)) /\ x = h[i]
          BY <4>3
        <5>2. QED BY <4>1, <5>1
      <4>4. QED BY <4>2, <4>3, Zenon
    <3>2. {h[i] : i \in 0 .. (top - 1)} = {g[i] : i \in 0 .. (top - 1)}
      BY <2>1
    <3>3. QED BY <1>6, <1>7, <1>8, <2>1, <3>1, <3>2
  <2>4. CutsAre(h, top, Append(text, char), sep)
    BY <1>1, <1>2, <2>1, <2>2, <2>3 DEF CutsAre
  <2>5. QED BY <1>2, <1>8, <2>4 DEF h
<1>9. CASE char = sep
  <2> DEFINE h == [i \in 0 .. (top + 1) |-> IF i = top + 1 THEN len + 2 ELSE g[i]]
  <2>1. h \in [0 .. (top + 1) -> Nat] /\ h[0] = 0 /\ h[top + 1] = len + 2 /\ \A i \in 0 .. top : h[i] = g[i]
    BY <1>1
  <2> HIDE DEF h
  <2>2. ASSUME NEW i \in 0 .. (top + 1), NEW j \in 0 .. (top + 1), i < j PROVE h[i] < h[j]
    <3>1. i \in 0 .. top /\ h[i] = g[i] /\ g[i] \in Nat /\ g[i] <= len + 1
      BY <1>1, <1>2, <1>5, <2>1, <2>2
    <3>2. CASE j = top + 1
      BY <2>1, <3>1, <3>2
    <3>3. CASE j # top + 1
      <4>1. j \in 0 .. top /\ h[j] = g[j]
        BY <2>1, <3>3
      <4>2. QED BY <1>1, <2>2, <3>1, <4>1
    <3>4. QED BY <3>2, <3>3
  <2>3. Cuts(Append(text, char), sep) = {h[i] : i \in 0 .. (top + 1)}
    <3>1. \A x : x \in {h[i] : i \in 0 .. (top + 1)} <=> x = h[top + 1] \/ x \in {h[i] : i \in 0 .. top}
      BY <1>1
    <3>2. \A x : x \in {h[i] : i \in 0 .. top} <=> x = g[top] \/ x \in {g[i] : i \in 0 .. (top - 1)}
      BY <1>1, <2>1
    <3>3. QED BY <1>1, <1>2, <1>6, <1>7, <1>9, <2>1, <3>1, <3>2
  <2>4. CutsAre(h, top + 1, Append(text, char), sep)
    BY <1>1, <1>2, <2>1, <2>2, <2>3 DEF CutsAre
  <2>5. QED BY <1>2, <1>9, <2>4 DEF h
<1>10. QED BY <1>8, <1>9

\* The text up to a place.
LEMMA ReadUpTo ==
  ASSUME NEW text \in Seq(Char)
  PROVE  /\ SubSeq(text, 1, 0) = <<>> /\ SubSeq(text, 1, Len(text)) = text
         /\ \A m \in 0 .. Len(text) : SubSeq(text, 1, m) \in Seq(Char) /\ Len(SubSeq(text, 1, m)) = m
         /\ \A m \in 1 .. Len(text) :
              text[m] \in Char /\ SubSeq(text, 1, m) = Append(SubSeq(text, 1, m - 1), text[m])
<1>1. SubSeq(text, 1, 0) = <<>>
  OBVIOUS
<1>2. SubSeq(text, 1, Len(text)) = text
  BY SubSeqFull
<1>3. ASSUME NEW m \in 0 .. Len(text) PROVE SubSeq(text, 1, m) \in Seq(Char) /\ Len(SubSeq(text, 1, m)) = m
  OBVIOUS
<1>4. ASSUME NEW m \in 1 .. Len(text)
      PROVE  text[m] \in Char /\ SubSeq(text, 1, m) = Append(SubSeq(text, 1, m - 1), text[m])
  <2>1. text[m] \in Char
    OBVIOUS
  <2>2. m - 1 \in 0 .. Len(text) /\ m \in 0 .. Len(text)
    OBVIOUS
  <2> DEFINE shorter == SubSeq(text, 1, m - 1)
  <2>3. shorter \in Seq(Char) /\ Len(shorter) = m - 1 /\ \A k \in 1 .. (m - 1) : shorter[k] = text[k]
    <3>1. shorter \in Seq(Char) /\ Len(shorter) = m - 1
      BY <1>3, <2>2
    <3>2. \A k \in 1 .. (m - 1) : shorter[k] = text[k]
      OBVIOUS
    <3>3. QED BY <3>1, <3>2
  <2>4. /\ SubSeq(text, 1, m) \in Seq(Char) /\ Len(SubSeq(text, 1, m)) = m
        /\ \A k \in 1 .. m : SubSeq(text, 1, m)[k] = text[k]
    <3>1. \A k \in 1 .. m : SubSeq(text, 1, m)[k] = text[k]
      OBVIOUS
    <3>2. QED BY <1>3, <2>2, <3>1
  <2> HIDE DEF shorter
  <2>5. /\ Append(shorter, text[m]) \in Seq(Char) /\ Len(Append(shorter, text[m])) = m
        /\ \A k \in 1 .. m : Append(shorter, text[m])[k] = text[k]
    <3>1. PICK char \in Char : char = text[m]
      BY <2>1
    <3>2. Append(shorter, char) \in Seq(Char) /\ Len(Append(shorter, char)) = m
      BY <2>3, Appended
    <3>3. ASSUME NEW k \in 1 .. m PROVE Append(shorter, char)[k] = text[k]
      <4>1. k \in 1 .. (m - 1) \/ k = m
        OBVIOUS
      <4>2. m = Len(shorter) + 1 /\ m - 1 = Len(shorter)
        BY <2>3
      <4>3. Append(shorter, char)[Len(shorter) + 1] = char /\ \A i \in 1 .. Len(shorter) : Append(shorter, char)[i] = shorter[i]
        BY <2>3, Appended
      <4>4. QED BY <2>3, <3>1, <4>1, <4>2, <4>3
    <3>4. QED BY <3>1, <3>2, <3>3
  <2>6. SubSeq(text, 1, m) = Append(shorter, text[m])
    BY <2>4, <2>5, SeqEqual
  <2>7. QED BY <2>1, <2>6 DEF shorter
<1>5. QED BY <1>1, <1>2, <1>3, <1>4

LEMMA CutsListed ==
  ASSUME NEW text \in Seq(Char), NEW sep \in Char
  PROVE  \E top \in Nat : \E g : CutsAre(g, top, text, sep)
<1> DEFINE P == {m \in 0 .. Len(text) : \E top \in Nat : \E g : CutsAre(g, top, SubSeq(text, 1, m), sep)}
<1>1. Len(text) \in Nat
  OBVIOUS
<1>2. 0 \in P
  <2>1. CutsAre([i \in 0 .. 1 |-> i], 1, SubSeq(text, 1, 0), sep)
    BY CutsOfNothing, ReadUpTo
  <2>2. QED BY <2>1
<1>3. ASSUME NEW m \in 1 .. Len(text), m - 1 \in P PROVE m \in P
  <2>1. PICK top \in Nat : \E g : CutsAre(g, top, SubSeq(text, 1, m - 1), sep)
    BY <1>3
  <2>2. PICK g : CutsAre(g, top, SubSeq(text, 1, m - 1), sep)
    BY <2>1
  <2>3. PICK read \in Seq(Char), char \in Char :
          read = SubSeq(text, 1, m - 1) /\ SubSeq(text, 1, m) = Append(read, char)
    <3>1. m - 1 \in 0 .. Len(text)
      OBVIOUS
    <3>2. QED BY <3>1, ReadUpTo
  <2>4. CutsAre(g, top, read, sep)
    BY <2>2, <2>3
  <2>5. \E more \in Nat : \E h : CutsAre(h, more, SubSeq(text, 1, m), sep)
    <3>1. top + 1 \in Nat
      OBVIOUS
    <3>2. CASE char # sep
      BY <2>3, <2>4, <3>2, CutsOfMore
    <3>3. CASE char = sep
      <4>1. CutsAre([i \in 0 .. (top + 1) |-> IF i = top + 1 THEN Len(read) + 2 ELSE g[i]], top + 1, SubSeq(text, 1, m), sep)
        BY <2>3, <2>4, <3>3, CutsOfMore
      <4>2. QED BY <3>1, <4>1, Zenon
    <3>4. QED BY <3>2, <3>3
  <2>6. QED BY <2>5
<1>4. 0 .. Len(text) \subseteq P
  <2> HIDE DEF P
  <2>1. QED BY <1>1, <1>2, <1>3, Upwards
<1>5. \E top \in Nat : \E g : CutsAre(g, top, SubSeq(text, 1, Len(text)), sep)
  BY <1>1, <1>4
<1>6. QED BY <1>5, ReadUpTo

\* A character more: a separator begins a piece, any other is one more of the last piece.
Longer(pieces, char, sep) ==
  IF char = sep THEN Append(pieces, <<>>)
  ELSE [pieces EXCEPT ![Len(pieces)] = Append(@, char)]

LEMMA PiecesGrow ==
  ASSUME NEW sep \in Char
  PROVE  /\ Pieces(<<>>, sep) = << <<>> >>
         /\ \A text \in Seq(Char) : Pieces(text, sep) \in Seq(Seq(Char)) /\ Len(Pieces(text, sep)) > 0
         /\ \A text \in Seq(Char), char \in Char :
              Pieces(Append(text, char), sep) = Longer(Pieces(text, sep), char, sep)

<1>1. Pieces(<<>>, sep) = << <<>> >>
  <2> DEFINE g == [i \in 0 .. 1 |-> i]
  <2>1. g[0] = 0 /\ g[1] = 1
    OBVIOUS
  <2>2. CutsAre(g, 1, <<>>, sep) /\ <<>> \in Seq(Char) /\ 1 \in Nat
    BY CutsOfNothing
  <2> HIDE DEF g
  <2>3. /\ Pieces(<<>>, sep) \in Seq(Seq(Char)) /\ Len(Pieces(<<>>, sep)) = 1
        /\ \A k \in 1 .. 1 : Pieces(<<>>, sep)[k] = SubSeq(<<>>, g[k - 1] + 1, g[k] - 1)
    <3>1. PiecesAre(g, 1, <<>>, sep)
      BY <2>2, PiecesBetween, Zenon
    <3>2. QED BY <3>1 DEF PiecesAre
  <2>4. Pieces(<<>>, sep)[1] = SubSeq(<<>>, 1, 0)
    BY <2>1, <2>3
  <2>5. SubSeq(<<>>, 1, 0) = <<>>
    OBVIOUS
  <2>6. QED BY <2>3, <2>4, <2>5
<1>2. ASSUME NEW text \in Seq(Char)
      PROVE  Pieces(text, sep) \in Seq(Seq(Char)) /\ Len(Pieces(text, sep)) > 0
  <2>1. PICK top \in Nat : \E g : CutsAre(g, top, text, sep)
    BY CutsListed
  <2>2. PICK g : CutsAre(g, top, text, sep)
    BY <2>1
  <2>3. top > 0
    BY <2>2 DEF CutsAre
  <2>4. QED BY <2>2, <2>3, PiecesBetween DEF PiecesAre
<1>3. ASSUME NEW text \in Seq(Char), NEW char \in Char
      PROVE  Pieces(Append(text, char), sep) = Longer(Pieces(text, sep), char, sep)
  <2>1. PICK top \in Nat : \E g : CutsAre(g, top, text, sep)
    BY CutsListed
  <2>2. PICK g : CutsAre(g, top, text, sep)
    BY <2>1
  <2>3. PICK len \in Nat : len = Len(text)
    OBVIOUS
  <2>4. top > 0 /\ g \in [0 .. top -> Nat] /\ g[top] = len + 1
    BY <2>2, <2>3 DEF CutsAre
  <2>5. PICK pieces \in Seq(Seq(Char)) : pieces = Pieces(text, sep)
    BY <1>2
  <2>6. /\ Len(pieces) = top
        /\ \A k \in 1 .. top : pieces[k] = SubSeq(text, g[k - 1] + 1, g[k] - 1)
        /\ \A k \in 1 .. top : g[k - 1] \in Nat /\ g[k] \in Nat /\ g[k - 1] < g[k] /\ g[k] <= len + 1
    <3>1. /\ Len(Pieces(text, sep)) = top
          /\ \A k \in 1 .. top :
               /\ g[k - 1] \in Nat /\ g[k] \in Nat /\ g[k - 1] < g[k] /\ g[k] <= Len(text) + 1
               /\ Pieces(text, sep)[k] = SubSeq(text, g[k - 1] + 1, g[k] - 1)
      <4>1. PiecesAre(g, top, text, sep)
        BY <2>2, PiecesBetween, Zenon
      <4>2. QED BY <4>1 DEF PiecesAre
    <3>2. QED BY <2>3, <2>5, <3>1
  <2>7. PICK more \in Seq(Char) : more = Append(text, char)
    BY Appended
  <2>8. Len(more) = len + 1 /\ more[len + 1] = char /\ \A k \in 1 .. len : more[k] = text[k]
    BY <2>3, <2>7, Appended
  <2>9. PICK bigger \in Seq(Seq(Char)) : bigger = Pieces(more, sep)
    BY <1>2
  <2>10. ASSUME NEW k \in 1 .. top PROVE SubSeq(more, g[k - 1] + 1, g[k] - 1) = pieces[k]
    <3>1. PICK a \in Nat, b \in Nat : a = g[k - 1] /\ b = g[k] - 1 /\ a <= b /\ b <= len
      <4>1. PICK x \in Nat, y \in Nat : x = g[k - 1] /\ y = g[k] /\ x < y /\ y <= len + 1
        BY <2>6, Zenon
      <4>2. y - 1 \in Nat /\ x <= y - 1 /\ y - 1 <= len
        <5>1. ASSUME NEW u \in Nat, NEW v \in Nat, NEW w \in Nat, u < v, v <= w + 1
              PROVE  v - 1 \in Nat /\ u <= v - 1 /\ v - 1 <= w
          BY <5>1
        <5>2. QED BY <4>1, <5>1
      <4>3. PICK z \in Nat : z = y - 1
        BY <4>2
      <4>4. QED BY <4>1, <4>2, <4>3, Zenon
    <3>2. /\ SubSeq(more, a + 1, b) \in Seq(Char) /\ Len(SubSeq(more, a + 1, b)) = b - a
          /\ \A i \in 1 .. (b - a) : SubSeq(more, a + 1, b)[i] = more[a + i]
      <4>1. b <= Len(more)
        BY <2>8, <3>1
      <4>2. a <= b
        BY <3>1
      <4>3. QED BY <4>1, <4>2, Slice, Zenon
    <3>3. /\ SubSeq(text, a + 1, b) \in Seq(Char) /\ Len(SubSeq(text, a + 1, b)) = b - a
          /\ \A i \in 1 .. (b - a) : SubSeq(text, a + 1, b)[i] = text[a + i]
      <4>1. b <= Len(text)
        BY <2>3, <3>1
      <4>2. a <= b
        BY <3>1
      <4>3. QED BY <4>1, <4>2, Slice, Zenon
    <3>4. \A i \in 1 .. (b - a) : a + i \in 1 .. len
      <4>1. a <= b /\ b <= len
        BY <3>1
      <4>2. QED BY <4>1
    <3>5. SubSeq(more, a + 1, b) = SubSeq(text, a + 1, b)
      <4>1. \A i \in 1 .. (b - a) : SubSeq(more, a + 1, b)[i] = SubSeq(text, a + 1, b)[i]
        BY <2>8, <3>2, <3>3, <3>4
      <4>2. QED BY <3>2, <3>3, <4>1, SeqEqual
    <3>6. QED BY <2>6, <3>1, <3>5
  <2>11. CASE char = sep
    <3> DEFINE h == [i \in 0 .. (top + 1) |-> IF i = top + 1 THEN Len(text) + 2 ELSE g[i]]
    <3>1. CutsAre(h, top + 1, more, sep) /\ top + 1 \in Nat
      <4>1. CutsAre(h, top + 1, Append(text, char), sep)
        BY <2>2, <2>11, CutsOfMore, Zenon
      <4> HIDE DEF h
      <4>2. QED BY <2>7, <4>1
    <3>2. h[top + 1] = len + 2 /\ \A i \in 0 .. top : h[i] = g[i]
      BY <2>3, <2>4
    <3> HIDE DEF h
    <3>3. Len(bigger) = top + 1 /\ \A k \in 1 .. (top + 1) : bigger[k] = SubSeq(more, h[k - 1] + 1, h[k] - 1)
      <4>1. PiecesAre(h, top + 1, more, sep)
        BY <3>1, PiecesBetween, Zenon
      <4>2. QED BY <2>9, <4>1 DEF PiecesAre
    <3>4. ASSUME NEW k \in 1 .. top PROVE bigger[k] = pieces[k]
      <4>1. h[k - 1] = g[k - 1] /\ h[k] = g[k] /\ k \in 1 .. (top + 1)
        BY <3>2
      <4>2. QED BY <2>10, <3>3, <4>1
    <3>5. bigger[top + 1] = <<>>
      <4>1. top + 1 \in 1 .. (top + 1) /\ (top + 1) - 1 = top /\ top \in 0 .. top
        BY <2>4
      <4>2. h[top] = len + 1 /\ h[top + 1] = len + 2
        BY <2>4, <3>2, <4>1
      <4>3. bigger[top + 1] = SubSeq(more, (len + 1) + 1, (len + 2) - 1)
        BY <3>3, <4>1, <4>2
      <4>4. QED BY <4>3
    <3>6. bigger = Append(pieces, <<>>)
      <4>1. <<>> \in Seq(Char)
        OBVIOUS
      <4>2. /\ Append(pieces, <<>>) \in Seq(Seq(Char)) /\ Len(Append(pieces, <<>>)) = top + 1
            /\ Append(pieces, <<>>)[top + 1] = <<>> /\ \A k \in 1 .. top : Append(pieces, <<>>)[k] = pieces[k]
        BY <2>6, <4>1, AppendProperties
      <4>3. \A k \in 1 .. (top + 1) : bigger[k] = Append(pieces, <<>>)[k]
        BY <3>4, <3>5, <4>2
      <4>4. QED BY <3>3, <4>2, <4>3, SeqEqual
    <3>7. QED BY <2>5, <2>7, <2>9, <2>11, <3>6 DEF Longer
  <2>12. CASE char # sep
    <3> DEFINE h == [g EXCEPT ![top] = len + 2]
    <3>1. CutsAre(h, top, more, sep)
      BY <2>2, <2>3, <2>7, <2>12, CutsOfMore
    <3>2. h[top] = len + 2 /\ \A i \in 0 .. (top - 1) : h[i] = g[i]
      BY <2>4
    <3> HIDE DEF h
    <3>3. Len(bigger) = top /\ \A k \in 1 .. top : bigger[k] = SubSeq(more, h[k - 1] + 1, h[k] - 1)
      <4>1. PiecesAre(h, top, more, sep)
        BY <3>1, PiecesBetween, Zenon
      <4>2. QED BY <2>9, <4>1 DEF PiecesAre
    <3>4. ASSUME NEW k \in 1 .. (top - 1) PROVE bigger[k] = pieces[k]
      <4>1. h[k - 1] = g[k - 1] /\ h[k] = g[k] /\ k \in 1 .. top
        BY <3>2
      <4>2. QED BY <2>10, <3>3, <4>1
    <3>5. bigger[top] = Append(pieces[top], char)
      <4>1. top \in 1 .. top /\ top - 1 \in 0 .. (top - 1)
        BY <2>4
      <4>2. PICK a \in Nat : a = g[top - 1] /\ a < len + 1
        BY <2>4, <2>6, <4>1
      <4>3. bigger[top] = SubSeq(more, a + 1, (len + 2) - 1) /\ pieces[top] = SubSeq(text, a + 1, (len + 1) - 1)
        BY <2>4, <2>6, <3>2, <3>3, <4>1, <4>2
      <4>4. bigger[top] = SubSeq(more, a + 1, len + 1) /\ pieces[top] = SubSeq(text, a + 1, len)
        BY <4>3
      <4>5. pieces[top] \in Seq(Char) /\ bigger[top] \in Seq(Char)
        BY <2>6, <3>3, <4>1
      <4>6. /\ Len(bigger[top]) = (len + 1) - a
            /\ \A i \in 1 .. ((len + 1) - a) : bigger[top][i] = more[a + i]
        <5>1. PICK end \in Nat : end = len + 1 /\ a <= end /\ end <= Len(more)
          BY <2>8, <4>2
        <5>2. /\ Len(SubSeq(more, a + 1, end)) = end - a
              /\ \A i \in 1 .. (end - a) : SubSeq(more, a + 1, end)[i] = more[a + i]
          BY <5>1, Slice
        <5>3. QED BY <4>4, <5>1, <5>2
      <4>7. /\ Len(pieces[top]) = len - a
            /\ \A i \in 1 .. (len - a) : pieces[top][i] = text[a + i]
        <5>1. a <= len /\ len <= Len(text)
          BY <2>3, <4>2
        <5>2. QED BY <4>4, <5>1, Slice
      <4>8. /\ \A i \in 1 .. (len - a) : a + i \in 1 .. len /\ i \in 1 .. ((len + 1) - a)
            /\ (len + 1) - a \in 1 .. ((len + 1) - a) /\ a + ((len + 1) - a) = len + 1
            /\ (len + 1) - a = (len - a) + 1 /\ len - a \in Nat
        <5>1. a <= len /\ len - a \in Nat
          BY <4>2
        <5>2. (len + 1) - a = (len - a) + 1
          BY <5>1
        <5>3. a + ((len + 1) - a) = len + 1
          BY <5>1
        <5>4. QED BY <5>1, <5>2, <5>3
      <4>9. PICK last \in Seq(Char) : last = pieces[top]
        BY <4>5
      <4>10. /\ Append(last, char) \in Seq(Char) /\ Len(Append(last, char)) = (len - a) + 1
             /\ Append(last, char)[(len - a) + 1] = char
             /\ \A i \in 1 .. (len - a) : Append(last, char)[i] = last[i]
        <5>1. Len(last) = len - a
          BY <4>7, <4>9
        <5>2. QED BY <5>1, Appended
      <4>11. ASSUME NEW i \in 1 .. ((len - a) + 1) PROVE bigger[top][i] = Append(last, char)[i]
        <5>1. i \in 1 .. (len - a) \/ i = (len - a) + 1
          BY <4>8
        <5>2. CASE i \in 1 .. (len - a)
          <6>1. bigger[top][i] = text[a + i]
            BY <2>8, <4>6, <4>8, <5>2
          <6>2. QED BY <4>7, <4>9, <4>10, <5>2, <6>1
        <5>3. CASE i = (len - a) + 1
          <6>1. bigger[top][(len + 1) - a] = more[len + 1]
            BY <4>6, <4>8
          <6>2. QED BY <2>8, <4>8, <4>10, <5>3, <6>1
        <5>4. QED BY <5>1, <5>2, <5>3
      <4>12. bigger[top] = Append(last, char)
        <5>1. Len(bigger[top]) = (len - a) + 1
          BY <4>6, <4>8
        <5>2. PICK one \in Seq(Char), two \in Seq(Char) : one = bigger[top] /\ two = Append(last, char)
          BY <4>5, <4>10, Zenon
        <5>3. Len(one) = Len(two) /\ \A i \in 1 .. Len(one) : one[i] = two[i]
          BY <4>10, <4>11, <5>1, <5>2, Zenon
        <5>4. one = two
          BY <5>3, SeqEqual
        <5>5. QED BY <5>2, <5>4
      <4>13. QED BY <4>9, <4>12
    <3>6. bigger = [pieces EXCEPT ![Len(pieces)] = Append(@, char)]
      <4> DEFINE changed == [pieces EXCEPT ![Len(pieces)] = Append(@, char)]
      <4>1. top \in 1 .. top /\ pieces \in [1 .. top -> Seq(Char)] /\ bigger \in [1 .. top -> Seq(Char)]
        <5>1. top \in 1 .. top
          BY <2>4
        <5>2. pieces \in [1 .. Len(pieces) -> Seq(Char)] /\ bigger \in [1 .. Len(bigger) -> Seq(Char)]
          OBVIOUS
        <5>3. QED BY <2>6, <3>3, <5>1, <5>2, Zenon
      <4>2. /\ DOMAIN changed = 1 .. top /\ changed[top] = Append(pieces[top], char)
            /\ \A k \in 1 .. (top - 1) : changed[k] = pieces[k]
        BY <2>6, <4>1
      <4>3. changed = [k \in 1 .. top |-> changed[k]]
        BY <2>6, <4>1
      <4> HIDE DEF changed
      <4>4. ASSUME NEW k \in 1 .. top PROVE bigger[k] = changed[k]
        <5>1. k \in 1 .. (top - 1) \/ k = top
          OBVIOUS
        <5>2. QED BY <3>4, <3>5, <4>2, <5>1
      <4>5. bigger = changed
        BY <4>1, <4>3, <4>4
      <4>6. QED BY <4>5 DEF changed
    <3>7. QED BY <2>5, <2>7, <2>9, <2>12, <3>6 DEF Longer
  <2>13. QED BY <2>11, <2>12
<1>4. QED BY <1>1, <1>2, <1>3

\* One text begins another.
Starts(short, long) == Len(short) <= Len(long) /\ \A i \in 1 .. Len(short) : long[i] = short[i]

\* So do the pieces of the two: only the last may have become longer.
PiecesStart(some, all) ==
  /\ Len(some) <= Len(all)
  /\ \A k \in 1 .. (Len(some) - 1) : all[k] = some[k]
  /\ Starts(some[Len(some)], all[Len(some)])

\* Longer, element by element.
LEMMA LongerIs ==
  ASSUME NEW pieces \in Seq(Seq(Char)), Len(pieces) > 0, NEW char \in Char, NEW sep \in Char
  PROVE  /\ Longer(pieces, char, sep) \in Seq(Seq(Char))
         /\ Len(Longer(pieces, char, sep)) = IF char = sep THEN Len(pieces) + 1 ELSE Len(pieces)
         /\ \A k \in 1 .. (Len(pieces) - 1) : Longer(pieces, char, sep)[k] = pieces[k]
         /\ pieces[Len(pieces)] \in Seq(Char)
         /\ char = sep => /\ Longer(pieces, char, sep)[Len(pieces)] = pieces[Len(pieces)]
                          /\ Longer(pieces, char, sep)[Len(pieces) + 1] = <<>>
         /\ char # sep => Longer(pieces, char, sep)[Len(pieces)] = Append(pieces[Len(pieces)], char)
<1>1. PICK top \in Nat : top = Len(pieces) /\ top > 0 /\ pieces \in [1 .. top -> Seq(Char)]
  OBVIOUS
<1>2. PICK last \in Seq(Char) : last = pieces[top]
  BY <1>1
<1>3. CASE char = sep
  <2>1. Longer(pieces, char, sep) = Append(pieces, <<>>) /\ <<>> \in Seq(Char)
    BY <1>3 DEF Longer
  <2>2. /\ Append(pieces, <<>>) \in Seq(Seq(Char)) /\ Len(Append(pieces, <<>>)) = Len(pieces) + 1
        /\ Append(pieces, <<>>)[Len(pieces) + 1] = <<>>
        /\ \A k \in 1 .. Len(pieces) : Append(pieces, <<>>)[k] = pieces[k]
    BY <2>1, AppendProperties
  <2>3. PICK more : more = Append(pieces, <<>>)
    OBVIOUS
  <2>4. /\ more \in Seq(Seq(Char)) /\ Len(more) = top + 1 /\ more[top + 1] = <<>>
        /\ \A k \in 1 .. top : more[k] = pieces[k]
    BY <1>1, <2>2, <2>3
  <2>5. Longer(pieces, char, sep) = more
    BY <2>1, <2>3
  <2>6. top \in 1 .. top /\ \A k \in 1 .. (top - 1) : k \in 1 .. top
    BY <1>1
  <2>7. QED BY <1>1, <1>2, <1>3, <2>4, <2>5, <2>6
<1>4. CASE char # sep
  <2> DEFINE changed == [pieces EXCEPT ![top] = Append(@, char)]
  <2>1. Longer(pieces, char, sep) = changed
    BY <1>1, <1>4 DEF Longer
  <2>2. Append(last, char) \in Seq(Char)
    BY Appended
  <2>3. /\ changed \in [1 .. top -> Seq(Char)] /\ changed[top] = Append(last, char)
        /\ \A k \in 1 .. (top - 1) : changed[k] = pieces[k]
    <3>1. top \in 1 .. top
      BY <1>1
    <3>2. changed = [k \in 1 .. top |-> IF k = top THEN Append(last, char) ELSE pieces[k]]
      BY <1>1, <1>2
    <3>3. \A k \in 1 .. top : pieces[k] \in Seq(Char)
      BY <1>1
    <3> HIDE DEF changed
    <3>4. QED BY <2>2, <3>1, <3>2, <3>3
  <2> HIDE DEF changed
  <2>4. changed \in Seq(Seq(Char)) /\ Len(changed) = top
    BY <2>3
  <2>5. QED BY <1>1, <1>2, <1>4, <2>1, <2>3, <2>4
<1>5. QED BY <1>3, <1>4

LEMMA LongerBySeparator ==
  ASSUME NEW pieces \in Seq(Seq(Char)), Len(pieces) > 0, NEW sep \in Char
  PROVE  /\ Longer(pieces, sep, sep) \in Seq(Seq(Char)) /\ Len(Longer(pieces, sep, sep)) = Len(pieces) + 1
         /\ \A k \in 1 .. (Len(pieces) - 1) : Longer(pieces, sep, sep)[k] = pieces[k]
         /\ Longer(pieces, sep, sep)[Len(pieces)] = pieces[Len(pieces)]
         /\ Longer(pieces, sep, sep)[Len(pieces) + 1] = <<>>
<1>1. PICK char \in Char : char = sep
  OBVIOUS
<1>2. /\ Longer(pieces, char, sep) \in Seq(Seq(Char))
      /\ Len(Longer(pieces, char, sep)) = IF char = sep THEN Len(pieces) + 1 ELSE Len(pieces)
      /\ \A k \in 1 .. (Len(pieces) - 1) : Longer(pieces, char, sep)[k] = pieces[k]
      /\ char = sep => /\ Longer(pieces, char, sep)[Len(pieces)] = pieces[Len(pieces)]
                       /\ Longer(pieces, char, sep)[Len(pieces) + 1] = <<>>
  BY LongerIs, Zenon
<1>3. QED BY <1>1, <1>2

LEMMA LongerByOne ==
  ASSUME NEW pieces \in Seq(Seq(Char)), Len(pieces) > 0, NEW char \in Char, NEW sep \in Char, char # sep
  PROVE  /\ Longer(pieces, char, sep) \in Seq(Seq(Char)) /\ Len(Longer(pieces, char, sep)) = Len(pieces)
         /\ \A k \in 1 .. (Len(pieces) - 1) : Longer(pieces, char, sep)[k] = pieces[k]
         /\ Longer(pieces, char, sep)[Len(pieces)] = Append(pieces[Len(pieces)], char)
<1>1. /\ Longer(pieces, char, sep) \in Seq(Seq(Char))
      /\ Len(Longer(pieces, char, sep)) = IF char = sep THEN Len(pieces) + 1 ELSE Len(pieces)
      /\ \A k \in 1 .. (Len(pieces) - 1) : Longer(pieces, char, sep)[k] = pieces[k]
      /\ char # sep => Longer(pieces, char, sep)[Len(pieces)] = Append(pieces[Len(pieces)], char)
  BY LongerIs, Zenon
<1>2. QED BY <1>1

LEMMA LongerStarts ==
  ASSUME NEW some \in Seq(Seq(Char)), NEW all \in Seq(Seq(Char)), Len(some) > 0, PiecesStart(some, all),
         NEW char \in Char, NEW sep \in Char
  PROVE  PiecesStart(some, Longer(all, char, sep))
<1>1. PICK m \in Nat, top \in Nat : m = Len(some) /\ top = Len(all) /\ 0 < m /\ m <= top
  BY DEF PiecesStart
<1>2. PICK more \in Seq(Seq(Char)) :
        /\ more = Longer(all, char, sep) /\ Len(more) >= top
        /\ \A k \in 1 .. (top - 1) : more[k] = all[k]
        /\ char = sep => more[top] = all[top]
        /\ char # sep => more[top] = Append(all[top], char)
  <2>1. PICK more \in Seq(Seq(Char)) : more = Longer(all, char, sep)
    <3>1. Len(all) > 0
      BY <1>1
    <3>2. Longer(all, char, sep) \in Seq(Seq(Char))
      BY <3>1, LongerIs, Zenon
    <3>3. QED BY <3>2
  <2>2. /\ Len(more) = IF char = sep THEN Len(all) + 1 ELSE Len(all)
        /\ \A k \in 1 .. (Len(all) - 1) : more[k] = all[k]
        /\ char = sep => more[Len(all)] = all[Len(all)]
        /\ char # sep => more[Len(all)] = Append(all[Len(all)], char)
    <3>1. Len(all) > 0
      BY <1>1
    <3>2. /\ Len(Longer(all, char, sep)) = IF char = sep THEN Len(all) + 1 ELSE Len(all)
          /\ \A k \in 1 .. (Len(all) - 1) : Longer(all, char, sep)[k] = all[k]
          /\ char = sep => Longer(all, char, sep)[Len(all)] = all[Len(all)]
          /\ char # sep => Longer(all, char, sep)[Len(all)] = Append(all[Len(all)], char)
      BY <3>1, LongerIs, Zenon
    <3>3. QED BY <2>1, <3>2
  <2>3. Len(more) >= top
    BY <1>1, <2>2
  <2>4. /\ \A k \in 1 .. (top - 1) : more[k] = all[k]
        /\ char = sep => more[top] = all[top]
        /\ char # sep => more[top] = Append(all[top], char)
    BY <1>1, <2>2, Zenon
  <2>5. QED BY <2>1, <2>3, <2>4, Zenon
<1>3. Starts(some[m], all[m]) /\ \A k \in 1 .. (m - 1) : all[k] = some[k]
  BY <1>1 DEF PiecesStart
<1>4. \A k \in 1 .. (m - 1) : more[k] = some[k]
  BY <1>1, <1>2, <1>3
<1>5. Starts(some[m], more[m])
  <2>1. CASE m < top \/ char = sep
    <3>1. m \in 1 .. (top - 1) \/ (m = top /\ char = sep)
      BY <1>1, <2>1
    <3>2. more[m] = all[m]
      BY <1>2, <3>1, Zenon
    <3>3. QED BY <1>3, <3>2
  <2>2. CASE m = top /\ char # sep
    <3>1. PICK old \in Seq(Char) : old = all[m] /\ more[m] = Append(old, char)
      BY <1>1, <1>2, <2>2
    <3>2. PICK beginning \in Seq(Char) : beginning = some[m]
      BY <1>1
    <3>3. Starts(beginning, old)
      BY <1>3, <3>1, <3>2
    <3>4. Len(Append(old, char)) = Len(old) + 1 /\ \A i \in 1 .. Len(old) : Append(old, char)[i] = old[i]
      BY Appended
    <3>5. Starts(beginning, Append(old, char))
      <4>1. PICK a \in Nat, b \in Nat : a = Len(beginning) /\ b = Len(old) /\ a <= b
        BY <3>3 DEF Starts
      <4>2. \A i \in 1 .. a : i \in 1 .. b
        BY <4>1
      <4>3. QED BY <3>3, <3>4, <4>1, <4>2 DEF Starts
    <3>6. QED BY <3>1, <3>2, <3>5
  <2>3. QED BY <1>1, <2>1, <2>2
<1>6. QED BY <1>1, <1>2, <1>4, <1>5 DEF PiecesStart

LEMMA PiecesOfStart ==
  ASSUME NEW text \in Seq(Char), NEW short \in Seq(Char), Starts(short, text), NEW sep \in Char
  PROVE  PiecesStart(Pieces(short, sep), Pieces(text, sep))
<1>1. PICK m \in Nat, len \in Nat : m = Len(short) /\ len = Len(text) /\ m <= len
  BY DEF Starts
<1>2. PICK some \in Seq(Seq(Char)) : some = Pieces(short, sep) /\ Len(some) > 0
  BY PiecesGrow
<1> DEFINE P == {k \in 0 .. (len - m) : PiecesStart(some, Pieces(SubSeq(text, 1, m + k), sep))}
<1>3. 0 \in P
  <2>1. SubSeq(text, 1, m) = short
    <3>1. /\ SubSeq(text, 1, m) \in Seq(Char) /\ Len(SubSeq(text, 1, m)) = m
          /\ \A i \in 1 .. m : SubSeq(text, 1, m)[i] = text[i]
      BY <1>1
    <3>2. \A i \in 1 .. m : SubSeq(text, 1, m)[i] = short[i]
      BY <1>1, <3>1 DEF Starts
    <3>3. QED BY <1>1, <3>1, <3>2, SeqEqual
  <2>2. PiecesStart(some, some)
    <3>1. Len(some) \in Nat /\ some[Len(some)] \in Seq(Char)
      BY <1>2
    <3>2. QED BY <3>1 DEF PiecesStart, Starts
  <2>3. PiecesStart(some, Pieces(SubSeq(text, 1, m + 0), sep)) /\ 0 \in 0 .. (len - m)
    <3>1. m + 0 = m /\ 0 \in 0 .. (len - m)
      BY <1>1
    <3>2. QED BY <1>2, <2>1, <2>2, <3>1
  <2>4. QED BY <2>3
<1>4. ASSUME NEW k \in 1 .. (len - m), k - 1 \in P PROVE k \in P
  <2>1. m + (k - 1) = (m + k) - 1 /\ m + k \in 1 .. Len(text) /\ (m + k) - 1 \in 0 .. Len(text)
    BY <1>1
  <2>2. PICK read \in Seq(Char), char \in Char :
          read = SubSeq(text, 1, (m + k) - 1) /\ SubSeq(text, 1, m + k) = Append(read, char)
    BY <2>1, ReadUpTo
  <2>3. PICK all \in Seq(Seq(Char)) : all = Pieces(read, sep)
    BY PiecesGrow
  <2>4. PiecesStart(some, all)
    BY <1>4, <2>1, <2>2, <2>3
  <2>5. PiecesStart(some, Longer(all, char, sep))
    BY <1>2, <2>4, LongerStarts
  <2>6. Pieces(SubSeq(text, 1, m + k), sep) = Longer(all, char, sep)
    BY <2>2, <2>3, PiecesGrow
  <2>7. PiecesStart(some, Pieces(SubSeq(text, 1, m + k), sep))
    BY <2>5, <2>6
  <2>8. QED BY <2>7
<1>5. len - m \in Nat /\ m + (len - m) = len
  BY <1>1
<1>6. 0 .. (len - m) \subseteq P
  <2> HIDE DEF P
  <2>1. QED BY <1>3, <1>4, <1>5, Upwards
<1>7. PiecesStart(some, Pieces(SubSeq(text, 1, m + (len - m)), sep))
  <2>1. len - m \in 0 .. (len - m)
    BY <1>5
  <2>2. len - m \in P
    <3> HIDE DEF P
    <3>1. QED BY <1>6, <2>1
  <2>3. QED BY <2>2
<1>8. SubSeq(text, 1, m + (len - m)) = text
  BY <1>1, <1>5, ReadUpTo
<1>9. QED BY <1>2, <1>7, <1>8

\* The piece behind the last separator is dropped if there is nothing in it.
LEMMA EndingIs ==
  ASSUME NEW pieces \in Seq(Seq(Char)), Len(pieces) > 0
  PROVE  /\ Ending(pieces) \in Seq(Seq(Char))
         /\ Len(Ending(pieces)) = IF pieces[Len(pieces)] = <<>> THEN Len(pieces) - 1 ELSE Len(pieces)
         /\ \A k \in 1 .. Len(Ending(pieces)) : Ending(pieces)[k] = pieces[k]
<1>1. CASE pieces[Len(pieces)] = <<>>
  <2>1. Ending(pieces) = SubSeq(pieces, 1, Len(pieces) - 1)
    BY <1>1 DEF Ending, Last, Front
  <2>2. /\ SubSeq(pieces, 1, Len(pieces) - 1) \in Seq(Seq(Char))
        /\ Len(SubSeq(pieces, 1, Len(pieces) - 1)) = Len(pieces) - 1
    <3>1. PICK m \in Nat : m = Len(pieces) - 1
      <4>1. Len(pieces) - 1 \in Nat
        OBVIOUS
      <4>2. QED BY <4>1
    <3>2. \A i \in 1 .. m : pieces[i] \in Seq(Char)
      BY <3>1
    <3>3. SubSeq(pieces, 1, m) \in Seq(Seq(Char))
      BY <3>2, SubSeqProperties
    <3>4. Len(SubSeq(pieces, 1, m)) = m
      BY <3>1
    <3>5. QED BY <3>1, <3>3, <3>4
  <2>3. \A k \in 1 .. (Len(pieces) - 1) : SubSeq(pieces, 1, Len(pieces) - 1)[k] = pieces[k]
    OBVIOUS
  <2>4. QED BY <1>1, <2>1, <2>2, <2>3
<1>2. CASE pieces[Len(pieces)] # <<>>
  BY <1>2 DEF Ending, Last
<1>3. QED BY <1>1, <1>2

-----------------------------------------------------------------------------
(* A number *)

LEMMA DigitIs == \A char \in DOMAIN Digit : Digit[char] \in Nat
<1>1. ASSUME NEW char \in ToSet(Numerals) PROVE \E n0 \in 0 .. 9 : Numerals[n0 + 1] = char
  <2>1. PICK k \in 1 .. 10 : char = Numerals[k]
    BY DEF ToSet, Numerals
  <2>2. k - 1 \in 0 .. 9 /\ (k - 1) + 1 = k
    OBVIOUS
  <2>3. QED BY <2>1, <2>2
<1>2. ASSUME NEW char \in ToSet(Numerals) PROVE Digit[char] \in 0 .. 9
  <2>1. Digit[char] = CHOOSE n0 \in 0 .. 9 : Numerals[n0 + 1] = char
    BY DEF Digit
  <2>2. QED BY <1>1, <2>1
<1>3. DOMAIN Digit = ToSet(Numerals)
  BY DEF Digit
<1>4. QED BY <1>2, <1>3

\* The number so far and one character more.
Read10(number, char) == IF char \in DOMAIN Digit THEN number * 10 + Digit[char] ELSE number

Numbers(g, text) ==
  /\ g \in [0 .. Len(text) -> Nat] /\ g[0] = 0
  /\ \A k \in 1 .. Len(text) : g[k] = Read10(g[k - 1], text[k])

LEMMA DecimalAlong ==
  ASSUME NEW text \in Seq(Char)
  PROVE  \E g : Numbers(g, text) /\ Decimal(text) = g[Len(text)]
<1> DEFINE B(f) == f = [k \in 0 .. Len(text) |->
                          IF k = 0 THEN 0
                          ELSE IF text[k] \in DOMAIN Digit THEN f[k - 1] * 10 + Digit[text[k]] ELSE f[k - 1]]
           F == [p \in (1 .. Len(text)) \X Nat |-> Read10(p[2], text[p[1]])]
<1>1. Len(text) \in Nat /\ \A number \in Nat : \A char : Read10(number, char) \in Nat
  BY DigitIs DEF Read10
<1>2. \A k \in 1 .. Len(text), number \in Nat : F[<<k, number>>] = Read10(number, text[k])
  OBVIOUS
<1> HIDE DEF F
<1>3. PICK g : Along(g, Len(text), Nat, 0, F)
  <2>1. \A k \in 1 .. Len(text), number \in Nat : F[<<k, number>>] \in Nat
    BY <1>1, <1>2
  <2>2. PICK nought \in Nat : nought = 0
    OBVIOUS
  <2>3. \E g : Along(g, Len(text), Nat, nought, F)
    BY <1>1, <2>1, AlongExists
  <2>4. QED BY <2>2, <2>3
<1>4. Numbers(g, text)
  <2>1. ASSUME NEW k \in 1 .. Len(text) PROVE g[k] = Read10(g[k - 1], text[k])
    <3>1. g[k - 1] \in Nat
      BY <1>1, <1>3 DEF Along
    <3>2. QED BY <1>2, <1>3, <3>1 DEF Along
  <2>2. QED BY <1>3, <2>1 DEF Along, Numbers
<1>5. B(g)
  <2>1. ASSUME NEW k \in 0 .. Len(text)
        PROVE  g[k] = IF k = 0 THEN 0
                      ELSE IF text[k] \in DOMAIN Digit THEN g[k - 1] * 10 + Digit[text[k]] ELSE g[k - 1]
    BY <1>1, <1>4 DEF Numbers, Read10
  <2>2. QED BY <1>4, <2>1 DEF Numbers
<1> DEFINE chosen == CHOOSE f : B(f)
<1>6. B(chosen)
  BY <1>5, Zenon
<1>7. Decimal(text) = chosen[Len(text)]
  BY DEF Decimal
<1>8. Numbers(chosen, text)
  <2> DEFINE body == [k \in 0 .. Len(text) |->
                        IF k = 0 THEN 0
                        ELSE IF text[k] \in DOMAIN Digit THEN chosen[k - 1] * 10 + Digit[text[k]] ELSE chosen[k - 1]]
  <2>1. chosen = body
    BY <1>6
  <2>2. /\ body = [k \in 0 .. Len(text) |-> body[k]] /\ body[0] = 0
        /\ \A k \in 1 .. Len(text) : body[k] = Read10(chosen[k - 1], text[k])
    BY <1>1 DEF Read10
  <2> HIDE DEF body, chosen
  <2>3. /\ chosen = [k \in 0 .. Len(text) |-> chosen[k]] /\ chosen[0] = 0
        /\ \A k \in 1 .. Len(text) : chosen[k] = Read10(chosen[k - 1], text[k])
    BY <2>1, <2>2
  <2> DEFINE P == {k \in 0 .. Len(text) : chosen[k] \in Nat}
  <2>4. 0 .. Len(text) \subseteq P
    <3>1. 0 \in P
      BY <1>1, <2>3
    <3>2. \A k \in 1 .. Len(text) : k - 1 \in P => k \in P
      BY <1>1, <2>3
    <3> HIDE DEF P
    <3>3. QED BY <1>1, <3>1, <3>2, Upwards
  <2>5. QED BY <2>3, <2>4 DEF Numbers
<1>9. QED BY <1>7, <1>8

LEMMA DecimalGrows ==
  /\ Decimal(<<>>) = 0
  /\ \A text \in Seq(Char) : Decimal(text) \in Nat
  /\ \A text \in Seq(Char), char \in Char : Decimal(Append(text, char)) = Read10(Decimal(text), char)
<1>1. Decimal(<<>>) = 0
  <2>1. <<>> \in Seq(Char) /\ Len(<<>>) = 0
    OBVIOUS
  <2>2. QED BY <2>1, DecimalAlong DEF Numbers
<1>2. \A text \in Seq(Char) : Decimal(text) \in Nat
  <2>1. ASSUME NEW text \in Seq(Char) PROVE Decimal(text) \in Nat
    <3>1. PICK g : Numbers(g, text) /\ Decimal(text) = g[Len(text)]
      BY DecimalAlong
    <3>2. Len(text) \in 0 .. Len(text)
      OBVIOUS
    <3>3. QED BY <3>1, <3>2 DEF Numbers
  <2>2. QED BY <2>1
<1>3. ASSUME NEW text \in Seq(Char), NEW char \in Char
      PROVE  Decimal(Append(text, char)) = Read10(Decimal(text), char)
  <2>1. PICK len \in Nat, more \in Seq(Char) :
          /\ len = Len(text) /\ more = Append(text, char) /\ Len(more) = len + 1 /\ more[len + 1] = char
          /\ \A k \in 1 .. len : more[k] = text[k]
    <3>1. PICK len \in Nat : len = Len(text)
      OBVIOUS
    <3>2. PICK more \in Seq(Char) : more = Append(text, char)
      BY Appended
    <3>3. Len(more) = len + 1 /\ more[len + 1] = char /\ \A k \in 1 .. len : more[k] = text[k]
      BY <3>1, <3>2, Appended
    <3>4. QED BY <3>1, <3>2, <3>3
  <2>2. PICK g : Numbers(g, text) /\ Decimal(text) = g[len]
    BY <2>1, DecimalAlong
  <2>3. PICK h : Numbers(h, more) /\ Decimal(more) = h[len + 1]
    BY <2>1, DecimalAlong
  <2> DEFINE P == {k \in 0 .. len : h[k] = g[k]}
  <2>4. 0 .. len \subseteq P
    <3>1. 0 \in P
      BY <2>1, <2>2, <2>3 DEF Numbers
    <3>2. ASSUME NEW k \in 1 .. len, k - 1 \in P PROVE k \in P
      <4>1. h[k] = Read10(h[k - 1], more[k]) /\ g[k] = Read10(g[k - 1], text[k])
        <5>1. k \in 1 .. Len(more) /\ k \in 1 .. Len(text)
          BY <2>1
        <5>2. QED BY <2>2, <2>3, <5>1 DEF Numbers
      <4>2. h[k] = g[k]
        BY <2>1, <3>2, <4>1
      <4>3. QED BY <4>2
    <3> HIDE DEF P
    <3>3. QED BY <3>1, <3>2, <2>1, Upwards
  <2>5. h[len] = g[len]
    BY <2>4
  <2>6. h[len + 1] = Read10(h[len], more[len + 1])
    <3>1. len + 1 \in 1 .. Len(more) /\ (len + 1) - 1 = len
      BY <2>1
    <3>2. QED BY <2>3, <3>1 DEF Numbers
  <2>7. QED BY <2>1, <2>2, <2>3, <2>5, <2>6
<1>4. QED BY <1>1, <1>2, <1>3

-----------------------------------------------------------------------------
(* A name *)

LEMMA UserSizes ==
  /\ UsersMax \in Nat /\ UsersMax > 0 /\ GroupsMax \in Nat /\ GroupsMax > 0
  /\ NameSize \in Nat /\ NameSize > 1
  /\ \A text \in Texts : text \in Seq(Char)
<1>1. ASSUME NEW text \in Texts PROVE text \in Seq(Char)
  <2>1. text \in Seq(STRING) /\ \A char \in STRING : char \in Char
    BY UsersFileAssumption DEF Char
  <2>2. QED BY <2>1, SeqMonotonic, Zenon
<1>2. QED BY <1>1, UsersFileAssumption

LEMMA CharsAre ==
  /\ End \in Char /\ Unknown \in Char /\ Newline \in Char /\ ColonMark \in Char /\ CommaMark \in Char
  /\ CommaMark # ColonMark
BY DEF Char, CommaMark, ColonMark

LEMMA ReadTo ==
  ASSUME NEW a \in Cells, NEW e \in 0 .. (NameSize - 1), a[e] = End,
         \A k \in 0 .. (NameSize - 1) : a[k] = End => e <= k
  PROVE  Read(a) = [k \in 1 .. e |-> a[k - 1]]
<1> DEFINE ends == {k \in DOMAIN a : a[k] = End}
           first == CHOOSE k \in ends : \A m \in ends : k <= m
<1>1. DOMAIN a = 0 .. (NameSize - 1)
  BY DEF Cells
<1>2. e \in ends /\ \A m \in ends : e <= m /\ m \in Int
  BY <1>1
<1>3. \A k \in ends : (\A m \in ends : k <= m) => k = e
  BY <1>2
<1> HIDE DEF ends
<1>4. first = e
  BY <1>2, <1>3
<1>5. ends # {}
  BY <1>2
<1>6. Read(a) = [k \in 1 .. (IF ends = {} THEN NameSize ELSE first) |-> a[k - 1]]
  BY Zenon DEF Read, ends
<1>7. QED BY <1>4, <1>5, <1>6

\* What stands behind the first terminator is not read.
LEMMA ReadSame ==
  ASSUME NEW a \in Cells, NEW b \in Cells, NEW top \in 0 .. (NameSize - 1),
         a[top] = End, b[top] = End, \A k \in 0 .. (top - 1) : a[k] = b[k]
  PROVE  Read(a) = Read(b)
<1> DEFINE ends == {k \in 0 .. (NameSize - 1) : a[k] = End}
<1>1. NameSize \in Nat
  BY UserSizes
<1>2. PICK e \in ends : \A k \in ends : e <= k
  <2>1. ends \subseteq Nat /\ top \in ends
    BY <1>1
  <2> HIDE DEF ends
  <2>2. QED BY <2>1, LeastNumber
<1>3. e \in 0 .. top /\ a[e] = End /\ \A k \in 0 .. (NameSize - 1) : a[k] = End => e <= k
  BY <1>1, <1>2
<1>4. b[e] = End
  BY <1>3
<1>5. ASSUME NEW k \in 0 .. (NameSize - 1), b[k] = End PROVE e <= k
  <2>1. CASE k >= e
    BY <1>1, <1>3, <2>1
  <2>2. CASE k < e
    <3>1. a[k] = End
      BY <1>1, <1>3, <1>5, <2>2
    <3>2. QED BY <1>3, <3>1
  <2>3. QED BY <1>1, <1>3, <2>1, <2>2
<1>6. e \in 0 .. (NameSize - 1)
  BY <1>2
<1>7. Read(a) = [k \in 1 .. e |-> a[k - 1]]
  BY <1>3, <1>6, ReadTo
<1>8. Read(b) = [k \in 1 .. e |-> b[k - 1]]
  BY <1>4, <1>5, <1>6, ReadTo
<1>9. \A k \in 1 .. e : a[k - 1] = b[k - 1]
  BY <1>3
<1>10. QED BY <1>7, <1>8, <1>9

LEMMA KeptIs ==
  ASSUME NEW name \in Seq(Char)
  PROVE  /\ Kept(name) \in 0 .. (NameSize - 1) /\ Kept(name) <= Len(name)
         /\ Kept(name) = 0 <=> name = <<>>
         /\ Stored(name) \in Cells /\ Stored(name)[Kept(name)] = End
         /\ \A k \in 0 .. (Kept(name) - 1) : Stored(name)[k] = name[k + 1]
<1>1. NameSize \in Nat /\ NameSize > 1 /\ Len(name) \in Nat /\ (Len(name) = 0 <=> name = <<>>)
  BY UserSizes
<1>2. PICK m \in Nat : m = Kept(name) /\ m <= NameSize - 1 /\ m <= Len(name) /\ (m = 0 <=> Len(name) = 0)
  BY <1>1 DEF Kept
<1>3. Stored(name) = [k \in 0 .. (NameSize - 1) |-> IF k < m THEN name[k + 1] ELSE End]
  BY <1>2 DEF Stored
<1>4. \A k \in 0 .. (NameSize - 1) : k < m => name[k + 1] \in Char
  BY <1>1, <1>2
<1>5. End \in Char
  BY CharsAre
<1>6. Stored(name) \in Cells
  BY <1>3, <1>4, <1>5 DEF Cells
<1>7. QED BY <1>1, <1>2, <1>3, <1>6

\* A name that is filled in and then ended reads as the text kept of it.
LEMMA NameEnds ==
  ASSUME NEW cells \in Cells, NEW filled, NEW name \in Seq(Char), Filling(cells, filled, name)
  PROVE  /\ [cells EXCEPT ![filled] = End] \in Cells
         /\ Read([cells EXCEPT ![filled] = End]) = Short(name)
         /\ filled = 0 <=> name = <<>>
<1> DEFINE ended == [cells EXCEPT ![filled] = End]
<1>1. filled = Kept(name) /\ \A k \in 0 .. (filled - 1) : cells[k] = name[k + 1]
  BY DEF Filling
<1>2. filled \in 0 .. (NameSize - 1)
  BY <1>1, KeptIs
<1>3. NameSize \in Nat /\ End \in Char
  BY UserSizes, CharsAre
<1>4. ended \in Cells /\ ended[filled] = End /\ \A k \in 0 .. (filled - 1) : ended[k] = cells[k]
  BY <1>2, <1>3 DEF Cells
<1> HIDE DEF ended
<1>5. PICK other \in Cells :
        other = Stored(name) /\ other[filled] = End /\ \A k \in 0 .. (filled - 1) : other[k] = name[k + 1]
  BY <1>1, KeptIs
<1>6. Read(ended) = Read(other)
  <2>1. \A k \in 0 .. (filled - 1) : ended[k] = other[k]
    BY <1>1, <1>4, <1>5
  <2>2. QED BY <1>2, <1>4, <1>5, <2>1, ReadSame
<1>7. ended \in Cells /\ Read(ended) = Short(name)
  BY <1>4, <1>5, <1>6 DEF Short
<1>8. filled = 0 <=> name = <<>>
  BY <1>1, KeptIs
<1>9. QED BY <1>7, <1>8 DEF ended

LEMMA NameStarts == ASSUME NEW cells PROVE Filling(cells, 0, <<>>)
<1>1. Kept(<<>>) = 0
  <2>1. <<>> \in Seq(Char)
    OBVIOUS
  <2>2. QED BY <2>1, KeptIs
<1>2. QED BY <1>1 DEF Filling

\* One character more of a name that has room for it, and of one that has none.
LEMMA NameGrows ==
  ASSUME NEW cells \in Cells, NEW filled, NEW name \in Seq(Char), NEW char \in Char,
         Filling(cells, filled, name)
  PROVE  /\ filled \in 0 .. (NameSize - 1)
         /\ filled < NameSize - 1 => /\ [cells EXCEPT ![filled] = char] \in Cells
                                     /\ Filling([cells EXCEPT ![filled] = char], filled + 1, Append(name, char))
         /\ ~(filled < NameSize - 1) => Filling(cells, filled, Append(name, char))
<1>1. filled = Kept(name) /\ \A k \in 0 .. (filled - 1) : cells[k] = name[k + 1]
  BY DEF Filling
<1>2. NameSize \in Nat /\ NameSize > 1
  BY UserSizes
<1>3. filled \in 0 .. (NameSize - 1) /\ filled <= Len(name)
  BY <1>1, KeptIs
<1>4. PICK len \in Nat : len = Len(name)
  OBVIOUS
<1>5. PICK more \in Seq(Char) : more = Append(name, char)
  BY Appended
<1>6. Len(more) = len + 1 /\ more[len + 1] = char /\ \A k \in 1 .. len : more[k] = name[k]
  BY <1>4, <1>5, Appended
<1>7. CASE filled < NameSize - 1
  <2> DEFINE longer == [cells EXCEPT ![filled] = char]
  <2>1. filled = len
    BY <1>1, <1>2, <1>4, <1>7 DEF Kept
  <2>2. Kept(more) = filled + 1
    BY <1>2, <1>4, <1>6, <1>7, <2>1 DEF Kept
  <2>3. longer \in Cells /\ longer[filled] = char /\ \A k \in 0 .. (filled - 1) : longer[k] = cells[k]
    BY <1>2, <1>3 DEF Cells
  <2> HIDE DEF longer
  <2>4. ASSUME NEW k \in 0 .. ((filled + 1) - 1) PROVE longer[k] = more[k + 1]
    <3>1. k = filled \/ k \in 0 .. (filled - 1)
      BY <1>3
    <3>2. CASE k = filled
      BY <1>6, <2>1, <2>3, <3>2
    <3>3. CASE k \in 0 .. (filled - 1)
      <4>1. k + 1 \in 1 .. len
        BY <1>4, <2>1, <3>3
      <4>2. QED BY <1>1, <1>6, <2>3, <3>3, <4>1
    <3>4. QED BY <3>1, <3>2, <3>3
  <2>5. Filling(longer, filled + 1, more)
    BY <2>2, <2>4 DEF Filling
  <2>6. QED BY <1>3, <1>5, <1>7, <2>3, <2>5 DEF longer
<1>8. CASE ~(filled < NameSize - 1)
  <2>1. filled = NameSize - 1 /\ len >= filled
    BY <1>2, <1>3, <1>4, <1>8
  <2>2. Kept(more) = filled
    BY <1>2, <1>4, <1>6, <2>1 DEF Kept
  <2>3. ASSUME NEW k \in 0 .. (filled - 1) PROVE cells[k] = more[k + 1]
    <3>1. k + 1 \in 1 .. len
      BY <1>2, <1>4, <2>1
    <3>2. QED BY <1>1, <1>6, <3>1
  <2>4. Filling(cells, filled, more)
    BY <2>2, <2>3 DEF Filling
  <2>5. QED BY <1>3, <1>5, <1>8, <2>4
<1>9. QED BY <1>7, <1>8

-----------------------------------------------------------------------------
(* An entry *)

\* One group and the number of groups are what changed.
GroupSet(e1, e, m, cells, count1) ==
  /\ e1 \in UserEntries /\ e1.group_count = count1
  /\ e1.user_id = e.user_id /\ e1.username = e.username /\ e1.password = e.password
  /\ e1.groups[m] = cells
  /\ \A g \in 0 .. (GroupsMax - 1) : g # m => e1.groups[g] = e.groups[g]

LEMMA GroupWritten ==
  ASSUME NEW e \in UserEntries, NEW m \in 0 .. (GroupsMax - 1), NEW k \in 0 .. (NameSize - 1),
         NEW char \in Char
  PROVE  /\ GroupSet([e EXCEPT !.groups[m][k] = char], e, m, [e.groups[m] EXCEPT ![k] = char], e.group_count)
         /\ GroupSet([e EXCEPT !.groups[m][k] = char, !.group_count = @ + 1], e, m,
                     [e.groups[m] EXCEPT ![k] = char], e.group_count + 1)
<1>1. e.groups \in [0 .. (GroupsMax - 1) -> Cells] /\ e.group_count \in Nat
  BY DEF UserEntries
<1>2. e.groups[m] \in Cells
  BY <1>1
<1> DEFINE written == [e.groups[m] EXCEPT ![k] = char]
           groups == [e.groups EXCEPT ![m] = written]
           one == [e EXCEPT !.groups = groups]
           two == [e EXCEPT !.groups = groups, !.group_count = e.group_count + 1]
<1>3. written \in Cells
  BY <1>2 DEF Cells
<1>4. one = [e EXCEPT !.groups[m][k] = char] /\ two = [e EXCEPT !.groups[m][k] = char, !.group_count = @ + 1]
  BY DEF UserEntries
<1> HIDE DEF written
<1>5. groups \in [0 .. (GroupsMax - 1) -> Cells] /\ groups[m] = written
      /\ \A g \in 0 .. (GroupsMax - 1) : g # m => groups[g] = e.groups[g]
  BY <1>1, <1>3
<1>6. PICK more \in Nat : more = e.group_count + 1
  BY <1>1
<1> HIDE DEF groups
<1>7. GroupSet(one, e, m, written, e.group_count)
  BY <1>1, <1>5 DEF UserEntries, GroupSet
<1>8. GroupSet(two, e, m, written, more)
  <2>1. two = [e EXCEPT !.groups = groups, !.group_count = more]
    BY <1>6
  <2>2. /\ two.user_id = e.user_id /\ two.username = e.username /\ two.password = e.password
        /\ two.groups = groups /\ two.group_count = more
    BY <2>1 DEF UserEntries
  <2>3. two \in UserEntries
    BY <1>5, <2>1 DEF UserEntries
  <2> HIDE DEF two
  <2>4. QED BY <1>5, <2>2, <2>3 DEF GroupSet
<1> HIDE DEF one, two
<1>9. QED BY <1>4, <1>6, <1>7, <1>8 DEF written

\* A group that is being filled is ended.
GroupMayEnd(e1, e, m, k) ==
  IF k > 0 /\ m < GroupsMax
  THEN GroupSet(e1, e, m, [e.groups[m] EXCEPT ![k] = End], e.group_count + 1)
  ELSE e1 = e

\* The list of groups is at its end.
LEMMA GroupsEnd ==
  ASSUME NEW list \in Seq(Char), NEW e \in UserEntries, NEW m \in 0 .. GroupsMax, NEW k \in 0 .. (NameSize - 1),
         GroupsFilling(list, e, m, k),
         NEW e1, GroupMayEnd(e1, e, m, k)
  PROVE  /\ GroupsSaid(list, e1) /\ e1 \in UserEntries
         /\ e1.user_id = e.user_id /\ e1.username = e.username /\ e1.password = e.password
<1>1. PICK groups \in Seq(Seq(Char)) : groups = Pieces(list, CommaMark)
  BY PiecesGrow, CharsAre
<1>2. /\ e.group_count = m /\ Len(groups) = m + 1 /\ m \in Nat /\ GroupsMax \in Nat
      /\ \A g \in 1 .. m : Read(e.groups[g - 1]) = Short(groups[g])
      /\ m < GroupsMax => Filling(e.groups[m], k, groups[m + 1])
      /\ m = GroupsMax => groups[m + 1] = <<>>
  <2>1. m \in Nat /\ GroupsMax \in Nat
    BY UserSizes
  <2>2. QED BY <1>1, <2>1 DEF GroupsFilling
<1>3. groups[m + 1] \in Seq(Char) /\ e.groups \in [0 .. (GroupsMax - 1) -> Cells]
  BY <1>2 DEF UserEntries
<1>4. /\ Len(Ending(groups)) = IF groups[m + 1] = <<>> THEN m ELSE m + 1
      /\ \A g \in 1 .. Len(Ending(groups)) : Ending(groups)[g] = groups[g]
  <2>1. Len(groups) > 0 /\ (m + 1) - 1 = m
    BY <1>2
  <2>2. /\ Len(Ending(groups)) = IF groups[Len(groups)] = <<>> THEN Len(groups) - 1 ELSE Len(groups)
        /\ \A g \in 1 .. Len(Ending(groups)) : Ending(groups)[g] = groups[g]
    BY <2>1, EndingIs
  <2>3. QED BY <1>2, <2>1, <2>2
<1>5. CASE k > 0 /\ m < GroupsMax
  <2>1. GroupSet(e1, e, m, [e.groups[m] EXCEPT ![k] = End], e.group_count + 1) /\ m \in 0 .. (GroupsMax - 1)
    BY <1>2, <1>5 DEF GroupMayEnd
  <2>2. /\ e1 \in UserEntries /\ e1.group_count = m + 1
        /\ e1.user_id = e.user_id /\ e1.username = e.username /\ e1.password = e.password
        /\ e1.groups[m] = [e.groups[m] EXCEPT ![k] = End]
        /\ \A g \in 0 .. (GroupsMax - 1) : g # m => e1.groups[g] = e.groups[g]
    BY <1>2, <2>1 DEF GroupSet
  <2>3. e.groups[m] \in Cells /\ Filling(e.groups[m], k, groups[m + 1])
    BY <1>2, <1>3, <1>5, <2>1
  <2>4. Read(e1.groups[m]) = Short(groups[m + 1]) /\ groups[m + 1] # <<>>
    <3>1. PICK name \in Seq(Char), cells \in Cells : name = groups[m + 1] /\ cells = e.groups[m]
      BY <1>3, <2>3
    <3>2. Read([cells EXCEPT ![k] = End]) = Short(name) /\ (k = 0 <=> name = <<>>)
      <4>1. Filling(cells, k, name)
        BY <2>3, <3>1
      <4>2. QED BY <4>1, NameEnds
    <3>3. k # 0
      BY <1>5
    <3>4. QED BY <2>2, <3>1, <3>2, <3>3
  <2>5. Len(Ending(groups)) = m + 1
    BY <1>4, <2>4
  <2>6. ASSUME NEW g \in 1 .. (m + 1) PROVE Read(e1.groups[g - 1]) = Short(Ending(groups)[g])
    <3>1. Ending(groups)[g] = groups[g]
      BY <1>4, <2>5
    <3>2. CASE g = m + 1
      <4>1. g - 1 = m
        BY <1>2, <3>2
      <4>2. QED BY <2>4, <3>1, <3>2, <4>1
    <3>3. CASE g # m + 1
      <4>1. g \in 1 .. m /\ g - 1 # m /\ g - 1 \in 0 .. (GroupsMax - 1)
        BY <1>2, <1>5, <3>3
      <4>2. e1.groups[g - 1] = e.groups[g - 1]
        BY <2>2, <4>1
      <4>3. QED BY <1>2, <3>1, <4>1, <4>2
    <3>4. QED BY <3>2, <3>3
  <2>7. GroupsSaid(list, e1)
    BY <1>1, <2>2, <2>5, <2>6 DEF GroupsSaid
  <2>8. QED BY <2>2, <2>7
<1>6. CASE ~(k > 0 /\ m < GroupsMax)
  <2>1. e1 = e
    BY <1>6 DEF GroupMayEnd
  <2>2. groups[m + 1] = <<>>
    <3>1. CASE m < GroupsMax
      <4>1. Filling(e.groups[m], k, groups[m + 1]) /\ e.groups[m] \in Cells /\ k = 0
        BY <1>2, <1>3, <1>6, <3>1
      <4>2. QED BY <1>3, <4>1, NameEnds
    <3>2. CASE ~(m < GroupsMax)
      BY <1>2, <3>2
    <3>3. QED BY <3>1, <3>2
  <2>3. Len(Ending(groups)) = m
    BY <1>4, <2>2
  <2>4. \A g \in 1 .. m : Read(e.groups[g - 1]) = Short(Ending(groups)[g])
    BY <1>2, <1>4, <2>3
  <2>5. GroupsSaid(list, e1)
    BY <1>1, <1>2, <2>1, <2>3, <2>4 DEF GroupsSaid
  <2>6. QED BY <2>1, <2>5
<1>7. QED BY <1>5, <1>6

\* A comma ends a group.
LEMMA GroupsComma ==
  ASSUME NEW list \in Seq(Char), NEW e \in UserEntries, NEW m \in 0 .. (GroupsMax - 1), NEW k \in 0 .. (NameSize - 1),
         GroupsFilling(list, e, m, k),
         NEW e1, GroupSet(e1, e, m, [e.groups[m] EXCEPT ![k] = End], e.group_count + 1)
  PROVE  GroupsFilling(Append(list, CommaMark), e1, m + 1, 0)
<1>1. PICK groups \in Seq(Seq(Char)) : groups = Pieces(list, CommaMark) /\ Len(groups) > 0
  BY PiecesGrow, CharsAre
<1>2. /\ e.group_count = m /\ Len(groups) = m + 1 /\ m \in Nat /\ GroupsMax \in Nat /\ m < GroupsMax
      /\ \A g \in 1 .. m : Read(e.groups[g - 1]) = Short(groups[g])
      /\ Filling(e.groups[m], k, groups[m + 1])
  <2>1. GroupsMax \in Nat
    BY UserSizes
  <2>2. m \in Nat /\ m < GroupsMax
    BY <2>1
  <2>3. QED BY <1>1, <2>1, <2>2 DEF GroupsFilling
<1>3. groups[m + 1] \in Seq(Char) /\ e.groups[m] \in Cells
  BY <1>2 DEF UserEntries
<1>4. PICK more \in Seq(Seq(Char)) :
        /\ more = Pieces(Append(list, CommaMark), CommaMark) /\ Len(more) = m + 2 /\ more[m + 2] = <<>>
        /\ \A g \in 1 .. (m + 1) : more[g] = groups[g]
  <2>1. PICK more : more = Longer(groups, CommaMark, CommaMark)
    OBVIOUS
  <2>2. more = Pieces(Append(list, CommaMark), CommaMark)
    BY <1>1, <2>1, PiecesGrow, CharsAre
  <2>3. /\ more \in Seq(Seq(Char)) /\ Len(more) = Len(groups) + 1 /\ more[Len(groups) + 1] = <<>>
        /\ more[Len(groups)] = groups[Len(groups)]
        /\ \A g \in 1 .. (Len(groups) - 1) : more[g] = groups[g]
    <3>1. groups \in Seq(Seq(Char)) /\ Len(groups) > 0
      BY <1>1, PiecesGrow, CharsAre
    <3>2. QED BY <2>1, <3>1, CharsAre, LongerBySeparator, Zenon
  <2>4. (m + 1) + 1 = m + 2 /\ (m + 1) - 1 = m /\ \A g \in 1 .. (m + 1) : g \in 1 .. m \/ g = m + 1
    BY <1>2
  <2>5. QED BY <1>2, <2>2, <2>3, <2>4
<1>5. /\ e1.group_count = m + 1
      /\ e1.groups[m] = [e.groups[m] EXCEPT ![k] = End]
      /\ \A g \in 0 .. (GroupsMax - 1) : g # m => e1.groups[g] = e.groups[g]
  BY <1>2 DEF GroupSet
<1>6. Read(e1.groups[m]) = Short(groups[m + 1])
  <2>1. PICK name \in Seq(Char), cells \in Cells : name = groups[m + 1] /\ cells = e.groups[m]
    BY <1>3
  <2>2. Filling(cells, k, name)
    BY <1>2, <2>1
  <2>3. Read([cells EXCEPT ![k] = End]) = Short(name)
    BY <2>2, NameEnds
  <2>4. QED BY <1>5, <2>1, <2>3
<1>7. ASSUME NEW g \in 1 .. (m + 1) PROVE Read(e1.groups[g - 1]) = Short(more[g])
  <2>1. CASE g = m + 1
    <3>1. g - 1 = m
      BY <1>2, <2>1
    <3>2. QED BY <1>4, <1>6, <2>1, <3>1
  <2>2. CASE g # m + 1
    <3>1. g \in 1 .. m /\ g - 1 # m /\ g - 1 \in 0 .. (GroupsMax - 1)
      BY <1>2, <2>2
    <3>2. QED BY <1>2, <1>4, <1>5, <3>1
  <2>3. QED BY <2>1, <2>2
<1>8. Filling(e1.groups[m + 1], 0, <<>>)
  BY NameStarts
<1>9. (m + 1) + 1 = m + 2
  BY <1>2
<1>10. QED BY <1>4, <1>5, <1>7, <1>8, <1>9 DEF GroupsFilling

\* Any other character is one of the group, kept if there is room.
LEMMA GroupsChar ==
  ASSUME NEW list \in Seq(Char), NEW e \in UserEntries, NEW m \in 0 .. (GroupsMax - 1), NEW k \in 0 .. (NameSize - 1),
         GroupsFilling(list, e, m, k), NEW char \in Char, char # CommaMark, NEW e1, NEW k1 \in Nat,
         IF k < NameSize - 1
         THEN GroupSet(e1, e, m, [e.groups[m] EXCEPT ![k] = char], e.group_count) /\ k1 = k + 1
         ELSE e1 = e /\ k1 = k
  PROVE  GroupsFilling(Append(list, char), e1, m, k1)
<1>1. PICK groups \in Seq(Seq(Char)) : groups = Pieces(list, CommaMark) /\ Len(groups) > 0
  BY PiecesGrow, CharsAre
<1>2. /\ e.group_count = m /\ Len(groups) = m + 1 /\ m \in Nat /\ GroupsMax \in Nat /\ m < GroupsMax
      /\ \A g \in 1 .. m : Read(e.groups[g - 1]) = Short(groups[g])
      /\ Filling(e.groups[m], k, groups[m + 1])
  <2>1. GroupsMax \in Nat
    BY UserSizes
  <2>2. m \in Nat /\ m < GroupsMax
    BY <2>1
  <2>3. QED BY <1>1, <2>1, <2>2 DEF GroupsFilling
<1>3. PICK name \in Seq(Char), cells \in Cells :
        name = groups[m + 1] /\ cells = e.groups[m] /\ Filling(cells, k, name)
  <2>1. groups[m + 1] \in Seq(Char) /\ e.groups[m] \in Cells
    BY <1>2 DEF UserEntries
  <2>2. QED BY <1>2, <2>1
<1>4. PICK more \in Seq(Seq(Char)) :
        /\ more = Pieces(Append(list, char), CommaMark) /\ Len(more) = m + 1 /\ more[m + 1] = Append(name, char)
        /\ \A g \in 1 .. m : more[g] = groups[g]
  <2>1. PICK more : more = Longer(groups, char, CommaMark)
    OBVIOUS
  <2>2. more = Pieces(Append(list, char), CommaMark)
    BY <1>1, <2>1, PiecesGrow, CharsAre
  <2>3. /\ more \in Seq(Seq(Char)) /\ Len(more) = Len(groups)
        /\ more[Len(groups)] = Append(groups[Len(groups)], char)
        /\ \A g \in 1 .. (Len(groups) - 1) : more[g] = groups[g]
    <3>1. Len(groups) > 0 /\ CommaMark \in Char
      BY <1>1, CharsAre
    <3>2. /\ Longer(groups, char, CommaMark) \in Seq(Seq(Char))
          /\ Len(Longer(groups, char, CommaMark)) = IF char = CommaMark THEN Len(groups) + 1 ELSE Len(groups)
          /\ \A k2 \in 1 .. (Len(groups) - 1) : Longer(groups, char, CommaMark)[k2] = groups[k2]
          /\ char # CommaMark => Longer(groups, char, CommaMark)[Len(groups)] = Append(groups[Len(groups)], char)
      BY <3>1, LongerIs, Zenon
    <3>3. QED BY <2>1, <3>2
  <2>4. (m + 1) - 1 = m
    BY <1>2
  <2>5. QED BY <1>2, <1>3, <2>2, <2>3, <2>4
<1>5. CASE k < NameSize - 1
  <2>1. GroupSet(e1, e, m, [e.groups[m] EXCEPT ![k] = char], e.group_count) /\ k1 = k + 1
    BY <1>5
  <2>2. /\ e1.group_count = m
        /\ e1.groups[m] = [cells EXCEPT ![k] = char]
        /\ \A g \in 0 .. (GroupsMax - 1) : g # m => e1.groups[g] = e.groups[g]
    BY <1>2, <1>3, <2>1 DEF GroupSet
  <2>3. Filling(e1.groups[m], k1, more[m + 1])
    <3>1. Filling([cells EXCEPT ![k] = char], k + 1, Append(name, char))
      BY <1>3, <1>5, NameGrows
    <3>2. QED BY <1>4, <2>1, <2>2, <3>1
  <2>4. \A g \in 1 .. m : Read(e1.groups[g - 1]) = Short(more[g])
    <3>1. \A g \in 1 .. m : g - 1 # m /\ g - 1 \in 0 .. (GroupsMax - 1)
      BY <1>2
    <3>2. QED BY <1>2, <1>4, <2>2, <3>1
  <2>5. QED BY <1>2, <1>4, <2>2, <2>3, <2>4 DEF GroupsFilling
<1>6. CASE ~(k < NameSize - 1)
  <2>1. e1 = e /\ k1 = k
    BY <1>6
  <2>2. Filling(e1.groups[m], k1, more[m + 1])
    <3>1. Filling(cells, k, Append(name, char))
      BY <1>3, <1>6, NameGrows
    <3>2. QED BY <1>3, <1>4, <2>1, <3>1
  <2>3. \A g \in 1 .. m : Read(e1.groups[g - 1]) = Short(more[g])
    BY <1>2, <1>4, <2>1
  <2>4. QED BY <1>2, <1>4, <2>1, <2>2, <2>3 DEF GroupsFilling
<1>7. QED BY <1>5, <1>6

\* What every entry shares with the one it grew from.
SameBut(e1, e) ==
  e1 \in UserEntries /\ e1.user_id = e.user_id /\ e1.username = e.username /\ e1.password = e.password

LEMMA FieldsGrow ==
  ASSUME NEW text \in Seq(Char), NEW f \in Nat, Len(Fields(text)) = f + 1
  PROVE  /\ Fields(text) \in Seq(Seq(Char)) /\ \A k \in 1 .. (f + 1) : Fields(text)[k] \in Seq(Char)
         /\ Len(Fields(Append(text, ColonMark))) = f + 2
         /\ Fields(Append(text, ColonMark))[f + 2] = <<>>
         /\ \A k \in 1 .. (f + 1) : Fields(Append(text, ColonMark))[k] = Fields(text)[k]
         /\ \A char \in Char \ {ColonMark} :
              /\ Len(Fields(Append(text, char))) = f + 1
              /\ Fields(Append(text, char))[f + 1] = Append(Fields(text)[f + 1], char)
              /\ \A k \in 1 .. f : Fields(Append(text, char))[k] = Fields(text)[k]
<1>1. PICK fields \in Seq(Seq(Char)) : fields = Fields(text) /\ Len(fields) = f + 1 /\ Len(fields) > 0
  BY PiecesGrow, CharsAre DEF Fields
<1>2. /\ (f + 1) + 1 = f + 2 /\ (f + 1) - 1 = f /\ f + 1 \in 1 .. (f + 1)
      /\ \A k \in 1 .. (f + 1) : k \in 1 .. f \/ k = f + 1
      /\ \A k \in 1 .. f : k \in 1 .. (f + 1)
  OBVIOUS
<1>3. ASSUME NEW char \in Char
      PROVE  /\ Fields(Append(text, char)) = Longer(fields, char, ColonMark)
             /\ Len(Longer(fields, char, ColonMark)) = IF char = ColonMark THEN Len(fields) + 1 ELSE Len(fields)
             /\ \A k \in 1 .. (Len(fields) - 1) : Longer(fields, char, ColonMark)[k] = fields[k]
             /\ char = ColonMark => /\ Longer(fields, char, ColonMark)[Len(fields)] = fields[Len(fields)]
                                    /\ Longer(fields, char, ColonMark)[Len(fields) + 1] = <<>>
             /\ char # ColonMark => Longer(fields, char, ColonMark)[Len(fields)] = Append(fields[Len(fields)], char)
  <2>1. Fields(Append(text, char)) = Longer(fields, char, ColonMark)
    BY <1>1, PiecesGrow, CharsAre DEF Fields
  <2>2. Len(fields) > 0 /\ ColonMark \in Char
    BY <1>1, CharsAre
  <2>3. QED BY <2>1, <2>2, LongerIs, Zenon
<1>4. /\ Len(Fields(Append(text, ColonMark))) = f + 2
      /\ Fields(Append(text, ColonMark))[f + 2] = <<>>
      /\ \A k \in 1 .. (f + 1) : Fields(Append(text, ColonMark))[k] = fields[k]
  <2>1. ColonMark \in Char
    BY CharsAre
  <2>2. PICK more : more = Fields(Append(text, ColonMark))
    OBVIOUS
  <2>3. Len(more) = f + 2 /\ more[f + 2] = <<>> /\ more[f + 1] = fields[f + 1] /\ \A k \in 1 .. f : more[k] = fields[k]
    <3>1. /\ more = Longer(fields, ColonMark, ColonMark) /\ Len(more) = Len(fields) + 1
          /\ more[Len(fields) + 1] = <<>> /\ more[Len(fields)] = fields[Len(fields)]
          /\ \A k \in 1 .. (Len(fields) - 1) : more[k] = fields[k]
      BY <1>3, <2>1, <2>2, Zenon
    <3>2. QED BY <1>1, <1>2, <3>1
  <2>4. QED BY <1>2, <2>2, <2>3
<1>5. ASSUME NEW char \in Char \ {ColonMark}
      PROVE  /\ Len(Fields(Append(text, char))) = f + 1
             /\ Fields(Append(text, char))[f + 1] = Append(fields[f + 1], char)
             /\ \A k \in 1 .. f : Fields(Append(text, char))[k] = fields[k]
  <2>1. char \in Char /\ char # ColonMark
    OBVIOUS
  <2>2. PICK more : more = Fields(Append(text, char))
    OBVIOUS
  <2>3. /\ Len(more) = Len(fields) /\ more[Len(fields)] = Append(fields[Len(fields)], char)
        /\ \A k \in 1 .. (Len(fields) - 1) : more[k] = fields[k]
    <3>1. more = Longer(fields, char, ColonMark)
      BY <1>3, <2>1, <2>2
    <3>2. QED BY <1>3, <2>1, <3>1
  <2>4. Len(more) = f + 1 /\ more[f + 1] = Append(fields[f + 1], char) /\ \A k \in 1 .. f : more[k] = fields[k]
    BY <1>1, <1>2, <2>3
  <2>5. QED BY <2>2, <2>4
<1>6. fields \in Seq(Seq(Char)) /\ \A k \in 1 .. (f + 1) : fields[k] \in Seq(Char)
  BY <1>1
<1>7. QED BY <1>1, <1>4, <1>5, <1>6

LEMMA FieldGrows ==
  ASSUME NEW text \in Seq(Char), NEW f \in Nat, Len(Fields(text)) = f + 1, NEW char \in Char, char # ColonMark
  PROVE  \E more : /\ more = Fields(Append(text, char)) /\ Len(more) = f + 1
                   /\ more[f + 1] = Append(Fields(text)[f + 1], char)
                   /\ \A k \in 1 .. f : more[k] = Fields(text)[k]
<1>1. char \in Char \ {ColonMark}
  OBVIOUS
<1>2. /\ Len(Fields(Append(text, char))) = f + 1
      /\ Fields(Append(text, char))[f + 1] = Append(Fields(text)[f + 1], char)
      /\ \A k \in 1 .. f : Fields(Append(text, char))[k] = Fields(text)[k]
  BY <1>1, FieldsGrow
<1>3. QED BY <1>2

\* At the first character nothing is read.
LEMMA EntryStarts ==
  ASSUME NEW e \in UserEntries, e.user_id = 0, e.group_count = 0
  PROVE  EntryFilling(<<>>, e, 0, 0, 0, 0)
<1>1. Fields(<<>>) = << <<>> >>
  BY PiecesGrow, CharsAre DEF Fields
<1>2. Len(Fields(<<>>)) = 1 /\ Fields(<<>>)[1] = <<>>
  BY <1>1
<1>3. QED BY <1>2, DecimalGrows DEF EntryFilling

\* What Colon does to the entry and to the places in it.
Colons(e, f, i, m, k, e1, m1, k1) ==
  IF f = 3 /\ k > 0 /\ m < GroupsMax
  THEN GroupSet(e1, e, m, [e.groups[m] EXCEPT ![k] = End], e.group_count + 1) /\ m1 = m + 1 /\ k1 = 0
  ELSE /\ m1 = m /\ k1 = k
       /\ CASE f = 1 -> e1 = [e EXCEPT !.username[i] = End]
            [] f = 2 -> e1 = [e EXCEPT !.password[i] = End]
            [] OTHER -> e1 = e

LEMMA NamesWritten ==
  ASSUME NEW e \in UserEntries, NEW i \in 0 .. (NameSize - 1), NEW char \in Char
  PROVE  /\ [e EXCEPT !.username[i] = char] \in UserEntries
         /\ [e EXCEPT !.username[i] = char] = [e EXCEPT !.username = [e.username EXCEPT ![i] = char]]
         /\ [e EXCEPT !.password[i] = char] \in UserEntries
         /\ [e EXCEPT !.password[i] = char] = [e EXCEPT !.password = [e.password EXCEPT ![i] = char]]
<1> DEFINE name == [e.username EXCEPT ![i] = char]
           word == [e.password EXCEPT ![i] = char]
<1>1. name \in Cells /\ word \in Cells
  BY DEF UserEntries, Cells
<1>2. /\ [e EXCEPT !.username[i] = char] = [e EXCEPT !.username = name]
      /\ [e EXCEPT !.password[i] = char] = [e EXCEPT !.password = word]
  BY DEF UserEntries
<1> HIDE DEF name, word
<1>3. [e EXCEPT !.username = name] \in UserEntries /\ [e EXCEPT !.password = word] \in UserEntries
  BY <1>1 DEF UserEntries
<1>4. QED BY <1>2, <1>3 DEF name, word

LEMMA ColonGrows ==
  ASSUME NEW text \in Seq(Char), NEW e \in UserEntries, NEW f \in Nat, NEW i \in 0 .. (NameSize - 1),
         NEW m \in 0 .. GroupsMax, NEW k \in 0 .. (NameSize - 1), EntryFilling(text, e, f, i, m, k),
         NEW e1, NEW m1, NEW k1, Colons(e, f, i, m, k, e1, m1, k1)
  PROVE  /\ EntryFilling(Append(text, ColonMark), e1, f + 1, 0, m1, k1)
         /\ e1 \in UserEntries /\ m1 \in 0 .. GroupsMax /\ k1 \in 0 .. (NameSize - 1)
<1>1. PICK fields \in Seq(Seq(Char)) :
        fields = Fields(text) /\ Len(fields) = f + 1 /\ \A j \in 1 .. (f + 1) : fields[j] \in Seq(Char)
  BY FieldsGrow DEF EntryFilling
<1>2. PICK more :
        /\ more = Fields(Append(text, ColonMark)) /\ Len(more) = (f + 1) + 1 /\ more[f + 2] = <<>>
        /\ \A j \in 1 .. (f + 1) : more[j] = fields[j]
  <2>1. (f + 1) + 1 = f + 2
    OBVIOUS
  <2>2. QED BY <1>1, <2>1, FieldsGrow
<1>3. PICK line1 : line1 = Append(text, ColonMark)
  OBVIOUS
<1>4. /\ Fields(line1) = more /\ NameSize \in Nat /\ NameSize > 1 /\ GroupsMax \in Nat /\ GroupsMax > 0
      /\ 0 \in 0 .. (NameSize - 1) /\ \A a : Filling(a, 0, <<>>)
  BY <1>2, <1>3, UserSizes, NameStarts
<1>5. Decimal(more[1]) = Decimal(fields[1]) /\ e.user_id = Decimal(fields[1])
  BY <1>1, <1>2 DEF EntryFilling
<1>6. CASE f = 0
  <2>1. e1 = e /\ m1 = m /\ k1 = k /\ m = 0 /\ k = 0 /\ e.group_count = 0
    BY <1>6 DEF Colons, EntryFilling
  <2>2. EntryFilling(line1, e1, f + 1, 0, m1, k1)
    BY <1>2, <1>4, <1>5, <1>6, <2>1 DEF EntryFilling
  <2>3. QED BY <1>3, <2>1, <2>2
<1>7. CASE f = 1
  <2>1. m1 = m /\ k1 = k /\ m = 0 /\ k = 0 /\ e.group_count = 0 /\ e1 = [e EXCEPT !.username[i] = End]
    BY <1>7 DEF Colons, EntryFilling
  <2>2. PICK name \in Cells : name = [e.username EXCEPT ![i] = End] /\ Read(name) = Short(fields[2])
    <3>1. e.username \in Cells /\ fields[2] \in Seq(Char) /\ Filling(e.username, i, fields[2])
      BY <1>1, <1>7 DEF EntryFilling, UserEntries
    <3>2. QED BY <3>1, NameEnds
  <2>3. e1 \in UserEntries /\ e1 = [e EXCEPT !.username = name]
    BY <2>1, <2>2, CharsAre, NamesWritten
  <2>4. e1.username = name /\ e1.user_id = e.user_id /\ e1.group_count = e.group_count
    BY <2>3 DEF UserEntries
  <2>5. more[2] = fields[2] /\ more[3] = <<>>
    BY <1>2, <1>7
  <2>6. EntryFilling(line1, e1, f + 1, 0, m1, k1)
    BY <1>2, <1>4, <1>5, <1>7, <2>1, <2>2, <2>4, <2>5 DEF EntryFilling
  <2>7. QED BY <1>3, <2>1, <2>3, <2>6
<1>8. CASE f = 2
  <2>1. m1 = m /\ k1 = k /\ m = 0 /\ k = 0 /\ e.group_count = 0 /\ e1 = [e EXCEPT !.password[i] = End]
    BY <1>8 DEF Colons, EntryFilling
  <2>2. PICK word \in Cells : word = [e.password EXCEPT ![i] = End] /\ Read(word) = Short(fields[3])
    <3>1. e.password \in Cells /\ fields[3] \in Seq(Char) /\ Filling(e.password, i, fields[3])
      BY <1>1, <1>8 DEF EntryFilling, UserEntries
    <3>2. QED BY <3>1, NameEnds
  <2>3. e1 \in UserEntries /\ e1 = [e EXCEPT !.password = word]
    BY <2>1, <2>2, CharsAre, NamesWritten
  <2>4. /\ e1.password = word /\ e1.user_id = e.user_id /\ e1.username = e.username
        /\ e1.group_count = e.group_count /\ e1.groups = e.groups
    BY <2>3 DEF UserEntries
  <2>5. more[2] = fields[2] /\ more[3] = fields[3] /\ more[4] = <<>> /\ Read(e.username) = Short(fields[2])
    BY <1>1, <1>2, <1>8 DEF EntryFilling
  <2>6. GroupsFilling(<<>>, e1, 0, 0)
    <3>1. Pieces(<<>>, CommaMark) = << <<>> >>
      BY PiecesGrow, CharsAre
    <3>2. Len(<< <<>> >>) = 1 /\ << <<>> >>[0 + 1] = <<>>
      OBVIOUS
    <3>3. e1.group_count = 0
      BY <2>1, <2>4
    <3>4. QED BY <1>4, <3>1, <3>2, <3>3 DEF GroupsFilling
  <2>7. EntryFilling(line1, e1, f + 1, 0, m1, k1)
    BY <1>2, <1>4, <1>5, <1>8, <2>1, <2>2, <2>4, <2>5, <2>6 DEF EntryFilling
  <2>8. QED BY <1>3, <2>1, <2>3, <2>7
<1>9. CASE f = 3
  <2>1. /\ more[2] = fields[2] /\ more[3] = fields[3] /\ more[4] = fields[4] /\ fields[4] \in Seq(Char)
        /\ Read(e.username) = Short(fields[2]) /\ Read(e.password) = Short(fields[3])
        /\ GroupsFilling(fields[4], e, m, k)
    BY <1>1, <1>2, <1>9 DEF EntryFilling
  <2>2. /\ GroupMayEnd(e1, e, m, k)
        /\ m1 \in 0 .. GroupsMax /\ k1 \in 0 .. (NameSize - 1)
    <3>1. CASE k > 0 /\ m < GroupsMax
      BY <1>4, <1>9, <3>1 DEF Colons, GroupMayEnd
    <3>2. CASE ~(k > 0 /\ m < GroupsMax)
      BY <1>9, <3>2 DEF Colons, GroupMayEnd
    <3>3. QED BY <3>1, <3>2
  <2>3. GroupsSaid(fields[4], e1) /\ e1 \in UserEntries
        /\ e1.user_id = e.user_id /\ e1.username = e.username /\ e1.password = e.password
    <3>1. PICK list \in Seq(Char) : list = fields[4] /\ GroupsFilling(list, e, m, k)
      BY <2>1
    <3>2. GroupsSaid(list, e1) /\ e1 \in UserEntries
          /\ e1.user_id = e.user_id /\ e1.username = e.username /\ e1.password = e.password
      BY <2>2, <3>1, GroupsEnd
    <3>3. QED BY <3>1, <3>2
  <2>4. EntryFilling(line1, e1, f + 1, 0, m1, k1)
    BY <1>2, <1>4, <1>5, <1>9, <2>1, <2>3 DEF EntryFilling
  <2>5. QED BY <1>3, <2>2, <2>3, <2>4
<1>10. CASE f > 3
  <2>1. e1 = e /\ m1 = m /\ k1 = k
    BY <1>10 DEF Colons
  <2>2. more[2] = fields[2] /\ more[3] = fields[3] /\ more[4] = fields[4]
    BY <1>2, <1>10
  <2>3. EntryFilling(line1, e1, f + 1, 0, m1, k1)
    BY <1>1, <1>2, <1>4, <1>5, <1>10, <2>1, <2>2 DEF EntryFilling
  <2>4. QED BY <1>3, <2>1, <2>3
<1>11. QED BY <1>6, <1>7, <1>8, <1>9, <1>10

\* What NameChar does.
Names(e, f, i, char, e1, i1) ==
  IF i < NameSize - 1
  THEN /\ IF f = 1 THEN e1 = [e EXCEPT !.username[i] = char] ELSE e1 = [e EXCEPT !.password[i] = char]
       /\ i1 = i + 1
  ELSE e1 = e /\ i1 = i

LEMMA NameCharGrows ==
  ASSUME NEW text \in Seq(Char), NEW e \in UserEntries, NEW f \in Nat, f = 1 \/ f = 2, NEW i \in 0 .. (NameSize - 1),
         NEW m, NEW k, EntryFilling(text, e, f, i, m, k),
         NEW char \in Char, char # ColonMark, NEW e1, NEW i1, Names(e, f, i, char, e1, i1)
  PROVE  /\ EntryFilling(Append(text, char), e1, f, i1, m, k)
         /\ e1 \in UserEntries /\ i1 \in 0 .. (NameSize - 1)
<1>1. PICK fields \in Seq(Seq(Char)) :
        fields = Fields(text) /\ Len(fields) = f + 1 /\ \A j \in 1 .. (f + 1) : fields[j] \in Seq(Char)
  BY FieldsGrow DEF EntryFilling
<1>2. PICK more :
        /\ more = Fields(Append(text, char)) /\ Len(more) = f + 1 /\ more[f + 1] = Append(fields[f + 1], char)
        /\ \A j \in 1 .. f : more[j] = fields[j]
  <2>1. Len(Fields(text)) = f + 1
    BY <1>1
  <2>2. QED BY <1>1, <2>1, FieldGrows
<1>3. PICK line1 : line1 = Append(text, char)
  OBVIOUS
<1>4. Fields(line1) = more /\ NameSize \in Nat /\ NameSize > 1
  BY <1>2, <1>3, UserSizes
<1>5. more[1] = fields[1] /\ e.user_id = Decimal(fields[1]) /\ m = 0 /\ k = 0 /\ e.group_count = 0
  BY <1>1, <1>2 DEF EntryFilling
<1>6. e.username \in Cells /\ e.password \in Cells
  BY DEF UserEntries
<1>7. PICK cells \in Cells, name \in Seq(Char) :
        /\ cells = IF f = 1 THEN e.username ELSE e.password
        /\ name = fields[f + 1] /\ Filling(cells, i, name)
  <2>1. CASE f = 1
    <3>1. fields[2] \in Seq(Char) /\ Filling(e.username, i, fields[2])
      BY <1>1, <2>1 DEF EntryFilling
    <3>2. QED BY <1>6, <2>1, <3>1
  <2>2. CASE f = 2
    <3>1. fields[3] \in Seq(Char) /\ Filling(e.password, i, fields[3])
      BY <1>1, <2>2 DEF EntryFilling
    <3>2. QED BY <1>6, <2>2, <3>1
  <2>3. QED BY <2>1, <2>2
<1>8. f = 2 => Read(e.username) = Short(fields[2]) /\ more[2] = fields[2]
  BY <1>1, <1>2 DEF EntryFilling
<1>9. CASE i < NameSize - 1
  <2>1. PICK longer \in Cells : longer = [cells EXCEPT ![i] = char] /\ Filling(longer, i + 1, Append(name, char))
    BY <1>7, <1>9, NameGrows
  <2>2. i1 = i + 1 /\ i1 \in 0 .. (NameSize - 1)
    BY <1>4, <1>9 DEF Names
  <2>3. CASE f = 1
    <3>1. e1 = [e EXCEPT !.username[i] = char]
      BY <1>9, <2>3 DEF Names
    <3>2. e1 \in UserEntries /\ e1 = [e EXCEPT !.username = longer]
      <4>1. [e EXCEPT !.username[i] = char] \in UserEntries
            /\ [e EXCEPT !.username[i] = char] = [e EXCEPT !.username = [e.username EXCEPT ![i] = char]]
        BY NamesWritten
      <4>2. cells = e.username
        BY <1>7, <2>3
      <4>3. QED BY <2>1, <3>1, <4>1, <4>2
    <3>3. e1.username = longer /\ e1.user_id = e.user_id /\ e1.group_count = e.group_count
      BY <3>2 DEF UserEntries
    <3>4. EntryFilling(line1, e1, f, i1, m, k)
      <4>1. Len(more) = 2 /\ more[2] = Append(name, char) /\ i1 = i + 1
        BY <1>2, <1>7, <2>2, <2>3
      <4>2. QED BY <1>4, <1>5, <2>1, <2>3, <3>3, <4>1 DEF EntryFilling
    <3>5. QED BY <1>3, <2>2, <3>2, <3>4
  <2>4. CASE f = 2
    <3>1. e1 = [e EXCEPT !.password[i] = char]
      BY <1>9, <2>4 DEF Names
    <3>2. e1 \in UserEntries /\ e1 = [e EXCEPT !.password = longer]
      <4>1. [e EXCEPT !.password[i] = char] \in UserEntries
            /\ [e EXCEPT !.password[i] = char] = [e EXCEPT !.password = [e.password EXCEPT ![i] = char]]
        BY NamesWritten
      <4>2. cells = e.password
        BY <1>7, <2>4
      <4>3. QED BY <2>1, <3>1, <4>1, <4>2
    <3>3. e1.password = longer /\ e1.username = e.username /\ e1.user_id = e.user_id /\ e1.group_count = e.group_count
      BY <3>2 DEF UserEntries
    <3>4. EntryFilling(line1, e1, f, i1, m, k)
      <4>1. Len(more) = 3 /\ more[3] = Append(name, char) /\ i1 = i + 1
        BY <1>2, <1>7, <2>2, <2>4
      <4>2. QED BY <1>4, <1>5, <1>8, <2>1, <2>4, <3>3, <4>1 DEF EntryFilling
    <3>5. QED BY <1>3, <2>2, <3>2, <3>4
  <2>5. QED BY <2>3, <2>4
<1>10. CASE ~(i < NameSize - 1)
  <2>1. e1 = e /\ i1 = i
    BY <1>10 DEF Names
  <2>2. Filling(cells, i, Append(name, char))
    BY <1>7, <1>10, NameGrows
  <2>3. EntryFilling(line1, e1, f, i1, m, k)
    <3>1. CASE f = 1
      <4>1. Len(more) = 2 /\ more[2] = Append(name, char) /\ cells = e.username
        BY <1>2, <1>7, <3>1
      <4>2. QED BY <1>4, <1>5, <2>1, <2>2, <3>1, <4>1 DEF EntryFilling
    <3>2. CASE f = 2
      <4>1. Len(more) = 3 /\ more[3] = Append(name, char) /\ cells = e.password
        BY <1>2, <1>7, <3>2
      <4>2. QED BY <1>4, <1>5, <1>8, <2>1, <2>2, <3>2, <4>1 DEF EntryFilling
    <3>3. QED BY <3>1, <3>2
  <2>4. QED BY <1>3, <2>1, <2>3
<1>11. QED BY <1>9, <1>10

\* In the list of groups, what is read of it grows.
LEMMA GroupCharGrows ==
  ASSUME NEW text \in Seq(Char), NEW e \in UserEntries, NEW i, NEW m \in 0 .. (GroupsMax - 1),
         NEW k \in 0 .. (NameSize - 1), EntryFilling(text, e, 3, i, m, k),
         NEW char \in Char, char # ColonMark, NEW e1, NEW m1, NEW k1,
         SameBut(e1, e), GroupsFilling(Append(Fields(text)[4], char), e1, m1, k1)
  PROVE  EntryFilling(Append(text, char), e1, 3, i, m1, k1)
<1>1. PICK fields \in Seq(Seq(Char)) :
        fields = Fields(text) /\ Len(fields) = 3 + 1 /\ \A j \in 1 .. (3 + 1) : fields[j] \in Seq(Char)
  BY FieldsGrow DEF EntryFilling
<1>2. PICK more :
        /\ more = Fields(Append(text, char)) /\ Len(more) = 3 + 1 /\ more[3 + 1] = Append(fields[3 + 1], char)
        /\ \A j \in 1 .. 3 : more[j] = fields[j]
  <2>1. PICK f \in Nat : f = 3 /\ Len(Fields(text)) = f + 1
    BY <1>1
  <2>2. PICK more : /\ more = Fields(Append(text, char)) /\ Len(more) = f + 1
                    /\ more[f + 1] = Append(Fields(text)[f + 1], char)
                    /\ \A j \in 1 .. f : more[j] = Fields(text)[j]
    BY <2>1, FieldGrows
  <2>3. QED BY <1>1, <2>1, <2>2
<1>3. /\ more[1] = fields[1] /\ more[2] = fields[2] /\ more[3] = fields[3] /\ more[4] = Append(fields[4], char)
  BY <1>2
<1>4. /\ e.user_id = Decimal(fields[1]) /\ Read(e.username) = Short(fields[2])
      /\ Read(e.password) = Short(fields[3])
  BY <1>1 DEF EntryFilling
<1>5. QED BY <1>1, <1>2, <1>3, <1>4 DEF EntryFilling, SameBut

\* What OtherChar does.
Others(e, f, char, e1) ==
  IF f = 0 /\ char \in DOMAIN Digit THEN e1 = [e EXCEPT !.user_id = @ * 10 + Digit[char]] ELSE e1 = e

LEMMA OtherCharGrows ==
  ASSUME NEW text \in Seq(Char), NEW e \in UserEntries, NEW f \in Nat, f \notin {1, 2, 3}, NEW i,
         NEW m, NEW k, EntryFilling(text, e, f, i, m, k),
         NEW char \in Char, char # ColonMark, NEW e1, Others(e, f, char, e1)
  PROVE  EntryFilling(Append(text, char), e1, f, i, m, k) /\ e1 \in UserEntries
<1>1. PICK fields \in Seq(Seq(Char)) :
        fields = Fields(text) /\ Len(fields) = f + 1 /\ \A j \in 1 .. (f + 1) : fields[j] \in Seq(Char)
  BY FieldsGrow DEF EntryFilling
<1>2. PICK more :
        /\ more = Fields(Append(text, char)) /\ Len(more) = f + 1 /\ more[f + 1] = Append(fields[f + 1], char)
        /\ \A j \in 1 .. f : more[j] = fields[j]
  <2>1. Len(Fields(text)) = f + 1
    BY <1>1
  <2>2. QED BY <1>1, <2>1, FieldGrows
<1>3. PICK line1 : line1 = Append(text, char)
  OBVIOUS
<1>4. e.user_id = Decimal(fields[1])
  BY <1>1 DEF EntryFilling
<1>5. CASE f = 0
  <2>1. more[1] = Append(fields[1], char) /\ fields[1] \in Seq(Char) /\ Len(more) = 1
    BY <1>1, <1>2, <1>5
  <2>2. PICK number \in Nat : number = Decimal(more[1]) /\ number = Read10(e.user_id, char)
    <3>1. Append(fields[1], char) \in Seq(Char)
      BY <2>1, Appended
    <3>2. QED BY <1>4, <2>1, <3>1, DecimalGrows
  <2>3. m = 0 /\ k = 0 /\ e.group_count = 0
    BY <1>5 DEF EntryFilling
  <2>4. e1 \in UserEntries /\ e1.user_id = number /\ e1.group_count = e.group_count
    <3>1. CASE char \in DOMAIN Digit
      <4>1. e1 = [e EXCEPT !.user_id = number]
        BY <1>5, <2>2, <3>1 DEF Others, Read10, UserEntries
      <4>2. QED BY <4>1 DEF UserEntries
    <3>2. CASE char \notin DOMAIN Digit
      BY <1>5, <2>2, <3>2 DEF Others, Read10
    <3>3. QED BY <3>1, <3>2
  <2>5. EntryFilling(line1, e1, f, i, m, k)
    BY <1>2, <1>3, <1>5, <2>1, <2>2, <2>3, <2>4 DEF EntryFilling
  <2>6. QED BY <1>3, <2>4, <2>5
<1>6. CASE f # 0
  <2>1. e1 = e /\ f > 3
    BY <1>6 DEF Others
  <2>2. more[1] = fields[1] /\ more[2] = fields[2] /\ more[3] = fields[3] /\ more[4] = fields[4]
    BY <1>2, <2>1
  <2>3. EntryFilling(line1, e1, f, i, m, k)
    BY <1>1, <1>2, <1>3, <1>6, <2>1, <2>2 DEF EntryFilling
  <2>4. QED BY <1>3, <2>1, <2>3
<1>7. QED BY <1>5, <1>6

\* At the end of a complete line the entry says what the line says.
LEMMA EntryEnds ==
  ASSUME NEW text \in Seq(Char), NEW e \in UserEntries, NEW f \in Nat, NEW i, NEW m \in 0 .. GroupsMax,
         NEW k \in 0 .. (NameSize - 1), EntryFilling(text, e, f, i, m, k),
         NEW e1, f = 3 => GroupMayEnd(e1, e, m, k), f # 3 => e1 = e
  PROVE  (Complete(text) => Says(text, e1)) /\ e1 \in UserEntries
<1>1. PICK fields \in Seq(Seq(Char)) :
        fields = Fields(text) /\ Len(fields) = f + 1 /\ \A j \in 1 .. (f + 1) : fields[j] \in Seq(Char)
  BY FieldsGrow DEF EntryFilling
<1>2. Complete(text) <=> f >= 3
  BY <1>1 DEF Complete
<1>3. e.user_id = Decimal(fields[1])
  BY <1>1 DEF EntryFilling
<1>4. CASE f = 3
  <2>1. PICK list \in Seq(Char) : list = fields[4] /\ GroupsFilling(list, e, m, k)
    BY <1>1, <1>4 DEF EntryFilling
  <2>2. Read(e.username) = Short(fields[2]) /\ Read(e.password) = Short(fields[3])
    BY <1>1, <1>4 DEF EntryFilling
  <2>3. GroupsSaid(list, e1) /\ e1 \in UserEntries
        /\ e1.user_id = e.user_id /\ e1.username = e.username /\ e1.password = e.password
    BY <1>4, <2>1, GroupsEnd
  <2>4. QED BY <1>1, <1>3, <2>1, <2>2, <2>3 DEF Says, GroupsSaid, GroupsOf
<1>5. CASE f > 3
  <2>1. e1 = e
    BY <1>5
  <2>2. /\ Read(e.username) = Short(fields[2]) /\ Read(e.password) = Short(fields[3])
        /\ GroupsSaid(fields[4], e)
    BY <1>1, <1>5 DEF EntryFilling
  <2>3. QED BY <1>1, <1>3, <2>1, <2>2 DEF Says, GroupsSaid, GroupsOf
<1>6. CASE f < 3
  BY <1>2, <1>6
<1>7. QED BY <1>4, <1>5, <1>6

-----------------------------------------------------------------------------
(* The pass over the text, step by step *)

\* One piece more of a text is read: the pieces in front stay, the last one has one character more.
Grown(more, lines, char) ==
  /\ Len(more) = Len(lines)
  /\ \A k \in 1 .. (Len(lines) - 1) : more[k] = lines[k]
  /\ more[Len(lines)] = Append(lines[Len(lines)], char)

LEMMA LinesGrow ==
  ASSUME buf \in Seq(Char), pos \in 0 .. Len(buf)
  PROVE  /\ LinesRead \in Seq(Seq(Char)) /\ Len(LinesRead) > 0
         /\ LinesRead[Len(LinesRead)] \in Seq(Char)
         /\ pos < Len(buf) =>
              /\ c \in Char
              /\ Pieces(SubSeq(buf, 1, pos + 1), Newline) = Longer(LinesRead, c, Newline)
              /\ c # Newline => Grown(Pieces(SubSeq(buf, 1, pos + 1), Newline), LinesRead, c)
<1>1. PICK text : text = SubSeq(buf, 1, pos) /\ text \in Seq(Char)
  BY ReadUpTo
<1>2. LinesRead = Pieces(text, Newline) /\ Newline \in Char
  BY <1>1, CharsAre DEF LinesRead
<1>3. LinesRead \in Seq(Seq(Char)) /\ Len(LinesRead) > 0
  BY <1>1, <1>2, PiecesGrow
<1>4. LinesRead[Len(LinesRead)] \in Seq(Char)
  <2>1. PICK lines \in Seq(Seq(Char)) : lines = LinesRead /\ Len(lines) > 0
    BY <1>3
  <2>2. lines[Len(lines)] \in Seq(Char)
    BY <2>1
  <2>3. QED BY <2>1, <2>2
<1>5. ASSUME pos < Len(buf)
      PROVE  /\ c \in Char
             /\ Pieces(SubSeq(buf, 1, pos + 1), Newline) = Longer(LinesRead, c, Newline)
             /\ c # Newline => Grown(Pieces(SubSeq(buf, 1, pos + 1), Newline), LinesRead, c)
  <2>1. PICK m \in 1 .. Len(buf) : m = pos + 1 /\ m - 1 = pos
    BY <1>5
  <2>2. buf[m] \in Char /\ SubSeq(buf, 1, m) = Append(SubSeq(buf, 1, m - 1), buf[m])
    BY ReadUpTo
  <2>3. c \in Char /\ SubSeq(buf, 1, pos + 1) = Append(text, c)
    BY <1>1, <2>1, <2>2 DEF c
  <2>4. Pieces(SubSeq(buf, 1, pos + 1), Newline) = Longer(LinesRead, c, Newline)
    BY <1>1, <1>2, <2>3, PiecesGrow
  <2>5. c # Newline => Grown(Longer(LinesRead, c, Newline), LinesRead, c)
    <3>1. PICK lines \in Seq(Seq(Char)) : lines = LinesRead /\ Len(lines) > 0
      BY <1>3
    <3>2. PICK char \in Char : char = c
      BY <2>3
    <3>3. char # Newline => Grown(Longer(lines, char, Newline), lines, char)
      <4>1. SUFFICES ASSUME char # Newline PROVE Grown(Longer(lines, char, Newline), lines, char)
        OBVIOUS
      <4>2. QED BY <1>2, <3>1, <4>1, LongerByOne, Zenon DEF Grown
    <3>4. QED BY <3>1, <3>2, <3>3
  <2>6. QED BY <2>3, <2>4, <2>5
<1>6. QED BY <1>3, <1>4, <1>5

\* Of the table, the entry that is being filled is written and no other.
Written(e) ==
  /\ users' \in [1 .. UsersMax -> UserEntries]
  /\ users'[out_count + 1] = e
  /\ \A k \in 1 .. UsersMax : k # out_count + 1 => users'[k] = users[k]

LEMMA EntryWritten ==
  ASSUME users \in [1 .. UsersMax -> UserEntries], out_count + 1 \in 1 .. UsersMax
  PROVE  /\ ue \in UserEntries
         /\ \A e \in UserEntries : Entry(e) => Written(e)
         /\ UNCHANGED users => Written(ue)
BY DEF Entry, Written, ue

\* A character of a line is read.
LEMMA CharRead ==
  ASSUME UsersInv, InLine, NextChar, parse' = "chars", NEW e1, Written(e1),
         field' \in Nat, char_i' \in 0 .. (NameSize - 1),
         group_i' \in 0 .. GroupsMax, group_char_i' \in 0 .. (NameSize - 1),
         EntryFilling(Append(LinesRead[out_count + 1], c), e1, field', char_i', group_i', group_char_i')
  PROVE  UsersInv'
<1>1. /\ buf \in Seq(Char) /\ pos \in 0 .. Len(buf) /\ pos < Len(buf) /\ c # Newline
      /\ out_count \in 0 .. UsersMax /\ out_count < UsersMax /\ out_count + 1 = Len(LinesRead)
      /\ EntriesSay(LinesRead)
  BY DEF UsersInv, UserTypes, InLine, c
<1>2. buf' = buf /\ pos' = pos + 1 /\ out_count' = out_count
  BY DEF NextChar
<1>3. PICK lines : lines = LinesRead /\ lines \in Seq(Seq(Char)) /\ Len(lines) > 0 /\ out_count + 1 = Len(lines)
  BY <1>1, LinesGrow
<1>4. PICK more : more = LinesRead' /\ Grown(more, lines, c)
  BY <1>1, <1>2, <1>3, LinesGrow DEF LinesRead
<1>5. UserTypes'
  BY <1>1, <1>2 DEF UserTypes, Written
<1>6. EntriesSay(LinesRead)'
  <2>1. \A k \in 1 .. out_count : more[k] = lines[k] /\ users'[k] = users[k]
    <3>1. \A k \in 1 .. (Len(lines) - 1) : more[k] = lines[k]
      BY <1>4 DEF Grown
    <3>2. \A k \in 1 .. UsersMax : k # out_count + 1 => users'[k] = users[k]
      BY DEF Written
    <3>3. Len(lines) - 1 = out_count /\ \A k \in 1 .. out_count : k \in 1 .. UsersMax /\ k # out_count + 1
      BY <1>1, <1>3, UserSizes
    <3>4. QED BY <3>1, <3>2, <3>3
  <2>2. \A k \in 1 .. out_count : Complete(lines[k]) => Says(lines[k], users[k])
    BY <1>1, <1>3 DEF EntriesSay
  <2>3. \A k \in 1 .. out_count : Complete(more[k]) => Says(more[k], users'[k])
    BY <2>1, <2>2
  <2>4. QED BY <1>2, <1>4, <2>3 DEF EntriesSay
<1>7. Len(more) = out_count + 1 /\ more[out_count + 1] = Append(lines[out_count + 1], c)
  BY <1>3, <1>4 DEF Grown
<1>8. more[out_count + 1] # <<>>
  <2>1. PICK last \in Seq(Char) : last = lines[out_count + 1]
    BY <1>1, <1>3, LinesGrow
  <2>2. PICK char \in Char : char = c
    BY <1>1, LinesGrow
  <2>3. Append(last, char) # <<>>
    BY Appended
  <2>4. QED BY <1>7, <2>1, <2>2, <2>3
<1>9. EntryFilling(more[out_count + 1], e1, field', char_i', group_i', group_char_i')
  BY <1>3, <1>7
<1>10. ue' = e1
  BY <1>2 DEF ue, Written
<1>11. EntryFilling(LinesRead[out_count + 1], ue, field, char_i, group_i, group_char_i)'
  BY <1>2, <1>4, <1>9, <1>10
<1>12. QED
  BY <1>1, <1>2, <1>4, <1>5, <1>6, <1>7, <1>8, <1>11 DEF UsersInv

\* What a name, a field or an entry in hand is made of, while the pass is in a line.
InLineFacts ==
  /\ UserTypes /\ parse = "chars" /\ pos < Len(buf) /\ c \in Char /\ c # Newline
  /\ out_count + 1 \in 1 .. UsersMax /\ out_count + 1 = Len(LinesRead)
  /\ LinesRead[out_count + 1] \in Seq(Char) /\ ue \in UserEntries
  /\ EntryFilling(LinesRead[out_count + 1], ue, field, char_i, group_i, group_char_i)

LEMMA InLineIs == UsersInv /\ InLine => InLineFacts
<1> SUFFICES ASSUME UsersInv, InLine PROVE InLineFacts
  OBVIOUS
<1>1. UserTypes /\ parse = "chars" /\ pos < Len(buf) /\ c # Newline
  BY DEF UsersInv, InLine, c
<1>2. /\ out_count < UsersMax /\ out_count + 1 = Len(LinesRead)
      /\ EntryFilling(LinesRead[out_count + 1], ue, field, char_i, group_i, group_char_i)
  BY <1>1 DEF UsersInv
<1>3. out_count + 1 \in 1 .. UsersMax
  BY <1>1, <1>2, UserSizes DEF UserTypes
<1>4. c \in Char /\ LinesRead[out_count + 1] \in Seq(Char)
  BY <1>1, <1>2, LinesGrow DEF UserTypes
<1>5. ue \in UserEntries
  BY <1>1, <1>3, EntryWritten DEF UserTypes
<1>6. QED BY <1>1, <1>2, <1>3, <1>4, <1>5 DEF InLineFacts

LEMMA ColonRead == UsersInv /\ Colon => UsersInv'
<1> SUFFICES ASSUME UsersInv, Colon PROVE UsersInv'
  OBVIOUS
<1>1. InLine /\ NextChar /\ parse' = parse /\ c = ColonMark /\ char_i' = 0 /\ field' = field + 1
  BY DEF Colon
<1>2. InLineFacts
  BY <1>1, InLineIs
<1>3. /\ field \in Nat /\ char_i \in 0 .. (NameSize - 1) /\ group_i \in 0 .. GroupsMax
      /\ group_char_i \in 0 .. (NameSize - 1) /\ users \in [1 .. UsersMax -> UserEntries]
  BY <1>2 DEF InLineFacts, UserTypes
<1>4. PICK e \in UserEntries : e = ue
  BY <1>2 DEF InLineFacts
<1>5. PICK e1 : Written(e1) /\ Colons(e, field, char_i, group_i, group_char_i, e1, group_i', group_char_i')
  <2>1. CASE field = 3 /\ group_char_i > 0 /\ group_i < GroupsMax
    <3>1. Entry(Ended(ue)) /\ group_i' = group_i + 1 /\ group_char_i' = 0
      BY <2>1 DEF Colon, EndGroup
    <3>2. group_i \in 0 .. (GroupsMax - 1)
      BY <1>3, <2>1, UserSizes
    <3>3. PICK e1 : e1 = Ended(e)
               /\ GroupSet(e1, e, group_i, [e.groups[group_i] EXCEPT ![group_char_i] = End], e.group_count + 1)
      BY <1>3, <3>2, GroupWritten, CharsAre DEF Ended
    <3>4. Written(e1)
      BY <1>2, <1>3, <1>4, <3>1, <3>3, EntryWritten DEF InLineFacts, GroupSet
    <3>5. QED BY <2>1, <3>1, <3>3, <3>4 DEF Colons
  <2>2. CASE ~(field = 3 /\ group_char_i > 0 /\ group_i < GroupsMax)
    <3>1. /\ group_i' = group_i /\ group_char_i' = group_char_i
          /\ field = 1 => Entry([ue EXCEPT !.username[char_i] = End])
          /\ field = 2 => Entry([ue EXCEPT !.password[char_i] = End])
          /\ field # 1 /\ field # 2 => UNCHANGED users
      BY <1>3, <2>2 DEF Colon
    <3>2. PICK e1 \in UserEntries :
            /\ field = 1 => e1 = [e EXCEPT !.username[char_i] = End]
            /\ field = 2 => e1 = [e EXCEPT !.password[char_i] = End]
            /\ field # 1 /\ field # 2 => e1 = e
      <4>1. /\ [e EXCEPT !.username[char_i] = End] \in UserEntries
            /\ [e EXCEPT !.password[char_i] = End] \in UserEntries
        BY <1>3, NamesWritten, CharsAre
      <4>2. CASE field = 1
        BY <4>1, <4>2
      <4>3. CASE field = 2
        BY <4>1, <4>3
      <4>4. CASE field # 1 /\ field # 2
        BY <4>4
      <4>5. QED BY <4>2, <4>3, <4>4
    <3>3. Written(e1)
      BY <1>2, <1>3, <1>4, <3>1, <3>2, EntryWritten DEF InLineFacts
    <3>4. Colons(e, field, char_i, group_i, group_char_i, e1, group_i', group_char_i')
      BY <1>3, <2>2, <3>1, <3>2 DEF Colons
    <3>5. QED BY <3>3, <3>4
  <2>3. QED BY <2>1, <2>2
<1>6. PICK text \in Seq(Char) : text = LinesRead[out_count + 1]
        /\ EntryFilling(text, e, field, char_i, group_i, group_char_i)
  BY <1>2, <1>4 DEF InLineFacts
<1>7. /\ EntryFilling(Append(text, ColonMark), e1, field + 1, 0, group_i', group_char_i')
      /\ group_i' \in 0 .. GroupsMax /\ group_char_i' \in 0 .. (NameSize - 1)
  BY <1>3, <1>5, <1>6, ColonGrows
<1>8. parse' = "chars" /\ field' \in Nat /\ char_i' \in 0 .. (NameSize - 1)
  BY <1>1, <1>2, <1>3, UserSizes DEF InLineFacts
<1>9. QED BY <1>1, <1>5, <1>6, <1>7, <1>8, CharRead

LEMMA CommaRead == UsersInv /\ Comma => UsersInv'
<1> SUFFICES ASSUME UsersInv, Comma PROVE UsersInv'
  OBVIOUS
<1>1. /\ InLine /\ NextChar /\ parse' = parse /\ c = CommaMark /\ field = 3 /\ group_i < GroupsMax
      /\ field' = field /\ char_i' = char_i
      /\ Entry(Ended(ue)) /\ group_i' = group_i + 1 /\ group_char_i' = 0
  BY DEF Comma, EndGroup
<1>2. InLineFacts
  BY <1>1, InLineIs
<1>3. /\ field \in Nat /\ char_i \in 0 .. (NameSize - 1) /\ group_i \in 0 .. (GroupsMax - 1)
      /\ group_char_i \in 0 .. (NameSize - 1) /\ users \in [1 .. UsersMax -> UserEntries]
  BY <1>1, <1>2, UserSizes DEF InLineFacts, UserTypes
<1>4. PICK e \in UserEntries, text \in Seq(Char) :
        /\ e = ue /\ text = LinesRead[out_count + 1]
        /\ EntryFilling(text, e, 3, char_i, group_i, group_char_i)
  BY <1>1, <1>2 DEF InLineFacts
<1>5. PICK e1 : e1 = Ended(e)
           /\ GroupSet(e1, e, group_i, [e.groups[group_i] EXCEPT ![group_char_i] = End], e.group_count + 1)
  BY <1>3, GroupWritten, CharsAre DEF Ended
<1>6. Written(e1) /\ SameBut(e1, e)
  BY <1>1, <1>2, <1>3, <1>4, <1>5, EntryWritten DEF InLineFacts, GroupSet, SameBut
<1>7. PICK list \in Seq(Char) : list = Fields(text)[4] /\ GroupsFilling(list, e, group_i, group_char_i)
  <2>1. PICK f \in Nat : f = 3 /\ Len(Fields(text)) = f + 1
    BY <1>4 DEF EntryFilling
  <2>2. Fields(text)[4] \in Seq(Char)
    <3>1. 4 \in 1 .. (f + 1)
      BY <2>1
    <3>2. \A j \in 1 .. (f + 1) : Fields(text)[j] \in Seq(Char)
      BY <2>1, FieldsGrow, Zenon
    <3>3. QED BY <3>1, <3>2, Zenon
  <2>3. QED BY <1>4, <2>2 DEF EntryFilling
<1>8. GroupsFilling(Append(list, CommaMark), e1, group_i', group_char_i')
  BY <1>1, <1>3, <1>5, <1>7, GroupsComma
<1>9. EntryFilling(Append(text, CommaMark), e1, 3, char_i, group_i', group_char_i')
  BY <1>3, <1>4, <1>6, <1>7, <1>8, GroupCharGrows, CharsAre
<1>10. /\ parse' = "chars" /\ field' \in Nat /\ char_i' \in 0 .. (NameSize - 1)
       /\ group_i' \in 0 .. GroupsMax /\ group_char_i' \in 0 .. (NameSize - 1)
  BY <1>1, <1>2, <1>3, UserSizes DEF InLineFacts
<1>11. EntryFilling(Append(LinesRead[out_count + 1], c), e1, field', char_i', group_i', group_char_i')
  BY <1>1, <1>4, <1>9
<1>12. QED BY <1>1, <1>6, <1>10, <1>11, CharRead

LEMMA NameCharRead == UsersInv /\ NameChar => UsersInv'
<1> SUFFICES ASSUME UsersInv, NameChar PROVE UsersInv'
  OBVIOUS
<1>1. /\ InLine /\ NextChar /\ parse' = parse /\ c # ColonMark /\ (field = 1 \/ field = 2)
      /\ field' = field /\ group_i' = group_i /\ group_char_i' = group_char_i
      /\ IF char_i < NameSize - 1
         THEN /\ IF field = 1 THEN Entry([ue EXCEPT !.username[char_i] = c])
                 ELSE Entry([ue EXCEPT !.password[char_i] = c])
              /\ char_i' = char_i + 1
         ELSE UNCHANGED <<users, char_i>>
  BY DEF NameChar
<1>2. InLineFacts
  BY <1>1, InLineIs
<1>3. /\ field \in Nat /\ char_i \in 0 .. (NameSize - 1) /\ group_i \in 0 .. GroupsMax
      /\ group_char_i \in 0 .. (NameSize - 1) /\ users \in [1 .. UsersMax -> UserEntries]
  BY <1>1, <1>2 DEF InLineFacts, UserTypes
<1>4. PICK e \in UserEntries, text \in Seq(Char), char \in Char :
        /\ e = ue /\ text = LinesRead[out_count + 1] /\ char = c
        /\ EntryFilling(text, e, field, char_i, group_i, group_char_i)
  BY <1>2 DEF InLineFacts
<1>5. PICK e1 \in UserEntries : Written(e1) /\ Names(e, field, char_i, char, e1, char_i')
  <2>1. CASE char_i < NameSize - 1
    <3>1. PICK e1 \in UserEntries : e1 = IF field = 1 THEN [e EXCEPT !.username[char_i] = char]
                                         ELSE [e EXCEPT !.password[char_i] = char]
      BY <1>3, <1>4, NamesWritten
    <3>2. Written(e1)
      BY <1>1, <1>2, <1>3, <1>4, <2>1, <3>1, EntryWritten DEF InLineFacts
    <3>3. Names(e, field, char_i, char, e1, char_i')
      BY <1>1, <2>1, <3>1 DEF Names
    <3>4. QED BY <3>2, <3>3
  <2>2. CASE ~(char_i < NameSize - 1)
    BY <1>1, <1>2, <1>3, <1>4, <2>2, EntryWritten DEF InLineFacts, Names
  <2>3. QED BY <2>1, <2>2
<1>6. /\ EntryFilling(Append(text, char), e1, field, char_i', group_i, group_char_i)
      /\ char_i' \in 0 .. (NameSize - 1)
  BY <1>1, <1>3, <1>4, <1>5, NameCharGrows
<1>7. /\ parse' = "chars" /\ field' \in Nat
      /\ group_i' \in 0 .. GroupsMax /\ group_char_i' \in 0 .. (NameSize - 1)
  BY <1>1, <1>2, <1>3 DEF InLineFacts
<1>8. EntryFilling(Append(LinesRead[out_count + 1], c), e1, field', char_i', group_i', group_char_i')
  BY <1>1, <1>4, <1>6
<1>9. QED BY <1>1, <1>5, <1>6, <1>7, <1>8, CharRead

LEMMA OtherCharRead == UsersInv /\ OtherChar => UsersInv'
<1> SUFFICES ASSUME UsersInv, OtherChar PROVE UsersInv'
  OBVIOUS
<1>1. /\ InLine /\ NextChar /\ parse' = parse /\ c # ColonMark /\ field \notin {1, 2, 3}
      /\ field' = field /\ char_i' = char_i /\ group_i' = group_i /\ group_char_i' = group_char_i
      /\ IF field = 0 /\ c \in DOMAIN Digit
         THEN Entry([ue EXCEPT !.user_id = @ * 10 + Digit[c]])
         ELSE UNCHANGED users
  BY DEF OtherChar, lineVars
<1>2. InLineFacts
  BY <1>1, InLineIs
<1>3. /\ field \in Nat /\ char_i \in 0 .. (NameSize - 1) /\ group_i \in 0 .. GroupsMax
      /\ group_char_i \in 0 .. (NameSize - 1) /\ users \in [1 .. UsersMax -> UserEntries]
  BY <1>1, <1>2 DEF InLineFacts, UserTypes
<1>4. PICK e \in UserEntries, text \in Seq(Char), char \in Char :
        /\ e = ue /\ text = LinesRead[out_count + 1] /\ char = c
        /\ EntryFilling(text, e, field, char_i, group_i, group_char_i)
  BY <1>2 DEF InLineFacts
<1>5. PICK e1 : e1 = (IF field = 0 /\ char \in DOMAIN Digit THEN [e EXCEPT !.user_id = @ * 10 + Digit[char]] ELSE e)
  OBVIOUS
<1>6. Others(e, field, char, e1)
  BY <1>5 DEF Others
<1>7. EntryFilling(Append(text, char), e1, field, char_i, group_i, group_char_i) /\ e1 \in UserEntries
  BY <1>1, <1>3, <1>4, <1>6, OtherCharGrows
<1>8. Written(e1)
  BY <1>1, <1>2, <1>3, <1>4, <1>5, <1>7, EntryWritten DEF InLineFacts
<1>9. /\ parse' = "chars" /\ field' \in Nat /\ char_i' \in 0 .. (NameSize - 1)
      /\ group_i' \in 0 .. GroupsMax /\ group_char_i' \in 0 .. (NameSize - 1)
  BY <1>1, <1>2, <1>3 DEF InLineFacts
<1>10. EntryFilling(Append(LinesRead[out_count + 1], c), e1, field', char_i', group_i', group_char_i')
  BY <1>1, <1>4, <1>7
<1>11. QED BY <1>1, <1>8, <1>9, <1>10, CharRead

\* A character behind the last group: there is one group too many in that line.
LEMMA TooMany ==
  ASSUME NEW text \in Seq(Char), NEW e, NEW i, NEW k, EntryFilling(text, e, 3, i, GroupsMax, k),
         NEW char \in Char, char # ColonMark, NEW whole \in Seq(Char), Starts(Append(text, char), whole)
  PROVE  whole # <<>> /\ Complete(whole) /\ Len(GroupsOf(whole)) > GroupsMax
<1>1. PICK text1 \in Seq(Char) : text1 = Append(text, char) /\ Len(text1) > 0
  <2>1. Append(text, char) \in Seq(Char) /\ Len(Append(text, char)) = Len(text) + 1
    BY Appended
  <2>2. Len(text) \in Nat
    OBVIOUS
  <2>3. Len(Append(text, char)) > 0
    BY <2>1, <2>2
  <2>4. QED BY <2>1, <2>3, Zenon
<1>2. PICK f \in Nat : f = 3 /\ Len(Fields(text)) = f + 1
  BY DEF EntryFilling
<1>3. PICK list \in Seq(Char), more \in Seq(Seq(Char)) :
        /\ list = Fields(text)[4] /\ more = Fields(text1) /\ Len(more) = 4 /\ more[4] = Append(list, char)
  <2>1. Fields(text)[4] \in Seq(Char)
    <3>1. 4 \in 1 .. (f + 1)
      BY <1>2
    <3>2. \A j \in 1 .. (f + 1) : Fields(text)[j] \in Seq(Char)
      BY <1>2, FieldsGrow, Zenon
    <3>3. QED BY <3>1, <3>2, Zenon
  <2>2. PICK more : /\ more = Fields(Append(text, char)) /\ Len(more) = f + 1
                    /\ more[f + 1] = Append(Fields(text)[f + 1], char)
                    /\ \A j \in 1 .. f : more[j] = Fields(text)[j]
    BY <1>2, FieldGrows
  <2>3. more \in Seq(Seq(Char))
    BY <1>1, <2>2, PiecesGrow, CharsAre DEF Fields
  <2>4. QED BY <1>1, <1>2, <2>1, <2>2, <2>3
<1>4. PICK fields \in Seq(Seq(Char)) : fields = Fields(whole) /\ PiecesStart(more, fields)
  <2>1. PiecesStart(Fields(text1), Fields(whole))
    BY <1>1, PiecesOfStart, CharsAre DEF Fields
  <2>2. Fields(whole) \in Seq(Seq(Char))
    BY PiecesGrow, CharsAre DEF Fields
  <2>3. QED BY <1>3, <2>1, <2>2
<1>5. Len(fields) >= 4 /\ Starts(more[4], fields[4]) /\ fields[4] \in Seq(Char)
  BY <1>3, <1>4 DEF PiecesStart
<1>6. PICK list1 \in Seq(Char), list2 \in Seq(Char) :
        list1 = Append(list, char) /\ list2 = fields[4] /\ Starts(list1, list2)
  BY <1>3, <1>5, Appended
<1>7. PICK groups \in Seq(Seq(Char)) :
        groups = Pieces(list, CommaMark) /\ Len(groups) = GroupsMax + 1 /\ groups[GroupsMax + 1] = <<>>
  <2>1. GroupsFilling(list, e, GroupsMax, k)
    BY <1>3 DEF EntryFilling
  <2>2. QED BY <1>3, <2>1, PiecesGrow, CharsAre DEF GroupsFilling
<1>8. PICK groups1 \in Seq(Seq(Char)), groups2 \in Seq(Seq(Char)) :
        /\ groups1 = Pieces(list1, CommaMark) /\ groups2 = Pieces(list2, CommaMark)
        /\ groups1 = Longer(groups, char, CommaMark) /\ PiecesStart(groups1, groups2) /\ Len(groups2) > 0
  <2>1. PiecesStart(Pieces(list1, CommaMark), Pieces(list2, CommaMark))
    BY <1>6, PiecesOfStart, CharsAre
  <2>2. Pieces(list1, CommaMark) \in Seq(Seq(Char))
    BY PiecesGrow, CharsAre
  <2>3. Pieces(list2, CommaMark) \in Seq(Seq(Char)) /\ Len(Pieces(list2, CommaMark)) > 0
    BY PiecesGrow, CharsAre
  <2>4. Pieces(list1, CommaMark) = Longer(groups, char, CommaMark)
    BY <1>6, <1>7, PiecesGrow, CharsAre
  <2>5. QED BY <2>1, <2>2, <2>3, <2>4
<1>9. Len(Ending(groups2)) > GroupsMax
  <2>1. PICK size \in Nat, most \in Nat : size = Len(groups2) /\ most = GroupsMax
    BY UserSizes
  <2>2. Len(Ending(groups2)) = IF groups2[size] = <<>> THEN size - 1 ELSE size
    BY <1>8, <2>1, EndingIs
  <2>3. Len(groups1) <= size /\ Len(groups) = most + 1 /\ Len(groups) > 0
    <3>1. Len(groups1) <= Len(groups2)
      BY <1>8, Zenon DEF PiecesStart
    <3>2. QED BY <1>7, <2>1, <3>1
  <2>4. CASE char = CommaMark
    <3>1. Len(Longer(groups, CommaMark, CommaMark)) = Len(groups) + 1
      BY <2>3, LongerBySeparator, CharsAre, Zenon
    <3>2. Len(groups1) = Len(groups) + 1
      BY <1>8, <2>4, <3>1, Zenon
    <3>3. size - 1 > most /\ size > most
      BY <2>3, <3>2
    <3>4. QED BY <2>1, <2>2, <3>3, Zenon
  <2>5. CASE char # CommaMark
    <3>1. Len(groups1) = Len(groups) /\ groups1[Len(groups)] = Append(groups[Len(groups)], char)
      <4>1. /\ Len(Longer(groups, char, CommaMark)) = Len(groups)
            /\ Longer(groups, char, CommaMark)[Len(groups)] = Append(groups[Len(groups)], char)
        BY <2>3, <2>5, LongerByOne, CharsAre, Zenon
      <4>2. QED BY <1>8, <4>1
    <3>2. Len(groups1) = most + 1 /\ groups1[most + 1] = Append(<<>>, char)
      BY <1>7, <2>1, <2>3, <3>1, Zenon
    <3>3. size = most + 1 => groups2[size] # <<>>
      <4>1. SUFFICES ASSUME size = most + 1, groups2[size] = <<>> PROVE FALSE
        OBVIOUS
      <4>2. Starts(groups1[most + 1], groups2[most + 1])
        BY <1>8, <3>2, Zenon DEF PiecesStart
      <4>3. Starts(Append(<<>>, char), <<>>)
        BY <3>2, <4>1, <4>2, Zenon
      <4>4. Len(Append(<<>>, char)) <= Len(<<>>) /\ Len(<<>>) = 0
        BY <4>3 DEF Starts
      <4>5. Len(Append(<<>>, char)) = 1
        BY Appended
      <4>6. QED BY <4>4, <4>5
    <3>4. size = most + 1 \/ (size - 1 > most /\ size > most)
      BY <2>3, <3>2
    <3>5. size = most + 1 => size > most
      OBVIOUS
    <3>6. QED BY <2>1, <2>2, <3>3, <3>4, <3>5, Zenon
  <2>6. QED BY <2>4, <2>5
<1>10. whole # <<>>
  BY <1>1 DEF Starts
<1>11. QED BY <1>4, <1>5, <1>6, <1>8, <1>9, <1>10 DEF Complete, GroupsOf

LEMMA GroupCharRead == UsersInv /\ GroupChar => UsersInv'
<1> SUFFICES ASSUME UsersInv, GroupChar PROVE UsersInv'
  OBVIOUS
<1>1. /\ InLine /\ NextChar /\ field = 3 /\ c # ColonMark /\ ~(c = CommaMark /\ group_i < GroupsMax)
      /\ field' = field /\ char_i' = char_i /\ group_i' = group_i
      /\ IF group_i >= GroupsMax
         THEN parse' = "wild" /\ UNCHANGED <<users, group_char_i>>
         ELSE IF group_char_i < NameSize - 1
         THEN /\ Entry([ue EXCEPT !.groups[group_i][group_char_i] = c])
              /\ group_char_i' = group_char_i + 1
              /\ UNCHANGED parse
         ELSE UNCHANGED <<parse, users, group_char_i>>
  BY DEF GroupChar
<1>2. InLineFacts
  BY <1>1, InLineIs
<1>3. /\ field \in Nat /\ char_i \in 0 .. (NameSize - 1) /\ group_i \in 0 .. GroupsMax
      /\ group_char_i \in 0 .. (NameSize - 1) /\ users \in [1 .. UsersMax -> UserEntries]
      /\ buf \in Seq(Char) /\ pos \in 0 .. Len(buf) /\ out_count \in 0 .. UsersMax
      /\ GroupsMax \in Nat /\ GroupsMax > 0
  BY <1>1, <1>2, UserSizes DEF InLineFacts, UserTypes
<1>4. PICK e \in UserEntries, text \in Seq(Char), char \in Char :
        /\ e = ue /\ text = LinesRead[out_count + 1] /\ char = c /\ char # ColonMark
        /\ EntryFilling(text, e, 3, char_i, group_i, group_char_i)
  BY <1>1, <1>2 DEF InLineFacts
<1>5. CASE group_i >= GroupsMax
  <2>1. group_i = GroupsMax /\ parse' = "wild" /\ UNCHANGED <<users, group_char_i>>
    BY <1>1, <1>3, <1>5
  <2>2. UserTypes'
    <3>1. buf' = buf /\ pos' = pos + 1 /\ out_count' = out_count /\ pos < Len(buf)
      BY <1>1, <1>2 DEF NextChar, InLineFacts
    <3>2. QED BY <1>1, <1>3, <2>1, <3>1 DEF UserTypes
  <2>3. PICK short \in Seq(Char), more \in Seq(Seq(Char)), all \in Seq(Seq(Char)) :
          /\ short = SubSeq(buf, 1, pos + 1) /\ more = Pieces(short, Newline) /\ all = Pieces(buf, Newline)
          /\ PiecesStart(more, all) /\ Len(all) > 0
    <3>1. pos + 1 \in 0 .. Len(buf) /\ pos + 1 <= Len(buf)
      BY <1>2, <1>3 DEF InLineFacts
    <3>2. SubSeq(buf, 1, pos + 1) \in Seq(Char) /\ Len(SubSeq(buf, 1, pos + 1)) = pos + 1
      BY <1>3, <3>1, ReadUpTo
    <3>3. Starts(SubSeq(buf, 1, pos + 1), buf)
      BY <1>3, <3>1, <3>2 DEF Starts
    <3>4. PiecesStart(Pieces(SubSeq(buf, 1, pos + 1), Newline), Pieces(buf, Newline))
      BY <1>3, <3>2, <3>3, PiecesOfStart, CharsAre
    <3>5. QED BY <1>3, <3>2, <3>4, PiecesGrow, CharsAre
  <2>4. Len(more) = out_count + 1 /\ more[out_count + 1] = Append(text, char)
    <3>1. Grown(more, LinesRead, c)
      BY <1>2, <1>3, <2>3, LinesGrow DEF InLineFacts
    <3>2. out_count + 1 = Len(LinesRead)
      BY <1>2 DEF InLineFacts
    <3>3. QED BY <1>4, <3>1, <3>2 DEF Grown
  <2>5. Len(all) >= out_count + 1 /\ Starts(Append(text, char), all[out_count + 1])
    BY <2>3, <2>4 DEF PiecesStart
  <2>6. PICK whole \in Seq(Char) : whole = all[out_count + 1] /\ Starts(Append(text, char), whole)
    <3>1. out_count + 1 \in 1 .. Len(all)
      BY <1>3, <2>3, <2>5
    <3>2. all[out_count + 1] \in Seq(Char)
      BY <3>1
    <3>3. QED BY <2>5, <3>2
  <2>7. whole # <<>> /\ Complete(whole) /\ Len(GroupsOf(whole)) > GroupsMax
    <3>1. EntryFilling(text, e, 3, char_i, GroupsMax, group_char_i)
      BY <1>4, <2>1
    <3>2. QED BY <1>4, <2>6, <3>1, TooMany
  <2>8. out_count + 1 \in DOMAIN Lines(buf) /\ Lines(buf)[out_count + 1] = whole
    <3>1. PICK lines \in Seq(Seq(Char)) :
            /\ lines = Ending(all) /\ \A k \in 1 .. Len(lines) : lines[k] = all[k]
            /\ Len(lines) = IF all[Len(all)] = <<>> THEN Len(all) - 1 ELSE Len(all)
      BY <2>3, EndingIs
    <3>2. lines = Lines(buf)
      BY <2>3, <3>1 DEF Lines
    <3>3. out_count + 1 \in 1 .. Len(lines)
      <4>1. Len(all) = out_count + 1 => all[Len(all)] # <<>>
        BY <2>6, <2>7
      <4>2. QED BY <1>3, <2>3, <2>5, <3>1, <4>1
    <3>4. out_count + 1 \in DOMAIN lines /\ lines[out_count + 1] = whole
      <4>1. DOMAIN lines = 1 .. Len(lines)
        OBVIOUS
      <4>2. QED BY <2>6, <3>1, <3>3, <4>1, Zenon
    <3>5. QED BY <3>2, <3>4
  <2>9. TooManyGroups
    BY <2>7, <2>8 DEF TooManyGroups
  <2>10. TooManyGroups'
    <3>1. buf' = buf
      BY <1>1 DEF NextChar
    <3>2. QED BY <2>9, <3>1 DEF TooManyGroups
  <2>11. QED BY <2>1, <2>2, <2>10 DEF UsersInv
<1>6. CASE ~(group_i >= GroupsMax)
  <2>1. group_i \in 0 .. (GroupsMax - 1) /\ char # CommaMark /\ parse' = "chars"
        /\ IF group_char_i < NameSize - 1
           THEN /\ Entry([ue EXCEPT !.groups[group_i][group_char_i] = c])
                /\ group_char_i' = group_char_i + 1
           ELSE UNCHANGED <<users, group_char_i>>
    BY <1>1, <1>2, <1>3, <1>4, <1>6 DEF InLineFacts
  <2>2. PICK list \in Seq(Char) : list = Fields(text)[4] /\ GroupsFilling(list, e, group_i, group_char_i)
    <3>1. PICK f \in Nat : f = 3 /\ Len(Fields(text)) = f + 1
      BY <1>4 DEF EntryFilling
    <3>2. Fields(text)[4] \in Seq(Char)
      <4>1. 4 \in 1 .. (f + 1)
        BY <3>1
      <4>2. \A j \in 1 .. (f + 1) : Fields(text)[j] \in Seq(Char)
        BY <3>1, FieldsGrow, Zenon
      <4>3. QED BY <4>1, <4>2, Zenon
    <3>3. QED BY <1>4, <3>2 DEF EntryFilling
  <2>3. PICK e1 :
          /\ Written(e1) /\ SameBut(e1, e) /\ group_char_i' \in 0 .. (NameSize - 1)
          /\ GroupsFilling(Append(list, char), e1, group_i, group_char_i')
    <3>1. CASE group_char_i < NameSize - 1
      <4>1. PICK e1 : /\ e1 = [e EXCEPT !.groups[group_i][group_char_i] = char]
                      /\ GroupSet(e1, e, group_i, [e.groups[group_i] EXCEPT ![group_char_i] = char], e.group_count)
        BY <1>3, <2>1, GroupWritten
      <4>2. Written(e1) /\ SameBut(e1, e)
        BY <1>2, <1>3, <1>4, <2>1, <3>1, <4>1, EntryWritten DEF InLineFacts, GroupSet, SameBut
      <4>3. PICK k1 \in Nat : k1 = group_char_i + 1 /\ k1 = group_char_i' /\ k1 \in 0 .. (NameSize - 1)
        BY <1>3, <2>1, <3>1, UserSizes
      <4>4. GroupsFilling(Append(list, char), e1, group_i, k1)
        BY <1>3, <2>1, <2>2, <3>1, <4>1, <4>3, GroupsChar
      <4>5. QED BY <4>2, <4>3, <4>4
    <3>2. CASE ~(group_char_i < NameSize - 1)
      <4>1. UNCHANGED users /\ group_char_i' = group_char_i
        BY <2>1, <3>2
      <4>2. Written(e) /\ SameBut(e, e)
        BY <1>2, <1>3, <1>4, <4>1, EntryWritten DEF InLineFacts, SameBut
      <4>3. PICK k1 \in Nat : k1 = group_char_i
        BY <1>3
      <4>4. GroupsFilling(Append(list, char), e, group_i, k1)
        BY <1>3, <2>1, <2>2, <3>2, <4>3, GroupsChar
      <4>5. QED BY <1>3, <4>1, <4>2, <4>3, <4>4
    <3>3. QED BY <3>1, <3>2
  <2>4. EntryFilling(Append(text, char), e1, 3, char_i, group_i, group_char_i')
    BY <1>3, <1>4, <2>1, <2>2, <2>3, GroupCharGrows
  <2>5. field' \in Nat /\ char_i' \in 0 .. (NameSize - 1) /\ group_i' \in 0 .. GroupsMax
    BY <1>1, <1>3
  <2>6. EntryFilling(Append(LinesRead[out_count + 1], c), e1, field', char_i', group_i', group_char_i')
    BY <1>1, <1>4, <2>4
  <2>7. QED BY <1>1, <2>1, <2>3, <2>5, <2>6, CharRead
<1>7. QED BY <1>5, <1>6

\* In front of the first character of a line nothing of it is read.
LEMMA LineStarts == UsersInv /\ StartLine => UsersInv'
<1> SUFFICES ASSUME UsersInv, StartLine PROVE UsersInv'
  OBVIOUS
<1>1. /\ parse = "line" /\ pos < Len(buf) /\ out_count < UsersMax /\ parse' = "chars"
      /\ Entry([ue EXCEPT !.user_id = 0, !.username[0] = End, !.password[0] = End, !.group_count = 0])
      /\ field' = 0 /\ char_i' = 0 /\ group_i' = 0 /\ group_char_i' = 0
      /\ buf' = buf /\ pos' = pos /\ out_count' = out_count
  BY DEF StartLine
<1>2. /\ UserTypes /\ buf \in Seq(Char) /\ pos \in 0 .. Len(buf) /\ out_count \in 0 .. UsersMax
      /\ users \in [1 .. UsersMax -> UserEntries]
      /\ EntriesSay(LinesRead) /\ out_count = Len(Ending(LinesRead)) /\ LinesRead[Len(LinesRead)] = <<>>
  BY <1>1 DEF UsersInv, UserTypes
<1>3. PICK lines \in Seq(Seq(Char)) :
        lines = LinesRead /\ Len(lines) > 0 /\ lines[Len(lines)] = <<>> /\ Len(lines) = out_count + 1
  <2>1. PICK lines \in Seq(Seq(Char)) : lines = LinesRead /\ Len(lines) > 0
    BY <1>2, LinesGrow
  <2>2. Len(Ending(lines)) = Len(lines) - 1
    BY <1>2, <2>1, EndingIs
  <2>3. QED BY <1>2, <2>1, <2>2
<1>4. out_count + 1 \in 1 .. UsersMax /\ ue \in UserEntries
  BY <1>1, <1>2, UserSizes, EntryWritten
<1>5. PICK e1 \in UserEntries : Entry(e1) /\ e1.user_id = 0 /\ e1.group_count = 0
  <2>1. PICK e \in UserEntries : e = ue
    BY <1>4
  <2> 0 \in 0 .. (NameSize - 1)
    BY UserSizes
  <2>2. PICK e2 \in UserEntries : e2 = [e EXCEPT !.username[0] = End]
    BY CharsAre, NamesWritten
  <2>3. PICK e3 \in UserEntries : e3 = [e2 EXCEPT !.password[0] = End]
    BY CharsAre, NamesWritten
  <2>4. PICK e1 : e1 = [e EXCEPT !.user_id = 0, !.username[0] = End, !.password[0] = End, !.group_count = 0]
    OBVIOUS
  <2>5. e1 = [e3 EXCEPT !.user_id = 0, !.group_count = 0]
    BY <2>2, <2>3, <2>4 DEF UserEntries
  <2>6. e1 \in UserEntries /\ e1.user_id = 0 /\ e1.group_count = 0
    BY <2>5 DEF UserEntries
  <2>7. QED BY <1>1, <2>1, <2>4, <2>6
<1>6. Written(e1)
  BY <1>2, <1>4, <1>5, EntryWritten
<1>7. UserTypes'
  BY <1>1, <1>2, <1>6, UserSizes DEF UserTypes, Written
<1>8. LinesRead' = lines
  BY <1>1, <1>3 DEF LinesRead
<1>9. EntriesSay(LinesRead)'
  <2>1. \A k \in 1 .. out_count : users'[k] = users[k]
    <3>1. \A k \in 1 .. UsersMax : k # out_count + 1 => users'[k] = users[k]
      BY <1>6 DEF Written
    <3>2. \A k \in 1 .. out_count : k \in 1 .. UsersMax /\ k # out_count + 1
      BY <1>2, UserSizes
    <3>3. QED BY <3>1, <3>2
  <2>2. QED BY <1>1, <1>2, <1>3, <1>8, <2>1 DEF EntriesSay
<1>10. ue' = e1
  BY <1>1, <1>6 DEF ue, Written
<1>11. lines[out_count + 1] = <<>>
  BY <1>3
<1>12. EntryFilling(LinesRead[out_count + 1], ue, field, char_i, group_i, group_char_i)'
  <2>1. EntryFilling(<<>>, e1, 0, 0, 0, 0)
    BY <1>5, EntryStarts
  <2>2. QED BY <1>1, <1>8, <1>10, <1>11, <2>1
<1>13. QED
  BY <1>1, <1>3, <1>7, <1>8, <1>9, <1>12 DEF UsersInv

\* At the end of the line the entry is in the table for good.
LEMMA LineEnds == UsersInv /\ EndLine => UsersInv'
<1> SUFFICES ASSUME UsersInv, EndLine PROVE UsersInv'
  OBVIOUS
<1>1. /\ parse = "chars" /\ ~InLine
      /\ IF field = 3 /\ group_char_i > 0 /\ group_i < GroupsMax THEN Entry(Ended(ue)) ELSE UNCHANGED users
      /\ out_count' = out_count + 1 /\ parse' = "line" /\ buf' = buf
      /\ pos' = IF pos < Len(buf) THEN pos + 1 ELSE pos
      /\ field' = field /\ char_i' = char_i /\ group_i' = group_i /\ group_char_i' = group_char_i
  BY DEF EndLine, lineVars
<1>2. /\ field \in Nat /\ char_i \in 0 .. (NameSize - 1) /\ group_i \in 0 .. GroupsMax
      /\ group_char_i \in 0 .. (NameSize - 1) /\ users \in [1 .. UsersMax -> UserEntries]
      /\ buf \in Seq(Char) /\ pos \in 0 .. Len(buf) /\ out_count \in 0 .. UsersMax
  BY DEF UsersInv, UserTypes
<1>3. /\ EntriesSay(LinesRead) /\ out_count < UsersMax /\ out_count + 1 = Len(LinesRead)
      /\ pos = Len(buf) => LinesRead[out_count + 1] # <<>>
      /\ EntryFilling(LinesRead[out_count + 1], ue, field, char_i, group_i, group_char_i)
  BY <1>1 DEF UsersInv
<1>4. out_count + 1 \in 1 .. UsersMax /\ ue \in UserEntries
  BY <1>2, <1>3, UserSizes, EntryWritten
<1>5. PICK lines \in Seq(Seq(Char)) : lines = LinesRead /\ Len(lines) = out_count + 1
  BY <1>2, <1>3, LinesGrow
<1>6. PICK text \in Seq(Char), e \in UserEntries :
        /\ text = lines[out_count + 1] /\ e = ue
        /\ EntryFilling(text, e, field, char_i, group_i, group_char_i)
  <2>1. LinesRead[out_count + 1] \in Seq(Char)
    BY <1>2, <1>3, LinesGrow
  <2>2. QED BY <1>3, <1>4, <1>5, <2>1
<1>7. PICK e1 \in UserEntries : Written(e1) /\ (Complete(text) => Says(text, e1))
  <2>1. PICK e1 : /\ field = 3 => GroupMayEnd(e1, e, group_i, group_char_i)
                  /\ field # 3 => e1 = e
                  /\ e1 \in UserEntries => Written(e1)
    <3>1. CASE field = 3 /\ group_char_i > 0 /\ group_i < GroupsMax
      <4>1. group_i \in 0 .. (GroupsMax - 1)
        BY <1>2, <3>1, UserSizes
      <4>2. PICK e1 : e1 = Ended(e)
              /\ GroupSet(e1, e, group_i, [e.groups[group_i] EXCEPT ![group_char_i] = End], e.group_count + 1)
        BY <1>2, <4>1, GroupWritten, CharsAre DEF Ended
      <4>3. Entry(e1)
        BY <1>1, <1>6, <3>1, <4>2
      <4>4. QED BY <1>2, <1>4, <3>1, <4>2, <4>3, EntryWritten DEF GroupMayEnd
    <3>2. CASE ~(field = 3 /\ group_char_i > 0 /\ group_i < GroupsMax)
      <4>1. UNCHANGED users
        BY <1>1, <3>2
      <4>2. Written(e)
        BY <1>2, <1>4, <1>6, <4>1, EntryWritten
      <4>3. field = 3 => GroupMayEnd(e, e, group_i, group_char_i)
        BY <3>2 DEF GroupMayEnd
      <4>4. QED BY <4>2, <4>3
    <3>3. QED BY <3>1, <3>2
  <2>2. (Complete(text) => Says(text, e1)) /\ e1 \in UserEntries
    BY <1>2, <1>6, <2>1, EntryEnds
  <2>3. QED BY <2>1, <2>2
<1>8. UserTypes'
  <2>1. out_count' \in 0 .. UsersMax /\ pos' \in 0 .. Len(buf)
    BY <1>1, <1>2, <1>3, UserSizes
  <2>2. QED BY <1>1, <1>2, <1>7, <2>1 DEF UserTypes, Written
\* What is read goes on with an empty line, or not at all.
<1>9. PICK more \in Seq(Seq(Char)) :
        /\ more = LinesRead' /\ \A k \in 1 .. (out_count + 1) : more[k] = lines[k]
        /\ out_count + 1 = Len(Ending(more))
        /\ pos' < Len(buf) => more[Len(more)] = <<>>
  <2>1. CASE pos < Len(buf)
    <3>1. c = Newline /\ c \in Char /\ Newline \in Char
      BY <1>1, <1>2, <2>1, LinesGrow, CharsAre DEF InLine, c
    <3>2. PICK more : more = LinesRead' /\ more = Longer(lines, Newline, Newline)
      BY <1>1, <1>2, <1>5, <2>1, <3>1, LinesGrow DEF LinesRead
    <3>3. /\ more \in Seq(Seq(Char)) /\ Len(more) = Len(lines) + 1
          /\ \A k \in 1 .. (Len(lines) - 1) : more[k] = lines[k]
          /\ more[Len(lines)] = lines[Len(lines)] /\ more[Len(lines) + 1] = <<>>
      <4>1. Len(lines) > 0
        BY <1>2, <1>5
      <4>2. PICK sep \in Char : sep = Newline /\ more = Longer(lines, sep, sep)
        BY <3>1, <3>2
      <4>3. QED BY <4>1, <4>2, LongerBySeparator, Zenon
    <3>4. \A k \in 1 .. (out_count + 1) : more[k] = lines[k]
      <4>1. PICK top \in Nat : top = out_count + 1 /\ top = Len(lines)
        BY <1>2, <1>5
      <4>2. /\ \A k \in 1 .. (top - 1) : more[k] = lines[k]
            /\ more[top] = lines[top]
        BY <3>3, <4>1
      <4>3. \A k \in 1 .. top : more[k] = lines[k]
        BY <4>2
      <4>4. QED BY <4>1, <4>3
    <3>5. Len(more) > 0 /\ more[Len(more)] = <<>>
      BY <1>2, <1>5, <3>3
    <3>6. out_count + 1 = Len(Ending(more))
      <4>1. Len(Ending(more)) = Len(more) - 1
        BY <3>3, <3>5, EndingIs
      <4>2. Len(more) = out_count + 2
        BY <1>2, <1>5, <3>3
      <4>3. QED BY <1>2, <4>1, <4>2
    <3>7. QED BY <3>2, <3>3, <3>4, <3>5, <3>6
  <2>2. CASE ~(pos < Len(buf))
    <3>1. pos = Len(buf) /\ pos' = pos /\ LinesRead' = lines
      BY <1>1, <1>2, <1>5, <2>2 DEF LinesRead
    <3>2. lines[Len(lines)] # <<>> /\ Len(lines) > 0
      BY <1>2, <1>3, <1>5, <3>1
    <3>3. out_count + 1 = Len(Ending(lines))
      BY <1>5, <3>2, EndingIs
    <3>4. QED BY <2>2, <3>1, <3>3
  <2>3. QED BY <2>1, <2>2
<1>10. EntriesSay(LinesRead)'
  <2>1. \A k \in 1 .. (out_count + 1) : Complete(lines[k]) => Says(lines[k], users'[k])
    <3>1. \A k \in 1 .. out_count : Complete(lines[k]) => Says(lines[k], users[k])
      BY <1>3, <1>5 DEF EntriesSay
    <3>2. \A k \in 1 .. UsersMax : k # out_count + 1 => users'[k] = users[k]
      BY <1>7 DEF Written
    <3>3. \A k \in 1 .. out_count : k \in 1 .. UsersMax /\ k # out_count + 1
      BY <1>2, UserSizes
    <3>4. \A k \in 1 .. out_count : Complete(lines[k]) => Says(lines[k], users'[k])
      BY <3>1, <3>2, <3>3
    <3>5. users'[out_count + 1] = e1
      BY <1>7 DEF Written
    <3>6. Complete(lines[out_count + 1]) => Says(lines[out_count + 1], users'[out_count + 1])
      BY <1>6, <1>7, <3>5
    <3>7. \A k \in 1 .. (out_count + 1) : k = out_count + 1 \/ k \in 1 .. out_count
      BY <1>2
    <3>8. QED BY <3>4, <3>6, <3>7, Zenon
  <2>2. \A k \in 1 .. (out_count + 1) : Complete(more[k]) => Says(more[k], users'[k])
    BY <1>9, <2>1
  <2>3. QED BY <1>1, <1>9, <2>2 DEF EntriesSay
<1>11. QED
  BY <1>1, <1>8, <1>9, <1>10 DEF UsersInv

\* The pass is over: the text is read, or the table is full.
LEMMA TextEnds == UsersInv /\ LastLine => UsersInv'
<1> SUFFICES ASSUME UsersInv, LastLine PROVE UsersInv'
  OBVIOUS
<1>1. /\ parse = "line" /\ (pos >= Len(buf) \/ out_count >= UsersMax) /\ parse' = "idle"
      /\ buf' = buf /\ users' = users /\ pos' = pos /\ out_count' = out_count
      /\ field' = field /\ char_i' = char_i /\ group_i' = group_i /\ group_char_i' = group_char_i
  BY DEF LastLine, lineVars
<1>2. /\ UserTypes /\ buf \in Seq(Char) /\ pos \in 0 .. Len(buf) /\ out_count \in 0 .. UsersMax
      /\ EntriesSay(LinesRead) /\ out_count = Len(Ending(LinesRead))
      /\ pos < Len(buf) => LinesRead[Len(LinesRead)] = <<>>
  BY <1>1 DEF UsersInv, UserTypes
<1>3. UserTypes'
  BY <1>1, <1>2 DEF UserTypes
<1>4. PICK some \in Seq(Seq(Char)), all \in Seq(Seq(Char)) :
        /\ some = LinesRead /\ all = Pieces(buf, Newline) /\ Len(some) > 0 /\ Len(all) > 0
        /\ PiecesStart(some, all) /\ (pos = Len(buf) => some = all)
  <2>1. SubSeq(buf, 1, pos) \in Seq(Char) /\ Len(SubSeq(buf, 1, pos)) = pos
    BY <1>2, ReadUpTo
  <2>2. pos = Len(buf) => SubSeq(buf, 1, pos) = buf
    BY <1>2, ReadUpTo
  <2>3. Starts(SubSeq(buf, 1, pos), buf)
    BY <1>2, <2>1 DEF Starts
  <2>4. PiecesStart(Pieces(SubSeq(buf, 1, pos), Newline), Pieces(buf, Newline))
    BY <1>2, <2>1, <2>3, PiecesOfStart, CharsAre
  <2>5. QED BY <1>2, <2>1, <2>2, <2>4, PiecesGrow, CharsAre DEF LinesRead
<1>5. PICK lines \in Seq(Seq(Char)) :
        /\ lines = Lines(buf) /\ \A k \in 1 .. Len(lines) : lines[k] = all[k]
        /\ Len(lines) = IF all[Len(all)] = <<>> THEN Len(all) - 1 ELSE Len(all)
  <2>1. PICK lines \in Seq(Seq(Char)) :
          /\ lines = Ending(all) /\ \A k \in 1 .. Len(lines) : lines[k] = all[k]
          /\ Len(lines) = IF all[Len(all)] = <<>> THEN Len(all) - 1 ELSE Len(all)
    BY <1>4, EndingIs
  <2>2. lines = Lines(buf)
    BY <1>4, <2>1 DEF Lines
  <2>3. QED BY <2>1, <2>2
<1>6. AllRead /\ \A k \in 1 .. out_count : lines[k] = some[k]
  <2>1. CASE pos = Len(buf)
    <3>1. lines = Ending(some) /\ some = all
      BY <1>4, <1>5, <2>1 DEF Lines
    <3>2. out_count = Len(lines)
      BY <1>2, <1>4, <3>1
    <3>3. AllRead
      BY <1>2, <1>5, <3>2, UserSizes DEF AllRead
    <3>4. QED BY <1>5, <3>1, <3>2, <3>3
  <2>2. CASE pos < Len(buf)
    <3>1. out_count = UsersMax /\ some[Len(some)] = <<>>
      <4>1. ~(pos >= Len(buf))
        BY <1>2, <2>2
      <4>2. out_count >= UsersMax
        BY <1>1, <4>1
      <4>3. out_count = UsersMax
        BY <1>2, <4>2, UserSizes
      <4>4. QED BY <1>2, <1>4, <2>2, <4>3, Zenon
    <3>2. Len(some) = out_count + 1
      <4>1. Len(Ending(some)) = Len(some) - 1
        BY <1>4, <3>1, EndingIs
      <4>2. QED BY <1>2, <1>4, <4>1
    <3>3. Len(all) >= out_count + 1 /\ \A k \in 1 .. out_count : all[k] = some[k]
      BY <1>2, <1>4, <3>2 DEF PiecesStart
    <3>4. Len(lines) >= out_count
      BY <1>2, <1>4, <1>5, <3>3
    <3>5. AllRead
      BY <1>2, <1>5, <3>1, <3>4, UserSizes DEF AllRead
    <3>6. QED BY <1>2, <1>5, <3>3, <3>4, <3>5
  <2>3. QED BY <1>2, <2>1, <2>2
<1>7. EntriesSay(lines)
  <2>1. \A k \in 1 .. out_count : Complete(some[k]) => Says(some[k], users[k])
    BY <1>2, <1>4 DEF EntriesSay
  <2>2. QED BY <1>6, <2>1 DEF EntriesSay
<1>8. AllRead' /\ EntriesSay(Lines(buf))'
  BY <1>1, <1>5, <1>6, <1>7 DEF AllRead, EntriesSay
<1>9. QED
  BY <1>1, <1>3, <1>8 DEF UsersInv

LEMMA NoLines ==
  LET first == Pieces(<<>>, Newline) IN Len(Ending(first)) = 0 /\ first[Len(first)] = <<>>
<1>1. <<>> \in Seq(Char)
  OBVIOUS
<1>2. PICK first \in Seq(Seq(Char)) : first = Pieces(<<>>, Newline) /\ first = << <<>> >>
  BY <1>1, PiecesGrow, CharsAre
<1>3. Len(first) = 1 /\ first[Len(first)] = <<>>
  BY <1>2
<1>4. Len(Ending(first)) = 0
  <2>1. Len(first) > 0
    BY <1>3
  <2>2. Len(Ending(first)) = Len(first) - 1
    BY <1>3, <2>1, EndingIs
  <2>3. QED BY <1>3, <2>2
<1>5. QED BY <1>2, <1>3, <1>4

\* At the start of a pass nothing is read.
LEMMA TextStarts ==
  ASSUME UsersInv, NEW text \in Texts, parse_users(text)
  PROVE  UsersInv'
<1>1. /\ buf' = text /\ parse' = "line" /\ pos' = 0 /\ out_count' = 0 /\ users' = users
      /\ field' = field /\ char_i' = char_i /\ group_i' = group_i /\ group_char_i' = group_char_i
      /\ text \in Seq(Char)
  BY UserSizes DEF parse_users, lineVars
<1>2. UserTypes'
  <2>1. UserTypes
    BY DEF UsersInv
  <2>2. pos' \in 0 .. Len(text) /\ out_count' \in 0 .. UsersMax
    BY <1>1, UserSizes
  <2>3. QED BY <1>1, <2>1, <2>2 DEF UserTypes
<1>3. LinesRead' = Pieces(<<>>, Newline)
  <2>1. SubSeq(text, 1, 0) = <<>>
    BY <1>1, ReadUpTo
  <2>2. LinesRead' = Pieces(SubSeq(text, 1, 0), Newline)
    BY <1>1 DEF LinesRead
  <2>3. QED BY <2>1, <2>2
<1>4. Len(Ending(LinesRead')) = 0
  BY <1>1, <1>3, NoLines
<1>5. LinesRead'[Len(LinesRead')] = <<>>
  BY <1>3, NoLines
<1>6. EntriesSay(LinesRead)'
  BY <1>1 DEF EntriesSay
<1>7. QED
  BY <1>1, <1>2, <1>4, <1>5, <1>6 DEF UsersInv

LEMMA UsersKept == UsersInv /\ UNCHANGED userVars => UsersInv'
<1> SUFFICES ASSUME UsersInv, UNCHANGED userVars PROVE UsersInv'
  OBVIOUS
<1>1. /\ buf' = buf /\ users' = users /\ parse' = parse /\ pos' = pos /\ out_count' = out_count
      /\ field' = field /\ char_i' = char_i /\ group_i' = group_i /\ group_char_i' = group_char_i
  BY DEF userVars
<1>2. UserTypes' = UserTypes
  BY <1>1 DEF UserTypes
<1>3. LinesRead' = LinesRead /\ ue' = ue /\ AllRead' = AllRead /\ TooManyGroups' = TooManyGroups
  BY <1>1 DEF LinesRead, ue, AllRead, TooManyGroups
<1>4. EntriesSay(LinesRead)' = EntriesSay(LinesRead) /\ EntriesSay(Lines(buf))' = EntriesSay(Lines(buf))
  BY <1>1, <1>3 DEF EntriesSay
<1>5. QED
  BY <1>1, <1>2, <1>3, <1>4 DEF UsersInv

LEMMA UsersStarts == Init => UsersInv
<1> SUFFICES ASSUME UsersInit PROVE UsersInv
  BY DEF Init
<1>1. /\ buf = <<>> /\ parse = "idle" /\ pos = 0 /\ out_count = 0
      /\ field = 0 /\ char_i = 0 /\ group_i = 0 /\ group_char_i = 0
      /\ users = [k \in 1 .. UsersMax |->
                    [user_id |-> 0, username |-> Blank, password |-> Blank,
                     groups |-> [g \in 0 .. (GroupsMax - 1) |-> Blank], group_count |-> 0]]
  BY DEF UsersInit
<1>2. UserTypes
  <2>1. Blank \in Cells
    BY CharsAre DEF Blank, Cells
  <2>2. [user_id |-> 0, username |-> Blank, password |-> Blank,
         groups |-> [g \in 0 .. (GroupsMax - 1) |-> Blank], group_count |-> 0] \in UserEntries
    BY <2>1 DEF UserEntries
  <2>3. users \in [1 .. UsersMax -> UserEntries]
    BY <1>1, <2>2
  <2>4. buf \in Seq(Char) /\ Len(buf) = 0
    BY <1>1
  <2>5. 0 \in Nat /\ 0 \in 0 .. UsersMax /\ 0 \in 0 .. (NameSize - 1) /\ 0 \in 0 .. GroupsMax
    BY UserSizes
  <2>6. pos \in 0 .. Len(buf)
    BY <1>1, <2>4
  <2>7. QED BY <1>1, <2>3, <2>4, <2>5, <2>6, Zenon DEF UserTypes
<1>3. Len(Lines(buf)) = 0
  BY <1>1, NoLines DEF Lines
<1>4. AllRead /\ EntriesSay(Lines(buf))
  BY <1>1, <1>3, UserSizes DEF AllRead, EntriesSay
<1>5. QED
  BY <1>1, <1>2, <1>4 DEF UsersInv

LEMMA UsersAlways == UsersInv /\ [Next]_vars => UsersInv'
<1> SUFFICES ASSUME UsersInv, [Next]_vars PROVE UsersInv'
  OBVIOUS
<1>1. CASE UsersStart
  BY <1>1, TextStarts DEF UsersStart
<1>2. CASE UsersGo
  <2>1. ParseStep
    BY <1>2 DEF UsersGo
  <2>2. QED
    BY <2>1, LineStarts, TextEnds, ColonRead, CommaRead, GroupCharRead, NameCharRead, OtherCharRead, LineEnds
    DEF ParseStep
<1>3. CASE UNCHANGED userVars
  BY <1>3, UsersKept
<1>4. QED
  <2>1. UsersStart \/ UsersGo \/ UNCHANGED userVars
    BY Zenon DEF Next, Keyboard, Processor, ReplaceStart, HexKey, CalcKey, ReplaceGo, HexGo, CalcGo,
                 ExceptionRaised, MessageGo, kernelpanic, vars
  <2>2. QED BY <1>1, <1>2, <1>3, <2>1

\* A name is looked for among the entries, of which the first is given.
LEMMA UsersAsWritten == UsersInv => UsersFollowText
<1> SUFFICES ASSUME UsersInv PROVE UsersFollowText
  OBVIOUS
<1>1. out_count \in 0 .. UsersMax
  BY DEF UsersInv, UserTypes
<1>2. PICK lines : lines = Lines(buf)
  OBVIOUS
<1> DEFINE named(name) == {k \in 1 .. out_count : Short(Fields(lines[k])[2]) = name}
<1>3. ASSUME parse = "idle"
      PROVE  /\ out_count = IF Len(lines) < UsersMax THEN Len(lines) ELSE UsersMax
             /\ \A k \in 1 .. out_count : Complete(lines[k]) => Says(lines[k], users[k])
  BY <1>2, <1>3 DEF UsersInv, AllRead, EntriesSay
<1>4. ASSUME parse = "idle", \A k \in 1 .. out_count : Complete(lines[k]),
             NEW name \in {Short(Fields(lines[k])[2]) : k \in 1 .. out_count}
      PROVE  find_user(name) \in named(name) /\ \A k \in named(name) : find_user(name) <= k
  <2>1. \A k \in 1 .. out_count : Read(users[k].username) = Short(Fields(lines[k])[2])
    BY <1>3, <1>4 DEF Says
  <2>2. PICK hits : hits = {k \in 1 .. out_count : Read(users[k].username) = name}
    OBVIOUS
  <2>3. hits = named(name) /\ hits # {} /\ hits \subseteq Nat
    BY <1>1, <1>4, <2>1, <2>2
  <2>4. \E k \in hits : \A l \in hits : k <= l
    BY <2>3, LeastNumber
  <2>5. find_user(name) = CHOOSE k \in hits : \A l \in hits : k <= l
    BY <2>2, <2>3 DEF find_user
  <2>6. find_user(name) \in hits /\ \A l \in hits : find_user(name) <= l
    BY <2>4, <2>5, Zenon
  <2>7. QED BY <2>3, <2>6
<1>5. ASSUME parse = "wild"
      PROVE  \E k \in DOMAIN lines : Complete(lines[k]) /\ Len(GroupsOf(lines[k])) > GroupsMax
  BY <1>2, <1>5 DEF UsersInv, TooManyGroups
<1>6. QED
  BY <1>2, <1>3, <1>4, <1>5 DEF UsersFollowText

\* parse_users and find_user: when the table is filled, each complete line of
\* the users file, up to as many as the table holds, has an entry that says
\* what the line says, whatever was parsed before and with whatever the table
\* began; a name is found by its first line; and the pass writes outside the
\* table only for a line with more groups than an entry has.  For every text,
\* every size of the table and every size of a name of at least two cells.
THEOREM UsersReadAsWritten == FairSpec => []UsersFollowText
<1>1. Init => UsersInv
  BY UsersStarts
<1>2. UsersInv /\ [Next]_vars => UsersInv'
  BY UsersAlways
<1>3. UsersInv => UsersFollowText
  BY UsersAsWritten
<1>4. QED
  BY <1>1, <1>2, <1>3, PTL DEF FairSpec, Spec
=============================================================================
