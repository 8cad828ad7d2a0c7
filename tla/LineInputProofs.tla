--------------------------- MODULE LineInputProofs ---------------------------
(***************************************************************************)
(* Proofs about the line editor and its screen, for every size of screen,  *)
(* keymap, queue of codes and set of callers.                              *)
(*                                                                         *)
(* Strings are printed and codes announced one by one: what holds before   *)
(* the first and is kept by each holds at the end.                         *)
(***************************************************************************)
EXTENDS LineInput, WellFoundedInduction, TLAPS

-----------------------------------------------------------------------------
(* Numbers, and functions defined from one number to the next *)

\* The order of the natural numbers, as a relation, is well founded.
LEMMA NumbersWellFounded ==
  \E R : IsWellFoundedOn(R, Nat) /\ \A x, y \in Nat : x < y => <<x, y>> \in R
<1>1. IsWellFoundedOn(OpToRel(<, Nat), Nat)
  BY NatLessThanWellFounded, Zenon
<1>2. \A x, y \in Nat : x < y => <<x, y>> \in OpToRel(<, Nat)
  BY Zenon DEF OpToRel
<1>3. QED BY <1>1, <1>2, Zenon

\* A set of numbers that is not empty has a least one.
LEMMA LeastNumber ==
  ASSUME NEW S, S \subseteq Nat, S # {}
  PROVE  \E x \in S : \A y \in S : x <= y
<1>1. PICK R : IsWellFoundedOn(R, Nat) /\ \A x, y \in Nat : x < y => <<x, y>> \in R
  BY NumbersWellFounded, Zenon
<1>2. IsWellFoundedOn(R, Nat)
  BY <1>1
<1>3. PICK x \in S : \A y \in S : ~(<<y, x>> \in R)
  BY <1>2, WFMin
<1>4. ASSUME NEW y \in S PROVE x <= y
  <2>1. x \in Nat /\ y \in Nat
    OBVIOUS
  <2>2. ~(y < x)
    BY <1>1, <1>3, <2>1, Zenon
  <2>3. QED BY <2>1, <2>2
<1>5. QED BY <1>4

\* What holds of 0, and of a number whenever it holds of the one before, holds up to n.
LEMMA Upwards ==
  ASSUME NEW n \in Nat, NEW P, 0 \in P, \A k \in 1 .. n : k - 1 \in P => k \in P
  PROVE  0 .. n \subseteq P
<1> DEFINE S == {k \in 0 .. n : k \notin P}
<1>1. SUFFICES ASSUME S # {} PROVE FALSE
  OBVIOUS
<1>2. PICK k \in S : \A y \in S : k <= y
  <2>1. S \subseteq Nat
    OBVIOUS
  <2> HIDE DEF S
  <2>2. QED BY <1>1, <2>1, LeastNumber
<1>3. k \in 1 .. n /\ k - 1 \notin S
  BY <1>2
<1>4. QED BY <1>2, <1>3

\* F is applied to every number up to n and the value at the number before it.
Along(g, n, S, base, F) ==
  /\ g \in [0 .. n -> S]
  /\ g[0] = base
  /\ \A k \in 1 .. n : g[k] = F[<<k, g[k - 1]>>]

LEMMA AlongExists ==
  ASSUME NEW n \in Nat, NEW S, NEW base \in S, NEW F, \A k \in 1 .. n, x \in S : F[<<k, x>>] \in S
  PROVE  \E g : Along(g, n, S, base, F)
<1> DEFINE P == {m \in 0 .. n : \E g : Along(g, m, S, base, F)}
<1>1. 0 \in P
  <2>1. Along([k \in 0 .. 0 |-> base], 0, S, base, F)
    BY DEF Along
  <2>2. QED BY <2>1
<1>2. ASSUME NEW m \in 1 .. n, m - 1 \in P PROVE m \in P
  <2>1. PICK f : Along(f, m - 1, S, base, F)
    BY <1>2
  <2> DEFINE g == [k \in 0 .. m |-> IF k = m THEN F[<<m, f[m - 1]>>] ELSE f[k]]
  <2>2. f \in [0 .. (m - 1) -> S] /\ m - 1 \in 0 .. (m - 1)
    BY <2>1 DEF Along
  <2>3. F[<<m, f[m - 1]>>] \in S
    BY <2>2
  <2>4. g \in [0 .. m -> S]
    BY <2>2, <2>3
  <2>5. g[0] = base
    BY <2>1 DEF Along
  <2>6. ASSUME NEW k \in 1 .. m PROVE g[k] = F[<<k, g[k - 1]>>]
    <3>1. CASE k = m
      BY <3>1
    <3>2. CASE k # m
      <4>1. k \in 1 .. (m - 1) /\ k - 1 # m /\ k - 1 \in 0 .. m /\ k \in 0 .. m
        BY <3>2
      <4>2. f[k] = F[<<k, f[k - 1]>>]
        BY <2>1, <4>1 DEF Along
      <4>3. QED BY <3>2, <4>1, <4>2
    <3>3. QED BY <3>1, <3>2
  <2> HIDE DEF g
  <2>7. Along(g, m, S, base, F)
    BY <2>4, <2>5, <2>6 DEF Along
  <2>8. QED BY <2>7
<1>3. 0 .. n \subseteq P
  <2> HIDE DEF P
  <2>1. QED BY <1>1, <1>2, Upwards
<1>4. n \in P
  BY <1>3
<1>5. QED BY <1>4

-----------------------------------------------------------------------------
(* The screen *)

Screens == [cells : [Cells -> Characters], cursor : 0 .. Size]

\* Blank from the cursor on.
BlankFrom(s) == \A p \in s.cursor .. (Size - 1) : s.cells[p] = Blank

Clean(s) == s.cursor \in Cells /\ BlankFrom(s)

LEMMA Sizes ==
  /\ Width \in Nat /\ Width >= 1 /\ Size \in Nat /\ Size >= Width
  /\ Cells = 0 .. (Size - 1)
  /\ Blank \in Characters /\ Newline \in Characters
<1>1. Width \in Nat /\ Width >= 1 /\ Height \in Nat /\ Height >= 1
  BY ScreenAssumption
<1>2. \A w, h \in Nat : w >= 1 /\ h >= 1 => w * h \in Nat /\ w * h >= w
  OBVIOUS
<1>3. QED BY <1>1, <1>2, ScreenAssumption DEF Size, Cells

LEMMA ScreenFields ==
  ASSUME NEW s \in Screens
  PROVE  /\ s.cells \in [Cells -> Characters] /\ s.cursor \in 0 .. Size
         /\ s = [cells |-> s.cells, cursor |-> s.cursor]
BY DEF Screens

LEMMA ClearedClean == Cleared \in Screens /\ Clean(Cleared)
<1>1. 0 \in Cells /\ 0 \in 0 .. Size
  BY Sizes
<1>2. Cleared.cursor = 0 /\ Cleared.cells = [p \in Cells |-> Blank]
  BY DEF Cleared
<1>3. Cleared \in Screens
  BY <1>1, Sizes DEF Cleared, Screens
<1>4. QED BY <1>1, <1>2, <1>3, Sizes DEF Clean, BlankFrom

\* Scrolling blanks the line the cursor is put on.
LEMMA Scrolled ==
  ASSUME NEW s, s.cells \in [Cells -> Characters]
  PROVE  /\ scroll(s) \in Screens /\ Clean(scroll(s))
         /\ scroll(s).cursor = Size - Width
         /\ \A p \in 0 .. (Size - Width - 1) : scroll(s).cells[p] = s.cells[p + Width]
<1> DEFINE cells == [p \in Cells |-> IF p + Width < Size THEN s.cells[p + Width] ELSE Blank]
<1>1. scroll(s) = [cells |-> cells, cursor |-> Size - Width]
  BY DEF scroll
<1>2. Size - Width \in Cells /\ Size - Width \in 0 .. Size
  BY Sizes
<1>3. cells \in [Cells -> Characters]
  <2>1. ASSUME NEW p \in Cells, p + Width < Size PROVE s.cells[p + Width] \in Characters
    <3>1. p + Width \in Cells
      BY <2>1, Sizes
    <3>2. QED BY <3>1
  <2>2. QED BY <2>1, Sizes
<1>4. \A p \in (Size - Width) .. (Size - 1) : cells[p] = Blank
  BY Sizes
<1>5. \A p \in 0 .. (Size - Width - 1) : cells[p] = s.cells[p + Width]
  BY Sizes
<1> HIDE DEF cells
<1>6. QED BY <1>1, <1>2, <1>3, <1>4, <1>5 DEF Screens, Clean, BlankFrom

\* What printchar leaves of the screen: the new character stands where the cursor
\* was, and from the cursor on the screen is blank.
LEMMA PutFacts ==
  ASSUME NEW s \in Screens, BlankFrom(s), NEW c \in Characters
  PROVE  /\ Put(s, c).cells \in [Cells -> Characters]
         /\ Put(s, c).cursor \in Nat /\ Put(s, c) = [cells |-> Put(s, c).cells, cursor |-> Put(s, c).cursor]
         /\ BlankFrom(Put(s, c))
         /\ c # Newline => /\ Put(s, c).cursor = s.cursor + 1
                           /\ \A p \in Cells : Put(s, c).cells[p] = IF p = s.cursor THEN c ELSE s.cells[p]
<1>1. /\ s.cells \in [Cells -> Characters] /\ s.cursor \in Nat
      /\ s = [cells |-> s.cells, cursor |-> s.cursor]
  BY ScreenFields
<1>2. PICK f, n : f = s.cells /\ n = s.cursor
  OBVIOUS
<1>3. s = [cells |-> f, cursor |-> n] /\ f \in [Cells -> Characters] /\ n \in Nat
  BY <1>1, <1>2
<1>4. \A p \in Cells : p >= n => f[p] = Blank
  BY <1>2, <1>3, Sizes DEF BlankFrom
<1>5. CASE c = Newline
  <2>1. Put(s, c) = [cells |-> f, cursor |-> n + Width - (n % Width)]
    BY <1>3, <1>5 DEF Put
  <2>2. n + Width - (n % Width) \in Nat /\ n + Width - (n % Width) >= n
    BY <1>3, Sizes
  <2>3. PICK m : m = n + Width - (n % Width)
    OBVIOUS
  <2>4. Put(s, c).cells = f /\ Put(s, c).cursor = m /\ Put(s, c) = [cells |-> f, cursor |-> m]
    BY <2>1, <2>3
  <2>5. m \in Nat /\ \A p \in m .. (Size - 1) : p \in Cells /\ p >= n
    BY <1>3, <2>2, <2>3, Sizes
  <2>6. QED BY <1>3, <1>4, <1>5, <2>4, <2>5 DEF BlankFrom
<1>6. CASE c # Newline
  <2>1. Put(s, c) = [cells |-> [f EXCEPT ![n] = c], cursor |-> n + 1]
    BY <1>3, <1>6 DEF Put
  <2>2. [f EXCEPT ![n] = c] \in [Cells -> Characters]
    BY <1>3
  <2>3. \A p \in Cells : [f EXCEPT ![n] = c][p] = IF p = n THEN c ELSE f[p]
    BY <1>3
  <2>4. QED BY <1>3, <1>4, <1>6, <2>1, <2>2, <2>3, Sizes DEF BlankFrom
<1>7. QED BY <1>5, <1>6

LEMMA PrintcharClean ==
  ASSUME NEW s \in Screens, BlankFrom(s), NEW c \in Characters
  PROVE  printchar(s, c) \in Screens /\ Clean(printchar(s, c))
<1> DEFINE t == Put(s, c)
<1>1. /\ t.cells \in [Cells -> Characters] /\ t.cursor \in Nat
      /\ t = [cells |-> t.cells, cursor |-> t.cursor] /\ BlankFrom(t)
  BY PutFacts
<1>2. printchar(s, c) = IF t.cursor >= Size THEN scroll(t) ELSE t
  BY DEF printchar
<1> HIDE DEF t
<1>3. CASE t.cursor >= Size
  BY <1>1, <1>2, <1>3, Scrolled
<1>4. CASE ~(t.cursor >= Size)
  <2>1. t.cursor \in Cells /\ t.cursor \in 0 .. Size
    BY <1>1, <1>4, Sizes
  <2>2. t \in Screens
    BY <1>1, <2>1 DEF Screens
  <2>3. QED BY <1>1, <1>2, <1>4, <2>1, <2>2 DEF Clean
<1>5. QED BY <1>3, <1>4

BlankScreens == {s \in Screens : BlankFrom(s)}

\* The screens a string leaves one after the other.
Shown(g, s, str) ==
  /\ g \in [0 .. Len(str) -> BlankScreens]
  /\ g[0] = s
  /\ \A k \in 1 .. Len(str) : g[k] = printchar(g[k - 1], str[k])

LEMMA Printed ==
  ASSUME NEW s \in BlankScreens, NEW str \in Seq(Characters)
  PROVE  \E g : Shown(g, s, str) /\ printstr(s, str) = g[Len(str)]
<1> DEFINE n == Len(str)
           F == [p \in (1 .. n) \X BlankScreens |-> printchar(p[2], str[p[1]])]
           B(f) == f = [k \in 0 .. n |-> IF k = 0 THEN s ELSE printchar(f[k - 1], str[k])]
           shown == CHOOSE f : B(f)
<1>1. n \in Nat /\ \A k \in 1 .. n : str[k] \in Characters
  OBVIOUS
<1> HIDE DEF n
<1>2. \A k \in 1 .. n, x \in BlankScreens : F[<<k, x>>] = printchar(x, str[k])
  OBVIOUS
<1> HIDE DEF F
<1>3. \A k \in 1 .. n, x \in BlankScreens : F[<<k, x>>] \in BlankScreens
  <2>1. ASSUME NEW k \in 1 .. n, NEW x \in BlankScreens PROVE printchar(x, str[k]) \in BlankScreens
    BY <1>1, PrintcharClean DEF BlankScreens, Clean
  <2>2. QED BY <1>2, <2>1
<1>4. PICK g : Along(g, n, BlankScreens, s, F)
  BY <1>1, <1>3, AlongExists
<1>5. /\ g \in [0 .. n -> BlankScreens] /\ g[0] = s
      /\ \A k \in 1 .. n : g[k] = printchar(g[k - 1], str[k])
  <2>1. ASSUME NEW k \in 1 .. n PROVE g[k] = printchar(g[k - 1], str[k])
    <3>1. g[k - 1] \in BlankScreens
      BY <1>1, <1>4 DEF Along
    <3>2. g[k] = F[<<k, g[k - 1]>>]
      BY <1>4 DEF Along
    <3>3. QED BY <1>2, <3>1, <3>2
  <2>2. QED BY <1>4, <2>1 DEF Along
<1>6. B(g)
  <2>1. \A k \in 0 .. n : g[k] = IF k = 0 THEN s ELSE printchar(g[k - 1], str[k])
    BY <1>1, <1>5
  <2>2. QED BY <1>5, <2>1
<1>7. B(shown)
  BY <1>6, Zenon
<1>8. printstr(s, str) = shown[n]
  BY DEF printstr, n
<1> HIDE DEF shown
<1>9. /\ DOMAIN shown = 0 .. n
      /\ \A k \in 0 .. n : shown[k] = IF k = 0 THEN s ELSE printchar(shown[k - 1], str[k])
  <2> DEFINE body == [k \in 0 .. n |-> IF k = 0 THEN s ELSE printchar(shown[k - 1], str[k])]
  <2>1. shown = body
    BY <1>7
  <2>2. DOMAIN body = 0 .. n
    OBVIOUS
  <2>3. \A k \in 0 .. n : body[k] = IF k = 0 THEN s ELSE printchar(shown[k - 1], str[k])
    OBVIOUS
  <2> HIDE DEF body
  <2>4. QED BY <2>1, <2>2, <2>3
<1>10. \A k \in 0 .. n : shown[k] = g[k]
  <2> DEFINE P == {k \in 0 .. n : shown[k] = g[k]}
  <2>1. 0 \in P
    BY <1>1, <1>5, <1>9
  <2>2. \A k \in 1 .. n : k - 1 \in P => k \in P
    BY <1>1, <1>5, <1>9
  <2>3. 0 .. n \subseteq P
    <3> HIDE DEF P
    <3>1. QED BY <1>1, <2>1, <2>2, Upwards
  <2>4. QED BY <2>3
<1>11. QED BY <1>1, <1>5, <1>8, <1>10 DEF Shown, n

LEMMA PrintstrClean ==
  ASSUME NEW s \in Screens, BlankFrom(s), NEW str \in Seq(Characters)
  PROVE  /\ printstr(s, str) \in Screens /\ BlankFrom(printstr(s, str))
         /\ Clean(s) \/ str # <<>> => Clean(printstr(s, str))
<1>1. s \in BlankScreens
  BY DEF BlankScreens
<1>2. PICK g : Shown(g, s, str) /\ printstr(s, str) = g[Len(str)]
  BY <1>1, Printed
<1>3. Len(str) \in Nat /\ Len(str) \in 0 .. Len(str)
  OBVIOUS
<1>4. g[Len(str)] \in Screens /\ BlankFrom(g[Len(str)])
  BY <1>2, <1>3 DEF Shown, BlankScreens
<1>5. CASE str = <<>>
  <2>1. Len(str) = 0
    BY <1>5
  <2>2. QED BY <1>2, <1>4, <1>5, <2>1 DEF Shown
<1>6. CASE str # <<>>
  <2>1. PICK n \in Nat : n = Len(str)
    BY <1>3
  <2>2. n # 0 /\ n \in 1 .. n /\ n - 1 \in 0 .. n /\ str[n] \in Characters
    BY <1>6, <2>1
  <2>3. g[n - 1] \in Screens /\ BlankFrom(g[n - 1]) /\ g[n] = printchar(g[n - 1], str[n])
    BY <1>2, <2>1, <2>2 DEF Shown, BlankScreens
  <2>4. Clean(g[n])
    BY <2>2, <2>3, PrintcharClean
  <2>5. QED BY <1>2, <1>4, <2>1, <2>4
<1>7. QED BY <1>5, <1>6

LEMMA DelcharClean ==
  ASSUME NEW s \in Screens, Clean(s)
  PROVE  delchar(s) \in Screens /\ Clean(delchar(s))
<1>1. PICK f, n : f = s.cells /\ n = s.cursor
  OBVIOUS
<1>2. s = [cells |-> f, cursor |-> n] /\ f \in [Cells -> Characters] /\ n \in Cells
  BY <1>1, ScreenFields DEF Clean
<1> DEFINE m == IF n > 0 THEN n - 1 ELSE 0
<1>3. m \in Cells /\ m \in 0 .. Size /\ \A p \in m .. (Size - 1) : p = m \/ p \in n .. (Size - 1)
  BY <1>2, Sizes
<1>4. delchar(s) = [cells |-> [f EXCEPT ![m] = Blank], cursor |-> m]
  <2>1. delchar(s) = [s EXCEPT !.cells[m] = Blank, !.cursor = m]
    BY <1>1 DEF delchar
  <2> HIDE DEF m
  <2>2. [s EXCEPT !.cells[m] = Blank, !.cursor = m] = [cells |-> [f EXCEPT ![m] = Blank], cursor |-> m]
    <3>1. PICK t : t = [s EXCEPT !.cells[m] = Blank]
      OBVIOUS
    <3>2. t = [cells |-> [f EXCEPT ![m] = Blank], cursor |-> n]
      BY <1>2, <3>1
    <3>3. [t EXCEPT !.cursor = m] = [cells |-> [f EXCEPT ![m] = Blank], cursor |-> m]
      BY <3>2
    <3>4. [s EXCEPT !.cells[m] = Blank, !.cursor = m] = [t EXCEPT !.cursor = m]
      BY <3>1
    <3>5. QED BY <3>3, <3>4
  <2>3. QED BY <2>1, <2>2
<1> HIDE DEF m
<1>5. \A p \in n .. (Size - 1) : f[p] = Blank
  BY <1>1 DEF Clean, BlankFrom
<1>6. [f EXCEPT ![m] = Blank] \in [Cells -> Characters]
  BY <1>2, <1>3, Sizes
<1>7. \A p \in m .. (Size - 1) : [f EXCEPT ![m] = Blank][p] = Blank
  <2>1. \A p \in m .. (Size - 1) : p \in Cells
    BY <1>3, Sizes
  <2>2. QED BY <1>2, <1>3, <1>5, <2>1
<1>8. QED BY <1>3, <1>4, <1>6, <1>7 DEF Screens, Clean, BlankFrom

\* The title stands in the first line of an empty screen.
LEMMA TitleClean ==
  LET s == printstr(printct(paintline(Cleared, 0), Title), <<Newline, Newline>>)
  IN s \in Screens /\ Clean(s)
<1> DEFINE p0 == paintline(Cleared, 0)
           length == IF Len(Title) > Width THEN Width ELSE Len(Title)
           from == (p0.cursor \div Width) * Width + ((Width - length) \div 2)
           cells == [p \in Cells |-> IF p \in from .. (from + length - 1) THEN Title[p - from + 1]
                                     ELSE p0.cells[p]]
           t == printct(p0, Title)
<1>1. Title \in Seq(Characters) /\ Len(Title) \in Nat
  BY LineInputAssumption
<1>2. /\ p0.cursor = 0 /\ \A p \in Cells : p0.cells[p] = Blank
  <2>1. ~(0 >= Height) /\ 0 \div Width = 0 /\ 0 * Width = 0
    BY ScreenAssumption
  <2>2. Cleared.cursor = 0 /\ Cleared.cells = [p \in Cells |-> Blank]
    BY DEF Cleared
  <2> DEFINE painted == [p \in Cells |-> IF p \div Width = 0 THEN Blank ELSE Cleared.cells[p]]
  <2>3. p0 = [cells |-> painted, cursor |-> 0]
    BY <2>1, <2>2 DEF paintline
  <2>4. \A p \in Cells : painted[p] = Blank
    BY <2>2
  <2> HIDE DEF painted
  <2>5. QED BY <2>3, <2>4
<1> HIDE DEF p0
<1>3. length \in Nat /\ length <= Width /\ length <= Len(Title)
  BY <1>1, Sizes
<1>4. from \in Nat /\ from + length <= Width
  <2>1. (0 \div Width) * Width = 0
    BY Sizes
  <2> HIDE DEF length
  <2>2. (Width - length) \div 2 \in Nat /\ ((Width - length) \div 2) + length <= Width
    BY <1>3, Sizes
  <2>3. QED BY <1>2, <1>3, <2>1, <2>2
<1>5. t = [cells |-> cells, cursor |-> from + length]
  BY DEF printct
<1> HIDE DEF t
<1>6. cells \in [Cells -> Characters]
  <2> HIDE DEF from, length
  <2>1. ASSUME NEW p \in Cells, p \in from .. (from + length - 1) PROVE Title[p - from + 1] \in Characters
    <3>1. p - from + 1 \in 1 .. Len(Title)
      BY <1>1, <1>3, <1>4, <2>1
    <3>2. QED BY <1>1, <3>1
  <2>2. QED BY <1>2, <2>1, Sizes
<1>7. \A p \in (from + length) .. (Size - 1) : cells[p] = Blank
  <2> HIDE DEF from, length
  <2>1. \A p \in (from + length) .. (Size - 1) : p \in Cells /\ p \notin from .. (from + length - 1)
    BY <1>3, <1>4, Sizes
  <2>2. QED BY <1>2, <2>1
<1>8. from + length \in 0 .. Size
  <2> HIDE DEF from, length
  <2>1. QED BY <1>3, <1>4, Sizes
<1> HIDE DEF cells, from, length
<1>9. t \in Screens /\ BlankFrom(t)
  BY <1>5, <1>6, <1>7, <1>8 DEF Screens, BlankFrom
<1>10. <<Newline, Newline>> \in Seq(Characters) /\ <<Newline, Newline>> # <<>>
  BY Sizes
<1>11. QED BY <1>9, <1>10, PrintstrClean DEF t, p0

\* What stands before the cursor, and a line as it is echoed, are strings.
LEMMA BeforeType ==
  ASSUME NEW s \in Screens
  PROVE  /\ Before(s) \in Seq(Characters) /\ Len(Before(s)) = s.cursor
         /\ \A p \in 0 .. (s.cursor - 1) : s.cells[p] \in Characters /\ Before(s)[p + 1] = s.cells[p]
<1>1. s.cells \in [Cells -> Characters] /\ s.cursor \in Nat /\ s.cursor <= Size
  BY ScreenFields
<1>2. \A p \in 1 .. s.cursor : s.cells[p - 1] \in Characters
  BY <1>1, Sizes
<1>3. Before(s) \in [1 .. s.cursor -> Characters]
  BY <1>2 DEF Before
<1>4. \A p \in 0 .. (s.cursor - 1) : p + 1 \in 1 .. s.cursor /\ p + 1 - 1 = p
  BY <1>1
<1>5. \A p \in 0 .. (s.cursor - 1) : Before(s)[p + 1] = s.cells[p]
  BY <1>4 DEF Before
<1>6. QED BY <1>1, <1>2, <1>3, <1>4, <1>5

LEMMA EchoType ==
  ASSUME NEW r, NEW str \in Seq(Characters)
  PROVE  EchoIn(r, str) \in Seq(Characters) /\ Len(EchoIn(r, str)) = Len(str)
<1>1. DOMAIN str = 1 .. Len(str) /\ Len(str) \in Nat /\ \A n \in 1 .. Len(str) : str[n] \in Characters
  OBVIOUS
<1>2. "*" \in Characters
  BY LineInputAssumption
<1>3. EchoIn(r, str) \in [1 .. Len(str) -> Characters]
  BY <1>1, <1>2 DEF EchoIn
<1>4. QED BY <1>1, <1>3

-----------------------------------------------------------------------------
(* Types, and a screen that is blank from the cursor on *)

TypeInv == TypeOK /\ BlankBehind

CodeRecords == [key : Keys, up : BOOLEAN]

LEMMA ScreenClean == (TypeOK => screen \in Screens) /\ (BlankBehind <=> Clean(screen))
BY DEF TypeOK, Screens, BlankBehind, Clean, BlankFrom

LEMMA ScreenClean2 == (screen' \in Screens /\ Clean(screen)') => BlankBehind'
BY DEF Screens, BlankBehind, Clean, BlankFrom

LEMMA RequestFields ==
  ASSUME NEW r \in Requests \cup {Question}
  PROVE  /\ r.max \in Nat /\ r.max >= 1 /\ r.base \in Seq(Characters \ {Newline})
         /\ r.kind \in {"line", "yn"} /\ (r.kind = "yn" => r = Question)
<1>1. CASE r = Question
  <2>1. <<>> \in Seq(Characters \ {Newline})
    OBVIOUS
  <2>2. QED BY <1>1, <2>1 DEF Question
<1>2. CASE r \in Requests
  BY <1>2, LineInputAssumption
<1>3. QED BY <1>1, <1>2

LEMMA FilledType ==
  ASSUME NEW r \in Requests \cup {Question}
  PROVE  /\ Filled(r) \in Seq(Characters \ {Newline}) /\ Len(Filled(r)) < r.max
         /\ Filled(r) \in Seq(Characters)
<1>1. PICK m, b : m = r.max /\ b = r.base
  OBVIOUS
<1>2. m \in Nat /\ m >= 1 /\ b \in Seq(Characters \ {Newline})
  BY <1>1, RequestFields
<1>3. PICK n \in Nat : n = Len(b)
  BY <1>2
<1>4. Filled(r) = IF n < m THEN b ELSE SubSeq(b, 1, m - 1)
  BY <1>1, <1>3 DEF Filled
<1>5. CASE n < m
  BY <1>1, <1>2, <1>3, <1>4, <1>5
<1>6. CASE ~(n < m)
  <2>1. m - 1 \in Nat /\ m - 1 <= n /\ m - 1 < m
    BY <1>2, <1>6
  <2>2. SubSeq(b, 1, m - 1) \in Seq(Characters \ {Newline}) /\ Len(SubSeq(b, 1, m - 1)) = m - 1
    BY <1>2, <1>3, <2>1
  <2>3. QED BY <1>1, <1>4, <1>6, <2>1, <2>2
<1>7. QED BY <1>5, <1>6

LEMMA StartTypes ==
  ASSUME NEW s \in Screens, Clean(s), NEW r \in Requests \cup {Question}, Start(s, r)
  PROVE  /\ screen' \in Screens /\ Clean(screen)'
         /\ buffer' \in Seq(Characters) /\ above' \in Seq(Characters)
         /\ request' = r /\ Len(buffer') < r.max
<1>1. Filled(r) \in Seq(Characters) /\ Len(Filled(r)) < r.max
  BY FilledType
<1>2. EchoIn(r, Filled(r)) \in Seq(Characters)
  BY <1>1, EchoType
<1>3. screen' = printstr(s, EchoIn(r, Filled(r))) /\ above' = Before(s) /\ buffer' = Filled(r) /\ request' = r
  BY DEF Start
<1>4. printstr(s, EchoIn(r, Filled(r))) \in Screens /\ Clean(printstr(s, EchoIn(r, Filled(r))))
  BY <1>2, PrintstrClean DEF Clean
<1>5. Before(s) \in Seq(Characters)
  BY BeforeType
<1>6. Clean(screen)'
  BY <1>3, <1>4 DEF Clean, BlankFrom
<1>7. QED BY <1>1, <1>3, <1>4, <1>5, <1>6

LEMMA AskedClean ==
  ASSUME NEW s \in Screens, Clean(s)
  PROVE  Asked(s) \in Screens /\ Clean(Asked(s))
<1>1. <<Blank>> \in Seq(Characters) /\ YesNoText \in Seq(Characters)
  BY Sizes, LineInputAssumption
<1>2. printstr(s, <<Blank>>) \in Screens /\ Clean(printstr(s, <<Blank>>))
  BY <1>1, PrintstrClean DEF Clean
<1>3. QED BY <1>1, <1>2, PrintstrClean DEF Asked, Clean

LEMMA InitTypes == Init => TypeInv
<1> SUFFICES ASSUME Init PROVE TypeInv
  OBVIOUS
<1>1. screen \in Screens /\ Clean(screen)
  BY ClearedClean DEF Init
<1>2. codes \in Seq(CodeRecords) /\ Len(codes) = 0 /\ buffer \in Seq(Characters) /\ above \in Seq(Characters)
  BY DEF Init
<1>3. Len(codes) <= MaxCodes
  BY <1>2, LineInputAssumption
<1>4. TypeOK
  BY <1>1, <1>2, <1>3 DEF Init, TypeOK, Screens, CodeRecords
<1>5. QED BY <1>1, <1>4, ScreenClean DEF TypeInv

LEMMA SentType ==
  ASSUME TypeOK, NEW k \in Keys, NEW up \in BOOLEAN, Send(k, up)
  PROVE  codes' \in Seq(CodeRecords) /\ Len(codes') <= MaxCodes
<1>1. codes \in Seq(CodeRecords) /\ Len(codes) <= MaxCodes /\ MaxCodes \in Nat
  BY LineInputAssumption DEF TypeOK, CodeRecords
<1>2. PICK c \in CodeRecords : c = [key |-> k, up |-> up]
  BY DEF CodeRecords
<1>3. CASE Room
  <2>1. codes' = Append(codes, c) /\ Len(codes) < MaxCodes
    BY <1>2, <1>3 DEF Send, Room
  <2>2. Append(codes, c) \in Seq(CodeRecords) /\ Len(Append(codes, c)) = Len(codes) + 1 /\ Len(codes) \in Nat
    BY <1>1
  <2>3. QED BY <1>1, <2>1, <2>2
<1>4. CASE ~Room
  BY <1>1, <1>4 DEF Send
<1>5. QED BY <1>3, <1>4

LEMMA KeyboardTypes ==
  ASSUME TypeInv, NEW k \in Keys, Press(k) \/ Repeat(k) \/ Release(k)
  PROVE  TypeInv'
<1>1. TypeOK /\ BlankBehind
  BY DEF TypeInv
<1>2. UNCHANGED <<screen, input>> /\ Changed(k) /\ pressed' \subseteq Keys
      /\ (Send(k, TRUE) \/ Send(k, FALSE))
  BY <1>1 DEF Press, Repeat, Release, TypeOK
<1>3. codes' \in Seq(CodeRecords) /\ Len(codes') <= MaxCodes
  BY <1>1, <1>2, SentType
<1>4. missed' \subseteq Keys
  BY <1>1, <1>2 DEF Changed, TypeOK
<1>5. TypeOK'
  BY <1>1, <1>2, <1>3, <1>4 DEF TypeOK, input, CodeRecords
<1>6. BlankBehind'
  BY <1>1, <1>2 DEF BlankBehind
<1>7. QED BY <1>5, <1>6 DEF TypeInv

LEMMA StartTypeInv ==
  ASSUME TypeInv, NEW s \in Screens, Clean(s), NEW r \in Requests \cup {Question}, Start(s, r),
         UNCHANGED <<pressed, missed>>, key_states' \subseteq Keys, shifts' \subseteq ShiftKeys,
         codes' \in Seq(CodeRecords), Len(codes') <= MaxCodes
  PROVE  TypeInv'
<1>1. /\ screen' \in Screens /\ Clean(screen)'
      /\ buffer' \in Seq(Characters) /\ above' \in Seq(Characters)
      /\ request' = r /\ Len(buffer') < r.max
  BY StartTypes
<1>2. TypeOK'
  BY <1>1 DEF TypeInv, TypeOK, Screens, CodeRecords
<1>3. QED BY <1>1, <1>2, ScreenClean2 DEF TypeInv

LEMMA ProgramTypes ==
  ASSUME TypeInv, (\E prompt \in Prompts, r \in Requests : read_str(prompt, r)) \/ read_yn \/ Output
  PROVE  TypeInv'
<1>1. TypeOK /\ screen \in Screens /\ Clean(screen)
  BY ScreenClean DEF TypeInv
<1>2. /\ key_states \subseteq Keys /\ shifts \subseteq ShiftKeys
      /\ codes \in Seq(CodeRecords) /\ Len(codes) <= MaxCodes
  BY <1>1 DEF TypeOK, CodeRecords
<1>3. ASSUME NEW prompt \in Prompts, NEW r \in Requests, read_str(prompt, r) PROVE TypeInv'
  <2>1. prompt \in Seq(Characters)
    BY LineInputAssumption
  <2>2. printstr(screen, prompt) \in Screens /\ Clean(printstr(screen, prompt))
    BY <1>1, <2>1, PrintstrClean DEF Clean
  <2>3. Start(printstr(screen, prompt), r) /\ UNCHANGED <<keyboard, key_states, shifts>>
    BY <1>3 DEF read_str
  <2>4. QED BY <1>2, <2>2, <2>3, StartTypeInv DEF keyboard
<1>4. CASE read_yn
  <2>1. Start(Asked(screen), Question) /\ UNCHANGED <<keyboard, key_states, shifts>>
    BY <1>4 DEF read_yn
  <2>2. QED BY <1>1, <1>2, <2>1, AskedClean, StartTypeInv DEF keyboard
<1>5. CASE Output
  <2>1. UNCHANGED <<keyboard, input>> /\ screen' \in Screens /\ Clean(screen)'
    <3>1. CASE Show(Cleared)
      BY <3>1, ClearedClean DEF Show, Clean, BlankFrom
    <3>2. CASE Show(printstr(printct(paintline(Cleared, 0), Title), <<Newline, Newline>>))
      BY <3>2, TitleClean DEF Show, Clean, BlankFrom
    <3>3. QED BY <1>5, <3>1, <3>2 DEF Output
  <2>2. TypeOK'
    BY <1>1, <2>1 DEF TypeOK, keyboard, input, Screens
  <2>3. QED BY <2>1, <2>2, ScreenClean2 DEF TypeInv
<1>6. QED BY <1>3, <1>4, <1>5

LEMMA PolledType ==
  ASSUME TypeOK, Polled
  PROVE  /\ codes # <<>> /\ codes \in Seq(CodeRecords) /\ Code \in CodeRecords /\ Code = codes[1]
         /\ Code.key \in Keys /\ Code.up \in BOOLEAN /\ codes' = Tail(codes)
         /\ codes' \in Seq(CodeRecords) /\ Len(codes') = Len(codes) - 1 /\ Len(codes') <= MaxCodes
         /\ UNCHANGED <<pressed, missed>> /\ request \in Requests \cup {Question}
         /\ Len(buffer) < request.max
<1>1. codes \in Seq(CodeRecords) /\ codes # <<>> /\ Len(codes) <= MaxCodes /\ codes' = Tail(codes)
      /\ UNCHANGED <<pressed, missed>>
  BY DEF TypeOK, Polled, CodeRecords
<1>2. Code \in CodeRecords /\ Code = codes[1] /\ Tail(codes) \in Seq(CodeRecords)
      /\ Len(Tail(codes)) = Len(codes) - 1 /\ Len(codes) \in Nat
  BY <1>1 DEF Code
<1>3. Code.key \in Keys /\ Code.up \in BOOLEAN
  BY <1>2 DEF CodeRecords
<1>4. Len(codes') <= MaxCodes
  BY <1>1, <1>2, LineInputAssumption
<1>5. request \in Requests \cup {Question} /\ Len(buffer) < request.max
  BY DEF TypeOK, Polled
<1>6. QED BY <1>1, <1>2, <1>3, <1>4, <1>5

LEMMA CharType ==
  ASSUME NEW k \in Keys, k # Enter, NEW held, Char(k, held) # NoChar
  PROVE  Char(k, held) \in Characters /\ Char(k, held) # Newline
BY LineInputAssumption DEF Char

LEMMA EchoChar ==
  ASSUME NEW c \in Characters, c # Newline
  PROVE  Echo(c) \in Characters /\ Echo(c) # Newline
<1>1. "*" # Newline
  BY DEF Newline
<1>2. QED BY <1>1, LineInputAssumption DEF Echo

LEMMA ErasedType ==
  ASSUME NEW l \in Seq(Characters), NEW max
  PROVE  /\ l = <<>> => Edited(l, "erase", max) = l
         /\ l # <<>> => /\ Edited(l, "erase", max) \in Seq(Characters)
                        /\ Len(Edited(l, "erase", max)) = Len(l) - 1
                        /\ \A n \in 1 .. (Len(l) - 1) : Edited(l, "erase", max)[n] = l[n]
<1>1. Edited(l, "erase", max) = IF l = <<>> THEN l ELSE SubSeq(l, 1, Len(l) - 1)
  BY DEF Edited, Front
<1>2. l # <<>> => /\ SubSeq(l, 1, Len(l) - 1) \in Seq(Characters)
                  /\ Len(SubSeq(l, 1, Len(l) - 1)) = Len(l) - 1
                  /\ \A n \in 1 .. (Len(l) - 1) : SubSeq(l, 1, Len(l) - 1)[n] = l[n]
  <2>1. SUFFICES ASSUME l # <<>>
                 PROVE  /\ SubSeq(l, 1, Len(l) - 1) \in Seq(Characters)
                        /\ Len(SubSeq(l, 1, Len(l) - 1)) = Len(l) - 1
                        /\ \A n \in 1 .. (Len(l) - 1) : SubSeq(l, 1, Len(l) - 1)[n] = l[n]
    OBVIOUS
  <2>2. PICK m \in Nat : Len(l) = m + 1
    <3>1. Len(l) \in Nat /\ Len(l) # 0
      BY <2>1
    <3>2. Len(l) - 1 \in Nat /\ Len(l) = (Len(l) - 1) + 1
      BY <3>1
    <3>3. QED BY <3>2
  <2>3. m = Len(l) - 1 /\ \A n \in 1 .. m : n \in 1 .. Len(l)
    BY <2>2
  <2>4. SubSeq(l, 1, m) \in Seq(Characters) /\ Len(SubSeq(l, 1, m)) = m
    BY <2>2, <2>3
  <2>5. \A n \in 1 .. m : SubSeq(l, 1, m)[n] = l[n]
    BY <2>2, <2>3
  <2>6. QED BY <2>3, <2>4, <2>5
<1>3. QED BY <1>1, <1>2

LEMMA NextLine ==
  ASSUME NEW s \in Screens, Clean(s)
  PROVE  printchar(s, Newline) \in Screens /\ Clean(printchar(s, Newline))
BY PrintcharClean, Sizes DEF Clean

\* The screen on which read_yn asks again.
Again == Asked(printchar(printstr(printchar(screen, Newline), ErrorText), Newline))

LEMMA AgainClean ==
  ASSUME screen \in Screens, Clean(screen)
  PROVE  Again \in Screens /\ Clean(Again)
<1>1. PICK s : s = printchar(screen, Newline)
  OBVIOUS
<1>2. s \in Screens /\ Clean(s)
  BY <1>1, NextLine
<1>3. PICK t : t = printstr(s, ErrorText)
  OBVIOUS
<1>4. t \in Screens /\ Clean(t)
  BY <1>2, <1>3, PrintstrClean, LineInputAssumption DEF Clean
<1>5. PICK u : u = printchar(t, Newline)
  OBVIOUS
<1>6. u \in Screens /\ Clean(u)
  BY <1>4, <1>5, NextLine
<1>7. Again = Asked(u)
  BY <1>1, <1>3, <1>5 DEF Again
<1>8. QED BY <1>6, <1>7, AskedClean

\* What enter does: ask again, or give the line to the caller.
LEMMA EnterCases ==
  ASSUME TypeOK, TakeEnter
  PROVE  \/ /\ request = Question /\ buffer \notin Yes \cup No
            /\ Start(Again, Question)
         \/ /\ ~(request.kind = "yn" /\ buffer \notin Yes \cup No)
            /\ request' = NoRequest /\ buffer' = <<>> /\ above' = <<>>
            /\ screen' = printchar(screen, Newline)
<1>1. request \in Requests \cup {Question}
  BY PolledType DEF TakeEnter, GoesDown
<1>2. CASE request.kind = "yn" /\ buffer \notin Yes \cup No
  <2>1. request = Question
    BY <1>1, <1>2, RequestFields
  <2>2. Start(Again, request)
    BY <1>2 DEF TakeEnter, Again
  <2>3. QED BY <1>2, <2>1, <2>2
<1>3. CASE ~(request.kind = "yn" /\ buffer \notin Yes \cup No)
  BY <1>3 DEF TakeEnter
<1>4. QED BY <1>2, <1>3

LEMMA PollTypes == TypeInv /\ Poll => TypeInv'
<1> SUFFICES ASSUME TypeInv, Poll PROVE TypeInv'
  OBVIOUS
<1>1. TypeOK /\ screen \in Screens /\ Clean(screen) /\ BlankBehind
  BY ScreenClean DEF TypeInv
<1>2. Polled
  BY DEF Poll, GoesUp, Held, TakeEnter, TakeBackspace, TakeShift, TakeChar, GoesDown
<1>3. /\ Code.key \in Keys /\ codes' \in Seq(CodeRecords) /\ Len(codes') <= MaxCodes
      /\ UNCHANGED <<pressed, missed>> /\ request \in Requests \cup {Question} /\ Len(buffer) < request.max
  BY <1>1, <1>2, PolledType
<1>4. pressed \subseteq Keys /\ missed \subseteq Keys /\ key_states \subseteq Keys /\ shifts \subseteq ShiftKeys
      /\ buffer \in Seq(Characters) /\ above \in Seq(Characters)
  BY <1>1 DEF TypeOK
<1>5. CASE GoesUp \/ Held \/ TakeShift
  <2>1. key_states' \subseteq Keys /\ shifts' \subseteq ShiftKeys /\ UNCHANGED <<screen, buffer, request, above>>
    BY <1>3, <1>4, <1>5 DEF GoesUp, Held, TakeShift, GoesDown, input
  <2>2. TypeOK'
    BY <1>1, <1>3, <2>1 DEF TypeOK, CodeRecords
  <2>3. QED BY <1>1, <2>1, <2>2 DEF TypeInv, BlankBehind
<1>6. CASE TakeEnter
  <2>1. key_states' \subseteq Keys /\ shifts' \subseteq ShiftKeys
    BY <1>3, <1>4, <1>6 DEF TakeEnter, GoesDown
  <2>2. CASE Start(Again, Question)
    BY <1>1, <1>3, <2>1, <2>2, AgainClean, StartTypeInv
  <2>3. CASE request' = NoRequest /\ buffer' = <<>> /\ above' = <<>> /\ screen' = printchar(screen, Newline)
    <3>1. screen' \in Screens /\ Clean(screen)'
      BY <1>1, <2>3, NextLine DEF Clean, BlankFrom
    <3>2. buffer' \in Seq(Characters) /\ above' \in Seq(Characters)
      BY <2>3
    <3>3. request' \in Requests \cup {Question, NoRequest} /\ (request' # NoRequest => Len(buffer') < request'.max)
      BY <2>3
    <3>4. TypeOK'
      BY <1>3, <1>4, <2>1, <3>1, <3>2, <3>3 DEF TypeOK, Screens, CodeRecords
    <3>5. QED BY <3>1, <3>4, ScreenClean2 DEF TypeInv
  <2>4. QED BY <1>1, <1>6, <2>2, <2>3, EnterCases
<1>7. CASE TakeBackspace
  <2>1. /\ key_states' \subseteq Keys /\ shifts' = shifts /\ UNCHANGED <<request, above>>
        /\ buffer' = Edited(buffer, "erase", request.max)
        /\ screen' = IF buffer = <<>> THEN screen ELSE delchar(screen)
    BY <1>3, <1>4, <1>7 DEF TakeBackspace, GoesDown
  <2>2. screen' \in Screens /\ Clean(screen)'
    BY <1>1, <2>1, DelcharClean DEF Clean, BlankFrom
  <2>3. buffer' \in Seq(Characters) /\ Len(buffer') < request.max
    <3>1. CASE buffer = <<>>
      BY <1>3, <1>4, <2>1, <3>1, ErasedType
    <3>2. CASE buffer # <<>>
      <4>1. buffer' \in Seq(Characters) /\ Len(buffer') = Len(buffer) - 1
        BY <1>4, <2>1, <3>2, ErasedType
      <4>2. Len(buffer) \in Nat /\ request.max \in Nat
        BY <1>3, <1>4, RequestFields
      <4>3. QED BY <1>3, <4>1, <4>2
    <3>3. QED BY <3>1, <3>2
  <2>4. TypeOK'
    BY <1>3, <1>4, <2>1, <2>2, <2>3 DEF TypeOK, Screens, CodeRecords
  <2>5. QED BY <2>2, <2>4, ScreenClean2 DEF TypeInv
<1>8. CASE TakeChar
  <2>1. key_states' \subseteq Keys /\ UNCHANGED <<shifts, request, above>> /\ Code.key # Enter
    BY <1>3, <1>4, <1>8 DEF TakeChar, GoesDown
  <2>2. CASE UNCHANGED <<buffer, screen>>
    <3>1. TypeOK'
      BY <1>1, <1>3, <2>1, <2>2 DEF TypeOK, CodeRecords
    <3>2. QED BY <1>1, <2>2, <3>1 DEF TypeInv, BlankBehind
  <2>3. ASSUME NEW c, c = Char(Code.key, shifts), c # NoChar, Len(buffer) < request.max - 1,
               buffer' = Append(buffer, c), screen' = printchar(screen, Echo(c))
        PROVE  TypeInv'
    <3>1. c \in Characters /\ Echo(c) \in Characters
      BY <1>3, <2>1, <2>3, CharType, EchoChar
    <3>2. screen' \in Screens /\ Clean(screen)'
      BY <1>1, <2>3, <3>1, PrintcharClean DEF Clean, BlankFrom
    <3>3. buffer' \in Seq(Characters) /\ Len(buffer') < request.max
      <4>1. buffer' \in Seq(Characters) /\ Len(buffer') = Len(buffer) + 1
        BY <1>4, <2>3, <3>1
      <4>2. Len(buffer) \in Nat /\ request.max \in Nat
        BY <1>3, <1>4, RequestFields
      <4>3. QED BY <2>3, <4>1, <4>2
    <3>4. TypeOK'
      BY <1>3, <1>4, <2>1, <3>2, <3>3 DEF TypeOK, Screens, CodeRecords
    <3>5. QED BY <3>2, <3>4, ScreenClean2 DEF TypeInv
  <2>4. QED BY <1>8, <2>2, <2>3 DEF TakeChar
<1>9. QED BY <1>5, <1>6, <1>7, <1>8 DEF Poll

LEMMA TypesKept == TypeInv /\ [Next]_vars => TypeInv'
<1> SUFFICES ASSUME TypeInv, [Next]_vars PROVE TypeInv'
  OBVIOUS
<1>1. CASE \E k \in Keys : Press(k) \/ Repeat(k) \/ Release(k)
  BY <1>1, KeyboardTypes
<1>2. CASE (\E prompt \in Prompts, r \in Requests : read_str(prompt, r)) \/ read_yn \/ Output
  BY <1>2, ProgramTypes
<1>3. CASE Poll
  BY <1>3, PollTypes
<1>4. CASE UNCHANGED vars
  BY <1>4 DEF vars, keyboard, input, TypeInv, TypeOK, BlankBehind
<1>5. QED BY <1>1, <1>2, <1>3, <1>4 DEF Next

\* Whatever programs print and keys are pressed, the cursor stays in video memory
\* and everything from it on is blank.
THEOREM AlwaysBlankBehind == FairSpec => [](TypeOK /\ BlankBehind)
<1>1. Init => TypeOK /\ BlankBehind
  BY InitTypes DEF TypeInv
<1>2. (TypeOK /\ BlankBehind) /\ [Next]_vars => (TypeOK /\ BlankBehind)'
  BY TypesKept DEF TypeInv
<1>3. QED BY <1>1, <1>2, PTL DEF FairSpec, Spec

-----------------------------------------------------------------------------
(* The line on the screen *)

\* Before the cursor stand the last characters of t.
Shows(s, t) ==
  /\ s.cursor <= Len(t)
  /\ \A p \in 0 .. (s.cursor - 1) : s.cells[p] = t[Len(t) - s.cursor + p + 1]

LEMMA Reversed ==
  ASSUME NEW S, NEW s \in Seq(S), NEW n \in Nat, n <= Len(s)
  PROVE  /\ Len(Reverse(s)) = Len(s)
         /\ SubSeq(Reverse(s), 1, n) \in Seq(S) /\ Len(SubSeq(Reverse(s), 1, n)) = n
         /\ \A i \in 1 .. n : SubSeq(Reverse(s), 1, n)[i] = s[Len(s) - i + 1]
<1>1. PICK m \in Nat : m = Len(s)
  OBVIOUS
<1>2. \A i \in 1 .. m : m - i + 1 \in 1 .. m
  BY <1>1
<1>3. \A i \in 1 .. m : s[m - i + 1] \in S
  BY <1>1, <1>2
<1>4. PICK r : r = [i \in 1 .. m |-> s[m - i + 1]]
  OBVIOUS
<1>5. Reverse(s) = r
  BY <1>1, <1>4 DEF Reverse
<1>6. r \in [1 .. m -> S]
  BY <1>3, <1>4
<1>7. r \in Seq(S) /\ Len(r) = m
  BY <1>6
<1>8. \A i \in 1 .. n : i \in 1 .. m /\ r[i] = s[m - i + 1]
  BY <1>1, <1>4
<1>9. SubSeq(r, 1, n) \in Seq(S) /\ Len(SubSeq(r, 1, n)) = n
  BY <1>1, <1>7
<1>10. \A i \in 1 .. n : SubSeq(r, 1, n)[i] = r[i]
  BY <1>1, <1>7
<1>11. QED BY <1>1, <1>5, <1>7, <1>8, <1>9, <1>10

LEMMA SuffixShows ==
  ASSUME NEW s \in Screens, NEW t \in Seq(Characters)
  PROVE  IsSuffix(Before(s), t) <=> Shows(s, t)
<1>1. PICK n, m \in Nat : n = s.cursor /\ m = Len(t)
  BY ScreenFields
<1>2. PICK b : b = Before(s)
  OBVIOUS
<1>3. b \in Seq(Characters) /\ Len(b) = n /\ n \in Nat /\ \A p \in 0 .. (n - 1) : b[p + 1] = s.cells[p]
  BY <1>1, <1>2, BeforeType, ScreenFields
<1>4. CASE n <= m
  <2>1. PICK u, v : u = SubSeq(Reverse(b), 1, n) /\ v = SubSeq(Reverse(t), 1, n)
    OBVIOUS
  <2>2. Len(Reverse(b)) = n /\ u \in Seq(Characters) /\ Len(u) = n /\ \A i \in 1 .. n : u[i] = b[n - i + 1]
    BY <1>3, <2>1, Reversed
  <2>3. Len(Reverse(t)) = m /\ v \in Seq(Characters) /\ Len(v) = n /\ \A i \in 1 .. n : v[i] = t[m - i + 1]
    BY <1>1, <1>3, <1>4, <2>1, Reversed
  <2>4. IsSuffix(b, t) <=> u = v
    BY <1>4, <2>1, <2>2, <2>3 DEF IsSuffix, IsPrefix
  <2>5. u = v <=> \A i \in 1 .. n : b[n - i + 1] = t[m - i + 1]
    <3>1. u \in [1 .. n -> Characters] /\ v \in [1 .. n -> Characters]
      BY <2>2, <2>3
    <3>2. u = v <=> \A i \in 1 .. n : u[i] = v[i]
      BY <3>1
    <3>3. QED BY <2>2, <2>3, <3>2
  <2>6. (\A i \in 1 .. n : b[n - i + 1] = t[m - i + 1]) <=> (\A p \in 0 .. (n - 1) : s.cells[p] = t[m - n + p + 1])
    <3>1. ASSUME NEW p \in 0 .. (n - 1), \A i \in 1 .. n : b[n - i + 1] = t[m - i + 1]
          PROVE  s.cells[p] = t[m - n + p + 1]
      <4>1. PICK i : i = n - p
        OBVIOUS
      <4>2. i \in 1 .. n /\ n - i + 1 = p + 1 /\ m - i + 1 = m - n + p + 1
        BY <4>1
      <4>3. b[n - i + 1] = t[m - i + 1]
        BY <3>1, <4>2
      <4>4. QED BY <1>3, <4>2, <4>3
    <3>2. ASSUME NEW i \in 1 .. n, \A p \in 0 .. (n - 1) : s.cells[p] = t[m - n + p + 1]
          PROVE  b[n - i + 1] = t[m - i + 1]
      <4>1. n - i \in 0 .. (n - 1) /\ m - n + (n - i) + 1 = m - i + 1
        OBVIOUS
      <4>2. s.cells[n - i] = t[m - i + 1] /\ b[(n - i) + 1] = s.cells[n - i]
        BY <1>3, <3>2, <4>1
      <4>3. QED BY <4>2
    <3>3. QED BY <3>1, <3>2
  <2>7. QED BY <1>1, <1>2, <1>4, <2>4, <2>5, <2>6 DEF Shows
<1>5. CASE ~(n <= m)
  <2>1. Len(Reverse(b)) = n /\ Len(Reverse(t)) = m
    <3>1. 0 \in Nat /\ 0 <= n /\ 0 <= m
      BY <1>1, <1>3
    <3>2. QED BY <1>1, <1>3, <3>1, Reversed
  <2>2. QED BY <1>1, <1>2, <1>5, <2>1 DEF IsSuffix, IsPrefix, Shows
<1>6. QED BY <1>4, <1>5

\* A character that is printed lengthens what the screen shows.
LEMMA PrintcharShows ==
  ASSUME NEW s \in Screens, Clean(s), NEW c \in Characters, c # Newline,
         NEW t \in Seq(Characters), Shows(s, t)
  PROVE  Shows(printchar(s, c), Append(t, c))
<1> DEFINE u == Put(s, c)
<1>1. PICK n, m \in Nat : n = s.cursor /\ m = Len(t)
  BY ScreenFields
<1>2. n \in Nat /\ n < Size /\ n <= m /\ \A p \in 0 .. (n - 1) : p \in Cells /\ s.cells[p] = t[m - n + p + 1]
  BY <1>1, Sizes, SMTT(30) DEF Clean, Shows
<1>3. /\ u.cells \in [Cells -> Characters] /\ u.cursor = n + 1
      /\ \A p \in Cells : u.cells[p] = IF p = n THEN c ELSE s.cells[p]
  BY <1>1, PutFacts DEF Clean
<1>4. printchar(s, c) = IF u.cursor >= Size THEN scroll(u) ELSE u
  BY DEF printchar
<1> HIDE DEF u
<1>5. PICK a : a = Append(t, c)
  OBVIOUS
<1>6. Len(a) = m + 1 /\ a[m + 1] = c /\ \A i \in 1 .. m : a[i] = t[i]
  BY <1>1, <1>5
<1>7. ASSUME NEW p \in 0 .. n PROVE u.cells[p] = a[m - n + p + 1]
  <2>1. p \in Cells
    BY <1>2, Sizes
  <2>2. CASE p = n
    <3>1. m - n + p + 1 = m + 1
      BY <2>2
    <3>2. QED BY <1>3, <1>6, <2>1, <2>2, <3>1
  <2>3. CASE p # n
    <3>1. p \in 0 .. (n - 1) /\ m - n + p + 1 \in 1 .. m
      BY <1>1, <1>2, <2>3
    <3>2. s.cells[p] = t[m - n + p + 1] /\ a[m - n + p + 1] = t[m - n + p + 1]
      BY <1>2, <1>6, <3>1
    <3>3. QED BY <1>3, <2>1, <2>3, <3>2
  <2>4. QED BY <2>2, <2>3
<1>8. CASE n + 1 >= Size
  <2>1. n + 1 = Size /\ printchar(s, c) = scroll(u)
    BY <1>2, <1>3, <1>4, <1>8, Sizes
  <2>2. /\ scroll(u).cursor = Size - Width
        /\ \A p \in 0 .. (Size - Width - 1) : scroll(u).cells[p] = u.cells[p + Width]
    BY <1>3, Scrolled
  <2>3. ASSUME NEW p \in 0 .. (Size - Width - 1)
        PROVE  scroll(u).cells[p] = a[(m + 1) - (Size - Width) + p + 1]
    <3>1. p + Width \in 0 .. n /\ m - n + (p + Width) + 1 = (m + 1) - (Size - Width) + p + 1
      <4>1. PICK w \in Nat : w = Width
        BY Sizes
      <4>2. n + 1 = Size /\ p \in 0 .. (n + 1 - w - 1)
        BY <2>1, <4>1
      <4>3. p + w \in 0 .. n /\ m - n + (p + w) + 1 = (m + 1) - ((n + 1) - w) + p + 1
        BY <4>2
      <4>4. QED BY <4>1, <4>2, <4>3
    <3>2. u.cells[p + Width] = a[m - n + (p + Width) + 1]
      BY <1>7, <3>1
    <3>3. QED BY <2>2, <3>1, <3>2
  <2>4. Size - Width <= m + 1
    BY <1>1, <1>2, <2>1, Sizes
  <2>5. PICK z : z = Size - Width
    OBVIOUS
  <2>6. scroll(u).cursor = z /\ z <= m + 1 /\ \A p \in 0 .. (z - 1) : scroll(u).cells[p] = a[(m + 1) - z + p + 1]
    BY <2>2, <2>3, <2>4, <2>5
  <2>7. QED BY <1>5, <1>6, <2>1, <2>6 DEF Shows
<1>9. CASE ~(n + 1 >= Size)
  <2>1. printchar(s, c) = u
    BY <1>3, <1>4, <1>9
  <2>2. n + 1 <= m + 1 /\ \A p \in 0 .. ((n + 1) - 1) : p \in 0 .. n /\ (m + 1) - (n + 1) + p + 1 = m - n + p + 1
    BY <1>1, <1>2
  <2>3. \A p \in 0 .. ((n + 1) - 1) : u.cells[p] = a[(m + 1) - (n + 1) + p + 1]
    BY <1>7, <2>2
  <2>4. QED BY <1>3, <1>5, <1>6, <2>1, <2>2, <2>3 DEF Shows
<1>10. QED BY <1>8, <1>9

\* Deleting a character shortens it.
LEMMA DelcharShows ==
  ASSUME NEW s \in Screens, NEW t \in Seq(Characters), NEW r \in Seq(Characters), Shows(s, t),
         Len(t) = Len(r) + 1, \A i \in 1 .. Len(r) : t[i] = r[i]
  PROVE  Shows(delchar(s), r)
<1>1. PICK n, m \in Nat : n = s.cursor /\ m = Len(r)
  BY ScreenFields
<1>2. PICK f : f = s.cells
  OBVIOUS
<1>3. s = [cells |-> f, cursor |-> n] /\ f \in [Cells -> Characters] /\ n \in 0 .. Size
  BY <1>1, <1>2, ScreenFields
<1>4. n <= m + 1 /\ \A p \in 0 .. (n - 1) : f[p] = t[m + 1 - n + p + 1]
  BY <1>1, <1>2, SMTT(30) DEF Shows
<1> DEFINE k == IF n > 0 THEN n - 1 ELSE 0
<1>5. delchar(s).cursor = k /\ \A p \in Cells : p # k => delchar(s).cells[p] = f[p]
  <2>1. delchar(s) = [s EXCEPT !.cells[k] = Blank, !.cursor = k]
    BY <1>1 DEF delchar
  <2> HIDE DEF k
  <2>2. [s EXCEPT !.cells[k] = Blank, !.cursor = k].cursor = k
    BY <1>3
  <2>3. \A p \in Cells : p # k => [s EXCEPT !.cells[k] = Blank, !.cursor = k].cells[p] = f[p]
    BY <1>3
  <2>4. QED BY <2>1, <2>2, <2>3
<1>6. k <= m
  BY <1>4
<1>7. ASSUME NEW p \in 0 .. (k - 1) PROVE delchar(s).cells[p] = r[m - k + p + 1]
  <2>1. n > 0 /\ k = n - 1 /\ p \in 0 .. (n - 1) /\ p # k /\ p \in Cells
    BY <1>3, Sizes
  <2>2. m + 1 - n + p + 1 = m - k + p + 1 /\ m - k + p + 1 \in 1 .. m
    BY <1>4, <2>1
  <2> HIDE DEF k
  <2>3. f[p] = t[m - k + p + 1]
    BY <1>4, <2>1, <2>2
  <2>4. t[m - k + p + 1] = r[m - k + p + 1]
    BY <1>1, <2>2
  <2>5. QED BY <1>5, <2>1, <2>3, <2>4
<1> HIDE DEF k
<1>8. QED BY <1>1, <1>5, <1>6, <1>7 DEF Shows

LEMMA PrintstrShows ==
  ASSUME NEW s \in Screens, Clean(s), NEW str \in Seq(Characters), \A i \in 1 .. Len(str) : str[i] # Newline,
         NEW t \in Seq(Characters), Shows(s, t)
  PROVE  Shows(printstr(s, str), t \o str)
<1>1. s \in BlankScreens
  BY DEF BlankScreens, Clean
<1>2. PICK g : Shown(g, s, str) /\ printstr(s, str) = g[Len(str)]
  BY <1>1, Printed
<1>3. PICK n \in Nat : n = Len(str)
  OBVIOUS
<1> DEFINE P == {k \in 0 .. n : Clean(g[k]) /\ Shows(g[k], t \o SubSeq(str, 1, k))}
<1>4. 0 \in P
  <2>1. SubSeq(str, 1, 0) = <<>> /\ t \o <<>> = t
    OBVIOUS
  <2>2. t \o SubSeq(str, 1, 0) = t
    BY <2>1
  <2>3. g[0] = s
    BY <1>2 DEF Shown
  <2>4. Clean(g[0]) /\ Shows(g[0], t \o SubSeq(str, 1, 0))
    BY <2>2, <2>3, Zenon
  <2>5. QED BY <2>4
<1>5. ASSUME NEW k \in 1 .. n, k - 1 \in P PROVE k \in P
  <2>1. g[k - 1] \in Screens /\ BlankFrom(g[k - 1]) /\ g[k] = printchar(g[k - 1], str[k])
    BY <1>2, <1>3 DEF Shown, BlankScreens
  <2>2. str[k] \in Characters /\ str[k] # Newline
    BY <1>3
  <2>3. Clean(g[k - 1]) /\ Shows(g[k - 1], t \o SubSeq(str, 1, k - 1))
    BY <1>5
  <2>4. PICK u : u = SubSeq(str, 1, k - 1)
    OBVIOUS
  <2>5. u \in Seq(Characters) /\ SubSeq(str, 1, k) = Append(u, str[k])
    <3>1. SubSeq(str, 1, k) \in Seq(Characters) /\ Len(SubSeq(str, 1, k)) = k
          /\ \A i \in 1 .. k : SubSeq(str, 1, k)[i] = str[i]
      BY <1>3
    <3>2. u \in Seq(Characters) /\ Len(u) = k - 1 /\ \A i \in 1 .. (k - 1) : u[i] = str[i]
      BY <1>3, <2>4
    <3>3. PICK v : v = Append(u, str[k])
      OBVIOUS
    <3>4. v \in Seq(Characters) /\ Len(v) = k /\ v[k] = str[k] /\ \A i \in 1 .. (k - 1) : v[i] = str[i]
      BY <2>2, <3>2, <3>3
    <3>5. \A i \in 1 .. k : v[i] = SubSeq(str, 1, k)[i]
      BY <3>1, <3>4
    <3>6. QED BY <3>1, <3>2, <3>3, <3>4, <3>5
  <2>6. t \o u \in Seq(Characters) /\ Shows(g[k - 1], t \o u)
    BY <2>3, <2>4, <2>5
  <2>7. Shows(g[k], Append(t \o u, str[k]))
    BY <2>1, <2>2, <2>3, <2>6, PrintcharShows
  <2>8. t \o Append(u, str[k]) = Append(t \o u, str[k])
    BY <2>2, <2>5
  <2>9. Shows(g[k], t \o SubSeq(str, 1, k))
    BY <2>5, <2>7, <2>8
  <2>10. Clean(g[k])
    BY <2>1, <2>2, PrintcharClean
  <2>11. QED BY <2>9, <2>10
<1>6. 0 .. n \subseteq P
  <2> HIDE DEF P
  <2>1. QED BY <1>3, <1>4, <1>5, Upwards
<1>7. Shows(g[n], t \o SubSeq(str, 1, n))
  BY <1>6
<1>8. SubSeq(str, 1, n) = str
  BY <1>3
<1>9. QED BY <1>2, <1>3, <1>7, <1>8

\* A line that begins stands behind what was there.
LEMMA StartShows ==
  ASSUME NEW s \in Screens, Clean(s), NEW r \in Requests \cup {Question}, Start(s, r)
  PROVE  Shows(screen', above' \o EchoIn(r, buffer'))
<1>1. Filled(r) \in Seq(Characters) /\ Filled(r) \in Seq(Characters \ {Newline})
  BY FilledType
<1>2. PICK e : e = EchoIn(r, Filled(r))
  OBVIOUS
<1>3. e \in Seq(Characters) /\ Len(e) = Len(Filled(r))
  BY <1>1, <1>2, EchoType
<1>4. \A i \in 1 .. Len(e) : e[i] # Newline
  <2>1. "*" # Newline
    BY DEF Newline
  <2>2. \A i \in DOMAIN Filled(r) : e[i] = IF r.secret THEN "*" ELSE Filled(r)[i]
    BY <1>2 DEF EchoIn
  <2>3. \A i \in 1 .. Len(e) : i \in DOMAIN Filled(r) /\ Filled(r)[i] # Newline
    BY <1>1, <1>3
  <2>4. QED BY <2>1, <2>2, <2>3
<1>5. Before(s) \in Seq(Characters) /\ Shows(s, Before(s))
  <2>1. PICK n \in Nat : n = s.cursor
    BY ScreenFields
  <2>2. Before(s) \in Seq(Characters) /\ Len(Before(s)) = n
        /\ \A p \in 0 .. (n - 1) : Before(s)[p + 1] = s.cells[p]
    BY <2>1, BeforeType
  <2>3. \A p \in 0 .. (n - 1) : n - n + p + 1 = p + 1
    OBVIOUS
  <2>4. QED BY <2>1, <2>2, <2>3 DEF Shows
<1>6. screen' = printstr(s, e) /\ above' = Before(s) /\ buffer' = Filled(r)
  BY <1>2 DEF Start
<1>7. Shows(printstr(s, e), Before(s) \o e)
  BY <1>3, <1>4, <1>5, PrintstrShows
<1>8. QED BY <1>2, <1>6, <1>7

LineShown == request # NoRequest => Shows(screen, above \o EchoIn(request, buffer))

LEMMA LineShownIs == TypeOK => (LineShown <=> LineOnScreen)
<1> SUFFICES ASSUME TypeOK PROVE LineShown <=> LineOnScreen
  OBVIOUS
<1>1. screen \in Screens /\ above \in Seq(Characters) /\ EchoIn(request, buffer) \in Seq(Characters)
  BY EchoType DEF TypeOK, Screens
<1>2. above \o EchoIn(request, buffer) \in Seq(Characters)
  BY <1>1
<1>3. QED BY <1>1, <1>2, SuffixShows DEF LineShown, LineOnScreen

\* Backspace takes the last character from the line and from the screen.
LEMMA BackspaceShows ==
  ASSUME TypeInv, LineShown, TakeBackspace
  PROVE  LineShown'
<1>1. TypeOK /\ screen \in Screens
  BY ScreenClean DEF TypeInv
<1>2. above \in Seq(Characters) /\ buffer \in Seq(Characters) /\ request # NoRequest
  BY <1>1 DEF TypeOK, TakeBackspace, GoesDown, Polled
<1>3. /\ UNCHANGED <<request, above>> /\ buffer' = Edited(buffer, "erase", request.max)
      /\ screen' = IF buffer = <<>> THEN screen ELSE delchar(screen)
  BY DEF TakeBackspace
<1>4. CASE buffer = <<>>
  <2>1. UNCHANGED <<screen, buffer, request, above>>
    BY <1>2, <1>3, <1>4, ErasedType
  <2>2. QED BY <2>1 DEF LineShown, Shows, EchoIn
<1>5. CASE buffer # <<>>
  <2>1. PICK b : b = buffer'
    OBVIOUS
  <2>2. /\ b \in Seq(Characters) /\ Len(b) = Len(buffer) - 1
        /\ \A n \in 1 .. (Len(buffer) - 1) : b[n] = buffer[n]
    BY <1>2, <1>3, <1>5, <2>1, ErasedType
  <2>3. PICK e, f : e = EchoIn(request, buffer) /\ f = EchoIn(request, b)
    OBVIOUS
  <2>4. e \in Seq(Characters) /\ Len(e) = Len(buffer) /\ f \in Seq(Characters) /\ Len(f) = Len(b)
    BY <1>2, <2>2, <2>3, EchoType
  <2>5. PICK n \in Nat : n = Len(b)
    BY <2>2
  <2>6. Len(f) = n /\ Len(e) = n + 1 /\ Len(buffer) = n + 1
    BY <1>2, <2>2, <2>4, <2>5
  <2>7. \A i \in 1 .. n : e[i] = f[i]
    <3>1. \A i \in 1 .. n : i \in DOMAIN buffer /\ i \in DOMAIN b /\ buffer[i] = b[i]
      BY <1>2, <2>2, <2>5, <2>6
    <3>2. \A i \in DOMAIN buffer : e[i] = IF request.secret THEN "*" ELSE buffer[i]
      BY <2>3 DEF EchoIn
    <3>3. \A i \in DOMAIN b : f[i] = IF request.secret THEN "*" ELSE b[i]
      BY <2>3 DEF EchoIn
    <3>4. QED BY <3>1, <3>2, <3>3
  <2>8. PICK t, r : t = above \o e /\ r = above \o f
    OBVIOUS
  <2>9. PICK a \in Nat : a = Len(above)
    BY <1>2
  <2>10. t \in Seq(Characters) /\ r \in Seq(Characters) /\ Len(t) = a + n + 1 /\ Len(r) = a + n
    <3>1. t \in Seq(Characters) /\ Len(t) = Len(above) + Len(e)
      <4>1. above \o e \in Seq(Characters) /\ Len(above \o e) = Len(above) + Len(e)
        BY <1>2, <2>4
      <4>2. QED BY <2>8, <4>1
    <3>2. r \in Seq(Characters) /\ Len(r) = Len(above) + Len(f)
      <4>1. above \o f \in Seq(Characters) /\ Len(above \o f) = Len(above) + Len(f)
        BY <1>2, <2>4
      <4>2. QED BY <2>8, <4>1
    <3>3. Len(above) + Len(e) = a + n + 1 /\ Len(above) + Len(f) = a + n
      BY <2>6, <2>9
    <3>4. QED BY <3>1, <3>2, <3>3
  <2>11. \A i \in 1 .. (a + n) : t[i] = r[i]
    <3>1. ASSUME NEW i \in 1 .. (a + n) PROVE t[i] = r[i]
      <4>1. CASE i <= a
        BY <1>2, <2>4, <2>6, <2>8, <2>9, <4>1
      <4>2. CASE ~(i <= a)
        <5>1. i - a \in 1 .. n
          BY <4>2
        <5>2. t[i] = e[i - a] /\ r[i] = f[i - a]
          BY <1>2, <2>4, <2>6, <2>8, <2>9, <4>2, <5>1
        <5>3. QED BY <2>7, <5>1, <5>2
      <4>3. QED BY <4>1, <4>2
    <3>2. QED BY <3>1
  <2>12. Shows(screen, t)
    BY <1>2, <2>3, <2>8 DEF LineShown
  <2>13. Shows(delchar(screen), r)
    BY <1>1, <2>10, <2>11, <2>12, DelcharShows
  <2>14. screen' = delchar(screen)
    BY <1>3, <1>5
  <2>15. above' \o EchoIn(request', buffer') = r
    BY <1>3, <2>1, <2>3, <2>8
  <2>16. QED BY <2>13, <2>14, <2>15 DEF LineShown
<1>6. QED BY <1>4, <1>5

\* A character that is typed lengthens the line and what the screen shows.
LEMMA CharShows ==
  ASSUME TypeInv, LineShown, Polled, Code.key # Enter, UNCHANGED <<request, above>>,
         NEW c, c = Char(Code.key, shifts), c # NoChar,
         buffer' = Append(buffer, c), screen' = printchar(screen, Echo(c))
  PROVE  LineShown'
<1>1. TypeOK /\ screen \in Screens /\ Clean(screen)
  BY ScreenClean DEF TypeInv
<1>2. above \in Seq(Characters) /\ buffer \in Seq(Characters) /\ request # NoRequest /\ Code.key \in Keys
  BY <1>1, PolledType DEF TypeOK, Polled
<1>3. c \in Characters /\ c # Newline /\ Echo(c) \in Characters /\ Echo(c) # Newline
  BY <1>2, CharType, EchoChar
<1>4. PICK e : e = EchoIn(request, buffer)
  OBVIOUS
<1>5. PICK d : d = Echo(c)
  OBVIOUS
<1>6. e \in Seq(Characters) /\ Len(e) = Len(buffer) /\ d \in Characters /\ d # Newline
  BY <1>2, <1>3, <1>4, <1>5, EchoType
<1>7. EchoIn(request, Append(buffer, c)) = Append(e, d)
  <2>1. PICK b : b = Append(buffer, c)
    OBVIOUS
  <2>2. PICK n \in Nat : n = Len(buffer)
    BY <1>2
  <2>3. b \in Seq(Characters) /\ Len(b) = n + 1 /\ b[n + 1] = c /\ \A i \in 1 .. n : b[i] = buffer[i]
    BY <1>2, <1>3, <2>1, <2>2
  <2>4. PICK f : f = EchoIn(request, b)
    OBVIOUS
  <2>5. f \in Seq(Characters) /\ Len(f) = n + 1
    BY <2>3, <2>4, EchoType
  <2>6. \A i \in 1 .. (n + 1) : f[i] = IF request.secret THEN "*" ELSE b[i]
    BY <2>3, <2>4 DEF EchoIn
  <2>7. \A i \in 1 .. n : e[i] = IF request.secret THEN "*" ELSE buffer[i]
    <3>1. DOMAIN buffer = 1 .. n
      BY <1>2, <2>2
    <3>2. QED BY <1>4, <3>1 DEF EchoIn
  <2>8. d = IF request.secret THEN "*" ELSE c
    BY <1>5 DEF Echo
  <2>9. PICK g : g = Append(e, d)
    OBVIOUS
  <2>10. g \in Seq(Characters) /\ Len(g) = n + 1 /\ g[n + 1] = d /\ \A i \in 1 .. n : g[i] = e[i]
    BY <1>6, <2>2, <2>9
  <2>11. \A i \in 1 .. (n + 1) : f[i] = g[i]
    <3>1. f[n + 1] = g[n + 1]
      BY <2>3, <2>6, <2>8, <2>10
    <3>2. \A i \in 1 .. n : f[i] = g[i]
      BY <2>3, <2>6, <2>7, <2>10
    <3>3. QED BY <3>1, <3>2
  <2>12. f = g
    BY <2>5, <2>10, <2>11
  <2>13. QED BY <2>1, <2>4, <2>9, <2>12
<1>8. above \o e \in Seq(Characters) /\ Shows(screen, above \o e)
  BY <1>2, <1>4, <1>6 DEF LineShown
<1>9. Shows(printchar(screen, d), Append(above \o e, d))
  BY <1>1, <1>6, <1>8, PrintcharShows
<1>10. above \o Append(e, d) = Append(above \o e, d)
  BY <1>2, <1>6
<1>11. above' \o EchoIn(request', buffer') = Append(above \o e, d)
  <2>1. EchoIn(request', buffer') = Append(e, d)
    BY <1>7
  <2>2. QED BY <1>10, <2>1
<1>12. screen' = printchar(screen, d)
  BY <1>5
<1>13. QED BY <1>9, <1>11, <1>12 DEF LineShown

LEMMA LineKept ==
  ASSUME TypeInv, LineShown, [Next]_vars
  PROVE  LineShown'
<1>1. TypeOK /\ screen \in Screens /\ Clean(screen)
  BY ScreenClean DEF TypeInv
<1>2. ASSUME NEW s \in Screens, Clean(s), NEW r \in Requests \cup {Question}, Start(s, r)
      PROVE  LineShown'
  <2>1. Shows(screen', above' \o EchoIn(r, buffer')) /\ request' = r
    BY <1>2, StartShows DEF Start
  <2>2. QED BY <2>1 DEF LineShown
<1>3. ASSUME UNCHANGED <<screen, buffer, request, above>> PROVE LineShown'
  BY <1>3 DEF LineShown, Shows, EchoIn
<1>4. ASSUME request' = NoRequest PROVE LineShown'
  BY <1>4 DEF LineShown
<1>5. CASE \E k \in Keys : Press(k) \/ Repeat(k) \/ Release(k)
  BY <1>3, <1>5 DEF Press, Repeat, Release, input
<1>6. ASSUME NEW prompt \in Prompts, NEW r \in Requests, read_str(prompt, r) PROVE LineShown'
  <2>1. prompt \in Seq(Characters)
    BY LineInputAssumption
  <2>2. printstr(screen, prompt) \in Screens /\ Clean(printstr(screen, prompt))
    BY <1>1, <2>1, PrintstrClean DEF Clean
  <2>3. Start(printstr(screen, prompt), r)
    BY <1>6 DEF read_str
  <2>4. QED BY <1>2, <2>2, <2>3
<1>7. CASE read_yn
  <2>1. Asked(screen) \in Screens /\ Clean(Asked(screen)) /\ Start(Asked(screen), Question)
    BY <1>1, <1>7, AskedClean DEF read_yn
  <2>2. QED BY <1>2, <2>1
<1>8. CASE Output
  <2>1. request = NoRequest /\ request' = request
    BY <1>8 DEF Output, Show, input
  <2>2. QED BY <1>4, <2>1
<1>9. CASE GoesUp \/ Held \/ TakeShift
  BY <1>3, <1>9 DEF GoesUp, Held, TakeShift, input
<1>10. CASE TakeEnter
  <2>1. CASE Start(Again, Question)
    BY <1>1, <1>2, <2>1, AgainClean
  <2>2. CASE request' = NoRequest
    BY <1>4, <2>2
  <2>3. QED BY <1>1, <1>10, <2>1, <2>2, EnterCases
<1>11. CASE TakeBackspace
  BY <1>11, BackspaceShows
<1>12. CASE TakeChar
  <2>1. Polled /\ Code.key # Enter /\ UNCHANGED <<request, above>>
    BY <1>12 DEF TakeChar, GoesDown
  <2>2. CASE UNCHANGED <<buffer, screen>>
    BY <1>3, <2>1, <2>2
  <2>3. ASSUME NEW c, c = Char(Code.key, shifts), c # NoChar,
               buffer' = Append(buffer, c), screen' = printchar(screen, Echo(c))
        PROVE  LineShown'
    BY <2>1, <2>3, CharShows
  <2>4. QED BY <1>12, <2>2, <2>3 DEF TakeChar
<1>13. CASE UNCHANGED vars
  BY <1>3, <1>13 DEF vars, input
<1>14. QED BY <1>5, <1>6, <1>7, <1>8, <1>9, <1>10, <1>11, <1>12, <1>13 DEF Next, Poll

\* The line that is edited stands before the cursor, behind what stood there when it
\* began, as far as it fits: across line ends, scrolling and backspaces.
THEOREM LineAlwaysOnScreen == FairSpec => []LineOnScreen
<1>1. Init => TypeInv /\ LineShown
  BY InitTypes DEF Init, LineShown
<1>2. TypeInv /\ LineShown /\ [Next]_vars => TypeInv' /\ LineShown'
  BY TypesKept, LineKept
<1>3. TypeInv /\ LineShown => LineOnScreen
  BY LineShownIs DEF TypeInv
<1>4. QED BY <1>1, <1>2, <1>3, PTL DEF FairSpec, Spec

-----------------------------------------------------------------------------
(* What is known of the keys *)

About(k, sent) == {n \in DOMAIN sent : sent[n].key = k}

\* The last code says how the key is, or key_states when there is none.
SaidOf(k, sent, down, known) ==
  /\ About(k, sent) = {} => (down <=> known)
  /\ \A n \in About(k, sent) : (\A m \in About(k, sent) : m <= n) => (down <=> ~sent[n].up)

AllSaid == \A k \in Keys \ missed : SaidOf(k, codes, k \in pressed, k \in key_states)

LEMMA KeysFollowIs == KeyStatesFollow <=> (shifts = key_states \cap ShiftKeys) /\ AllSaid
BY DEF KeyStatesFollow, AllSaid, SaidOf, About

LEMMA SaidAppended ==
  ASSUME NEW sent \in Seq(CodeRecords), NEW c \in CodeRecords, NEW k \in Keys,
         NEW down \in BOOLEAN, NEW known \in BOOLEAN,
         IF k = c.key THEN down <=> ~c.up ELSE SaidOf(k, sent, down, known)
  PROVE  SaidOf(k, Append(sent, c), down, known)
<1>1. PICK n \in Nat : n = Len(sent)
  OBVIOUS
<1>2. PICK s : s = Append(sent, c)
  OBVIOUS
<1>3. /\ DOMAIN s = 1 .. (n + 1) /\ DOMAIN sent = 1 .. n
      /\ s[n + 1] = c /\ \A i \in 1 .. n : s[i] = sent[i]
  BY <1>1, <1>2
<1>4. CASE k = c.key
  <2>1. n + 1 \in About(k, s) /\ About(k, s) \subseteq 1 .. (n + 1)
    BY <1>3, <1>4 DEF About
  <2>2. ASSUME NEW i \in About(k, s), \A m \in About(k, s) : m <= i PROVE down <=> ~s[i].up
    <3>1. i = n + 1
      BY <2>1, <2>2
    <3>2. QED BY <1>3, <1>4, <3>1
  <2>3. QED BY <1>2, <2>1, <2>2 DEF SaidOf
<1>5. CASE k # c.key
  <2>1. About(k, s) = About(k, sent)
    BY <1>3, <1>5 DEF About
  <2>2. \A i \in About(k, sent) : s[i] = sent[i]
    BY <1>3 DEF About
  <2>3. SaidOf(k, sent, down, known)
    BY <1>5
  <2>4. SaidOf(k, s, down, known)
    BY <2>1, <2>2, <2>3, Zenon DEF SaidOf
  <2>5. QED BY <1>2, <2>4
<1>6. QED BY <1>4, <1>5

LEMMA SaidPolled ==
  ASSUME NEW sent \in Seq(CodeRecords), sent # <<>>, NEW k \in Keys,
         NEW down \in BOOLEAN, NEW known \in BOOLEAN, SaidOf(k, sent, down, known)
  PROVE  SaidOf(k, Tail(sent), down, IF k = sent[1].key THEN ~sent[1].up ELSE known)
<1>1. PICK n \in Nat : n + 1 = Len(sent)
  <2>1. Len(sent) \in Nat /\ Len(sent) # 0
    OBVIOUS
  <2>2. Len(sent) - 1 \in Nat /\ (Len(sent) - 1) + 1 = Len(sent)
    BY <2>1
  <2>3. QED BY <2>2
<1>2. PICK s : s = Tail(sent)
  OBVIOUS
<1>3. /\ DOMAIN sent = 1 .. (n + 1) /\ DOMAIN s = 1 .. n
      /\ \A i \in 1 .. n : s[i] = sent[i + 1]
  BY <1>1, <1>2
<1>4. \A i \in About(k, s) : i \in 1 .. n /\ i + 1 \in About(k, sent) /\ s[i] = sent[i + 1]
  BY <1>3 DEF About
<1>5. \A i \in About(k, sent) : i \in 1 .. (n + 1) /\ (i = 1 \/ i - 1 \in About(k, s))
  <2>1. ASSUME NEW i \in About(k, sent), i # 1 PROVE i - 1 \in About(k, s)
    <3>1. i \in 1 .. (n + 1) /\ sent[i].key = k
      BY <1>3 DEF About
    <3>2. PICK j : j = i - 1
      OBVIOUS
    <3>3. j \in 1 .. n /\ j + 1 = i
      BY <2>1, <3>1, <3>2
    <3>4. s[j] = sent[i]
      BY <1>3, <3>3
    <3>5. QED BY <1>3, <3>1, <3>2, <3>3, <3>4 DEF About
  <2>2. QED BY <1>3, <2>1 DEF About
<1>6. ASSUME NEW i \in About(k, s), \A m \in About(k, s) : m <= i PROVE down <=> ~s[i].up
  <2>1. i \in 1 .. n /\ i + 1 \in About(k, sent) /\ s[i] = sent[i + 1]
    BY <1>4
  <2>2. \A m \in About(k, sent) : m <= i + 1
    <3>1. ASSUME NEW m \in About(k, sent) PROVE m <= i + 1
      <4>1. CASE m = 1
        BY <2>1, <4>1
      <4>2. CASE m # 1
        <5>1. m - 1 <= i /\ m \in 1 .. (n + 1)
          BY <1>5, <1>6, <4>2
        <5>2. QED BY <2>1, <5>1
      <4>3. QED BY <4>1, <4>2
    <3>2. QED BY <3>1
  <2>3. QED BY <2>1, <2>2 DEF SaidOf
<1>7. ASSUME About(k, s) = {}
      PROVE  down <=> (IF k = sent[1].key THEN ~sent[1].up ELSE known)
  <2>1. \A i \in About(k, sent) : i = 1
    BY <1>5, <1>7
  <2>2. CASE k = sent[1].key
    <3>1. 1 \in About(k, sent)
      BY <1>3, <2>2 DEF About
    <3>2. QED BY <2>1, <2>2, <3>1 DEF SaidOf
  <2>3. CASE k # sent[1].key
    <3>1. About(k, sent) = {}
      BY <2>1, <2>3 DEF About
    <3>2. QED BY <2>3, <3>1 DEF SaidOf
  <2>4. QED BY <2>2, <2>3
<1>8. QED BY <1>2, <1>6, <1>7 DEF SaidOf

LEMMA SendSaid ==
  ASSUME TypeOK, AllSaid, NEW k \in Keys, NEW up \in BOOLEAN, Send(k, up), Changed(k),
         UNCHANGED key_states, \A j \in Keys : j \in pressed' <=> IF j = k THEN ~up ELSE j \in pressed
  PROVE  AllSaid'
<1>1. codes \in Seq(CodeRecords)
  BY DEF TypeOK, CodeRecords
<1>2. PICK c \in CodeRecords : c = [key |-> k, up |-> up]
  BY DEF CodeRecords
<1>3. c.key = k /\ c.up = up
  BY <1>2
<1>4. CASE Room
  <2>1. codes' = Append(codes, c) /\ missed' = missed \ {k}
    BY <1>2, <1>4 DEF Send, Changed
  <2>2. ASSUME NEW j \in Keys \ missed' PROVE SaidOf(j, codes', j \in pressed', j \in key_states')
    <3>1. PICK d, q \in BOOLEAN : d = (j \in pressed') /\ q = (j \in key_states')
      <4>1. (j \in pressed') \in BOOLEAN /\ (j \in key_states') \in BOOLEAN
        OBVIOUS
      <4>2. QED BY <4>1, Zenon
    <3>2. IF j = c.key THEN d <=> ~c.up ELSE SaidOf(j, codes, d, q)
      <4>1. CASE j = k
        BY <1>3, <3>1, <4>1
      <4>2. CASE j # k
        <5>1. j \in Keys \ missed /\ (j \in pressed') = (j \in pressed) /\ (j \in key_states') = (j \in key_states)
          BY <2>1, <2>2, <4>2
        <5>2. SaidOf(j, codes, j \in pressed, j \in key_states)
          BY <5>1 DEF AllSaid
        <5>3. QED BY <1>3, <3>1, <4>2, <5>1, <5>2
      <4>3. QED BY <4>1, <4>2
    <3>3. SaidOf(j, Append(codes, c), d, q)
      BY <1>1, <3>2, SaidAppended
    <3>4. QED BY <2>1, <3>1, <3>3
  <2>3. QED BY <2>2 DEF AllSaid
<1>5. CASE ~Room
  <2>1. codes' = codes /\ missed' = missed \cup {k}
    BY <1>5 DEF Send, Changed
  <2>2. ASSUME NEW j \in Keys \ missed' PROVE SaidOf(j, codes', j \in pressed', j \in key_states')
    <3>1. j \in Keys \ missed /\ (j \in pressed') = (j \in pressed) /\ (j \in key_states') = (j \in key_states)
      BY <2>1, <2>2
    <3>2. SaidOf(j, codes, j \in pressed, j \in key_states)
      BY <3>1 DEF AllSaid
    <3>3. QED BY <2>1, <3>1, <3>2
  <2>3. QED BY <2>2 DEF AllSaid
<1>6. QED BY <1>4, <1>5

LEMMA PollSaid ==
  ASSUME TypeOK, AllSaid, Polled,
         \A j \in Keys : j \in key_states' <=> IF j = Code.key THEN ~Code.up ELSE j \in key_states
  PROVE  AllSaid'
<1>1. /\ codes \in Seq(CodeRecords) /\ codes # <<>> /\ Code = codes[1] /\ codes' = Tail(codes)
      /\ UNCHANGED <<pressed, missed>> /\ Code.up \in BOOLEAN
  BY PolledType
<1>2. ASSUME NEW j \in Keys \ missed' PROVE SaidOf(j, codes', j \in pressed', j \in key_states')
  <2>1. j \in Keys \ missed
    BY <1>1, <1>2
  <2>2. SaidOf(j, codes, j \in pressed, j \in key_states)
    BY <2>1 DEF AllSaid
  <2>3. PICK d, q \in BOOLEAN : d = (j \in pressed) /\ q = (j \in key_states)
    <3>1. (j \in pressed) \in BOOLEAN /\ (j \in key_states) \in BOOLEAN
      OBVIOUS
    <3>2. QED BY <3>1, Zenon
  <2>4. SaidOf(j, Tail(codes), d, IF j = codes[1].key THEN ~codes[1].up ELSE q)
    BY <1>1, <2>1, <2>2, <2>3, SaidPolled
  <2>5. (j \in key_states') = (IF j = codes[1].key THEN ~codes[1].up ELSE q)
    BY <1>1, <2>1, <2>3
  <2>6. (j \in pressed') = d
    BY <1>1, <2>3
  <2>7. QED BY <1>1, <2>4, <2>5, <2>6
<1>3. QED BY <1>2 DEF AllSaid

\* What every poll makes of key_states and the flags.
LEMMA PollKeys ==
  ASSUME TypeOK, shifts = key_states \cap ShiftKeys, Poll
  PROVE  /\ Polled
         /\ \A j \in Keys : j \in key_states' <=> IF j = Code.key THEN ~Code.up ELSE j \in key_states
         /\ shifts' = key_states' \cap ShiftKeys
<1>1. Polled
  BY DEF Poll, GoesUp, Held, TakeEnter, TakeBackspace, TakeShift, TakeChar, GoesDown
<1>2. CASE GoesUp
  BY <1>1, <1>2 DEF GoesUp
<1>3. CASE Held
  BY <1>1, <1>3 DEF Held, input
<1>4. Enter \notin ShiftKeys /\ Backspace \notin ShiftKeys
  BY DEF Enter, Backspace, ShiftKeys, LeftShift, RightShift
<1>5. CASE TakeEnter \/ TakeBackspace \/ TakeChar
  <2>1. /\ ~Code.up /\ key_states' = key_states \cup {Code.key} /\ shifts' = shifts
        /\ Code.key \notin ShiftKeys
    BY <1>4, <1>5 DEF TakeEnter, TakeBackspace, TakeChar, GoesDown
  <2>2. QED BY <1>1, <2>1
<1>6. CASE TakeShift
  <2>1. /\ ~Code.up /\ key_states' = key_states \cup {Code.key} /\ shifts' = shifts \cup {Code.key}
        /\ Code.key \in ShiftKeys
    BY <1>6 DEF TakeShift, GoesDown
  <2>2. QED BY <1>1, <2>1
<1>7. QED BY <1>2, <1>3, <1>5, <1>6 DEF Poll

LEMMA KeysKept == TypeInv /\ KeyStatesFollow /\ [Next]_vars => KeyStatesFollow'
<1> SUFFICES ASSUME TypeInv, KeyStatesFollow, [Next]_vars PROVE KeyStatesFollow'
  OBVIOUS
<1>1. TypeOK /\ shifts = key_states \cap ShiftKeys /\ AllSaid
  BY KeysFollowIs DEF TypeInv
<1>2. SUFFICES (shifts = key_states \cap ShiftKeys)' /\ AllSaid'
  BY DEF KeyStatesFollow, AllSaid, SaidOf, About
<1>3. ASSUME NEW k \in Keys, Press(k) \/ Repeat(k) \/ Release(k)
      PROVE  (shifts = key_states \cap ShiftKeys)' /\ AllSaid'
  <2>1. UNCHANGED <<key_states, shifts>> /\ Changed(k)
    BY <1>3 DEF Press, Repeat, Release, input
  <2>2. CASE Press(k) \/ Repeat(k)
    <3>1. Send(k, FALSE) /\ \A j \in Keys : j \in pressed' <=> IF j = k THEN ~FALSE ELSE j \in pressed
      BY <2>2 DEF Press, Repeat
    <3>2. QED BY <1>1, <2>1, <3>1, SendSaid
  <2>3. CASE Release(k)
    <3>1. Send(k, TRUE) /\ \A j \in Keys : j \in pressed' <=> IF j = k THEN ~TRUE ELSE j \in pressed
      BY <2>3 DEF Release
    <3>2. QED BY <1>1, <2>1, <3>1, SendSaid
  <2>4. QED BY <1>3, <2>2, <2>3
<1>4. CASE Poll
  BY <1>1, <1>4, PollKeys, PollSaid
<1>5. ASSUME UNCHANGED <<keyboard, key_states, shifts>>
      PROVE  (shifts = key_states \cap ShiftKeys)' /\ AllSaid'
  BY <1>1, <1>5 DEF AllSaid, SaidOf, About, keyboard
<1>6. CASE (\E prompt \in Prompts, r \in Requests : read_str(prompt, r)) \/ read_yn \/ Output
  BY <1>5, <1>6 DEF read_str, read_yn, Output, Show, input
<1>7. CASE UNCHANGED vars
  BY <1>5, <1>7 DEF vars, input
<1>8. QED BY <1>3, <1>4, <1>6, <1>7 DEF Next

\* For every key whose last change was not dropped, key_states and the codes on their
\* way say whether it is down; the shift flags are those of key_states.
THEOREM KeysAlwaysFollow == FairSpec => []KeyStatesFollow
<1>1. Init => TypeInv /\ KeyStatesFollow
  <2>1. Init => KeyStatesFollow
    BY DEF Init, KeyStatesFollow
  <2>2. QED BY <2>1, InitTypes
<1>2. TypeInv /\ KeyStatesFollow /\ [Next]_vars => TypeInv' /\ KeyStatesFollow'
  BY TypesKept, KeysKept
<1>3. QED BY <1>1, <1>2, PTL DEF FairSpec, Spec

-----------------------------------------------------------------------------
(* What the codes on their way are going to do *)

Strokes == Characters \cup {"enter", "erase"}

Futures == [down : SUBSET Keys, strokes : Seq(Strokes)]

LEMMA StrokeType ==
  ASSUME NEW k \in Keys, NEW held
  PROVE  Stroke(k, held) \in Seq(Strokes)
<1>1. "enter" \in Strokes /\ "erase" \in Strokes
  BY DEF Strokes
<1>2. CASE k = Enter
  <2>1. Stroke(k, held) = <<"enter">>
    BY <1>2 DEF Stroke, Enter, Backspace, ShiftKeys, LeftShift, RightShift
  <2>2. QED BY <1>1, <2>1
<1>3. CASE k # Enter /\ k = Backspace
  <2>1. Stroke(k, held) = <<"erase">>
    BY <1>3 DEF Stroke, Enter, Backspace, ShiftKeys, LeftShift, RightShift
  <2>2. QED BY <1>1, <2>1
<1>4. CASE k # Enter /\ k # Backspace /\ (k \in ShiftKeys \/ Char(k, held) = NoChar)
  <2>1. Stroke(k, held) = <<>>
    BY <1>4 DEF Stroke
  <2>2. QED BY <2>1
<1>5. CASE k # Enter /\ k # Backspace /\ k \notin ShiftKeys /\ Char(k, held) # NoChar
  <2>1. Stroke(k, held) = <<Char(k, held)>>
    BY <1>5 DEF Stroke
  <2>2. Char(k, held) \in Strokes
    BY <1>5, CharType DEF Strokes
  <2>3. QED BY <2>1, <2>2
<1>6. QED BY <1>2, <1>3, <1>4, <1>5

\* One code announced, part by part.
LEMMA AnnouncedIs ==
  ASSUME NEW keys \in SUBSET Keys, NEW v \in Seq(Strokes), NEW c \in CodeRecords
  PROVE  LET stroke == IF c.up \/ c.key \in keys THEN <<>> ELSE Stroke(c.key, keys \cap ShiftKeys)
             down == IF c.up THEN keys \ {c.key} ELSE keys \cup {c.key}
         IN /\ Announced([down |-> keys, strokes |-> v], c) = [down |-> down, strokes |-> v \o stroke]
            /\ stroke \in Seq(Strokes) /\ down \in SUBSET Keys
<1> DEFINE stroke == IF c.up \/ c.key \in keys THEN <<>> ELSE Stroke(c.key, keys \cap ShiftKeys)
           down == IF c.up THEN keys \ {c.key} ELSE keys \cup {c.key}
<1>1. c.key \in Keys
  BY DEF CodeRecords
<1>2. stroke \in Seq(Strokes)
  <2>1. Stroke(c.key, keys \cap ShiftKeys) \in Seq(Strokes)
    BY <1>1, StrokeType
  <2>2. <<>> \in Seq(Strokes)
    OBVIOUS
  <2>3. QED BY <2>1, <2>2
<1>3. v \o <<>> = v
  OBVIOUS
<1>4. Announced([down |-> keys, strokes |-> v], c) = [down |-> down, strokes |-> v \o stroke]
  <2>1. CASE c.up
    <3>1. Announced([down |-> keys, strokes |-> v], c) = [down |-> keys \ {c.key}, strokes |-> v]
      BY <2>1 DEF Announced
    <3>2. down = keys \ {c.key} /\ stroke = <<>>
      BY <2>1
    <3>3. QED BY <1>3, <3>1, <3>2
  <2>2. CASE ~c.up /\ c.key \in keys
    <3>1. Announced([down |-> keys, strokes |-> v], c) = [down |-> keys, strokes |-> v]
      BY <2>2 DEF Announced
    <3>2. down = keys /\ stroke = <<>>
      BY <2>2
    <3>3. QED BY <1>3, <3>1, <3>2
  <2>3. CASE ~c.up /\ c.key \notin keys
    BY <2>3 DEF Announced
  <2>4. QED BY <2>1, <2>2, <2>3
<1>5. down \in SUBSET Keys
  BY <1>1
<1>6. QED BY <1>2, <1>4, <1>5

LEMMA FutureFields ==
  ASSUME NEW d \in Futures
  PROVE  d = [down |-> d.down, strokes |-> d.strokes] /\ d.down \in SUBSET Keys /\ d.strokes \in Seq(Strokes)
BY DEF Futures

LEMMA AnnouncedType ==
  ASSUME NEW d \in Futures, NEW c \in CodeRecords
  PROVE  Announced(d, c) \in Futures
<1>1. PICK keys, v : keys = d.down /\ v = d.strokes
  OBVIOUS
<1>2. d = [down |-> keys, strokes |-> v] /\ keys \in SUBSET Keys /\ v \in Seq(Strokes)
  BY <1>1, FutureFields
<1>3. \E u \in Seq(Strokes), x \in SUBSET Keys : Announced(d, c) = [down |-> x, strokes |-> v \o u]
  <2> DEFINE stroke == IF c.up \/ c.key \in keys THEN <<>> ELSE Stroke(c.key, keys \cap ShiftKeys)
             down == IF c.up THEN keys \ {c.key} ELSE keys \cup {c.key}
  <2>1. /\ Announced([down |-> keys, strokes |-> v], c) = [down |-> down, strokes |-> v \o stroke]
        /\ stroke \in Seq(Strokes) /\ down \in SUBSET Keys
    BY <1>2, AnnouncedIs
  <2> HIDE DEF stroke, down
  <2>2. Announced(d, c) = [down |-> down, strokes |-> v \o stroke]
    BY <1>2, <2>1
  <2>3. QED BY <2>1, <2>2, Zenon
<1>4. PICK u \in Seq(Strokes), x \in SUBSET Keys : Announced(d, c) = [down |-> x, strokes |-> v \o u]
  BY <1>3
<1>5. v \o u \in Seq(Strokes)
  BY <1>2
<1>6. QED BY <1>4, <1>5 DEF Futures

\* The futures one code after the other makes.
Told(g, keys, sent) ==
  /\ g \in [0 .. Len(sent) -> Futures]
  /\ g[0] = [down |-> keys, strokes |-> <<>>]
  /\ \A k \in 1 .. Len(sent) : g[k] = Announced(g[k - 1], sent[k])

LEMMA AfterTold ==
  ASSUME NEW keys \in SUBSET Keys, NEW sent \in Seq(CodeRecords)
  PROVE  \E g : Told(g, keys, sent) /\ After(keys, sent) = g[Len(sent)]
<1> DEFINE n == Len(sent)
           base == [down |-> keys, strokes |-> <<>>]
           F == [p \in (1 .. n) \X Futures |-> Announced(p[2], sent[p[1]])]
           B(f) == f = [k \in 0 .. n |-> IF k = 0 THEN base ELSE Announced(f[k - 1], sent[k])]
           after == CHOOSE f : B(f)
<1>1. n \in Nat /\ \A k \in 1 .. n : sent[k] \in CodeRecords
  OBVIOUS
<1>2. base \in Futures
  <2>1. <<>> \in Seq(Strokes)
    OBVIOUS
  <2>2. QED BY <2>1 DEF Futures
<1> HIDE DEF n, base
<1>3. \A k \in 1 .. n, x \in Futures : F[<<k, x>>] = Announced(x, sent[k])
  OBVIOUS
<1> HIDE DEF F
<1>4. \A k \in 1 .. n, x \in Futures : F[<<k, x>>] \in Futures
  BY <1>1, <1>3, AnnouncedType
<1>5. PICK g : Along(g, n, Futures, base, F)
  BY <1>1, <1>2, <1>4, AlongExists
<1>6. /\ g \in [0 .. n -> Futures] /\ g[0] = base
      /\ \A k \in 1 .. n : g[k] = Announced(g[k - 1], sent[k])
  <2>1. ASSUME NEW k \in 1 .. n PROVE g[k] = Announced(g[k - 1], sent[k])
    <3>1. g[k - 1] \in Futures
      BY <1>1, <1>5 DEF Along
    <3>2. g[k] = F[<<k, g[k - 1]>>]
      BY <1>5 DEF Along
    <3>3. QED BY <1>3, <3>1, <3>2
  <2>2. QED BY <1>5, <2>1 DEF Along
<1>7. B(g)
  <2>1. \A k \in 0 .. n : g[k] = IF k = 0 THEN base ELSE Announced(g[k - 1], sent[k])
    BY <1>1, <1>6
  <2>2. QED BY <1>6, <2>1
<1>8. B(after)
  BY <1>7, Zenon
<1>9. After(keys, sent) = after[n]
  BY DEF After, n, base
<1> HIDE DEF after
<1>10. /\ DOMAIN after = 0 .. n
       /\ \A k \in 0 .. n : after[k] = IF k = 0 THEN base ELSE Announced(after[k - 1], sent[k])
  <2> DEFINE body == [k \in 0 .. n |-> IF k = 0 THEN base ELSE Announced(after[k - 1], sent[k])]
  <2>1. after = body
    BY <1>8
  <2>2. DOMAIN body = 0 .. n
    OBVIOUS
  <2>3. \A k \in 0 .. n : body[k] = IF k = 0 THEN base ELSE Announced(after[k - 1], sent[k])
    OBVIOUS
  <2> HIDE DEF body
  <2>4. QED BY <2>1, <2>2, <2>3
<1>11. \A k \in 0 .. n : after[k] = g[k]
  <2> DEFINE P == {k \in 0 .. n : after[k] = g[k]}
  <2>1. 0 \in P
    BY <1>1, <1>6, <1>10
  <2>2. \A k \in 1 .. n : k - 1 \in P => k \in P
    BY <1>1, <1>6, <1>10
  <2>3. 0 .. n \subseteq P
    <3> HIDE DEF P
    <3>1. QED BY <1>1, <2>1, <2>2, Upwards
  <2>4. QED BY <2>3
<1>12. Told(g, keys, sent)
  BY <1>6 DEF Told, n, base
<1>13. After(keys, sent) = g[Len(sent)]
  BY <1>1, <1>9, <1>11 DEF n
<1>14. QED BY <1>12, <1>13

LEMMA AfterEmpty == ASSUME NEW keys \in SUBSET Keys PROVE After(keys, <<>>) = [down |-> keys, strokes |-> <<>>]
<1>1. <<>> \in Seq(CodeRecords) /\ Len(<<>>) = 0
  OBVIOUS
<1>2. PICK g : Told(g, keys, <<>>) /\ After(keys, <<>>) = g[Len(<<>>)]
  BY <1>1, AfterTold
<1>3. QED BY <1>1, <1>2 DEF Told

LEMMA AfterType ==
  ASSUME NEW keys \in SUBSET Keys, NEW sent \in Seq(CodeRecords)
  PROVE  After(keys, sent) \in Futures
<1>1. PICK g : Told(g, keys, sent) /\ After(keys, sent) = g[Len(sent)]
  BY AfterTold
<1>2. Len(sent) \in 0 .. Len(sent)
  OBVIOUS
<1>3. QED BY <1>1, <1>2 DEF Told

\* A code that is sent does its part last.
LEMMA AfterSent ==
  ASSUME NEW keys \in SUBSET Keys, NEW sent \in Seq(CodeRecords), NEW c \in CodeRecords
  PROVE  After(keys, Append(sent, c)) = Announced(After(keys, sent), c)
<1>1. PICK n \in Nat : n = Len(sent)
  OBVIOUS
<1>2. PICK s : s = Append(sent, c)
  OBVIOUS
<1>3. s \in Seq(CodeRecords) /\ Len(s) = n + 1 /\ s[n + 1] = c /\ \A i \in 1 .. n : s[i] = sent[i]
  BY <1>1, <1>2
<1>4. PICK f : Told(f, keys, sent) /\ After(keys, sent) = f[Len(sent)]
  BY AfterTold
<1>5. PICK g : Told(g, keys, s) /\ After(keys, s) = g[Len(s)]
  BY <1>3, AfterTold
<1> DEFINE P == {k \in 0 .. n : g[k] = f[k]}
<1>6. 0 \in P
  BY <1>4, <1>5 DEF Told
<1>7. ASSUME NEW k \in 1 .. n, k - 1 \in P PROVE k \in P
  <2>1. f[k] = Announced(f[k - 1], sent[k])
    BY <1>1, <1>4 DEF Told
  <2>2. g[k] = Announced(g[k - 1], s[k])
    BY <1>3, <1>5 DEF Told
  <2>3. QED BY <1>3, <1>7, <2>1, <2>2
<1>8. 0 .. n \subseteq P
  <2> HIDE DEF P
  <2>1. QED BY <1>1, <1>6, <1>7, Upwards
<1>9. g[n] = f[n]
  BY <1>8
<1>10. g[n + 1] = Announced(g[(n + 1) - 1], s[n + 1])
  BY <1>3, <1>5 DEF Told
<1>11. (n + 1) - 1 = n
  OBVIOUS
<1>12. QED BY <1>1, <1>2, <1>3, <1>4, <1>5, <1>9, <1>10, <1>11

\* What stands in front of the strokes stays there.
LEMMA AnnouncedBehind ==
  ASSUME NEW d \in Futures, NEW u \in Seq(Strokes), NEW c \in CodeRecords
  PROVE  Announced([down |-> d.down, strokes |-> u \o d.strokes], c)
           = [down |-> Announced(d, c).down, strokes |-> u \o Announced(d, c).strokes]
<1>1. PICK keys, v : keys = d.down /\ v = d.strokes
  OBVIOUS
<1>2. d = [down |-> keys, strokes |-> v] /\ keys \in SUBSET Keys /\ v \in Seq(Strokes)
  BY <1>1, FutureFields
<1> DEFINE stroke == IF c.up \/ c.key \in keys THEN <<>> ELSE Stroke(c.key, keys \cap ShiftKeys)
           down == IF c.up THEN keys \ {c.key} ELSE keys \cup {c.key}
<1>3. /\ Announced([down |-> keys, strokes |-> v], c) = [down |-> down, strokes |-> v \o stroke]
      /\ stroke \in Seq(Strokes)
  BY <1>2, AnnouncedIs
<1>4. u \o v \in Seq(Strokes)
  BY <1>2
<1>5. Announced([down |-> keys, strokes |-> u \o v], c) = [down |-> down, strokes |-> (u \o v) \o stroke]
  BY <1>2, <1>4, AnnouncedIs
<1> HIDE DEF stroke, down
<1>6. (u \o v) \o stroke = u \o (v \o stroke)
  BY <1>2, <1>3
<1>7. Announced(d, c).down = down /\ Announced(d, c).strokes = v \o stroke
  BY <1>2, <1>3
<1>8. QED BY <1>1, <1>5, <1>6, <1>7

\* A code that is polled did its part first.
LEMMA AfterPolled ==
  ASSUME NEW keys \in SUBSET Keys, NEW sent \in Seq(CodeRecords), sent # <<>>,
         NEW k1 \in SUBSET Keys, NEW u \in Seq(Strokes),
         Announced([down |-> keys, strokes |-> <<>>], sent[1]) = [down |-> k1, strokes |-> u]
  PROVE  /\ After(keys, sent).down = After(k1, Tail(sent)).down
         /\ After(keys, sent).strokes = u \o After(k1, Tail(sent)).strokes
<1>1. PICK n \in Nat : n + 1 = Len(sent)
  <2>1. Len(sent) \in Nat /\ Len(sent) # 0
    OBVIOUS
  <2>2. Len(sent) - 1 \in Nat /\ (Len(sent) - 1) + 1 = Len(sent)
    BY <2>1
  <2>3. QED BY <2>2
<1>2. PICK s : s = Tail(sent)
  OBVIOUS
<1>3. s \in Seq(CodeRecords) /\ Len(s) = n /\ \A i \in 1 .. n : s[i] = sent[i + 1] /\ s[i] \in CodeRecords
  BY <1>1, <1>2
<1>4. PICK f : Told(f, keys, sent) /\ After(keys, sent) = f[Len(sent)]
  BY AfterTold
<1>5. PICK g : Told(g, k1, s) /\ After(k1, s) = g[Len(s)]
  BY <1>3, AfterTold
<1> DEFINE Behind(k) == [down |-> g[k].down, strokes |-> u \o g[k].strokes]
           P == {k \in 0 .. n : f[k + 1] = Behind(k)}
<1>6. 0 \in P
  <2>1. f[0 + 1] = Announced(f[0], sent[1]) /\ f[0] = [down |-> keys, strokes |-> <<>>]
    <3>1. 1 \in 1 .. Len(sent) /\ 0 + 1 = 1 /\ 1 - 1 = 0
      BY <1>1
    <3>2. f[1] = Announced(f[1 - 1], sent[1])
      BY <1>4, <3>1 DEF Told
    <3>3. QED BY <1>4, <3>1, <3>2 DEF Told
  <2>2. g[0].down = k1 /\ g[0].strokes = <<>>
    BY <1>5 DEF Told
  <2>3. u \o <<>> = u
    OBVIOUS
  <2>4. f[0 + 1] = Behind(0)
    BY <2>1, <2>2, <2>3
  <2>5. QED BY <2>4
<1>7. ASSUME NEW k \in 1 .. n, k - 1 \in P PROVE k \in P
  <2>1. g[k] = Announced(g[k - 1], s[k]) /\ g[k - 1] \in Futures
    BY <1>3, <1>5 DEF Told
  <2>2. f[k + 1] = Announced(f[k], sent[k + 1])
    <3>1. k + 1 \in 1 .. Len(sent) /\ (k + 1) - 1 = k
      BY <1>1
    <3>2. f[k + 1] = Announced(f[(k + 1) - 1], sent[k + 1])
      BY <1>4, <3>1 DEF Told
    <3>3. QED BY <3>1, <3>2
  <2>3. f[k] = Behind(k - 1)
    <3>1. (k - 1) + 1 = k
      OBVIOUS
    <3>2. QED BY <1>7, <3>1
  <2>4. s[k] = sent[k + 1] /\ s[k] \in CodeRecords
    BY <1>3
  <2>5. Announced(Behind(k - 1), s[k]) = Behind(k)
    BY <2>1, <2>4, AnnouncedBehind
  <2> HIDE DEF Behind
  <2>6. f[k + 1] = Behind(k)
    BY <2>2, <2>3, <2>4, <2>5
  <2>7. k \in 0 .. n
    OBVIOUS
  <2>8. QED BY <2>6, <2>7
<1>8. 0 .. n \subseteq P
  <2> HIDE DEF P
  <2>1. QED BY <1>1, <1>6, <1>7, Upwards
<1>9. f[n + 1] = Behind(n)
  <2> HIDE DEF Behind
  <2>1. n \in 0 .. n
    BY <1>1
  <2>2. QED BY <1>8, <2>1
<1>10. After(keys, sent) = Behind(n) /\ After(k1, s) = g[n]
  <2> HIDE DEF Behind
  <2>1. QED BY <1>1, <1>3, <1>4, <1>5, <1>9
<1>11. Behind(n).down = g[n].down /\ Behind(n).strokes = u \o g[n].strokes
  OBVIOUS
<1> HIDE DEF Behind, P
<1>12. QED BY <1>2, <1>10, <1>11

-----------------------------------------------------------------------------
(* The line editor that is promised *)

EditorInv == TypeInv /\ KeyStatesFollow

\* The constant part is the same on both levels.
LEMMA EditorOps ==
  /\ \A l, stroke, max : Editor!Edited(l, stroke, max) = Edited(l, stroke, max)
  /\ \A k, held : Editor!Stroke(k, held) = Stroke(k, held)
  /\ \A r : Editor!Filled(r) = Filled(r)
  /\ Editor!Yes = Yes /\ Editor!No = No /\ Editor!Question = Question
  /\ Editor!ShiftKeys = ShiftKeys /\ Editor!Keys = Keys
<1>1. ASSUME NEW l, NEW stroke, NEW max PROVE Editor!Edited(l, stroke, max) = Edited(l, stroke, max)
  BY Zenon DEF Editor!Edited, Edited, Editor!Front, Front
<1>2. Editor!ShiftKeys = ShiftKeys /\ Editor!Keys = Keys /\ Editor!Yes = Yes /\ Editor!No = No
      /\ Editor!Question = Question /\ Editor!Enter = Enter /\ Editor!Backspace = Backspace
  BY Zenon DEF Editor!Yes, Yes, Editor!No, No, Editor!Question, Question, Editor!ShiftKeys, ShiftKeys,
         Editor!Keys, Keys, Editor!Enter, Enter, Editor!Backspace, Backspace,
         Editor!LeftShift, LeftShift, Editor!RightShift, RightShift
<1>3. ASSUME NEW k, NEW held PROVE Editor!Stroke(k, held) = Stroke(k, held)
  <2>1. Editor!Char(k, held) = Char(k, held)
    BY Zenon DEF Editor!Char, Char
  <2>2. QED BY <1>2, <2>1, Zenon DEF Editor!Stroke, Stroke
<1>4. ASSUME NEW r PROVE Editor!Filled(r) = Filled(r)
  BY Zenon DEF Editor!Filled, Filled
<1>5. QED BY <1>1, <1>2, <1>3, <1>4

EditorSame == UNCHANGED <<Ahead.down, Ahead.strokes, buffer, request>>

LEMMA AheadType ==
  ASSUME TypeOK
  PROVE  /\ key_states \in SUBSET Keys /\ codes \in Seq(CodeRecords)
         /\ Ahead = After(key_states, codes) /\ Ahead \in Futures
         /\ Ahead.down \in SUBSET Keys /\ Ahead.strokes \in Seq(Strokes)
<1>1. key_states \in SUBSET Keys /\ codes \in Seq(CodeRecords)
  BY DEF TypeOK, CodeRecords
<1>2. Ahead = After(key_states, codes)
  BY DEF Ahead
<1>3. QED BY <1>1, <1>2, AfterType, FutureFields

\* A key that moves is announced, or there is no room and nobody hears of it.
LEMMA SentEditor ==
  ASSUME TypeOK, NEW k \in Keys, NEW up \in BOOLEAN, Send(k, up), UNCHANGED <<key_states, buffer, request>>
  PROVE  Editor!KeyDown(k) \/ Editor!KeyUp(k) \/ EditorSame
<1>1. /\ key_states \in SUBSET Keys /\ codes \in Seq(CodeRecords)
      /\ Ahead = After(key_states, codes) /\ Ahead \in Futures
      /\ Ahead.down \in SUBSET Keys /\ Ahead.strokes \in Seq(Strokes)
  BY AheadType
<1>2. PICK c \in CodeRecords : c = [key |-> k, up |-> up]
  BY DEF CodeRecords
<1>3. CASE Room
  <2>1. codes' = Append(codes, c)
    BY <1>2, <1>3 DEF Send
  <2>2. Ahead' = After(key_states, Append(codes, c))
    BY <2>1 DEF Ahead, After
  <2>3. Ahead' = Announced(Ahead, c)
    BY <1>1, <2>2, AfterSent
  <2>4. PICK d, v : d = Ahead.down /\ v = Ahead.strokes
    OBVIOUS
  <2>5. Ahead = [down |-> d, strokes |-> v] /\ d \in SUBSET Keys /\ v \in Seq(Strokes)
    BY <1>1, <2>4, FutureFields
  <2>6. c.key = k /\ c.up = up
    BY <1>2
  <2>7. CASE up
    <3>1. Ahead' = [down |-> d \ {k}, strokes |-> v]
      BY <2>3, <2>5, <2>6, <2>7 DEF Announced
    <3>2. Ahead'.down = d \ {k} /\ Ahead'.strokes = v
      BY <3>1
    <3>3. QED BY <2>4, <3>2 DEF Editor!KeyUp
  <2>8. CASE ~up /\ k \in d
    <3>1. Ahead' = Ahead
      BY <2>3, <2>5, <2>6, <2>8 DEF Announced
    <3>2. QED BY <3>1 DEF EditorSame
  <2>9. CASE ~up /\ k \notin d
    <3>1. Ahead' = [down |-> d \cup {k}, strokes |-> v \o Stroke(k, d \cap ShiftKeys)]
      BY <2>3, <2>5, <2>6, <2>9 DEF Announced
    <3>2. Ahead'.down = d \cup {k} /\ Ahead'.strokes = v \o Stroke(k, d \cap ShiftKeys)
      BY <3>1
    <3>3. Ahead.strokes \o Editor!Stroke(k, Ahead.down \cap Editor!ShiftKeys) = v \o Stroke(k, d \cap ShiftKeys)
      BY <2>4, EditorOps
    <3>4. QED BY <2>4, <2>9, <3>2, <3>3 DEF Editor!KeyDown
  <2>10. QED BY <2>7, <2>8, <2>9
<1>4. CASE ~Room
  <2>1. codes' = codes
    BY <1>4 DEF Send
  <2>2. Ahead' = Ahead
    BY <2>1 DEF Ahead, After
  <2>3. QED BY <2>2 DEF EditorSame
<1>5. QED BY <1>3, <1>4

\* The stroke of the code that is polled.
Polls == IF Code.up \/ Code.key \in key_states THEN <<>> ELSE Stroke(Code.key, shifts)

LEMMA AheadPolled ==
  ASSUME TypeInv, shifts = key_states \cap ShiftKeys, Poll
  PROVE  Ahead'.down = Ahead.down /\ Ahead.strokes = Polls \o Ahead'.strokes
         /\ Ahead'.strokes \in Seq(Strokes) /\ Polls \in Seq(Strokes)
<1>1. TypeOK /\ TypeOK'
  BY PollTypes DEF TypeInv
<1>2. /\ key_states \in SUBSET Keys /\ codes \in Seq(CodeRecords) /\ Ahead = After(key_states, codes)
  BY <1>1, AheadType
<1>3. key_states' \in SUBSET Keys /\ codes' \in Seq(CodeRecords)
  BY <1>1 DEF TypeOK, CodeRecords
<1>4. Ahead' = After(key_states', codes')
  BY DEF Ahead, After
<1>5. Ahead'.strokes \in Seq(Strokes)
  BY <1>3, <1>4, AfterType, FutureFields
<1>6. /\ Polled
      /\ \A j \in Keys : j \in key_states' <=> IF j = Code.key THEN ~Code.up ELSE j \in key_states
  BY <1>1, PollKeys
<1>7. codes # <<>> /\ Code \in CodeRecords /\ Code = codes[1] /\ codes' = Tail(codes) /\ Code.key \in Keys
  BY <1>1, <1>6, PolledType
<1> DEFINE keys == IF Code.up THEN key_states \ {Code.key} ELSE key_states \cup {Code.key}
<1>8. <<>> \in Seq(Strokes)
  OBVIOUS
<1>9. /\ Announced([down |-> key_states, strokes |-> <<>>], Code) = [down |-> keys, strokes |-> <<>> \o Polls]
      /\ Polls \in Seq(Strokes) /\ keys \in SUBSET Keys
  <2>1. Polls = IF Code.up \/ Code.key \in key_states THEN <<>> ELSE Stroke(Code.key, key_states \cap ShiftKeys)
    BY DEF Polls
  <2> DEFINE stroke == IF Code.up \/ Code.key \in key_states THEN <<>>
                       ELSE Stroke(Code.key, key_states \cap ShiftKeys)
  <2>2. /\ Announced([down |-> key_states, strokes |-> <<>>], Code) = [down |-> keys, strokes |-> <<>> \o stroke]
        /\ stroke \in Seq(Strokes) /\ keys \in SUBSET Keys
    <3>1. PICK v : v = <<>>
      OBVIOUS
    <3>2. v \in Seq(Strokes)
      BY <1>8, <3>1
    <3>3. /\ Announced([down |-> key_states, strokes |-> v], Code) = [down |-> keys, strokes |-> v \o stroke]
          /\ stroke \in Seq(Strokes) /\ keys \in SUBSET Keys
      <4>1. key_states \in SUBSET Keys /\ Code \in CodeRecords
        BY <1>2, <1>7
      <4>2. QED BY <3>2, <4>1, AnnouncedIs, Zenon
    <3> HIDE DEF keys, stroke
    <3>4. QED BY <3>1, <3>3
  <2>3. stroke = Polls
    BY <2>1
  <2> HIDE DEF stroke, keys
  <2>4. QED BY <2>2, <2>3
<1>10. keys = key_states'
  BY <1>2, <1>3, <1>6, <1>7
<1> HIDE DEF keys
<1>11. <<>> \o Polls = Polls
  BY <1>9
<1>12. Announced([down |-> key_states, strokes |-> <<>>], codes[1]) = [down |-> keys, strokes |-> Polls]
  BY <1>7, <1>9, <1>11
<1>13. /\ After(key_states, codes).down = After(keys, Tail(codes)).down
       /\ After(key_states, codes).strokes = Polls \o After(keys, Tail(codes)).strokes
  BY <1>2, <1>7, <1>9, <1>12, AfterPolled
<1>14. QED BY <1>2, <1>4, <1>5, <1>7, <1>9, <1>10, <1>13

\* A code without a stroke changes nothing that is promised.
LEMMA QuietPoll ==
  ASSUME TypeInv, shifts = key_states \cap ShiftKeys, Poll, Polls = <<>>, UNCHANGED <<buffer, request>>
  PROVE  EditorSame
<1>1. Ahead'.down = Ahead.down /\ Ahead.strokes = <<>> \o Ahead'.strokes /\ Ahead'.strokes \in Seq(Strokes)
  BY AheadPolled
<1>2. <<>> \o Ahead'.strokes = Ahead'.strokes
  BY <1>1
<1>3. QED BY <1>1, <1>2 DEF EditorSame

\* The reader takes the first stroke.
LEMMA StrokeTaken ==
  ASSUME TypeInv, shifts = key_states \cap ShiftKeys, Poll, NEW x, Polls = <<x>>, x \in Strokes
  PROVE  /\ Ahead.strokes # <<>> /\ Head(Ahead.strokes) = x
         /\ Ahead'.strokes = Tail(Ahead.strokes) /\ Ahead'.down = Ahead.down
<1>1. PICK v : v = Ahead'.strokes
  OBVIOUS
<1>2. Ahead'.down = Ahead.down /\ Ahead.strokes = <<x>> \o v /\ v \in Seq(Strokes)
  BY <1>1, AheadPolled
<1>3. <<x>> \o v # <<>> /\ Head(<<x>> \o v) = x /\ Tail(<<x>> \o v) = v
  BY <1>2
<1>4. QED BY <1>1, <1>2, <1>3

LEMMA PollEditor ==
  ASSUME TypeInv, KeyStatesFollow, Poll
  PROVE  Editor!Take \/ EditorSame
<1>1. TypeOK /\ shifts = key_states \cap ShiftKeys /\ Polled
  BY KeysFollowIs, PollKeys DEF TypeInv
<1>2. /\ Code.key \in Keys /\ request \in Requests \cup {Question} /\ request # NoRequest
      /\ Len(buffer) < request.max /\ buffer \in Seq(Characters)
  BY <1>1, PolledType DEF Polled, TypeOK
<1>3. CASE GoesUp \/ Held
  <2>1. Polls = <<>> /\ UNCHANGED <<buffer, request>>
    BY <1>3 DEF Polls, GoesUp, Held, input
  <2>2. QED BY <1>1, <2>1, QuietPoll
<1>4. ASSUME GoesDown PROVE Polls = Stroke(Code.key, shifts)
  BY <1>4 DEF Polls, GoesDown
<1>5. ASSUME NEW x \in Strokes, Polls = <<x>>,
             IF x = "enter"
             THEN /\ buffer' = <<>>
                  /\ request' = IF request.kind = "yn" /\ buffer \notin Yes \cup No THEN request ELSE NoRequest
             ELSE buffer' = Edited(buffer, x, request.max) /\ request' = request
      PROVE  Editor!Take
  <2>1. /\ Ahead.strokes # <<>> /\ Head(Ahead.strokes) = x
        /\ Ahead'.strokes = Tail(Ahead.strokes) /\ Ahead'.down = Ahead.down
    BY <1>1, <1>5, StrokeTaken
  <2>2. QED BY <1>2, <1>5, <2>1, EditorOps DEF Editor!Take
<1>6. CASE TakeEnter
  <2>1. Polls = <<"enter">>
    BY <1>4, <1>6 DEF TakeEnter, Stroke, Enter, Backspace, ShiftKeys, LeftShift, RightShift
  <2>2. /\ buffer' = <<>>
        /\ request' = IF request.kind = "yn" /\ buffer \notin Yes \cup No THEN request ELSE NoRequest
    <3>1. CASE /\ request = Question /\ buffer \notin Yes \cup No
               /\ Start(Again, Question)
      <4>1. buffer' = Filled(Question) /\ request' = Question
        BY <3>1 DEF Start
      <4>2. Filled(Question) = <<>>
        BY DEF Filled, Question
      <4>3. Question.kind = "yn"
        BY DEF Question
      <4>4. QED BY <3>1, <4>1, <4>2, <4>3
    <3>2. CASE /\ ~(request.kind = "yn" /\ buffer \notin Yes \cup No)
               /\ request' = NoRequest /\ buffer' = <<>> /\ above' = <<>>
               /\ screen' = printchar(screen, Newline)
      BY <3>2
    <3>3. QED BY <1>1, <1>6, <3>1, <3>2, EnterCases
  <2>3. "enter" \in Strokes
    BY DEF Strokes
  <2>4. QED BY <1>5, <2>1, <2>2, <2>3
<1>7. CASE TakeBackspace
  <2>1. Polls = <<"erase">>
    BY <1>4, <1>7 DEF TakeBackspace, Stroke, Enter, Backspace, ShiftKeys, LeftShift, RightShift
  <2>2. "erase" \in Strokes /\ "erase" # "enter"
    BY DEF Strokes
  <2>3. buffer' = Edited(buffer, "erase", request.max) /\ request' = request
    BY <1>7 DEF TakeBackspace
  <2>4. QED BY <1>5, <2>1, <2>2, <2>3
<1>8. CASE TakeShift
  <2>1. Polls = <<>>
    BY <1>4, <1>8 DEF TakeShift, Stroke, Enter, Backspace, ShiftKeys, LeftShift, RightShift
  <2>2. QED BY <1>1, <1>8, <2>1, QuietPoll DEF TakeShift
<1>9. CASE TakeChar
  <2>1. GoesDown /\ Code.key \notin ShiftKeys /\ Code.key # Enter /\ Code.key # Backspace /\ request' = request
    BY <1>9 DEF TakeChar
  <2>2. PICK c : c = Char(Code.key, shifts)
    OBVIOUS
  <2>3. IF c # NoChar /\ Len(buffer) < request.max - 1 THEN buffer' = Append(buffer, c) ELSE buffer' = buffer
    BY <1>9, <2>2 DEF TakeChar
  <2>4. CASE c = NoChar
    <3>1. Polls = <<>>
      BY <1>4, <2>1, <2>2, <2>4 DEF Stroke
    <3>2. QED BY <1>1, <2>1, <2>3, <2>4, <3>1, QuietPoll
  <2>5. CASE c # NoChar
    <3>1. Polls = <<c>>
      BY <1>4, <2>1, <2>2, <2>5 DEF Stroke
    <3>2. c \in Characters
      BY <1>2, <2>1, <2>2, <2>5, CharType
    <3>3. c \in Strokes /\ c # "enter" /\ c # "erase"
      BY <3>2, LineInputAssumption DEF Strokes
    <3>4. buffer' = Edited(buffer, c, request.max)
      BY <2>3, <2>5, <3>3 DEF Edited
    <3>5. QED BY <1>5, <2>1, <3>1, <3>3, <3>4
  <2>6. QED BY <2>4, <2>5
<1>10. QED BY <1>3, <1>6, <1>7, <1>8, <1>9 DEF Poll

LEMMA AheadSame ==
  ASSUME UNCHANGED <<codes, key_states>>
  PROVE  Ahead' = Ahead
BY DEF Ahead, After

\* A program that begins to read.
LEMMA ReadEditor ==
  ASSUME NEW s, NEW r \in Requests \cup {Question}, Start(s, r), request = NoRequest,
         UNCHANGED <<keyboard, key_states>>
  PROVE  Editor!Read(r)
<1>1. Ahead' = Ahead
  BY AheadSame DEF keyboard
<1>2. QED BY <1>1, EditorOps DEF Editor!Read, Start

LEMMA EditorStep ==
  ASSUME EditorInv, [Next]_vars
  PROVE  [Editor!Next]_<<Ahead.down, Ahead.strokes, buffer, request>>
<1>1. TypeInv /\ KeyStatesFollow /\ TypeOK
  BY DEF EditorInv, TypeInv
<1>2. SUFFICES Editor!Next \/ EditorSame
  BY DEF EditorSame
<1>3. ASSUME NEW k \in Keys, Press(k) \/ Repeat(k) \/ Release(k)
      PROVE  Editor!Next \/ EditorSame
  <2>1. (Send(k, TRUE) \/ Send(k, FALSE)) /\ UNCHANGED <<key_states, buffer, request>>
    BY <1>3 DEF Press, Repeat, Release, input
  <2>2. Editor!KeyDown(k) \/ Editor!KeyUp(k) \/ EditorSame
    BY <1>1, <2>1, SentEditor
  <2>3. QED BY <2>2, EditorOps DEF Editor!Next
<1>4. ASSUME NEW prompt \in Prompts, NEW r \in Requests, read_str(prompt, r)
      PROVE  Editor!Next \/ EditorSame
  <2>1. Editor!Read(r)
    BY <1>4, ReadEditor DEF read_str
  <2>2. QED BY <2>1, EditorOps DEF Editor!Next
<1>5. CASE read_yn
  <2>1. Editor!Read(Question)
    BY <1>5, ReadEditor DEF read_yn
  <2>2. QED BY <2>1, EditorOps DEF Editor!Next
<1>6. CASE Output
  BY <1>6, AheadSame DEF Output, Show, keyboard, input, EditorSame
<1>7. CASE Poll
  BY <1>1, <1>7, PollEditor DEF Editor!Next
<1>8. CASE UNCHANGED vars
  BY <1>8, AheadSame DEF vars, keyboard, input, EditorSame
<1>9. QED BY <1>3, <1>4, <1>5, <1>6, <1>7, <1>8 DEF Next

\* Every key acts once, when it goes down, in order and with the shift keys of that
\* moment, whoever polls for it when; and the line is edited by those strokes.
THEOREM LinesAsTyped == FairSpec => ImplementsLineEditor
<1>1. Init => EditorInv /\ Editor!Init
  <2> SUFFICES ASSUME Init PROVE EditorInv /\ Editor!Init
    OBVIOUS
  <2>1. EditorInv
    BY InitTypes DEF Init, EditorInv, KeyStatesFollow
  <2>2. key_states = {} /\ codes = <<>> /\ buffer = <<>> /\ request = NoRequest
    BY DEF Init
  <2>3. Ahead = After({}, <<>>)
    BY <2>2 DEF Ahead
  <2>4. Ahead = [down |-> {}, strokes |-> <<>>]
    BY <2>3, AfterEmpty
  <2>5. Ahead.down = {} /\ Ahead.strokes = <<>>
    BY <2>4
  <2>6. QED BY <2>1, <2>2, <2>5 DEF Editor!Init
<1>2. EditorInv /\ [Next]_vars => EditorInv'
  BY TypesKept, KeysKept DEF EditorInv
<1>3. EditorInv /\ [Next]_vars => [Editor!Next]_<<Ahead.down, Ahead.strokes, buffer, request>>
  BY EditorStep
<1>4. QED BY <1>1, <1>2, <1>3, PTL DEF FairSpec, Spec, ImplementsLineEditor, Editor!Spec

=============================================================================
