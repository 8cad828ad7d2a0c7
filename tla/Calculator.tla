----------------------------- MODULE Calculator -----------------------------
(***************************************************************************)
(* The calculator, src/apps/calc/calc.c: a sign and two numbers are read,  *)
(* each again until it is valid, and the result is shown by utoa of        *)
(* src/lib/conversions.c.                                                  *)
(*                                                                         *)
(* Numbers are words of Width bits: str_to_int64, +, - and * wrap around,  *)
(* as the instructions do that the compiler makes of them.  A typed line   *)
(* is the integer its digits mean, however large, or Invalid.              *)
(***************************************************************************)
EXTENDS Number, Sequences

CONSTANTS
  Typed,     \* integers a user types
  Invalid,   \* any line is_valid_int refuses, any sign that is none
  Sums       \* bound on the results computed

ASSUME CalculatorAssumption ==
  /\ Typed \subseteq Int /\ Invalid \notin Typed
  /\ Sums \in Nat

Base == 10
Signs == {"+", "-", "*", "/"}

VARIABLES
  calc,     \* where calculator_main is: "idle", "sign", "left", "right", "result",
            \* "quotient", "utoa", "digit" or "exception"
  sign,
  entered,  \* what was typed for the two numbers
  left, right,
  value,    \* what utoa has still to convert
  minus,    \* a minus sign was printed
  digits,   \* utoa's buffer, last digit first until it returns
  sums      \* results so far

calcVars == <<calc, sign, entered, left, right, value, minus, digits, sums>>

CalculatorInit ==
  /\ NumberInit
  /\ calc = "idle"
  /\ sign = "+"
  /\ entered = <<0, 0>> /\ left = 0 /\ right = 0
  /\ value = 0 /\ minus = FALSE /\ digits = <<0>>
  /\ sums = 0

Word(x) == x % Power[Width]
Signed(x) == IF Word(x) >= Power[Width - 1] THEN Word(x) - Power[Width] ELSE Word(x)

-----------------------------------------------------------------------------
(* calculator_main *)

calculator_main ==
  /\ calc = "idle" /\ sums < Sums
  /\ calc' = "sign"
  /\ sums' = sums + 1
  /\ UNCHANGED <<cpu, divVars, sign, entered, left, right, value, minus, digits>>

AskedAgain ==
  /\ calc \in {"sign", "left", "right"}
  /\ \E typed \in {Invalid} : UNCHANGED <<cpu, divVars, calcVars>>

EnterSign(typed) ==
  /\ calc = "sign"
  /\ sign' = typed
  /\ calc' = "left"
  /\ UNCHANGED <<cpu, divVars, entered, left, right, value, minus, digits, sums>>

EnterLeft(typed) ==
  /\ calc = "left"
  /\ entered' = [entered EXCEPT ![1] = typed]
  /\ left' = Signed(typed)
  /\ calc' = "right"
  /\ UNCHANGED <<cpu, divVars, sign, right, value, minus, digits, sums>>

EnterRight(typed) ==
  /\ calc = "right"
  /\ entered' = [entered EXCEPT ![2] = typed]
  /\ right' = Signed(typed)
  /\ calc' = "result"
  /\ UNCHANGED <<cpu, divVars, sign, left, value, minus, digits, sums>>

\* Mutant: the result is taken for the unsigned word it is.
SplitUnsigned(result) ==
  /\ minus' = FALSE
  /\ value' = Word(result)

\* print the sign, and give what is behind it to utoa.
Split(result) ==
  /\ minus' = (result < 0)
  /\ value' = Word(IF result < 0 THEN -result ELSE result)

Show(result) ==
  /\ Split(result)
  /\ digits' = <<>>
  /\ calc' = "utoa"

Result ==
  /\ calc = "result" /\ sign # "/"
  /\ Show(Signed(CASE sign = "+" -> left + right
                   [] sign = "-" -> left - right
                   [] sign = "*" -> left * right))
  /\ UNCHANGED <<cpu, divVars, sign, entered, left, right, sums>>

\* udiv64 takes both numbers as unsigned ones.
Quotient ==
  /\ calc = "result" /\ sign = "/"
  /\ ~(cpu = "x86_64" /\ right = 0)
  /\ Divide(Word(left), Word(right))
  /\ calc' = "quotient"
  /\ UNCHANGED <<cpu, sign, entered, left, right, value, minus, digits, sums>>

\* The processor raises a divide error, which stops the machine.
DivideError ==
  /\ calc = "result" /\ sign = "/"
  /\ cpu = "x86_64" /\ right = 0
  /\ calc' = "exception"
  /\ UNCHANGED <<cpu, divVars, sign, entered, left, right, value, minus, digits, sums>>

QuotientFound ==
  /\ calc = "quotient" /\ bit < 0
  /\ Show(Signed(q))
  /\ UNCHANGED <<cpu, divVars, sign, entered, left, right, sums>>

-----------------------------------------------------------------------------
(* utoa *)

Zero ==
  /\ calc = "utoa" /\ value = 0 /\ digits = <<>>
  /\ digits' = <<0>>
  /\ calc' = "idle"
  /\ UNCHANGED <<cpu, divVars, sign, entered, left, right, value, minus, sums>>

NextDigit ==
  /\ calc = "utoa" /\ value # 0
  /\ Divide(value, Base)
  /\ calc' = "digit"
  /\ UNCHANGED <<cpu, sign, entered, left, right, value, minus, digits, sums>>

DigitFound ==
  /\ calc = "digit" /\ bit < 0
  /\ digits' = Append(digits, r)
  /\ value' = q
  /\ calc' = "utoa"
  /\ UNCHANGED <<cpu, divVars, sign, entered, left, right, minus, sums>>

\* The digits came last first: they are reversed in place.
Reversed ==
  /\ calc = "utoa" /\ value = 0 /\ digits # <<>>
  /\ digits' = [k \in DOMAIN digits |-> digits[Len(digits) + 1 - k]]
  /\ calc' = "idle"
  /\ UNCHANGED <<cpu, divVars, sign, entered, left, right, value, minus, sums>>

Dividing == DivideBit /\ UNCHANGED calcVars

CalcStep ==
  \/ Result \/ Quotient \/ DivideError \/ QuotientFound
  \/ Zero \/ NextDigit \/ DigitFound \/ Reversed
  \/ Dividing

-----------------------------------------------------------------------------

Small(x) == -Power[Width - 1] <= x /\ x < Power[Width - 1]

\* What the two numbers give, where the calculator is one: division is that of
\* whole numbers that are not negative, and not by 0.
Meant ==
  LET a == entered[1]
      b == entered[2]
  IN CASE sign = "+" -> {a + b}
       [] sign = "-" -> {a - b}
       [] sign = "*" -> {a * b}
       [] sign = "/" -> IF a >= 0 /\ b > 0 THEN {a \div b} ELSE {}

\* The number a line of digits means.
Shown ==
  LET upto[k \in 0 .. Len(digits)] == IF k = 0 THEN 0 ELSE Base * upto[k - 1] + digits[k]
  IN IF minus THEN -upto[Len(digits)] ELSE upto[Len(digits)]

\* The line shown is the result of the line entered, whenever the numbers and
\* their result fit into a word - the least number, which has no positive
\* counterpart, included - and it has no leading zero.
ShownRight ==
  calc = "idle" =>
    /\ digits # <<>> /\ (digits[1] = 0 => Len(digits) = 1)
    /\ Small(entered[1]) /\ Small(entered[2]) =>
         \A x \in Meant : Small(x) => Shown = x
=============================================================================
