------------------------------- MODULE KeyCodes -------------------------------
(***************************************************************************)
(* What keys stand for, and what a stroke does to a line: the constant     *)
(* part of src/drivers/keyboard/input.c.  Strokes are characters, "enter"  *)
(* and "erase".                                                            *)
(*                                                                         *)
(* An operator marked "Mutant" is no part of the specification: it is what *)
(* the definition below it would be after a plausible slip in input.c.     *)
(***************************************************************************)
EXTENDS Integers, SequencesExt

CONSTANTS
  Keymap,        \* keymap: key code -> character, or NoChar
  ShiftKeymap,   \* shift_keymap
  NoChar,        \* the entry 0 of both
  Requests,      \* calls of read_str: max_length, base_value, and whether secret
  NoRequest      \* nobody reads

Keys == DOMAIN Keymap

\* Key codes with a meaning of their own.
Backspace == 14
Enter == 28
LeftShift == 42
RightShift == 54
ShiftKeys == {LeftShift, RightShift}

Yes == {<<"y">>, <<"Y">>}
No == {<<"n">>, <<"N">>}

\* The buffer of read_yn, two bytes.
Question == [kind |-> "yn", max |-> 2, secret |-> FALSE, base |-> <<>>]

Char(k, shifts) == IF shifts = {} THEN Keymap[k] ELSE ShiftKeymap[k]

\* The stroke a key makes, if it makes one.
Stroke(k, shifts) ==
  CASE k = Enter -> <<"enter">>
    [] k = Backspace -> <<"erase">>
    [] k \in ShiftKeys -> <<>>
    [] OTHER -> IF Char(k, shifts) = NoChar THEN <<>> ELSE <<Char(k, shifts)>>

\* base_value as far as there is room for it.
Filled(r) == IF Len(r.base) < r.max THEN r.base ELSE SubSeq(r.base, 1, r.max - 1)

Edited(l, stroke, max) ==
  CASE stroke = "erase" -> IF l = <<>> THEN l ELSE Front(l)
    [] OTHER -> IF Len(l) < max - 1 THEN Append(l, stroke) ELSE l

=============================================================================
