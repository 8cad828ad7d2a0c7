-------------------------------- MODULE Screen --------------------------------
(***************************************************************************)
(* The text screen of src/drivers/vga/screen.c: Width * Height cells in    *)
(* video memory and a cursor that runs through them.  Colours are left     *)
(* out; a cell is the character it shows.  The operations are functions    *)
(* from screens to screens, so that a handler that prints several things   *)
(* is the composition of its calls.                                        *)
(*                                                                         *)
(* An operator marked "Mutant" is no part of the specification: it is what *)
(* the definition below it would be after a plausible slip in screen.c.    *)
(***************************************************************************)
EXTENDS Integers, SequencesExt

CONSTANTS
  Width,       \* SCREEN_WIDTH
  Height,      \* SCREEN_HEIGHT
  Characters   \* what a string holds

VARIABLE screen   \* video_memory and cursor_pos

Blank == " "
Newline == "\n"

ASSUME ScreenAssumption ==
  /\ Width \in Nat \ {0} /\ Height \in Nat \ {0}
  /\ {Blank, Newline} \subseteq Characters

Size == Width * Height
Cells == 0 .. (Size - 1)

\* paintscreen, clearscreen
Cleared == [cells |-> [p \in Cells |-> Blank], cursor |-> 0]

\* Mutant: the last line keeps what it showed.
scroll_keeps_last(s) ==
  [cells |-> [p \in Cells |-> IF p + Width < Size THEN s.cells[p + Width] ELSE s.cells[p]],
   cursor |-> Size - Width]

scroll(s) ==
  [cells |-> [p \in Cells |-> IF p + Width < Size THEN s.cells[p + Width] ELSE Blank],
   cursor |-> Size - Width]

\* What printchar does before it looks whether the cursor left the screen.
Put(s, c) ==
  IF c = Newline THEN [s EXCEPT !.cursor = @ + Width - (@ % Width)]
  ELSE [s EXCEPT !.cells[s.cursor] = c, !.cursor = @ + 1]

printchar(s, c) == LET t == Put(s, c) IN IF t.cursor >= Size THEN scroll(t) ELSE t

printstr(s, str) ==
  LET shown[n \in 0 .. Len(str)] == IF n = 0 THEN s ELSE printchar(shown[n - 1], str[n])
  IN shown[Len(str)]

\* Mutant: the cursor goes back, the character stays.
delchar_keeps(s) == [s EXCEPT !.cursor = IF @ > 0 THEN @ - 1 ELSE 0]

\* At the first cell only the cell is blanked.
delchar(s) ==
  LET p == IF s.cursor > 0 THEN s.cursor - 1 ELSE 0
  IN [s EXCEPT !.cells[p] = Blank, !.cursor = p]

\* paintline, clearline
paintline(s, line) ==
  IF line >= Height THEN s
  ELSE [cells |-> [p \in Cells |-> IF p \div Width = line THEN Blank ELSE s.cells[p]],
        cursor |-> IF s.cursor \div Width = line THEN line * Width ELSE s.cursor]

\* Centred on the cursor's line, cut to its width; nothing scrolls.
printct(s, str) ==
  LET length == IF Len(str) > Width THEN Width ELSE Len(str)
      from == (s.cursor \div Width) * Width + ((Width - length) \div 2)
  IN [cells |-> [p \in Cells |-> IF p \in from .. (from + length - 1) THEN str[p - from + 1]
                                 ELSE s.cells[p]],
      cursor |-> from + length]

\* What stands before the cursor, from the first cell on.
Before(s) == [p \in 1 .. s.cursor |-> s.cells[p - 1]]
=============================================================================
