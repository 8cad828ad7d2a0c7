------------------------------- MODULE HexEdit -------------------------------
(***************************************************************************)
(* hexedit, src/apps/hexedit/hexedit.c: the bytes of a file are printed as *)
(* a line of hexadecimal digits, the user edits the line at its end with   *)
(* read_str, and what then is in the line is parsed and replaces the file. *)
(* Which file that is, who may and what malloc does is in Shell.           *)
(*                                                                         *)
(* A byte is a pair of digits; upper and lower case are the same digit.    *)
(***************************************************************************)
EXTENDS Integers, Sequences

CONSTANTS
  Radix,         \* number of digits (16)
  Files,        \* contents of files
  LengthRange,  \* lengths the uint16_t read_str takes can hold (2^16)
  Edits         \* bound on the edits of one file

Digits == 0 .. (Radix - 1)
Bytes == Digits \X Digits
Space == -1   \* the character between two bytes
Other == -2   \* any other character that is no digit

ASSUME HexEditAssumption ==
  /\ {Radix, LengthRange} \subseteq Nat \ {0} /\ Edits \in Nat
  /\ Files \subseteq Seq(Bytes)

VARIABLES
  data,     \* the file
  hexedit,  \* where hexedit_main is: "idle", "edit" or "parse"
  line,     \* hexdump_modified
  byte,     \* parsed_bytes
  next,     \* the loop variable i of the parser, an index of C
  opened,   \* the file when it was opened
  kept,     \* the shortest the line has been since it was printed
  edits     \* edits so far

hexVars == <<data, hexedit, line, byte, next, opened, kept, edits>>

HexInit ==
  /\ data \in Files
  /\ hexedit = "idle"
  /\ line = <<>>
  /\ byte = <<>>
  /\ next = 0
  /\ opened = data
  /\ kept = 0
  /\ edits = 0

-----------------------------------------------------------------------------
(* print_hexdump and read_str *)

hex_size(file) == 3 * Len(file) + 1

\* Two digits and a space for each byte; the last space gives way to the terminator.
print_hexdump(file) ==
  [k \in 1 .. (IF file = <<>> THEN 0 ELSE 3 * Len(file) - 1) |->
     IF k % 3 = 0 THEN Space ELSE file[(k \div 3) + 1][k % 3]]

\* read_str takes the size of the buffer as a uint16_t, and leaves a cell for the terminator.
Limit(file) == (hex_size(file) % LengthRange) - 1
Filled(text, limit) == SubSeq(text, 1, IF Len(text) < limit THEN Len(text)
                                       ELSE IF limit < 0 THEN 0 ELSE limit)

hexedit_main ==
  /\ hexedit = "idle" /\ edits < Edits
  /\ hexedit' = "edit"
  /\ line' = Filled(print_hexdump(data), Limit(data))
  /\ opened' = data
  /\ kept' = Len(print_hexdump(data))
  /\ edits' = edits + 1
  /\ UNCHANGED <<data, byte, next>>

Type(char) ==
  /\ hexedit = "edit"
  /\ Len(line) < Limit(data)
  /\ line' = Append(line, char)
  /\ UNCHANGED <<data, hexedit, byte, next, opened, kept, edits>>

Erase ==
  /\ hexedit = "edit"
  /\ line # <<>>
  /\ line' = SubSeq(line, 1, Len(line) - 1)
  /\ kept' = IF Len(line') < kept THEN Len(line') ELSE kept
  /\ UNCHANGED <<data, hexedit, byte, next, opened, edits>>

\* malloc(0) is NULL: a file without bytes is not saved.
Enter ==
  /\ hexedit = "edit"
  /\ hexedit' = IF data = <<>> THEN "idle" ELSE "parse"
  /\ byte' = <<>>
  /\ next' = 0
  /\ UNCHANGED <<data, line, opened, kept, edits>>

-----------------------------------------------------------------------------
(* parse_hexdump_to_bytes *)

\* The first digit at or behind i, or the end of the line.
DigitFrom(i) ==
  CHOOSE k \in i .. Len(line) :
    /\ k = Len(line) \/ line[k + 1] \in Digits
    /\ \A l \in i .. (k - 1) : line[l + 1] \notin Digits

Within(i) == i < Len(line)
MoreBytes == hexedit = "parse" /\ Len(byte) < Len(data) /\ Within(DigitFrom(next))

\* Mutant: the second digit is read and not stepped over.
ParseByteRereads ==
  LET high == DigitFrom(next)
      low == DigitFrom(high + 1)
  IN /\ MoreBytes
     /\ byte' = Append(byte, <<line[high + 1], IF Within(low) THEN line[low + 1] ELSE 0>>)
     /\ next' = low
     /\ UNCHANGED <<data, hexedit, line, opened, kept, edits>>

\* A last digit alone is the high one, with 0 for the low one.
ParseByte ==
  LET high == DigitFrom(next)
      low == DigitFrom(high + 1)
  IN /\ MoreBytes
     /\ byte' = Append(byte, <<line[high + 1], IF Within(low) THEN line[low + 1] ELSE 0>>)
     /\ next' = IF Within(low) THEN low + 1 ELSE low
     /\ UNCHANGED <<data, hexedit, line, opened, kept, edits>>

\* The file has as many bytes as were parsed, and never more than before.
hexedit_save ==
  /\ hexedit = "parse" /\ ~MoreBytes
  /\ data' = byte
  /\ hexedit' = "idle"
  /\ UNCHANGED <<line, byte, next, opened, kept, edits>>

-----------------------------------------------------------------------------

\* Bytes of the file whose two digits the user never erased are saved as they
\* were, in their places, whatever is typed behind them; no edit makes the file
\* longer.  A file whose line does not fit the length read_str takes is cut.
PrefixKept ==
  hexedit = "idle" /\ hex_size(opened) < LengthRange =>
    /\ Len(data) <= Len(opened)
    /\ \A k \in DOMAIN opened : 3 * k - 1 <= kept => k \in DOMAIN data /\ data[k] = opened[k]
=============================================================================
