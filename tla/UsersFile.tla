------------------------------ MODULE UsersFile ------------------------------
(***************************************************************************)
(* parse_users and find_user, src/apps/terminal/tty.c.  The text of        *)
(* /etc/users is taken apart in one pass, a character per step, into a     *)
(* table that lies in the frame of terminal_main: it is parsed into anew   *)
(* before every login and keeps the bytes of the parse before, at first    *)
(* those of whatever used the stack.  A line is id:name:password:groups.   *)
(*                                                                         *)
(* A cell of the table holds a character, the terminator End, or Unknown.  *)
(* A character written behind the last group of an entry lands in the      *)
(* memory behind: the pass is then "wild" and the model stops there.       *)
(***************************************************************************)
EXTENDS Integers, SequencesExt

CONSTANTS
  Texts,       \* contents of /etc/users
  UsersMax,    \* entries of the table (16)
  GroupsMax,   \* groups of an entry (8)
  NameSize,    \* cells of a name, a password or a group (32)
  Parses       \* bound on the number of logins tried

ASSUME UsersFileAssumption ==
  /\ Texts \subseteq Seq(STRING)
  /\ {UsersMax, GroupsMax, Parses} \subseteq Nat \ {0}
  /\ NameSize \in Nat /\ NameSize > 1   \* a character and its terminator

VARIABLES
  buf,        \* the text, as fs_read left it in buf
  users,      \* the table
  parse,      \* where the pass is: "idle", "line", "chars" or "wild"
  pos,        \* i, as an index of C
  out_count,  \* entries filled
  field,      \* of the current line: 0 id, 1 name, 2 password, 3 groups
  char_i, group_i, group_char_i,
  parsed      \* parses so far

userVars == <<buf, users, parse, pos, out_count, field, char_i, group_i, group_char_i, parsed>>
lineVars == <<field, char_i, group_i, group_char_i>>

End == "\\0"
Unknown == "?"
Newline == "\n"
ColonMark == ":"
CommaMark == ","
Numerals == <<"0", "1", "2", "3", "4", "5", "6", "7", "8", "9">>
Digit == [d \in ToSet(Numerals) |-> CHOOSE n \in 0 .. 9 : Numerals[n + 1] = d]

Blank == [c \in 0 .. (NameSize - 1) |-> Unknown]

UsersInit ==
  /\ buf = <<>>
  /\ users = [k \in 1 .. UsersMax |->
                [user_id |-> 0, username |-> Blank, password |-> Blank,
                 groups |-> [g \in 0 .. (GroupsMax - 1) |-> Blank], group_count |-> 0]]
  /\ parse = "idle"
  /\ pos = 0
  /\ out_count = 0
  /\ field = 0 /\ char_i = 0 /\ group_i = 0 /\ group_char_i = 0
  /\ parsed = 0

\* Before every login the file is read and the table filled from its start.
parse_users(text) ==
  /\ parse = "idle" /\ parsed < Parses
  /\ buf' = text
  /\ parse' = "line"
  /\ pos' = 0
  /\ out_count' = 0
  /\ parsed' = parsed + 1
  /\ UNCHANGED <<users, lineVars>>

-----------------------------------------------------------------------------
(* A line *)

ue == users[out_count + 1]
Entry(e) == users' = [users EXCEPT ![out_count + 1] = e]

\* Mutant: the groups of the entry that was here before are counted on.
StartLineKeepsGroups ==
  /\ parse = "line" /\ pos < Len(buf) /\ out_count < UsersMax
  /\ Entry([ue EXCEPT !.user_id = 0, !.username[0] = End, !.password[0] = End])
  /\ field' = 0 /\ char_i' = 0 /\ group_i' = 0 /\ group_char_i' = 0
  /\ parse' = "chars"
  /\ UNCHANGED <<buf, pos, out_count, parsed>>

StartLine ==
  /\ parse = "line" /\ pos < Len(buf) /\ out_count < UsersMax
  /\ Entry([ue EXCEPT !.user_id = 0, !.username[0] = End, !.password[0] = End, !.group_count = 0])
  /\ field' = 0 /\ char_i' = 0 /\ group_i' = 0 /\ group_char_i' = 0
  /\ parse' = "chars"
  /\ UNCHANGED <<buf, pos, out_count, parsed>>

LastLine ==
  /\ parse = "line"
  /\ pos >= Len(buf) \/ out_count >= UsersMax
  /\ parse' = "idle"
  /\ UNCHANGED <<buf, users, pos, out_count, lineVars, parsed>>

InLine == parse = "chars" /\ pos < Len(buf) /\ buf[pos + 1] # Newline
c == buf[pos + 1]
NextChar == pos' = pos + 1 /\ UNCHANGED <<buf, out_count, parsed>>

\* A group is ended in its own cells, and the next one begins.
Ended(e) == [e EXCEPT !.groups[group_i][group_char_i] = End, !.group_count = @ + 1]
EndGroup == Entry(Ended(ue)) /\ group_i' = group_i + 1 /\ group_char_i' = 0

Colon ==
  /\ InLine /\ c = ColonMark
  /\ IF field = 3 /\ group_char_i > 0 /\ group_i < GroupsMax
     THEN EndGroup
     ELSE /\ CASE field = 1 -> Entry([ue EXCEPT !.username[char_i] = End])
               [] field = 2 -> Entry([ue EXCEPT !.password[char_i] = End])
               [] OTHER -> UNCHANGED users
          /\ UNCHANGED <<group_i, group_char_i>>
  /\ char_i' = 0
  /\ field' = field + 1
  /\ UNCHANGED parse
  /\ NextChar

Comma ==
  /\ InLine /\ c = CommaMark /\ field = 3 /\ group_i < GroupsMax
  /\ EndGroup
  /\ UNCHANGED <<parse, field, char_i>>
  /\ NextChar

\* Behind the last group there is no other to write to.
GroupChar ==
  /\ InLine /\ field = 3 /\ c # ColonMark /\ ~(c = CommaMark /\ group_i < GroupsMax)
  /\ IF group_i >= GroupsMax
     THEN parse' = "wild" /\ UNCHANGED <<users, group_char_i>>
     ELSE IF group_char_i < NameSize - 1
     THEN /\ Entry([ue EXCEPT !.groups[group_i][group_char_i] = c])
          /\ group_char_i' = group_char_i + 1
          /\ UNCHANGED parse
     ELSE UNCHANGED <<parse, users, group_char_i>>
  /\ UNCHANGED <<field, char_i, group_i>>
  /\ NextChar

NameChar ==
  /\ InLine /\ field \in {1, 2} /\ c # ColonMark
  /\ IF char_i < NameSize - 1
     THEN /\ IF field = 1 THEN Entry([ue EXCEPT !.username[char_i] = c])
             ELSE Entry([ue EXCEPT !.password[char_i] = c])
          /\ char_i' = char_i + 1
     ELSE UNCHANGED <<users, char_i>>
  /\ UNCHANGED <<parse, field, group_i, group_char_i>>
  /\ NextChar

\* What is no digit is no part of an id, and what is behind the groups is nothing.
OtherChar ==
  /\ InLine /\ field \notin {1, 2, 3} /\ c # ColonMark
  /\ IF field = 0 /\ c \in DOMAIN Digit
     THEN Entry([ue EXCEPT !.user_id = @ * 10 + Digit[c]])
     ELSE UNCHANGED users
  /\ UNCHANGED <<parse, lineVars>>
  /\ NextChar

EndLine ==
  /\ parse = "chars" /\ ~InLine
  /\ IF field = 3 /\ group_char_i > 0 /\ group_i < GroupsMax
     THEN Entry(Ended(ue))
     ELSE UNCHANGED users
  /\ out_count' = out_count + 1
  /\ pos' = IF pos < Len(buf) THEN pos + 1 ELSE pos
  /\ parse' = "line"
  /\ UNCHANGED <<buf, lineVars, parsed>>

ParseStep == StartLine \/ LastLine \/ Colon \/ Comma \/ GroupChar \/ NameChar \/ OtherChar \/ EndLine

-----------------------------------------------------------------------------
(* Reading the table *)

\* The characters in front of the first terminator, as streql sees them.
Read(cells) ==
  LET ends == {e \in DOMAIN cells : cells[e] = End}
      end == IF ends = {} THEN NameSize ELSE CHOOSE e \in ends : \A d \in ends : e <= d
  IN [k \in 1 .. end |-> cells[k - 1]]

\* The first entry of that name, or 0 for NULL.
find_user(name) ==
  LET hits == {k \in 1 .. out_count : Read(users[k].username) = name}
  IN IF hits = {} THEN 0 ELSE CHOOSE k \in hits : \A l \in hits : k <= l

-----------------------------------------------------------------------------
(* What the text says, without a pass over it: the pieces between separators. *)

Cuts(s, separator) == {0, Len(s) + 1} \cup {k \in DOMAIN s : s[k] = separator}
Before(s, separator, x) == {y \in Cuts(s, separator) : y < x}
Cut(s, separator, n) == CHOOSE x \in Cuts(s, separator) : Cardinality(Before(s, separator, x)) = n

Pieces(s, separator) ==
  [n \in 1 .. (Cardinality(Cuts(s, separator)) - 1) |->
     SubSeq(s, Cut(s, separator, n - 1) + 1, Cut(s, separator, n) - 1)]

\* The piece behind the last separator counts if there is something in it.
Ending(pieces) == IF Last(pieces) = <<>> THEN Front(pieces) ELSE pieces

Lines(text) == Ending(Pieces(text, Newline))
Fields(line) == Pieces(line, ColonMark)
Complete(line) == Len(Fields(line)) >= 4
GroupsOf(line) == Ending(Pieces(Fields(line)[4], CommaMark))

\* A name that is too long is cut short; a 0 byte in it ends it as well.
Kept(s) == IF Len(s) < NameSize THEN Len(s) ELSE NameSize - 1
Stored(s) == [k \in 0 .. (NameSize - 1) |-> IF k < Kept(s) THEN s[k + 1] ELSE End]
Short(s) == Read(Stored(s))

\* The digits of a number, whatever stands between them.
Decimal(s) ==
  LET value[k \in 0 .. Len(s)] ==
        IF k = 0 THEN 0
        ELSE IF s[k] \in DOMAIN Digit THEN value[k - 1] * 10 + Digit[s[k]]
        ELSE value[k - 1]
  IN value[Len(s)]

Says(line, e) ==
  /\ e.user_id = Decimal(Fields(line)[1])
  /\ Read(e.username) = Short(Fields(line)[2])
  /\ Read(e.password) = Short(Fields(line)[3])
  /\ e.group_count = Len(GroupsOf(line))
  /\ \A g \in 1 .. e.group_count : Read(e.groups[g - 1]) = Short(GroupsOf(line)[g])

\* However often the table was filled before, and with what: each complete line
\* has an entry that says what the line says and nothing of an earlier parse,
\* up to as many lines as there are entries; a user is found by the first line
\* of that name, where no line is cut short; and nothing is written outside the
\* table but for a line with more groups than an entry has.
UsersFollowText ==
  LET lines == Lines(buf)
      named(name) == {k \in 1 .. out_count : Short(Fields(lines[k])[2]) = name}
  IN /\ parse = "idle" =>
          /\ out_count = IF Len(lines) < UsersMax THEN Len(lines) ELSE UsersMax
          /\ \A k \in 1 .. out_count : Complete(lines[k]) => Says(lines[k], users[k])
          /\ (\A k \in 1 .. out_count : Complete(lines[k])) =>
               \A name \in {Short(Fields(lines[k])[2]) : k \in 1 .. out_count} :
                 find_user(name) \in named(name) /\ \A k \in named(name) : find_user(name) <= k
     /\ parse = "wild" =>
          \E k \in DOMAIN lines : Complete(lines[k]) /\ Len(GroupsOf(lines[k])) > GroupsMax
=============================================================================
