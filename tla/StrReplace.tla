----------------------------- MODULE StrReplace -----------------------------
(***************************************************************************)
(* str_replace, src/lib/string.c.  One loop over `begin' counts the        *)
(* occurrences of `what', which gives the size of the new string; a second *)
(* loop over `begin' finds them again and writes the new string.  Nothing  *)
(* compares the two: what the second loop writes fits into what the first  *)
(* one asked for only because both see the same occurrences.               *)
(*                                                                         *)
(* Strings are sequences of characters without their terminator; one step  *)
(* is one iteration of a loop.                                             *)
(***************************************************************************)
EXTENDS Integers, SequencesExt

CONSTANTS
  Chars,    \* characters, without the terminator
  Calls     \* arguments of str_replace

ASSUME StrReplaceAssumption ==
  Calls \subseteq [begin : Seq(Chars), what : Seq(Chars), repl : Seq(Chars)]

VARIABLES
  call,     \* the arguments
  replace,  \* where str_replace is: "idle", "count", "room", "copy" or "panic"
  at,       \* the loop variable i, an index of C
  count,    \* occurrences found by the first loop
  outlen,   \* characters the new string was given room for
  out       \* what is written of it; oi is its length

replaceVars == <<call, replace, at, count, outlen, out>>

NoCall == [begin |-> <<>>, what |-> <<>>, repl |-> <<>>]

ReplaceInit ==
  /\ call = NoCall
  /\ replace = "idle"
  /\ at = 0
  /\ count = 0
  /\ outlen = 0
  /\ out = <<>>

blen == Len(call.begin)
wlen == Len(call.what)
rlen == Len(call.repl)

\* An empty `what' is found nowhere: the string is copied as it is.
ReplaceCall(c) ==
  /\ replace = "idle"
  /\ call' = c
  /\ replace' = IF c.what = <<>> THEN "room" ELSE "count"
  /\ at' = 0
  /\ count' = 0
  /\ outlen' = 0
  /\ out' = <<>>

\* The terminator of `begin' differs from every character of `what'.
match == \A j \in 1 .. wlen : at + j <= blen /\ call.begin[at + j] = call.what[j]

\* Mutant: the count takes overlapping occurrences.
CountOverlapping ==
  /\ replace = "count" /\ at < blen
  /\ count' = count + (IF match THEN 1 ELSE 0)
  /\ at' = at + 1
  /\ UNCHANGED <<call, replace, outlen, out>>

\* Mutant: where nothing is found, i stays.
CountStuck ==
  /\ replace = "count" /\ at < blen
  /\ count' = count + (IF match THEN 1 ELSE 0)
  /\ at' = at + (IF match THEN wlen ELSE 0)
  /\ UNCHANGED <<call, replace, outlen, out>>

Count ==
  /\ replace = "count" /\ at < blen
  /\ count' = count + (IF match THEN 1 ELSE 0)
  /\ at' = at + (IF match THEN wlen ELSE 1)
  /\ UNCHANGED <<call, replace, outlen, out>>

Counted ==
  /\ replace = "count" /\ at >= blen
  /\ replace' = "room"
  /\ UNCHANGED <<call, at, count, outlen, out>>

\* malloc(outlen + 1)
Room ==
  /\ replace = "room"
  /\ replace' = "copy"
  /\ outlen' = blen + count * (rlen - wlen)
  /\ at' = 0
  /\ UNCHANGED <<call, count, out>>

\* malloc stops the machine when it has no block.
RoomOutOfMemory ==
  /\ replace = "room"
  /\ replace' = "panic"
  /\ UNCHANGED <<call, at, count, outlen, out>>

Copy ==
  /\ replace = "copy" /\ at < blen
  /\ IF wlen > 0 /\ match
     THEN out' = out \o call.repl /\ at' = at + wlen
     ELSE out' = Append(out, call.begin[at + 1]) /\ at' = at + 1
  /\ UNCHANGED <<call, replace, count, outlen>>

Return ==
  /\ replace = "copy" /\ at >= blen
  /\ replace' = "idle"
  /\ UNCHANGED <<call, at, count, outlen, out>>

ReplaceStep == Count \/ Counted \/ Room \/ RoomOutOfMemory \/ Copy \/ Return

-----------------------------------------------------------------------------
(* What str_replace is to return, without a loop: from the left, every     *)
(* occurrence that does not begin inside one already taken.                *)

Occurrences(c) ==
  {p \in 1 .. Len(c.begin) :
     /\ p + Len(c.what) - 1 <= Len(c.begin)
     /\ c.what # <<>> /\ SubSeq(c.begin, p, p + Len(c.what) - 1) = c.what}

Inside(c, q) == (q + 1) .. (q + Len(c.what) - 1)

Taken(c) ==
  CHOOSE S \in SUBSET Occurrences(c) :
    \A p \in Occurrences(c) : p \in S <=> \A q \in S : p \notin Inside(c, q)

Replaced(c) ==
  FlattenSeq([p \in DOMAIN c.begin |->
                IF p \in Taken(c) THEN c.repl
                ELSE IF \E q \in Taken(c) : p \in Inside(c, q) THEN <<>>
                ELSE <<c.begin[p]>>])

\* str_replace asks malloc for exactly the characters it goes on to write, has
\* written a part of the right result after every iteration and returns all of it.
ReplaceInv ==
  /\ replace = "copy" => outlen = Len(Replaced(call)) /\ IsPrefix(out, Replaced(call))
  /\ replace = "idle" => out = Replaced(call)
=============================================================================
