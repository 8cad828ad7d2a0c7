---------------------------- MODULE Descriptors -----------------------------
(***************************************************************************)
(* What a caller of syscall.h may count on: a table of descriptors that    *)
(* only grows, numbered from 1 in the order they were made, and files whose*)
(* bytes a call can have only through a descriptor of the caller's own.    *)
(* How the table is stored, and which rights a call asks for, is left to   *)
(* module Syscall.                                                         *)
(***************************************************************************)
EXTENDS Naturals, Sequences

CONSTANTS NoAnswer, Function  \* no call was just answered; what is no file

VARIABLES
  table,   \* table[id]: what the descriptor leads to, and who opened it
  files,   \* partial function: what a descriptor may lead to -> its bytes
  answer   \* the call just answered, with its result, or NoAnswer

vars == <<table, files, answer>>

Init == table = <<>> /\ answer = NoAnswer

\* Everything else in the kernel: it changes files, not descriptors.
Elsewhere == answer' = NoAnswer /\ UNCHANGED table

\* The kernel makes a descriptor for itself, or a process opens a file.
Make ==
  /\ Len(table') = Len(table) + 1
  /\ SubSeq(table', 1, Len(table)) = table
  /\ LET new == table'[Len(table')]
     IN \/ new.to = Function /\ answer' = NoAnswer
        \/ /\ new.to \in DOMAIN files
           /\ answer'.call = "open" /\ answer'.errs = "OK"
           /\ answer'.rax = Len(table') /\ answer'.caller = new.opener
  /\ UNCHANGED files

\* A number is unknown exactly when no descriptor was made under it.
Refuse ==
  /\ answer'.errs # "OK"
  /\ answer'.call \in {"read", "write"} =>
       (answer'.errs = "FD_NOT_FOUND" <=> answer'.id \notin DOMAIN table)
  /\ UNCHANGED <<table, files>>

Own == answer'.id \in DOMAIN table /\ table[answer'.id].opener = answer'.caller

\* The bytes a buffer of that room has space for, with a 0 behind them.
Read ==
  /\ answer'.call = "read" /\ answer'.errs = "OK" /\ Own
  /\ LET to == table[answer'.id].to
         got == answer'.bytes
     IN to # Function =>
          /\ files[to] # <<>> => Len(got) < answer'.room
          /\ got = SubSeq(files[to], 1, Len(got))
          /\ Len(got) = Len(files[to]) \/ Len(got) + 1 = answer'.room
          /\ answer'.rax = Len(got)
  /\ UNCHANGED <<table, files>>

Write ==
  /\ answer'.call = "write" /\ answer'.errs = "OK" /\ Own
  /\ LET to == table[answer'.id].to
     IN files' = IF to = Function THEN files ELSE [files EXCEPT ![to] = answer'.bytes]
  /\ UNCHANGED table

Next == Elsewhere \/ Make \/ (answer' # NoAnswer /\ (Refuse \/ Read \/ Write))

Spec == Init /\ [][Next]_vars
=============================================================================
