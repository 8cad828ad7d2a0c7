------------------------------ MODULE MCSyscall ------------------------------
(* Syscall for two processes of two users. *)
EXTENDS Syscall, TLC

AnyFree(free) == free

NoBytes == <<>>
TwoBytes == {<<"p", "q">>}

TwoUsers == {[user |-> 0, process |-> 1], [user |-> 1, process |-> 1]}
OneUser == {[user |-> 0, process |-> 1]}

\* Names has x only: a file or a directory, or nothing.
OnePath == {[absolute |-> TRUE, tokens |-> <<"x">>]}

\* The owner's right to write taken back.
NoWriting == {[DefaultPermissions EXCEPT !.owner = @ \ {"w"}]}

\* No address of the tree is special.
AddrSymmetry == Permutations(Addr)
=============================================================================
