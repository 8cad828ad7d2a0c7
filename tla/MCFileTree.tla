----------------------------- MODULE MCFileTree -----------------------------
(* FileTree on a heap of a few addresses. *)
EXTENDS FileTree, TLC

\* The order of addresses does not matter here: malloc may return any free one.
AnyFree(free) == free

\* No address is special.
AddrSymmetry == Permutations(Addr)
=============================================================================
