----------------------------- MODULE Allocator -----------------------------
(***************************************************************************)
(* What malloc and free of memory.h promise their callers, with nothing    *)
(* said about blocks, headers or lists: a set of outstanding allocations   *)
(* that lie inside the pool and never share a byte.  A request that cannot *)
(* be served stops the machine (kernelpanic does not return).              *)
(*                                                                         *)
(* Heap is shown to implement this specification.                          *)
(***************************************************************************)
EXTENDS Integers

CONSTANTS
  PoolSize,   \* bytes of the pool
  Requests    \* the sizes callers ask for

VARIABLES
  allocated,  \* partial function: outstanding pointer -> bytes it owns
  halted      \* the machine stopped in kernelpanic

vars == <<allocated, halted>>

Bytes(p, n) == p .. (p + n - 1)

Init ==
  /\ allocated = [p \in {} |-> 0]
  /\ halted = FALSE

\* Any placement is allowed that no outstanding allocation overlaps.
Allocate(p, n) ==
  /\ ~halted
  /\ Bytes(p, n) \subseteq 0 .. (PoolSize - 1)
  /\ \A q \in DOMAIN allocated : Bytes(q, allocated[q]) \cap Bytes(p, n) = {}
  /\ allocated' = [q \in DOMAIN allocated \cup {p} |->
                     IF q = p THEN n ELSE allocated[q]]
  /\ UNCHANGED halted

Release(p) ==
  /\ ~halted
  /\ allocated' = [q \in DOMAIN allocated \ {p} |-> allocated[q]]
  /\ UNCHANGED halted

Halt ==
  /\ ~halted
  /\ halted' = TRUE
  /\ UNCHANGED allocated

Next ==
  \/ \E p \in 0 .. (PoolSize - 1), n \in Requests : Allocate(p, n)
  \/ \E p \in DOMAIN allocated : Release(p)
  \/ Halt

Spec == Init /\ [][Next]_vars
=============================================================================
