-------------------------------- MODULE Heap --------------------------------
(***************************************************************************)
(* The kernel heap of src/drivers/misc/memory.c: one static pool, carved   *)
(* into blocks by headers that form a doubly linked list, first fit, split *)
(* on allocation, merge with both neighbours on release.                   *)
(*                                                                         *)
(* Addresses are byte offsets into memory_pool.  `hdr' holds the headers   *)
(* that are on the list, by the offset they are stored at; a header that   *)
(* free() merges away leaves the domain.  malloc's search is modelled one  *)
(* loop iteration per step, so that what the loop knows about the blocks   *)
(* it has passed can be stated.  free() is one step: it has no loop, and   *)
(* nothing runs beside it (one thread of control, interrupts masked).      *)
(*                                                                         *)
(* An operator marked "Mutant" is no part of the specification: it is what *)
(* the definition below it would be after a plausible slip in memory.c.    *)
(***************************************************************************)
EXTENDS Integers, FiniteSets

CONSTANTS
  PoolSize,    \* MEMORY_POOL_SIZE
  HeaderSize,  \* sizeof(memory_block_t)
  Requests     \* the sizes callers ask malloc for

ASSUME HeapAssumption ==
  /\ HeaderSize \in Nat \ {0}
  /\ PoolSize \in Nat
  /\ PoolSize > HeaderSize
  /\ Requests \subseteq Nat \ {0}

VARIABLES
  hdr,      \* partial function: offset of a block on the list -> its header
  memory_already_initialized,
  pc,       \* "idle", "scan" (inside malloc's loop) or "halted" (kernelpanic)
  current,  \* malloc's loop variable
  size,     \* malloc's argument
  live      \* what callers hold: pointer -> bytes they asked for

vars == <<hdr, memory_already_initialized, pc, current, size, live>>

NULL == -1  \* no offset of the pool

Blocks == DOMAIN hdr
Payload(b) == b + HeaderSize
BlockEnd(b) == b + HeaderSize + hdr[b].size

-----------------------------------------------------------------------------

Init ==
  /\ hdr = [b \in {} |-> [size |-> 0, next |-> NULL, prev |-> NULL, free |-> TRUE]]
  /\ memory_already_initialized = FALSE
  /\ pc = "idle"
  /\ current = NULL
  /\ size = 0
  /\ live = [p \in {} |-> 0]

init_memory_heap ==
  /\ pc = "idle"
  /\ ~memory_already_initialized
  /\ hdr' = [b \in {0} |-> [size |-> PoolSize - HeaderSize,
                            next |-> NULL, prev |-> NULL, free |-> TRUE]]
  /\ memory_already_initialized' = TRUE
  /\ UNCHANGED <<pc, current, size, live>>

-----------------------------------------------------------------------------
(* malloc *)

\* Entering the loop.  Without an initialised heap, or for zero bytes, malloc
\* returns NULL and changes nothing.
MallocCall(n) ==
  /\ pc = "idle"
  /\ memory_already_initialized
  /\ pc' = "scan"
  /\ current' = 0
  /\ size' = n
  /\ UNCHANGED <<hdr, memory_already_initialized, live>>

Fits(b) == hdr[b].free /\ hdr[b].size >= size

\* Mutant: the loop goes on although the block fits.
MallocAdvanceUnchecked ==
  /\ pc = "scan"
  /\ current # NULL
  /\ current' = hdr[current].next
  /\ UNCHANGED <<hdr, memory_already_initialized, pc, size, live>>

\* Mutant: a `continue' for occupied blocks skips the step to the next one.
MallocAdvanceStuck ==
  /\ pc = "scan"
  /\ current # NULL
  /\ ~Fits(current)
  /\ current' = IF hdr[current].free THEN hdr[current].next ELSE current
  /\ UNCHANGED <<hdr, memory_already_initialized, pc, size, live>>

MallocAdvance ==
  /\ pc = "scan"
  /\ current # NULL
  /\ ~Fits(current)
  /\ current' = hdr[current].next
  /\ UNCHANGED <<hdr, memory_already_initialized, pc, size, live>>

\* Mutants: the rest linked the wrong way round; the rest as large as the whole.
RestHeaderSwapped(b, n) ==
  [size |-> hdr[b].size - n - HeaderSize, next |-> b, prev |-> hdr[b].next, free |-> TRUE]
RestHeaderFull(b, n) ==
  [size |-> hdr[b].size, next |-> hdr[b].next, prev |-> b, free |-> TRUE]

RestHeader(b, n) ==
  [size |-> hdr[b].size - n - HeaderSize, next |-> hdr[b].next, prev |-> b, free |-> TRUE]

\* Block b keeps n bytes; a new free block takes over what is left behind it.
Split(b, n) ==
  LET rest == b + HeaderSize + n
  IN [x \in Blocks \cup {rest} |->
        IF x = rest THEN RestHeader(b, n)
        ELSE IF x = b THEN [hdr[b] EXCEPT !.next = rest]
        ELSE IF x = hdr[b].next THEN [hdr[x] EXCEPT !.prev = rest]
        ELSE hdr[x]]

Carved(b, n) == IF hdr[b].size > n + HeaderSize THEN Split(b, n) ELSE hdr

\* Mutant: the block's size is not cut down to the request.
TakenKeepsSize(b, n) == [Carved(b, n) EXCEPT ![b].free = FALSE]

\* The block is cut down to the request even when nothing was split off.
Taken(b, n) == [Carved(b, n) EXCEPT ![b].size = n, ![b].free = FALSE]

\* Success.  The loop variable and the argument die with the call.
MallocTake ==
  /\ pc = "scan"
  /\ current # NULL
  /\ Fits(current)
  /\ hdr' = Taken(current, size)
  /\ live' = [p \in DOMAIN live \cup {Payload(current)} |->
                IF p = Payload(current) THEN size ELSE live[p]]
  /\ pc' = "idle"
  /\ current' = NULL
  /\ size' = 0
  /\ UNCHANGED memory_already_initialized

\* The end of the list: kernelpanic("OUT_OF_MEMORY"), which does not return.
MallocPanic ==
  /\ pc = "scan"
  /\ current = NULL
  /\ pc' = "halted"
  /\ UNCHANGED <<hdr, memory_already_initialized, current, size, live>>

-----------------------------------------------------------------------------
(* free *)

\* Mutant: the neighbour's header is not counted.
GrownNoHeader(h, a, b) ==
  [h[a] EXCEPT !.size = @ + h[b].size, !.next = h[b].next]

Grown(h, a, b) ==
  [h[a] EXCEPT !.size = @ + HeaderSize + h[b].size, !.next = h[b].next]

\* Block a takes over the room of block b, and b leaves the list h.
Absorb(h, a, b) ==
  [x \in DOMAIN h \ {b} |->
     IF x = a THEN Grown(h, a, b)
     ELSE IF x = h[b].next THEN [h[x] EXCEPT !.prev = a]
     ELSE h[x]]

MergeNext(h, b) ==
  IF h[b].next # NULL /\ h[h[b].next].free THEN Absorb(h, b, h[b].next) ELSE h

\* Mutant: the neighbour in front is not merged.
NoMergePrev(h, b) == h

MergePrev(h, b) ==
  IF h[b].prev # NULL /\ h[h[b].prev].free THEN Absorb(h, h[b].prev, b) ELSE h

\* A block already free is left alone; NULL is never in live.
Free(p) ==
  LET b == p - HeaderSize
      marked == [hdr EXCEPT ![b].free = TRUE]
  IN /\ pc = "idle"
     /\ memory_already_initialized
     /\ ~hdr[b].free
     /\ hdr' = MergePrev(MergeNext(marked, b), b)
     /\ live' = [q \in DOMAIN live \ {p} |-> live[q]]
     /\ UNCHANGED <<memory_already_initialized, pc, current, size>>

-----------------------------------------------------------------------------

Scan == MallocAdvance \/ MallocTake \/ MallocPanic

Next ==
  \/ init_memory_heap
  \/ \E n \in Requests : MallocCall(n)
  \/ Scan
  \/ \E p \in DOMAIN live : Free(p)

Spec == Init /\ [][Next]_vars

\* The processor keeps executing malloc's loop; nothing obliges a caller to
\* ask for memory or to give it back.
FairSpec == Spec /\ WF_vars(Scan)

-----------------------------------------------------------------------------
(* Invariants *)

Owned == {b \in Blocks : ~hdr[b].free}

TypeOK ==
  /\ Blocks \subseteq 0 .. (PoolSize - 1)
  /\ hdr \in [Blocks -> [size : Nat, next : Blocks \cup {NULL},
                         prev : Blocks \cup {NULL}, free : BOOLEAN]]
  /\ memory_already_initialized \in BOOLEAN
  /\ pc \in {"idle", "scan", "halted"}
  /\ current \in Blocks \cup {NULL} /\ (pc = "idle" => current = NULL)
  /\ size \in Requests \cup {0} /\ (pc # "idle" => size \in Requests)
  /\ live \in [DOMAIN live -> Requests]

\* The list starts at the first byte of the pool, and only once initialised.
HeadInv ==
  IF memory_already_initialized THEN 0 \in Blocks ELSE Blocks = {} /\ pc = "idle"

\* Every block lies in the pool.
InPool == \A b \in Blocks : BlockEnd(b) <= PoolSize

\* next leads to the nearest block behind this one, past its last byte; a
\* block without next is the last.
LinksForward ==
  \A b \in Blocks :
    IF hdr[b].next = NULL
    THEN \A c \in Blocks : c <= b
    ELSE /\ hdr[b].next >= BlockEnd(b)
         /\ \A c \in Blocks : c <= b \/ c >= hdr[b].next

\* prev is the inverse of next, and only the head has none.
LinksBack ==
  \A b \in Blocks :
    /\ hdr[b].prev = NULL <=> b = 0
    /\ hdr[b].prev # NULL => hdr[hdr[b].prev].next = b
    /\ hdr[b].next # NULL => hdr[hdr[b].next].prev = b

\* The hazard of malloc's split and free's two merges: they edit up to four
\* links of a doubly linked list in place, through headers that are about to
\* disappear.  Between calls the list is in address order, without overlap,
\* inside the pool, and readable in both directions.
ListWellFormed == HeadInv /\ InPool /\ LinksForward /\ LinksBack

\* free() merges with one neighbour on each side only; that is enough because
\* no two neighbours on the list are ever both free.
Coalesced ==
  \A b \in Blocks :
    hdr[b].next # NULL => ~(hdr[b].free /\ hdr[hdr[b].next].free)

\* What callers hold is exactly what the list calls occupied, byte for byte:
\* no block is lost to both sides, none is handed out twice.
OwnersMatchBlocks ==
  /\ {Payload(b) : b \in Owned} = DOMAIN live
  /\ \A b \in Owned : hdr[b].size = live[Payload(b)]

\* Two callers never share a byte, and no caller's bytes hold a header.
PayloadsDisjoint ==
  /\ \A p, q \in DOMAIN live : p < q => p + live[p] <= q - HeaderSize
  /\ \A p \in DOMAIN live, b \in Blocks : b >= p => b >= p + live[p]

\* The loop invariant of malloc: the blocks behind the loop variable were
\* looked at and do not fit.
ScanInv ==
  pc = "scan" =>
    \A b \in Blocks : (current = NULL \/ b < current) => ~Fits(b)

\* kernelpanic("OUT_OF_MEMORY") is reached only when no free block on the list
\* could have served the request, wherever on the list it is.
PanicJustified == pc = "halted" => \A b \in Blocks : ~Fits(b)

\* When everything was given back the pool is one free block again, in
\* whatever order callers released it.
AllFreeMeansOneBlock ==
  memory_already_initialized /\ DOMAIN live = {} => Blocks = {0} /\ hdr[0].free

-----------------------------------------------------------------------------
(* Properties of steps *)

\* First fit: the block malloc returns is the lowest that could have served
\* the request at the moment it is taken.
FirstFit ==
  [][\A p \in DOMAIN live' \ DOMAIN live :
       \A b \in Blocks : b < p - HeaderSize => ~(hdr[b].free /\ hdr[b].size >= live'[p])]_vars

\* Nothing a caller holds moves, shrinks or grows until that caller frees it.
OwnersUndisturbed ==
  [][\A p \in DOMAIN live \cap DOMAIN live' :
       /\ live'[p] = live[p]
       /\ p - HeaderSize \in DOMAIN hdr'
       /\ hdr'[p - HeaderSize].size = hdr[p - HeaderSize].size
       /\ ~hdr'[p - HeaderSize].free]_vars

\* Bytes that some block still stands for, its header included.
Accounted == Cardinality(UNION {b .. (BlockEnd(b) - 1) : b \in Blocks})

\* The pool's account: free loses no byte, whatever it merges; malloc loses at
\* most the bytes too few for a header of their own; nothing invents bytes.
BytesConserved ==
  [][memory_already_initialized =>
       /\ Accounted' <= Accounted
       /\ Accounted' >= Accounted - HeaderSize
       /\ (DOMAIN live' \subseteq DOMAIN live) => Accounted' = Accounted]_vars

\* malloc always comes back: with a block, or in the panic screen.
MallocEnds == pc = "scan" ~> pc # "scan"

-----------------------------------------------------------------------------
(* The promise of memory.h: allocations, without blocks or lists. *)

Promise == INSTANCE Allocator WITH
  allocated <- [p \in {Payload(b) : b \in Owned} |-> hdr[p - HeaderSize].size],
  halted <- (pc = "halted")

\* Heap implements Allocator.
ImplementsAllocator == Promise!Spec

\* The text of kernelpanic's message, "There is no sufficient memory for
\* allocation.": it must not appear while nothing is allocated and the request
\* is no larger than the pool.
PanicMeansPoolExhausted ==
  pc = "halted" => ~(DOMAIN live = {} /\ size <= PoolSize - HeaderSize)
=============================================================================
