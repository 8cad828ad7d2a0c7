------------------------------- MODULE PhysMem -------------------------------
(***************************************************************************)
(* Physical pages, src/drivers/misc/memory.c: at boot the multiboot memory *)
(* map is turned into a bitmap of used pages, which itself lies in some    *)
(* region of that map; then runs of pages are handed out and taken back.   *)
(*                                                                         *)
(* The bitmap is the set `used'.  Every call that is not refused at once   *)
(* walks over the pages with a loop that skips what it has seen; the walk  *)
(* is modelled one iteration per step.  A return value of 0 means failure, *)
(* so a caller that is given the run at page 0 holds nothing.              *)
(*                                                                         *)
(* An operator marked "Mutant" is no part of the specification: it is what *)
(* the definition below it would be after a plausible slip in memory.c.    *)
(***************************************************************************)
EXTENDS Integers, Sequences

CONSTANTS
  PageSize,    \* PM_PAGE_SIZE
  LongRange,   \* numbers an unsigned long can hold, the type of PM_PAGE_SIZE
  Maps,        \* memory maps the boot loader may pass: sequences of entries
  Sizes,       \* bytes callers ask for
  Alignments   \* alignments callers ask for

MapEntry == [addr : Nat, len : Nat, type : Nat]

ASSUME PhysMemAssumption ==
  /\ PageSize \in Nat \ {0}
  /\ LongRange \in Nat \ {0}
  /\ Maps \subseteq Seq(MapEntry)
  /\ Sizes \subseteq Nat \ {0}
  /\ Alignments \subseteq Nat

VARIABLES
  map,               \* the memory map, <<>> before physmem_init_from_multiboot
  phys_total_pages,
  bitmap_phys,       \* address of the bitmap; 0 is also phys_bitmap = NULL
  used,              \* pages whose bit is set
  early,             \* the bump region: early_alloc_phys_ptr and _end
  pc,                \* "boot", "idle" or "scan"
  request,           \* pages wanted and alignment in pages, inside phys_alloc_contiguous
  i,                 \* its loop variable
  held               \* what callers hold: first page -> number of pages

vars == <<map, phys_total_pages, bitmap_phys, used, early, pc, request, i, held>>

-----------------------------------------------------------------------------
(* Rounding.  The mask ~(PM_PAGE_SIZE - 1) is an unsigned long: where that is *)
(* narrower than an address, rounding also cuts off the high bits.            *)

Long(x) == x % LongRange
round_down_to_page(x) == Long(x) - (Long(x) % PageSize)
round_up_to_page(x) == round_down_to_page(x + PageSize - 1)
PagesFor(bytes) == Long(bytes + PageSize - 1) \div PageSize

AlignPages(alignment) ==
  IF alignment < PageSize THEN 1 ELSE alignment \div PageSize

\* Nothing but powers of two is accepted; 0 stands for one page.
AlignmentOk(alignment) ==
  alignment = 0 \/ \E k \in 0 .. alignment : alignment = 2^k

-----------------------------------------------------------------------------
(* physmem_init_from_multiboot *)

Usable(m) == {k \in DOMAIN m : m[k].type = 1}
Start(e) == round_up_to_page(e.addr)
End(e) == round_down_to_page(e.addr + e.len)

Highest(m) ==
  CHOOSE h \in {0} \cup {m[k].addr + m[k].len : k \in DOMAIN m} :
    \A k \in DOMAIN m : m[k].addr + m[k].len <= h

MemSize(m) == round_up_to_page(Highest(m))
TotalPages(m) == MemSize(m) \div PageSize
BitmapBytes(m) == (TotalPages(m) + 7) \div 8
BitmapPages(m) == (BitmapBytes(m) + PageSize - 1) \div PageSize

\* Entries with room for the bitmap and a page more.
Roomy(m) == {k \in Usable(m) : End(m[k]) - Start(m[k]) >= BitmapBytes(m) + PageSize}

\* The first such entry, or else the end of memory, unaligned.  The early
\* allocator, which the code asks first, is still empty at boot.
CanPlaceBitmap(m) == Roomy(m) # {} \/ MemSize(m) > BitmapBytes(m) + PageSize
BitmapAddr(m) ==
  IF Roomy(m) # {} THEN Start(m[CHOOSE k \in Roomy(m) : \A l \in Roomy(m) : k <= l])
  ELSE MemSize(m) - BitmapBytes(m) - PageSize

InBitmap(m, p) ==
  p * PageSize >= BitmapAddr(m) /\ p * PageSize < BitmapAddr(m) + BitmapPages(m) * PageSize

\* Mutant: the pages of the bitmap are marked free with the region they are in.
FreeAtBootAll(m) ==
  {p \in 0 .. (TotalPages(m) - 1) :
     \E k \in Usable(m) : p * PageSize >= Start(m[k]) /\ p * PageSize < End(m[k])}

\* All bits set, then cleared for the pages of usable entries but the bitmap's.
FreeAtBoot(m) ==
  {p \in 0 .. (TotalPages(m) - 1) :
     /\ \E k \in Usable(m) : p * PageSize >= Start(m[k]) /\ p * PageSize < End(m[k])
     /\ ~InBitmap(m, p)}

\* The rest of the bitmap's entry behind it, if a page is left there, or the
\* first usable entry above; if there is none, the end of memory.
BehindBitmap(m) == round_up_to_page(BitmapAddr(m) + BitmapPages(m) * PageSize)

EarlyIn(m, e) ==
  IF BitmapAddr(m) >= Start(e) /\ BitmapAddr(m) < End(e)
  THEN IF BehindBitmap(m) + PageSize <= End(e) THEN <<BehindBitmap(m), End(e)>> ELSE <<0, 0>>
  ELSE IF Start(e) > BitmapAddr(m) THEN <<Start(e), End(e)>> ELSE <<0, 0>>

EarlyRegion(m) ==
  LET fit == {k \in Usable(m) : EarlyIn(m, m[k]) # <<0, 0>>}
      first == CHOOSE k \in fit : \A l \in fit : k <= l
  IN IF fit # {} THEN EarlyIn(m, m[first])
     ELSE IF BehindBitmap(m) < MemSize(m) THEN <<BehindBitmap(m), MemSize(m)>>
     ELSE <<0, 0>>

Init ==
  /\ map = <<>>
  /\ phys_total_pages = 0
  /\ bitmap_phys = 0
  /\ used = {}
  /\ early = <<0, 0>>
  /\ pc = "boot"
  /\ request = [pages |-> 0, align |-> 1]
  /\ i = 0
  /\ held = [p \in {} |-> 0]

physmem_init_from_multiboot(m) ==
  /\ pc = "boot"
  /\ pc' = "idle"
  /\ map' = m
  /\ IF CanPlaceBitmap(m)
     THEN /\ phys_total_pages' = TotalPages(m)
          /\ bitmap_phys' = BitmapAddr(m)
          /\ used' = (0 .. (TotalPages(m) - 1)) \ FreeAtBoot(m)
          /\ early' = EarlyRegion(m)
     ELSE UNCHANGED <<phys_total_pages, bitmap_phys, used, early>>
  /\ UNCHANGED <<request, i, held>>

-----------------------------------------------------------------------------
(* phys_alloc_contiguous *)

page_is_free(p) == p < phys_total_pages /\ p \notin used

AllocCall(size, alignment) ==
  /\ pc = "idle"
  /\ bitmap_phys # 0
  /\ AlignmentOk(alignment)
  /\ pc' = "scan"
  /\ request' = [pages |-> PagesFor(size), align |-> AlignPages(alignment)]
  /\ i' = 0
  /\ UNCHANGED <<map, phys_total_pages, bitmap_phys, used, early, held>>

\* Before anything is looked at: no bitmap, or an alignment that is no power of two.
AllocRefused(alignment) ==
  /\ pc = "idle"
  /\ ~(bitmap_phys # 0 /\ AlignmentOk(alignment))
  /\ UNCHANGED vars

InLoop == pc = "scan" /\ i + request.pages <= phys_total_pages

Candidate(p) == p % request.align = 0 /\ page_is_free(p)

\* Pages free from p on, counted up to the request; the first is not questioned.
Count(p) ==
  CHOOSE c \in 1 .. (request.pages + 1) :
    /\ \A d \in 1 .. (c - 1) : d < request.pages /\ page_is_free(p + d)
    /\ c >= request.pages \/ ~page_is_free(p + c)

AllocSkip ==
  /\ InLoop
  /\ ~Candidate(i)
  /\ i' = i + 1
  /\ UNCHANGED <<map, phys_total_pages, bitmap_phys, used, early, pc, request, held>>

\* Mutant: the loop goes on behind the pages wanted, not behind those found free.
AllocTooShortFar ==
  /\ InLoop
  /\ Candidate(i)
  /\ Count(i) # request.pages
  /\ i' = i + request.pages + 1
  /\ UNCHANGED <<map, phys_total_pages, bitmap_phys, used, early, pc, request, held>>

\* Mutant: the loop variable stays on a run that is too short.
AllocTooShortStuck ==
  /\ InLoop
  /\ Candidate(i)
  /\ Count(i) # request.pages
  /\ i' = i
  /\ UNCHANGED <<map, phys_total_pages, bitmap_phys, used, early, pc, request, held>>

\* The run is too short: its pages and the used one behind them are passed over.
AllocTooShort ==
  /\ InLoop
  /\ Candidate(i)
  /\ Count(i) # request.pages
  /\ i' = i + Count(i) + 1
  /\ UNCHANGED <<map, phys_total_pages, bitmap_phys, used, early, pc, request, held>>

Done == pc' = "idle" /\ i' = 0 /\ request' = [pages |-> 0, align |-> 1]

Run(p, n) == p .. (p + n - 1)

\* Mutant: one page less is marked than was counted.
MarkedShort(p, n) == used \cup Run(p, n - 1)

Marked(p, n) == used \cup Run(p, n)

\* The caller takes address 0 for a failure, though the pages are marked.
AllocTake ==
  /\ InLoop
  /\ Candidate(i)
  /\ Count(i) = request.pages
  /\ used' = Marked(i, request.pages)
  /\ held' = IF i = 0 THEN held
             ELSE [p \in DOMAIN held \cup {i} |-> IF p = i THEN request.pages ELSE held[p]]
  /\ Done
  /\ UNCHANGED <<map, phys_total_pages, bitmap_phys, early>>

AllocFail ==
  /\ pc = "scan"
  /\ i + request.pages > phys_total_pages
  /\ Done
  /\ UNCHANGED <<map, phys_total_pages, bitmap_phys, used, early, held>>

-----------------------------------------------------------------------------
(* phys_free_contiguous *)

\* Mutant: the count of pages is one too high.
FreedFar(p) == used \ Run(p, held[p] + 1)

Freed(p) == used \ Run(p, held[p])

\* A caller gives back what it holds; address 0 is never held.
Release(p) ==
  /\ pc = "idle"
  /\ used' = Freed(p)
  /\ held' = [q \in DOMAIN held \ {p} |-> held[q]]
  /\ UNCHANGED <<map, phys_total_pages, bitmap_phys, early, pc, request, i>>

-----------------------------------------------------------------------------

Walk == AllocSkip \/ AllocTooShort \/ AllocTake \/ AllocFail

Call ==
  \/ \E size \in Sizes, alignment \in Alignments : AllocCall(size, alignment)
  \/ \E alignment \in Alignments : AllocRefused(alignment)
  \/ \E p \in DOMAIN held : Release(p)

Next ==
  \/ \E m \in Maps : physmem_init_from_multiboot(m)
  \/ Call
  \/ Walk

Spec == Init /\ [][Next]_vars

\* The processor keeps executing the loop; nobody has to ask for pages.
FairSpec == Spec /\ WF_vars(Walk)

-----------------------------------------------------------------------------
(* Invariants *)

TypeOK ==
  /\ map \in Maps \cup {<<>>}
  /\ phys_total_pages \in Nat /\ bitmap_phys \in Nat
  /\ used \subseteq 0 .. (phys_total_pages - 1)
  /\ early \in Nat \X Nat
  /\ pc \in {"boot", "idle", "scan"}
  /\ request \in [pages : Nat, align : Nat \ {0}]
  /\ i \in Nat
  /\ DOMAIN held \subseteq Nat \ {0}
  /\ held \in [DOMAIN held -> Nat]

\* Runs handed out lie in memory, are marked, and share no page: a page is
\* never given to two callers, in whatever order runs are taken and returned.
HeldDisjoint ==
  /\ \A p \in DOMAIN held : Run(p, held[p]) \subseteq used
  /\ \A p, q \in DOMAIN held : p < q => p + held[p] <= q

\* A page handed out is memory of a usable entry, whole, and holds no byte of
\* the bitmap - unless the bitmap had to go, unaligned, to the end of memory.
OnlyUsableHeld ==
  \A p \in DOMAIN held : \A page \in Run(p, held[p]) :
    /\ \E k \in Usable(map) :
         map[k].addr <= page * PageSize /\ (page + 1) * PageSize <= map[k].addr + map[k].len
    /\ bitmap_phys % PageSize = 0 =>
         \/ (page + 1) * PageSize <= bitmap_phys
         \/ page * PageSize >= bitmap_phys + ((phys_total_pages + 7) \div 8)

\* There is a run for the request at p.
FreeRun(p) ==
  /\ p % request.align = 0
  /\ \A q \in Run(p, request.pages) : page_is_free(q)

\* The loop jumps over runs that are too short without jumping over one that is not.
WalkInv ==
  pc = "scan" /\ request.pages > 0 => \A p \in 0 .. (i - 1) : ~FreeRun(p)

-----------------------------------------------------------------------------
(* Properties of steps *)

\* 0 is returned for want of memory only when no aligned run is free anywhere.
FailOnlyWhenFull ==
  [][pc = "scan" /\ pc' = "idle" /\ used' = used /\ request.pages > 0 =>
       \A p \in 0 .. phys_total_pages : ~FreeRun(p)]_vars

\* What callers hold changes by their own calls only, and page by page: taking
\* and returning a run leaves the marks of all others as they were.
MarksFollowOwners ==
  [][pc # "boot" =>
       \A page \in 0 .. (phys_total_pages - 1) :
         (page \in used) # (page \in used') =>
           \/ \E p \in DOMAIN held \ DOMAIN held' : page \in Run(p, held[p])
           \/ \E p \in DOMAIN held' \ DOMAIN held : page \in Run(p, held'[p])
           \/ pc = "scan" /\ i = 0 /\ page \in Run(0, request.pages)]_vars

\* phys_alloc_contiguous returns.
WalkEnds == pc = "scan" ~> pc = "idle"
=============================================================================
