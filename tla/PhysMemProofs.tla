---------------------------- MODULE PhysMemProofs ----------------------------
(***************************************************************************)
(* Proofs about physical pages, for every page size, width of a long,      *)
(* memory map, size and alignment.                                         *)
(*                                                                         *)
(* The steps are those of PhysMem, but that the memory map may also be     *)
(* empty: module Boot reads one through a wrong pointer.  So the lemmas    *)
(* about steps are stated for actions, and serve both specifications.      *)
(***************************************************************************)
EXTENDS PhysMem, TLAPS, WellFoundedInduction

\* Rounding loses no bit of an address in any memory map.
Wide ==
  \A m \in Maps : \A k \in DOMAIN m : m[k].addr + m[k].len + PageSize <= LongRange

\* Before boot nobody holds a page; afterwards size and bitmap are the map's.
BootInv ==
  /\ pc = "boot" => phys_total_pages = 0 /\ DOMAIN held = {}
  /\ phys_total_pages # 0 =>
       /\ CanPlaceBitmap(map)
       /\ phys_total_pages = TotalPages(map)
       /\ bitmap_phys = BitmapAddr(map)

HeldPages == UNION {Run(p, held[p]) : p \in DOMAIN held}

\* A run has a page at least.
HeldSomething == \A p \in DOMAIN held : held[p] # 0

\* What is free or handed out was free at boot: the rest is never touched.
FreeSinceBoot ==
  \A page \in 0 .. (phys_total_pages - 1) :
    page \notin used \/ page \in HeldPages => page \in FreeAtBoot(map)

\* The inductive invariant.
IInv ==
  /\ TypeOK
  /\ BootInv
  /\ HeldDisjoint
  /\ HeldSomething
  /\ FreeSinceBoot
  /\ WalkInv

-----------------------------------------------------------------------------
(* Numbers *)

\* The order of the natural numbers, as a relation, is well founded.
LEMMA NumbersWellFounded ==
  \E R : IsWellFoundedOn(R, Nat) /\ \A x, y \in Nat : x < y => <<x, y>> \in R
<1>1. IsWellFoundedOn(OpToRel(<, Nat), Nat)
  BY NatLessThanWellFounded, Zenon
<1>2. \A x, y \in Nat : x < y => <<x, y>> \in OpToRel(<, Nat)
  BY Zenon DEF OpToRel
<1>3. QED BY <1>1, <1>2, Zenon

\* A set of numbers that is not empty has a least one.
LEMMA LeastNumber ==
  ASSUME NEW S, S \subseteq Nat, S # {}
  PROVE  \E x \in S : \A y \in S : x <= y
<1>1. PICK R : IsWellFoundedOn(R, Nat) /\ \A x, y \in Nat : x < y => <<x, y>> \in R
  BY NumbersWellFounded, Zenon
<1>2. IsWellFoundedOn(R, Nat)
  BY <1>1
<1>3. PICK x \in S : \A y \in S : ~(<<y, x>> \in R)
  BY <1>2, WFMin
<1>4. ASSUME NEW y \in S PROVE x <= y
  <2>1. x \in Nat /\ y \in Nat
    OBVIOUS
  <2>2. ~(y < x)
    BY <1>1, <1>3, <2>1, Zenon
  <2>3. QED BY <2>1, <2>2
<1>5. QED BY <1>4

LEMMA Multiple ==
  ASSUME NEW q \in Nat
  PROVE  PageSize * q \in Nat /\ (PageSize * q) % PageSize = 0
BY PhysMemAssumption

\* Rounding down gives a multiple of the page size, and not more than x.
LEMMA RoundDown ==
  ASSUME NEW x \in Nat
  PROVE  /\ round_down_to_page(x) \in Nat
         /\ round_down_to_page(x) <= x
         /\ round_down_to_page(x) % PageSize = 0
<1>1. PageSize \in Nat \ {0} /\ LongRange \in Nat \ {0}
  BY PhysMemAssumption
<1>2. Long(x) \in Nat /\ Long(x) <= x
  BY <1>1 DEF Long
<1>3. round_down_to_page(x) = PageSize * (Long(x) \div PageSize)
  BY <1>1, <1>2 DEF round_down_to_page
<1>4. Long(x) \div PageSize \in Nat /\ Long(x) % PageSize \in Nat
  BY <1>1, <1>2
<1>5. round_down_to_page(x) \in Nat /\ round_down_to_page(x) <= x
  BY <1>1, <1>2, <1>4, <1>3 DEF round_down_to_page
<1>6. round_down_to_page(x) % PageSize = 0
  BY <1>3, <1>4, Multiple
<1>7. QED BY <1>5, <1>6

LEMMA RoundUp ==
  ASSUME NEW x \in Nat
  PROVE  /\ round_up_to_page(x) \in Nat
         /\ round_up_to_page(x) % PageSize = 0
         /\ x + PageSize <= LongRange => round_up_to_page(x) >= x
<1>1. PageSize \in Nat \ {0} /\ LongRange \in Nat \ {0}
  BY PhysMemAssumption
<1>2. x + PageSize - 1 \in Nat
  BY <1>1
<1>3. ASSUME x + PageSize <= LongRange PROVE round_up_to_page(x) >= x
  <2>1. Long(x + PageSize - 1) = x + PageSize - 1
    BY <1>1, <1>2, <1>3 DEF Long
  <2>2. (x + PageSize - 1) % PageSize <= PageSize - 1
    BY <1>1, <1>2
  <2>3. QED BY <1>1, <1>2, <2>1, <2>2 DEF round_up_to_page, round_down_to_page
<1>4. QED BY <1>2, <1>3, RoundDown DEF round_up_to_page

\* A page that begins below a multiple of the page size ends there or below.
LEMMA PageEnds ==
  ASSUME NEW page \in Nat, NEW x \in Nat, page * PageSize < x, x % PageSize = 0
  PROVE  (page + 1) * PageSize <= x
<1>1. PageSize \in Nat \ {0}
  BY PhysMemAssumption
<1>2. x = PageSize * (x \div PageSize) /\ x \div PageSize \in Nat
  BY <1>1
<1>3. page < x \div PageSize
  BY <1>1, <1>2
<1>4. QED BY <1>1, <1>2, <1>3

-----------------------------------------------------------------------------
(* physmem_init_from_multiboot *)

AnyMap == Maps \cup {<<>>}

LEMMA Entries ==
  ASSUME NEW m \in AnyMap
  PROVE  /\ Len(m) \in Nat /\ DOMAIN m = 1 .. Len(m)
         /\ \A k \in DOMAIN m : /\ m[k].addr \in Nat /\ m[k].len \in Nat
                                /\ m[k].addr + m[k].len \in Nat
<1>1. m \in Seq(MapEntry)
  <2>1. CASE m \in Maps
    BY <2>1, PhysMemAssumption
  <2>2. CASE m = <<>>
    BY <2>2
  <2>3. QED BY <2>1, <2>2 DEF AnyMap
<1>2. Len(m) \in Nat /\ DOMAIN m = 1 .. Len(m) /\ \A k \in 1 .. Len(m) : m[k] \in MapEntry
  BY <1>1
<1>3. ASSUME NEW k \in DOMAIN m PROVE m[k].addr \in Nat /\ m[k].len \in Nat
  <2>1. m[k] \in MapEntry
    BY <1>2
  <2>2. QED BY <2>1 DEF MapEntry
<1>4. QED BY <1>2, <1>3

\* Finitely many numbers have a bound.
LEMMA FiniteBound ==
  ASSUME NEW n \in Nat, NEW f \in [1 .. n -> Nat]
  PROVE  \E b \in Nat : \A k \in 1 .. n : f[k] <= b
<1> DEFINE Bounded(l) == \E b \in Nat : \A k \in 1 .. l : f[k] <= b
           Bad == {l \in 0 .. n : ~Bounded(l)}
<1>1. Bad \subseteq 0 .. n /\ \A l \in 0 .. n : l \in Bad <=> ~Bounded(l)
  OBVIOUS
<1> HIDE DEF Bad
<1>2. ASSUME Bad # {} PROVE FALSE
  <2>1. PICK l \in Bad : \A k \in Bad : l <= k
    <3>1. Bad \subseteq Nat
      BY <1>1
    <3>2. QED BY <3>1, <1>2, LeastNumber
  <2>2. Bounded(0)
    <3>1. \A k \in 1 .. 0 : f[k] <= 0
      OBVIOUS
    <3>2. QED BY <3>1
  <2>3. l \in 1 .. n
    BY <1>1, <2>1, <2>2
  <2>4. Bounded(l - 1)
    <3>1. l - 1 \in 0 .. n
      BY <2>3
    <3>2. l - 1 \notin Bad
      BY <2>1, <2>3
    <3> HIDE DEF Bounded
    <3>3. QED BY <1>1, <3>1, <3>2
  <2>5. PICK b \in Nat : \A k \in 1 .. (l - 1) : f[k] <= b
    BY <2>4
  <2>6. PICK c \in Nat : b <= c /\ f[l] <= c
    <3>1. f[l] \in Nat
      BY <2>3
    <3>2. CASE b <= f[l]
      BY <3>1, <3>2
    <3>3. CASE f[l] <= b
      BY <3>1, <3>3
    <3>4. QED BY <3>1, <3>2, <3>3
  <2>7. \A k \in 1 .. l : f[k] <= c
    <3>1. \A k \in 1 .. l : f[k] \in Nat /\ (k = l \/ k \in 1 .. (l - 1))
      BY <2>3
    <3>2. QED BY <3>1, <2>5, <2>6
  <2>8. Bounded(l)
    BY <2>7
  <2>9. QED BY <1>1, <2>1, <2>8
<1>3. Bounded(n)
  <2>1. n \in 0 .. n
    OBVIOUS
  <2> HIDE DEF Bounded
  <2>2. QED BY <1>1, <1>2, <2>1
<1>4. QED BY <1>3

LEMMA HighestNat ==
  ASSUME NEW m \in AnyMap
  PROVE  Highest(m) \in Nat
<1> DEFINE Ends == {0} \cup {m[k].addr + m[k].len : k \in DOMAIN m}
           Bounds == {b \in Nat : \A e \in Ends : e <= b}
<1>1. Ends \subseteq Nat
  BY Entries
<1>2. Bounds # {}
  <2> DEFINE f == [k \in 1 .. Len(m) |-> m[k].addr + m[k].len]
  <2>1. Len(m) \in Nat /\ f \in [1 .. Len(m) -> Nat]
    BY Entries
  <2> HIDE DEF f
  <2>2. PICK b \in Nat : \A k \in 1 .. Len(m) : f[k] <= b
    BY <2>1, FiniteBound
  <2>3. b \in Bounds
    BY <2>2, Entries DEF f
  <2>4. QED BY <2>3
<1>3. PICK b \in Bounds : \A c \in Bounds : b <= c
  BY <1>2, LeastNumber
<1>4. b \in Ends
  <2>1. SUFFICES ASSUME b \notin Ends PROVE FALSE
    OBVIOUS
  <2>2. b \in Nat /\ b # 0 /\ \A e \in Ends : e <= b - 1
    BY <1>1, <1>3, <2>1
  <2>3. b - 1 \in Bounds
    BY <2>2
  <2>4. QED BY <1>3, <2>2, <2>3
<1>5. \E h \in Ends : \A k \in DOMAIN m : m[k].addr + m[k].len <= h
  BY <1>3, <1>4
<1>6. Highest(m) \in Ends
  BY <1>5 DEF Highest
<1>7. QED BY <1>1, <1>6

\* Memory, its pages and its bitmap have sizes; the last-resort address does too.
LEMMA MapSizes ==
  ASSUME NEW m \in AnyMap
  PROVE  /\ MemSize(m) \in Nat /\ TotalPages(m) \in Nat
         /\ BitmapBytes(m) \in Nat /\ BitmapPages(m) \in Nat
         /\ BitmapBytes(m) = (TotalPages(m) + 7) \div 8
         /\ BitmapPages(m) * PageSize >= BitmapBytes(m)
<1>1. PageSize \in Nat \ {0}
  BY PhysMemAssumption
<1>2. MemSize(m) \in Nat
  BY HighestNat, RoundUp DEF MemSize
<1>3. TotalPages(m) \in Nat
  BY <1>1, <1>2 DEF TotalPages
<1>4. BitmapBytes(m) \in Nat
  BY <1>3 DEF BitmapBytes
<1>5. BitmapPages(m) \in Nat /\ BitmapPages(m) * PageSize >= BitmapBytes(m)
  <2>1. \A b \in Nat : (b + PageSize - 1) \div PageSize \in Nat
                       /\ ((b + PageSize - 1) \div PageSize) * PageSize >= b
    BY <1>1
  <2>2. QED BY <1>4, <2>1 DEF BitmapPages
<1>6. QED BY <1>2, <1>3, <1>4, <1>5 DEF BitmapBytes

LEMMA BitmapAddrNat ==
  ASSUME NEW m \in AnyMap, CanPlaceBitmap(m)
  PROVE  BitmapAddr(m) \in Nat
<1>1. CASE Roomy(m) # {}
  <2> DEFINE k == CHOOSE k \in Roomy(m) : \A l \in Roomy(m) : k <= l
  <2>1. Roomy(m) \subseteq Nat
    BY Entries DEF Roomy, Usable
  <2>2. k \in Roomy(m)
    BY <2>1, <1>1, LeastNumber
  <2>3. k \in DOMAIN m
    BY <2>2 DEF Roomy, Usable
  <2>4. Start(m[k]) \in Nat
    BY <2>3, Entries, RoundUp DEF Start
  <2>5. QED BY <2>4, <1>1 DEF BitmapAddr
<1>2. CASE Roomy(m) = {}
  BY <1>2, MapSizes, PhysMemAssumption DEF CanPlaceBitmap, BitmapAddr
<1>3. QED BY <1>1, <1>2

LEMMA EarlyRegionType ==
  ASSUME NEW m \in AnyMap, CanPlaceBitmap(m)
  PROVE  EarlyRegion(m) \in Nat \X Nat
<1> DEFINE fit == {k \in Usable(m) : EarlyIn(m, m[k]) # <<0, 0>>}
           first == CHOOSE k \in fit : \A l \in fit : k <= l
<1>1. BehindBitmap(m) \in Nat
  <2>1. BitmapAddr(m) + BitmapPages(m) * PageSize \in Nat
    BY BitmapAddrNat, MapSizes, PhysMemAssumption
  <2>2. QED BY <2>1, RoundUp DEF BehindBitmap
<1>2. ASSUME NEW k \in DOMAIN m PROVE EarlyIn(m, m[k]) \in Nat \X Nat
  <2>1. Start(m[k]) \in Nat /\ End(m[k]) \in Nat
    BY Entries, RoundUp, RoundDown DEF Start, End
  <2>2. QED BY <2>1, <1>1 DEF EarlyIn
<1>3. CASE fit # {}
  <2>1. fit \subseteq Nat
    BY Entries DEF Usable
  <2>2. first \in fit
    BY <2>1, <1>3, LeastNumber
  <2>3. first \in DOMAIN m
    BY <2>2 DEF Usable
  <2>4. EarlyRegion(m) = EarlyIn(m, m[first])
    BY <1>3 DEF EarlyRegion
  <2>5. QED BY <2>3, <2>4, <1>2
<1>4. CASE fit = {}
  BY <1>4, <1>1, MapSizes DEF EarlyRegion
<1>5. QED BY <1>3, <1>4

-----------------------------------------------------------------------------
(* What the walk looks at *)

\* Count is the length of the free run at p, cut off at the request.
LEMMA CountMeaning ==
  ASSUME request.pages \in Nat, NEW p \in Nat
  PROVE  /\ Count(p) \in Nat \ {0}
         /\ \A d \in 1 .. (Count(p) - 1) : d < request.pages /\ page_is_free(p + d)
         /\ Count(p) >= request.pages \/ ~page_is_free(p + Count(p))
<1> DEFINE n == request.pages
           Ends == {c \in 1 .. (n + 1) : c >= n \/ ~page_is_free(p + c)}
<1>1. Ends \subseteq Nat /\ n + 1 \in Ends
  OBVIOUS
<1>2. PICK c \in Ends : \A e \in Ends : c <= e
  BY <1>1, LeastNumber
<1>3. ASSUME NEW d \in 1 .. (c - 1) PROVE d < n /\ page_is_free(p + d)
  <2>1. d \in 1 .. (n + 1) /\ ~(c <= d)
    BY <1>2
  <2>2. d \notin Ends
    BY <1>2, <2>1
  <2>3. QED BY <2>1, <2>2
<1>4. \E e \in 1 .. (n + 1) :
        /\ \A d \in 1 .. (e - 1) : d < n /\ page_is_free(p + d)
        /\ e >= n \/ ~page_is_free(p + e)
  BY <1>2, <1>3
<1> DEFINE k == Count(p)
<1>5. /\ k \in 1 .. (n + 1)
      /\ \A d \in 1 .. (k - 1) : d < n /\ page_is_free(p + d)
      /\ k >= n \/ ~page_is_free(p + k)
  BY <1>4 DEF Count
<1>6. QED BY <1>5

\* Pages passed over begin no run that would do: not the first, which is no
\* candidate or too short, and not those behind it, which the same used page cuts.
LEMMA NothingSkipped ==
  ASSUME request.pages \in Nat \ {0}, NEW p \in Nat, Candidate(p),
         Count(p) # request.pages, NEW r \in p .. (p + Count(p))
  PROVE  ~FreeRun(r)
<1> DEFINE n == request.pages
           c == Count(p)
<1>1. /\ c \in Nat \ {0} /\ n \in Nat \ {0}
      /\ \A d \in 1 .. (c - 1) : d < n /\ page_is_free(p + d)
      /\ c >= n \/ ~page_is_free(p + c)
  BY CountMeaning
<1>2. c < n
  <2>1. CASE c > 1
    <3>1. c - 1 < n
      BY <1>1, <2>1
    <3>2. QED BY <3>1, <1>1
  <2>2. CASE c = 1
    BY <2>2, <1>1
  <2>3. QED BY <2>1, <2>2, <1>1
<1>3. ~page_is_free(p + c)
  BY <1>1, <1>2
<1>4. p + c \in Run(r, n)
  BY <1>1, <1>2 DEF Run
<1>5. QED BY <1>3, <1>4 DEF FreeRun

\* A run found is free from its first page to its last.
LEMMA FoundFree ==
  ASSUME request.pages \in Nat, NEW p \in Nat, Candidate(p), Count(p) = request.pages,
         NEW page \in Run(p, request.pages)
  PROVE  page_is_free(page)
<1>1. /\ Count(p) \in Nat \ {0}
      /\ \A d \in 1 .. (Count(p) - 1) : page_is_free(p + d)
  BY CountMeaning
<1>2. CASE page = p
  BY <1>2 DEF Candidate
<1>3. CASE page # p
  <2>1. page - p \in 1 .. (Count(p) - 1) /\ p + (page - p) = page
    BY <1>1, <1>3 DEF Run
  <2>2. QED BY <1>1, <2>1
<1>4. QED BY <1>2, <1>3

-----------------------------------------------------------------------------
(* The invariant *)

LEMMA InitInv == Init => IInv
<1> SUFFICES ASSUME Init PROVE IInv
  OBVIOUS
<1>1. TypeOK
  BY DEF Init, TypeOK
<1>2. BootInv /\ HeldDisjoint /\ HeldSomething /\ FreeSinceBoot /\ WalkInv
  BY DEF Init, BootInv, HeldDisjoint, HeldSomething, FreeSinceBoot, WalkInv
<1>3. QED BY <1>1, <1>2 DEF IInv

\* Types, with a map that may be empty.
LEMMA BootStep ==
  ASSUME IInv, NEW m \in AnyMap, physmem_init_from_multiboot(m)
  PROVE  IInv'
<1> USE DEF IInv
<1>1. /\ pc = "boot" /\ pc' = "idle" /\ map' = m
      /\ request' = request /\ i' = i /\ held' = held
      /\ DOMAIN held = {} /\ phys_total_pages = 0
  BY DEF physmem_init_from_multiboot, BootInv
<1>2. HeldDisjoint' /\ HeldSomething' /\ WalkInv'
  BY <1>1 DEF HeldDisjoint, HeldSomething, WalkInv
<1>3. CASE CanPlaceBitmap(m)
  <2>1. /\ phys_total_pages' = TotalPages(m) /\ bitmap_phys' = BitmapAddr(m)
        /\ used' = (0 .. (TotalPages(m) - 1)) \ FreeAtBoot(m)
        /\ early' = EarlyRegion(m)
    BY <1>3 DEF physmem_init_from_multiboot
  <2>2. TypeOK'
    BY <1>1, <1>3, <2>1, MapSizes, BitmapAddrNat, EarlyRegionType DEF TypeOK, AnyMap
  <2>3. BootInv'
    BY <1>1, <1>3, <2>1 DEF BootInv
  <2>4. FreeSinceBoot'
    BY <1>1, <2>1 DEF FreeSinceBoot, HeldPages
  <2>5. QED BY <1>2, <2>2, <2>3, <2>4
<1>4. CASE ~CanPlaceBitmap(m)
  <2>1. UNCHANGED <<phys_total_pages, bitmap_phys, used, early>>
    BY <1>4 DEF physmem_init_from_multiboot
  <2>2. TypeOK'
    BY <1>1, <2>1 DEF TypeOK, AnyMap
  <2>3. BootInv' /\ FreeSinceBoot'
    BY <1>1, <2>1 DEF BootInv, FreeSinceBoot
  <2>4. QED BY <1>2, <2>2, <2>3
<1>5. QED BY <1>3, <1>4

LEMMA RequestTypes ==
  ASSUME NEW size \in Sizes, NEW alignment \in Alignments
  PROVE  PagesFor(size) \in Nat /\ AlignPages(alignment) \in Nat \ {0}
<1>1. PageSize \in Nat \ {0} /\ LongRange \in Nat \ {0} /\ size \in Nat /\ alignment \in Nat
  BY PhysMemAssumption
<1>2. Long(size + PageSize - 1) \in Nat
  BY <1>1 DEF Long
<1>3. PagesFor(size) \in Nat
  BY <1>1, <1>2 DEF PagesFor
<1>4. AlignPages(alignment) \in Nat \ {0}
  BY <1>1 DEF AlignPages
<1>5. QED BY <1>3, <1>4

LEMMA CallStep ==
  ASSUME IInv, NEW size \in Sizes, NEW alignment \in Alignments, AllocCall(size, alignment)
  PROVE  IInv'
<1> USE DEF IInv, AllocCall
<1>1. TypeOK'
  BY RequestTypes DEF TypeOK
<1>2. BootInv' /\ HeldDisjoint' /\ HeldSomething' /\ FreeSinceBoot'
  BY DEF BootInv, HeldDisjoint, HeldSomething, FreeSinceBoot, HeldPages
<1>3. WalkInv'
  BY DEF WalkInv
<1>4. QED BY <1>1, <1>2, <1>3

\* What the walk leaves alone as long as it goes on.
LEMMA WalkOn ==
  ASSUME IInv, i' \in Nat,
         UNCHANGED <<map, phys_total_pages, bitmap_phys, used, early, pc, request, held>>
  PROVE  TypeOK' /\ BootInv' /\ HeldDisjoint' /\ HeldSomething' /\ FreeSinceBoot'
<1> USE DEF IInv
<1>1. TypeOK'
  BY DEF TypeOK
<1>2. BootInv' /\ HeldDisjoint' /\ HeldSomething' /\ FreeSinceBoot'
  BY DEF BootInv, HeldDisjoint, HeldSomething, FreeSinceBoot, HeldPages
<1>3. QED BY <1>1, <1>2

LEMMA SkipStep ==
  ASSUME IInv, AllocSkip
  PROVE  IInv'
<1> USE DEF IInv, AllocSkip
<1>1. i \in Nat /\ request.pages \in Nat
  BY DEF TypeOK
<1>2. TypeOK' /\ BootInv' /\ HeldDisjoint' /\ HeldSomething' /\ FreeSinceBoot'
  BY <1>1, WalkOn
<1>3. ASSUME request.pages > 0 PROVE ~FreeRun(i)
  BY <1>1, <1>3 DEF FreeRun, Candidate, Run
<1>4. WalkInv'
  BY <1>1, <1>3 DEF WalkInv, FreeRun, page_is_free, InLoop
<1>5. QED BY <1>2, <1>4

LEMMA TooShortStep ==
  ASSUME IInv, AllocTooShort
  PROVE  IInv'
<1> USE DEF IInv, AllocTooShort
<1>1. i \in Nat /\ request.pages \in Nat /\ Count(i) \in Nat \ {0}
  BY CountMeaning DEF TypeOK
<1>2. TypeOK' /\ BootInv' /\ HeldDisjoint' /\ HeldSomething' /\ FreeSinceBoot'
  BY <1>1, WalkOn
<1>3. ASSUME request.pages > 0, NEW r \in i .. (i + Count(i)) PROVE ~FreeRun(r)
  BY <1>1, <1>3, NothingSkipped
<1>4. WalkInv'
  <2>1. SUFFICES ASSUME pc = "scan", request.pages > 0, NEW r \in 0 .. (i + Count(i))
                 PROVE  ~FreeRun(r)
    BY <1>1 DEF WalkInv, FreeRun, page_is_free
  <2>2. CASE r \in 0 .. (i - 1)
    BY <2>1, <2>2 DEF WalkInv
  <2>3. CASE r \notin 0 .. (i - 1)
    <3>1. r \in i .. (i + Count(i))
      BY <1>1, <2>3
    <3>2. QED BY <2>1, <3>1, <1>3
  <2>4. QED BY <2>2, <2>3
<1>5. QED BY <1>2, <1>4

LEMMA FailStep ==
  ASSUME IInv, AllocFail
  PROVE  IInv'
<1> USE DEF IInv, AllocFail, Done
<1>1. TypeOK'
  BY DEF TypeOK
<1>2. BootInv' /\ HeldDisjoint' /\ HeldSomething' /\ FreeSinceBoot'
  BY DEF BootInv, HeldDisjoint, HeldSomething, FreeSinceBoot, HeldPages
<1>3. WalkInv'
  BY DEF WalkInv
<1>4. QED BY <1>1, <1>2, <1>3

\* A run taken was free, so it is nobody's; whatever is held begins elsewhere.
LEMMA TakeStep ==
  ASSUME IInv, AllocTake
  PROVE  IInv'
<1> DEFINE n == request.pages
<1>1. /\ i \in Nat /\ n \in Nat /\ phys_total_pages \in Nat
      /\ used \subseteq 0 .. (phys_total_pages - 1)
      /\ DOMAIN held \subseteq Nat \ {0} /\ held \in [DOMAIN held -> Nat]
  BY DEF IInv, TypeOK
<1>2. /\ InLoop /\ Candidate(i) /\ Count(i) = n
      /\ used' = used \cup Run(i, n) /\ pc' = "idle" /\ i' = 0
      /\ request' = [pages |-> 0, align |-> 1]
      /\ UNCHANGED <<map, phys_total_pages, bitmap_phys, early>>
  BY DEF AllocTake, Done, Marked
<1>3. n # 0 /\ \A page \in Run(i, n) : page_is_free(page)
  BY <1>1, <1>2, CountMeaning, FoundFree
<1>4. \A page \in Run(i, n) : page \in 0 .. (phys_total_pages - 1) /\ page \notin used
  BY <1>1, <1>3 DEF Run, page_is_free
<1>5. /\ \A p \in DOMAIN held : held[p] \in Nat \ {0} /\ Run(p, held[p]) \subseteq used
      /\ \A p, q \in DOMAIN held : p < q => p + held[p] <= q
  BY <1>1 DEF IInv, HeldDisjoint, HeldSomething
<1>6. used' \subseteq 0 .. (phys_total_pages' - 1)
  BY <1>1, <1>2, <1>4
<1>7. BootInv' /\ WalkInv'
  BY <1>1, <1>2 DEF IInv, BootInv, WalkInv, InLoop
<1>8. CASE i = 0
  <2>1. held' = held
    BY <1>8 DEF AllocTake
  <2>2. TypeOK'
    BY <1>1, <1>2, <1>6, <2>1 DEF IInv, TypeOK
  <2>3. HeldDisjoint' /\ HeldSomething'
    BY <1>2, <1>5, <2>1 DEF HeldDisjoint, HeldSomething
  <2>4. FreeSinceBoot'
    BY <1>2, <2>1 DEF IInv, FreeSinceBoot, HeldPages
  <2>5. BootInv'
    BY <1>7
  <2>6. QED BY <1>7, <2>2, <2>3, <2>4 DEF IInv
<1>9. CASE i # 0
  <2>1. held' = [p \in DOMAIN held \cup {i} |-> IF p = i THEN n ELSE held[p]]
    BY <1>9 DEF AllocTake
  <2>2. /\ DOMAIN held' = DOMAIN held \cup {i} /\ held'[i] = n
        /\ \A p \in DOMAIN held : p # i => held'[p] = held[p]
    BY <2>1
  <2>3. i \in Run(i, n) /\ i \notin DOMAIN held
    <3>1. i \in Run(i, n)
      BY <1>1, <1>3 DEF Run
    <3>2. ASSUME i \in DOMAIN held PROVE FALSE
      <4>1. i \in Run(i, held[i])
        BY <1>1, <1>5, <3>2 DEF Run
      <4>2. QED BY <3>1, <4>1, <1>4, <1>5, <3>2
    <3>3. QED BY <3>1, <3>2
  <2>4. TypeOK'
    <3>1. held' \in [DOMAIN held' -> Nat] /\ DOMAIN held' \subseteq Nat \ {0}
      BY <1>1, <1>9, <2>1, <2>2
    <3>2. QED BY <1>1, <1>2, <1>6, <3>1 DEF IInv, TypeOK
  <2>5. HeldDisjoint'
    <3>1. ASSUME NEW p \in DOMAIN held' PROVE Run(p, held'[p]) \subseteq used'
      BY <1>2, <1>5, <2>2, <2>3
    <3>2. ASSUME NEW p \in DOMAIN held', NEW q \in DOMAIN held', p < q
          PROVE  p + held'[p] <= q
      <4>1. CASE p = i
        <5>1. q \in DOMAIN held /\ q \in Nat /\ q \in Run(q, held[q])
          BY <1>1, <1>5, <2>2, <3>2, <4>1 DEF Run
        <5>2. q \notin Run(i, n)
          BY <5>1, <1>4, <1>5
        <5>3. QED BY <5>1, <5>2, <4>1, <1>1, <2>2, <3>2 DEF Run
      <4>2. CASE q = i
        <5>1. p \in DOMAIN held /\ p \in Nat /\ held'[p] = held[p] /\ held[p] \in Nat
          BY <1>1, <1>5, <2>2, <3>2, <4>2
        <5>2. i \notin Run(p, held[p])
          BY <5>1, <2>3, <1>4, <1>5
        <5>3. QED BY <5>1, <5>2, <4>2, <1>1, <3>2 DEF Run
      <4>3. CASE p # i /\ q # i
        BY <1>5, <2>2, <3>2, <4>3
      <4>4. QED BY <4>1, <4>2, <4>3
    <3>3. QED BY <3>1, <3>2 DEF HeldDisjoint
  <2>6. HeldSomething'
    BY <1>3, <1>5, <2>2 DEF HeldSomething
  <2>7. FreeSinceBoot'
    <3>1. ASSUME NEW page \in HeldPages' PROVE page \in HeldPages \/ page \notin used
      <4>1. PICK p \in DOMAIN held' : page \in Run(p, held'[p])
        BY <3>1 DEF HeldPages
      <4>2. CASE p = i
        BY <4>1, <4>2, <1>4, <2>2
      <4>3. CASE p # i
        BY <4>1, <4>3, <2>2 DEF HeldPages
      <4>4. QED BY <4>2, <4>3
    <3>2. QED BY <1>2, <3>1 DEF IInv, FreeSinceBoot
  <2>8. QED BY <1>7, <2>4, <2>5, <2>6, <2>7 DEF IInv
<1>10. QED BY <1>8, <1>9

\* A run given back leaves the other runs, which share no page with it, marked.
LEMMA ReleaseStep ==
  ASSUME IInv, NEW p \in DOMAIN held, Release(p)
  PROVE  IInv'
<1>1. /\ phys_total_pages \in Nat /\ used \subseteq 0 .. (phys_total_pages - 1)
      /\ DOMAIN held \subseteq Nat \ {0} /\ held \in [DOMAIN held -> Nat]
  BY DEF IInv, TypeOK
<1>2. /\ pc = "idle" /\ used' = used \ Run(p, held[p])
      /\ held' = [q \in DOMAIN held \ {p} |-> held[q]]
      /\ UNCHANGED <<map, phys_total_pages, bitmap_phys, early, pc, request, i>>
  BY DEF Release, Freed
<1>3. DOMAIN held' = DOMAIN held \ {p} /\ \A q \in DOMAIN held' : held'[q] = held[q]
  BY <1>2
<1>4. TypeOK'
  <2>1. held' \in [DOMAIN held' -> Nat] /\ DOMAIN held' \subseteq Nat \ {0}
    BY <1>1, <1>2, <1>3
  <2>2. QED BY <1>1, <1>2, <2>1 DEF IInv, TypeOK
<1>5. BootInv' /\ HeldSomething' /\ WalkInv'
  BY <1>2, <1>3 DEF IInv, BootInv, HeldSomething, WalkInv
<1>6. HeldDisjoint'
  <2>1. ASSUME NEW q \in DOMAIN held' PROVE Run(q, held'[q]) \subseteq used'
    <3>1. q \in DOMAIN held /\ q # p /\ held'[q] = held[q]
      BY <1>3
    <3>2. /\ p \in Nat /\ q \in Nat /\ held[p] \in Nat /\ held[q] \in Nat
          /\ p < q => p + held[p] <= q
          /\ q < p => q + held[q] <= p
          /\ Run(q, held[q]) \subseteq used
      BY <1>1, <3>1 DEF IInv, HeldDisjoint
    <3>3. Run(q, held[q]) \cap Run(p, held[p]) = {}
      BY <3>1, <3>2 DEF Run
    <3>4. QED BY <1>2, <3>1, <3>2, <3>3
  <2>2. \A q, r \in DOMAIN held' : q < r => q + held'[q] <= r
    BY <1>3 DEF IInv, HeldDisjoint
  <2>3. QED BY <2>1, <2>2 DEF HeldDisjoint
<1>7. FreeSinceBoot'
  <2>1. HeldPages' \subseteq HeldPages
    BY <1>3 DEF HeldPages
  <2>2. Run(p, held[p]) \subseteq HeldPages
    BY DEF HeldPages
  <2>3. QED BY <1>2, <2>1, <2>2 DEF IInv, FreeSinceBoot
<1>8. QED BY <1>4, <1>5, <1>6, <1>7 DEF IInv

LEMMA StutterStep ==
  ASSUME IInv, UNCHANGED vars
  PROVE  IInv'
<1> USE DEF IInv, vars
<1>1. TypeOK' /\ BootInv' /\ HeldDisjoint'
  BY DEF TypeOK, BootInv, HeldDisjoint
<1>2. HeldSomething' /\ FreeSinceBoot'
  BY DEF HeldSomething, FreeSinceBoot, HeldPages
<1>3. WalkInv'
  BY DEF WalkInv, FreeRun, page_is_free
<1>4. QED BY <1>1, <1>2, <1>3

\* The steps of PhysMem, with any map at boot.
AnyNext ==
  \/ \E m \in AnyMap : physmem_init_from_multiboot(m)
  \/ Call
  \/ Walk

LEMMA StepInv == IInv /\ [AnyNext]_vars => IInv'
<1> SUFFICES ASSUME IInv, [AnyNext]_vars PROVE IInv'
  OBVIOUS
<1>1. CASE \E m \in AnyMap : physmem_init_from_multiboot(m)
  BY <1>1, BootStep
<1>2. CASE Call
  <2>1. CASE \E size \in Sizes, alignment \in Alignments : AllocCall(size, alignment)
    BY <2>1, CallStep
  <2>2. CASE \E alignment \in Alignments : AllocRefused(alignment)
    BY <2>2, StutterStep DEF AllocRefused
  <2>3. CASE \E p \in DOMAIN held : Release(p)
    BY <2>3, ReleaseStep
  <2>4. QED BY <1>2, <2>1, <2>2, <2>3 DEF Call
<1>3. CASE Walk
  <2>1. CASE AllocSkip
    BY <2>1, SkipStep
  <2>2. CASE AllocTooShort
    BY <2>2, TooShortStep
  <2>3. CASE AllocTake
    BY <2>3, TakeStep
  <2>4. CASE AllocFail
    BY <2>4, FailStep
  <2>5. QED BY <1>3, <2>1, <2>2, <2>3, <2>4 DEF Walk
<1>4. CASE UNCHANGED vars
  BY <1>4, StutterStep
<1>5. QED BY <1>1, <1>2, <1>3, <1>4 DEF AnyNext

-----------------------------------------------------------------------------
(* What follows from the invariant *)

\* With a map that loses no bits, the bounds of its usable entries are inside them.
LEMMA EntryBounds ==
  ASSUME Wide, NEW m \in AnyMap, NEW k \in DOMAIN m
  PROVE  /\ Start(m[k]) \in Nat /\ End(m[k]) \in Nat
         /\ m[k].addr <= Start(m[k]) /\ End(m[k]) <= m[k].addr + m[k].len
         /\ End(m[k]) % PageSize = 0
<1>1. m[k].addr \in Nat /\ m[k].len \in Nat /\ m[k].addr + m[k].len \in Nat
  BY Entries
<1>2. m[k].addr + PageSize <= LongRange
  <2>1. m \in Maps
    BY DEF AnyMap
  <2>2. m[k].addr + m[k].len + PageSize <= LongRange
    BY <2>1 DEF Wide
  <2>3. QED BY <1>1, <2>2, PhysMemAssumption
<1>3. Start(m[k]) \in Nat /\ m[k].addr <= Start(m[k])
  BY <1>1, <1>2, RoundUp DEF Start
<1>4. End(m[k]) \in Nat /\ End(m[k]) <= m[k].addr + m[k].len /\ End(m[k]) % PageSize = 0
  BY <1>1, RoundDown DEF End
<1>5. QED BY <1>3, <1>4

\* A page free at boot lies in a usable entry, and clear of an aligned bitmap.
LEMMA FreePagePlace ==
  ASSUME Wide, NEW m \in AnyMap, CanPlaceBitmap(m), NEW page \in FreeAtBoot(m)
  PROVE  /\ \E k \in Usable(m) :
              m[k].addr <= page * PageSize /\ (page + 1) * PageSize <= m[k].addr + m[k].len
         /\ BitmapAddr(m) % PageSize = 0 =>
              \/ (page + 1) * PageSize <= BitmapAddr(m)
              \/ page * PageSize >= BitmapAddr(m) + BitmapBytes(m)
<1>1. PageSize \in Nat \ {0} /\ page \in Nat /\ page * PageSize \in Nat
  <2>1. TotalPages(m) \in Nat
    BY MapSizes
  <2>2. page \in Nat
    BY <2>1 DEF FreeAtBoot
  <2>3. QED BY <2>2, PhysMemAssumption
<1>2. PICK k \in Usable(m) : page * PageSize >= Start(m[k]) /\ page * PageSize < End(m[k])
  BY DEF FreeAtBoot
<1>3. k \in DOMAIN m
  BY DEF Usable
<1>4. m[k].addr <= page * PageSize
  <2>1. m[k].addr \in Nat /\ Start(m[k]) \in Nat /\ m[k].addr <= Start(m[k])
    BY <1>3, EntryBounds, Entries
  <2>2. QED BY <1>1, <1>2, <2>1
<1>5. (page + 1) * PageSize <= m[k].addr + m[k].len
  <2>1. End(m[k]) \in Nat /\ End(m[k]) % PageSize = 0
        /\ End(m[k]) <= m[k].addr + m[k].len /\ m[k].addr + m[k].len \in Nat
    BY <1>3, EntryBounds, Entries
  <2>2. (page + 1) * PageSize <= End(m[k])
    BY <1>1, <1>2, <2>1, PageEnds
  <2>3. (page + 1) * PageSize \in Nat
    BY <1>1
  <2>4. QED BY <2>1, <2>2, <2>3
<1>6. ASSUME BitmapAddr(m) % PageSize = 0, ~((page + 1) * PageSize <= BitmapAddr(m))
      PROVE  page * PageSize >= BitmapAddr(m) + BitmapBytes(m)
  <2>1. BitmapAddr(m) \in Nat
    BY BitmapAddrNat
  <2>2. ~(page * PageSize < BitmapAddr(m))
    BY <1>1, <1>6, <2>1, PageEnds
  <2>3. ~(page * PageSize < BitmapAddr(m) + BitmapPages(m) * PageSize)
    BY <1>1, <2>1, <2>2 DEF FreeAtBoot, InBitmap
  <2>4. BitmapPages(m) * PageSize \in Nat /\ BitmapBytes(m) \in Nat
        /\ BitmapPages(m) * PageSize >= BitmapBytes(m)
    BY <1>1, MapSizes
  <2>5. QED BY <1>1, <2>1, <2>3, <2>4
<1>7. QED BY <1>2, <1>4, <1>5, <1>6

\* A walk that fails has passed every page from which a run could begin.
LEMMA FailWhenFull ==
  ASSUME IInv, AllocFail, request.pages > 0, NEW p \in 0 .. phys_total_pages
  PROVE  ~FreeRun(p)
<1>1. i \in Nat /\ request.pages \in Nat /\ phys_total_pages \in Nat
  BY DEF IInv, TypeOK
<1>2. CASE p < i
  BY <1>1, <1>2 DEF IInv, WalkInv, AllocFail
<1>3. CASE p >= i
  <2>1. p + request.pages - 1 \in Run(p, request.pages)
    BY <1>1 DEF Run
  <2>2. ~page_is_free(p + request.pages - 1)
    BY <1>1, <1>3 DEF page_is_free, AllocFail
  <2>3. QED BY <2>1, <2>2 DEF FreeRun
<1>4. QED BY <1>1, <1>2, <1>3

LEMMA UsableHeld == Wide /\ IInv => OnlyUsableHeld
<1> SUFFICES ASSUME Wide, IInv, NEW p \in DOMAIN held, NEW page \in Run(p, held[p])
             PROVE  /\ \E k \in Usable(map) :
                         /\ map[k].addr <= page * PageSize
                         /\ (page + 1) * PageSize <= map[k].addr + map[k].len
                    /\ bitmap_phys % PageSize = 0 =>
                         \/ (page + 1) * PageSize <= bitmap_phys
                         \/ page * PageSize >= bitmap_phys + ((phys_total_pages + 7) \div 8)
  BY DEF OnlyUsableHeld
<1>1. page \in used /\ page \in 0 .. (phys_total_pages - 1)
  BY DEF IInv, TypeOK, HeldDisjoint
<1>2. map \in AnyMap /\ phys_total_pages # 0
  BY <1>1 DEF IInv, TypeOK, AnyMap
<1>3. /\ CanPlaceBitmap(map)
      /\ phys_total_pages = TotalPages(map) /\ bitmap_phys = BitmapAddr(map)
  BY <1>2 DEF IInv, BootInv
<1>4. page \in FreeAtBoot(map)
  <2>1. page \in HeldPages
    BY DEF HeldPages
  <2>2. QED BY <1>1, <2>1 DEF IInv, FreeSinceBoot
<1>5. BitmapBytes(map) = (phys_total_pages + 7) \div 8
  BY <1>3 DEF BitmapBytes
<1>6. QED BY <1>2, <1>3, <1>4, <1>5, FreePagePlace

LEMMA FullStep ==
  ASSUME IInv, [AnyNext]_vars, pc = "scan", pc' = "idle", used' = used, request.pages > 0,
         NEW p \in 0 .. phys_total_pages
  PROVE  ~FreeRun(p)
<1>1. AllocFail \/ AllocTake
  BY DEF AnyNext, Call, Walk, vars, physmem_init_from_multiboot, AllocCall, AllocRefused,
         Release, AllocSkip, AllocTooShort
<1>2. CASE AllocFail
  BY <1>2, FailWhenFull
<1>3. CASE AllocTake
  <2>1. i \in Nat /\ request.pages \in Nat
    BY DEF IInv, TypeOK
  <2>2. Run(i, request.pages) \subseteq used /\ i \in Run(i, request.pages)
    BY <1>3, <2>1 DEF AllocTake, Marked, Run
  <2>3. page_is_free(i)
    BY <1>3 DEF AllocTake, Candidate
  <2>4. QED BY <2>2, <2>3 DEF page_is_free
<1>4. QED BY <1>1, <1>2, <1>3

\* A page whose mark changes is in the run that is taken or given back.
MarkCause(page) ==
  \/ \E p \in DOMAIN held \ DOMAIN held' : page \in Run(p, held[p])
  \/ \E p \in DOMAIN held' \ DOMAIN held : page \in Run(p, held'[p])
  \/ pc = "scan" /\ i = 0 /\ page \in Run(0, request.pages)

LEMMA MarkStep ==
  ASSUME IInv, [AnyNext]_vars, pc # "boot",
         NEW page, (page \in used) # (page \in used')
  PROVE  MarkCause(page)
<1>1. AllocTake \/ \E p \in DOMAIN held : Release(p)
  BY DEF AnyNext, Call, Walk, vars, physmem_init_from_multiboot, AllocCall, AllocRefused,
         AllocFail, AllocSkip, AllocTooShort
<1>2. CASE AllocTake
  <2>1. page \in Run(i, request.pages) /\ pc = "scan"
    BY <1>2 DEF AllocTake, Marked, InLoop
  <2>2. CASE i = 0
    BY <2>1, <2>2 DEF MarkCause
  <2>3. CASE i # 0
    <3>1. held' = [p \in DOMAIN held \cup {i} |-> IF p = i THEN request.pages ELSE held[p]]
      BY <1>2, <2>3 DEF AllocTake
    <3>2. i \in DOMAIN held' /\ held'[i] = request.pages
      BY <3>1
    <3>3. i \notin DOMAIN held
      <4>1. SUFFICES ASSUME i \in DOMAIN held PROVE FALSE
        OBVIOUS
      <4>2. held[i] \in Nat \ {0} /\ i \in Nat /\ Run(i, held[i]) \subseteq used
        BY <4>1 DEF IInv, TypeOK, HeldDisjoint, HeldSomething
      <4>3. i \in used
        BY <4>2 DEF Run
      <4>4. QED BY <1>2, <4>3 DEF AllocTake, Candidate, page_is_free
    <3>4. QED BY <2>1, <3>2, <3>3 DEF MarkCause
  <2>4. QED BY <2>2, <2>3
<1>3. CASE \E p \in DOMAIN held : Release(p)
  <2>1. PICK p \in DOMAIN held : Release(p)
    BY <1>3
  <2>2. page \in Run(p, held[p]) /\ p \notin DOMAIN held'
    BY <2>1 DEF Release, Freed
  <2>3. QED BY <2>1, <2>2 DEF MarkCause
<1>4. QED BY <1>1, <1>2, <1>3

-----------------------------------------------------------------------------
(* Theorems about every behaviour *)

LEMMA NextIsAny == [Next]_vars => [AnyNext]_vars
BY DEF Next, AnyNext, AnyMap

THEOREM Invariant == Spec => []IInv
<1>1. Init => IInv
  BY InitInv
<1>2. IInv /\ [Next]_vars => IInv'
  BY NextIsAny, StepInv
<1>3. QED BY <1>1, <1>2, PTL DEF Spec

\* Every variable has its type.
THEOREM Types == Spec => []TypeOK
<1>1. IInv => TypeOK
  BY DEF IInv
<1>2. QED BY <1>1, Invariant, PTL

\* phys_alloc_contiguous never hands out a page that somebody holds.
THEOREM NoPageTwice == Spec => []HeldDisjoint
<1>1. IInv => HeldDisjoint
  BY DEF IInv
<1>2. QED BY <1>1, Invariant, PTL

\* What is handed out is usable memory, whole pages of it and none of the bitmap.
THEOREM UsableMemory == Wide => (Spec => []OnlyUsableHeld)
<1> SUFFICES ASSUME Wide PROVE Spec => []OnlyUsableHeld
  OBVIOUS
<1>1. IInv => OnlyUsableHeld
  BY UsableHeld
<1>2. QED BY <1>1, Invariant, PTL

\* The loop that skips what it has seen never skips a run that would do.
THEOREM NothingPassedOver == Spec => []WalkInv
<1>1. IInv => WalkInv
  BY DEF IInv
<1>2. QED BY <1>1, Invariant, PTL

\* phys_alloc_contiguous returns 0 for want of memory only when there is none.
THEOREM FailsOnlyWhenFull == Spec => FailOnlyWhenFull
<1>1. IInv /\ [Next]_vars =>
        (pc = "scan" /\ pc' = "idle" /\ used' = used /\ request.pages > 0 =>
           \A p \in 0 .. phys_total_pages : ~FreeRun(p))
  BY NextIsAny, FullStep
<1>2. QED BY <1>1, Invariant, PTL DEF Spec, FailOnlyWhenFull

\* A call changes the marks of the run it takes or gives back, and no others.
THEOREM MarksAreTheOwners == Spec => MarksFollowOwners
<1>1. IInv /\ [Next]_vars =>
        (pc # "boot" =>
           \A page \in 0 .. (phys_total_pages - 1) :
             (page \in used) # (page \in used') =>
               \/ \E p \in DOMAIN held \ DOMAIN held' : page \in Run(p, held[p])
               \/ \E p \in DOMAIN held' \ DOMAIN held : page \in Run(p, held'[p])
               \/ pc = "scan" /\ i = 0 /\ page \in Run(0, request.pages))
  BY NextIsAny, MarkStep DEF MarkCause
<1>2. QED BY <1>1, Invariant, PTL DEF Spec, MarksFollowOwners
=============================================================================
