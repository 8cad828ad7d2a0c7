----------------------------- MODULE HeapProofs -----------------------------
(***************************************************************************)
(* Proofs about the kernel heap, for every pool size, header size and set  *)
(* of request sizes.                                                       *)
(*                                                                         *)
(* The argument: WF says of a header function what ListWellFormed says of  *)
(* the list, so that the two headers maps inside free (after the first     *)
(* merge, before the second) can be spoken of.  Split and Absorb preserve  *)
(* it; the rest follows from where they leave the links.                   *)
(***************************************************************************)
EXTENDS Heap, FiniteSetTheorems, TLAPS

Header == [size : Nat, next : Int, prev : Int, free : BOOLEAN]

End(h, b) == b + HeaderSize + h[b].size

Forward(h, b) ==
  IF h[b].next = NULL
  THEN \A c \in DOMAIN h : c <= b
  ELSE /\ h[b].next \in DOMAIN h
       /\ h[b].next >= End(h, b)
       /\ \A c \in DOMAIN h : c <= b \/ c >= h[b].next

Back(h, b) ==
  /\ h[b].prev = NULL <=> b = 0
  /\ h[b].prev # NULL => h[b].prev \in DOMAIN h /\ h[h[b].prev].next = b
  /\ h[b].next # NULL => h[h[b].next].prev = b

\* A well-formed list of blocks.
WF(h) ==
  /\ DOMAIN h \subseteq Nat
  /\ h \in [DOMAIN h -> Header]
  /\ 0 \in DOMAIN h
  /\ \A b \in DOMAIN h : End(h, b) <= PoolSize /\ Forward(h, b) /\ Back(h, b)

\* No two neighbours free, but for the blocks of S and what follows them.
CoalescedBut(h, S) ==
  \A b \in DOMAIN h \ S :
    h[b].next # NULL => ~(h[b].free /\ h[h[b].next].free)

\* The inductive invariant.
IInv ==
  /\ TypeOK
  /\ ListWellFormed
  /\ Coalesced
  /\ OwnersMatchBlocks
  /\ ScanInv
  /\ PanicJustified

-----------------------------------------------------------------------------

\* Once initialised, the list invariants of Heap are WF of the list.
LEMMA ListIsWF ==
  ASSUME memory_already_initialized, TypeOK, ListWellFormed
  PROVE  WF(hdr)
BY HeapAssumption DEF TypeOK, ListWellFormed, HeadInv, InPool, LinksForward,
   LinksBack, WF, Forward, Back, End, BlockEnd, Blocks, Header, NULL

\* The other direction: WF gives the list part of TypeOK.
LEMMA WFTypes ==
  ASSUME NEW h, WF(h)
  PROVE  /\ DOMAIN h \subseteq 0 .. (PoolSize - 1)
         /\ h \in [DOMAIN h -> [size : Nat, next : DOMAIN h \cup {NULL},
                                prev : DOMAIN h \cup {NULL}, free : BOOLEAN]]
<1>1. DOMAIN h \subseteq 0 .. (PoolSize - 1)
  BY HeapAssumption DEF WF, End, Header
<1>2. \A b \in DOMAIN h : /\ h[b].next \in DOMAIN h \cup {NULL}
                          /\ h[b].prev \in DOMAIN h \cup {NULL}
  BY DEF WF, Forward, Back
<1>3. h \in [DOMAIN h -> [size : Nat, next : DOMAIN h \cup {NULL},
                          prev : DOMAIN h \cup {NULL}, free : BOOLEAN]]
  BY <1>2 DEF WF, Header
<1>4. QED BY <1>1, <1>3

-----------------------------------------------------------------------------

\* Fields have their types, and next leads forward.
LEMMA NextAbove ==
  ASSUME NEW h, WF(h), NEW x \in DOMAIN h
  PROVE  /\ x \in Nat
         /\ h[x].size \in Nat /\ h[x].next \in Int /\ h[x].prev \in Int
         /\ h[x].free \in BOOLEAN
         /\ End(h, x) \in Nat
         /\ End(h, x) > x
         /\ h[x].next # NULL => /\ h[x].next \in DOMAIN h
                                /\ h[x].next >= End(h, x)
                                /\ h[x].next > x
<1>1. h[x] \in Header /\ x \in Nat
  BY DEF WF
<1>2. /\ h[x].size \in Nat /\ h[x].next \in Int /\ h[x].prev \in Int
      /\ h[x].free \in BOOLEAN
  BY <1>1 DEF Header
<1>3. End(h, x) \in Nat /\ End(h, x) > x
  BY <1>1, <1>2, HeapAssumption DEF End
<1>4. h[x].next # NULL => h[x].next \in DOMAIN h /\ h[x].next >= End(h, x)
  BY DEF WF, Forward
<1>5. QED
  BY <1>1, <1>2, <1>3, <1>4

\* What absorbing b into a makes of the headers h.
Absorbed(k, h, a, b) ==
  /\ DOMAIN k = DOMAIN h \ {b}
  /\ a < b
  /\ k \in [DOMAIN k -> Header]
  /\ k[a].size = h[a].size + HeaderSize + h[b].size
  /\ k[a].next = h[b].next
  /\ k[a].prev = h[a].prev
  /\ \A x \in DOMAIN k : k[x].free = h[x].free
  /\ \A x \in DOMAIN k \ {a} : k[x].size = h[x].size /\ k[x].next = h[x].next
  /\ \A x \in DOMAIN k \ {a} :
       k[x].prev = IF x = h[b].next THEN a ELSE h[x].prev

\* What Absorb leaves in each header.
LEMMA AbsorbFields ==
  ASSUME NEW h, WF(h), NEW a \in DOMAIN h, NEW b \in DOMAIN h, h[a].next = b
  PROVE  Absorbed(Absorb(h, a, b), h, a, b)
<1>1. a < b /\ b # NULL
  <2>1. b # NULL
    BY NextAbove DEF NULL
  <2>2. QED
    BY <2>1, NextAbove
<1>2. h[a] \in Header /\ h[b] \in Header /\ a \in Nat
  BY DEF WF
<1>3. DOMAIN Absorb(h, a, b) = DOMAIN h \ {b}
  BY DEF Absorb
<1>4. a \in DOMAIN h \ {b}
  BY <1>1, <1>2
<1>5. Absorb(h, a, b)[a] = [h[a] EXCEPT !.size = h[a].size + HeaderSize + h[b].size,
                                       !.next = h[b].next]
  BY <1>4 DEF Absorb, Grown
<1>6. \A x \in (DOMAIN h \ {b}) \ {a} :
        Absorb(h, a, b)[x] = IF x = h[b].next THEN [h[x] EXCEPT !.prev = a] ELSE h[x]
  BY DEF Absorb
<1>7. \A x \in DOMAIN h \ {b} : h[x] \in Header
  BY DEF WF
<1>8. Absorb(h, a, b)[a] \in Header
  <2>1. /\ h[a].size + HeaderSize + h[b].size \in Nat
        /\ h[b].next \in Int
    BY NextAbove, HeapAssumption
  <2>2. QED
    BY <2>1, <1>2, <1>5 DEF Header
<1>9. \A x \in (DOMAIN h \ {b}) \ {a} : Absorb(h, a, b)[x] \in Header
  <2> SUFFICES ASSUME NEW x \in (DOMAIN h \ {b}) \ {a}
               PROVE  Absorb(h, a, b)[x] \in Header
    OBVIOUS
  <2>1. a \in Int /\ h[x] \in Header
    BY <1>2, <1>7
  <2>2. [h[x] EXCEPT !.prev = a] \in Header
    BY <2>1 DEF Header
  <2>3. QED
    BY <2>1, <2>2, <1>6
<1>10. Absorb(h, a, b) \in [DOMAIN h \ {b} -> Header]
  BY <1>8, <1>9 DEF Absorb
<1>11. /\ Absorb(h, a, b)[a].size = h[a].size + HeaderSize + h[b].size
       /\ Absorb(h, a, b)[a].next = h[b].next
       /\ Absorb(h, a, b)[a].prev = h[a].prev
       /\ Absorb(h, a, b)[a].free = h[a].free
  BY <1>2, <1>5 DEF Header
<1>12. ASSUME NEW x \in (DOMAIN h \ {b}) \ {a}
       PROVE  /\ Absorb(h, a, b)[x].size = h[x].size
              /\ Absorb(h, a, b)[x].next = h[x].next
              /\ Absorb(h, a, b)[x].free = h[x].free
              /\ Absorb(h, a, b)[x].prev = IF x = h[b].next THEN a ELSE h[x].prev
  <2>1. h[x] \in Header
    BY <1>7
  <2>2. QED
    BY <2>1, <1>6 DEF Header
<1>13. QED
  BY <1>1, <1>3, <1>4, <1>10, <1>11, <1>12 DEF Absorbed

\* Absorbing the next block keeps the list well formed.
LEMMA AbsorbWF ==
  ASSUME NEW h, WF(h), NEW a \in DOMAIN h, NEW b \in DOMAIN h, h[a].next = b,
         NEW k, Absorbed(k, h, a, b)
  PROVE  WF(k)
<1>1. /\ DOMAIN k = DOMAIN h \ {b}
      /\ a < b
      /\ k \in [DOMAIN k -> Header]
      /\ k[a].size = h[a].size + HeaderSize + h[b].size
      /\ k[a].next = h[b].next
      /\ k[a].prev = h[a].prev
      /\ \A x \in DOMAIN k \ {a} : k[x].size = h[x].size /\ k[x].next = h[x].next
      /\ \A x \in DOMAIN k \ {a} :
           k[x].prev = IF x = h[b].next THEN a ELSE h[x].prev
  BY DEF Absorbed
<1>2. /\ DOMAIN h \subseteq Nat
      /\ h \in [DOMAIN h -> Header]
      /\ 0 \in DOMAIN h
      /\ \A x \in DOMAIN h : End(h, x) <= PoolSize /\ Forward(h, x) /\ Back(h, x)
  BY DEF WF
<1>3. HeaderSize \in Nat \ {0} /\ PoolSize \in Nat
  BY HeapAssumption
<1>4. 0 \in DOMAIN k /\ DOMAIN k \subseteq Nat /\ a \in DOMAIN k
  BY <1>1, <1>2
<1>5. h[a].next # NULL /\ b >= End(h, a)
  BY <1>2, <1>4 DEF Forward, NULL
<1>6. End(k, a) <= End(h, b)
  BY <1>1, <1>2, <1>3, <1>5 DEF End, Header
<1>7. ASSUME NEW x \in DOMAIN k
      PROVE  End(k, x) <= PoolSize
  <2>1. CASE x = a
    BY <2>1, <1>1, <1>2, <1>3, <1>4, <1>6 DEF End, Header
  <2>2. CASE x # a
    BY <2>2, <1>1, <1>2, <1>7 DEF End
  <2>3. QED BY <2>1, <2>2
<1>8. ASSUME NEW x \in DOMAIN k
      PROVE  Forward(k, x)
  <2>1. CASE x = a
    <3>1. Forward(h, a) /\ Forward(h, b)
      BY <1>2
    <3>2. h[b].next # NULL => h[b].next > b /\ h[b].next \in DOMAIN k
      BY NextAbove, <1>1
    <3>3. CASE h[b].next = NULL
      <4>1. \A c \in DOMAIN k : c <= b
        BY <3>1, <3>3, <1>1 DEF Forward
      <4>2. \A c \in DOMAIN k : c <= a
        BY <4>1, <3>1, <1>1, <1>2, <1>5 DEF Forward
      <4>3. QED BY <2>1, <3>3, <4>2, <1>1 DEF Forward
    <3>4. CASE h[b].next # NULL
      <4>1. h[b].next >= End(h, b) /\ \A c \in DOMAIN k : c <= b \/ c >= h[b].next
        BY <3>1, <3>4, <1>1 DEF Forward
      <4>2. \A c \in DOMAIN k : c <= a \/ c >= b
        BY <3>1, <1>1, <1>5 DEF Forward
      <4>3. \A c \in DOMAIN k : c <= a \/ c >= h[b].next
        BY <4>1, <4>2, <1>1, <1>2
      <4>4. h[b].next >= End(k, a)
        BY <4>1, <1>4, <1>6, <1>1, <1>3, NextAbove DEF End
      <4>5. QED BY <2>1, <3>2, <3>4, <4>3, <4>4, <1>1 DEF Forward
    <3>5. QED BY <3>3, <3>4
  <2>2. CASE x # a
    <3>1. Forward(h, x) /\ x \in DOMAIN h /\ x # b
      BY <1>1, <1>2
    <3>2. h[x].next # b
      BY <2>2, <3>1, <1>1, <1>2, <1>5 DEF Back, NULL
    <3>3. QED
      BY <2>2, <3>1, <3>2, <1>1 DEF Forward, End
  <2>3. QED BY <2>1, <2>2
<1>9. ASSUME NEW x \in DOMAIN k
      PROVE  Back(k, x)
  <2>1. Back(h, a) /\ Back(h, b) /\ Back(h, x) /\ Forward(h, b) /\ Forward(h, x) /\ x \in DOMAIN h
    BY <1>1, <1>2
  <2>2. h[b].next # NULL => h[b].next > b
    BY NextAbove
  <2>3. h[b].prev = a
    BY <2>1, <1>5 DEF Back
  <2>4. CASE x = a
    BY <2>1, <2>2, <2>4, <1>1, <1>2, <1>4 DEF Back, Forward
  <2>5. CASE x # a /\ x = h[b].next
    <3>1. h[x].prev = b /\ x # 0 /\ x # NULL
      BY <2>1, <2>2, <2>5, <1>1, <1>2, <1>4 DEF Back, NULL
    <3>2. h[x].next # NULL => h[x].next \in DOMAIN k \ {a} /\ h[x].next # h[b].next
      BY <2>1, <2>2, <2>5, <1>1, <1>2, NextAbove DEF NULL
    <3>3. QED
      BY <2>1, <2>5, <3>1, <3>2, <1>1, <1>4 DEF Back, NULL
  <2>6. CASE x # a /\ x # h[b].next
    <3>1. h[x].prev # b
      BY <2>1, <2>6, <1>2 DEF Back, NULL
    <3>2. h[x].next # NULL => h[x].next # b /\ h[x].next # h[b].next
      BY <2>1, <2>3, <2>6, <1>1, <1>2 DEF Back, Forward, NULL
    <3>3. k[x].prev = h[x].prev /\ k[x].next = h[x].next
      BY <2>6, <1>1
    <3>4. h[x].prev # NULL => k[h[x].prev].next = x
      BY <2>1, <2>6, <3>1, <1>1 DEF Back
    <3>5. h[x].next # NULL => k[h[x].next].prev = x
      BY <2>1, <2>6, <3>2, <1>1 DEF Back, Forward
    <3>6. h[x].prev # NULL => h[x].prev \in DOMAIN k
      BY <2>1, <3>1, <1>1 DEF Back
    <3>7. QED
      BY <2>1, <3>3, <3>4, <3>5, <3>6 DEF Back
  <2>7. QED BY <2>4, <2>5, <2>6
<1>10. QED
  BY <1>1, <1>4, <1>7, <1>8, <1>9 DEF WF

-----------------------------------------------------------------------------

\* Changing flags, or cutting a block down, leaves the list well formed.
LEMMA TouchWF ==
  ASSUME NEW h, WF(h), NEW k \in [DOMAIN h -> Header],
         \A x \in DOMAIN h : /\ k[x].next = h[x].next
                             /\ k[x].prev = h[x].prev
                             /\ k[x].size <= h[x].size
  PROVE  WF(k)
<1>1. DOMAIN k = DOMAIN h
  OBVIOUS
<1>2. ASSUME NEW x \in DOMAIN h
      PROVE  /\ End(k, x) \in Nat /\ End(h, x) \in Nat
             /\ End(k, x) <= End(h, x)
             /\ End(h, x) <= PoolSize
             /\ Forward(h, x) /\ Back(h, x)
  <2>1. k[x].size \in Nat
    BY DEF Header
  <2>2. QED
    BY <2>1, NextAbove, HeapAssumption DEF WF, End
<1>3. ASSUME NEW x \in DOMAIN h
      PROVE  End(k, x) <= PoolSize /\ Forward(k, x) /\ Back(k, x)
  <2>1. End(k, x) <= PoolSize
    BY <1>2, HeapAssumption
  <2>2. Forward(k, x)
    BY <1>1, <1>2, NextAbove DEF Forward
  <2>3. Back(k, x)
    BY <1>1, <1>2, NextAbove DEF Back
  <2>4. QED BY <2>1, <2>2, <2>3
<1>4. QED
  BY <1>1, <1>3 DEF WF

\* What a split at block b for n bytes makes of the headers h.
Placed(k, h, b, n) ==
  LET r == b + HeaderSize + n
  IN /\ r \notin DOMAIN h
     /\ DOMAIN k = DOMAIN h \cup {r}
     /\ k \in [DOMAIN k -> Header]
     /\ k[b].size = n /\ k[b].next = r /\ k[b].prev = h[b].prev /\ ~k[b].free
     /\ k[r].size = h[b].size - n - HeaderSize
     /\ k[r].next = h[b].next /\ k[r].prev = b /\ k[r].free
     /\ \A x \in DOMAIN h \ {b} :
          /\ k[x].size = h[x].size /\ k[x].next = h[x].next /\ k[x].free = h[x].free
          /\ k[x].prev = IF x = h[b].next THEN r ELSE h[x].prev

\* What malloc leaves in each header when it splits.
LEMMA PlacedFields ==
  ASSUME WF(hdr), NEW b \in Blocks, NEW n \in Nat, hdr[b].size > n + HeaderSize
  PROVE  Placed([Split(b, n) EXCEPT ![b].size = n, ![b].free = FALSE], hdr, b, n)
<1> DEFINE r == b + HeaderSize + n
           k == [Split(b, n) EXCEPT ![b].size = n, ![b].free = FALSE]
<1>1. /\ b \in Nat /\ HeaderSize \in Nat \ {0} /\ r \in Nat
      /\ hdr[b].size \in Nat /\ hdr[b].next \in Int
      /\ hdr[b].size - n - HeaderSize \in Nat
      /\ b < r /\ r < End(hdr, b)
  BY NextAbove, HeapAssumption DEF Blocks, End
<1>2. r \notin DOMAIN hdr
  <2>1. Forward(hdr, b)
    BY DEF WF, Blocks
  <2>2. CASE hdr[b].next = NULL
    BY <2>1, <2>2, <1>1 DEF Forward
  <2>3. CASE hdr[b].next # NULL
    BY <2>1, <2>3, <1>1, NextAbove DEF Forward, Blocks
  <2>4. QED BY <2>2, <2>3
<1>3. hdr[b] \in Header /\ \A x \in Blocks : hdr[x] \in Header
  BY DEF WF, Blocks
<1>4. DOMAIN Split(b, n) = Blocks \cup {r} /\ DOMAIN k = Blocks \cup {r}
  BY DEF Split
<1>5. /\ Split(b, n)[b] = [hdr[b] EXCEPT !.next = r]
      /\ Split(b, n)[r] = [size |-> hdr[b].size - n - HeaderSize,
                           next |-> hdr[b].next, prev |-> b, free |-> TRUE]
      /\ \A x \in Blocks \ {b} :
           Split(b, n)[x] = IF x = hdr[b].next THEN [hdr[x] EXCEPT !.prev = r] ELSE hdr[x]
  BY <1>1, <1>2 DEF Split, RestHeader, Blocks
<1>6. /\ k[b] = [[Split(b, n)[b] EXCEPT !.size = n] EXCEPT !.free = FALSE]
      /\ \A x \in (Blocks \cup {r}) \ {b} : k[x] = Split(b, n)[x]
      /\ k = [x \in Blocks \cup {r} |-> k[x]]
  BY <1>4 DEF Split
<1> HIDE DEF k
<1>7. /\ k[r].size = hdr[b].size - n - HeaderSize
      /\ k[r].next = hdr[b].next /\ k[r].prev = b /\ k[r].free
      /\ k[r] \in Header
  <2>1. k[r] = Split(b, n)[r]
    <3>1. r # b
      BY <1>1
    <3>2. QED BY <3>1, <1>6
  <2>2. k[r] = [size |-> hdr[b].size - n - HeaderSize,
                next |-> hdr[b].next, prev |-> b, free |-> TRUE]
    BY <2>1, <1>5
  <2>3. QED BY <2>2, <1>1 DEF Header
<1>8. /\ k[b] \in Header
      /\ k[b].size = n /\ k[b].next = r /\ k[b].prev = hdr[b].prev /\ ~k[b].free
  <2>1. Split(b, n)[b] \in Header /\ Split(b, n)[b].next = r
        /\ Split(b, n)[b].prev = hdr[b].prev
    BY <1>1, <1>3, <1>5 DEF Header
  <2> DEFINE s == [Split(b, n)[b] EXCEPT !.size = n]
  <2>2. s \in Header /\ s.size = n /\ s.next = r /\ s.prev = hdr[b].prev
    BY <2>1 DEF Header
  <2>3. k[b] = [s EXCEPT !.free = FALSE]
    BY <1>6
  <2> HIDE DEF s
  <2>4. QED BY <2>2, <2>3 DEF Header
<1>9. ASSUME NEW x \in Blocks \ {b}
      PROVE  /\ k[x] \in Header
             /\ k[x].size = hdr[x].size /\ k[x].next = hdr[x].next
             /\ k[x].free = hdr[x].free
             /\ k[x].prev = IF x = hdr[b].next THEN r ELSE hdr[x].prev
  <2>1. hdr[x] \in Header
    BY <1>3
  <2>2. CASE x = hdr[b].next
    <3>1. k[x] = [hdr[x] EXCEPT !.prev = r]
      BY <2>2, <1>5, <1>6
    <3>2. r \in Int
      BY <1>1
    <3>3. QED BY <2>1, <2>2, <3>1, <3>2 DEF Header
  <2>3. CASE x # hdr[b].next
    <3>1. k[x] = hdr[x]
      BY <2>3, <1>5, <1>6
    <3>2. QED BY <2>1, <2>3, <3>1
  <2>4. QED BY <2>2, <2>3
<1>10. k \in [DOMAIN k -> Header]
  <2>1. \A x \in Blocks \cup {r} : k[x] \in Header
    BY <1>7, <1>8, <1>9
  <2>2. QED BY <2>1, <1>4, <1>6
<1>11. Placed(k, hdr, b, n)
  BY <1>2, <1>4, <1>7, <1>8, <1>9, <1>10 DEF Placed, Blocks
<1>12. QED BY <1>11 DEF k

\* A split keeps the list well formed.
LEMMA PlacedWF ==
  ASSUME NEW h, WF(h), NEW b \in DOMAIN h, NEW n \in Nat,
         h[b].size > n + HeaderSize,
         NEW k, Placed(k, h, b, n)
  PROVE  WF(k)
<1> DEFINE r == b + HeaderSize + n
<1>1. /\ DOMAIN k = DOMAIN h \cup {r} /\ r \notin DOMAIN h
      /\ k \in [DOMAIN k -> Header]
      /\ k[b].size = n /\ k[b].next = r /\ k[b].prev = h[b].prev
      /\ k[r].size = h[b].size - n - HeaderSize
      /\ k[r].next = h[b].next /\ k[r].prev = b
      /\ \A x \in DOMAIN h \ {b} :
           /\ k[x].size = h[x].size /\ k[x].next = h[x].next
           /\ k[x].prev = IF x = h[b].next THEN r ELSE h[x].prev
  BY DEF Placed
<1>2. /\ DOMAIN h \subseteq Nat
      /\ 0 \in DOMAIN h
      /\ \A x \in DOMAIN h : End(h, x) <= PoolSize /\ Forward(h, x) /\ Back(h, x)
  BY DEF WF
<1>3. /\ b \in Nat /\ r \in Nat /\ b < r /\ HeaderSize \in Nat \ {0} /\ PoolSize \in Nat
      /\ h[b].size \in Nat /\ h[b].next \in Int
  BY NextAbove, HeapAssumption
<1>4. End(k, b) = r /\ End(k, r) = End(h, b)
  BY <1>1, <1>3 DEF End
<1> HIDE DEF r
<1>5. \A x \in DOMAIN h \ {b} : End(k, x) = End(h, x)
  BY <1>1 DEF End
<1>6. \A x \in DOMAIN h : x <= b \/ x > r
  <2>1. \A x \in DOMAIN h : x <= b \/ x >= End(h, b)
    BY <1>2, <1>3, NextAbove DEF Forward
  <2>2. r < End(h, b)
    BY <1>3 DEF End, r
  <2>3. QED BY <2>1, <2>2, <1>2, <1>3, NextAbove
<1>7. b # NULL /\ r # NULL /\ r # 0 /\ b # r
  BY <1>3 DEF NULL
<1>8. ASSUME NEW x \in DOMAIN k PROVE End(k, x) <= PoolSize
  <2>1. CASE x = b
    BY <2>1, <1>2, <1>3, <1>4, NextAbove DEF End, r
  <2>2. CASE x = r
    BY <2>2, <1>2, <1>4
  <2>3. CASE x \in DOMAIN h \ {b}
    BY <2>3, <1>2, <1>5
  <2>4. QED BY <2>1, <2>2, <2>3, <1>1
<1>9. ASSUME NEW x \in DOMAIN k PROVE Forward(k, x)
  <2>1. CASE x = b
    <3>1. \A c \in DOMAIN k : c <= b \/ c >= r
      BY <1>1, <1>2, <1>3, <1>6
    <3>2. QED
      BY <2>1, <3>1, <1>1, <1>3, <1>4, <1>7 DEF Forward
  <2>2. CASE x = r
    <3>1. Forward(h, b)
      BY <1>2
    <3>2. CASE h[b].next = NULL
      BY <2>2, <3>1, <3>2, <1>1, <1>3, NextAbove DEF Forward
    <3>3. CASE h[b].next # NULL
      BY <2>2, <3>1, <3>3, <1>1, <1>2, <1>3, <1>4 DEF Forward
    <3>4. QED BY <3>2, <3>3
  <2>3. CASE x \in DOMAIN h \ {b}
    <3>1. Forward(h, x) /\ x \in Nat
      BY <2>3, <1>2
    <3>2. CASE h[x].next = NULL
      BY <2>3, <3>1, <3>2, <1>1, <1>3, <1>6 DEF Forward
    <3>3. CASE h[x].next # NULL
      <4>1. r <= x \/ r >= h[x].next
        <5>1. b <= x \/ b >= h[x].next
          BY <3>1, <3>3 DEF Forward
        <5>2. QED BY <5>1, <3>1, <3>3, <2>3, <1>3, <1>6, NextAbove
      <4>2. QED
        BY <2>3, <3>1, <3>3, <4>1, <1>1, <1>5 DEF Forward
    <3>4. QED BY <3>2, <3>3
  <2>4. QED BY <2>1, <2>2, <2>3, <1>1
<1>10. ASSUME NEW x \in DOMAIN k PROVE Back(k, x)
  <2>1. Back(h, b) /\ Forward(h, b)
    BY <1>2
  <2>2. CASE x = b
    <3>1. h[b].prev # NULL => h[b].prev \in DOMAIN h \ {b} /\ h[h[b].prev].next = b
      BY <2>1, <1>2, <1>3, NextAbove DEF Back
    <3>2. k[b].prev # NULL => k[b].prev \in DOMAIN k /\ k[k[b].prev].next = b
      BY <3>1, <1>1
    <3>3. QED
      BY <2>1, <2>2, <3>2, <1>1, <1>7 DEF Back
  <2>3. CASE x = r
    BY <2>1, <2>3, <1>1, <1>7, NextAbove DEF Back
  <2>4. CASE x \in DOMAIN h \ {b}
    <3>1. Back(h, x)
      BY <2>4, <1>2
    <3>2. h[x].next # NULL => /\ h[x].next \in DOMAIN h \ {b} \/ h[x].next = b
                              /\ h[x].next # h[b].next
      BY <2>1, <2>4, <3>1, NextAbove DEF Back
    <3>3. h[x].next # NULL => k[h[x].next].prev = x
      BY <3>1, <3>2, <1>1 DEF Back
    <3>4. CASE x = h[b].next
      <4>1. x # NULL /\ x # 0
        BY <2>4, <3>4, <1>2, <1>3, NextAbove DEF NULL
      <4>2. QED
        BY <2>4, <3>3, <3>4, <4>1, <1>1, <1>7 DEF Back
    <3>5. CASE x # h[b].next
      <4>1. k[x].prev = h[x].prev /\ h[x].prev # b
        BY <2>4, <3>1, <3>5, <1>1, <1>7 DEF Back
      <4>2. QED
        BY <2>4, <3>1, <3>3, <4>1, <1>1 DEF Back
    <3>6. QED BY <3>4, <3>5
  <2>5. QED BY <2>2, <2>3, <2>4, <1>1
<1>11. QED
  BY <1>1, <1>2, <1>3, <1>8, <1>9, <1>10 DEF WF

-----------------------------------------------------------------------------

\* The occupied blocks, and their sizes, are the same on both lists.
OccupiedKept(k, h) ==
  /\ DOMAIN k \subseteq DOMAIN h
  /\ \A x \in DOMAIN h : ~h[x].free => x \in DOMAIN k
  /\ \A x \in DOMAIN k : k[x].free = h[x].free
  /\ \A x \in DOMAIN k : ~h[x].free => k[x].size = h[x].size

\* Absorbing one free block into another keeps the occupied ones.
LEMMA AbsorbKeeps ==
  ASSUME NEW h, NEW a \in DOMAIN h, NEW b \in DOMAIN h,
         NEW k, Absorbed(k, h, a, b), h[a].free, h[b].free
  PROVE  OccupiedKept(k, h)
BY DEF Absorbed, OccupiedKept

\* The first merge of free: what may still be uncoalesced is only the pair of
\* the freed block and its predecessor.
LEMMA MergeNextLemma ==
  ASSUME NEW h, WF(h), NEW b \in DOMAIN h, h[b].free,
         CoalescedBut(h, {b, h[b].prev})
  PROVE  LET k == MergeNext(h, b) IN
         /\ WF(k) /\ OccupiedKept(k, h) /\ b \in DOMAIN k
         /\ k[b].prev = h[b].prev
         /\ CoalescedBut(k, {h[b].prev})
<1> DEFINE n == h[b].next
<1>1. CASE n # NULL /\ h[n].free
  <2>1. n \in DOMAIN h /\ n > b /\ n \in Nat
    BY <1>1, NextAbove
  <2>2. PICK k : k = Absorb(h, b, n)
    OBVIOUS
  <2>3. Absorbed(k, h, b, n)
    BY <2>1, <2>2, AbsorbFields
  <2>4. WF(k) /\ OccupiedKept(k, h)
    BY <1>1, <2>1, <2>3, AbsorbWF, AbsorbKeeps
  <2>5. b \in DOMAIN k /\ k[b].prev = h[b].prev /\ k[b].next = h[n].next
    BY <2>1, <2>3 DEF Absorbed
  <2>6. ASSUME NEW x \in DOMAIN k \ {h[b].prev}, k[x].next # NULL
        PROVE  ~(k[x].free /\ k[k[x].next].free)
    <3>1. k[x].next \in DOMAIN k /\ k[k[x].next].free = h[k[x].next].free
          /\ x \in DOMAIN h /\ k[x].free = h[x].free
      BY <2>4, <2>6, NextAbove DEF OccupiedKept
    <3>2. CASE x = b
      <4>1. n # b /\ n # h[b].prev
        BY <1>1, <2>1, NextAbove DEF WF, Back
      <4>2. h[n].next # NULL => ~h[h[n].next].free
        BY <4>1, <1>1, <2>1 DEF CoalescedBut
      <4>3. QED BY <4>2, <3>1, <3>2, <2>5, <2>6
    <3>3. CASE x # b
      <4>1. k[x].next = h[x].next
        BY <2>3, <3>3 DEF Absorbed
      <4>2. QED BY <4>1, <3>1, <3>3, <2>6 DEF CoalescedBut
    <3>4. QED BY <3>2, <3>3
  <2>7. CoalescedBut(k, {h[b].prev})
    BY <2>6 DEF CoalescedBut
  <2>8. k = MergeNext(h, b)
    BY <1>1, <2>2 DEF MergeNext
  <2>9. QED BY <2>4, <2>5, <2>7, <2>8
<1>2. CASE ~(n # NULL /\ h[n].free)
  <2>1. MergeNext(h, b) = h
    BY <1>2 DEF MergeNext
  <2>2. CoalescedBut(h, {h[b].prev})
    BY <1>2 DEF CoalescedBut
  <2>3. QED BY <2>1, <2>2 DEF OccupiedKept
<1>3. QED BY <1>1, <1>2

\* The second merge leaves the list coalesced.
LEMMA MergePrevLemma ==
  ASSUME NEW h, WF(h), NEW b \in DOMAIN h, h[b].free,
         CoalescedBut(h, {h[b].prev})
  PROVE  LET k == MergePrev(h, b) IN
         WF(k) /\ OccupiedKept(k, h) /\ CoalescedBut(k, {})
<1> DEFINE a == h[b].prev
<1>1. a # NULL => a \in DOMAIN h /\ h[a].next = b
  BY DEF WF, Back
<1>2. CASE a # NULL /\ h[a].free
  <2>1. PICK k : k = Absorb(h, a, b)
    OBVIOUS
  <2>2. Absorbed(k, h, a, b)
    BY <1>1, <1>2, <2>1, AbsorbFields
  <2>3. WF(k) /\ OccupiedKept(k, h)
    BY <1>1, <1>2, <2>2, AbsorbWF, AbsorbKeeps
  <2>4. ASSUME NEW x \in DOMAIN k, k[x].next # NULL
        PROVE  ~(k[x].free /\ k[k[x].next].free)
    <3>1. k[x].next \in DOMAIN k /\ k[k[x].next].free = h[k[x].next].free
          /\ x \in DOMAIN h /\ k[x].free = h[x].free
      BY <2>3, <2>4, NextAbove DEF OccupiedKept
    <3>2. CASE x = a
      <4>1. k[x].next = h[b].next /\ a # b
        BY <2>2, <3>2, <1>1, <1>2, NextAbove DEF Absorbed
      <4>2. h[b].next # NULL => ~h[h[b].next].free
        BY <4>1 DEF CoalescedBut
      <4>3. QED BY <4>1, <4>2, <3>1, <2>4
    <3>3. CASE x # a
      <4>1. k[x].next = h[x].next
        BY <2>2, <3>3 DEF Absorbed
      <4>2. QED BY <4>1, <3>1, <3>3, <2>4 DEF CoalescedBut
    <3>4. QED BY <3>2, <3>3
  <2>5. CoalescedBut(k, {})
    BY <2>4 DEF CoalescedBut
  <2>6. k = MergePrev(h, b)
    BY <1>2, <2>1 DEF MergePrev
  <2>7. QED BY <2>3, <2>5, <2>6
<1>3. CASE ~(a # NULL /\ h[a].free)
  <2>1. MergePrev(h, b) = h
    BY <1>3 DEF MergePrev
  <2>2. ASSUME NEW x \in DOMAIN h, h[x].next # NULL
        PROVE  ~(h[x].free /\ h[h[x].next].free)
    <3>1. CASE x = a
      BY <3>1, <1>3, <2>2, NextAbove DEF NULL
    <3>2. CASE x # a
      BY <3>2, <2>2 DEF CoalescedBut
    <3>3. QED BY <3>1, <3>2
  <2>3. QED BY <2>1, <2>2 DEF OccupiedKept, CoalescedBut
<1>4. QED BY <1>2, <1>3

-----------------------------------------------------------------------------

\* What free makes of the headers h when it takes back block b.
Freed(h, b) == MergePrev(MergeNext([h EXCEPT ![b].free = TRUE], b), b)

\* Release: marking a block free and merging leaves a coalesced list with one
\* occupied block less.
LEMMA FreeLemma ==
  ASSUME WF(hdr), Coalesced, NEW b \in Blocks, ~hdr[b].free,
         NEW k, k = Freed(hdr, b)
  PROVE  /\ WF(k) /\ CoalescedBut(k, {})
         /\ {x \in DOMAIN k : ~k[x].free} = Owned \ {b}
         /\ \A x \in Owned \ {b} : k[x].size = hdr[x].size
<1> DEFINE m == [hdr EXCEPT ![b].free = TRUE]
<1>1. /\ m \in [DOMAIN hdr -> Header] /\ b \in DOMAIN m
      /\ \A x \in DOMAIN hdr : /\ m[x].next = hdr[x].next
                               /\ m[x].prev = hdr[x].prev
                               /\ m[x].size = hdr[x].size
      /\ m[b].free
      /\ \A x \in DOMAIN hdr \ {b} : m[x].free = hdr[x].free
  BY DEF WF, Header, Blocks
<1> HIDE DEF m
<1>2. WF(m)
  BY <1>1, TouchWF, NextAbove
<1>3. CoalescedBut(m, {b, m[b].prev})
  <2>1. ASSUME NEW x \in DOMAIN m \ {b, m[b].prev}, m[x].next # NULL
        PROVE  ~(m[x].free /\ m[m[x].next].free)
    <3>1. m[x].next # b
      BY <1>2, <2>1 DEF WF, Back
    <3>2. m[x].next \in DOMAIN hdr
      BY <1>1, <1>2, <2>1, NextAbove
    <3>3. QED
      BY <2>1, <3>1, <3>2, <1>1 DEF Coalesced, Blocks
  <2>2. QED BY <2>1 DEF CoalescedBut
<1>4. PICK n : n = MergeNext(m, b)
  OBVIOUS
<1>5. /\ WF(n) /\ OccupiedKept(n, m) /\ b \in DOMAIN n
      /\ CoalescedBut(n, {n[b].prev})
  BY <1>1, <1>2, <1>3, <1>4, MergeNextLemma
<1>6. n[b].free
  BY <1>1, <1>5 DEF OccupiedKept
<1>7. k = MergePrev(n, b)
  BY <1>4 DEF m, Freed
<1>8. WF(k) /\ OccupiedKept(k, n) /\ CoalescedBut(k, {})
  BY <1>5, <1>6, <1>7, MergePrevLemma
<1>9. OccupiedKept(k, m)
  BY <1>5, <1>8 DEF OccupiedKept
<1>10. Owned \ {b} = {x \in DOMAIN m : ~m[x].free}
  BY <1>1 DEF Owned, Blocks
<1>11. {x \in DOMAIN k : ~k[x].free} = {x \in DOMAIN m : ~m[x].free}
  BY <1>9 DEF OccupiedKept
<1>12. \A x \in Owned \ {b} : k[x].size = hdr[x].size
  BY <1>1, <1>9, <1>10 DEF OccupiedKept, Owned, Blocks
<1>13. QED
  BY <1>8, <1>10, <1>11, <1>12

\* What malloc makes of the headers h when it takes block b whole.
TakenWhole(k, h, b, n) ==
  /\ k \in [DOMAIN h -> Header]
  /\ k[b].size = n /\ k[b].next = h[b].next /\ k[b].prev = h[b].prev /\ ~k[b].free
  /\ \A x \in DOMAIN h \ {b} : k[x] = h[x]

\* What malloc leaves in each header when it does not split.
LEMMA TakenWholeFields ==
  ASSUME WF(hdr), NEW b \in Blocks, NEW n \in Nat
  PROVE  TakenWhole([hdr EXCEPT ![b].size = n, ![b].free = FALSE], hdr, b, n)
<1> DEFINE k == [hdr EXCEPT ![b].size = n, ![b].free = FALSE]
           s == [hdr[b] EXCEPT !.size = n]
<1>1. /\ k[b] = [s EXCEPT !.free = FALSE]
      /\ \A x \in DOMAIN hdr \ {b} : k[x] = hdr[x]
      /\ k = [x \in DOMAIN hdr |-> k[x]]
  BY DEF Blocks
<1> HIDE DEF k
<1>2. \A x \in DOMAIN hdr : hdr[x] \in Header
  BY DEF WF
<1>3. s \in Header /\ s.size = n /\ s.next = hdr[b].next /\ s.prev = hdr[b].prev
  BY <1>2 DEF Header, Blocks
<1> HIDE DEF s
<1>4. /\ k[b] \in Header
      /\ k[b].size = n /\ k[b].next = hdr[b].next /\ k[b].prev = hdr[b].prev
      /\ ~k[b].free
  BY <1>1, <1>3 DEF Header
<1>5. k \in [DOMAIN hdr -> Header]
  <2>1. \A x \in DOMAIN hdr : k[x] \in Header
    BY <1>1, <1>2, <1>4
  <2>2. QED BY <2>1, <1>1
<1>6. TakenWhole(k, hdr, b, n)
  BY <1>1, <1>4, <1>5 DEF TakenWhole
<1>7. QED BY <1>6 DEF k

\* Allocation: taking a free block that fits leaves a coalesced list with one
\* occupied block more.
LEMMA TakeLemma ==
  ASSUME WF(hdr), Coalesced, NEW b \in Blocks, NEW n \in Nat,
         hdr[b].free, hdr[b].size >= n,
         NEW k, IF hdr[b].size > n + HeaderSize
                THEN Placed(k, hdr, b, n) ELSE TakenWhole(k, hdr, b, n)
  PROVE  /\ WF(k) /\ CoalescedBut(k, {})
         /\ {x \in DOMAIN k : ~k[x].free} = Owned \cup {b}
         /\ k[b].size = n
         /\ \A x \in Owned : k[x].size = hdr[x].size
<1>1. CASE hdr[b].size > n + HeaderSize
  <2>1. Placed(k, hdr, b, n)
    BY <1>1
  <2>2. WF(k)
    BY <1>1, <2>1, PlacedWF DEF Blocks
  <2> DEFINE r == b + HeaderSize + n
  <2>3. /\ DOMAIN k = DOMAIN hdr \cup {r} /\ r \notin DOMAIN hdr
        /\ k[b].next = r /\ ~k[b].free /\ k[b].size = n
        /\ k[r].next = hdr[b].next /\ k[r].free
        /\ \A x \in DOMAIN hdr \ {b} :
             k[x].next = hdr[x].next /\ k[x].free = hdr[x].free /\ k[x].size = hdr[x].size
    BY <2>1 DEF Placed
  <2> HIDE DEF r
  <2>4. ASSUME NEW x \in DOMAIN k, k[x].next # NULL
        PROVE  ~(k[x].free /\ k[k[x].next].free)
    <3>1. CASE x = b
      BY <3>1, <2>3
    <3>2. CASE x = r
      <4>1. hdr[b].next # NULL /\ hdr[b].next \in DOMAIN hdr \ {b}
        BY <3>2, <2>3, <2>4, NextAbove DEF Blocks
      <4>2. ~hdr[hdr[b].next].free
        BY <4>1 DEF Coalesced
      <4>3. QED BY <3>2, <4>1, <4>2, <2>3
    <3>3. CASE x \in DOMAIN hdr \ {b}
      <4>1. hdr[x].next # NULL /\ hdr[x].next \in DOMAIN hdr
        BY <3>3, <2>3, <2>4, NextAbove
      <4>2. ~(hdr[x].free /\ hdr[hdr[x].next].free)
        BY <3>3, <4>1 DEF Coalesced, Blocks
      <4>3. QED BY <3>3, <4>1, <4>2, <2>3
    <3>4. QED BY <3>1, <3>2, <3>3, <2>3
  <2>5. CoalescedBut(k, {})
    BY <2>4 DEF CoalescedBut
  <2>6. QED BY <2>2, <2>3, <2>5 DEF Owned, Blocks
<1>2. CASE ~(hdr[b].size > n + HeaderSize)
  <2>1. /\ k \in [DOMAIN hdr -> Header]
        /\ k[b].size = n /\ k[b].next = hdr[b].next /\ k[b].prev = hdr[b].prev
        /\ ~k[b].free
        /\ \A x \in DOMAIN hdr \ {b} : k[x] = hdr[x]
    BY <1>2 DEF TakenWhole
  <2>2. WF(k)
    <3>1. \A x \in DOMAIN hdr : /\ k[x].next = hdr[x].next
                                /\ k[x].prev = hdr[x].prev
                                /\ k[x].size <= hdr[x].size
      BY <2>1, NextAbove
    <3>2. QED BY <2>1, <3>1, TouchWF
  <2>3. ASSUME NEW x \in DOMAIN k, k[x].next # NULL
        PROVE  ~(k[x].free /\ k[k[x].next].free)
    <3>1. k[x].next = hdr[x].next /\ hdr[x].next \in DOMAIN hdr
      BY <2>1, <2>3, NextAbove
    <3>2. ~(hdr[x].free /\ hdr[hdr[x].next].free)
      BY <2>1, <2>3, <3>1 DEF Coalesced, Blocks
    <3>3. QED BY <3>1, <3>2, <2>1
  <2>4. CoalescedBut(k, {})
    BY <2>3 DEF CoalescedBut
  <2>5. QED BY <2>1, <2>2, <2>4 DEF Owned, Blocks
<1>3. QED BY <1>1, <1>2

-----------------------------------------------------------------------------
(* The inductive invariant *)

LEMMA InitInv == Init => IInv
BY HeapAssumption DEF Init, IInv, TypeOK, ListWellFormed, HeadInv, InPool,
   LinksForward, LinksBack, Coalesced, OwnersMatchBlocks, ScanInv,
   PanicJustified, Owned, Blocks, Payload, NULL

\* What is left to show of a step that leaves a well-formed, coalesced list.
LEMMA ListPart ==
  ASSUME memory_already_initialized', WF(hdr'), CoalescedBut(hdr', {})
  PROVE  /\ Blocks' \subseteq 0 .. (PoolSize - 1)
         /\ hdr' \in [Blocks' -> [size : Nat, next : Blocks' \cup {NULL},
                                  prev : Blocks' \cup {NULL}, free : BOOLEAN]]
         /\ ListWellFormed'
         /\ Coalesced'
<1>1. /\ Blocks' \subseteq 0 .. (PoolSize - 1)
      /\ hdr' \in [Blocks' -> [size : Nat, next : Blocks' \cup {NULL},
                               prev : Blocks' \cup {NULL}, free : BOOLEAN]]
  BY WFTypes DEF Blocks
<1>2. ListWellFormed'
  BY DEF ListWellFormed, HeadInv, InPool, LinksForward, LinksBack, WF,
     Forward, Back, End, BlockEnd, Blocks
<1>3. Coalesced'
  BY DEF Coalesced, CoalescedBut, Blocks
<1>4. QED BY <1>1, <1>2, <1>3

\* The heap's first block.
LEMMA StepInit == IInv /\ init_memory_heap => IInv'
<1> SUFFICES ASSUME IInv, init_memory_heap PROVE IInv'
  OBVIOUS
<1>1. /\ pc = "idle" /\ pc' = "idle" /\ Blocks = {} /\ memory_already_initialized'
      /\ current' = NULL /\ size' = size /\ live' = live
      /\ hdr' = [b \in {0} |-> [size |-> PoolSize - HeaderSize,
                                next |-> NULL, prev |-> NULL, free |-> TRUE]]
  BY DEF init_memory_heap, IInv, ListWellFormed, HeadInv, TypeOK
<1>2. /\ DOMAIN hdr' = {0}
      /\ hdr'[0].size = PoolSize - HeaderSize /\ hdr'[0].next = NULL
      /\ hdr'[0].prev = NULL /\ hdr'[0].free
      /\ hdr' \in [{0} -> Header]
  BY <1>1, HeapAssumption DEF Header, NULL
<1>3. WF(hdr')
  BY <1>2, HeapAssumption DEF WF, Forward, Back, End, NULL
<1>4. CoalescedBut(hdr', {})
  BY <1>2 DEF CoalescedBut
<1>5. TypeOK'
  BY <1>1, <1>3, <1>4, ListPart DEF IInv, TypeOK
<1>6. DOMAIN live = {}
  BY <1>1 DEF IInv, OwnersMatchBlocks, Owned
<1>7. OwnersMatchBlocks'
  BY <1>1, <1>2, <1>6 DEF OwnersMatchBlocks, Owned, Blocks
<1>8. QED
  BY <1>1, <1>3, <1>4, <1>5, <1>7, ListPart DEF IInv, ScanInv, PanicJustified

\* Steps that leave the list, and what callers hold, alone.
LEMMA StepSameList ==
  ASSUME IInv, UNCHANGED <<hdr, memory_already_initialized, live>>,
         pc' \in {"scan", "halted"}, memory_already_initialized,
         current' \in Blocks \cup {NULL}, size' \in Requests,
         pc' = "scan" => ScanInv', pc' = "halted" => PanicJustified'
  PROVE  IInv'
<1>1. TypeOK'
  BY DEF IInv, TypeOK, Blocks
<1>2. ListWellFormed' /\ Coalesced' /\ OwnersMatchBlocks'
  BY DEF IInv, ListWellFormed, HeadInv, InPool, LinksForward, LinksBack,
     Coalesced, OwnersMatchBlocks, Owned, Blocks, BlockEnd, Payload
<1>3. ScanInv' /\ PanicJustified'
  BY DEF ScanInv, PanicJustified
<1>4. QED BY <1>1, <1>2, <1>3 DEF IInv

LEMMA StepCall == ASSUME IInv, NEW n \in Requests, MallocCall(n) PROVE IInv'
<1>1. /\ memory_already_initialized /\ pc' = "scan" /\ current' = 0 /\ size' = n
      /\ UNCHANGED <<hdr, memory_already_initialized, live>>
  BY DEF MallocCall
<1>2. WF(hdr)
  BY <1>1, ListIsWF DEF IInv
<1>3. 0 \in Blocks /\ 0 # NULL
  BY <1>2 DEF WF, Blocks, NULL
<1>4. \A b \in Blocks : ~(b < 0)
  BY <1>2, NextAbove DEF Blocks
<1>5. ScanInv'
  BY <1>1, <1>3, <1>4 DEF ScanInv, Blocks
<1>6. QED BY <1>1, <1>3, <1>5, StepSameList

LEMMA StepAdvance == IInv /\ MallocAdvance => IInv'
<1> SUFFICES ASSUME IInv, MallocAdvance PROVE IInv'
  OBVIOUS
<1>1. /\ pc = "scan" /\ pc' = "scan" /\ current # NULL /\ ~Fits(current)
      /\ current' = hdr[current].next /\ size' = size /\ size \in Requests
      /\ UNCHANGED <<hdr, memory_already_initialized, live>>
      /\ memory_already_initialized /\ current \in Blocks
  BY DEF MallocAdvance, IInv, TypeOK, ListWellFormed, HeadInv
<1>2. WF(hdr)
  BY <1>1, ListIsWF DEF IInv
<1>3. current' \in Blocks \cup {NULL}
  BY <1>1, <1>2, NextAbove DEF Blocks
<1>4. \A b \in Blocks : b < current => ~Fits(b)
  BY <1>1 DEF IInv, ScanInv
<1>5. \A b \in Blocks : (current' = NULL \/ b < current') => b <= current
  <2>1. Forward(hdr, current)
    BY <1>1, <1>2 DEF WF, Blocks
  <2>2. QED
    BY <2>1, <1>1, <1>2, NextAbove DEF Forward, Blocks
<1>6. \A b \in Blocks : (current' = NULL \/ b < current') => ~Fits(b)
  BY <1>1, <1>2, <1>4, <1>5, NextAbove DEF Blocks
<1>7. ScanInv'
  BY <1>1, <1>6 DEF ScanInv, Fits, Blocks
<1>8. QED BY <1>1, <1>3, <1>7, StepSameList

LEMMA StepPanic == IInv /\ MallocPanic => IInv'
<1> SUFFICES ASSUME IInv, MallocPanic PROVE IInv'
  OBVIOUS
<1>1. /\ pc = "scan" /\ pc' = "halted" /\ current = NULL /\ current' = NULL
      /\ size' = size /\ size \in Requests
      /\ UNCHANGED <<hdr, memory_already_initialized, live>>
      /\ memory_already_initialized
  BY DEF MallocPanic, IInv, TypeOK, ListWellFormed, HeadInv
<1>2. \A b \in Blocks : ~Fits(b)
  BY <1>1 DEF IInv, ScanInv
<1>3. PanicJustified'
  BY <1>1, <1>2 DEF PanicJustified, Fits, Blocks
<1>4. QED BY <1>1, <1>3, StepSameList

\* What malloc's success writes into the headers.
LEMMA TakeHeaders ==
  ASSUME IInv, MallocTake
  PROVE  /\ current \in Blocks /\ size \in Requests /\ size \in Nat
         /\ memory_already_initialized /\ WF(hdr)
         /\ hdr[current].free /\ hdr[current].size >= size
         /\ IF hdr[current].size > size + HeaderSize
            THEN Placed(hdr', hdr, current, size) ELSE TakenWhole(hdr', hdr, current, size)
<1> DEFINE b == current
           n == size
<1>1. /\ b \in Blocks /\ n \in Requests /\ n \in Nat /\ memory_already_initialized
      /\ hdr[b].free /\ hdr[b].size >= n
  BY HeapAssumption DEF MallocTake, Fits, IInv, TypeOK, ListWellFormed, HeadInv
<1>2. WF(hdr)
  BY <1>1, ListIsWF DEF IInv
<1>3. hdr' = [Carved(b, n) EXCEPT ![b].size = n, ![b].free = FALSE]
  BY DEF MallocTake, Taken
<1> HIDE DEF b, n
<1>4. CASE hdr[b].size > n + HeaderSize
  <2>1. hdr' = [Split(b, n) EXCEPT ![b].size = n, ![b].free = FALSE]
    BY <1>4, <1>3 DEF Carved
  <2>2. Placed(hdr', hdr, b, n)
    BY <1>4, <2>1, <1>1, <1>2, PlacedFields
  <2>3. QED BY <1>1, <1>2, <1>4, <2>2 DEF b, n
<1>5. CASE ~(hdr[b].size > n + HeaderSize)
  <2>1. hdr' = [hdr EXCEPT ![b].size = n, ![b].free = FALSE]
    BY <1>5, <1>3 DEF Carved
  <2>2. TakenWhole(hdr', hdr, b, n)
    BY <2>1, <1>1, <1>2, TakenWholeFields
  <2>3. QED BY <1>1, <1>2, <1>5, <2>2 DEF b, n
<1>6. QED BY <1>4, <1>5

\* What malloc's success does to the blocks and to what callers hold.
LEMMA TakeEffect ==
  ASSUME IInv, MallocTake
  PROVE  /\ pc = "scan" /\ pc' = "idle" /\ current' = NULL /\ size' = 0
         /\ current \in Blocks /\ size \in Requests
         /\ memory_already_initialized /\ memory_already_initialized'
         /\ WF(hdr) /\ WF(hdr') /\ CoalescedBut(hdr', {})
         /\ Owned' = Owned \cup {current} /\ current \notin Owned
         /\ hdr'[current].size = size
         /\ \A x \in Owned : hdr'[x].size = hdr[x].size
         /\ live' = [p \in DOMAIN live \cup {Payload(current)} |->
                       IF p = Payload(current) THEN size ELSE live[p]]
         /\ Payload(current) \notin DOMAIN live
<1> DEFINE b == current
           n == size
<1>1. /\ pc = "scan" /\ pc' = "idle" /\ current # NULL /\ b \in Blocks
      /\ n \in Requests /\ n \in Nat /\ current' = NULL /\ size' = 0
      /\ memory_already_initialized /\ memory_already_initialized'
      /\ hdr[b].free /\ hdr[b].size >= n
  BY TakeHeaders DEF MallocTake
<1>2. WF(hdr) /\ Coalesced /\ OwnersMatchBlocks
  BY <1>1, ListIsWF DEF IInv
<1>3. live' = [p \in DOMAIN live \cup {Payload(b)} |->
                 IF p = Payload(b) THEN n ELSE live[p]]
  BY DEF MallocTake
<1> HIDE DEF b, n
<1>4. IF hdr[b].size > n + HeaderSize
      THEN Placed(hdr', hdr, b, n) ELSE TakenWhole(hdr', hdr, b, n)
  BY TakeHeaders DEF b, n
<1>5. /\ WF(hdr') /\ CoalescedBut(hdr', {})
      /\ {x \in DOMAIN hdr' : ~hdr'[x].free} = Owned \cup {b}
      /\ hdr'[b].size = n
      /\ \A x \in Owned : hdr'[x].size = hdr[x].size
  BY <1>1, <1>2, <1>4, TakeLemma
<1>6. Owned' = Owned \cup {b} /\ b \notin Owned
  BY <1>1, <1>5 DEF Owned, Blocks
<1>7. Payload(b) \notin DOMAIN live
  <2>1. \A x \in Owned : Payload(x) # Payload(b)
    BY <1>1, <1>2, <1>6, NextAbove, HeapAssumption DEF Payload, Owned, Blocks
  <2>2. QED BY <2>1, <1>2 DEF OwnersMatchBlocks
<1>8. QED BY <1>1, <1>2, <1>3, <1>5, <1>6, <1>7 DEF b, n

LEMMA StepTake == IInv /\ MallocTake => IInv'
<1> SUFFICES ASSUME IInv, MallocTake PROVE IInv'
  OBVIOUS
<1> DEFINE b == current
<1>1. /\ pc' = "idle" /\ current' = NULL /\ size' = 0 /\ size \in Requests
      /\ memory_already_initialized'
      /\ WF(hdr') /\ CoalescedBut(hdr', {})
      /\ Owned' = Owned \cup {b}
      /\ hdr'[b].size = size
      /\ \A x \in Owned : hdr'[x].size = hdr[x].size
      /\ live' = [p \in DOMAIN live \cup {Payload(b)} |->
                    IF p = Payload(b) THEN size ELSE live[p]]
      /\ Payload(b) \notin DOMAIN live
  BY TakeEffect
<1> HIDE DEF b
<1>2. OwnersMatchBlocks
  BY DEF IInv
<1>3. {Payload(x) : x \in Owned'} = DOMAIN live'
  <2>1. {Payload(x) : x \in Owned \cup {b}} = {Payload(x) : x \in Owned} \cup {Payload(b)}
    OBVIOUS
  <2>2. QED BY <2>1, <1>1, <1>2 DEF OwnersMatchBlocks
<1>4. \A x \in Owned' : hdr'[x].size = live'[Payload(x)]
  BY <1>1, <1>2 DEF OwnersMatchBlocks
<1>5. OwnersMatchBlocks'
  BY <1>3, <1>4 DEF OwnersMatchBlocks, Payload
<1>6. live' \in [DOMAIN live' -> Requests]
  BY <1>1 DEF IInv, TypeOK
<1>7. TypeOK'
  BY <1>1, <1>6, ListPart DEF TypeOK
<1>8. QED
  BY <1>1, <1>5, <1>7, ListPart DEF IInv, ScanInv, PanicJustified

\* What free does to the blocks and to what callers hold.
LEMMA FreeEffect ==
  ASSUME IInv, NEW p \in DOMAIN live, Free(p)
  PROVE  /\ pc = "idle" /\ pc' = "idle" /\ current' = current /\ size' = size
         /\ memory_already_initialized /\ memory_already_initialized'
         /\ p - HeaderSize \in Owned /\ p = Payload(p - HeaderSize)
         /\ WF(hdr) /\ WF(hdr') /\ CoalescedBut(hdr', {})
         /\ Owned' = Owned \ {p - HeaderSize}
         /\ \A x \in Owned' : hdr'[x].size = hdr[x].size
         /\ live' = [q \in DOMAIN live \ {p} |-> live[q]]
<1> DEFINE b == p - HeaderSize
<1>1. WF(hdr) /\ Coalesced /\ OwnersMatchBlocks
  BY ListIsWF DEF IInv, Free
<1>2. \A x \in Owned : x \in Nat /\ Payload(x) - HeaderSize = x
  BY <1>1, NextAbove, HeapAssumption DEF Owned, Blocks, Payload
<1>3. b \in Owned /\ p = Payload(b)
  BY <1>1, <1>2 DEF OwnersMatchBlocks
<1>4. /\ pc' = "idle" /\ current' = current /\ size' = size
      /\ memory_already_initialized /\ memory_already_initialized'
      /\ hdr' = Freed(hdr, b)
      /\ live' = [q \in DOMAIN live \ {p} |-> live[q]]
      /\ pc = "idle"
  BY DEF Free, Freed
<1> HIDE DEF b
<1>5. /\ WF(hdr') /\ CoalescedBut(hdr', {})
      /\ {x \in DOMAIN hdr' : ~hdr'[x].free} = Owned \ {b}
      /\ \A x \in Owned \ {b} : hdr'[x].size = hdr[x].size
  <2>1. b \in Blocks /\ ~hdr[b].free
    BY <1>3 DEF Owned
  <2>2. QED BY <2>1, <1>1, <1>4, FreeLemma
<1>6. Owned' = Owned \ {b}
  BY <1>5 DEF Owned, Blocks
<1>7. QED BY <1>1, <1>3, <1>4, <1>5, <1>6 DEF b

LEMMA StepFree == ASSUME IInv, NEW p \in DOMAIN live, Free(p) PROVE IInv'
<1> DEFINE b == p - HeaderSize
<1>1. /\ pc = "idle" /\ pc' = "idle" /\ current' = current /\ size' = size
      /\ memory_already_initialized'
      /\ b \in Owned /\ p = Payload(b)
      /\ WF(hdr) /\ WF(hdr') /\ CoalescedBut(hdr', {})
      /\ Owned' = Owned \ {b}
      /\ \A x \in Owned' : hdr'[x].size = hdr[x].size
      /\ live' = [q \in DOMAIN live \ {p} |-> live[q]]
  BY FreeEffect
<1> HIDE DEF b
<1>2. \A x \in Owned : Payload(x) = Payload(b) <=> x = b
  BY <1>1, NextAbove, HeapAssumption DEF Owned, Blocks, Payload
<1>3. OwnersMatchBlocks
  BY DEF IInv
<1>4. {Payload(x) : x \in Owned'} = DOMAIN live'
  <2>1. {Payload(x) : x \in Owned \ {b}} = {Payload(x) : x \in Owned} \ {Payload(b)}
    BY <1>1, <1>2
  <2>2. QED BY <2>1, <1>1, <1>3 DEF OwnersMatchBlocks
<1>5. \A x \in Owned' : hdr'[x].size = live'[Payload(x)]
  BY <1>1, <1>2, <1>3 DEF OwnersMatchBlocks
<1>6. OwnersMatchBlocks'
  BY <1>4, <1>5 DEF OwnersMatchBlocks, Payload
<1>7. live' \in [DOMAIN live' -> Requests]
  BY <1>1 DEF IInv, TypeOK
<1>8. TypeOK'
  BY <1>1, <1>7, ListPart DEF IInv, TypeOK
<1>9. QED
  BY <1>1, <1>6, <1>8, ListPart DEF IInv, ScanInv, PanicJustified

-----------------------------------------------------------------------------
(* Theorems *)

\* memory.c keeps its inductive invariant, whatever callers ask for.
THEOREM Invariance == Spec => []IInv
<1>1. Init => IInv
  BY InitInv
<1>2. IInv /\ [Next]_vars => IInv'
  <2> SUFFICES ASSUME IInv, [Next]_vars PROVE IInv'
    OBVIOUS
  <2>1. CASE init_memory_heap
    BY <2>1, StepInit
  <2>2. CASE \E n \in Requests : MallocCall(n)
    BY <2>2, StepCall
  <2>3. CASE MallocAdvance
    BY <2>3, StepAdvance
  <2>4. CASE MallocTake
    BY <2>4, StepTake
  <2>5. CASE MallocPanic
    BY <2>5, StepPanic
  <2>6. CASE \E p \in DOMAIN live : Free(p)
    BY <2>6, StepFree
  <2>7. CASE UNCHANGED vars
    BY <2>7 DEF vars, IInv, TypeOK, ListWellFormed, HeadInv, InPool,
       LinksForward, LinksBack, Coalesced, OwnersMatchBlocks, ScanInv,
       PanicJustified, Owned, Blocks, BlockEnd, Payload, Fits
  <2>8. QED
    BY <2>1, <2>2, <2>3, <2>4, <2>5, <2>6, <2>7 DEF Next, Scan
<1>3. QED
  BY <1>1, <1>2, PTL DEF Spec

\* Types, and at every moment between two calls and inside malloc's loop a list
\* in address order, inside the pool, readable in both directions.
THEOREM TypeCorrect == Spec => []TypeOK
BY Invariance, PTL DEF IInv

\* The list of memory.c is never torn by a split or a merge.
THEOREM ListCorrect == Spec => []ListWellFormed
BY Invariance, PTL DEF IInv

\* One merge on each side is enough: free neighbours never stay apart.
THEOREM CoalescedAlways == Spec => []Coalesced
BY Invariance, PTL DEF IInv

\* Occupied blocks are exactly what callers hold.
THEOREM OwnersCorrect == Spec => []OwnersMatchBlocks
BY Invariance, PTL DEF IInv

\* kernelpanic("OUT_OF_MEMORY") is never reached while a block fits.
THEOREM PanicOnlyWhenNothingFits == Spec => []PanicJustified
BY Invariance, PTL DEF IInv

-----------------------------------------------------------------------------

\* Blocks are apart: a lower block ends before a higher one starts.
LEMMA BlocksApart ==
  ASSUME NEW h, WF(h), NEW a \in DOMAIN h, NEW c \in DOMAIN h, a < c
  PROVE  End(h, a) <= c
<1>1. Forward(h, a)
  BY DEF WF
<1>2. QED
  BY <1>1, NextAbove DEF Forward

LEMMA InvDisjoint == IInv => PayloadsDisjoint
<1> SUFFICES ASSUME IInv PROVE PayloadsDisjoint
  OBVIOUS
<1>1. CASE ~memory_already_initialized
  BY <1>1 DEF IInv, ListWellFormed, HeadInv, OwnersMatchBlocks, Owned, PayloadsDisjoint
<1>2. CASE memory_already_initialized
  <2>1. WF(hdr) /\ OwnersMatchBlocks
    BY <1>2, ListIsWF DEF IInv
  <2>2. ASSUME NEW p \in DOMAIN live
        PROVE  /\ p - HeaderSize \in DOMAIN hdr /\ p \in Nat
               /\ End(hdr, p - HeaderSize) = p + live[p]
               /\ live[p] \in Nat
    <3>1. PICK b \in Owned : p = Payload(b)
      BY <2>1 DEF OwnersMatchBlocks
    <3>2. b \in DOMAIN hdr /\ b \in Nat /\ hdr[b].size \in Nat /\ hdr[b].size = live[p]
      BY <2>1, <3>1, NextAbove DEF OwnersMatchBlocks, Owned, Blocks
    <3>3. p - HeaderSize = b /\ p \in Nat
      BY <3>1, <3>2, HeapAssumption DEF Payload
    <3>4. QED BY <3>1, <3>2, <3>3, HeapAssumption DEF End, Payload
  <2>3. ASSUME NEW p \in DOMAIN live, NEW q \in DOMAIN live, p < q
        PROVE  p + live[p] <= q - HeaderSize
    <3>1. p - HeaderSize < q - HeaderSize
      BY <2>2, <2>3, HeapAssumption
    <3>2. End(hdr, p - HeaderSize) <= q - HeaderSize
      BY <2>1, <2>2, <3>1, BlocksApart
    <3>3. QED BY <2>2, <3>2
  <2>4. ASSUME NEW p \in DOMAIN live, NEW b \in Blocks, b >= p
        PROVE  b >= p + live[p]
    <3>1. p - HeaderSize < b /\ b \in DOMAIN hdr
      BY <2>1, <2>2, <2>4, NextAbove, HeapAssumption DEF Blocks
    <3>2. End(hdr, p - HeaderSize) <= b
      BY <2>1, <2>2, <3>1, BlocksApart
    <3>3. QED BY <2>1, <2>2, <3>2, NextAbove DEF Blocks
  <2>5. QED BY <2>3, <2>4 DEF PayloadsDisjoint
<1>3. QED BY <1>1, <1>2

\* Two allocations never share a byte with each other or with a header.
THEOREM NoOverlap == Spec => []PayloadsDisjoint
BY Invariance, InvDisjoint, PTL

LEMMA InvOneBlock == IInv => AllFreeMeansOneBlock
<1> SUFFICES ASSUME IInv, memory_already_initialized, DOMAIN live = {}
             PROVE  Blocks = {0} /\ hdr[0].free
  BY DEF AllFreeMeansOneBlock
<1>1. WF(hdr) /\ OwnersMatchBlocks /\ Coalesced
  BY ListIsWF DEF IInv
<1>2. \A b \in Blocks : hdr[b].free
  BY <1>1 DEF OwnersMatchBlocks, Owned
<1>3. 0 \in Blocks /\ hdr[0].next = NULL
  BY <1>1, <1>2, NextAbove DEF WF, Coalesced, Blocks
<1>4. \A b \in Blocks : b <= 0 /\ b \in Nat
  BY <1>1, <1>3 DEF WF, Forward, Blocks
<1>5. \A b \in Blocks : b = 0
  BY <1>4
<1>6. QED BY <1>2, <1>3, <1>5

\* When everything was given back, the pool is one free block.
THEOREM NoFragmentsLeft == Spec => []AllFreeMeansOneBlock
BY Invariance, InvOneBlock, PTL

-----------------------------------------------------------------------------
(* Steps *)

\* malloc returns the lowest block that fits.
THEOREM FirstFitAlways == Spec => FirstFit
<1> DEFINE A == \A p \in DOMAIN live' \ DOMAIN live :
                  \A b \in Blocks : b < p - HeaderSize =>
                    ~(hdr[b].free /\ hdr[b].size >= live'[p])
<1>1. IInv /\ [Next]_vars => [A]_vars
  <2> SUFFICES ASSUME IInv, Next PROVE A
    OBVIOUS
  <2>1. CASE MallocTake
    <3>1. /\ pc = "scan" /\ current \in Blocks /\ WF(hdr)
          /\ live' = [p \in DOMAIN live \cup {Payload(current)} |->
                        IF p = Payload(current) THEN size ELSE live[p]]
      BY <2>1, TakeEffect
    <3>2. Payload(current) - HeaderSize = current
      BY <3>1, NextAbove, HeapAssumption DEF Payload, Blocks
    <3>3. \A b \in Blocks : b < current => ~(hdr[b].free /\ hdr[b].size >= size)
      BY <3>1 DEF IInv, ScanInv, Fits
    <3>4. QED BY <3>1, <3>2, <3>3
  <2>2. CASE \E p \in DOMAIN live : Free(p)
    BY <2>2 DEF Free
  <2>3. CASE init_memory_heap
    BY <2>3 DEF init_memory_heap
  <2>4. CASE \E n \in Requests : MallocCall(n)
    BY <2>4 DEF MallocCall
  <2>5. CASE MallocAdvance \/ MallocPanic
    BY <2>5 DEF MallocAdvance, MallocPanic
  <2>6. QED BY <2>1, <2>2, <2>3, <2>4, <2>5 DEF Next, Scan
<1>2. QED BY <1>1, Invariance, PTL DEF Spec, FirstFit

\* What a caller holds stays where and as large as it is until it is freed.
THEOREM OwnersUndisturbedAlways == Spec => OwnersUndisturbed
<1> DEFINE A == \A p \in DOMAIN live \cap DOMAIN live' :
                  /\ live'[p] = live[p]
                  /\ p - HeaderSize \in DOMAIN hdr'
                  /\ hdr'[p - HeaderSize].size = hdr[p - HeaderSize].size
                  /\ ~hdr'[p - HeaderSize].free
<1>1. IInv /\ [Next]_vars => [A]_vars
  <2> SUFFICES ASSUME IInv, Next, NEW p \in DOMAIN live, p \in DOMAIN live'
               PROVE  /\ live'[p] = live[p]
                      /\ p - HeaderSize \in DOMAIN hdr'
                      /\ hdr'[p - HeaderSize].size = hdr[p - HeaderSize].size
                      /\ ~hdr'[p - HeaderSize].free
    OBVIOUS
  <2>1. PICK b \in Owned : p = Payload(b)
    BY DEF IInv, OwnersMatchBlocks
  <2>2. p - HeaderSize = b /\ b \in Blocks /\ ~hdr[b].free /\ memory_already_initialized
    <3>1. memory_already_initialized
      BY <2>1 DEF IInv, ListWellFormed, HeadInv, Owned
    <3>2. WF(hdr)
      BY <3>1, ListIsWF DEF IInv
    <3>3. QED BY <2>1, <3>1, <3>2, NextAbove, HeapAssumption DEF Payload, Owned, Blocks
  <2>3. CASE MallocTake
    <3>1. /\ Owned' = Owned \cup {current}
          /\ \A x \in Owned : hdr'[x].size = hdr[x].size
          /\ live' = [q \in DOMAIN live \cup {Payload(current)} |->
                        IF q = Payload(current) THEN size ELSE live[q]]
          /\ Payload(current) \notin DOMAIN live
      BY <2>3, TakeEffect
    <3>2. QED BY <2>1, <2>2, <3>1 DEF Owned, Blocks
  <2>4. CASE \E q \in DOMAIN live : Free(q)
    <3>1. PICK q \in DOMAIN live : Free(q)
      BY <2>4
    <3>2. /\ q = Payload(q - HeaderSize)
          /\ Owned' = Owned \ {q - HeaderSize}
          /\ \A x \in Owned' : hdr'[x].size = hdr[x].size
          /\ live' = [r \in DOMAIN live \ {q} |-> live[r]]
      BY <3>1, FreeEffect
    <3>3. b # q - HeaderSize
      BY <2>1, <3>2
    <3>4. QED BY <2>1, <2>2, <3>2, <3>3 DEF Owned, Blocks
  <2>5. CASE init_memory_heap
    BY <2>2, <2>5 DEF init_memory_heap
  <2>6. CASE \E n \in Requests : MallocCall(n)
    BY <2>2, <2>6 DEF MallocCall, Blocks
  <2>7. CASE MallocAdvance \/ MallocPanic
    BY <2>2, <2>7 DEF MallocAdvance, MallocPanic, Blocks
  <2>8. QED BY <2>3, <2>4, <2>5, <2>6, <2>7 DEF Next, Scan
<1>2. QED BY <1>1, Invariance, PTL DEF Spec, OwnersUndisturbed

-----------------------------------------------------------------------------
(* The account of the pool's bytes *)

\* The bytes that the blocks S of the headers h stand for, and those of all.
RoomOf(h, S) == UNION {x .. (End(h, x) - 1) : x \in S}
Bytes(h) == Cardinality(RoomOf(h, DOMAIN h))

LEMMA RoomSame ==
  ASSUME NEW h, NEW k, NEW S, \A x \in S : k[x].size = h[x].size
  PROVE  RoomOf(k, S) = RoomOf(h, S)
BY DEF RoomOf, End

LEMMA RoomFinite ==
  ASSUME NEW h, WF(h), NEW S \in SUBSET DOMAIN h
  PROVE  IsFiniteSet(RoomOf(h, S)) /\ Cardinality(RoomOf(h, S)) \in Nat
<1>1. \A x \in S : x \in Nat /\ End(h, x) \in Nat /\ End(h, x) <= PoolSize
  BY NextAbove DEF WF
<1>2. \A x \in S : x .. (End(h, x) - 1) \subseteq 0 .. PoolSize
  BY <1>1, HeapAssumption
<1>3. RoomOf(h, S) \subseteq 0 .. PoolSize
  BY <1>2 DEF RoomOf
<1>4. 0 \in Int /\ PoolSize \in Int
  BY HeapAssumption
<1>5. IsFiniteSet(0 .. PoolSize)
  BY <1>4, FS_Interval
<1>6. IsFiniteSet(RoomOf(h, S))
  BY <1>3, <1>5, FS_Subset
<1>7. QED BY <1>6, FS_CardinalityType

\* A block adds its header and its size to those of the others: they are disjoint.
LEMMA RoomAdd ==
  ASSUME NEW h, WF(h), NEW S \in SUBSET DOMAIN h, NEW b \in DOMAIN h, b \notin S
  PROVE  Cardinality(RoomOf(h, S \cup {b})) = Cardinality(RoomOf(h, S)) + HeaderSize + h[b].size
<1> DEFINE I == b .. (End(h, b) - 1)
<1>1. RoomOf(h, S \cup {b}) = RoomOf(h, S) \cup I
  BY DEF RoomOf
<1>2. RoomOf(h, S) \cap I = {}
  <2>1. ASSUME NEW x \in S PROVE (x .. (End(h, x) - 1)) \cap I = {}
    <3>1. x \in DOMAIN h /\ x \in Nat /\ b \in Nat /\ End(h, x) \in Nat /\ End(h, b) \in Nat /\ x # b
      BY NextAbove
    <3>2. CASE x < b
      <4>1. End(h, x) <= b
        BY <3>1, <3>2, BlocksApart
      <4>2. QED BY <3>1, <4>1
    <3>3. CASE b < x
      <4>1. End(h, b) <= x
        BY <3>1, <3>3, BlocksApart
      <4>2. QED BY <3>1, <4>1
    <3>4. QED BY <3>1, <3>2, <3>3
  <2> HIDE DEF I
  <2>2. QED BY <2>1 DEF RoomOf
<1>3. b \in Nat /\ h[b].size \in Nat /\ End(h, b) \in Nat /\ HeaderSize \in Nat \ {0}
  BY NextAbove, HeapAssumption
<1>4. b \in Int /\ End(h, b) - 1 \in Int
  BY <1>3
<1>5. IsFiniteSet(I) /\ Cardinality(I) = IF b > End(h, b) - 1 THEN 0 ELSE (End(h, b) - 1) - b + 1
  BY <1>4, FS_Interval
<1>6. Cardinality(I) = HeaderSize + h[b].size
  BY <1>3, <1>5 DEF End
<1>7. IsFiniteSet(RoomOf(h, S)) /\ Cardinality(RoomOf(h, S)) \in Nat
  BY RoomFinite
<1> HIDE DEF I
<1>8. Cardinality(RoomOf(h, S) \cup I)
        = Cardinality(RoomOf(h, S)) + Cardinality(I) - Cardinality(RoomOf(h, S) \cap I)
  BY <1>5, <1>7, FS_Union
<1>9. Cardinality(RoomOf(h, S) \cap I) = 0
  BY <1>2, FS_EmptySet
<1>10. Cardinality(RoomOf(h, S) \cup I) = Cardinality(RoomOf(h, S)) + (HeaderSize + h[b].size) - 0
  BY <1>6, <1>8, <1>9
<1>11. PICK c \in Nat : c = Cardinality(RoomOf(h, S))
  BY <1>7
<1>12. Cardinality(RoomOf(h, S) \cup I) = c + HeaderSize + h[b].size
  BY <1>3, <1>10, <1>11
<1>13. QED BY <1>1, <1>11, <1>12, Zenon

\* A merge moves the neighbour's bytes into the block, header and all.
LEMMA AbsorbBytes ==
  ASSUME NEW h, WF(h), NEW a \in DOMAIN h, NEW b \in DOMAIN h, h[a].next = b,
         NEW k, Absorbed(k, h, a, b)
  PROVE  Bytes(k) = Bytes(h)
<1> DEFINE S == DOMAIN h \ {a, b}
<1>1. WF(k)
  BY AbsorbWF
<1>2. /\ DOMAIN k = DOMAIN h \ {b} /\ a \in DOMAIN k /\ a # b
      /\ k[a].size = h[a].size + HeaderSize + h[b].size
      /\ \A x \in S : k[x].size = h[x].size
  BY NextAbove DEF Absorbed
<1>3. /\ DOMAIN k = S \cup {a} /\ DOMAIN h = (S \cup {a}) \cup {b}
      /\ S \in SUBSET DOMAIN h /\ S \in SUBSET DOMAIN k /\ S \cup {a} \in SUBSET DOMAIN h
      /\ a \notin S /\ b \notin S \cup {a}
  BY <1>2
<1> HIDE DEF S
<1>4. RoomOf(k, S) = RoomOf(h, S)
  BY <1>2, RoomSame
<1>5. Bytes(k) = Cardinality(RoomOf(h, S)) + HeaderSize + k[a].size
  BY <1>1, <1>2, <1>3, <1>4, RoomAdd DEF Bytes
<1>6. Cardinality(RoomOf(h, S \cup {a})) = Cardinality(RoomOf(h, S)) + HeaderSize + h[a].size
  BY <1>3, RoomAdd
<1>7. Bytes(h) = Cardinality(RoomOf(h, S \cup {a})) + HeaderSize + h[b].size
  BY <1>3, RoomAdd DEF Bytes
<1>8. Cardinality(RoomOf(h, S)) \in Nat /\ h[a].size \in Nat /\ h[b].size \in Nat /\ HeaderSize \in Nat
  BY <1>3, RoomFinite, NextAbove, HeapAssumption
<1>9. QED BY <1>2, <1>5, <1>6, <1>7, <1>8

LEMMA MergeNextBytes ==
  ASSUME NEW h, WF(h), NEW b \in DOMAIN h
  PROVE  WF(MergeNext(h, b)) /\ b \in DOMAIN MergeNext(h, b) /\ Bytes(MergeNext(h, b)) = Bytes(h)
<1>1. CASE h[b].next # NULL /\ h[h[b].next].free
  <2>1. PICK n : n = h[b].next
    OBVIOUS
  <2>2. n \in DOMAIN h
    BY <1>1, <2>1, NextAbove
  <2>3. PICK k : k = Absorb(h, b, n)
    OBVIOUS
  <2>4. Absorbed(k, h, b, n)
    BY <2>1, <2>2, <2>3, AbsorbFields
  <2>5. WF(k) /\ Bytes(k) = Bytes(h)
    BY <2>1, <2>2, <2>4, AbsorbWF, AbsorbBytes
  <2>6. b \in DOMAIN k
    BY <2>2, <2>4, NextAbove DEF Absorbed
  <2>7. QED BY <1>1, <2>1, <2>3, <2>5, <2>6 DEF MergeNext
<1>2. CASE ~(h[b].next # NULL /\ h[h[b].next].free)
  BY <1>2 DEF MergeNext
<1>3. QED BY <1>1, <1>2

LEMMA MergePrevBytes ==
  ASSUME NEW h, WF(h), NEW b \in DOMAIN h
  PROVE  Bytes(MergePrev(h, b)) = Bytes(h)
<1>1. CASE h[b].prev # NULL /\ h[h[b].prev].free
  <2>1. PICK a : a = h[b].prev
    OBVIOUS
  <2>2. a \in DOMAIN h /\ h[a].next = b
    BY <1>1, <2>1 DEF WF, Back
  <2>3. PICK k : k = Absorb(h, a, b)
    OBVIOUS
  <2>4. Absorbed(k, h, a, b)
    BY <2>2, <2>3, AbsorbFields
  <2>5. Bytes(k) = Bytes(h)
    BY <2>2, <2>4, AbsorbBytes
  <2>6. QED BY <1>1, <2>1, <2>3, <2>5 DEF MergePrev
<1>2. CASE ~(h[b].prev # NULL /\ h[h[b].prev].free)
  BY <1>2 DEF MergePrev
<1>3. QED BY <1>1, <1>2

\* free, merges and all, leaves the account as it was.
LEMMA FreedBytes ==
  ASSUME WF(hdr), NEW b \in Blocks
  PROVE  Bytes(Freed(hdr, b)) = Bytes(hdr)
<1> DEFINE m == [hdr EXCEPT ![b].free = TRUE]
<1>1. /\ m \in [DOMAIN hdr -> Header] /\ DOMAIN m = DOMAIN hdr /\ b \in DOMAIN m
      /\ \A x \in DOMAIN hdr : /\ m[x].next = hdr[x].next
                               /\ m[x].prev = hdr[x].prev
                               /\ m[x].size = hdr[x].size
  BY DEF WF, Header, Blocks
<1>2. Freed(hdr, b) = MergePrev(MergeNext(m, b), b)
  BY DEF Freed
<1> HIDE DEF m
<1>3. WF(m)
  BY <1>1, TouchWF, NextAbove
<1>4. Bytes(m) = Bytes(hdr)
  BY <1>1, RoomSame DEF Bytes
<1>5. PICK k : k = MergeNext(m, b)
  OBVIOUS
<1>6. WF(k) /\ b \in DOMAIN k /\ Bytes(k) = Bytes(m)
  BY <1>1, <1>3, <1>5, MergeNextBytes
<1>7. Bytes(MergePrev(k, b)) = Bytes(k)
  BY <1>6, MergePrevBytes
<1>8. QED BY <1>2, <1>4, <1>5, <1>6, <1>7

\* A split keeps the account; a block taken whole leaves at most a header's bytes out.
LEMMA TakenBytes ==
  ASSUME NEW h, WF(h), NEW b \in DOMAIN h, NEW n \in Nat, h[b].size >= n, NEW k, WF(k),
         IF h[b].size > n + HeaderSize THEN Placed(k, h, b, n) ELSE TakenWhole(k, h, b, n)
  PROVE  Bytes(k) <= Bytes(h) /\ Bytes(k) >= Bytes(h) - HeaderSize
<1> DEFINE S == DOMAIN h \ {b}
           r == b + HeaderSize + n
<1>1. S \in SUBSET DOMAIN h /\ DOMAIN h = S \cup {b} /\ b \notin S
  OBVIOUS
<1>2. Bytes(h) = Cardinality(RoomOf(h, S)) + HeaderSize + h[b].size
  <2> HIDE DEF S
  <2>1. QED BY <1>1, RoomAdd DEF Bytes
<1>3. Cardinality(RoomOf(h, S)) \in Nat /\ h[b].size \in Nat /\ HeaderSize \in Nat
  <2> HIDE DEF S
  <2>1. QED BY <1>1, RoomFinite, NextAbove, HeapAssumption
<1>4. CASE h[b].size > n + HeaderSize
  <2>1. /\ r \notin DOMAIN h /\ DOMAIN k = DOMAIN h \cup {r}
        /\ k[b].size = n /\ k[r].size = h[b].size - n - HeaderSize
        /\ \A x \in S : k[x].size = h[x].size
    BY <1>4 DEF Placed
  <2>2. /\ S \in SUBSET DOMAIN k /\ S \cup {b} \in SUBSET DOMAIN k /\ b \in DOMAIN k /\ r \in DOMAIN k
        /\ DOMAIN k = (S \cup {b}) \cup {r} /\ r \notin S \cup {b}
    BY <1>1, <2>1
  <2> HIDE DEF S, r
  <2>3. RoomOf(k, S) = RoomOf(h, S)
    BY <2>1, RoomSame
  <2>4. Cardinality(RoomOf(k, S \cup {b})) = Cardinality(RoomOf(h, S)) + HeaderSize + n
    BY <1>1, <2>1, <2>2, <2>3, RoomAdd
  <2>5. Bytes(k) = Cardinality(RoomOf(k, S \cup {b})) + HeaderSize + k[r].size
    BY <2>2, RoomAdd DEF Bytes
  <2>6. QED BY <1>2, <1>3, <2>1, <2>4, <2>5
<1>5. CASE ~(h[b].size > n + HeaderSize)
  <2>1. DOMAIN k = DOMAIN h /\ k[b].size = n /\ \A x \in S : k[x].size = h[x].size
    BY <1>5 DEF TakenWhole
  <2> HIDE DEF S
  <2>2. RoomOf(k, S) = RoomOf(h, S)
    BY <2>1, RoomSame
  <2>3. Bytes(k) = Cardinality(RoomOf(h, S)) + HeaderSize + n
    BY <1>1, <2>1, <2>2, RoomAdd DEF Bytes
  <2>4. QED BY <1>2, <1>3, <1>5, <2>3
<1>6. QED BY <1>4, <1>5

\* The pool's account: free loses nothing whatever it merges, malloc at most
\* what is too little for a header, and no step invents bytes.
THEOREM BytesAlwaysConserved == Spec => BytesConserved
<1> DEFINE A == memory_already_initialized =>
                  /\ Accounted' <= Accounted
                  /\ Accounted' >= Accounted - HeaderSize
                  /\ (DOMAIN live' \subseteq DOMAIN live) => Accounted' = Accounted
<1>1. Accounted = Bytes(hdr) /\ Accounted' = Bytes(hdr')
  BY DEF Accounted, Bytes, RoomOf, Blocks, BlockEnd, End
<1>2. IInv /\ [Next]_vars => [A]_vars
  <2> SUFFICES ASSUME IInv, Next, memory_already_initialized
               PROVE  /\ Bytes(hdr') <= Bytes(hdr)
                      /\ Bytes(hdr') >= Bytes(hdr) - HeaderSize
                      /\ (DOMAIN live' \subseteq DOMAIN live) => Bytes(hdr') = Bytes(hdr)
    BY <1>1
  <2>1. WF(hdr)
    BY ListIsWF DEF IInv
  <2>2. Bytes(hdr) \in Nat /\ HeaderSize \in Nat
    BY <2>1, RoomFinite, HeapAssumption DEF Bytes
  <2>3. CASE MallocTake
    <3>1. WF(hdr') /\ ~(DOMAIN live' \subseteq DOMAIN live)
      BY <2>3, TakeEffect
    <3>2. /\ current \in DOMAIN hdr /\ size \in Nat /\ hdr[current].size >= size
          /\ IF hdr[current].size > size + HeaderSize
             THEN Placed(hdr', hdr, current, size) ELSE TakenWhole(hdr', hdr, current, size)
      BY <2>3, TakeHeaders DEF Blocks
    <3>3. Bytes(hdr') <= Bytes(hdr) /\ Bytes(hdr') >= Bytes(hdr) - HeaderSize
      BY <2>1, <3>1, <3>2, TakenBytes
    <3>4. QED BY <3>1, <3>3
  <2>4. CASE \E p \in DOMAIN live : Free(p)
    <3>1. PICK p \in DOMAIN live : Free(p)
      BY <2>4
    <3>2. p - HeaderSize \in Blocks
      BY <3>1, FreeEffect DEF Owned
    <3>3. hdr' = Freed(hdr, p - HeaderSize)
      BY <3>1 DEF Free, Freed
    <3>4. Bytes(hdr') = Bytes(hdr)
      BY <2>1, <3>2, <3>3, FreedBytes
    <3>5. QED BY <2>2, <3>4
  <2>5. CASE hdr' = hdr
    BY <2>2, <2>5
  <2>6. QED BY <2>3, <2>4, <2>5 DEF Next, Scan, init_memory_heap, MallocCall, MallocAdvance, MallocPanic
<1>3. QED BY <1>2, Invariance, PTL DEF Spec, BytesConserved

-----------------------------------------------------------------------------
(* Refinement *)

Outstanding == [p \in {Payload(b) : b \in Owned} |-> hdr[p - HeaderSize].size]

\* The abstract allocations are what callers hold.
LEMMA OutstandingIsLive == IInv => Outstanding = live
<1> SUFFICES ASSUME IInv PROVE Outstanding = live
  OBVIOUS
<1>1. OwnersMatchBlocks /\ live = [p \in DOMAIN live |-> live[p]]
  BY DEF IInv, TypeOK
<1>2. ASSUME NEW p \in DOMAIN live PROVE hdr[p - HeaderSize].size = live[p]
  <2>1. PICK b \in Owned : p = Payload(b)
    BY <1>1 DEF OwnersMatchBlocks
  <2>2. memory_already_initialized
    BY <2>1 DEF IInv, ListWellFormed, HeadInv, Owned
  <2>3. p - HeaderSize = b
    BY <2>1, <2>2, ListIsWF, NextAbove, HeapAssumption DEF IInv, Payload, Owned, Blocks
  <2>4. QED BY <1>1, <2>1, <2>3 DEF OwnersMatchBlocks
<1>3. QED BY <1>1, <1>2 DEF OwnersMatchBlocks, Outstanding

\* The promise's steps, said of what callers hold.
LEMMA PromiseAllocate ==
  ASSUME Outstanding = live, Outstanding' = live',
         NEW p \in 0 .. (PoolSize - 1), NEW n \in Requests,
         pc # "halted", pc' # "halted",
         p .. (p + n - 1) \subseteq 0 .. (PoolSize - 1),
         \A q \in DOMAIN live :
           (q .. (q + live[q] - 1)) \cap (p .. (p + n - 1)) = {},
         live' = [q \in DOMAIN live \cup {p} |-> IF q = p THEN n ELSE live[q]]
  PROVE  Promise!Next
<1>1. Promise!Allocate(p, n)
  BY DEF Promise!Allocate, Promise!Bytes, Outstanding
<1>2. QED BY <1>1 DEF Promise!Next

LEMMA PromiseRelease ==
  ASSUME Outstanding = live, Outstanding' = live',
         NEW p \in DOMAIN live, pc # "halted", pc' # "halted",
         live' = [q \in DOMAIN live \ {p} |-> live[q]]
  PROVE  Promise!Next
<1>1. Promise!Release(p)
  BY DEF Promise!Release, Outstanding
<1>2. p \in DOMAIN Outstanding
  OBVIOUS
<1>3. QED BY <1>1, <1>2 DEF Promise!Next, Outstanding

LEMMA PromiseHalt ==
  ASSUME Outstanding = live, Outstanding' = live',
         pc # "halted", pc' = "halted", live' = live
  PROVE  Promise!Next
BY DEF Promise!Next, Promise!Halt, Outstanding

LEMMA PromiseStutter ==
  ASSUME Outstanding = live, Outstanding' = live',
         pc # "halted", pc' # "halted", live' = live
  PROVE  UNCHANGED Promise!vars
BY DEF Promise!vars, Outstanding

\* Every step of memory.c is a step of the promise, or invisible to callers.
THEOREM Refinement == Spec => ImplementsAllocator
<1>1. Init => Promise!Init
  BY DEF Init, Promise!Init, Owned, Blocks
<1>2. IInv /\ IInv' /\ [Next]_vars => [Promise!Next]_(Promise!vars)
  <2> SUFFICES ASSUME IInv, IInv', [Next]_vars
               PROVE  [Promise!Next]_(Promise!vars)
    OBVIOUS
  <2>1. Outstanding = live
    BY OutstandingIsLive
  <2>2. Outstanding' = live'
    <3>1. (IInv => Outstanding = live)'
      BY OutstandingIsLive, PTL
    <3>2. QED BY <3>1
  <2>3. CASE MallocTake
    <3>1. /\ pc = "scan" /\ pc' = "idle"
          /\ current \in Blocks /\ size \in Requests /\ WF(hdr) /\ WF(hdr')
          /\ Owned' = Owned \cup {current} /\ hdr'[current].size = size
          /\ live' = [p \in DOMAIN live \cup {Payload(current)} |->
                        IF p = Payload(current) THEN size ELSE live[p]]
          /\ Payload(current) \notin DOMAIN live
      BY <2>3, TakeEffect
    <3> DEFINE p == Payload(current)
    <3>2. current \in DOMAIN hdr' /\ current \in Nat /\ size \in Nat \ {0}
      BY <3>1, NextAbove, HeapAssumption DEF Owned, Blocks
    <3>3. p \in 0 .. (PoolSize - 1) /\ p + size <= PoolSize
      BY <3>1, <3>2, HeapAssumption DEF WF, End, Payload
    <3>4. PayloadsDisjoint'
      <4>1. (IInv => PayloadsDisjoint)'
        BY InvDisjoint, PTL
      <4>2. QED BY <4>1
    <3> HIDE DEF p
    <3>5. ASSUME NEW q \in DOMAIN live
          PROVE  (q .. (q + live[q] - 1)) \cap (p .. (p + size - 1)) = {}
      <4>1. q \in DOMAIN live' /\ p \in DOMAIN live' /\ q # p
            /\ live'[q] = live[q] /\ live'[p] = size
        BY <3>1 DEF p
      <4>2. q \in Nat /\ live[q] \in Nat
        <5>1. PICK b \in Owned : q = Payload(b)
          BY DEF IInv, OwnersMatchBlocks
        <5>2. QED
          BY <5>1, <3>1, NextAbove, HeapAssumption DEF IInv, TypeOK, Owned, Blocks, Payload
      <4>3. q + live[q] <= p \/ p + size <= q
        BY <4>1, <4>2, <3>2, <3>3, <3>4, HeapAssumption DEF PayloadsDisjoint
      <4>4. QED BY <4>2, <4>3, <3>2, <3>3
    <3>6. p .. (p + size - 1) \subseteq 0 .. (PoolSize - 1)
      BY <3>2, <3>3, HeapAssumption
    <3>7. Promise!Next
      BY <2>1, <2>2, <3>1, <3>3, <3>5, <3>6, PromiseAllocate DEF p
    <3>8. QED BY <3>7
  <2>4. CASE \E q \in DOMAIN live : Free(q)
    <3>1. PICK q \in DOMAIN live : Free(q)
      BY <2>4
    <3>2. pc = "idle" /\ pc' = "idle" /\ live' = [r \in DOMAIN live \ {q} |-> live[r]]
      BY <3>1, FreeEffect
    <3>3. Promise!Next
      BY <2>1, <2>2, <3>2, PromiseRelease
    <3>4. QED BY <3>3
  <2>5. CASE MallocPanic
    <3>1. pc # "halted" /\ pc' = "halted" /\ live' = live
      BY <2>5 DEF MallocPanic
    <3>2. QED BY <2>1, <2>2, <3>1, PromiseHalt
  <2>6. CASE init_memory_heap \/ MallocAdvance \/ \E n \in Requests : MallocCall(n)
    <3>1. pc # "halted" /\ pc' # "halted" /\ live' = live
      BY <2>6 DEF init_memory_heap, MallocAdvance, MallocCall
    <3>2. QED BY <2>1, <2>2, <3>1, PromiseStutter
  <2>7. CASE UNCHANGED vars
    BY <2>7 DEF vars, Promise!vars, Owned, Blocks, Payload
  <2>8. QED BY <2>3, <2>4, <2>5, <2>6, <2>7 DEF Next, Scan
<1>3. QED
  BY <1>1, <1>2, Invariance, PTL DEF Spec, ImplementsAllocator, Promise!Spec
=============================================================================
