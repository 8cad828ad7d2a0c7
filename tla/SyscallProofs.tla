---------------------------- MODULE SyscallProofs ----------------------------
(***************************************************************************)
(* Proofs about system calls, for any callers, paths and file trees.       *)
(*                                                                         *)
(* The list of descriptors is a sequence of cells without repetition, the  *)
(* cell in place i being number i.  Three recursive functions run along    *)
(* it, to a number, to its end and over all of it; what each finds is      *)
(* shown from the end of the list backwards.                               *)
(***************************************************************************)
EXTENDS Syscall, FileTreeProofs

-----------------------------------------------------------------------------
(* The list as a sequence *)

\* The cells s, one behind the other, with the descriptors h in them.
ListOf(h, first, s) ==
  /\ s \in Seq(Cells)
  /\ \A i, j \in DOMAIN s : s[i] = s[j] => i = j
  /\ DOMAIN h = {s[i] : i \in DOMAIN s}
  /\ first = IF s = <<>> THEN NULL ELSE s[1]
  /\ \A i \in DOMAIN s :
       h[s[i]] = [id |-> i, to |-> h[s[i]].to, opener |-> h[s[i]].opener,
                  next |-> IF i < Len(s) THEN s[i + 1] ELSE NULL]

LEMMA ListFacts ==
  ASSUME NEW h, NEW first, NEW s, ListOf(h, first, s)
  PROVE  /\ Len(s) \in Nat /\ DOMAIN s = 1 .. Len(s)
         /\ \A i \in 1 .. Len(s) :
              /\ s[i] \in DOMAIN h /\ s[i] \in Cells /\ s[i] # NULL
              /\ h[s[i]].id = i
              /\ i = Len(s) => h[s[i]].next = NULL
              /\ i < Len(s) => h[s[i]].next = s[i + 1] /\ s[i + 1] \in DOMAIN h /\ s[i + 1] # NULL
                               /\ h[s[i + 1]].id = i + 1
         /\ \A i \in 1 .. Len(s) : h[s[i]] = [id |-> i, to |-> h[s[i]].to, opener |-> h[s[i]].opener,
                                            next |-> h[s[i]].next]
         /\ \A fd \in DOMAIN h : h[fd].id \in 1 .. Len(s) /\ fd = s[h[fd].id]
         /\ s = <<>> => first = NULL
         /\ s # <<>> => first = s[1] /\ first \in DOMAIN h /\ first # NULL /\ Len(s) >= 1
<1>1. s \in Seq(Cells) /\ Len(s) \in Nat /\ DOMAIN s = 1 .. Len(s)
  BY DEF ListOf
<1> DEFINE behind(i) == IF i < Len(s) THEN s[i + 1] ELSE NULL
<1>0. ASSUME NEW i \in 1 .. Len(s)
      PROVE  /\ h[s[i]].id = i /\ h[s[i]].next = behind(i)
             /\ h[s[i]] = [id |-> i, to |-> h[s[i]].to, opener |-> h[s[i]].opener,
                           next |-> h[s[i]].next]
  <2>1. PICK x, y : x = h[s[i]].to /\ y = h[s[i]].opener
    OBVIOUS
  <2>2. h[s[i]] = [id |-> i, to |-> x, opener |-> y, next |-> behind(i)]
    BY <1>1, <2>1 DEF ListOf
  <2> HIDE DEF behind
  <2>3. QED BY <2>1, <2>2
<1>2. \A i \in 1 .. Len(s) : s[i] \in DOMAIN h /\ s[i] \in Cells /\ s[i] # NULL /\ h[s[i]].id = i
  <2>1. \A i \in 1 .. Len(s) : s[i] \in DOMAIN h /\ s[i] \in Cells
    BY <1>1 DEF ListOf
  <2>2. QED BY <1>0, <2>1, SyscallAssumption
<1>3. ASSUME NEW i \in 1 .. Len(s)
      PROVE  /\ i = Len(s) => h[s[i]].next = NULL
             /\ i < Len(s) => h[s[i]].next = s[i + 1] /\ i + 1 \in 1 .. Len(s)
  <2>1. h[s[i]].next = IF i < Len(s) THEN s[i + 1] ELSE NULL
    BY <1>0
  <2>2. (i = Len(s) => ~(i < Len(s))) /\ (i < Len(s) => i + 1 \in 1 .. Len(s))
    <3>1. PICK n \in Nat : n = Len(s)
      BY <1>1
    <3>2. QED BY <3>1
  <2>3. QED BY <2>1, <2>2
<1>4. \A i \in 1 .. Len(s) :
        i < Len(s) => h[s[i]].next = s[i + 1] /\ s[i + 1] \in DOMAIN h /\ s[i + 1] # NULL
                      /\ h[s[i + 1]].id = i + 1
  <2>1. SUFFICES ASSUME NEW i \in 1 .. Len(s), i < Len(s)
                 PROVE  /\ h[s[i]].next = s[i + 1] /\ s[i + 1] \in DOMAIN h /\ s[i + 1] # NULL
                        /\ h[s[i + 1]].id = i + 1
    OBVIOUS
  <2>2. PICK j : j = i + 1
    OBVIOUS
  <2>3. j \in 1 .. Len(s) /\ h[s[i]].next = s[j]
    BY <1>3, <2>1, <2>2
  <2>4. QED BY <1>2, <2>2, <2>3
<1>5. \A fd \in DOMAIN h : h[fd].id \in 1 .. Len(s) /\ fd = s[h[fd].id]
  BY <1>1, <1>2 DEF ListOf
<1>6. s = <<>> => first = NULL
  BY DEF ListOf
<1>7. s # <<>> => first = s[1] /\ first \in DOMAIN h /\ first # NULL /\ Len(s) >= 1
  <2>1. s # <<>> => Len(s) >= 1 /\ 1 \in 1 .. Len(s)
    BY <1>1
  <2>2. QED BY <1>2, <2>1 DEF ListOf
<1>8. \A i \in 1 .. Len(s) : i = Len(s) => h[s[i]].next = NULL
  BY <1>3
<1>9. QED BY <1>0, <1>1, <1>2, <1>4, <1>5, <1>6, <1>7, <1>8

\* What holds of the last place, and of a place whenever it holds of the next, holds of all.
LEMMA Backwards ==
  ASSUME NEW n \in Nat, NEW P, n \in P, \A i \in 1 .. n : i < n /\ i + 1 \in P => i \in P
  PROVE  1 .. n \subseteq P
<1> DEFINE S == {k \in 0 .. n : n - k >= 1 /\ n - k \notin P}
<1>1. SUFFICES ASSUME S # {} PROVE FALSE
  <2>1. ASSUME NEW i \in 1 .. n, i \notin P PROVE n - i \in S
    BY <2>1
  <2>2. QED BY <2>1
<1>2. PICK k \in S : \A y \in S : k <= y
  <2>1. S \subseteq Nat
    OBVIOUS
  <2> HIDE DEF S
  <2>2. QED BY <1>1, <2>1, LeastNumber
<1>3. k # 0
  BY <1>2
<1>4. k - 1 \in 0 .. n /\ ~(k <= k - 1) /\ n - (k - 1) >= 1
  BY <1>2, <1>3
<1>5. n - (k - 1) \in P
  BY <1>2, <1>4
<1>6. PICK i : i = n - k
  OBVIOUS
<1>7. i \in 1 .. n /\ i < n /\ i + 1 = n - (k - 1)
  BY <1>2, <1>3, <1>6
<1>8. i \in P
  BY <1>5, <1>7
<1>9. QED BY <1>2, <1>6, <1>8

-----------------------------------------------------------------------------
(* What the three functions find *)

LEMMA EndFound ==
  ASSUME NEW s, ListOf(fds, first_fd, s), s # <<>>
  PROVE  ListEnd = s[Len(s)]
<1> DEFINE n == Len(s)
           B(f) == f = [fd \in DOMAIN fds |-> IF fds[fd].next = NULL THEN fd ELSE f[fds[fd].next]]
           w == [fd \in DOMAIN fds |-> s[n]]
           g == CHOOSE f : B(f)
<1>1. /\ n \in Nat /\ n >= 1 /\ first_fd = s[1]
      /\ \A i \in 1 .. n : /\ s[i] \in DOMAIN fds
                           /\ i = n => fds[s[i]].next = NULL
                           /\ i < n => fds[s[i]].next = s[i + 1] /\ s[i + 1] \in DOMAIN fds
                                       /\ s[i + 1] # NULL
      /\ \A fd \in DOMAIN fds : fds[fd].id \in 1 .. n /\ fd = s[fds[fd].id]
  BY ListFacts
<1> HIDE DEF n
<1>2. B(w)
  <2>1. ASSUME NEW fd \in DOMAIN fds
        PROVE  s[n] = IF fds[fd].next = NULL THEN fd ELSE w[fds[fd].next]
    <3>1. PICK i \in 1 .. n : fd = s[i]
      BY <1>1
    <3>2. CASE i = n
      BY <1>1, <3>1, <3>2
    <3>3. CASE i < n
      BY <1>1, <3>1, <3>3
    <3>4. QED BY <1>1, <3>2, <3>3
  <2>2. QED BY <2>1
<1>3. B(g)
  <2> HIDE DEF B
  <2>1. QED BY <1>2
<1>4. \A fd \in DOMAIN fds : g[fd] = IF fds[fd].next = NULL THEN fd ELSE g[fds[fd].next]
  <2> HIDE DEF g
  <2>1. QED BY <1>3
<1> HIDE DEF g
<1> DEFINE P == {i \in 1 .. n : g[s[i]] = s[n]}
<1>5. n \in P
  BY <1>1, <1>4
<1>6. \A i \in 1 .. n : i < n /\ i + 1 \in P => i \in P
  BY <1>1, <1>4
<1>7. 1 .. n \subseteq P
  <2> HIDE DEF P
  <2>1. QED BY <1>1, <1>5, <1>6, Backwards
<1>8. g[s[1]] = s[n]
  BY <1>1, <1>7
<1>9. ListEnd = g[first_fd]
  BY DEF ListEnd, g
<1>10. QED BY <1>1, <1>8, <1>9 DEF n

LEMMA NumberFound ==
  ASSUME NEW s, ListOf(fds, first_fd, s), NEW id \in Nat
  PROVE  get_fd_from_id(id) = IF id \in 1 .. Len(s) THEN s[id] ELSE NULL
<1> DEFINE n == Len(s)
           B(f) == f = [fd \in DOMAIN fds |->
                          IF fds[fd].id = id THEN fd
                          ELSE IF fds[fd].next = NULL THEN NULL ELSE f[fds[fd].next]]
           at(i) == IF i <= id /\ id <= n THEN s[id] ELSE NULL
           w == [fd \in DOMAIN fds |-> at(fds[fd].id)]
           g == CHOOSE f : B(f)
<1>1. /\ n \in Nat
      /\ \A i \in 1 .. n : /\ s[i] \in DOMAIN fds /\ fds[s[i]].id = i
                           /\ i = n => fds[s[i]].next = NULL
                           /\ i < n => fds[s[i]].next = s[i + 1] /\ s[i + 1] \in DOMAIN fds
                                       /\ s[i + 1] # NULL /\ fds[s[i + 1]].id = i + 1
      /\ \A fd \in DOMAIN fds : fds[fd].id \in 1 .. n /\ fd = s[fds[fd].id]
      /\ s = <<>> => first_fd = NULL
      /\ s # <<>> => first_fd = s[1] /\ first_fd # NULL /\ n >= 1
  BY ListFacts
<1>2. s = <<>> => n = 0
  OBVIOUS
<1> HIDE DEF n
<1>3. ASSUME NEW i \in 1 .. n
      PROVE  at(i) = IF i = id THEN s[i] ELSE IF i = n THEN NULL ELSE at(i + 1)
  BY <1>1
<1> HIDE DEF at
<1>4. B(w)
  <2>1. ASSUME NEW fd \in DOMAIN fds
        PROVE  at(fds[fd].id) = IF fds[fd].id = id THEN fd
                                ELSE IF fds[fd].next = NULL THEN NULL ELSE w[fds[fd].next]
    <3>1. PICK i \in 1 .. n : fd = s[i] /\ fds[fd].id = i
      BY <1>1
    <3>2. CASE i = n
      BY <1>1, <1>3, <3>1, <3>2
    <3>3. CASE i # n
      <4>1. i < n
        BY <1>1, <3>3
      <4>2. w[s[i + 1]] = at(i + 1) /\ fds[fd].next = s[i + 1] /\ s[i + 1] # NULL
        BY <1>1, <3>1, <4>1
      <4>3. QED BY <1>3, <3>1, <3>3, <4>2
    <3>4. QED BY <3>2, <3>3
  <2>2. QED BY <2>1
<1>5. B(g)
  <2> HIDE DEF B
  <2>1. QED BY <1>4
<1>6. \A fd \in DOMAIN fds :
        g[fd] = IF fds[fd].id = id THEN fd
                ELSE IF fds[fd].next = NULL THEN NULL ELSE g[fds[fd].next]
  <2> HIDE DEF g
  <2>1. QED BY <1>5
<1> HIDE DEF g
<1> DEFINE P == {i \in 1 .. n : g[s[i]] = at(i)}
<1>7. n >= 1 => n \in P
  <2>1. SUFFICES ASSUME n >= 1 PROVE g[s[n]] = at(n)
    BY <1>1
  <2>2. n \in 1 .. n
    BY <1>1, <2>1
  <2>3. QED BY <1>1, <1>3, <1>6, <2>2
<1>8. ASSUME NEW i \in 1 .. n, i < n, i + 1 \in P PROVE i \in P
  <2>1. g[s[i + 1]] = at(i + 1) /\ i # n
    BY <1>1, <1>8
  <2>2. g[s[i]] = IF i = id THEN s[i] ELSE g[s[i + 1]]
    BY <1>1, <1>6, <1>8
  <2>3. QED BY <1>3, <2>1, <2>2
<1>9. n >= 1 => 1 .. n \subseteq P
  <2> HIDE DEF P
  <2>1. QED BY <1>1, <1>7, <1>8, Backwards
<1>10. n >= 1 => g[s[1]] = at(1)
  BY <1>1, <1>9
<1>11. get_fd_from_id(id) = IF first_fd = NULL THEN NULL ELSE g[first_fd]
  BY DEF get_fd_from_id, g
<1>12. at(1) = IF id \in 1 .. n THEN s[id] ELSE NULL
  BY <1>1 DEF at
<1>13. s = <<>> => id \notin 1 .. n
  BY <1>2
<1>14. QED BY <1>1, <1>10, <1>11, <1>12, <1>13 DEF n

\* The table from the list h, in the order of its cells from first on.
TableOf(h, first) ==
  LET from[fd \in DOMAIN h] ==
        <<[to |-> h[fd].to, opener |-> h[fd].opener]>>
          \o (IF h[fd].next = NULL THEN <<>> ELSE from[h[fd].next])
  IN IF first = NULL THEN <<>> ELSE from[first]

\* Entries in the places k up to n, from i on.
Rest(e, i, n) == [k \in 1 .. n - i + 1 |-> e[i + k - 1]]

LEMMA RestBefore ==
  ASSUME NEW n \in Nat, NEW V, NEW e \in [1 .. n -> V], NEW i \in 1 .. n
  PROVE  Rest(e, i, n) = <<e[i]>> \o (IF i = n THEN <<>> ELSE Rest(e, i + 1, n))
<1>1. Rest(e, i, n) \in Seq(V) /\ Len(Rest(e, i, n)) = n - i + 1
  <2>1. PICK m \in Nat : m = n - i + 1
    OBVIOUS
  <2>2. Rest(e, i, n) = [k \in 1 .. m |-> e[i + k - 1]]
    BY <2>1 DEF Rest
  <2>3. \A k \in 1 .. m : e[i + k - 1] \in V
    BY <2>1
  <2>4. Rest(e, i, n) \in [1 .. m -> V]
    BY <2>2, <2>3
  <2>5. QED BY <2>1, <2>4
<1>2. CASE i = n
  <2>1. Len(<<e[i]>> \o <<>>) = 1 /\ (<<e[i]>> \o <<>>)[1] = e[i] /\ <<e[i]>> \o <<>> \in Seq(V)
    OBVIOUS
  <2>2. Len(Rest(e, i, n)) = 1 /\ Rest(e, i, n)[1] = e[i]
    <3>1. n - i + 1 = 1 /\ i + 1 - 1 = i /\ 1 \in 1 .. n - i + 1
      BY <1>2
    <3>2. QED BY <1>1, <3>1 DEF Rest
  <2>3. QED BY <1>1, <1>2, <2>1, <2>2
<1>3. CASE i # n
  <2>1. PICK j \in 1 .. n : j = i + 1
    BY <1>3
  <2>2. PICK m \in Nat : m = n - j + 1
    BY <2>1
  <2> DEFINE r == Rest(e, j, n)
             l == <<e[i]>> \o r
  <2>3. r = [k \in 1 .. m |-> e[j + k - 1]] /\ r \in [1 .. m -> V]
    <3>1. \A k \in 1 .. m : e[j + k - 1] \in V
      BY <2>1, <2>2
    <3>2. r = [k \in 1 .. m |-> e[j + k - 1]]
      BY <2>2 DEF Rest
    <3>3. QED BY <3>1, <3>2
  <2> HIDE DEF r
  <2>4. r \in Seq(V) /\ Len(r) = m
    BY <2>3
  <2>5. l \in Seq(V) /\ Len(l) = m + 1 /\ l[1] = e[i] /\ \A k \in 1 .. m : l[k + 1] = r[k]
    BY <2>4
  <2>6. \A k \in 1 .. m + 1 : Rest(e, i, n)[k] = l[k]
    <3>1. SUFFICES ASSUME NEW k \in 1 .. m + 1 PROVE Rest(e, i, n)[k] = l[k]
      OBVIOUS
    <3>2. k \in 1 .. n - i + 1
      BY <2>1, <2>2
    <3>3. Rest(e, i, n)[k] = e[i + k - 1]
      BY <3>2 DEF Rest
    <3>4. CASE k = 1
      BY <2>5, <3>3, <3>4
    <3>5. CASE k # 1
      <4>1. PICK q \in 1 .. m : k = q + 1
        BY <3>5
      <4>2. l[k] = e[j + q - 1]
        BY <2>3, <2>5, <4>1
      <4>3. j + q - 1 = i + k - 1
        BY <2>1, <4>1
      <4>4. QED BY <3>3, <4>2, <4>3
    <3>6. QED BY <3>4, <3>5
  <2>7. m + 1 = n - i + 1
    BY <2>1, <2>2
  <2>8. Rest(e, i, n) = l
    <3> HIDE DEF l
    <3>1. QED BY <1>1, <2>5, <2>6, <2>7
  <2>9. QED BY <1>3, <2>1, <2>8 DEF r
<1>4. QED BY <1>2, <1>3

\* What a table shows of a descriptor.
Entry(d) == [to |-> d.to, opener |-> d.opener]

LEMMA TableFound ==
  ASSUME NEW h, NEW first, NEW s, ListOf(h, first, s)
  PROVE  /\ TableOf(h, first) = [i \in 1 .. Len(s) |-> Entry(h[s[i]])]
         /\ Len(s) \in Nat
<1> DEFINE n == Len(s)
           e == [i \in 1 .. n |-> Entry(h[s[i]])]
           V == {e[i] : i \in 1 .. n}
           B(f) == f = [fd \in DOMAIN h |->
                          <<[to |-> h[fd].to, opener |-> h[fd].opener]>>
                            \o (IF h[fd].next = NULL THEN <<>> ELSE f[h[fd].next])]
           w == [fd \in DOMAIN h |-> Rest(e, h[fd].id, n)]
           g == CHOOSE f : B(f)
<1>1. /\ n \in Nat
      /\ \A i \in 1 .. n : /\ s[i] \in DOMAIN h /\ h[s[i]].id = i
                           /\ i = n => h[s[i]].next = NULL
                           /\ i < n => h[s[i]].next = s[i + 1] /\ s[i + 1] \in DOMAIN h
                                       /\ s[i + 1] # NULL /\ h[s[i + 1]].id = i + 1
      /\ \A fd \in DOMAIN h : h[fd].id \in 1 .. n /\ fd = s[h[fd].id]
      /\ s = <<>> => first = NULL
      /\ s # <<>> => first = s[1] /\ first # NULL /\ n >= 1
  BY ListFacts
<1>2. s = <<>> => n = 0
  OBVIOUS
<1> HIDE DEF n
<1>3. e \in [1 .. n -> V] /\ \A i \in 1 .. n : e[i] = Entry(h[s[i]])
  OBVIOUS
<1> HIDE DEF e, V
<1>4. ASSUME NEW i \in 1 .. n
      PROVE  Rest(e, i, n) = <<Entry(h[s[i]])>> \o (IF i = n THEN <<>> ELSE Rest(e, i + 1, n))
  <2>1. Rest(e, i, n) = <<e[i]>> \o (IF i = n THEN <<>> ELSE Rest(e, i + 1, n))
    BY <1>1, <1>3, RestBefore
  <2>2. QED BY <1>3, <2>1
<1>5. B(w)
  <2>1. ASSUME NEW fd \in DOMAIN h
        PROVE  Rest(e, h[fd].id, n)
                 = <<[to |-> h[fd].to, opener |-> h[fd].opener]>>
                     \o (IF h[fd].next = NULL THEN <<>> ELSE w[h[fd].next])
    <3>1. PICK i \in 1 .. n : fd = s[i] /\ h[fd].id = i
      BY <1>1
    <3>2. Entry(h[s[i]]) = [to |-> h[fd].to, opener |-> h[fd].opener]
      BY <3>1 DEF Entry
    <3>3. (IF i = n THEN <<>> ELSE Rest(e, i + 1, n))
            = (IF h[fd].next = NULL THEN <<>> ELSE w[h[fd].next])
      <4>1. CASE i = n
        BY <1>1, <3>1, <4>1
      <4>2. CASE i # n
        <5>1. i < n
          BY <1>1, <4>2
        <5>2. w[s[i + 1]] = Rest(e, i + 1, n) /\ h[fd].next = s[i + 1] /\ s[i + 1] # NULL
          BY <1>1, <3>1, <5>1
        <5>3. QED BY <4>2, <5>2
      <4>3. QED BY <4>1, <4>2
    <3>4. QED BY <1>4, <3>1, <3>2, <3>3
  <2>2. QED BY <2>1
<1>6. B(g)
  <2> HIDE DEF B
  <2>1. QED BY <1>5
<1>7. \A fd \in DOMAIN h :
        g[fd] = <<Entry(h[fd])>> \o (IF h[fd].next = NULL THEN <<>> ELSE g[h[fd].next])
  <2> HIDE DEF g
  <2>1. QED BY <1>6 DEF Entry
<1> HIDE DEF g
<1> DEFINE P == {i \in 1 .. n : g[s[i]] = Rest(e, i, n)}
<1>8. n >= 1 => n \in P
  <2>1. SUFFICES ASSUME n >= 1 PROVE g[s[n]] = Rest(e, n, n)
    BY <1>1
  <2>2. n \in 1 .. n
    BY <1>1, <2>1
  <2>3. g[s[n]] = <<Entry(h[s[n]])>> \o <<>>
    BY <1>1, <1>7, <2>2
  <2>4. Rest(e, n, n) = <<Entry(h[s[n]])>> \o <<>>
    BY <1>4, <2>2
  <2>5. QED BY <2>3, <2>4
<1>9. ASSUME NEW i \in 1 .. n, i < n, i + 1 \in P PROVE i \in P
  <2>1. g[s[i + 1]] = Rest(e, i + 1, n) /\ i # n
    BY <1>1, <1>9
  <2>2. g[s[i]] = <<Entry(h[s[i]])>> \o g[s[i + 1]]
    <3>1. s[i] \in DOMAIN h /\ h[s[i]].next = s[i + 1] /\ s[i + 1] # NULL
      BY <1>1, <1>9
    <3>2. QED BY <1>7, <3>1
  <2>3. QED BY <1>4, <2>1, <2>2
<1>10. n >= 1 => 1 .. n \subseteq P
  <2> HIDE DEF P
  <2>1. QED BY <1>1, <1>8, <1>9, Backwards
<1>11. n >= 1 => g[s[1]] = Rest(e, 1, n)
  BY <1>1, <1>10
<1>12. TableOf(h, first) = IF first = NULL THEN <<>> ELSE g[first]
  BY DEF TableOf, g
<1>13. Rest(e, 1, n) = e
  <2>1. n - 1 + 1 = n /\ \A k \in 1 .. n : 1 + k - 1 = k
    BY <1>1
  <2>2. Rest(e, 1, n) = [k \in 1 .. n |-> e[k]]
    BY <2>1 DEF Rest
  <2>3. QED BY <1>3, <2>2
<1>14. n = 0 => e = <<>>
  BY DEF e
<1>15. TableOf(h, first) = e
  BY <1>1, <1>2, <1>11, <1>12, <1>13, <1>14
<1>16. QED BY <1>1, <1>15 DEF e, n

-----------------------------------------------------------------------------
(* A new descriptor *)

LEMMA AppendFacts ==
  ASSUME NEW V, NEW s \in Seq(V), NEW x
  PROVE  /\ Append(s, x) = [i \in 1 .. Len(s) + 1 |-> Append(s, x)[i]]
         /\ Append(s, x)[Len(s) + 1] = x
         /\ \A i \in 1 .. Len(s) : Append(s, x)[i] = s[i]
<1> DEFINE W == V \cup {x}
<1>1. s \in Seq(W) /\ x \in W
  OBVIOUS
<1> HIDE DEF W
<1>2. Append(s, x) \in Seq(W) /\ Len(Append(s, x)) = Len(s) + 1 /\ Append(s, x)[Len(s) + 1] = x
      /\ \A i \in 1 .. Len(s) : Append(s, x)[i] = s[i]
  BY <1>1
<1>3. PICK l \in Seq(W) : l = Append(s, x)
  BY <1>2
<1>4. l = [i \in 1 .. Len(l) |-> l[i]]
  OBVIOUS
<1>5. QED BY <1>2, <1>3, <1>4

\* Create_fd hangs the new cell behind the last one, under the next number.
LEMMA Lengthened ==
  ASSUME NEW s, ListOf(fds, first_fd, s), id_counter = Len(s) + 1,
         NEW cell \in Cells \ DOMAIN fds, NEW to, NEW opener, Create_fd(cell, to, opener)
  PROVE  /\ ListOf(fds', first_fd', Append(s, cell))
         /\ Append(s, cell) \in Seq(Cells)
         /\ id_counter' = Len(Append(s, cell)) + 1
         /\ Table' = Append(Table, [to |-> to, opener |-> opener])
         /\ Len(Table) = Len(s)
<1> DEFINE n == Len(s)
           t == Append(s, cell)
           m == n + 1
           new == [id |-> id_counter, to |-> to, opener |-> opener, next |-> NULL]
<1>1. /\ n \in Nat /\ s \in Seq(Cells)
      /\ \A i \in 1 .. n : s[i] \in DOMAIN fds /\ s[i] \in Cells /\ fds[s[i]].id = i
      /\ \A fd \in DOMAIN fds : fds[fd].id \in 1 .. n /\ fd = s[fds[fd].id]
      /\ \A i \in 1 .. n : i < n => fds[s[i]].next = s[i + 1]
      /\ \A i, j \in 1 .. n : s[i] = s[j] => i = j
      /\ \A i \in 1 .. n : fds[s[i]] = [id |-> i, to |-> fds[s[i]].to, opener |-> fds[s[i]].opener,
                                        next |-> fds[s[i]].next]
      /\ (s = <<>> => first_fd = NULL) /\ (s # <<>> => first_fd = s[1] /\ first_fd # NULL /\ n >= 1)
  <2>1. s \in Seq(Cells) /\ \A i, j \in 1 .. n : s[i] = s[j] => i = j
    BY DEF ListOf
  <2>2. QED BY <2>1, ListFacts
<1>2. s = <<>> <=> n = 0
  BY <1>1
<1>3. t \in Seq(Cells) /\ Len(t) = m /\ DOMAIN t = 1 .. m /\ t # <<>>
      /\ t[m] = cell /\ \A i \in 1 .. n : t[i] = s[i]
  BY <1>1
<1>4. ListEnd = s[n] \/ n = 0
  BY <1>1, <1>2, EndFound
<1> HIDE DEF n, t
<1>5. /\ DOMAIN fds' = DOMAIN fds \cup {cell}
      /\ fds'[cell] = new
      /\ \A fd \in DOMAIN fds : fds'[fd] = [fds[fd] EXCEPT !.next = NextOf(fd, cell)]
      /\ first_fd' = IF first_fd = NULL THEN cell ELSE first_fd
      /\ id_counter' = id_counter + 1 /\ id_counter = m
  BY DEF Create_fd, n
<1>6. ASSUME NEW i \in 1 .. n
      PROVE  /\ fds'[s[i]].id = i
             /\ fds'[s[i]].next = t[i + 1]
             /\ fds'[s[i]] = [id |-> i, to |-> fds'[s[i]].to, opener |-> fds'[s[i]].opener,
                             next |-> t[i + 1]]
             /\ Entry(fds'[s[i]]) = Entry(fds[s[i]])
  <2>1. s[i] \in DOMAIN fds /\ first_fd # NULL /\ ListEnd = s[n]
    BY <1>1, <1>2, <1>4
  <2>2. PICK next : next = NextOf(s[i], cell)
    OBVIOUS
  <2>3. fds'[s[i]] = [fds[s[i]] EXCEPT !.next = next]
    BY <1>5, <2>1, <2>2
  <2>4. next = t[i + 1]
    <3>1. CASE i = n
      BY <1>3, <2>1, <2>2, <3>1 DEF NextOf
    <3>2. CASE i # n
      <4>1. i < n /\ i + 1 \in 1 .. n /\ s[i] # s[n]
        BY <1>1, <3>2
      <4>2. QED BY <1>1, <1>3, <2>1, <2>2, <4>1 DEF NextOf
    <3>3. QED BY <3>1, <3>2
  <2>5. fds[s[i]] = [id |-> i, to |-> fds[s[i]].to, opener |-> fds[s[i]].opener,
                     next |-> fds[s[i]].next]
    BY <1>1
  <2>6. fds'[s[i]] = [id |-> i, to |-> fds[s[i]].to, opener |-> fds[s[i]].opener, next |-> next]
    BY <2>3, <2>5
  <2>7. fds'[s[i]].to = fds[s[i]].to /\ fds'[s[i]].opener = fds[s[i]].opener
    BY <2>6
  <2>8. QED BY <2>4, <2>6, <2>7 DEF Entry
<1>7. fds'[t[m]] = [id |-> m, to |-> to, opener |-> opener, next |-> NULL]
  BY <1>3, <1>5
<1>8. ASSUME NEW i \in 1 .. m
      PROVE  fds'[t[i]] = [id |-> i, to |-> fds'[t[i]].to, opener |-> fds'[t[i]].opener,
                           next |-> IF i < m THEN t[i + 1] ELSE NULL]
  <2>1. CASE i = m
    BY <1>1, <1>7, <2>1
  <2>2. CASE i # m
    <3>1. i \in 1 .. n /\ i < m
      BY <1>1, <2>2
    <3>2. QED BY <1>3, <1>6, <3>1
  <2>3. QED BY <2>1, <2>2
<1>9. ASSUME NEW i \in 1 .. m, NEW j \in 1 .. m, t[i] = t[j] PROVE i = j
  <2>1. \A k \in 1 .. m : k # m => k \in 1 .. n
    BY <1>1
  <2>2. \A k \in 1 .. n : t[k] # cell
    BY <1>1, <1>3
  <2>3. QED BY <1>1, <1>3, <1>9, <2>1, <2>2
<1>10. DOMAIN fds' = {t[i] : i \in 1 .. m}
  <2>1. m \in 1 .. m /\ \A i \in 1 .. n : i \in 1 .. m
    BY <1>1
  <2>2. \A k \in 1 .. m : k # m => k \in 1 .. n
    BY <1>1
  <2>3. DOMAIN fds' \subseteq {t[i] : i \in 1 .. m}
    BY <1>1, <1>3, <1>5, <2>1
  <2>4. {t[i] : i \in 1 .. m} \subseteq DOMAIN fds'
    BY <1>1, <1>3, <1>5, <2>2
  <2>5. QED BY <2>3, <2>4
<1>11. first_fd' = t[1]
  <2>1. CASE n = 0
    BY <1>1, <1>2, <1>3, <1>5, <2>1
  <2>2. CASE n # 0
    <3>1. 1 \in 1 .. n
      BY <1>1, <2>2
    <3>2. QED BY <1>1, <1>2, <1>3, <1>5, <2>2, <3>1
  <2>3. QED BY <2>1, <2>2
<1>12. ListOf(fds', first_fd', t)
  BY <1>3, <1>8, <1>9, <1>10, <1>11 DEF ListOf
<1>13. Table = [i \in 1 .. n |-> Entry(fds[s[i]])] /\ Table' = [i \in 1 .. m |-> Entry(fds'[t[i]])]
  <2>1. Table = TableOf(fds, first_fd) /\ Table' = TableOf(fds', first_fd')
    BY DEF Table, TableOf
  <2>2. TableOf(fds, first_fd) = [i \in 1 .. n |-> Entry(fds[s[i]])]
    BY TableFound DEF n
  <2>3. TableOf(fds', first_fd') = [i \in 1 .. m |-> Entry(fds'[t[i]])]
    BY <1>3, <1>12, TableFound
  <2>4. QED BY <2>1, <2>2, <2>3
<1>14. Table' = Append(Table, [to |-> to, opener |-> opener]) /\ Len(Table) = n
  <2> DEFINE last == [to |-> to, opener |-> opener]
             V == {Table[i] : i \in 1 .. n}
  <2>1. Entry(fds'[t[m]]) = last
    BY <1>7 DEF Entry
  <2>2. Table \in [1 .. n -> V]
    BY <1>13
  <2> HIDE DEF V, last
  <2>3. Table \in Seq(V) /\ Len(Table) = n
    BY <1>1, <2>2
  <2>4. /\ Append(Table, last) = [i \in 1 .. m |-> Append(Table, last)[i]]
        /\ Append(Table, last)[m] = last
        /\ \A i \in 1 .. n : Append(Table, last)[i] = Table[i]
    <3>1. PICK l \in Seq(V) : l = Table /\ Len(l) = n
      BY <2>3
    <3>2. /\ Append(l, last) = [i \in 1 .. Len(l) + 1 |-> Append(l, last)[i]]
          /\ Append(l, last)[Len(l) + 1] = last
          /\ \A i \in 1 .. Len(l) : Append(l, last)[i] = l[i]
      BY AppendFacts
    <3>3. QED BY <3>1, <3>2
  <2>5. \A i \in 1 .. m : Table'[i] = Append(Table, last)[i]
    <3>1. SUFFICES ASSUME NEW i \in 1 .. m PROVE Table'[i] = Append(Table, last)[i]
      OBVIOUS
    <3>2. Table'[i] = Entry(fds'[t[i]])
      BY <1>13
    <3>3. CASE i = m
      BY <2>1, <2>4, <3>2, <3>3
    <3>4. CASE i # m
      <4>1. i \in 1 .. n
        BY <1>1, <3>4
      <4>2. Table[i] = Entry(fds[s[i]]) /\ t[i] = s[i]
        BY <1>3, <1>13, <4>1
      <4>3. QED BY <1>6, <2>4, <3>2, <4>1, <4>2
    <3>5. QED BY <3>3, <3>4
  <2>6. Table' = Append(Table, last)
    BY <1>13, <2>4, <2>5
  <2>7. QED BY <2>3, <2>6 DEF last
<1>15. id_counter' = m + 1
  BY <1>1, <1>5
<1>16. QED BY <1>3, <1>12, <1>14, <1>15 DEF n, t

\* A number is a place in the table.
LEMMA Numbered ==
  ASSUME NEW s, ListOf(fds, first_fd, s), NEW id \in Nat
  PROVE  /\ Found(id) <=> id \in 1 .. Len(s)
         /\ Found(id) => Table[id] = Entry(fds[get_fd_from_id(id)])
         /\ DOMAIN Table = 1 .. Len(s)
<1>1. get_fd_from_id(id) = IF id \in 1 .. Len(s) THEN s[id] ELSE NULL
  BY NumberFound
<1>2. \A i \in 1 .. Len(s) : s[i] # NULL
  BY ListFacts
<1>3. Found(id) <=> id \in 1 .. Len(s)
  BY <1>1, <1>2 DEF Found
<1>4. Table = [i \in 1 .. Len(s) |-> Entry(fds[s[i]])]
  <2>1. Table = TableOf(fds, first_fd)
    BY DEF Table, TableOf
  <2>2. QED BY <2>1, TableFound
<1>5. QED BY <1>1, <1>3, <1>4

-----------------------------------------------------------------------------
(* The invariant *)

\* The descriptors are one list, numbered without a gap.
Listed == \E s \in Seq(Cells) : ListOf(fds, first_fd, s) /\ id_counter = Len(s) + 1

\* The inductive invariant: the list, and all that holds of the file tree.
CallInv == IInv /\ Listed

LEMMA ListSame ==
  ASSUME Listed, UNCHANGED fdVars
  PROVE  Listed' /\ Table' = Table
<1>1. UNCHANGED <<first_fd, fds, id_counter>>
  BY DEF fdVars
<1>2. Listed'
  <2>1. PICK s \in Seq(Cells) : ListOf(fds, first_fd, s) /\ id_counter = Len(s) + 1
    BY DEF Listed
  <2>2. ListOf(fds', first_fd', s) /\ id_counter' = Len(s) + 1
    BY <1>1, <2>1
  <2>3. QED BY <2>2 DEF Listed
<1>3. Table = TableOf(fds, first_fd) /\ Table' = TableOf(fds', first_fd')
  BY DEF Table, TableOf
<1>4. QED BY <1>1, <1>2, <1>3

LEMMA NewListed ==
  ASSUME Listed, FreeCells # {}, NEW to, NEW opener, Create_fd(NewCell, to, opener)
  PROVE  Listed'
<1>1. PICK s \in Seq(Cells) : ListOf(fds, first_fd, s) /\ id_counter = Len(s) + 1
  BY DEF Listed
<1>2. NewCell \in Cells \ DOMAIN fds
  BY DEF NewCell, FreeCells
<1>3. QED BY <1>1, <1>2, Lengthened DEF Listed

\* chmod changes neither the tree nor what is in its files.
LEMMA ChmodStep ==
  ASSUME IInv, NEW n \in DOMAIN node, NEW permissions \in Modes, chmod(n, permissions)
  PROVE  IInv'
<1>1. permissions \in [owner : SUBSET AllRights, group : SUBSET AllRights, other : SUBSET AllRights]
  BY SyscallAssumption
<1>2. /\ deleting = <<>> /\ node' = [node EXCEPT ![n].permissions = permissions]
      /\ UNCHANGED <<fs_root, buffer, deleting, leaked, machine>>
  BY DEF chmod, Idle
<1>3. QED BY <1>1, <1>2, PermissionsStep

LEMMA OpenedLinked ==
  ASSUME IInv, Ready, NEW path \in Paths, Opened(path) # NULL
  PROVE  Opened(path) \in DOMAIN node
<1>1. TypeOK /\ LinksAgree /\ RootInv /\ fs_root \in DOMAIN node
  BY DEF IInv, Ready, TypeOK
<1>2. path.tokens \in Seq(Names \cup {".", ".."})
  BY SyscallAssumption
<1>3. QED BY <1>1, <1>2, ResolveLinked DEF Opened

\* A call that makes no descriptor leaves the list; the tree keeps its invariant.
LEMMA HandledInv ==
  ASSUME CallInv, NEW caller, handle_syscall(caller)
  PROVE  CallInv'
<1>1. IInv /\ Listed
  BY DEF CallInv
<1>2. CASE UNCHANGED <<fsVars, fdVars>>
  <2>1. UNCHANGED fsVars /\ UNCHANGED fdVars
    BY <1>2
  <2>2. QED BY <1>1, <2>1, StutterStep, ListSame DEF CallInv
<1>3. CASE /\ machine' \in {"halted", "wild"}
           /\ UNCHANGED <<fs_root, node, buffer, deleting, leaked, fdVars>>
  BY <1>1, <1>3, StoppedStep, ListSame DEF CallInv
<1>4. ASSUME NEW path \in Paths, OpenMissing(caller, path) \/ Open(caller, path) \/ OpenOutOfMemory(path)
      PROVE  CallInv'
  <2>1. CASE OpenMissing(caller, path)
    BY <1>2, <2>1 DEF OpenMissing
  <2>2. CASE Open(caller, path)
    <3>1. Create_fd(NewCell, Opened(path), caller) /\ FreeCells # {} /\ UNCHANGED fsVars
      BY <2>2 DEF Open
    <3>2. QED BY <1>1, <3>1, StutterStep, NewListed DEF CallInv
  <2>3. CASE OpenOutOfMemory(path)
    BY <1>3, <2>3 DEF OpenOutOfMemory
  <2>4. QED BY <1>4, <2>1, <2>2, <2>3
<1>5. ASSUME NEW id \in Ids, NEW call \in {"read", "write"},
             Refused(call, caller, id) \/ CallFunction(call, caller, id)
      PROVE  CallInv'
  BY <1>2, <1>5 DEF Refused, CallFunction
<1>6. ASSUME NEW id \in Ids, ReadsFreed(caller, id) \/ ReadBeyond(caller, id)
      PROVE  CallInv'
  BY <1>3, <1>6 DEF ReadsFreed, ReadBeyond
<1>7. ASSUME NEW id \in Ids, NEW room \in Rooms, Read(caller, id, room)
      PROVE  CallInv'
  BY <1>2, <1>7 DEF Read
<1>8. ASSUME NEW id \in Ids, NEW bytes \in Contents \cup {Empty}, Write_fd(caller, id, bytes)
      PROVE  CallInv'
  <2>1. /\ Target(id) \in DOMAIN node /\ fs_write(Target(id), bytes) /\ UNCHANGED fdVars
    BY <1>8 DEF Write_fd, Usable, Allowed, InUse
  <2>2. QED BY <1>1, <2>1, WriteInv, ListSame DEF CallInv
<1>9. CASE OtherNumber(caller)
  BY <1>2, <1>9 DEF OtherNumber
<1>10. QED BY <1>4, <1>5, <1>6, <1>7, <1>8, <1>9 DEF handle_syscall

LEMMA CallStep ==
  ASSUME CallInv, [SyscallNext]_vars
  PROVE  CallInv'
<1>1. IInv /\ Listed
  BY DEF CallInv
<1>2. ASSUME NEW caller \in Callers, handle_syscall(caller) PROVE CallInv'
  BY <1>2, HandledInv
<1>3. ASSUME NEW caller \in Served, create_new_iofunc_fd(caller) PROVE CallInv'
  <2>1. Create_fd(NewCell, Function, caller) /\ FreeCells # {} /\ UNCHANGED fsVars
    BY <1>3 DEF create_new_iofunc_fd
  <2>2. QED BY <1>1, <2>1, StutterStep, NewListed DEF CallInv
<1>4. ASSUME NEW n \in Linked, NEW permissions \in Modes, chmod(n, permissions) PROVE CallInv'
  <2>1. n \in DOMAIN node /\ UNCHANGED fdVars
    BY <1>1, <1>4, LinkedNodes DEF chmod
  <2>2. QED BY <1>1, <1>4, <2>1, ChmodStep, ListSame DEF CallInv
<1>5. CASE TreeStep
  <2>1. Next /\ UNCHANGED fdVars
    BY <1>5 DEF TreeStep
  <2>2. QED BY <1>1, <2>1, StepInv, ListSame DEF CallInv
<1>6. CASE UNCHANGED vars
  <2>1. UNCHANGED fsVars /\ UNCHANGED fdVars
    BY <1>6 DEF vars
  <2>2. QED BY <1>1, <2>1, StutterStep, ListSame DEF CallInv
<1>7. QED BY <1>2, <1>3, <1>4, <1>5, <1>6 DEF SyscallNext

LEMMA InitCall == SyscallInit => CallInv
<1> SUFFICES ASSUME SyscallInit PROVE CallInv
  OBVIOUS
<1>1. IInv
  BY InitInv DEF SyscallInit
<1>2. first_fd = NULL /\ DOMAIN fds = {} /\ id_counter = 1
  BY DEF SyscallInit
<1>3. PICK s \in Seq(Cells) : s = <<>>
  <2>1. <<>> \in Seq(Cells)
    OBVIOUS
  <2>2. QED BY <2>1, Zenon
<1>4. Len(s) = 0 /\ DOMAIN s = {}
  BY <1>3
<1>5. ListOf(fds, first_fd, s)
  BY <1>2, <1>3, <1>4 DEF ListOf
<1>6. id_counter = Len(s) + 1
  BY <1>2, <1>4
<1>7. Listed
  BY <1>5, <1>6 DEF Listed
<1>8. QED BY <1>1, <1>7 DEF CallInv

-----------------------------------------------------------------------------
(* Theorems *)

\* Under any calls, chmod and changes of the tree, descriptors stay one list numbered
\* without a gap, and the tree keeps the invariant it has alone.
THEOREM CallInvariant == SyscallSpec => []CallInv
<1>1. SyscallInit => CallInv
  BY InitCall
<1>2. CallInv /\ [SyscallNext]_vars => CallInv'
  BY CallStep
<1>3. QED BY <1>1, <1>2, PTL DEF SyscallSpec

\* Writing one file leaves every other file's bytes, and the one written has the new ones.
LEMMA BytesWritten ==
  ASSUME IInv, NEW file \in DOMAIN node, NEW bytes \in Contents \cup {Empty}, fs_write(file, bytes)
  PROVE  /\ DOMAIN node' = DOMAIN node /\ machine = "up" /\ machine' \in {"up", "halted"}
         /\ \A n \in DOMAIN node : n # file /\ machine' = "up" => Bytes(n)' = Bytes(n)
         /\ machine' = "up" => Bytes(file)' = bytes
         /\ node[file].type = "file"
<1>1. TypeOK /\ LinksAgree /\ NothingLost
  BY DEF IInv
<1>2. /\ DOMAIN Kept(file) = DOMAIN buffer \ {node[file].data}
      /\ \A b \in DOMAIN Kept(file) : Kept(file)[b] = buffer[b]
  BY <1>1, KeptFields
<1>3. ASSUME NEW d \in Addr \cup {NULL}, node' = [node EXCEPT ![file].data = d],
             node[file].type = "file", machine = "up", machine' = "up",
             UNCHANGED <<fs_root, leaked>>,
             \A b \in DOMAIN Kept(file) : buffer'[b] = Kept(file)[b],
             bytes = IF d = NULL THEN Empty ELSE buffer'[d]
      PROVE  /\ DOMAIN node' = DOMAIN node
             /\ \A n \in DOMAIN node : n # file => Bytes(n)' = Bytes(n)
             /\ Bytes(file)' = bytes
  <2>1. /\ DOMAIN node' = DOMAIN node /\ node'[file].data = d
        /\ \A n \in DOMAIN node : n # file => node'[n] = node[n]
    BY <1>1, <1>3, DataLocal
  <2>2. ASSUME NEW n \in DOMAIN node, n # file, node[n].data # NULL
        PROVE  node[n].data \in DOMAIN Kept(file)
    <3>1. DOMAIN buffer = {node[m].data : m \in DOMAIN node} \ {NULL}
      BY <1>1, <1>3 DEF NothingLost
    <3>2. node[n].data # node[file].data
      BY <1>1, <2>2 DEF NothingLost
    <3>3. node[n].data \in DOMAIN buffer
      BY <2>2, <3>1
    <3>4. QED BY <1>2, <3>2, <3>3
  <2>3. ASSUME NEW n \in DOMAIN node, n # file PROVE Bytes(n)' = Bytes(n)
    <3>1. node'[n].data = node[n].data
      BY <2>1, <2>3
    <3>2. node[n].data # NULL => buffer'[node[n].data] = buffer[node[n].data]
      BY <1>2, <1>3, <2>2, <2>3
    <3>3. QED BY <3>1, <3>2 DEF Bytes
  <2>4. Bytes(file)' = bytes
    BY <1>3, <2>1 DEF Bytes
  <2>5. QED BY <2>1, <2>3, <2>4
<1>4. CASE bytes = Empty /\ Erase(file)
  <2>1. /\ node[file].type = "file" /\ machine = "up" /\ buffer' = Kept(file)
        /\ node' = [node EXCEPT ![file].data = NULL] /\ UNCHANGED <<fs_root, leaked, machine>>
    BY <1>4 DEF Erase, Idle
  <2>2. QED BY <1>3, <1>4, <2>1
<1>5. ASSUME NEW a \in Addr, Write(a, file, bytes)
      PROVE  /\ DOMAIN node' = DOMAIN node /\ machine = "up" /\ machine' = "up"
             /\ \A n \in DOMAIN node : n # file => Bytes(n)' = Bytes(n)
             /\ Bytes(file)' = bytes
             /\ node[file].type = "file"
  <2>1. /\ node[file].type = "file" /\ machine = "up" /\ buffer' = Store(Kept(file), a, bytes)
        /\ a \in MallocMay(Addr \ (DOMAIN node \cup DOMAIN Kept(file)))
        /\ node' = [node EXCEPT ![file].data = a] /\ UNCHANGED <<fs_root, leaked, machine>>
    BY <1>5 DEF Write, Idle
  <2>2. a \notin DOMAIN Kept(file)
    <3>1. PICK S : S = DOMAIN node \cup DOMAIN Kept(file)
      OBVIOUS
    <3>2. a \in Addr \ S
      BY <1>1, <2>1, <3>1, FreshBuffer
    <3>3. QED BY <3>1, <3>2
  <2>3. buffer'[a] = bytes /\ \A b \in DOMAIN Kept(file) : buffer'[b] = Kept(file)[b]
    BY <2>1, <2>2 DEF Store
  <2>4. a # NULL
    BY FileTreeAssumption
  <2>5. QED BY <1>3, <2>1, <2>3, <2>4
<1>6. CASE WriteOutOfMemory(file)
  BY <1>6 DEF WriteOutOfMemory, Idle
<1>7. CASE \E a \in Addr : Write(a, file, bytes)
  <2>1. PICK a \in Addr : Write(a, file, bytes)
    BY <1>7
  <2>2. /\ DOMAIN node' = DOMAIN node /\ machine = "up" /\ machine' = "up"
        /\ \A n \in DOMAIN node : n # file => Bytes(n)' = Bytes(n)
        /\ Bytes(file)' = bytes
        /\ node[file].type = "file"
    BY <1>5, <2>1
  <2>3. QED BY <2>2
<1>8. QED BY <1>4, <1>6, <1>7 DEF fs_write

\* Fields of an answer.
LEMMA AnswerFields ==
  ASSUME NEW call, NEW caller, NEW id, NEW errs
  PROVE  /\ Answer(call, caller, id, errs).call = call
         /\ Answer(call, caller, id, errs).caller = caller
         /\ Answer(call, caller, id, errs).id = id
         /\ Answer(call, caller, id, errs).errs = errs
         /\ Answer(call, caller, id, errs).bytes = <<>>
BY DEF Answer

\* A right is asked for whenever bytes are changed or shown.
LEMMA RightsStep ==
  ASSUME CallInv, SyscallNext, NEW n \in Addr, answer' # NoAnswer, Touched(n)
  PROVE  node[n].type = "file" /\ "w" \in Rights(n, answer'.caller.user)
<1>1. IInv /\ n \in DOMAIN node
  BY DEF CallInv, Touched
<1>2. ASSUME UNCHANGED fsVars, answer'.call # "read" \/ answer'.bytes = <<>> PROVE FALSE
  <2>1. Bytes(n)' = Bytes(n)
    BY <1>2 DEF fsVars, Bytes
  <2>2. QED BY <1>2, <2>1 DEF Touched
<1>3. PICK caller \in Callers : handle_syscall(caller)
  BY DEF SyscallNext, create_new_iofunc_fd, chmod, TreeStep
<1>4. ASSUME NEW path \in Paths, OpenMissing(caller, path) \/ Open(caller, path) \/ OpenOutOfMemory(path)
      PROVE  FALSE
  BY <1>2, <1>4 DEF OpenMissing, Open, OpenOutOfMemory, Answer
<1>5. ASSUME NEW id \in Ids, NEW call \in {"read", "write"},
             Refused(call, caller, id) \/ CallFunction(call, caller, id)
      PROVE  FALSE
  BY <1>2, <1>5 DEF Refused, CallFunction, Answer
<1>6. ASSUME NEW id \in Ids, ReadsFreed(caller, id) \/ ReadBeyond(caller, id)
      PROVE  FALSE
  BY <1>6 DEF ReadsFreed, ReadBeyond
<1>7. CASE OtherNumber(caller)
  BY <1>2, <1>7 DEF OtherNumber, Answer
<1>8. ASSUME NEW id \in Ids, Usable(id, caller), n = Target(id), answer'.caller = caller
      PROVE  node[n].type = "file" /\ "w" \in Rights(n, answer'.caller.user)
  BY <1>8 DEF Usable, Allowed
<1>9. ASSUME NEW id \in Ids, NEW room \in Rooms, Read(caller, id, room)
      PROVE  node[n].type = "file" /\ "w" \in Rights(n, answer'.caller.user)
  <2>1. Usable(id, caller) /\ UNCHANGED fsVars
    BY <1>9 DEF Read
  <2>2. answer'.id = id /\ answer'.caller = caller
    BY <1>9 DEF Read, Answer
  <2>3. n = Target(id)
    <3>1. Bytes(n)' = Bytes(n)
      BY <2>1 DEF fsVars, Bytes
    <3>2. QED BY <2>2, <3>1 DEF Touched
  <2>4. QED BY <1>8, <2>1, <2>2, <2>3
<1>10. ASSUME NEW id \in Ids, NEW bytes \in Contents \cup {Empty}, Write_fd(caller, id, bytes)
       PROVE  node[n].type = "file" /\ "w" \in Rights(n, answer'.caller.user)
  <2>1. Usable(id, caller) /\ fs_write(Target(id), bytes) /\ Target(id) \in DOMAIN node
    BY <1>10 DEF Write_fd, Usable, Allowed, InUse
  <2>2. machine' # "halted" /\ answer'.call = "write" /\ answer'.caller = caller
    BY <1>10 DEF Write_fd, Answer
  <2>3. machine' = "up" /\ \A m \in DOMAIN node : m # Target(id) => Bytes(m)' = Bytes(m)
    BY <1>1, <2>1, <2>2, BytesWritten
  <2>4. n = Target(id)
    BY <1>1, <2>2, <2>3 DEF Touched
  <2>5. QED BY <1>8, <2>1, <2>2, <2>4
<1>11. QED BY <1>3, <1>4, <1>5, <1>6, <1>7, <1>9, <1>10 DEF handle_syscall

\* Bytes are changed or shown only to one who may write the file at that moment, though the
\* descriptor was made earlier, the right may have gone since, and the node may be another's.
THEOREM RightsAlwaysAsked == SyscallSpec => RightsAskedAtUse
<1>1. CallInv /\ [SyscallNext]_vars
        => [\A n \in Addr : answer' # NoAnswer /\ Touched(n) =>
              node[n].type = "file" /\ "w" \in Rights(n, answer'.caller.user)]_vars
  BY RightsStep
<1>2. QED BY <1>1, CallInvariant, PTL DEF SyscallSpec, RightsAskedAtUse

-----------------------------------------------------------------------------
(* The table the list stands for *)

Files == [n \in IF machine = "up" THEN DOMAIN node ELSE {} |-> Bytes(n)]

LEMMA TableSeq ==
  ASSUME Listed
  PROVE  \E V : Table \in Seq(V)
<1>1. PICK s \in Seq(Cells) : ListOf(fds, first_fd, s)
  BY DEF Listed
<1>2. Table = [i \in 1 .. Len(s) |-> Entry(fds[s[i]])] /\ Len(s) \in Nat
  <2>1. Table = TableOf(fds, first_fd)
    BY DEF Table, TableOf
  <2>2. QED BY <1>1, <2>1, TableFound
<1>3. PICK n \in Nat : n = Len(s)
  BY <1>2
<1> DEFINE V == {Table[i] : i \in 1 .. n}
<1>4. Table \in [1 .. n -> V]
  BY <1>2, <1>3
<1> HIDE DEF V
<1>5. Table \in Seq(V)
  BY <1>4
<1>6. QED BY <1>5

LEMMA AppendFront ==
  ASSUME NEW V, NEW s \in Seq(V), NEW x
  PROVE  /\ Len(Append(s, x)) = Len(s) + 1
         /\ SubSeq(Append(s, x), 1, Len(s)) = s
         /\ Append(s, x)[Len(s) + 1] = x
<1> DEFINE W == V \cup {x}
<1>1. s \in Seq(W) /\ x \in W
  OBVIOUS
<1> HIDE DEF W
<1>2. PICK l \in Seq(W) : l = Append(s, x)
  <2>1. Append(s, x) \in Seq(W)
    BY <1>1
  <2>2. QED BY <2>1
<1>3. Len(l) = Len(s) + 1 /\ l[Len(s) + 1] = x /\ \A i \in 1 .. Len(s) : l[i] = s[i]
  BY <1>1, <1>2
<1>4. SubSeq(l, 1, Len(s)) = s
  BY <1>1, <1>3
<1>5. QED BY <1>2, <1>3, <1>4

\* A step that answers nobody makes no descriptor.
LEMMA ElsewhereIs ==
  ASSUME answer' = NoAnswer, Table' = Table
  PROVE  Promised!Next
BY DEF Promised!Next, Promised!Elsewhere

LEMMA MadeIs ==
  ASSUME CallInv, FreeCells # {}, NEW to, NEW opener, Create_fd(NewCell, to, opener), UNCHANGED fsVars,
         \/ to = Function /\ answer' = NoAnswer
         \/ /\ to \in DOMAIN node /\ machine = "up"
            /\ answer' = [Answer("open", opener, 0, "OK") EXCEPT !.rax = id_counter]
  PROVE  Promised!Next
<1>1. PICK s \in Seq(Cells) : ListOf(fds, first_fd, s) /\ id_counter = Len(s) + 1
  BY DEF CallInv, Listed
<1>2. NewCell \in Cells \ DOMAIN fds
  BY DEF NewCell, FreeCells
<1> DEFINE new == [to |-> to, opener |-> opener]
<1>3. Table' = Append(Table, new) /\ Len(Table) = Len(s)
  BY <1>1, <1>2, Lengthened
<1>4. PICK V : Table \in Seq(V)
  BY TableSeq DEF CallInv
<1> HIDE DEF new
<1>5. /\ Len(Table') = Len(Table) + 1
      /\ SubSeq(Table', 1, Len(Table)) = Table
      /\ Table'[Len(Table')] = new
  BY <1>3, <1>4, AppendFront
<1>6. Files' = Files
  BY DEF Files, fsVars, Bytes
<1>7. new.to = to /\ new.opener = opener
  BY DEF new
<1>8. \/ new.to = Function /\ answer' = NoAnswer
      \/ /\ new.to \in DOMAIN Files
         /\ answer'.call = "open" /\ answer'.errs = "OK"
         /\ answer'.rax = Len(Table') /\ answer'.caller = new.opener
  <2>1. CASE to = Function /\ answer' = NoAnswer
    BY <1>7, <2>1
  <2>2. CASE /\ to \in DOMAIN node /\ machine = "up"
             /\ answer' = [Answer("open", opener, 0, "OK") EXCEPT !.rax = id_counter]
    <3>1. answer'.call = "open" /\ answer'.errs = "OK" /\ answer'.rax = id_counter
          /\ answer'.caller = opener
      BY <2>2 DEF Answer
    <3>2. DOMAIN Files = DOMAIN node
      BY <2>2 DEF Files
    <3>3. QED BY <1>1, <1>3, <1>5, <1>7, <2>2, <3>1, <3>2
  <2>3. QED BY <2>1, <2>2
<1>9. Promised!Make
  BY <1>5, <1>6, <1>8 DEF Promised!Make, Files
<1>10. QED BY <1>9 DEF Promised!Next

\* What the list knows of a number, the table knows.
LEMMA TableKnows ==
  ASSUME Listed, NEW id \in Ids
  PROVE  /\ Found(id) <=> id \in DOMAIN Table
         /\ Found(id) => Table[id].to = Target(id)
                         /\ Table[id].opener = fds[get_fd_from_id(id)].opener
<1>1. PICK s \in Seq(Cells) : ListOf(fds, first_fd, s)
  BY DEF Listed
<1>2. id \in Nat
  BY SyscallAssumption
<1>3. Found(id) => Table[id] = Entry(fds[get_fd_from_id(id)])
  BY <1>1, <1>2, Numbered
<1>4. Found(id) <=> id \in DOMAIN Table
  BY <1>1, <1>2, Numbered
<1>5. QED BY <1>3, <1>4 DEF Entry, Target

LEMMA RefusedIs ==
  ASSUME CallInv, NEW caller, NEW call \in {"read", "write"}, NEW id \in Ids,
         Refused(call, caller, id)
  PROVE  Promised!Next
<1>1. PICK errs \in {"FD_NOT_FOUND", "PERMISSION_DENIED", "ILLEGAL_MODE"} :
        Refusal(id, caller, errs) /\ answer' = Answer(call, caller, id, errs)
  BY DEF Refused
<1>2. UNCHANGED fsVars /\ Table' = Table /\ Files' = Files
  <2>1. UNCHANGED fsVars /\ UNCHANGED fdVars
    BY DEF Refused
  <2>2. Files' = Files
    BY <2>1 DEF Files, fsVars, Bytes
  <2>3. QED BY <2>1, <2>2, ListSame DEF CallInv
<1>3. answer'.call = call /\ answer'.errs = errs /\ answer'.id = id
  BY <1>1 DEF Answer
<1>4. errs = "FD_NOT_FOUND" <=> ~Found(id)
  BY <1>1 DEF Refusal, Own, Allowed, InUse
<1>5. errs = "FD_NOT_FOUND" <=> id \notin DOMAIN Table
  BY <1>4, TableKnows DEF CallInv
<1>6. Promised!Refuse
  BY <1>1, <1>2, <1>3, <1>5 DEF Promised!Refuse, Files
<1>7. CASE answer' = NoAnswer
  BY <1>2, <1>7, ElsewhereIs
<1>8. QED BY <1>6, <1>7 DEF Promised!Next

\* A call with another number, or one that finds no file, is refused as well.
LEMMA OtherIs ==
  ASSUME CallInv, UNCHANGED <<fsVars, fdVars>>, NEW caller,
         \/ answer' = Answer("open", caller, 0, "FILE_NOT_FOUND")
         \/ answer' = Answer("other", caller, 0, "ILLEGAL_OPERATION")
  PROVE  Promised!Next
<1>1. Table' = Table /\ Files' = Files
  <2>1. UNCHANGED fsVars /\ UNCHANGED fdVars
    OBVIOUS
  <2>2. Files' = Files
    BY <2>1 DEF Files, fsVars, Bytes
  <2>3. QED BY <2>1, <2>2, ListSame DEF CallInv
<1>2. answer'.call \in {"open", "other"} /\ answer'.errs \in {"FILE_NOT_FOUND", "ILLEGAL_OPERATION"}
  BY DEF Answer
<1>3. Promised!Refuse
  BY <1>1, <1>2 DEF Promised!Refuse, Files
<1>4. CASE answer' = NoAnswer
  BY <1>1, <1>4, ElsewhereIs
<1>5. QED BY <1>3, <1>4 DEF Promised!Next

LEMMA CopiedFacts ==
  ASSUME NEW V, NEW bytes \in Seq(V), NEW room \in Nat, room > 0
  PROVE  /\ Len(Copied(bytes, room)) < room
         /\ Copied(bytes, room) = SubSeq(bytes, 1, Len(Copied(bytes, room)))
         /\ Len(Copied(bytes, room)) = Len(bytes) \/ Len(Copied(bytes, room)) + 1 = room
<1>1. PICK n \in Nat : n = Len(bytes)
  OBVIOUS
<1>2. PICK k \in 0 .. n : k = (IF n < room THEN n ELSE room - 1)
  <2>1. (IF n < room THEN n ELSE room - 1) \in 0 .. n
    BY <1>1
  <2>2. QED BY <2>1
<1>3. Copied(bytes, room) = SubSeq(bytes, 1, k)
  BY <1>1, <1>2 DEF Copied
<1>4. Len(SubSeq(bytes, 1, k)) = k
  BY <1>1, <1>2
<1>5. k < room /\ (k = n \/ k + 1 = room)
  BY <1>1, <1>2
<1>6. QED BY <1>1, <1>3, <1>4, <1>5

\* The bytes of a file are a sequence.
LEMMA BytesSeq ==
  ASSUME IInv, machine = "up", NEW n \in DOMAIN node
  PROVE  \E V : Bytes(n) \in Seq(V)
<1>1. TypeOK /\ NothingLost
  BY DEF IInv
<1>2. CASE node[n].data = NULL
  <2>1. <<>> \in Seq({})
    OBVIOUS
  <2>2. Bytes(n) = <<>>
    BY <1>2, SyscallAssumption DEF Bytes
  <2>3. QED BY <2>1, <2>2
<1>3. CASE node[n].data # NULL
  <2>1. DOMAIN buffer = {node[m].data : m \in DOMAIN node} \ {NULL}
    BY <1>1 DEF NothingLost
  <2>2. node[n].data \in DOMAIN buffer
    BY <1>3, <2>1
  <2>3. Bytes(n) \in Contents
    BY <1>1, <1>3, <2>2 DEF Bytes, TypeOK
  <2>4. QED BY <2>3, SyscallAssumption
<1>4. QED BY <1>2, <1>3

LEMMA ReadIs ==
  ASSUME CallInv, NEW caller, NEW id \in Ids, NEW room \in Rooms, Read(caller, id, room)
  PROVE  Promised!Next
<1>1. IInv /\ Listed /\ room \in Nat
  BY SyscallAssumption DEF CallInv
<1>2. UNCHANGED fsVars /\ Table' = Table /\ Files' = Files
  <2>1. UNCHANGED fsVars /\ UNCHANGED fdVars
    BY DEF Read
  <2>2. Files' = Files
    BY <2>1 DEF Files, fsVars, Bytes
  <2>3. QED BY <1>1, <2>1, <2>2, ListSame
<1>3. /\ machine = "up" /\ Target(id) \in DOMAIN node /\ Found(id)
      /\ fds[get_fd_from_id(id)].opener = caller
  BY DEF Read, Usable, Ready, Idle, Allowed, InUse, Own
<1> DEFINE bytes == Bytes(Target(id))
           got == IF bytes = <<>> THEN <<>> ELSE Copied(bytes, room)
<1>4. /\ bytes # <<>> => room > 0
      /\ answer' = [Answer("read", caller, id, "OK") EXCEPT !.rax = Len(got), !.bytes = got, !.room = room]
  BY DEF Read
<1>5. PICK V : bytes \in Seq(V)
  BY <1>1, <1>3, BytesSeq
<1>6. Files[Target(id)] = bytes
  BY <1>3 DEF Files
<1> HIDE DEF bytes
<1>7. /\ bytes # <<>> => Len(got) < room
      /\ got = SubSeq(bytes, 1, Len(got))
      /\ Len(got) = Len(bytes) \/ Len(got) + 1 = room
  <2>1. CASE bytes = <<>>
    <3>1. Len(got) = 0 /\ got = <<>>
      BY <2>1
    <3>2. SubSeq(bytes, 1, 0) = <<>>
      BY <2>1
    <3>3. QED BY <2>1, <3>1, <3>2
  <2>2. CASE bytes # <<>>
    BY <1>1, <1>4, <1>5, <2>2, CopiedFacts
  <2>3. QED BY <2>1, <2>2
<1> HIDE DEF got
<1>8. /\ answer'.call = "read" /\ answer'.errs = "OK" /\ answer'.id = id /\ answer'.caller = caller
      /\ answer'.bytes = got /\ answer'.room = room /\ answer'.rax = Len(got)
  BY <1>4 DEF Answer
<1>9. id \in DOMAIN Table /\ Table[id].opener = caller /\ Table[id].to = Target(id)
  BY <1>1, <1>3, TableKnows
<1>10. Promised!Read
  BY <1>2, <1>6, <1>7, <1>8, <1>9 DEF Promised!Read, Promised!Own, Files
<1>11. CASE answer' = NoAnswer
  BY <1>2, <1>11, ElsewhereIs
<1>12. QED BY <1>10, <1>11 DEF Promised!Next

LEMMA WriteIs ==
  ASSUME CallInv, NEW caller, NEW id \in Ids, NEW bytes \in Contents \cup {Empty},
         Write_fd(caller, id, bytes)
  PROVE  Promised!Next
<1>1. IInv /\ Listed
  BY DEF CallInv
<1>2. PICK n : n = Target(id)
  OBVIOUS
<1>3. /\ n \in DOMAIN node /\ Found(id) /\ fds[get_fd_from_id(id)].opener = caller
      /\ fs_write(n, bytes) /\ UNCHANGED fdVars
      /\ answer' = IF machine' = "halted" THEN NoAnswer
                   ELSE [Answer("write", caller, id, "OK") EXCEPT !.bytes = bytes]
  BY <1>2 DEF Write_fd, Usable, Allowed, InUse, Own
<1>4. /\ DOMAIN node' = DOMAIN node /\ machine = "up" /\ machine' \in {"up", "halted"}
      /\ \A k \in DOMAIN node : k # n /\ machine' = "up" => Bytes(k)' = Bytes(k)
      /\ machine' = "up" => Bytes(n)' = bytes
  BY <1>1, <1>3, BytesWritten
<1>5. Table' = Table
  BY <1>1, <1>3, ListSame
<1>6. CASE answer' = NoAnswer
  BY <1>5, <1>6, ElsewhereIs
<1>7. CASE answer' # NoAnswer
  <2>1. machine' = "up" /\ answer' = [Answer("write", caller, id, "OK") EXCEPT !.bytes = bytes]
    BY <1>3, <1>4, <1>7
  <2>2. /\ answer'.call = "write" /\ answer'.errs = "OK" /\ answer'.id = id
        /\ answer'.caller = caller /\ answer'.bytes = bytes
    BY <2>1 DEF Answer
  <2>3. Files = [k \in DOMAIN node |-> Bytes(k)] /\ Files' = [k \in DOMAIN node |-> Bytes(k)']
    BY <1>4, <2>1 DEF Files
  <2>4. Files' = [Files EXCEPT ![n] = bytes]
    BY <1>3, <1>4, <2>1, <2>3
  <2>5. id \in DOMAIN Table /\ Table[id].opener = caller /\ Table[id].to = n
    BY <1>1, <1>2, <1>3, TableKnows
  <2>6. n # Function
    BY <1>1, <1>3, SyscallAssumption DEF IInv, TypeOK
  <2>7. Promised!Write
    BY <1>5, <2>2, <2>4, <2>5, <2>6 DEF Promised!Write, Promised!Own, Files
  <2>8. QED BY <1>7, <2>7 DEF Promised!Next
<1>8. QED BY <1>6, <1>7

LEMMA FunctionIs ==
  ASSUME CallInv, NEW caller, NEW call \in {"read", "write"}, NEW id \in Ids,
         CallFunction(call, caller, id)
  PROVE  Promised!Next
<1>1. UNCHANGED fsVars /\ Table' = Table /\ Files' = Files
  <2>1. UNCHANGED fsVars /\ UNCHANGED fdVars
    BY DEF CallFunction
  <2>2. Files' = Files
    BY <2>1 DEF Files, fsVars, Bytes
  <2>3. QED BY <2>1, <2>2, ListSame DEF CallInv
<1>2. Found(id) /\ fds[get_fd_from_id(id)].opener = caller /\ Target(id) = Function
  BY DEF CallFunction, Own
<1>3. id \in DOMAIN Table /\ Table[id].opener = caller /\ Table[id].to = Function
  BY <1>2, TableKnows DEF CallInv
<1>4. answer'.call = call /\ answer'.errs = "OK" /\ answer'.id = id /\ answer'.caller = caller
  BY DEF CallFunction, Answer
<1>5. CASE answer' = NoAnswer
  BY <1>1, <1>5, ElsewhereIs
<1>6. CASE answer' # NoAnswer /\ call = "read"
  <2>1. Promised!Read
    BY <1>1, <1>3, <1>4, <1>6 DEF Promised!Read, Promised!Own, Files
  <2>2. QED BY <1>6, <2>1 DEF Promised!Next
<1>7. CASE answer' # NoAnswer /\ call = "write"
  <2>1. Promised!Write
    BY <1>1, <1>3, <1>4, <1>7 DEF Promised!Write, Promised!Own, Files
  <2>2. QED BY <1>7, <2>1 DEF Promised!Next
<1>8. QED BY <1>5, <1>6, <1>7

LEMMA HandledIs ==
  ASSUME CallInv, NEW caller, handle_syscall(caller)
  PROVE  Promised!Next
<1>1. ASSUME answer' = NoAnswer, UNCHANGED fdVars PROVE Promised!Next
  BY <1>1, ListSame, ElsewhereIs DEF CallInv
<1>2. ASSUME NEW path \in Paths, OpenMissing(caller, path) \/ Open(caller, path) \/ OpenOutOfMemory(path)
      PROVE  Promised!Next
  <2>1. CASE OpenMissing(caller, path)
    BY <2>1, OtherIs DEF OpenMissing
  <2>2. CASE Open(caller, path)
    <3>1. PICK to : to = Opened(path)
      OBVIOUS
    <3>2. to \in DOMAIN node /\ machine = "up"
      BY <1>2, <2>2, <3>1, OpenedLinked DEF CallInv, Open, Ready, Idle
    <3>3. /\ Create_fd(NewCell, to, caller) /\ FreeCells # {} /\ UNCHANGED fsVars
          /\ answer' = [Answer("open", caller, 0, "OK") EXCEPT !.rax = id_counter]
      BY <2>2, <3>1 DEF Open
    <3>4. QED BY <3>2, <3>3, MadeIs
  <2>3. CASE OpenOutOfMemory(path)
    BY <1>1, <2>3 DEF OpenOutOfMemory
  <2>4. QED BY <1>2, <2>1, <2>2, <2>3
<1>3. ASSUME NEW id \in Ids, ReadsFreed(caller, id) \/ ReadBeyond(caller, id)
      PROVE  Promised!Next
  BY <1>1, <1>3 DEF ReadsFreed, ReadBeyond
<1>4. CASE OtherNumber(caller)
  BY <1>4, OtherIs DEF OtherNumber
<1>5. QED BY <1>2, <1>3, <1>4, RefusedIs, FunctionIs, ReadIs, WriteIs DEF handle_syscall

\* The list is the table syscall.h speaks of: it only grows, a number leads to what was
\* opened under it, by the caller it was opened for, and what is read fits the buffer.
THEOREM CallsImplement == SyscallSpec => ImplementsDescriptors
<1>1. SyscallInit => Promised!Init
  <2>1. SUFFICES ASSUME SyscallInit PROVE Table = <<>> /\ answer = NoAnswer
    BY DEF Promised!Init
  <2>2. QED BY <2>1 DEF SyscallInit, Table
<1>2. CallInv /\ [SyscallNext]_vars => [Promised!Next]_(Promised!vars)
  <2> SUFFICES ASSUME CallInv, [SyscallNext]_vars PROVE [Promised!Next]_(Promised!vars)
    OBVIOUS
  <2>1. ASSUME answer' = NoAnswer, UNCHANGED fdVars PROVE Promised!Next
    BY <2>1, ListSame, ElsewhereIs DEF CallInv
  <2>2. ASSUME NEW caller \in Callers, handle_syscall(caller) PROVE Promised!Next
    BY <2>2, HandledIs
  <2>3. ASSUME NEW caller \in Served, create_new_iofunc_fd(caller) PROVE Promised!Next
    BY <2>3, MadeIs DEF create_new_iofunc_fd
  <2>4. ASSUME NEW n \in Linked, NEW permissions \in Modes, chmod(n, permissions) PROVE Promised!Next
    BY <2>1, <2>4 DEF chmod
  <2>5. CASE TreeStep
    BY <2>1, <2>5 DEF TreeStep
  <2>6. CASE UNCHANGED vars
    <3>1. UNCHANGED fsVars /\ UNCHANGED fdVars /\ answer' = answer
      BY <2>6 DEF vars
    <3>2. Table' = Table /\ Files' = Files
      <4>1. Files' = Files
        BY <3>1 DEF Files, fsVars, Bytes
      <4>2. QED BY <3>1, <4>1, ListSame DEF CallInv
    <3>3. QED BY <3>1, <3>2 DEF Promised!vars, Files
  <2>7. QED BY <2>2, <2>3, <2>4, <2>5, <2>6 DEF SyscallNext
<1>3. QED BY <1>1, <1>2, CallInvariant, PTL DEF SyscallSpec, ImplementsDescriptors, Promised!Spec
=============================================================================
