--------------------------- MODULE FileTreeProofs ----------------------------
(***************************************************************************)
(* Proofs about the file tree, for every heap, set of names and contents.  *)
(*                                                                         *)
(* What is reachable from a node is the least set that contains it and is  *)
(* closed under children, so a fact about it is shown with a set of nodes  *)
(* that is closed.  The lemmas of the first part are about any graph K, a  *)
(* function from nodes to the sets of their children.                      *)
(***************************************************************************)
EXTENDS FileTree, TLAPS, WellFoundedInduction

From(K, r) ==
  {n \in DOMAIN K :
     \A S \in SUBSET DOMAIN K : (r \in S /\ \A m \in S : K[m] \subseteq S) => n \in S}

\* Nobody has two parents.
OneParent(K) == \A m, n \in DOMAIN K : \A c \in K[m] \cap K[n] : m = n

NoChild(K, r) == \A n \in DOMAIN K : r \notin K[n]

LEMMA FromClosed ==
  ASSUME NEW D, NEW K \in [D -> SUBSET D], NEW r \in D
  PROVE  /\ From(K, r) \subseteq D
         /\ r \in From(K, r)
         /\ \A m \in From(K, r) : K[m] \subseteq From(K, r)
<1>1. From(K, r) \subseteq D /\ r \in From(K, r)
  BY DEF From
<1>2. ASSUME NEW m \in From(K, r), NEW c \in K[m] PROVE c \in From(K, r)
  <2>1. SUFFICES ASSUME NEW S \in SUBSET D, r \in S, \A n \in S : K[n] \subseteq S
                 PROVE  c \in S
    BY <1>1 DEF From
  <2>2. m \in S
    BY <2>1 DEF From
  <2>3. QED BY <2>1, <2>2
<1>3. QED BY <1>1, <1>2

LEMMA FromLeast ==
  ASSUME NEW D, NEW K \in [D -> SUBSET D], NEW r \in D,
         NEW S \in SUBSET D, r \in S, \A m \in S : K[m] \subseteq S
  PROVE  From(K, r) \subseteq S
BY DEF From

\* Whatever is reached is the root or the child of something reached.
LEMMA FromAbove ==
  ASSUME NEW D, NEW K \in [D -> SUBSET D], NEW r \in D, NEW x \in From(K, r), x # r
  PROVE  \E m \in From(K, r) : x \in K[m]
<1>1. SUFFICES ASSUME \A m \in From(K, r) : x \notin K[m] PROVE FALSE
  OBVIOUS
<1> DEFINE S == From(K, r) \ {x}
<1>2. S \in SUBSET D /\ r \in S /\ \A m \in S : K[m] \subseteq S
  BY <1>1, FromClosed
<1>3. From(K, r) \subseteq S
  <2> HIDE DEF S
  <2>1. QED BY <1>2, FromLeast
<1>4. QED BY <1>3

\* Two nodes that are nobody's children reach nothing in common.
LEMMA FromApart ==
  ASSUME NEW D, NEW K \in [D -> SUBSET D], OneParent(K), NEW r \in D, NEW s \in D, r # s,
         NoChild(K, r), NoChild(K, s)
  PROVE  From(K, r) \cap From(K, s) = {}
<1> DEFINE S == From(K, r) \ From(K, s)
<1>1. r \notin From(K, s)
  <2>1. SUFFICES ASSUME r \in From(K, s) PROVE FALSE
    OBVIOUS
  <2>2. PICK m \in From(K, s) : r \in K[m]
    BY <2>1, FromAbove
  <2>3. QED BY <2>2, FromClosed DEF NoChild
<1>2. ASSUME NEW m \in S, NEW c \in K[m] PROVE c \in S
  <2>1. c \in From(K, r) /\ m \in D /\ c \in D
    BY FromClosed
  <2>2. SUFFICES ASSUME c \in From(K, s) PROVE FALSE
    BY <2>1
  <2>3. c # s
    BY <2>1 DEF NoChild
  <2>4. PICK n \in From(K, s) : c \in K[n]
    BY <2>2, <2>3, FromAbove
  <2>5. n \in D /\ n = m
    BY <2>1, <2>4, FromClosed DEF OneParent
  <2>6. QED BY <2>4, <2>5
<1>3. S \in SUBSET D /\ r \in S
  BY <1>1, FromClosed
<1>4. From(K, r) \subseteq S
  <2> HIDE DEF S
  <2>1. QED BY <1>2, <1>3, FromLeast
<1>5. QED BY <1>4

\* A graph that is the same where r reaches.
LEMMA FromSame ==
  ASSUME NEW D, NEW K \in [D -> SUBSET D], NEW r \in D,
         NEW E, NEW L \in [E -> SUBSET E], From(K, r) \subseteq E,
         \A m \in From(K, r) : L[m] = K[m]
  PROVE  From(L, r) = From(K, r)
<1>1. r \in E /\ r \in From(K, r)
  BY FromClosed
<1>2. From(L, r) \subseteq From(K, r)
  <2>1. \A m \in From(K, r) : L[m] \subseteq From(K, r)
    BY FromClosed
  <2>2. QED BY <1>1, <2>1, FromLeast
<1>3. From(K, r) \subseteq From(L, r)
  <2>1. From(L, r) \in SUBSET D /\ r \in From(L, r)
    BY <1>1, <1>2, FromClosed
  <2>2. \A m \in From(L, r) : K[m] \subseteq From(L, r)
    BY <1>1, <1>2, FromClosed
  <2>3. QED BY <2>1, <2>2, FromLeast
<1>4. QED BY <1>2, <1>3

\* A new node is hung below d.
LEMMA FromGrown ==
  ASSUME NEW D, NEW K \in [D -> SUBSET D], NEW r \in D, NEW d \in From(K, r), NEW a, a \notin D,
         NEW L \in [D \cup {a} -> SUBSET (D \cup {a})],
         L[a] = {}, L[d] = K[d] \cup {a}, \A m \in D \ {d} : L[m] = K[m]
  PROVE  From(L, r) = From(K, r) \cup {a}
<1>1. r \in D \cup {a} /\ d \in D /\ From(K, r) \subseteq D
  BY FromClosed
<1>2. From(L, r) \subseteq From(K, r) \cup {a}
  <2> DEFINE S == From(K, r) \cup {a}
             E == D \cup {a}
  <2>1. \A m \in S : L[m] \subseteq S
    BY <1>1, FromClosed
  <2>2. S \in SUBSET E /\ r \in S
    BY <1>1, FromClosed
  <2>3. From(L, r) \subseteq S
    <3> HIDE DEF S, E
    <3>1. L \in [E -> SUBSET E] /\ r \in E
      BY <1>1 DEF E
    <3>2. QED BY <3>1, <2>1, <2>2, FromLeast
  <2>4. QED BY <2>3
<1>3. From(K, r) \subseteq From(L, r)
  <2> DEFINE S == From(L, r) \cap D
  <2>1. \A m \in S : K[m] \subseteq S
    <3>1. ASSUME NEW m \in S PROVE K[m] \subseteq L[m] /\ K[m] \subseteq D
      BY <1>1
    <3>2. QED BY <1>1, <3>1, FromClosed
  <2>2. S \in SUBSET D /\ r \in S
    BY <1>1, FromClosed
  <2>3. From(K, r) \subseteq S
    <3> HIDE DEF S
    <3>1. QED BY <2>1, <2>2, FromLeast
  <2>4. QED BY <2>3
<1>4. a \in From(L, r)
  BY <1>1, <1>3, FromClosed
<1>5. QED BY <1>2, <1>3, <1>4

\* A node without children is taken away.
LEMMA FromShrunk ==
  ASSUME NEW D, NEW K \in [D -> SUBSET D], NEW r \in D, NEW t \in D, r # t, K[t] = {},
         NEW L \in [D \ {t} -> SUBSET (D \ {t})], \A m \in D \ {t} : L[m] = K[m] \ {t}
  PROVE  From(L, r) = From(K, r) \ {t}
<1>1. From(L, r) \subseteq From(K, r) \ {t}
  <2> DEFINE S == From(K, r) \ {t}
             E == D \ {t}
  <2>1. \A m \in S : L[m] \subseteq S
    BY FromClosed
  <2>2. S \in SUBSET E /\ r \in S /\ r \in E /\ L \in [E -> SUBSET E]
    BY FromClosed
  <2>3. From(L, r) \subseteq S
    <3> HIDE DEF S, E
    <3>1. QED BY <2>1, <2>2, FromLeast
  <2>4. QED BY <2>3
<1>2. From(K, r) \subseteq From(L, r) \cup {t}
  <2> DEFINE S == From(L, r) \cup {t}
             E == D \ {t}
  <2>1. From(L, r) \subseteq D \ {t} /\ r \in From(L, r)
        /\ \A m \in From(L, r) : L[m] \subseteq From(L, r)
    <3>1. L \in [E -> SUBSET E] /\ r \in E
      OBVIOUS
    <3>2. From(L, r) \subseteq E /\ r \in From(L, r)
          /\ \A m \in From(L, r) : L[m] \subseteq From(L, r)
      <4> HIDE DEF E
      <4>1. QED BY <3>1, FromClosed
    <3>3. QED BY <3>2
  <2>2. \A m \in S : K[m] \subseteq S
    BY <2>1
  <2>3. S \in SUBSET D /\ r \in S
    BY <2>1
  <2>4. From(K, r) \subseteq S
    <3> HIDE DEF S
    <3>1. QED BY <2>2, <2>3, FromLeast
  <2>5. QED BY <2>4
<1>3. QED BY <1>1, <1>2

\* An edge to n is cut: what was reached splits in two parts, and n's parent is in the first.
LEMMA FromCut ==
  ASSUME NEW D, NEW K \in [D -> SUBSET D], OneParent(K), NEW r \in D, NoChild(K, r),
         NEW n \in From(K, r), n # r, NEW p \in D, n \in K[p],
         NEW L \in [D -> SUBSET D], \A m \in D : L[m] = K[m] \ {n}
  PROVE  /\ From(K, r) = From(L, r) \cup From(L, n)
         /\ From(L, r) \cap From(L, n) = {}
         /\ p \in From(L, r)
<1>1. n \in D /\ \A m \in D : m # p => L[m] = K[m]
  <2>1. n \in D
    BY FromClosed
  <2>2. ASSUME NEW m \in D, m # p PROVE L[m] = K[m]
    <3>1. n \notin K[m]
      BY <2>2 DEF OneParent
    <3>2. QED BY <3>1
  <2>3. QED BY <2>1, <2>2
<1>2. OneParent(L) /\ NoChild(L, r) /\ NoChild(L, n)
  BY DEF OneParent, NoChild
<1>3. From(L, r) \cap From(L, n) = {}
  BY <1>1, <1>2, FromApart
<1>4. /\ From(L, r) \subseteq D /\ r \in From(L, r)
      /\ \A m \in From(L, r) : L[m] \subseteq From(L, r)
      /\ From(L, n) \subseteq D /\ n \in From(L, n)
      /\ \A m \in From(L, n) : L[m] \subseteq From(L, n)
  BY <1>1, FromClosed
<1>5. p \in From(L, r)
  <2>1. SUFFICES ASSUME p \notin From(L, r) PROVE FALSE
    OBVIOUS
  <2>2. \A m \in From(L, r) : K[m] \subseteq From(L, r)
    BY <1>1, <1>4, <2>1
  <2>3. From(K, r) \subseteq From(L, r)
    BY <1>4, <2>2, FromLeast
  <2>4. QED BY <1>3, <1>4, <2>3
<1>6. From(K, r) \subseteq From(L, r) \cup From(L, n)
  <2> DEFINE S == From(L, r) \cup From(L, n)
  <2>1. \A m \in S : K[m] \subseteq S
    <3>1. \A m \in D : K[m] \subseteq L[m] \cup {n}
      OBVIOUS
    <3>2. QED BY <1>4, <3>1
  <2>2. S \in SUBSET D /\ r \in S
    BY <1>4
  <2>3. QED
    <3> HIDE DEF S
    <3>1. From(K, r) \subseteq S
      BY <2>1, <2>2, FromLeast
    <3>2. QED BY <3>1 DEF S
<1>7. From(L, r) \cup From(L, n) \subseteq From(K, r)
  <2>1. \A m \in From(K, r) : L[m] \subseteq From(K, r)
    BY FromClosed
  <2>2. From(K, r) \in SUBSET D /\ r \in From(K, r)
    BY FromClosed
  <2>3. From(L, r) \subseteq From(K, r)
    BY <2>1, <2>2, FromLeast
  <2>4. From(L, n) \subseteq From(K, r)
    BY <1>1, <2>1, <2>2, FromLeast
  <2>5. QED BY <2>3, <2>4
<1>8. QED BY <1>3, <1>5, <1>6, <1>7

-----------------------------------------------------------------------------
(* Nodes as a graph *)

KidsOf(h, n) == {h[n].children[i] : i \in DOMAIN h[n].children}
GraphOf(h) == [n \in DOMAIN h |-> KidsOf(h, n) \cap DOMAIN h]

\* Children are nodes, and point back.
PointBack(h) ==
  \A n \in DOMAIN h : \A c \in KidsOf(h, n) : c \in DOMAIN h /\ h[c].parent = n

LEMMA GraphFacts ==
  ASSUME NEW h, PointBack(h)
  PROVE  /\ GraphOf(h) \in [DOMAIN h -> SUBSET DOMAIN h]
         /\ \A n \in DOMAIN h : GraphOf(h)[n] = KidsOf(h, n)
         /\ OneParent(GraphOf(h))
<1>1. GraphOf(h) \in [DOMAIN h -> SUBSET DOMAIN h] /\ DOMAIN GraphOf(h) = DOMAIN h
  BY DEF GraphOf
<1>2. ASSUME NEW n \in DOMAIN h PROVE GraphOf(h)[n] = KidsOf(h, n)
  <2>1. KidsOf(h, n) \subseteq DOMAIN h
    BY DEF PointBack
  <2>2. QED BY <2>1 DEF GraphOf
<1>3. OneParent(GraphOf(h))
  BY <1>1, <1>2 DEF OneParent, PointBack
<1>4. QED BY <1>1, <1>2, <1>3

LEMMA ReachIsFrom ==
  /\ \A r : Reach(r) = From(GraphOf(node), r)
  /\ Linked = IF fs_root = NULL THEN {} ELSE From(GraphOf(node), fs_root)
  /\ Doomed = IF deleting = <<>> THEN {} ELSE From(GraphOf(node), deleting[1])
<1>1. \A r : Reach(r) = From(GraphOf(node), r)
  <2>1. DOMAIN GraphOf(node) = DOMAIN node
    BY DEF GraphOf
  <2>2. \A m \in DOMAIN node : GraphOf(node)[m] = Kids(m) \cap DOMAIN node
    BY DEF GraphOf, KidsOf, Kids
  <2>3. QED BY <2>1, <2>2 DEF Reach, From
<1>2. QED BY <1>1 DEF Linked, Doomed

LEMMA ReachNext ==
  /\ Linked' = IF fs_root' = NULL THEN {} ELSE From(GraphOf(node'), fs_root')
  /\ Doomed' = IF deleting' = <<>> THEN {} ELSE From(GraphOf(node'), deleting'[1])
<1>1. \A r : Reach(r)' = From(GraphOf(node'), r)
  <2>1. DOMAIN GraphOf(node') = DOMAIN node'
    BY DEF GraphOf
  <2>2. \A m \in DOMAIN node' : GraphOf(node')[m] = Kids(m)' \cap DOMAIN node'
    BY DEF GraphOf, KidsOf, Kids
  <2>3. QED BY <2>1, <2>2 DEF Reach, From
<1>2. Reach(fs_root)' = From(GraphOf(node'), fs_root')
  <2>1. DOMAIN GraphOf(node') = DOMAIN node'
    BY DEF GraphOf
  <2>2. \A m \in DOMAIN node' : GraphOf(node')[m] = Kids(m)' \cap DOMAIN node'
    BY DEF GraphOf, KidsOf, Kids
  <2>3. QED BY <2>1, <2>2 DEF Reach, From
<1>3. Reach(deleting[1])' = From(GraphOf(node'), deleting'[1])
  <2>1. DOMAIN GraphOf(node') = DOMAIN node'
    BY DEF GraphOf
  <2>2. \A m \in DOMAIN node' : GraphOf(node')[m] = Kids(m)' \cap DOMAIN node'
    BY DEF GraphOf, KidsOf, Kids
  <2>3. QED BY <2>1, <2>2 DEF Reach, From
<1>4. QED BY <1>2, <1>3 DEF Linked, Doomed

-----------------------------------------------------------------------------
(* Nodes as records *)

LEMMA NewNodeFields ==
  ASSUME NEW type \in {"file", "dir"}, NEW name \in Names \cup {"/"},
         NEW parent \in Addr \cup {NULL}, NEW owner \in Users \cup {0}
  PROVE  /\ NewNode(type, name, parent, owner) \in NodeType
         /\ NewNode(type, name, parent, owner).type = type
         /\ NewNode(type, name, parent, owner).name = name
         /\ NewNode(type, name, parent, owner).parent = parent
         /\ NewNode(type, name, parent, owner).owner = owner
         /\ NewNode(type, name, parent, owner).data = NULL
         /\ NewNode(type, name, parent, owner).children = <<>>
<1>1. <<>> \in Seq(Addr)
  OBVIOUS
<1>2. DefaultPermissions \in
        [owner : SUBSET AllRights, group : SUBSET AllRights, other : SUBSET AllRights]
  BY DEF DefaultPermissions, AllRights
<1>3. QED BY <1>1, <1>2 DEF NewNode, NodeType

LEMMA ChildrenSet ==
  ASSUME NEW n \in NodeType, NEW s \in Seq(Addr)
  PROVE  /\ [n EXCEPT !.children = s] \in NodeType
         /\ [n EXCEPT !.children = s].children = s
         /\ [n EXCEPT !.children = s].type = n.type
         /\ [n EXCEPT !.children = s].name = n.name
         /\ [n EXCEPT !.children = s].owner = n.owner
         /\ [n EXCEPT !.children = s].parent = n.parent
         /\ [n EXCEPT !.children = s].data = n.data
BY DEF NodeType

LEMMA DataSet ==
  ASSUME NEW n \in NodeType, NEW d \in Addr \cup {NULL}
  PROVE  /\ [n EXCEPT !.data = d] \in NodeType
         /\ [n EXCEPT !.data = d].data = d
         /\ [n EXCEPT !.data = d].type = n.type
         /\ [n EXCEPT !.data = d].name = n.name
         /\ [n EXCEPT !.data = d].owner = n.owner
         /\ [n EXCEPT !.data = d].parent = n.parent
         /\ [n EXCEPT !.data = d].children = n.children
BY DEF NodeType

LEMMA NodeFields ==
  ASSUME NEW n \in NodeType
  PROVE  /\ n.type \in {"file", "dir"} /\ n.parent \in Addr \cup {NULL}
         /\ n.data \in Addr \cup {NULL} /\ n.children \in Seq(Addr)
BY DEF NodeType

Entries(s) == {s[i] : i \in DOMAIN s}

\* The entries of s that are in t are in the same order there.
InOrder(s, t) ==
  \A i, j \in DOMAIN s, k, l \in DOMAIN t :
    i < j /\ s[i] = t[k] /\ s[j] = t[l] => k < l

\* A child shifted out of an array: the rest stays, in its order.
LEMMA ShiftedKids ==
  ASSUME NEW h, NEW dir, NEW s \in Seq(Addr), s = h[dir].children, NEW child,
         \A i, j \in DOMAIN s : s[i] = s[j] => i = j,
         NEW t, t = Without(h, dir, child)
  PROVE  /\ t \in Seq(Addr) /\ Len(t) <= Len(s)
         /\ Entries(t) = Entries(s) \ {child}
         /\ \A k, l \in DOMAIN t : t[k] = t[l] => k = l
         /\ InOrder(s, t)
<1>1. DOMAIN s = 1 .. Len(s) /\ Len(s) \in Nat
  OBVIOUS
<1>2. CASE t = s /\ \A i \in DOMAIN s : s[i] # child
  BY <1>1, <1>2 DEF Entries, InOrder
<1>3. CASE \E p \in 1 .. Len(s) :
              /\ s[p] = child
              /\ t \in Seq(Addr) /\ Len(t) = Len(s) - 1
              /\ \A k \in 1 .. Len(s) - 1 : t[k] = IF k < p THEN s[k] ELSE s[k + 1]
  <2>1. PICK p \in 1 .. Len(s) :
          /\ s[p] = child
          /\ t \in Seq(Addr) /\ Len(t) = Len(s) - 1
          /\ \A k \in 1 .. Len(s) - 1 : t[k] = IF k < p THEN s[k] ELSE s[k + 1]
    BY <1>3
  <2>2. DOMAIN t = 1 .. Len(s) - 1
    BY <2>1
  <2>3. \A k \in DOMAIN t : \E i \in DOMAIN s : i # p /\ t[k] = s[i] /\ i = IF k < p THEN k ELSE k + 1
    BY <1>1, <2>1, <2>2
  <2>4. \A i \in DOMAIN s : i # p => \E k \in DOMAIN t : t[k] = s[i]
    <3>1. SUFFICES ASSUME NEW i \in DOMAIN s, i # p PROVE \E k \in DOMAIN t : t[k] = s[i]
      OBVIOUS
    <3>2. CASE i < p
      <4>1. i \in DOMAIN t /\ t[i] = s[i]
        BY <1>1, <2>1, <2>2, <3>1, <3>2
      <4>2. QED BY <4>1
    <3>3. CASE i > p
      <4>1. i - 1 \in DOMAIN t /\ t[i - 1] = s[i]
        BY <1>1, <2>1, <2>2, <3>1, <3>3
      <4>2. QED BY <4>1
    <3>4. QED BY <1>1, <3>1, <3>2, <3>3
  <2>5. Entries(t) = Entries(s) \ {child}
    <3>1. \A k \in DOMAIN t : t[k] \in {s[i] : i \in DOMAIN s} \ {child}
      <4>1. SUFFICES ASSUME NEW k \in DOMAIN t PROVE t[k] \in {s[i] : i \in DOMAIN s} \ {child}
        OBVIOUS
      <4>2. PICK i \in DOMAIN s : i # p /\ t[k] = s[i]
        BY <2>3
      <4>3. p \in DOMAIN s /\ s[i] # s[p]
        BY <1>1, <4>2
      <4>4. QED BY <2>1, <4>2, <4>3
    <3>2. \A i \in DOMAIN s : s[i] # child => s[i] \in {t[k] : k \in DOMAIN t}
      BY <2>1, <2>4
    <3>3. QED BY <3>1, <3>2 DEF Entries
  <2>6. \A k, l \in DOMAIN t : t[k] = t[l] => k = l
    BY <1>1, <2>2, <2>3
  <2>7. InOrder(s, t)
    BY <1>1, <2>2, <2>3 DEF InOrder
  <2>8. t \in Seq(Addr) /\ Len(t) <= Len(s)
    BY <1>1, <2>1
  <2>9. QED BY <2>5, <2>6, <2>7, <2>8
<1>4. \/ t = s /\ \A i \in DOMAIN s : s[i] # child
      \/ \E p \in 1 .. Len(s) :
           /\ s[p] = child
           /\ t \in Seq(Addr) /\ Len(t) = Len(s) - 1
           /\ \A k \in 1 .. Len(s) - 1 : t[k] = IF k < p THEN s[k] ELSE s[k + 1]
  <2> DEFINE hits == {i \in DOMAIN s : s[i] = child}
             first == CHOOSE i \in hits : \A j \in hits : i <= j
  <2>1. DOMAIN s = 1 .. Len(s) /\ Len(s) \in Nat
    OBVIOUS
  <2>2. CASE hits = {}
    BY <2>2 DEF Without
  <2>3. CASE hits # {}
    <3>1. PICK p \in DOMAIN s : s[p] = child
      BY <2>3
    <3>2. \A i \in hits : i = p
      BY <3>1
    <3>3. first = p
      BY <2>1, <3>1, <3>2
    <3>4. t = [i \in 1 .. Len(s) - 1 |-> IF i < p THEN s[i] ELSE s[i + 1]]
      BY <2>3, <3>3 DEF Without
    <3>5. t \in [1 .. Len(s) - 1 -> Addr]
      BY <2>1, <3>1, <3>4
    <3>6. Len(s) - 1 \in Nat
      BY <2>1, <3>1
    <3>7. /\ t \in Seq(Addr)
          /\ Len(t) = Len(s) - 1
      BY <3>5, <3>6
    <3>8. QED BY <2>1, <3>1, <3>4, <3>7
  <2>4. QED BY <2>2, <2>3
<1>5. QED BY <1>2, <1>3, <1>4, Zenon

LEMMA StoreFields ==
  ASSUME NEW f, NEW a, NEW v
  PROVE  /\ DOMAIN Store(f, a, v) = DOMAIN f \cup {a}
         /\ Store(f, a, v)[a] = v
         /\ \A x \in DOMAIN f : x # a => Store(f, a, v)[x] = f[x]
BY DEF Store

LEMMA DropFields ==
  ASSUME NEW f, NEW a
  PROVE  /\ DOMAIN Drop(f, a) = DOMAIN f \ {a}
         /\ \A x \in DOMAIN f \ {a} : Drop(f, a)[x] = f[x]
BY DEF Drop

-----------------------------------------------------------------------------
(* The invariant *)

\* "/" is a directory, and the only node reached that has no parent.
RootInv == fs_root # NULL => node[fs_root].parent = NULL /\ node[fs_root].type = "dir"

\* fs_delete is at no node twice, and at none outside the subtree.
StackInv ==
  /\ \A i, j \in DOMAIN deleting : deleting[i] = deleting[j] => i = j
  /\ \A i \in DOMAIN deleting : deleting[i] \in Doomed

\* The inductive invariant.
IInv ==
  /\ TypeOK
  /\ LinksAgree
  /\ RootInv
  /\ DeletionPath
  /\ StackInv
  /\ NothingLost

LEMMA InitInv == Init => IInv
<1> SUFFICES ASSUME Init PROVE IInv
  OBVIOUS
<1>1. DOMAIN node = {} /\ DOMAIN buffer = {} /\ deleting = <<>> /\ fs_root = NULL
      /\ leaked = {} /\ machine = "up"
  BY DEF Init
<1>2. Linked = {} /\ Doomed = {}
  BY <1>1 DEF Linked, Doomed
<1>3. TypeOK
  <2>1. node = [a \in {} |-> NewNode("dir", "/", NULL, 0)] /\ buffer = [a \in {} |-> Empty]
    BY DEF Init
  <2>2. node \in [DOMAIN node -> NodeType] /\ buffer \in [DOMAIN buffer -> Contents]
    BY <2>1
  <2>3. QED BY <1>1, <2>2 DEF TypeOK
<1>4. LinksAgree /\ RootInv
  BY <1>1 DEF LinksAgree, RootInv
<1>5. DeletionPath /\ StackInv
  BY <1>1, <1>2 DEF DeletionPath, StackInv
<1>6. NothingLost
  BY <1>1, <1>2 DEF NothingLost
<1>7. QED BY <1>3, <1>4, <1>5, <1>6 DEF IInv

\* What the first two parts of the invariant say about the graph.
LEMMA LinkFacts ==
  ASSUME TypeOK, LinksAgree
  PROVE  /\ PointBack(node)
         /\ \A n \in DOMAIN node : \A c \in KidsOf(node, n) : c # fs_root /\ c \notin leaked
         /\ GraphOf(node) \in [DOMAIN node -> SUBSET DOMAIN node]
         /\ OneParent(GraphOf(node))
         /\ \A n \in DOMAIN node : GraphOf(node)[n] = KidsOf(node, n)
         /\ NoChild(GraphOf(node), fs_root)
<1>1. PointBack(node)
  BY DEF LinksAgree, PointBack, KidsOf
<1>2. \A n \in DOMAIN node : \A c \in KidsOf(node, n) : c # fs_root /\ c \notin leaked
  BY DEF LinksAgree, KidsOf
<1>3. /\ GraphOf(node) \in [DOMAIN node -> SUBSET DOMAIN node]
      /\ OneParent(GraphOf(node))
      /\ \A n \in DOMAIN node : GraphOf(node)[n] = KidsOf(node, n)
  BY <1>1, GraphFacts
<1>4. NoChild(GraphOf(node), fs_root)
  BY <1>2, <1>3 DEF NoChild
<1>5. QED BY <1>1, <1>2, <1>3, <1>4

LEMMA NodeFacts ==
  ASSUME TypeOK, LinksAgree, NEW n \in DOMAIN node
  PROVE  /\ n \in Addr /\ node[n] \in NodeType /\ n # NULL
         /\ node[n].type \in {"file", "dir"} /\ node[n].parent \in Addr \cup {NULL}
         /\ node[n].data \in Addr \cup {NULL} /\ node[n].children \in Seq(Addr)
         /\ \A i, j \in DOMAIN node[n].children :
              node[n].children[i] = node[n].children[j] => i = j
<1>1. n \in Addr /\ node[n] \in NodeType /\ n # NULL
  BY FileTreeAssumption DEF TypeOK
<1>2. \A i, j \in DOMAIN node[n].children :
              node[n].children[i] = node[n].children[j] => i = j
  BY DEF LinksAgree
<1>3. QED BY <1>1, <1>2, NodeFields

LEMMA LinksLocal ==
  ASSUME TypeOK, LinksAgree, NEW n \in DOMAIN node
  PROVE  /\ Len(node[n].children) <= MaxChildren
         /\ node[n].type = "file" => node[n].children = <<>>
         /\ node[n].type = "dir" => node[n].data = NULL
         /\ \A i \in DOMAIN node[n].children :
              /\ node[n].children[i] \in DOMAIN node
              /\ node[n].children[i] # fs_root
              /\ node[n].children[i] \notin leaked
              /\ node[node[n].children[i]].parent = n
         /\ \A i, j \in DOMAIN node[n].children :
              node[n].children[i] = node[n].children[j] => i = j
BY DEF LinksAgree

\* A node of the tree other than "/" is a child of a node of the tree.
LEMMA LinkedParent ==
  ASSUME TypeOK, LinksAgree, RootInv, NEW n \in Linked
  PROVE  /\ n \in DOMAIN node /\ fs_root \in DOMAIN node
         /\ Linked = From(GraphOf(node), fs_root)
         /\ n # fs_root => /\ node[n].parent \in Linked
                           /\ n \in KidsOf(node, node[n].parent)
                           /\ node[n].parent # NULL
         /\ node[n].parent = NULL <=> n = fs_root
<1>1. fs_root \in DOMAIN node /\ Linked = From(GraphOf(node), fs_root)
  BY ReachIsFrom DEF TypeOK
<1>2. Linked \subseteq DOMAIN node
  BY <1>1, LinkFacts, FromClosed
<1>3. ASSUME n # fs_root
      PROVE  /\ node[n].parent \in Linked
             /\ n \in KidsOf(node, node[n].parent)
             /\ node[n].parent # NULL
  <2>1. PICK m \in Linked : n \in GraphOf(node)[m]
    BY <1>1, <1>3, LinkFacts, FromAbove
  <2>2. m \in DOMAIN node /\ n \in KidsOf(node, m)
    BY <1>2, <2>1, LinkFacts
  <2>3. node[n].parent = m /\ m # NULL
    BY <2>2, LinkFacts, NodeFacts DEF PointBack
  <2>4. QED BY <2>1, <2>2, <2>3
<1>4. fs_root # NULL /\ node[fs_root].parent = NULL
  BY <1>1, NodeFacts DEF RootInv
<1>5. QED BY <1>1, <1>2, <1>3, <1>4

-----------------------------------------------------------------------------
(* Creating *)

\* A node is stored that nobody points to yet.
LEMMA NodeStored ==
  ASSUME TypeOK, LinksAgree, NEW a \in Addr, a \notin DOMAIN node, NEW v \in NodeType,
         v.children = <<>>, v.data = NULL, node' = Store(node, a, v),
         fs_root' \in {fs_root, a}, leaked' \in {leaked, leaked \cup {a}}
  PROVE  /\ DOMAIN node' = DOMAIN node \cup {a}
         /\ node' \in [DOMAIN node' -> NodeType] /\ DOMAIN node' \subseteq Addr
         /\ LinksAgree'
         /\ GraphOf(node') \in [DOMAIN node' -> SUBSET DOMAIN node']
         /\ GraphOf(node')[a] = {}
         /\ \A m \in DOMAIN node : GraphOf(node')[m] = GraphOf(node)[m]
<1>1. /\ DOMAIN node' = DOMAIN node \cup {a} /\ node'[a] = v
      /\ \A m \in DOMAIN node : node'[m] = node[m]
  BY DEF Store
<1>2. DOMAIN node' \subseteq Addr
  BY <1>1 DEF TypeOK
<1>3. node' \in [DOMAIN node' -> NodeType]
  BY <1>1 DEF TypeOK, Store
<1>4. LinksAgree'
  <2>1. SUFFICES ASSUME NEW n \in DOMAIN node'
                 PROVE  /\ Len(node'[n].children) <= MaxChildren
                        /\ node'[n].type = "file" => node'[n].children = <<>>
                        /\ node'[n].type = "dir" => node'[n].data = NULL
                        /\ \A i \in DOMAIN node'[n].children :
                             /\ node'[n].children[i] \in DOMAIN node' \ ({fs_root'} \cup leaked')
                             /\ node'[node'[n].children[i]].parent = n
                             /\ \A j \in DOMAIN node'[n].children :
                                  node'[n].children[j] = node'[n].children[i] => i = j
    BY DEF LinksAgree
  <2>2. CASE n = a
    BY <1>1, <2>2, FileTreeAssumption
  <2>3. CASE n \in DOMAIN node
    <3>1. node'[n] = node[n]
      BY <1>1, <2>3
    <3>2. ASSUME NEW i \in DOMAIN node[n].children
          PROVE  LET c == node[n].children[i]
                 IN c \in DOMAIN node' \ ({fs_root'} \cup leaked') /\ node'[c] = node[c]
      BY <1>1, <2>3 DEF LinksAgree
    <3>3. QED BY <2>3, <3>1, <3>2 DEF LinksAgree
  <2>4. QED BY <1>1, <2>1, <2>2, <2>3
<1>5. GraphOf(node') \in [DOMAIN node' -> SUBSET DOMAIN node'] /\ GraphOf(node')[a] = {}
  BY <1>1 DEF GraphOf, KidsOf
<1>6. ASSUME NEW m \in DOMAIN node PROVE GraphOf(node')[m] = GraphOf(node)[m]
  <2>1. KidsOf(node', m) = KidsOf(node, m) /\ KidsOf(node, m) \subseteq DOMAIN node
    BY <1>1, LinkFacts DEF KidsOf, PointBack
  <2>2. QED BY <1>1, <2>1 DEF GraphOf
<1>7. QED BY <1>1, <1>2, <1>3, <1>4, <1>5, <1>6

LEMMA FreshAddr ==
  ASSUME TypeOK, NEW a \in MallocMay(FreeAddr)
  PROVE  a \in Addr /\ a \notin DOMAIN node /\ a \notin DOMAIN buffer
<1>1. FreeAddr \in SUBSET Addr
  BY DEF FreeAddr
<1>2. a \in FreeAddr
  BY <1>1, FileTreeAssumption
<1>3. QED BY <1>2 DEF FreeAddr

\* No call of fs_delete is in progress: its part of the invariant is empty.
LEMMA NoDelete ==
  ASSUME deleting' = <<>>
  PROVE  DeletionPath' /\ StackInv' /\ Doomed' = {} /\ deleting' \in Seq(DOMAIN node')
BY DEF DeletionPath, StackInv, Doomed

LEMMA MountStep ==
  ASSUME IInv, emulated_fs_init
  PROVE  /\ IInv'
         /\ Linked' = {fs_root'} /\ Linked = {}
<1> DEFINE v == NewNode("dir", "/", NULL, 0)
<1>1. /\ TypeOK /\ LinksAgree /\ NothingLost
      /\ fs_root = NULL /\ deleting = <<>> /\ machine = "up"
      /\ UNCHANGED <<buffer, deleting, leaked, machine>>
  BY DEF IInv, emulated_fs_init, Idle
<1>2. PICK a \in MallocMay(FreeAddr) : fs_root' = a /\ node' = Store(node, a, v)
  BY DEF emulated_fs_init
<1>3. a \in Addr /\ a \notin DOMAIN node /\ a \notin DOMAIN buffer /\ a # NULL
  BY <1>1, FreshAddr, FileTreeAssumption
<1>4. /\ v \in NodeType /\ v.children = <<>> /\ v.data = NULL
      /\ v.parent = NULL /\ v.type = "dir"
  BY NewNodeFields
<1> HIDE DEF v
<1>5. /\ DOMAIN node' = DOMAIN node \cup {a}
      /\ node' \in [DOMAIN node' -> NodeType] /\ DOMAIN node' \subseteq Addr
      /\ LinksAgree'
      /\ GraphOf(node') \in [DOMAIN node' -> SUBSET DOMAIN node']
      /\ GraphOf(node')[a] = {}
  BY <1>1, <1>2, <1>3, <1>4, NodeStored
<1>6. node'[a] = v /\ \A m \in DOMAIN node : node'[m] = node[m]
  BY <1>2, <1>3 DEF Store
<1>7. Linked = {} /\ Doomed = {} /\ Linked' = {a}
  <2>1. From(GraphOf(node'), a) = {a}
    <3>1. From(GraphOf(node'), a) \subseteq {a}
      <4> DEFINE S == {a}
      <4>1. /\ a \in DOMAIN node' /\ S \in SUBSET DOMAIN node' /\ a \in S
            /\ \A m \in S : GraphOf(node')[m] \subseteq S
        BY <1>5
      <4> HIDE DEF S
      <4>2. From(GraphOf(node'), a) \subseteq S
        BY <4>1, <1>5, FromLeast
      <4>3. QED BY <4>2 DEF S
    <3>2. a \in From(GraphOf(node'), a)
      BY <1>5, FromClosed
    <3>3. QED BY <3>1, <3>2
  <2>2. QED BY <1>1, <1>2, <1>3, <2>1, ReachNext DEF Linked, Doomed
<1>8. deleting' = <<>>
  BY <1>1
<1>9. TypeOK'
  BY <1>1, <1>2, <1>3, <1>5, <1>8, NoDelete DEF TypeOK
<1>10. RootInv'
  BY <1>2, <1>4, <1>6 DEF RootInv
<1>11. NothingLost'
  <2>1. /\ DOMAIN node = leaked
        /\ DOMAIN buffer = {node[n].data : n \in DOMAIN node} \ {NULL}
        /\ \A m, n \in DOMAIN node : node[m].data = node[n].data /\ node[m].data # NULL => m = n
    BY <1>1, <1>7 DEF NothingLost
  <2>2. DOMAIN node' = Linked' \cup Doomed' \cup leaked'
    BY <1>1, <1>5, <1>7, <1>8, <2>1, NoDelete
  <2>3. DOMAIN buffer' = {node'[n].data : n \in DOMAIN node'} \ {NULL}
    BY <1>1, <1>4, <1>5, <1>6, <2>1
  <2>4. \A m, n \in DOMAIN node' : node'[m].data = node'[n].data /\ node'[m].data # NULL => m = n
    BY <1>4, <1>5, <1>6, <2>1
  <2>5. QED BY <2>2, <2>3, <2>4 DEF NothingLost
<1>12. QED BY <1>2, <1>5, <1>7, <1>8, <1>9, <1>10, <1>11, NoDelete DEF IInv

\* What callers can see of a node apart from its data's bytes stays.
Alike(m) ==
  /\ node'[m].type = node[m].type /\ node'[m].name = node[m].name
  /\ node'[m].parent = node[m].parent /\ node'[m].owner = node[m].owner
  /\ node'[m].data = node[m].data

\* Data is accounted for when one node without data comes.
LEMMA DataKept ==
  ASSUME NothingLost, machine = "up", machine' = "up", NEW a, a \notin DOMAIN node,
         DOMAIN node' = DOMAIN node \cup {a}, node'[a].data = NULL,
         \A m \in DOMAIN node : node'[m].data = node[m].data, buffer' = buffer,
         DOMAIN node' = Linked' \cup Doomed' \cup leaked'
  PROVE  NothingLost'
<1>1. /\ DOMAIN buffer = {node[n].data : n \in DOMAIN node} \ {NULL}
      /\ \A m, n \in DOMAIN node : node[m].data = node[n].data /\ node[m].data # NULL => m = n
  BY DEF NothingLost
<1>2. DOMAIN buffer' = {node'[n].data : n \in DOMAIN node'} \ {NULL}
  BY <1>1
<1>3. \A m, n \in DOMAIN node' : node'[m].data = node'[n].data /\ node'[m].data # NULL => m = n
  BY <1>1
<1>4. QED BY <1>2, <1>3 DEF NothingLost

\* The step hangs a new node a below dir, behind its other children.
Hung(a, dir) ==
  /\ DOMAIN node' = DOMAIN node \cup {a}
  /\ \A m \in DOMAIN node :
       /\ Alike(m)
       /\ node'[m].children \in {node[m].children, Append(node[m].children, a)}
  /\ GraphOf(node') \in [DOMAIN node' -> SUBSET DOMAIN node']
  /\ GraphOf(node')[a] = {} /\ GraphOf(node')[dir] = GraphOf(node)[dir] \cup {a}
  /\ \A m \in DOMAIN node \ {dir} : GraphOf(node')[m] = GraphOf(node)[m]

LEMMA CreateLocal ==
  ASSUME TypeOK, LinksAgree, NEW type \in {"file", "dir"}, NEW name \in Names, NEW dir \in DOMAIN node,
         NEW owner \in Users, NEW a, Create(a, type, name, dir, owner)
  PROVE  /\ TypeOK' /\ LinksAgree'
         /\ a \in Addr \ DOMAIN node /\ DOMAIN node' = DOMAIN node \cup {a}
         /\ node'[a] = NewNode(type, name, dir, owner)
         /\ Hung(a, dir)
<1> DEFINE v == NewNode(type, name, dir, owner)
           s == node[dir].children
           D == DOMAIN node
           E == D \cup {a}
           K == GraphOf(node)
           L == GraphOf(node')
<1>1. /\ TypeOK /\ LinksAgree
      /\ deleting = <<>> /\ machine = "up" /\ a \in MallocMay(FreeAddr)
      /\ node[dir].type = "dir" /\ Len(s) < MaxChildren
      /\ UNCHANGED <<fs_root, buffer, deleting, leaked, machine>>
      /\ node' = [Store(node, a, v) EXCEPT ![dir].children = Append(@, a), ![a].parent = dir]
  BY DEF Create, Idle, fs_add_child
<1>2. a \in Addr /\ a \notin D /\ a \notin DOMAIN buffer
  BY <1>1, FreshAddr
<1>3. dir \in D /\ dir \in Addr /\ dir # a
  BY <1>1, <1>2, NodeFacts
<1>4. /\ v \in NodeType /\ v.children = <<>> /\ v.data = NULL
      /\ v.parent = dir /\ v.type = type
  BY <1>3, NewNodeFields
<1>5. [v EXCEPT !.parent = dir] = v
  BY <1>4 DEF NodeType
<1> HIDE DEF v
<1>6. s \in Seq(Addr) /\ node[dir] \in NodeType
  BY <1>1, <1>3, NodeFacts
<1>7. /\ DOMAIN node' = E /\ node'[a] = v
      /\ node'[dir] = [node[dir] EXCEPT !.children = Append(s, a)]
      /\ \A m \in D : m # dir => node'[m] = node[m]
  BY <1>1, <1>2, <1>3, <1>5 DEF Store
<1>8. Append(s, a) \in Seq(Addr) /\ Len(Append(s, a)) = Len(s) + 1
      /\ DOMAIN Append(s, a) = 1 .. Len(s) + 1
      /\ Append(s, a)[Len(s) + 1] = a
      /\ \A i \in 1 .. Len(s) : Append(s, a)[i] = s[i]
      /\ DOMAIN s = 1 .. Len(s) /\ Len(s) \in Nat
  BY <1>2, <1>6
<1>9. node'[dir] \in NodeType /\ node'[dir].children = Append(s, a) /\ Alike(dir)
  <2> DEFINE t == Append(s, a)
  <2>1. t \in Seq(Addr)
    BY <1>8
  <2> HIDE DEF t
  <2>2. /\ [node[dir] EXCEPT !.children = t] \in NodeType
        /\ [node[dir] EXCEPT !.children = t].children = t
        /\ [node[dir] EXCEPT !.children = t].type = node[dir].type
        /\ [node[dir] EXCEPT !.children = t].name = node[dir].name
        /\ [node[dir] EXCEPT !.children = t].owner = node[dir].owner
        /\ [node[dir] EXCEPT !.children = t].parent = node[dir].parent
        /\ [node[dir] EXCEPT !.children = t].data = node[dir].data
    BY <1>6, <2>1, ChildrenSet
  <2>3. node'[dir] = [node[dir] EXCEPT !.children = t]
    BY <1>7 DEF t
  <2>4. node'[dir] \in NodeType /\ node'[dir].children = t /\ Alike(dir)
    BY <2>2, <2>3 DEF Alike
  <2>5. QED BY <2>4 DEF t
<1>10. \A m \in D : Alike(m)
  BY <1>7, <1>9 DEF Alike
<1>11. \A m \in D : \/ node'[m].children = node[m].children
                    \/ node'[m].children = Append(node[m].children, a)
  BY <1>7, <1>9
<1>12. node' \in [DOMAIN node' -> NodeType] /\ DOMAIN node' \subseteq Addr
  <2>1. ASSUME NEW m \in DOMAIN node' PROVE node'[m] \in NodeType
    <3>1. m \in D => node[m] \in NodeType
      BY <1>1 DEF TypeOK
    <3>2. QED BY <1>4, <1>7, <1>9, <3>1
  <2>2. node' = [m \in DOMAIN node' |-> node'[m]]
    BY <1>1 DEF Store
  <2>3. QED BY <1>1, <1>2, <1>7, <2>1, <2>2 DEF TypeOK
<1>13. LinksAgree'
  <2>1. SUFFICES ASSUME NEW n \in DOMAIN node'
                 PROVE  /\ Len(node'[n].children) <= MaxChildren
                        /\ node'[n].type = "file" => node'[n].children = <<>>
                        /\ node'[n].type = "dir" => node'[n].data = NULL
                        /\ \A i \in DOMAIN node'[n].children :
                             /\ node'[n].children[i] \in DOMAIN node' \ ({fs_root'} \cup leaked')
                             /\ node'[node'[n].children[i]].parent = n
                             /\ \A j \in DOMAIN node'[n].children :
                                  node'[n].children[j] = node'[n].children[i] => i = j
    BY DEF LinksAgree
  <2>2. CASE n = a
    BY <1>4, <1>7, <2>2, FileTreeAssumption
  <2>3. fs_root' = fs_root /\ leaked' = leaked
    BY <1>1
  <2>4. \A m \in D : \A i \in DOMAIN node[m].children :
          /\ node[m].children[i] \in D
          /\ node[m].children[i] # fs_root
          /\ node[m].children[i] \notin leaked
          /\ node'[node[m].children[i]].parent = m
    <3>1. \A m \in D : \A i \in DOMAIN node[m].children :
            /\ node[m].children[i] \in D
            /\ node[m].children[i] # fs_root
            /\ node[m].children[i] \notin leaked
            /\ node[node[m].children[i]].parent = m
      BY <1>1, LinksLocal
    <3>2. \A m \in D : node'[m].parent = node[m].parent
      BY <1>10 DEF Alike
    <3>3. QED BY <3>1, <3>2
  <2>5. CASE n \in D /\ n # dir
    <3>1. node'[n] = node[n]
      BY <1>7, <2>5
    <3>2. /\ Len(node[n].children) <= MaxChildren
          /\ node[n].type = "file" => node[n].children = <<>>
          /\ node[n].type = "dir" => node[n].data = NULL
          /\ \A i, j \in DOMAIN node[n].children :
               node[n].children[i] = node[n].children[j] => i = j
      BY <1>1, <2>5, LinksLocal
    <3>3. \A i \in DOMAIN node[n].children :
            /\ node[n].children[i] \in DOMAIN node' \ ({fs_root} \cup leaked)
            /\ node'[node[n].children[i]].parent = n
      BY <1>7, <2>4, <2>5
    <3>4. QED BY <2>3, <3>1, <3>2, <3>3
  <2>6. CASE n = dir
    <3>1. Len(Append(s, a)) <= MaxChildren
      BY <1>1, <1>8, FileTreeAssumption
    <3>2. node'[dir].type = "dir" /\ node'[dir].data = NULL
      BY <1>1, <1>3, <1>9 DEF Alike, LinksAgree
    <3>3. a # fs_root /\ a \notin leaked /\ node'[a].parent = dir
      BY <1>1, <1>2, <1>3, <1>4, <1>7, FileTreeAssumption DEF TypeOK
    <3>4. \A i \in 1 .. Len(s) + 1 :
            /\ Append(s, a)[i] \in E \ ({fs_root} \cup leaked)
            /\ node'[Append(s, a)[i]].parent = dir
      BY <1>3, <1>8, <2>4, <3>3
    <3>5. \A i, j \in 1 .. Len(s) + 1 : Append(s, a)[i] = Append(s, a)[j] => i = j
      <4>1. \A i, j \in 1 .. Len(s) : s[i] = s[j] => i = j
        BY <1>1, <1>3, <1>8, LinksLocal
      <4>2. \A i \in 1 .. Len(s) : s[i] # a
        BY <1>2, <1>3, <1>8, <2>4
      <4>3. QED BY <1>8, <4>1, <4>2
    <3>6. node'[n].children = Append(s, a) /\ DOMAIN node'[n].children = 1 .. Len(s) + 1
      BY <1>8, <1>9, <2>6
    <3>7. ASSUME NEW i \in DOMAIN node'[n].children
          PROVE  /\ node'[n].children[i] \in DOMAIN node' \ ({fs_root'} \cup leaked')
                 /\ node'[node'[n].children[i]].parent = n
                 /\ \A j \in DOMAIN node'[n].children :
                      node'[n].children[j] = node'[n].children[i] => i = j
      <4>1. i \in 1 .. Len(s) + 1
        BY <3>6, <3>7
      <4>2. /\ Append(s, a)[i] \in DOMAIN node' \ ({fs_root'} \cup leaked')
            /\ node'[Append(s, a)[i]].parent = n
        BY <1>7, <2>3, <2>6, <3>4, <4>1
      <4>3. \A j \in 1 .. Len(s) + 1 : Append(s, a)[j] = Append(s, a)[i] => i = j
        BY <3>5, <4>1
      <4>4. QED BY <3>6, <4>2, <4>3, Zenon
    <3>8. /\ Len(node'[n].children) <= MaxChildren
          /\ node'[n].type # "file" /\ node'[n].data = NULL
      BY <2>6, <3>1, <3>2, <3>6
    <3>9. QED BY <3>7, <3>8
  <2>7. QED BY <1>7, <2>1, <2>2, <2>5, <2>6
<1>14. /\ L \in [E -> SUBSET E] /\ L[a] = {} /\ L[dir] = K[dir] \cup {a}
       /\ \A m \in D \ {dir} : L[m] = K[m]
  <2>1. \A m \in D : KidsOf(node, m) \subseteq D /\ K[m] = KidsOf(node, m)
    BY <1>1, LinkFacts DEF PointBack
  <2>2. KidsOf(node', a) = {} /\ KidsOf(node', dir) = KidsOf(node, dir) \cup {a}
    BY <1>4, <1>7, <1>8, <1>9 DEF KidsOf
  <2>3. \A m \in D \ {dir} : KidsOf(node', m) = KidsOf(node, m)
    BY <1>7 DEF KidsOf
  <2>4. L \in [E -> SUBSET E] /\ \A m \in E : L[m] = KidsOf(node', m) \cap E
    BY <1>7 DEF GraphOf
  <2>5. QED BY <1>3, <2>1, <2>2, <2>3, <2>4
<1>15. deleting' = <<>>
  BY <1>1
<1>16. TypeOK'
  BY <1>1, <1>2, <1>7, <1>12, <1>15, NoDelete DEF TypeOK
<1>17. Hung(a, dir)
  BY <1>7, <1>10, <1>11, <1>14 DEF Hung
<1>18. QED BY <1>2, <1>7, <1>13, <1>16, <1>17 DEF v

LEMMA CreateStep ==
  ASSUME IInv, NEW type \in {"file", "dir"}, NEW name \in Names, NEW dir \in Linked,
         NEW owner \in Users, NEW a, Create(a, type, name, dir, owner)
  PROVE  /\ IInv'
         /\ Linked' = Linked \cup {a} /\ a \in Addr \ DOMAIN node
         /\ node'[a] = NewNode(type, name, dir, owner)
         /\ Hung(a, dir)
<1> DEFINE D == DOMAIN node
           K == GraphOf(node)
           L == GraphOf(node')
<1>1. /\ TypeOK /\ LinksAgree /\ RootInv /\ NothingLost /\ deleting = <<>> /\ machine = "up"
      /\ UNCHANGED <<fs_root, buffer, deleting, leaked, machine>>
  BY DEF IInv, Create, Idle
<1>2. dir \in D /\ fs_root \in D /\ fs_root # NULL /\ Linked = From(K, fs_root)
  BY <1>1, LinkedParent, NodeFacts
<1>3. /\ TypeOK' /\ LinksAgree' /\ a \in Addr \ DOMAIN node /\ Hung(a, dir)
      /\ node'[a] = NewNode(type, name, dir, owner)
  BY <1>1, <1>2, CreateLocal
<1>4. /\ L \in [D \cup {a} -> SUBSET (D \cup {a})] /\ L[a] = {} /\ L[dir] = K[dir] \cup {a}
      /\ \A m \in D \ {dir} : L[m] = K[m]
  BY <1>3 DEF Hung
<1>5. Linked' = Linked \cup {a}
  <2>1. K \in [D -> SUBSET D] /\ dir \in From(K, fs_root)
    BY <1>1, <1>2, LinkFacts
  <2>2. a \notin D /\ fs_root \in D
    BY <1>2, <1>3
  <2>3. From(L, fs_root) = From(K, fs_root) \cup {a}
    <3> HIDE DEF K, L, D
    <3>1. QED BY <1>4, <2>1, <2>2, FromGrown
  <2>4. QED BY <1>1, <1>2, <2>3, ReachNext
<1>6. deleting' = <<>> /\ Doomed = {}
  BY <1>1 DEF Doomed
<1>7. RootInv'
  BY <1>1, <1>2, <1>3 DEF RootInv, Hung, Alike
<1>8. NothingLost'
  <2>1. DOMAIN node' = Linked' \cup Doomed' \cup leaked'
    BY <1>1, <1>3, <1>5, <1>6, NoDelete DEF NothingLost, Hung
  <2>2. node'[a].data = NULL
    BY <1>3 DEF NewNode
  <2>3. QED BY <1>1, <1>3, <2>1, <2>2, DataKept DEF Hung, Alike
<1>9. QED BY <1>3, <1>5, <1>6, <1>7, <1>8, NoDelete DEF IInv

\* A node nobody points to changes nothing of what is reached.
LEMMA StoredLinked ==
  ASSUME TypeOK, LinksAgree, RootInv, NEW a \in Addr, a \notin DOMAIN node, NEW v \in NodeType,
         v.children = <<>>, v.data = NULL, node' = Store(node, a, v), fs_root' = fs_root,
         leaked' \in {leaked, leaked \cup {a}}, deleting' = <<>>, fs_root \in DOMAIN node
  PROVE  Linked' = Linked
<1> DEFINE D == DOMAIN node
           E == DOMAIN node'
           K == GraphOf(node)
           L == GraphOf(node')
<1>1. /\ K \in [D -> SUBSET D] /\ L \in [E -> SUBSET E] /\ D \subseteq E
      /\ \A m \in D : L[m] = K[m]
  BY NodeStored, LinkFacts
<1>2. fs_root # NULL /\ Linked = From(K, fs_root) /\ Linked' = From(L, fs_root)
  BY NodeFacts, ReachIsFrom, ReachNext
<1>3. From(L, fs_root) = From(K, fs_root)
  <2> HIDE DEF D, E, K, L
  <2>1. fs_root \in D
    BY DEF D
  <2>2. From(K, fs_root) \subseteq E /\ \A m \in From(K, fs_root) : L[m] = K[m]
    BY <1>1, <2>1, FromClosed
  <2>3. QED BY <1>1, <2>1, <2>2, FromSame
<1>4. QED BY <1>2, <1>3

\* A new node that add_child does not get into an array.
Unhung(a, v) ==
  /\ a \in Addr \ DOMAIN node /\ DOMAIN node' = DOMAIN node \cup {a}
  /\ node'[a] = v
  /\ \A m \in DOMAIN node : node'[m] = node[m]

LEMMA StoredLocal ==
  ASSUME TypeOK, LinksAgree, NEW type \in {"file", "dir"}, NEW name \in Names,
         NEW dir \in DOMAIN node, NEW owner \in Users, NEW a \in MallocMay(FreeAddr),
         node' = Store(node, a, NewNode(type, name, dir, owner)), deleting = <<>>,
         UNCHANGED <<fs_root, buffer, deleting>>, leaked' \in {leaked, leaked \cup {a}},
         machine' \in {"up", "halted", "wild"}
  PROVE  TypeOK' /\ LinksAgree' /\ Unhung(a, NewNode(type, name, dir, owner))
<1> DEFINE v == NewNode(type, name, dir, owner)
<1>1. a \in Addr /\ a \notin DOMAIN node /\ a \notin DOMAIN buffer
  BY FreshAddr
<1>2. v \in NodeType /\ v.children = <<>> /\ v.data = NULL
  BY NodeFacts, NewNodeFields
<1> HIDE DEF v
<1>3. /\ DOMAIN node' = DOMAIN node \cup {a}
      /\ node' \in [DOMAIN node' -> NodeType] /\ DOMAIN node' \subseteq Addr
      /\ LinksAgree'
  <2>1. node' = Store(node, a, v)
    BY DEF v
  <2>2. QED BY <1>1, <1>2, <2>1, NodeStored
<1>4. node'[a] = v /\ \A m \in DOMAIN node : node'[m] = node[m]
  BY <1>1 DEF Store, v
<1>5. TypeOK'
  BY <1>1, <1>3, NoDelete DEF TypeOK
<1>6. QED BY <1>1, <1>3, <1>4, <1>5 DEF v, Unhung

LEMMA UnderFileStep ==
  ASSUME IInv, NEW type \in {"file", "dir"}, NEW name \in Names, NEW file \in Linked,
         NEW owner \in Users, NEW a, CreateUnderFile(a, type, name, file, owner)
  PROVE  /\ IInv'
         /\ Linked' = Linked
         /\ \A m \in DOMAIN node : node'[m] = node[m]
<1> DEFINE v == NewNode(type, name, file, owner)
<1>1. /\ TypeOK /\ LinksAgree /\ RootInv /\ NothingLost
      /\ deleting = <<>> /\ machine = "up" /\ a \in MallocMay(FreeAddr)
      /\ UNCHANGED <<fs_root, buffer, deleting, machine>> /\ leaked' = leaked \cup {a}
      /\ node' = Store(node, a, v)
  BY DEF IInv, CreateUnderFile, Idle
<1>2. file \in DOMAIN node /\ fs_root \in DOMAIN node /\ file \in Addr
  BY <1>1, LinkedParent, NodeFacts
<1>3. /\ TypeOK' /\ LinksAgree' /\ a \in Addr \ DOMAIN node
      /\ DOMAIN node' = DOMAIN node \cup {a}
      /\ node'[a] = v /\ \A m \in DOMAIN node : node'[m] = node[m]
  <2>1. TypeOK' /\ LinksAgree' /\ Unhung(a, v)
    BY <1>1, <1>2, StoredLocal
  <2>2. QED BY <2>1 DEF Unhung
<1>4. v \in NodeType /\ v.children = <<>> /\ v.data = NULL
  BY <1>2, NewNodeFields
<1> HIDE DEF v
<1>5. Linked' = Linked /\ Doomed = {} /\ deleting' = <<>>
  BY <1>1, <1>2, <1>3, <1>4, StoredLinked DEF Doomed
<1>6. RootInv'
  BY <1>1, <1>2, <1>3 DEF RootInv
<1>7. NothingLost'
  <2>1. DOMAIN node' = Linked' \cup Doomed' \cup leaked'
    BY <1>1, <1>3, <1>5, NoDelete DEF NothingLost
  <2>2. QED BY <1>1, <1>3, <1>4, <2>1, DataKept
<1>8. QED BY <1>3, <1>5, <1>6, <1>7, NoDelete DEF IInv

LEMMA BeyondArrayStep ==
  ASSUME IInv, NEW type \in {"file", "dir"}, NEW name \in Names, NEW dir \in Linked,
         NEW owner \in Users, NEW a, CreateBeyondArray(a, type, name, dir, owner)
  PROVE  IInv' /\ machine' = "wild" /\ fs_root' = fs_root /\ machine = "up"
         /\ \A m \in DOMAIN node : node'[m] = node[m]
<1> DEFINE v == NewNode(type, name, dir, owner)
<1>1. /\ TypeOK /\ LinksAgree /\ RootInv /\ NothingLost
      /\ deleting = <<>> /\ machine = "up" /\ machine' = "wild" /\ a \in MallocMay(FreeAddr)
      /\ UNCHANGED <<fs_root, buffer, deleting, leaked>>
      /\ node' = Store(node, a, v)
  BY DEF IInv, CreateBeyondArray, Idle
<1>2. dir \in DOMAIN node /\ fs_root \in DOMAIN node
  BY <1>1, LinkedParent, NodeFacts
<1>3. /\ TypeOK' /\ LinksAgree' /\ DOMAIN node' = DOMAIN node \cup {a}
      /\ node'[a] = v /\ \A m \in DOMAIN node : node'[m] = node[m]
  <2>1. TypeOK' /\ LinksAgree' /\ Unhung(a, v)
    BY <1>1, <1>2, StoredLocal
  <2>2. QED BY <2>1 DEF Unhung
<1>4. v.data = NULL
  BY DEF NewNode
<1> HIDE DEF v
<1>5. RootInv'
  BY <1>1, <1>2, <1>3 DEF RootInv
<1>6. NothingLost'
  BY <1>1, <1>3, <1>4 DEF NothingLost
<1>7. QED BY <1>1, <1>3, <1>5, <1>6, NoDelete DEF IInv

\* Everything but the bytes stays: the tree is the same.
LEMMA SameNodes ==
  ASSUME IInv, UNCHANGED <<fs_root, node, deleting, leaked>>
  PROVE  /\ Linked' = Linked /\ Doomed' = Doomed
         /\ LinksAgree' /\ RootInv' /\ DeletionPath' /\ StackInv'
<1>1. Linked' = Linked /\ Doomed' = Doomed
  BY ReachIsFrom, ReachNext
<1>2. LinksAgree' /\ RootInv'
  BY DEF IInv, LinksAgree, RootInv
<1>3. StackInv'
  BY <1>1 DEF IInv, StackInv
<1>4. DeletionPath'
  BY <1>1 DEF IInv, DeletionPath, Kids
<1>5. QED BY <1>1, <1>2, <1>3, <1>4

LEMMA HaltStep ==
  ASSUME IInv, CreateOutOfMemory
  PROVE  IInv' /\ machine' = "halted" /\ fs_root' = fs_root /\ machine = "up"
<1>1. /\ machine' = "halted" /\ machine = "up"
      /\ UNCHANGED <<fs_root, node, buffer, deleting, leaked>>
  BY DEF CreateOutOfMemory, Idle
<1>2. TypeOK' /\ NothingLost'
  BY <1>1 DEF IInv, TypeOK, NothingLost
<1>3. QED BY <1>1, <1>2, SameNodes DEF IInv

LEMMA StutterStep ==
  ASSUME IInv, UNCHANGED fsVars
  PROVE  IInv' /\ Linked' = Linked
<1>1. UNCHANGED <<fs_root, node, buffer, deleting, leaked, machine>>
  BY DEF fsVars
<1>2. TypeOK'
  BY <1>1 DEF IInv, TypeOK
<1>3. NothingLost'
  BY <1>1, SameNodes DEF IInv, NothingLost
<1>4. QED BY <1>1, <1>2, <1>3, SameNodes DEF IInv

-----------------------------------------------------------------------------
(* Writing *)

LEMMA KeptFields ==
  ASSUME TypeOK, LinksAgree, NEW file \in DOMAIN node
  PROVE  /\ DOMAIN Kept(file) = DOMAIN buffer \ {node[file].data}
         /\ \A b \in DOMAIN Kept(file) : Kept(file)[b] = buffer[b]
         /\ Kept(file) \in [DOMAIN Kept(file) -> Contents]
<1>1. DOMAIN buffer \subseteq Addr /\ buffer \in [DOMAIN buffer -> Contents] /\ NULL \notin Addr
  BY FileTreeAssumption DEF TypeOK
<1>2. CASE node[file].data = NULL
  BY <1>1, <1>2 DEF Kept
<1>3. CASE node[file].data # NULL
  BY <1>1, <1>3 DEF Kept, Drop
<1>4. QED BY <1>2, <1>3

LEMMA DataLocal ==
  ASSUME TypeOK, LinksAgree, NEW file \in DOMAIN node, node[file].type = "file", NEW d \in Addr \cup {NULL},
         node' = [node EXCEPT ![file].data = d], UNCHANGED <<fs_root, leaked>>
  PROVE  /\ DOMAIN node' = DOMAIN node
         /\ node' \in [DOMAIN node' -> NodeType]
         /\ LinksAgree'
         /\ \A m \in DOMAIN node : m # file => node'[m] = node[m]
         /\ node'[file].data = d /\ node'[file].type = node[file].type
         /\ node'[file].name = node[file].name /\ node'[file].parent = node[file].parent
         /\ node'[file].owner = node[file].owner
         /\ \A m \in DOMAIN node : node'[m].children = node[m].children
<1>1. node[file] \in NodeType
  BY NodeFacts
<1>2. /\ DOMAIN node' = DOMAIN node
      /\ node'[file] = [node[file] EXCEPT !.data = d]
      /\ \A m \in DOMAIN node : m # file => node'[m] = node[m]
  BY DEF TypeOK
<1>3. /\ node'[file] \in NodeType
      /\ node'[file].data = d /\ node'[file].type = node[file].type
      /\ node'[file].name = node[file].name /\ node'[file].parent = node[file].parent
      /\ node'[file].owner = node[file].owner /\ node'[file].children = node[file].children
  <2>1. /\ [node[file] EXCEPT !.data = d] \in NodeType
        /\ [node[file] EXCEPT !.data = d].data = d
        /\ [node[file] EXCEPT !.data = d].type = node[file].type
        /\ [node[file] EXCEPT !.data = d].name = node[file].name
        /\ [node[file] EXCEPT !.data = d].owner = node[file].owner
        /\ [node[file] EXCEPT !.data = d].parent = node[file].parent
        /\ [node[file] EXCEPT !.data = d].children = node[file].children
    BY <1>1, DataSet
  <2>2. QED BY <1>2, <2>1, Zenon
<1>4. node' \in [DOMAIN node' -> NodeType]
  BY <1>2, <1>3 DEF TypeOK
<1>5. \A m \in DOMAIN node :
        /\ node'[m].children = node[m].children /\ node'[m].parent = node[m].parent
        /\ node'[m].type = node[m].type /\ m # file => node'[m].data = node[m].data
  BY <1>2, <1>3
<1>6. LinksAgree'
  <2>1. SUFFICES ASSUME NEW n \in DOMAIN node
                 PROVE  /\ Len(node'[n].children) <= MaxChildren
                        /\ node'[n].type = "file" => node'[n].children = <<>>
                        /\ node'[n].type = "dir" => node'[n].data = NULL
                        /\ \A i \in DOMAIN node'[n].children :
                             /\ node'[n].children[i] \in DOMAIN node \ ({fs_root} \cup leaked)
                             /\ node'[node'[n].children[i]].parent = n
                             /\ \A j \in DOMAIN node'[n].children :
                                  node'[n].children[j] = node'[n].children[i] => i = j
    BY <1>2 DEF LinksAgree
  <2>2. /\ Len(node[n].children) <= MaxChildren
        /\ node[n].type = "file" => node[n].children = <<>>
        /\ node[n].type = "dir" => node[n].data = NULL
        /\ \A i \in DOMAIN node[n].children :
             /\ node[n].children[i] \in DOMAIN node
             /\ node[n].children[i] # fs_root
             /\ node[n].children[i] \notin leaked
             /\ node[node[n].children[i]].parent = n
        /\ \A i, j \in DOMAIN node[n].children :
             node[n].children[i] = node[n].children[j] => i = j
    BY LinksLocal
  <2>3. n = file => node'[n].type # "dir"
    BY <1>3
  <2>4. QED BY <1>5, <2>2, <2>3
<1>7. QED BY <1>2, <1>3, <1>4, <1>5, <1>6

LEMMA DataWritten ==
  ASSUME IInv, NEW file \in DOMAIN node, NEW d \in Addr \cup {NULL},
         node' = [node EXCEPT ![file].data = d], deleting' = <<>>, UNCHANGED <<fs_root, leaked>>,
         node[file].type = "file"
  PROVE  Linked' = Linked /\ RootInv'
<1>1. TypeOK /\ LinksAgree /\ RootInv
  BY DEF IInv
<1>2. /\ DOMAIN node' = DOMAIN node
      /\ \A m \in DOMAIN node : m # file => node'[m] = node[m]
      /\ node'[file].type = node[file].type /\ node'[file].parent = node[file].parent
      /\ \A m \in DOMAIN node : node'[m].children = node[m].children
  BY <1>1, DataLocal
<1>3. RootInv'
  BY <1>1, <1>2 DEF RootInv, TypeOK
<1>4. GraphOf(node') = GraphOf(node)
  <2>1. \A m \in DOMAIN node : KidsOf(node', m) = KidsOf(node, m)
    BY <1>2 DEF KidsOf
  <2>2. QED BY <1>2, <2>1 DEF GraphOf
<1>5. Linked' = Linked
  BY <1>4, ReachIsFrom, ReachNext
<1>6. QED BY <1>3, <1>5

LEMMA EraseStep ==
  ASSUME IInv, NEW file \in DOMAIN node, Erase(file)
  PROVE  IInv' /\ Linked' = Linked
<1>1. /\ TypeOK /\ LinksAgree /\ RootInv /\ NothingLost /\ machine = "up" /\ deleting = <<>>
      /\ node[file].type = "file" /\ buffer' = Kept(file)
      /\ node' = [node EXCEPT ![file].data = NULL]
      /\ UNCHANGED <<fs_root, deleting, leaked, machine>>
  BY DEF IInv, Erase, Idle
<1>2. file \in DOMAIN node
  OBVIOUS
<1>3. /\ Linked' = Linked /\ RootInv' /\ LinksAgree' /\ DOMAIN node' = DOMAIN node
      /\ node' \in [DOMAIN node' -> NodeType]
      /\ \A m \in DOMAIN node : m # file => node'[m] = node[m]
      /\ node'[file].data = NULL
  BY <1>1, <1>2, DataWritten, DataLocal
<1>4. /\ DOMAIN buffer' = DOMAIN buffer \ {node[file].data}
      /\ buffer' \in [DOMAIN buffer' -> Contents]
  BY <1>1, <1>2, KeptFields
<1>5. deleting' = <<>> /\ Doomed = {}
  BY <1>1 DEF Doomed
<1>6. TypeOK'
  BY <1>1, <1>3, <1>4, <1>5, NoDelete DEF TypeOK
<1>7. NothingLost'
  <2>1. /\ DOMAIN node = Linked \cup Doomed \cup leaked
        /\ DOMAIN buffer = {node[n].data : n \in DOMAIN node} \ {NULL}
        /\ \A m, n \in DOMAIN node : node[m].data = node[n].data /\ node[m].data # NULL => m = n
    BY <1>1 DEF NothingLost
  <2>2. \A m \in DOMAIN node : node'[m].data = IF m = file THEN NULL ELSE node[m].data
    BY <1>3
  <2>3. {node'[n].data : n \in DOMAIN node} \ {NULL}
          = ({node[n].data : n \in DOMAIN node} \ {NULL}) \ {node[file].data}
    <3>1. ASSUME NEW m \in DOMAIN node, node'[m].data # NULL
          PROVE  node[m].data = node'[m].data /\ node[m].data # node[file].data
      BY <1>2, <2>1, <2>2, <3>1
    <3>2. ASSUME NEW m \in DOMAIN node, node[m].data # NULL, node[m].data # node[file].data
          PROVE  node'[m].data = node[m].data
      BY <2>2, <3>2
    <3>3. QED BY <3>1, <3>2
  <2>4. \A m, n \in DOMAIN node' : node'[m].data = node'[n].data /\ node'[m].data # NULL => m = n
    BY <1>3, <2>1, <2>2
  <2>5. DOMAIN node' = Linked' \cup Doomed' \cup leaked'
    BY <1>1, <1>3, <1>5, <2>1, NoDelete
  <2>6. DOMAIN buffer' = {node'[n].data : n \in DOMAIN node'} \ {NULL}
    BY <1>3, <1>4, <2>1, <2>3
  <2>7. QED BY <2>4, <2>5, <2>6 DEF NothingLost
<1>8. QED BY <1>3, <1>5, <1>6, <1>7, NoDelete DEF IInv

LEMMA FreshBuffer ==
  ASSUME TypeOK, NEW S, NEW a \in MallocMay(Addr \ S)
  PROVE  a \in Addr \ S
<1>1. Addr \ S \in SUBSET Addr
  OBVIOUS
<1>2. QED BY <1>1, FileTreeAssumption

LEMMA WriteStep ==
  ASSUME IInv, NEW file \in DOMAIN node, NEW a, NEW bytes \in Contents, Write(a, file, bytes)
  PROVE  IInv' /\ Linked' = Linked
<1>1. /\ TypeOK /\ LinksAgree /\ RootInv /\ NothingLost /\ machine = "up" /\ deleting = <<>>
      /\ node[file].type = "file" /\ buffer' = Store(Kept(file), a, bytes)
      /\ a \in MallocMay(Addr \ (DOMAIN node \cup DOMAIN Kept(file)))
      /\ node' = [node EXCEPT ![file].data = a]
      /\ UNCHANGED <<fs_root, deleting, leaked, machine>>
  BY DEF IInv, Write, Idle
<1>2. file \in DOMAIN node
  OBVIOUS
<1>3. a \in Addr /\ a \notin DOMAIN node /\ a \notin DOMAIN Kept(file) /\ a # NULL
  BY <1>1, FreshBuffer, FileTreeAssumption
<1>4. /\ Linked' = Linked /\ RootInv' /\ LinksAgree' /\ DOMAIN node' = DOMAIN node
      /\ node' \in [DOMAIN node' -> NodeType]
      /\ \A m \in DOMAIN node : m # file => node'[m] = node[m]
      /\ node'[file].data = a
  <2>1. a \in Addr \cup {NULL} /\ deleting' = <<>>
    BY <1>1, <1>3
  <2>2. QED BY <1>1, <1>2, <2>1, DataWritten, DataLocal
<1>5. /\ DOMAIN Kept(file) = DOMAIN buffer \ {node[file].data}
      /\ Kept(file) \in [DOMAIN Kept(file) -> Contents]
  BY <1>1, <1>2, KeptFields
<1>6. /\ DOMAIN buffer' = (DOMAIN buffer \ {node[file].data}) \cup {a}
      /\ buffer' \in [DOMAIN buffer' -> Contents]
  BY <1>1, <1>5 DEF Store
<1>7. deleting' = <<>> /\ Doomed = {}
  BY <1>1 DEF Doomed
<1>8. TypeOK'
  BY <1>1, <1>3, <1>4, <1>6, <1>7, NoDelete DEF TypeOK
<1>9. NothingLost'
  <2>1. /\ DOMAIN node = Linked \cup Doomed \cup leaked
        /\ DOMAIN buffer = {node[n].data : n \in DOMAIN node} \ {NULL}
        /\ \A m, n \in DOMAIN node : node[m].data = node[n].data /\ node[m].data # NULL => m = n
    BY <1>1 DEF NothingLost
  <2>2. \A m \in DOMAIN node : node'[m].data = IF m = file THEN a ELSE node[m].data
    BY <1>4
  <2>3. \A m \in DOMAIN node : m # file => node[m].data # a
    <3>1. SUFFICES ASSUME NEW m \in DOMAIN node, m # file, node[m].data = a PROVE FALSE
      OBVIOUS
    <3>2. a \in DOMAIN buffer /\ a # node[file].data
      BY <1>2, <1>3, <2>1, <3>1
    <3>3. QED BY <1>3, <1>5, <3>2
  <2>4. {node'[n].data : n \in DOMAIN node} \ {NULL}
          = (({node[n].data : n \in DOMAIN node} \ {NULL}) \ {node[file].data}) \cup {a}
    <3>1. ASSUME NEW m \in DOMAIN node, m # file, node[m].data # NULL
          PROVE  node[m].data # node[file].data
      BY <1>2, <2>1, <3>1
    <3>2. ASSUME NEW x \in {node'[n].data : n \in DOMAIN node} \ {NULL}, x # a
          PROVE  x \in ({node[n].data : n \in DOMAIN node} \ {NULL}) \ {node[file].data}
      BY <2>2, <3>1, <3>2
    <3>3. ASSUME NEW x \in ({node[n].data : n \in DOMAIN node} \ {NULL}) \ {node[file].data}
          PROVE  x \in {node'[n].data : n \in DOMAIN node} \ {NULL}
      BY <2>2, <3>3
    <3>4. a \in {node'[n].data : n \in DOMAIN node} \ {NULL}
      BY <1>2, <1>3, <2>2
    <3>5. QED BY <3>2, <3>3, <3>4
  <2>5. \A m, n \in DOMAIN node' : node'[m].data = node'[n].data /\ node'[m].data # NULL => m = n
    BY <1>4, <2>1, <2>2, <2>3
  <2>6. DOMAIN node' = Linked' \cup Doomed' \cup leaked'
    BY <1>1, <1>4, <1>7, <2>1, NoDelete
  <2>7. DOMAIN buffer' = {node'[n].data : n \in DOMAIN node'} \ {NULL}
    BY <1>4, <1>6, <2>1, <2>4
  <2>8. QED BY <2>5, <2>6, <2>7 DEF NothingLost
<1>10. QED BY <1>4, <1>7, <1>8, <1>9, NoDelete DEF IInv

LEMMA WriteHaltStep ==
  ASSUME IInv, NEW file \in DOMAIN node, WriteOutOfMemory(file)
  PROVE  IInv' /\ machine' = "halted" /\ fs_root' = fs_root /\ machine = "up"
<1>1. /\ TypeOK /\ LinksAgree /\ RootInv /\ NothingLost
      /\ machine = "up" /\ machine' = "halted" /\ buffer' = Kept(file)
      /\ UNCHANGED <<fs_root, node, deleting, leaked>>
  BY DEF IInv, WriteOutOfMemory, Idle
<1>2. file \in DOMAIN node
  OBVIOUS
<1>3. DOMAIN buffer' \subseteq DOMAIN buffer /\ buffer' \in [DOMAIN buffer' -> Contents]
  BY <1>1, <1>2, KeptFields
<1>4. TypeOK' /\ NothingLost'
  BY <1>1, <1>3 DEF TypeOK, NothingLost
<1>5. QED BY <1>1, <1>4, SameNodes DEF IInv

-----------------------------------------------------------------------------
(* Deleting *)

\* h is the heap with n in nobody's array, and otherwise the same.
TakenOut(h, n) ==
  /\ h \in [DOMAIN node -> NodeType]
  /\ \A m \in DOMAIN node :
       /\ h[m].type = node[m].type /\ h[m].name = node[m].name
       /\ h[m].parent = node[m].parent /\ h[m].owner = node[m].owner
       /\ h[m].data = node[m].data
       /\ Len(h[m].children) <= Len(node[m].children)
       /\ KidsOf(h, m) = KidsOf(node, m) \ {n}
       /\ \A k, l \in DOMAIN h[m].children :
            h[m].children[k] = h[m].children[l] => k = l
       /\ InOrder(node[m].children, h[m].children)
       /\ m # node[n].parent => h[m] = node[m]

\* fs_remove_child takes one node out of one array and touches nothing else.
LEMMA ChildRemoved ==
  ASSUME TypeOK, LinksAgree, NEW n \in DOMAIN node, NEW p, node[n].parent = p,
         NEW h, h = fs_remove_child(node, p, n)
  PROVE  TakenOut(h, n)
<1>1. p \in DOMAIN node => p # NULL /\ node[p] \in NodeType /\ node[p].children \in Seq(Addr)
  BY NodeFacts
<1>2. \A m \in DOMAIN node :
        /\ node[m] \in NodeType
        /\ \A k, l \in DOMAIN node[m].children :
             node[m].children[k] = node[m].children[l] => k = l
        /\ InOrder(node[m].children, node[m].children)
        /\ Len(node[m].children) <= Len(node[m].children)
  <2>1. SUFFICES ASSUME NEW m \in DOMAIN node
                 PROVE  /\ node[m] \in NodeType
                        /\ \A k, l \in DOMAIN node[m].children :
                             node[m].children[k] = node[m].children[l] => k = l
                        /\ InOrder(node[m].children, node[m].children)
                        /\ Len(node[m].children) <= Len(node[m].children)
    OBVIOUS
  <2> DEFINE s == node[m].children
  <2>2. node[m] \in NodeType /\ s \in Seq(Addr) /\ \A k, l \in DOMAIN s : s[k] = s[l] => k = l
    BY NodeFacts
  <2> HIDE DEF s
  <2>3. InOrder(s, s) /\ Len(s) <= Len(s)
    BY <2>2 DEF InOrder
  <2>4. QED BY <2>2, <2>3 DEF s
<1>3. \A m \in DOMAIN node : m # p => n \notin KidsOf(node, m)
  BY LinkFacts DEF PointBack
<1>4. CASE p \notin DOMAIN node \/ node[p].type # "dir"
  <2>1. h = node
    <3>1. CASE p \in DOMAIN node
      BY <1>4, <3>1 DEF fs_remove_child
    <3>2. CASE p \notin DOMAIN node
      <4>1. node = [m \in DOMAIN node |-> node[m]]
        BY DEF TypeOK
      <4>2. [node EXCEPT ![p].children = Without(node, p, n)] = node
        BY <3>2, <4>1
      <4>3. QED BY <4>2 DEF fs_remove_child
    <3>3. QED BY <3>1, <3>2
  <2>2. p \in DOMAIN node => n \notin KidsOf(node, p)
    <3>1. p \in DOMAIN node => node[p].type = "file" /\ node[p].children = <<>>
      BY <1>4, NodeFacts, LinksLocal
    <3>2. QED BY <3>1 DEF KidsOf
  <2>3. \A m \in DOMAIN node : KidsOf(node, m) = KidsOf(node, m) \ {n}
    BY <1>3, <2>2
  <2>4. node \in [DOMAIN node -> NodeType]
    BY DEF TypeOK
  <2>5. QED BY <1>2, <2>1, <2>3, <2>4 DEF TakenOut
<1>5. CASE p \in DOMAIN node /\ node[p].type = "dir"
  <2>1. PICK s, t : s = node[p].children /\ t = Without(node, p, n)
    OBVIOUS
  <2>2. h = [node EXCEPT ![p].children = t]
    BY <1>1, <1>5, <2>1 DEF fs_remove_child
  <2>3. /\ t \in Seq(Addr) /\ Len(t) <= Len(s)
        /\ Entries(t) = Entries(s) \ {n}
        /\ \A k, l \in DOMAIN t : t[k] = t[l] => k = l
        /\ InOrder(s, t)
    <3>1. s \in Seq(Addr) /\ \A i, j \in DOMAIN s : s[i] = s[j] => i = j
      BY <1>5, <2>1, NodeFacts
    <3>2. QED BY <2>1, <3>1, ShiftedKids
  <2>4. /\ DOMAIN h = DOMAIN node /\ h = [m \in DOMAIN node |-> h[m]]
        /\ h[p] = [node[p] EXCEPT !.children = t]
        /\ \A m \in DOMAIN node : m # p => h[m] = node[m]
    BY <1>5, <2>2 DEF TypeOK
  <2>5. /\ h[p] \in NodeType /\ h[p].children = t
        /\ h[p].type = node[p].type /\ h[p].name = node[p].name
        /\ h[p].parent = node[p].parent /\ h[p].owner = node[p].owner
        /\ h[p].data = node[p].data
    <3>1. /\ [node[p] EXCEPT !.children = t] \in NodeType
          /\ [node[p] EXCEPT !.children = t].children = t
          /\ [node[p] EXCEPT !.children = t].type = node[p].type
          /\ [node[p] EXCEPT !.children = t].name = node[p].name
          /\ [node[p] EXCEPT !.children = t].owner = node[p].owner
          /\ [node[p] EXCEPT !.children = t].parent = node[p].parent
          /\ [node[p] EXCEPT !.children = t].data = node[p].data
      BY <1>1, <1>5, <2>3, ChildrenSet
    <3>2. QED BY <2>4, <3>1, Zenon
  <2>6. KidsOf(h, p) = KidsOf(node, p) \ {n}
    <3>1. KidsOf(node, p) = Entries(s)
      BY <2>1 DEF KidsOf, Entries
    <3>2. KidsOf(h, p) = Entries(t)
      BY <2>5 DEF KidsOf, Entries
    <3>3. QED BY <2>3, <3>1, <3>2
  <2>7. \A m \in DOMAIN node : m # p => KidsOf(h, m) = KidsOf(node, m) \ {n}
    <3>1. \A m \in DOMAIN node : m # p => KidsOf(h, m) = KidsOf(node, m)
      BY <2>4 DEF KidsOf
    <3>2. QED BY <1>3, <3>1
  <2>8. ASSUME NEW m \in DOMAIN node, m # p
        PROVE  /\ h[m] \in NodeType
               /\ h[m].type = node[m].type /\ h[m].name = node[m].name
               /\ h[m].parent = node[m].parent /\ h[m].owner = node[m].owner
               /\ h[m].data = node[m].data
               /\ Len(h[m].children) <= Len(node[m].children)
               /\ KidsOf(h, m) = KidsOf(node, m) \ {n}
               /\ \A k, l \in DOMAIN h[m].children :
                    h[m].children[k] = h[m].children[l] => k = l
               /\ InOrder(node[m].children, h[m].children)
               /\ h[m] = node[m]
    BY <1>2, <2>4, <2>7, <2>8
  <2>9. /\ Len(h[p].children) <= Len(node[p].children)
        /\ KidsOf(h, p) = KidsOf(node, p) \ {n}
        /\ \A k, l \in DOMAIN h[p].children :
             h[p].children[k] = h[p].children[l] => k = l
        /\ InOrder(node[p].children, h[p].children)
    BY <2>1, <2>3, <2>5, <2>6
  <2>10. h \in [DOMAIN node -> NodeType]
    BY <2>4, <2>5, <2>8
  <2>11. QED BY <2>5, <2>8, <2>9, <2>10 DEF TakenOut
<1>6. QED BY <1>4, <1>5

\* The step takes n out of its parent's array, and perhaps frees it.
Unlinked(n) ==
  /\ DOMAIN node' \in {DOMAIN node, DOMAIN node \ {n}}
  /\ node' \in [DOMAIN node' -> NodeType]
  /\ \A m \in DOMAIN node' :
       /\ Alike(m)
       /\ KidsOf(node', m) = KidsOf(node, m) \ {n}
       /\ InOrder(node[m].children, node'[m].children)
       /\ GraphOf(node')[m] = GraphOf(node)[m] \ {n}
       /\ m # node[n].parent => node'[m] = node[m]
  /\ GraphOf(node') \in [DOMAIN node' -> SUBSET DOMAIN node']

LEMMA NodeUnlinked ==
  ASSUME TypeOK, LinksAgree, NEW n \in DOMAIN node, NEW p, node[n].parent = p,
         \/ node' = fs_remove_child(node, p, n)
         \/ node' = Drop(fs_remove_child(node, p, n), n) /\ KidsOf(node, n) = {},
         fs_root' = fs_root, leaked' \subseteq leaked
  PROVE  LinksAgree' /\ Unlinked(n)
<1>1. PICK h : h = fs_remove_child(node, p, n)
  OBVIOUS
<1>2. /\ h \in [DOMAIN node -> NodeType]
      /\ \A m \in DOMAIN node :
           /\ h[m].type = node[m].type /\ h[m].name = node[m].name
           /\ h[m].parent = node[m].parent /\ h[m].owner = node[m].owner
           /\ h[m].data = node[m].data
           /\ Len(h[m].children) <= Len(node[m].children)
           /\ KidsOf(h, m) = KidsOf(node, m) \ {n}
           /\ \A k, l \in DOMAIN h[m].children :
                h[m].children[k] = h[m].children[l] => k = l
           /\ InOrder(node[m].children, h[m].children)
           /\ m # p => h[m] = node[m]
  <2>1. TakenOut(h, n)
    BY <1>1, ChildRemoved
  <2>2. QED BY <2>1 DEF TakenOut
<1>3. /\ DOMAIN node' \in {DOMAIN node, DOMAIN node \ {n}}
      /\ \A m \in DOMAIN node' : node'[m] = h[m]
      /\ node' = [m \in DOMAIN node' |-> node'[m]]
      /\ DOMAIN node' # DOMAIN node => KidsOf(node, n) = {}
  <2>1. CASE node' = h
    BY <1>2, <2>1
  <2>2. CASE node' = Drop(h, n) /\ KidsOf(node, n) = {}
    BY <1>2, <2>2 DEF Drop
  <2>3. QED BY <1>1, <2>1, <2>2
<1>4. DOMAIN node' \subseteq DOMAIN node
  BY <1>3
<1>5. \A m \in DOMAIN node' :
        /\ node'[m] \in NodeType /\ Alike(m)
        /\ Len(node'[m].children) <= Len(node[m].children)
        /\ KidsOf(node', m) = KidsOf(node, m) \ {n}
        /\ \A k, l \in DOMAIN node'[m].children :
             node'[m].children[k] = node'[m].children[l] => k = l
        /\ InOrder(node[m].children, node'[m].children)
        /\ m # p => node'[m] = node[m]
  <2>1. SUFFICES ASSUME NEW m \in DOMAIN node'
                 PROVE  /\ node'[m] \in NodeType /\ Alike(m)
                        /\ Len(node'[m].children) <= Len(node[m].children)
                        /\ KidsOf(node', m) = KidsOf(node, m) \ {n}
                        /\ \A k, l \in DOMAIN node'[m].children :
                             node'[m].children[k] = node'[m].children[l] => k = l
                        /\ InOrder(node[m].children, node'[m].children)
                        /\ m # p => node'[m] = node[m]
    OBVIOUS
  <2>2. m \in DOMAIN node /\ node'[m] = h[m]
    BY <1>3, <1>4
  <2>3. KidsOf(node', m) = KidsOf(h, m)
    BY <2>2 DEF KidsOf
  <2>4. Alike(m)
    BY <1>2, <2>2 DEF Alike
  <2>5. QED BY <1>2, <2>2, <2>3, <2>4
<1>6. node' \in [DOMAIN node' -> NodeType]
  BY <1>3, <1>5
<1>7. \A m \in DOMAIN node' : \A c \in KidsOf(node', m) :
        c \in DOMAIN node' /\ node'[c].parent = m /\ c # fs_root /\ c \notin leaked
  <2>1. SUFFICES ASSUME NEW m \in DOMAIN node', NEW c \in KidsOf(node', m)
                 PROVE  c \in DOMAIN node' /\ node'[c].parent = m /\ c # fs_root /\ c \notin leaked
    OBVIOUS
  <2>2. m \in DOMAIN node /\ c \in KidsOf(node, m) /\ c # n
    BY <1>4, <1>5
  <2>3. c \in DOMAIN node /\ node[c].parent = m /\ c # fs_root /\ c \notin leaked
    BY <2>2, LinkFacts DEF PointBack
  <2>4. c \in DOMAIN node'
    BY <1>3, <2>2, <2>3
  <2>5. QED BY <1>5, <2>3, <2>4 DEF Alike
<1>8. LinksAgree'
  <2>1. SUFFICES ASSUME NEW m \in DOMAIN node'
                 PROVE  /\ Len(node'[m].children) <= MaxChildren
                        /\ node'[m].type = "file" => node'[m].children = <<>>
                        /\ node'[m].type = "dir" => node'[m].data = NULL
                        /\ \A i \in DOMAIN node'[m].children :
                             /\ node'[m].children[i] \in DOMAIN node' \ ({fs_root'} \cup leaked')
                             /\ node'[node'[m].children[i]].parent = m
                             /\ \A j \in DOMAIN node'[m].children :
                                  node'[m].children[j] = node'[m].children[i] => i = j
    BY DEF LinksAgree
  <2>2. /\ Len(node[m].children) <= MaxChildren
        /\ node[m].type = "file" => node[m].children = <<>>
        /\ node[m].type = "dir" => node[m].data = NULL
        /\ Len(node[m].children) \in Nat /\ Len(node'[m].children) \in Nat
        /\ node'[m].children \in Seq(Addr)
    <3>1. m \in DOMAIN node
      BY <1>4
    <3>2. node[m].children \in Seq(Addr) /\ node'[m].children \in Seq(Addr)
      BY <1>5, <3>1, NodeFacts, NodeFields
    <3>3. QED BY <3>1, <3>2, LinksLocal
  <2>3. Len(node'[m].children) <= MaxChildren
    BY <1>5, <2>2, FileTreeAssumption
  <2>4. node'[m].type = "file" => node'[m].children = <<>>
    <3>1. SUFFICES ASSUME node'[m].type = "file" PROVE node'[m].children = <<>>
      OBVIOUS
    <3>2. node[m].children = <<>>
      BY <1>5, <2>2, <3>1 DEF Alike
    <3>3. Len(node'[m].children) <= Len(node[m].children)
      BY <1>5
    <3>4. Len(node'[m].children) = 0
      BY <2>2, <3>2, <3>3
    <3>5. QED BY <2>2, <3>4
  <2>5. node'[m].type = "dir" => node'[m].data = NULL
    BY <1>5, <2>2 DEF Alike
  <2>6. ASSUME NEW i \in DOMAIN node'[m].children
        PROVE  /\ node'[m].children[i] \in DOMAIN node' \ ({fs_root'} \cup leaked')
               /\ node'[node'[m].children[i]].parent = m
               /\ \A j \in DOMAIN node'[m].children :
                    node'[m].children[j] = node'[m].children[i] => i = j
    <3>1. node'[m].children[i] \in KidsOf(node', m)
      BY DEF KidsOf
    <3>2. QED BY <1>5, <1>7, <3>1
  <2>7. QED BY <2>3, <2>4, <2>5, <2>6
<1>9. GraphOf(node') \in [DOMAIN node' -> SUBSET DOMAIN node']
      /\ \A m \in DOMAIN node' : GraphOf(node')[m] = GraphOf(node)[m] \ {n}
  <2>1. PointBack(node')
    BY <1>7 DEF PointBack
  <2>2. /\ GraphOf(node') \in [DOMAIN node' -> SUBSET DOMAIN node']
        /\ \A m \in DOMAIN node' : GraphOf(node')[m] = KidsOf(node', m)
    BY <2>1, GraphFacts
  <2>3. QED BY <1>4, <1>5, <2>2, LinkFacts
<1>10. QED BY <1>3, <1>5, <1>6, <1>8, <1>9 DEF Unlinked

LEMMA RemoveBeginStep ==
  ASSUME IInv, NEW n \in Linked, RemoveBegin(n)
  PROVE  /\ IInv'
         /\ Linked = Linked' \cup Doomed' /\ Linked' \cap Doomed' = {} /\ n \in Doomed'
         /\ DOMAIN node' = DOMAIN node /\ Unlinked(n) /\ n # fs_root /\ deleting' = <<n>>
<1> DEFINE D == DOMAIN node
           K == GraphOf(node)
           L == GraphOf(node')
           p == node[n].parent
<1>1. /\ TypeOK /\ LinksAgree /\ RootInv /\ NothingLost
      /\ deleting = <<>> /\ machine = "up" /\ p # NULL
      /\ node' = fs_remove_child(node, p, n) /\ deleting' = <<n>>
      /\ UNCHANGED <<fs_root, buffer, leaked, machine>>
  BY DEF IInv, RemoveBegin, Idle
<1>2. /\ n \in D /\ n # fs_root /\ fs_root \in D /\ fs_root # NULL
      /\ p \in Linked /\ p \in D /\ n \in KidsOf(node, p)
      /\ Linked = From(K, fs_root)
  <2>1. n \in D /\ n # fs_root /\ fs_root \in D /\ p \in Linked /\ n \in KidsOf(node, p)
        /\ Linked = From(K, fs_root)
    BY <1>1, LinkedParent
  <2>2. p \in D
    BY <1>1, <2>1, LinkedParent
  <2>3. fs_root # NULL
    BY <1>1, <2>1, NodeFacts
  <2>4. QED BY <2>1, <2>2, <2>3
<1>3. LinksAgree' /\ Unlinked(n)
  BY <1>1, <1>2, NodeUnlinked
<1>4. DOMAIN node' = D
  <2>1. TakenOut(node', n)
    BY <1>1, <1>2, ChildRemoved
  <2>2. QED BY <2>1 DEF TakenOut
<1>5. /\ node' \in [D -> NodeType]
      /\ \A m \in D :
           /\ Alike(m)
           /\ KidsOf(node', m) = KidsOf(node, m) \ {n}
           /\ L[m] = K[m] \ {n}
      /\ L \in [D -> SUBSET D]
  BY <1>3, <1>4 DEF Unlinked
<1>6. /\ From(K, fs_root) = From(L, fs_root) \cup From(L, n)
      /\ From(L, fs_root) \cap From(L, n) = {}
      /\ p \in From(L, fs_root) /\ n \in From(L, n)
  <2>1. K \in [D -> SUBSET D] /\ OneParent(K) /\ NoChild(K, fs_root) /\ n \in K[p]
    BY <1>1, <1>2, LinkFacts
  <2> HIDE DEF K, L, D, p
  <2>2. n \in From(K, fs_root)
    BY <1>2
  <2>3. QED BY <1>2, <1>5, <2>1, <2>2, FromCut, FromClosed
<1>7. Linked' = From(L, fs_root) /\ Doomed' = From(L, n) /\ Doomed = {}
  <2>1. deleting' # <<>> /\ deleting'[1] = n
    BY <1>1
  <2>2. QED BY <1>1, <1>2, <2>1, ReachNext DEF Doomed
<1>8. TypeOK'
  <2>1. deleting' \in Seq(DOMAIN node')
    BY <1>1, <1>2, <1>4
  <2>2. QED BY <1>1, <1>4, <1>5, <2>1 DEF TypeOK
<1>9. RootInv'
  BY <1>1, <1>2, <1>5 DEF RootInv, Alike
<1>10. DeletionPath'
  <2>1. Len(deleting') = 1 /\ deleting'[1] = n
    BY <1>1
  <2>2. node'[n].parent \in Linked'
    BY <1>2, <1>5, <1>6, <1>7 DEF Alike
  <2>3. \A m \in DOMAIN node' : n \notin KidsOf(node', m)
    BY <1>4, <1>5
  <2>4. Linked' \cap Doomed' = {}
    BY <1>6, <1>7
  <2>5. QED BY <2>1, <2>2, <2>3, <2>4 DEF DeletionPath, Kids, KidsOf
<1>11. StackInv'
  BY <1>1, <1>6, <1>7 DEF StackInv
<1>12. NothingLost'
  <2>1. /\ DOMAIN node = Linked \cup Doomed \cup leaked
        /\ DOMAIN buffer = {node[m].data : m \in DOMAIN node} \ {NULL}
        /\ \A l, m \in DOMAIN node : node[l].data = node[m].data /\ node[l].data # NULL => l = m
    BY <1>1 DEF NothingLost
  <2>2. DOMAIN node' = Linked' \cup Doomed' \cup leaked'
    BY <1>1, <1>2, <1>4, <1>6, <1>7, <2>1
  <2>3. \A m \in D : node'[m].data = node[m].data
    BY <1>5 DEF Alike
  <2>4. DOMAIN buffer' = {node'[m].data : m \in DOMAIN node'} \ {NULL}
    BY <1>1, <1>4, <2>1, <2>3
  <2>5. \A l, m \in DOMAIN node' : node'[l].data = node'[m].data /\ node'[l].data # NULL => l = m
    BY <1>4, <2>1, <2>3
  <2>6. QED BY <2>2, <2>4, <2>5 DEF NothingLost
<1>13. IInv'
  BY <1>3, <1>8, <1>9, <1>10, <1>11, <1>12 DEF IInv
<1>14. QED BY <1>1, <1>2, <1>3, <1>4, <1>6, <1>7, <1>13

\* What keeps fs_delete's stack in order needs no more than the links.
Chain ==
  /\ \A i, j \in DOMAIN deleting : deleting[i] = deleting[j] => i = j
  /\ \A i \in 2 .. Len(deleting) :
       node[deleting[i - 1]].children # <<>> /\ node[deleting[i - 1]].children[1] = deleting[i]
  /\ deleting # <<>> => \A n \in DOMAIN node : deleting[1] \notin KidsOf(node, n)
  /\ \A i \in DOMAIN deleting : deleting[i] # fs_root

\* fs_delete is on a path down from a node nobody points to.
LEMMA ChainFacts ==
  ASSUME TypeOK, LinksAgree, Chain, deleting # <<>>
  PROVE  /\ Len(deleting) \in Nat /\ Len(deleting) >= 1 /\ DOMAIN deleting = 1 .. Len(deleting)
         /\ deleting \in Seq(DOMAIN node)
         /\ \A i \in 1 .. Len(deleting) : deleting[i] \in DOMAIN node
         /\ \A i, j \in 1 .. Len(deleting) : deleting[i] = deleting[j] => i = j
         /\ NoChild(GraphOf(node), deleting[1])
         /\ Top = deleting[Len(deleting)] /\ Top \in DOMAIN node
         /\ \A i \in 2 .. Len(deleting) :
              /\ node[deleting[i]].parent = deleting[i - 1]
              /\ deleting[i] \in KidsOf(node, deleting[i - 1])
<1>1. deleting \in Seq(DOMAIN node)
  BY DEF TypeOK
<1>2. Len(deleting) \in Nat /\ Len(deleting) >= 1 /\ DOMAIN deleting = 1 .. Len(deleting)
  BY <1>1
<1>3. /\ \A i \in 1 .. Len(deleting) : deleting[i] \in DOMAIN node
      /\ \A i, j \in 1 .. Len(deleting) : deleting[i] = deleting[j] => i = j
  BY <1>1, <1>2 DEF Chain
<1>4. NoChild(GraphOf(node), deleting[1])
  BY LinkFacts DEF Chain, NoChild
<1>5. Top = deleting[Len(deleting)] /\ Top \in DOMAIN node
  BY <1>2, <1>3 DEF Top
<1>6. ASSUME NEW i \in 2 .. Len(deleting)
      PROVE  /\ node[deleting[i]].parent = deleting[i - 1]
             /\ deleting[i] \in KidsOf(node, deleting[i - 1])
  <2> DEFINE s == node[deleting[i - 1]].children
  <2>1. s # <<>> /\ s[1] = deleting[i]
    BY DEF Chain
  <2>2. i - 1 \in 1 .. Len(deleting) /\ deleting[i - 1] \in DOMAIN node
    BY <1>2, <1>3
  <2>3. s \in Seq(Addr)
    BY <2>2, NodeFacts
  <2>4. 1 \in DOMAIN s
    <3> HIDE DEF s
    <3>1. QED BY <2>1, <2>3
  <2>5. deleting[i] \in KidsOf(node, deleting[i - 1])
    BY <2>1, <2>4 DEF KidsOf
  <2>6. QED BY <2>2, <2>5, LinkFacts DEF PointBack
<1>7. QED BY <1>1, <1>2, <1>3, <1>4, <1>5, <1>6

LEMMA DescendLocal ==
  ASSUME TypeOK, LinksAgree, Chain, DeleteDescend
  PROVE  /\ TypeOK' /\ LinksAgree' /\ Chain'
         /\ \E c \in KidsOf(node, Top) :
              /\ c \in DOMAIN node
              /\ deleting' = Append(deleting, c)
              /\ \A i \in DOMAIN deleting : deleting[i] # c
<1> DEFINE s == node[Top].children
           len == Len(deleting)
<1>1. /\ deleting # <<>> /\ s # <<>> /\ deleting' = Append(deleting, s[1])
      /\ UNCHANGED <<fs_root, node, buffer, leaked, machine>>
  BY DEF DeleteDescend
<1>2. PICK c : c = s[1]
  OBVIOUS
<1>3. /\ len \in Nat /\ len >= 1 /\ DOMAIN deleting = 1 .. len /\ deleting \in Seq(DOMAIN node)
      /\ \A i, j \in 1 .. len : deleting[i] = deleting[j] => i = j
      /\ NoChild(GraphOf(node), deleting[1])
      /\ Top = deleting[len] /\ Top \in DOMAIN node
      /\ \A i \in 2 .. len : node[deleting[i]].parent = deleting[i - 1]
  BY <1>1, ChainFacts
<1>4. c \in KidsOf(node, Top) /\ c \in DOMAIN node /\ node[c].parent = Top
  <2>1. s \in Seq(Addr)
    BY <1>3, NodeFacts
  <2>2. 1 \in DOMAIN s
    <3> HIDE DEF s
    <3>1. QED BY <1>1, <2>1
  <2>3. c \in KidsOf(node, Top)
    BY <1>2, <2>2 DEF KidsOf
  <2>4. QED BY <1>3, <2>3, LinkFacts DEF PointBack
<1>5. \A i \in 1 .. len : deleting[i] # c
  <2>1. SUFFICES ASSUME NEW i \in 1 .. len, deleting[i] = c PROVE FALSE
    OBVIOUS
  <2>2. CASE i = 1
    BY <1>3, <1>4, <2>1, <2>2, LinkFacts DEF NoChild
  <2>3. CASE i # 1
    <3>1. i \in 2 .. len /\ i - 1 \in 1 .. len /\ len \in 1 .. len
      BY <1>3, <2>3
    <3>2. deleting[i - 1] = deleting[len]
      BY <1>3, <1>4, <2>1, <3>1
    <3>3. i - 1 = len
      BY <1>3, <3>1, <3>2
    <3>4. QED BY <1>3, <3>1, <3>3
  <2>4. QED BY <2>2, <2>3
<1>6. /\ deleting' \in Seq(DOMAIN node) /\ Len(deleting') = len + 1 /\ deleting' # <<>>
      /\ \A i \in 1 .. len : deleting'[i] = deleting[i]
      /\ deleting'[len + 1] = c /\ DOMAIN deleting' = 1 .. len + 1
  BY <1>1, <1>2, <1>3, <1>4
<1>7. TypeOK'
  BY <1>1, <1>6 DEF TypeOK
<1>8. LinksAgree'
  BY <1>1 DEF LinksAgree
<1>9. Chain'
  <2>1. ASSUME NEW i \in 1 .. len + 1, NEW j \in 1 .. len + 1, deleting'[i] = deleting'[j]
        PROVE  i = j
    BY <1>3, <1>5, <1>6, <2>1
  <2>2. ASSUME NEW i \in 2 .. len + 1
        PROVE  /\ node[deleting'[i - 1]].children # <<>>
               /\ node[deleting'[i - 1]].children[1] = deleting'[i]
    <3>1. CASE i \in 2 .. len
      <4>1. i - 1 \in 1 .. len /\ i \in 1 .. len
        BY <1>3, <3>1
      <4>2. QED BY <1>6, <3>1, <4>1 DEF Chain
    <3>2. CASE i = len + 1
      <4>1. i - 1 = len /\ len \in 1 .. len
        BY <1>3, <3>2
      <4>2. deleting'[i - 1] = Top /\ deleting'[i] = c
        BY <1>3, <1>6, <3>2, <4>1
      <4>3. QED BY <1>1, <1>2, <4>2
    <3>3. QED BY <1>3, <3>1, <3>2
  <2>3. \A n \in DOMAIN node : deleting'[1] \notin KidsOf(node, n)
    BY <1>1, <1>3, <1>6 DEF Chain
  <2>4. \A i \in 1 .. len + 1 : deleting'[i] # fs_root'
    BY <1>1, <1>3, <1>4, <1>6, LinkFacts DEF Chain
  <2>5. QED BY <1>1, <1>6, <2>1, <2>2, <2>3, <2>4 DEF Chain
<1>10. QED BY <1>1, <1>2, <1>3, <1>4, <1>5, <1>7, <1>8, <1>9

\* The data of a node goes with the node.
LEMMA BufferFields ==
  ASSUME TypeOK, NEW t \in DOMAIN node
  PROVE  /\ DOMAIN BufferWithout(t) = DOMAIN buffer \ {node[t].data}
         /\ \A b \in DOMAIN BufferWithout(t) : BufferWithout(t)[b] = buffer[b]
         /\ BufferWithout(t) \in [DOMAIN BufferWithout(t) -> Contents]
<1>1. DOMAIN buffer \subseteq Addr /\ buffer \in [DOMAIN buffer -> Contents] /\ NULL \notin Addr
  BY FileTreeAssumption DEF TypeOK
<1>2. CASE node[t].data = NULL
  BY <1>1, <1>2 DEF BufferWithout
<1>3. CASE node[t].data # NULL
  BY <1>1, <1>3 DEF BufferWithout, Drop
<1>4. QED BY <1>2, <1>3

LEMMA FinishLocal ==
  ASSUME TypeOK, LinksAgree, Chain, DeleteFinish
  PROVE  /\ TypeOK' /\ LinksAgree' /\ Chain'
         /\ Unlinked(Top) /\ KidsOf(node, Top) = {} /\ Top \in DOMAIN node
         /\ DOMAIN node' = DOMAIN node \ {Top}
         /\ Len(deleting') = Len(deleting) - 1 /\ DOMAIN deleting' = 1 .. Len(deleting) - 1
         /\ \A i \in 1 .. Len(deleting) - 1 : deleting'[i] = deleting[i] /\ deleting[i] # Top
         /\ \A b \in DOMAIN buffer' : buffer'[b] = buffer[b]
<1> DEFINE D == DOMAIN node
           len == Len(deleting)
<1>1. PICK t : t = Top
  OBVIOUS
<1>2. /\ deleting # <<>>
      /\ ~(node[t].type = "dir" /\ node[t].children # <<>>)
      /\ node' = Drop(fs_remove_child(node, node[t].parent, t), t)
      /\ buffer' = BufferWithout(t)
      /\ deleting' = SubSeq(deleting, 1, len - 1)
      /\ leaked' = leaked \ {t} /\ UNCHANGED <<fs_root, machine>>
  BY <1>1 DEF DeleteFinish
<1>3. /\ len \in Nat /\ len >= 1 /\ DOMAIN deleting = 1 .. len /\ deleting \in Seq(D)
      /\ t = deleting[len] /\ t \in D
      /\ \A i \in 1 .. len : deleting[i] \in D
      /\ \A i, j \in 1 .. len : deleting[i] = deleting[j] => i = j
      /\ \A i \in 2 .. len : node[deleting[i]].parent = deleting[i - 1]
  BY <1>1, <1>2, ChainFacts
<1>4. PICK p : p = node[t].parent
  OBVIOUS
<1>5. len > 1 => p = deleting[len - 1]
  BY <1>3, <1>4
<1>6. node[t].children = <<>> /\ KidsOf(node, t) = {}
  <2>1. node[t].children = <<>>
    BY <1>2, <1>3, NodeFacts, LinksLocal
  <2>2. QED BY <2>1 DEF KidsOf
<1>7. LinksAgree' /\ Unlinked(t)
  BY <1>2, <1>3, <1>6, NodeUnlinked
<1>8. DOMAIN node' = D \ {t}
  <2>1. TakenOut(fs_remove_child(node, node[t].parent, t), t)
    BY <1>3, ChildRemoved
  <2>2. DOMAIN fs_remove_child(node, node[t].parent, t) = D
    BY <2>1 DEF TakenOut
  <2>3. QED BY <1>2, <2>2, DropFields
<1>9. /\ node' \in [D \ {t} -> NodeType]
      /\ \A m \in D \ {t} :
           /\ KidsOf(node', m) = KidsOf(node, m) \ {t}
           /\ m # p => node'[m] = node[m]
  BY <1>4, <1>7, <1>8 DEF Unlinked
<1>10. \A i \in 1 .. len - 1 : deleting[i] \in D \ {t}
  <2>1. len \in Nat /\ len >= 1
    BY <1>3
  <2>2. \A i \in 1 .. len - 1 : i \in 1 .. len /\ i # len /\ len \in 1 .. len
    <3> HIDE DEF len
    <3>1. QED BY <2>1
  <2>3. QED BY <1>3, <2>2
<1>11. /\ deleting' \in Seq(D \ {t}) /\ Len(deleting') = len - 1
       /\ DOMAIN deleting' = 1 .. len - 1
       /\ \A i \in 1 .. len - 1 : deleting'[i] = deleting[i]
  <2>1. /\ Len(deleting') = len - 1 /\ DOMAIN deleting' = 1 .. len - 1
        /\ \A i \in 1 .. len - 1 : deleting'[i] = deleting[i]
    BY <1>2, <1>3
  <2>2. deleting' = [i \in 1 .. len - 1 |-> deleting'[i]]
    BY <1>2, <1>3
  <2>3. deleting' \in [1 .. len - 1 -> D \ {t}]
    BY <1>10, <2>1, <2>2
  <2>4. QED BY <1>3, <2>1, <2>3
<1>12. /\ DOMAIN buffer' \subseteq DOMAIN buffer /\ buffer' \in [DOMAIN buffer' -> Contents]
       /\ \A b \in DOMAIN buffer' : buffer'[b] = buffer[b]
  BY <1>2, <1>3, BufferFields
<1>13. TypeOK'
  <2>1. t # fs_root
    BY <1>3 DEF Chain
  <2>2. fs_root' \in DOMAIN node' \cup {NULL}
    BY <1>2, <1>8, <2>1 DEF TypeOK
  <2>3. QED BY <1>2, <1>3, <1>8, <1>9, <1>11, <1>12, <2>2 DEF TypeOK
<1>14. Chain'
  <2>1. ASSUME NEW i \in 1 .. len - 1, NEW j \in 1 .. len - 1, deleting'[i] = deleting'[j]
        PROVE  i = j
    BY <1>3, <1>11, <2>1
  <2>2. ASSUME NEW i \in 2 .. len - 1
        PROVE  /\ node'[deleting'[i - 1]].children # <<>>
               /\ node'[deleting'[i - 1]].children[1] = deleting'[i]
    <3>1. i \in 2 .. len /\ i \in 1 .. len - 1 /\ i - 1 \in 1 .. len - 1
          /\ i - 1 \in 1 .. len /\ len - 1 \in 1 .. len /\ len > 1 /\ i - 1 # len - 1
      <4>1. len \in Nat
        BY <1>3
      <4> HIDE DEF len
      <4>2. QED BY <4>1
    <3>2. deleting[i - 1] # p /\ deleting[i - 1] \in D \ {t}
      BY <1>3, <1>5, <1>10, <3>1
    <3>3. /\ node[deleting[i - 1]].children # <<>>
          /\ node[deleting[i - 1]].children[1] = deleting[i]
      BY <3>1 DEF Chain
    <3>4. QED BY <1>9, <1>11, <3>1, <3>2, <3>3
  <2>3. ASSUME deleting' # <<>>
        PROVE  \A n \in DOMAIN node' : deleting'[1] \notin KidsOf(node', n)
    <3>1. 1 \in 1 .. len - 1
      BY <1>3, <1>11, <2>3
    <3>2. deleting'[1] = deleting[1]
      BY <1>11, <3>1
    <3>3. \A n \in D : deleting[1] \notin KidsOf(node, n)
      BY <1>2 DEF Chain
    <3>4. QED BY <1>8, <1>9, <3>2, <3>3
  <2>4. \A i \in 1 .. len - 1 : deleting'[i] # fs_root'
    BY <1>2, <1>3, <1>11 DEF Chain
  <2>5. QED BY <1>11, <2>1, <2>2, <2>3, <2>4 DEF Chain
<1>15. QED BY <1>1, <1>3, <1>6, <1>7, <1>8, <1>10, <1>11, <1>12, <1>13, <1>14

\* Where fs_delete is: in a subtree of its own, outside the tree.
LEMMA StackFacts ==
  ASSUME IInv, deleting # <<>>
  PROVE  /\ Chain
         /\ \A i \in DOMAIN deleting : deleting[i] \in Doomed
         /\ 1 \in DOMAIN deleting /\ deleting[1] \in DOMAIN node
         /\ Doomed = From(GraphOf(node), deleting[1])
         /\ Doomed \subseteq DOMAIN node /\ Linked \subseteq DOMAIN node
         /\ Top \in Doomed /\ Top # fs_root
         /\ fs_root \in Linked /\ fs_root # NULL /\ node[deleting[1]].parent \in Linked
<1>1. /\ TypeOK /\ LinksAgree /\ StackInv /\ DeletionPath /\ deleting \in Seq(DOMAIN node)
  BY DEF IInv, TypeOK
<1>2. /\ 1 \in DOMAIN deleting /\ deleting[1] \in DOMAIN node
      /\ Top \in {deleting[i] : i \in DOMAIN deleting}
  BY <1>1 DEF Top
<1>3. \A i \in DOMAIN deleting : deleting[i] \in Doomed
  BY <1>1 DEF StackInv
<1>4. Doomed = From(GraphOf(node), deleting[1]) /\ Doomed \subseteq DOMAIN node
  <2>1. Doomed = From(GraphOf(node), deleting[1])
    BY ReachIsFrom
  <2>2. QED BY <1>1, <1>2, <2>1, LinkFacts, FromClosed
<1>5. node[deleting[1]].parent \in Linked
  BY <1>1 DEF DeletionPath
<1>6. fs_root # NULL /\ fs_root \in DOMAIN node
  BY <1>1, <1>5 DEF Linked, TypeOK
<1>7. fs_root \in Linked /\ Linked \subseteq DOMAIN node
  <2>1. Linked = From(GraphOf(node), fs_root)
    BY <1>6, ReachIsFrom
  <2>2. QED BY <1>1, <1>6, <2>1, LinkFacts, FromClosed
<1>8. \A i \in DOMAIN deleting : deleting[i] # fs_root
  BY <1>1, <1>3, <1>7 DEF DeletionPath
<1>9. Chain
  BY <1>1, <1>8 DEF Chain, StackInv, DeletionPath, Kids, KidsOf
<1>10. QED BY <1>2, <1>3, <1>4, <1>5, <1>6, <1>7, <1>8, <1>9

LEMMA DescendStep ==
  ASSUME IInv, DeleteDescend
  PROVE  /\ IInv' /\ Linked' = Linked /\ deleting # <<>>
         /\ \E c \in DOMAIN node :
              /\ deleting' = Append(deleting, c)
              /\ \A i \in DOMAIN deleting : deleting[i] # c
<1>1. /\ TypeOK /\ LinksAgree /\ RootInv /\ NothingLost /\ DeletionPath
      /\ deleting # <<>> /\ UNCHANGED <<fs_root, node, buffer, leaked, machine>>
  BY DEF IInv, DeleteDescend
<1>2. /\ Chain /\ Top \in Doomed /\ \A i \in DOMAIN deleting : deleting[i] \in Doomed
      /\ Doomed = From(GraphOf(node), deleting[1]) /\ 1 \in DOMAIN deleting
      /\ deleting[1] \in DOMAIN node /\ node[deleting[1]].parent \in Linked
  BY <1>1, StackFacts
<1>3. /\ TypeOK' /\ LinksAgree' /\ Chain'
      /\ \E c \in KidsOf(node, Top) :
           /\ c \in DOMAIN node
           /\ deleting' = Append(deleting, c)
           /\ \A i \in DOMAIN deleting : deleting[i] # c
  BY <1>1, <1>2, DescendLocal
<1>4. PICK c \in KidsOf(node, Top) :
        c \in DOMAIN node /\ deleting' = Append(deleting, c) /\ \A i \in DOMAIN deleting : deleting[i] # c
  BY <1>3
<1>5. c \in Doomed
  <2>1. Top \in DOMAIN node
    BY <1>1, <1>2, ChainFacts
  <2>2. QED BY <1>1, <1>2, <1>4, <2>1, LinkFacts, FromClosed
<1>6. /\ deleting' # <<>> /\ deleting'[1] = deleting[1]
      /\ \A i \in DOMAIN deleting' : deleting'[i] \in {deleting[j] : j \in DOMAIN deleting} \cup {c}
  <2>1. deleting \in Seq(DOMAIN node)
    BY <1>1 DEF TypeOK
  <2>2. QED BY <1>2, <1>4, <2>1
<1>7. Linked' = Linked /\ Doomed' = Doomed
  BY <1>1, <1>6, ReachIsFrom, ReachNext
<1>8. DeletionPath' /\ StackInv'
  <2>1. Linked' \cap Doomed' = {} /\ node'[deleting'[1]].parent \in Linked'
    BY <1>1, <1>2, <1>6, <1>7 DEF DeletionPath
  <2>2. \A i \in DOMAIN deleting' : deleting'[i] \in Doomed'
    BY <1>2, <1>5, <1>6, <1>7
  <2>3. QED BY <1>3, <2>1, <2>2 DEF Chain, DeletionPath, StackInv, Kids, KidsOf
<1>9. RootInv' /\ NothingLost'
  BY <1>1, <1>7 DEF RootInv, NothingLost
<1>10. QED BY <1>1, <1>3, <1>4, <1>7, <1>8, <1>9 DEF IInv

\* Data is accounted for when one node goes, with its data.
LEMMA DataDropped ==
  ASSUME TypeOK, NothingLost, machine = "up", NEW t \in DOMAIN node,
         DOMAIN node' = DOMAIN node \ {t}, \A m \in DOMAIN node' : node'[m].data = node[m].data,
         buffer' = BufferWithout(t)
  PROVE  /\ DOMAIN buffer' = {node'[n].data : n \in DOMAIN node'} \ {NULL}
         /\ \A m, n \in DOMAIN node' : node'[m].data = node'[n].data /\ node'[m].data # NULL => m = n
<1>1. /\ DOMAIN buffer = {node[n].data : n \in DOMAIN node} \ {NULL}
      /\ \A m, n \in DOMAIN node : node[m].data = node[n].data /\ node[m].data # NULL => m = n
  BY DEF NothingLost
<1>2. DOMAIN buffer' = DOMAIN buffer \ {node[t].data}
  BY BufferFields
<1>3. \A m, n \in DOMAIN node' : node'[m].data = node'[n].data /\ node'[m].data # NULL => m = n
  BY <1>1
<1>4. DOMAIN buffer' = {node'[n].data : n \in DOMAIN node'} \ {NULL}
  <2>1. ASSUME NEW b \in DOMAIN buffer' PROVE b \in {node'[n].data : n \in DOMAIN node'} \ {NULL}
    <3>1. PICK n \in DOMAIN node : b = node[n].data /\ b # NULL /\ b # node[t].data
      BY <1>1, <1>2
    <3>2. n \in DOMAIN node' /\ node'[n].data = b
      BY <3>1
    <3>3. QED BY <3>1, <3>2
  <2>2. ASSUME NEW n \in DOMAIN node', node'[n].data # NULL PROVE node'[n].data \in DOMAIN buffer'
    BY <1>1, <1>2, <2>2
  <2>3. QED BY <2>1, <2>2
<1>5. QED BY <1>3, <1>4

LEMMA FinishStep ==
  ASSUME IInv, DeleteFinish
  PROVE  /\ IInv' /\ Linked' = Linked /\ deleting # <<>> /\ Top \notin Linked
         /\ deleting' = SubSeq(deleting, 1, Len(deleting) - 1)
         /\ DOMAIN node' = DOMAIN node \ {Top} /\ Unlinked(Top)
         /\ \A b \in DOMAIN buffer' : buffer'[b] = buffer[b]
<1> DEFINE D == DOMAIN node
           K == GraphOf(node)
           L == GraphOf(node')
           len == Len(deleting)
<1>1. PICK t : t = Top
  OBVIOUS
<1>2. /\ TypeOK /\ LinksAgree /\ RootInv /\ NothingLost /\ DeletionPath
      /\ machine = "up" /\ deleting # <<>>
      /\ buffer' = BufferWithout(t)
      /\ deleting' = SubSeq(deleting, 1, len - 1)
      /\ leaked' = leaked \ {t} /\ UNCHANGED <<fs_root, machine>>
  BY <1>1 DEF IInv, DeleteFinish
<1>3. /\ Chain /\ t \in Doomed /\ t # fs_root
      /\ \A i \in DOMAIN deleting : deleting[i] \in Doomed
      /\ Doomed = From(K, deleting[1]) /\ Doomed \subseteq D /\ Linked \subseteq D
      /\ fs_root \in Linked /\ fs_root # NULL /\ node[deleting[1]].parent \in Linked
      /\ deleting[1] \in D
  BY <1>1, <1>2, StackFacts
<1>4. /\ TypeOK' /\ LinksAgree' /\ Chain'
      /\ Unlinked(t) /\ KidsOf(node, t) = {} /\ t \in D
      /\ DOMAIN node' = D \ {t}
      /\ Len(deleting') = len - 1 /\ DOMAIN deleting' = 1 .. len - 1
      /\ \A i \in 1 .. len - 1 : deleting'[i] = deleting[i] /\ deleting[i] # t
      /\ \A b \in DOMAIN buffer' : buffer'[b] = buffer[b]
  BY <1>1, <1>2, <1>3, FinishLocal
<1>5. /\ \A m \in D \ {t} : Alike(m) /\ L[m] = K[m] \ {t}
      /\ L \in [D \ {t} -> SUBSET (D \ {t})]
  BY <1>4 DEF Unlinked
<1>6. /\ len \in Nat /\ len >= 1 /\ DOMAIN deleting = 1 .. len /\ t = deleting[len]
  BY <1>1, <1>2, <1>3, ChainFacts
<1>7. /\ K \in [D -> SUBSET D] /\ K[t] = {} /\ Linked = From(K, fs_root)
      /\ t \notin Linked
  BY <1>2, <1>3, <1>4, LinkFacts, ReachIsFrom DEF DeletionPath
<1>8. Linked' = Linked
  <2>1. From(L, fs_root) = From(K, fs_root) \ {t}
    <3>1. fs_root \in D /\ t \in D /\ fs_root # t
      BY <1>3, <1>4
    <3>2. L \in [D \ {t} -> SUBSET (D \ {t})] /\ \A m \in D \ {t} : L[m] = K[m] \ {t}
      BY <1>5
    <3> HIDE DEF K, L, D
    <3>3. QED BY <1>7, <3>1, <3>2, FromShrunk
  <2>2. Linked' = From(L, fs_root)
    BY <1>2, <1>3, ReachNext DEF L
  <2>3. QED BY <1>7, <2>1, <2>2
<1>9. Doomed' = Doomed \ {t}
  <2>1. CASE len = 1
    <3>1. Doomed \subseteq {t}
      <4> DEFINE S == {t}
      <4>1. S \in SUBSET D /\ deleting[1] \in S /\ \A m \in S : K[m] \subseteq S
        BY <1>4, <1>6, <1>7, <2>1
      <4> HIDE DEF S, K, D
      <4>2. Doomed \subseteq S
        BY <1>3, <1>7, <4>1, FromLeast
      <4>3. QED BY <4>2 DEF S
    <3>2. deleting' = <<>>
      BY <1>2, <2>1
    <3>3. QED BY <3>1, <3>2, NoDelete
  <2>2. CASE len # 1
    <3>1. 1 \in 1 .. len - 1
      BY <1>6, <2>2
    <3>2. deleting'[1] = deleting[1] /\ deleting[1] # t
      BY <1>4, <3>1
    <3>3. deleting' # <<>>
      BY <1>4, <3>1
    <3>4. Doomed' = From(L, deleting[1])
      BY <3>2, <3>3, ReachNext
    <3>5. From(L, deleting[1]) = From(K, deleting[1]) \ {t}
      <4>1. L \in [D \ {t} -> SUBSET (D \ {t})] /\ \A m \in D \ {t} : L[m] = K[m] \ {t}
        BY <1>5
      <4>2. t \in D /\ deleting[1] \in D
        BY <1>3, <1>4
      <4> HIDE DEF K, L, D
      <4>3. QED BY <1>7, <3>2, <4>1, <4>2, FromShrunk
    <3>6. QED BY <1>3, <3>4, <3>5
  <2>3. QED BY <2>1, <2>2
<1>10. RootInv'
  BY <1>2, <1>3, <1>5 DEF RootInv, Alike
<1>11. DeletionPath' /\ StackInv'
  <2>1. Linked' \cap Doomed' = {}
    BY <1>2, <1>8, <1>9 DEF DeletionPath
  <2>2. ASSUME deleting' # <<>> PROVE node'[deleting'[1]].parent \in Linked'
    <3>1. 1 \in 1 .. len - 1
      <4>1. Len(deleting') # 0
        BY <1>4, <2>2 DEF TypeOK
      <4>2. QED BY <1>4, <1>6, <4>1
    <3>2. deleting'[1] = deleting[1] /\ deleting[1] # t
      BY <1>4, <3>1
    <3>3. QED BY <1>3, <1>5, <1>8, <3>2 DEF Alike
  <2>3. \A i \in DOMAIN deleting' : deleting'[i] \in Doomed'
    BY <1>3, <1>4, <1>6, <1>9
  <2>4. QED BY <1>4, <2>1, <2>2, <2>3 DEF Chain, DeletionPath, StackInv, Kids, KidsOf
<1>12. NothingLost'
  <2>1. /\ DOMAIN buffer' = {node'[n].data : n \in DOMAIN node'} \ {NULL}
        /\ \A m, n \in DOMAIN node' : node'[m].data = node'[n].data /\ node'[m].data # NULL => m = n
    BY <1>2, <1>4, <1>5, DataDropped DEF Alike
  <2>2. DOMAIN node = Linked \cup Doomed \cup leaked
    BY <1>2 DEF NothingLost
  <2>3. DOMAIN node' = Linked' \cup Doomed' \cup leaked'
    BY <1>2, <1>4, <1>7, <1>8, <1>9, <2>2
  <2>4. QED BY <2>1, <2>3 DEF NothingLost
<1>13. QED BY <1>1, <1>2, <1>4, <1>7, <1>8, <1>10, <1>11, <1>12 DEF IInv

-----------------------------------------------------------------------------
(* Every step *)

LEMMA LinkedNodes ==
  ASSUME IInv
  PROVE  Linked \subseteq DOMAIN node
<1>1. GraphOf(node) \in [DOMAIN node -> SUBSET DOMAIN node] /\ DOMAIN GraphOf(node) = DOMAIN node
  BY DEF GraphOf
<1>2. QED BY <1>1, ReachIsFrom DEF From

LEMMA WriteInv ==
  ASSUME IInv, NEW file \in DOMAIN node, NEW bytes \in Contents \cup {Empty}, fs_write(file, bytes)
  PROVE  IInv'
<1>1. CASE bytes = Empty /\ Erase(file)
  BY <1>1, EraseStep
<1>2. CASE bytes # Empty /\ \E a \in Addr : Write(a, file, bytes)
  BY <1>2, WriteStep
<1>3. CASE bytes # Empty /\ WriteOutOfMemory(file)
  BY <1>3, WriteHaltStep
<1>4. QED BY <1>1, <1>2, <1>3 DEF fs_write

\* Permissions are no part of the tree, nor of what is in its files.
LEMMA PermissionsStep ==
  ASSUME IInv, NEW n \in DOMAIN node, deleting = <<>>,
         NEW permissions \in [owner : SUBSET AllRights, group : SUBSET AllRights, other : SUBSET AllRights],
         node' = [node EXCEPT ![n].permissions = permissions],
         UNCHANGED <<fs_root, buffer, deleting, leaked, machine>>
  PROVE  IInv' /\ Linked' = Linked
<1>1. /\ node' = [node EXCEPT ![n].permissions = permissions]
      /\ UNCHANGED <<fs_root, buffer, deleting, leaked, machine>>
      /\ TypeOK /\ LinksAgree /\ RootInv /\ DeletionPath /\ StackInv /\ NothingLost
  BY DEF IInv
<1>2. node[n] \in NodeType /\ node \in [DOMAIN node -> NodeType]
  BY <1>1, NodeFacts DEF TypeOK
<1> DEFINE v == [node[n] EXCEPT !.permissions = permissions]
<1>3. /\ v \in NodeType
      /\ v.type = node[n].type /\ v.parent = node[n].parent
      /\ v.data = node[n].data /\ v.children = node[n].children
  BY <1>2 DEF NodeType
<1>4. /\ DOMAIN node' = DOMAIN node /\ node'[n] = v
      /\ \A m \in DOMAIN node : m # n => node'[m] = node[m]
      /\ node' = [m \in DOMAIN node |-> node'[m]]
  BY <1>1, <1>2
<1> HIDE DEF v
<1>5. \A m \in DOMAIN node :
        /\ node'[m] \in NodeType
        /\ node'[m].type = node[m].type /\ node'[m].parent = node[m].parent
        /\ node'[m].data = node[m].data /\ node'[m].children = node[m].children
  BY <1>2, <1>3, <1>4
<1>6. node' \in [DOMAIN node' -> NodeType]
  BY <1>4, <1>5
<1>7. TypeOK'
  BY <1>1, <1>4, <1>6 DEF TypeOK
<1>8. LinksAgree'
  <2>1. SUFFICES ASSUME NEW m \in DOMAIN node
                 PROVE  /\ Len(node'[m].children) <= MaxChildren
                        /\ node'[m].type = "file" => node'[m].children = <<>>
                        /\ node'[m].type = "dir" => node'[m].data = NULL
                        /\ \A i \in DOMAIN node'[m].children :
                             /\ node'[m].children[i] \in DOMAIN node \ ({fs_root} \cup leaked)
                             /\ node'[node'[m].children[i]].parent = m
                             /\ \A j \in DOMAIN node'[m].children :
                                  node'[m].children[j] = node'[m].children[i] => i = j
    BY <1>1, <1>4 DEF LinksAgree
  <2>2. /\ Len(node[m].children) <= MaxChildren
        /\ node[m].type = "file" => node[m].children = <<>>
        /\ node[m].type = "dir" => node[m].data = NULL
        /\ \A i \in DOMAIN node[m].children :
             /\ node[m].children[i] \in DOMAIN node
             /\ node[m].children[i] # fs_root
             /\ node[m].children[i] \notin leaked
             /\ node[node[m].children[i]].parent = m
        /\ \A i, j \in DOMAIN node[m].children :
             node[m].children[i] = node[m].children[j] => i = j
    BY <1>1, LinksLocal
  <2>3. QED BY <1>5, <2>2
<1>9. GraphOf(node') = GraphOf(node)
  <2>1. \A m \in DOMAIN node : KidsOf(node', m) = KidsOf(node, m)
    BY <1>5 DEF KidsOf
  <2>2. QED BY <1>4, <2>1 DEF GraphOf
<1>10. Linked' = Linked /\ Doomed' = Doomed
  BY <1>1, <1>9, ReachIsFrom, ReachNext
<1>11. RootInv'
  BY <1>1, <1>5 DEF RootInv, TypeOK
<1>12. StackInv'
  BY <1>1, <1>10 DEF StackInv
<1>13. DeletionPath'
  BY <1>1, <1>10, NoDelete DEF DeletionPath
<1>14. NothingLost'
  <2>1. {node'[m].data : m \in DOMAIN node'} = {node[m].data : m \in DOMAIN node}
    BY <1>4, <1>5
  <2>2. \A k, m \in DOMAIN node' : node'[k].data = node'[m].data /\ node'[k].data # NULL => k = m
    BY <1>1, <1>4, <1>5 DEF NothingLost
  <2>3. machine' = "up" => DOMAIN buffer' = {node'[m].data : m \in DOMAIN node'} \ {NULL}
    BY <1>1, <2>1 DEF NothingLost
  <2>4. machine' = "up" => DOMAIN node' = Linked' \cup Doomed' \cup leaked'
    BY <1>1, <1>4, <1>10 DEF NothingLost
  <2>5. QED BY <2>2, <2>3, <2>4 DEF NothingLost
<1>15. QED BY <1>7, <1>8, <1>11, <1>12, <1>13, <1>14, <1>10 DEF IInv

\* The machine stops, or reads freed memory.
LEMMA StoppedStep ==
  ASSUME IInv, machine' \in {"halted", "wild"}, UNCHANGED <<fs_root, node, buffer, deleting, leaked>>
  PROVE  IInv'
<1>1. TypeOK' /\ NothingLost'
  BY DEF IInv, TypeOK, NothingLost
<1>2. QED BY <1>1, SameNodes DEF IInv

LEMMA StepInv ==
  ASSUME IInv, [Next]_fsVars
  PROVE  IInv'
<1>1. CASE emulated_fs_init
  BY <1>1, MountStep
<1>2. ASSUME NEW dir \in Linked, NEW type \in {"file", "dir"}, NEW name \in Names,
             NEW owner \in Users, Add(dir, type, name, owner)
      PROVE  IInv'
  BY <1>2, CreateStep, UnderFileStep, BeyondArrayStep DEF Add
<1>3. CASE CreateOutOfMemory
  BY <1>3, HaltStep
<1>4. ASSUME NEW file \in Linked, NEW bytes \in Contents \cup {Empty}, fs_write(file, bytes)
      PROVE  IInv'
  BY <1>4, WriteInv, LinkedNodes
<1>5. ASSUME NEW n \in Linked, RemoveBegin(n) PROVE IInv'
  BY <1>5, RemoveBeginStep
<1>6. CASE Delete
  BY <1>6, DescendStep, FinishStep DEF Delete
<1>7. CASE UNCHANGED fsVars
  BY <1>7, StutterStep
<1>8. QED BY <1>1, <1>2, <1>3, <1>4, <1>5, <1>6, <1>7 DEF Next

\* The inductive invariant holds throughout: fs_create_*_node, fs_add_child, fs_write,
\* fs_remove_child and the recursive fs_delete keep it, each turn of the recursion included.
THEOREM Invariant == Spec => []IInv
<1>1. Init => IInv
  BY InitInv
<1>2. IInv /\ [Next]_fsVars => IInv'
  BY StepInv
<1>3. QED BY <1>1, <1>2, PTL DEF Spec

\* Types, for every heap and set of names.
THEOREM Types == Spec => []TypeOK
<1>1. IInv => TypeOK
  BY DEF IInv
<1>2. QED BY <1>1, Invariant, PTL

\* The children arrays and the parent pointers say the same, which is what fs_delete's
\* loop relies on, and no array is longer than MAX_CHILDREN.
THEOREM LinksAlwaysAgree == Spec => []LinksAgree
<1>1. IInv => LinksAgree
  BY DEF IInv
<1>2. QED BY <1>1, Invariant, PTL

\* fs_delete in progress is a path of first children in a subtree callers cannot reach.
THEOREM DeletionIsApart == Spec => []DeletionPath
<1>1. IInv => DeletionPath
  BY DEF IInv
<1>2. QED BY <1>1, Invariant, PTL

\* No node and no file data is lost, given back twice, or shared: every one in use is
\* owned by the tree, by the deletion in progress, or by a node hung below a file.
THEOREM MemoryAccounted == Spec => []NothingLost
<1>1. IInv => NothingLost
  BY DEF IInv
<1>2. QED BY <1>1, Invariant, PTL

-----------------------------------------------------------------------------
(* The order of a directory *)

Ordered(n) ==
  /\ InOrder(node[n].children, node'[n].children)
  /\ \A k \in DOMAIN node'[n].children :
       k < Len(node'[n].children) =>
         \E i \in DOMAIN node[n].children : node[n].children[i] = node'[n].children[k]

LEMMA OrderSame ==
  ASSUME TypeOK, LinksAgree, NEW n \in DOMAIN node, node'[n].children = node[n].children
  PROVE  Ordered(n)
<1>1. PICK s : s = node[n].children
  OBVIOUS
<1>2. s \in Seq(Addr) /\ \A i, j \in DOMAIN s : s[i] = s[j] => i = j
  BY <1>1, NodeFacts
<1>3. InOrder(s, s)
  BY <1>2 DEF InOrder
<1>4. QED BY <1>1, <1>3 DEF Ordered

LEMMA OrderAppended ==
  ASSUME TypeOK, LinksAgree, NEW n \in DOMAIN node, NEW a,
         node'[n].children = Append(node[n].children, a), a \notin DOMAIN node
  PROVE  Ordered(n)
<1>1. PICK s, t : s = node[n].children /\ t = Append(s, a)
  OBVIOUS
<1>2. s \in Seq(Addr) /\ \A i, j \in DOMAIN s : s[i] = s[j] => i = j
  BY <1>1, NodeFacts
<1>3. \A i \in DOMAIN s : s[i] # a
  BY <1>1, LinksLocal
<1>4. /\ DOMAIN s = 1 .. Len(s) /\ DOMAIN t = 1 .. Len(s) + 1 /\ Len(t) = Len(s) + 1
      /\ t[Len(s) + 1] = a /\ \A i \in 1 .. Len(s) : t[i] = s[i]
      /\ Len(s) \in Nat
  BY <1>1, <1>2
<1>5. InOrder(s, t)
  BY <1>2, <1>3, <1>4 DEF InOrder
<1>6. \A k \in DOMAIN t : k < Len(t) => \E i \in DOMAIN s : s[i] = t[k]
  <2>1. SUFFICES ASSUME NEW k \in DOMAIN t, k < Len(t) PROVE k \in DOMAIN s /\ s[k] = t[k]
    OBVIOUS
  <2>2. QED BY <1>4, <2>1
<1>7. QED BY <1>1, <1>5, <1>6 DEF Ordered

LEMMA OrderUnlinked ==
  ASSUME NEW t, Unlinked(t), NEW n \in DOMAIN node' PROVE Ordered(n)
<1>1. InOrder(node[n].children, node'[n].children) /\ KidsOf(node', n) = KidsOf(node, n) \ {t}
  BY DEF Unlinked
<1>2. ASSUME NEW k \in DOMAIN node'[n].children
      PROVE  \E i \in DOMAIN node[n].children : node[n].children[i] = node'[n].children[k]
  <2>1. node'[n].children[k] \in KidsOf(node', n)
    BY DEF KidsOf
  <2>2. QED BY <1>1, <2>1 DEF KidsOf
<1>3. QED BY <1>1, <1>2 DEF Ordered

LEMMA OrderStep ==
  ASSUME IInv, [Next]_fsVars, NEW n \in Linked, n \in Linked'
  PROVE  Ordered(n)
<1>1. TypeOK /\ LinksAgree /\ RootInv
  BY DEF IInv
<1>2. n \in DOMAIN node
  BY <1>1, LinkedParent
<1>3. n \in DOMAIN node'
  <2>1. TypeOK' /\ LinksAgree'
    BY StepInv DEF IInv
  <2>2. GraphOf(node') \in [DOMAIN node' -> SUBSET DOMAIN node'] /\ DOMAIN GraphOf(node') = DOMAIN node'
    BY DEF GraphOf
  <2>3. QED BY <2>2, ReachNext DEF From
<1>4. CASE emulated_fs_init
  BY <1>4, MountStep
<1>5. ASSUME NEW dir \in Linked, NEW type \in {"file", "dir"}, NEW name \in Names,
             NEW owner \in Users, Add(dir, type, name, owner)
      PROVE  Ordered(n)
  <2>1. PICK a \in Addr : \/ Create(a, type, name, dir, owner)
                          \/ CreateUnderFile(a, type, name, dir, owner)
                          \/ CreateBeyondArray(a, type, name, dir, owner)
    BY <1>5 DEF Add
  <2>2. CASE Create(a, type, name, dir, owner)
    <3>1. /\ a \notin DOMAIN node
          /\ \/ node'[n].children = node[n].children
             \/ node'[n].children = Append(node[n].children, a)
      <4>1. a \notin DOMAIN node /\ Hung(a, dir)
        BY <2>2, CreateStep
      <4>2. QED BY <1>2, <4>1 DEF Hung
    <3>2. QED BY <1>1, <1>2, <3>1, OrderSame, OrderAppended
  <2>3. CASE CreateUnderFile(a, type, name, dir, owner)
    <3>1. node'[n] = node[n]
      BY <1>2, <2>3, UnderFileStep
    <3>2. QED BY <1>1, <1>2, <3>1, OrderSame
  <2>4. CASE CreateBeyondArray(a, type, name, dir, owner)
    <3>1. node'[n] = node[n]
      BY <1>2, <2>4, BeyondArrayStep
    <3>2. QED BY <1>1, <1>2, <3>1, OrderSame
  <2>5. QED BY <2>1, <2>2, <2>3, <2>4
<1>6. CASE node' = node
  BY <1>1, <1>2, <1>6, OrderSame
<1>7. ASSUME NEW file \in Linked, NEW bytes \in Contents \cup {Empty}, fs_write(file, bytes)
      PROVE  Ordered(n)
  <2>1. file \in DOMAIN node
    BY <1>1, LinkedParent
  <2>2. CASE Erase(file)
    <3>1. /\ node' = [node EXCEPT ![file].data = NULL] /\ node[file].type = "file"
          /\ UNCHANGED <<fs_root, leaked>>
      BY <2>2 DEF Erase
    <3>2. QED BY <1>1, <1>2, <2>1, <3>1, DataLocal, OrderSame
  <2>3. ASSUME NEW a \in Addr, Write(a, file, bytes) PROVE Ordered(n)
    <3>1. /\ node' = [node EXCEPT ![file].data = a] /\ node[file].type = "file"
          /\ UNCHANGED <<fs_root, leaked>>
      BY <2>3 DEF Write
    <3>2. QED BY <1>1, <1>2, <2>1, <3>1, DataLocal, OrderSame
  <2>4. CASE WriteOutOfMemory(file)
    BY <1>6, <2>4 DEF WriteOutOfMemory
  <2>5. QED BY <1>7, <2>2, <2>3, <2>4 DEF fs_write
<1>8. ASSUME NEW t \in Linked, RemoveBegin(t) PROVE Ordered(n)
  BY <1>3, <1>8, RemoveBeginStep, OrderUnlinked
<1>9. CASE Delete
  <2>1. CASE DeleteDescend
    BY <1>6, <2>1 DEF DeleteDescend
  <2>2. CASE DeleteFinish
    BY <1>3, <2>2, FinishStep, OrderUnlinked
  <2>3. QED BY <1>9, <2>1, <2>2 DEF Delete
<1>10. CASE CreateOutOfMemory \/ UNCHANGED fsVars
  BY <1>6, <1>10 DEF CreateOutOfMemory, fsVars
<1>11. QED BY <1>4, <1>5, <1>7, <1>8, <1>9, <1>10 DEF Next

\* ls shows entries in the order they were created, whatever is removed between: the
\* shift in fs_remove_child loses no pointer and swaps none.
THEOREM OrderIsKept == Spec => OrderKept
<1>1. ASSUME IInv, [Next]_fsVars
      PROVE  \A n \in Linked \cap Linked' :
               LET old == node[n].children
                   new == node'[n].children
               IN /\ \A i, j \in DOMAIN old, k, l \in DOMAIN new :
                       i < j /\ old[i] = new[k] /\ old[j] = new[l] => k < l
                  /\ \A k \in DOMAIN new : k < Len(new) => \E i \in DOMAIN old : old[i] = new[k]
  <2>1. \A n \in Linked \cap Linked' : Ordered(n)
    BY <1>1, OrderStep
  <2>2. QED BY <2>1 DEF Ordered, InOrder
<1>2. QED BY <1>1, Invariant, PTL DEF Spec, OrderKept

\* Every turn of fs_delete frees the node it is at, or goes to one it is not yet at.
THEOREM DeletionAdvances == Spec => DeleteAdvances
<1>1. ASSUME IInv, [Next]_fsVars
      PROVE  [deleting # <<>> =>
                LET n == deleting[Len(deleting)]
                IN \/ /\ deleting' = SubSeq(deleting, 1, Len(deleting) - 1)
                      /\ DOMAIN node' = DOMAIN node \ {n}
                   \/ \E c \in DOMAIN node :
                        /\ deleting' = Append(deleting, c)
                        /\ \A i \in DOMAIN deleting : deleting[i] # c]_fsVars
  <2>1. SUFFICES ASSUME deleting # <<>>, fsVars' # fsVars
                 PROVE  \/ /\ deleting' = SubSeq(deleting, 1, Len(deleting) - 1)
                           /\ DOMAIN node' = DOMAIN node \ {Top}
                        \/ \E c \in DOMAIN node :
                             /\ deleting' = Append(deleting, c)
                             /\ \A i \in DOMAIN deleting : deleting[i] # c
    BY DEF Top
  <2>2. Delete
    BY <1>1, <2>1, ZenonT(60) DEF Next, emulated_fs_init, Add, Create, CreateUnderFile, CreateBeyondArray,
                      CreateOutOfMemory, fs_write, Erase, Write, WriteOutOfMemory, RemoveBegin, Idle
  <2>3. CASE DeleteDescend
    BY <1>1, <2>3, DescendStep
  <2>4. CASE DeleteFinish
    BY <1>1, <2>4, FinishStep
  <2>5. QED BY <2>2, <2>3, <2>4 DEF Delete
<1>2. QED BY <1>1, Invariant, PTL DEF Spec, DeleteAdvances

-----------------------------------------------------------------------------
(* FileTree implements NameTree *)

\* The abstract tree: empty once the machine has stopped.
Seen == [n \in IF machine = "up" THEN Linked ELSE {} |-> Shown(n)]
Running == machine = "up"

\* A node that looks the same and whose bytes are where they were is shown the same.
LEMMA ShownKept ==
  ASSUME NothingLost', machine' = "up", NEW n \in DOMAIN node', Alike(n),
         \A b \in DOMAIN buffer' : buffer'[b] = buffer[b]
  PROVE  Shown(n)' = Shown(n)
<1>1. node'[n].data # NULL => node'[n].data \in DOMAIN buffer'
  BY DEF NothingLost
<1>2. Bytes(n)' = Bytes(n)
  BY <1>1 DEF Bytes, Alike
<1>3. QED BY <1>2 DEF Shown, Alike

\* What a node just created shows.
LEMMA NewShown ==
  ASSUME NEW a, NEW type, NEW name, NEW parent, NEW owner,
         node'[a] = NewNode(type, name, parent, owner)
  PROVE  Shown(a)' = Promise!Entry(type, name, parent, owner, Empty)
<1>1. /\ node'[a].type = type /\ node'[a].name = name /\ node'[a].parent = parent
      /\ node'[a].owner = owner /\ node'[a].data = NULL
  BY DEF NewNode
<1>2. Bytes(a)' = Empty
  BY <1>1 DEF Bytes
<1>3. QED BY <1>1, <1>2 DEF Shown, Promise!Entry

LEMMA SeenStays ==
  ASSUME Linked' = Linked, machine' = machine,
         \A n \in Linked : machine' = "up" => Shown(n)' = Shown(n)
  PROVE  Seen' = Seen
BY DEF Seen

LEMMA SeenStops ==
  ASSUME machine' # "up"
  PROVE  Seen' = [n \in {} |-> Promise!Entry("dir", "/", NULL, 0, Empty)]
BY DEF Seen

LEMMA InitImplements == Init => Promise!Init
<1> SUFFICES ASSUME Init PROVE Promise!Init
  OBVIOUS
<1>1. fs_root = NULL /\ machine = "up" /\ Linked = {}
  BY DEF Init, Linked
<1>2. QED BY <1>1 DEF Promise!Init

LEMMA MountImplements ==
  ASSUME IInv, emulated_fs_init
  PROVE  Promise!Next
<1>1. /\ Linked' = {fs_root'} /\ Linked = {} /\ IInv'
  BY MountStep
<1>2. PICK a \in MallocMay(FreeAddr) :
        fs_root' = a /\ node' = Store(node, a, NewNode("dir", "/", NULL, 0))
  BY DEF emulated_fs_init
<1>3. machine = "up" /\ machine' = "up" /\ fs_root = NULL /\ a \in Addr
  BY <1>2, FreshAddr DEF emulated_fs_init, Idle, IInv
<1>4. node'[a] = NewNode("dir", "/", NULL, 0)
  BY <1>2 DEF Store
<1>5. Shown(a)' = Promise!Entry("dir", "/", NULL, 0, Empty)
  BY <1>4, NewShown
<1>6. Seen' = [m \in {a} |-> Shown(a)'] /\ DOMAIN Seen = {}
  BY <1>1, <1>2, <1>3 DEF Seen
<1>7. Promise!Mount(a)
  BY <1>1, <1>2, <1>3, <1>5, <1>6 DEF Promise!Mount, Promise!With, Seen
<1>8. QED BY <1>3, <1>7 DEF Promise!Next

LEMMA AddImplements ==
  ASSUME IInv, NEW dir \in Linked, NEW type \in {"file", "dir"}, NEW name \in Names,
         NEW owner \in Users, Add(dir, type, name, owner)
  PROVE  [Promise!Next]_(Promise!vars)
<1>1. PICK a \in Addr : \/ Create(a, type, name, dir, owner)
                        \/ CreateUnderFile(a, type, name, dir, owner)
                        \/ CreateBeyondArray(a, type, name, dir, owner)
  BY DEF Add
<1>2. Linked \subseteq DOMAIN node /\ dir \in Addr \cup {NULL}
  BY LinkedNodes, NodeFacts DEF IInv
<1>3. CASE Create(a, type, name, dir, owner)
  <2>1. /\ IInv' /\ Linked' = Linked \cup {a} /\ a \in Addr \ DOMAIN node
        /\ node'[a] = NewNode(type, name, dir, owner)
        /\ Hung(a, dir)
    BY <1>3, CreateStep
  <2>2. /\ machine = "up" /\ machine' = "up" /\ fs_root' = fs_root /\ buffer' = buffer
        /\ node[dir].type = "dir" /\ DOMAIN node \subseteq DOMAIN node'
    BY <1>3, <2>1 DEF Create, Idle, Hung
  <2>3. \A m \in Linked : Shown(m)' = Shown(m)
    BY <1>2, <2>1, <2>2, ShownKept DEF IInv, Hung
  <2>4. Shown(a)' = Promise!Entry(type, name, dir, owner, Empty)
    BY <1>2, <2>1, NewShown
  <2>5. Seen' = [m \in Linked \cup {a} |-> Shown(m)'] /\ Seen = [m \in Linked |-> Shown(m)]
    BY <2>1, <2>2 DEF Seen
  <2>6. Seen' = [m \in DOMAIN Seen \cup {a} |->
                   IF m = a THEN Promise!Entry(type, name, dir, owner, Empty) ELSE Seen[m]]
    <3>1. DOMAIN Seen = Linked /\ \A m \in Linked : Seen[m] = Shown(m)
      BY <2>5
    <3>2. \A m \in Linked \cup {a} :
            Shown(m)' = IF m = a THEN Promise!Entry(type, name, dir, owner, Empty) ELSE Seen[m]
      BY <2>3, <2>4, <3>1
    <3>3. QED BY <2>5, <3>1, <3>2
  <2>7. Seen[dir].type = "dir" /\ dir \in DOMAIN Seen /\ a \notin DOMAIN Seen
    BY <1>2, <2>1, <2>2, <2>5 DEF Shown
  <2>8. Promise!Link(a, type, name, dir, owner)
    BY <2>2, <2>6, <2>7 DEF Promise!Link, Promise!With, Seen
  <2>9. QED BY <1>2, <2>1, <2>2, <2>5, <2>7, <2>8 DEF Promise!Next, Seen
<1>4. CASE CreateUnderFile(a, type, name, dir, owner)
  <2>1. IInv' /\ Linked' = Linked /\ \A m \in DOMAIN node : node'[m] = node[m]
    BY <1>4, UnderFileStep
  <2>2. fs_root' = fs_root /\ buffer' = buffer /\ machine' = machine /\ machine = "up"
    BY <1>4 DEF CreateUnderFile, Idle
  <2>3. \A m \in Linked : Shown(m)' = Shown(m)
    BY <1>2, <2>1, <2>2 DEF Shown, Bytes
  <2>4. Seen' = Seen
    BY <2>1, <2>2, <2>3, SeenStays
  <2>5. QED BY <2>2, <2>4 DEF Promise!vars, Seen
<1>5. CASE CreateBeyondArray(a, type, name, dir, owner)
  <2>1. machine' = "wild" /\ fs_root' = fs_root /\ machine = "up"
    BY <1>5, BeyondArrayStep
  <2>2. Promise!Stop
    BY <2>1, SeenStops DEF Promise!Stop, Seen
  <2>3. QED BY <2>1, <2>2 DEF Promise!Next
<1>6. QED BY <1>1, <1>3, <1>4, <1>5

LEMMA HaltImplements ==
  ASSUME machine = "up", machine' = "halted", fs_root' = fs_root
  PROVE  Promise!Next
<1>1. Promise!Stop
  BY SeenStops DEF Promise!Stop, Seen
<1>2. QED BY <1>1 DEF Promise!Next

\* Nobody else's bytes are touched by a write.
LEMMA ReplaceImplements ==
  ASSUME IInv, IInv', NEW file \in Linked, Linked' = Linked, NEW bytes \in Contents \cup {Empty},
         NEW d \in Addr \cup {NULL}, node' = [node EXCEPT ![file].data = d],
         node[file].type = "file", machine = "up", machine' = "up",
         UNCHANGED <<fs_root, deleting, leaked>>, deleting = <<>>,
         \A b \in DOMAIN buffer' : b # d => buffer'[b] = buffer[b],
         bytes = IF d = NULL THEN Empty ELSE buffer'[d]
  PROVE  Promise!Next
<1>1. Linked \subseteq DOMAIN node /\ NothingLost'
  BY LinkedNodes DEF IInv
<1>2. /\ DOMAIN node' = DOMAIN node
      /\ \A m \in DOMAIN node : m # file => node'[m] = node[m]
      /\ node'[file].data = d /\ node'[file].type = node[file].type
      /\ node'[file].name = node[file].name /\ node'[file].parent = node[file].parent
      /\ node'[file].owner = node[file].owner
  BY <1>1, DataLocal DEF IInv
<1>3. Shown(file)' = [Shown(file) EXCEPT !.bytes = bytes]
  <2>1. Bytes(file)' = bytes
    BY <1>2 DEF Bytes
  <2>2. QED BY <1>2, <2>1 DEF Shown
<1>4. ASSUME NEW m \in Linked, m # file PROVE Shown(m)' = Shown(m)
  <2>1. node'[m] = node[m] /\ m \in DOMAIN node' /\ file \in DOMAIN node'
    BY <1>1, <1>2, <1>4
  <2>2. ASSUME node[m].data # NULL PROVE node[m].data \in DOMAIN buffer' /\ node[m].data # d
    BY <1>1, <1>2, <1>4, <2>1, <2>2 DEF NothingLost
  <2>3. Bytes(m)' = Bytes(m)
    BY <2>1, <2>2 DEF Bytes
  <2>4. QED BY <2>1, <2>3 DEF Shown
<1>5. Seen' = [m \in Linked |-> Shown(m)'] /\ Seen = [m \in Linked |-> Shown(m)]
  BY DEF Seen
<1>6. Seen' = [Seen EXCEPT ![file].bytes = bytes]
  BY <1>3, <1>4, <1>5
<1>7. Seen[file].type = "file" /\ file \in DOMAIN Seen
  BY <1>5 DEF Shown
<1>8. Promise!Replace(file, bytes)
  BY <1>6, <1>7 DEF Promise!Replace, Seen
<1>9. QED BY <1>7, <1>8 DEF Promise!Next, Seen

LEMMA WriteImplements ==
  ASSUME IInv, NEW file \in Linked, NEW bytes \in Contents \cup {Empty}, fs_write(file, bytes)
  PROVE  Promise!Next
<1>1. TypeOK /\ LinksAgree /\ file \in DOMAIN node
  BY LinkedNodes DEF IInv
<1>2. /\ DOMAIN Kept(file) = DOMAIN buffer \ {node[file].data}
      /\ \A b \in DOMAIN Kept(file) : Kept(file)[b] = buffer[b]
  BY <1>1, KeptFields
<1>3. CASE bytes = Empty /\ Erase(file)
  <2>1. IInv' /\ Linked' = Linked
    BY <1>1, <1>3, EraseStep
  <2>2. /\ node' = [node EXCEPT ![file].data = NULL] /\ node[file].type = "file"
        /\ machine = "up" /\ machine' = "up" /\ deleting = <<>>
        /\ UNCHANGED <<fs_root, deleting, leaked>> /\ buffer' = Kept(file)
    BY <1>3 DEF Erase, Idle
  <2>3. \A b \in DOMAIN buffer' : buffer'[b] = buffer[b]
    BY <1>2, <2>2
  <2>4. QED BY <1>3, <2>1, <2>2, <2>3, ReplaceImplements
<1>4. ASSUME NEW a \in Addr, bytes # Empty, Write(a, file, bytes) PROVE Promise!Next
  <2>1. IInv' /\ Linked' = Linked
    BY <1>1, <1>4, WriteStep
  <2>2. /\ node' = [node EXCEPT ![file].data = a] /\ node[file].type = "file"
        /\ machine = "up" /\ machine' = "up" /\ deleting = <<>>
        /\ UNCHANGED <<fs_root, deleting, leaked>> /\ buffer' = Store(Kept(file), a, bytes)
    BY <1>4 DEF Write, Idle
  <2>3. a # NULL
    BY FileTreeAssumption
  <2>4. (\A b \in DOMAIN buffer' : b # a => buffer'[b] = buffer[b]) /\ buffer'[a] = bytes
    BY <1>2, <2>2 DEF Store
  <2>5. QED BY <2>1, <2>2, <2>3, <2>4, ReplaceImplements, ZenonT(60)
<1>5. CASE bytes # Empty /\ WriteOutOfMemory(file)
  BY <1>1, <1>5, WriteHaltStep, HaltImplements
<1>6. QED BY <1>3, <1>4, <1>5 DEF fs_write

\* What fs_delete will free is what is below n.
LEMMA DoomedIsBelow ==
  ASSUME IInv, NEW n \in Linked, RemoveBegin(n)
  PROVE  Doomed' = Promise!Below(n)
<1> DEFINE L == GraphOf(node')
<1>1. /\ IInv' /\ Linked = Linked' \cup Doomed' /\ Linked' \cap Doomed' = {} /\ n \in Doomed'
      /\ DOMAIN node' = DOMAIN node /\ Unlinked(n) /\ n # fs_root /\ deleting' = <<n>>
  BY RemoveBeginStep
<1>2. TypeOK /\ LinksAgree /\ RootInv /\ TypeOK' /\ LinksAgree' /\ machine = "up"
  BY <1>1 DEF IInv, RemoveBegin, Idle
<1>3. Linked \subseteq DOMAIN node /\ n \in DOMAIN node'
  BY <1>1, LinkedNodes
<1>4. /\ Doomed' = From(L, n) /\ L \in [DOMAIN node' -> SUBSET DOMAIN node']
  <2>1. deleting' # <<>> /\ deleting'[1] = n
    BY <1>1
  <2>2. QED BY <1>1, <2>1, ReachNext DEF Unlinked
<1>5. \A m \in DOMAIN node : L[m] = KidsOf(node, m) \ {n}
  BY <1>1, <1>2, LinkFacts DEF Unlinked
<1>6. Seen = [m \in Linked |-> Shown(m)]
  BY <1>2 DEF Seen
<1>7. Promise!Below(n) =
        {m \in Linked : \A S \in SUBSET Linked :
           (n \in S /\ \A k \in Linked : node[k].parent \in S => k \in S) => m \in S}
  <2>1. DOMAIN Seen = Linked /\ \A k \in Linked : Seen[k].parent = node[k].parent
    BY <1>6 DEF Shown
  <2>2. QED BY <2>1 DEF Promise!Below, Seen
<1>8. ASSUME NEW m \in Promise!Below(n) PROVE m \in Doomed'
  <2>1. ASSUME NEW k \in Linked, node[k].parent \in Doomed' PROVE k \in Doomed'
    <3>1. k # fs_root => k \in KidsOf(node, node[k].parent)
      BY <1>2, LinkedParent
    <3>2. k # fs_root
      <4>1. node[k].parent \in DOMAIN node
        BY <1>1, <1>3, <2>1
      <4>2. node[k].parent # NULL
        BY <1>2, <4>1, NodeFacts
      <4>3. QED BY <1>2, <4>2, LinkedParent
    <3>3. CASE k = n
      BY <1>1, <3>3
    <3>4. CASE k # n
      <4>1. k \in L[node[k].parent]
        BY <1>1, <1>3, <1>5, <2>1, <3>1, <3>2, <3>4
      <4>2. QED BY <1>3, <1>4, <2>1, <4>1, FromClosed
    <3>5. QED BY <3>3, <3>4
  <2>2. Doomed' \in SUBSET Linked
    BY <1>1
  <2>3. QED BY <1>1, <1>7, <2>1, <2>2
<1>9. ASSUME NEW m \in Doomed' PROVE m \in Promise!Below(n)
  <2>1. SUFFICES ASSUME NEW S \in SUBSET Linked, n \in S,
                        \A k \in Linked : node[k].parent \in S => k \in S
                 PROVE  m \in S
    BY <1>1, <1>7
  <2>2. ASSUME NEW q \in S, NEW c \in L[q] PROVE c \in S
    <3>1. q \in DOMAIN node /\ c \in KidsOf(node, q)
      BY <1>3, <1>5
    <3>2. node[c].parent = q
      BY <1>2, <3>1, LinkFacts DEF PointBack
    <3>3. c \in Linked
      <4>1. Linked = From(GraphOf(node), fs_root) /\ fs_root \in DOMAIN node
        BY <1>2, LinkedParent
      <4>2. c \in GraphOf(node)[q]
        BY <1>2, <3>1, LinkFacts
      <4>3. q \in From(GraphOf(node), fs_root)
        BY <2>2, <4>1
      <4>4. QED BY <1>2, <4>1, <4>2, <4>3, LinkFacts, FromClosed
    <3>4. QED BY <2>1, <3>2, <3>3
  <2>3. S \in SUBSET DOMAIN node'
    BY <1>1, <1>3
  <2>4. From(L, n) \subseteq S
    <3> HIDE DEF L
    <3>1. QED BY <1>3, <1>4, <2>1, <2>2, <2>3, FromLeast
  <2>5. QED BY <1>4, <2>4
<1>10. QED BY <1>8, <1>9

LEMMA RemoveImplements ==
  ASSUME IInv, NEW n \in Linked, RemoveBegin(n)
  PROVE  Promise!Next
<1>1. /\ IInv' /\ Linked = Linked' \cup Doomed' /\ Linked' \cap Doomed' = {}
      /\ DOMAIN node' = DOMAIN node /\ Unlinked(n) /\ n # fs_root
  BY RemoveBeginStep
<1>2. machine = "up" /\ machine' = "up" /\ fs_root' = fs_root /\ buffer' = buffer
  BY DEF RemoveBegin, Idle
<1>3. Linked' = Linked \ Promise!Below(n) /\ Linked' \subseteq DOMAIN node'
  BY <1>1, DoomedIsBelow, LinkedNodes
<1>4. \A m \in Linked' : Shown(m)' = Shown(m)
  <2>1. \A m \in DOMAIN node' : Alike(m)
    BY <1>1 DEF Unlinked
  <2>2. QED BY <1>1, <1>2, <1>3, <2>1, ShownKept DEF IInv
<1>5. Seen' = [m \in Linked' |-> Shown(m)'] /\ Seen = [m \in Linked |-> Shown(m)]
  BY <1>2 DEF Seen
<1>6. Seen' = [m \in DOMAIN Seen \ Promise!Below(n) |-> Seen[m]]
  BY <1>3, <1>4, <1>5
<1>7. Promise!Prune(n)
  BY <1>1, <1>2, <1>6 DEF Promise!Prune, Seen
<1>8. n \in DOMAIN Seen
  BY <1>5
<1>9. QED BY <1>2, <1>7, <1>8 DEF Promise!Next, Seen

LEMMA DeleteImplements ==
  ASSUME IInv, Delete
  PROVE  UNCHANGED Promise!vars
<1>1. machine = "up" /\ machine' = "up" /\ fs_root' = fs_root
  BY DEF Delete, DeleteDescend, DeleteFinish
<1>2. Linked' = Linked /\ \A m \in Linked : Shown(m)' = Shown(m)
  <2>1. CASE DeleteDescend
    <3>1. node' = node /\ buffer' = buffer
      BY <2>1 DEF DeleteDescend
    <3>2. QED BY <2>1, <3>1, DescendStep DEF Shown, Bytes
  <2>2. CASE DeleteFinish
    <3>1. /\ IInv' /\ Linked' = Linked /\ Top \notin Linked
          /\ DOMAIN node' = DOMAIN node \ {Top} /\ Unlinked(Top)
          /\ \A b \in DOMAIN buffer' : buffer'[b] = buffer[b]
      BY <2>2, FinishStep
    <3>2. \A m \in Linked : m \in DOMAIN node' /\ Alike(m)
      BY <3>1, LinkedNodes DEF Unlinked
    <3>3. QED BY <1>1, <3>1, <3>2, ShownKept DEF IInv
  <2>3. QED BY <2>1, <2>2 DEF Delete
<1>3. Seen' = Seen
  BY <1>1, <1>2, SeenStays
<1>4. QED BY <1>1, <1>3 DEF Promise!vars, Seen

\* What filesystem.h promises: one call links one entry, replaces one file's bytes or takes
\* away one entry with all below it, though fs_delete works node by node and the arrays
\* are shifted under it.
THEOREM TreeImplements == Spec => ImplementsNameTree
<1>1. Init => Promise!Init
  BY InitImplements
<1>2. IInv /\ [Next]_fsVars => [Promise!Next]_(Promise!vars)
  <2> SUFFICES ASSUME IInv, [Next]_fsVars PROVE [Promise!Next]_(Promise!vars)
    OBVIOUS
  <2>1. CASE emulated_fs_init
    BY <2>1, MountImplements
  <2>2. CASE CreateOutOfMemory
    BY <2>2, HaltStep, HaltImplements
  <2>3. CASE UNCHANGED fsVars
    <3>1. UNCHANGED <<fs_root, node, buffer, deleting, leaked, machine>> /\ Linked' = Linked
      BY <2>3, StutterStep DEF fsVars
    <3>2. \A m \in Linked : Shown(m)' = Shown(m)
      BY <3>1 DEF Shown, Bytes
    <3>3. Seen' = Seen
      BY <3>1, <3>2, SeenStays
    <3>4. QED BY <3>1, <3>3 DEF Promise!vars, Seen
  <2>4. QED BY <2>1, <2>2, <2>3, AddImplements, WriteImplements, RemoveImplements,
               DeleteImplements DEF Next
<1>3. QED BY <1>1, <1>2, Invariant, PTL DEF Spec, ImplementsNameTree, Promise!Spec

-----------------------------------------------------------------------------
(* Paths *)

\* The order of the natural numbers, as a relation, is well founded.
LEMMA NumbersWellFounded ==
  \E R : IsWellFoundedOn(R, Nat) /\ \A x, y \in Nat : x < y => <<x, y>> \in R
<1>1. IsWellFoundedOn(OpToRel(<, Nat), Nat)
  BY NatLessThanWellFounded, Zenon
<1>2. \A x, y \in Nat : x < y => <<x, y>> \in OpToRel(<, Nat)
  BY Zenon DEF OpToRel
<1>3. QED BY <1>1, <1>2, Zenon

\* A set of numbers that is not empty has a least one.
LEMMA LeastNumber ==
  ASSUME NEW S, S \subseteq Nat, S # {}
  PROVE  \E x \in S : \A y \in S : x <= y
<1>1. PICK R : IsWellFoundedOn(R, Nat) /\ \A x, y \in Nat : x < y => <<x, y>> \in R
  BY NumbersWellFounded, Zenon
<1>2. IsWellFoundedOn(R, Nat)
  BY <1>1
<1>3. PICK x \in S : \A y \in S : ~(<<y, x>> \in R)
  BY <1>2, WFMin
<1>4. ASSUME NEW y \in S PROVE x <= y
  <2>1. x \in Nat /\ y \in Nat
    OBVIOUS
  <2>2. ~(y < x)
    BY <1>1, <1>3, <2>1, Zenon
  <2>3. QED BY <2>1, <2>2
<1>5. QED BY <1>4

\* f is where the first k tokens of s lead from a.
Walk(f, s, a, k) ==
  f = [i \in 0 .. k |-> IF i = 0 THEN a ELSE Step(f[i - 1], s[i])]

LEMMA WalkParts ==
  ASSUME NEW f, NEW s, NEW a, NEW k \in Nat, Walk(f, s, a, k)
  PROVE  f[0] = a /\ \A i \in 1 .. k : f[i] = Step(f[i - 1], s[i])
<1>1. f[0] = a
  BY DEF Walk
<1>2. ASSUME NEW i \in 1 .. k PROVE f[i] = Step(f[i - 1], s[i])
  <2>1. i \in 0 .. k /\ i # 0
    OBVIOUS
  <2>2. QED BY <2>1 DEF Walk
<1>3. QED BY <1>1, <1>2

LEMMA WalkExists ==
  ASSUME NEW s, NEW a, NEW n \in Nat
  PROVE  \E f : Walk(f, s, a, n)
<1> DEFINE S == {k \in 0 .. n : ~ \E f : Walk(f, s, a, k)}
<1>1. SUFFICES ASSUME S # {} PROVE FALSE
  <2>1. n \in 0 .. n
    OBVIOUS
  <2>2. QED BY <2>1
<1>2. PICK k \in S : \A y \in S : k <= y
  <2>1. S \subseteq Nat
    OBVIOUS
  <2> HIDE DEF S
  <2>2. QED BY <1>1, <2>1, LeastNumber
<1>3. k # 0
  <2>1. Walk([i \in 0 .. 0 |-> a], s, a, 0)
    BY DEF Walk
  <2>2. QED BY <1>2, <2>1
<1>4. k \in Nat /\ k - 1 \in 0 .. n /\ ~(k <= k - 1)
  BY <1>2, <1>3
<1>5. PICK g : Walk(g, s, a, k - 1)
  BY <1>2, <1>4
<1> DEFINE f == [i \in 0 .. k |-> IF i = k THEN Step(g[k - 1], s[k]) ELSE g[i]]
<1>6. f[0] = a /\ g[0] = a
  BY <1>3, <1>4, <1>5, WalkParts
<1>7. ASSUME NEW i \in 1 .. k PROVE f[i] = Step(f[i - 1], s[i])
  <2>1. i \in Nat /\ i - 1 \in 0 .. k /\ i \in 0 .. k /\ i - 1 # k
    BY <1>4
  <2>2. f[i - 1] = g[i - 1]
    BY <2>1
  <2>3. CASE i = k
    BY <2>1, <2>2, <2>3
  <2>4. CASE i # k
    <3>1. i \in 1 .. k - 1 /\ k - 1 \in Nat
      BY <1>4, <2>1, <2>4
    <3>2. g[i] = Step(g[i - 1], s[i])
      BY <1>5, <3>1, WalkParts
    <3>3. QED BY <2>1, <2>2, <2>4, <3>2
  <2>5. QED BY <2>3, <2>4
<1>8. f = [i \in 0 .. k |-> f[i]]
  OBVIOUS
<1> HIDE DEF f
<1>9. \A i \in 0 .. k : f[i] = IF i = 0 THEN a ELSE Step(f[i - 1], s[i])
  <2>1. SUFFICES ASSUME NEW i \in 0 .. k, i # 0 PROVE f[i] = Step(f[i - 1], s[i])
    BY <1>6
  <2>2. i \in 1 .. k
    BY <1>4, <2>1
  <2>3. QED BY <1>7, <2>2
<1>10. Walk(f, s, a, k)
  BY <1>8, <1>9 DEF Walk
<1>11. QED BY <1>2, <1>10

\* Where a path leads: fs_resolve's loop, taken apart.
LEMMA ResolveWalk ==
  ASSUME NEW path, NEW cwd, NEW T, path.tokens \in Seq(T)
  PROVE  \E f : /\ Walk(f, path.tokens, IF path.absolute THEN fs_root ELSE cwd, Len(path.tokens))
                /\ Resolve(path, cwd) = f[Len(path.tokens)]
<1> DEFINE a == IF path.absolute THEN fs_root ELSE cwd
           n == Len(path.tokens)
           W(f) == f = [i \in 0 .. n |-> IF i = 0 THEN a ELSE Step(f[i - 1], path.tokens[i])]
           g == CHOOSE f : W(f)
<1>1. n \in Nat
  OBVIOUS
<1>2. PICK f : Walk(f, path.tokens, a, n)
  BY <1>1, WalkExists
<1>3. W(g)
  <2>1. W(f)
    BY <1>2 DEF Walk
  <2> HIDE DEF W
  <2>2. QED BY <2>1
<1>4. Resolve(path, cwd) = g[n]
  BY DEF Resolve
<1>5. QED BY <1>3, <1>4 DEF Walk

\* Where a path can lead, when every token leads from a place in S to one in S.
LEMMA ResolveWithin ==
  ASSUME NEW path, NEW cwd, NEW T, path.tokens \in Seq(T), NEW S,
         (IF path.absolute THEN fs_root ELSE cwd) \in S,
         \A x \in S, t \in T : Step(x, t) \in S
  PROVE  Resolve(path, cwd) \in S
<1> DEFINE s == path.tokens
           a == IF path.absolute THEN fs_root ELSE cwd
           n == Len(s)
<1>1. PICK f : Walk(f, s, a, n) /\ Resolve(path, cwd) = f[n]
  BY ResolveWalk
<1>2. n \in Nat /\ \A i \in 1 .. n : s[i] \in T
  OBVIOUS
<1>3. a \in S
  OBVIOUS
<1> HIDE DEF s, a, n
<1>4. f[0] = a /\ \A i \in 1 .. n : f[i] = Step(f[i - 1], s[i])
  BY <1>1, <1>2, WalkParts
<1> DEFINE Out == {k \in 0 .. n : f[k] \notin S}
<1>5. SUFFICES ASSUME Out # {} PROVE FALSE
  <2>1. n \in 0 .. n
    BY <1>2
  <2>2. QED BY <1>1, <2>1
<1>6. PICK k \in Out : \A y \in Out : k <= y
  <2>1. Out \subseteq Nat
    BY <1>2
  <2> HIDE DEF Out
  <2>2. QED BY <1>5, <2>1, LeastNumber
<1>7. k # 0
  BY <1>3, <1>4, <1>6
<1>8. k \in 1 .. n /\ k - 1 \in 0 .. n /\ ~(k <= k - 1)
  BY <1>2, <1>6, <1>7
<1>9. f[k - 1] \in S /\ s[k] \in T /\ f[k] = Step(f[k - 1], s[k])
  BY <1>2, <1>4, <1>6, <1>8
<1>10. f[k] \in S
  BY <1>9
<1>11. QED BY <1>6, <1>10

\* The last component is looked up where the ones before it lead.
LEMMA ResolveFront ==
  ASSUME NEW path, NEW front, NEW cwd, NEW T, path.tokens \in Seq(T), front.tokens \in Seq(T),
         path.absolute = front.absolute, Len(path.tokens) = Len(front.tokens) + 1,
         \A i \in 1 .. Len(front.tokens) : front.tokens[i] = path.tokens[i]
  PROVE  Resolve(path, cwd) = Step(Resolve(front, cwd), path.tokens[Len(path.tokens)])
<1> DEFINE s == path.tokens
           t == front.tokens
           a == IF path.absolute THEN fs_root ELSE cwd
           n == Len(t)
<1>1. n \in Nat /\ Len(s) = n + 1
  OBVIOUS
<1>2. PICK f : Walk(f, s, a, n + 1) /\ Resolve(path, cwd) = f[n + 1]
  BY <1>1, ResolveWalk
<1>3. PICK g : Walk(g, t, a, n) /\ Resolve(front, cwd) = g[n]
  BY ResolveWalk
<1>4. \A i \in 1 .. n : t[i] = s[i]
  OBVIOUS
<1> HIDE DEF s, t, a, n
<1>5. f[0] = a /\ \A i \in 1 .. n + 1 : f[i] = Step(f[i - 1], s[i])
  BY <1>1, <1>2, WalkParts
<1>6. g[0] = a /\ \A i \in 1 .. n : g[i] = Step(g[i - 1], t[i])
  BY <1>1, <1>3, WalkParts
<1>7. f[n] = g[n]
  <2> DEFINE Off == {k \in 0 .. n : f[k] # g[k]}
  <2>1. SUFFICES ASSUME Off # {} PROVE FALSE
    <3>1. n \in 0 .. n
      BY <1>1
    <3>2. QED BY <3>1
  <2>2. PICK k \in Off : \A y \in Off : k <= y
    <3>1. Off \subseteq Nat
      BY <1>1
    <3> HIDE DEF Off
    <3>2. QED BY <2>1, <3>1, LeastNumber
  <2>3. k # 0
    BY <1>5, <1>6, <2>2
  <2>4. k \in 1 .. n /\ k \in 1 .. n + 1 /\ k - 1 \in 0 .. n /\ ~(k <= k - 1)
    BY <1>1, <2>2, <2>3
  <2>5. f[k - 1] = g[k - 1] /\ t[k] = s[k]
    BY <1>4, <2>2, <2>4
  <2>6. f[k] = g[k]
    BY <1>5, <1>6, <2>4, <2>5
  <2>7. QED BY <2>2, <2>6
<1>8. f[n + 1] = Step(f[n], s[n + 1])
  <2>1. PICK k : k = n + 1
    OBVIOUS
  <2>2. k \in 1 .. n + 1 /\ k - 1 = n
    BY <1>1, <2>1
  <2>3. f[k] = Step(f[k - 1], s[k])
    BY <1>5, <2>2
  <2>4. QED BY <2>1, <2>2, <2>3
<1>9. QED BY <1>1, <1>2, <1>3, <1>7, <1>8 DEF s

\* The child looked up is one of the array.
LEMMA FindInFacts ==
  ASSUME TypeOK, LinksAgree, NEW dir \in DOMAIN node
  PROVE  \A name : FindIn(dir, name) \in KidsOf(node, dir) \cup {NULL}
<1>1. SUFFICES ASSUME NEW name PROVE FindIn(dir, name) \in KidsOf(node, dir) \cup {NULL}
  OBVIOUS
<1> DEFINE s == node[dir].children
           hits == {i \in DOMAIN s : node[s[i]].name = name}
<1>2. s \in Seq(Addr)
  BY NodeFacts
<1>3. CASE node[dir].type # "dir" \/ hits = {}
  BY <1>3 DEF FindIn
<1>4. CASE node[dir].type = "dir" /\ hits # {}
  <2>1. hits \subseteq Nat
    BY <1>2
  <2>2. \E i \in hits : \A j \in hits : i <= j
    <3> HIDE DEF hits
    <3>1. QED BY <1>4, <2>1, LeastNumber
  <2>3. PICK k : k = CHOOSE i \in hits : \A j \in hits : i <= j
    OBVIOUS
  <2>4. k \in hits
    <3> HIDE DEF hits
    <3>1. QED BY <2>2, <2>3
  <2>5. k \in DOMAIN s
    BY <2>4
  <2>6. FindIn(dir, name) = s[k]
    BY <1>4, <2>3 DEF FindIn
  <2>7. QED BY <2>5, <2>6 DEF KidsOf
<1>5. QED BY <1>3, <1>4

\* From the tree a token leads nowhere but into the tree, or to nothing.
LEMMA StepLinked ==
  ASSUME TypeOK, LinksAgree, RootInv, NEW x \in Linked \cup {NULL}, NEW token
  PROVE  Step(x, token) \in Linked \cup {NULL}
<1>1. CASE x = NULL
  <2>1. x \notin DOMAIN node
    BY <1>1, FileTreeAssumption DEF TypeOK
  <2>2. QED BY <1>1, <2>1 DEF Step
<1>2. CASE x \in Linked
  <2>1. x \in DOMAIN node /\ (node[x].parent # NULL => node[x].parent \in Linked)
    BY <1>2, LinkedParent
  <2>2. KidsOf(node, x) \subseteq Linked
    <3>1. fs_root \in DOMAIN node /\ Linked = From(GraphOf(node), fs_root)
      BY <1>2, LinkedParent
    <3>2. QED BY <1>2, <2>1, <3>1, LinkFacts, FromClosed
  <2>3. FindIn(x, token) \in Linked \cup {NULL}
    BY <2>1, <2>2, FindInFacts
  <2>4. QED BY <1>2, <2>1, <2>3 DEF Step
<1>3. QED BY <1>1, <1>2

\* A walk that starts at "/" stays in the tree.
LEMMA ResolveLinked ==
  ASSUME TypeOK, LinksAgree, RootInv, fs_root \in DOMAIN node, NEW path, NEW T, path.tokens \in Seq(T)
  PROVE  /\ Resolve(path, fs_root) \in Linked \cup {NULL}
         /\ Linked \subseteq DOMAIN node
<1>1. fs_root \in Linked
  <2>1. fs_root # NULL
    BY FileTreeAssumption DEF TypeOK
  <2>2. Linked = From(GraphOf(node), fs_root)
    BY <2>1, ReachIsFrom
  <2>3. QED BY <2>2, LinkFacts, FromClosed
<1>2. (IF path.absolute THEN fs_root ELSE fs_root) \in Linked \cup {NULL}
  BY <1>1
<1>3. \A x \in Linked \cup {NULL}, t \in T : Step(x, t) \in Linked \cup {NULL}
  BY StepLinked
<1>4. Resolve(path, fs_root) \in Linked \cup {NULL}
  BY <1>2, <1>3, ResolveWithin
<1>5. Linked \subseteq DOMAIN node
  BY <1>1, LinkedParent
<1>6. QED BY <1>4, <1>5

-----------------------------------------------------------------------------
(* What pwd prints *)

\* c leads from "/" down to m in k steps.
LeadsTo(c, k, m) ==
  /\ c[0] = fs_root /\ c[k] = m
  /\ \A i \in 0 .. k : c[i] \in Linked
  /\ \A i \in 1 .. k : node[c[i]].parent = c[i - 1]

NamesAlong(c, k) == [i \in 1 .. k |-> node[c[i]].name]

LEMMA RootLed ==
  ASSUME TypeOK, LinksAgree, RootInv, fs_root \in Linked
  PROVE  LeadsTo([i \in 0 .. 0 |-> fs_root], 0, fs_root)
BY DEF LeadsTo

\* A way to a node is one to its child, with the child behind it.
LEMMA LedFurther ==
  ASSUME NEW c, NEW k \in Nat, NEW m, LeadsTo(c, k, m), NEW x \in Linked, node[x].parent = m
  PROVE  LeadsTo([i \in 0 .. k + 1 |-> IF i = k + 1 THEN x ELSE c[i]], k + 1, x)
<1> DEFINE d == [i \in 0 .. k + 1 |-> IF i = k + 1 THEN x ELSE c[i]]
<1>1. d[k + 1] = x /\ \A i \in 0 .. k : d[i] = c[i]
  OBVIOUS
<1>2. d[0] = fs_root
  BY <1>1 DEF LeadsTo
<1>3. ASSUME NEW i \in 0 .. k + 1 PROVE d[i] \in Linked
  <2>1. i \in 0 .. k \/ i = k + 1
    OBVIOUS
  <2> HIDE DEF d
  <2>2. QED BY <1>1, <2>1 DEF LeadsTo
<1>4. ASSUME NEW i \in 1 .. k + 1 PROVE node[d[i]].parent = d[i - 1]
  <2>1. CASE i = k + 1
    <3>1. i - 1 = k /\ k \in 0 .. k
      BY <2>1
    <3> HIDE DEF d
    <3>2. d[i] = x /\ d[i - 1] = c[k]
      BY <1>1, <2>1, <3>1
    <3>3. QED BY <3>2 DEF LeadsTo
  <2>2. CASE i # k + 1
    <3>1. i \in 1 .. k /\ i \in 0 .. k /\ i - 1 \in 0 .. k
      BY <2>2
    <3> HIDE DEF d
    <3>2. d[i] = c[i] /\ d[i - 1] = c[i - 1]
      BY <1>1, <3>1
    <3>3. QED BY <3>1, <3>2 DEF LeadsTo
  <2>3. QED BY <2>1, <2>2
<1> HIDE DEF d
<1>5. LeadsTo(d, k + 1, x)
  BY <1>1, <1>2, <1>3, <1>4 DEF LeadsTo
<1>6. QED BY <1>5 DEF d

\* Every node of the tree can be led to: such nodes are a closed set.
LEMMA AllLed ==
  ASSUME TypeOK, LinksAgree, RootInv, NEW n \in Linked
  PROVE  \E k \in Nat : \E c : LeadsTo(c, k, n)
<1> DEFINE S == {m \in Linked : \E k \in Nat : \E c : LeadsTo(c, k, m)}
<1>1. fs_root \in DOMAIN node /\ Linked = From(GraphOf(node), fs_root)
  BY LinkedParent
<1>2. Linked \subseteq DOMAIN node /\ fs_root \in Linked
  BY <1>1, LinkFacts, FromClosed
<1>3. fs_root \in S
  BY <1>2, RootLed
<1>4. ASSUME NEW m \in S, NEW x \in GraphOf(node)[m] PROVE x \in S
  <2>1. PICK k \in Nat : \E c : LeadsTo(c, k, m)
    OBVIOUS
  <2>2. PICK c : LeadsTo(c, k, m)
    BY <2>1
  <2>3. m \in DOMAIN node /\ x \in KidsOf(node, m) /\ x \in Linked
    BY <1>1, <1>2, LinkFacts, FromClosed
  <2>4. node[x].parent = m
    BY <2>3, LinkFacts DEF PointBack
  <2>5. \E d : LeadsTo(d, k + 1, x)
    BY <2>2, <2>3, <2>4, LedFurther
  <2>6. k + 1 \in Nat
    OBVIOUS
  <2>7. QED BY <2>3, <2>5, <2>6
<1>5. S \in SUBSET DOMAIN node
  BY <1>2
<1>6. From(GraphOf(node), fs_root) \subseteq S
  <2>1. \A m \in S : GraphOf(node)[m] \subseteq S
    BY <1>4
  <2>2. GraphOf(node) \in [DOMAIN node -> SUBSET DOMAIN node]
    BY LinkFacts
  <2> HIDE DEF S
  <2>3. QED BY <1>1, <1>3, <1>5, <2>1, <2>2, FromLeast
<1>7. QED BY <1>1, <1>6

\* Two ways to a node agree from its end backwards, as far as both go.
LEMMA LedBack ==
  ASSUME NEW m, NEW c, NEW k \in Nat, LeadsTo(c, k, m), NEW d, NEW l \in Nat, LeadsTo(d, l, m)
  PROVE  \A j \in 0 .. k : j <= l => c[k - j] = d[l - j]
<1> DEFINE Off == {j \in 0 .. k : j <= l /\ c[k - j] # d[l - j]}
<1>1. SUFFICES ASSUME Off # {} PROVE FALSE
  OBVIOUS
<1>2. PICK j \in Off : \A y \in Off : j <= y
  <2>1. Off \subseteq Nat
    OBVIOUS
  <2> HIDE DEF Off
  <2>2. QED BY <1>1, <2>1, LeastNumber
<1>3. j # 0
  <2>1. k - 0 = k /\ l - 0 = l
    OBVIOUS
  <2>2. QED BY <1>2, <2>1 DEF LeadsTo
<1>4. j \in 1 .. k /\ j <= l /\ j - 1 \in 0 .. k /\ j - 1 <= l /\ ~(j <= j - 1)
  BY <1>2, <1>3
<1>5. c[k - (j - 1)] = d[l - (j - 1)]
  BY <1>2, <1>4
<1>6. PICK p, q : p = k - (j - 1) /\ q = l - (j - 1)
  OBVIOUS
<1>7. p \in 1 .. k /\ q \in 1 .. l /\ p - 1 = k - j /\ q - 1 = l - j
  BY <1>4, <1>6
<1>8. node[c[p]].parent = c[p - 1] /\ node[d[q]].parent = d[q - 1]
  BY <1>7 DEF LeadsTo
<1>9. c[k - j] = d[l - j]
  BY <1>5, <1>6, <1>7, <1>8
<1>10. QED BY <1>2, <1>9

\* Nor does one go on where the other ends: "/" has no parent.
LEMMA LedNoFurther ==
  ASSUME TypeOK, LinksAgree, RootInv, NEW m,
         NEW c, NEW k \in Nat, LeadsTo(c, k, m), NEW d, NEW l \in Nat, LeadsTo(d, l, m)
  PROVE  ~(k < l)
<1>1. SUFFICES ASSUME k < l PROVE FALSE
  OBVIOUS
<1>2. PICK q : q = l - k
  OBVIOUS
<1>3. q \in 1 .. l /\ q - 1 \in 0 .. l /\ k \in 0 .. k /\ k <= l /\ k - k = 0
  BY <1>1, <1>2
<1>4. c[0] = d[q]
  BY <1>2, <1>3, LedBack
<1>5. d[q] = fs_root /\ node[d[q]].parent = d[q - 1] /\ d[q - 1] \in Linked
  BY <1>3, <1>4 DEF LeadsTo
<1>6. d[q - 1] \in DOMAIN node /\ fs_root \in DOMAIN node
  BY <1>5, LinkedParent
<1>7. d[q - 1] # NULL /\ fs_root # NULL
  BY <1>6, NodeFacts
<1>8. QED BY <1>5, <1>7 DEF RootInv

LEMMA LedOnce ==
  ASSUME TypeOK, LinksAgree, RootInv, NEW m,
         NEW c, NEW k \in Nat, LeadsTo(c, k, m), NEW d, NEW l \in Nat, LeadsTo(d, l, m)
  PROVE  k = l /\ NamesAlong(c, k) = NamesAlong(d, l)
<1>1. ~(k < l) /\ ~(l < k)
  BY LedNoFurther
<1>2. k = l
  BY <1>1
<1>3. ASSUME NEW i \in 1 .. k PROVE c[i] = d[i]
  <2>1. PICK j : j = k - i
    OBVIOUS
  <2>2. j \in 0 .. k /\ j <= l /\ k - j = i /\ l - j = i
    BY <1>2, <2>1
  <2>3. QED BY <2>2, LedBack
<1>4. QED BY <1>2, <1>3 DEF NamesAlong

\* The last name is the node's own, those before it are its parent's.
LEMMA LedParent ==
  ASSUME TypeOK, LinksAgree, RootInv, NEW n \in Linked, n # fs_root,
         NEW c, NEW k \in Nat, LeadsTo(c, k, n)
  PROVE  /\ k \in Nat \ {0} /\ LeadsTo(c, k - 1, node[n].parent)
         /\ NamesAlong(c, k) = Append(NamesAlong(c, k - 1), node[n].name)
<1>1. k # 0
  BY DEF LeadsTo
<1>2. k \in 1 .. k /\ k - 1 \in Nat
  BY <1>1
<1>3. \A i : (i \in 0 .. k - 1 => i \in 0 .. k) /\ (i \in 1 .. k - 1 => i \in 1 .. k)
  BY <1>2
<1>4. node[n].parent = c[k - 1] /\ c[k] = n
  BY <1>2 DEF LeadsTo
<1>5. LeadsTo(c, k - 1, node[n].parent)
  BY <1>3, <1>4 DEF LeadsTo
<1> DEFINE s == NamesAlong(c, k - 1)
<1>6. s = [i \in 1 .. k - 1 |-> node[c[i]].name]
  BY DEF NamesAlong
<1>7. s \in Seq({node[c[i]].name : i \in 1 .. k}) /\ Len(s) = k - 1
  BY <1>2, <1>6
<1>8. Append(s, node[n].name) = NamesAlong(c, k)
  <2>1. Append(s, node[n].name) = [i \in 1 .. (k - 1) + 1 |-> IF i = (k - 1) + 1 THEN node[n].name ELSE s[i]]
    <3> HIDE DEF s
    <3>1. Append(s, node[n].name) = [i \in 1 .. Len(s) + 1 |-> IF i = Len(s) + 1 THEN node[n].name ELSE s[i]]
      BY <1>7
    <3>2. QED BY <1>7, <3>1
  <2>2. (k - 1) + 1 = k
    BY <1>2
  <2>3. ASSUME NEW i \in 1 .. k
        PROVE  (IF i = k THEN node[n].name ELSE s[i]) = node[c[i]].name
    <3>1. CASE i = k
      BY <1>4, <3>1
    <3>2. CASE i # k
      <4>1. i \in 1 .. k - 1
        BY <1>2, <3>2
      <4>2. s[i] = node[c[i]].name
        BY <1>6, <4>1
      <4>3. QED BY <3>2, <4>2
    <3>3. QED BY <3>1, <3>2
  <2> HIDE DEF s
  <2>4. QED BY <2>1, <2>2, <2>3 DEF NamesAlong
<1>9. QED BY <1>1, <1>5, <1>8

\* What the loop of pwd gathers at each node of the tree.
Gathered(u) ==
  u = [m \in Linked |-> IF node[m].parent = NULL THEN <<>>
                        ELSE Append(u[node[m].parent], node[m].name)]

LEMMA SomeGathered ==
  ASSUME TypeOK, LinksAgree, RootInv
  PROVE  \E u : Gathered(u)
<1> DEFINE Of(m, s) == \E k \in Nat : \E c : LeadsTo(c, k, m) /\ s = NamesAlong(c, k)
           t(m) == CHOOSE s : Of(m, s)
           u == [m \in Linked |-> t(m)]
<1>1. ASSUME NEW m \in Linked, NEW k \in Nat, NEW c, LeadsTo(c, k, m)
      PROVE  t(m) = NamesAlong(c, k)
  <2>1. Of(m, NamesAlong(c, k))
    BY <1>1
  <2>2. Of(m, t(m))
    <3> HIDE DEF Of
    <3>1. QED BY <2>1, Zenon
  <2>3. PICK l \in Nat : \E d : LeadsTo(d, l, m) /\ t(m) = NamesAlong(d, l)
    BY <2>2
  <2>4. PICK d : LeadsTo(d, l, m) /\ t(m) = NamesAlong(d, l)
    BY <2>3
  <2> HIDE DEF t
  <2>5. QED BY <1>1, <2>4, LedOnce
<1> HIDE DEF t
<1>2. ASSUME NEW m \in Linked
      PROVE  t(m) = IF node[m].parent = NULL THEN <<>>
                    ELSE Append(u[node[m].parent], node[m].name)
  <2>1. PICK k \in Nat : \E c : LeadsTo(c, k, m)
    BY AllLed
  <2>2. PICK c : LeadsTo(c, k, m)
    BY <2>1
  <2>3. t(m) = NamesAlong(c, k)
    BY <1>1, <2>2
  <2>4. CASE m = fs_root
    <3>1. node[m].parent = NULL
      BY <2>4, LinkedParent
    <3>2. k = 0
      BY <2>2, <2>4, RootLed, LedOnce
    <3>3. NamesAlong(c, 0) = <<>>
      BY DEF NamesAlong
    <3>4. QED BY <2>3, <3>1, <3>2, <3>3
  <2>5. CASE m # fs_root
    <3>1. node[m].parent # NULL /\ node[m].parent \in Linked
      BY <2>5, LinkedParent
    <3>2. /\ k - 1 \in Nat /\ LeadsTo(c, k - 1, node[m].parent)
          /\ NamesAlong(c, k) = Append(NamesAlong(c, k - 1), node[m].name)
      BY <2>2, <2>5, LedParent
    <3>3. t(node[m].parent) = NamesAlong(c, k - 1)
      BY <1>1, <3>1, <3>2
    <3>4. u[node[m].parent] = t(node[m].parent)
      BY <3>1
    <3>5. QED BY <2>3, <3>1, <3>2, <3>3, <3>4
  <2>6. QED BY <2>4, <2>5
<1>3. u = [m \in Linked |-> IF node[m].parent = NULL THEN <<>>
                            ELSE Append(u[node[m].parent], node[m].name)]
  BY <1>2
<1>4. Gathered(u)
  BY <1>3 DEF Gathered
<1>5. QED BY <1>4

\* pwd prints the names on the way from "/".
LEMMA PathIsLine ==
  ASSUME TypeOK, LinksAgree, RootInv, NEW n \in Linked, NEW c, NEW k \in Nat, LeadsTo(c, k, n)
  PROVE  PathOf(n) = [absolute |-> TRUE, tokens |-> NamesAlong(c, k)]
<1> DEFINE G(u) == u = [m \in Linked |-> IF node[m].parent = NULL THEN <<>>
                                         ELSE Append(u[node[m].parent], node[m].name)]
           g == CHOOSE u : G(u)
<1>1. PathOf(n) = [absolute |-> TRUE, tokens |-> g[n]]
  BY DEF PathOf
<1>2. G(g)
  <2>1. \E u : G(u)
    BY SomeGathered DEF Gathered
  <2> HIDE DEF G
  <2>2. QED BY <2>1
<1>3. \A m \in Linked : g[m] = IF node[m].parent = NULL THEN <<>>
                               ELSE Append(g[node[m].parent], node[m].name)
  BY <1>2
<1> HIDE DEF g, G
<1>4. g[n] = NamesAlong(c, k)
  <2> DEFINE Off == {i \in 0 .. k : g[c[i]] # NamesAlong(c, i)}
  <2>1. SUFFICES ASSUME Off # {} PROVE FALSE
    <3>1. k \in 0 .. k /\ c[k] = n
      BY DEF LeadsTo
    <3>2. QED BY <3>1
  <2>2. PICK i \in Off : \A y \in Off : i <= y
    <3>1. Off \subseteq Nat
      OBVIOUS
    <3> HIDE DEF Off
    <3>2. QED BY <2>1, <3>1, LeastNumber
  <2>3. i \in Nat /\ i \in 0 .. k /\ c[i] \in Linked
    BY <2>2 DEF LeadsTo
  <2>4. LeadsTo(c, i, c[i])
    <3>1. \A j : (j \in 0 .. i => j \in 0 .. k) /\ (j \in 1 .. i => j \in 1 .. k)
      BY <2>3
    <3>2. QED BY <3>1 DEF LeadsTo
  <2>5. CASE c[i] = fs_root
    <3>1. node[c[i]].parent = NULL
      BY <2>3, <2>5, LinkedParent
    <3>2. i = 0
      BY <2>3, <2>4, <2>5, RootLed, LedOnce
    <3>3. NamesAlong(c, 0) = <<>>
      BY DEF NamesAlong
    <3>4. QED BY <1>3, <2>2, <2>3, <3>1, <3>2, <3>3
  <2>6. CASE c[i] # fs_root
    <3>1. node[c[i]].parent # NULL /\ node[c[i]].parent \in Linked
      BY <2>3, <2>6, LinkedParent
    <3>2. /\ i \in Nat \ {0} /\ LeadsTo(c, i - 1, node[c[i]].parent)
          /\ NamesAlong(c, i) = Append(NamesAlong(c, i - 1), node[c[i]].name)
      BY <2>3, <2>4, <2>6, LedParent
    <3>3. i - 1 \in 0 .. k /\ ~(i <= i - 1) /\ node[c[i]].parent = c[i - 1]
      BY <2>3, <3>2 DEF LeadsTo
    <3>4. g[c[i - 1]] = NamesAlong(c, i - 1)
      BY <2>2, <3>3
    <3>5. g[c[i]] = NamesAlong(c, i)
      BY <1>3, <2>3, <3>1, <3>2, <3>3, <3>4
    <3>6. QED BY <2>2, <3>5
  <2>7. QED BY <2>5, <2>6
<1>5. QED BY <1>1, <1>4

\* No two entries of a directory have the same name.
NoNamesakes == \A n \in Linked : \A c, d \in Kids(n) : node[c].name = node[d].name => c = d

\* Without namesakes a name leads to the child that has it.
LEMMA NameFinds ==
  ASSUME TypeOK, LinksAgree, RootInv, NoNamesakes, NEW n \in Linked, n # fs_root
  PROVE  Step(node[n].parent, node[n].name) = n
<1> DEFINE dir == node[n].parent
           name == node[n].name
           s == node[dir].children
           hits == {i \in DOMAIN s : node[s[i]].name = name}
<1>1. dir \in Linked /\ n \in KidsOf(node, dir) /\ dir \in DOMAIN node /\ n \in DOMAIN node
  <2>1. dir \in Linked /\ n \in KidsOf(node, dir) /\ n \in DOMAIN node
    BY LinkedParent
  <2> HIDE DEF dir
  <2>2. dir \in DOMAIN node
    BY <2>1, LinkedParent
  <2>3. QED BY <2>1, <2>2
<1>2. name # "." /\ name # ".."
  <2>1. node[n] \in NodeType
    BY <1>1, NodeFacts
  <2>2. name \in Names \cup {"/"}
    BY <2>1 DEF NodeType
  <2> HIDE DEF name
  <2>3. QED BY <2>2, FileTreeAssumption
<1>3. PICK k \in DOMAIN s : s[k] = n
  BY <1>1 DEF KidsOf
<1>4. k \in hits
  BY <1>3
<1>5. \A i \in hits : s[i] = n
  <2>1. \A i \in DOMAIN s : s[i] \in Kids(dir)
    BY DEF Kids
  <2>2. SUFFICES ASSUME NEW i \in hits PROVE s[i] = n
    OBVIOUS
  <2>3. s[i] \in Kids(dir) /\ s[k] \in Kids(dir) /\ node[s[i]].name = node[s[k]].name
    BY <1>3, <2>1, <2>2
  <2> HIDE DEF dir, s
  <2>4. QED BY <1>1, <1>3, <2>3 DEF NoNamesakes
<1>6. node[dir].type = "dir"
  <2> HIDE DEF dir
  <2>1. node[dir].type \in {"file", "dir"} /\ (node[dir].type = "file" => node[dir].children = <<>>)
    BY <1>1, NodeFacts, LinksLocal
  <2>2. QED BY <1>3, <2>1
<1>7. FindIn(dir, name) = n
  <2>1. PICK i : i = CHOOSE x \in hits : \A y \in hits : x <= y
    OBVIOUS
  <2>2. i \in hits
    <3>1. hits \subseteq Nat
      <4>1. s \in Seq(Addr)
        <5> HIDE DEF dir
        <5>1. QED BY <1>1, NodeFacts
      <4> HIDE DEF s
      <4>2. QED BY <4>1
    <3> HIDE DEF hits
    <3>2. \E x \in hits : \A y \in hits : x <= y
      BY <1>4, <3>1, LeastNumber
    <3>3. QED BY <2>1, <3>2
  <2>3. FindIn(dir, name) = s[i]
    BY <1>4, <1>6, <2>1 DEF FindIn
  <2>4. QED BY <1>5, <2>2, <2>3
<1> HIDE DEF dir, name
<1>8. Step(dir, name) = n
  BY <1>1, <1>2, <1>7 DEF Step
<1>9. QED BY <1>8 DEF dir, name

LEMMA InvPwd == IInv => PwdResolves
<1> SUFFICES ASSUME TypeOK, LinksAgree, RootInv, NoNamesakes, NEW n \in Linked, NEW cwd \in Linked
             PROVE  LET path == PathOf(n)
                        up == [path EXCEPT !.tokens = Append(@, "..")]
                    IN /\ Resolve(path, cwd) = n
                       /\ Resolve(up, cwd) = IF n = fs_root THEN n ELSE node[n].parent
  BY DEF IInv, PwdResolves, NoNamesakes
<1>1. PICK k \in Nat : \E c : LeadsTo(c, k, n)
  BY AllLed
<1>2. PICK c : LeadsTo(c, k, n)
  BY <1>1
<1> DEFINE s == NamesAlong(c, k)
           T == {node[c[i]].name : i \in 1 .. k} \cup {".."}
           path == [absolute |-> TRUE, tokens |-> s]
           up == [path EXCEPT !.tokens = Append(@, "..")]
<1>3. PathOf(n) = path
  BY <1>2, PathIsLine
<1>4. s \in Seq(T) /\ Len(s) = k /\ \A i \in 1 .. k : s[i] = node[c[i]].name
  BY DEF NamesAlong
<1> HIDE DEF s, T
<1>5. /\ path.tokens = s /\ path.absolute = TRUE
      /\ up.tokens = Append(s, "..") /\ up.absolute = TRUE
  <2>1. path \in [absolute : BOOLEAN, tokens : Seq(T)]
    BY <1>4
  <2>2. path.tokens = s /\ path.absolute = TRUE
    OBVIOUS
  <2> HIDE DEF path
  <2>3. QED BY <2>1, <2>2
<1>6. Resolve(path, cwd) = n
  <2> HIDE DEF path, up
  <2>1. path.tokens = s /\ path.absolute
    BY <1>5
  <2>2. PICK f : Walk(f, s, fs_root, k) /\ Resolve(path, cwd) = f[k]
    BY <1>4, <2>1, ResolveWalk
  <2>3. f[0] = fs_root /\ \A i \in 1 .. k : f[i] = Step(f[i - 1], s[i])
    BY <2>2, WalkParts
  <2> DEFINE Off == {i \in 0 .. k : f[i] # c[i]}
  <2>4. SUFFICES ASSUME Off # {} PROVE FALSE
    <3>1. k \in 0 .. k /\ c[k] = n
      BY <1>2 DEF LeadsTo
    <3>2. QED BY <2>2, <3>1
  <2>5. PICK i \in Off : \A y \in Off : i <= y
    <3>1. Off \subseteq Nat
      OBVIOUS
    <3> HIDE DEF Off
    <3>2. QED BY <2>4, <3>1, LeastNumber
  <2>6. i # 0
    BY <1>2, <2>3, <2>5 DEF LeadsTo
  <2>7. i \in 1 .. k /\ i \in 0 .. k /\ i - 1 \in 0 .. k /\ ~(i <= i - 1)
    BY <2>5, <2>6
  <2>8. f[i - 1] = c[i - 1]
    BY <2>5, <2>7
  <2>9. c[i] \in Linked /\ c[i - 1] \in Linked /\ node[c[i]].parent = c[i - 1]
    BY <1>2, <2>7 DEF LeadsTo
  <2>10. c[i] # fs_root
    BY <2>9, LinkedParent, NodeFacts
  <2>11. Step(c[i - 1], s[i]) = c[i]
    <3>1. Step(node[c[i]].parent, node[c[i]].name) = c[i]
      BY <2>9, <2>10, NameFinds
    <3>2. QED BY <1>4, <2>7, <2>9, <3>1
  <2>12. f[i] = c[i]
    BY <2>3, <2>7, <2>8, <2>11
  <2>13. QED BY <2>5, <2>12
<1>7. Resolve(up, cwd) = Step(n, "..")
  <2> HIDE DEF path, up
  <2>1. ".." \in T
    BY DEF T
  <2>2. /\ Append(s, "..") \in Seq(T) /\ Len(Append(s, "..")) = k + 1
        /\ \A i \in 1 .. k : Append(s, "..")[i] = s[i]
        /\ Append(s, "..")[k + 1] = ".."
    BY <1>4, <2>1
  <2>3. /\ up.tokens \in Seq(T) /\ path.tokens \in Seq(T) /\ up.absolute = path.absolute
        /\ Len(up.tokens) = Len(path.tokens) + 1
        /\ \A i \in 1 .. Len(path.tokens) : path.tokens[i] = up.tokens[i]
        /\ up.tokens[Len(up.tokens)] = ".."
    BY <1>4, <1>5, <2>2
  <2>4. Resolve(up, cwd) = Step(Resolve(path, cwd), up.tokens[Len(up.tokens)])
    BY <2>3, ResolveFront
  <2>5. QED BY <1>6, <2>3, <2>4
<1>8. Step(n, "..") = IF n = fs_root THEN n ELSE node[n].parent
  <2>1. n \in DOMAIN node /\ (node[n].parent = NULL <=> n = fs_root)
    BY LinkedParent
  <2>2. QED BY <2>1 DEF Step
<1>9. QED BY <1>3, <1>6, <1>7, <1>8

\* What pwd gathers along the parent pointers leads fs_resolve, down the
\* children arrays, back to where it was asked, and ".." from there to the
\* parent: from every current directory, in trees of any depth.
THEOREM PwdLeadsBack == Spec => []PwdResolves
BY Invariant, InvPwd, PTL
=============================================================================
