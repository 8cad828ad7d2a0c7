---------------------------- MODULE ShellProofs -----------------------------
(***************************************************************************)
(* Proofs about the programs on the file tree: what the login loop, nested *)
(* shells, rm, mkdir, chmod and the editors leave of the tree's links,     *)
(* whatever paths are typed and however stale a current directory is.      *)
(*                                                                         *)
(* A shell's current directory may have been deleted, and its address      *)
(* given to another node, even to one in no directory.  So the invariant   *)
(* of the first part says nothing of what is reachable, and takes the      *)
(* steps of the file tree from its local lemmas.                           *)
(*                                                                         *)
(* The second part assumes that no directory is removed while a shell      *)
(* stands in it.  Then the invariant of module FileTreeProofs holds here   *)
(* as well: nothing is lost, and every prompt has its directory.           *)
(***************************************************************************)
EXTENDS Shell, FileTreeProofs

-----------------------------------------------------------------------------
(* Where the programs look *)

Tokens == Names \cup {".", ".."}

LEMMA PathFacts ==
  ASSUME NEW path \in Paths
  PROVE  /\ path \in [absolute : BOOLEAN, tokens : Seq(Tokens)]
         /\ path.tokens \in Seq(Tokens) /\ path.absolute \in BOOLEAN
<1>1. path \in [absolute : BOOLEAN, tokens : Seq(Tokens)]
  BY ShellAssumption DEF Tokens
<1>2. QED BY <1>1

\* "." and ".." always lead somewhere.
LEMMA StepToNothing ==
  ASSUME TypeOK, NEW x \in DOMAIN node, NEW token \in Tokens, Step(x, token) = NULL
  PROVE  token \in Names
<1>1. x # NULL
  BY FileTreeAssumption DEF TypeOK
<1>2. token # "." /\ token # ".."
  BY <1>1 DEF Step
<1>3. QED BY <1>2 DEF Tokens

LEMMA FrontFacts ==
  ASSUME NEW T, NEW s \in Seq(T), s # <<>>
  PROVE  /\ Front(s) \in Seq(T) /\ Len(s) = Len(Front(s)) + 1
         /\ \A i \in 1 .. Len(Front(s)) : Front(s)[i] = s[i]
         /\ Last(s) = s[Len(s)] /\ Last(s) \in T /\ Len(s) >= 1
<1>1. Len(s) \in Nat /\ Len(s) >= 1 /\ Len(s) \in DOMAIN s
  OBVIOUS
<1>2. Front(s) \in Seq(T) /\ Len(Front(s)) = Len(s) - 1
      /\ \A i \in 1 .. Len(Front(s)) : Front(s)[i] = s[i]
  <2>1. PICK n \in Nat : n = Len(s) - 1
    BY <1>1
  <2>2. Front(s) = [i \in 1 .. n |-> s[i]]
    BY <2>1 DEF Front
  <2>3. Front(s) \in [1 .. n -> T]
    BY <1>1, <2>1, <2>2
  <2>4. Front(s) \in Seq(T) /\ Len(Front(s)) = n
    BY <2>1, <2>2, <2>3
  <2>5. QED BY <2>1, <2>2, <2>4
<1>3. Last(s) = s[Len(s)] /\ Last(s) \in T
  BY <1>1 DEF Last
<1>4. QED BY <1>1, <1>2, <1>3

\* tinypad's folder and file are in the tree, or nothing; a new file has a name.
LEMMA FolderFacts ==
  ASSUME TypeOK, LinksAgree, RootInv, fs_root \in DOMAIN node,
         NEW path \in Paths, path.tokens # <<>>, Folder(path) # NULL
  PROVE  /\ Folder(path) \in DOMAIN node
         /\ File(path) \in DOMAIN node \cup {NULL}
         /\ File(path) = NULL => Last(path.tokens) \in Names
<1>1. path.tokens \in Seq(Tokens)
  BY PathFacts
<1>2. Front(path.tokens) \in Seq(Tokens) /\ Last(path.tokens) \in Tokens
  BY <1>1, FrontFacts
<1>3. Absolute(Front(path.tokens)).tokens \in Seq(Tokens)
  BY <1>2 DEF Absolute
<1>4. Folder(path) \in Linked /\ Linked \subseteq DOMAIN node
  BY <1>3, ResolveLinked DEF Folder
<1>5. File(path) \in DOMAIN node \cup {NULL}
  BY <1>4, StepLinked DEF File
<1>6. File(path) = NULL => Last(path.tokens) \in Names
  BY <1>2, <1>4, StepToNothing DEF File
<1>7. QED BY <1>4, <1>5, <1>6

\* mkdir makes no directory named "." or "..": these it finds.
LEMMA MkdirName ==
  ASSUME TypeOK, fs_root \in DOMAIN node, NEW path \in Paths, path.tokens # <<>>,
         NotFound(path), Lookup(ParentPath(path)) \in DOMAIN node
  PROVE  Last(path.tokens) \in Names
<1> DEFINE s == path.tokens
           front == [path EXCEPT !.tokens = Front(@)]
<1>1. path \in [absolute : BOOLEAN, tokens : Seq(Tokens)] /\ s \in Seq(Tokens)
  BY PathFacts
<1>2. /\ Front(s) \in Seq(Tokens) /\ Len(s) = Len(Front(s)) + 1
      /\ \A i \in 1 .. Len(Front(s)) : Front(s)[i] = s[i]
      /\ Last(s) = s[Len(s)] /\ Last(s) \in Tokens /\ Len(s) >= 1
  BY <1>1, FrontFacts
<1>3. front.tokens = Front(s) /\ front.absolute = path.absolute
  BY <1>1
<1>4. Lookup(path) = Step(Resolve(front, current_dir), Last(s))
  <2> HIDE DEF front
  <2>1. Resolve(path, current_dir) = Step(Resolve(front, current_dir), path.tokens[Len(path.tokens)])
    BY <1>1, <1>2, <1>3, ResolveFront
  <2>2. QED BY <1>2, <2>1 DEF Lookup
<1>5. Resolve(front, current_dir) \in DOMAIN node
  <2>1. CASE Len(s) > 1
    BY <2>1 DEF ParentPath, Lookup
  <2>2. CASE ~(Len(s) > 1)
    <3>1. Len(Front(s)) = 0
      BY <1>2, <2>2
    <3>2. PICK f : /\ Walk(f, front.tokens, IF front.absolute THEN fs_root ELSE current_dir, 0)
                   /\ Resolve(front, current_dir) = f[0]
      <4> HIDE DEF front
      <4>1. Len(front.tokens) = 0
        BY <1>3, <3>1
      <4>2. QED BY <1>2, <1>3, <4>1, ResolveWalk
    <3>3. Resolve(front, current_dir) = IF front.absolute THEN fs_root ELSE current_dir
      BY <3>2, WalkParts
    <3>4. Resolve(Relative(<<>>), current_dir) = current_dir
      <4> DEFINE here == Relative(<<>>)
      <4>1. here.tokens = <<>> /\ ~here.absolute /\ here.tokens \in Seq(Tokens) /\ Len(here.tokens) = 0
        BY DEF Relative
      <4> HIDE DEF here
      <4>2. PICK g : /\ Walk(g, here.tokens, IF here.absolute THEN fs_root ELSE current_dir, 0)
                     /\ Resolve(here, current_dir) = g[0]
        BY <4>1, ResolveWalk
      <4>3. Resolve(here, current_dir) = current_dir
        BY <4>1, <4>2, WalkParts
      <4>4. QED BY <4>3 DEF here
    <3>5. current_dir \in DOMAIN node
      BY <2>2, <3>4 DEF ParentPath, Lookup
    <3>6. QED BY <3>3, <3>5
  <2>3. QED BY <2>1, <2>2
<1>6. Lookup(path) = NULL
  BY DEF NotFound
<1>7. QED BY <1>2, <1>4, <1>5, <1>6, StepToNothing

-----------------------------------------------------------------------------
(* What the steps of the file tree leave of a node somebody holds *)

\* Nodes that stay are of the type they were, where they were, and not out of the tree if they were in it.
Steady ==
  /\ \A m \in DOMAIN node \cap DOMAIN node' :
       node'[m].type = node[m].type /\ node'[m].parent = node[m].parent
  /\ leaked' \cap DOMAIN node \subseteq leaked
  /\ fs_root' = fs_root

\* A new node of that type.
Fresh(type) ==
  \E a \in Addr \ DOMAIN node : DOMAIN node' = DOMAIN node \cup {a} /\ node'[a].type = type

LEMMA RootKept ==
  ASSUME RootStays, Steady, fs_root \in DOMAIN node'
  PROVE  RootStays'
BY DEF RootStays, Steady

LEMMA NoChain ==
  ASSUME deleting' = <<>>
  PROVE  Chain'
<1>1. DOMAIN deleting' = {} /\ 2 .. Len(deleting') = {}
  OBVIOUS
<1>2. QED BY <1>1 DEF Chain

LEMMA AddLocal ==
  ASSUME TypeOK, LinksAgree, NEW dir \in DOMAIN node, NEW type \in {"file", "dir"},
         NEW name \in Names, NEW owner \in Users, Add(dir, type, name, owner)
  PROVE  /\ TypeOK' /\ LinksAgree' /\ Steady /\ Fresh(type) /\ deleting = <<>> /\ deleting' = <<>>
         /\ UNCHANGED <<buffer, deleting>>
<1>1. PICK a : \/ Create(a, type, name, dir, owner)
               \/ CreateUnderFile(a, type, name, dir, owner)
               \/ CreateBeyondArray(a, type, name, dir, owner)
  BY DEF Add
<1>2. CASE Create(a, type, name, dir, owner)
  <2>1. /\ TypeOK' /\ LinksAgree'
        /\ a \in Addr \ DOMAIN node /\ DOMAIN node' = DOMAIN node \cup {a}
        /\ node'[a] = NewNode(type, name, dir, owner)
        /\ Hung(a, dir)
    BY <1>2, CreateLocal
  <2>2. deleting = <<>> /\ UNCHANGED <<fs_root, buffer, deleting, leaked>>
    BY <1>2 DEF Create, Idle
  <2>3. \A m \in DOMAIN node : node'[m].type = node[m].type /\ node'[m].parent = node[m].parent
    BY <2>1 DEF Hung, Alike
  <2>4. node'[a].type = type
    BY <2>1 DEF NewNode
  <2>5. QED BY <2>1, <2>2, <2>3, <2>4 DEF Steady, Fresh
<1>3. CASE \/ CreateUnderFile(a, type, name, dir, owner)
           \/ CreateBeyondArray(a, type, name, dir, owner)
  <2>1. /\ a \in MallocMay(FreeAddr) /\ deleting = <<>>
        /\ node' = Store(node, a, NewNode(type, name, dir, owner))
        /\ UNCHANGED <<fs_root, buffer, deleting>> /\ leaked' \in {leaked, leaked \cup {a}}
        /\ machine' \in {"up", "halted", "wild"}
    BY <1>3 DEF CreateUnderFile, CreateBeyondArray, Idle
  <2>2. TypeOK' /\ LinksAgree' /\ Unhung(a, NewNode(type, name, dir, owner))
    BY <2>1, StoredLocal
  <2>3. /\ a \in Addr \ DOMAIN node /\ DOMAIN node' = DOMAIN node \cup {a}
        /\ node'[a] = NewNode(type, name, dir, owner)
        /\ \A m \in DOMAIN node : node'[m] = node[m]
    BY <2>2 DEF Unhung
  <2>4. node'[a].type = type
    BY <2>3 DEF NewNode
  <2>5. QED BY <2>1, <2>2, <2>3, <2>4 DEF Steady, Fresh
<1>4. QED BY <1>1, <1>2, <1>3

LEMMA WriteLocal ==
  ASSUME TypeOK, LinksAgree, NEW file \in DOMAIN node, NEW bytes \in Contents \cup {Empty},
         fs_write(file, bytes)
  PROVE  /\ TypeOK' /\ LinksAgree' /\ Steady /\ DOMAIN node' = DOMAIN node
         /\ deleting = <<>> /\ deleting' = <<>>
<1>1. /\ DOMAIN Kept(file) = DOMAIN buffer \ {node[file].data}
      /\ Kept(file) \in [DOMAIN Kept(file) -> Contents]
  BY KeptFields
<1>2. DOMAIN buffer \subseteq Addr \ DOMAIN node
  BY DEF TypeOK
<1>3. ASSUME NEW d \in Addr \cup {NULL}, node' = [node EXCEPT ![file].data = d],
             node[file].type = "file", deleting = <<>>, machine' \in {"up", "halted", "wild"},
             DOMAIN buffer' \subseteq Addr \ DOMAIN node, buffer' \in [DOMAIN buffer' -> Contents],
             UNCHANGED <<fs_root, deleting, leaked>>
      PROVE  /\ TypeOK' /\ LinksAgree' /\ Steady /\ DOMAIN node' = DOMAIN node
             /\ deleting = <<>> /\ deleting' = <<>>
  <2>1. /\ DOMAIN node' = DOMAIN node /\ node' \in [DOMAIN node' -> NodeType] /\ LinksAgree'
        /\ \A m \in DOMAIN node : m # file => node'[m] = node[m]
        /\ node'[file].type = node[file].type /\ node'[file].parent = node[file].parent
    BY <1>3, DataLocal
  <2>2. Steady
    BY <1>3, <2>1 DEF Steady
  <2>3. TypeOK'
    BY <1>3, <2>1, NoDelete DEF TypeOK
  <2>4. QED BY <1>3, <2>1, <2>2, <2>3
<1>4. CASE Erase(file)
  <2>1. /\ node[file].type = "file" /\ deleting = <<>> /\ machine = "up" /\ buffer' = Kept(file)
        /\ node' = [node EXCEPT ![file].data = NULL]
        /\ UNCHANGED <<fs_root, deleting, leaked, machine>>
    BY <1>4 DEF Erase, Idle
  <2>2. DOMAIN buffer' \subseteq Addr \ DOMAIN node /\ buffer' \in [DOMAIN buffer' -> Contents]
    BY <1>1, <1>2, <2>1
  <2>3. QED BY <1>3, <2>1, <2>2
<1>5. ASSUME NEW a, Write(a, file, bytes), bytes # Empty
      PROVE  /\ TypeOK' /\ LinksAgree' /\ Steady /\ DOMAIN node' = DOMAIN node
             /\ deleting = <<>> /\ deleting' = <<>>
  <2>1. /\ node[file].type = "file" /\ deleting = <<>> /\ machine = "up"
        /\ a \in MallocMay(Addr \ (DOMAIN node \cup DOMAIN Kept(file)))
        /\ buffer' = Store(Kept(file), a, bytes)
        /\ node' = [node EXCEPT ![file].data = a]
        /\ UNCHANGED <<fs_root, deleting, leaked, machine>>
    BY <1>5 DEF Write, Idle
  <2>2. a \in Addr /\ a \notin DOMAIN node
    <3>1. PICK S : S = DOMAIN node \cup DOMAIN Kept(file)
      OBVIOUS
    <3>2. a \in MallocMay(Addr \ S)
      BY <2>1, <3>1
    <3>3. a \in Addr \ S
      BY <3>2, FreshBuffer
    <3>4. QED BY <3>1, <3>3
  <2>3. DOMAIN buffer' = (DOMAIN buffer \ {node[file].data}) \cup {a}
        /\ buffer' \in [DOMAIN buffer' -> Contents]
    BY <1>1, <1>5, <2>1 DEF Store
  <2>4. DOMAIN buffer' \subseteq Addr \ DOMAIN node
    BY <1>2, <2>2, <2>3
  <2>5. a \in Addr \cup {NULL} /\ machine' \in {"up", "halted", "wild"}
    BY <2>1, <2>2
  <2>6. QED BY <1>3, <2>1, <2>3, <2>4, <2>5
<1>6. CASE WriteOutOfMemory(file)
  <2>1. /\ deleting = <<>> /\ buffer' = Kept(file) /\ machine' = "halted"
        /\ UNCHANGED <<fs_root, node, deleting, leaked>>
    BY <1>6 DEF WriteOutOfMemory, Idle
  <2>2. TypeOK' /\ LinksAgree'
    BY <1>1, <2>1 DEF TypeOK, LinksAgree
  <2>3. QED BY <2>1, <2>2 DEF Steady
<1>7. QED BY <1>4, <1>5, <1>6 DEF fs_write

\* A node is taken out of its parent's array, if the parent is still there.
LEMMA RemoveLocal ==
  ASSUME TypeOK, LinksAgree, RootStays, NEW n \in DOMAIN node, RemoveBegin(n)
  PROVE  /\ TypeOK' /\ LinksAgree' /\ Chain' /\ Steady /\ DOMAIN node' = DOMAIN node
         /\ deleting = <<>> /\ deleting' = <<n>> /\ UNCHANGED machine
<1>1. /\ deleting = <<>> /\ node[n].parent # NULL
      /\ node' = fs_remove_child(node, node[n].parent, n) /\ deleting' = <<n>>
      /\ UNCHANGED <<fs_root, buffer, leaked, machine>>
  BY DEF RemoveBegin, Idle
<1>2. LinksAgree' /\ Unlinked(n)
  BY <1>1, NodeUnlinked
<1>3. DOMAIN node' = DOMAIN node
  <2>1. TakenOut(node', n)
    BY <1>1, ChildRemoved
  <2>2. QED BY <2>1 DEF TakenOut
<1>4. /\ node' \in [DOMAIN node' -> NodeType]
      /\ \A m \in DOMAIN node : Alike(m) /\ KidsOf(node', m) = KidsOf(node, m) \ {n}
  BY <1>2, <1>3 DEF Unlinked
<1>5. Steady
  BY <1>1, <1>4 DEF Steady, Alike
<1>6. TypeOK'
  <2>1. deleting' \in Seq(DOMAIN node')
    BY <1>1, <1>3
  <2>2. QED BY <1>1, <1>3, <1>4, <2>1 DEF TypeOK
<1>7. Chain'
  <2>1. n # fs_root
    BY <1>1 DEF RootStays
  <2>2. Len(deleting') = 1 /\ DOMAIN deleting' = {1} /\ deleting'[1] = n /\ 2 .. Len(deleting') = {}
    BY <1>1
  <2>3. QED BY <1>1, <1>3, <1>4, <2>1, <2>2 DEF Chain
<1>8. QED BY <1>1, <1>2, <1>3, <1>5, <1>6, <1>7

LEMMA DeleteLocal ==
  ASSUME TypeOK, LinksAgree, Chain, RootStays, Delete
  PROVE  TypeOK' /\ LinksAgree' /\ Chain' /\ RootStays' /\ deleting # <<>>
<1>1. CASE DeleteDescend
  <2>1. deleting # <<>> /\ UNCHANGED <<fs_root, node, leaked>>
    BY <1>1 DEF DeleteDescend
  <2>2. RootStays'
    BY <2>1 DEF RootStays
  <2>3. QED BY <1>1, <2>1, <2>2, DescendLocal
<1>2. CASE DeleteFinish
  <2>1. deleting # <<>> /\ leaked' \subseteq leaked /\ UNCHANGED fs_root
    BY <1>2 DEF DeleteFinish
  <2>2. /\ TypeOK' /\ LinksAgree' /\ Chain' /\ Unlinked(Top) /\ DOMAIN node' = DOMAIN node \ {Top}
    BY <1>2, FinishLocal
  <2>3. Top # fs_root
    <3>1. Len(deleting) \in DOMAIN deleting
      BY <2>1 DEF TypeOK
    <3>2. QED BY <3>1 DEF Chain, Top
  <2>4. Steady
    BY <2>1, <2>2 DEF Steady, Unlinked, Alike
  <2>5. fs_root \in DOMAIN node'
    BY <2>2, <2>3 DEF RootStays
  <2>6. QED BY <2>1, <2>2, <2>4, <2>5, RootKept
<1>3. QED BY <1>1, <1>2 DEF Delete

PermissionType == [owner : SUBSET AllRights, group : SUBSET AllRights, other : SUBSET AllRights]

LEMMA ChangedType ==
  ASSUME NEW permissions \in PermissionType, NEW mode \in Modes
  PROVE  Changed(permissions, mode) \in PermissionType
<1>1. mode \in ModeType
  BY ShellAssumption
<1>2. CASE mode.op = "="
  BY <1>1, <1>2 DEF ModeType, Changed, PermissionType
<1>3. CASE mode.op # "="
  <2>1. mode.rights \subseteq AllRights
    BY <1>1, <1>3 DEF ModeType
  <2>2. permissions.other \cup mode.rights \in SUBSET AllRights
        /\ permissions.other \ mode.rights \in SUBSET AllRights
    BY <2>1 DEF PermissionType
  <2>3. QED BY <1>3, <2>2 DEF Changed, PermissionType
<1>4. QED BY <1>2, <1>3

LEMMA PermissionsSet ==
  ASSUME NEW v \in NodeType, NEW p \in PermissionType
  PROVE  /\ [v EXCEPT !.permissions = p] \in NodeType
         /\ [v EXCEPT !.permissions = p].type = v.type
         /\ [v EXCEPT !.permissions = p].parent = v.parent
         /\ [v EXCEPT !.permissions = p].data = v.data
         /\ [v EXCEPT !.permissions = p].children = v.children
BY DEF NodeType, PermissionType

\* chmod changes no link.
LEMMA ChmodLocal ==
  ASSUME TypeOK, LinksAgree, NEW n \in DOMAIN node, NEW mode \in Modes,
         node' = [node EXCEPT ![n].permissions = Changed(@, mode)],
         UNCHANGED <<fs_root, buffer, deleting, leaked, machine>>
  PROVE  TypeOK' /\ LinksAgree' /\ Steady /\ DOMAIN node' = DOMAIN node
<1> DEFINE p == Changed(node[n].permissions, mode)
<1>1. node[n] \in NodeType
  BY NodeFacts
<1>2. p \in PermissionType
  <2>1. node[n].permissions \in PermissionType
    BY <1>1 DEF NodeType, PermissionType
  <2>2. QED BY <2>1, ChangedType
<1>3. /\ DOMAIN node' = DOMAIN node /\ node'[n] = [node[n] EXCEPT !.permissions = p]
      /\ \A m \in DOMAIN node : m # n => node'[m] = node[m]
      /\ node' = [m \in DOMAIN node |-> node'[m]]
  BY DEF TypeOK
<1> HIDE DEF p
<1>4. /\ node'[n] \in NodeType
      /\ node'[n].type = node[n].type /\ node'[n].parent = node[n].parent
      /\ node'[n].data = node[n].data /\ node'[n].children = node[n].children
  <2>1. /\ [node[n] EXCEPT !.permissions = p] \in NodeType
        /\ [node[n] EXCEPT !.permissions = p].type = node[n].type
        /\ [node[n] EXCEPT !.permissions = p].parent = node[n].parent
        /\ [node[n] EXCEPT !.permissions = p].data = node[n].data
        /\ [node[n] EXCEPT !.permissions = p].children = node[n].children
    BY <1>1, <1>2, PermissionsSet
  <2>2. QED BY <1>3, <2>1, Zenon
<1>5. \A m \in DOMAIN node :
        /\ node'[m].type = node[m].type /\ node'[m].parent = node[m].parent
        /\ node'[m].data = node[m].data /\ node'[m].children = node[m].children
  BY <1>3, <1>4
<1>6. TypeOK'
  <2>1. \A m \in DOMAIN node : node'[m] \in NodeType
    BY <1>3, <1>4, NodeFacts
  <2>2. node' \in [DOMAIN node' -> NodeType]
    BY <1>3, <2>1
  <2>3. QED BY <1>3, <2>2 DEF TypeOK
<1>7. LinksAgree'
  <2>1. SUFFICES ASSUME NEW m \in DOMAIN node
                 PROVE  /\ Len(node'[m].children) <= MaxChildren
                        /\ node'[m].type = "file" => node'[m].children = <<>>
                        /\ node'[m].type = "dir" => node'[m].data = NULL
                        /\ \A i \in DOMAIN node'[m].children :
                             /\ node'[m].children[i] \in DOMAIN node \ ({fs_root} \cup leaked)
                             /\ node'[node'[m].children[i]].parent = m
                             /\ \A j \in DOMAIN node'[m].children :
                                  node'[m].children[j] = node'[m].children[i] => i = j
    BY <1>3 DEF LinksAgree
  <2>2. /\ Len(node[m].children) <= MaxChildren
        /\ node[m].type = "file" => node[m].children = <<>>
        /\ node[m].type = "dir" => node[m].data = NULL
        /\ \A i \in DOMAIN node[m].children :
             /\ node[m].children[i] \in DOMAIN node
             /\ node[m].children[i] # fs_root
             /\ node[m].children[i] \notin leaked
             /\ node[node[m].children[i]].parent = m
        /\ \A i, j \in DOMAIN node[m].children :
             node[m].children[i] = node[m].children[j] => i = j
    BY LinksLocal
  <2>3. QED BY <1>5, <2>2
<1>8. QED BY <1>3, <1>5, <1>6, <1>7 DEF Steady

-----------------------------------------------------------------------------
(* The invariant *)

ShellType == [current_dir : Addr \cup {NULL}, name : {"root", "liveuser"}, user_id : Users]

\* What ShellTypeOK says of the programs' own variables.
AppOK ==
  /\ shells \in Seq(ShellType)
  /\ Len(shells) <= MaxShells
  /\ pc \in Places /\ (shells = <<>> <=> pc = "login")
  /\ operand \in Paths \cup {NULL}
  /\ target \in Addr \cup {NULL} /\ (target # NULL <=> pc \in {"confirm", "saving"})

\* fs_delete runs only within a command of the prompt.
DeletesAtPrompt == deleting # <<>> => pc = "prompt"

\* The inductive invariant.
SInv ==
  /\ TypeOK
  /\ AppOK
  /\ LinksAgree
  /\ Chain
  /\ RootStays
  /\ HeldNodeLive
  /\ DeletesAtPrompt

\* Where no node is held, there is nothing to say of one.
LEMMA NothingHeld ==
  ASSUME TypeOK, AppOK, LinksAgree, Chain, RootStays, DeletesAtPrompt,
         machine # "up" \/ pc \notin {"confirm", "saving"}
  PROVE  SInv
BY DEF SInv, HeldNodeLive

\* The file tree is not touched, but that the machine may stop.
LEMMA TreeSame ==
  ASSUME SInv, UNCHANGED <<fs_root, node, buffer, deleting, leaked>>,
         machine' \in {"up", "halted", "wild"}
  PROVE  TypeOK' /\ LinksAgree' /\ Chain' /\ RootStays'
BY DEF SInv, TypeOK, LinksAgree, Chain, RootStays

\* Nothing but the machine's state: it stopped, or read freed memory.
LEMMA StopStep ==
  ASSUME SInv, UNCHANGED <<fs_root, node, buffer, deleting, leaked>>,
         machine' \in {"halted", "wild"}, UNCHANGED <<shells, pc, target, operand>>
  PROVE  SInv'
<1>1. TypeOK' /\ LinksAgree' /\ Chain' /\ RootStays'
  BY TreeSame
<1>2. AppOK' /\ DeletesAtPrompt'
  BY DEF SInv, AppOK, DeletesAtPrompt
<1>3. QED BY <1>1, <1>2 DEF SInv, HeldNodeLive

LEMMA PromptFacts ==
  ASSUME SInv, AtPrompt
  PROVE  /\ pc = "prompt" /\ deleting = <<>> /\ machine = "up" /\ target = NULL
         /\ Len(shells) \in Nat /\ Len(shells) >= 1 /\ Len(shells) \in DOMAIN shells
         /\ shells \in Seq(ShellType)
         /\ shell \in ShellType /\ shell = shells[Len(shells)] /\ user_id \in Users
<1>1. pc = "prompt" /\ deleting = <<>> /\ machine = "up"
  BY DEF AtPrompt, Idle
<1>2. target = NULL /\ shells # <<>> /\ shells \in Seq(ShellType)
  BY <1>1 DEF SInv, AppOK
<1>3. Len(shells) \in Nat /\ Len(shells) >= 1 /\ Len(shells) \in DOMAIN shells
  BY <1>2
<1>4. shell \in ShellType /\ shell = shells[Len(shells)]
  BY <1>2, <1>3 DEF shell, Last
<1>5. user_id \in Users
  BY <1>4 DEF user_id, ShellType
<1>6. QED BY <1>1, <1>2, <1>3, <1>4, <1>5

LEMMA OperandFacts ==
  ASSUME SInv, NEW path, Operand(path)
  PROVE  operand' \in Paths \cup {NULL}
BY DEF SInv, AppOK, Operand, Remember

LEMMA RememberFacts ==
  ASSUME NEW path \in Paths, Remember(path)
  PROVE  operand' \in Paths \cup {NULL}
BY DEF Remember

LEMMA ForgetFacts ==
  ASSUME Forget
  PROVE  operand' \in Paths \cup {NULL}
BY DEF Forget

-----------------------------------------------------------------------------
(* Logging in, leaving, nesting *)

LEMMA HomeFacts ==
  ASSUME TypeOK, LinksAgree, RootStays, NEW user, user.name \in {"root", "liveuser"}
  PROVE  HomeOf(user) \in Addr \cup {NULL} /\ HomeOf(user) \in Linked \cup {NULL}
<1>1. RootInv /\ fs_root \in DOMAIN node
  BY DEF RootInv, RootStays
<1>2. PICK path : path = IF user.name = "root" THEN Relative(<<"root">>)
                         ELSE Absolute(<<"home", user.name>>)
  OBVIOUS
<1> DEFINE Parts == {"root", "home", user.name}
<1>3. path.tokens \in Seq(Parts)
  <2>1. path.tokens \in {<<"root">>, <<"home", user.name>>}
    BY <1>2 DEF Relative, Absolute
  <2>2. <<"root">> \in Seq(Parts) /\ <<"home", user.name>> \in Seq(Parts)
    OBVIOUS
  <2>3. QED BY <2>1, <2>2
<1>4. HomeOf(user) = Resolve(path, fs_root)
  BY <1>2 DEF HomeOf
<1>5. HomeOf(user) \in Linked \cup {NULL} /\ Linked \subseteq DOMAIN node
  BY <1>1, <1>3, <1>4, ResolveLinked
<1>6. QED BY <1>5 DEF TypeOK

\* A shell more.
LEMMA EnterStep ==
  ASSUME SInv, NEW user, user.name \in {"root", "liveuser"}, user.id \in Users, Enter(user),
         Len(shells) < MaxShells, target = NULL, deleting = <<>>
  PROVE  SInv'
<1>1. /\ shells' = Append(shells, [current_dir |-> HomeOf(user), name |-> user.name, user_id |-> user.id])
      /\ pc' = "prompt" /\ operand' = NULL
      /\ UNCHANGED <<fs_root, node, buffer, deleting, leaked, machine, target>>
  BY DEF Enter, fsVars
<1>2. TypeOK' /\ LinksAgree' /\ Chain' /\ RootStays'
  <2>1. machine' \in {"up", "halted", "wild"}
    BY <1>1 DEF SInv, TypeOK
  <2>2. QED BY <1>1, <2>1, TreeSame
<1>3. shells \in Seq(ShellType)
  BY DEF SInv, AppOK
<1>4. PICK s \in ShellType : shells' = Append(shells, s)
  <2>1. HomeOf(user) \in Addr \cup {NULL}
    BY HomeFacts DEF SInv
  <2>2. [current_dir |-> HomeOf(user), name |-> user.name, user_id |-> user.id] \in ShellType
    BY <2>1 DEF ShellType
  <2>3. QED BY <1>1, <2>2
<1>5. shells' \in Seq(ShellType) /\ Len(shells') <= MaxShells /\ shells' # <<>>
  BY <1>3, <1>4, ShellAssumption
<1>6. AppOK'
  BY <1>1, <1>3, <1>5 DEF AppOK, Places
<1>7. QED BY <1>1, <1>2, <1>6, NothingHeld DEF DeletesAtPrompt, SInv, HeldNodeLive

LEMMA LoginStep ==
  ASSUME SInv, Login
  PROVE  SInv'
<1>1. PICK bytes : \E user \in Accounts(bytes) : Enter(user)
  BY DEF Login
<1>2. PICK user \in Accounts(bytes) : Enter(user)
  BY <1>1
<1>3. user.name \in {"root", "liveuser"} /\ user.id \in Users
  <2>1. user \in {[name |-> "root", id |-> RootId], [name |-> "liveuser", id |-> LiveuserId]}
    BY DEF Accounts
  <2>2. RootId \in Users /\ LiveuserId \in Users
    BY ShellAssumption
  <2>3. QED BY <2>1, <2>2
<1>4. pc = "login" /\ deleting = <<>>
  BY DEF Login, Idle
<1>5. shells = <<>> /\ target = NULL
  BY <1>4 DEF SInv, AppOK
<1>6. Len(shells) < MaxShells
  BY <1>5, ShellAssumption
<1>7. QED BY <1>2, <1>3, <1>4, <1>5, <1>6, EnterStep

LEMMA NestStep ==
  ASSUME SInv, sh
  PROVE  SInv'
<1>1. AtPrompt /\ Len(shells) < MaxShells /\ Enter([name |-> shell.name, id |-> user_id])
  BY DEF sh
<1>2. target = NULL /\ deleting = <<>> /\ shell \in ShellType /\ user_id \in Users
  BY <1>1, PromptFacts
<1>3. shell.name \in {"root", "liveuser"}
  BY <1>2 DEF ShellType
<1>4. QED BY <1>1, <1>2, <1>3, EnterStep

\* A step of a program that leaves the tree alone and holds no node.
LEMMA CalmStep ==
  ASSUME SInv, UNCHANGED fsVars, target' = NULL, deleting = <<>>,
         shells' \in Seq(ShellType), Len(shells') <= MaxShells,
         pc' \in Places \ {"confirm", "saving"}, shells' = <<>> <=> pc' = "login",
         operand' \in Paths \cup {NULL}
  PROVE  SInv'
<1>1. UNCHANGED <<fs_root, node, buffer, deleting, leaked, machine>>
  BY DEF fsVars
<1>2. TypeOK' /\ LinksAgree' /\ Chain' /\ RootStays'
  <2>1. machine' \in {"up", "halted", "wild"}
    BY <1>1 DEF SInv, TypeOK
  <2>2. QED BY <1>1, <2>1, TreeSame
<1>3. AppOK' /\ DeletesAtPrompt'
  BY <1>1 DEF AppOK, DeletesAtPrompt
<1>4. QED BY <1>2, <1>3 DEF SInv, HeldNodeLive

LEMMA LeaveStep ==
  ASSUME SInv, exit \/ logout
  PROVE  SInv'
<1>1. AtPrompt /\ (Leave(Front(shells)) \/ Leave(<<>>))
  BY DEF exit, logout
<1>2. /\ target = NULL /\ deleting = <<>> /\ shells \in Seq(ShellType) /\ shells # <<>>
      /\ Len(shells) <= MaxShells /\ Len(shells) \in Nat
  BY <1>1, PromptFacts DEF SInv, AppOK
<1>3. PICK rest : rest \in {Front(shells), <<>>} /\ Leave(rest)
  BY <1>1
<1>4. rest \in Seq(ShellType) /\ Len(rest) <= MaxShells
  <2>1. Front(shells) \in Seq(ShellType) /\ Len(shells) = Len(Front(shells)) + 1
    BY <1>2, FrontFacts
  <2>2. Front(shells) \in Seq(ShellType) /\ Len(Front(shells)) <= MaxShells
    BY <1>2, <2>1, ShellAssumption
  <2>3. <<>> \in Seq(ShellType) /\ Len(<<>>) <= MaxShells
    BY ShellAssumption
  <2>4. QED BY <1>3, <2>2, <2>3
<1>5. /\ shells' = rest /\ pc' = (IF rest = <<>> THEN "login" ELSE "prompt") /\ Forget
      /\ UNCHANGED <<fsVars, target>>
  BY <1>3 DEF Leave
<1>6. operand' \in Paths \cup {NULL}
  BY <1>5, ForgetFacts
<1>7. pc' \in Places \ {"confirm", "saving"} /\ (shells' = <<>> <=> pc' = "login")
  BY <1>5 DEF Places
<1>8. QED BY <1>2, <1>4, <1>5, <1>6, <1>7, CalmStep

LEMMA PanicStep ==
  ASSUME SInv, NEW c, Panic(c)
  PROVE  SInv'
BY StopStep DEF Panic

LEMMA WildStep ==
  ASSUME SInv, PromptReadsFreed \/ LookupReadsFreed
  PROVE  SInv'
<1>1. machine' = "wild" /\ UNCHANGED <<fs_root, node, buffer, deleting, leaked, appVars>>
  BY DEF PromptReadsFreed, LookupReadsFreed
<1>2. QED BY <1>1, StopStep DEF appVars

-----------------------------------------------------------------------------
(* The commands *)

LEMMA CdStep ==
  ASSUME SInv, NEW path, cd(path)
  PROVE  SInv'
<1>1. /\ AtPrompt /\ Operand(path) /\ Found(path)
      /\ shells' = [shells EXCEPT ![Len(shells)].current_dir = Lookup(path)]
      /\ UNCHANGED <<fsVars, pc, target>>
  BY DEF cd
<1>2. /\ pc = "prompt" /\ target = NULL /\ deleting = <<>> /\ Len(shells) \in DOMAIN shells
      /\ shells \in Seq(ShellType) /\ shells[Len(shells)] \in ShellType
      /\ Len(shells) <= MaxShells
  BY <1>1, PromptFacts DEF SInv, AppOK
<1>3. operand' \in Paths \cup {NULL}
  BY <1>1, OperandFacts
<1>4. Lookup(path) \in Addr
  BY <1>1 DEF Found, SInv, TypeOK
<1>5. [shells[Len(shells)] EXCEPT !.current_dir = Lookup(path)] \in ShellType
  BY <1>2, <1>4 DEF ShellType
<1>6. shells' \in Seq(ShellType) /\ Len(shells') = Len(shells) /\ shells' # <<>>
  BY <1>1, <1>2, <1>5
<1>7. pc' \in Places \ {"confirm", "saving"} /\ (shells' = <<>> <=> pc' = "login")
  BY <1>1, <1>2, <1>6 DEF Places
<1>8. QED BY <1>1, <1>2, <1>3, <1>6, <1>7, CalmStep

\* The programs' variables after a command that changed the tree and is back at the prompt.
LEMMA BackAtPrompt ==
  ASSUME SInv, TypeOK', LinksAgree', Chain', RootStays', UNCHANGED shells, shells # <<>>,
         pc' = "prompt", target' = NULL, operand' \in Paths \cup {NULL}
  PROVE  SInv'
<1>1. AppOK' /\ DeletesAtPrompt'
  BY DEF SInv, AppOK, DeletesAtPrompt, Places
<1>2. QED BY <1>1 DEF SInv, HeldNodeLive

LEMMA RmFileStep ==
  ASSUME SInv, NEW path, RmFile(path)
  PROVE  SInv'
<1>1. /\ AtPrompt /\ Operand(path) /\ Lookup(path) \in DOMAIN node
      /\ RemoveBegin(Lookup(path)) /\ UNCHANGED <<shells, pc, target>>
  BY DEF RmFile, Found
<1>2. pc = "prompt" /\ target = NULL /\ shells # <<>>
  BY <1>1, PromptFacts
<1>3. TypeOK' /\ LinksAgree' /\ Chain' /\ RootStays'
  <2>1. TypeOK' /\ LinksAgree' /\ Chain' /\ Steady /\ DOMAIN node' = DOMAIN node
    BY <1>1, RemoveLocal DEF SInv
  <2>2. QED BY <2>1, RootKept DEF SInv, RootStays
<1>4. operand' \in Paths \cup {NULL}
  BY <1>1, OperandFacts
<1>5. QED BY <1>1, <1>2, <1>3, <1>4, BackAtPrompt

LEMMA RmAskStep ==
  ASSUME SInv, NEW path, RmAsk(path)
  PROVE  SInv'
<1>1. /\ AtPrompt /\ Operand(path) /\ Lookup(path) \in DOMAIN node
      /\ node[Lookup(path)].type = "dir" /\ target' = Lookup(path) /\ pc' = "confirm"
      /\ UNCHANGED <<fs_root, node, buffer, deleting, leaked, machine, shells>>
  BY DEF RmAsk, Found, fsVars
<1>2. shells # <<>> /\ machine = "up" /\ deleting = <<>>
  BY <1>1, PromptFacts
<1>3. operand' \in Paths \cup {NULL}
  BY <1>1, OperandFacts
<1>4. TypeOK' /\ LinksAgree' /\ Chain' /\ RootStays'
  BY <1>1, <1>2, TreeSame
<1>5. target' \in Addr /\ target' # NULL
  BY <1>1, FileTreeAssumption DEF SInv, TypeOK
<1>6. AppOK'
  BY <1>1, <1>2, <1>3, <1>5 DEF SInv, AppOK, Places
<1>7. HeldNodeLive' /\ DeletesAtPrompt'
  BY <1>1, <1>2 DEF HeldNodeLive, DeletesAtPrompt
<1>8. QED BY <1>4, <1>6, <1>7 DEF SInv

\* The node rm holds is there when the answer comes: nothing happened meanwhile.
LEMMA RmYesStep ==
  ASSUME SInv, RmYes
  PROVE  SInv' /\ target \in DOMAIN node
<1>1. /\ pc = "confirm" /\ RemoveBegin(target) /\ pc' = "prompt" /\ target' = NULL
      /\ UNCHANGED <<shells, operand>>
  BY DEF RmYes, Back
<1>2. machine = "up"
  BY <1>1 DEF RemoveBegin, Idle
<1>3. target \in DOMAIN node
  BY <1>1, <1>2 DEF SInv, HeldNodeLive
<1>4. TypeOK' /\ LinksAgree' /\ Chain' /\ RootStays'
  <2>1. TypeOK' /\ LinksAgree' /\ Chain' /\ Steady /\ DOMAIN node' = DOMAIN node
    BY <1>1, <1>3, RemoveLocal DEF SInv
  <2>2. QED BY <2>1, RootKept DEF SInv, RootStays
<1>5. shells # <<>> /\ operand' \in Paths \cup {NULL}
  BY <1>1 DEF SInv, AppOK
<1>6. QED BY <1>1, <1>3, <1>4, <1>5, BackAtPrompt

LEMMA RmNoStep ==
  ASSUME SInv, RmNo
  PROVE  SInv'
<1>1. /\ pc = "confirm" /\ pc' = "prompt" /\ target' = NULL
      /\ UNCHANGED <<fsVars, shells, operand>>
  BY DEF RmNo, Back
<1>2. /\ shells \in Seq(ShellType) /\ Len(shells) <= MaxShells /\ shells # <<>> /\ deleting = <<>>
      /\ operand \in Paths \cup {NULL}
  BY <1>1 DEF SInv, AppOK, DeletesAtPrompt
<1>3. QED BY <1>1, <1>2, CalmStep DEF Places

LEMMA MkdirStep ==
  ASSUME SInv, NEW path \in Paths, mkdir(path)
  PROVE  SInv' /\ deleting' = <<>>
<1> DEFINE dir == Lookup(ParentPath(path))
<1>1. /\ AtPrompt /\ path.tokens # <<>> /\ NotFound(path) /\ dir \in DOMAIN node
      /\ Add(dir, "dir", Last(path.tokens), user_id) /\ Remember(path)
      /\ UNCHANGED <<shells, pc, target>>
  BY DEF mkdir
<1>2. /\ pc = "prompt" /\ target = NULL /\ shells # <<>> /\ user_id \in Users
  BY <1>1, PromptFacts
<1>3. TypeOK /\ LinksAgree /\ RootStays /\ fs_root \in DOMAIN node
  BY DEF SInv, RootStays
<1>4. Last(path.tokens) \in Names
  BY <1>1, <1>3, MkdirName
<1>5. /\ TypeOK' /\ LinksAgree' /\ Steady /\ Fresh("dir") /\ deleting' = <<>>
  <2> HIDE DEF dir
  <2>1. QED BY <1>1, <1>2, <1>3, <1>4, AddLocal
<1>6. RootStays'
  <2>1. fs_root \in DOMAIN node'
    BY <1>3, <1>5 DEF Fresh
  <2>2. QED BY <1>3, <1>5, <2>1, RootKept
<1>7. operand' \in Paths \cup {NULL}
  BY <1>1, RememberFacts
<1>8. QED BY <1>1, <1>2, <1>5, <1>6, <1>7, NoChain, BackAtPrompt

LEMMA ChmodStep ==
  ASSUME SInv, NEW path \in Paths, NEW mode \in Modes, chmod(mode, path)
  PROVE  SInv'
<1>1. /\ AtPrompt /\ Lookup(path) \in DOMAIN node /\ Forget
      /\ node' = [node EXCEPT ![Lookup(path)].permissions = Changed(@, mode)]
      /\ UNCHANGED <<fs_root, buffer, deleting, leaked, machine, shells, pc, target>>
  BY DEF chmod, Found
<1>2. pc = "prompt" /\ target = NULL /\ shells # <<>> /\ deleting = <<>>
  BY <1>1, PromptFacts
<1>3. TypeOK' /\ LinksAgree' /\ Steady /\ DOMAIN node' = DOMAIN node
  BY <1>1, ChmodLocal DEF SInv
<1>4. RootStays' /\ Chain'
  BY <1>1, <1>2, <1>3, RootKept, NoChain DEF SInv, RootStays
<1>5. operand' \in Paths \cup {NULL}
  BY <1>1, ForgetFacts
<1>6. QED BY <1>1, <1>2, <1>3, <1>4, <1>5, BackAtPrompt

LEMMA HexeditStep ==
  ASSUME SInv, NEW path \in Paths, hexedit(path)
  PROVE  SInv' /\ deleting' = <<>>
<1>1. /\ AtPrompt /\ Lookup(path) \in DOMAIN node /\ Remember(path)
      /\ \E bytes \in Written \cup {Empty} : fs_write(Lookup(path), bytes)
      /\ UNCHANGED <<shells, pc, target>>
  BY DEF hexedit, Found
<1>2. PICK bytes \in Contents \cup {Empty} : fs_write(Lookup(path), bytes)
  BY <1>1, ShellAssumption
<1>3. pc = "prompt" /\ target = NULL /\ shells # <<>>
  BY <1>1, PromptFacts
<1>4. TypeOK' /\ LinksAgree' /\ Steady /\ DOMAIN node' = DOMAIN node /\ deleting' = <<>>
  BY <1>1, <1>2, WriteLocal DEF SInv
<1>5. RootStays' /\ Chain'
  BY <1>4, RootKept, NoChain DEF SInv, RootStays
<1>6. operand' \in Paths \cup {NULL}
  BY <1>1, RememberFacts
<1>7. QED BY <1>1, <1>3, <1>4, <1>5, <1>6, BackAtPrompt

-----------------------------------------------------------------------------
(* tinypad *)

LEMMA GoToStep ==
  ASSUME SInv, Tinypad \/ TinypadExit \/ TinypadSave
  PROVE  SInv'
<1>1. PICK place \in {"tinypad", "prompt", "save_as"} : GoTo(place)
  BY DEF Tinypad, TinypadExit, TinypadSave
<1>2. pc \in {"prompt", "tinypad"} /\ deleting = <<>>
  BY DEF Tinypad, TinypadExit, TinypadSave, AtPrompt, Idle
<1>3. /\ pc' = place /\ Forget /\ UNCHANGED <<fsVars, shells, target>>
  BY <1>1 DEF GoTo
<1>4. /\ shells \in Seq(ShellType) /\ Len(shells) <= MaxShells /\ shells # <<>> /\ target = NULL
  BY <1>2 DEF SInv, AppOK
<1>5. operand' \in Paths \cup {NULL}
  BY <1>3, ForgetFacts
<1>6. pc' \in Places \ {"confirm", "saving"} /\ pc' # "login"
  BY <1>1, <1>3 DEF Places
<1>7. QED BY <1>2, <1>3, <1>4, <1>5, <1>6, CalmStep

\* tinypad holds a file.
LEMMA HoldFile ==
  ASSUME SInv, TypeOK', LinksAgree', Chain', RootStays', pc = "save_as", pc' = "saving",
         UNCHANGED <<shells, operand>>, deleting' = <<>>,
         target' \in DOMAIN node', node'[target'].type = "file"
  PROVE  SInv'
<1>1. target' \in Addr /\ target' # NULL
  BY FileTreeAssumption DEF TypeOK
<1>2. AppOK'
  BY <1>1 DEF SInv, AppOK, Places
<1>3. QED BY <1>2 DEF SInv, HeldNodeLive, DeletesAtPrompt

LEMMA SaveExistingStep ==
  ASSUME SInv, NEW path \in Paths, SaveExisting(path)
  PROVE  SInv'
<1>1. /\ pc = "save_as" /\ deleting = <<>> /\ machine = "up" /\ path.tokens # <<>>
      /\ Folder(path) # NULL /\ File(path) # NULL /\ node[File(path)].type = "file"
      /\ target' = File(path) /\ pc' = "saving"
      /\ UNCHANGED <<fs_root, node, buffer, deleting, leaked, machine, shells, operand>>
  BY DEF SaveExisting, Idle, fsVars
<1>2. TypeOK /\ LinksAgree /\ RootInv /\ fs_root \in DOMAIN node
  BY DEF SInv, RootStays, RootInv
<1>3. File(path) \in DOMAIN node
  BY <1>1, <1>2, FolderFacts
<1>4. TypeOK' /\ LinksAgree' /\ Chain' /\ RootStays'
  BY <1>1, TreeSame
<1>5. QED BY <1>1, <1>3, <1>4, HoldFile

LEMMA SaveNewStep ==
  ASSUME SInv, NEW path \in Paths, SaveNew(path)
  PROVE  SInv' /\ deleting' = <<>>
<1>1. /\ pc = "save_as" /\ path.tokens # <<>>
      /\ Folder(path) # NULL /\ File(path) = NULL
      /\ Add(Folder(path), "file", Last(path.tokens), LiveuserId)
      /\ target' = CHOOSE a \in DOMAIN node' : a \notin DOMAIN node
      /\ pc' = "saving" /\ UNCHANGED <<shells, operand>>
  BY DEF SaveNew
<1>2. TypeOK /\ LinksAgree /\ RootInv /\ RootStays /\ fs_root \in DOMAIN node
  BY DEF SInv, RootStays, RootInv
<1>3. Folder(path) \in DOMAIN node /\ Last(path.tokens) \in Names /\ LiveuserId \in Users
  BY <1>1, <1>2, FolderFacts, ShellAssumption
<1>4. TypeOK' /\ LinksAgree' /\ Steady /\ Fresh("file") /\ deleting' = <<>>
  BY <1>1, <1>2, <1>3, AddLocal
<1>5. PICK a \in Addr \ DOMAIN node : DOMAIN node' = DOMAIN node \cup {a} /\ node'[a].type = "file"
  BY <1>4 DEF Fresh
<1>6. target' = a
  BY <1>1, <1>5
<1>7. RootStays' /\ Chain'
  BY <1>2, <1>4, <1>5, RootKept, NoChain
<1>8. QED BY <1>1, <1>4, <1>5, <1>6, <1>7, HoldFile

\* The file tinypad writes to is the one it found or made.
LEMMA SavingStep ==
  ASSUME SInv, Saving
  PROVE  SInv' /\ deleting' = <<>>
<1>1. /\ pc = "saving" /\ \E bytes \in Written \cup {Empty} : fs_write(target, bytes)
      /\ pc' = "prompt" /\ target' = NULL /\ UNCHANGED <<shells, operand>>
  BY DEF Saving, Back
<1>2. PICK bytes \in Contents \cup {Empty} : fs_write(target, bytes)
  BY <1>1, ShellAssumption
<1>3. machine = "up"
  BY <1>2 DEF fs_write, Erase, Write, WriteOutOfMemory, Idle
<1>4. target \in DOMAIN node
  BY <1>1, <1>3 DEF SInv, HeldNodeLive
<1>5. TypeOK' /\ LinksAgree' /\ Steady /\ DOMAIN node' = DOMAIN node /\ deleting' = <<>>
  BY <1>2, <1>4, WriteLocal DEF SInv
<1>6. RootStays' /\ Chain'
  BY <1>5, RootKept, NoChain DEF SInv, RootStays
<1>7. shells # <<>> /\ operand' \in Paths \cup {NULL}
  BY <1>1 DEF SInv, AppOK
<1>8. QED BY <1>1, <1>5, <1>6, <1>7, BackAtPrompt

-----------------------------------------------------------------------------
(* Every step *)

LEMMA DeletingStep ==
  ASSUME SInv, Deleting
  PROVE  SInv' /\ deleting # <<>>
<1>1. Delete /\ UNCHANGED <<shells, pc, target, operand>>
  BY DEF Deleting, appVars
<1>2. TypeOK' /\ LinksAgree' /\ Chain' /\ RootStays' /\ deleting # <<>>
  BY <1>1, DeleteLocal DEF SInv
<1>3. pc = "prompt"
  BY <1>2 DEF SInv, DeletesAtPrompt
<1>4. AppOK' /\ DeletesAtPrompt'
  BY <1>1, <1>3 DEF SInv, AppOK, DeletesAtPrompt
<1>5. QED BY <1>1, <1>2, <1>3, <1>4 DEF SInv, HeldNodeLive

LEMMA OutOfMemoryStep ==
  ASSUME SInv, OutOfMemory
  PROVE  SInv' /\ UNCHANGED deleting
<1>1. /\ machine' = "halted" /\ UNCHANGED <<fs_root, node, buffer, deleting, leaked>>
      /\ UNCHANGED <<shells, pc, target, operand>>
  BY DEF OutOfMemory, CreateOutOfMemory
<1>2. QED BY <1>1, StopStep

LEMMA IdleStep ==
  ASSUME SInv, UNCHANGED vars
  PROVE  SInv'
<1>1. /\ UNCHANGED <<fs_root, node, buffer, deleting, leaked, machine>>
      /\ UNCHANGED <<shells, pc, target, operand>>
  BY DEF vars, fsVars, appVars
<1>2. TypeOK' /\ LinksAgree' /\ Chain' /\ RootStays'
  <2>1. machine' \in {"up", "halted", "wild"}
    BY <1>1 DEF SInv, TypeOK
  <2>2. QED BY <1>1, <2>1, TreeSame
<1>3. AppOK' /\ DeletesAtPrompt'
  BY <1>1 DEF SInv, AppOK, DeletesAtPrompt
<1>4. HeldNodeLive'
  BY <1>1 DEF SInv, HeldNodeLive
<1>5. QED BY <1>2, <1>3, <1>4 DEF SInv

LEMMA CommandStep ==
  ASSUME SInv, Command
  PROVE  SInv'
<1>1. ASSUME NEW path, cd(path) \/ RmFile(path) \/ RmAsk(path) PROVE SInv'
  BY <1>1, CdStep, RmFileStep, RmAskStep
<1>2. ASSUME NEW path \in Paths, mkdir(path) \/ hexedit(path) PROVE SInv'
  BY <1>2, MkdirStep, HexeditStep
<1>3. ASSUME NEW path \in Paths, NEW mode \in Modes, chmod(mode, path) PROVE SInv'
  BY <1>3, ChmodStep
<1>4. CASE sh \/ exit \/ logout
  BY <1>4, NestStep, LeaveStep
<1>5. CASE reboot \/ shutdown \/ kptesting
  BY <1>5, PanicStep DEF reboot, shutdown, kptesting
<1>6. QED BY <1>1, <1>2, <1>3, <1>4, <1>5 DEF Command

LEMMA EditorStep ==
  ASSUME SInv, Editor
  PROVE  SInv'
<1>1. CASE Tinypad \/ TinypadExit \/ TinypadSave
  BY <1>1, GoToStep
<1>2. ASSUME NEW path \in Paths, SaveExisting(path) \/ SaveNew(path) PROVE SInv'
  BY <1>2, SaveExistingStep, SaveNewStep
<1>3. CASE Saving
  BY <1>3, SavingStep
<1>4. QED BY <1>1, <1>2, <1>3 DEF Editor

LEMMA ShellStep ==
  ASSUME SInv, [ShellNext]_vars
  PROVE  SInv'
<1>1. CASE Login \/ UsersMissing
  BY <1>1, LoginStep, PanicStep DEF UsersMissing
<1>2. CASE PromptReadsFreed \/ LookupReadsFreed
  BY <1>2, WildStep
<1>3. CASE Command
  BY <1>3, CommandStep
<1>4. CASE RmYes \/ RmNo \/ Deleting
  BY <1>4, RmYesStep, RmNoStep, DeletingStep
<1>5. CASE Editor
  BY <1>5, EditorStep
<1>6. CASE OutOfMemory
  BY <1>6, OutOfMemoryStep
<1>7. CASE UNCHANGED vars
  BY <1>7, IdleStep
<1>8. QED BY <1>1, <1>2, <1>3, <1>4, <1>5, <1>6, <1>7 DEF ShellNext

-----------------------------------------------------------------------------
(* The tree of init_fs *)

\* s is an array of children from C, without repetition, all of them there.
Children(s, C) ==
  /\ s \in Seq(Installed \cap C) /\ Len(s) <= 4
  /\ \A i, j \in DOMAIN s : s[i] = s[j] => i = j

LEMMA WithFacts ==
  ASSUME NEW s, NEW C, Children(s, C), NEW c, c \notin C, Len(s) <= 3
  PROVE  Children(With(s, c), C \cup {c}) /\ Len(With(s, c)) <= Len(s) + 1
<1> DEFINE D == Installed \cap (C \cup {c})
<1>1. /\ s \in Seq(Installed \cap C) /\ Len(s) \in Nat /\ DOMAIN s = 1 .. Len(s)
      /\ \A i, j \in DOMAIN s : s[i] = s[j] => i = j
      /\ \A i \in 1 .. Len(s) : s[i] # c /\ s[i] \in D
  BY DEF Children
<1>2. s \in Seq(D)
  <2>1. s \in [1 .. Len(s) -> D]
    BY <1>1
  <2>2. QED BY <1>1, <2>1
<1>3. CASE c \notin Installed
  BY <1>1, <1>2, <1>3 DEF With, Children
<1>4. CASE c \in Installed
  <2> DEFINE t == Append(s, c)
  <2>1. t \in Seq(D) /\ Len(t) = Len(s) + 1
        /\ \A i \in 1 .. Len(s) : t[i] = s[i]
        /\ t[Len(s) + 1] = c /\ DOMAIN t = 1 .. Len(s) + 1
    BY <1>1, <1>2, <1>4
  <2> HIDE DEF t
  <2>2. \A i, j \in DOMAIN t : t[i] = t[j] => i = j
    BY <1>1, <2>1
  <2>3. Children(t, C \cup {c}) /\ Len(t) <= Len(s) + 1
    BY <1>1, <2>1, <2>2 DEF Children
  <2>4. QED BY <1>4, <2>3 DEF With, t
<1>5. QED BY <1>3, <1>4

LEMMA NoChildren == Children(<<>>, {}) /\ Len(<<>>) = 0
BY DEF Children

LEMMA ArraysInstalled ==
  /\ Children(With(With(With(With(<<>>, 2), 3), 5), 6), {2, 3, 5, 6})
  /\ Children(With(<<>>, 4), {4})
  /\ Children(With(<<>>, 7), {7})
  /\ Children(With(With(<<>>, 9), 11), {9, 11})
<1>1. ASSUME NEW c PROVE Children(With(<<>>, c), {c}) /\ Len(With(<<>>, c)) <= 1
  <2>1. PICK s, C : s = <<>> /\ C = {}
    OBVIOUS
  <2>2. Children(s, C) /\ c \notin C /\ Len(s) <= 3 /\ Len(s) = 0
    BY <2>1, NoChildren
  <2>3. Children(With(s, c), C \cup {c}) /\ Len(With(s, c)) <= Len(s) + 1
    BY <2>2, WithFacts
  <2>4. C \cup {c} = {c}
    BY <2>1
  <2>5. QED BY <2>1, <2>2, <2>3, <2>4
<1>2. ASSUME NEW s, NEW C, NEW k \in 1 .. 3, NEW l, l = k + 1, Children(s, C), Len(s) <= k, NEW c, c \notin C,
             NEW E, E = C \cup {c}
      PROVE  Children(With(s, c), E) /\ Len(With(s, c)) <= l
  <2>1. Len(s) \in Nat /\ Len(s) <= 3
    BY <1>2 DEF Children
  <2>2. Children(With(s, c), C \cup {c}) /\ Len(With(s, c)) <= Len(s) + 1
    BY <1>2, <2>1, WithFacts
  <2>3. Len(With(s, c)) \in Nat
    BY <2>2 DEF Children
  <2>4. QED BY <1>2, <2>1, <2>2, <2>3
<1>3. Children(With(<<>>, 2), {2}) /\ Len(With(<<>>, 2)) <= 1
  BY <1>1
<1>4. Children(With(With(<<>>, 2), 3), {2, 3}) /\ Len(With(With(<<>>, 2), 3)) <= 2
  <2>1. 3 \notin {2} /\ {2, 3} = {2} \cup {3} /\ 1 \in 1 .. 3 /\ 1 + 1 = 2
    OBVIOUS
  <2>2. QED BY <1>2, <1>3, <2>1
<1>5. /\ Children(With(With(With(<<>>, 2), 3), 5), {2, 3, 5})
      /\ Len(With(With(With(<<>>, 2), 3), 5)) <= 3
  <2>1. 5 \notin {2, 3} /\ {2, 3, 5} = {2, 3} \cup {5} /\ 2 \in 1 .. 3 /\ 2 + 1 = 3
    OBVIOUS
  <2>2. QED BY <1>2, <1>4, <2>1
<1>6. Children(With(With(With(With(<<>>, 2), 3), 5), 6), {2, 3, 5, 6})
  <2>1. 6 \notin {2, 3, 5} /\ {2, 3, 5, 6} = {2, 3, 5} \cup {6} /\ 3 \in 1 .. 3 /\ 3 + 1 = 4
    OBVIOUS
  <2>2. QED BY <1>2, <1>5, <2>1
<1>7. Children(With(<<>>, 9), {9}) /\ Len(With(<<>>, 9)) <= 1
  BY <1>1
<1>8. Children(With(With(<<>>, 9), 11), {9, 11})
  <2>1. 11 \notin {9} /\ {9, 11} = {9} \cup {11} /\ 1 \in 1 .. 3 /\ 1 + 1 = 2
    OBVIOUS
  <2>2. QED BY <1>2, <1>7, <2>1
<1>9. QED BY <1>1, <1>6, <1>8

Fields(v, type, parent, data, children) ==
  /\ v \in NodeType /\ v.type = type /\ v.parent = parent
  /\ v.data = data /\ v.children = children

\* A node as init_fs leaves it.
LEMMA InitialNodeFields ==
  ASSUME NEW type \in {"file", "dir"}, NEW name \in Names \cup {"/"}, NEW parent \in Addr \cup {NULL},
         NEW owner \in Users, NEW data \in Addr \cup {NULL}, NEW children \in Seq(Addr)
  PROVE  Fields(InitialNode(type, name, parent, owner, data, children), type, parent, data, children)
BY DEF Fields, InitialNode, NewNode, NodeType, DefaultPermissions, AllRights

\* The node at n hangs below p and points to nodes of C.
Installs(n, type, p, data, C) ==
  LET v == InstalledTree[n]
  IN /\ v \in NodeType /\ v.type = type /\ v.parent = p /\ v.data = data
     /\ Children(v.children, C)

LEMMA TreeInstalled ==
  /\ Installs(1, "dir", NULL, NULL, {2, 3, 5, 6})
  /\ 2 \in Installed => Installs(2, "dir", 1, NULL, {})
  /\ 3 \in Installed => Installs(3, "dir", 1, NULL, {4})
  /\ 4 \in Installed => Installs(4, "dir", 3, NULL, {7})
  /\ 5 \in Installed => Installs(5, "dir", 1, NULL, {})
  /\ 6 \in Installed => Installs(6, "dir", 1, NULL, {9, 11})
  /\ 7 \in Installed => Installs(7, "file", 4, 8, {})
  /\ 9 \in Installed => Installs(9, "file", 6, 10, {})
  /\ 11 \in Installed => Installs(11, "file", 6, 12, {})
<1> DEFINE Holds(v, type, p, data, C) ==
             /\ v \in NodeType /\ v.type = type /\ v.parent = p /\ v.data = data
             /\ Children(v.children, C)
<1>1. ASSUME NEW type \in {"file", "dir"}, NEW name \in Names \cup {"/"}, NEW p \in Addr \cup {NULL},
             NEW owner \in Users, NEW data \in Addr \cup {NULL}, NEW s, NEW C, Children(s, C)
      PROVE  Holds(InitialNode(type, name, p, owner, data, s), type, p, data, C)
  <2>1. s \in Seq(Addr)
    <3>1. Installed \cap C \subseteq Addr
      BY ShellAssumption
    <3>2. QED BY <1>1, <3>1 DEF Children
  <2>2. Fields(InitialNode(type, name, p, owner, data, s), type, p, data, s)
    BY <1>1, <2>1, InitialNodeFields
  <2>3. QED BY <1>1, <2>2 DEF Fields
<1>2. /\ RootId \in Users /\ LiveuserId \in Users /\ Installed \subseteq Addr /\ 1 \in Installed
      /\ (4 \in Installed => 3 \in Installed) /\ (7 \in Installed => 4 \in Installed)
      /\ (9 \in Installed \/ 11 \in Installed => 6 \in Installed)
      /\ (7 \in Installed => 8 \in Addr) /\ (9 \in Installed => 10 \in Addr)
      /\ (11 \in Installed => 12 \in Addr)
  BY ShellAssumption
<1>3. /\ "bin" \in Names /\ "home" \in Names /\ "liveuser" \in Names /\ "root" \in Names
      /\ "etc" \in Names /\ "README.txt" \in Names /\ "users" \in Names /\ "groups" \in Names
  BY ShellAssumption
<1>4. /\ InstalledTree[1] = InitialNode("dir", "/", NULL, RootId, NULL,
                                         With(With(With(With(<<>>, 2), 3), 5), 6))
      /\ InstalledTree[2] = InitialNode("dir", "bin", 1, RootId, NULL, <<>>)
      /\ InstalledTree[3] = InitialNode("dir", "home", 1, RootId, NULL, With(<<>>, 4))
      /\ InstalledTree[4] = InitialNode("dir", "liveuser", 3, LiveuserId, NULL, With(<<>>, 7))
      /\ InstalledTree[5] = InitialNode("dir", "root", 1, RootId, NULL, <<>>)
      /\ InstalledTree[6] = InitialNode("dir", "etc", 1, RootId, NULL, With(With(<<>>, 9), 11))
      /\ InstalledTree[7] = InitialNode("file", "README.txt", 4, LiveuserId, 8, <<>>)
      /\ InstalledTree[9] = InitialNode("file", "users", 6, RootId, 10, <<>>)
      /\ InstalledTree[11] = InitialNode("file", "groups", 6, RootId, 12, <<>>)
  BY DEF InstalledTree
<1>5. /\ Children(With(With(With(With(<<>>, 2), 3), 5), 6), {2, 3, 5, 6})
      /\ Children(With(<<>>, 4), {4})
      /\ Children(With(<<>>, 7), {7})
      /\ Children(With(With(<<>>, 9), 11), {9, 11})
      /\ Children(<<>>, {})
  BY ArraysInstalled, NoChildren
<1> HIDE DEF Holds
<1>6. Holds(InstalledTree[1], "dir", NULL, NULL, {2, 3, 5, 6})
  BY <1>1, <1>2, <1>4, <1>5
<1>7. 2 \in Installed => Holds(InstalledTree[2], "dir", 1, NULL, {})
  BY <1>1, <1>2, <1>3, <1>4, <1>5
<1>8. 3 \in Installed => Holds(InstalledTree[3], "dir", 1, NULL, {4})
  BY <1>1, <1>2, <1>3, <1>4, <1>5
<1>9. 4 \in Installed => Holds(InstalledTree[4], "dir", 3, NULL, {7})
  BY <1>1, <1>2, <1>3, <1>4, <1>5
<1>10. 5 \in Installed => Holds(InstalledTree[5], "dir", 1, NULL, {})
  BY <1>1, <1>2, <1>3, <1>4, <1>5
<1>11. 6 \in Installed => Holds(InstalledTree[6], "dir", 1, NULL, {9, 11})
  BY <1>1, <1>2, <1>3, <1>4, <1>5
<1>12. 7 \in Installed => Holds(InstalledTree[7], "file", 4, 8, {})
  BY <1>1, <1>2, <1>3, <1>4, <1>5
<1>13. 9 \in Installed => Holds(InstalledTree[9], "file", 6, 10, {})
  BY <1>1, <1>2, <1>3, <1>4, <1>5
<1>14. 11 \in Installed => Holds(InstalledTree[11], "file", 6, 12, {})
  BY <1>1, <1>2, <1>3, <1>4, <1>5
<1>15. QED BY <1>6, <1>7, <1>8, <1>9, <1>10, <1>11, <1>12, <1>13, <1>14 DEF Installs, Holds

\* What LinksAgree and TypeOK say of n.
Placed(n) ==
  /\ node[n] \in NodeType
  /\ Len(node[n].children) <= MaxChildren
  /\ node[n].type = "file" => node[n].children = <<>>
  /\ node[n].type = "dir" => node[n].data = NULL
  /\ \A i \in DOMAIN node[n].children :
       /\ node[n].children[i] \in Installed /\ node[n].children[i] # 1
       /\ node[node[n].children[i]].parent = n
  /\ \A i, j \in DOMAIN node[n].children :
       node[n].children[i] = node[n].children[j] => i = j

Below(n, C) == \A c \in Installed \cap C : c # 1 /\ node[c].parent = n

LEMMA InitTree ==
  ASSUME ShellInit
  PROVE  TypeOK /\ LinksAgree /\ RootStays
<1>1. /\ fs_root = 1 /\ node = [a \in Installed |-> InstalledTree[a]]
      /\ buffer = [a \in {a + 1 : a \in Installed \cap {7, 9, 11}} |-> InstalledTree[a]]
      /\ deleting = <<>> /\ leaked = {} /\ machine = "up"
  BY DEF ShellInit, init_fs
<1>2. /\ DOMAIN node = Installed /\ \A n \in Installed : node[n] = InstalledTree[n]
      /\ node = [a \in Installed |-> node[a]]
  BY <1>1
<1>3. /\ Installed \subseteq {1, 2, 3, 4, 5, 6, 7, 9, 11} /\ Installed \subseteq Addr /\ 1 \in Installed
      /\ \A file \in Installed \cap {7, 9, 11} : file + 1 \in Addr
      /\ UsersFile \in Contents /\ Text \in Contents
  BY ShellAssumption
<1>4. /\ (2 \in Installed => node[2].parent = 1) /\ (3 \in Installed => node[3].parent = 1)
      /\ (5 \in Installed => node[5].parent = 1) /\ (6 \in Installed => node[6].parent = 1)
      /\ (4 \in Installed => node[4].parent = 3) /\ (7 \in Installed => node[7].parent = 4)
      /\ (9 \in Installed => node[9].parent = 6) /\ (11 \in Installed => node[11].parent = 6)
  BY <1>2, TreeInstalled DEF Installs
<1>5. ASSUME NEW n \in Installed, NEW type, NEW p, NEW data, NEW C, Installs(n, type, p, data, C),
             (type = "dir" /\ data = NULL) \/ (type = "file" /\ C = {}),
             Below(n, C)
      PROVE  Placed(n)
  <2>1. /\ node[n] \in NodeType /\ node[n].type = type /\ node[n].data = data
        /\ Children(node[n].children, C)
    BY <1>2, <1>5 DEF Installs
  <2>2. type = "file" => node[n].children = <<>>
    <3>1. SUFFICES ASSUME C = {} PROVE node[n].children = <<>>
      BY <1>5
    <3>2. Installed \cap C = {}
      BY <3>1
    <3>3. node[n].children \in Seq({})
      BY <2>1, <3>2 DEF Children
    <3>4. QED BY <3>3
  <2>3. \A i \in DOMAIN node[n].children : node[n].children[i] \in Installed \cap C
    BY <2>1 DEF Children
  <2>4. Len(node[n].children) <= MaxChildren
    <3>1. Len(node[n].children) <= 4 /\ Len(node[n].children) \in Nat
      BY <2>1 DEF Children
    <3>2. QED BY <3>1, FileTreeAssumption, ShellAssumption
  <2>5. \A i, j \in DOMAIN node[n].children : node[n].children[i] = node[n].children[j] => i = j
    BY <2>1 DEF Children
  <2>6. QED BY <1>5, <2>1, <2>2, <2>3, <2>4, <2>5 DEF Placed, Below
<1>6. Placed(1)
  <2>1. Below(1, {2, 3, 5, 6})
    BY <1>4 DEF Below
  <2>2. Installs(1, "dir", NULL, NULL, {2, 3, 5, 6})
    BY TreeInstalled
  <2>3. QED BY <1>3, <1>5, <2>1, <2>2
<1>7. 2 \in Installed => Placed(2)
  BY <1>5, TreeInstalled DEF Below
<1>8. 3 \in Installed => Placed(3)
  <2>1. Below(3, {4})
    BY <1>4 DEF Below
  <2>2. 3 \in Installed => Installs(3, "dir", 1, NULL, {4})
    BY TreeInstalled
  <2>3. QED BY <1>3, <1>5, <2>1, <2>2
<1>9. 4 \in Installed => Placed(4)
  <2>1. Below(4, {7})
    BY <1>4 DEF Below
  <2>2. 4 \in Installed => Installs(4, "dir", 3, NULL, {7})
    BY TreeInstalled
  <2>3. QED BY <1>3, <1>5, <2>1, <2>2
<1>10. 5 \in Installed => Placed(5)
  BY <1>5, TreeInstalled DEF Below
<1>11. 6 \in Installed => Placed(6)
  <2>1. Below(6, {9, 11})
    BY <1>4 DEF Below
  <2>2. 6 \in Installed => Installs(6, "dir", 1, NULL, {9, 11})
    BY TreeInstalled
  <2>3. QED BY <1>3, <1>5, <2>1, <2>2
<1>12. 7 \in Installed => Placed(7)
  BY <1>5, TreeInstalled DEF Below
<1>13. 9 \in Installed => Placed(9)
  BY <1>5, TreeInstalled DEF Below
<1>14. 11 \in Installed => Placed(11)
  BY <1>5, TreeInstalled DEF Below
<1>15. \A n \in Installed : Placed(n)
  BY <1>3, <1>6, <1>7, <1>8, <1>9, <1>10, <1>11, <1>12, <1>13, <1>14
<1>16. LinksAgree
  BY <1>1, <1>2, <1>15 DEF LinksAgree, Placed
<1>17. RootStays
  <2>1. Installs(1, "dir", NULL, NULL, {2, 3, 5, 6})
    BY TreeInstalled
  <2>2. QED BY <1>1, <1>2, <1>3, <2>1 DEF RootStays, Installs
<1>18. /\ DOMAIN buffer \subseteq Addr \ DOMAIN node
       /\ buffer \in [DOMAIN buffer -> Contents]
  <2>1. ASSUME NEW b \in DOMAIN buffer
        PROVE  b \in Addr \ Installed /\ buffer[b] \in Contents
    <3>1. b \in {8, 10, 12} /\ b \in Addr /\ buffer[b] = InstalledTree[b]
      BY <1>1, <1>3
    <3>2. InstalledTree[8] = Text /\ InstalledTree[10] = UsersFile /\ InstalledTree[12] = Text
      BY DEF InstalledTree
    <3>3. QED BY <1>3, <3>1, <3>2
  <2>2. buffer = [b \in DOMAIN buffer |-> buffer[b]]
    BY <1>1
  <2>3. QED BY <1>2, <2>1, <2>2
<1>19. TypeOK
  <2>1. node \in [DOMAIN node -> NodeType]
    BY <1>2, <1>15 DEF Placed
  <2>2. deleting \in Seq(DOMAIN node)
    BY <1>1
  <2>3. QED BY <1>1, <1>2, <1>3, <1>18, <2>1, <2>2 DEF TypeOK
<1>20. QED BY <1>16, <1>17, <1>19

LEMMA InitShell == ShellInit => SInv
<1> SUFFICES ASSUME ShellInit PROVE SInv
  OBVIOUS
<1>1. /\ deleting = <<>> /\ shells = <<>> /\ pc = "login" /\ target = NULL
      /\ operand = NULL
  BY DEF ShellInit, init_fs
<1>2. TypeOK /\ LinksAgree /\ RootStays
  BY InitTree
<1>3. Chain
  BY <1>1 DEF Chain
<1>4. AppOK
  <2>1. shells \in Seq(ShellType) /\ Len(shells) <= MaxShells
    BY <1>1, ShellAssumption
  <2>2. QED BY <1>1, <2>1 DEF AppOK, Places
<1>5. HeldNodeLive /\ DeletesAtPrompt
  BY <1>1 DEF HeldNodeLive, DeletesAtPrompt
<1>6. QED BY <1>2, <1>3, <1>4, <1>5 DEF SInv

-----------------------------------------------------------------------------
(* Theorems *)

\* The inductive invariant holds throughout, through every command, every key at a
\* question and every call of fs_delete, whatever paths are typed.
THEOREM ShellInvariant == ShellSpec => []SInv
<1>1. ShellInit => SInv
  BY InitShell
<1>2. SInv /\ [ShellNext]_vars => SInv'
  BY ShellStep
<1>3. QED BY <1>1, <1>2, PTL DEF ShellSpec

\* The programs' variables have their types, and a shell runs unless somebody logs in.
THEOREM ShellTypes == ShellSpec => []ShellTypeOK
<1>1. SInv => ShellTypeOK
  BY DEF SInv, AppOK, ShellTypeOK, ShellType
<1>2. QED BY <1>1, ShellInvariant, PTL

\* The two directions of the tree agree, although commands reach fs_add_child and
\* fs_remove_child through current directories that are gone or another node by now.
THEOREM LinksAgreeInShell == ShellSpec => []LinksAgree
<1>1. SInv => LinksAgree
  BY DEF SInv
<1>2. QED BY <1>1, ShellInvariant, PTL

\* The node rm asks about is there when the answer comes, and the file tinypad writes to is a file.
THEOREM HeldNodesLive == ShellSpec => []HeldNodeLive
<1>1. SInv => HeldNodeLive
  BY DEF SInv
<1>2. QED BY <1>1, ShellInvariant, PTL

\* No command deletes "/" or gives it a parent.
THEOREM RootAlwaysStays == ShellSpec => []RootStays
<1>1. SInv => RootStays
  BY DEF SInv
<1>2. QED BY <1>1, ShellInvariant, PTL

\* Only rm begins to delete: a file at once, a directory after the question about it.
LEMMA BeginsToDelete ==
  ASSUME SInv, ShellNext, deleting = <<>>, deleting' # <<>>
  PROVE  \/ pc = "confirm" /\ deleting' = <<target>>
         \/ \E n \in DOMAIN node : deleting' = <<n>> /\ node[n].type = "file"
<1>1. deleting' # deleting
  OBVIOUS
<1>2. CASE Login \/ UsersMissing \/ PromptReadsFreed \/ LookupReadsFreed \/ OutOfMemory
  BY <1>1, <1>2, OutOfMemoryStep
     DEF Login, Enter, UsersMissing, Panic, PromptReadsFreed, LookupReadsFreed, fsVars
<1>3. ASSUME NEW path, cd(path) \/ RmAsk(path) PROVE FALSE
  BY <1>1, <1>3 DEF cd, RmAsk, fsVars
<1>4. ASSUME NEW path, RmFile(path)
      PROVE  \E n \in DOMAIN node : deleting' = <<n>> /\ node[n].type = "file"
  BY <1>4 DEF RmFile, RemoveBegin, Found
<1>5. ASSUME NEW path \in Paths, mkdir(path) \/ hexedit(path) PROVE FALSE
  BY <1>5, MkdirStep, HexeditStep
<1>6. ASSUME NEW path, NEW mode, chmod(mode, path) PROVE FALSE
  BY <1>1, <1>6 DEF chmod
<1>7. CASE sh \/ exit \/ logout \/ reboot \/ shutdown \/ kptesting
  BY <1>1, <1>7 DEF sh, Enter, exit, logout, Leave, reboot, shutdown, kptesting, Panic, fsVars
<1>8. CASE RmYes
  BY <1>8 DEF RmYes, RemoveBegin
<1>9. CASE RmNo \/ Deleting
  <2>1. ~Deleting
    BY DeletingStep
  <2>2. QED BY <1>1, <1>9, <2>1 DEF RmNo, fsVars
<1>10. CASE Tinypad \/ TinypadExit \/ TinypadSave
  BY <1>1, <1>10 DEF Tinypad, TinypadExit, TinypadSave, GoTo, fsVars
<1>11. ASSUME NEW path \in Paths, SaveExisting(path) \/ SaveNew(path) PROVE FALSE
  BY <1>1, <1>11, SaveNewStep DEF SaveExisting, fsVars
<1>12. CASE Saving
  BY <1>12, SavingStep
<1>13. CASE Command
  BY <1>3, <1>4, <1>5, <1>6, <1>7, <1>13 DEF Command
<1>14. CASE Editor
  BY <1>10, <1>11, <1>12, <1>14 DEF Editor
<1>15. QED BY <1>2, <1>8, <1>9, <1>13, <1>14 DEF ShellNext

\* No directory is deleted but the one the user was asked about.
THEOREM AskedFirst == ShellSpec => DirectoriesAskedFirst
<1> DEFINE Asked == deleting = <<>> /\ deleting' # <<>> /\ node[deleting'[1]].type = "dir" =>
                      pc = "confirm" /\ target = deleting'[1]
<1>1. ASSUME SInv, [ShellNext]_vars PROVE [Asked]_vars
  <2>1. SUFFICES ASSUME ShellNext, deleting = <<>>, deleting' # <<>>,
                        node[deleting'[1]].type = "dir"
                 PROVE  pc = "confirm" /\ target = deleting'[1]
    BY <1>1
  <2>2. CASE pc = "confirm" /\ deleting' = <<target>>
    BY <2>2
  <2>3. ASSUME NEW n \in DOMAIN node, deleting' = <<n>>, node[n].type = "file" PROVE FALSE
    <3>1. deleting'[1] = n
      BY <2>3
    <3>2. QED BY <2>1, <2>3, <3>1
  <2>4. QED BY <1>1, <2>1, <2>2, <2>3, BeginsToDelete
<1>2. QED BY <1>1, ShellInvariant, PTL DEF ShellSpec, DirectoriesAskedFirst

-----------------------------------------------------------------------------
(* Memory, as long as no shell stands in what rm removes *)

\* No shell stands in what is being removed.  An rm of a current directory, or of one
\* above it, breaks it, and nothing else does.
NoShellRemoved == \A i \in DOMAIN shells : shells[i].current_dir \notin Doomed

\* Every shell stands in the tree, or its user had no home to begin in.
ShellsInTree == machine = "up" => \A i \in DOMAIN shells : shells[i].current_dir \in Linked \cup {NULL}

\* The directory rm asks about was found in the tree.
AskedInTree == machine = "up" /\ pc = "confirm" => target \in Linked

\* The inductive invariant, under the assumption that NoShellRemoved holds.
MInv == SInv /\ IInv /\ AskedInTree /\ ShellsInTree

\* A step takes nothing out of the tree but what it is about to delete.
TreeKept == machine' = "up" => Linked \subseteq Linked' \cup Doomed'

LEMMA RootLinked ==
  ASSUME IInv, RootStays
  PROVE  fs_root \in Linked /\ Linked \subseteq DOMAIN node /\ fs_root \in DOMAIN node
<1>1. TypeOK /\ LinksAgree /\ fs_root \in DOMAIN node /\ fs_root # NULL
  BY FileTreeAssumption DEF IInv, RootStays, TypeOK
<1>2. Linked = From(GraphOf(node), fs_root)
  BY <1>1, ReachIsFrom
<1>3. fs_root \in Linked
  BY <1>1, <1>2, LinkFacts, FromClosed
<1>4. QED BY <1>1, <1>3, LinkedNodes

\* From a directory of the tree every operand leads into the tree, or nowhere.
LEMMA LookupLinked ==
  ASSUME IInv, RootStays, current_dir \in Linked \cup {NULL}, NEW path, path.tokens \in Seq(Tokens)
  PROVE  Lookup(path) \in Linked \cup {NULL}
<1>1. (IF path.absolute THEN fs_root ELSE current_dir) \in Linked \cup {NULL}
  BY RootLinked
<1>2. \A x \in Linked \cup {NULL}, t \in Tokens : Step(x, t) \in Linked \cup {NULL}
  BY StepLinked DEF IInv
<1>3. QED BY <1>1, <1>2, ResolveWithin DEF Lookup

LEMMA LookupFound ==
  ASSUME MInv, AtPrompt, NEW path, path.tokens \in Seq(Tokens), Lookup(path) \in DOMAIN node
  PROVE  Lookup(path) \in Linked
<1>1. IInv /\ RootStays /\ current_dir \in Linked \cup {NULL}
  BY PromptFacts DEF MInv, SInv, ShellsInTree, current_dir
<1>2. NULL \notin DOMAIN node
  BY <1>1, FileTreeAssumption DEF IInv, TypeOK
<1>3. QED BY <1>1, <1>2, LookupLinked

LEMMA ParentTokens ==
  ASSUME NEW path \in Paths, path.tokens # <<>>
  PROVE  ParentPath(path).tokens \in Seq(Tokens)
<1>1. path \in [absolute : BOOLEAN, tokens : Seq(Tokens)] /\ Front(path.tokens) \in Seq(Tokens)
  BY PathFacts, FrontFacts
<1>2. [path EXCEPT !.tokens = Front(@)].tokens = Front(path.tokens)
  BY <1>1
<1>3. Relative(<<>>).tokens \in Seq(Tokens)
  BY DEF Relative
<1>4. QED BY <1>1, <1>2, <1>3 DEF ParentPath

LEMMA AddInv ==
  ASSUME IInv, NEW type \in {"file", "dir"}, NEW name \in Names, NEW dir \in Linked,
         NEW owner \in Users, Add(dir, type, name, owner)
  PROVE  IInv' /\ TreeKept
BY CreateStep, UnderFileStep, BeyondArrayStep DEF Add, TreeKept

LEMMA WriteKept ==
  ASSUME IInv, NEW file \in DOMAIN node, NEW bytes \in Contents \cup {Empty}, fs_write(file, bytes)
  PROVE  IInv' /\ TreeKept
BY WriteInv, EraseStep, WriteStep, WriteHaltStep DEF fs_write, TreeKept

LEMMA MkdirMemory ==
  ASSUME MInv, NEW path \in Paths, mkdir(path)
  PROVE  IInv' /\ TreeKept /\ pc' = "prompt"
<1> DEFINE dir == Lookup(ParentPath(path))
<1>1. /\ AtPrompt /\ path.tokens # <<>> /\ NotFound(path) /\ dir \in DOMAIN node
      /\ Add(dir, "dir", Last(path.tokens), user_id) /\ UNCHANGED pc
  BY DEF mkdir
<1>2. IInv /\ SInv /\ TypeOK /\ fs_root \in DOMAIN node
  BY DEF MInv, SInv, RootStays
<1>3. pc = "prompt" /\ user_id \in Users
  BY <1>1, <1>2, PromptFacts
<1>4. Last(path.tokens) \in Names
  BY <1>1, <1>2, MkdirName
<1>5. dir \in Linked
  BY <1>1, ParentTokens, LookupFound
<1> HIDE DEF dir
<1>6. QED BY <1>1, <1>2, <1>3, <1>4, <1>5, AddInv

LEMMA RmFileMemory ==
  ASSUME MInv, NEW path \in Paths, RmFile(path)
  PROVE  IInv' /\ TreeKept /\ pc' = "prompt"
<1>1. AtPrompt /\ Lookup(path) \in DOMAIN node /\ RemoveBegin(Lookup(path)) /\ UNCHANGED pc
  BY DEF RmFile, Found
<1>2. Lookup(path) \in Linked
  BY <1>1, PathFacts, LookupFound
<1>3. pc = "prompt"
  BY <1>1 DEF AtPrompt
<1>4. QED BY <1>1, <1>2, <1>3, RemoveBeginStep DEF MInv, TreeKept

LEMMA RmAskMemory ==
  ASSUME MInv, NEW path \in Paths, RmAsk(path)
  PROVE  IInv' /\ TreeKept /\ target' \in Linked'
<1>1. AtPrompt /\ Lookup(path) \in DOMAIN node /\ target' = Lookup(path) /\ UNCHANGED fsVars
  BY DEF RmAsk, Found
<1>2. Lookup(path) \in Linked
  BY <1>1, PathFacts, LookupFound
<1>3. QED BY <1>1, <1>2, StutterStep DEF MInv, TreeKept

LEMMA RmYesMemory ==
  ASSUME MInv, RmYes
  PROVE  IInv' /\ TreeKept /\ pc' = "prompt"
<1>1. pc = "confirm" /\ machine = "up" /\ RemoveBegin(target) /\ pc' = "prompt"
  BY DEF RmYes, RemoveBegin, Idle, Back
<1>2. target \in Linked
  BY <1>1 DEF MInv, AskedInTree
<1>3. QED BY <1>1, <1>2, RemoveBeginStep DEF MInv, TreeKept

LEMMA ChmodMemory ==
  ASSUME MInv, NEW path \in Paths, NEW mode \in Modes, chmod(mode, path)
  PROVE  IInv' /\ TreeKept /\ pc' = "prompt"
<1> DEFINE n == Lookup(path)
           p == Changed(node[n].permissions, mode)
<1>1. /\ AtPrompt /\ n \in DOMAIN node
      /\ node' = [node EXCEPT ![n].permissions = p]
      /\ UNCHANGED <<fs_root, buffer, deleting, leaked, machine, pc>>
  BY DEF chmod, Found
<1>2. IInv /\ TypeOK /\ LinksAgree /\ deleting = <<>> /\ pc = "prompt"
  BY <1>1 DEF MInv, SInv, AtPrompt, Idle
<1> HIDE DEF n
<1>3. p \in PermissionType
  <2>1. node[n].permissions \in PermissionType
    BY <1>1, <1>2, NodeFacts DEF NodeType, PermissionType
  <2>2. QED BY <2>1, ChangedType
<1> HIDE DEF p
<1>4. QED BY <1>1, <1>2, <1>3, PermissionsStep DEF PermissionType, TreeKept

LEMMA HexeditMemory ==
  ASSUME MInv, NEW path \in Paths, hexedit(path)
  PROVE  IInv' /\ TreeKept /\ pc' = "prompt"
<1>1. /\ AtPrompt /\ Lookup(path) \in DOMAIN node /\ UNCHANGED pc
      /\ \E bytes \in Written \cup {Empty} : fs_write(Lookup(path), bytes)
  BY DEF hexedit, Found
<1>2. PICK bytes \in Contents \cup {Empty} : fs_write(Lookup(path), bytes)
  BY <1>1, ShellAssumption
<1>3. pc = "prompt"
  BY <1>1 DEF AtPrompt
<1>4. QED BY <1>1, <1>2, <1>3, WriteKept DEF MInv

LEMMA SaveNewMemory ==
  ASSUME MInv, NEW path \in Paths, SaveNew(path)
  PROVE  IInv' /\ TreeKept /\ pc' = "saving"
<1>1. /\ path.tokens # <<>> /\ Folder(path) # NULL /\ File(path) = NULL /\ pc' = "saving"
      /\ Add(Folder(path), "file", Last(path.tokens), LiveuserId)
  BY DEF SaveNew
<1>2. IInv /\ TypeOK /\ LinksAgree /\ RootInv /\ fs_root \in DOMAIN node
  BY DEF MInv, SInv, IInv, RootStays
<1>3. Last(path.tokens) \in Names /\ LiveuserId \in Users
  BY <1>1, <1>2, FolderFacts, ShellAssumption
<1>4. Folder(path) \in Linked
  <2>1. Absolute(Front(path.tokens)).tokens \in Seq(Tokens)
    BY <1>1, PathFacts, FrontFacts DEF Absolute
  <2>2. QED BY <1>1, <1>2, <2>1, ResolveLinked DEF Folder
<1>5. QED BY <1>1, <1>2, <1>3, <1>4, AddInv

LEMMA SavingMemory ==
  ASSUME MInv, Saving
  PROVE  IInv' /\ TreeKept /\ pc' = "prompt"
<1>1. pc = "saving" /\ pc' = "prompt" /\ \E bytes \in Written \cup {Empty} : fs_write(target, bytes)
  BY DEF Saving, Back
<1>2. PICK bytes \in Contents \cup {Empty} : fs_write(target, bytes)
  BY <1>1, ShellAssumption
<1>3. machine = "up"
  BY <1>2 DEF fs_write, Erase, Write, WriteOutOfMemory, Idle
<1>4. target \in DOMAIN node
  BY <1>1, <1>3 DEF MInv, SInv, HeldNodeLive
<1>5. QED BY <1>1, <1>2, <1>4, WriteKept DEF MInv

\* The steps that leave the tree alone, and ask nothing.
LEMMA TreeAlone ==
  ASSUME IInv, UNCHANGED fsVars, pc' # "confirm"
  PROVE  IInv' /\ AskedInTree' /\ TreeKept
BY StutterStep DEF AskedInTree, TreeKept

LEMMA StopMemory ==
  ASSUME IInv, UNCHANGED <<fs_root, node, buffer, deleting, leaked>>, machine' \in {"halted", "wild"}
  PROVE  IInv' /\ AskedInTree' /\ TreeKept
BY StoppedStep DEF AskedInTree, TreeKept

LEMMA CommandMemory ==
  ASSUME MInv, Command
  PROVE  IInv' /\ AskedInTree' /\ TreeKept
<1>1. IInv /\ SInv /\ operand \in Paths \cup {NULL} /\ NULL \notin Paths
  BY ShellAssumption DEF MInv, SInv, AppOK
<1>2. ASSUME NEW path \in Paths, cd(path) PROVE IInv' /\ AskedInTree' /\ TreeKept
  BY <1>1, <1>2, TreeAlone DEF cd, AtPrompt
<1>3. ASSUME NEW path \in Paths, RmFile(path) \/ mkdir(path) \/ hexedit(path)
      PROVE  IInv' /\ AskedInTree' /\ TreeKept
  BY <1>3, RmFileMemory, MkdirMemory, HexeditMemory DEF AskedInTree
<1>4. ASSUME NEW path \in Paths, RmAsk(path) PROVE IInv' /\ AskedInTree' /\ TreeKept
  BY <1>4, RmAskMemory DEF AskedInTree
<1>5. ASSUME NEW path \in Paths, NEW mode \in Modes, chmod(mode, path) PROVE IInv' /\ AskedInTree' /\ TreeKept
  BY <1>5, ChmodMemory DEF AskedInTree
<1>6. CASE sh \/ exit \/ logout
  <2>1. UNCHANGED fsVars /\ pc' \in {"prompt", "login"}
    BY <1>6 DEF sh, Enter, exit, logout, Leave
  <2>2. QED BY <1>1, <2>1, TreeAlone
<1>7. CASE reboot \/ shutdown \/ kptesting
  BY <1>1, <1>7, StopMemory DEF reboot, shutdown, kptesting, Panic
<1>8. \A path \in (Paths \cup {operand}) \ {NULL} : path \in Paths
  BY <1>1
<1>9. QED BY <1>2, <1>3, <1>4, <1>5, <1>6, <1>7, <1>8 DEF Command

LEMMA EditorMemory ==
  ASSUME MInv, Editor
  PROVE  IInv' /\ AskedInTree' /\ TreeKept
<1>1. CASE Tinypad \/ TinypadExit \/ TinypadSave
  <2>1. UNCHANGED fsVars /\ pc' \in {"tinypad", "prompt", "save_as"}
    BY <1>1 DEF Tinypad, TinypadExit, TinypadSave, GoTo
  <2>2. QED BY <2>1, TreeAlone DEF MInv
<1>2. ASSUME NEW path \in Paths, SaveExisting(path) PROVE IInv' /\ AskedInTree' /\ TreeKept
  BY <1>2, TreeAlone DEF MInv, SaveExisting
<1>3. ASSUME NEW path \in Paths, SaveNew(path) PROVE IInv' /\ AskedInTree' /\ TreeKept
  BY <1>3, SaveNewMemory DEF AskedInTree
<1>4. CASE Saving
  BY <1>4, SavingMemory DEF AskedInTree
<1>5. QED BY <1>1, <1>2, <1>3, <1>4 DEF Editor

LEMMA MemoryStep ==
  ASSUME MInv, [ShellNext]_vars
  PROVE  IInv' /\ AskedInTree' /\ TreeKept
<1>1. IInv /\ SInv /\ AskedInTree
  BY DEF MInv
<1>2. CASE Login \/ RmNo
  <2>1. UNCHANGED fsVars /\ pc' = "prompt"
    BY <1>2 DEF Login, Enter, RmNo, Back
  <2>2. QED BY <1>1, <2>1, TreeAlone
<1>3. CASE UsersMissing \/ PromptReadsFreed \/ LookupReadsFreed \/ OutOfMemory
  <2>1. UNCHANGED <<fs_root, node, buffer, deleting, leaked>> /\ machine' \in {"halted", "wild"}
    BY <1>3 DEF UsersMissing, Panic, PromptReadsFreed, LookupReadsFreed, OutOfMemory, CreateOutOfMemory
  <2>2. QED BY <1>1, <2>1, StopMemory
<1>4. CASE Command \/ Editor
  BY <1>4, CommandMemory, EditorMemory
<1>5. CASE RmYes
  BY <1>5, RmYesMemory DEF AskedInTree
<1>6. CASE Deleting
  <2>1. Delete /\ UNCHANGED pc /\ deleting # <<>>
    BY <1>1, <1>6, DeletingStep DEF Deleting, appVars
  <2>2. IInv' /\ Linked' = Linked
    BY <1>1, <2>1, DescendStep, FinishStep DEF Delete
  <2>3. pc' = "prompt"
    BY <1>1, <2>1 DEF SInv, DeletesAtPrompt
  <2>4. QED BY <2>2, <2>3 DEF AskedInTree, TreeKept
<1>7. CASE UNCHANGED vars
  <2>1. UNCHANGED fsVars /\ UNCHANGED <<machine, pc, target>>
    BY <1>7 DEF vars, fsVars, appVars
  <2>2. IInv' /\ Linked' = Linked
    BY <1>1, <2>1, StutterStep
  <2>3. QED BY <1>1, <2>1, <2>2 DEF AskedInTree, TreeKept
<1>8. QED BY <1>2, <1>3, <1>4, <1>5, <1>6, <1>7 DEF ShellNext

\* A machine that stopped stays so: every step of the programs needs it up, but for
\* the answer no, which leaves it as it is.
LEMMA StoppedForGood ==
  ASSUME machine # "up", [ShellNext]_vars
  PROVE  machine' # "up"
<1>1. CASE RmNo \/ UNCHANGED vars
  BY <1>1 DEF RmNo, vars, fsVars
<1>2. CASE Command
  BY <1>2 DEF Command, cd, RmFile, RmAsk, mkdir, hexedit, chmod, sh, exit, logout, reboot, shutdown, kptesting, AtPrompt, Idle
<1>3. CASE Editor
  BY <1>3 DEF Editor, Tinypad, TinypadExit, TinypadSave, SaveExisting, SaveNew, Saving,
              AtPrompt, Idle, fs_write, Erase, Write, WriteOutOfMemory
<1>4. CASE Login \/ UsersMissing \/ PromptReadsFreed \/ LookupReadsFreed \/ RmYes \/ Deleting \/ OutOfMemory
  BY <1>4 DEF Login, UsersMissing, PromptReadsFreed, LookupReadsFreed, RmYes, Deleting, OutOfMemory,
              AtPrompt, Idle, RemoveBegin, Delete, DeleteDescend, DeleteFinish, CreateOutOfMemory
<1>5. QED BY <1>1, <1>2, <1>3, <1>4 DEF ShellNext

\* Shells begin at home, go where they find a directory, and end; rm is left to the assumption.
LEMMA ShellsStay ==
  ASSUME MInv, [ShellNext]_vars, NoShellRemoved'
  PROVE  ShellsInTree'
<1>1. /\ SInv /\ IInv /\ TypeOK /\ LinksAgree /\ RootStays /\ shells \in Seq(ShellType)
      /\ TreeKept
  BY MemoryStep DEF MInv, SInv, AppOK
<1>2. SUFFICES ASSUME machine' = "up", NEW i \in DOMAIN shells'
               PROVE  shells'[i].current_dir \in Linked' \cup {NULL}
  BY DEF ShellsInTree
<1>3. machine = "up" /\ \A k \in DOMAIN shells : shells[k].current_dir \in Linked \cup {NULL}
  <2>1. CASE machine = "up"
    BY <2>1 DEF MInv, ShellsInTree
  <2>2. CASE machine # "up"
    BY <1>2, <2>2, StoppedForGood
  <2>3. QED BY <2>1, <2>2
<1>4. Linked \subseteq Linked' \cup Doomed' /\ shells'[i].current_dir \notin Doomed'
  BY <1>1, <1>2 DEF TreeKept, NoShellRemoved
<1>5. SUFFICES shells'[i].current_dir \in Linked \cup {NULL}
  BY <1>4
<1>6. CASE UNCHANGED shells
  BY <1>2, <1>3, <1>6
<1>7. ASSUME NEW user, user.name \in {"root", "liveuser"}, Enter(user)
      PROVE  shells'[i].current_dir \in Linked \cup {NULL}
  <2> DEFINE new == [current_dir |-> HomeOf(user), name |-> user.name, user_id |-> user.id]
  <2>1. shells' = Append(shells, new) /\ new.current_dir = HomeOf(user)
    BY <1>7 DEF Enter
  <2>2. HomeOf(user) \in Linked \cup {NULL}
    BY <1>1, <1>7, HomeFacts
  <2> HIDE DEF new
  <2>3. shells'[i] = new \/ (i \in DOMAIN shells /\ shells'[i] = shells[i])
    BY <1>1, <1>2, <2>1
  <2>4. QED BY <1>3, <2>1, <2>2, <2>3
<1>8. ASSUME NEW path \in Paths, cd(path)
      PROVE  shells'[i].current_dir \in Linked \cup {NULL}
  <2>1. /\ AtPrompt /\ Lookup(path) \in DOMAIN node
        /\ shells' = [shells EXCEPT ![Len(shells)].current_dir = Lookup(path)]
    BY <1>8 DEF cd, Found
  <2>2. Lookup(path) \in Linked
    BY <2>1, PathFacts, LookupFound
  <2>3. i \in DOMAIN shells
    BY <1>1, <1>2, <2>1
  <2>4. CASE i = Len(shells)
    <3>1. shells[i] \in ShellType /\ shells'[i] = [shells[i] EXCEPT !.current_dir = Lookup(path)]
      BY <1>1, <2>1, <2>3, <2>4
    <3>2. shells'[i].current_dir = Lookup(path)
      BY <3>1 DEF ShellType
    <3>3. QED BY <2>2, <3>2
  <2>5. CASE i # Len(shells)
    BY <1>3, <2>1, <2>3, <2>5
  <2>6. QED BY <2>4, <2>5
<1>9. CASE exit \/ logout
  <2>1. AtPrompt /\ shells # <<>> /\ (shells' = Front(shells) \/ shells' = <<>>)
    BY <1>1, <1>9, PromptFacts DEF exit, logout, Leave
  <2>2. shells' = Front(shells)
    BY <1>2, <2>1
  <2>3. i \in 1 .. Len(Front(shells)) /\ Len(shells) = Len(Front(shells)) + 1
        /\ Front(shells)[i] = shells[i]
    BY <1>1, <1>2, <2>1, <2>2, FrontFacts
  <2>4. QED BY <1>1, <1>3, <2>2, <2>3
<1>10. CASE Login \/ sh
  <2>1. CASE Login
    <3>1. PICK user \in {[name |-> "root", id |-> RootId], [name |-> "liveuser", id |-> LiveuserId]} : Enter(user)
      BY <2>1 DEF Login, Accounts
    <3>2. user.name \in {"root", "liveuser"}
      OBVIOUS
    <3>3. QED BY <1>7, <3>1, <3>2
  <2>2. CASE sh
    <3>1. AtPrompt /\ Enter([name |-> shell.name, id |-> user_id])
      BY <2>2 DEF sh
    <3>2. shell.name \in {"root", "liveuser"}
      BY <1>1, <3>1, PromptFacts DEF ShellType
    <3>3. QED BY <1>7, <3>1, <3>2
  <2>3. QED BY <1>10, <2>1, <2>2
<1>11. \A path \in (Paths \cup {operand}) \ {NULL} : path \in Paths
  BY <1>1 DEF SInv, AppOK
<1>12. UNCHANGED shells \/ exit \/ logout \/ Login \/ sh \/ \E path \in Paths : cd(path)
  <2>1. CASE Command
    BY <1>11, <2>1 DEF Command, RmFile, RmAsk, mkdir, hexedit, chmod, reboot, shutdown, kptesting, Panic
  <2>2. CASE Editor
    BY <2>2 DEF Editor, Tinypad, TinypadExit, TinypadSave, GoTo, SaveExisting, SaveNew, Saving
  <2>3. CASE UsersMissing \/ PromptReadsFreed \/ LookupReadsFreed \/ RmYes \/ RmNo \/ Deleting \/ OutOfMemory \/ UNCHANGED vars
    BY <2>3 DEF UsersMissing, Panic, PromptReadsFreed, LookupReadsFreed, RmYes, RmNo, Deleting, OutOfMemory, vars, appVars
  <2>4. QED BY <2>1, <2>2, <2>3 DEF ShellNext
<1>13. QED BY <1>6, <1>8, <1>9, <1>10, <1>12

\* s holds every child of C there is.
Holding(s, C) == s \in Seq(Installed) /\ \A c \in Installed \cap C : \E i \in DOMAIN s : s[i] = c

LEMMA WithHolds ==
  ASSUME NEW s, NEW C, Holding(s, C), NEW c, NEW E, E = C \cup {c}
  PROVE  Holding(With(s, c), E)
<1>1. s \in Seq(Installed) /\ \A d \in Installed \cap C : \E i \in DOMAIN s : s[i] = d
  BY DEF Holding
<1>2. CASE c \notin Installed
  BY <1>1, <1>2 DEF With, Holding
<1>3. CASE c \in Installed
  <2> DEFINE t == Append(s, c)
  <2>1. /\ t \in Seq(Installed) /\ DOMAIN s \subseteq DOMAIN t /\ \A i \in DOMAIN s : t[i] = s[i]
        /\ Len(s) + 1 \in DOMAIN t /\ t[Len(s) + 1] = c
    BY <1>1, <1>3
  <2> HIDE DEF t
  <2>2. \A d \in Installed \cap E : \E i \in DOMAIN t : t[i] = d
    BY <1>1, <2>1
  <2>3. With(s, c) = t
    BY <1>3 DEF With, t
  <2>4. QED BY <2>1, <2>2, <2>3 DEF Holding
<1>4. QED BY <1>2, <1>3

LEMMA TreeHolds ==
  /\ Holding(With(With(With(With(<<>>, 2), 3), 5), 6), {2, 3, 5, 6})
  /\ Holding(With(<<>>, 4), {4})
  /\ Holding(With(<<>>, 7), {7})
  /\ Holding(With(With(<<>>, 9), 11), {9, 11})
<1>1. Holding(<<>>, {})
  BY DEF Holding
<1>2. \A s, C, c, E : Holding(s, C) /\ E = C \cup {c} => Holding(With(s, c), E)
  BY WithHolds
<1>3. \A c : {c} = {} \cup {c}
  OBVIOUS
<1>4. /\ {2, 3} = {2} \cup {3} /\ {2, 3, 5} = {2, 3} \cup {5} /\ {2, 3, 5, 6} = {2, 3, 5} \cup {6}
      /\ {9, 11} = {9} \cup {11}
  OBVIOUS
<1>5. \A c : Holding(With(<<>>, c), {c})
  BY <1>1, <1>2, <1>3
<1>6. Holding(With(With(<<>>, 9), 11), {9, 11})
  <2>1. Holding(With(<<>>, 9), {9})
    BY <1>5
  <2>2. QED BY <1>2, <1>4, <2>1, Zenon
<1>7. Holding(With(With(<<>>, 2), 3), {2, 3})
  BY <1>2, <1>4, <1>5
<1>8. Holding(With(With(With(<<>>, 2), 3), 5), {2, 3, 5})
  BY <1>2, <1>4, <1>7
<1>9. Holding(With(With(With(With(<<>>, 2), 3), 5), 6), {2, 3, 5, 6})
  BY <1>2, <1>4, <1>8
<1>10. QED BY <1>5, <1>6, <1>9

LEMMA InstalledFields ==
  /\ InstalledTree[1].children = With(With(With(With(<<>>, 2), 3), 5), 6)
  /\ InstalledTree[3].children = With(<<>>, 4)
  /\ InstalledTree[4].children = With(<<>>, 7)
  /\ InstalledTree[6].children = With(With(<<>>, 9), 11)
BY DEF InstalledTree, InitialNode, NewNode

\* init_fs leaves nothing out of the tree, and every buffer with its file.
LEMMA InitMemory ==
  ASSUME ShellInit
  PROVE  IInv
<1>1. /\ fs_root = 1 /\ node = [a \in Installed |-> InstalledTree[a]]
      /\ buffer = [a \in {a + 1 : a \in Installed \cap {7, 9, 11}} |-> InstalledTree[a]]
      /\ deleting = <<>> /\ leaked = {} /\ machine = "up"
  BY DEF ShellInit, init_fs
<1>2. DOMAIN node = Installed /\ \A n \in Installed : node[n] = InstalledTree[n]
  BY <1>1
<1>3. /\ Installed \subseteq {1, 2, 3, 4, 5, 6, 7, 9, 11} /\ 1 \in Installed
      /\ (4 \in Installed => 3 \in Installed) /\ (7 \in Installed => 4 \in Installed)
      /\ (9 \in Installed \/ 11 \in Installed => 6 \in Installed)
  BY ShellAssumption
<1>4. TypeOK /\ LinksAgree /\ RootStays
  BY InitTree
<1>5. RootInv /\ Doomed = {} /\ DeletionPath /\ StackInv
  BY <1>1, <1>4 DEF RootInv, RootStays, Doomed, DeletionPath, StackInv
<1>6. Linked = Installed
  <2>1. fs_root \in DOMAIN node /\ fs_root # NULL
    BY <1>4, FileTreeAssumption DEF RootStays, TypeOK
  <2>2. /\ Linked = From(GraphOf(node), fs_root) /\ Linked \subseteq Installed /\ 1 \in Linked
        /\ \A m \in Linked : KidsOf(node, m) \subseteq Linked
    <3>1. Linked = From(GraphOf(node), fs_root)
      BY <2>1, ReachIsFrom
    <3>2. QED BY <1>1, <1>2, <1>4, <2>1, <3>1, LinkFacts, FromClosed
  <2>3. ASSUME NEW n \in Linked, NEW C, Holding(InstalledTree[n].children, C)
        PROVE  Installed \cap C \subseteq Linked
    <3>1. node[n].children = InstalledTree[n].children
      BY <1>2, <2>2
    <3>2. Installed \cap C \subseteq KidsOf(node, n)
      BY <2>3, <3>1 DEF Holding, KidsOf
    <3>3. QED BY <2>2, <3>2
  <2>4. Installed \cap {2, 3, 5, 6} \subseteq Linked
    BY <2>2, <2>3, TreeHolds, InstalledFields
  <2>5. 4 \in Installed => 4 \in Linked
    BY <1>3, <2>3, <2>4, TreeHolds, InstalledFields
  <2>6. 7 \in Installed => 7 \in Linked
    BY <1>3, <2>3, <2>5, TreeHolds, InstalledFields
  <2>7. Installed \cap {9, 11} \subseteq Linked
    <3>1. CASE 6 \in Installed
      <4>1. 6 \in Linked /\ Holding(InstalledTree[6].children, {9, 11})
        BY <2>4, <3>1, TreeHolds, InstalledFields
      <4>2. QED BY <2>3, <4>1, Zenon
    <3>2. CASE 6 \notin Installed
      BY <1>3, <3>2
    <3>3. QED BY <3>1, <3>2
  <2>8. QED BY <1>3, <2>2, <2>4, <2>5, <2>6, <2>7
<1>7. \A n \in Installed : node[n].data = IF n \in {7, 9, 11} THEN n + 1 ELSE NULL
  <2>1. /\ node[1].data = NULL
        /\ (2 \in Installed => node[2].data = NULL) /\ (3 \in Installed => node[3].data = NULL)
        /\ (4 \in Installed => node[4].data = NULL) /\ (5 \in Installed => node[5].data = NULL)
        /\ (6 \in Installed => node[6].data = NULL) /\ (7 \in Installed => node[7].data = 8)
        /\ (9 \in Installed => node[9].data = 10) /\ (11 \in Installed => node[11].data = 12)
    BY <1>2, <1>3, TreeInstalled DEF Installs
  <2>2. QED BY <1>3, <2>1
<1>8. \A a \in Addr : a # NULL
  BY FileTreeAssumption
<1>9. \A n \in Installed \cap {7, 9, 11} : n + 1 \in Addr
  BY ShellAssumption
<1>10. DOMAIN buffer = {node[n].data : n \in DOMAIN node} \ {NULL}
  BY <1>1, <1>2, <1>7, <1>8, <1>9
<1>11. \A m, n \in DOMAIN node : node[m].data = node[n].data /\ node[m].data # NULL => m = n
  <2>1. ASSUME NEW m \in Installed, NEW n \in Installed,
               node[m].data = node[n].data, node[m].data # NULL
        PROVE  m = n
    <3>1. m \in {7, 9, 11} /\ n \in {7, 9, 11}
      BY <1>7, <2>1
    <3>2. node[m].data = m + 1 /\ node[n].data = n + 1
      BY <1>7, <3>1
    <3>3. m + 1 = n + 1
      BY <2>1, <3>2, Zenon
    <3>4. QED BY <3>1, <3>3
  <2>2. QED BY <1>2, <2>1
<1>12. NothingLost
  BY <1>1, <1>2, <1>5, <1>6, <1>10, <1>11 DEF NothingLost
<1>13. QED BY <1>4, <1>5, <1>12 DEF IInv

LEMMA MemoryAlways == ShellSpec /\ []NoShellRemoved => []MInv
<1>1. ShellInit => MInv
  <2>1. SUFFICES ASSUME ShellInit PROVE MInv
    OBVIOUS
  <2>2. shells = <<>> /\ pc = "login"
    BY <2>1 DEF ShellInit
  <2>3. QED BY <2>1, <2>2, InitShell, InitMemory DEF MInv, AskedInTree, ShellsInTree
<1>2. MInv /\ [ShellNext]_vars /\ NoShellRemoved' => MInv'
  <2>1. SUFFICES ASSUME MInv, [ShellNext]_vars, NoShellRemoved' PROVE MInv'
    OBVIOUS
  <2>2. SInv'
    BY <2>1, ShellStep DEF MInv
  <2>3. QED BY <2>1, <2>2, MemoryStep, ShellsStay DEF MInv
<1>3. QED BY <1>1, <1>2, PTL DEF ShellSpec

\* No command and no editor loses a node or a file's data, and none is freed that is
\* still in the tree, as long as nobody removes a directory a shell stands in.
THEOREM NothingLostInShell == ShellSpec /\ []NoShellRemoved => []NothingLost
<1>1. MInv => NothingLost
  BY DEF MInv, IInv
<1>2. QED BY <1>1, MemoryAlways, PTL

\* So long, too, the subtree rm takes out stays apart from the tree until it is freed.
THEOREM DeletionApartInShell == ShellSpec /\ []NoShellRemoved => []DeletionPath
<1>1. MInv => DeletionPath
  BY DEF MInv, IInv
<1>2. QED BY <1>1, MemoryAlways, PTL

\* What the prompt and pwd print leads back to the directory it stands for, unless
\* mkdir in "/" has made two entries of one name.
THEOREM PwdLeadsBackInShell == ShellSpec /\ []NoShellRemoved => []PwdResolves
<1>1. MInv => PwdResolves
  BY InvPwd DEF MInv
<1>2. QED BY <1>1, MemoryAlways, PTL

\* "ls - shows all files in the current directory": rm of a directory some shell stands
\* in is the only way to a prompt without one.
THEOREM CurrentDirKept == ShellSpec /\ []NoShellRemoved => []CurrentDirExists
<1>1. MInv => CurrentDirExists
  <2>1. SUFFICES ASSUME MInv, Idle, pc = "prompt", current_dir # NULL PROVE current_dir \in DOMAIN node
    BY DEF CurrentDirExists
  <2>2. shells # <<>> /\ shells \in Seq(ShellType) /\ machine = "up"
    BY <2>1 DEF MInv, SInv, AppOK, Idle
  <2>3. Len(shells) \in DOMAIN shells /\ shell = shells[Len(shells)]
    BY <2>2 DEF shell, Last
  <2>4. current_dir \in Linked
    BY <2>1, <2>2, <2>3 DEF MInv, ShellsInTree, current_dir
  <2>5. QED BY <2>1, <2>4, LinkedNodes DEF MInv
<1>2. QED BY <1>1, MemoryAlways, PTL

=============================================================================
