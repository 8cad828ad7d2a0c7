------------------------------ MODULE FileTree ------------------------------
(***************************************************************************)
(* The file tree of src/drivers/fs: nodes in the kernel heap, each with a  *)
(* pointer to its parent and, for a directory, a fixed array of pointers   *)
(* to its children.                                                        *)
(*                                                                         *)
(* The heap is reduced to a set of addresses: an address holds a node, or  *)
(* a file's data, or is free; malloc gives out a free address and stops    *)
(* the machine when there is none (module Heap says which and why).        *)
(* `node' and `buffer' are partial functions on the addresses in use, so   *)
(* that reading through a pointer to freed memory has no value.  fs_delete *)
(* is recursive and is modelled call by call: `deleting' is the stack of   *)
(* its arguments.  Callers pass pointers to nodes that are in the tree;    *)
(* module Shell has the callers.                                           *)
(*                                                                         *)
(* An operator marked "Mutant" is no part of the specification: it is what *)
(* the definition below it would be after a plausible slip in the code.    *)
(***************************************************************************)
EXTENDS Integers, Sequences

CONSTANTS
  Addr,         \* addresses malloc can return
  Names,        \* names callers give to files and directories: none that fs_resolve finds
                \* by itself, since callers look the path up first
  Users,        \* owners' ids
  Contents,     \* data callers write, apart from none at all
  NULL,
  Empty,        \* no data: size 0
  MallocMay(_), \* the addresses malloc may return when those of a set are free
  MaxChildren   \* length of the array `children' (64)

ASSUME FileTreeAssumption ==
  /\ NULL \notin Addr
  /\ {".", ".."} \cap Names = {}
  /\ Empty \notin Contents
  /\ \A free \in SUBSET Addr : MallocMay(free) \subseteq free
  /\ MaxChildren \in Nat \ {0}

VARIABLES
  fs_root,   \* emulated_fs_root; NULL until emulated_fs_init
  node,      \* partial function: address -> the node allocated there
  buffer,    \* partial function: address -> the file data allocated there
  deleting,  \* arguments of the fs_delete calls in progress, outermost first
  leaked,    \* history: nodes in use that were created for a parent that is not a directory
  machine    \* "up", "halted" (kernelpanic) or "wild" (memory overwritten)

fsVars == <<fs_root, node, buffer, deleting, leaked, machine>>

-----------------------------------------------------------------------------
(* Memory *)

FreeAddr == Addr \ (DOMAIN node \cup DOMAIN buffer)

Store(f, a, v) == [x \in DOMAIN f \cup {a} |-> IF x = a THEN v ELSE f[x]]
Drop(f, a) == [x \in DOMAIN f \ {a} |-> f[x]]

-----------------------------------------------------------------------------
(* Nodes *)

AllRights == {"r", "w", "x"}

\* 0777 without the bits of DEFAULT_UMASK.
DefaultPermissions ==
  [owner |-> AllRights, group |-> {"r", "x"}, other |-> {"r", "x"}]

NewNode(type, name, parent, owner) ==
  [type |-> type, name |-> name, parent |-> parent, owner |-> owner,
   permissions |-> DefaultPermissions, data |-> NULL, children |-> <<>>]

Kids(n) == {node[n].children[i] : i \in DOMAIN node[n].children}

Idle == machine = "up" /\ deleting = <<>>

\* The first child of that name; no child of a file.
FindIn(dir, name) ==
  LET hits == {i \in DOMAIN node[dir].children :
                 node[node[dir].children[i]].name = name}
  IN IF node[dir].type # "dir" \/ hits = {} THEN NULL
     ELSE node[dir].children[CHOOSE i \in hits : \A j \in hits : i <= j]

\* Mutant: "/" is not asked for its parent first.
StepAboveRoot(current, token) ==
  IF current \notin DOMAIN node \/ token = "." THEN current
  ELSE IF token # ".." THEN FindIn(current, token)
  ELSE node[current].parent

\* One component of a path.  "/" is the only node without a parent.  A pointer
\* that leads to no node, NULL among them, leads no further.
Step(current, token) ==
  IF current \notin DOMAIN node \/ token = "." THEN current
  ELSE IF token # ".." THEN FindIn(current, token)
  ELSE IF node[current].parent # NULL THEN node[current].parent
  ELSE current

\* GET_PERMS as it is always called: the group bits are never looked at.
Rights(n, id) ==
  IF node[n].owner = id THEN node[n].permissions.owner ELSE node[n].permissions.other

\* A path is whether it starts with '/', and its components without the empty ones.
Resolve(path, current_dir) ==
  LET walk[i \in 0 .. Len(path.tokens)] ==
        IF i = 0 THEN IF path.absolute THEN fs_root ELSE current_dir
        ELSE Step(walk[i - 1], path.tokens[i])
  IN walk[Len(path.tokens)]

-----------------------------------------------------------------------------

Init ==
  /\ fs_root = NULL
  /\ node = [a \in {} |-> NewNode("dir", "/", NULL, 0)]
  /\ buffer = [a \in {} |-> Empty]
  /\ deleting = <<>>
  /\ leaked = {}
  /\ machine = "up"

emulated_fs_init ==
  /\ Idle
  /\ fs_root = NULL
  /\ \E a \in MallocMay(FreeAddr) :
       /\ fs_root' = a
       /\ node' = Store(node, a, NewNode("dir", "/", NULL, 0))
  /\ UNCHANGED <<buffer, deleting, leaked, machine>>

\* Mutant: the last child fills the gap.
WithoutBySwap(h, dir, child) ==
  LET s == h[dir].children
      hits == {i \in DOMAIN s : s[i] = child}
      first == CHOOSE i \in hits : \A j \in hits : i <= j
  IN IF hits = {} THEN s
     ELSE [i \in 1 .. Len(s) - 1 |-> IF i = first THEN s[Len(s)] ELSE s[i]]

\* Mutant: the child's name is looked up instead of its address.
WithoutNamesake(h, dir, child) ==
  LET s == h[dir].children
      hits == {i \in DOMAIN s : h[s[i]].name = h[child].name}
      first == CHOOSE i \in hits : \A j \in hits : i <= j
  IN IF hits = {} THEN s
     ELSE [i \in 1 .. Len(s) - 1 |-> IF i < first THEN s[i] ELSE s[i + 1]]

\* The children of dir when the first occurrence of child is shifted out.
Without(h, dir, child) ==
  LET s == h[dir].children
      hits == {i \in DOMAIN s : s[i] = child}
      first == CHOOSE i \in hits : \A j \in hits : i <= j
  IN IF hits = {} THEN s
     ELSE [i \in 1 .. Len(s) - 1 |-> IF i < first THEN s[i] ELSE s[i + 1]]

\* Mutant: the child is left in the array.
NoRemoveChild(h, parent, child) == h

fs_remove_child(h, parent, child) ==
  IF parent = NULL \/ h[parent].type # "dir" THEN h
  ELSE [h EXCEPT ![parent].children = Without(h, parent, child)]

-----------------------------------------------------------------------------
(* Creating and writing *)

fs_add_child(h, dir, child) ==
  [h EXCEPT ![dir].children = Append(@, child), ![child].parent = dir]

\* create_dir_node or create_file_node, then add_child: the pair every caller makes.
Create(a, type, name, dir, owner) ==
  /\ Idle
  /\ a \in MallocMay(FreeAddr)
  /\ node[dir].type = "dir"
  /\ Len(node[dir].children) < MaxChildren
  /\ node' = fs_add_child(Store(node, a, NewNode(type, name, dir, owner)), dir, a)
  /\ UNCHANGED <<fs_root, buffer, deleting, leaked, machine>>

\* add_child returns without a word when its first argument is a file.
CreateUnderFile(a, type, name, file, owner) ==
  /\ Idle
  /\ a \in MallocMay(FreeAddr)
  /\ node[file].type = "file"
  /\ node' = Store(node, a, NewNode(type, name, file, owner))
  /\ leaked' = leaked \cup {a}
  /\ UNCHANGED <<fs_root, buffer, deleting, machine>>

\* add_child does not check its index: the entry behind the array is child_count.
CreateBeyondArray(a, type, name, dir, owner) ==
  /\ Idle
  /\ a \in MallocMay(FreeAddr)
  /\ node[dir].type = "dir"
  /\ Len(node[dir].children) = MaxChildren
  /\ node' = Store(node, a, NewNode(type, name, dir, owner))
  /\ machine' = "wild"
  /\ UNCHANGED <<fs_root, buffer, deleting, leaked>>

\* No address left for a node: malloc panics.
CreateOutOfMemory ==
  /\ Idle
  /\ FreeAddr = {}
  /\ machine' = "halted"
  /\ UNCHANGED <<fs_root, node, buffer, deleting, leaked>>

\* The old data is freed before malloc is asked for the new.
Kept(file) ==
  IF node[file].data # NULL THEN Drop(buffer, node[file].data) ELSE buffer

\* fs_write of size 0: malloc(0) is NULL.
Erase(file) ==
  /\ Idle
  /\ node[file].type = "file"
  /\ buffer' = Kept(file)
  /\ node' = [node EXCEPT ![file].data = NULL]
  /\ UNCHANGED <<fs_root, deleting, leaked, machine>>

Write(a, file, bytes) ==
  /\ Idle
  /\ node[file].type = "file"
  /\ a \in MallocMay(Addr \ (DOMAIN node \cup DOMAIN Kept(file)))
  /\ buffer' = Store(Kept(file), a, bytes)
  /\ node' = [node EXCEPT ![file].data = a]
  /\ UNCHANGED <<fs_root, deleting, leaked, machine>>

\* The file's old data is already freed when malloc panics.
WriteOutOfMemory(file) ==
  /\ Idle
  /\ node[file].type = "file"
  /\ Addr \ (DOMAIN node \cup DOMAIN Kept(file)) = {}
  /\ buffer' = Kept(file)
  /\ machine' = "halted"
  /\ UNCHANGED <<fs_root, node, deleting, leaked>>

-----------------------------------------------------------------------------
(* Deleting *)

\* Mutant: the caller leaves it to fs_delete to take n out of the array.
RemoveBeginLinked(n) ==
  /\ Idle
  /\ node[n].parent # NULL
  /\ deleting' = <<n>>
  /\ UNCHANGED <<fs_root, node, buffer, leaked, machine>>

\* Mutant: nobody asks whether there is a parent.
RemoveBeginAny(n) ==
  /\ Idle
  /\ node' = fs_remove_child(node, node[n].parent, n)
  /\ deleting' = <<n>>
  /\ UNCHANGED <<fs_root, buffer, leaked, machine>>

\* The caller takes n out of its parent's array, then calls fs_delete.
RemoveBegin(n) ==
  /\ Idle
  /\ node[n].parent # NULL
  /\ node' = fs_remove_child(node, node[n].parent, n)
  /\ deleting' = <<n>>
  /\ UNCHANGED <<fs_root, buffer, leaked, machine>>

Top == deleting[Len(deleting)]

\* The `while (child_count > 0)' of fs_delete: call it for the first child.
DeleteDescend ==
  /\ machine = "up" /\ deleting # <<>>
  /\ node[Top].type = "dir" /\ node[Top].children # <<>>
  /\ deleting' = Append(deleting, node[Top].children[1])
  /\ UNCHANGED <<fs_root, node, buffer, leaked, machine>>

\* Mutant: the data of a file is not freed with it.
BufferKept(n) == buffer

\* emulated_fs_delete frees a file's data with the file.
BufferWithout(n) ==
  IF node[n].data # NULL THEN Drop(buffer, node[n].data) ELSE buffer

\* Mutant: nothing seems left to do for a file without data.
DeleteFinishSkipsEmpty ==
  /\ machine = "up" /\ deleting # <<>>
  /\ ~(node[Top].type = "dir" /\ node[Top].children # <<>>)
  /\ IF node[Top].type = "file" /\ node[Top].data = NULL THEN UNCHANGED <<node, buffer>>
     ELSE /\ node' = Drop(fs_remove_child(node, node[Top].parent, Top), Top)
          /\ buffer' = BufferWithout(Top)
  /\ deleting' = SubSeq(deleting, 1, Len(deleting) - 1)
  /\ UNCHANGED <<fs_root, leaked, machine>>

\* Nothing below any more: out of the parent's array, free, return.
DeleteFinish ==
  /\ machine = "up" /\ deleting # <<>>
  /\ ~(node[Top].type = "dir" /\ node[Top].children # <<>>)
  /\ node' = Drop(fs_remove_child(node, node[Top].parent, Top), Top)
  /\ buffer' = BufferWithout(Top)
  /\ deleting' = SubSeq(deleting, 1, Len(deleting) - 1)
  /\ leaked' = leaked \ {Top}
  /\ UNCHANGED <<fs_root, machine>>

-----------------------------------------------------------------------------
(* The tree that callers see: what can be reached from "/". *)

Reach(r) ==
  {n \in DOMAIN node :
     \A S \in SUBSET DOMAIN node :
       (r \in S /\ \A m \in S : Kids(m) \cap DOMAIN node \subseteq S) => n \in S}

Linked == IF fs_root = NULL THEN {} ELSE Reach(fs_root)

\* shc_pwd: the names from "/" down to n, gathered along the parents.
PathOf(n) ==
  LET up[m \in Linked] ==
        IF node[m].parent = NULL THEN <<>> ELSE Append(up[node[m].parent], node[m].name)
  IN [absolute |-> TRUE, tokens |-> up[n]]

Delete == DeleteDescend \/ DeleteFinish

Add(dir, type, name, owner) ==
  \E a \in Addr : \/ Create(a, type, name, dir, owner)
                  \/ CreateUnderFile(a, type, name, dir, owner)
                  \/ CreateBeyondArray(a, type, name, dir, owner)

fs_write(file, bytes) ==
  \/ bytes = Empty /\ Erase(file)
  \/ bytes # Empty /\ \E a \in Addr : Write(a, file, bytes)
  \/ bytes # Empty /\ WriteOutOfMemory(file)

Next ==
  \/ emulated_fs_init
  \/ \E dir \in Linked, type \in {"file", "dir"}, name \in Names, owner \in Users :
       Add(dir, type, name, owner)
  \/ CreateOutOfMemory
  \/ \E file \in Linked, bytes \in Contents \cup {Empty} : fs_write(file, bytes)
  \/ \E n \in Linked : RemoveBegin(n)
  \/ Delete

Spec == Init /\ [][Next]_fsVars

-----------------------------------------------------------------------------
(* Invariants *)

Doomed == IF deleting = <<>> THEN {} ELSE Reach(deleting[1])

NodeType == [type : {"file", "dir"}, name : Names \cup {"/"},
             parent : Addr \cup {NULL}, owner : Users \cup {0},
             permissions : [owner : SUBSET AllRights, group : SUBSET AllRights,
                            other : SUBSET AllRights],
             data : Addr \cup {NULL}, children : Seq(Addr)]

TypeOK ==
  /\ fs_root \in DOMAIN node \cup {NULL}
  /\ DOMAIN node \subseteq Addr
  /\ node \in [DOMAIN node -> NodeType]
  /\ DOMAIN buffer \subseteq Addr \ DOMAIN node
  /\ buffer \in [DOMAIN buffer -> Contents]
  /\ deleting \in Seq(DOMAIN node)
  /\ leaked \subseteq DOMAIN node
  /\ machine \in {"up", "halted", "wild"}

\* The two directions of the tree agree: a pointer in a children array leads
\* to a node in use that points back to the directory, and appears once.
\* fs_delete's loop relies on it: it ends because each child takes itself out
\* of the array it was found in.
LinksAgree ==
  \A n \in DOMAIN node :
    /\ Len(node[n].children) <= MaxChildren
    /\ node[n].type = "file" => node[n].children = <<>>
    /\ node[n].type = "dir" => node[n].data = NULL
    /\ \A i \in DOMAIN node[n].children :
         LET c == node[n].children[i]
         IN /\ c \in DOMAIN node \ ({fs_root} \cup leaked)
            /\ node[c].parent = n
            /\ \A j \in DOMAIN node[n].children :
                 node[n].children[j] = c => i = j

\* The stack of fs_delete is a path from the detached subtree's root down,
\* always along first children, and never through the tree callers see.
DeletionPath ==
  /\ Linked \cap Doomed = {}
  /\ \A i \in 2 .. Len(deleting) :
       LET above == node[deleting[i - 1]]
       IN above.children # <<>> /\ above.children[1] = deleting[i]
  /\ deleting # <<>> =>
       /\ node[deleting[1]].parent \in Linked
       /\ \A n \in DOMAIN node : deleting[1] \notin Kids(n)

\* Memory is accounted for: a node in use is in the tree, waits to be deleted,
\* or was never linked; a buffer in use belongs to exactly one file.
NothingLost ==
  /\ machine = "up" => DOMAIN node = Linked \cup Doomed \cup leaked
  /\ machine = "up" => DOMAIN buffer = {node[n].data : n \in DOMAIN node} \ {NULL}
  /\ \A m, n \in DOMAIN node : node[m].data = node[n].data /\ node[m].data # NULL => m = n

\* What pwd prints leads back to where it was asked, and ".." from there to the
\* parent, from any current directory, as long as no two siblings share a name:
\* pwd reads the parent pointers, fs_resolve the children arrays.
PwdResolves ==
  (\A n \in Linked : \A c, d \in Kids(n) : node[c].name = node[d].name => c = d) =>
    \A n, cwd \in Linked :
      LET path == PathOf(n)
          up == [path EXCEPT !.tokens = Append(@, "..")]
      IN /\ Resolve(path, cwd) = n
         /\ Resolve(up, cwd) = IF n = fs_root THEN n ELSE node[n].parent

-----------------------------------------------------------------------------
(* Properties of steps *)

\* ls shows a directory's entries in the order they were created, and removing
\* one does not disturb the others: the shift in fs_remove_child loses no pointer
\* and swaps none.
OrderKept ==
  [][\A n \in Linked \cap Linked' :
       LET old == node[n].children
           new == node'[n].children
       IN /\ \A i, j \in DOMAIN old, k, l \in DOMAIN new :
               i < j /\ old[i] = new[k] /\ old[j] = new[l] => k < l
          /\ \A k \in DOMAIN new : k < Len(new) => \E i \in DOMAIN old : old[i] = new[k]]_fsVars

\* fs_delete gets somewhere with every turn: it frees the node it is at and goes
\* back up, or goes down to one it is not in the middle of already.  So its loop
\* and its recursion end, with all of the subtree given back.
DeleteAdvances ==
  [][deleting # <<>> =>
       LET n == deleting[Len(deleting)]
       IN \/ /\ deleting' = SubSeq(deleting, 1, Len(deleting) - 1)
             /\ DOMAIN node' = DOMAIN node \ {n}
          \/ \E c \in DOMAIN node :
               /\ deleting' = Append(deleting, c)
               /\ \A i \in DOMAIN deleting : deleting[i] # c]_fsVars

-----------------------------------------------------------------------------
(* The promise of filesystem.h *)

Bytes(n) == IF node[n].data = NULL THEN Empty ELSE buffer[node[n].data]

Shown(n) ==
  [type |-> node[n].type, name |-> node[n].name, parent |-> node[n].parent,
   owner |-> node[n].owner, bytes |-> Bytes(n)]

Promise == INSTANCE NameTree WITH
  entries <- [n \in IF machine = "up" THEN Linked ELSE {} |-> Shown(n)],
  root <- fs_root,
  up <- (machine = "up")

\* FileTree implements NameTree: deleting node by node looks like one step.
ImplementsNameTree == Promise!Spec
=============================================================================
