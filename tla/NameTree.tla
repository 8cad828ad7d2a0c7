------------------------------ MODULE NameTree ------------------------------
(***************************************************************************)
(* What filesystem.h promises its callers, with nothing said about heap    *)
(* addresses of child arrays, half-deleted subtrees or memory: a tree of   *)
(* named files and directories in which one call links one new entry,      *)
(* replaces one file's bytes, or takes away one entry with all that is     *)
(* below it, at once.  Names need not be unique: nothing in the file tree  *)
(* checks that.  When the machine stops, the tree is gone with it.         *)
(*                                                                         *)
(* FileTree is shown to implement this specification.                      *)
(***************************************************************************)
EXTENDS Integers

CONSTANTS
  Addr,      \* identities of entries
  Names,
  Users,
  Contents,  \* what a file can hold, apart from nothing
  NULL,
  Empty      \* the contents of a file nothing was written to

VARIABLES
  entries,   \* partial function: identity -> the entry
  root,      \* identity of "/", NULL before there is one
  up         \* the machine still runs

vars == <<entries, root, up>>

Entry(type, name, parent, owner, bytes) ==
  [type |-> type, name |-> name, parent |-> parent, owner |-> owner, bytes |-> bytes]

With(n, e) == [m \in DOMAIN entries \cup {n} |-> IF m = n THEN e ELSE entries[m]]

\* n and every entry whose chain of parents leads to n.
Below(n) ==
  {m \in DOMAIN entries :
     \A S \in SUBSET DOMAIN entries :
       (n \in S /\ \A k \in DOMAIN entries : entries[k].parent \in S => k \in S) => m \in S}

Init ==
  /\ entries = [n \in {} |-> Entry("dir", "/", NULL, 0, Empty)]
  /\ root = NULL
  /\ up = TRUE

Mount(n) ==
  /\ root = NULL
  /\ root' = n
  /\ entries' = With(n, Entry("dir", "/", NULL, 0, Empty))
  /\ UNCHANGED up

Link(n, type, name, dir, owner) ==
  /\ entries[dir].type = "dir"
  /\ entries' = With(n, Entry(type, name, dir, owner, Empty))
  /\ UNCHANGED <<root, up>>

Replace(n, bytes) ==
  /\ entries[n].type = "file"
  /\ entries' = [entries EXCEPT ![n].bytes = bytes]
  /\ UNCHANGED <<root, up>>

Prune(n) ==
  /\ n # root
  /\ entries' = [m \in DOMAIN entries \ Below(n) |-> entries[m]]
  /\ UNCHANGED <<root, up>>

Stop ==
  /\ up' = FALSE
  /\ entries' = [n \in {} |-> Entry("dir", "/", NULL, 0, Empty)]
  /\ UNCHANGED root

Next ==
  /\ up
  /\ \/ \E n \in Addr : Mount(n)
     \/ \E n \in Addr \ DOMAIN entries, type \in {"file", "dir"}, name \in Names,
           dir \in DOMAIN entries, owner \in Users : Link(n, type, name, dir, owner)
     \/ \E n \in DOMAIN entries, bytes \in Contents \cup {Empty} : Replace(n, bytes)
     \/ \E n \in DOMAIN entries : Prune(n)
     \/ Stop

Spec == Init /\ [][Next]_vars
=============================================================================
