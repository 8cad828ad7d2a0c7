-------------------------------- MODULE Shell --------------------------------
(***************************************************************************)
(* The programs that use the file tree: the login loop of tty.c, shells    *)
(* nested by `sh', the commands that change something, and the two editors.*)
(* All of them run in one thread of control, each as a call of the one     *)
(* before: `shells' is the stack of shell_main calls, `pc' says where the  *)
(* innermost call waits for the keyboard.  Commands that only print (ls,   *)
(* cat, ver, help, calc, ...) change nothing the model keeps.              *)
(*                                                                         *)
(* Pointers to nodes are kept across key strokes: current_dir of every     *)
(* shell, the node rm asks about, the file tinypad is about to write.  A   *)
(* read through a pointer to freed memory ends the model's knowledge: the  *)
(* machine is then "wild".                                                 *)
(***************************************************************************)
EXTENDS FileTree, SequencesExt

CONSTANTS
  Installed,    \* addresses of the nodes of init_fs not yet removed when the run starts
  Paths,        \* operands a user types: whether absolute, and the components
  Modes,        \* first operands of chmod
  Written,      \* what a user writes into files
  UsersFile,    \* contents of /etc/users as installed
  Text,         \* contents of the other files as installed
  MaxShells,    \* bound on the shells nested by `sh'
  StackReuse    \* whether args[1] keeps the operand of the command before

LiveuserId == 1001
RootId == 0

\* A right is given or taken for everybody (octal) or for the others (+ and -).
ModeType ==
  [op : {"="}, rights : [owner : SUBSET AllRights, group : SUBSET AllRights,
                         other : SUBSET AllRights]]
    \cup [op : {"+", "-"}, rights : SUBSET AllRights]

\* What is installed is a tree: a node only with its directory, a file with its data.
ASSUME ShellAssumption ==
  /\ {RootId, LiveuserId} \subseteq Users
  /\ {"bin", "home", "liveuser", "root", "etc", "README.txt", "users", "groups"} \subseteq Names
  /\ {UsersFile, Text} \cup Written \subseteq Contents
  /\ Paths \subseteq [absolute : BOOLEAN, tokens : Seq(Names \cup {".", ".."})]
  /\ NULL \notin Paths
  /\ Modes \subseteq ModeType
  /\ MaxShells \in Nat \ {0}
  /\ StackReuse \in BOOLEAN
  /\ MaxChildren >= 4
  /\ Installed \subseteq {1, 2, 3, 4, 5, 6, 7, 9, 11} \cap Addr
  /\ 1 \in Installed
  /\ 4 \in Installed => 3 \in Installed
  /\ 7 \in Installed => 4 \in Installed
  /\ 9 \in Installed \/ 11 \in Installed => 6 \in Installed
  /\ \A file \in Installed \cap {7, 9, 11} : file + 1 \in Addr

VARIABLES
  shells,    \* the shell_main calls, outermost first: current directory and user
  pc,        \* "login", "prompt", "confirm", "tinypad", "save_as" or "saving"
  target,    \* the node a command holds while it waits: rm's, tinypad's; else NULL
  operand,   \* what args[1] still points at, or NULL
  code       \* the code kernelpanic shows, or ""

appVars == <<shells, pc, target, operand, code>>
vars == <<fsVars, appVars>>

-----------------------------------------------------------------------------
(* init_fs.  Addresses count up in the order of its calls to malloc. *)

InitialNode(type, name, parent, owner, data, children) ==
  [NewNode(type, name, parent, owner) EXCEPT !.data = data, !.children = children]

\* One more child, if it is there.
With(children, c) == IF c \in Installed THEN Append(children, c) ELSE children

InstalledTree ==
  << InitialNode("dir", "/", NULL, RootId, NULL,
                 With(With(With(With(<<>>, 2), 3), 5), 6)),
     InitialNode("dir", "bin", 1, RootId, NULL, <<>>),
     InitialNode("dir", "home", 1, RootId, NULL, With(<<>>, 4)),
     InitialNode("dir", "liveuser", 3, LiveuserId, NULL, With(<<>>, 7)),
     InitialNode("dir", "root", 1, RootId, NULL, <<>>),
     InitialNode("dir", "etc", 1, RootId, NULL, With(With(<<>>, 9), 11)),
     InitialNode("file", "README.txt", 4, LiveuserId, 8, <<>>),
     Text,
     InitialNode("file", "users", 6, RootId, 10, <<>>),
     UsersFile,
     InitialNode("file", "groups", 6, RootId, 12, <<>>),
     Text >>

init_fs ==
  /\ fs_root = 1
  /\ node = [a \in Installed |-> InstalledTree[a]]
  /\ buffer = [a \in {a + 1 : a \in Installed \cap {7, 9, 11}} |-> InstalledTree[a]]
  /\ deleting = <<>>
  /\ leaked = {}
  /\ machine = "up"

ShellInit ==
  /\ init_fs
  /\ shells = <<>>
  /\ pc = "login"
  /\ target = NULL
  /\ operand = NULL
  /\ code = ""

-----------------------------------------------------------------------------
(* Paths and permissions *)

Absolute(tokens) == [absolute |-> TRUE, tokens |-> tokens]
Relative(tokens) == [absolute |-> FALSE, tokens |-> tokens]

shell == Last(shells)
current_dir == shell.current_dir
user_id == shell.user_id

\* fs_resolve goes through current_dir for a relative path, whatever it holds.
Lookup(path) == Resolve(path, current_dir)
ReadsNull(path) ==
  ~path.absolute /\ current_dir = NULL /\ \E i \in DOMAIN path.tokens : path.tokens[i] # "."

Found(path) == ~ReadsNull(path) /\ Lookup(path) \in DOMAIN node
NotFound(path) == ~ReadsNull(path) /\ Lookup(path) = NULL

\* pwd reads every node from n up to one without parent.
PwdReads(n) ==
  LET readable[m \in DOMAIN node] ==
        \/ node[m].parent = NULL
        \/ (node[m].parent \in DOMAIN node /\ readable[node[m].parent])
  IN n = NULL \/ (n \in DOMAIN node /\ readable[n])

-----------------------------------------------------------------------------
(* login *)

\* The accounts parse_users finds: in a text that is no users file, none.
Accounts(bytes) ==
  IF bytes = UsersFile
  THEN {[name |-> "root", id |-> RootId], [name |-> "liveuser", id |-> LiveuserId]}
  ELSE {}

users_node == Resolve(Absolute(<<"etc", "users">>), fs_root)

UsersReadable == users_node # NULL /\ node[users_node].type = "file"

HomeOf(user) ==
  Resolve(IF user.name = "root" THEN Relative(<<"root">>) ELSE Absolute(<<"home", user.name>>),
          fs_root)

Panic(c) ==
  /\ machine' = "halted"
  /\ code' = c
  /\ UNCHANGED <<fs_root, node, buffer, deleting, leaked, shells, pc, target, operand>>

Enter(user) ==
  /\ shells' = Append(shells, [current_dir |-> HomeOf(user), name |-> user.name, user_id |-> user.id])
  /\ pc' = "prompt"
  /\ operand' = NULL
  /\ UNCHANGED <<fsVars, target, code>>

\* /etc/users is read again at every attempt; a wrong name or password is another attempt.
Login ==
  /\ Idle /\ pc = "login"
  /\ UsersReadable
  /\ \E user \in Accounts(IF node[users_node].data = NULL THEN Empty
                          ELSE buffer[node[users_node].data]) : Enter(user)

UsersMissing ==
  /\ Idle /\ pc = "login"
  /\ ~UsersReadable
  /\ Panic("USERS_MISSING")

-----------------------------------------------------------------------------
(* The prompt *)

\* Before every line the prompt prints the current directory.
AtPrompt == Idle /\ pc = "prompt" /\ PwdReads(current_dir)

PromptReadsFreed ==
  /\ Idle /\ pc = "prompt" /\ ~PwdReads(current_dir)
  /\ machine' = "wild"
  /\ UNCHANGED <<fs_root, node, buffer, deleting, leaked, appVars>>

Remember(path) == operand' = IF StackReuse THEN path ELSE NULL

\* split_str sets no entry of args behind the last word.  rm and cd are the
\* shortest names, so what the line before had for an operand is still in
\* the buffer behind them.
Operand(path) ==
  \/ (path \in Paths /\ Remember(path))
  \/ (path = operand /\ UNCHANGED operand)

Forget == operand' = NULL

\* malloc may panic in the middle of a command.
CodeOfMalloc == code' = IF machine' = "halted" THEN "OUT_OF_MEMORY" ELSE code

\* A path is looked up through a pointer that leads to no node.
LookupReadsFreed ==
  \E path \in Paths :
    /\ AtPrompt
    /\ ~Found(path) /\ ~NotFound(path)
    /\ machine' = "wild"
    /\ UNCHANGED <<fs_root, node, buffer, deleting, leaked, appVars>>

cd(path) ==
  /\ AtPrompt
  /\ Operand(path)
  /\ Found(path)
  /\ node[Lookup(path)].type = "dir"
  /\ "x" \in Rights(Lookup(path), user_id)
  /\ shells' = [shells EXCEPT ![Len(shells)].current_dir = Lookup(path)]
  /\ UNCHANGED <<fsVars, pc, target, code>>

\* What is in front of the last '/': for a name in "/" that is nothing at all,
\* and nothing resolves to the current directory.
ParentPath(path) ==
  IF Len(path.tokens) > 1 THEN [path EXCEPT !.tokens = Front(@)] ELSE Relative(<<>>)

\* A path without '/' is not asked whether its parent is a directory.
mkdir(path) ==
  LET parent == Lookup(ParentPath(path))
  IN /\ AtPrompt
     /\ path.tokens # <<>>
     /\ NotFound(path)
     /\ parent \in DOMAIN node
     /\ (path.absolute \/ Len(path.tokens) > 1) => node[parent].type = "dir"
     /\ Add(parent, "dir", Last(path.tokens), user_id)
     /\ Remember(path)
     /\ UNCHANGED <<shells, pc, target, code>>

\* Mutant: the type is not looked at before the question.
RmUnasked(path) ==
  /\ AtPrompt
  /\ Operand(path)
  /\ Found(path)
  /\ RemoveBegin(Lookup(path))
  /\ UNCHANGED <<shells, pc, target, code>>

RmFile(path) ==
  /\ AtPrompt
  /\ Operand(path)
  /\ Found(path)
  /\ node[Lookup(path)].type = "file"
  /\ RemoveBegin(Lookup(path))
  /\ UNCHANGED <<shells, pc, target, code>>

\* A directory is removed only after a question; the node is held meanwhile.
RmAsk(path) ==
  /\ AtPrompt
  /\ Operand(path)
  /\ Found(path)
  /\ node[Lookup(path)].type = "dir"
  /\ target' = Lookup(path)
  /\ pc' = "confirm"
  /\ UNCHANGED <<fsVars, shells, code>>

Back == pc' = "prompt" /\ target' = NULL

\* "/" has no parent, and RemoveBegin refuses it.
RmYes ==
  /\ pc = "confirm"
  /\ RemoveBegin(target)
  /\ Back
  /\ UNCHANGED <<shells, operand, code>>

RmNo ==
  /\ pc = "confirm"
  /\ Back
  /\ UNCHANGED <<fsVars, shells, operand, code>>

Deleting == Delete /\ UNCHANGED appVars

\* An octal mode replaces all the bits; + and - reach the last three only.
Changed(permissions, mode) ==
  IF mode.op = "=" THEN mode.rights
  ELSE IF mode.op = "+" THEN [permissions EXCEPT !.other = @ \cup mode.rights]
  ELSE [permissions EXCEPT !.other = @ \ mode.rights]

chmod(mode, path) ==
  LET n == Lookup(path)
  IN /\ AtPrompt
     /\ Found(path)
     /\ user_id \in {RootId, node[n].owner}
     /\ node' = [node EXCEPT ![n].permissions = Changed(@, mode)]
     /\ Forget
     /\ UNCHANGED <<fs_root, buffer, deleting, leaked, machine, shells, pc, target, code>>

\* A file without data is not written back, malloc(0) being NULL; one whose digits
\* were all erased loses its data.
hexedit(path) ==
  LET n == Lookup(path)
  IN /\ AtPrompt
     /\ Found(path)
     /\ node[n].type = "file"
     /\ "w" \in Rights(n, user_id)
     /\ node[n].data # NULL
     /\ \E bytes \in Written \cup {Empty} : fs_write(n, bytes)
     /\ Remember(path)
     /\ CodeOfMalloc
     /\ UNCHANGED <<shells, pc, target>>

-----------------------------------------------------------------------------
(* Leaving and nesting shells *)

sh ==
  /\ AtPrompt
  /\ Len(shells) < MaxShells
  /\ Enter([name |-> shell.name, id |-> user_id])

Leave(rest) ==
  /\ shells' = rest
  /\ pc' = IF rest = <<>> THEN "login" ELSE "prompt"
  /\ Forget
  /\ UNCHANGED <<fsVars, target, code>>

exit == AtPrompt /\ Leave(Front(shells))

\* EvalResultRecursiveNormalExit: every shell returns without another prompt.
logout == AtPrompt /\ Leave(<<>>)

\* internal_qemu_reboot and internal_qemu_shutdown only return.
reboot == AtPrompt /\ Panic("REBOOT_NOT_SUCCESSFULL")
shutdown == AtPrompt /\ Panic("SHUTDOWN_NOT_SUCCESSFULL")
kptesting == AtPrompt /\ Panic("KERNEL_MAIN_LOOP_EXITED")

-----------------------------------------------------------------------------
(* tinypad *)

GoTo(place) ==
  /\ pc' = place
  /\ Forget
  /\ UNCHANGED <<fsVars, shells, target, code>>

Tinypad == AtPrompt /\ GoTo("tinypad")
TinypadExit == Idle /\ pc = "tinypad" /\ GoTo("prompt")
TinypadSave == Idle /\ pc = "tinypad" /\ GoTo("save_as")

\* resolve_folder starts at "/" whether the path does or not.
Folder(path) == Resolve(Absolute(Front(path.tokens)), fs_root)
File(path) == Step(Folder(path), Last(path.tokens))

\* Mutant: a directory is accepted as the file to write.
SaveExistingAny(path) ==
  /\ Idle /\ pc = "save_as"
  /\ path.tokens # <<>>
  /\ Folder(path) # NULL /\ File(path) # NULL
  /\ target' = File(path)
  /\ pc' = "saving"
  /\ UNCHANGED <<fsVars, shells, operand, code>>

\* The question is asked again until the path leads to a file or to nothing.
SaveExisting(path) ==
  /\ Idle /\ pc = "save_as"
  /\ path.tokens # <<>>
  /\ Folder(path) # NULL /\ File(path) # NULL
  /\ node[File(path)].type = "file"
  /\ target' = File(path)
  /\ pc' = "saving"
  /\ UNCHANGED <<fsVars, shells, operand, code>>

\* The folder may turn out to be a file: then the new node is in no directory.
SaveNew(path) ==
  /\ Idle /\ pc = "save_as"
  /\ path.tokens # <<>>
  /\ Folder(path) # NULL /\ File(path) = NULL
  /\ Add(Folder(path), "file", Last(path.tokens), LiveuserId)
  /\ target' = CHOOSE a \in DOMAIN node' : a \notin DOMAIN node
  /\ pc' = "saving"
  /\ UNCHANGED <<shells, operand, code>>

\* Mutant: the loop goes on after the save.
SavingAgain ==
  /\ pc = "saving"
  /\ \E bytes \in Written \cup {Empty} : fs_write(target, bytes)
  /\ CodeOfMalloc
  /\ UNCHANGED <<shells, pc, target, operand>>

Saving ==
  /\ pc = "saving"
  /\ \E bytes \in Written \cup {Empty} : fs_write(target, bytes)
  /\ Back
  /\ CodeOfMalloc
  /\ UNCHANGED <<shells, operand>>

\* mkdir and tinypad (for a node, or for its own buffer).
OutOfMemory ==
  /\ pc = "save_as" \/ AtPrompt
  /\ CreateOutOfMemory
  /\ CodeOfMalloc
  /\ UNCHANGED <<shells, pc, target, operand>>

-----------------------------------------------------------------------------

Command ==
  \/ \E path \in (Paths \cup {operand}) \ {NULL} : cd(path) \/ RmFile(path) \/ RmAsk(path)
  \/ \E path \in Paths : mkdir(path) \/ hexedit(path)
  \/ \E path \in Paths, mode \in Modes : chmod(mode, path)
  \/ sh \/ exit \/ logout
  \/ reboot \/ shutdown \/ kptesting

Editor ==
  \/ Tinypad \/ TinypadExit \/ TinypadSave
  \/ \E path \in Paths : SaveExisting(path) \/ SaveNew(path)
  \/ Saving

ShellNext ==
  \/ Login \/ UsersMissing
  \/ PromptReadsFreed \/ LookupReadsFreed
  \/ Command
  \/ RmYes \/ RmNo \/ Deleting
  \/ Editor
  \/ OutOfMemory

ShellSpec == ShellInit /\ [][ShellNext]_vars

\* The processor goes on with a command once it has its input.  Nobody has to
\* press a key: the commands, the answers to rm and the editors' lines are not fair.
ShellFairSpec == ShellSpec /\ WF_vars(Deleting) /\ WF_vars(Saving)

-----------------------------------------------------------------------------
(* Invariants *)

Places == {"login", "prompt", "confirm", "tinypad", "save_as", "saving"}

ShellTypeOK ==
  /\ TypeOK
  /\ shells \in Seq([current_dir : Addr \cup {NULL}, name : {"root", "liveuser"},
                     user_id : Users])
  /\ Len(shells) <= MaxShells
  /\ pc \in Places /\ (shells = <<>> <=> pc = "login")
  /\ operand \in Paths \cup {NULL}
  /\ target \in Addr \cup {NULL} /\ (target # NULL <=> pc \in {"confirm", "saving"})

\* rm holds a node while it waits for y or n, tinypad one between finding or
\* creating the file and writing it: the pointer still leads to the node it was
\* taken for, and what tinypad writes to is a file.
HeldNodeLive ==
  machine = "up" =>
    /\ pc = "confirm" => target \in DOMAIN node /\ node[target].type = "dir"
    /\ pc = "saving" => target \in DOMAIN node /\ node[target].type = "file"

\* "/" is never deleted and never gets a parent, from whatever directory, by
\* whatever path and through whatever stale pointer rm is called: every
\* absolute path and every login start there.
RootStays ==
  /\ fs_root \in DOMAIN node \ leaked
  /\ node[fs_root].type = "dir" /\ node[fs_root].parent = NULL

-----------------------------------------------------------------------------
(* Properties of steps *)

\* No directory is deleted that the user was not asked about: the node deleted
\* is the one that was looked up before the question.
DirectoriesAskedFirst ==
  [][deleting = <<>> /\ deleting' # <<>> /\ node[deleting'[1]].type = "dir" =>
       pc = "confirm" /\ target = deleting'[1]]_vars

\* Every command comes back to the keyboard, or the machine stops.
CommandsEnd ==
  (deleting # <<>> \/ pc = "saving") ~>
    ((deleting = <<>> /\ pc # "saving") \/ machine # "up")

-----------------------------------------------------------------------------
(* What the program's own texts say *)

\* "ls - shows all files in the current directory": there is one, at every prompt.
CurrentDirExists ==
  Idle /\ pc = "prompt" /\ current_dir # NULL => current_dir \in DOMAIN node

\* "Directory already exists" is what mkdir says of a name that is taken: two
\* entries of one directory never share a name.
SiblingsDiffer ==
  \A n \in DOMAIN node : \A c, d \in Kids(n) \cap DOMAIN node :
    node[c].name = node[d].name => c = d
=============================================================================
