------------------------------ MODULE Syscall -------------------------------
(***************************************************************************)
(* src/exec: file descriptors, kept in a linked list that only grows, and  *)
(* handle_syscall, which opens, reads and writes through them.  Nothing in *)
(* the kernel calls handle_syscall yet; its callers are any of Callers, in *)
(* any order, while the file tree changes underneath as module FileTree    *)
(* lets it and chmod changes permissions.                                  *)
(*                                                                         *)
(* A descriptor holds a bare pointer to its node.  Once the node is freed, *)
(* a call that follows the pointer reads freed memory (machine = "wild"),  *)
(* or whatever node has been allocated there since.  Descriptors are never *)
(* freed, so their blocks are kept apart from the others as Cells.         *)
(***************************************************************************)
EXTENDS FileTree, SequencesExt

CONSTANTS
  Cells,      \* blocks malloc has for descriptors
  Callers,    \* who calls: user and process
  Served,     \* for whom the kernel makes descriptors without a file
  Ids,        \* descriptor numbers callers pass
  Paths,      \* paths callers open: whether absolute, and the components
  Rooms,      \* sizes of the buffers callers read into
  Modes,      \* permissions chmod sets
  NoAnswer,   \* the step before was no system call
  Function    \* what a descriptor without a file leads to

ASSUME SyscallAssumption ==
  /\ NULL \notin Cells /\ Function \notin Addr
  /\ Ids \subseteq Nat /\ Rooms \subseteq Nat
  /\ Paths \subseteq [absolute : BOOLEAN, tokens : Seq(Names \cup {".", ".."})]
  /\ Modes \subseteq [owner : SUBSET AllRights, group : SUBSET AllRights, other : SUBSET AllRights]
  /\ Empty = <<>>
  /\ \A bytes \in Contents : bytes \in Seq({bytes[i] : i \in DOMAIN bytes})

VARIABLES
  first_fd,    \* head of the list, or NULL
  fds,         \* partial function: cell -> the file_descriptor in it
  id_counter,  \* number of the next descriptor
  answer       \* what the last step returned to its caller

fdVars == <<first_fd, fds, id_counter>>
vars == <<fsVars, fdVars, answer>>

-----------------------------------------------------------------------------
(* The list of descriptors *)

get_fd_from_id(id) ==
  LET from[fd \in DOMAIN fds] ==
        IF fds[fd].id = id THEN fd
        ELSE IF fds[fd].next = NULL THEN NULL ELSE from[fds[fd].next]
  IN IF first_fd = NULL THEN NULL ELSE from[first_fd]

ListEnd ==
  LET behind[fd \in DOMAIN fds] ==
        IF fds[fd].next = NULL THEN fd ELSE behind[fds[fd].next]
  IN behind[first_fd]

\* Mutant: the new descriptor is hung behind the first one.
NextOfFirst(fd, cell) == IF fd = first_fd THEN cell ELSE fds[fd].next

\* The pointer to a new descriptor: in first_fd, or in the last of the list.
NextOf(fd, cell) == IF first_fd # NULL /\ fd = ListEnd THEN cell ELSE fds[fd].next

\* create_new_fsnode_fd and create_new_iofunc_fd differ in `to'.
Create_fd(cell, to, opener) ==
  /\ fds' = [fd \in DOMAIN fds \cup {cell} |->
               IF fd = cell
               THEN [id |-> id_counter, to |-> to, opener |-> opener, next |-> NULL]
               ELSE [fds[fd] EXCEPT !.next = NextOf(fd, cell)]]
  /\ first_fd' = IF first_fd = NULL THEN cell ELSE first_fd
  /\ id_counter' = id_counter + 1

FreeCells == Cells \ DOMAIN fds

\* malloc gives any of them; nothing tells them apart.
NewCell == CHOOSE cell \in FreeCells : TRUE

-----------------------------------------------------------------------------
(* handle_syscall *)

Answer(call, caller, id, errs) ==
  [call |-> call, caller |-> caller, id |-> id, errs |-> errs,
   rax |-> 0, bytes |-> <<>>, room |-> 0]

Ready == Idle /\ fs_root # NULL

\* A path that is not absolute starts at "/" as well.
Opened(path) == Resolve(path, fs_root)

OpenMissing(caller, path) ==
  /\ Ready
  /\ Opened(path) = NULL
  /\ answer' = Answer("open", caller, 0, "FILE_NOT_FOUND")
  /\ UNCHANGED <<fsVars, fdVars>>

\* No right is asked for, and a directory is opened like a file.
Open(caller, path) ==
  /\ Ready
  /\ Opened(path) # NULL
  /\ FreeCells # {}
  /\ Create_fd(NewCell, Opened(path), caller)
  /\ answer' = [Answer("open", caller, 0, "OK") EXCEPT !.rax = id_counter]
  /\ UNCHANGED fsVars

\* malloc panics: create_new_fsnode_fd never returns NULL.
OpenOutOfMemory(path) ==
  /\ Ready
  /\ Opened(path) # NULL
  /\ FreeCells = {}
  /\ machine' = "halted"
  /\ answer' = NoAnswer
  /\ UNCHANGED <<fs_root, node, buffer, deleting, leaked, fdVars>>

Target(id) == fds[get_fd_from_id(id)].to
Found(id) == get_fd_from_id(id) # NULL
Own(id, caller) == Found(id) /\ fds[get_fd_from_id(id)].opener = caller
InUse(id, caller) == Own(id, caller) /\ Target(id) \in DOMAIN node

\* Mutant: having opened the file is enough.
AllowedByOpening(id, caller) == InUse(id, caller)

\* Reading asks for the bit of writing, like writing.
Allowed(id, caller) == InUse(id, caller) /\ "w" \in Rights(Target(id), caller.user)

\* The checks that reading and writing make, in their order.
Refusal(id, caller, errs) ==
  \/ ~Found(id) /\ errs = "FD_NOT_FOUND"
  \/ Found(id) /\ ~Own(id, caller) /\ errs = "PERMISSION_DENIED"
  \/ InUse(id, caller) /\ ~Allowed(id, caller) /\ errs = "PERMISSION_DENIED"
  \/ Allowed(id, caller) /\ node[Target(id)].type # "file" /\ errs = "ILLEGAL_MODE"

Refused(call, caller, id) ==
  /\ Ready
  /\ \E errs \in {"FD_NOT_FOUND", "PERMISSION_DENIED", "ILLEGAL_MODE"} :
       /\ Refusal(id, caller, errs)
       /\ answer' = Answer(call, caller, id, errs)
  /\ UNCHANGED <<fsVars, fdVars>>

Usable(id, caller) == Ready /\ Allowed(id, caller) /\ node[Target(id)].type = "file"

\* The node was freed and nothing was allocated in its place.
ReadsFreed(caller, id) ==
  /\ Ready
  /\ Own(id, caller) /\ Target(id) # Function /\ ~InUse(id, caller)
  /\ machine' = "wild"
  /\ answer' = NoAnswer
  /\ UNCHANGED <<fs_root, node, buffer, deleting, leaked, fdVars>>

\* fs_read: as many bytes as leave room for a 0.
Copied(bytes, room) ==
  SubSeq(bytes, 1, IF Len(bytes) < room THEN Len(bytes) ELSE room - 1)

Read(caller, id, room) ==
  /\ Usable(id, caller)
  /\ LET bytes == Bytes(Target(id))
         got == IF bytes = <<>> THEN <<>> ELSE Copied(bytes, room)
     IN /\ bytes # <<>> => room > 0
        /\ answer' = [Answer("read", caller, id, "OK") EXCEPT
                        !.rax = Len(got), !.bytes = got, !.room = room]
  /\ UNCHANGED <<fsVars, fdVars>>

\* With no room at all, room - 1 is 2^32 - 1 bytes.
ReadBeyond(caller, id) ==
  /\ Usable(id, caller)
  /\ Bytes(Target(id)) # <<>>
  /\ machine' = "wild"
  /\ answer' = NoAnswer
  /\ UNCHANGED <<fs_root, node, buffer, deleting, leaked, fdVars>>

Write_fd(caller, id, bytes) ==
  /\ Usable(id, caller)
  /\ fs_write(Target(id), bytes)
  /\ answer' = IF machine' = "halted" THEN NoAnswer
               ELSE [Answer("write", caller, id, "OK") EXCEPT !.bytes = bytes]
  /\ UNCHANGED fdVars

\* A descriptor without a file: the function decides what a read returns, no
\* right is asked for, and what a write returns is dropped.
CallFunction(call, caller, id) ==
  /\ Ready
  /\ Own(id, caller) /\ Target(id) = Function
  /\ \E returned \in {0, 1} :
       answer' = [Answer(call, caller, id, "OK") EXCEPT
                    !.rax = IF call = "read" THEN returned ELSE 0]
  /\ UNCHANGED <<fsVars, fdVars>>

OtherNumber(caller) ==
  /\ Ready
  /\ answer' = Answer("other", caller, 0, "ILLEGAL_OPERATION")
  /\ UNCHANGED <<fsVars, fdVars>>

handle_syscall(caller) ==
  \/ \E path \in Paths :
       OpenMissing(caller, path) \/ Open(caller, path) \/ OpenOutOfMemory(path)
  \/ \E id \in Ids :
       \/ \E call \in {"read", "write"} : Refused(call, caller, id) \/ CallFunction(call, caller, id)
       \/ ReadsFreed(caller, id)
       \/ \E room \in Rooms : Read(caller, id, room)
       \/ 0 \in Rooms /\ ReadBeyond(caller, id)
       \/ \E bytes \in Contents \cup {Empty} : Write_fd(caller, id, bytes)
  \/ OtherNumber(caller)

-----------------------------------------------------------------------------
(* The rest of the kernel *)

create_new_iofunc_fd(opener) ==
  /\ Ready
  /\ FreeCells # {}
  /\ Create_fd(NewCell, Function, opener)
  /\ answer' = NoAnswer
  /\ UNCHANGED fsVars

chmod(n, permissions) ==
  /\ Idle
  /\ node' = [node EXCEPT ![n].permissions = permissions]
  /\ answer' = NoAnswer
  /\ UNCHANGED <<fs_root, buffer, deleting, leaked, machine, fdVars>>

TreeStep == Next /\ answer' = NoAnswer /\ UNCHANGED fdVars

SyscallInit ==
  /\ Init
  /\ first_fd = NULL
  /\ fds = [cell \in {} |-> NULL]
  /\ id_counter = 1
  /\ answer = NoAnswer

SyscallNext ==
  \/ \E caller \in Callers : handle_syscall(caller)
  \/ \E caller \in Served : create_new_iofunc_fd(caller)
  \/ \E n \in Linked, permissions \in Modes : chmod(n, permissions)
  \/ TreeStep

SyscallSpec == SyscallInit /\ [][SyscallNext]_vars

-----------------------------------------------------------------------------
(* Properties *)

Touched(n) ==
  /\ n \in DOMAIN node \cap DOMAIN node'
  /\ \/ Bytes(n)' # Bytes(n)
     \/ answer'.call = "read" /\ answer'.bytes # <<>> /\ Target(answer'.id) = n

\* A call changes or shows a file's bytes only to one who may write it at that
\* moment: a right that chmod took back after open is gone for the descriptors
\* opened before, and one whose node was freed and replaced by another user's
\* gives its opener nothing of the new node's that the new owner does not.
RightsAskedAtUse ==
  [][\A n \in Addr :
       answer' # NoAnswer /\ Touched(n) =>
         node[n].type = "file" /\ "w" \in Rights(n, answer'.caller.user)]_vars

\* The descriptors in the order of the list.
Table ==
  LET from[fd \in DOMAIN fds] ==
        <<[to |-> fds[fd].to, opener |-> fds[fd].opener]>>
          \o (IF fds[fd].next = NULL THEN <<>> ELSE from[fds[fd].next])
  IN IF first_fd = NULL THEN <<>> ELSE from[first_fd]

Promised == INSTANCE Descriptors WITH
  table <- Table,
  files <- [n \in IF machine = "up" THEN DOMAIN node ELSE {} |-> Bytes(n)]

\* The list implements the table: no descriptor is lost, changed or numbered
\* twice, a number leads to what was opened under it, and a read fits its buffer.
ImplementsDescriptors == Promised!Spec
=============================================================================
