# AurorOS in TLA+

AurorOS is a small kernel for i386 and x86_64.  It boots from multiboot, sets up its
descriptor tables and remaps the interrupt controller, makes a heap in a static pool and a
bitmap of physical pages, fills a file tree that lives in memory, and then runs one terminal
for ever: login, shell, commands, two editors.

Three facts about the whole shape every model below:

* **One thread of control.**  Every line of the interrupt controller is masked at boot and the
  keyboard is polled.  No two pieces of code interleave, except with the keyboard controller.
* **Everything hangs together by bare pointers.**  Nodes, data, current directories and file
  handles are addresses in one heap; nothing counts references.  The hard behaviours are long
  sequences of legal calls after which a pointer leads somewhere else.
* **Nothing is persistent and errors stop the machine.**  `kernelpanic` never returns.  There
  is no restart to recover from.

Paths are relative to the root of the repository, as in `src/drivers/misc/memory.c`; headers
are under `include/`.  Names in the modules are the names in the code wherever there is one.

## Contents

| Modules | What they model | Proofs |
|---|---|---|
| `Heap`, `MCHeap`; abstract: `Allocator` | `init_memory_heap`, `malloc`, `free` | `HeapProofs` |
| `FileTree`, `MCFileTree`; abstract: `NameTree` | the file tree, `fs_delete` call by call | `FileTreeProofs` |
| `Shell`, `MCShell`, on top of `FileTree` | login, nested shells, commands, editors | `ShellProofs` |
| `PhysMem`; `Boot`, `MCBoot`, on top of it | both entries, interrupt controllers and gates, the memory map, the page bitmap, runs of pages | `PhysMemProofs`, `BootProofs` |
| `LineInput`, `KeyCodes`, `MCLineInput`, on top of `Screen`; abstract: `LineEditor` | keyboard, `read_str`, `read_yn`, what is on the screen | `LineInputProofs` |
| `Syscall`, `MCSyscall`, on top of `FileTree`; abstract: `Descriptors` | file descriptors, `handle_syscall` | `SyscallProofs` |
| `Programs`, `MCPrograms`, on top of `StrReplace`, `UsersFile`, `HexEdit`, `Calculator`, `Number` | `str_replace`, `parse_users`, hexedit, the calculator, division and `utoa`, the exception handler | `ProgramsProofs` |

Operators whose comment begins with `Mutant` belong to no specification.  Each stands in front
of the definition it varies and says what that definition would be after a plausible slip in
the code; with it in place of the original, the property named beside it in `PROJECT.json` is
violated.  They are how we know that a property notices something.

## Inventory

| Component | State | Operations | Used by | Hard behaviour | What makes it correct |
|---|---|---|---|---|---|
| Kernel heap, `drivers/misc/memory.c:3-75` | block headers inside `memory_pool` | `init_memory_heap`, `malloc`, `free` | file tree, editors, panic screen | a doubly linked list edited in place; slack; running out panics | list well formed and coalesced, callers never share a byte, nothing that fits is refused, the search ends |
| Physical pages, `drivers/misc/memory.c:76-290` | bitmap, bump region | `physmem_init_from_multiboot`, `phys_alloc_contiguous`, `phys_free_contiguous`, `early_phys_alloc` | boot only, so far | the bitmap lies in the memory it describes; a loop that moves its own variable; 0 is an address and an error | runs never overlap and are usable memory; refused only when nothing fits |
| File tree, `drivers/fs/` | nodes, their data, `emulated_fs_root` | create, `fs_add_child`, `fs_write`, `fs_resolve`, `fs_remove_child`, `fs_delete` | shell, commands, editors, login, system calls | two redundant directions of the tree; recursion that relies on its callee to end; ownership of data | the directions agree, no cycles, nothing lost, nothing freed is reachable |
| Login and shells, `apps/terminal/tty.c`, `apps/shell/` | stack of `shell_main` calls, `current_dir`, `args` | login, `sh`, `exit`, `logout`, `cd`, `mkdir`, `rm`, `chmod`, ... | - | pointers kept over a question or over other commands; stale `args` | no command acts on another node than the one it looked up; every command comes back |
| Editors, `apps/tinypad`, `apps/hexedit` | the file found or created, then written | start, save, exit | shell | look-up and write are apart | what is written is a file in the tree |
| Keyboard, `drivers/keyboard/input.c` | `key_states`, shift flags, the line | `read_str`, `read_yn` | everything interactive | codes queue while nobody reads, repeat, and get lost; state outlives the call | each key acts once, in order, with the shift it was struck with |
| Screen, `drivers/vga/screen.c`, `lib/msg.c` | cells and cursor | print, delete, scroll, clear | everything | scrolling in the middle of an edit | the cursor stays on the screen, it shows the line, deleted text is gone |
| File descriptors and system calls, `exec/` | list of descriptors, next number | open, read, write | nothing yet | descriptors outlive nodes, and rights change after open | a number leads to what was opened under it; rights are those of the moment; reads fit |
| Boot, `arch/*/init`, `main/main.c` | what the loader passed, stage, interrupt flag | entry, `idt_init`, `init_memory`, `init_fs`, `sti` | - | two builds; values kept in assembly and tested in C | nothing starts without the loader's structure; interrupts stay off until masked |
| Descriptor tables and controllers, `arch/*/idt`, `pic`, `arch/x86_common/interrupts` | gates, masks, vectors | fill, remap, mask, end of interrupt, exceptions | boot | initialising unmasks; vectors are agreed on in four places | each line reaches its own stub (it does not on the 32-bit build); the exception path ends in a panic |
| Numbers and calculator, `lib/number.c`, `lib/conversions.c`, `apps/calc` | none between calls | `udiv64`, `umod64`, `utoa`, `str_to_int64`, the form | calc, printing | width, sign, zero, two builds | quotient and digits are right at the edges |
| Users table, `apps/terminal/tty.c:8-89` | the table, kept between parses | `parse_users`, `find_user` | login | lines cut short, too many groups, bytes of an earlier parse | complete lines are read as written, whatever was parsed before |
| Strings, `lib/string.c` | none | `str_replace`, and short loops | everything | two loops that must agree | the result is the replacement and fits its room |
| Hexadecimal dump, `apps/hexedit` | the line | print, edit at the end, parse, save | shell | the user edits freely; lengths of 16 bits | bytes in front of the edit are kept |
| Ports, speaker, power, panic screen | - | - | - | - | plain input and output; where they decide something (power, panic) they are in `Shell` and `Boot` |

`PROJECT.json` lists the components with their sources, and every hazard with its line and the
properties that would notice it.

How they interact: `Shell` calls the file tree directly (EXTENDS, one step of the shell is one
step of the tree); the file tree calls `malloc` and `free`, which it sees through what
`Allocator` promises: an address that nobody holds, or a stop.  The programs read every line
through `read_str`; `Shell` takes the line it returns as given, and `LineInput` is about
how it comes to be.  `Boot` runs up to `main`, where `Shell` starts, and goes on with requests for
pages, which share nothing with the heap.  `Syscall` runs on the same file tree as `Shell`, whose
steps it sees as those of `FileTree` and `chmod`.  The programs in `Programs` work on text that
`Shell` treats as opaque; the calculator's divide error reaches the exception handler, which uses
`str_replace` and `malloc`.

## The modules

### Heap

`hdr` is a partial function from the offset of a block to its header, so following a pointer
to a header that was merged away has no value and TLC reports it.  `malloc` is a loop and is one
step per turn (`MallocCall`, then `MallocAdvance`, `MallocTake` or `MallocPanic`), so that
`ScanInv` can say what it knows of the blocks it passed.  `free` has no loop and is one step.
`live`, what callers hold, is the only history.  Callers free what they hold and nothing else.

`Allocator` is what `memory.h` promises: pieces inside the pool that never overlap; a request
that is not served stops the machine.  `ImplementsAllocator` maps the occupied blocks to it.

### FileTree

`node` and `buffer` are partial functions on the addresses in use; an address in neither is
free.  `deleting` is the stack of `fs_delete` calls: `DeleteDescend` is one turn of its loop,
`DeleteFinish` what it does when no child is left, return included.  Creating a node and adding
it to its parent are one step because every caller does both; `Create`, `CreateUnderFile` and
`CreateBeyondArray` are what becomes of it when the parent is a directory with room, a
file, or full.  In the last case the code writes over the count behind the array and the model
stops (`machine = "wild"`).  A failing `malloc` stops with `machine = "halted"`, after
whatever the caller had done before.

`NameTree` is a tree in which one call changes one thing at once.  `ImplementsNameTree` shows
that `fs_delete`, node by node, is one step of it: the first.

### Shell

`shells` is the stack of `shell_main` calls, `pc` where the innermost waits for a key.  Three
kinds of pointer outlive a key stroke: `current_dir` of each shell, `target` (rm's node during
the question, tinypad's between finding and writing) and `operand` (what `args[1]` still points
at).  A command is one step, except that `fs_delete` runs as its own steps and that `rm` of a
directory and saving are split where the code waits.  A read through a pointer to memory in no
use makes the machine `wild`, and that is where the model ends.  Panics end in
`halted`, with their text in `code`.

`init_fs` is the initial state.  Addresses in it count up in the order of its calls to `malloc`;
`Installed` says which of them are still there.

Abstractions: names are opaque, a path is whether it is absolute and its components; the text of
a file is one of a few values, of which one is the installed users file and yields its
accounts; passwords are not kept (a wrong one is another attempt); an operand left over is
modelled for `rm` and `cd` only, the shortest names; `eval` runs another line and adds no state;
tinypad's own buffer takes no address.

### PhysMem

The bitmap is a set of pages.  Boot is one step, from the memory map to the bitmap, its place
and the bump region.  `phys_alloc_contiguous` is one step per turn of its outer loop, with its
inner count as an operator, since the property to doubt is that skipping is sound.
`Long` cuts numbers to `unsigned long`, of which the code's page mask is one.  `held` is what
callers hold; address 0 is a failure to them although its pages are marked.

### Boot

`BootInit` chooses the build, what the loader passed and the masks the firmware left.  Each entry
keeps its registers (`mb`), tests them, programs the two controllers with one step per byte that
`outb` writes, fills the gates, reads the memory map and makes the tree.  A controller is an 8259
and external: a command byte with bit 4 starts an initialisation, which clears the mask, and three
data bytes belong to it.  `gate` maps a vector to the stub entered there,
`Isr(n)` of an exception or `Irq(n)` of a line.  On the 64-bit build the map is read through the
magic number, so any map, or none, may come out of it.

No interrupt is taken in the model: every line is masked before interrupts are on
(`MaskedWhenEnabled`), so the end of interrupt in `isr_handler` is left out.  Its exceptions are in
`Programs`.

Segment and page tables and the switches of mode are left out: they are constants.  The panics
`FS_BROKEN` and `PROTECTED_MODE_REQUIRED` cannot be reached.

### Syscall

`fds` is a partial function from cells to descriptors, `next` pointers included, and
`get_fd_from_id` walks it.  `answer` is what the last call returned and `NoAnswer` after any step
that is no call, so that a property can tell a call's effect from the rest of the kernel's.  The
rest is `FileTree`'s `Next` (whatever the shell may do to the tree) and `chmod`.  A descriptor
whose node was freed either leads to memory in no use (`ReadsFreed`: the machine is `wild`) or to
the node that has its address now; the model has both.

Nothing calls `handle_syscall` yet.  Callers are pairs of user and process that pass any number,
any path and any size; the checks are in the code's order, and reading asks for the bit of
writing, as the code does.  Descriptors are never freed, so their blocks are kept apart from those
of the tree, as `Cells`.

`Descriptors` is what a caller may count on: a table that only grows, files touched only through a
descriptor of one's own, reads that leave room for a 0.  `ImplementsDescriptors` maps the list, in
its order, to the table.

### Programs

Four programs that run to their end with nobody else to interfere, one behaviour for each:
`StrReplace` (count, ask for room, copy, a character per step), `UsersFile` (the automaton of
`parse_users` on a table that keeps the bytes of the parse before), `HexEdit` (print, edit at the
end of the line, parse, save) and `Calculator` over `Number` (division bit by bit on the 32-bit
build, the processor's on the other, `utoa` digit by digit, words that wrap).  `Programs` puts them
at a keyboard and adds the exception handler, which a division by zero reaches on the 64-bit
build.

The model stops (`parse = "wild"`) at a group character behind the last group of an entry.  A cell
nobody has written holds `Unknown`.

### LineInput and Screen

`Screen` has the operations of `screen.c` as functions from screen to screen, so a handler that
prints three things is a composition.  `LineInput` adds the keyboard and one step for each code
`read_str` polls.  The keyboard is outside the source and modelled from how `input.c` uses it:
a code when a key goes down, more of them while it is held, one when it goes up, a queue of
bounded length, what does not fit is lost.  `missed` remembers the keys whose last change was.

`LineEditor` is what a user expects: a key acts when it is struck, once, with the shift of that
moment, whether anybody reads at that time or not.  `ImplementsLineEditor` maps the queue of
codes to the strokes they will turn out to be (`Ahead`).

Left out: colours, the hardware cursor, prefix bytes (0xE0), `printint`.

## What is checked

Times are for two workers.

| Run | Module | Bounds | States | Shows |
|---|---|---|---|---|
| `heap` | `MCHeap` | 16 bytes, header of 2, requests of 1, 2, 3, 5 | 104045, 12 s | the list, the callers, the panic, the account of bytes, refinement to `Allocator`, and that `malloc` ends |
| `heap_exhausted` | `MCHeap` | 14 bytes | - | finding: panic with nothing allocated |
| `tree` | `MCFileTree` | 5 addresses, 2 names, 2 contents, 3 children at most, symmetric addresses | 30806, 35 s | the two directions agree, nothing lost, `pwd` and `..` agree, deletion advances and refines one step |
| `shell` | `MCShell` | 2 shells, 6 addresses, 3 paths, chmod, stale operands | 1877402, 139 s | held pointers and the tree stay sound around dangling current directories; every command ends |
| `shell_cwd`, `shell_siblings` | `MCShell` | 1 or 2 shells | - | findings, below |
| `boot` | `MCBoot` | 2 builds, 3 masks for each controller, 6 maps of up to 10 pages of 4 bytes, 4 sizes, 4 alignments | 96841, 8 s | interrupts on only with every line masked; runs of pages disjoint, usable, refused only when nothing fits; the scan ends |
| `boot_magic` | `MCBoot` | as above, one size | - | finding: main without the loader's structure |
| `boot_lines` | `MCBoot` | as `boot`, one size | - | finding: eight lines lead to the stubs of exceptions |
| `input` | `MCLineInput` | a 2x2 screen, letter, enter, backspace, one shift key | 373386, 31 s | the line is what the keys said; the screen shows it and nothing deleted; enter ends the call |
| `syscall` | `MCSyscall` | 3 descriptors, 2 callers, 3 addresses, 1 name, files of two bytes | 381419, 100 s | refinement to `Descriptors`; rights are those of the moment |
| `programs` | `MCPrograms` | strings of up to 5 characters, texts of up to 3 lines, 2 parses, files of up to 6 bytes, 2 edits, 5-bit words | 1292244, 75 s | results equal their reference definitions, every loop ends |

Deadlock is checked in `input`.  In the others the machine may stop for good: after a panic, a
wild read or an overwritten counter, and in `programs` when the bounds on parses, edits and sums
are used up.

`TypeOK` of each module (`ShellTypeOK`) states the types of its variables.  It is no property of
a run: it is what the proofs start from, and part of every inductive invariant below.

### Why the bounds are enough

* **Heap.**  Headers of 2 bytes and requests of 1 to 5 give every case of the split test: a rest
  of nothing, too small for a header, a header and no byte, and more.  16 bytes hold up to five
  blocks, so merges happen with the previous, the next, both and neither, at both ends and in the
  middle.  The theorems remove the bound.
* **Tree.**  Five addresses are "/" with two levels of directories and a file with its data below it,
  or "/" with four children: `MaxChildren = 3` lets the array fill up and overflow, and two
  names make namesakes possible.
* **Shell.**  The runs start from the installed tree, `shell` and `shell_cwd` after `rm` of the
  directories no path of the run names (`bin`, `root`, README.txt, groups): a state the program
  reaches.  `malloc` returns the lowest free address, which is first fit when all nodes are of one
  size, so freed addresses are reused at once: the case in which a stale pointer finds something
  else.  Two shells are one to remove a directory and one to sit in it.  The paths are a name that
  need not exist, `..` and the users file; `..` with a name reaches every directory.  `StackReuse`
  turns operands left over from the line before on, and is off in the runs about other findings.
* **Boot and PhysMem.**  `BiosMasks` are none, all and some lines.  The maps are: a hole between regions; a region that starts inside a page; no
  region with room for the bitmap; one too small to be followed by a bump region; memory at 0;
  no usable memory.  `LongRange` is wide enough for every map; the narrow case is a hazard listed
  without a property.
* **Syscall.**  Three descriptors make a list with a first, a middle and a last; numbers 1 and 3 are
  passed, of which 3 is unknown until late.  Three addresses are "/", a file and its bytes; with
  `MaxChildren = 1` a second file needs the first to go, so its address is reused by a node of the
  same or the other user.  Buffers of 0, 2 and 3 bytes for a file of two are: the size that
  underflows, one byte too few and just enough.  `chmod` takes the owner's right to write.
* **Programs.**  `what` of up to three characters from two letters overlaps itself in every way a
  string of five allows, and the empty one is there.  Two users, two groups and names of two
  characters make every limit of the table reachable within a line; lines come without an end, cut
  short, with an empty group, a 0 byte in a name, a fifth field and too many groups; two parses show
  what the first leaves for the second.  Hexadecimal digits are binary ones (`Radix = 2`) and lengths go up
  to 15 (`LengthRange = 16`), so a file of six bytes is longer than a length can say.  Words of five bits
  have a least number, -16, and the numbers typed include those that do not fit.
* **Input.**  Four cells make every second character scroll.  `MaxCodes`, `MaxDown` and
  `MaxMissed` bound the queue, the keys held and those whose last change was lost; two codes are
  enough for one to be lost while another waits, and two keys for a shift with a letter.

### Fairness

There is one thread of control and nothing to take the processor away.  So what has started goes
on: weak fairness of `Scan` (the loop of `malloc`), `Walk` (that of `phys_alloc_contiguous`),
`Poll` (a code that waits is read by the `read_str` that runs), `Deleting` and `Saving`, and
`Processor` (the next step of the program that runs in `Programs`).  No
fairness is assumed of users, of callers, or of the keyboard.

### What disagrees with the program's own texts

Five runs each check one statement that the code makes of itself, in a message, help text or
comment, and find it violated.  `PROJECT.json` quotes the statements.

| Run | Statement | What happens |
|---|---|---|
| `heap_exhausted` | the panic says there is not enough memory | `malloc` writes the request into the size of a block it does not split; the slack is gone for good, and in the end a request that used to fit panics with nothing allocated |
| `shell_cwd` | `ls` shows the files in the current directory | `rm` of that directory, or one above, leaves the shell with a pointer to freed memory |
| `shell_siblings` | "Directory already exists" | `mkdir /d` elsewhere than in `/` tests `/` and creates in the current directory, twice if asked twice |
| `boot_magic` | "MB_STRUCT_NOT_AVAILABLE", "GRUB2 multiboot2 header required" | the 64-bit entry keeps eax, the magic number, instead of ebx; the test never fires and the memory map is read through the number |
| `boot_lines` | "IRQ mapped to IDT 32+" | the 32-bit build passes 0x1f, of which the controller keeps the upper five bits: lines 0 to 7 come at vectors 24 to 31, whose stubs end in `CPU_EXCEPTION`; it has no effect while every line is masked |

Three more are in the model and have no run: `rm` alone may remove the file the line before named,
since `args` keeps it (`Operand`), where it should say "Missing operand"; tinypad says "File saved
successfully." of a file written under another file, which is in no directory (`CreateUnderFile`);
and `reboot` always ends in the panic `REBOOT_NOT_SUCCESSFULL`.

## What is proved

TLAPS checks every proof to the last leaf.  A theorem is about every value of the constants that
satisfies the assumptions in the module that declares them: pools, trees, screens, files, words and
lists of any size, where a run has a small one.  Theorems are stated of the specification the run of
that module uses; where that includes fairness, the proof does not need it.

| Module | Invariants | Steps | Refinement |
|---|---|---|---|
| `HeapProofs` | `ListWellFormed`, `Coalesced`, `OwnersMatchBlocks`, `PanicJustified`, `PayloadsDisjoint`, `AllFreeMeansOneBlock` | `FirstFit`, `OwnersUndisturbed`, `BytesConserved` | `Heap` implements `Allocator` |
| `PhysMemProofs`, `BootProofs` | `HeldDisjoint`, `OnlyUsableHeld`, `WalkInv`, `MaskedWhenEnabled`; where every line leads (`LinesEnterStubs`) | `FailOnlyWhenFull`, `MarksFollowOwners` | |
| `FileTreeProofs` | `LinksAgree`, `DeletionPath`, `NothingLost`, `PwdResolves` | `OrderKept`, `DeleteAdvances` | `FileTree` implements `NameTree` |
| `ShellProofs` | `ShellTypeOK`, `LinksAgree`, `HeldNodeLive`, `RootStays`; while no shell stands in what `rm` removes: `CurrentDirExists`, `NothingLost`, `DeletionPath`, `PwdResolves` | `DirectoriesAskedFirst` | |
| `SyscallProofs` | `CallInv` | `RightsAskedAtUse` | `Syscall` implements `Descriptors` |
| `LineInputProofs` | `TypeOK`, `BlankBehind`, `LineOnScreen`, `KeyStatesFollow` | | `LineInput` implements `LineEditor` |
| `ProgramsProofs` | `DivInv`, `ShownRight`, `PrefixKept`, `ReplaceInv`, `UsersFollowText` | | |

`PROJECT.json` names the theorem for each.  The rest of this section is the argument of each module.

### Induction without induction

The provers at hand cannot instantiate a theorem that takes a predicate, so the induction theorems of
the library are out of reach.  What replaces them:

* a set of numbers that is not empty has a least member (`LeastNumber`, from `WFMin`, which takes a
  relation): a counterexample to a statement about numbers has a first one, and the step before it
  is not one;
* `Upwards` and `AlongExists` say the same for a property given as a set and for a function given by
  its value at 0 and by its step, so that a recursive function is known to exist and to satisfy its own
  equation;
* what is reachable is defined by closed sets, so a fact about all of it is shown with one such set.

### HeapProofs

Assumed (`HeapAssumption`): a header has a size, the pool is larger than one, requests are not zero.

None of the properties is inductive alone: that a merge keeps the list right
needs the links in both directions, that it leaves no free neighbours needs that there were none
before, and that `malloc` returns the first fit needs what its loop knows.  `IInv` is their
conjunction: types, `ListWellFormed`, `Coalesced`, `OwnersMatchBlocks`, `ScanInv` and
`PanicJustified`.

`free` merges twice, and the list between the two merges is not a state of the specification.
So `WF(h)` restates list correctness of a header function `h` instead of the variable.
`AbsorbWF`, `PlacedWF` and `TouchWF` show that a merge, a split and a change of a block's `free`
flag or size keep it; `MergeNextLemma`, `MergePrevLemma` and `TakeLemma` add what happens to
`Coalesced` and to the occupied blocks; `FreeLemma` puts the merges together.  Then there is one
lemma per action (`StepCall`, `StepTake`, `StepFree`, ...), and the rest is propositional.
Disjointness follows from the list being in address order; that it is one block when nothing is
allocated, from coalescing: the head's neighbour would be free as well.

For `BytesConserved` the bytes are counted as a set, the union of what the blocks stand for.  Blocks of
a well-formed list are disjoint, so one block more adds its header and its size (`RoomAdd`); a merge
and a split then only move bytes from one block to another, and a block taken whole leaves out less
than would make a block.

### PhysMemProofs and BootProofs

Assumed: pages have a size, sizes asked for are not zero.  `OnlyUsableHeld` is proved for maps whose
addresses a `long` can hold with a page to spare (`Wide`); on others the code's rounding loses bits,
which is a hazard listed without a property.

`IInv` adds to the types and `HeldDisjoint` that what is free or handed out was free at boot
(`FreeSinceBoot`), that no run is empty, that size and place of the bitmap are the map's, and
`WalkInv`: no start the walk has passed begins a run that would do.  When a run is too short the loop
moves its own variable past it and past the used page behind it; that this jumps
over no run is `WalkInv`'s step, and `FailOnlyWhenFull` is `WalkInv` at the end of the walk.

`Boot` runs the same steps, except that on the 64-bit build any map or none may be read; the lemmas
are about `AnyNext`, which allows that, and serve both specifications.  `PicInv` says what each
controller takes the next byte for, as a function of how many of the twelve bytes are written
(`Expects`, `Told`), and which bytes are still to come; that the masks end at 255 follows for any masks
the firmware left.  So do the vectors: `LinesEnterStubs` says for each line and build which stub it
leads to, the eight lines of the finding `boot_lines` included.

### FileTreeProofs

Assumed (`FileTreeAssumption`): `malloc` returns free addresses, arrays have room for a child, and
nobody creates a node named "." or "..", which `ShellProofs` shows of `mkdir` and of tinypad
(`MkdirName` and the lemmas about paths): those they find.

The lemmas of the first part are about any graph in which nobody has two parents: what is reached
from a node when a child is added (`FromGrown`), when a leaf is taken away (`FromShrunk`), when a node is cut
off (`FromCut`), and that two nodes that are nobody's children reach nothing in common (`FromApart`).
`IInv` is types, `LinksAgree`, `RootInv`, `DeletionPath`, `StackInv` and `NothingLost`: the links are
needed for the tree to be a tree, that it is one for the deleted part to be apart from the rest, and
that it is apart for nothing to be freed twice.  Each action has a lemma about the links near it
(`CreateLocal`, `FinishLocal`, ...), which needs nothing of what is reachable, and one about the rest.

The refinement maps the nodes that can be reached.  `RemoveBegin` takes the node and all below it away
at once (`DoomedIsBelow`), and every later step of `fs_delete` touches nothing that is seen.

`PwdResolves`: every node of the tree can be led to from "/" along parents, in one way only
(`AllLed`, `LedOnce`); so what `pwd` gathers exists and is the names on that way, and `fs_resolve`,
taking one name at a time, is at each node of it in turn when no two siblings share a name.

### ShellProofs

Assumed (`ShellAssumption`): what `init_fs` installs, or what is left of it, is a tree that begins at
"/"; paths are made of names, "." and "..".

Here `NothingLost` and what else depends on reachability is false, not just unproved: a stale
`current_dir` may by now be any node, also one that is in no directory, and `mkdir` adds to it.  It
takes three shells: one stands in a directory, one in a directory below it, and the third removes both
and creates a file, which gets the outer one's address.  Then `mkdir d` in the outer makes a directory
under that file, at the address of the inner, and `mkdir d` in the inner a node nobody can
reach.  `SInv` keeps what survives this: types, `LinksAgree`, the chain of the nodes `fs_delete` is
at, that the root stays, and that a held node is live.  The steps of the tree come from the local lemmas
of `FileTreeProofs`.  `DirectoriesAskedFirst` follows from where each command starts a deletion.

The second part is about behaviours in which no shell ever stands in the subtree that `rm` is taking
out (`ShellSpec /\ []NoShellRemoved`).  This is a condition on what users do, that most
behaviours meet; the run `shell_cwd` shows what happens without it.  Then `MInv` is
inductive: `SInv`, `FileTree`'s own `IInv`, every current directory in the tree, and the directory `rm`
asks about too.  From a directory of the tree every operand resolves into the tree (`LookupLinked`), so
each command is a step the lemmas of `FileTreeProofs` are about; and a step takes
nothing out of the tree but what it is about to delete (`TreeKept`), so the assumption is all that
current directories need to stay in it (`ShellsStay`).  It follows that `CurrentDirExists` holds,
that no memory is lost and that `pwd` can be trusted: a removed current directory is the only cause of
that finding, and without it the programs use the tree as `FileTree` expects.

### SyscallProofs

Assumed (`SyscallAssumption`): kinds of address are distinct, contents are sequences of bytes.

`CallInv` is the tree's `IInv` and that the descriptors are a list: a sequence of cells without
repetition, the cell in place i having number i.  Three recursive functions run along it: to a number,
to its end, and over all of it to the table of `Descriptors`.  What each finds is shown from the end
of the list backwards.  A step of the tree or `chmod` leaves list and table alone; a call changes the
list at its end, or a file, or nothing.

### LineInputProofs

Assumed (`LineInputAssumption`, `ScreenAssumption`): only Enter's key gives a newline, no text to start
from contains one, buffers have room for a terminator, the screen has a cell.

A string is printed character by character, so each fact about the screen is shown of one character
and then along the string.  `BlankFrom` is inductive only together with the types of screen and
cursor.  `LineOnScreen` is restated by index, as where each character of the line stands (`Shows`);
scrolling moves line and cursor alike, and a line longer than the screen is shown as far as it is still
there.  `KeyStatesFollow` is inductive with the types alone: it says of each key what the codes under way will
turn its state into.

The refinement maps the line, and the strokes the codes under way will turn out to be, which is a
recursive function over the queue; `AfterSent` says what one code more does to it and `AfterPolled`
that polling takes the first stroke from it.

### ProgramsProofs

Assumed: words have a bit, files and strings are sequences, a radix is not 0, and a name has
`NameSize > 1` cells, one for a character and one for its terminator.

* `DivInv`.  After each bit, quotient and remainder are those of the bits looked at so far, and the
  remainder is less than the divisor.  Powers of 2 are a recursive function (`Power`), of which only
  the step is needed.
* `ShownRight`.  The value still to be converted, and the digits so far, make up the magnitude: there
  is a function along the digits, each value ten times the one before it and the digit, from one to the other.
  Words wrap; that the result is right when everything fits (`Fits`) is the cases of the four signs.
* `PrefixKept`.  The line in front of the shortest it has been is what was printed, and byte b stands
  at 3b in it; so each byte the parser takes there is the file's.
* `ReplaceInv`.  The occurrences taken are the set that scanning from the left finds
  (`GreedyExists`).  Counting and copying step through the same places (`Boundary`), so the
  characters written up to each of them are what the count will have asked room for.
* `UsersFollowText`.  What a text says is stated without a pass over it: piece n stands between the cut
  with n - 1 cuts in front of it and the next one.  `PiecesGrow` says what one character more does to
  the pieces (a separator begins a new one, any other character makes the last longer), and
  `PiecesOfStart` that the pieces of a beginning are those of the whole, but for the last, which may go on.
  With these `UsersInv` is inductive: the entries filled say what the lines behind the pass say, and
  the entry in hand what has been read of its line up to the field the pass is in (`EntryFilling`, for the
  list of groups `GroupsFilling`).  A name in hand has no terminator yet: its cells hold the characters
  kept (`Filling`), and it reads as the name only when it is ended (`NameEnds`).  This is why nothing of an
  earlier parse can show, and why a line that is cut short promises nothing.  There is a lemma for
  each action (`ColonRead`, `CommaRead`, `GroupCharRead`, ...).  At the end of the text or of the table
  the lines read are the first of the whole text's; when the pass is about to leave the table the
  line it is in has one group too many, however it goes on (`TooMany`).

### Only model-checked

* Liveness: `MallocEnds`, that walks, commands and programs end, that Enter ends a call.  It
  depends on fairness, which the prover does not handle.
* The five findings, which are counterexamples.


## What is not modelled, and what the list of hazards leaves out

* Overflows whose effect is undefined: names of 32 characters and more, paths of more than 255 in
  `pwd`, the ninth group of a user, the 65th child, a read into a buffer of size 0.  The model
  stops at the last three; the others concern lengths, which it does not have.
* `free(node->children)` in the deletion of a directory: the address is that of an array inside the
  node, and what `free` takes for a block header is the node's own fields.  On i386 that comes to
  nothing; on x86_64 a link of it is the owner.  `DeleteFinish` leaves the call out, and what is shown of
  deletion holds as far as it does nothing.
* Interrupts.  All lines are masked (`MaskedWhenEnabled`).  Of the exceptions, the divide error of
  the calculator is modelled; any other is a fault in what is modelled, or an interrupt that cannot
  be masked.  None strikes inside `malloc` or `free`.
* What the calculator should answer for a negative operand of "/" or a divisor of 0.  What it does is in
  the model; `ShownRight` leaves these lines out, and `DivInv` says what the loop makes of 0.
* Segment and page tables, the switches of processor mode, colours, the hardware cursor, the
  speaker: constants and plain output.
* The short loops of `lib/string.c` other than `str_replace`: what their callers depend on is in
  the models of the callers.
* Seen while reading and left out because nothing depends on them: `malloc_aligned` and the bump allocator have no callers after boot; the bump region overlaps
  pages the bitmap calls free; `chmod +rwx` reaches the rights of
  others only; `init_fs` gives a length of 23 to a shorter text; the bitmap is unaligned in the
  last-resort place; `fs_delete` recurses as deep as the tree; a missing home leaves
  `current_dir` NULL (this one is in `Shell`).

## Plan

Built: everything in the table of contents, with a theorem for every invariant, action property and
refinement the runs check.  What is left is tidying: the lemmas on numbers are repeated in four proof
modules.
