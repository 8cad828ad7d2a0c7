-------------------------------- MODULE Boot --------------------------------
(***************************************************************************)
(* From the boot loader to main: src/arch/x86 and src/arch/x86_64.  The    *)
(* entry code keeps the multiboot information, idt_init programs the two   *)
(* interrupt controllers and fills the descriptor table, init_memory reads *)
(* the memory map, init_fs makes the tree (Shell's initial state), and the *)
(* 32-bit build switches interrupts on.  Pages are asked for from then on. *)
(*                                                                         *)
(* The controllers are 8259s; what they do with the bytes written to their *)
(* ports is external to the repository.                                    *)
(***************************************************************************)
EXTENDS PhysMem

CONSTANT BiosMasks   \* interrupt masks the firmware may leave behind

ASSUME BootAssumption == BiosMasks \subseteq 0 .. 255

VARIABLES
  build,       \* "x86" or "x86_64"
  ebx,         \* what the loader passes: "info", the address of its structure, or "none"
  mb,          \* arch_x86_multiboot_mb, or multiboot_ptr: "none", "info" or "magic"
  stage,       \* how far boot has come; "error" and "panic" are final
  pic,         \* the controllers, 1 and 2: vector of line 0, mask, initialisation word expected
  writes,      \* bytes pic_remap has still to write
  gate,        \* vectors of the descriptor table -> stub entered there
  interrupts   \* the interrupt flag of the processor

bootVars == <<build, ebx, mb, stage, pic, writes, gate, interrupts>>
allVars == <<vars, bootVars>>

\* The loader enters with its magic number in eax and interrupts off.
BootInit ==
  /\ Init
  /\ build \in {"x86", "x86_64"}
  /\ ebx \in {"info", "none"}
  /\ mb = "none"
  /\ stage = "entry"
  /\ pic \in [{1, 2} -> {[base |-> 8, mask |-> m, icw |-> 0] : m \in BiosMasks}]
  /\ writes = <<>>
  /\ gate = [v \in {} |-> 0]
  /\ interrupts = FALSE

-----------------------------------------------------------------------------
(* The entry code *)

\* ebx is pushed as mb, eax as magic, and both are looked at.
arch_x86_start ==
  /\ stage = "entry" /\ build = "x86"
  /\ mb' = ebx
  /\ interrupts' = FALSE
  /\ stage' = IF ebx = "none" THEN "panic" ELSE "idt_init"
  /\ UNCHANGED <<vars, build, ebx, pic, writes, gate>>

\* eax is kept as multiboot_ptr; it holds the magic number, which is not 0.
arch_x86_64_start ==
  /\ stage = "entry" /\ build = "x86_64"
  /\ mb' = "magic"
  /\ stage' \in {"set_mb", "error"}   \* no cpuid or no long mode
  /\ UNCHANGED <<vars, build, ebx, pic, writes, gate, interrupts>>

arch_x86_64_set_mb ==
  /\ stage = "set_mb"
  /\ stage' = IF mb = "none" THEN "panic" ELSE "idt_init"
  /\ UNCHANGED <<vars, build, ebx, mb, pic, writes, gate, interrupts>>

-----------------------------------------------------------------------------
(* pic_remap *)

Command(p, byte) == [pic |-> p, data |-> FALSE, byte |-> byte]
Data(p, byte) == [pic |-> p, data |-> TRUE, byte |-> byte]

Initialise(offset1, offset2) ==
  << Command(1, 17), Command(2, 17), Data(1, offset1), Data(2, offset2),
     Data(1, 4), Data(2, 2), Data(1, 1), Data(2, 1) >>

\* Mutant: the lines stay masked as the firmware left them.
pic_remap_restores(offset1, offset2) ==
  Initialise(offset1, offset2) \o <<Data(1, pic[1].mask), Data(2, pic[2].mask)>>

pic_remap(offset1, offset2) ==
  Initialise(offset1, offset2)
    \o <<Data(1, pic[1].mask), Data(2, pic[2].mask), Data(1, 255), Data(2, 255)>>

IdtInit ==
  /\ stage = "idt_init"
  /\ writes' = IF build = "x86" THEN pic_remap(31, 40) ELSE pic_remap(32, 40)
  /\ stage' = "pic_remap"
  /\ UNCHANGED <<vars, build, ebx, mb, pic, gate, interrupts>>

\* The command byte with bit 4 begins an initialisation, which clears the mask;
\* three words follow at the data port, the first of them the vector of line 0,
\* of which the lowest three bits are the controller's own.
Written(controller, w) ==
  IF ~w.data /\ (w.byte \div 16) % 2 = 1 THEN [controller EXCEPT !.mask = 0, !.icw = 2]
  ELSE IF w.data /\ controller.icw = 2
  THEN [controller EXCEPT !.base = w.byte - (w.byte % 8), !.icw = 3]
  ELSE IF w.data /\ controller.icw \in {3, 4} THEN [controller EXCEPT !.icw = (@ + 1) % 5]
  ELSE IF w.data THEN [controller EXCEPT !.mask = w.byte]
  ELSE controller

outb ==
  /\ stage = "pic_remap" /\ writes # <<>>
  /\ pic' = [pic EXCEPT ![Head(writes).pic] = Written(@, Head(writes))]
  /\ writes' = Tail(writes)
  /\ UNCHANGED <<vars, build, ebx, mb, stage, gate, interrupts>>

\* The stubs of idt_load.asm: of exception n, and of line n.
Isr(n) == <<"isr", n>>
Irq(n) == <<"irq", n>>

\* 32 gates for isr_stub_table, and the 16 behind them for irq_stub_table.
Gates ==
  /\ stage = "pic_remap" /\ writes = <<>>
  /\ gate' = [v \in 0 .. 47 |-> IF v < 32 THEN Isr(v) ELSE Irq(v - 32)]
  /\ stage' = "memory"
  /\ UNCHANGED <<vars, build, ebx, mb, pic, writes, interrupts>>

-----------------------------------------------------------------------------
(* Memory, the tree, and main *)

\* Through the loader's structure the memory map is found; what is read where
\* the magic number points to may be a map of anything, or none.
init_memory ==
  /\ stage = "memory"
  /\ \E m \in Maps \cup (IF mb = "info" THEN {} ELSE {<<>>}) : physmem_init_from_multiboot(m)
  /\ stage' = "init_fs"
  /\ UNCHANGED <<build, ebx, mb, pic, writes, gate, interrupts>>

\* init_fs leaves four directories in "/" and protected mode is on: neither
\* FS_BROKEN nor PROTECTED_MODE_REQUIRED is reached.
init_fs ==
  /\ stage = "init_fs"
  /\ interrupts' = (build = "x86")
  /\ stage' = "main"
  /\ UNCHANGED <<vars, build, ebx, mb, pic, writes, gate>>

Pages == stage = "main" /\ (Call \/ Walk) /\ UNCHANGED bootVars

BootNext ==
  \/ arch_x86_start \/ arch_x86_64_start \/ arch_x86_64_set_mb
  \/ IdtInit \/ outb \/ Gates
  \/ init_memory \/ init_fs
  \/ Pages

BootSpec == BootInit /\ [][BootNext]_allVars

BootFairSpec == BootSpec /\ WF_allVars(stage = "main" /\ Walk /\ UNCHANGED bootVars)

-----------------------------------------------------------------------------
(* Properties *)

Line == 0 .. 15
Pic(l) == IF l < 8 THEN 1 ELSE 2
Masked(l) == (pic[Pic(l)].mask \div 2^(l % 8)) % 2 = 1
Vector(l) == pic[Pic(l)].base + (l % 8)

\* Interrupts are switched on only when every line of both controllers has been
\* masked again: initialising a controller unmasks it and pic_remap restores the
\* masks of the firmware in between.  So no interrupt ever reaches the kernel,
\* which polls the keyboard.
MaskedWhenEnabled == interrupts => \A l \in Line : Masked(l)

\* "MB_STRUCT_NOT_AVAILABLE": without the loader's structure there is no main.
MissingInfoStops == stage = "main" => ebx = "info"

\* "IRQ mapped to IDT 32+": once the controllers are remapped and the gates
\* filled, each of the 16 lines enters its own stub, on both builds.
LinesReachTheirStubs ==
  stage = "main" => \A l \in Line : gate[Vector(l)] = Irq(l)
=============================================================================
