----------------------------- MODULE BootProofs ------------------------------
(***************************************************************************)
(* Proofs about the whole of boot, for every memory map, page size and     *)
(* mask the firmware may leave: the physical pages keep their invariant    *)
(* also when the memory map is read through a wrong pointer, and the two   *)
(* interrupt controllers end masked, at vectors that suit the gates but    *)
(* for the lines the 32-bit build puts among the exceptions.               *)
(*                                                                         *)
(* The argument about the controllers counts the bytes already written:    *)
(* that number decides what each controller takes the next byte for.       *)
(***************************************************************************)
EXTENDS Boot, PhysMemProofs, SequenceTheorems

Word == [pic : {1, 2}, data : BOOLEAN, byte : Nat]

\* The vector pic_remap is called with for controller p, and the one it becomes.
Offset(p) == IF p = 2 THEN 40 ELSE IF build = "x86" THEN 31 ELSE 32
Base(p) == Offset(p) - (Offset(p) % 8)

\* All pic_remap writes, when the masks it found were m.
Words(m) ==
  << Command(1, 17), Command(2, 17), Data(1, Offset(1)), Data(2, 40),
     Data(1, 4), Data(2, 2), Data(1, 1), Data(2, 1),
     Data(1, m[1]), Data(2, m[2]), Data(1, 255), Data(2, 255) >>

\* Bytes written so far.
Written12 == 12 - Len(writes)

\* The word controller p expects after n bytes.
Expects(p, n) ==
  IF n < p THEN 0
  ELSE IF n < p + 2 THEN 2
  ELSE IF n < p + 4 THEN 3
  ELSE IF n < p + 6 THEN 4 ELSE 0

\* A controller after n bytes, when it is to be put at base b.
Told(c, p, n, b) ==
  /\ c.icw = Expects(p, n)
  /\ n >= p + 2 => c.base = b
  /\ n >= p + 10 => c.mask = 255

Remapping ==
  /\ Len(writes) \in 0 .. 12
  /\ \E m \in [{1, 2} -> Nat] : \A k \in 1 .. Len(writes) : writes[k] = Words(m)[Written12 + k]
  /\ \A p \in {1, 2} : Told(pic[p], p, Written12, Base(p))

Remapped == \A p \in {1, 2} : pic[p].base = Base(p) /\ pic[p].mask = 255

PicType == pic \in [{1, 2} -> [base : Nat, mask : Nat, icw : 0 .. 4]]

Filled == gate = [v \in 0 .. 47 |-> IF v < 32 THEN Isr(v) ELSE Irq(v - 32)]

PicInv ==
  /\ build \in {"x86", "x86_64"}
  /\ writes \in Seq(Word)
  /\ PicType
  /\ stage \in {"entry", "set_mb", "idt_init"} => \A p \in {1, 2} : pic[p].icw = 0
  /\ stage = "pic_remap" => Remapping
  /\ stage \in {"memory", "init_fs", "main"} => Remapped /\ Filled
  /\ interrupts => stage = "main"

-----------------------------------------------------------------------------
(* The pages *)

LEMMA BootIsAny == [BootNext]_allVars => [AnyNext]_vars
<1> SUFFICES ASSUME [BootNext]_allVars PROVE [AnyNext]_vars
  OBVIOUS
<1>1. CASE init_memory
  <2>1. \E m \in AnyMap : physmem_init_from_multiboot(m)
    BY <1>1 DEF init_memory, AnyMap
  <2>2. QED BY <2>1 DEF AnyNext
<1>2. CASE Pages
  BY <1>2 DEF Pages, AnyNext
<1>3. CASE UNCHANGED vars
  BY <1>3
<1>4. QED
  BY <1>1, <1>2, <1>3
  DEF BootNext, allVars, arch_x86_start, arch_x86_64_start, arch_x86_64_set_mb, IdtInit,
      outb, Gates, init_fs

THEOREM BootInvariant == BootSpec => []IInv
<1>1. BootInit => IInv
  BY InitInv DEF BootInit
<1>2. IInv /\ [BootNext]_allVars => IInv'
  BY BootIsAny, StepInv
<1>3. QED BY <1>1, <1>2, PTL DEF BootSpec

\* From the boot loader on, no page is handed out twice.
THEOREM BootNoPageTwice == BootSpec => []HeldDisjoint
<1>1. IInv => HeldDisjoint
  BY DEF IInv
<1>2. QED BY <1>1, BootInvariant, PTL

\* What is handed out after boot is usable memory clear of the bitmap, on both
\* builds, also when there was no map to be read.
THEOREM BootUsableMemory == Wide => (BootSpec => []OnlyUsableHeld)
<1> SUFFICES ASSUME Wide PROVE BootSpec => []OnlyUsableHeld
  OBVIOUS
<1>1. IInv => OnlyUsableHeld
  BY UsableHeld
<1>2. QED BY <1>1, BootInvariant, PTL

\* The search for pages gives up only when there is no run.
THEOREM BootFailsOnlyWhenFull == BootSpec => FailOnlyWhenFull
<1>1. IInv /\ [BootNext]_allVars =>
        [pc = "scan" /\ pc' = "idle" /\ used' = used /\ request.pages > 0 =>
           \A p \in 0 .. phys_total_pages : ~FreeRun(p)]_vars
  BY BootIsAny, FullStep
<1>2. QED BY <1>1, BootInvariant, PTL DEF BootSpec, FailOnlyWhenFull

\* A mark changes only with the run that is taken or given back.
THEOREM BootMarksAreTheOwners == BootSpec => MarksFollowOwners
<1>1. IInv /\ [BootNext]_allVars =>
        [pc # "boot" =>
           \A page \in 0 .. (phys_total_pages - 1) :
             (page \in used) # (page \in used') =>
               \/ \E p \in DOMAIN held \ DOMAIN held' : page \in Run(p, held[p])
               \/ \E p \in DOMAIN held' \ DOMAIN held : page \in Run(p, held'[p])
               \/ pc = "scan" /\ i = 0 /\ page \in Run(0, request.pages)]_vars
  BY BootIsAny, MarkStep DEF MarkCause
<1>2. QED BY <1>1, BootInvariant, PTL DEF BootSpec, MarksFollowOwners

-----------------------------------------------------------------------------
(* The interrupt controllers *)

LEMMA PicInit == BootInit => PicInv
<1> SUFFICES ASSUME BootInit PROVE PicInv
  OBVIOUS
<1>1. PicType /\ \A p \in {1, 2} : pic[p].icw = 0
  BY BootAssumption DEF BootInit, PicType
<1>2. QED BY <1>1 DEF BootInit, PicInv

LEMMA EightAndFour ==
  ASSUME NEW S, NEW s \in Seq(S), NEW t \in Seq(S), Len(s) = 8, Len(t) = 4
  PROVE  /\ s \o t \in Seq(S) /\ Len(s \o t) = 12
         /\ \A k \in 1 .. 8 : (s \o t)[k] = s[k]
         /\ \A k \in 9 .. 12 : (s \o t)[k] = t[k - 8]
<1>1. /\ s \o t \in Seq(S) /\ Len(s \o t) = Len(s) + Len(t)
      /\ \A k \in 1 .. Len(s) + Len(t) :
           (s \o t)[k] = IF k <= Len(s) THEN s[k] ELSE t[k - Len(s)]
  BY ConcatProperties, Zenon
<1>2. /\ s \o t \in Seq(S) /\ Len(s \o t) = 12
      /\ \A k \in 1 .. 12 : (s \o t)[k] = IF k <= 8 THEN s[k] ELSE t[k - 8]
  BY <1>1, SMTT(30)
<1>3. QED BY <1>2, SMTT(30)

LEMMA RemapBytes ==
  ASSUME NEW o \in Nat, NEW m1 \in Nat, NEW m2 \in Nat
  PROVE  /\ Initialise(o, 40) \o <<Data(1, m1), Data(2, m2), Data(1, 255), Data(2, 255)>>
              \in Seq(Word)
         /\ Initialise(o, 40) \o <<Data(1, m1), Data(2, m2), Data(1, 255), Data(2, 255)>> =
              << Command(1, 17), Command(2, 17), Data(1, o), Data(2, 40),
                 Data(1, 4), Data(2, 2), Data(1, 1), Data(2, 1),
                 Data(1, m1), Data(2, m2), Data(1, 255), Data(2, 255) >>
<1> DEFINE first == Initialise(o, 40)
           last == <<Data(1, m1), Data(2, m2), Data(1, 255), Data(2, 255)>>
<1>1. first \in Seq(Word) /\ last \in Seq(Word) /\ Len(first) = 8 /\ Len(last) = 4
  BY DEF Initialise, Command, Data, Word
<1>2. PICK s \in Seq(Word), t \in Seq(Word) : s = first /\ t = last
  <2> HIDE DEF first, last
  <2>1. QED BY <1>1
<1>3. PICK q \in Seq(Word) : q = s \o t
  <2>1. QED BY <1>1, <1>2, ConcatProperties, Zenon
<1>4. /\ Len(q) = 12
      /\ \A k \in 1 .. 8 : q[k] = first[k]
      /\ \A k \in 9 .. 12 : q[k] = last[k - 8]
  <2> HIDE DEF first, last
  <2>1. QED BY <1>1, <1>2, <1>3, EightAndFour, SMTT(30)
<1>5. q = << Command(1, 17), Command(2, 17), Data(1, o), Data(2, 40),
             Data(1, 4), Data(2, 2), Data(1, 1), Data(2, 1),
             Data(1, m1), Data(2, m2), Data(1, 255), Data(2, 255) >>
  BY <1>4 DEF Initialise
<1>6. QED BY <1>2, <1>3, <1>5, Zenon

\* What pic_remap is going to write when it begins.
LEMMA RemapStart ==
  ASSUME PicInv, IdtInit
  PROVE  Remapping'
<1> DEFINE m == [p \in {1, 2} |-> pic[p].mask]
           o == IF build = "x86" THEN 31 ELSE 32
<1>1. /\ writes' = pic_remap(o, 40) /\ build' = build /\ pic' = pic
      /\ \A p \in {1, 2} : pic[p].icw = 0
  BY DEF PicInv, IdtInit
<1>2. m \in [{1, 2} -> Nat]
  BY DEF PicInv, PicType
<1>3. writes' = << Command(1, 17), Command(2, 17), Data(1, o), Data(2, 40),
                   Data(1, 4), Data(2, 2), Data(1, 1), Data(2, 1),
                   Data(1, m[1]), Data(2, m[2]), Data(1, 255), Data(2, 255) >>
  <2>1. o \in Nat /\ m[1] = pic[1].mask /\ m[2] = pic[2].mask /\ m[1] \in Nat /\ m[2] \in Nat
    BY <1>2
  <2>2. writes' = Initialise(o, 40) \o <<Data(1, m[1]), Data(2, m[2]), Data(1, 255), Data(2, 255)>>
    BY <1>1, <2>1, Zenon DEF pic_remap
  <2> HIDE DEF m, o
  <2>3. QED BY <2>1, <2>2, RemapBytes, ZenonT(60)
<1>4. writes' = Words(m)' /\ Len(writes') = 12
  BY <1>1, <1>3 DEF Words, Offset
<1>5. Written12' = 0
  BY <1>4 DEF Written12
<1>6. \A k \in 1 .. 12 : writes'[k] = Words(m)'[Written12' + k]
  BY <1>4, <1>5
<1>7. \A p \in {1, 2} : Told(pic[p], p, Written12, Base(p))'
  BY <1>1, <1>5 DEF Told, Expects
<1>8. QED BY <1>1, <1>2, <1>4, <1>5, <1>6, <1>7 DEF Remapping

LEMMA RemapWords ==
  ASSUME PicInv, IdtInit
  PROVE  writes' \in Seq(Word)
<1> DEFINE o == IF build = "x86" THEN 31 ELSE 32
<1>1. writes' = pic_remap(o, 40) /\ pic[1].mask \in Nat /\ pic[2].mask \in Nat /\ o \in Nat
  BY DEF PicInv, PicType, IdtInit
<1> HIDE DEF o
<1>2. writes' = Initialise(o, 40)
                  \o <<Data(1, pic[1].mask), Data(2, pic[2].mask), Data(1, 255), Data(2, 255)>>
  BY <1>1, Zenon DEF pic_remap
<1>3. Initialise(o, 40)
        \o <<Data(1, pic[1].mask), Data(2, pic[2].mask), Data(1, 255), Data(2, 255)>> \in Seq(Word)
  BY <1>1, RemapBytes, ZenonT(60)
<1>4. QED BY <1>2, <1>3, Zenon

\* To which controller the bytes go, which are commands, and what some of them say.
LEMMA WordsSaid ==
  ASSUME NEW m \in [{1, 2} -> Nat], build \in {"x86", "x86_64"}, NEW n \in 0 .. 11
  PROVE  /\ Words(m)[n + 1].pic = IF n % 2 = 0 THEN 1 ELSE 2
         /\ Words(m)[n + 1].data <=> n >= 2
         /\ n < 2 => Words(m)[n + 1].byte = 17
         /\ n \in {2, 3} => Words(m)[n + 1].byte = Offset(Words(m)[n + 1].pic)
         /\ n \in {10, 11} => Words(m)[n + 1].byte = 255
<1>1. CASE n \in 0 .. 3
  BY <1>1 DEF Words, Offset, Command, Data
<1>2. CASE n \in 4 .. 7
  BY <1>2 DEF Words, Command, Data
<1>3. CASE n \in 8 .. 11
  BY <1>3 DEF Words, Command, Data
<1>4. QED BY <1>1, <1>2, <1>3

\* A controller takes the byte for what it expects.
LEMMA ByteTaken ==
  ASSUME NEW p \in {1, 2}, NEW n \in 0 .. 11, NEW b \in Nat,
         NEW c \in [base : Nat, mask : Nat, icw : 0 .. 4],
         NEW w \in Word,
         Told(c, p, n, b), p = (IF n % 2 = 0 THEN 1 ELSE 2),
         w.data <=> n >= 2,
         n < 2 => w.byte = 17,
         n \in {2, 3} => b = w.byte - (w.byte % 8),
         n \in {10, 11} => w.byte = 255
  PROVE  Told(Written(c, w), p, n + 1, b)
<1>1. CASE n \in 0 .. 1
  BY <1>1 DEF Told, Expects, Written, Word
<1>2. CASE n \in 2 .. 3
  BY <1>2 DEF Told, Expects, Written, Word
<1>3. CASE n \in 4 .. 7
  BY <1>3 DEF Told, Expects, Written, Word
<1>4. CASE n \in 8 .. 11
  BY <1>4 DEF Told, Expects, Written, Word
<1>5. QED BY <1>1, <1>2, <1>3, <1>4

\* A byte for the other controller makes no difference to this one.
LEMMA ByteForOther ==
  ASSUME NEW p \in {1, 2}, NEW n \in 0 .. 11, NEW b, NEW c,
         Told(c, p, n, b), p # (IF n % 2 = 0 THEN 1 ELSE 2)
  PROVE  Told(c, p, n + 1, b)
BY DEF Told, Expects

\* A byte is written: the controller it goes to takes it for what the count says.
LEMMA RemapStep ==
  ASSUME PicInv, outb
  PROVE  Remapping'
<1> DEFINE w == Head(writes)
           n == Written12
<1>1. /\ stage = "pic_remap" /\ writes # <<>> /\ writes' = Tail(writes) /\ build' = build
      /\ pic' = [pic EXCEPT ![w.pic] = Written(@, w)]
      /\ build \in {"x86", "x86_64"} /\ Remapping
      /\ pic \in [{1, 2} -> [base : Nat, mask : Nat, icw : 0 .. 4]]
      /\ writes \in Seq(Word)
  BY DEF PicInv, PicType, outb
<1>2. build \in {"x86", "x86_64"}
  BY <1>1
<1>3. PICK m \in [{1, 2} -> Nat] : \A k \in 1 .. Len(writes) : writes[k] = Words(m)[n + k]
  BY <1>1 DEF Remapping
<1>4. PICK l \in 1 .. 12 : Len(writes) = l /\ Len(writes') = l - 1
  BY <1>1 DEF Remapping
<1>5. /\ \A k \in 1 .. Len(writes) - 1 : writes'[k] = writes[k + 1]
      /\ w = writes[1]
  BY <1>1, <1>4
<1> HIDE DEF w
<1>6. n \in 0 .. 11 /\ n' = n + 1
  BY <1>4 DEF Written12
<1> HIDE DEF n
<1>7. \A k \in 1 .. Len(writes') : writes'[k] = Words(m)'[n' + k]
  <2>1. Words(m)' = Words(m)
    BY <1>1 DEF Words, Offset
  <2>2. ASSUME NEW k \in 1 .. Len(writes') PROVE writes'[k] = Words(m)[n' + k]
    <3>1. k + 1 \in 1 .. Len(writes) /\ writes'[k] = writes[k + 1] /\ n + (k + 1) = n' + k
      BY <1>1, <1>4, <1>6, <1>5
    <3>2. QED BY <1>3, <3>1
  <2>3. QED BY <2>1, <2>2
<1>8. w = Words(m)[n + 1] /\ w \in Word
  <2>1. w = Words(m)[n + 1]
    BY <1>3, <1>4, <1>5
  <2>2. w \in Word
    BY <1>1, <1>4, <1>5
  <2>3. QED BY <2>1, <2>2
<1>9. /\ w.pic = IF n % 2 = 0 THEN 1 ELSE 2
      /\ w.data <=> n >= 2
      /\ n < 2 => w.byte = 17
      /\ n \in {2, 3} => w.byte = Offset(w.pic)
      /\ n \in {10, 11} => w.byte = 255
  BY <1>2, <1>6, <1>8, WordsSaid
<1>10. ASSUME NEW p \in {1, 2} PROVE Told(pic'[p], p, n + 1, Base(p))
  <2>1. /\ Told(pic[p], p, n, Base(p)) /\ Base(p) \in Nat
        /\ pic[p] \in [base : Nat, mask : Nat, icw : 0 .. 4]
    <3>1. pic[p] \in [base : Nat, mask : Nat, icw : 0 .. 4]
      BY <1>1
    <3>2. Base(p) \in Nat
      BY DEF Base, Offset
    <3>3. Told(pic[p], p, n, Base(p))
      BY <1>1 DEF Remapping, n
    <3>4. QED BY <3>1, <3>2, <3>3
  <2>2. CASE p = w.pic
    <3>1. pic'[p] = Written(pic[p], w)
      BY <1>1, <2>2
    <3>2. n \in {2, 3} => Base(p) = w.byte - (w.byte % 8)
      BY <1>9, <2>2 DEF Base
    <3>3. QED BY <1>6, <1>8, <1>9, <2>1, <2>2, <3>1, <3>2, ByteTaken
  <2>3. CASE p # w.pic
    <3>1. pic'[p] = pic[p]
      BY <1>1, <2>3
    <3>2. QED BY <1>6, <1>9, <2>1, <2>3, <3>1, ByteForOther
  <2>4. QED BY <2>2, <2>3
<1>11. \A p \in {1, 2} : Told(pic[p], p, Written12, Base(p))'
  BY <1>1, <1>6, <1>10 DEF n, Base, Offset
<1>12. Len(writes') \in 0 .. 12
  BY <1>4
<1>13. QED BY <1>3, <1>7, <1>11, <1>12 DEF Remapping, n

LEMMA PicStep == PicInv /\ [BootNext]_allVars => PicInv'
<1> SUFFICES ASSUME PicInv, [BootNext]_allVars PROVE PicInv'
  OBVIOUS
<1>1. CASE arch_x86_start \/ arch_x86_64_start \/ arch_x86_64_set_mb
  <2>1. /\ UNCHANGED <<build, pic, writes, gate>> /\ stage \in {"entry", "set_mb"}
        /\ stage' \in {"panic", "idt_init", "set_mb", "error"}
        /\ interrupts' => interrupts
    BY <1>1 DEF arch_x86_start, arch_x86_64_start, arch_x86_64_set_mb
  <2>2. ~interrupts'
    BY <2>1, Zenon DEF PicInv
  <2>3. \A p \in {1, 2} : pic[p].icw = 0
    BY <2>1 DEF PicInv
  <2>4. QED BY <2>1, <2>2, <2>3 DEF PicInv, PicType
<1>2. CASE IdtInit
  <2>1. Remapping'
    BY <1>2, RemapStart
  <2>2. /\ UNCHANGED <<build, pic, gate, interrupts>>
        /\ stage = "idt_init" /\ stage' = "pic_remap"
    BY <1>2 DEF IdtInit
  <2>3. writes' \in Seq(Word)
    BY <1>2, RemapWords
  <2>4. QED BY <2>1, <2>2, <2>3 DEF PicInv, PicType
<1>3. CASE outb
  <2>1. Remapping'
    BY <1>3, RemapStep
  <2>2. /\ stage = "pic_remap" /\ writes # <<>> /\ writes' = Tail(writes)
        /\ pic' = [pic EXCEPT ![Head(writes).pic] = Written(@, Head(writes))]
        /\ UNCHANGED <<build, stage, gate, interrupts>>
    BY <1>3 DEF outb
  <2>3. writes \in Seq(Word)
    BY DEF PicInv
  <2>4. writes' \in Seq(Word) /\ Head(writes) \in Word
    BY <2>2, <2>3
  <2>5. PicType'
    <3>1. Head(writes).pic \in {1, 2} /\ Head(writes).byte \in Nat
      BY <2>4 DEF Word
    <3>2. ASSUME NEW c \in [base : Nat, mask : Nat, icw : 0 .. 4]
          PROVE  Written(c, Head(writes)) \in [base : Nat, mask : Nat, icw : 0 .. 4]
      <4>1. /\ Head(writes).byte - (Head(writes).byte % 8) \in Nat
            /\ (c.icw + 1) % 5 \in 0 .. 4
        BY <3>1, <3>2
      <4>2. 0 \in Nat /\ 2 \in 0 .. 4 /\ 3 \in 0 .. 4 /\ Head(writes).byte \in Nat
        BY <3>1
      <4>3. \A m \in Nat, b \in Nat, k \in 0 .. 4 :
              /\ [c EXCEPT !.mask = m] \in [base : Nat, mask : Nat, icw : 0 .. 4]
              /\ [c EXCEPT !.mask = m, !.icw = k] \in [base : Nat, mask : Nat, icw : 0 .. 4]
              /\ [c EXCEPT !.base = b, !.icw = k] \in [base : Nat, mask : Nat, icw : 0 .. 4]
              /\ [c EXCEPT !.icw = k] \in [base : Nat, mask : Nat, icw : 0 .. 4]
        BY <3>2
      <4>4. QED BY <4>1, <4>3, <4>2, Zenon DEF Written
    <3>3. QED BY <2>2, <3>1, <3>2 DEF PicInv, PicType
  <2>6. QED BY <2>1, <2>2, <2>4, <2>5 DEF PicInv
<1>4. CASE Gates
  <2>1. /\ stage = "pic_remap" /\ writes = <<>> /\ stage' = "memory"
        /\ Filled'
        /\ UNCHANGED <<build, pic, writes, interrupts>>
    BY <1>4 DEF Gates, Filled
  <2>2. Remapped
    <3>1. Written12 = 12 /\ Remapping
      BY <2>1 DEF PicInv, Written12
    <3>2. QED BY <3>1 DEF Remapping, Remapped, Told
  <2>3. QED BY <2>1, <2>2 DEF PicInv, PicType, Remapped, Base, Offset
<1>5. CASE init_memory \/ init_fs \/ Pages \/ UNCHANGED allVars
  <2>1. /\ UNCHANGED <<build, pic, writes, gate>>
        /\ \/ stage \in {"memory", "init_fs"} /\ stage' \in {"init_fs", "main"}
           \/ stage' = stage
        /\ interrupts' => interrupts \/ stage' = "main"
    BY <1>5 DEF init_memory, init_fs, Pages, bootVars, allVars
  <2>2. Remapping => Remapping'
    <3>1. \A m : Words(m)' = Words(m)
      BY <2>1 DEF Words, Offset
    <3>2. \A p \in {1, 2} : Base(p)' = Base(p)
      BY <2>1 DEF Base, Offset
    <3>3. Written12' = Written12
      BY <2>1 DEF Written12
    <3>4. QED BY <2>1, <3>1, <3>2, <3>3 DEF Remapping
  <2>3. Remapped => Remapped'
    BY <2>1 DEF Remapped, Base, Offset
  <2>4. Filled => Filled'
    BY <2>1 DEF Filled
  <2>5. QED BY <2>1, <2>2, <2>3, <2>4 DEF PicInv, PicType
<1>6. QED BY <1>1, <1>2, <1>3, <1>4, <1>5 DEF BootNext

THEOREM PicInvariant == BootSpec => []PicInv
<1>1. BootInit => PicInv
  BY PicInit
<1>2. PicInv /\ [BootNext]_allVars => PicInv'
  BY PicStep
<1>3. QED BY <1>1, <1>2, PTL DEF BootSpec

LEMMA AllOnes ==
  ASSUME NEW k \in 0 .. 7
  PROVE  (255 \div 2^k) % 2 = 1
<1>1. /\ 2^0 = 1 /\ 2^1 = 2 /\ 2^2 = 4 /\ 2^3 = 8
      /\ 2^4 = 16 /\ 2^5 = 32 /\ 2^6 = 64 /\ 2^7 = 128
  OBVIOUS
<1>2. k = 0 \/ k = 1 \/ k = 2 \/ k = 3 \/ k = 4 \/ k = 5 \/ k = 6 \/ k = 7
  OBVIOUS
<1>3. \E x \in {1, 2, 4, 8, 16, 32, 64, 128} : x = 2^k
  <2>1. CASE k = 0
    <3>1. 2^k = 1
      BY <1>1, <2>1
    <3>2. QED BY <3>1
  <2>2. CASE k = 1
    <3>1. 2^k = 2
      BY <1>1, <2>2
    <3>2. QED BY <3>1
  <2>3. CASE k = 2
    <3>1. 2^k = 4
      BY <1>1, <2>3
    <3>2. QED BY <3>1
  <2>4. CASE k = 3
    <3>1. 2^k = 8
      BY <1>1, <2>4
    <3>2. QED BY <3>1
  <2>5. CASE k = 4
    <3>1. 2^k = 16
      BY <1>1, <2>5
    <3>2. QED BY <3>1
  <2>6. CASE k = 5
    <3>1. 2^k = 32
      BY <1>1, <2>6
    <3>2. QED BY <3>1
  <2>7. CASE k = 6
    <3>1. 2^k = 64
      BY <1>1, <2>7
    <3>2. QED BY <3>1
  <2>8. CASE k = 7
    <3>1. 2^k = 128
      BY <1>1, <2>8
    <3>2. QED BY <3>1
  <2>9. QED BY <1>2, <2>1, <2>2, <2>3, <2>4, <2>5, <2>6, <2>7, <2>8, Zenon
<1>4. PICK x \in {1, 2, 4, 8, 16, 32, 64, 128} : x = 2^k
  BY <1>3
<1>5. (255 \div x) % 2 = 1
  BY <1>4
<1>6. QED BY <1>4, <1>5, Zenon

\* idt_init has masked every line again by the time interrupts are switched on.
THEOREM InterruptsMasked == BootSpec => []MaskedWhenEnabled
<1>1. PicInv => MaskedWhenEnabled
  <2>1. SUFFICES ASSUME PicInv, interrupts, NEW l \in Line PROVE Masked(l)
    BY DEF MaskedWhenEnabled
  <2>2. pic[Pic(l)].mask = 255
    BY <2>1 DEF PicInv, Remapped, Pic
  <2>3. l % 8 \in 0 .. 7
    BY DEF Line
  <2>4. (255 \div 2^(l % 8)) % 2 = 1
    BY <2>3, AllOnes, Zenon
  <2>5. QED BY <2>2, <2>4, Zenon DEF Masked
<1>2. QED BY <1>1, PicInvariant, PTL

\* Where each line leads after pic_remap and the loops of idt_init: to its own
\* stub, but for the first eight of the 32-bit build, which are exceptions 24 to 31
\* to the kernel and would end in its panic.
THEOREM LinesEnterStubs ==
  BootSpec => [](stage = "main" =>
                   \A l \in Line :
                     gate[Vector(l)] = IF build = "x86" /\ l < 8 THEN Isr(24 + l) ELSE Irq(l))
<1>1. PicInv => (stage = "main" =>
                   \A l \in Line :
                     gate[Vector(l)] = IF build = "x86" /\ l < 8 THEN Isr(24 + l) ELSE Irq(l))
  <2>1. SUFFICES ASSUME PicInv, stage = "main", NEW l \in Line
                 PROVE  gate[Vector(l)] = IF build = "x86" /\ l < 8 THEN Isr(24 + l) ELSE Irq(l)
    OBVIOUS
  <2>2. pic[Pic(l)].base = Base(Pic(l)) /\ Filled
    BY <2>1 DEF PicInv, Remapped, Pic
  <2>3. CASE build = "x86" /\ l < 8
    <3>1. Vector(l) = 24 + l
      BY <2>2, <2>3 DEF Vector, Base, Offset, Pic, Line
    <3>2. QED BY <2>2, <2>3, <3>1 DEF Filled, Line
  <2>4. CASE ~(build = "x86" /\ l < 8)
    <3>1. Vector(l) = 32 + l
      BY <2>2, <2>4 DEF Vector, Base, Offset, Pic, Line
    <3>2. 32 + l \in 0 .. 47 /\ ~(32 + l < 32) /\ (32 + l) - 32 = l
      BY DEF Line
    <3>3. QED BY <2>2, <2>4, <3>1, <3>2 DEF Filled
  <2>5. QED BY <2>3, <2>4
<1>2. QED BY <1>1, PicInvariant, PTL
=============================================================================
