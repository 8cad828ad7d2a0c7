------------------------------ MODULE LineInput ------------------------------
(***************************************************************************)
(* The keyboard and the line editor of src/drivers/keyboard/input.c, with  *)
(* the screen it echoes to.  The kernel takes no interrupts: scan codes    *)
(* wait in the keyboard until read_str polls for them, which it does only  *)
(* while some program reads a line.  What read_str knows about the keys,   *)
(* key_states and the two shift flags, outlives the call.                  *)
(*                                                                         *)
(* The keyboard is outside the source: it sends a code when a key goes     *)
(* down, again and again while it is held, and one when it goes up, and    *)
(* drops what it has no room for.  Prefix bytes (0xE0) are left out: they  *)
(* read as the release of a key that does not exist.                       *)
(*                                                                         *)
(* An operator marked "Mutant" is no part of the specification: it is what *)
(* the definition below it would be after a plausible slip in input.c.     *)
(***************************************************************************)
EXTENDS Screen, KeyCodes

CONSTANTS
  Prompts,      \* what a program prints before it reads
  Title,        \* what a program puts in the middle of the first line
  YesNoText,    \* the text read_yn is given
  ErrorText,    \* what print_error shows for an answer that is none
  MaxCodes,     \* codes the keyboard keeps
  MaxDown,      \* bound on the keys held at once
  MaxMissed     \* bound on the keys whose last change was dropped

\* Only enter is a line end, no base_value contains one, and every buffer has
\* room for its end.
ASSUME LineInputAssumption ==
  /\ MaxCodes \in Nat
  /\ "*" \in Characters /\ Characters \cap {"enter", "erase"} = {}
  /\ Keymap \in [Keys -> Characters \cup {NoChar}]
  /\ ShiftKeymap \in [Keys -> Characters \cup {NoChar}]
  /\ \A k \in Keys \ {Enter} : Newline \notin {Keymap[k], ShiftKeymap[k]}
  /\ Prompts \cup {Title, YesNoText, ErrorText} \subseteq Seq(Characters)
  /\ Requests \subseteq [kind : {"line"}, max : Nat \ {0}, secret : BOOLEAN,
                         base : Seq(Characters \ {Newline})]

VARIABLES
  pressed,      \* keys held down
  codes,        \* scan codes sent and not polled: the key, and whether it went up
  missed,       \* keys whose last change was dropped
  key_states,   \* keys read_str takes to be down
  shifts,       \* SHIFT_LEFT_PRESSED, SHIFT_RIGHT_PRESSED
  buffer,       \* the line: buffer up to length
  request,      \* the read_str that runs, or NoRequest
  above         \* what stood before the cursor when the line began

keyboard == <<pressed, codes, missed>>
input == <<key_states, shifts, buffer, request, above>>
vars == <<screen, keyboard, input>>

Init ==
  /\ screen = Cleared
  /\ pressed = {} /\ codes = <<>> /\ missed = {}
  /\ key_states = {} /\ shifts = {}
  /\ buffer = <<>> /\ request = NoRequest /\ above = <<>>

-----------------------------------------------------------------------------
(* The keyboard *)

Room == Len(codes) < MaxCodes
Send(k, up) == codes' = IF Room THEN Append(codes, [key |-> k, up |-> up]) ELSE codes
Changed(k) ==
  /\ Room \/ Cardinality(missed \cup {k}) <= MaxMissed
  /\ missed' = IF Room THEN missed \ {k} ELSE missed \cup {k}

Press(k) ==
  /\ k \notin pressed
  /\ Cardinality(pressed) < MaxDown
  /\ pressed' = pressed \cup {k}
  /\ Send(k, FALSE)
  /\ Changed(k)
  /\ UNCHANGED <<screen, input>>

Repeat(k) ==
  /\ k \in pressed
  /\ Room
  /\ Send(k, FALSE)
  /\ Changed(k)
  /\ UNCHANGED <<screen, pressed, input>>

Release(k) ==
  /\ k \in pressed
  /\ pressed' = pressed \ {k}
  /\ Send(k, TRUE)
  /\ Changed(k)
  /\ UNCHANGED <<screen, input>>

-----------------------------------------------------------------------------
(* Programs *)

Echo(c) == IF request.secret THEN "*" ELSE c
EchoIn(r, str) == [n \in DOMAIN str |-> IF r.secret THEN "*" ELSE str[n]]

\* read_str up to its loop: base_value goes into the buffer and on the screen.
Start(s, r) ==
  /\ request' = r
  /\ buffer' = Filled(r)
  /\ above' = Before(s)
  /\ screen' = printstr(s, EchoIn(r, Filled(r)))

read_str(prompt, r) ==
  /\ request = NoRequest
  /\ Start(printstr(screen, prompt), r)
  /\ UNCHANGED <<keyboard, key_states, shifts>>

Asked(s) == printstr(printstr(s, <<Blank>>), YesNoText)

read_yn ==
  /\ request = NoRequest
  /\ Start(Asked(screen), Question)
  /\ UNCHANGED <<keyboard, key_states, shifts>>

Show(s) ==
  /\ request = NoRequest
  /\ screen' = s
  /\ UNCHANGED <<keyboard, input>>

\* The clear command, and the first lines of tinypad.  Anything else a program
\* prints is part of a prompt.
Output ==
  \/ Show(Cleared)
  \/ Show(printstr(printct(paintline(Cleared, 0), Title), <<Newline, Newline>>))

-----------------------------------------------------------------------------
(* One turn of read_str's loop that finds a code *)

Code == Head(codes)

Polled ==
  /\ request # NoRequest
  /\ codes # <<>>
  /\ codes' = Tail(codes)
  /\ UNCHANGED <<pressed, missed>>

\* Mutant: the flag of the right shift key stays.
GoesUpShifted ==
  /\ Polled
  /\ Code.up
  /\ key_states' = key_states \ {Code.key}
  /\ shifts' = shifts \ {LeftShift}
  /\ UNCHANGED <<screen, buffer, request, above>>

GoesUp ==
  /\ Polled
  /\ Code.up
  /\ key_states' = key_states \ {Code.key}
  /\ shifts' = shifts \ {Code.key}
  /\ UNCHANGED <<screen, buffer, request, above>>

Held ==
  /\ Polled
  /\ ~Code.up
  /\ Code.key \in key_states
  /\ UNCHANGED <<screen, input>>

\* Mutant: a key that is held acts every time its code comes.
GoesDownAgain ==
  /\ Polled
  /\ ~Code.up
  /\ key_states' = key_states \cup {Code.key}

GoesDown ==
  /\ Polled
  /\ ~Code.up
  /\ Code.key \notin key_states
  /\ key_states' = key_states \cup {Code.key}

\* Mutant: enter on an empty line is ignored.
TakeEnterNonEmpty ==
  /\ GoesDown
  /\ Code.key = Enter
  /\ UNCHANGED shifts
  /\ IF buffer = <<>> THEN UNCHANGED <<screen, buffer, request, above>>
     ELSE /\ request' = NoRequest
          /\ buffer' = <<>>
          /\ above' = <<>>
          /\ screen' = printchar(screen, Newline)

\* read_yn asks again until the answer is one.
TakeEnter ==
  /\ GoesDown
  /\ Code.key = Enter
  /\ UNCHANGED shifts
  /\ LET s == printchar(screen, Newline)
     IN IF request.kind = "yn" /\ buffer \notin Yes \cup No
        THEN Start(Asked(printchar(printstr(s, ErrorText), Newline)), request)
        ELSE /\ request' = NoRequest
             /\ buffer' = <<>>
             /\ above' = <<>>
             /\ screen' = s

\* Mutant: the screen is told to delete when there is nothing left of the line.
TakeBackspaceAlways ==
  /\ GoesDown
  /\ Code.key = Backspace
  /\ buffer' = Edited(buffer, "erase", request.max)
  /\ screen' = delchar(screen)
  /\ UNCHANGED <<shifts, request, above>>

TakeBackspace ==
  /\ GoesDown
  /\ Code.key = Backspace
  /\ buffer' = Edited(buffer, "erase", request.max)
  /\ screen' = IF buffer = <<>> THEN screen ELSE delchar(screen)
  /\ UNCHANGED <<shifts, request, above>>

TakeShift ==
  /\ GoesDown
  /\ Code.key \in ShiftKeys
  /\ shifts' = shifts \cup {Code.key}
  /\ UNCHANGED <<screen, buffer, request, above>>

TakeChar ==
  /\ GoesDown
  /\ Code.key \notin ShiftKeys \cup {Enter, Backspace}
  /\ LET c == Char(Code.key, shifts)
     IN IF c # NoChar /\ Len(buffer) < request.max - 1
        THEN /\ buffer' = Append(buffer, c)
             /\ screen' = printchar(screen, Echo(c))
        ELSE UNCHANGED <<buffer, screen>>
  /\ UNCHANGED <<shifts, request, above>>

Poll == GoesUp \/ Held \/ TakeEnter \/ TakeBackspace \/ TakeShift \/ TakeChar

-----------------------------------------------------------------------------

Next ==
  \/ \E k \in Keys : Press(k) \/ Repeat(k) \/ Release(k)
  \/ \E prompt \in Prompts, r \in Requests : read_str(prompt, r)
  \/ read_yn
  \/ Output
  \/ Poll

Spec == Init /\ [][Next]_vars

\* read_str does nothing but poll; nobody has to press a key.
FairSpec == Spec /\ WF_vars(Poll)

-----------------------------------------------------------------------------
(* Invariants *)

TypeOK ==
  /\ screen \in [cells : [Cells -> Characters], cursor : 0 .. Size]
  /\ pressed \subseteq Keys /\ missed \subseteq Keys
  /\ key_states \subseteq Keys /\ shifts \subseteq ShiftKeys
  /\ codes \in Seq([key : Keys, up : BOOLEAN]) /\ Len(codes) <= MaxCodes
  /\ request \in Requests \cup {Question, NoRequest}
  /\ buffer \in Seq(Characters) /\ above \in Seq(Characters)
  /\ request # NoRequest => Len(buffer) < request.max

\* While a line is edited the screen shows it: before the cursor stands the
\* line behind what stood there when it began (or stars, for a secret), as much
\* of it as scrolling and deleting over the first cell left on the screen.
LineOnScreen ==
  request # NoRequest => IsSuffix(Before(screen), above \o EchoIn(request, buffer))

\* The cursor never leaves video memory, whatever was printed, and from it on the
\* screen is blank: nothing deleted is left to be read.
BlankBehind ==
  /\ screen.cursor \in Cells
  /\ \A p \in screen.cursor .. (Size - 1) : screen.cells[p] = Blank

\* What the kernel knows of a key, with the codes on their way, is how the key
\* is, unless its last change was dropped; and the shift flags agree with it.
KeyStatesFollow ==
  /\ shifts = key_states \cap ShiftKeys
  /\ \A k \in Keys \ missed :
       LET about == {n \in DOMAIN codes : codes[n].key = k}
       IN /\ about = {} => (k \in pressed <=> k \in key_states)
          /\ \A n \in about : (\A m \in about : m <= n) => (k \in pressed <=> ~codes[n].up)

-----------------------------------------------------------------------------
(* The promise of LineEditor, with the codes not yet polled taken for what   *)
(* they are going to do.                                                     *)

Announced(d, c) ==
  IF c.up THEN [d EXCEPT !.down = @ \ {c.key}]
  ELSE IF c.key \in d.down THEN d
  ELSE [down |-> d.down \cup {c.key}, strokes |-> d.strokes \o Stroke(c.key, d.down \cap ShiftKeys)]

After(keys, sent) ==
  LET after[n \in 0 .. Len(sent)] ==
        IF n = 0 THEN [down |-> keys, strokes |-> <<>>] ELSE Announced(after[n - 1], sent[n])
  IN after[Len(sent)]

Ahead == After(key_states, codes)

Editor == INSTANCE LineEditor WITH down <- Ahead.down, strokes <- Ahead.strokes, line <- buffer

\* Every key acts once, in the order and with the shift of the moment it went
\* down, although it is looked at later, by another call perhaps.
ImplementsLineEditor == Editor!Spec

EnterAhead == \E n \in DOMAIN Ahead.strokes : Ahead.strokes[n] = "enter"

\* Whoever reads a line gets it once enter went down.
EnterEnds ==
  request \in Requests /\ EnterAhead ~> request = NoRequest
=============================================================================
