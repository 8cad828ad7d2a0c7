------------------------------ MODULE Programs ------------------------------
(***************************************************************************)
(* The programs that compute on text: parse_users at a login, hexedit, the *)
(* calculator, and str_replace, which the exception handler calls.  They   *)
(* run one at a time, in the one thread there is, and share no variable,   *)
(* so a behaviour of this module runs one: str_replace, which keeps        *)
(* nothing, once, the others as often as their bounds allow, each time on  *)
(* what the time before left.  They meet in one place: a divide error of   *)
(* the calculator goes through isr_handler, common_handler.c, which puts   *)
(* the name of the exception into a message with str_replace and stops     *)
(* the machine.                                                            *)
(***************************************************************************)
EXTENDS StrReplace, UsersFile, HexEdit, Calculator

CONSTANT Message   \* the call isr_handler makes of str_replace for vector 0

ASSUME ProgramsAssumption == Message \in Calls

VARIABLES
  program,  \* the one that runs
  fault,    \* "", or "handler" from the divide error on
  panic     \* the code kernelpanic shows, or ""

numVars == <<cpu, divVars, calcVars>>
vars == <<replaceVars, userVars, hexVars, numVars, program, fault, panic>>

Init ==
  /\ ReplaceInit /\ UsersInit /\ HexInit /\ CalculatorInit
  /\ program \in {"str_replace", "parse_users", "hexedit", "calc"}
  /\ program # "hexedit" => data = CHOOSE file \in Files : TRUE
  /\ program # "calc" => cpu = "x86"
  /\ fault = ""
  /\ panic = ""

Up(p) == program = p /\ panic = ""

(* What somebody at the keyboard does: start a program, press a key in it. *)

ReplaceStart ==
  /\ Up("str_replace") /\ call = NoCall
  /\ \E arguments \in Calls : ReplaceCall(arguments)
  /\ UNCHANGED <<userVars, hexVars, numVars, program, fault, panic>>

UsersStart ==
  /\ Up("parse_users")
  /\ \E text \in Texts : parse_users(text)
  /\ UNCHANGED <<replaceVars, hexVars, numVars, program, fault, panic>>

HexKey ==
  /\ Up("hexedit")
  /\ hexedit_main \/ Erase \/ Enter \/ \E char \in Digits \cup {Space, Other} : Type(char)
  /\ UNCHANGED <<replaceVars, userVars, numVars, program, fault, panic>>

CalcKey ==
  /\ Up("calc")
  /\ \/ calculator_main \/ AskedAgain
     \/ \E typed \in Signs : EnterSign(typed)
     \/ \E typed \in Typed : EnterLeft(typed) \/ EnterRight(typed)
  /\ UNCHANGED <<replaceVars, userVars, hexVars, program, fault, panic>>

Keyboard == ReplaceStart \/ UsersStart \/ HexKey \/ CalcKey

-----------------------------------------------------------------------------
(* What the processor does then. *)

MallocPanics == panic' = IF replace' = "panic" THEN "OUT_OF_MEMORY" ELSE panic

ReplaceGo ==
  /\ Up("str_replace")
  /\ ReplaceStep
  /\ MallocPanics
  /\ UNCHANGED <<userVars, hexVars, numVars, program, fault>>

UsersGo ==
  /\ Up("parse_users")
  /\ ParseStep
  /\ UNCHANGED <<replaceVars, hexVars, numVars, program, fault, panic>>

HexGo ==
  /\ Up("hexedit")
  /\ ParseByte \/ hexedit_save
  /\ UNCHANGED <<replaceVars, userVars, numVars, program, fault, panic>>

CalcGo ==
  /\ Up("calc")
  /\ CalcStep
  /\ UNCHANGED <<replaceVars, userVars, hexVars, program, fault, panic>>

\* isr_handler, for an exception: the message is made first, then the machine stops.
ExceptionRaised ==
  /\ Up("calc") /\ calc = "exception" /\ fault = ""
  /\ fault' = "handler"
  /\ ReplaceCall(Message)
  /\ UNCHANGED <<userVars, hexVars, numVars, program, panic>>

MessageGo ==
  /\ Up("calc") /\ fault = "handler"
  /\ ReplaceStep
  /\ MallocPanics
  /\ UNCHANGED <<userVars, hexVars, numVars, program, fault>>

kernelpanic ==
  /\ Up("calc") /\ fault = "handler" /\ replace = "idle"
  /\ panic' = "CPU_EXCEPTION"
  /\ UNCHANGED <<replaceVars, userVars, hexVars, numVars, program, fault>>

Processor ==
  \/ ReplaceGo \/ UsersGo \/ HexGo \/ CalcGo
  \/ ExceptionRaised \/ MessageGo \/ kernelpanic

Next == Keyboard \/ Processor

Spec == Init /\ [][Next]_vars

\* The processor goes on; nobody has to start a program or press a key in it.
FairSpec == Spec /\ WF_vars(Processor)

-----------------------------------------------------------------------------
(* Properties *)

AtKeyboard ==
  \/ program = "str_replace" /\ replace = "idle"
  \/ program = "parse_users" /\ parse = "idle"
  \/ program = "hexedit" /\ hexedit \in {"idle", "edit"}
  \/ program = "calc" /\ calc \in {"idle", "sign", "left", "right"}

\* No loop of these programs runs for ever, whatever is typed or read from a
\* file: each comes back to the keyboard, or the machine has stopped.
LoopsEnd == []<>(AtKeyboard \/ panic # "" \/ parse = "wild")
=============================================================================
