------------------------------ MODULE LineEditor ------------------------------
(***************************************************************************)
(* What read_str and read_yn promise about the line they return: every key *)
(* acts when it goes down, once however long it is held, with the shift    *)
(* keys as they are at that moment, whether or not anybody reads yet; and  *)
(* the line is edited by those strokes in that order.                      *)
(***************************************************************************)
EXTENDS KeyCodes

VARIABLES
  down,       \* keys that are down as far as the keyboard has said
  strokes,    \* what keys have asked for and no reader has taken
  line,       \* the line being edited
  request     \* the call it is edited for

Init == down = {} /\ strokes = <<>> /\ line = <<>> /\ request = NoRequest

KeyDown(k) ==
  /\ k \notin down
  /\ down' = down \cup {k}
  /\ strokes' = strokes \o Stroke(k, down \cap ShiftKeys)
  /\ UNCHANGED <<line, request>>

KeyUp(k) ==
  /\ down' = down \ {k}
  /\ UNCHANGED <<strokes, line, request>>

Read(r) ==
  /\ request = NoRequest
  /\ request' = r
  /\ line' = Filled(r)
  /\ UNCHANGED <<down, strokes>>

Take ==
  /\ request # NoRequest
  /\ strokes # <<>>
  /\ strokes' = Tail(strokes)
  /\ IF Head(strokes) = "enter"
     THEN /\ line' = <<>>
          /\ request' = IF request.kind = "yn" /\ line \notin Yes \cup No THEN request ELSE NoRequest
     ELSE /\ line' = Edited(line, Head(strokes), request.max)
          /\ request' = request
  /\ UNCHANGED down

Next ==
  \/ \E k \in Keys : KeyDown(k) \/ KeyUp(k)
  \/ \E r \in Requests \cup {Question} : Read(r)
  \/ Take

Spec == Init /\ [][Next]_<<down, strokes, line, request>>
=============================================================================
