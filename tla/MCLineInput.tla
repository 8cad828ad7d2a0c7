---------------------------- MODULE MCLineInput ----------------------------
(* LineInput with one letter, a shift key and a screen of four cells. *)
EXTENDS LineInput

Letter == 21
KeyCodesUsed == {Letter, Enter, Backspace, RightShift}
SmallCharacters == {"t", "y", "Y", "*", Blank, Newline}
SmallKeymap == [k \in KeyCodesUsed |-> IF k = Letter THEN "y" ELSE NoChar]
SmallShiftKeymap == [k \in KeyCodesUsed |-> IF k = Letter THEN "Y" ELSE NoChar]

\* A password, and a line that comes with a beginning too long for it.
Calls ==
  { [kind |-> "line", max |-> 2, secret |-> TRUE, base |-> <<>>],
    [kind |-> "line", max |-> 3, secret |-> FALSE, base |-> <<"t", "t", "t">>] }

SomePrompts == {<<"t">>}
TitleText == <<"t">>
QuestionText == <<"t">>
WrongAnswer == <<"t", Newline>>
=============================================================================
