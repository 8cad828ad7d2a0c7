----------------------------- MODULE MCPrograms -----------------------------
(* Programs over short strings, files of two bytes and five-bit words. *)
EXTENDS Programs

TwoChars == {"a", "b"}
StringsUpTo(k) == UNION {[1 .. l -> TwoChars] : l \in 0 .. k}

\* The message of isr_handler: the name stands in it once.
TheMessage == [begin |-> <<"a", "a", "b", "a">>, what |-> <<"a", "b">>, repl |-> <<"b", "b", "a">>]
SomeCalls == [begin : StringsUpTo(5), what : StringsUpTo(3), repl : StringsUpTo(2)] \cup {TheMessage}

NL == <<"\n">>
SomeLines ==
  { <<"1", "2", ":", "a", ":", "b", ":">>,                          \* no group
    <<"7", ":", "a", "b", "c", ":", ":", "x", ",", "y">>,           \* a name too long, no password
    <<"0", ":", "a", ":", "b", "b", "b", ":", "x", "y", "z", ",">>, \* a comma at the end
    <<"x", "1", ":", "b", ":", "a", ":", ",", ":", "z">>,           \* an empty group, a fifth field
    <<"1", ":", "a", ":", "b", ":", "x", ",", "y", ":", "z">>,      \* a group ended by a colon
    <<"1", ":", "b", ":", ":", "x", ",", "y", ",", "z">>,           \* more groups than an entry has
    <<"0", ":", "a", ":", "b", ":", ":">>,                          \* root, as installed
    <<"1", ":", "a", "\\0", "b", ":", "\\0", ":", "x", "\\0">>,       \* bytes that are no character
    <<"1", ":", "b">>,                                              \* cut short
    <<>> }

SomeTexts ==
  {<<>>} \cup {l \o NL : l \in SomeLines}
    \cup {l \o NL \o m \o e : l \in SomeLines, m \in SomeLines, e \in {<<>>, NL}}
    \cup {<<"1", ":", "b">> \o NL \o l \o NL \o l : l \in SomeLines}

FileBytes == {<<0, 1>>, <<1, 1>>}
SomeFiles == UNION {[1 .. l -> FileBytes] : l \in 0 .. 2} \cup {[k \in 1 .. 6 |-> <<1, 1>>]}

SomeNumbers == {-18, -17, -16, -15, -10, -4, -2, -1, 0, 1, 2, 3, 7, 8, 10, 13, 15, 16, 17}
=============================================================================
