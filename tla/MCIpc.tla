------------------------------- MODULE MCIpc -------------------------------
\* Ipc for TLC: parts of a few bytes, texts of none, one and two characters, one
\* on which the sender asserts behind its buffer, one on which it gives up there
\* and one that it finds too long at once.
EXTENDS Ipc

Repeated(n) == [i \in 1..n |-> "a"]
TheTexts == {<<>>, <<"a">>, <<"b", "a">>} \cup {Repeated(n) : n \in {12, 13, 20}}
=============================================================================
