------------------------------ MODULE MCWindow ------------------------------
(* Two interchangeable windows with a file that is written and two that    *)
(* are read for ever.                                                      *)
EXTENDS Window, TLC

Sym == Permutations(Window)

SomeFiles == <<"label", "wctl", "mouse">>

AllFiles == <<"winname", "label", "wctl", "mouse", "kbd">>
=============================================================================
