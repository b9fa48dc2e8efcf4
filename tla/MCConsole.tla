----------------------------- MODULE MCConsole ------------------------------
(* Constants of the bounded instance of Console: a screen of four rows of   *)
(* two cells, a line of two characters, messages of one character and a     *)
(* newline.  "o" is output, "j" and "k" are typed.                          *)
EXTENDS Console

MCOutput == {"o", Enter, Backspace}
MCMessages ==
  [o \in Outcomes |->
     CASE o \in {"shell", "no_shell"} -> <<"o", End, Enter, End>>
       [] OTHER -> <<"o", Enter, End>>]
=============================================================================
