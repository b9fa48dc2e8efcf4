----------------------------- MODULE MCSession ------------------------------
(* Constants of the bounded instances of Session: every program has one     *)
(* page, so a process costs six frames.                                     *)
EXTENDS Session

MCCodePages == [f \in Files |-> 1]
=============================================================================
