------------------------------ MODULE MCSched -------------------------------
(* Constants of the bounded instances of Sched. *)
EXTENDS Sched

\* A one-page program and an empty one, which can only fault.
MCCodePages == [f \in Files |-> IF f = "empty" THEN 0 ELSE 1]
=============================================================================
