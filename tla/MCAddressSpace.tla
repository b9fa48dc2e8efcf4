--------------------------- MODULE MCAddressSpace ---------------------------
(* Constants of the bounded instances of AddressSpace. *)
EXTENDS AddressSpace

\* A program of one page and an empty one.
SmallPrograms == [f \in Files |-> IF f = "empty" THEN 0 ELSE 1]

\* The same, and one of two pages.
MixedPrograms ==
  [f \in Files |-> CASE f = "empty" -> 0 [] f = "two" -> 2 [] OTHER -> 1]

\* Every program has two pages.
TwoPages == [f \in Files |-> 2]
=============================================================================
