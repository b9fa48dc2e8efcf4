------------------------------ MODULE MCKheap -------------------------------
(* Constants of the bounded instance of Kheap: six pages of four units,     *)
(* page 0 and the kernel's page 2 in use.                                   *)
EXTENDS Kheap

MCUsed == {0, 2}
MCRequests == {1, 3, 8, 46, 47}
=============================================================================
