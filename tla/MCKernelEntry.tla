--------------------------- MODULE MCKernelEntry ----------------------------
(* Constants of the bounded instance of KernelEntry: addresses of the TSS   *)
(* below and above 64 KiB and 16 MiB.                                       *)
EXTENDS KernelEntry

MCTssBases == {<<0, 4096>>, <<17, 258>>, <<773, 65535>>}
=============================================================================
