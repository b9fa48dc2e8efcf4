----------------------------- MODULE Lifecycle ------------------------------
(***************************************************************************)
(* What the process subsystem promises, without slots, contexts, stacks or *)
(* interrupts: processes are born with pids 1, 2, 3, ...; one of the live  *)
(* ones runs; only the running one can end; when it ends another live one  *)
(* takes over at once, and the machine halts only when none is left, and   *)
(* then for ever.                                                          *)
(***************************************************************************)
EXTENDS Naturals

VARIABLES live,     \* pids of the processes that have not ended
          running,  \* pid of the running process; 0 at boot and once halted
          born      \* how many processes were ever created

vars == <<live, running, born>>

Init ==
  /\ live = {}
  /\ running = 0
  /\ born = 0

\* Only the boot code (once) and a running process create processes.
Create ==
  /\ running # 0 \/ born = 0
  /\ born' = born + 1
  /\ live' = live \union {born + 1}
  /\ UNCHANGED running

\* The first entry into user mode and every later switch.
Switch ==
  /\ running' \in live
  /\ UNCHANGED <<live, born>>

Exit ==
  /\ running \in live
  /\ live' = live \ {running}
  /\ \/ running' \in live'
     \/ live' = {} /\ running' = 0
  /\ UNCHANGED born

Next == Create \/ Switch \/ Exit

Spec == Init /\ [][Next]_vars
=============================================================================
