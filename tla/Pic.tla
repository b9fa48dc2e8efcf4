-------------------------------- MODULE Pic ---------------------------------
(***************************************************************************)
(* The master 8259 as src/drivers/pic.c and src/pit.c program it: request, *)
(* in-service and mask registers as sets of IRQ lines.  The slave's lines  *)
(* 8..15 are masked by pic_remap and never unmasked, so they are left out. *)
(* The chip itself (which request it signals, what an EOI clears) is       *)
(* hardware the source only talks to through its ports.                    *)
(***************************************************************************)
EXTENDS Naturals

VARIABLES irr,  \* interrupt request register: raised and not yet taken
          isr,  \* in-service register: taken and not yet acknowledged
          imr   \* interrupt mask register

picVars == <<irr, isr, imr>>

IRQ      == 0 .. 7
TIMER    == 0
KEYBOARD == 1

PicTypeOK ==
  /\ irr \subseteq {TIMER, KEYBOARD}
  /\ isr \subseteq {TIMER, KEYBOARD}
  /\ imr \subseteq IRQ

\* pic_remap leaves only IRQ1 unmasked (0xFD).
PicInit ==
  /\ irr = {}
  /\ isr = {}
  /\ imr = IRQ \ {KEYBOARD}

\* A device raises its line.
Raise(n) ==
  /\ n \notin irr
  /\ irr' = irr \union {n}
  /\ UNCHANGED <<isr, imr>>

\* The chip signals its highest-priority unmasked request, unless a line of
\* the same or of a higher priority is still in service.
Deliverable(n) ==
  /\ n \in irr \ imr
  /\ \A m \in irr \ imr : n <= m
  /\ \A m \in isr : n < m

\* The CPU's acknowledge cycle.
Accept(n) ==
  /\ irr' = irr \ {n}
  /\ isr' = isr \union {n}
  /\ UNCHANGED imr

\* pit_init clears bit 0 of the mask.
UnmaskTimer == imr' = imr \ {TIMER}

\* Faulty variant: the EOI is forgotten.
pic_acknowledgeFaulty == isr' = isr

\* The non-specific EOI clears the highest-priority line in service.
pic_acknowledge == isr' = {m \in isr : \E k \in isr : k < m}
=============================================================================
