------------------------------ MODULE Keyboard ------------------------------
(***************************************************************************)
(* The line discipline of src/drivers/keyboard.c.  IRQ1 appends typed      *)
(* characters to one global line buffer until Enter completes the line;    *)
(* SYS_READ then consumes it.  The array kb_line_buf and its length        *)
(* kb_line_len are one sequence here: the bytes past the length are never  *)
(* read.  What the handler echoes to the screen is not state of this       *)
(* module.                                                                 *)
(***************************************************************************)
EXTENDS Naturals, Sequences

CONSTANTS KB_LINE_MAX,  \* size of the line buffer in bytes
          Chars         \* the printable characters of scancode_to_ascii

Enter     == "enter"      \* '\n'
Backspace == "backspace"  \* '\b'
NoKey     == "nokey"      \* a release code, or a key without an ASCII code

ASSUME KeyboardAssumption ==
  /\ KB_LINE_MAX \in Nat \ {0}
  /\ Enter \notin Chars /\ Backspace \notin Chars /\ NoKey \notin Chars

VARIABLES kb_line_buf, kb_line_complete

kbVars == <<kb_line_buf, kb_line_complete>>

Keys == Chars \union {Enter, Backspace, NoKey}

KbTypeOK ==
  /\ kb_line_buf \in Seq(Chars)
  /\ Len(kb_line_buf) < KB_LINE_MAX
  /\ kb_line_complete \in BOOLEAN

KbInit ==
  /\ kb_line_buf = << >>
  /\ kb_line_complete = FALSE

-----------------------------------------------------------------------------
\* Faulty variant: a completed line is still edited.
DroppedFaulty(key) == key = NoKey

\* A key that the handler drops before it looks at the buffer.
Dropped(key) == key = NoKey \/ kb_line_complete

\* Faulty variant: no room is kept for the terminating zero.
TypedFaulty(line, key) ==
  IF Len(line) < KB_LINE_MAX THEN Append(line, key) ELSE line

\* The line after a printable character: full lines swallow it.
Typed(line, key) ==
  IF Len(line) < KB_LINE_MAX - 1 THEN Append(line, key) ELSE line

\* The line after a backspace.
Erased(line) ==
  IF Len(line) > 0 THEN SubSeq(line, 1, Len(line) - 1) ELSE line

keyboard_handler(key) ==
  \/ /\ Dropped(key)
     /\ UNCHANGED kbVars
  \/ /\ ~Dropped(key)
     /\ key = Enter
     /\ kb_line_complete' = TRUE
     /\ UNCHANGED kb_line_buf
  \/ /\ ~Dropped(key)
     /\ key = Backspace
     /\ kb_line_buf' = Erased(kb_line_buf)
     /\ UNCHANGED kb_line_complete
  \/ /\ ~Dropped(key)
     /\ key \in Chars
     /\ kb_line_buf' = Typed(kb_line_buf, key)
     /\ UNCHANGED kb_line_complete

keyboard_has_line == kb_line_complete

keyboard_read_line ==
  /\ kb_line_buf' = << >>
  /\ kb_line_complete' = FALSE
=============================================================================
