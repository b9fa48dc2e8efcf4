------------------------------ MODULE Console -------------------------------
(***************************************************************************)
(* The screen (src/drivers/fb.c) and its three writers.  kmain writes its  *)
(* boot messages with interrupts on, so the keyboard's echo may run        *)
(* between any two of its memory accesses: kmain's fb_write is one step    *)
(* per read or write of what the two share.  The echo (IRQ1) and the       *)
(* system calls of user programs run with interrupts off: the echo is one  *)
(* step, and SYS_WRITE, whose text may have any length, is one step per    *)
(* character that nothing can come between.  The attribute byte of a cell  *)
(* never changes and is left out.                                          *)
(***************************************************************************)
EXTENDS Keyboard, Integers, FiniteSets

CONSTANTS FB_COLS, FB_ROWS,
          RADIX,      \* values of one cursor register: 256
          Output,     \* the characters that kernel and programs write
          Messages,   \* the boot messages of each Outcome, End after each
          BootKeys    \* bound: keys pressed while kmain runs

FB_SIZE == FB_COLS * FB_ROWS
Cells   == 0 .. FB_SIZE - 1
Blank   == " "
End     == "end"  \* where the length of a boot message is reached

\* How kmain ends: a wrong magic number spins; without a module, with an
\* invalid file system or without a first process it halts.
Outcomes == {"bad_magic", "no_module", "bad_fs", "no_shell", "shell"}

StageAfter(o) ==
  CASE o = "bad_magic" -> "spin"
    [] o = "shell"     -> "user"
    [] OTHER           -> "halt"

\* How far the messages from position p on can move the cursor.
Letters(o, p)  == {i \in p .. Len(Messages[o]) : Messages[o][i] \notin {Enter, End}}
Newlines(o, p) == {i \in p .. Len(Messages[o]) : Messages[o][i] = Enter}
Ahead(o, p)    == Cardinality(Letters(o, p)) + FB_COLS * Cardinality(Newlines(o, p))

\* Boot messages are written from the top of the screen and, with the keys
\* pressed meanwhile (at most one is a newline: it completes the line), do
\* not reach its end.  A line of input does not fill the screen.
ASSUME ConsoleAssumption ==
  /\ FB_COLS \in Nat \ {0} /\ FB_ROWS \in Nat \ {0} /\ RADIX \in Nat \ {0}
  /\ BootKeys \in Nat
  /\ RADIX * RADIX >= FB_SIZE
  /\ KB_LINE_MAX <= FB_SIZE - FB_COLS
  /\ End \notin Output
  /\ DOMAIN Messages = Outcomes
  /\ \A o \in Outcomes :
       /\ Messages[o] \in Seq((Output \ {Backspace}) \union {End})
       /\ Messages[o] # << >> /\ Messages[o][Len(Messages[o])] = End
       /\ Ahead(o, 1) + BootKeys + FB_COLS < FB_SIZE

VARIABLES fb, fb_cursor,
          index, cursor_reg,  \* the VGA's cursor registers 14 and 15
          outcome, stage,     \* how kmain ends, and where the CPU is
          pos,                \* kmain: the place in its messages
          keys,               \* keys pressed while kmain runs
          at, reg             \* kmain in fb_write: the next step, a register

screenVars == <<fb, fb_cursor, index, cursor_reg>>
kmainVars  == <<stage, pos, at, reg>>

\* Ghost: only the echo has written since the line was empty.
VARIABLE alone

vars == <<screenVars, kmainVars, kbVars, outcome, keys, alone>>

-----------------------------------------------------------------------------
(* fb.c                                                                    *)

\* Faulty variant: the last row keeps its text.
fb_scrollFaulty(s) ==
  [fb |-> [i \in Cells |->
             IF i < FB_SIZE - FB_COLS THEN s.fb[i + FB_COLS] ELSE s.fb[i]],
   cursor |-> FB_SIZE - FB_COLS]

fb_scroll(s) ==
  [fb |-> [i \in Cells |->
             IF i < FB_SIZE - FB_COLS THEN s.fb[i + FB_COLS] ELSE Blank],
   cursor |-> FB_SIZE - FB_COLS]

\* One character, before the check for the end of the screen.
Character(s, c) ==
  CASE c = Backspace -> IF s.cursor = 0 THEN s
                        ELSE [fb |-> [s.fb EXCEPT ![s.cursor - 1] = Blank],
                              cursor |-> s.cursor - 1]
    [] c = Enter     -> [s EXCEPT !.cursor = @ + FB_COLS - (@ % FB_COLS)]
    [] OTHER         -> [fb |-> [s.fb EXCEPT ![s.cursor] = c],
                         cursor |-> s.cursor + 1]

\* Faulty variant: the check is one cell late.
PastEndFaulty(s) == s.cursor > FB_SIZE

PastEnd(s) == s.cursor >= FB_SIZE

Put(s, c) ==
  LET t == Character(s, c) IN IF PastEnd(t) THEN fb_scroll(t) ELSE t

Screen == [fb |-> fb, cursor |-> fb_cursor]

Show(s) == fb' = s.fb /\ fb_cursor' = s.cursor

High(p) == (p \div RADIX) % RADIX
Low(p)  == p % RADIX

fb_move_cursor(p) ==
  /\ index' = 15
  /\ cursor_reg' = [cursor_reg EXCEPT ![14] = High(p), ![15] = Low(p)]

\* Faulty variant: the cursor on the screen stays behind.
fb_clearFaulty ==
  /\ fb' = [i \in Cells |-> Blank]
  /\ fb_cursor' = 0
  /\ UNCHANGED <<index, cursor_reg>>

fb_clear ==
  /\ fb' = [i \in Cells |-> Blank]
  /\ fb_cursor' = 0
  /\ fb_move_cursor(0)

-----------------------------------------------------------------------------
(* kmain, interrupted anywhere                                             *)

\* fb_clear, then idt_init turns interrupts on.
Init ==
  /\ KbInit
  /\ fb = [i \in Cells |-> Blank]
  /\ fb_cursor = 0
  /\ index = 15
  /\ cursor_reg = [r \in {14, 15} |-> 0]
  /\ outcome \in Outcomes
  /\ stage = "boot"
  /\ pos = 1
  /\ at = "read" /\ reg = 0
  /\ keys = 0
  /\ alone = TRUE

\* The character about to be written.
Current == Messages[outcome][pos]

Writing == stage = "boot" /\ Current # End

\* The cell's address for a character; the column for a newline.
ReadCursor ==
  /\ Writing /\ at = "read"
  /\ reg' = IF Current = Enter THEN fb_cursor % FB_COLS ELSE fb_cursor
  /\ at' = IF Current = Enter THEN "add" ELSE "cell"
  /\ UNCHANGED <<screenVars, stage, pos>>

WriteCell ==
  /\ Writing /\ at = "cell"
  /\ fb' = [fb EXCEPT ![reg] = Current]
  /\ at' = "add"
  /\ UNCHANGED <<fb_cursor, index, cursor_reg, stage, pos, reg>>

\* fb_cursor++ and fb_cursor += ...: read, add, and write back.
AddToCursor ==
  /\ Writing /\ at = "add"
  /\ reg' = IF Current = Enter THEN fb_cursor + FB_COLS - reg ELSE fb_cursor + 1
  /\ at' = "store"
  /\ UNCHANGED <<screenVars, stage, pos>>

StoreCursor ==
  /\ Writing /\ at = "store"
  /\ fb_cursor' = reg
  /\ pos' = pos + 1
  /\ at' = "check"
  /\ UNCHANGED <<fb, index, cursor_reg, stage, reg>>

\* The check for the end of the screen behind each character.
CheckEnd ==
  /\ stage = "boot" /\ at = "check"
  /\ Show(IF PastEnd(Screen) THEN fb_scroll(Screen) ELSE Screen)
  /\ at' = "read"
  /\ UNCHANGED <<index, cursor_reg, stage, pos, reg>>

\* The message is out: fb_move_cursor(fb_cursor), one port access at a time.
Written == stage = "boot" /\ Current = End

LoadPosition ==
  /\ Written /\ at = "read"
  /\ reg' = fb_cursor
  /\ at' = "high"
  /\ UNCHANGED <<screenVars, stage, pos>>

SelectRegister ==
  /\ Written /\ at \in {"high", "low"}
  /\ index' = IF at = "high" THEN 14 ELSE 15
  /\ at' = IF at = "high" THEN "high_data" ELSE "low_data"
  /\ UNCHANGED <<fb, fb_cursor, cursor_reg, stage, pos, reg>>

WriteHigh ==
  /\ Written /\ at = "high_data"
  /\ cursor_reg' = [cursor_reg EXCEPT ![index] = High(reg)]
  /\ at' = "low"
  /\ UNCHANGED <<fb, fb_cursor, index, stage, pos, reg>>

\* kmain goes on with its next message, or ends.
WriteLow ==
  /\ Written /\ at = "low_data"
  /\ cursor_reg' = [cursor_reg EXCEPT ![index] = Low(reg)]
  /\ at' = "read"
  /\ reg' = 0
  /\ pos' = pos + 1
  /\ stage' = IF pos = Len(Messages[outcome]) THEN StageAfter(outcome) ELSE stage
  /\ UNCHANGED <<fb, fb_cursor, index>>

kmain ==
  /\ \/ ReadCursor \/ WriteCell \/ AddToCursor \/ StoreCursor \/ CheckEnd
     \/ LoadPosition \/ SelectRegister \/ WriteHigh \/ WriteLow
  /\ keys' = IF stage' = "boot" THEN keys ELSE 0
  /\ alone' = (kb_line_buf = << >>)
  /\ UNCHANGED <<kbVars, outcome>>

-----------------------------------------------------------------------------
(* The echo and the system calls                                           *)

\* Faulty variant: a character the full line swallows is echoed too.
EchoesFaulty(key) ==
  /\ ~Dropped(key)
  /\ key = Backspace => kb_line_buf # << >>

\* The handler echoes the keys that change the line.
Echoes(key) ==
  /\ ~Dropped(key)
  /\ key = Backspace => Len(kb_line_buf) > 0
  /\ key \in Chars => Len(kb_line_buf) < KB_LINE_MAX - 1

Irq1(key) ==
  /\ stage \in {"boot", "spin", "halt", "user"}
  /\ stage = "boot" => keys < BootKeys
  /\ keys' = IF stage = "boot" THEN keys + 1 ELSE keys
  /\ keyboard_handler(key)
  /\ IF Echoes(key)
       THEN Show(Put(Screen, key)) /\ fb_move_cursor(fb_cursor')
       ELSE UNCHANGED screenVars
  /\ alone' = (alone \/ kb_line_buf' = << >>)
  /\ UNCHANGED <<kmainVars, outcome>>

\* A text of any length, one character after the other, and then the cursor.
SysWrite ==
  /\ stage = "user"
  /\ stage' = "write"
  /\ alone' = (kb_line_buf = << >>)
  /\ UNCHANGED <<screenVars, kbVars, pos, at, reg, outcome, keys>>

WriteCharacter(c) ==
  /\ stage = "write"
  /\ Show(Put(Screen, c))
  /\ UNCHANGED <<index, cursor_reg, kbVars, kmainVars, outcome, keys, alone>>

SysWriteReturn ==
  /\ stage = "write"
  /\ stage' = "user"
  /\ fb_move_cursor(fb_cursor)
  /\ UNCHANGED <<fb, fb_cursor, kbVars, pos, at, reg, outcome, keys, alone>>

SysClear ==
  /\ stage = "user"
  /\ fb_clear
  /\ alone' = (kb_line_buf = << >>)
  /\ UNCHANGED <<kbVars, kmainVars, outcome, keys>>

SysRead ==
  /\ stage = "user" /\ keyboard_has_line
  /\ keyboard_read_line
  /\ alone' = TRUE
  /\ UNCHANGED <<screenVars, kmainVars, outcome, keys>>

Next ==
  \/ kmain
  \/ \E key \in Keys : Irq1(key)
  \/ SysWrite
  \/ \E c \in Output : WriteCharacter(c)
  \/ SysWriteReturn
  \/ SysClear
  \/ SysRead

\* kmain goes on whenever no interrupt is being served.
Spec == Init /\ [][Next]_vars /\ WF_vars(kmain)

-----------------------------------------------------------------------------
\* The cursor never leaves the screen: no cell behind it is ever written,
\* not even by a boot message whose cursor an echo has moved meanwhile.
TypeOK ==
  /\ KbTypeOK
  /\ fb \in [Cells -> (Output \union Chars \union {Blank}) \ {Enter, Backspace}]
  /\ fb_cursor \in Cells
  /\ cursor_reg \in [{14, 15} -> 0 .. RADIX - 1]
  /\ at = "cell" => reg \in Cells
  /\ stage \in {"boot", "spin", "halt", "user", "write"}

TheTerminal == INSTANCE Terminal WITH
  Rows <- FB_ROWS, Columns <- FB_COLS, Newline <- Enter,
  Characters <- Output \union Chars \union {Enter, Backspace},
  live <- stage \in {"user", "write"},
  rows <- [r \in 1 .. FB_ROWS |->
             [c \in 1 .. FB_COLS |-> fb[(r - 1) * FB_COLS + c - 1]]],
  row <- fb_cursor \div FB_COLS + 1,
  col <- (fb_cursor % FB_COLS) + 1

\* From the first process on, the array of cells and the one number that is
\* the cursor behave as the rows and columns of Terminal: scrolling loses no
\* row, repeats none and leaves nothing behind, and a backspace at the start
\* of a row goes to the end of the one above.
TerminalSpec == TheTerminal!Spec

\* As long as only the echo has written since the line was empty, the cells
\* before the cursor show the line SYS_READ will return, also after
\* backspaces, in a full line and across a scroll.
EchoMatchesLine ==
  (stage = "user" /\ alone /\ ~kb_line_complete) =>
    /\ Len(kb_line_buf) <= fb_cursor
    /\ \A i \in 1 .. Len(kb_line_buf) :
         fb[fb_cursor - Len(kb_line_buf) + i - 1] = kb_line_buf[i]

\* Whatever kmain left in the registers, after boot every SYS_WRITE that
\* returns, and every echo and SYS_CLEAR that moves fb_cursor, shows it.
CursorShown ==
  [][(stage = "write" \/ (stage = "user" /\ fb_cursor' # fb_cursor))
        /\ stage' = "user" =>
       cursor_reg'[14] * RADIX + cursor_reg'[15] = fb_cursor']_vars

\* "The keyboard IRQ handler buffers keystrokes and echoes them to the
\* screen": a character echoed stays there until a backspace takes it.
EchoStays ==
  [][kb_line_buf' = kb_line_buf /\ stage = "boot" =>
       \A i \in Cells : fb[i] \in Chars => fb'[i] = fb[i]]_vars
=============================================================================
