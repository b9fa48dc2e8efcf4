--------------------------- MODULE ConsoleProofs ----------------------------
(***************************************************************************)
(* The screen, its cursor and the typed line, for every size of the screen *)
(* and of the line, all boot messages that fit, and texts of any length.   *)
(*                                                                         *)
(* While kmain writes with interrupts on, the cursor and the register it   *)
(* keeps over an interrupt are bounded by what is still to be written and  *)
(* typed: BootInv.  From then on fb_write is one step per character, and   *)
(* what such a step does to cursor and cells is said once, by lemmas about *)
(* Put.                                                                    *)
(***************************************************************************)
EXTENDS Console, FiniteSetTheorems, SequenceTheorems, TLAPS

Glyphs == (Output \union Chars \union {Blank}) \ {Enter, Backspace}

\* What fb_write is called with.
Writable == Output \union Chars \union {Enter, Backspace}

\* How far the keys that may still be pressed during boot can move the
\* cursor.  One newline completes the line, and then nothing is echoed.
Typing == BootKeys - keys + (IF kb_line_complete THEN 0 ELSE FB_COLS)

\* kmain's writes stay on the screen, whatever the echo does in between.
BootInv ==
  /\ pos \in 1 .. Len(Messages[outcome])
  /\ keys \in 0 .. BootKeys /\ reg \in Nat
  /\ fb_cursor + Ahead(outcome, pos) + Typing < FB_SIZE
  /\ at \in {"cell", "add", "store"} => Current # End
  /\ at \in {"high", "high_data", "low", "low_data"} => Current = End
  /\ at = "cell" =>
       Current # Enter /\ reg + Ahead(outcome, pos) + Typing < FB_SIZE
  /\ at = "add" /\ Current = Enter => reg < FB_COLS
  /\ at = "store" => reg + Ahead(outcome, pos + 1) + Typing < FB_SIZE

\* A system call that wrote behind a line begun by the user has ended alone.
ConsoleInv ==
  /\ TypeOK
  /\ outcome \in Outcomes /\ index \in {14, 15} /\ alone \in BOOLEAN
  /\ at \in {"read", "cell", "add", "store", "check", "high", "high_data", "low", "low_data"}
  /\ stage = "boot" => BootInv
  /\ stage # "boot" => at = "read"
  /\ stage = "write" /\ alone => kb_line_buf = << >>
  /\ EchoMatchesLine

-----------------------------------------------------------------------------
(* The constants                                                           *)

LEMMA Sizes ==
  /\ FB_COLS \in Nat /\ FB_COLS > 0 /\ FB_ROWS \in Nat /\ FB_ROWS > 0
  /\ FB_SIZE \in Nat /\ FB_COLS <= FB_SIZE
  /\ RADIX \in Nat /\ RADIX > 0 /\ BootKeys \in Nat
  /\ KB_LINE_MAX \in Nat /\ KB_LINE_MAX <= FB_SIZE - FB_COLS
<1>1. /\ FB_COLS \in Nat /\ FB_COLS > 0 /\ FB_ROWS \in Nat /\ FB_ROWS > 0
      /\ RADIX \in Nat /\ RADIX > 0 /\ BootKeys \in Nat
      /\ KB_LINE_MAX \in Nat /\ KB_LINE_MAX <= FB_SIZE - FB_COLS
  BY ConsoleAssumption, KeyboardAssumption
<1>2. FB_COLS * FB_ROWS \in Nat /\ FB_COLS <= FB_COLS * FB_ROWS
  BY <1>1
<1> QED BY <1>1, <1>2 DEF FB_SIZE

\* Column and row of a cell.
LEMMA Division ==
  ASSUME NEW x \in Nat, NEW d \in Nat, d > 0
  PROVE  /\ x \div d \in Nat /\ x % d \in Nat /\ x % d < d
         /\ x = d * (x \div d) + (x % d)
         /\ d * (x \div d) \in Nat
<1> DEFINE q == x \div d
           m == x % d
<1>0. x \in Nat /\ d \in Nat /\ d > 0
  OBVIOUS
<1>1. q \in Nat /\ m \in 0 .. d - 1
  BY <1>0
<1>2. x = d * q + m
  BY <1>0
<1> HIDE DEF q, m
<1>3. d * q \in Nat
  BY <1>0, <1>1
<1>4. q \in Nat /\ m \in Nat /\ m < d /\ x = d * q + m /\ d * q \in Nat
  BY <1>0, <1>1, <1>2, <1>3
<1> QED BY <1>4 DEF q, m

\* The cells still needed, after one more character of a boot message.
LEMMA AheadNat ==
  ASSUME NEW o \in Outcomes, NEW p \in Nat
  PROVE  /\ IsFiniteSet(Letters(o, p)) /\ IsFiniteSet(Newlines(o, p))
         /\ Cardinality(Letters(o, p)) \in Nat /\ Cardinality(Newlines(o, p)) \in Nat
         /\ Ahead(o, p) \in Nat
<1>1. Len(Messages[o]) \in Nat
  BY ConsoleAssumption
<1>2. IsFiniteSet(p .. Len(Messages[o]))
  BY <1>1, FS_Interval
<1>3. IsFiniteSet(Letters(o, p)) /\ IsFiniteSet(Newlines(o, p))
  BY <1>2, FS_Subset DEF Letters, Newlines
<1>4. Cardinality(Letters(o, p)) \in Nat /\ Cardinality(Newlines(o, p)) \in Nat
  BY <1>3, FS_CardinalityType
<1>5. FB_COLS * Cardinality(Newlines(o, p)) \in Nat
  BY <1>4, Sizes
<1> QED BY <1>3, <1>4, <1>5 DEF Ahead

LEMMA AheadNext ==
  ASSUME NEW o \in Outcomes, NEW p \in 1 .. Len(Messages[o])
  PROVE  /\ Messages[o][p] = Enter => Ahead(o, p) = Ahead(o, p + 1) + FB_COLS
         /\ Messages[o][p] = End => Ahead(o, p) = Ahead(o, p + 1)
         /\ Messages[o][p] \notin {Enter, End} => Ahead(o, p) = Ahead(o, p + 1) + 1
<1> DEFINE m == Messages[o]
           n == Cardinality(Newlines(o, p + 1))
           l == Cardinality(Letters(o, p + 1))
<1>0. Len(m) \in Nat /\ p \in Nat /\ p + 1 \in Nat
  BY ConsoleAssumption
<1>1. /\ IsFiniteSet(Letters(o, p + 1)) /\ IsFiniteSet(Newlines(o, p + 1))
      /\ n \in Nat /\ l \in Nat
  BY <1>0, AheadNat
<1>2. p \notin Letters(o, p + 1) /\ p \notin Newlines(o, p + 1)
  BY <1>0 DEF Letters, Newlines
<1>3. CASE m[p] = Enter
  <2>1. Letters(o, p) = Letters(o, p + 1)
    BY <1>0, <1>3 DEF Letters
  <2>2. Newlines(o, p) = Newlines(o, p + 1) \union {p}
    BY <1>0, <1>3 DEF Newlines
  <2>3. Cardinality(Newlines(o, p)) = n + 1
    BY <1>1, <1>2, <2>2, FS_AddElement
  <2>4. FB_COLS * (n + 1) = FB_COLS * n + FB_COLS /\ FB_COLS * n \in Nat
    BY <1>1, Sizes
  <2> HIDE DEF n, l
  <2>5. Ahead(o, p) = l + FB_COLS * (n + 1) /\ Ahead(o, p + 1) = l + FB_COLS * n
    BY <2>1, <2>3 DEF Ahead, l, n
  <2>6. Enter # End
    BY DEF Enter, End
  <2> QED BY <1>1, <1>3, <2>4, <2>5, <2>6, Sizes
<1>4. CASE m[p] = End
  <2>1. Enter # End
    BY DEF Enter, End
  <2>2. Letters(o, p) = Letters(o, p + 1) /\ Newlines(o, p) = Newlines(o, p + 1)
    BY <1>0, <1>4, <2>1 DEF Letters, Newlines
  <2>3. Ahead(o, p) = Ahead(o, p + 1) /\ Ahead(o, p + 1) \in Nat
    BY <1>0, <2>2, AheadNat DEF Ahead
  <2> QED BY <1>4, <2>1, <2>3
<1>5. CASE m[p] # Enter /\ m[p] # End
  <2>1. Newlines(o, p) = Newlines(o, p + 1)
    BY <1>0, <1>5 DEF Newlines
  <2>2. Letters(o, p) = Letters(o, p + 1) \union {p}
    BY <1>0, <1>5 DEF Letters
  <2>3. Cardinality(Letters(o, p)) = l + 1
    BY <1>1, <1>2, <2>2, FS_AddElement
  <2>4. FB_COLS * n \in Nat
    BY <1>1, Sizes
  <2> HIDE DEF n, l
  <2>5. Ahead(o, p) = l + 1 + FB_COLS * n /\ Ahead(o, p + 1) = l + FB_COLS * n
    BY <2>1, <2>3 DEF Ahead, l, n
  <2> QED BY <1>1, <1>5, <2>4, <2>5
<1> QED BY <1>3, <1>4, <1>5

-----------------------------------------------------------------------------
(* One character                                                           *)

\* Names of the control characters differ from each other.
LEMMA Controls ==
  /\ Enter # Backspace /\ Blank # Enter /\ Blank # Backspace /\ End # Enter
  /\ End # Backspace /\ NoKey # Enter /\ NoKey # Backspace
  /\ Enter \notin Chars /\ Backspace \notin Chars /\ NoKey \notin Chars
  BY KeyboardAssumption DEF Enter, Backspace, Blank, End, NoKey

\* Where the character leaves the cursor, and the cells, before scrolling.
LEMMA CharacterType ==
  ASSUME NEW f \in [Cells -> Glyphs], NEW p \in Cells, NEW c \in Writable
  PROVE  LET t == Character([fb |-> f, cursor |-> p], c) IN
         /\ t = [fb |-> t.fb, cursor |-> t.cursor]
         /\ t.fb \in [Cells -> Glyphs]
         /\ t.cursor \in 0 .. FB_SIZE
         /\ c = Backspace => t.cursor <= p
         /\ c = Enter => t.cursor <= p + FB_COLS
         /\ c \notin {Backspace, Enter} => t.cursor = p + 1
<1> DEFINE s == [fb |-> f, cursor |-> p]
           t == Character(s, c)
<1>0. p \in Nat /\ p < FB_SIZE /\ s.fb = f /\ s.cursor = p
  BY Sizes DEF Cells
<1>1. CASE c = Backspace
  <2>1. CASE p = 0
    BY <1>0, <1>1, <2>1, Sizes, Controls DEF Character
  <2>2. CASE p # 0
    <3>1. t = [fb |-> [f EXCEPT ![p - 1] = Blank], cursor |-> p - 1]
      BY <1>0, <1>1, <2>2, Controls DEF Character
    <3>2. p - 1 \in Cells
      BY <1>0, <2>2, Sizes DEF Cells
    <3>3. [f EXCEPT ![p - 1] = Blank] \in [Cells -> Glyphs]
      BY <3>2, Controls DEF Glyphs
    <3> HIDE DEF t
    <3>4. t.fb = [f EXCEPT ![p - 1] = Blank] /\ t.cursor = p - 1
      BY <3>1
    <3>5. t.cursor \in 0 .. FB_SIZE /\ t.cursor <= p
      BY <1>0, <2>2, <3>4, Sizes
    <3> QED BY <1>1, <3>1, <3>3, <3>4, <3>5, Controls DEF t
  <2> QED BY <2>1, <2>2
<1>2. CASE c = Enter
  <2>1. t = [fb |-> f, cursor |-> p + FB_COLS - (p % FB_COLS)]
    BY <1>0, <1>2, Controls DEF Character
  <2>2. /\ p % FB_COLS \in Nat /\ p % FB_COLS < FB_COLS
        /\ p = FB_COLS * (p \div FB_COLS) + (p % FB_COLS) /\ p \div FB_COLS \in Nat
    BY <1>0, Sizes, Division
  <2>3. p + FB_COLS - (p % FB_COLS) = FB_COLS * (p \div FB_COLS + 1)
    BY <1>0, <2>2, Sizes
  <2>4. FB_COLS * (p \div FB_COLS + 1) <= FB_SIZE
    <3> DEFINE r == p \div FB_COLS
    <3>1. r \in Nat /\ FB_COLS * r <= p
      BY <1>0, <2>2, Sizes
    <3> HIDE DEF r
    <3>2. FB_COLS * r < FB_COLS * FB_ROWS
      BY <1>0, <3>1, Sizes DEF FB_SIZE
    <3>3. r < FB_ROWS
      BY <3>1, <3>2, Sizes
    <3>4. FB_COLS * (r + 1) <= FB_COLS * FB_ROWS
      BY <3>1, <3>3, Sizes
    <3> QED BY <3>4 DEF FB_SIZE, r
  <2> HIDE DEF t
  <2>5. t.fb = f /\ t.cursor = p + FB_COLS - (p % FB_COLS)
    BY <2>1
  <2>6. t.cursor \in Nat /\ t.cursor <= p + FB_COLS
    <3> DEFINE m == p % FB_COLS
    <3>1. m \in Nat /\ m < FB_COLS /\ t.cursor = p + FB_COLS - m
      BY <2>2, <2>5
    <3> HIDE DEF m
    <3> QED BY <1>0, <3>1, Sizes
  <2>7. t.cursor <= FB_SIZE
    BY <2>3, <2>4, <2>5
  <2> QED BY <1>2, <2>1, <2>5, <2>6, <2>7, Sizes, Controls DEF t
<1>3. CASE c \notin {Backspace, Enter}
  <2>1. t = [fb |-> [f EXCEPT ![p] = c], cursor |-> p + 1]
    BY <1>0, <1>3 DEF Character
  <2>2. c \in Glyphs
    BY <1>3 DEF Writable, Glyphs
  <2> QED BY <1>0, <1>3, <2>1, <2>2, Sizes
<1> QED BY <1>1, <1>2, <1>3

\* The cursor stays on the screen.
LEMMA PutType ==
  ASSUME NEW f \in [Cells -> Glyphs], NEW p \in Cells, NEW c \in Writable
  PROVE  LET t == Put([fb |-> f, cursor |-> p], c) IN
         /\ t = [fb |-> t.fb, cursor |-> t.cursor]
         /\ t.fb \in [Cells -> Glyphs]
         /\ t.cursor \in Cells
         /\ t.cursor <= p + (CASE c = Backspace -> 0 [] c = Enter -> FB_COLS [] OTHER -> 1)
<1> DEFINE s == [fb |-> f, cursor |-> p]
           t == Character(s, c)
<1>0. p \in Nat /\ p < FB_SIZE
  BY Sizes DEF Cells
<1>1. /\ t = [fb |-> t.fb, cursor |-> t.cursor]
      /\ t.fb \in [Cells -> Glyphs]
      /\ t.cursor \in 0 .. FB_SIZE
      /\ c = Backspace => t.cursor <= p
      /\ c = Enter => t.cursor <= p + FB_COLS
      /\ c \notin {Backspace, Enter} => t.cursor = p + 1
  BY CharacterType
<1>2. t.cursor <= p + (CASE c = Backspace -> 0 [] c = Enter -> FB_COLS [] OTHER -> 1)
  BY <1>0, <1>1, Sizes, Controls
<1> HIDE DEF t
<1>3. CASE t.cursor = FB_SIZE
  <2>1. Put(s, c) = fb_scroll(t)
    BY <1>3, Sizes DEF Put, PastEnd, t
  <2>2. fb_scroll(t).cursor = FB_SIZE - FB_COLS
    BY DEF fb_scroll
  <2>3. FB_SIZE - FB_COLS \in Cells /\ FB_SIZE - FB_COLS <= t.cursor
    BY <1>3, Sizes DEF Cells
  <2>4. fb_scroll(t).fb \in [Cells -> Glyphs]
    <3>1. ASSUME NEW i \in Cells, i < FB_SIZE - FB_COLS PROVE i + FB_COLS \in Cells
      BY <3>1, Sizes DEF Cells
    <3>2. Blank \in Glyphs
      BY Controls DEF Glyphs
    <3> QED BY <1>1, <3>1, <3>2 DEF fb_scroll
  <2>5. fb_scroll(t) = [fb |-> fb_scroll(t).fb, cursor |-> fb_scroll(t).cursor]
    BY DEF fb_scroll
  <2> HIDE DEF s
  <2>6. p + (CASE c = Backspace -> 0 [] c = Enter -> FB_COLS [] OTHER -> 1) \in Int
    BY <1>0, Sizes, Controls
  <2> DEFINE up == p + (CASE c = Backspace -> 0 [] c = Enter -> FB_COLS [] OTHER -> 1)
  <2>7. FB_SIZE - FB_COLS <= up
    <3>1. t.cursor <= up /\ up \in Int
      BY <1>2, <2>6
    <3> HIDE DEF up
    <3> QED BY <1>3, <3>1, <2>3, Sizes
  <2> QED BY <2>1, <2>2, <2>3, <2>4, <2>5, <2>7 DEF s
<1>4. CASE t.cursor # FB_SIZE
  <2>1. Put(s, c) = t
    BY <1>1, <1>4, Sizes DEF Put, PastEnd, t
  <2>2. t.cursor \in Cells
    BY <1>1, <1>4, Sizes DEF Cells
  <2> QED BY <1>1, <1>2, <2>1, <2>2
<1> QED BY <1>3, <1>4

\* The line is on the screen, in the cells before cursor p.
Shows(f, p, line) ==
  /\ Len(line) <= p
  /\ \A i \in 1 .. Len(line) : f[p - Len(line) + i - 1] = line[i]

\* Scrolling moves the line and the cursor by the same distance.
LEMMA ScrollLine ==
  ASSUME NEW t, t.cursor = FB_SIZE, NEW line \in Seq(Chars),
         Len(line) <= FB_SIZE - FB_COLS, Shows(t.fb, FB_SIZE, line)
  PROVE  Shows(fb_scroll(t).fb, fb_scroll(t).cursor, line)
<1> DEFINE n == Len(line)
           b == FB_SIZE - FB_COLS
<1>1. n \in Nat /\ b \in Nat /\ n <= b /\ b + FB_COLS = FB_SIZE /\ b < FB_SIZE
  BY Sizes
<1>2. fb_scroll(t).cursor = b
  BY DEF fb_scroll
<1>3. \A j \in Cells : j < b => fb_scroll(t).fb[j] = t.fb[j + FB_COLS]
  BY DEF fb_scroll
<1>4. \A i \in 1 .. n : t.fb[FB_SIZE - n + i - 1] = line[i]
  BY DEF Shows
<1> HIDE DEF n, b
<1>5. ASSUME NEW i \in 1 .. n PROVE fb_scroll(t).fb[b - n + i - 1] = line[i]
  <2>1. /\ b - n + i - 1 \in Cells /\ b - n + i - 1 < b
        /\ b - n + i - 1 + FB_COLS = FB_SIZE - n + i - 1
    BY <1>1, Sizes DEF Cells
  <2> QED BY <1>3, <1>4, <2>1
<1> QED BY <1>1, <1>2, <1>5 DEF Shows, n

\* The echo of a character shows the longer line, also across a scroll.
LEMMA EchoCharacter ==
  ASSUME NEW f \in [Cells -> Glyphs], NEW p \in Cells, NEW line \in Seq(Chars),
         Shows(f, p, line), Len(line) < KB_LINE_MAX - 1, NEW c \in Chars
  PROVE  LET t == Put([fb |-> f, cursor |-> p], c) IN
         Shows(t.fb, t.cursor, Append(line, c))
<1> DEFINE s == [fb |-> f, cursor |-> p]
           t == Character(s, c)
           n == Len(line)
           next == Append(line, c)
<1>0. p \in Nat /\ p < FB_SIZE /\ n \in Nat /\ n <= p /\ n < KB_LINE_MAX - 1
  BY Sizes DEF Cells, Shows
<1>1. t = [fb |-> [f EXCEPT ![p] = c], cursor |-> p + 1]
  BY Controls DEF Character
<1>2. next \in Seq(Chars) /\ Len(next) = n + 1 /\ next[n + 1] = c
  OBVIOUS
<1>3. \A i \in 1 .. n : next[i] = line[i] /\ f[p - n + i - 1] = line[i]
  BY DEF Shows
<1> HIDE DEF t, n, next
<1>4. t.fb = [f EXCEPT ![p] = c] /\ t.cursor = p + 1
  BY <1>1
<1>5. ASSUME NEW i \in 1 .. n + 1 PROVE t.fb[p + 1 - (n + 1) + i - 1] = next[i]
  <2>1. p + 1 - (n + 1) + i - 1 = p - n + i - 1
    BY <1>0
  <2>2. CASE i = n + 1
    <3>1. p - n + i - 1 = p
      BY <1>0, <2>2
    <3> QED BY <1>2, <1>4, <2>1, <2>2, <3>1
  <2>3. CASE i # n + 1
    <3>1. i \in 1 .. n /\ p - n + i - 1 \in Cells /\ p - n + i - 1 # p
      BY <1>0, <2>3, Sizes DEF Cells
    <3>2. t.fb[p - n + i - 1] = f[p - n + i - 1]
      BY <1>4, <3>1
    <3> QED BY <1>3, <2>1, <3>1, <3>2
  <2> QED BY <2>2, <2>3
<1>6. Shows(t.fb, t.cursor, next)
  BY <1>0, <1>2, <1>4, <1>5 DEF Shows
<1>7. CASE t.cursor = FB_SIZE
  <2>1. Put(s, c) = fb_scroll(t)
    BY <1>7, Sizes DEF Put, PastEnd, t
  <2>2. Shows(fb_scroll(t).fb, fb_scroll(t).cursor, next)
    BY <1>0, <1>2, <1>6, <1>7, ScrollLine, Sizes
  <2> QED BY <2>1, <2>2 DEF next
<1>8. CASE t.cursor # FB_SIZE
  <2>1. Put(s, c) = t
    BY <1>0, <1>4, <1>8, Sizes DEF Put, PastEnd, t
  <2> QED BY <1>6, <2>1 DEF next
<1> QED BY <1>7, <1>8

\* The echo of a backspace takes the last character of the line.
LEMMA EchoBackspace ==
  ASSUME NEW f \in [Cells -> Glyphs], NEW p \in Cells, NEW line \in Seq(Chars),
         Shows(f, p, line), Len(line) > 0
  PROVE  LET t == Put([fb |-> f, cursor |-> p], Backspace) IN
         Shows(t.fb, t.cursor, Erased(line))
<1> DEFINE s == [fb |-> f, cursor |-> p]
           t == Character(s, Backspace)
           n == Len(line)
           next == Erased(line)
<1>0. p \in Nat /\ p < FB_SIZE /\ n \in Nat /\ n <= p /\ n > 0
  BY Sizes DEF Cells, Shows
<1>1. t = [fb |-> [f EXCEPT ![p - 1] = Blank], cursor |-> p - 1]
  BY <1>0, Controls DEF Character
<1>2. Len(next) = n - 1 /\ \A i \in 1 .. n - 1 : next[i] = line[i]
  <2>1. next = SubSeq(line, 1, n - 1)
    BY <1>0 DEF Erased
  <2>2. n - 1 \in 0 .. Len(line) /\ line \in Seq(Chars)
    BY <1>0
  <2> HIDE DEF next, n
  <2> QED BY <2>1, <2>2, <1>0, SubSeqProperties
<1>3. \A i \in 1 .. n : f[p - n + i - 1] = line[i]
  BY DEF Shows
<1> HIDE DEF t, n, next
<1>4. t.fb = [f EXCEPT ![p - 1] = Blank] /\ t.cursor = p - 1
  BY <1>1
<1>5. ASSUME NEW i \in 1 .. n - 1 PROVE t.fb[p - 1 - (n - 1) + i - 1] = next[i]
  <2>1. /\ p - 1 - (n - 1) + i - 1 = p - n + i - 1 /\ i \in 1 .. n
        /\ p - n + i - 1 \in Cells /\ p - n + i - 1 # p - 1
    BY <1>0, Sizes DEF Cells
  <2>2. t.fb[p - n + i - 1] = f[p - n + i - 1]
    BY <1>4, <2>1
  <2> QED BY <1>2, <1>3, <2>1, <2>2
<1>6. Shows(t.fb, t.cursor, next)
  BY <1>0, <1>2, <1>4, <1>5 DEF Shows
<1>7. Put(s, Backspace) = t
  BY <1>0, <1>4, Sizes DEF Put, PastEnd, t
<1> QED BY <1>6, <1>7 DEF next

-----------------------------------------------------------------------------
(* The invariant                                                           *)

LEMMA NoLine == << >> \in Seq(Chars) /\ Len(<< >>) = 0 /\ 0 < KB_LINE_MAX
  BY KeyboardAssumption

LEMMA HandlerType ==
  ASSUME KbTypeOK, NEW key \in Keys, keyboard_handler(key)
  PROVE  KbTypeOK'
<1>1. /\ kb_line_buf \in Seq(Chars) /\ Len(kb_line_buf) \in Nat
      /\ Len(kb_line_buf) < KB_LINE_MAX /\ KB_LINE_MAX \in Nat
      /\ kb_line_complete \in BOOLEAN
  BY Sizes DEF KbTypeOK
<1>2. CASE Dropped(key) /\ UNCHANGED kbVars
  BY <1>1, <1>2 DEF KbTypeOK, kbVars
<1>3. CASE key = Enter /\ kb_line_complete' = TRUE /\ UNCHANGED kb_line_buf
  BY <1>1, <1>3 DEF KbTypeOK
<1>4. CASE kb_line_buf' = Erased(kb_line_buf) /\ UNCHANGED kb_line_complete
  BY <1>1, <1>4 DEF KbTypeOK, Erased
<1>5. CASE key \in Chars /\ kb_line_buf' = Typed(kb_line_buf, key) /\ UNCHANGED kb_line_complete
  BY <1>1, <1>5 DEF KbTypeOK, Typed
<1> QED BY <1>2, <1>3, <1>4, <1>5 DEF keyboard_handler

\* The parts of the invariant that a step of kmain can disturb.
BootCore ==
  /\ fb \in [Cells -> Glyphs] /\ fb_cursor \in Cells
  /\ cursor_reg \in [{14, 15} -> 0 .. RADIX - 1] /\ index \in {14, 15}
  /\ at \in {"read", "cell", "add", "store", "check", "high", "high_data", "low", "low_data"}
  /\ at = "cell" => reg \in Cells
  /\ stage \in {"boot", "spin", "halt", "user"}
  /\ stage = "boot" => BootInv
  /\ stage # "boot" => at = "read"

LEMMA TypingNat ==
  ASSUME kb_line_complete \in BOOLEAN, keys \in 0 .. BootKeys
  PROVE  Typing \in Nat
  BY Sizes DEF Typing

\* The character at kmain's position.
LEMMA CurrentIs ==
  ASSUME outcome \in Outcomes, pos \in 1 .. Len(Messages[outcome])
  PROVE  /\ Current \in (Output \ {Backspace}) \union {End}
         /\ pos \in Nat /\ pos <= Len(Messages[outcome]) /\ Len(Messages[outcome]) \in Nat
         /\ Messages[outcome][Len(Messages[outcome])] = End
<1>1. /\ Messages[outcome] \in Seq((Output \ {Backspace}) \union {End})
      /\ Messages[outcome][Len(Messages[outcome])] = End
  BY ConsoleAssumption
<1> QED BY <1>1 DEF Current

LEMMA Registers ==
  ASSUME NEW p \in Nat
  PROVE  High(p) \in 0 .. RADIX - 1 /\ Low(p) \in 0 .. RADIX - 1
<1>1. p \div RADIX \in Nat
  BY Sizes, Division
<1> QED BY <1>1, Sizes, Division DEF High, Low

LEMMA KmainCore ==
  ASSUME ConsoleInv, kmain
  PROVE  BootCore'
<1> DEFINE a == Ahead(outcome, pos)
           b == Ahead(outcome, pos + 1)
<1>1. /\ stage = "boot" /\ BootInv /\ TypeOK /\ outcome \in Outcomes
      /\ index \in {14, 15}
  BY DEF ConsoleInv, kmain, ReadCursor, WriteCell, AddToCursor, StoreCursor, CheckEnd,
         LoadPosition, SelectRegister, WriteHigh, WriteLow, Writing, Written
<1>2. /\ outcome' = outcome /\ kb_line_complete' = kb_line_complete
      /\ stage' = "boot" => keys' = keys
  BY DEF kmain, kbVars
<1>3. /\ fb \in [Cells -> Glyphs] /\ fb_cursor \in Cells
      /\ fb_cursor \in Nat /\ fb_cursor < FB_SIZE
      /\ cursor_reg \in [{14, 15} -> 0 .. RADIX - 1]
  BY <1>1, Sizes DEF TypeOK, Glyphs, Cells
<1>4. /\ pos \in 1 .. Len(Messages[outcome]) /\ pos \in Nat
      /\ Len(Messages[outcome]) \in Nat
      /\ keys \in 0 .. BootKeys /\ reg \in Nat
      /\ Current \in (Output \ {Backspace}) \union {End}
  BY <1>1, CurrentIs DEF BootInv
<1>5. Typing \in Nat
  BY <1>1, <1>4, TypingNat DEF TypeOK, KbTypeOK
<1>6. stage' = "boot" => Typing' = Typing
  BY <1>2 DEF Typing
<1>7. a \in Nat /\ b \in Nat
  <2>1. pos + 1 \in Nat
    BY <1>4
  <2>2. \A p \in Nat : Ahead(outcome, p) \in Nat
    BY <1>1, AheadNat, Zenon
  <2> QED BY <1>4, <2>1, <2>2
<1>8. /\ Current = Enter => a = b + FB_COLS
      /\ Current = End => a = b
      /\ Current \notin {Enter, End} => a = b + 1
  BY <1>1, <1>4, AheadNext DEF Current
<1>9. fb_cursor + a + Typing < FB_SIZE
  BY <1>1 DEF BootInv
<1> HIDE DEF a, b
<1>10. CASE ReadCursor
  <2>1. /\ stage' = "boot" /\ pos' = pos /\ at = "read" /\ Current # End
        /\ UNCHANGED <<fb, fb_cursor, index, cursor_reg>>
        /\ Current' = Current
    BY <1>1, <1>2, <1>10 DEF ReadCursor, Writing, screenVars, Current
  <2>2. CASE Current = Enter
    <3>1. reg' = fb_cursor % FB_COLS /\ at' = "add"
      BY <1>10, <2>2 DEF ReadCursor
    <3>2. reg' \in Nat /\ reg' < FB_COLS
      BY <1>3, <3>1, Sizes, Division
    <3> QED BY <1>1, <1>2, <1>3, <1>4, <1>6, <1>9, <2>1, <2>2, <3>1, <3>2 DEF BootCore, BootInv, a
  <2>3. CASE Current # Enter
    <3>1. reg' = fb_cursor /\ at' = "cell"
      BY <1>10, <2>3 DEF ReadCursor
    <3> QED BY <1>1, <1>2, <1>3, <1>4, <1>6, <1>9, <2>1, <2>3, <3>1 DEF BootCore, BootInv, a
  <2> QED BY <2>2, <2>3
<1>11. CASE WriteCell
  <2>1. /\ stage' = "boot" /\ pos' = pos /\ at = "cell" /\ at' = "add" /\ Current # End
        /\ UNCHANGED <<fb_cursor, index, cursor_reg, reg>>
        /\ fb' = [fb EXCEPT ![reg] = Current]
        /\ Current' = Current
    BY <1>1, <1>2, <1>11 DEF WriteCell, Writing, Current
  <2>2. reg \in Cells /\ Current # Enter
    BY <1>1, <2>1 DEF TypeOK, BootInv
  <2>3. fb' \in [Cells -> Glyphs]
    BY <1>3, <1>4, <2>1, <2>2 DEF Glyphs
  <2> QED BY <1>1, <1>2, <1>3, <1>4, <1>6, <1>9, <2>1, <2>2, <2>3 DEF BootCore, BootInv, a
<1>12. CASE AddToCursor
  <2>1. /\ stage' = "boot" /\ pos' = pos /\ at = "add" /\ at' = "store" /\ Current # End
        /\ UNCHANGED <<fb, fb_cursor, index, cursor_reg>>
        /\ reg' = IF Current = Enter THEN fb_cursor + FB_COLS - reg ELSE fb_cursor + 1
        /\ Current' = Current
    BY <1>1, <1>2, <1>12 DEF AddToCursor, Writing, screenVars, Current
  <2>2. Current = Enter => reg < FB_COLS
    BY <1>1, <2>1 DEF BootInv
  <2>3. reg' \in Nat /\ reg' + b + Typing < FB_SIZE
    BY <1>3, <1>4, <1>5, <1>7, <1>8, <1>9, <2>1, <2>2, Sizes
  <2> QED BY <1>1, <1>2, <1>3, <1>4, <1>6, <1>9, <2>1, <2>3 DEF BootCore, BootInv, a, b
<1>13. CASE StoreCursor
  <2>1. /\ stage' = "boot" /\ pos' = pos + 1 /\ at = "store" /\ at' = "check" /\ Current # End
        /\ UNCHANGED <<fb, index, cursor_reg, reg>>
        /\ fb_cursor' = reg
    BY <1>1, <1>13 DEF StoreCursor, Writing
  <2>2. reg + b + Typing < FB_SIZE
    BY <1>1, <2>1 DEF BootInv, b
  <2>3. reg \in Cells
    BY <1>4, <1>5, <1>7, <2>2, Sizes DEF Cells
  <2>4. pos + 1 \in 1 .. Len(Messages[outcome])
    <3>1. Messages[outcome][Len(Messages[outcome])] = End
      BY <1>1, <1>4, CurrentIs
    <3>2. pos # Len(Messages[outcome])
      BY <2>1, <3>1 DEF Current
    <3> QED BY <1>4, <3>2
  <2> QED BY <1>1, <1>2, <1>3, <1>4, <1>6, <2>1, <2>2, <2>3, <2>4 DEF BootCore, BootInv, b
<1>14. CASE LoadPosition
  <2>1. /\ stage' = "boot" /\ pos' = pos /\ at = "read" /\ at' = "high" /\ Current = End
        /\ UNCHANGED <<fb, fb_cursor, index, cursor_reg>>
        /\ reg' = fb_cursor
        /\ Current' = Current
    BY <1>1, <1>2, <1>14 DEF LoadPosition, Written, screenVars, Current
  <2> QED BY <1>1, <1>2, <1>3, <1>4, <1>6, <1>9, <2>1 DEF BootCore, BootInv, a
<1>15. CASE SelectRegister
  <2>1. /\ stage' = "boot" /\ pos' = pos /\ at' \in {"high_data", "low_data"} /\ Current = End
        /\ UNCHANGED <<fb, fb_cursor, cursor_reg, reg>>
        /\ index' \in {14, 15}
        /\ Current' = Current
    BY <1>1, <1>2, <1>15 DEF SelectRegister, Written, Current
  <2> QED BY <1>1, <1>2, <1>3, <1>4, <1>6, <1>9, <2>1 DEF BootCore, BootInv, a
<1>16. CASE WriteHigh
  <2>1. /\ stage' = "boot" /\ pos' = pos /\ at' = "low" /\ Current = End
        /\ UNCHANGED <<fb, fb_cursor, index, reg>>
        /\ cursor_reg' = [cursor_reg EXCEPT ![index] = High(reg)]
        /\ Current' = Current
    BY <1>1, <1>2, <1>16 DEF WriteHigh, Written, Current
  <2>2. cursor_reg' \in [{14, 15} -> 0 .. RADIX - 1]
    BY <1>1, <1>3, <1>4, <2>1, Registers
  <2> QED BY <1>1, <1>2, <1>3, <1>4, <1>6, <1>9, <2>1, <2>2 DEF BootCore, BootInv, a
<1>17. CASE WriteLow
  <2>1. /\ pos' = pos + 1 /\ at' = "read" /\ reg' = 0 /\ Current = End
        /\ UNCHANGED <<fb, fb_cursor, index>>
        /\ cursor_reg' = [cursor_reg EXCEPT ![index] = Low(reg)]
        /\ stage' = IF pos = Len(Messages[outcome]) THEN StageAfter(outcome) ELSE stage
    BY <1>1, <1>17 DEF WriteLow, Written
  <2>2. cursor_reg' \in [{14, 15} -> 0 .. RADIX - 1]
    BY <1>1, <1>3, <1>4, <2>1, Registers
  <2>3. StageAfter(outcome) \in {"spin", "halt", "user"}
    BY <1>1 DEF StageAfter
  <2>4. CASE stage' # "boot"
    <3>1. stage' \in {"spin", "halt", "user"}
      BY <1>1, <2>1, <2>3, <2>4
    <3> QED BY <1>1, <1>3, <2>1, <2>2, <3>1 DEF BootCore
  <2>5. CASE stage' = "boot"
    <3>1. pos + 1 \in 1 .. Len(Messages[outcome])
      BY <1>4, <2>1, <2>3, <2>5
    <3>2. fb_cursor + b + Typing < FB_SIZE
      BY <1>8, <1>9, <2>1
    <3> QED BY <1>1, <1>2, <1>3, <1>4, <1>6, <2>1, <2>2, <2>5, <3>1, <3>2 DEF BootCore, BootInv, b
  <2> QED BY <2>4, <2>5
<1>18. CASE CheckEnd
  <2>1. Screen.cursor = fb_cursor /\ Screen.fb = fb
    BY DEF Screen
  <2>2. ~PastEnd(Screen)
    BY <1>3, <2>1, Sizes DEF PastEnd
  <2>3. /\ stage' = "boot" /\ pos' = pos /\ at' = "read"
        /\ UNCHANGED <<fb, fb_cursor, index, cursor_reg, reg>>
        /\ Current' = Current
    BY <1>1, <1>2, <1>18, <2>1, <2>2 DEF CheckEnd, Show, Current
  <2> QED BY <1>1, <1>2, <1>3, <1>4, <1>6, <1>9, <2>3 DEF BootCore, BootInv, a
<1> QED
  BY <1>10, <1>11, <1>12, <1>13, <1>14, <1>15, <1>16, <1>17, <1>18 DEF kmain

\* kmain writes and goes on or ends: alone is TRUE behind it only if no line
\* has been begun.
LEMMA KmainInv ==
  ASSUME ConsoleInv, kmain
  PROVE  ConsoleInv'
<1>1. BootCore'
  BY KmainCore
<1>2. /\ KbTypeOK /\ outcome \in Outcomes
      /\ alone' = (kb_line_buf = << >>)
      /\ UNCHANGED <<kb_line_buf, kb_line_complete, outcome>>
  BY DEF ConsoleInv, TypeOK, kmain, kbVars
<1>3. KbTypeOK'
  BY <1>2 DEF KbTypeOK
<1>4. TypeOK'
  BY <1>1, <1>3 DEF BootCore, TypeOK, Glyphs
<1>5. EchoMatchesLine'
  <2>1. alone' => kb_line_buf' = << >>
    BY <1>2
  <2>2. fb_cursor' \in Nat
    BY <1>1, Sizes DEF BootCore, Cells
  <2> QED BY <2>1, <2>2 DEF EchoMatchesLine
<1>6. ~(stage' = "write")
  BY <1>1 DEF BootCore
<1>7. alone' \in BOOLEAN
  BY <1>2
<1> QED BY <1>1, <1>2, <1>4, <1>5, <1>6, <1>7 DEF ConsoleInv, BootCore

\* What an interrupt by the keyboard does to screen, cursor and line.
LEMMA EchoStep ==
  ASSUME ConsoleInv, NEW key \in Keys, Irq1(key)
  PROVE  /\ KbTypeOK'
         /\ fb' \in [Cells -> Glyphs] /\ fb_cursor' \in Cells
         /\ cursor_reg' \in [{14, 15} -> 0 .. RADIX - 1] /\ index' \in {14, 15}
         /\ fb_cursor' <= fb_cursor
              + (IF kb_line_complete' = kb_line_complete THEN 1 ELSE FB_COLS)
         /\ kb_line_complete => kb_line_complete'
<1>1. /\ KbTypeOK /\ fb \in [Cells -> Glyphs] /\ fb_cursor \in Cells
      /\ fb_cursor \in Nat /\ fb_cursor < FB_SIZE
      /\ cursor_reg \in [{14, 15} -> 0 .. RADIX - 1] /\ index \in {14, 15}
  BY Sizes DEF ConsoleInv, TypeOK, Glyphs, Cells
<1>2. keyboard_handler(key)
  BY DEF Irq1
<1>3. KbTypeOK'
  BY <1>1, <1>2, HandlerType
<1>4. kb_line_complete => kb_line_complete' = kb_line_complete
  BY <1>2 DEF keyboard_handler, Dropped, kbVars
<1>5. CASE ~Echoes(key)
  <2>1. UNCHANGED <<fb, fb_cursor, index, cursor_reg>>
    BY <1>5 DEF Irq1, screenVars
  <2>2. fb_cursor' <= fb_cursor + (IF kb_line_complete' = kb_line_complete THEN 1 ELSE FB_COLS)
    BY <1>1, <2>1, Sizes
  <2> QED BY <1>1, <1>3, <1>4, <2>1, <2>2
<1>6. CASE Echoes(key)
  <2>1. /\ fb' = Put(Screen, key).fb /\ fb_cursor' = Put(Screen, key).cursor
        /\ index' = 15
        /\ cursor_reg' = [cursor_reg EXCEPT ![14] = High(fb_cursor'), ![15] = Low(fb_cursor')]
    BY <1>6 DEF Irq1, Show, fb_move_cursor
  <2>2. key \in Writable
    BY <1>6 DEF Keys, Echoes, Dropped, Writable
  <2>3. /\ fb' \in [Cells -> Glyphs] /\ fb_cursor' \in Cells
        /\ fb_cursor' <= fb_cursor
             + (CASE key = Backspace -> 0 [] key = Enter -> FB_COLS [] OTHER -> 1)
    BY <1>1, <2>1, <2>2, PutType DEF Screen
  <2>4. fb_cursor' \in Nat
    BY <2>3, Sizes DEF Cells
  <2>5. cursor_reg' \in [{14, 15} -> 0 .. RADIX - 1]
    BY <1>1, <2>1, <2>4, Registers
  <2>6. key = Enter => kb_line_complete' # kb_line_complete
    BY <1>2, <1>6, Controls DEF keyboard_handler, Echoes, Dropped
  <2>7. fb_cursor' <= fb_cursor + (IF kb_line_complete' = kb_line_complete THEN 1 ELSE FB_COLS)
    <3>1. CASE key = Enter
      BY <1>1, <2>3, <2>4, <2>6, <3>1, Sizes, Controls
    <3>2. CASE key # Enter
      <4>1. fb_cursor' <= fb_cursor + 1
        BY <1>1, <2>3, <2>4, <3>2, Sizes
      <4> QED BY <1>1, <2>4, <4>1, Sizes
    <3> QED BY <3>1, <3>2
  <2> QED BY <1>3, <1>4, <2>1, <2>3, <2>5, <2>7
<1> QED BY <1>5, <1>6

\* An echo during boot uses up what Typing has set aside for it.
LEMMA Irq1Boot ==
  ASSUME ConsoleInv, NEW key \in Keys, Irq1(key), stage = "boot"
  PROVE  BootInv'
<1> DEFINE a == Ahead(outcome, pos)
           b == Ahead(outcome, pos + 1)
<1>1. /\ BootInv /\ outcome \in Outcomes /\ kb_line_complete \in BOOLEAN
      /\ fb_cursor \in Nat /\ keys < BootKeys /\ keys' = keys + 1
      /\ UNCHANGED <<stage, pos, at, reg, outcome>>
  BY Sizes DEF ConsoleInv, TypeOK, KbTypeOK, Cells, Irq1, kmainVars
<1>2. /\ keys \in 0 .. BootKeys /\ reg \in Nat /\ Current' = Current
      /\ pos \in 1 .. Len(Messages[outcome]) /\ pos \in Nat
  BY <1>1, CurrentIs DEF BootInv, Current
<1>3. /\ fb_cursor' \in Nat /\ kb_line_complete' \in BOOLEAN
      /\ fb_cursor' <= fb_cursor + (IF kb_line_complete' = kb_line_complete THEN 1 ELSE FB_COLS)
      /\ kb_line_complete => kb_line_complete'
  BY EchoStep, Sizes DEF KbTypeOK, Cells
<1>4. Typing \in Nat
  BY <1>1, <1>2, TypingNat
<1>5. a \in Nat /\ b \in Nat
  <2>1. pos + 1 \in Nat
    BY <1>2
  <2>2. \A p \in Nat : Ahead(outcome, p) \in Nat
    BY <1>1, AheadNat, Zenon
  <2> QED BY <1>2, <2>1, <2>2
<1>w. PICK w : w = fb_cursor'
  OBVIOUS
<1>n. /\ fb_cursor \in Nat /\ w \in Nat
      /\ keys \in Nat /\ keys < BootKeys /\ keys' = keys + 1
  BY <1>1, <1>2, <1>3, <1>w
<1>y. PICK y : y = Typing
  OBVIOUS
<1>z. PICK z : z = Typing'
  OBVIOUS
<1>6. z \in Nat /\ z <= y - 1 /\ w + z <= fb_cursor + y
  <2>1. CASE kb_line_complete' = kb_line_complete
    <3> DEFINE k == IF kb_line_complete THEN 0 ELSE FB_COLS
    <3>1. y = BootKeys - keys + k /\ z = BootKeys - keys' + k
      BY <1>y, <1>z, <2>1 DEF Typing
    <3>2. k \in Nat /\ w <= fb_cursor + 1
      BY <1>3, <1>w, <2>1, Sizes
    <3> HIDE DEF k
    <3> QED BY <1>n, <3>1, <3>2, Sizes
  <2>2. CASE kb_line_complete' # kb_line_complete
    <3>1. kb_line_complete' = TRUE /\ kb_line_complete = FALSE
      BY <1>1, <1>3, <2>2
    <3>2. y = BootKeys - keys + FB_COLS /\ z = BootKeys - keys'
      BY <1>y, <1>z, <1>n, <3>1, Sizes DEF Typing
    <3>3. w <= fb_cursor + FB_COLS
      BY <1>3, <1>w, <2>2
    <3> QED BY <1>n, <3>2, <3>3, Sizes
  <2> QED BY <2>1, <2>2
<1>7. y \in Nat
  BY <1>4, <1>y
<1> HIDE DEF a, b
<1>8. w + a + z < FB_SIZE
  <2>1. fb_cursor + a + y < FB_SIZE
    BY <1>1, <1>y DEF BootInv, a
  <2> QED BY <1>n, <1>5, <1>6, <1>7, <2>1, Sizes
<1>9. at = "cell" => Current # Enter /\ reg + a + z < FB_SIZE
  <2>1. at = "cell" => Current # Enter /\ reg + a + y < FB_SIZE
    BY <1>1, <1>y DEF BootInv, a
  <2> QED BY <1>2, <1>5, <1>6, <1>7, <2>1, Sizes
<1>10. at = "store" => reg + b + z < FB_SIZE
  <2>1. at = "store" => reg + b + y < FB_SIZE
    BY <1>1, <1>y DEF BootInv, b
  <2> QED BY <1>2, <1>5, <1>6, <1>7, <2>1, Sizes
<1>11. keys' \in 0 .. BootKeys
  BY <1>1, <1>2, Sizes
<1> QED BY <1>1, <1>2, <1>8, <1>9, <1>10, <1>11, <1>w, <1>z DEF BootInv, a, b

\* An echo shows the line that it changes.
LEMMA Irq1Line ==
  ASSUME ConsoleInv, NEW key \in Keys, Irq1(key)
  PROVE  EchoMatchesLine'
<1> SUFFICES ASSUME stage' = "user", alone', ~kb_line_complete'
             PROVE  Shows(fb', fb_cursor', kb_line_buf')
  BY DEF EchoMatchesLine, Shows
<1>1. /\ KbTypeOK /\ fb \in [Cells -> Glyphs] /\ fb_cursor \in Cells
      /\ kb_line_buf \in Seq(Chars)
  BY DEF ConsoleInv, TypeOK, Glyphs, KbTypeOK
<1>2. /\ keyboard_handler(key) /\ stage = "user"
      /\ alone' = (alone \/ kb_line_buf' = << >>)
  BY DEF Irq1, kmainVars
<1>3. KbTypeOK' /\ fb_cursor' \in Nat
  BY EchoStep, Sizes DEF Cells
<1>4. CASE kb_line_buf' = << >>
  BY <1>3, <1>4 DEF Shows
<1>5. CASE kb_line_buf' # << >>
  <2>1. alone
    BY <1>2, <1>5
  <2>2. ~kb_line_complete
    BY EchoStep
  <2>3. Shows(fb, fb_cursor, kb_line_buf)
    BY <1>2, <2>1, <2>2 DEF ConsoleInv, EchoMatchesLine, Shows
  <2>4. CASE ~Echoes(key)
    <3>1. UNCHANGED <<fb, fb_cursor>>
      BY <2>4 DEF Irq1, screenVars
    <3>2. kb_line_buf' = kb_line_buf
      BY <1>1, <1>2, <2>4, Controls
        DEF keyboard_handler, Echoes, Dropped, kbVars, Erased, Typed
    <3> QED BY <2>3, <3>1, <3>2
  <2>5. CASE Echoes(key)
    <3>1. fb' = Put(Screen, key).fb /\ fb_cursor' = Put(Screen, key).cursor
      BY <2>5 DEF Irq1, Show
    <3>2. ~Dropped(key) /\ key # Enter
      BY <1>2, <2>5, Controls DEF Echoes, keyboard_handler
    <3>3. CASE key = Backspace
      <4>1. kb_line_buf' = Erased(kb_line_buf) /\ Len(kb_line_buf) > 0
        BY <1>2, <2>5, <3>2, <3>3, Controls DEF Echoes, keyboard_handler
      <4> QED BY <1>1, <2>3, <3>1, <3>3, <4>1, EchoBackspace DEF Screen
    <3>4. CASE key \in Chars
      <4>1. kb_line_buf' = Append(kb_line_buf, key) /\ Len(kb_line_buf) < KB_LINE_MAX - 1
        BY <1>2, <2>5, <3>2, <3>4, Controls DEF Echoes, keyboard_handler, Typed
      <4> QED BY <1>1, <2>3, <3>1, <3>4, <4>1, EchoCharacter DEF Screen
    <3> QED BY <3>2, <3>3, <3>4 DEF Keys, Dropped
  <2> QED BY <2>4, <2>5
<1> QED BY <1>4, <1>5

LEMMA Irq1Inv ==
  ASSUME ConsoleInv, NEW key \in Keys, Irq1(key)
  PROVE  ConsoleInv'
<1>1. UNCHANGED <<stage, pos, at, reg, outcome>> /\ stage # "write"
  BY DEF Irq1, kmainVars
<1>2. TypeOK'
  BY <1>1, EchoStep DEF ConsoleInv, TypeOK, Glyphs
<1>3. stage' = "boot" => BootInv'
  BY <1>1, Irq1Boot
<1>4. index' \in {14, 15}
  BY EchoStep
<1>5. alone' \in BOOLEAN
  BY DEF Irq1
<1> QED BY <1>1, <1>2, <1>3, <1>4, <1>5, Irq1Line DEF ConsoleInv

LEMMA SysWriteInv ==
  ASSUME ConsoleInv, SysWrite
  PROVE  ConsoleInv'
<1>1. /\ stage = "user" /\ stage' = "write" /\ alone' = (kb_line_buf = << >>)
      /\ UNCHANGED <<fb, fb_cursor, index, cursor_reg, kb_line_buf, kb_line_complete>>
      /\ UNCHANGED <<pos, at, reg, outcome>>
  BY DEF SysWrite, screenVars, kbVars
<1>2. TypeOK'
  BY <1>1 DEF ConsoleInv, TypeOK, KbTypeOK
<1>3. EchoMatchesLine' /\ (alone' => kb_line_buf' = << >>) /\ alone' \in BOOLEAN
  BY <1>1 DEF EchoMatchesLine
<1> QED BY <1>1, <1>2, <1>3 DEF ConsoleInv

LEMMA WriteCharacterInv ==
  ASSUME ConsoleInv, NEW c \in Output, WriteCharacter(c)
  PROVE  ConsoleInv'
<1>1. /\ stage = "write"
      /\ fb' = Put(Screen, c).fb /\ fb_cursor' = Put(Screen, c).cursor
      /\ UNCHANGED <<index, cursor_reg, kb_line_buf, kb_line_complete>>
      /\ UNCHANGED <<stage, pos, at, reg, outcome, alone>>
  BY DEF WriteCharacter, Show, kbVars, kmainVars
<1>2. fb \in [Cells -> Glyphs] /\ fb_cursor \in Cells /\ c \in Writable
  BY DEF ConsoleInv, TypeOK, Glyphs, Writable
<1>3. fb' \in [Cells -> Glyphs] /\ fb_cursor' \in Cells
  BY <1>1, <1>2, PutType DEF Screen
<1>4. TypeOK'
  BY <1>1, <1>3 DEF ConsoleInv, TypeOK, KbTypeOK, Glyphs
<1>5. EchoMatchesLine'
  BY <1>1 DEF EchoMatchesLine
<1> QED BY <1>1, <1>4, <1>5 DEF ConsoleInv

\* What fb_move_cursor leaves in the registers.
LEMMA MoveCursor ==
  ASSUME cursor_reg \in [{14, 15} -> 0 .. RADIX - 1], NEW p \in Cells, fb_move_cursor(p)
  PROVE  /\ cursor_reg' \in [{14, 15} -> 0 .. RADIX - 1] /\ index' = 15
         /\ cursor_reg'[14] = High(p) /\ cursor_reg'[15] = Low(p)
<1>1. /\ index' = 15
      /\ cursor_reg' = [cursor_reg EXCEPT ![14] = High(p), ![15] = Low(p)]
  BY DEF fb_move_cursor
<1>2. High(p) \in 0 .. RADIX - 1 /\ Low(p) \in 0 .. RADIX - 1
  BY Registers, Sizes DEF Cells
<1> QED BY <1>1, <1>2

LEMMA SysWriteReturnInv ==
  ASSUME ConsoleInv, SysWriteReturn
  PROVE  ConsoleInv'
<1>1. /\ stage = "write" /\ stage' = "user" /\ fb_move_cursor(fb_cursor)
      /\ UNCHANGED <<fb, fb_cursor, kb_line_buf, kb_line_complete>>
      /\ UNCHANGED <<pos, at, reg, outcome, alone>>
  BY DEF SysWriteReturn, kbVars
<1>2. /\ fb_cursor \in Cells /\ fb_cursor \in Nat
      /\ cursor_reg \in [{14, 15} -> 0 .. RADIX - 1]
  BY Sizes DEF ConsoleInv, TypeOK, Cells
<1>3. cursor_reg' \in [{14, 15} -> 0 .. RADIX - 1] /\ index' = 15
  BY <1>1, <1>2, MoveCursor
<1>4. TypeOK'
  BY <1>1, <1>3 DEF ConsoleInv, TypeOK, KbTypeOK
<1>5. alone' => kb_line_buf' = << >>
  BY <1>1 DEF ConsoleInv
<1>6. EchoMatchesLine'
  BY <1>1, <1>2, <1>5 DEF EchoMatchesLine
<1> QED BY <1>1, <1>3, <1>4, <1>6 DEF ConsoleInv

LEMMA SysClearInv ==
  ASSUME ConsoleInv, SysClear
  PROVE  ConsoleInv'
<1>1. /\ stage = "user" /\ alone' = (kb_line_buf = << >>)
      /\ fb' = [i \in Cells |-> Blank] /\ fb_cursor' = 0 /\ fb_move_cursor(0)
      /\ UNCHANGED <<kb_line_buf, kb_line_complete, stage, pos, at, reg, outcome>>
  BY DEF SysClear, fb_clear, kbVars, kmainVars
<1>2. cursor_reg \in [{14, 15} -> 0 .. RADIX - 1] /\ 0 \in Cells
  BY Sizes DEF ConsoleInv, TypeOK, Cells
<1>3. cursor_reg' \in [{14, 15} -> 0 .. RADIX - 1] /\ index' = 15
  BY <1>1, <1>2, MoveCursor
<1>4. TypeOK'
  BY <1>1, <1>2, <1>3, Controls DEF ConsoleInv, TypeOK, KbTypeOK
<1>5. alone' => kb_line_buf' = << >>
  BY <1>1
<1>6. EchoMatchesLine'
  BY <1>1, <1>5 DEF EchoMatchesLine
<1>7. alone' \in BOOLEAN
  BY <1>1
<1> QED BY <1>1, <1>3, <1>4, <1>6, <1>7 DEF ConsoleInv

LEMMA SysReadInv ==
  ASSUME ConsoleInv, SysRead
  PROVE  ConsoleInv'
<1>1. /\ stage = "user" /\ alone' = TRUE
      /\ kb_line_buf' = << >> /\ kb_line_complete' = FALSE
      /\ UNCHANGED <<fb, fb_cursor, index, cursor_reg, stage, pos, at, reg, outcome>>
  BY DEF SysRead, keyboard_read_line, screenVars, kmainVars
<1>2. TypeOK'
  BY <1>1, NoLine DEF ConsoleInv, TypeOK, KbTypeOK
<1>3. fb_cursor' \in Nat
  BY <1>2, Sizes DEF TypeOK, Cells
<1>4. EchoMatchesLine'
  BY <1>1, <1>3 DEF EchoMatchesLine
<1> QED BY <1>1, <1>2, <1>4 DEF ConsoleInv

LEMMA InitInv == Init => ConsoleInv
<1> SUFFICES ASSUME Init PROVE ConsoleInv
  OBVIOUS
<1>1. /\ kb_line_buf = << >> /\ kb_line_complete = FALSE
      /\ fb = [i \in Cells |-> Blank] /\ fb_cursor = 0 /\ index = 15
      /\ cursor_reg = [r \in {14, 15} |-> 0] /\ outcome \in Outcomes
      /\ stage = "boot" /\ pos = 1 /\ at = "read" /\ reg = 0 /\ keys = 0 /\ alone = TRUE
  BY DEF Init, KbInit
<1>2. TypeOK
  <2>1. KbTypeOK
    BY <1>1, NoLine DEF KbTypeOK
  <2>2. fb_cursor \in Cells
    BY <1>1, Sizes DEF Cells
  <2>3. cursor_reg \in [{14, 15} -> 0 .. RADIX - 1]
    BY <1>1, Sizes
  <2> QED BY <1>1, <2>1, <2>2, <2>3, Controls DEF TypeOK
<1>3. Typing = BootKeys + FB_COLS
  BY <1>1, Sizes DEF Typing
<1>4. /\ Messages[outcome] \in Seq((Output \ {Backspace}) \union {End})
      /\ Messages[outcome] # << >>
      /\ Ahead(outcome, 1) + BootKeys + FB_COLS < FB_SIZE
  BY <1>1, ConsoleAssumption
<1>5. Ahead(outcome, 1) \in Nat
  BY <1>1, AheadNat
<1>6. 1 \in 1 .. Len(Messages[outcome])
  BY <1>4
<1>7. BootInv
  BY <1>1, <1>3, <1>4, <1>5, <1>6, Sizes DEF BootInv
<1>8. EchoMatchesLine
  BY <1>1 DEF EchoMatchesLine
<1> QED BY <1>1, <1>2, <1>7, <1>8 DEF ConsoleInv

LEMMA NextInv == ConsoleInv /\ [Next]_vars => ConsoleInv'
<1> SUFFICES ASSUME ConsoleInv, [Next]_vars PROVE ConsoleInv'
  OBVIOUS
<1>1. CASE UNCHANGED vars
  <2>1. /\ UNCHANGED <<fb, fb_cursor, index, cursor_reg, kb_line_buf, kb_line_complete>>
        /\ UNCHANGED <<stage, pos, at, reg, outcome, keys, alone>>
    BY <1>1 DEF vars, screenVars, kmainVars, kbVars
  <2> QED BY <2>1 DEF ConsoleInv, TypeOK, KbTypeOK, BootInv, Typing, Current, EchoMatchesLine
<1> QED
  BY <1>1, KmainInv, Irq1Inv, SysWriteInv, WriteCharacterInv, SysWriteReturnInv,
     SysClearInv, SysReadInv DEF Next

\* The invariant of screen, cursor and line, in every state: also between
\* two memory accesses of kmain with any echo in between.
THEOREM ConsoleInvariance == Spec => []ConsoleInv
  BY InitInv, NextInv, PTL DEF Spec

\* The cursor never leaves the screen and no cell behind it is written.
THEOREM TypeOKHolds == Spec => []TypeOK
<1>1. ConsoleInv => TypeOK
  BY DEF ConsoleInv
<1> QED BY <1>1, ConsoleInvariance, PTL

\* As long as only the echo has written since the line was empty, the screen
\* shows the line that SYS_READ will return, whatever was typed and erased
\* and however often the screen has scrolled meanwhile.
THEOREM EchoMatchesLineHolds == Spec => []EchoMatchesLine
<1>1. ConsoleInv => EchoMatchesLine
  BY DEF ConsoleInv
<1> QED BY <1>1, ConsoleInvariance, PTL

-----------------------------------------------------------------------------
(* The cursor registers                                                    *)

\* The two registers hold the position: the screen has no more cells than
\* they can count.
LEMMA TwoRegisters ==
  ASSUME NEW p \in Cells
  PROVE  High(p) * RADIX + Low(p) = p
<1> DEFINE q == p \div RADIX
           m == p % RADIX
<1>1. p \in Nat /\ p < RADIX * RADIX
  BY ConsoleAssumption, Sizes DEF Cells
<1>2. q \in Nat /\ m \in Nat /\ m < RADIX /\ p = RADIX * q + m
  BY <1>1, Sizes, Division
<1>3. q % RADIX = q
  <2> HIDE DEF q, m
  <2>1. q < RADIX
    <3> SUFFICES ASSUME q >= RADIX PROVE FALSE
      BY <1>2, Sizes
    <3>1. RADIX * q >= RADIX * RADIX
      BY <1>2, Sizes
    <3>2. RADIX * q \in Nat /\ RADIX * RADIX \in Nat
      BY <1>2, Sizes
    <3> QED BY <1>1, <1>2, <3>1, <3>2, Sizes
  <2> QED BY <1>2, <2>1, Sizes
<1>4. High(p) = q /\ Low(p) = m
  BY <1>3 DEF High, Low
<1> HIDE DEF q, m
<1> QED BY <1>1, <1>2, <1>4, Sizes

\* After boot every SYS_WRITE that returns, and every echo and SYS_CLEAR that
\* moves fb_cursor, shows the cursor where it is.
THEOREM CursorShownHolds == Spec => CursorShown
<1> DEFINE Moved == /\ stage = "write" \/ (stage = "user" /\ fb_cursor' # fb_cursor)
                    /\ stage' = "user"
           ShownAfter == cursor_reg'[14] * RADIX + cursor_reg'[15] = fb_cursor'
<1>1. ASSUME ConsoleInv, Next, Moved PROVE ShownAfter
  <2>1. /\ cursor_reg \in [{14, 15} -> 0 .. RADIX - 1] /\ fb_cursor \in Cells
        /\ fb_cursor' \in Cells
    BY <1>1, NextInv DEF ConsoleInv, TypeOK
  <2>2. fb_move_cursor(fb_cursor')
    <3>1. CASE kmain
      BY <1>1, <3>1 DEF kmain, ReadCursor, WriteCell, AddToCursor, StoreCursor, CheckEnd,
         LoadPosition, SelectRegister, WriteHigh, WriteLow, Writing, Written
    <3>2. ASSUME NEW key \in Keys, Irq1(key) PROVE fb_move_cursor(fb_cursor')
      BY <1>1, <3>2 DEF Irq1, screenVars
    <3>3. CASE SysWrite \/ SysRead
      BY <1>1, <3>3 DEF SysWrite, SysRead, screenVars
    <3>4. ASSUME NEW c \in Output, WriteCharacter(c) PROVE FALSE
      BY <1>1, <3>4 DEF WriteCharacter, kmainVars
    <3>5. CASE SysWriteReturn
      BY <3>5 DEF SysWriteReturn, fb_move_cursor
    <3>6. CASE SysClear
      BY <3>6 DEF SysClear, fb_clear, fb_move_cursor
    <3> QED BY <1>1, <3>1, <3>2, <3>3, <3>4, <3>5, <3>6 DEF Next
  <2>3. cursor_reg'[14] = High(fb_cursor') /\ cursor_reg'[15] = Low(fb_cursor')
    BY <2>1, <2>2 DEF fb_move_cursor
  <2> QED BY <2>1, <2>3, TwoRegisters
<1>2. ConsoleInv /\ [Next]_vars => [Moved => ShownAfter]_vars
  BY <1>1
<1> QED BY <1>2, ConsoleInvariance, PTL DEF Spec, CursorShown

-----------------------------------------------------------------------------
(* Rows and columns                                                        *)

Cell(r, c) == (r - 1) * FB_COLS + c - 1
RowOf(p)   == p \div FB_COLS + 1
ColOf(p)   == (p % FB_COLS) + 1

View(f) == [r \in 1 .. FB_ROWS |-> [c \in 1 .. FB_COLS |-> f[(r - 1) * FB_COLS + c - 1]]]

\* The state of Terminal that a screen and a cursor stand for.
Abstract(f, p) == [rows |-> View(f), row |-> RowOf(p), col |-> ColOf(p)]

\* Row and column are those of one cell.
LEMMA CellIs ==
  ASSUME NEW r \in 1 .. FB_ROWS, NEW c \in 1 .. FB_COLS
  PROVE  /\ Cell(r, c) \in Cells
         /\ RowOf(Cell(r, c)) = r /\ ColOf(Cell(r, c)) = c
         /\ Cell(r, c) < FB_SIZE - FB_COLS <=> r < FB_ROWS
         /\ r < FB_ROWS => Cell(r + 1, c) = Cell(r, c) + FB_COLS
<1> DEFINE k == r - 1
           m == c - 1
           p == k * FB_COLS + m
<1>1. k \in Nat /\ k < FB_ROWS /\ m \in Nat /\ m < FB_COLS
  BY Sizes
<1>2. Cell(r, c) = p
  BY Sizes DEF Cell
<1>3. r = k + 1 /\ c = m + 1
  BY Sizes
<1> HIDE DEF k, m
<1>4. k * FB_COLS \in Nat /\ (k + 1) * FB_COLS = k * FB_COLS + FB_COLS
  BY <1>1, Sizes
<1>5. /\ (k + 1) * FB_COLS <= FB_SIZE
      /\ k + 1 < FB_ROWS <=> (k + 2) * FB_COLS <= FB_SIZE
  <2>1. (k + 1) * FB_COLS <= FB_ROWS * FB_COLS
    BY <1>1, Sizes
  <2>2. k + 1 < FB_ROWS => (k + 2) * FB_COLS <= FB_ROWS * FB_COLS
    BY <1>1, Sizes
  <2>3. ASSUME ~(k + 1 < FB_ROWS) PROVE ~((k + 2) * FB_COLS <= FB_ROWS * FB_COLS)
    <3>1. FB_ROWS = k + 1
      BY <1>1, <2>3, Sizes
    <3>2. (k + 2) * FB_COLS = (k + 1) * FB_COLS + FB_COLS /\ (k + 1) * FB_COLS \in Nat
      BY <1>1, Sizes
    <3> QED BY <3>1, <3>2, Sizes
  <2>4. FB_ROWS * FB_COLS = FB_SIZE
    BY Sizes DEF FB_SIZE
  <2> QED BY <2>1, <2>2, <2>3, <2>4
<1>6. (k + 2) * FB_COLS = k * FB_COLS + FB_COLS + FB_COLS
  BY <1>1, Sizes
<1>7. p \in Nat /\ p < FB_SIZE
  BY <1>1, <1>4, <1>5, Sizes
<1>8. p \div FB_COLS = k /\ p % FB_COLS = m
  <2> DEFINE q == p \div FB_COLS
             n == p % FB_COLS
  <2>1. q \in Nat /\ n \in Nat /\ n < FB_COLS /\ p = FB_COLS * q + n
    BY <1>7, Sizes, Division
  <2> HIDE DEF q, n
  <2>2. FB_COLS * q + n = k * FB_COLS + m
    BY <2>1
  <2>3. q = k
    <3>1. ASSUME q < k PROVE FALSE
      <4>1. FB_COLS * q + FB_COLS <= k * FB_COLS
        <5>1. FB_COLS * (q + 1) <= FB_COLS * k
          BY <1>1, <2>1, <3>1, Sizes
        <5> QED BY <1>1, <2>1, <5>1, Sizes
      <4>2. FB_COLS * q \in Nat
        BY <2>1, Sizes
      <4> QED BY <1>1, <1>4, <2>1, <2>2, <4>1, <4>2, Sizes
    <3>2. ASSUME k < q PROVE FALSE
      <4>1. k * FB_COLS + FB_COLS <= FB_COLS * q
        <5>1. FB_COLS * (k + 1) <= FB_COLS * q
          BY <1>1, <2>1, <3>2, Sizes
        <5> QED BY <1>1, <2>1, <5>1, Sizes
      <4>2. FB_COLS * q \in Nat
        BY <2>1, Sizes
      <4> QED BY <1>1, <1>4, <2>1, <2>2, <4>1, <4>2, Sizes
    <3> QED BY <1>1, <2>1, <3>1, <3>2
  <2>4. n = m
    BY <1>1, <1>4, <2>1, <2>2, <2>3, Sizes
  <2> QED BY <2>3, <2>4 DEF q, n
<1>9. Cell(r, c) \in Cells
  BY <1>2, <1>7, Sizes DEF Cells
<1>10. RowOf(Cell(r, c)) = r /\ ColOf(Cell(r, c)) = c
  BY <1>2, <1>3, <1>8 DEF RowOf, ColOf
<1>11. p < FB_SIZE - FB_COLS <=> k + 1 < FB_ROWS
  <2>1. k + 1 < FB_ROWS => p < FB_SIZE - FB_COLS
    BY <1>1, <1>4, <1>5, <1>6, Sizes
  <2>2. ASSUME ~(k + 1 < FB_ROWS) PROVE ~(p < FB_SIZE - FB_COLS)
    <3>1. FB_ROWS = k + 1
      BY <1>1, <2>2, Sizes
    <3>2. FB_SIZE = k * FB_COLS + FB_COLS
      BY <1>1, <1>4, <3>1, Sizes DEF FB_SIZE
    <3> QED BY <1>1, <1>4, <3>2, Sizes
  <2> QED BY <2>1, <2>2
<1>12. r < FB_ROWS => Cell(r + 1, c) = Cell(r, c) + FB_COLS
  <2>1. r + 1 - 1 = k + 1 /\ c - 1 = m
    BY <1>1, <1>3
  <2>2. Cell(r + 1, c) = (k + 1) * FB_COLS + c - 1
    BY <2>1 DEF Cell
  <2> QED BY <1>1, <1>2, <1>3, <1>4, <2>2, Sizes
<1> QED BY <1>2, <1>3, <1>9, <1>10, <1>11, <1>12

\* Every cell has a row and a column.
LEMMA RowColumn ==
  ASSUME NEW p \in Cells
  PROVE  /\ RowOf(p) \in 1 .. FB_ROWS /\ ColOf(p) \in 1 .. FB_COLS
         /\ Cell(RowOf(p), ColOf(p)) = p
<1> DEFINE q == p \div FB_COLS
           m == p % FB_COLS
<1>1. p \in Nat /\ p < FB_SIZE
  BY Sizes DEF Cells
<1>2. q \in Nat /\ m \in Nat /\ m < FB_COLS /\ p = FB_COLS * q + m
  BY <1>1, Sizes, Division
<1>3. RowOf(p) = q + 1 /\ ColOf(p) = m + 1
  BY DEF RowOf, ColOf
<1> HIDE DEF q, m
<1>4. q < FB_ROWS
  <2> SUFFICES ASSUME q >= FB_ROWS PROVE FALSE
    BY <1>2, Sizes
  <2>1. FB_COLS * q >= FB_COLS * FB_ROWS
    BY <1>2, Sizes
  <2>2. FB_COLS * q \in Nat
    BY <1>2, Sizes
  <2> QED BY <1>1, <1>2, <2>1, <2>2, Sizes DEF FB_SIZE
<1>5. Cell(q + 1, m + 1) = p
  <2>1. q + 1 - 1 = q /\ m + 1 - 1 = m /\ q * FB_COLS = FB_COLS * q /\ q * FB_COLS \in Nat
    BY <1>2, Sizes
  <2>2. Cell(q + 1, m + 1) = (q + 1 - 1) * FB_COLS + (m + 1) - 1
    BY <1>2, <2>1, Sizes DEF Cell
  <2>3. Cell(q + 1, m + 1) = q * FB_COLS + (m + 1) - 1
    BY <2>1, <2>2
  <2> QED BY <1>2, <2>1, <2>3
<1> QED BY <1>2, <1>3, <1>4, <1>5, Sizes

\* Cells of a row follow its first one; the last row ends the screen.
LEMMA RowStart ==
  ASSUME NEW r \in 1 .. FB_ROWS
  PROVE  /\ Cell(r, 1) \in Nat
         /\ \A c \in 1 .. FB_COLS : Cell(r, c) = Cell(r, 1) + c - 1
         /\ r < FB_ROWS => Cell(r + 1, 1) = Cell(r, 1) + FB_COLS
         /\ Cell(FB_ROWS, 1) = FB_SIZE - FB_COLS
<1>1. 1 \in 1 .. FB_COLS /\ FB_ROWS \in 1 .. FB_ROWS
  BY Sizes
<1>2. Cell(r, 1) \in Nat /\ (r < FB_ROWS => Cell(r + 1, 1) = Cell(r, 1) + FB_COLS)
  BY <1>1, CellIs, Sizes DEF Cells
<1>3. (r - 1) * FB_COLS \in Int
  BY Sizes
<1>4. \A c \in 1 .. FB_COLS : Cell(r, c) = Cell(r, 1) + c - 1
  BY <1>3, Sizes DEF Cell
<1>5. (FB_ROWS - 1) * FB_COLS = FB_SIZE - FB_COLS
  BY Sizes DEF FB_SIZE
<1>6. Cell(FB_ROWS, 1) = FB_SIZE - FB_COLS
  BY <1>5, Sizes DEF Cell
<1> QED BY <1>2, <1>4, <1>6

\* One cell further, one row further, one cell back.
LEMMA NextCell ==
  ASSUME NEW p \in Cells
  PROVE  LET r == RowOf(p)
             c == ColOf(p) IN
         /\ c < FB_COLS => /\ p + 1 \in Cells
                           /\ RowOf(p + 1) = r /\ ColOf(p + 1) = c + 1
         /\ c = FB_COLS /\ r < FB_ROWS => /\ p + 1 \in Cells
                                          /\ RowOf(p + 1) = r + 1 /\ ColOf(p + 1) = 1
         /\ c = FB_COLS /\ r = FB_ROWS => p + 1 = FB_SIZE
<1> DEFINE r == RowOf(p)
           c == ColOf(p)
<1>1. r \in 1 .. FB_ROWS /\ c \in 1 .. FB_COLS /\ Cell(r, c) = p
  BY RowColumn
<1>2. p \in Nat /\ p < FB_SIZE
  BY Sizes DEF Cells
<1> HIDE DEF r, c
<1>3. Cell(r, 1) \in Nat /\ p = Cell(r, 1) + c - 1
  BY <1>1, RowStart
<1>4. ASSUME c < FB_COLS
      PROVE  p + 1 \in Cells /\ RowOf(p + 1) = r /\ ColOf(p + 1) = c + 1
  <2>1. c + 1 \in 1 .. FB_COLS
    BY <1>1, <1>4, Sizes
  <2>2. Cell(r, c + 1) = Cell(r, 1) + (c + 1) - 1
    BY <1>1, <2>1, RowStart
  <2>3. Cell(r, c + 1) = p + 1
    BY <1>1, <1>3, <2>2, Sizes
  <2> QED BY <1>1, <2>1, <2>3, CellIs
<1>5. ASSUME c = FB_COLS, r < FB_ROWS
      PROVE  p + 1 \in Cells /\ RowOf(p + 1) = r + 1 /\ ColOf(p + 1) = 1
  <2>1. r + 1 \in 1 .. FB_ROWS /\ 1 \in 1 .. FB_COLS
    BY <1>1, <1>5, Sizes
  <2>2. Cell(r + 1, 1) = Cell(r, 1) + FB_COLS
    BY <1>1, <1>5, RowStart
  <2>3. Cell(r + 1, 1) = p + 1
    BY <1>3, <1>5, <2>2, Sizes
  <2> QED BY <2>1, <2>3, CellIs
<1>6. ASSUME c = FB_COLS, r = FB_ROWS PROVE p + 1 = FB_SIZE
  <2>1. Cell(r, 1) = FB_SIZE - FB_COLS
    BY <1>1, <1>6, RowStart
  <2> QED BY <1>3, <1>6, <2>1, Sizes
<1> QED BY <1>4, <1>5, <1>6 DEF r, c

LEMMA NextRow ==
  ASSUME NEW p \in Cells
  PROVE  LET n == p + FB_COLS - (p % FB_COLS) IN
         /\ RowOf(p) < FB_ROWS => n \in Cells /\ RowOf(n) = RowOf(p) + 1 /\ ColOf(n) = 1
         /\ RowOf(p) = FB_ROWS => n = FB_SIZE
<1> DEFINE r == RowOf(p)
           n == p + FB_COLS - (p % FB_COLS)
<1>1. r \in 1 .. FB_ROWS /\ ColOf(p) \in 1 .. FB_COLS /\ Cell(r, ColOf(p)) = p
  BY RowColumn
<1>2. p \in Nat /\ p % FB_COLS \in Nat
  BY Sizes, Division DEF Cells
<1>3. ColOf(p) = (p % FB_COLS) + 1
  BY DEF ColOf
<1>4. Cell(r, 1) \in Nat /\ p = Cell(r, 1) + ColOf(p) - 1
  BY <1>1, RowStart
<1> HIDE DEF r
<1>5. n = Cell(r, 1) + FB_COLS
  BY <1>2, <1>3, <1>4, Sizes
<1> HIDE DEF n
<1>6. ASSUME r < FB_ROWS PROVE n \in Cells /\ RowOf(n) = r + 1 /\ ColOf(n) = 1
  <2>1. r + 1 \in 1 .. FB_ROWS /\ 1 \in 1 .. FB_COLS
    BY <1>1, <1>6, Sizes
  <2>2. Cell(r + 1, 1) = n
    BY <1>1, <1>5, <1>6, RowStart
  <2> QED BY <2>1, <2>2, CellIs
<1>7. ASSUME r = FB_ROWS PROVE n = FB_SIZE
  <2>1. Cell(r, 1) = FB_SIZE - FB_COLS
    BY <1>1, <1>7, RowStart
  <2> QED BY <1>5, <2>1, Sizes
<1> QED BY <1>6, <1>7 DEF r, n

LEMMA PreviousCell ==
  ASSUME NEW p \in Cells
  PROVE  LET r == RowOf(p)
             c == ColOf(p) IN
         /\ c > 1 => /\ p - 1 \in Cells
                     /\ RowOf(p - 1) = r /\ ColOf(p - 1) = c - 1
         /\ c = 1 /\ r > 1 => /\ p - 1 \in Cells
                              /\ RowOf(p - 1) = r - 1 /\ ColOf(p - 1) = FB_COLS
         /\ c = 1 /\ r = 1 <=> p = 0
<1> DEFINE r == RowOf(p)
           c == ColOf(p)
<1>1. r \in 1 .. FB_ROWS /\ c \in 1 .. FB_COLS /\ Cell(r, c) = p
  BY RowColumn
<1>2. p \in Nat
  BY Sizes DEF Cells
<1> HIDE DEF r, c
<1>3. Cell(r, 1) \in Nat /\ p = Cell(r, 1) + c - 1
  BY <1>1, RowStart
<1>4. ASSUME c > 1
      PROVE  p - 1 \in Cells /\ RowOf(p - 1) = r /\ ColOf(p - 1) = c - 1
  <2>1. c - 1 \in 1 .. FB_COLS
    BY <1>1, <1>4, Sizes
  <2>2. Cell(r, c - 1) = Cell(r, 1) + (c - 1) - 1
    BY <1>1, <2>1, RowStart
  <2>3. Cell(r, c - 1) = p - 1
    BY <1>1, <1>3, <2>2, Sizes
  <2> QED BY <1>1, <2>1, <2>3, CellIs
<1>5. ASSUME c = 1, r > 1
      PROVE  /\ p - 1 \in Cells /\ RowOf(p - 1) = r - 1 /\ ColOf(p - 1) = FB_COLS
             /\ p # 0
  <2>1. r - 1 \in 1 .. FB_ROWS /\ FB_COLS \in 1 .. FB_COLS /\ r - 1 < FB_ROWS /\ r - 1 + 1 = r
    BY <1>1, <1>5, Sizes
  <2>2. /\ Cell(r - 1, 1) \in Nat /\ Cell(r, 1) = Cell(r - 1, 1) + FB_COLS
        /\ Cell(r - 1, FB_COLS) = Cell(r - 1, 1) + FB_COLS - 1
    BY <2>1, RowStart
  <2>3. Cell(r - 1, FB_COLS) = p - 1 /\ p # 0
    BY <1>3, <1>5, <2>2, Sizes
  <2> QED BY <2>1, <2>3, CellIs
<1>6. c = 1 /\ r = 1 => p = 0
  BY <1>3, Sizes DEF Cell
<1>7. p = 0 => c = 1 /\ r = 1
  BY <1>1, <1>3, <1>5, Sizes
<1> QED BY <1>4, <1>5, <1>6, <1>7 DEF r, c

-----------------------------------------------------------------------------
(* The screen as rows                                                      *)

\* Rows with one place changed.
At(V, r, c, x) == [V EXCEPT ![r][c] = x]

\* A cell that is written is one place in one row.
LEMMA ViewWrite ==
  ASSUME NEW f \in [Cells -> Glyphs], NEW p \in Cells, NEW x
  PROVE  View([f EXCEPT ![p] = x]) = At(View(f), RowOf(p), ColOf(p), x)
<1> DEFINE g == [f EXCEPT ![p] = x]
<1>1. RowOf(p) \in 1 .. FB_ROWS /\ ColOf(p) \in 1 .. FB_COLS /\ Cell(RowOf(p), ColOf(p)) = p
  BY RowColumn
<1>2. ASSUME NEW r \in 1 .. FB_ROWS, NEW c \in 1 .. FB_COLS
      PROVE  g[Cell(r, c)] =
               IF r = RowOf(p) /\ c = ColOf(p) THEN x ELSE f[Cell(r, c)]
  <2>1. Cell(r, c) \in Cells /\ RowOf(Cell(r, c)) = r /\ ColOf(Cell(r, c)) = c
    BY CellIs
  <2>2. Cell(r, c) = p <=> r = RowOf(p) /\ c = ColOf(p)
    BY <1>1, <2>1
  <2> QED BY <2>1, <2>2
<1> HIDE DEF g
<1>3. View(g) = [r \in 1 .. FB_ROWS |-> [c \in 1 .. FB_COLS |-> g[Cell(r, c)]]]
  BY DEF View, Cell
<1>4. View(f) = [r \in 1 .. FB_ROWS |-> [c \in 1 .. FB_COLS |-> f[Cell(r, c)]]]
  BY DEF View, Cell
<1>5. \A r \in 1 .. FB_ROWS :
        [c \in 1 .. FB_COLS |-> g[Cell(r, c)]] =
          IF r = RowOf(p) THEN [[c \in 1 .. FB_COLS |-> f[Cell(r, c)]] EXCEPT ![ColOf(p)] = x]
          ELSE [c \in 1 .. FB_COLS |-> f[Cell(r, c)]]
  BY <1>1, <1>2
<1> DEFINE V == View(f)
           U == [V EXCEPT ![RowOf(p)][ColOf(p)] = x]
<1>6. /\ U = [r \in 1 .. FB_ROWS |-> U[r]]
      /\ \A r \in 1 .. FB_ROWS :
           U[r] = IF r = RowOf(p) THEN [V[r] EXCEPT ![ColOf(p)] = x] ELSE V[r]
  <2>1. V = [r \in 1 .. FB_ROWS |-> V[r]]
    BY <1>4
  <2> HIDE DEF V
  <2> QED BY <2>1
<1>7. \A r \in 1 .. FB_ROWS : V[r] = [c \in 1 .. FB_COLS |-> f[Cell(r, c)]]
  BY <1>4
<1> HIDE DEF V, U
<1>8. \A r \in 1 .. FB_ROWS : U[r] = [c \in 1 .. FB_COLS |-> g[Cell(r, c)]]
  <2> TAKE r \in 1 .. FB_ROWS
  <2> DEFINE v == [c \in 1 .. FB_COLS |-> f[Cell(r, c)]]
             w == [c \in 1 .. FB_COLS |-> g[Cell(r, c)]]
  <2>1. w = IF r = RowOf(p) THEN [v EXCEPT ![ColOf(p)] = x] ELSE v
    BY <1>5
  <2>2. V[r] = v
    BY <1>7
  <2> HIDE DEF v, w
  <2>3. U[r] = w
    BY <1>6, <2>1, <2>2
  <2> QED BY <2>3 DEF w
<1>9. U = View(g)
  BY <1>3, <1>6, <1>8
<1> QED BY <1>9 DEF g, U, V, At

\* Scrolling takes the first row away and adds a blank one below.
LEMMA ViewScroll ==
  ASSUME NEW t
  PROVE  View(fb_scroll(t).fb) = Append(Tail(View(t.fb)), TheTerminal!BlankRow)
<1> DEFINE g == fb_scroll(t).fb
           V == View(t.fb)
           W == Append(Tail(V), TheTerminal!BlankRow)
<1>1. \A i \in Cells : g[i] = IF i < FB_SIZE - FB_COLS THEN t.fb[i + FB_COLS] ELSE Blank
  BY DEF fb_scroll
<1>2. TheTerminal!BlankRow = [c \in 1 .. FB_COLS |-> Blank]
  BY DEF TheTerminal!BlankRow
<1>3. FB_ROWS \in Nat /\ FB_ROWS > 0
  BY Sizes
<1>4. V = [r \in 1 .. FB_ROWS |-> [c \in 1 .. FB_COLS |-> t.fb[Cell(r, c)]]]
  BY DEF View, Cell
<1>5. View(g) = [r \in 1 .. FB_ROWS |-> [c \in 1 .. FB_COLS |-> g[Cell(r, c)]]]
  BY DEF View, Cell
<1>6. \A r \in 1 .. FB_ROWS : r < FB_ROWS =>
        [c \in 1 .. FB_COLS |-> g[Cell(r, c)]] = [c \in 1 .. FB_COLS |-> t.fb[Cell(r + 1, c)]]
  <2> SUFFICES ASSUME NEW r \in 1 .. FB_ROWS, r < FB_ROWS, NEW c \in 1 .. FB_COLS
               PROVE  g[Cell(r, c)] = t.fb[Cell(r + 1, c)]
    OBVIOUS
  <2>1. /\ Cell(r, c) \in Cells /\ Cell(r, c) < FB_SIZE - FB_COLS
        /\ Cell(r + 1, c) = Cell(r, c) + FB_COLS
    BY CellIs
  <2> QED BY <1>1, <2>1
<1>7. [c \in 1 .. FB_COLS |-> g[Cell(FB_ROWS, c)]] = TheTerminal!BlankRow
  <2> SUFFICES ASSUME NEW c \in 1 .. FB_COLS PROVE g[Cell(FB_ROWS, c)] = Blank
    BY <1>2
  <2>1. FB_ROWS \in 1 .. FB_ROWS
    BY <1>3
  <2>2. Cell(FB_ROWS, c) \in Cells /\ ~(Cell(FB_ROWS, c) < FB_SIZE - FB_COLS)
    BY <2>1, <1>3, CellIs
  <2> QED BY <1>1, <2>2
<1> HIDE DEF g, V
<1>8. /\ W \in Seq({V[r] : r \in 1 .. FB_ROWS} \union {TheTerminal!BlankRow})
      /\ Len(W) = FB_ROWS
      /\ \A r \in 1 .. FB_ROWS : W[r] = IF r < FB_ROWS THEN V[r + 1] ELSE TheTerminal!BlankRow
  <2> DEFINE S == {V[r] : r \in 1 .. FB_ROWS} \union {TheTerminal!BlankRow}
  <2>1. V \in Seq(S) /\ Len(V) = FB_ROWS
    <3>1. V \in [1 .. FB_ROWS -> S]
      BY <1>4
    <3> HIDE DEF S
    <3> QED BY <1>3, <3>1
  <2>2. TheTerminal!BlankRow \in S
    OBVIOUS
  <2> HIDE DEF S
  <2>3. V # << >>
    BY <1>3, <2>1
  <2>4. Tail(V) \in Seq(S) /\ Len(Tail(V)) = FB_ROWS - 1
    BY <1>3, <2>1, <2>3
  <2>5. \A r \in 1 .. FB_ROWS - 1 : Tail(V)[r] = V[r + 1]
    BY <1>3, <2>1, <2>3
  <2>6. W \in Seq(S) /\ Len(W) = FB_ROWS
    BY <1>3, <2>2, <2>4
  <2>7. \A r \in 1 .. FB_ROWS : W[r] = IF r < FB_ROWS THEN V[r + 1] ELSE TheTerminal!BlankRow
    BY <1>3, <2>2, <2>4, <2>5
  <2> QED BY <2>6, <2>7 DEF S
<1> HIDE DEF W
<1>9. W = [r \in 1 .. FB_ROWS |-> W[r]]
  BY <1>3, <1>8
<1>10. ASSUME NEW r \in 1 .. FB_ROWS PROVE W[r] = View(g)[r]
  <2>1. CASE r < FB_ROWS
    <3>1. r + 1 \in 1 .. FB_ROWS
      BY <1>3, <2>1
    <3> QED BY <1>4, <1>5, <1>6, <1>8, <2>1, <3>1
  <2>2. CASE ~(r < FB_ROWS)
    <3>1. r = FB_ROWS
      BY <1>3, <2>2
    <3> QED BY <1>5, <1>7, <1>8, <2>2, <3>1
  <2> QED BY <2>1, <2>2
<1>11. View(g) = W
  BY <1>5, <1>9, <1>10
<1> QED BY <1>11 DEF W, g, V

LEMMA AbstractScroll ==
  ASSUME NEW t
  PROVE  Abstract(fb_scroll(t).fb, fb_scroll(t).cursor) =
           [rows |-> Append(Tail(View(t.fb)), TheTerminal!BlankRow), row |-> FB_ROWS, col |-> 1]
<1>1. FB_ROWS \in 1 .. FB_ROWS /\ 1 \in 1 .. FB_COLS
  BY Sizes
<1>2. fb_scroll(t).cursor = Cell(FB_ROWS, 1)
  BY <1>1, RowStart DEF fb_scroll
<1>3. RowOf(fb_scroll(t).cursor) = FB_ROWS /\ ColOf(fb_scroll(t).cursor) = 1
  BY <1>1, <1>2, CellIs
<1> QED BY <1>3, ViewScroll DEF Abstract

\* Each kind of character does to the array what Terminal does to its rows.
LEMMA AbstractEnter ==
  ASSUME NEW f \in [Cells -> Glyphs], NEW p \in Cells
  PROVE  LET t == Put([fb |-> f, cursor |-> p], Enter) IN
         Abstract(t.fb, t.cursor) = TheTerminal!Write(Abstract(f, p), Enter)
<1> DEFINE s == [fb |-> f, cursor |-> p]
           n == p + FB_COLS - (p % FB_COLS)
           t == [fb |-> f, cursor |-> n]
           A == Abstract(f, p)
           V == View(f)
<1>1. Character(s, Enter) = t
  BY Controls DEF Character
<1>2. TheTerminal!Write(A, Enter) = TheTerminal!NewRow(A)
  BY Controls DEF TheTerminal!Write
<1>3. RowOf(p) \in 1 .. FB_ROWS
  BY RowColumn
<1>4. A = [rows |-> V, row |-> RowOf(p), col |-> ColOf(p)]
  BY DEF Abstract
<1>5. CASE RowOf(p) < FB_ROWS
  <2>1. n \in Cells /\ RowOf(n) = RowOf(p) + 1 /\ ColOf(n) = 1
    BY <1>5, NextRow
  <2>2. n < FB_SIZE /\ n \in Nat
    BY <2>1, Sizes DEF Cells
  <2> HIDE DEF n
  <2>3. Put(s, Enter) = t
    BY <1>1, <2>2, Sizes DEF Put, PastEnd
  <2>4. Abstract(t.fb, t.cursor) = [rows |-> V, row |-> RowOf(p) + 1, col |-> 1]
    BY <2>1 DEF Abstract
  <2> HIDE DEF A, V
  <2>5. TheTerminal!NewRow(A) = [rows |-> V, row |-> RowOf(p) + 1, col |-> 1]
    BY <1>4, <1>5 DEF TheTerminal!NewRow
  <2> QED BY <1>2, <2>3, <2>4, <2>5 DEF A
<1>6. CASE ~(RowOf(p) < FB_ROWS)
  <2>0. RowOf(p) = FB_ROWS
    BY <1>3, <1>6, Sizes
  <2>1. n = FB_SIZE
    BY <2>0, NextRow
  <2> HIDE DEF n
  <2>2. Put(s, Enter) = fb_scroll(t)
    BY <1>1, <2>1, Sizes DEF Put, PastEnd
  <2>3. Abstract(fb_scroll(t).fb, fb_scroll(t).cursor) =
          [rows |-> Append(Tail(V), TheTerminal!BlankRow), row |-> FB_ROWS, col |-> 1]
    BY AbstractScroll
  <2> HIDE DEF A, V
  <2>4. TheTerminal!NewRow(A) =
          [rows |-> Append(Tail(V), TheTerminal!BlankRow), row |-> FB_ROWS, col |-> 1]
    BY <1>4, <1>6 DEF TheTerminal!NewRow
  <2> QED BY <1>2, <2>2, <2>3, <2>4 DEF A
<1> QED BY <1>5, <1>6

LEMMA AbstractGlyph ==
  ASSUME NEW f \in [Cells -> Glyphs], NEW p \in Cells,
         NEW x \in Writable, x \notin {Enter, Backspace}
  PROVE  LET t == Put([fb |-> f, cursor |-> p], x) IN
         Abstract(t.fb, t.cursor) = TheTerminal!Write(Abstract(f, p), x)
<1> DEFINE s == [fb |-> f, cursor |-> p]
           g == [f EXCEPT ![p] = x]
           t == [fb |-> g, cursor |-> p + 1]
           A == Abstract(f, p)
           V == View(f)
           r == RowOf(p)
           c == ColOf(p)
           B == [A EXCEPT !.rows[A.row][A.col] = x]
<1>0. p \in Nat
  BY Sizes DEF Cells
<1>1. Character(s, x) = t
  BY DEF Character
<1>2. TheTerminal!Write(A, x) = TheTerminal!Right(B)
  BY DEF TheTerminal!Write
<1>3. r \in 1 .. FB_ROWS /\ c \in 1 .. FB_COLS
  BY RowColumn
<1>4. View(g) = At(V, r, c, x)
  BY ViewWrite
<1>5. B = [rows |-> View(g), row |-> r, col |-> c]
  <2>1. A = [rows |-> V, row |-> r, col |-> c]
    BY DEF Abstract
  <2> HIDE DEF A, V, r, c, g
  <2> QED BY <1>4, <2>1 DEF At
<1>6. CASE c < FB_COLS \/ r < FB_ROWS
  <2>1. p + 1 \in Cells /\ Abstract(g, p + 1) =
          IF c < FB_COLS THEN [rows |-> View(g), row |-> r, col |-> c + 1]
          ELSE [rows |-> View(g), row |-> r + 1, col |-> 1]
    <3>1. CASE c < FB_COLS
      <4>1. p + 1 \in Cells /\ RowOf(p + 1) = r /\ ColOf(p + 1) = c + 1
        BY <3>1, NextCell
      <4> HIDE DEF r, c, g
      <4> QED BY <3>1, <4>1 DEF Abstract
    <3>2. CASE ~(c < FB_COLS)
      <4>1. c = FB_COLS /\ r < FB_ROWS
        BY <1>3, <1>6, <3>2, Sizes
      <4>2. p + 1 \in Cells /\ RowOf(p + 1) = r + 1 /\ ColOf(p + 1) = 1
        BY <4>1, NextCell
      <4> HIDE DEF r, c, g
      <4> QED BY <3>2, <4>2 DEF Abstract
    <3> QED BY <3>1, <3>2
  <2>2. Put(s, x) = t
    <3>1. p + 1 < FB_SIZE /\ p + 1 \in Nat
      BY <2>1, Sizes DEF Cells
    <3> HIDE DEF g
    <3> QED BY <1>1, <3>1, Sizes DEF Put, PastEnd
  <2>3. TheTerminal!Right(B) =
          IF c < FB_COLS THEN [rows |-> View(g), row |-> r, col |-> c + 1]
          ELSE [rows |-> View(g), row |-> r + 1, col |-> 1]
    <3> HIDE DEF B, r, c, g
    <3>1. CASE c < FB_COLS
      BY <1>5, <3>1 DEF TheTerminal!Right
    <3>2. CASE ~(c < FB_COLS)
      <4>1. TheTerminal!Right(B) = TheTerminal!NewRow(B)
        BY <1>5, <3>2 DEF TheTerminal!Right
      <4>2. B.row < FB_ROWS
        BY <1>5, <1>6, <3>2
      <4> QED BY <1>5, <3>2, <4>1, <4>2 DEF TheTerminal!NewRow
    <3> QED BY <3>1, <3>2
  <2>4. t.fb = g /\ t.cursor = p + 1
    OBVIOUS
  <2> HIDE DEF t, g, r, c, B
  <2> QED BY <1>2, <2>1, <2>2, <2>3, <2>4
<1>7. CASE ~(c < FB_COLS \/ r < FB_ROWS)
  <2>0. c = FB_COLS /\ r = FB_ROWS
    BY <1>3, <1>7, Sizes
  <2>1. p + 1 = FB_SIZE
    BY <2>0, NextCell
  <2>2. Put(s, x) = fb_scroll(t)
    <3>1. t.cursor = FB_SIZE
      BY <2>1
    <3> HIDE DEF t
    <3> QED BY <1>1, <3>1, Sizes DEF Put, PastEnd
  <2>3. Abstract(fb_scroll(t).fb, fb_scroll(t).cursor) =
          [rows |-> Append(Tail(View(g)), TheTerminal!BlankRow), row |-> FB_ROWS, col |-> 1]
    <3>1. t.fb = g
      OBVIOUS
    <3> HIDE DEF t, g
    <3> QED BY <3>1, AbstractScroll
  <2>4. TheTerminal!Right(B) =
          [rows |-> Append(Tail(View(g)), TheTerminal!BlankRow), row |-> FB_ROWS, col |-> 1]
    <3> HIDE DEF B, r, c, g
    <3> QED BY <1>5, <1>7 DEF TheTerminal!Right, TheTerminal!NewRow
  <2> HIDE DEF t, g, r, c, B
  <2> QED BY <1>2, <2>2, <2>3, <2>4
<1> QED BY <1>6, <1>7

LEMMA AbstractBackspace ==
  ASSUME NEW f \in [Cells -> Glyphs], NEW p \in Cells
  PROVE  LET t == Put([fb |-> f, cursor |-> p], Backspace) IN
         Abstract(t.fb, t.cursor) = TheTerminal!Write(Abstract(f, p), Backspace)
<1> DEFINE s == [fb |-> f, cursor |-> p]
           A == Abstract(f, p)
           V == View(f)
           r == RowOf(p)
           c == ColOf(p)
           L == TheTerminal!Left(A)
<1>0. p \in Nat /\ p < FB_SIZE
  BY Sizes DEF Cells
<1>1. r \in 1 .. FB_ROWS /\ c \in 1 .. FB_COLS
  BY RowColumn
<1>2. A = [rows |-> V, row |-> r, col |-> c]
  BY DEF Abstract
<1>3. TheTerminal!Write(A, Backspace) =
        IF L = A THEN A ELSE [L EXCEPT !.rows[L.row][L.col] = Blank]
  BY Controls DEF TheTerminal!Write
<1>4. CASE p = 0
  <2>1. c = 1 /\ r = 1
    BY <1>4, PreviousCell
  <2>2. L = A
    <3> HIDE DEF A, r, c, V
    <3> QED BY <1>2, <2>1 DEF TheTerminal!Left
  <2>3. Put(s, Backspace) = s
    BY <1>0, <1>4, Sizes, Controls DEF Put, PastEnd, Character
  <2>4. s.fb = f /\ s.cursor = p
    OBVIOUS
  <2>5. TheTerminal!Write(A, Backspace) = A
    <3> HIDE DEF L, A
    <3> QED BY <1>3, <2>2
  <2> QED BY <2>3, <2>4, <2>5
<1>5. CASE p # 0
  <2> DEFINE g == [f EXCEPT ![p - 1] = Blank]
             t == [fb |-> g, cursor |-> p - 1]
  <2>1. /\ p - 1 \in Cells
        /\ IF c > 1 THEN RowOf(p - 1) = r /\ ColOf(p - 1) = c - 1
           ELSE r > 1 /\ c = 1 /\ RowOf(p - 1) = r - 1 /\ ColOf(p - 1) = FB_COLS
    <3>1. CASE c > 1
      BY <3>1, PreviousCell
    <3>2. CASE ~(c > 1)
      <4>1. c = 1
        BY <1>1, <3>2, Sizes
      <4>2. r # 1
        BY <1>5, <4>1, PreviousCell
      <4>3. r > 1
        BY <1>1, <4>2, Sizes
      <4>4. p - 1 \in Cells /\ RowOf(p - 1) = r - 1 /\ ColOf(p - 1) = FB_COLS
        BY <4>1, <4>3, PreviousCell
      <4> QED BY <3>2, <4>1, <4>3, <4>4
    <3> QED BY <3>1, <3>2
  <2>2. L = [rows |-> V, row |-> RowOf(p - 1), col |-> ColOf(p - 1)]
    <3> HIDE DEF A, r, c, V
    <3>1. CASE c > 1
      BY <1>2, <2>1, <3>1 DEF TheTerminal!Left
    <3>2. CASE ~(c > 1)
      BY <1>2, <2>1, <3>2 DEF TheTerminal!Left
    <3> QED BY <3>1, <3>2
  <2>3. L # A
    <3>1. L.row # r \/ L.col # c
      <4> HIDE DEF L, A, r, c, V
      <4> QED BY <1>1, <2>1, <2>2, Sizes
    <3>2. A.row = r /\ A.col = c
      <4> HIDE DEF L, A, r, c, V
      <4> QED BY <1>2
    <3> HIDE DEF L, A, r, c, V
    <3> QED BY <3>1, <3>2
  <2>4. View(g) = At(V, RowOf(p - 1), ColOf(p - 1), Blank)
    BY <2>1, ViewWrite
  <2>5. [L EXCEPT !.rows[L.row][L.col] = Blank] = Abstract(g, p - 1)
    <3> HIDE DEF L, V, g
    <3> QED BY <2>2, <2>4 DEF Abstract, At
  <2>6. Put(s, Backspace) = t
    <3>1. Character(s, Backspace) = t
      BY <1>0, <1>5, Controls DEF Character
    <3>2. t.cursor = p - 1
      OBVIOUS
    <3> HIDE DEF t
    <3> QED BY <1>0, <3>1, <3>2, Sizes DEF Put, PastEnd
  <2>7. t.fb = g /\ t.cursor = p - 1
    OBVIOUS
  <2> HIDE DEF t, g, L
  <2> QED BY <1>3, <2>3, <2>5, <2>6, <2>7
<1> QED BY <1>4, <1>5

LEMMA AbstractPut ==
  ASSUME NEW f \in [Cells -> Glyphs], NEW p \in Cells, NEW c \in Writable
  PROVE  LET t == Put([fb |-> f, cursor |-> p], c) IN
         Abstract(t.fb, t.cursor) = TheTerminal!Write(Abstract(f, p), c)
  BY AbstractEnter, AbstractGlyph, AbstractBackspace

-----------------------------------------------------------------------------
(* The refinement                                                          *)

\* A step of fb_write is a step of Terminal.
LEMMA PutStep ==
  ASSUME ConsoleInv, NEW c \in Writable, Show(Put(Screen, c)),
         stage \in {"user", "write"}, stage' \in {"user", "write"}
  PROVE  TheTerminal!Next
<1>1. fb \in [Cells -> Glyphs] /\ fb_cursor \in Cells
  BY DEF ConsoleInv, TypeOK, Glyphs
<1>2. Abstract(fb', fb_cursor') = TheTerminal!Write(Abstract(fb, fb_cursor), c)
  BY <1>1, AbstractPut DEF Show, Screen
<1> DEFINE A == Abstract(fb, fb_cursor)
           W == TheTerminal!Write(A, c)
<1>3. A = [rows |-> View(fb), row |-> RowOf(fb_cursor), col |-> ColOf(fb_cursor)]
  BY DEF Abstract
<1>4. /\ W.rows = View(fb') /\ W.row = RowOf(fb_cursor') /\ W.col = ColOf(fb_cursor')
  BY <1>2 DEF Abstract
<1>5. c \in Output \union Chars \union {Enter, Backspace}
  BY DEF Writable
<1> DEFINE R == [rows |-> [r \in 1 .. FB_ROWS |->
                            [d \in 1 .. FB_COLS |-> fb[(r - 1) * FB_COLS + d - 1]]],
                 row |-> fb_cursor \div FB_COLS + 1,
                 col |-> (fb_cursor % FB_COLS) + 1]
<1>6. W = TheTerminal!Write(R, c)
  BY <1>3 DEF View, RowOf, ColOf
<1>7. TheTerminal!Show(TheTerminal!Write(R, c))
  <2> HIDE DEF W, R
  <2> QED BY <1>4, <1>6 DEF TheTerminal!Show, View, RowOf, ColOf
<1>8. \E x \in Output \union Chars \union {Enter, Backspace} :
        TheTerminal!Show(TheTerminal!Write(R, x))
  <2> HIDE DEF R
  <2> QED BY <1>5, <1>7 DEF TheTerminal!Show
<1> QED BY <1>8 DEF TheTerminal!Next, TheTerminal!Show

LEMMA ClearStep ==
  ASSUME ConsoleInv, SysClear
  PROVE  TheTerminal!Next
<1>1. stage = "user" /\ stage' = "user" /\ fb' = [i \in Cells |-> Blank] /\ fb_cursor' = 0
  BY DEF SysClear, fb_clear, kmainVars
<1>2. RowOf(fb_cursor') = 1 /\ ColOf(fb_cursor') = 1
  BY <1>1, PreviousCell, Sizes DEF Cells
<1>3. View(fb') = [r \in 1 .. FB_ROWS |-> TheTerminal!BlankRow]
  <2>1. \A r \in 1 .. FB_ROWS, c \in 1 .. FB_COLS : fb'[Cell(r, c)] = Blank
    BY <1>1, CellIs
  <2> QED BY <2>1 DEF View, Cell, TheTerminal!BlankRow
<1> DEFINE W == [rows |-> [r \in 1 .. FB_ROWS |-> TheTerminal!BlankRow], row |-> 1, col |-> 1]
<1>4. TheTerminal!Show(W)
  BY <1>2, <1>3 DEF TheTerminal!Show, View, RowOf, ColOf
<1> QED BY <1>1, <1>4 DEF TheTerminal!Next

terminalVars ==
  <<stage \in {"user", "write"}, View(fb), RowOf(fb_cursor), ColOf(fb_cursor)>>

LEMMA NextTerminal ==
  ASSUME ConsoleInv, [Next]_vars
  PROVE  TheTerminal!Next \/ UNCHANGED terminalVars
<1>1. CASE stage \notin {"user", "write"}
  BY <1>1 DEF TheTerminal!Next
<1> SUFFICES ASSUME stage \in {"user", "write"}
             PROVE  TheTerminal!Next \/ UNCHANGED terminalVars
  BY <1>1
<1>2. ASSUME stage' \in {"user", "write"}, UNCHANGED <<fb, fb_cursor>>
      PROVE  UNCHANGED terminalVars
  BY <1>2 DEF terminalVars
<1>3. CASE UNCHANGED vars
  BY <1>2, <1>3 DEF vars, screenVars, kmainVars
<1>4. CASE kmain
  BY <1>4 DEF kmain, ReadCursor, WriteCell, AddToCursor, StoreCursor, CheckEnd,
     LoadPosition, SelectRegister, WriteHigh, WriteLow, Writing, Written
<1>5. ASSUME NEW key \in Keys, Irq1(key)
      PROVE  TheTerminal!Next \/ UNCHANGED terminalVars
  <2>1. stage' = stage
    BY <1>5 DEF Irq1, kmainVars
  <2>2. CASE Echoes(key)
    <3>1. Show(Put(Screen, key))
      BY <1>5, <2>2 DEF Irq1
    <3>2. key \in Writable
      BY <2>2 DEF Keys, Echoes, Dropped, Writable
    <3> QED BY <2>1, <3>1, <3>2, PutStep
  <2>3. CASE ~Echoes(key)
    BY <1>2, <1>5, <2>1, <2>3 DEF Irq1, screenVars
  <2> QED BY <2>2, <2>3
<1>6. CASE SysWrite
  BY <1>2, <1>6 DEF SysWrite, screenVars
<1>7. ASSUME NEW c \in Output, WriteCharacter(c)
      PROVE  TheTerminal!Next
  BY <1>7, PutStep DEF WriteCharacter, Writable, kmainVars
<1>8. CASE SysWriteReturn
  BY <1>2, <1>8 DEF SysWriteReturn
<1>9. CASE SysClear
  BY <1>9, ClearStep
<1>10. CASE SysRead
  BY <1>2, <1>10 DEF SysRead, screenVars, kmainVars
<1> QED BY <1>3, <1>4, <1>5, <1>6, <1>7, <1>8, <1>9, <1>10 DEF Next

\* From the first process on, fb.c's array and its one number behave as rows
\* and columns: every character of every text does what Terminal's does.
THEOREM TerminalSpecHolds == Spec => TerminalSpec
<1>1. Init => ~(stage \in {"user", "write"})
  BY DEF Init
<1>2. ConsoleInv /\ [Next]_vars => [TheTerminal!Next]_terminalVars
  BY NextTerminal
<1>3. Spec => [][TheTerminal!Next]_terminalVars
  BY <1>2, ConsoleInvariance, PTL DEF Spec
<1> QED
  BY <1>1, <1>3, PTL DEF Spec, TerminalSpec, TheTerminal!Spec, terminalVars, View, RowOf, ColOf
=============================================================================
