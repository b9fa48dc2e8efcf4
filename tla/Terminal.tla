------------------------------ MODULE Terminal ------------------------------
(***************************************************************************)
(* What a screen promises: rows of cells and a place for the next          *)
(* character, given by its row and column.  Leaving the last row pushes    *)
(* the first one out.  Before live, while the machine boots, nothing is    *)
(* promised.                                                               *)
(***************************************************************************)
EXTENDS Integers, Sequences

CONSTANTS Rows, Columns, Blank, Newline, Backspace,
          Characters  \* what may be written

VARIABLES live, rows, row, col  \* row and col count from 1

BlankRow == [c \in 1 .. Columns |-> Blank]

NewRow(t) ==
  IF t.row < Rows THEN [t EXCEPT !.row = @ + 1, !.col = 1]
  ELSE [rows |-> Append(Tail(t.rows), BlankRow), row |-> Rows, col |-> 1]

\* The column moves on; past the last one a new row begins.
Right(t) ==
  IF t.col < Columns THEN [t EXCEPT !.col = @ + 1] ELSE NewRow(t)

\* One cell back, into the row above at the start of a row; nowhere from the
\* first cell.
Left(t) ==
  CASE t.col > 1 -> [t EXCEPT !.col = @ - 1]
    [] t.col = 1 /\ t.row > 1 -> [t EXCEPT !.row = @ - 1, !.col = Columns]
    [] OTHER -> t

Write(t, c) ==
  CASE c = Newline   -> NewRow(t)
    [] c = Backspace -> IF Left(t) = t THEN t
                        ELSE [Left(t) EXCEPT !.rows[Left(t).row][Left(t).col] = Blank]
    [] OTHER         -> Right([t EXCEPT !.rows[t.row][t.col] = c])

Show(t) == rows' = t.rows /\ row' = t.row /\ col' = t.col

Next ==
  \/ ~live
  \/ /\ live /\ live'
     /\ \E c \in Characters :
          Show(Write([rows |-> rows, row |-> row, col |-> col], c))
  \/ /\ live /\ live'
     /\ Show([rows |-> [r \in 1 .. Rows |-> BlankRow], row |-> 1, col |-> 1])

Spec == ~live /\ [][Next]_<<live, rows, row, col>>
=============================================================================
