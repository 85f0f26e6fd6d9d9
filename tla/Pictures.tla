------------------------------ MODULE Pictures ------------------------------
(***************************************************************************)
(* What the screen promises: every terminal has a picture of its own, a    *)
(* row of cells with a place where the next character goes, and one of     *)
(* them is shown.  Lines scroll off at the end.  Screen implements this    *)
(* with one video memory and a buffer per terminal, until one of the races *)
(* it lists has happened.                                                  *)
(***************************************************************************)
EXTENDS Integers

CONSTANTS Terms, NUM_COLS, NUM_ROWS, Blank, Ink

VARIABLES picture,   \* the cells of each terminal
          place,     \* the cell each terminal's next character goes to
          shown,     \* the terminal on the screen
          broken     \* a race has happened

vars == <<picture, place, shown, broken>>

Cells == 0 .. NUM_ROWS * NUM_COLS - 1

\* The next character goes to cell i; beyond the end, everything moves up a row.
MoveTo(t, p, i) ==
  IF i \in Cells
  THEN /\ picture' = [picture EXCEPT ![t] = p]
       /\ place' = [place EXCEPT ![t] = i]
  ELSE /\ picture' = [picture EXCEPT ![t] =
                       [j \in Cells |-> IF j + NUM_COLS \in Cells
                                        THEN p[j + NUM_COLS] ELSE Blank]]
       /\ place' = [place EXCEPT ![t] = i - NUM_COLS]

Put(t) ==
  /\ MoveTo(t, [picture[t] EXCEPT ![place[t]] = Ink], place[t] + 1)
  /\ UNCHANGED <<shown, broken>>

NewLine(t) ==
  /\ MoveTo(t, picture[t], (place[t] \div NUM_COLS + 1) * NUM_COLS)
  /\ UNCHANGED <<shown, broken>>

Erase(t) ==
  /\ place[t] > 0
  /\ MoveTo(t, [picture[t] EXCEPT ![place[t] - 1] = Blank], place[t] - 1)
  /\ UNCHANGED <<shown, broken>>

Clear(t) ==
  /\ MoveTo(t, [i \in Cells |-> Blank], 0)
  /\ UNCHANGED <<shown, broken>>

\* A program draws on its picture, wherever it likes.
Draw(t, i, c) ==
  /\ picture' = [picture EXCEPT ![t][i] = c]
  /\ UNCHANGED <<place, shown, broken>>

Show(t) ==
  /\ shown' = t
  /\ UNCHANGED <<picture, place, broken>>

Init ==
  /\ picture = [t \in Terms |-> [i \in Cells |-> Blank]]
  /\ place = [t \in Terms |-> 0]
  /\ shown \in Terms
  /\ broken = FALSE

Step(t) == \/ Put(t) \/ NewLine(t) \/ Erase(t) \/ Clear(t) \/ Show(t)
           \/ \E i \in Cells, c \in {Blank, Ink} : Draw(t, i, c)

Next == broken' \/ \E t \in Terms : Step(t)

Spec == Init /\ [][Next]_vars
=============================================================================
