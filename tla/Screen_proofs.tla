---------------------------- MODULE Screen_proofs ----------------------------
(***************************************************************************)
(* Theorems about Screen, for any number of terminals, any size of the     *)
(* screen and any line that fits on it when it has scrolled.               *)
(*                                                                         *)
(* IndInv adds to the properties that the terminal displayed has a program *)
(* and that the user pages of the running terminals are mapped as the      *)
(* screen is shown.  What a terminal draws is followed on its View, which  *)
(* is what both the lines and the refinement are about.                    *)
(***************************************************************************)
EXTENDS Screen, TLAPS

MapInv ==
  \A t \in active \cup {Shown} : video_table[t] = "VIDEO" <=> t = Shown

IndInv ==
  /\ TypeOK
  /\ OnScreen
  /\ disp_term \in active
  /\ MapInv
  /\ LineOnScreen

-----------------------------------------------------------------------------
\* Cells and places.
LEMMA OffsetFact ==
  ASSUME NEW x \in 0 .. NUM_COLS - 1, NEW y \in Int
  PROVE  /\ Offset(x, y) \in Int
         /\ Offset(x, y + 1) = Offset(x, y) + NUM_COLS
         /\ Offset(x, y - 1) = Offset(x, y) - NUM_COLS
         /\ y \in Nat => Offset(x, y) \in Nat
         /\ y \in 0 .. NUM_ROWS - 1 <=> Offset(x, y) \in Cells
BY SizeAssumption DEF Offset, Cells

LEMMA RowFact ==
  ASSUME NEW x \in 0 .. NUM_COLS - 1, NEW y \in Nat
  PROVE  Offset(0, y + 1) = (Offset(x, y) \div NUM_COLS + 1) * NUM_COLS
<1>1. (NUM_COLS * y + x) \div NUM_COLS = y
  BY SizeAssumption
<1>2. QED
  BY <1>1, SizeAssumption DEF Offset

LEMMA ForwardFact ==
  ASSUME NEW x \in 0 .. NUM_COLS - 1, NEW y \in 0 .. NUM_ROWS - 1
  PROVE  \E a \in 0 .. NUM_COLS - 1, b \in 0 .. NUM_ROWS :
           /\ update_coords_forward(x, y) = <<a, b>>
           /\ Offset(a, b) = Offset(x, y) + 1
<1>1. CASE x + 1 < NUM_COLS
  BY <1>1, SizeAssumption DEF update_coords_forward, Offset
<1>2. CASE x + 1 = NUM_COLS
  <2>1. (x + 1) % NUM_COLS = 0
    BY <1>2, SizeAssumption
  <2>2. update_coords_forward(x, y) = <<0, y + 1>>
    BY <1>2, <2>1 DEF update_coords_forward
  <2>3. Offset(0, y + 1) = Offset(x, y) + 1
    BY <1>2, SizeAssumption DEF Offset
  <2>4. QED
    BY <2>2, <2>3, SizeAssumption
<1>3. QED
  BY <1>1, <1>2, SizeAssumption

LEMMA BackFact ==
  ASSUME NEW x \in 0 .. NUM_COLS - 1, NEW y \in 0 .. NUM_ROWS - 1
  PROVE  \E a \in 0 .. NUM_COLS - 1, b \in 0 .. NUM_ROWS - 1 :
           /\ update_coords_back(x, y) = <<a, b>>
           /\ Offset(x, y) > 0 => Offset(a, b) = Offset(x, y) - 1
BY SizeAssumption DEF update_coords_back, Offset

LEMMA PlaceFact ==
  ASSUME OnScreen, NEW t \in Terms
  PROVE  /\ term_X[t] \in 0 .. NUM_COLS - 1
         /\ term_Y[t] \in 0 .. NUM_ROWS - 1
         /\ Place(t) \in Cells
         /\ Place(t) \in Nat
BY OffsetFact DEF OnScreen, Place, Cells

LEMMA CellsFact ==
  /\ 0 \in Cells
  /\ NUM_ROWS * NUM_COLS = NUM_COLS * (NUM_ROWS - 1) + NUM_COLS
  /\ \A i \in Cells : /\ i \in Nat
                      /\ i < NUM_COLS * (NUM_ROWS - 1) <=> i + NUM_COLS \in Cells
BY SizeAssumption DEF Cells

LEMMA CellBelow ==
  ASSUME NEW i \in Cells, NEW j \in 0 .. i
  PROVE  j \in Cells
BY SizeAssumption DEF Cells

-----------------------------------------------------------------------------
\* Drawing.
Painted(p, cells, c) == [i \in Cells |-> IF i \in cells THEN c ELSE p[i]]

LEMMA DrawnFact ==
  ASSUME NEW p \in Picture, NEW cells, NEW c \in {Blank, Ink}
  PROVE  /\ Painted(p, cells, c) \in Picture
         /\ scroll_down(p) \in Picture
         /\ BlankPicture \in Picture
         /\ scroll_down(p) = [j \in Cells |-> IF j + NUM_COLS \in Cells
                                              THEN p[j + NUM_COLS] ELSE Blank]
BY CellsFact, SizeAssumption DEF Painted, scroll_down, Picture, BlankPicture

LEMMA ViewType ==
  ASSUME TypeOK, NEW t \in Terms
  PROVE  View(t) \in Picture
BY DEF TypeOK, View

\* What Continue does to the places and to the pictures that are kept.
LEMMA ContinueFact ==
  ASSUME TypeOK, OnScreen, NEW t \in Terms, NEW cells, NEW c \in {Blank, Ink},
         NEW x \in 0 .. NUM_COLS - 1, NEW y \in 0 .. NUM_ROWS,
         Continue(t, cells, c, <<x, y>>)
  PROVE  LET New(p) == IF y >= NUM_ROWS THEN scroll_down(Painted(p, cells, c))
                       ELSE Painted(p, cells, c)
             row == IF y >= NUM_ROWS THEN NUM_ROWS - 1 ELSE y
         IN  /\ video_buffer' = [video_buffer EXCEPT ![t] = New(video_buffer[t])]
             /\ VIDEO' = IF t = disp_term THEN New(VIDEO) ELSE VIDEO
             /\ term_X' = [term_X EXCEPT ![t] = x]
             /\ term_Y' = [term_Y EXCEPT ![t] = row]
             /\ row \in 0 .. NUM_ROWS - 1
             /\ VIDEO' \in Picture
             /\ video_buffer' \in [Terms -> Picture]
<1> DEFINE New(p) == IF y >= NUM_ROWS THEN scroll_down(Painted(p, cells, c))
                     ELSE Painted(p, cells, c)
<1>1. /\ video_buffer' = [video_buffer EXCEPT ![t] = New(video_buffer[t])]
      /\ VIDEO' = IF t = disp_term THEN New(VIDEO) ELSE VIDEO
      /\ term_X' = [term_X EXCEPT ![t] = x]
      /\ term_Y' = [term_Y EXCEPT ![t] =
                      IF y >= NUM_ROWS THEN NUM_ROWS - 1 ELSE y]
  BY DEF Continue, Painted
<1>2. \A p \in Picture : New(p) \in Picture
  BY DrawnFact
<1> HIDE DEF New
<1>3. /\ VIDEO' \in Picture
      /\ video_buffer' \in [Terms -> Picture]
  BY <1>1, <1>2 DEF TypeOK
<1>4. QED
  BY <1>1, <1>3, SizeAssumption DEF New

\* A terminal that is not drawn on keeps its view; the one that is has its view
\* painted, and scrolled if it goes on below the last row.
LEMMA ViewFact ==
  ASSUME TypeOK, OnScreen, NEW t \in Terms, NEW cells, NEW c \in {Blank, Ink},
         NEW x \in 0 .. NUM_COLS - 1, NEW y \in 0 .. NUM_ROWS,
         Continue(t, cells, c, <<x, y>>),
         ~Switching, UNCHANGED <<disp_term, dest>>
  PROVE  /\ \A s \in Terms \ {t} : View(s)' = View(s) /\ Place(s)' = Place(s)
         /\ Offset(x, y) \in Cells =>
              /\ View(t)' = Painted(View(t), cells, c)
              /\ Place(t)' = Offset(x, y)
         /\ Offset(x, y) \notin Cells =>
              /\ View(t)' = scroll_down(Painted(View(t), cells, c))
              /\ Place(t)' = Offset(x, y) - NUM_COLS
<1> DEFINE New(p) == IF y >= NUM_ROWS THEN scroll_down(Painted(p, cells, c))
                     ELSE Painted(p, cells, c)
           row == IF y >= NUM_ROWS THEN NUM_ROWS - 1 ELSE y
<1>1. /\ video_buffer' = [video_buffer EXCEPT ![t] = New(video_buffer[t])]
      /\ VIDEO' = IF t = disp_term THEN New(VIDEO) ELSE VIDEO
      /\ term_X' = [term_X EXCEPT ![t] = x]
      /\ term_Y' = [term_Y EXCEPT ![t] = row]
  BY ContinueFact
<1>2. Shown = disp_term /\ Shown' = disp_term
  BY DEF Shown, Switching
<1>3. y \in 0 .. NUM_ROWS - 1 <=> Offset(x, y) \in Cells
  BY OffsetFact
<1>4. y >= NUM_ROWS => y - 1 = NUM_ROWS - 1 /\ Offset(x, y - 1) = Offset(x, y) - NUM_COLS
  BY OffsetFact, SizeAssumption
<1>5. /\ term_X'[t] = x /\ term_Y'[t] = row
      /\ \A s \in Terms \ {t} : term_X'[s] = term_X[s] /\ term_Y'[s] = term_Y[s]
  BY <1>1 DEF OnScreen
<1>6. Place(t)' = IF Offset(x, y) \in Cells THEN Offset(x, y)
                  ELSE Offset(x, y) - NUM_COLS
  BY <1>3, <1>4, <1>5, SizeAssumption DEF Place, Offset
<1>7. \A s \in Terms \ {t} : View(s)' = View(s) /\ Place(s)' = Place(s)
  <2> HIDE DEF New
  <2> QED
    BY <1>1, <1>2, <1>5 DEF View, Place, Offset, TypeOK
<1>8. View(t)' = New(View(t))
  <2> HIDE DEF New
  <2> QED
    BY <1>1, <1>2 DEF View, TypeOK
<1>9. QED
  BY <1>3, <1>6, <1>7, <1>8, SizeAssumption

\* Drawing keeps the places and the cursor on the screen.
LEMMA DrawType ==
  ASSUME TypeOK, OnScreen, NEW t \in Terms, NEW cells, NEW c \in {Blank, Ink},
         NEW x \in 0 .. NUM_COLS - 1, NEW y \in 0 .. NUM_ROWS,
         Continue(t, cells, c, <<x, y>>),
         terminal_update_cursor(t)
  PROVE  /\ OnScreen'
         /\ VIDEO' \in Picture
         /\ video_buffer' \in [Terms -> Picture]
         /\ cursor' \in Nat
<1> DEFINE row == IF y >= NUM_ROWS THEN NUM_ROWS - 1 ELSE y
<1>1. /\ term_X' = [term_X EXCEPT ![t] = x]
      /\ term_Y' = [term_Y EXCEPT ![t] = row]
      /\ row \in 0 .. NUM_ROWS - 1
      /\ VIDEO' \in Picture
      /\ video_buffer' \in [Terms -> Picture]
  BY ContinueFact
<1> HIDE DEF row
<1>2. /\ term_X' \in [Terms -> 0 .. NUM_COLS - 1]
      /\ term_Y' \in [Terms -> 0 .. NUM_ROWS - 1]
      /\ term_X'[t] = x /\ term_Y'[t] = row
  BY <1>1 DEF OnScreen
<1>3. Offset(x, row) \in Cells
  BY <1>1, OffsetFact
<1>4. cursor' \in Cells
  BY <1>2, <1>3 DEF terminal_update_cursor, OnScreen
<1>5. QED
  BY <1>1, <1>2, <1>4 DEF OnScreen, Cells

\* The three ways to draw, each with its place and its cells.
LEMMA CharFact ==
  ASSUME TypeOK, OnScreen, NEW t \in Terms, all_char(t)
  PROVE  \E x \in 0 .. NUM_COLS - 1, y \in 0 .. NUM_ROWS :
           /\ Continue(t, {Place(t)}, Ink, <<x, y>>)
           /\ terminal_update_cursor(t)
           /\ Offset(x, y) = Place(t) + 1
BY PlaceFact, ForwardFact DEF all_char, Place

LEMMA NewLineFact ==
  ASSUME TypeOK, OnScreen, NEW t \in Terms, new_line_char(t)
  PROVE  \E x \in 0 .. NUM_COLS - 1, y \in 0 .. NUM_ROWS :
           /\ Continue(t, {}, Blank, <<x, y>>)
           /\ terminal_update_cursor(t)
           /\ Offset(x, y) = (Place(t) \div NUM_COLS + 1) * NUM_COLS
<1>1. /\ 0 \in 0 .. NUM_COLS - 1
      /\ term_X[t] \in 0 .. NUM_COLS - 1
      /\ term_Y[t] \in Nat
      /\ term_Y[t] + 1 \in 0 .. NUM_ROWS
  BY PlaceFact, SizeAssumption
<1>2. QED
  BY <1>1, RowFact DEF new_line_char, Place

LEMMA BackspaceFact ==
  ASSUME TypeOK, OnScreen, NEW t \in Terms, backspace_char(t)
  PROVE  \E x \in 0 .. NUM_COLS - 1, y \in 0 .. NUM_ROWS - 1 :
           /\ Continue(t, {Offset(x, y)}, Blank, <<x, y>>)
           /\ terminal_update_cursor(t)
           /\ Place(t) > 0 => Offset(x, y) = Place(t) - 1
<1>1. PICK x \in 0 .. NUM_COLS - 1, y \in 0 .. NUM_ROWS - 1 :
        /\ update_coords_back(term_X[t], term_Y[t]) = <<x, y>>
        /\ Place(t) > 0 => Offset(x, y) = Place(t) - 1
  BY PlaceFact, BackFact DEF Place
<1>2. QED
  BY <1>1 DEF backspace_char

-----------------------------------------------------------------------------
\* The lines.
LineShown(t) ==
  mode[t] = "read" =>
    /\ curr_idx[t] <= Place(t)
    /\ \A i \in 1 .. curr_idx[t] : View(t)[Place(t) - i] = Ink

LEMMA LineDef == LineOnScreen <=> (~broken => \A t \in Terms : LineShown(t))
BY DEF LineOnScreen, LineShown

\* A line that begins is shown, and one whose terminal is not touched stays so.
LEMMA LineKept ==
  ASSUME TypeOK, OnScreen, NEW t \in Terms, LineShown(t),
         View(t)' = View(t), Place(t)' = Place(t),
         mode'[t] = "read" => \/ curr_idx'[t] = 0
                              \/ mode[t] = "read" /\ curr_idx'[t] = curr_idx[t]
  PROVE  LineShown(t)'
<1>1. Place(t) \in Nat
  BY PlaceFact
<1>2. CASE curr_idx'[t] = 0
  BY <1>1, <1>2 DEF LineShown
<1>3. CASE mode[t] = "read" /\ curr_idx'[t] = curr_idx[t]
  BY <1>1, <1>3 DEF LineShown
<1>4. QED
  BY <1>2, <1>3 DEF LineShown

LEMMA EmptyLine ==
  ASSUME OnScreen', NEW t \in Terms, mode'[t] = "read" => curr_idx'[t] = 0
  PROVE  LineShown(t)'
<1>1. term_X'[t] \in 0 .. NUM_COLS - 1 /\ term_Y'[t] \in Nat
  BY DEF OnScreen
<1>2. Place(t)' \in Nat
  BY <1>1, SizeAssumption DEF Place, Offset
<1>3. QED
  BY <1>2 DEF LineShown

-----------------------------------------------------------------------------
\* The steps.
LEMMA InitInv == Init => IndInv
<1> SUFFICES ASSUME Init PROVE IndInv
  OBVIOUS
<1>1. 0 \in Terms /\ None \notin Terms
  BY NumTermsAssumption DEF Terms, None
<1>2. Shown = 0
  BY <1>1 DEF Init, Shown, Switching
<1>3. BlankPicture \in Picture
  BY DEF BlankPicture, Picture
<1>4. TypeOK
  <2>1. VIDEO \in Picture /\ video_buffer \in [Terms -> Picture]
    BY <1>3 DEF Init
  <2>2. /\ curr_idx \in [Terms -> 0 .. MAX_LINE]
        /\ mode \in [Terms -> {"user", "read", "write"}]
        /\ video_table \in [Terms -> {"VIDEO", "buffer"}]
    BY LineAssumption DEF Init
  <2>3. QED
    BY <1>1, <2>1, <2>2 DEF Init, TypeOK
<1>5. OnScreen
  BY SizeAssumption DEF Init, OnScreen, Cells
<1>6. LineOnScreen
  BY DEF Init, LineOnScreen
<1>7. QED
  BY <1>1, <1>2, <1>4, <1>5, <1>6 DEF Init, IndInv, MapInv

\* A step that changes no terminal's picture.
LEMMA SameViews ==
  ASSUME IndInv, TypeOK', OnScreen', disp_term' \in active', MapInv',
         broken => broken',
         \A t \in Terms : View(t)' = View(t) /\ Place(t)' = Place(t),
         \A t \in Terms : mode'[t] = "read" =>
           \/ curr_idx'[t] = 0
           \/ mode[t] = "read" /\ curr_idx'[t] = curr_idx[t]
  PROVE  IndInv'
<1>1. ~broken' => \A t \in Terms : LineShown(t)'
  BY LineDef, LineKept DEF IndInv
<1>2. LineOnScreen'
  BY <1>1 DEF LineOnScreen, LineShown
<1>3. QED
  BY <1>2 DEF IndInv

\* One that changes neither the pictures nor what is shown.
LEMMA NoDrawing ==
  ASSUME IndInv, TypeOK', OnScreen',
         UNCHANGED <<active, pictVars, video_table>>, Shown' = Shown,
         disp_term' \in active,
         broken => broken',
         \A t \in Terms : mode'[t] = "read" =>
           \/ curr_idx'[t] = 0
           \/ mode[t] = "read" /\ curr_idx'[t] = curr_idx[t]
  PROVE  IndInv'
<1>1. \A t \in Terms : View(t)' = View(t) /\ Place(t)' = Place(t)
  BY DEF pictVars, View, Place, Offset
<1>2. MapInv'
  BY DEF IndInv, MapInv
<1>3. QED
  BY <1>1, <1>2, SameViews

LEMMA ModeStep ==
  ASSUME IndInv, ReadBegin \/ ReadEnd \/ WriteEnd
  PROVE  IndInv'
<1>1. TypeOK'
  BY LineAssumption DEF IndInv, TypeOK, ReadBegin, ReadEnd, WriteEnd, pictVars
<1>2. OnScreen'
  BY DEF IndInv, OnScreen, ReadBegin, ReadEnd, WriteEnd, pictVars
<1>3. Shown' = Shown
  BY DEF ReadBegin, ReadEnd, WriteEnd, Shown, Switching
<1>4. \A t \in Terms : mode'[t] = "read" =>
        \/ curr_idx'[t] = 0
        \/ mode[t] = "read" /\ curr_idx'[t] = curr_idx[t]
  BY DEF IndInv, TypeOK, ReadBegin, ReadEnd, WriteEnd
<1>5. QED
  BY <1>1, <1>2, <1>3, <1>4, NoDrawing
  DEF IndInv, ReadBegin, ReadEnd, WriteEnd

LEMMA KeyClearStep ==
  ASSUME IndInv, KeyClear
  PROVE  IndInv'
<1>1. TypeOK'
  BY LineAssumption DEF IndInv, TypeOK, KeyClear, Switching, pictVars
<1>2. OnScreen'
  BY DEF IndInv, OnScreen, KeyClear, pictVars
<1>3. Shown' = Shown
  BY DEF KeyClear, Shown, Switching
<1>4. \A t \in Terms : mode'[t] = "read" =>
        \/ curr_idx'[t] = 0
        \/ mode[t] = "read" /\ curr_idx'[t] = curr_idx[t]
  BY DEF IndInv, TypeOK, KeyClear
<1>5. QED
  BY <1>1, <1>2, <1>3, <1>4, NoDrawing DEF IndInv, KeyClear

LEMMA TickStep ==
  ASSUME IndInv, NEW t \in Terms, Tick(t)
  PROVE  IndInv'
<1>1. cursor' \in Cells /\ cursor' \in Nat
  BY PlaceFact DEF IndInv, TypeOK, Tick, UpdateCursor, Place, Cells
<1>2. TypeOK'
  BY <1>1 DEF IndInv, TypeOK, Tick, pictVars
<1>3. OnScreen'
  BY <1>1 DEF IndInv, OnScreen, Tick, pictVars
<1>4. Shown' = Shown
  BY DEF Tick, Shown, Switching
<1>5. QED
  BY <1>2, <1>3, <1>4, NoDrawing DEF IndInv, Tick

\* A step that draws on the terminal t, whose line comes out right; broken must
\* be set when it draws inside a switch.
LEMMA Drawing ==
  ASSUME IndInv, NEW t \in Terms, NEW cells, NEW c \in {Blank, Ink},
         NEW x \in 0 .. NUM_COLS - 1, NEW y \in 0 .. NUM_ROWS,
         Continue(t, cells, c, <<x, y>>), terminal_update_cursor(t),
         UNCHANGED <<curr_term, disp_term, active, video_table, clearing, dest>>,
         mode' \in [Terms -> {"user", "read", "write"}],
         curr_idx' \in [Terms -> 0 .. MAX_LINE],
         broken' \in BOOLEAN, broken \/ Switching => broken',
         \A s \in Terms \ {t} : mode'[s] = "read" =>
           mode[s] = "read" /\ curr_idx'[s] = curr_idx[s],
         ~broken' => LineShown(t)'
  PROVE  IndInv'
<1>1. /\ OnScreen'
      /\ VIDEO' \in Picture
      /\ video_buffer' \in [Terms -> Picture]
      /\ cursor' \in Nat
  BY DrawType DEF IndInv
<1>2. TypeOK'
  BY <1>1 DEF IndInv, TypeOK
<1>3. Shown' = Shown
  BY DEF Shown, Switching
<1>4. ASSUME ~broken', NEW s \in Terms \ {t}
      PROVE  LineShown(s)'
  <2>1. ~broken /\ ~Switching
    BY <1>4
  <2>2. LineShown(s)
    BY <2>1, LineDef DEF IndInv
  <2>3. View(s)' = View(s) /\ Place(s)' = Place(s)
    BY <2>1, ViewFact DEF IndInv
  <2>4. QED
    BY <2>2, <2>3, LineKept DEF IndInv
<1>5. LineOnScreen'
  BY <1>4 DEF LineOnScreen, LineShown
<1>6. QED
  BY <1>1, <1>2, <1>3, <1>5 DEF IndInv, MapInv

LEMMA WriteCharStep ==
  ASSUME IndInv, WriteChar
  PROVE  IndInv'
<1>1. /\ curr_term \in Terms /\ disp_term \in Terms
      /\ ~Switching
      /\ mode' = [mode EXCEPT ![curr_term] = "write"]
      /\ UNCHANGED <<curr_term, disp_term, active, video_table, curr_idx,
                     clearing, dest, broken>>
  BY DEF IndInv, TypeOK, WriteChar, Runs
<1>2. /\ mode' \in [Terms -> {"user", "read", "write"}]
      /\ curr_idx' \in [Terms -> 0 .. MAX_LINE]
      /\ broken' \in BOOLEAN
      /\ broken \/ Switching => broken'
      /\ \A s \in Terms \ {curr_term} : mode'[s] = "read" =>
           mode[s] = "read" /\ curr_idx'[s] = curr_idx[s]
      /\ LineShown(curr_term)'
  BY <1>1 DEF IndInv, TypeOK, LineShown
<1>3. ASSUME all_char(curr_term) PROVE IndInv'
  <2>1. PICK x \in 0 .. NUM_COLS - 1, y \in 0 .. NUM_ROWS :
          /\ Continue(curr_term, {Place(curr_term)}, Ink, <<x, y>>)
          /\ terminal_update_cursor(curr_term)
    BY <1>1, <1>3, CharFact DEF IndInv
  <2>2. QED
    BY <1>1, <1>2, <2>1, Drawing
<1>4. ASSUME new_line_char(curr_term) PROVE IndInv'
  <2>1. PICK x \in 0 .. NUM_COLS - 1, y \in 0 .. NUM_ROWS :
          /\ Continue(curr_term, {}, Blank, <<x, y>>)
          /\ terminal_update_cursor(curr_term)
    BY <1>1, <1>4, NewLineFact DEF IndInv
  <2>2. QED
    BY <1>1, <1>2, <2>1, Drawing
<1>5. QED
  BY <1>3, <1>4 DEF WriteChar

\* A character typed while its terminal reads comes right behind the line, also
\* when the line moves up a row.
LEMMA LineGrows ==
  ASSUME IndInv, NEW t \in Terms,
         NEW x \in 0 .. NUM_COLS - 1, NEW y \in 0 .. NUM_ROWS,
         Continue(t, {Place(t)}, Ink, <<x, y>>), Offset(x, y) = Place(t) + 1,
         ~broken, ~Switching, UNCHANGED <<disp_term, dest>>,
         mode[t] = "read", curr_idx[t] < MAX_LINE, curr_idx'[t] = curr_idx[t] + 1
  PROVE  LineShown(t)'
<1> DEFINE p == Painted(View(t), {Place(t)}, Ink)
<1>1. /\ Place(t) \in Cells /\ Place(t) \in Nat
      /\ View(t) \in Picture
      /\ curr_idx[t] \in Nat
      /\ LineShown(t)
  BY PlaceFact, ViewType, LineDef DEF IndInv, TypeOK
<1>2. p \in Picture
  BY <1>1, DrawnFact
<1>3. \A i \in 1 .. curr_idx[t] + 1 :
        /\ Place(t) + 1 - i \in Cells
        /\ p[Place(t) + 1 - i] = Ink
  <2>1. TAKE i \in 1 .. curr_idx[t] + 1
  <2>2. Place(t) + 1 - i \in Cells
    BY <1>1, CellBelow DEF LineShown
  <2>3. p[Place(t) + 1 - i] = IF Place(t) + 1 - i \in {Place(t)} THEN Ink
                              ELSE View(t)[Place(t) + 1 - i]
    BY <2>2 DEF Painted
  <2>4. CASE i = 1
    BY <1>1, <2>2, <2>3, <2>4
  <2>5. CASE i # 1
    <3>1. i - 1 \in 1 .. curr_idx[t] /\ Place(t) - (i - 1) = Place(t) + 1 - i
      BY <1>1, <2>5
    <3>2. View(t)[Place(t) + 1 - i] = Ink
      BY <1>1, <3>1 DEF LineShown
    <3>3. QED
      BY <2>2, <2>3, <3>2
  <2>6. QED
    BY <2>4, <2>5
<1>4. CASE Offset(x, y) \in Cells
  <2>1. View(t)' = p /\ Place(t)' = Place(t) + 1
    BY <1>4, ViewFact DEF IndInv
  <2> HIDE DEF p
  <2>2. QED
    BY <1>1, <1>3, <2>1 DEF LineShown
<1>5. CASE Offset(x, y) \notin Cells
  <2>1. View(t)' = scroll_down(p) /\ Place(t)' = Place(t) + 1 - NUM_COLS
    <3>1. View(t)' = scroll_down(p) /\ Place(t)' = Offset(x, y) - NUM_COLS
      BY <1>5, ViewFact DEF IndInv
    <3>2. Place(t)' = Place(t) + 1 - NUM_COLS
      BY <1>1, <3>1, SizeAssumption
    <3>3. QED
      BY <3>1, <3>2
  <2>2. Place(t) + 1 = NUM_ROWS * NUM_COLS
    BY <1>1, <1>5, SizeAssumption DEF Cells
  <2>3. curr_idx[t] + 1 <= Place(t) + 1 - NUM_COLS
    BY <1>1, <2>2, CellsFact, LineAssumption, SizeAssumption
  <2> HIDE DEF p
  <2>4. \A i \in 1 .. curr_idx[t] + 1 :
          scroll_down(p)[Place(t) + 1 - NUM_COLS - i] = Ink
    <3>1. TAKE i \in 1 .. curr_idx[t] + 1
    <3>2. /\ Place(t) + 1 - NUM_COLS - i \in Cells
          /\ Place(t) + 1 - NUM_COLS - i + NUM_COLS = Place(t) + 1 - i
      BY <1>1, <2>2, <2>3, SizeAssumption DEF Cells
    <3>3. QED
      BY <1>2, <1>3, <3>2, DrawnFact
  <2>5. QED
    BY <1>1, <2>1, <2>3, <2>4, SizeAssumption DEF LineShown
<1>6. QED
  BY <1>4, <1>5

\* Backspace erases the last character of the line.
LEMMA LineShrinks ==
  ASSUME IndInv, NEW t \in Terms,
         NEW x \in 0 .. NUM_COLS - 1, NEW y \in 0 .. NUM_ROWS - 1,
         Continue(t, {Offset(x, y)}, Blank, <<x, y>>),
         Place(t) > 0 => Offset(x, y) = Place(t) - 1,
         ~broken, ~Switching, UNCHANGED <<disp_term, dest>>,
         mode[t] = "read", curr_idx[t] > 0, curr_idx'[t] = curr_idx[t] - 1
  PROVE  LineShown(t)'
<1>1. /\ Place(t) \in Cells /\ Place(t) \in Nat
      /\ View(t) \in Picture
      /\ curr_idx[t] \in Nat
      /\ LineShown(t)
  BY PlaceFact, ViewType, LineDef DEF IndInv, TypeOK
<1>2. Offset(x, y) = Place(t) - 1 /\ Offset(x, y) \in Cells
  <2>1. Place(t) > 0
    BY <1>1 DEF LineShown
  <2>2. QED
    BY <2>1, OffsetFact
<1>3. y \in 0 .. NUM_ROWS
  BY SizeAssumption
<1>4. /\ View(t)' = Painted(View(t), {Place(t) - 1}, Blank)
      /\ Place(t)' = Place(t) - 1
  BY <1>2, <1>3, ViewFact DEF IndInv
<1>5. curr_idx[t] - 1 <= Place(t) - 1
  BY <1>1 DEF LineShown
<1>6. ASSUME NEW i \in 1 .. curr_idx[t] - 1
      PROVE  View(t)'[Place(t) - 1 - i] = Ink
  <2>1. i + 1 \in 1 .. curr_idx[t] /\ Place(t) - (i + 1) = Place(t) - 1 - i
    BY <1>1
  <2>2. View(t)[Place(t) - 1 - i] = Ink
    BY <1>1, <2>1 DEF LineShown
  <2>3. Place(t) - 1 - i \in Cells /\ Place(t) - 1 - i # Place(t) - 1
    BY <1>1, <1>5, CellBelow
  <2>4. QED
    BY <1>4, <2>2, <2>3 DEF Painted
<1>7. QED
  BY <1>4, <1>5, <1>6 DEF LineShown

LEMMA KeyCharStep ==
  ASSUME IndInv, KeyChar, broken' = (broken \/ Switching),
         UNCHANGED <<curr_term, disp_term, active, video_table, mode, clearing, dest>>
  PROVE  IndInv'
<1>. PICK t \in Terms : t = disp_term
  BY DEF IndInv, TypeOK
<1>1. broken' \in BOOLEAN /\ (broken \/ Switching => broken')
  BY DEF IndInv, TypeOK, Switching
<1>2. /\ curr_idx' \in [Terms -> 0 .. MAX_LINE]
      /\ mode[t] = "read" => curr_idx'[t] = curr_idx[t] + 1
      /\ \A s \in Terms \ {t} : curr_idx'[s] = curr_idx[s]
  BY <1>1, LineAssumption DEF KeyChar, IndInv, TypeOK
<1>3. PICK x \in 0 .. NUM_COLS - 1, y \in 0 .. NUM_ROWS :
        /\ Continue(t, {Place(t)}, Ink, <<x, y>>)
        /\ terminal_update_cursor(t)
        /\ Offset(x, y) = Place(t) + 1
  BY <1>1, CharFact DEF KeyChar, IndInv
<1>4. mode' \in [Terms -> {"user", "read", "write"}]
  BY DEF IndInv, TypeOK
<1>5. ~broken' => LineShown(t)'
  <2>1. CASE mode[t] = "read"
    BY <1>1, <1>2, <1>3, <2>1, LineGrows DEF KeyChar
  <2>2. CASE mode[t] # "read"
    BY <2>2 DEF LineShown
  <2>3. QED
    BY <2>1, <2>2
<1>6. QED
  BY <1>1, <1>2, <1>3, <1>4, <1>5, Drawing

LEMMA KeyEnterStep ==
  ASSUME IndInv, KeyEnter, broken' = (broken \/ Switching),
         UNCHANGED <<curr_term, disp_term, active, video_table, mode, clearing, dest>>
  PROVE  IndInv'
<1>. PICK t \in Terms : t = disp_term
  BY DEF IndInv, TypeOK
<1>1. broken' \in BOOLEAN /\ (broken \/ Switching => broken')
  BY DEF IndInv, TypeOK, Switching
<1>2. /\ curr_idx' \in [Terms -> 0 .. MAX_LINE]
      /\ curr_idx'[t] = 0
      /\ \A s \in Terms \ {t} : curr_idx'[s] = curr_idx[s]
  BY <1>1, LineAssumption DEF KeyEnter, IndInv, TypeOK
<1>3. PICK x \in 0 .. NUM_COLS - 1, y \in 0 .. NUM_ROWS :
        /\ Continue(t, {}, Blank, <<x, y>>)
        /\ terminal_update_cursor(t)
  BY <1>1, NewLineFact DEF KeyEnter, IndInv
<1>4. mode' \in [Terms -> {"user", "read", "write"}]
  BY DEF IndInv, TypeOK
<1>5. OnScreen'
  BY <1>1, <1>3, DrawType DEF IndInv
<1>6. LineShown(t)'
  BY <1>1, <1>2, <1>5, EmptyLine
<1>7. QED
  BY <1>1, <1>2, <1>3, <1>4, <1>6, Drawing

LEMMA KeyBackspaceStep ==
  ASSUME IndInv, KeyBackspace, broken' = (broken \/ Switching),
         UNCHANGED <<curr_term, disp_term, active, video_table, mode, clearing, dest>>
  PROVE  IndInv'
<1>. PICK t \in Terms : t = disp_term
  BY DEF IndInv, TypeOK
<1>1. broken' \in BOOLEAN /\ (broken \/ Switching => broken')
  BY DEF IndInv, TypeOK, Switching
<1>2. /\ curr_idx' \in [Terms -> 0 .. MAX_LINE]
      /\ curr_idx[t] > 0
      /\ curr_idx'[t] = curr_idx[t] - 1
      /\ \A s \in Terms \ {t} : curr_idx'[s] = curr_idx[s]
  BY <1>1, LineAssumption DEF KeyBackspace, Erasable, IndInv, TypeOK
<1>3. PICK x \in 0 .. NUM_COLS - 1, y \in 0 .. NUM_ROWS - 1 :
        /\ Continue(t, {Offset(x, y)}, Blank, <<x, y>>)
        /\ terminal_update_cursor(t)
        /\ Place(t) > 0 => Offset(x, y) = Place(t) - 1
  BY <1>1, BackspaceFact DEF KeyBackspace, IndInv
<1>4. mode' \in [Terms -> {"user", "read", "write"}] /\ y \in 0 .. NUM_ROWS
  BY SizeAssumption DEF IndInv, TypeOK
<1>5. ~broken' => LineShown(t)'
  BY <1>1, <1>2, <1>3, LineShrinks DEF KeyBackspace
<1>6. QED
  BY <1>1, <1>2, <1>3, <1>4, <1>5, Drawing

\* A program draws through vidmap on the screen just if it is displayed.
LEMMA VidmapFact ==
  ASSUME IndInv, NEW i \in DrawCells, NEW c \in {Blank, Ink}, vidmap_draw(i, c)
  PROVE  /\ curr_term \in Terms /\ i \in Cells
         /\ VIDEO' \in Picture
         /\ video_buffer' \in [Terms -> Picture]
         /\ \A s \in Terms :
              View(s)' = IF s = curr_term THEN [View(s) EXCEPT ![i] = c] ELSE View(s)
<1>1. /\ curr_term \in Terms /\ curr_term \in active
      /\ Shown = disp_term /\ Shown' = disp_term
      /\ i \in Cells
      /\ VIDEO \in Picture /\ video_buffer \in [Terms -> Picture]
  BY DrawAssumption
  DEF IndInv, TypeOK, vidmap_draw, Runs, Shown, Switching
<1>2. CASE video_table[curr_term] = "VIDEO"
  <2>1. /\ curr_term = disp_term
        /\ VIDEO' = [VIDEO EXCEPT ![i] = c]
        /\ video_buffer' = video_buffer
    BY <1>1, <1>2 DEF IndInv, MapInv, vidmap_draw
  <2>2. VIDEO' \in Picture
    BY <1>1, <2>1 DEF Picture
  <2>3. QED
    BY <1>1, <2>1, <2>2 DEF View
<1>3. CASE video_table[curr_term] # "VIDEO"
  <2>1. /\ curr_term # disp_term
        /\ VIDEO' = VIDEO
        /\ video_buffer' = [video_buffer EXCEPT ![curr_term] =
                             [video_buffer[curr_term] EXCEPT ![i] = c]]
    BY <1>1, <1>3 DEF IndInv, MapInv, vidmap_draw
  <2>2. [video_buffer[curr_term] EXCEPT ![i] = c] \in Picture
    BY <1>1 DEF Picture
  <2>3. video_buffer' \in [Terms -> Picture]
    BY <1>1, <2>1, <2>2
  <2>4. QED
    BY <1>1, <2>1, <2>3 DEF View
<1>4. QED
  BY <1>2, <1>3

LEMMA VidmapStep ==
  ASSUME IndInv, NEW i \in DrawCells, NEW c \in {Blank, Ink}, vidmap_draw(i, c)
  PROVE  IndInv'
<1>1. /\ mode[curr_term] = "user"
      /\ UNCHANGED <<curr_term, disp_term, active, term_X, term_Y, video_table,
                     cursor, curr_idx, mode, clearing, dest, broken>>
  BY DEF vidmap_draw
<1>2. TypeOK'
  BY <1>1, VidmapFact DEF IndInv, TypeOK
<1>3. OnScreen'
  BY <1>1 DEF IndInv, OnScreen
<1>4. Shown' = Shown
  BY <1>1 DEF Shown, Switching
<1>5. ASSUME ~broken', NEW s \in Terms
      PROVE  LineShown(s)'
  <2>1. LineShown(s)
    BY <1>1, <1>5, LineDef DEF IndInv
  <2>2. CASE s = curr_term
    BY <1>1, <2>2 DEF LineShown
  <2>3. CASE s # curr_term
    <3>1. View(s)' = View(s) /\ Place(s)' = Place(s)
      BY <1>1, <2>3, VidmapFact DEF Place, Offset
    <3>2. QED
      BY <1>1, <2>1, <3>1, LineKept DEF IndInv
  <2>4. QED
    BY <2>2, <2>3
<1>6. LineOnScreen'
  BY <1>5 DEF LineOnScreen, LineShown
<1>7. QED
  BY <1>1, <1>2, <1>3, <1>4, <1>6 DEF IndInv, MapInv

LEMMA ClearStep ==
  ASSUME IndInv, terminal_clear
  PROVE  IndInv'
<1>. PICK t \in Terms : t = disp_term
  BY DEF IndInv, TypeOK
<1>1. /\ VIDEO' = BlankPicture
      /\ video_buffer' = [video_buffer EXCEPT ![t] = BlankPicture]
      /\ term_X' = [term_X EXCEPT ![t] = 0]
      /\ term_Y' = [term_Y EXCEPT ![t] = 0]
      /\ cursor' = Offset(term_X'[t], term_Y'[t])
      /\ clearing' = None
      /\ broken' = (broken \/ Switching \/ curr_idx[t] > 0)
      /\ UNCHANGED <<curr_term, disp_term, active, video_table, curr_idx, mode,
                     dest>>
  BY DEF terminal_clear, ClearPicture, terminal_update_cursor
<1>2. OnScreen' /\ cursor' \in Nat
  <2>1. term_X'[t] = 0 /\ term_Y'[t] = 0
    BY <1>1 DEF IndInv, OnScreen
  <2>2. cursor' = 0 /\ 0 \in Cells
    BY <1>1, <2>1, SizeAssumption DEF Offset, Cells
  <2>3. /\ term_X' \in [Terms -> 0 .. NUM_COLS - 1]
        /\ term_Y' \in [Terms -> 0 .. NUM_ROWS - 1]
    BY <1>1, SizeAssumption DEF IndInv, OnScreen
  <2>4. QED
    BY <2>2, <2>3 DEF OnScreen
<1>3. TypeOK'
  <2>1. BlankPicture \in Picture
    BY DEF BlankPicture, Picture
  <2>2. VIDEO' \in Picture /\ video_buffer' \in [Terms -> Picture]
    BY <1>1, <2>1 DEF IndInv, TypeOK
  <2>3. broken' \in BOOLEAN
    BY <1>1 DEF IndInv, TypeOK, Switching
  <2>4. QED
    BY <1>1, <1>2, <2>2, <2>3 DEF IndInv, TypeOK
<1>4. Shown' = Shown
  BY <1>1 DEF Shown, Switching
<1>5. ASSUME ~broken', NEW s \in Terms
      PROVE  LineShown(s)'
  <2>1. ~broken /\ ~Switching /\ LineShown(s) /\ ~(curr_idx[t] > 0)
    BY <1>1, <1>5, LineDef DEF IndInv
  <2>2. CASE s = t
    <3>1. curr_idx'[s] = 0
      BY <1>1, <2>1, <2>2, LineAssumption DEF IndInv, TypeOK
    <3>2. QED
      BY <1>2, <3>1, EmptyLine
  <2>3. CASE s # t
    <3>1. View(s)' = View(s) /\ Place(s)' = Place(s)
      BY <1>1, <1>4, <2>1, <2>3
      DEF View, Place, Offset, Shown, IndInv, TypeOK, OnScreen
    <3>2. QED
      BY <1>1, <2>1, <3>1, LineKept DEF IndInv
  <2>4. QED
    BY <2>2, <2>3
<1>6. LineOnScreen'
  BY <1>5 DEF LineOnScreen, LineShown
<1>7. QED
  BY <1>1, <1>2, <1>3, <1>4, <1>6 DEF IndInv, MapInv

\* Alt+F changes where the pictures are and not what they are.
LEMMA SwitchFact ==
  ASSUME IndInv, NEW t \in Terms, switch_terminals(t)
  PROVE  /\ Shown = disp_term /\ Shown' = t
         /\ VIDEO' \in Picture
         /\ video_buffer' \in [Terms -> Picture]
         /\ \A s \in Terms : View(s)' = View(s)
<1>1. /\ t # disp_term
      /\ video_buffer' = [video_buffer EXCEPT ![disp_term] = VIDEO]
      /\ VIDEO' = video_buffer[t]
      /\ VIDEO \in Picture /\ video_buffer \in [Terms -> Picture]
      /\ dest' = t
  BY DEF IndInv, TypeOK, switch_terminals, switch_vidmem
<1>2. Shown = disp_term /\ Shown' = t
  BY <1>1, NumTermsAssumption
  DEF switch_terminals, Shown, Switching, Terms, None
<1>3. QED
  BY <1>1, <1>2 DEF View

LEMMA SwitchStep ==
  ASSUME IndInv, NEW t \in Terms, switch_terminals(t)
  PROVE  IndInv'
<1>1. /\ t # disp_term
      /\ video_table' = [video_table EXCEPT ![disp_term] = "buffer", ![t] = "VIDEO"]
      /\ dest' = t
      /\ UNCHANGED <<curr_term, disp_term, active, term_X, term_Y, cursor,
                     curr_idx, mode, clearing, broken>>
  BY DEF switch_terminals, switch_vidmap
<1>2. TypeOK'
  BY <1>1, SwitchFact DEF IndInv, TypeOK
<1>3. OnScreen'
  BY <1>1 DEF IndInv, OnScreen
<1>4. MapInv'
  BY <1>1, SwitchFact DEF IndInv, TypeOK, MapInv
<1>5. \A s \in Terms : View(s)' = View(s) /\ Place(s)' = Place(s)
  BY <1>1, SwitchFact DEF Place, Offset
<1>6. QED
  BY <1>1, <1>2, <1>3, <1>4, <1>5, SameViews DEF IndInv

LEMMA SwitchEndStep ==
  ASSUME IndInv, SwitchEnd
  PROVE  IndInv'
<1>1. /\ dest \in Terms /\ disp_term' = dest
      /\ curr_term' \in {curr_term, dest}
      /\ active' = active \cup {dest}
      /\ dest' = None
      /\ UNCHANGED <<pictVars, video_table, cursor, curr_idx, mode, clearing,
                     broken>>
  BY DEF IndInv, TypeOK, SwitchEnd, Switching
<1>2. Shown = dest /\ Shown' = dest
  BY <1>1 DEF SwitchEnd, Shown, Switching
<1>3. TypeOK'
  BY <1>1 DEF IndInv, TypeOK, pictVars
<1>4. OnScreen'
  BY <1>1 DEF IndInv, OnScreen, pictVars
<1>5. MapInv'
  BY <1>1, <1>2 DEF IndInv, MapInv
<1>6. \A s \in Terms : View(s)' = View(s) /\ Place(s)' = Place(s)
  BY <1>1, <1>2 DEF View, Place, Offset, pictVars
<1>7. QED
  BY <1>1, <1>3, <1>4, <1>5, <1>6, SameViews DEF IndInv

LEMMA StepInv == IndInv /\ [Next]_vars => IndInv'
<1> SUFFICES ASSUME IndInv, [Next]_vars PROVE IndInv'
  OBVIOUS
<1>1. CASE ReadBegin \/ ReadEnd \/ WriteEnd
  BY <1>1, ModeStep
<1>2. CASE WriteChar
  BY <1>2, WriteCharStep
<1>3. CASE \E i \in DrawCells, c \in {Blank, Ink} : vidmap_draw(i, c)
  BY <1>3, VidmapStep
<1>4. CASE Key
  BY <1>4, KeyCharStep, KeyEnterStep, KeyBackspaceStep DEF Key
<1>5. CASE KeyClear
  BY <1>5, KeyClearStep
<1>6. CASE terminal_clear
  BY <1>6, ClearStep
<1>7. CASE SwitchEnd
  BY <1>7, SwitchEndStep
<1>8. CASE \E t \in Terms : switch_terminals(t) \/ Tick(t)
  BY <1>8, SwitchStep, TickStep
<1>9. CASE UNCHANGED vars
  BY <1>9 DEF vars, pictVars, IndInv, TypeOK, OnScreen, MapInv, LineOnScreen,
              Shown, Switching, View, Place
<1>10. QED
  BY <1>1, <1>2, <1>3, <1>4, <1>5, <1>6, <1>7, <1>8, <1>9 DEF Next, ProgramStep

-----------------------------------------------------------------------------
\* IndInv holds in every reachable state.
THEOREM Invariance == Spec => []IndInv
BY InitInv, StepInv, PTL DEF Spec

\* Every variable of the screen keeps its type.
THEOREM TypeCorrect == Spec => []TypeOK
<1>1. IndInv => TypeOK
  BY DEF IndInv
<1>2. QED
  BY <1>1, Invariance, PTL

\* Nothing is ever drawn outside the screen.  (terminal.c:215-245)
THEOREM DrawsOnScreen == Spec => []OnScreen
<1>1. IndInv => OnScreen
  BY DEF IndInv
<1>2. QED
  BY <1>1, Invariance, PTL

\* A line that is being typed stands right before the place of its next
\* character.  (terminal.c:328-352)
THEOREM LineStaysOnScreen == Spec => []LineOnScreen
<1>1. IndInv => LineOnScreen
  BY DEF IndInv
<1>2. QED
  BY <1>1, Invariance, PTL

-----------------------------------------------------------------------------
\* The steps as Pictures sees them.
LEMMA MoveFact ==
  ASSUME NEW t \in Terms, NEW p, NEW q, NEW i, NEW j,
         View(t)' = q, Place(t)' = j,
         \A s \in Terms \ {t} : View(s)' = View(s) /\ Place(s)' = Place(s),
         IF i \in Cells THEN q = p /\ j = i
         ELSE /\ q = [k \in Cells |-> IF k + NUM_COLS \in Cells
                                      THEN p[k + NUM_COLS] ELSE Blank]
              /\ j = i - NUM_COLS
  PROVE  AbstractPictures!MoveTo(t, p, i)
<1>1. /\ [s \in Terms |-> View(s)]' = [[s \in Terms |-> View(s)] EXCEPT ![t] = q]
      /\ [s \in Terms |-> Place(s)]' = [[s \in Terms |-> Place(s)] EXCEPT ![t] = j]
  OBVIOUS
<1>2. AbstractPictures!Cells = Cells
  BY DEF AbstractPictures!Cells, Cells
<1>3. QED
  BY <1>1, <1>2 DEF AbstractPictures!MoveTo

LEMMA DrawMoves ==
  ASSUME IndInv, NEW t \in Terms, NEW cells, NEW c \in {Blank, Ink},
         NEW x \in 0 .. NUM_COLS - 1, NEW y \in 0 .. NUM_ROWS,
         Continue(t, cells, c, <<x, y>>),
         ~Switching, UNCHANGED <<disp_term, dest>>
  PROVE  AbstractPictures!MoveTo(t, Painted(View(t), cells, c), Offset(x, y))
<1>1. Painted(View(t), cells, c) \in Picture
  BY ViewType, DrawnFact DEF IndInv
<1>2. scroll_down(Painted(View(t), cells, c))
        = [k \in Cells |-> IF k + NUM_COLS \in Cells
                           THEN Painted(View(t), cells, c)[k + NUM_COLS] ELSE Blank]
  BY <1>1, DrawnFact
<1>3. CASE Offset(x, y) \in Cells
  BY <1>3, ViewFact, MoveFact DEF IndInv
<1>4. CASE Offset(x, y) \notin Cells
  BY <1>2, <1>4, ViewFact, MoveFact DEF IndInv
<1>5. QED
  BY <1>3, <1>4

\* What is painted, as Pictures writes it.
LEMMA PaintedFact ==
  ASSUME NEW p \in Picture, NEW i \in Cells, NEW c \in {Blank, Ink}
  PROVE  /\ Painted(p, {i}, c) = [p EXCEPT ![i] = c]
         /\ Painted(p, {}, c) = p
BY DEF Painted, Picture

LEMMA PutStep ==
  ASSUME IndInv, NEW t \in Terms, all_char(t),
         ~Switching, UNCHANGED <<disp_term, dest, broken>>
  PROVE  AbstractPictures!Put(t)
<1>1. PICK x \in 0 .. NUM_COLS - 1, y \in 0 .. NUM_ROWS :
        Continue(t, {Place(t)}, Ink, <<x, y>>) /\ Offset(x, y) = Place(t) + 1
  BY CharFact DEF IndInv
<1>2. /\ Place(t) \in Cells /\ View(t) \in Picture
      /\ Painted(View(t), {Place(t)}, Ink) = [View(t) EXCEPT ![Place(t)] = Ink]
  BY PlaceFact, ViewType, PaintedFact DEF IndInv
<1>3. AbstractPictures!MoveTo(t, [View(t) EXCEPT ![Place(t)] = Ink], Place(t) + 1)
  BY <1>1, <1>2, DrawMoves
<1>4. Shown' = Shown
  BY DEF Shown, Switching
<1>5. QED
  BY <1>3, <1>4 DEF AbstractPictures!Put

LEMMA NewLineStep ==
  ASSUME IndInv, NEW t \in Terms, new_line_char(t),
         ~Switching, UNCHANGED <<disp_term, dest, broken>>
  PROVE  AbstractPictures!NewLine(t)
<1>1. PICK x \in 0 .. NUM_COLS - 1, y \in 0 .. NUM_ROWS :
        /\ Continue(t, {}, Blank, <<x, y>>)
        /\ Offset(x, y) = (Place(t) \div NUM_COLS + 1) * NUM_COLS
  BY NewLineFact DEF IndInv
<1>2. Painted(View(t), {}, Blank) = View(t)
  BY ViewType, PaintedFact, CellsFact DEF IndInv
<1>3. AbstractPictures!MoveTo(t, View(t), (Place(t) \div NUM_COLS + 1) * NUM_COLS)
  BY <1>1, <1>2, DrawMoves
<1>4. Shown' = Shown
  BY DEF Shown, Switching
<1>5. QED
  BY <1>3, <1>4 DEF AbstractPictures!NewLine

LEMMA EraseStep ==
  ASSUME IndInv, NEW t \in Terms, backspace_char(t), Place(t) > 0,
         ~Switching, UNCHANGED <<disp_term, dest, broken>>
  PROVE  AbstractPictures!Erase(t)
<1>1. PICK x \in 0 .. NUM_COLS - 1, y \in 0 .. NUM_ROWS - 1 :
        /\ Continue(t, {Offset(x, y)}, Blank, <<x, y>>)
        /\ Offset(x, y) = Place(t) - 1
  BY BackspaceFact DEF IndInv
<1>2. y \in 0 .. NUM_ROWS /\ Offset(x, y) \in Cells
  BY OffsetFact, SizeAssumption
<1>3. Painted(View(t), {Place(t) - 1}, Blank) = [View(t) EXCEPT ![Place(t) - 1] = Blank]
  BY <1>1, <1>2, ViewType, PaintedFact DEF IndInv
<1>4. AbstractPictures!MoveTo(t, [View(t) EXCEPT ![Place(t) - 1] = Blank], Place(t) - 1)
  BY <1>1, <1>2, <1>3, DrawMoves
<1>5. Shown' = Shown
  BY DEF Shown, Switching
<1>6. QED
  BY <1>4, <1>5 DEF AbstractPictures!Erase

LEMMA ClearPictureStep ==
  ASSUME IndInv, terminal_clear, ~broken'
  PROVE  \E t \in Terms : AbstractPictures!Clear(t)
<1>. PICK t \in Terms : t = disp_term
  BY DEF IndInv, TypeOK
<1>1. /\ VIDEO' = BlankPicture
      /\ video_buffer' = [video_buffer EXCEPT ![t] = BlankPicture]
      /\ term_X' = [term_X EXCEPT ![t] = 0]
      /\ term_Y' = [term_Y EXCEPT ![t] = 0]
      /\ ~Switching /\ broken' = FALSE /\ broken = FALSE
      /\ UNCHANGED <<disp_term, dest>>
  BY DEF terminal_clear, ClearPicture, IndInv, TypeOK, Switching
<1>2. Shown = t /\ Shown' = t
  BY <1>1 DEF Shown, Switching
<1>3. View(t)' = [i \in Cells |-> Blank]
  BY <1>1, <1>2 DEF View, BlankPicture
<1>4. Place(t)' = 0
  <2>1. term_X'[t] = 0 /\ term_Y'[t] = 0
    BY <1>1 DEF IndInv, OnScreen
  <2>2. QED
    BY <2>1, SizeAssumption DEF Place, Offset
<1>5. \A s \in Terms \ {t} : View(s)' = View(s) /\ Place(s)' = Place(s)
  BY <1>1, <1>2 DEF View, Place, Offset, IndInv, TypeOK, OnScreen
<1>6. AbstractPictures!MoveTo(t, [i \in Cells |-> Blank], 0)
  BY <1>3, <1>4, <1>5, CellsFact, MoveFact
<1>7. AbstractPictures!Cells = Cells
  BY DEF AbstractPictures!Cells, Cells
<1>8. AbstractPictures!Clear(t)
  BY <1>1, <1>2, <1>6, <1>7 DEF AbstractPictures!Clear
<1>9. QED
  BY <1>8

LEMMA DrawStep ==
  ASSUME IndInv, NEW i \in DrawCells, NEW c \in {Blank, Ink}, vidmap_draw(i, c)
  PROVE  \E t \in Terms : AbstractPictures!Draw(t, i, c)
<1>1. PICK t \in Terms : t = curr_term
  BY DEF IndInv, TypeOK
<1>2. \A s \in Terms :
        View(s)' = IF s = t THEN [View(s) EXCEPT ![i] = c] ELSE View(s)
  BY <1>1, VidmapFact
<1>3. [s \in Terms |-> View(s)]'
        = [[s \in Terms |-> View(s)] EXCEPT ![t] = [View(t) EXCEPT ![i] = c]]
  BY <1>2
<1>4. /\ [s \in Terms |-> Place(s)]' = [s \in Terms |-> Place(s)]
      /\ Shown' = Shown
      /\ broken' = broken
  BY DEF vidmap_draw, Place, Offset, Shown, Switching
<1>5. [s \in Terms |-> View(s)][t] = View(t)
  OBVIOUS
<1>6. AbstractPictures!Draw(t, i, c)
  BY <1>3, <1>4, <1>5 DEF AbstractPictures!Draw
<1>7. QED
  BY <1>6

LEMMA ShowStep ==
  ASSUME IndInv, NEW t \in Terms, switch_terminals(t)
  PROVE  AbstractPictures!Show(t)
<1>1. /\ Shown' = t
      /\ \A s \in Terms : View(s)' = View(s)
  BY SwitchFact
<1>2. UNCHANGED <<term_X, term_Y, broken>>
  BY DEF switch_terminals
<1>3. /\ [s \in Terms |-> View(s)]' = [s \in Terms |-> View(s)]
      /\ [s \in Terms |-> Place(s)]' = [s \in Terms |-> Place(s)]
  BY <1>1, <1>2 DEF Place, Offset
<1>4. QED
  BY <1>1, <1>2, <1>3 DEF AbstractPictures!Show

LEMMA Stutter ==
  ASSUME UNCHANGED <<pictVars, broken>>, Shown' = Shown
  PROVE  UNCHANGED AbstractPictures!vars
BY DEF pictVars, View, Place, Offset, AbstractPictures!vars

LEMMA KeyRefines ==
  ASSUME IndInv, Key, ~broken'
  PROVE  \E t \in Terms : AbstractPictures!Step(t)
<1>1. PICK t \in Terms : t = disp_term
  BY DEF IndInv, TypeOK
<1>2. ~Switching /\ UNCHANGED <<disp_term, dest, broken>>
  BY DEF Key, IndInv, TypeOK, Switching
<1>3. CASE KeyChar
  BY <1>1, <1>2, <1>3, PutStep DEF KeyChar, AbstractPictures!Step
<1>4. CASE KeyEnter
  BY <1>1, <1>2, <1>4, NewLineStep DEF KeyEnter, AbstractPictures!Step
<1>5. CASE KeyBackspace
  <2>1. mode[t] = "read" /\ curr_idx[t] > 0 /\ curr_idx[t] \in Nat
    BY <1>1, <1>5 DEF KeyBackspace, Erasable, IndInv, TypeOK
  <2>2. curr_idx[t] <= Place(t) /\ Place(t) \in Nat
    BY <1>2, <2>1, PlaceFact DEF IndInv, LineOnScreen
  <2>3. Place(t) > 0
    BY <2>1, <2>2
  <2>4. QED
    BY <1>1, <1>2, <1>5, <2>3, EraseStep DEF KeyBackspace, AbstractPictures!Step
<1>6. QED
  BY <1>3, <1>4, <1>5 DEF Key

LEMMA WriteRefines ==
  ASSUME IndInv, WriteChar
  PROVE  \E t \in Terms : AbstractPictures!Step(t)
<1>1. PICK t \in Terms : t = curr_term
  BY DEF IndInv, TypeOK
<1>2. ~Switching /\ UNCHANGED <<disp_term, dest, broken>>
  BY DEF WriteChar, Runs
<1>3. all_char(t) \/ new_line_char(t)
  BY <1>1 DEF WriteChar
<1>4. QED
  BY <1>2, <1>3, PutStep, NewLineStep DEF AbstractPictures!Step

LEMMA StepRefines ==
  IndInv /\ [Next]_vars => [AbstractPictures!Next]_(AbstractPictures!vars)
<1> SUFFICES ASSUME IndInv, [Next]_vars, ~broken'
             PROVE  [AbstractPictures!Next]_(AbstractPictures!vars)
  BY DEF AbstractPictures!Next
<1>1. CASE ReadBegin \/ ReadEnd \/ WriteEnd \/ KeyClear \/ (\E t \in Terms : Tick(t))
  <2>1. UNCHANGED pictVars /\ Shown' = Shown
    BY <1>1 DEF ReadBegin, ReadEnd, WriteEnd, KeyClear, Tick, Shown, Switching
  <2>2. broken' = broken
    BY <1>1 DEF ReadBegin, ReadEnd, WriteEnd, KeyClear, Tick, IndInv, TypeOK, Switching
  <2>3. QED
    BY <2>1, <2>2, Stutter
<1>2. CASE WriteChar
  BY <1>2, WriteRefines DEF AbstractPictures!Next
<1>3. CASE \E i \in DrawCells, c \in {Blank, Ink} : vidmap_draw(i, c)
  <2>1. PICK i \in DrawCells, c \in {Blank, Ink} : vidmap_draw(i, c)
    BY <1>3
  <2>2. i \in AbstractPictures!Cells
    BY DrawAssumption DEF AbstractPictures!Cells, Cells
  <2>3. QED
    BY <2>1, <2>2, DrawStep DEF AbstractPictures!Next, AbstractPictures!Step
<1>4. CASE Key
  BY <1>4, KeyRefines DEF AbstractPictures!Next
<1>5. CASE terminal_clear
  BY <1>5, ClearPictureStep DEF AbstractPictures!Next, AbstractPictures!Step
<1>6. CASE SwitchEnd
  <2>1. Shown' = Shown
    BY <1>6 DEF SwitchEnd, Shown, Switching
  <2>2. QED
    BY <1>6, <2>1, Stutter DEF SwitchEnd
<1>7. CASE \E t \in Terms : switch_terminals(t)
  BY <1>7, ShowStep DEF AbstractPictures!Next, AbstractPictures!Step
<1>8. CASE UNCHANGED vars
  BY <1>8, Stutter DEF vars, pictVars, Shown, Switching
<1>9. QED
  BY <1>1, <1>2, <1>3, <1>4, <1>5, <1>6, <1>7, <1>8 DEF Next, ProgramStep

\* The video memory, the buffers and the page maps together are the pictures that
\* Pictures specifies, until one of the races has happened.
\* (schedule.c:133-139, 176-183)
THEOREM Refinement == Spec => ImplementsPictures
<1>1. Init => AbstractPictures!Init
  <2> SUFFICES ASSUME Init PROVE AbstractPictures!Init
    OBVIOUS
  <2>1. 0 \in Terms /\ Shown = 0
    BY NumTermsAssumption DEF Init, Shown, Switching, Terms, None
  <2>2. AbstractPictures!Cells = Cells
    BY DEF AbstractPictures!Cells, Cells
  <2>3. /\ [t \in Terms |-> View(t)] = [t \in Terms |-> [i \in Cells |-> Blank]]
        /\ [t \in Terms |-> Place(t)] = [t \in Terms |-> 0]
    BY SizeAssumption DEF Init, View, Place, Offset, BlankPicture
  <2>4. QED
    BY <2>1, <2>2, <2>3 DEF Init, AbstractPictures!Init
<1>2. QED
  BY Invariance, StepRefines, <1>1, PTL
  DEF Spec, ImplementsPictures, AbstractPictures!Spec
=============================================================================
