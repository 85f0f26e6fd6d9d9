------------------------------- MODULE Screen -------------------------------
(***************************************************************************)
(* The screen: one video memory, in which the displayed terminal is drawn, *)
(* a buffer for each terminal, the place where each terminal's next        *)
(* character goes, the hardware cursor, and the user page through which a  *)
(* program that called vidmap draws.                                       *)
(*                                                                         *)
(* Which terminal a character goes to is the subject of module Terminal;   *)
(* here a program's output goes to its own terminal and a key's echo to    *)
(* the displayed one.  A cell is blank or inked.                           *)
(***************************************************************************)
EXTENDS Integers

CONSTANTS NUM_TERMS, NUM_COLS, NUM_ROWS,
          MAX_LINE,    \* bound: characters typed in a line
          DrawCells    \* bound: the cells that programs draw

Terms == 0 .. NUM_TERMS - 1
None == NUM_TERMS
Cells == 0 .. NUM_ROWS * NUM_COLS - 1

ASSUME NumTermsAssumption == NUM_TERMS \in Nat \ {0}
ASSUME SizeAssumption == NUM_COLS \in Nat \ {0} /\ NUM_ROWS \in Nat \ {0}
\* A line that has scrolled is still on the screen: 128 characters, 25 rows of 80.
ASSUME LineAssumption ==
  MAX_LINE \in Nat /\ MAX_LINE <= NUM_COLS * (NUM_ROWS - 1)
ASSUME DrawAssumption == DrawCells \subseteq Cells

VARIABLES
  curr_term, disp_term,
  active,          \* the terminals that have a program
  term_X, term_Y,  \* where each terminal's next character goes
  VIDEO,           \* the picture in video memory
  video_buffer,    \* the picture in each terminal's buffer
  video_table,     \* what each terminal's user page is mapped to
  cursor,          \* the cell of the hardware cursor
  curr_idx,        \* length of the line that is typed while a terminal reads
  mode,            \* what each terminal's program does
  clearing,        \* the thread under the handler of Ctrl+L, or None
  dest,            \* the terminal that Alt+F switches to, or None
  broken           \* history: one of the races has happened

pictVars == <<VIDEO, video_buffer, term_X, term_Y>>
vars == <<curr_term, disp_term, active, pictVars, video_table, cursor, curr_idx,
          mode, clearing, dest, broken>>

Blank == " "
Ink == "a"
BlankPicture == [i \in Cells |-> Blank]

\* The lock of switch_terminals.
Switching == dest # None

Offset(x, y) == NUM_COLS * y + x

-----------------------------------------------------------------------------
\* Bug variant: the end of the row is recognised one column too late.
update_coords_forward_bug(x, y) ==
  IF x + 1 > NUM_COLS THEN <<(x + 1) % NUM_COLS, y + 1>> ELSE <<x + 1, y>>

update_coords_forward(x, y) ==
  IF x + 1 >= NUM_COLS THEN <<(x + 1) % NUM_COLS, y + 1>> ELSE <<x + 1, y>>

\* Bug variant: at the start of a row the row is kept.
update_coords_back_bug(x, y) ==
  IF x = 0 THEN <<NUM_COLS - 1, y>> ELSE <<x - 1, y>>

update_coords_back(x, y) ==
  IF x = 0 THEN <<NUM_COLS - 1, IF y > 0 THEN y - 1 ELSE 0>> ELSE <<x - 1, y>>

\* terminal_scroll_down_curr and terminal_scroll_down_disp, on one picture.
scroll_down(p) ==
  [i \in Cells |-> IF i < NUM_COLS * (NUM_ROWS - 1) THEN p[i + NUM_COLS]
                   ELSE Blank]

\* Terminal t draws c in the cells given and goes on at at = <<x, y>>, scrolled if
\* that is below the last row.  A displayed terminal is drawn in video memory and
\* in its buffer, another one in its buffer only.
Continue(t, cells, c, at) ==
  LET Drawn(p) == [i \in Cells |-> IF i \in cells THEN c ELSE p[i]]
      Scrolled(p) == IF at[2] >= NUM_ROWS THEN scroll_down(Drawn(p)) ELSE Drawn(p)
  IN  /\ video_buffer' = [video_buffer EXCEPT ![t] = Scrolled(@)]
      /\ VIDEO' = IF t = disp_term THEN Scrolled(VIDEO) ELSE VIDEO
      /\ term_X' = [term_X EXCEPT ![t] = at[1]]
      /\ term_Y' = [term_Y EXCEPT ![t] =
                     IF at[2] >= NUM_ROWS THEN NUM_ROWS - 1 ELSE at[2]]

\* terminal_update_cursor, at the end of whatever moves the place of terminal t.
terminal_update_cursor(t) ==
  cursor' = IF t = disp_term
            THEN Offset(term_X'[t], term_Y'[t]) ELSE cursor

all_char(t) ==
  /\ Continue(t, {Offset(term_X[t], term_Y[t])}, Ink,
              update_coords_forward(term_X[t], term_Y[t]))
  /\ terminal_update_cursor(t)

new_line_char(t) ==
  /\ Continue(t, {}, Blank, <<0, term_Y[t] + 1>>)
  /\ terminal_update_cursor(t)

backspace_char(t) ==
  LET at == update_coords_back(term_X[t], term_Y[t])
  IN  /\ Continue(t, {Offset(at[1], at[2])}, Blank, at)
      /\ terminal_update_cursor(t)

-----------------------------------------------------------------------------
\* A program runs: not in the middle of a switch, nor under a handler.
Runs == ~Switching /\ clearing # curr_term

\* terminal_read resets the line when it begins and when it has it.
ReadBegin ==
  /\ Runs
  /\ mode[curr_term] = "user"
  /\ mode' = [mode EXCEPT ![curr_term] = "read"]
  /\ curr_idx' = [curr_idx EXCEPT ![curr_term] = 0]
  /\ UNCHANGED <<curr_term, disp_term, active, pictVars, video_table, cursor,
                 clearing, dest, broken>>

ReadEnd ==
  /\ Runs
  /\ mode[curr_term] = "read" /\ curr_term = disp_term
  /\ mode' = [mode EXCEPT ![curr_term] = "user"]
  /\ curr_idx' = [curr_idx EXCEPT ![curr_term] = 0]
  /\ UNCHANGED <<curr_term, disp_term, active, pictVars, video_table, cursor,
                 clearing, dest, broken>>

\* terminal_write or terminal_printf: a character, and the end.  The line that
\* output is stored in is followed in module Terminal.
WriteChar ==
  /\ Runs
  /\ mode[curr_term] \in {"user", "write"}
  /\ mode' = [mode EXCEPT ![curr_term] = "write"]
  /\ all_char(curr_term) \/ new_line_char(curr_term)
  /\ UNCHANGED <<curr_term, disp_term, active, video_table, curr_idx, clearing,
                 dest, broken>>

WriteEnd ==
  /\ Runs
  /\ mode[curr_term] = "write"
  /\ mode' = [mode EXCEPT ![curr_term] = "user"]
  /\ UNCHANGED <<curr_term, disp_term, active, pictVars, video_table, cursor,
                 curr_idx, clearing, dest, broken>>

\* vidmap_func gives the program the address of its terminal's user page, which
\* is user accessible already; it then draws there.
vidmap_draw(i, c) ==
  /\ Runs
  /\ mode[curr_term] = "user"
  /\ IF video_table[curr_term] = "VIDEO"
     THEN VIDEO' = [VIDEO EXCEPT ![i] = c] /\ UNCHANGED video_buffer
     ELSE /\ video_buffer' = [video_buffer EXCEPT ![curr_term][i] = c]
          /\ UNCHANGED VIDEO
  /\ UNCHANGED <<curr_term, disp_term, active, term_X, term_Y, video_table, cursor,
                 curr_idx, mode, clearing, dest, broken>>

-----------------------------------------------------------------------------
\* Keys.  One that comes in the flush inside a switch still finds the old
\* disp_term, while the video memory has the new terminal's picture.

Echoes == mode[disp_term] = "read"
          \/ (mode[disp_term] = "write" /\ curr_term = disp_term)

KeyChar ==
  /\ Echoes
  /\ curr_idx[disp_term] < MAX_LINE
  /\ all_char(disp_term)
  /\ curr_idx' = [curr_idx EXCEPT ![disp_term] =
                   IF mode[disp_term] = "read" THEN @ + 1 ELSE @]

KeyEnter ==
  /\ Echoes
  /\ new_line_char(disp_term)
  /\ curr_idx' = [curr_idx EXCEPT ![disp_term] = 0]

\* Bug variant: the start of the line is not looked at.
Erasable_bug == TRUE

Erasable == curr_idx[disp_term] > 0

KeyBackspace ==
  /\ mode[disp_term] = "read"
  /\ Erasable
  /\ backspace_char(disp_term)
  /\ curr_idx' = [curr_idx EXCEPT ![disp_term] = @ - 1]

Key ==
  /\ KeyChar \/ KeyEnter \/ KeyBackspace
  /\ broken' = (broken \/ Switching)
  /\ UNCHANGED <<curr_term, disp_term, active, video_table, mode, clearing, dest>>

\* Ctrl+L: terminal_reset_buffer resets the line of the terminal that runs, and
\* lets interrupts in at its end.
KeyClear ==
  /\ clearing = None
  /\ clearing' = curr_term
  /\ curr_idx' = [curr_idx EXCEPT ![curr_term] = 0]
  /\ broken' = (broken \/ Switching)
  /\ UNCHANGED <<curr_term, disp_term, active, pictVars, video_table, cursor, mode,
                 dest>>

\* clear() of lib.c, and the loop over the buffer.
ClearPicture ==
  /\ VIDEO' = BlankPicture
  /\ video_buffer' = [video_buffer EXCEPT ![disp_term] = BlankPicture]

\* The rest of terminal_clear is for the terminal displayed.  If that one's line
\* is not empty, it goes on with a line that is no longer on the screen.
terminal_clear ==
  /\ clearing = curr_term
  /\ ClearPicture
  /\ term_X' = [term_X EXCEPT ![disp_term] = 0]
  /\ term_Y' = [term_Y EXCEPT ![disp_term] = 0]
  /\ terminal_update_cursor(disp_term)
  /\ clearing' = None
  /\ broken' = (broken \/ Switching \/ curr_idx[disp_term] > 0)
  /\ UNCHANGED <<curr_term, disp_term, active, video_table, curr_idx, mode, dest>>

-----------------------------------------------------------------------------
\* Bug variant: the buffer of the old terminal is not brought up to date.
switch_vidmem_bug(t) ==
  VIDEO' = video_buffer[t] /\ UNCHANGED video_buffer

switch_vidmem(t) ==
  /\ video_buffer' = [video_buffer EXCEPT ![disp_term] = VIDEO]
  /\ VIDEO' = video_buffer[t]

switch_vidmap(t) ==
  video_table' = [video_table EXCEPT ![disp_term] = "buffer", ![t] = "VIDEO"]

\* Alt+F, up to the flush in switch_vidmap.  Bound: not on top of Ctrl+L.
switch_terminals(t) ==
  /\ ~Switching /\ clearing # curr_term
  /\ t # disp_term
  /\ switch_vidmem(t)
  /\ switch_vidmap(t)
  /\ dest' = t
  /\ UNCHANGED <<curr_term, disp_term, active, term_X, term_Y, cursor, curr_idx,
                 mode, clearing, broken>>

\* The rest: a terminal without a program gets a shell and the CPU.
SwitchEnd ==
  /\ Switching
  /\ clearing # curr_term
  /\ disp_term' = dest
  /\ curr_term' = IF dest \in active THEN curr_term ELSE dest
  /\ active' = active \cup {dest}
  /\ dest' = None
  /\ UNCHANGED <<pictVars, video_table, cursor, curr_idx, mode, clearing, broken>>

\* Bug variant: do_switch leaves the cursor where it is.
UpdateCursor_bug == UNCHANGED cursor

UpdateCursor == cursor' = Offset(term_X[disp_term], term_Y[disp_term])

\* A tick: do_switch to terminal t.
Tick(t) ==
  /\ ~Switching
  /\ t \in active
  /\ curr_term' = t
  /\ UpdateCursor
  /\ UNCHANGED <<disp_term, active, pictVars, video_table, curr_idx, mode, clearing,
                 dest, broken>>

-----------------------------------------------------------------------------
\* terminal_open, init_paging, init_terminals and the first shell.
Init ==
  /\ curr_term = 0 /\ disp_term = 0
  /\ active = {0}
  /\ term_X = [t \in Terms |-> 0]
  /\ term_Y = [t \in Terms |-> 0]
  /\ VIDEO = BlankPicture
  /\ video_buffer = [t \in Terms |-> BlankPicture]
  /\ video_table = [t \in Terms |-> "VIDEO"]
  /\ cursor = 0
  /\ curr_idx = [t \in Terms |-> 0]
  /\ mode = [t \in Terms |-> "user"]
  /\ clearing = None
  /\ dest = None
  /\ broken = FALSE

ProgramStep == \/ ReadBegin \/ ReadEnd \/ WriteChar \/ WriteEnd
               \/ \E i \in DrawCells, c \in {Blank, Ink} : vidmap_draw(i, c)

Next == \/ ProgramStep \/ Key \/ KeyClear \/ terminal_clear \/ SwitchEnd
        \/ \E t \in Terms : switch_terminals(t) \/ Tick(t)

Spec == Init /\ [][Next]_vars

\* The PIT goes on, and interrupt handlers end.
FairSpec == /\ Spec
            /\ WF_vars(SwitchEnd) /\ WF_vars(terminal_clear)
            /\ \A t \in Terms : SF_vars(Tick(t))
-----------------------------------------------------------------------------
Picture == [Cells -> {Blank, Ink}]

TypeOK ==
  /\ curr_term \in Terms /\ disp_term \in Terms
  /\ active \subseteq Terms /\ curr_term \in active
  /\ VIDEO \in Picture
  /\ video_buffer \in [Terms -> Picture]
  /\ video_table \in [Terms -> {"VIDEO", "buffer"}]
  /\ cursor \in Nat
  /\ curr_idx \in [Terms -> 0 .. MAX_LINE]
  /\ mode \in [Terms -> {"user", "read", "write"}]
  /\ clearing \in Terms \cup {None} /\ dest \in Terms \cup {None}
  /\ broken \in BOOLEAN

\* No character is drawn outside the screen, whatever is written, typed, erased
\* and cleared in whatever order: the offsets into video memory and into the
\* buffers come from term_X and term_Y unchecked.  (terminal.c:215-245)
OnScreen ==
  /\ term_X \in [Terms -> 0 .. NUM_COLS - 1]
  /\ term_Y \in [Terms -> 0 .. NUM_ROWS - 1]
  /\ cursor \in Cells

\* The picture of terminal t is in video memory while it is displayed and in its
\* buffer otherwise.
Shown == IF Switching THEN dest ELSE disp_term
View(t) == IF t = Shown THEN VIDEO ELSE video_buffer[t]
Place(t) == Offset(term_X[t], term_Y[t])

\* The characters of the line that is being typed stand right before the place
\* where the next one goes, so that Backspace erases those and nothing else: also
\* when the line has wrapped or scrolled, and when the terminal was away from the
\* screen in the meantime.  (terminal.c:328-352)
LineOnScreen ==
  ~broken =>
    \A t \in Terms : mode[t] = "read" =>
      /\ curr_idx[t] <= Place(t)
      /\ \A i \in 1 .. curr_idx[t] : View(t)[Place(t) - i] = Ink

\* The video memory, the buffers and the page maps together behave like one
\* picture per terminal: what a terminal draws, in the foreground or in the
\* background, with terminal_putc or through vidmap, is what is seen when it is
\* displayed.  (schedule.c:133-139, 176-183)
AbstractPictures ==
  INSTANCE Pictures WITH picture <- [t \in Terms |-> View(t)],
                         place <- [t \in Terms |-> Place(t)],
                         shown <- Shown
ImplementsPictures == AbstractPictures!Spec

\* Alt+F to a running terminal leaves the cursor at the old terminal's place;
\* before long it is at the place of the terminal that is displayed.
\* (schedule.c:22-23, 122)
CursorFollows == []<>(cursor = Place(disp_term))
=============================================================================
