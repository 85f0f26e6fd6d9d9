------------------------------ MODULE Terminal ------------------------------
(***************************************************************************)
(* The terminal driver and the keyboard: the line buffers of the           *)
(* terminals, the flags that say which terminal a character goes to, and   *)
(* the programs that read and write while keys come in.  The screen is in  *)
(* module Screen.                                                          *)
(*                                                                         *)
(* A terminal is one thread, as in Sched; the keyboard handler runs on top *)
(* of the thread it interrupts, and can be preempted with it: kb[t] says   *)
(* where the handler on top of the thread of t is.  Each terminal has one  *)
(* ordinary character, Letter(t): what is typed while that terminal is     *)
(* displayed and what its programs write.                                  *)
(***************************************************************************)
EXTENDS Integers, Sequences, FiniteSets, SequencesExt

CONSTANTS NUM_TERMS,         \* globals.h: number of terminals
          LINE_BUFFER_SIZE,  \* terminal.h: length of a line buffer (128)
          MAX_LINE,          \* bound: no key is typed into a longer line
          MAX_HANDLERS,      \* bound: keyboard handlers in progress at a time
          Programs,          \* the calls that each terminal's programs make
          Outputs,           \* bound: what programs write; TRUE stands for a
                             \* newline and FALSE for an ordinary character
          Sizes              \* bound: the nbytes of terminal_read

Terms == 0 .. NUM_TERMS - 1
L == LINE_BUFFER_SIZE

ASSUME NumTermsAssumption == NUM_TERMS \in Nat \ {0}
ASSUME LineAssumption ==
  L \in Nat \ {0} /\ MAX_LINE \in 0 .. L
ASSUME OutputsAssumption == \A m \in Outputs : m \in Seq(BOOLEAN)
ASSUME SizesAssumption == Sizes \subseteq Nat \ {0}

VARIABLES
  curr_term, disp_term,   \* the terminal that runs, and the one on the screen
  char_from_KB,           \* 1 while a keyboard interrupt is handled
  TERM_READ_FLAG,         \* the terminal's program is in terminal_read
  TERM_WRITE_FLAG,        \* ... in terminal_write or terminal_printf
  ENTER_FLAG,             \* Enter was typed for the read under way
  curr_idx,               \* next free place of the current line
  input_buffer,           \* each terminal's two line buffers
  pc,                     \* location of each terminal's thread
  kb,                     \* location of the handler on top of it, or "none"
  out,                    \* what terminal_write or terminal_printf puts out
  buf,                    \* what terminal_read has copied
  typed, line,            \* history: the line being typed, the line entered
  disturbed,              \* history: the read under way met one of the races
  early                   \* history: its line was entered before it was reset

flagVars == <<char_from_KB, TERM_READ_FLAG, TERM_WRITE_FLAG, ENTER_FLAG>>
lineVars == <<curr_idx, input_buffer>>
history == <<typed, line, disturbed, early>>
threadVars == <<pc, out, buf>>
vars == <<curr_term, disp_term, flagVars, lineVars, threadVars, kb, history>>

NUL == 0
LF == 10
Backspace == 8
Letter(t) == 97 + t

\* CURR_LINE is at 0 .. L - 1 of a terminal's memory, ENTERED_LINE behind it: a
\* line that is too long runs from the one into the other.
Memory == 0 .. 2 * L - 1
EmptyLines == [i \in Memory |-> NUL]

\* terminal_reset_buffer, with TRUE for a reset by Ctrl+L.
ResetBuffer(disturbs) ==
  /\ curr_idx' = [curr_idx EXCEPT ![curr_term] = 0]
  /\ input_buffer' = [input_buffer EXCEPT ![curr_term] = EmptyLines]
  /\ typed' = [typed EXCEPT ![curr_term] = <<>>]
  /\ line' = [line EXCEPT ![curr_term] = <<>>]
  /\ disturbed' = [disturbed EXCEPT ![curr_term] = disturbs]

-----------------------------------------------------------------------------
\* terminal_putc: the flags of the displayed and of the running terminal and
\* char_from_KB, as five bits, decide whose line the character goes to.

Bitmap(fromKB) ==
  <<TERM_READ_FLAG[disp_term], TERM_WRITE_FLAG[disp_term],
    TERM_READ_FLAG[curr_term], TERM_WRITE_FLAG[curr_term], fromKB>>

Ignored == {<<1,0,0,0,0>>, <<0,1,0,0,1>>, <<0,1,0,0,0>>, <<0,0,1,0,1>>,
            <<0,0,1,0,0>>, <<0,0,0,1,1>>, <<1,0,1,0,0>>, <<0,1,1,0,1>>,
            <<0,1,1,0,0>>, <<0,1,0,1,1>>}
ToDisplayed == {<<1,0,0,0,1>>, <<1,0,1,0,1>>, <<1,0,0,1,1>>}
ToRunning == {<<0,1,0,1,0>>, <<0,0,0,1,0>>} \cup
             {<<1,0,r,w,k>> : r \in {0, 1}, w \in {0, 1}, k \in {0, 1}}

\* Bug variant: a reader on the screen gets what the running program writes.
WriteFlag_bug(fromKB) ==
  IF Bitmap(fromKB) \in ToDisplayed \cup {<<1,0,0,1,0>>} THEN 1
  ELSE IF Bitmap(fromKB) \in Ignored THEN 0
  ELSE IF Bitmap(fromKB) \in ToRunning THEN 2 ELSE 0

\* Bug variant: the case of an idle terminal on the screen is forgotten.
WriteFlag_lost(fromKB) ==
  IF Bitmap(fromKB) \in Ignored THEN 0
  ELSE IF Bitmap(fromKB) \in ToDisplayed THEN 1
  ELSE IF Bitmap(fromKB) \in ToRunning \ {<<0,0,0,1,0>>} THEN 2 ELSE 0

WriteFlag(fromKB) ==
  LET b == Bitmap(fromKB)
  IN  IF disp_term # curr_term /\ b[2] = 1 /\ b[4] = 1 /\ fromKB = 0 THEN 2
      ELSE IF b \in Ignored THEN 0
      ELSE IF b \in ToDisplayed THEN 1
      ELSE IF b \in ToRunning THEN 2 ELSE 0

\* The terminals (one or none) that a character goes to.
Target(fromKB) ==
  IF curr_term = disp_term
  THEN {t \in {curr_term} : TERM_READ_FLAG[t] = 1 \/ TERM_WRITE_FLAG[t] = 1}
  ELSE {t \in {disp_term} : WriteFlag(fromKB) = 1} \cup
       {t \in {curr_term} : WriteFlag(fromKB) = 2}

all_char(t, c) ==
  /\ input_buffer' = [input_buffer EXCEPT ![t][curr_idx[t]] = c]
  /\ curr_idx' = [curr_idx EXCEPT ![t] = @ + 1]
  /\ UNCHANGED ENTER_FLAG

\* The line feed is stored behind the line, which is copied to ENTERED_LINE.
Entered(t) ==
  LET terminated == [input_buffer[t] EXCEPT ![curr_idx[t]] = LF]
  IN  [i \in Memory |-> IF i >= L /\ i - L <= curr_idx[t] THEN terminated[i - L]
                        ELSE NUL]

\* Only a displayed reader is told that Enter was typed: WriteFlag is 1, or the
\* terminal runs and is displayed.
new_line_char(t) ==
  /\ input_buffer' = [input_buffer EXCEPT ![t] = Entered(t)]
  /\ curr_idx' = [curr_idx EXCEPT ![t] = 0]
  /\ ENTER_FLAG' = IF t = disp_term /\ TERM_READ_FLAG[t] = 1
                   THEN [ENTER_FLAG EXCEPT ![t] = 1] ELSE ENTER_FLAG

\* Bug variant: the start of the line is not looked at.
backspace_char_bug(t) ==
  /\ curr_idx' = [curr_idx EXCEPT ![t] = @ - 1]
  /\ UNCHANGED <<input_buffer, ENTER_FLAG>>

backspace_char(t) ==
  /\ IF curr_idx[t] > 0
     THEN /\ curr_idx' = [curr_idx EXCEPT ![t] = @ - 1]
          /\ input_buffer' = [input_buffer EXCEPT ![t][curr_idx[t] - 1] = NUL]
     ELSE UNCHANGED lineVars
  /\ UNCHANGED ENTER_FLAG

terminal_putc(c, fromKB) ==
  /\ char_from_KB' = 0
  /\ \/ Target(fromKB) = {} /\ UNCHANGED <<lineVars, ENTER_FLAG>>
     \/ \E t \in Target(fromKB) :
          \/ c = LF /\ new_line_char(t)
          \/ /\ c = Backspace
             /\ fromKB = 1 /\ TERM_READ_FLAG[disp_term] = 1
             /\ backspace_char(disp_term)
          \/ /\ c # LF
             /\ ~(c = Backspace /\ fromKB = 1 /\ TERM_READ_FLAG[disp_term] = 1)
             /\ all_char(t, c)

-----------------------------------------------------------------------------
At(l) == kb[curr_term] = "none" /\ pc[curr_term] = l
Goto(l) == pc' = [pc EXCEPT ![curr_term] = l]

\* terminal_write and terminal_printf disable interrupts; each terminal_putc
\* and terminal_reset_buffer ends with an sti that lets them in again, so that
\* only the way to the first character is out of their reach.
Interruptible == pc[curr_term] # "first"

SetFlag(flag, b) == [flag EXCEPT ![curr_term] = b]

\* terminal_read, with interrupts enabled: TERM_WRITE_FLAG is 0 already.
ReadCall ==
  /\ At("user")
  /\ "read" \in Programs[curr_term]
  /\ TERM_READ_FLAG' = SetFlag(TERM_READ_FLAG, 1)
  /\ TERM_WRITE_FLAG' = SetFlag(TERM_WRITE_FLAG, 0)
  /\ Goto("r_enter")
  /\ UNCHANGED <<curr_term, disp_term, char_from_KB, ENTER_FLAG, lineVars, out,
                 buf, kb, history>>

ReadClearEnter ==
  /\ At("r_enter")
  /\ ENTER_FLAG' = SetFlag(ENTER_FLAG, 0)
  /\ Goto("r_reset")
  /\ UNCHANGED <<curr_term, disp_term, char_from_KB, TERM_READ_FLAG,
                 TERM_WRITE_FLAG, lineVars, out, buf, kb, history>>

ReadReset ==
  /\ At("r_reset")
  /\ ResetBuffer(FALSE)
  /\ early' = [early EXCEPT ![curr_term] = ENTER_FLAG[curr_term] = 1]
  /\ Goto("r_wait")
  /\ UNCHANGED <<curr_term, disp_term, flagVars, out, buf, kb>>

\* Bug variant: Enter on the terminal that is displayed wakes any reader.
Woken_bug == ENTER_FLAG[disp_term] = 1

\* The wait is over.  Interrupts are disabled only after this test.
Woken == ENTER_FLAG[curr_term] = 1 /\ disp_term = curr_term

ReadWake ==
  /\ At("r_wait")
  /\ Woken
  /\ Goto("r_copy")
  /\ UNCHANGED <<curr_term, disp_term, flagVars, lineVars, out, buf, kb,
                 history>>

\* The number of characters copied: up to a place where both lines are NUL.
CopyLength(t, nbytes) ==
  Cardinality({i \in 0 .. L - 1 :
                 /\ i < nbytes
                 /\ \A j \in 0 .. i : ~(/\ input_buffer[t][j] = NUL
                                        /\ input_buffer[t][L + j] = NUL)})

\* The copy is from the displayed terminal, the reset of the running one.
ReadCopy ==
  /\ At("r_copy")
  /\ \E nbytes \in Sizes :
       buf' = [buf EXCEPT ![curr_term] =
                [nbytes |-> nbytes,
                 data |-> [i \in 1 .. CopyLength(disp_term, nbytes) |->
                             input_buffer[disp_term][L + i - 1]]]]
  /\ ResetBuffer(FALSE)
  /\ early' = [early EXCEPT ![curr_term] = FALSE]
  /\ Goto("r_end")
  /\ UNCHANGED <<curr_term, disp_term, flagVars, out, kb>>

NoCall == [nbytes |-> 0, data |-> <<>>]
NoOutput == [msg |-> <<>>, n |-> 0, call |-> "none", saved |-> <<0, 0>>]

ReadEnd ==
  /\ At("r_end")
  /\ ENTER_FLAG' = [ENTER_FLAG EXCEPT ![disp_term] = 0]
  /\ TERM_READ_FLAG' = SetFlag(TERM_READ_FLAG, 0)
  /\ buf' = [buf EXCEPT ![curr_term] = NoCall]
  /\ Goto("user")
  /\ UNCHANGED <<curr_term, disp_term, char_from_KB, TERM_WRITE_FLAG, lineVars,
                 out, kb, history>>

\* terminal_write, and terminal_printf, which the kernel calls for the running
\* terminal.  The conversions of printf are left out: whatever the format, it
\* comes down to a message put out character by character.
Output(call) ==
  /\ At("user")
  /\ call \in Programs[curr_term]
  /\ \E m \in Outputs :
       out' = [out EXCEPT ![curr_term] =
                [msg |-> m, n |-> 0, call |-> call,
                 saved |-> <<TERM_READ_FLAG[curr_term],
                             TERM_WRITE_FLAG[curr_term]>>]]
  /\ TERM_WRITE_FLAG' = SetFlag(TERM_WRITE_FLAG, 1)
  /\ TERM_READ_FLAG' = SetFlag(TERM_READ_FLAG, 0)
  /\ Goto("first")
  /\ UNCHANGED <<curr_term, disp_term, char_from_KB, ENTER_FLAG, lineVars, buf,
                 kb, history>>

terminal_write == Output("write")
terminal_printf == Output("printf")

OutputDone == out[curr_term].n = Len(out[curr_term].msg)

\* terminal_write looks at the line, terminal_printf at the format.
LineFull == LET o == out[curr_term]
                n == IF o.call = "write" THEN curr_idx[curr_term] ELSE o.n
            IN  n % L = L - 1

OutputReset ==
  /\ At("first") \/ At("loop")
  /\ ~OutputDone
  /\ LineFull
  /\ ResetBuffer(FALSE)
  /\ Goto("putc")
  /\ UNCHANGED <<curr_term, disp_term, flagVars, out, buf, kb, early>>

\* With char_from_KB = 1, left by a handler of Ctrl+L on top of another thread,
\* the character may go to the terminal on the screen.
OutputChar ==
  /\ \/ (At("first") \/ At("loop")) /\ ~OutputDone /\ ~LineFull
     \/ At("putc")
  /\ LET o == out[curr_term]
     IN  /\ terminal_putc(IF o.msg[o.n + 1] THEN LF ELSE Letter(curr_term),
                       char_from_KB)
         /\ out' = [out EXCEPT ![curr_term].n = @ + 1]
  /\ disturbed' = IF char_from_KB = 1 /\ disp_term # curr_term
                  THEN [disturbed EXCEPT ![disp_term] = TRUE] ELSE disturbed
  /\ Goto("loop")
  /\ UNCHANGED <<curr_term, disp_term, TERM_READ_FLAG, TERM_WRITE_FLAG, buf, kb,
                 typed, line, early>>

OutputLast ==
  /\ At("first") \/ At("loop")
  /\ OutputDone
  /\ ResetBuffer(FALSE)
  /\ Goto("last")
  /\ UNCHANGED <<curr_term, disp_term, flagVars, out, buf, kb, early>>

\* terminal_write clears its flag, terminal_printf restores what it found.
OutputEnd ==
  /\ At("last")
  /\ LET o == out[curr_term]
     IN  /\ TERM_READ_FLAG' = IF o.call = "write" THEN TERM_READ_FLAG
                              ELSE SetFlag(TERM_READ_FLAG, o.saved[1])
         /\ TERM_WRITE_FLAG' = SetFlag(TERM_WRITE_FLAG,
                                       IF o.call = "write" THEN 0
                                       ELSE o.saved[2])
  /\ out' = [out EXCEPT ![curr_term] = NoOutput]
  /\ Goto("user")
  /\ UNCHANGED <<curr_term, disp_term, char_from_KB, ENTER_FLAG, lineVars, buf,
                 kb, history>>

-----------------------------------------------------------------------------
\* get_c_keyboard.  Bounds: MAX_HANDLERS, no key on top of a handler, and no
\* key while Alt+F is held.

Interrupt == /\ kb[curr_term] = "none" /\ Interruptible
             /\ Cardinality({t \in Terms : kb[t] # "none"}) < MAX_HANDLERS

Handler(l) == kb' = [kb EXCEPT ![curr_term] = l]

\* The line as its user sees it grow, shrink and end.
Typing(c) ==
  LET s == typed[disp_term]
      s2 == IF c = Backspace THEN IF s = <<>> THEN s ELSE Front(s)
            ELSE IF c = LF THEN <<>> ELSE Append(s, c)
  IN  IF /\ TERM_READ_FLAG[disp_term] = 1
         /\ pc[disp_term] # "r_end" /\ ~disturbed[disp_term]
      THEN /\ typed' = [typed EXCEPT ![disp_term] = s2]
           /\ line' = IF c = LF
                      THEN [line EXCEPT ![disp_term] = Append(s, LF)] ELSE line
      ELSE UNCHANGED <<typed, line>>

\* A key with a character: terminal_putc in the handler.  Which key gives which
\* character, with Shift and Caps Lock, is left out.  Bounds: MAX_LINE, and
\* Backspace is typed only while the displayed terminal reads.
Key(c) ==
  /\ Interrupt
  /\ \/ c = LF
     \/ c = Backspace /\ TERM_READ_FLAG[disp_term] = 1
     \/ c = Letter(disp_term) /\ curr_idx[disp_term] < MAX_LINE
  /\ terminal_putc(c, 1)
  /\ Typing(c)
  /\ Handler("k_end")
  /\ UNCHANGED <<curr_term, disp_term, TERM_READ_FLAG, TERM_WRITE_FLAG,
                 threadVars, disturbed, early>>

\* Ctrl+L: terminal_clear up to the end of terminal_reset_buffer, which resets
\* the line of the terminal that runs.
KeyClear ==
  /\ Interrupt
  /\ char_from_KB' = 1
  /\ ResetBuffer(TRUE)
  /\ Handler("c_rest")
  /\ UNCHANGED <<curr_term, disp_term, TERM_READ_FLAG, TERM_WRITE_FLAG,
                 ENTER_FLAG, threadVars, early>>

\* The rest clears the screen, that of the terminal displayed.
ClearRest ==
  /\ kb[curr_term] = "c_rest"
  /\ ENTER_FLAG' = [ENTER_FLAG EXCEPT ![disp_term] = 0]
  /\ Handler("k_end")
  /\ UNCHANGED <<curr_term, disp_term, char_from_KB, TERM_READ_FLAG,
                 TERM_WRITE_FLAG, lineVars, threadVars, history>>

KeyEnd ==
  /\ kb[curr_term] = "k_end"
  /\ char_from_KB' = 0
  /\ Handler("none")
  /\ UNCHANGED <<curr_term, disp_term, TERM_READ_FLAG, TERM_WRITE_FLAG,
                 ENTER_FLAG, lineVars, threadVars, history>>

\* Alt+F: switch_terminals to a terminal that has a program, with the lock free.
AltF(t) ==
  /\ Interrupt
  /\ t # disp_term
  /\ disp_term' = t
  /\ char_from_KB' = 0
  /\ disturbed' = [u \in Terms |-> disturbed[u] \/ pc[u] = "r_copy"]
  /\ UNCHANGED <<curr_term, TERM_READ_FLAG, TERM_WRITE_FLAG, ENTER_FLAG,
                 lineVars, threadVars, kb, typed, line, early>>

\* A tick gives the CPU to terminal t.
Tick(t) ==
  /\ Interruptible \/ kb[curr_term] # "none"
  /\ t # curr_term
  /\ curr_term' = t
  /\ UNCHANGED <<disp_term, flagVars, lineVars, threadVars, kb, history>>

-----------------------------------------------------------------------------
\* terminal_open at boot, and programs that run.
Init ==
  /\ curr_term = 0
  /\ disp_term = 0
  /\ char_from_KB = 0
  /\ TERM_READ_FLAG = [t \in Terms |-> 0]
  /\ TERM_WRITE_FLAG = [t \in Terms |-> 0]
  /\ ENTER_FLAG = [t \in Terms |-> 0]
  /\ curr_idx = [t \in Terms |-> 0]
  /\ input_buffer = [t \in Terms |-> EmptyLines]
  /\ pc = [t \in Terms |-> "user"]
  /\ kb = [t \in Terms |-> "none"]
  /\ out = [t \in Terms |-> NoOutput]
  /\ buf = [t \in Terms |-> NoCall]
  /\ typed = [t \in Terms |-> <<>>]
  /\ line = [t \in Terms |-> <<>>]
  /\ disturbed = [t \in Terms |-> FALSE]
  /\ early = [t \in Terms |-> FALSE]

ReadSteps == ReadClearEnter \/ ReadReset \/ ReadWake \/ ReadCopy \/ ReadEnd
OutputSteps == OutputReset \/ OutputChar \/ OutputLast \/ OutputEnd

HandlerSteps == ClearRest \/ KeyEnd
Calls == ReadCall \/ terminal_write \/ terminal_printf
Keys == (\E c \in {Letter(disp_term), LF, Backspace} : Key(c)) \/ KeyClear

Next == \/ Calls \/ ReadSteps \/ OutputSteps \/ Keys \/ HandlerSteps
        \/ \E t \in Terms : AltF(t) \/ Tick(t)

Spec == Init /\ [][Next]_vars
-----------------------------------------------------------------------------
Characters == {NUL, LF, Backspace} \cup {Letter(t) : t \in Terms}
Locations == {"user", "r_enter", "r_reset", "r_wait", "r_copy", "r_end",
              "first", "loop", "putc", "last"}

TypeOK ==
  /\ curr_term \in Terms /\ disp_term \in Terms
  /\ char_from_KB \in {0, 1}
  /\ TERM_READ_FLAG \in [Terms -> {0, 1}]
  /\ TERM_WRITE_FLAG \in [Terms -> {0, 1}]
  /\ ENTER_FLAG \in [Terms -> {0, 1}]
  /\ curr_idx \in [Terms -> Nat]
  /\ input_buffer \in [Terms -> [Memory -> Characters]]
  /\ pc \in [Terms -> Locations]
  /\ kb \in [Terms -> {"none", "c_rest", "k_end"}]
  /\ \A t \in Terms : out[t].msg \in Outputs \cup {<<>>}
                      /\ out[t].n \in 0 .. Len(out[t].msg)
  /\ \A t \in Terms : buf[t].nbytes \in Sizes \cup {0}
                      /\ buf[t].data \in Seq(Characters)

\* A line holds only what was typed at its own terminal or written by its own
\* program, whatever runs when the key or the character comes, and does not run
\* beyond its terminal's memory: unless a character was put out while another
\* terminal's handler was in Ctrl+L.  (terminal.c:228, 360-467)
LinesApart ==
  \A t \in Terms : ~disturbed[t] =>
    /\ curr_idx[t] <= 2 * L
    /\ \A i \in Memory : input_buffer[t][i] \in {NUL, LF, Backspace, Letter(t)}

\* terminal_read returns the line that its user saw grow and entered, cut to
\* nbytes and to the line buffer, and with all of it, and does not return before
\* a line is entered: unless the terminal on the screen was changed between the
\* test and the cli, or Ctrl+L came.  Only a line entered after ENTER_FLAG is
\* cleared and before the buffer is wakes the read without its text.
\* (terminal.c:112-137)
ReadsOwnLine ==
  [][\A t \in Terms :
       pc[t] = "r_copy" /\ pc'[t] = "r_end" /\ ~disturbed[t] =>
         LET got == buf'[t].data
             room == {Len(line[t]), L, buf'[t].nbytes}
         IN  /\ line[t] # <<>> \/ early[t]
             /\ \A i \in DOMAIN got \cap DOMAIN line[t] : got[i] = line[t][i]
             /\ \E n \in room : n <= Len(got) /\ \A m \in room : n <= m]_vars

\* What a program writes is put out, in its own terminal's line, also when
\* the terminal on the screen reads or writes at the same time: unless
\* char_from_KB is left at 1 by Ctrl+L.  (terminal.c:411-430)
OutputKept ==
  [][\A t \in Terms :
       out'[t].n = out[t].n + 1 /\ char_from_KB = 0 =>
         IF out[t].msg[out'[t].n]
         THEN curr_idx'[t] = 0 /\ input_buffer'[t][L] # NUL
         ELSE curr_idx'[t] = curr_idx[t] + 1]_vars
=============================================================================
