--------------------------- MODULE Terminal_proofs ---------------------------
(***************************************************************************)
(* Theorems about Terminal, for any number of terminals, any length of the *)
(* lines, any programs and any output.                                     *)
(*                                                                         *)
(* Where a character goes depends on the flags of two terminals, set and   *)
(* cleared by their threads at different times.  IndInv ties the flags of  *)
(* a terminal to where its thread is: at most one of the two flags is set, *)
(* none between calls.  Of the table of flags only the rows that can occur *)
(* then remain.  How long a line can be depends on how far the output      *)
(* under way has come.  ReadInv, on top of it, ties the line that a user   *)
(* sees grow to the bytes of the two line buffers.                         *)
(***************************************************************************)
EXTENDS Terminal, FiniteSetTheorems, TLAPS

Reading == {"r_enter", "r_reset", "r_wait", "r_copy", "r_end"}
Writing == {"first", "loop", "putc", "last"}

\* The flags say where the terminal's thread is.
FlagInv ==
  \A t \in Terms :
    /\ TERM_READ_FLAG[t] = IF pc[t] \in Reading THEN 1 ELSE 0
    /\ TERM_WRITE_FLAG[t] = IF pc[t] \in Writing THEN 1 ELSE 0

\* The output under way.
OutputType ==
  [msg : Outputs \cup {<<>>}, n : Nat, call : {"none", "write", "printf"},
   saved : {<<0, 0>>}]

OutInv ==
  /\ out \in [Terms -> OutputType]
  /\ \A t \in Terms :
       /\ out[t].n <= Len(out[t].msg)
       /\ pc[t] = "putc" => out[t].n < Len(out[t].msg)
       /\ pc[t] = "first" => out[t].n = 0
       /\ pc[t] \in {"first", "loop", "putc"} => out[t].call # "none"

\* A line that is not empty begins with a character.
FirstInv ==
  \A t \in Terms : curr_idx[t] > 0 => input_buffer[t][0] # NUL

\* A line that terminal_write puts out is emptied before it passes its memory,
\* one of terminal_printf once for each L characters of the output.
InWrite(idx) == idx <= 2 * L /\ (idx % L = L - 1 \/ idx <= 2 * L - 2)
InPrintf(idx, n) == idx <= L + 1 + (n % L)

LengthInv ==
  \A t \in Terms : ~disturbed[t] =>
    IF pc[t] # "loop" THEN curr_idx[t] <= L
    ELSE IF out[t].call = "write" THEN InWrite(curr_idx[t])
    ELSE InPrintf(curr_idx[t], out[t].n)

\* What an undisturbed line holds.
ContentInv ==
  \A t \in Terms : ~disturbed[t] =>
    \A i \in Memory : input_buffer[t][i] \in {NUL, LF, Backspace, Letter(t)}

CallType == [nbytes : Sizes \cup {0}, data : Seq(Characters)]

TypeInv ==
  /\ curr_term \in Terms /\ disp_term \in Terms
  /\ char_from_KB \in {0, 1}
  /\ TERM_READ_FLAG \in [Terms -> {0, 1}]
  /\ TERM_WRITE_FLAG \in [Terms -> {0, 1}]
  /\ ENTER_FLAG \in [Terms -> {0, 1}]
  /\ curr_idx \in [Terms -> Nat]
  /\ input_buffer \in [Terms -> [Memory -> Characters]]
  /\ pc \in [Terms -> Locations]
  /\ kb \in [Terms -> {"none", "c_rest", "k_end"}]
  /\ buf \in [Terms -> CallType]
  /\ disturbed \in [Terms -> BOOLEAN]

IndInv ==
  TypeInv /\ FlagInv /\ OutInv /\ FirstInv /\ LengthInv /\ ContentInv

-----------------------------------------------------------------------------
\* Arithmetic on lengths of lines.
LEMMA ModFact ==
  /\ L \in Nat \ {0} /\ MAX_LINE \in 0 .. L
  /\ \A n \in Nat : n % L \in 0 .. L - 1
  /\ \A n \in Nat : n % L # L - 1 => (n + 1) % L = (n % L) + 1
  /\ (2 * L - 1) % L = L - 1
  /\ L > 1 => 1 % L = 1
<1>1. L \in Nat \ {0} /\ MAX_LINE \in 0 .. L
  BY LineAssumption
<1>2. \A n \in Nat : n % L \in 0 .. L - 1
  BY <1>1
<1>3. ASSUME NEW n \in Nat, n % L # L - 1
      PROVE  (n + 1) % L = (n % L) + 1
  <2> DEFINE q == n \div L
             r == n % L
  <2>1. q \in Int /\ r \in 0 .. L - 1 /\ n = L * q + r
    BY <1>1
  <2> HIDE DEF q, r
  <2>2. n + 1 = L * q + (r + 1) /\ r + 1 \in 0 .. L - 1
    BY <1>1, <1>3, <2>1 DEF r
  <2>3. (n + 1) % L = r + 1
    BY <1>1, <2>1, <2>2
  <2>4. QED
    BY <2>3 DEF r
<1>4. (2 * L - 1) % L = L - 1
  BY <1>1
<1>5. L > 1 => 1 % L = 1
  BY <1>1
<1>6. QED
  BY <1>1, <1>2, <1>3, <1>4, <1>5

\* A short line is within both bounds, and stays in them by a character.
LEMMA LengthFact ==
  /\ \A i \in 0 .. L : InWrite(i) /\ \A n \in Nat : InPrintf(i, n)
  /\ \A i \in 0 .. L : InWrite(i + 1)
  /\ \A i \in Nat : InWrite(i) /\ i % L # L - 1 => InWrite(i + 1)
  /\ \A i \in 0 .. L, n \in Nat : InPrintf(i + 1, n)
  /\ \A i \in Nat, n \in Nat :
       InPrintf(i, n) /\ n % L # L - 1 => InPrintf(i + 1, n + 1)
  /\ \A i \in Nat : InWrite(i) => i <= 2 * L
  /\ \A i \in Nat, n \in Nat : InPrintf(i, n) => i <= 2 * L
<1>1. L \in Nat \ {0} /\ \A n \in Nat : n % L \in 0 .. L - 1
  BY ModFact
<1>2. ASSUME NEW i \in Nat, NEW n \in Nat
      PROVE  /\ i <= L => InPrintf(i, n) /\ InPrintf(i + 1, n)
             /\ InPrintf(i, n) => i <= 2 * L
             /\ InPrintf(i, n) /\ n % L # L - 1 => InPrintf(i + 1, n + 1)
  <2> DEFINE r == n % L
             r1 == (n + 1) % L
  <2>1. r \in 0 .. L - 1 /\ (r # L - 1 => r1 = r + 1)
    BY ModFact
  <2>2. \A j : /\ InPrintf(j, n) <=> j <= L + 1 + r
               /\ InPrintf(j, n + 1) <=> j <= L + 1 + r1
    BY DEF InPrintf
  <2> HIDE DEF r, r1
  <2>3. QED
    BY <1>1, <2>1, <2>2 DEF r
<1>3. 0 .. L \subseteq Nat /\ \A i \in 0 .. L : i <= L
  BY <1>1
<1>4. \A i \in 0 .. L : InWrite(i) /\ InWrite(i + 1)
  <2>1. CASE L = 1
    <3>1. 0 % 1 = 0 /\ 1 % 1 = 0 /\ 2 % 1 = 0
      OBVIOUS
    <3>2. QED
      BY <2>1, <3>1 DEF InWrite
  <2>2. CASE L = 2
    <3>1. 3 % 2 = 1
      OBVIOUS
    <3>2. QED
      BY <2>2, <3>1 DEF InWrite
  <2>3. CASE L > 2
    <3>1. \A i \in 0 .. L : i + 1 <= 2 * L - 2
      BY <1>1, <2>3
    <3>2. QED
      BY <1>1, <3>1 DEF InWrite
  <2>4. QED
    BY <1>1, <2>1, <2>2, <2>3
<1>5. ASSUME NEW i \in Nat, InWrite(i), i % L # L - 1
      PROVE  InWrite(i + 1)
  <2>1. i + 1 <= 2 * L - 2 \/ i + 1 = 2 * L - 1
    BY <1>1, <1>5 DEF InWrite
  <2>2. CASE i + 1 <= 2 * L - 2
    BY <1>1, <2>2 DEF InWrite
  <2>3. CASE i + 1 = 2 * L - 1
    <3>1. (i + 1) % L = L - 1
      BY <2>3, ModFact, Zenon
    <3>2. QED
      BY <1>1, <2>3, <3>1 DEF InWrite
  <2>4. QED
    BY <2>1, <2>2, <2>3
<1>6. \A i \in Nat : InWrite(i) => i <= 2 * L
  BY DEF InWrite
<1>7. QED
  BY <1>2, <1>3, <1>4, <1>5, <1>6

\* How much terminal_read copies.
LEMMA CopyFact ==
  ASSUME NEW t, NEW nbytes \in Nat
  PROVE  CopyLength(t, nbytes) \in 0 .. L
<1>1. IsFiniteSet(0 .. L - 1) /\ Cardinality(0 .. L - 1) = L
  BY FS_Interval, LineAssumption
<1> DEFINE S == {i \in 0 .. L - 1 :
                   /\ i < nbytes
                   /\ \A j \in 0 .. i : ~(/\ input_buffer[t][j] = NUL
                                          /\ input_buffer[t][L + j] = NUL)}
<1>2. S \in SUBSET (0 .. L - 1)
  OBVIOUS
<1> HIDE DEF S
<1>3. IsFiniteSet(S) /\ Cardinality(S) <= L
  BY <1>1, <1>2, FS_Subset
<1>4. Cardinality(S) \in Nat
  BY <1>3, FS_CardinalityType
<1>5. QED
  BY <1>3, <1>4, LineAssumption DEF S, CopyLength

-----------------------------------------------------------------------------
\* Where characters go: what is put out to the terminal that runs, what is
\* typed to the one on the screen, what is put out while Ctrl+L is handled to
\* the one or the other.
LEMMA TargetFact ==
  ASSUME TypeInv, FlagInv
  PROVE  /\ Target(1) \subseteq {disp_term}
         /\ pc[curr_term] \in Writing => Target(0) = {curr_term}
         /\ \A k : Target(k) \subseteq {curr_term, disp_term}
<1> DEFINE rd == TERM_READ_FLAG[disp_term]
           wd == TERM_WRITE_FLAG[disp_term]
           rc == TERM_READ_FLAG[curr_term]
           wc == TERM_WRITE_FLAG[curr_term]
<1>1. /\ <<rd, wd>> \in {<<0, 0>>, <<0, 1>>, <<1, 0>>}
      /\ <<rc, wc>> \in {<<0, 0>>, <<0, 1>>, <<1, 0>>}
      /\ pc[curr_term] \in Writing => rc = 0 /\ wc = 1
  BY DEF TypeInv, FlagInv, Reading, Writing
<1>2. \A k : Bitmap(k) = <<rd, wd, rc, wc, k>>
  BY DEF Bitmap
<1> HIDE DEF rd, wd, rc, wc
<1>3. disp_term # curr_term => WriteFlag(1) # 2
  BY <1>1, <1>2 DEF WriteFlag, Ignored, ToDisplayed, ToRunning
<1>4. disp_term # curr_term /\ pc[curr_term] \in Writing => WriteFlag(0) = 2
  BY <1>1, <1>2 DEF WriteFlag, Ignored, ToDisplayed, ToRunning
<1>5. curr_term = disp_term /\ pc[curr_term] \in Writing =>
        TERM_WRITE_FLAG[curr_term] = 1
  BY <1>1 DEF wc
<1>6. QED
  BY <1>3, <1>4, <1>5 DEF Target

-----------------------------------------------------------------------------
\* What terminal_putc does to the lines.
Same(t) == curr_idx'[t] = curr_idx[t] /\ input_buffer'[t] = input_buffer[t]

Grows(t, c) ==
  /\ curr_idx'[t] = curr_idx[t] + 1
  /\ \A i \in Memory : input_buffer'[t][i] \in {input_buffer[t][i], c}

Ends(t) ==
  /\ curr_idx'[t] = 0
  /\ input_buffer'[t][L] # NUL
  /\ \A i \in Memory : \/ input_buffer'[t][i] \in {NUL, LF}
                       \/ \E j \in Memory : input_buffer'[t][i] = input_buffer[t][j]

Shrinks(t) ==
  /\ curr_idx'[t] <= curr_idx[t]
  /\ \A i \in Memory : input_buffer'[t][i] \in {input_buffer[t][i], NUL}

LineType ==
  /\ curr_idx \in [Terms -> Nat]
  /\ input_buffer \in [Terms -> [Memory -> Characters]]

LEMMA MemoryFact == L \in Nat \ {0} /\ 0 \in Memory /\ L \in Memory
BY LineAssumption DEF Memory

LEMMA StoreFact ==
  ASSUME NEW f \in [Memory -> Characters], NEW i, NEW c \in Characters
  PROVE  /\ [f EXCEPT ![i] = c] \in [Memory -> Characters]
         /\ \A j \in Memory : [f EXCEPT ![i] = c][j] = IF j = i THEN c ELSE f[j]
OBVIOUS

LEMMA CharactersFact == {NUL, LF, Backspace} \subseteq Characters
BY DEF Characters

LEMMA CharFact ==
  ASSUME NEW t \in Terms, NEW c \in Characters \ {NUL, LF}, LineType, FirstInv,
         all_char(t, c)
  PROVE  LineType' /\ FirstInv' /\ Grows(t, c) /\ \A u \in Terms \ {t} : Same(u)
<1>1. LineType'
  <2>1. input_buffer' = [input_buffer EXCEPT ![t] =
                           [input_buffer[t] EXCEPT ![curr_idx[t]] = c]]
    BY DEF LineType, all_char
  <2>2. input_buffer' \in [Terms -> [Memory -> Characters]]
    BY <2>1, StoreFact DEF LineType
  <2>3. QED
    BY <2>2 DEF LineType, all_char
<1>2. Grows(t, c) /\ \A u \in Terms \ {t} : Same(u)
  BY DEF LineType, all_char, Grows, Same
<1>3. FirstInv'
  BY MemoryFact DEF LineType, all_char, FirstInv, Characters, NUL
<1>4. QED
  BY <1>1, <1>2, <1>3

LEMMA NewLineFact ==
  ASSUME NEW t \in Terms, LineType, FirstInv, new_line_char(t)
  PROVE  LineType' /\ FirstInv' /\ Ends(t) /\ \A u \in Terms \ {t} : Same(u)
<1> DEFINE terminated == [input_buffer[t] EXCEPT ![curr_idx[t]] = LF]
<1>1. /\ terminated \in [Memory -> Characters]
      /\ \A i \in Memory : terminated[i] \in {LF, input_buffer[t][i]}
      /\ curr_idx[t] = 0 => terminated[0] = LF
      /\ curr_idx[t] > 0 => terminated[0] = input_buffer[t][0]
  BY StoreFact, CharactersFact, MemoryFact DEF LineType
<1>2. Entered(t) = [i \in Memory |-> IF i >= L /\ i - L <= curr_idx[t]
                                     THEN terminated[i - L] ELSE NUL]
  BY DEF Entered
<1>3. \A i \in Memory : i >= L => i - L \in Memory
  BY LineAssumption DEF Memory
<1> HIDE DEF terminated
<1>4. \A i \in Memory : \/ Entered(t)[i] \in {NUL, LF}
                        \/ \E j \in Memory : Entered(t)[i] = input_buffer[t][j]
  BY <1>1, <1>2, <1>3
<1>5. Entered(t) \in [Memory -> Characters]
  BY <1>1, <1>2, <1>3, CharactersFact
<1>6. Entered(t)[L] # NUL
  <2>1. Entered(t)[L] = terminated[0]
    BY <1>2, MemoryFact DEF LineType
  <2>2. QED
    BY <1>1, <2>1 DEF FirstInv, LineType, NUL, LF
<1>7. /\ curr_idx' = [curr_idx EXCEPT ![t] = 0]
      /\ input_buffer' = [input_buffer EXCEPT ![t] = Entered(t)]
  BY DEF new_line_char
<1>8. LineType' /\ \A u \in Terms \ {t} : Same(u)
  BY <1>5, <1>7 DEF LineType, Same
<1>9. Ends(t)
  BY <1>4, <1>6, <1>7 DEF LineType, Ends
<1>10. FirstInv'
  BY <1>7 DEF LineType, FirstInv
<1>11. QED
  BY <1>8, <1>9, <1>10

LEMMA BackspaceFact ==
  ASSUME NEW t \in Terms, LineType, FirstInv, backspace_char(t)
  PROVE  LineType' /\ FirstInv' /\ Shrinks(t) /\ \A u \in Terms \ {t} : Same(u)
<1>1. CASE curr_idx[t] > 0
  <2>1. /\ curr_idx' = [curr_idx EXCEPT ![t] = @ - 1]
        /\ input_buffer' = [input_buffer EXCEPT ![t][curr_idx[t] - 1] = NUL]
    BY <1>1 DEF backspace_char
  <2>2. LineType'
    <3>1. input_buffer' = [input_buffer EXCEPT ![t] =
                             [input_buffer[t] EXCEPT ![curr_idx[t] - 1] = NUL]]
      BY <2>1 DEF LineType
    <3>2. input_buffer' \in [Terms -> [Memory -> Characters]]
      BY <3>1, StoreFact, CharactersFact DEF LineType
    <3>3. QED
      BY <1>1, <2>1, <3>2 DEF LineType
  <2>3. FirstInv'
    BY <1>1, <2>1, MemoryFact DEF LineType, FirstInv
  <2>4. Shrinks(t) /\ \A u \in Terms \ {t} : Same(u)
    BY <1>1, <2>1 DEF LineType, Shrinks, Same
  <2>5. QED
    BY <2>2, <2>3, <2>4
<1>2. CASE ~(curr_idx[t] > 0)
  <2>1. UNCHANGED lineVars
    BY <1>2 DEF backspace_char
  <2>2. QED
    BY <2>1 DEF lineVars, LineType, FirstInv, Shrinks, Same
<1>3. QED
  BY <1>1, <1>2

Erases(c, k) == c = Backspace /\ k = 1 /\ TERM_READ_FLAG[disp_term] = 1

PutOutcome(c, k) ==
  /\ LineType' /\ FirstInv'
  /\ ENTER_FLAG' \in [Terms -> {0, 1}] /\ char_from_KB' \in {0, 1}
  /\ \A t \in Terms :
       \/ Same(t)
       \/ t \in Target(k) /\ c # LF /\ ~Erases(c, k) /\ Grows(t, c)
       \/ t \in Target(k) /\ c = LF /\ Ends(t)
       \/ t = disp_term /\ k = 1 /\ TERM_READ_FLAG[t] = 1 /\ Shrinks(t)
  /\ \A t \in Terms : Target(k) = {t} /\ k = 0 =>
       IF c = LF THEN Ends(t) ELSE Grows(t, c)

LEMMA PutFact ==
  ASSUME TypeInv, FlagInv, FirstInv, NEW k \in {0, 1},
         NEW c \in Characters \ {NUL}, terminal_putc(c, k)
  PROVE  PutOutcome(c, k)
<1>1. LineType /\ Target(k) \subseteq Terms /\ disp_term \in Terms
  BY TargetFact DEF TypeInv, LineType
<1>2. char_from_KB' \in {0, 1}
  BY DEF terminal_putc
<1>3. CASE Target(k) = {} /\ UNCHANGED <<lineVars, ENTER_FLAG>>
  BY <1>1, <1>2, <1>3
  DEF PutOutcome, lineVars, LineType, FirstInv, TypeInv, Same
<1>4. ASSUME NEW t \in Target(k), c = LF, new_line_char(t)
      PROVE  PutOutcome(c, k)
  <2>1. ENTER_FLAG' \in [Terms -> {0, 1}]
    BY <1>4 DEF TypeInv, new_line_char
  <2>2. LineType' /\ FirstInv' /\ Ends(t) /\ \A u \in Terms \ {t} : Same(u)
    BY <1>1, <1>4, NewLineFact
  <2>3. QED
    BY <1>2, <1>4, <2>1, <2>2 DEF PutOutcome
<1>5. ASSUME NEW t \in Target(k), c = Backspace, k = 1,
             TERM_READ_FLAG[disp_term] = 1, backspace_char(disp_term)
      PROVE  PutOutcome(c, k)
  <2>1. ENTER_FLAG' \in [Terms -> {0, 1}]
    BY <1>5 DEF TypeInv, backspace_char
  <2>2. /\ LineType' /\ FirstInv' /\ Shrinks(disp_term)
        /\ \A u \in Terms \ {disp_term} : Same(u)
    BY <1>1, <1>5, BackspaceFact
  <2>3. QED
    BY <1>2, <1>5, <2>1, <2>2 DEF PutOutcome
<1>6. ASSUME NEW t \in Target(k), c # LF, ~Erases(c, k), all_char(t, c)
      PROVE  PutOutcome(c, k)
  <2>1. ENTER_FLAG' \in [Terms -> {0, 1}]
    BY <1>6 DEF TypeInv, all_char
  <2>2. LineType' /\ FirstInv' /\ Grows(t, c) /\ \A u \in Terms \ {t} : Same(u)
    BY <1>1, <1>6, CharFact
  <2>3. QED
    BY <1>2, <1>6, <2>1, <2>2 DEF PutOutcome
<1>7. QED
  BY <1>3, <1>4, <1>5, <1>6 DEF terminal_putc, Erases

-----------------------------------------------------------------------------
LineInv == FirstInv /\ LengthInv /\ ContentInv

\* The running thread goes on outside the loop of an output: lines stay.
LEMMA QuietLines ==
  ASSUME IndInv, NEW l \in Locations, Goto(l),
         pc[curr_term] # "loop", l # "loop",
         UNCHANGED <<lineVars, disturbed>>,
         \A t \in Terms \ {curr_term} : out'[t] = out[t]
  PROVE  LineInv'
<1>1. \A t \in Terms : pc'[t] = IF t = curr_term THEN l ELSE pc[t]
  BY DEF IndInv, TypeInv, Goto
<1>2. LengthInv'
  BY <1>1 DEF IndInv, LengthInv, lineVars
<1>3. QED
  BY <1>2 DEF IndInv, LineInv, FirstInv, ContentInv, lineVars

\* The running terminal's line is reset.
LEMMA ResetLines ==
  ASSUME IndInv, NEW b \in BOOLEAN, ResetBuffer(b), UNCHANGED out,
         \A t \in Terms \ {curr_term} : pc'[t] = pc[t]
  PROVE  LineType' /\ disturbed' \in [Terms -> BOOLEAN] /\ LineInv'
<1>1. EmptyLines \in [Memory -> Characters] /\ \A i \in Memory : EmptyLines[i] = NUL
  BY CharactersFact DEF EmptyLines
<1>2. LineType' /\ disturbed' \in [Terms -> BOOLEAN]
  BY <1>1 DEF IndInv, TypeInv, LineType, ResetBuffer
<1>3. /\ curr_idx'[curr_term] = 0 /\ input_buffer'[curr_term] = EmptyLines
      /\ \A t \in Terms \ {curr_term} :
           Same(t) /\ disturbed'[t] = disturbed[t]
  BY DEF IndInv, TypeInv, ResetBuffer, Same
<1>4. FirstInv' /\ ContentInv'
  BY <1>1, <1>3 DEF IndInv, FirstInv, ContentInv, Same
<1>5. LengthInv'
  <2>1. \A t \in Terms : out[t].n \in Nat
    BY DEF IndInv, OutInv, OutputType
  <2>2. 0 <= L /\ InWrite(0) /\ \A n \in Nat : InPrintf(0, n)
    BY LengthFact, ModFact
  <2>3. QED
    BY <1>3, <2>1, <2>2 DEF IndInv, LengthInv, Same
<1>6. QED
  BY <1>2, <1>4, <1>5 DEF LineInv

\* The flags when the running thread goes on.
LEMMA FlagStep ==
  ASSUME TypeInv, FlagInv, NEW l \in Locations, Goto(l), UNCHANGED curr_term,
         TERM_READ_FLAG' = SetFlag(TERM_READ_FLAG, IF l \in Reading THEN 1 ELSE 0),
         TERM_WRITE_FLAG' = SetFlag(TERM_WRITE_FLAG, IF l \in Writing THEN 1 ELSE 0)
  PROVE  /\ pc' \in [Terms -> Locations]
         /\ TERM_READ_FLAG' \in [Terms -> {0, 1}]
         /\ TERM_WRITE_FLAG' \in [Terms -> {0, 1}]
         /\ FlagInv'
BY DEF TypeInv, FlagInv, Goto, SetFlag

\* ... and leaves them alone.
LEMMA FlagStay ==
  ASSUME TypeInv, FlagInv, NEW l \in Locations, Goto(l),
         UNCHANGED <<TERM_READ_FLAG, TERM_WRITE_FLAG>>,
         pc[curr_term] \in Reading <=> l \in Reading,
         pc[curr_term] \in Writing <=> l \in Writing
  PROVE  pc' \in [Terms -> Locations] /\ FlagInv'
BY DEF TypeInv, FlagInv, Goto

\* The output under way is another's.
LEMMA OutStay ==
  ASSUME IndInv, NEW l \in Locations, Goto(l), UNCHANGED out,
         l \notin {"first", "loop", "putc"}
  PROVE  OutInv'
BY DEF IndInv, TypeInv, OutInv, Goto

-----------------------------------------------------------------------------
\* terminal_read.
LEMMA ReadStep == IndInv /\ (ReadCall \/ ReadSteps) => IndInv'
<1> SUFFICES ASSUME IndInv, ReadCall \/ ReadSteps PROVE IndInv'
  OBVIOUS
<1> USE DEF At
<1>1. CASE ReadCall
  <2>1. Goto("r_enter") /\ pc[curr_term] = "user"
    BY <1>1 DEF ReadCall
  <2>2. /\ pc' \in [Terms -> Locations] /\ FlagInv'
        /\ TERM_READ_FLAG' \in [Terms -> {0, 1}]
        /\ TERM_WRITE_FLAG' \in [Terms -> {0, 1}]
    BY <1>1, <2>1, FlagStep DEF IndInv, ReadCall, Locations, Reading, Writing
  <2>3. LineInv' /\ OutInv'
    BY <1>1, <2>1, QuietLines, OutStay DEF ReadCall, Locations, history
  <2>4. QED
    BY <1>1, <2>2, <2>3
    DEF ReadCall, IndInv, TypeInv, LineInv, lineVars, history
<1>2. CASE ReadClearEnter
  <2>1. Goto("r_reset") /\ pc[curr_term] = "r_enter"
    BY <1>2 DEF ReadClearEnter
  <2>2. pc' \in [Terms -> Locations] /\ FlagInv'
    BY <1>2, <2>1, FlagStay
    DEF IndInv, ReadClearEnter, Locations, Reading, Writing
  <2>3. LineInv' /\ OutInv'
    BY <1>2, <2>1, QuietLines, OutStay DEF ReadClearEnter, Locations, history
  <2>4. ENTER_FLAG' \in [Terms -> {0, 1}]
    BY <1>2 DEF IndInv, TypeInv, ReadClearEnter, SetFlag
  <2>5. QED
    BY <1>2, <2>2, <2>3, <2>4
    DEF ReadClearEnter, IndInv, TypeInv, LineInv, lineVars, history
<1>3. CASE ReadReset
  <2>1. Goto("r_wait") /\ pc[curr_term] = "r_reset"
    BY <1>3 DEF ReadReset
  <2>2. pc' \in [Terms -> Locations] /\ FlagInv'
    BY <1>3, <2>1, FlagStay
    DEF IndInv, ReadReset, flagVars, Locations, Reading, Writing
  <2>3. LineType' /\ disturbed' \in [Terms -> BOOLEAN] /\ LineInv'
    BY <1>3, <2>1, ResetLines DEF IndInv, TypeInv, ReadReset, Goto
  <2>4. OutInv'
    BY <1>3, <2>1, OutStay DEF ReadReset, Locations
  <2>5. QED
    BY <1>3, <2>2, <2>3, <2>4
    DEF ReadReset, IndInv, TypeInv, LineInv, LineType, flagVars
<1>4. CASE ReadWake
  <2>1. Goto("r_copy") /\ pc[curr_term] = "r_wait"
    BY <1>4 DEF ReadWake
  <2>2. pc' \in [Terms -> Locations] /\ FlagInv'
    BY <1>4, <2>1, FlagStay
    DEF IndInv, ReadWake, flagVars, Locations, Reading, Writing
  <2>3. LineInv' /\ OutInv'
    BY <1>4, <2>1, QuietLines, OutStay DEF ReadWake, Locations, history
  <2>4. QED
    BY <1>4, <2>2, <2>3
    DEF ReadWake, IndInv, TypeInv, LineInv, lineVars, flagVars, history
<1>5. CASE ReadCopy
  <2>1. Goto("r_end") /\ pc[curr_term] = "r_copy"
    BY <1>5 DEF ReadCopy
  <2>2. pc' \in [Terms -> Locations] /\ FlagInv'
    BY <1>5, <2>1, FlagStay
    DEF IndInv, ReadCopy, flagVars, Locations, Reading, Writing
  <2>3. LineType' /\ disturbed' \in [Terms -> BOOLEAN] /\ LineInv'
    BY <1>5, <2>1, ResetLines DEF IndInv, TypeInv, ReadCopy, Goto
  <2>4. OutInv'
    BY <1>5, <2>1, OutStay DEF ReadCopy, Locations
  <2>5. buf' \in [Terms -> CallType]
    <3>1. PICK nbytes \in Sizes :
            buf' = [buf EXCEPT ![curr_term] =
                     [nbytes |-> nbytes,
                      data |-> [i \in 1 .. CopyLength(disp_term, nbytes) |->
                                  input_buffer[disp_term][L + i - 1]]]]
      BY <1>5 DEF ReadCopy
    <3> DEFINE n == CopyLength(disp_term, nbytes)
               data == [i \in 1 .. n |-> input_buffer[disp_term][L + i - 1]]
    <3>2. n \in 0 .. L
      BY CopyFact, SizesAssumption
    <3> HIDE DEF n
    <3>3. \A i \in 1 .. n : L + i - 1 \in Memory
      BY <3>2, LineAssumption DEF Memory
    <3>4. data \in Seq(Characters)
      <4>1. \A i \in 1 .. n : input_buffer[disp_term][L + i - 1] \in Characters
        BY <3>3 DEF IndInv, TypeInv
      <4>2. n \in Nat
        BY <3>2, LineAssumption
      <4>3. QED
        BY <4>1, <4>2
    <3> HIDE DEF data
    <3>5. buf' = [buf EXCEPT ![curr_term] = [nbytes |-> nbytes, data |-> data]]
      BY <3>1 DEF n, data
    <3>6. QED
      BY <3>4, <3>5 DEF IndInv, TypeInv, CallType
  <2>6. QED
    BY <1>5, <2>2, <2>3, <2>4, <2>5
    DEF ReadCopy, IndInv, TypeInv, LineInv, LineType, flagVars
<1>6. CASE ReadEnd
  <2>1. Goto("user") /\ pc[curr_term] = "r_end"
    BY <1>6 DEF ReadEnd
  <2>2. TERM_WRITE_FLAG' = SetFlag(TERM_WRITE_FLAG, 0)
    BY <1>6, <2>1 DEF IndInv, TypeInv, FlagInv, ReadEnd, SetFlag, Writing
  <2>3. /\ pc' \in [Terms -> Locations] /\ FlagInv'
        /\ TERM_READ_FLAG' \in [Terms -> {0, 1}]
        /\ TERM_WRITE_FLAG' \in [Terms -> {0, 1}]
    BY <1>6, <2>1, <2>2, FlagStep DEF IndInv, ReadEnd, Locations, Reading, Writing
  <2>4. LineInv' /\ OutInv'
    BY <1>6, <2>1, QuietLines, OutStay DEF ReadEnd, Locations, history
  <2>5. ENTER_FLAG' \in [Terms -> {0, 1}] /\ buf' \in [Terms -> CallType]
    <3>1. NoCall \in CallType
      BY DEF NoCall, CallType
    <3>2. QED
      BY <1>6, <3>1 DEF IndInv, TypeInv, ReadEnd
  <2>6. QED
    BY <1>6, <2>3, <2>4, <2>5
    DEF ReadEnd, IndInv, TypeInv, LineInv, lineVars, history
<1>7. QED
  BY <1>1, <1>2, <1>3, <1>4, <1>5, <1>6 DEF ReadSteps

-----------------------------------------------------------------------------
\* terminal_write and terminal_printf.
LEMMA MsgFact ==
  ASSUME OutInv, NEW t \in Terms
  PROVE  /\ out[t].n \in Nat /\ Len(out[t].msg) \in Nat
         /\ out[t].n # Len(out[t].msg) => out[t].n + 1 <= Len(out[t].msg)
<1>1. out[t].msg \in Outputs \cup {<<>>} /\ out[t].n \in Nat
  BY DEF OutInv, OutputType
<1>2. <<>> \in Seq(BOOLEAN)
  OBVIOUS
<1>3. out[t].msg \in Seq(BOOLEAN)
  BY <1>1, <1>2, OutputsAssumption
<1>4. Len(out[t].msg) \in Nat /\ out[t].n <= Len(out[t].msg)
  BY <1>3 DEF OutInv
<1>5. QED
  BY <1>1, <1>4

LEMMA CallStep ==
  ASSUME IndInv, NEW call \in {"write", "printf"}, Output(call)
  PROVE  IndInv'
<1>1. Goto("first") /\ pc[curr_term] = "user"
  BY DEF Output, At
<1>2. /\ pc' \in [Terms -> Locations] /\ FlagInv'
      /\ TERM_READ_FLAG' \in [Terms -> {0, 1}]
      /\ TERM_WRITE_FLAG' \in [Terms -> {0, 1}]
  BY <1>1, FlagStep DEF IndInv, Output, Locations, Reading, Writing
<1>3. PICK m \in Outputs :
        out' = [out EXCEPT ![curr_term] =
                 [msg |-> m, n |-> 0, call |-> call,
                  saved |-> <<TERM_READ_FLAG[curr_term],
                              TERM_WRITE_FLAG[curr_term]>>]]
  BY DEF Output
<1>4. TERM_READ_FLAG[curr_term] = 0 /\ TERM_WRITE_FLAG[curr_term] = 0
  BY <1>1 DEF IndInv, TypeInv, FlagInv, Reading, Writing
<1>5. OutInv'
  <2>1. Len(m) \in Nat
    BY OutputsAssumption
  <2>2. [msg |-> m, n |-> 0, call |-> call, saved |-> <<0, 0>>] \in OutputType
    BY DEF OutputType
  <2>3. out' \in [Terms -> OutputType]
    BY <1>3, <1>4, <2>2 DEF IndInv, OutInv
  <2>4. \A t \in Terms :
          /\ pc'[t] = IF t = curr_term THEN "first" ELSE pc[t]
          /\ out'[t] = IF t = curr_term
                       THEN [msg |-> m, n |-> 0, call |-> call, saved |-> <<0, 0>>]
                       ELSE out[t]
    BY <1>1, <1>3, <1>4 DEF IndInv, TypeInv, OutInv, Goto
  <2>5. QED
    BY <2>1, <2>3, <2>4 DEF IndInv, OutInv
<1>6. LineInv'
  <2>1. \A t \in Terms \ {curr_term} : out'[t] = out[t]
    BY <1>3 DEF IndInv, OutInv
  <2>2. QED
    BY <1>1, <2>1, QuietLines DEF Output, Locations, history
<1>7. QED
  BY <1>2, <1>5, <1>6 DEF Output, IndInv, TypeInv, LineInv, lineVars, history

LEMMA OutputResetStep == IndInv /\ (OutputReset \/ OutputLast) => IndInv'
<1> SUFFICES ASSUME IndInv, OutputReset \/ OutputLast PROVE IndInv'
  OBVIOUS
<1> DEFINE l == IF OutputReset THEN "putc" ELSE "last"
<1>1. /\ Goto(l) /\ pc[curr_term] \in {"first", "loop"} /\ l \in {"putc", "last"}
      /\ l = "putc" => ~OutputDone
      /\ ResetBuffer(FALSE)
      /\ UNCHANGED <<curr_term, disp_term, flagVars, out, buf, kb>>
  BY DEF OutputReset, OutputLast, At
<1> HIDE DEF l
<1>2. pc' \in [Terms -> Locations] /\ FlagInv'
  <2>1. l \in Locations
    BY <1>1 DEF Locations
  <2>2. QED
    BY <1>1, <2>1, FlagStay DEF IndInv, flagVars, Reading, Writing
<1>3. \A t \in Terms : pc'[t] = IF t = curr_term THEN l ELSE pc[t]
  BY <1>1 DEF IndInv, TypeInv, Goto
<1>4. LineType' /\ disturbed' \in [Terms -> BOOLEAN] /\ LineInv'
  BY <1>1, <1>3, ResetLines
<1>5. OutInv'
  <2>1. l = "putc" => out[curr_term].n < Len(out[curr_term].msg)
    <3>1. curr_term \in Terms
      BY DEF IndInv, TypeInv
    <3>2. QED
      BY <1>1, <3>1, MsgFact DEF IndInv, OutputDone
  <2>2. QED
    BY <1>1, <1>3, <2>1 DEF IndInv, OutInv
<1>6. QED
  BY <1>1, <1>2, <1>4, <1>5 DEF IndInv, TypeInv, LineInv, LineType, flagVars

LEMMA OutputEndStep == IndInv /\ OutputEnd => IndInv'
<1> SUFFICES ASSUME IndInv, OutputEnd PROVE IndInv'
  OBVIOUS
<1>1. Goto("user") /\ pc[curr_term] = "last"
  BY DEF OutputEnd, At
<1>2. /\ TERM_READ_FLAG' = SetFlag(TERM_READ_FLAG, 0)
      /\ TERM_WRITE_FLAG' = SetFlag(TERM_WRITE_FLAG, 0)
  <2>1. TERM_READ_FLAG = SetFlag(TERM_READ_FLAG, 0)
    BY <1>1 DEF IndInv, TypeInv, FlagInv, SetFlag, Reading
  <2>2. out[curr_term].saved[1] = 0 /\ out[curr_term].saved[2] = 0
    BY DEF IndInv, TypeInv, OutInv, OutputType
  <2>3. QED
    BY <2>1, <2>2 DEF OutputEnd
<1>3. /\ pc' \in [Terms -> Locations] /\ FlagInv'
      /\ TERM_READ_FLAG' \in [Terms -> {0, 1}]
      /\ TERM_WRITE_FLAG' \in [Terms -> {0, 1}]
  BY <1>1, <1>2, FlagStep DEF IndInv, OutputEnd, Locations, Reading, Writing
<1>4. /\ out' \in [Terms -> OutputType]
      /\ \A t \in Terms : out'[t] = IF t = curr_term THEN NoOutput ELSE out[t]
  BY DEF IndInv, TypeInv, OutInv, OutputEnd, NoOutput, OutputType
<1>5. OutInv'
  <2>1. \A t \in Terms : pc'[t] = IF t = curr_term THEN "user" ELSE pc[t]
    BY <1>1 DEF IndInv, TypeInv, Goto
  <2>2. QED
    BY <1>4, <2>1 DEF IndInv, OutInv, NoOutput
<1>6. LineInv'
  BY <1>1, <1>4, QuietLines DEF OutputEnd, Locations, history
<1>7. QED
  BY <1>3, <1>5, <1>6 DEF OutputEnd, IndInv, TypeInv, LineInv, lineVars, history

\* Only a terminal whose line ends is told that Enter was typed.
LEMMA EnterFact ==
  ASSUME ENTER_FLAG \in [Terms -> {0, 1}], NEW c, NEW k, terminal_putc(c, k),
         NEW t \in Terms, t \notin Target(k)
  PROVE  ENTER_FLAG'[t] = ENTER_FLAG[t]
BY DEF terminal_putc, new_line_char, backspace_char, all_char

\* An output under way does not touch the line of another terminal, or that one
\* is disturbed.
LEMMA OtherLines ==
  ASSUME IndInv, OutputChar, NEW t \in Terms \ {curr_term}, ~disturbed'[t]
  PROVE  Same(t) /\ ENTER_FLAG'[t] = ENTER_FLAG[t] /\ ~disturbed[t]
<1> DEFINE k == char_from_KB
           o == out[curr_term]
           c == IF o.msg[o.n + 1] THEN LF ELSE Letter(curr_term)
<1>1. /\ pc[curr_term] \in Writing
      /\ terminal_putc(c, k)
      /\ disturbed' = IF k = 1 /\ disp_term # curr_term
                      THEN [disturbed EXCEPT ![disp_term] = TRUE] ELSE disturbed
  BY DEF OutputChar, At, Writing
<1>2. curr_term \in Terms /\ k \in {0, 1}
  BY DEF IndInv, TypeInv
<1>3. c \in Characters \ {NUL}
  BY <1>2 DEF Characters, Letter, LF, NUL, Terms
<1>4. PutOutcome(c, k)
  BY <1>1, <1>2, <1>3, PutFact DEF IndInv
<1>5. ~disturbed[t] /\ ~(t = disp_term /\ k = 1)
  BY <1>1 DEF IndInv, TypeInv
<1>6. t \notin Target(k)
  BY <1>1, <1>2, <1>5, TargetFact DEF IndInv
<1>7. ENTER_FLAG'[t] = ENTER_FLAG[t]
  BY <1>1, <1>6, EnterFact DEF IndInv, TypeInv
<1> HIDE DEF c, k
<1>8. QED
  BY <1>4, <1>5, <1>6, <1>7 DEF PutOutcome

\* A character is put out.  The line of its terminal stays within the bound of
\* the call, and if the character is another's the line is disturbed.
LEMMA OutputCharStep == IndInv /\ OutputChar => IndInv'
<1> SUFFICES ASSUME IndInv, OutputChar PROVE IndInv'
  OBVIOUS
<1> DEFINE t0 == curr_term
           k == char_from_KB
           o == out[t0]
           c == IF o.msg[o.n + 1] THEN LF ELSE Letter(t0)
<1>1. /\ pc[t0] \in {"first", "loop", "putc"} /\ Goto("loop")
      /\ pc[t0] # "putc" => ~OutputDone /\ ~LineFull
      /\ terminal_putc(c, k)
      /\ out' = [out EXCEPT ![t0].n = @ + 1]
      /\ disturbed' = IF k = 1 /\ disp_term # t0
                      THEN [disturbed EXCEPT ![disp_term] = TRUE] ELSE disturbed
      /\ UNCHANGED <<curr_term, disp_term, TERM_READ_FLAG, TERM_WRITE_FLAG, buf, kb>>
  BY DEF OutputChar, At
<1>2. t0 \in Terms /\ disp_term \in Terms /\ k \in {0, 1}
  BY DEF IndInv, TypeInv
<1>3. c \in Characters \ {NUL} /\ c \in {LF, Letter(t0)}
  BY <1>2 DEF Characters, Letter, LF, NUL, Terms
<1>4. PutOutcome(c, k)
  BY <1>1, <1>2, <1>3, PutFact DEF IndInv
<1>5. pc' \in [Terms -> Locations] /\ FlagInv'
  BY <1>1, FlagStay DEF IndInv, Locations, Reading, Writing
<1>6. \A t \in Terms : pc'[t] = IF t = t0 THEN "loop" ELSE pc[t]
  BY <1>1 DEF IndInv, TypeInv, Goto
<1>7. /\ out' \in [Terms -> OutputType]
      /\ \A t \in Terms \ {t0} : out'[t] = out[t]
      /\ out'[t0].n = out[t0].n + 1
      /\ out'[t0].msg = out[t0].msg /\ out'[t0].call = out[t0].call
  BY <1>1, <1>2 DEF IndInv, OutInv, OutputType
<1>8. OutInv'
  <2>1. out[t0].n + 1 <= Len(out[t0].msg)
    BY <1>1, <1>2, MsgFact DEF IndInv, OutInv, OutputDone
  <2>2. out[t0].call # "none"
    BY <1>1, <1>2 DEF IndInv, OutInv
  <2>3. QED
    BY <1>6, <1>7, <2>1, <2>2 DEF IndInv, OutInv
<1>9. disturbed' \in [Terms -> BOOLEAN]
      /\ \A t \in Terms : ~disturbed'[t] => ~disturbed[t]
  BY <1>1, <1>2 DEF IndInv, TypeInv
<1>10. \A t \in Terms \ {t0} : disturbed'[t] \/ Same(t)
  BY OtherLines
<1>11. Same(t0) \/ (c # LF /\ Grows(t0, c)) \/ Ends(t0)
  <2>1. TERM_READ_FLAG[t0] = 0
    BY <1>1, <1>2 DEF IndInv, FlagInv, Reading
  <2>2. QED
    BY <1>2, <1>4, <2>1 DEF PutOutcome
<1> HIDE DEF c, k, o
<1>12. ContentInv'
  <2>1. ASSUME NEW t \in Terms, ~disturbed'[t], t # t0, NEW i \in Memory
        PROVE  input_buffer'[t][i] \in {NUL, LF, Backspace, Letter(t)}
    BY <1>9, <1>10, <2>1 DEF IndInv, ContentInv, Same
  <2>2. ASSUME ~disturbed'[t0], NEW i \in Memory
        PROVE  input_buffer'[t0][i] \in {NUL, LF, Backspace, Letter(t0)}
    BY <1>2, <1>3, <1>9, <1>11, <2>2
    DEF IndInv, ContentInv, Same, Grows, Ends
  <2>3. QED
    BY <2>1, <2>2 DEF ContentInv
<1>13. LengthInv'
  <2>1. ASSUME NEW t \in Terms, ~disturbed'[t], t # t0
        PROVE  IF pc'[t] # "loop" THEN curr_idx'[t] <= L
               ELSE IF out'[t].call = "write" THEN InWrite(curr_idx'[t])
               ELSE InPrintf(curr_idx'[t], out'[t].n)
    BY <1>6, <1>7, <1>9, <1>10, <2>1 DEF IndInv, LengthInv, Same
  <2>2. ASSUME ~disturbed'[t0], out[t0].call = "write"
        PROVE  InWrite(curr_idx'[t0])
    <3>1. curr_idx[t0] \in Nat /\ ~disturbed[t0]
      BY <1>2, <1>9, <2>2 DEF IndInv, TypeInv
    <3>2. curr_idx'[t0] \in {0, curr_idx[t0], curr_idx[t0] + 1}
      BY <1>11 DEF Same, Grows, Ends
    <3>3. CASE pc[t0] = "loop"
      <4>1. InWrite(curr_idx[t0])
        BY <1>2, <2>2, <3>1, <3>3 DEF IndInv, LengthInv
      <4>2. curr_idx[t0] % L # L - 1
        BY <1>1, <2>2, <3>3 DEF LineFull
      <4>3. QED
        BY <3>1, <3>2, <4>1, <4>2, LengthFact, ModFact
    <3>4. CASE pc[t0] # "loop"
      <4>1. curr_idx[t0] \in 0 .. L
        <5>1. curr_idx[t0] <= L
          BY <1>2, <3>1, <3>4 DEF IndInv, LengthInv
        <5>2. QED
          BY <3>1, <5>1, LineAssumption
      <4>2. QED
        <5>1. 0 \in 0 .. L
          BY ModFact
        <5>2. QED
          BY <3>2, <4>1, <5>1, LengthFact
    <3>5. QED
      BY <3>3, <3>4
  <2>3. ASSUME ~disturbed'[t0], out[t0].call # "write"
        PROVE  InPrintf(curr_idx'[t0], out[t0].n + 1)
    <3>1. curr_idx[t0] \in Nat /\ ~disturbed[t0] /\ out[t0].n \in Nat
      BY <1>2, <1>9, <2>3, MsgFact DEF IndInv, TypeInv
    <3>2. curr_idx'[t0] \in {0, curr_idx[t0], curr_idx[t0] + 1}
      BY <1>11 DEF Same, Grows, Ends
    <3>3. CASE pc[t0] = "loop"
      <4>1. InPrintf(curr_idx[t0], out[t0].n)
        BY <1>2, <2>3, <3>1, <3>3 DEF IndInv, LengthInv
      <4>2. out[t0].n % L # L - 1
        BY <1>1, <2>3, <3>3 DEF LineFull
      <4>3. InPrintf(curr_idx[t0] + 1, out[t0].n + 1)
        BY <3>1, <4>1, <4>2, LengthFact
      <4>4. curr_idx'[t0] \in Nat /\ curr_idx'[t0] <= curr_idx[t0] + 1
        BY <3>1, <3>2
      <4>5. (out[t0].n + 1) % L \in 0 .. L - 1
        BY <3>1, ModFact
      <4>6. QED
        BY <3>1, <4>3, <4>4, <4>5, ModFact DEF InPrintf
    <3>4. CASE pc[t0] # "loop"
      <4>1. curr_idx[t0] \in 0 .. L
        <5>1. curr_idx[t0] <= L
          BY <1>2, <3>1, <3>4 DEF IndInv, LengthInv
        <5>2. QED
          BY <3>1, <5>1, LineAssumption
      <4>2. out[t0].n + 1 \in Nat /\ 0 \in 0 .. L
        BY <3>1, ModFact
      <4>3. QED
        BY <3>2, <4>1, <4>2, LengthFact
    <3>5. QED
      BY <3>3, <3>4
  <2>4. QED
    BY <1>2, <1>6, <1>7, <2>1, <2>2, <2>3 DEF LengthInv
<1>14. QED
  BY <1>1, <1>4, <1>5, <1>8, <1>9, <1>12, <1>13
  DEF IndInv, TypeInv, PutOutcome, LineType

-----------------------------------------------------------------------------
\* A key: its character goes to the terminal on the screen, or nowhere.
LEMMA KeyStep ==
  ASSUME IndInv, NEW c \in {Letter(disp_term), LF, Backspace}, Key(c)
  PROVE  IndInv'
<1>1. disp_term \in Terms
  BY DEF IndInv, TypeInv
<1>2. c \in Characters \ {NUL}
  BY <1>1 DEF Characters, Letter, LF, Backspace, NUL, Terms
<1>3. /\ terminal_putc(c, 1)
      /\ UNCHANGED <<curr_term, disp_term, TERM_READ_FLAG, TERM_WRITE_FLAG,
                     pc, out, buf, disturbed>>
      /\ kb' = [kb EXCEPT ![curr_term] = "k_end"]
      /\ c \notin {LF, Backspace} => curr_idx[disp_term] < MAX_LINE
      /\ c = Backspace => TERM_READ_FLAG[disp_term] = 1
  <2>1. Letter(disp_term) \notin {LF, Backspace} /\ LF # Backspace
    BY <1>1 DEF Letter, LF, Backspace, Terms
  <2>2. QED
    BY <2>1 DEF Key, Handler, threadVars
<1>4. PutOutcome(c, 1)
  BY <1>2, <1>3, PutFact DEF IndInv
<1>5. \A t \in Terms \ {disp_term} : Same(t)
  BY <1>4, TargetFact DEF PutOutcome, IndInv
<1>6. \/ Same(disp_term) \/ Ends(disp_term)
      \/ c # LF /\ c # Backspace /\ Grows(disp_term, c)
      \/ TERM_READ_FLAG[disp_term] = 1 /\ Shrinks(disp_term)
  BY <1>1, <1>3, <1>4 DEF PutOutcome, Erases
<1>7. ContentInv'
  <2>1. ASSUME NEW t \in Terms, ~disturbed'[t], t # disp_term, NEW i \in Memory
        PROVE  input_buffer'[t][i] \in {NUL, LF, Backspace, Letter(t)}
    BY <1>3, <1>5, <2>1 DEF IndInv, ContentInv, Same
  <2>2. ASSUME ~disturbed'[disp_term], NEW i \in Memory
        PROVE  input_buffer'[disp_term][i] \in
                 {NUL, LF, Backspace, Letter(disp_term)}
    BY <1>1, <1>3, <1>6, <2>2
    DEF IndInv, ContentInv, Same, Grows, Ends, Shrinks
  <2>3. QED
    BY <2>1, <2>2 DEF ContentInv
<1>8. LengthInv'
  <2>1. ASSUME NEW t \in Terms, ~disturbed'[t], Same(t)
        PROVE  IF pc'[t] # "loop" THEN curr_idx'[t] <= L
               ELSE IF out'[t].call = "write" THEN InWrite(curr_idx'[t])
               ELSE InPrintf(curr_idx'[t], out'[t].n)
    BY <1>3, <2>1 DEF IndInv, LengthInv, Same
  <2>2. ASSUME ~disturbed'[disp_term], ~Same(disp_term)
        PROVE  curr_idx'[disp_term] \in 0 .. L
    <3>1. curr_idx[disp_term] \in Nat /\ curr_idx'[disp_term] \in Nat
      BY <1>1, <1>4 DEF IndInv, TypeInv, PutOutcome, LineType
    <3>2. L \in Nat /\ MAX_LINE <= L /\ MAX_LINE \in Nat
      BY LineAssumption
    <3>3. CASE Ends(disp_term)
      BY <3>2, <3>3 DEF Ends
    <3>4. CASE TERM_READ_FLAG[disp_term] = 1 /\ Shrinks(disp_term)
      <4>1. pc[disp_term] # "loop"
        BY <1>1, <3>4 DEF IndInv, FlagInv, Reading
      <4>2. curr_idx[disp_term] <= L
        BY <1>1, <1>3, <2>2, <4>1 DEF IndInv, LengthInv
      <4>3. QED
        BY <3>1, <3>2, <3>4, <4>2 DEF Shrinks
    <3>5. CASE c # LF /\ c # Backspace /\ Grows(disp_term, c)
      <4>1. curr_idx[disp_term] < MAX_LINE
        BY <1>3, <3>5
      <4>2. QED
        BY <3>1, <3>2, <3>5, <4>1 DEF Grows
    <3>6. QED
      BY <1>6, <2>2, <3>3, <3>4, <3>5
  <2>3. QED
    <3>1. \A t \in Terms : out[t].n \in Nat
      BY MsgFact DEF IndInv
    <3>2. \A i \in 0 .. L : i <= L /\ InWrite(i) /\ \A n \in Nat : InPrintf(i, n)
      BY LengthFact, LineAssumption
    <3>3. QED
      BY <1>1, <1>3, <1>5, <2>1, <2>2, <3>1, <3>2 DEF LengthInv
<1>9. FlagInv' /\ OutInv'
  BY <1>3 DEF IndInv, FlagInv, OutInv
<1>10. QED
  BY <1>3, <1>4, <1>7, <1>8, <1>9 DEF IndInv, TypeInv, PutOutcome, LineType

LEMMA ClearStep == IndInv /\ KeyClear => IndInv'
<1> SUFFICES ASSUME IndInv, KeyClear PROVE IndInv'
  OBVIOUS
<1>1. LineType' /\ disturbed' \in [Terms -> BOOLEAN] /\ LineInv'
  BY ResetLines DEF KeyClear, threadVars
<1>2. FlagInv' /\ OutInv'
  BY DEF KeyClear, threadVars, IndInv, FlagInv, OutInv
<1>3. QED
  BY <1>1, <1>2
  DEF KeyClear, Handler, threadVars, IndInv, TypeInv, LineInv, LineType

\* The handler's end, Alt+F, a tick, and a step that changes nothing.
LEMMA OtherSteps ==
  IndInv /\ (HandlerSteps \/ (\E t \in Terms : AltF(t) \/ Tick(t))
             \/ UNCHANGED vars) => IndInv'
<1> SUFFICES ASSUME IndInv,
                    HandlerSteps \/ (\E t \in Terms : AltF(t) \/ Tick(t))
                      \/ UNCHANGED vars
             PROVE  IndInv'
  OBVIOUS
<1> USE DEF HandlerSteps, ClearRest, KeyEnd, AltF, Tick, Handler, vars,
            lineVars, threadVars, history, flagVars
<1>1. UNCHANGED <<TERM_READ_FLAG, TERM_WRITE_FLAG, curr_idx, input_buffer, pc,
                  out, buf>>
  OBVIOUS
<1>2. /\ disturbed' \in [Terms -> BOOLEAN]
      /\ \A t \in Terms : ~disturbed'[t] => ~disturbed[t]
  BY DEF IndInv, TypeInv
<1>3. TypeInv'
  BY <1>1, <1>2 DEF IndInv, TypeInv
<1>4. FlagInv' /\ OutInv' /\ FirstInv'
  BY <1>1 DEF IndInv, FlagInv, OutInv, FirstInv
<1>5. LengthInv' /\ ContentInv'
  BY <1>1, <1>2 DEF IndInv, LengthInv, ContentInv
<1>6. QED
  BY <1>3, <1>4, <1>5 DEF IndInv

LEMMA InitInv == Init => IndInv
<1> SUFFICES ASSUME Init PROVE IndInv
  OBVIOUS
<1>1. 0 \in Terms
  BY NumTermsAssumption DEF Terms
<1>2. TypeInv
  BY <1>1, CharactersFact DEF Init, TypeInv, EmptyLines, Locations, NoCall, CallType
<1>3. OutInv
  BY DEF Init, OutInv, OutputType, NoOutput
<1>4. FlagInv /\ FirstInv /\ ContentInv
  BY DEF Init, FlagInv, FirstInv, ContentInv, Reading, Writing, EmptyLines
<1>5. LengthInv
  BY LineAssumption DEF Init, LengthInv
<1>6. QED
  BY <1>2, <1>3, <1>4, <1>5 DEF IndInv

LEMMA StepInv == IndInv /\ [Next]_vars => IndInv'
<1> SUFFICES ASSUME IndInv, [Next]_vars PROVE IndInv'
  OBVIOUS
<1>1. CASE ReadCall \/ ReadSteps
  BY <1>1, ReadStep
<1>2. CASE terminal_write \/ terminal_printf
  BY <1>2, CallStep DEF terminal_write, terminal_printf
<1>3. CASE OutputSteps
  BY <1>3, OutputResetStep, OutputCharStep, OutputEndStep DEF OutputSteps
<1>4. CASE Keys
  BY <1>4, KeyStep, ClearStep DEF Keys
<1>5. CASE HandlerSteps \/ (\E t \in Terms : AltF(t) \/ Tick(t))
             \/ UNCHANGED vars
  BY <1>5, OtherSteps
<1>6. QED
  BY <1>1, <1>2, <1>3, <1>4, <1>5 DEF Next, Calls

-----------------------------------------------------------------------------
\* IndInv holds in every reachable state.
THEOREM Invariance == Spec => []IndInv
BY InitInv, StepInv, PTL DEF Spec

\* Every variable keeps its type, and an output under way never passes the end
\* of its message.
THEOREM TypeCorrect == Spec => []TypeOK
<1>1. IndInv => TypeOK
  <2> SUFFICES ASSUME IndInv PROVE TypeOK
    OBVIOUS
  <2>1. \A t \in Terms : /\ out[t].msg \in Outputs \cup {<<>>}
                         /\ out[t].n \in 0 .. Len(out[t].msg)
    <3>1. \A t \in Terms : out[t].n <= Len(out[t].msg)
      BY DEF IndInv, OutInv
    <3>2. QED
      BY <3>1, MsgFact DEF IndInv, OutInv, OutputType
  <2>2. QED
    BY <2>1 DEF IndInv, TypeInv, CallType, TypeOK
<1>2. QED
  BY <1>1, Invariance, PTL

\* No key and no output reaches another terminal's line or runs beyond the
\* line's memory, however reads, outputs, keys and switches are interleaved,
\* unless the line is disturbed.  (terminal.c:228, 360-467)
THEOREM LinesKeptApart == Spec => []LinesApart
<1>1. IndInv => LinesApart
  <2> SUFFICES ASSUME IndInv, NEW t \in Terms, ~disturbed[t]
               PROVE  /\ curr_idx[t] <= 2 * L
                      /\ \A i \in Memory :
                           input_buffer[t][i] \in {NUL, LF, Backspace, Letter(t)}
    BY DEF LinesApart
  <2>1. out[t].n \in Nat /\ curr_idx[t] \in Nat
    BY MsgFact DEF IndInv, TypeInv
  <2>2. curr_idx[t] <= L => curr_idx[t] <= 2 * L
    BY <2>1, LineAssumption
  <2>3. curr_idx[t] <= 2 * L
    BY <2>1, <2>2, LengthFact DEF IndInv, LengthInv
  <2>4. QED
    BY <2>3 DEF IndInv, ContentInv
<1>2. QED
  BY <1>1, Invariance, PTL

\* Whatever the flags of the terminal on the screen, what a program writes is
\* put into its own terminal's line.  (terminal.c:411-430)
THEOREM OutputReaches == Spec => OutputKept
<1> DEFINE Kept(t) ==
      out'[t].n = out[t].n + 1 /\ char_from_KB = 0 =>
         IF out[t].msg[out'[t].n]
         THEN curr_idx'[t] = 0 /\ input_buffer'[t][L] # NUL
         ELSE curr_idx'[t] = curr_idx[t] + 1
<1>1. ASSUME IndInv, [Next]_vars, NEW t \in Terms
      PROVE  Kept(t)
  <2>1. out[t].n \in Nat
    BY <1>1, MsgFact DEF IndInv
  <2>2. curr_term \in Terms
    BY <1>1 DEF IndInv, TypeInv
  <2>3. CASE OutputChar
    <3> DEFINE o == out[curr_term]
               c == IF o.msg[o.n + 1] THEN LF ELSE Letter(curr_term)
    <3>1. /\ pc[curr_term] \in Writing
          /\ terminal_putc(c, char_from_KB)
          /\ \A u \in Terms \ {curr_term} : out'[u] = out[u]
          /\ out'[curr_term].n = o.n + 1
      BY <1>1, <2>2, <2>3 DEF OutputChar, At, Writing, IndInv, OutInv, OutputType
    <3>2. CASE t = curr_term /\ char_from_KB = 0
      <4>1. c \in Characters \ {NUL} /\ (c = LF <=> o.msg[o.n + 1])
        BY <2>2 DEF Characters, Letter, LF, NUL, Terms
      <4>2. PutOutcome(c, 0)
        BY <1>1, <3>1, <3>2, <4>1, PutFact DEF IndInv
      <4>3. Target(0) = {t}
        BY <1>1, <3>1, <3>2, TargetFact DEF IndInv
      <4>4. IF c = LF THEN Ends(t) ELSE Grows(t, c)
        BY <4>2, <4>3 DEF PutOutcome
      <4>5. QED
        BY <3>1, <3>2, <4>1, <4>4 DEF Ends, Grows
    <3>3. QED
      BY <2>1, <3>1, <3>2
  <2>4. CASE \E call \in {"write", "printf"} : Output(call)
    <3>1. out'[t].n = 0 \/ out'[t] = out[t]
      BY <1>1, <2>2, <2>4 DEF Output, IndInv, OutInv
    <3>2. QED
      BY <2>1, <3>1
  <2>5. CASE OutputEnd
    <3>1. out'[t].n = 0 \/ out'[t] = out[t]
      BY <1>1, <2>2, <2>5 DEF OutputEnd, NoOutput, IndInv, OutInv
    <3>2. QED
      BY <2>1, <3>1
  <2>6. CASE UNCHANGED out
    BY <2>1, <2>6
  <2>7. QED
    BY <1>1, <2>3, <2>4, <2>5, <2>6
    DEF Next, Calls, terminal_write, terminal_printf, ReadCall, ReadSteps,
        ReadClearEnter, ReadReset, ReadWake, ReadCopy, ReadEnd, OutputSteps,
        OutputReset, OutputLast, Keys, Key, KeyClear, HandlerSteps, ClearRest,
        KeyEnd, AltF, Tick, threadVars, vars
<1>2. IndInv /\ [Next]_vars => [\A t \in Terms : Kept(t)]_vars
  BY <1>1
<1>3. QED
  BY <1>2, Invariance, PTL DEF Spec, OutputKept
-----------------------------------------------------------------------------
\* The line that a program waits for.  What its user sees grow is what
\* CURR_LINE holds, what was entered is at the beginning of ENTERED_LINE.  The
\* flag that ends the wait is not set before a line is entered, and from the end
\* of the wait to the copy the reader stays on the screen.
Text == Characters \ {NUL}

Awaits(t) == pc[t] \in {"r_wait", "r_copy"} /\ ~disturbed[t]

LineSeen(t) ==
  /\ curr_idx[t] = Len(typed[t])
  /\ \A i \in 1 .. Len(typed[t]) : input_buffer[t][i - 1] = typed[t][i]
  /\ \A i \in 1 .. Len(line[t]) :
       i <= L => input_buffer[t][L + i - 1] = line[t][i]

\* The wait is over, or can end.
Answered(t) == ENTER_FLAG[t] = 1 \/ pc[t] = "r_copy"

HistoryType ==
  /\ typed \in [Terms -> Seq(Text)] /\ line \in [Terms -> Seq(Text)]
  /\ early \in [Terms -> BOOLEAN]

ReadInv ==
  /\ HistoryType
  /\ \A t \in Terms : Awaits(t) => LineSeen(t)
  /\ \A t \in Terms : Awaits(t) /\ Answered(t) => line[t] # <<>> \/ early[t]
  /\ \A t \in Terms : Awaits(t) /\ pc[t] = "r_copy" => disp_term = t

\* A step that leaves the lines alone.
LEMMA QuietRead ==
  ASSUME ReadInv, UNCHANGED <<lineVars, typed, line, early>>,
         \A t \in Terms : Awaits(t)' =>
           Awaits(t) /\ (Answered(t)' => Answered(t)),
         \A t \in Terms : Awaits(t)' /\ pc'[t] = "r_copy" => disp_term' = t
  PROVE  ReadInv'
<1>1. HistoryType'
  BY DEF ReadInv, HistoryType
<1>2. \A t \in Terms : Awaits(t)' => LineSeen(t)'
  BY DEF ReadInv, LineSeen, lineVars
<1>3. \A t \in Terms : Awaits(t)' /\ Answered(t)' => line'[t] # <<>> \/ early'[t]
  BY DEF ReadInv
<1>4. QED
  BY <1>1, <1>2, <1>3 DEF ReadInv

\* The running terminal's line is reset: for a read that begins, or outside of
\* the reads that wait.
LEMMA ResetRead ==
  ASSUME TypeInv, ReadInv, NEW b \in BOOLEAN, ResetBuffer(b),
         UNCHANGED <<disp_term, ENTER_FLAG>>,
         \A t \in Terms \ {curr_term} : pc'[t] = pc[t],
         NEW a \in BOOLEAN, early' = [early EXCEPT ![curr_term] = a],
         \/ b \/ pc'[curr_term] \notin {"r_wait", "r_copy"}
         \/ pc'[curr_term] = "r_wait" /\ (ENTER_FLAG[curr_term] = 1 => a)
  PROVE  ReadInv'
<1>1. /\ curr_idx'[curr_term] = 0
      /\ typed'[curr_term] = <<>> /\ line'[curr_term] = <<>>
      /\ disturbed'[curr_term] = b /\ curr_term \in Terms
      /\ \A t \in Terms \ {curr_term} :
           Same(t) /\ disturbed'[t] = disturbed[t]
           /\ typed'[t] = typed[t] /\ line'[t] = line[t] /\ early'[t] = early[t]
  BY DEF TypeInv, ReadInv, HistoryType, ResetBuffer, Same
<1>2. HistoryType'
  <2>1. <<>> \in Seq(Text)
    OBVIOUS
  <2>2. QED
    BY <2>1 DEF ReadInv, HistoryType, ResetBuffer
<1>3. ASSUME NEW t \in Terms, t = curr_term PROVE LineSeen(t)'
  <2>1. curr_idx'[t] = 0 /\ typed'[t] = <<>> /\ line'[t] = <<>>
    BY <1>1, <1>3
  <2>2. Len(<<>>) = 0 /\ 1 .. 0 = {}
    OBVIOUS
  <2>3. QED
    BY <2>1, <2>2 DEF LineSeen
<1>4. ASSUME NEW t \in Terms \ {curr_term}, Awaits(t)'
      PROVE  Awaits(t) /\ LineSeen(t)'
  <2>1. Awaits(t) /\ LineSeen(t)
    BY <1>1, <1>4 DEF Awaits, ReadInv
  <2>2. QED
    BY <1>1, <2>1 DEF LineSeen, Same
<1>5. \A t \in Terms : Awaits(t)' => LineSeen(t)'
  BY <1>3, <1>4
<1>6. ASSUME NEW t \in Terms, Awaits(t)', pc'[t] = "r_copy" PROVE disp_term' = t
  <2>1. t # curr_term
    BY <1>1, <1>6 DEF Awaits
  <2>2. Awaits(t) /\ pc[t] = "r_copy"
    BY <1>4, <1>6, <2>1
  <2>3. QED
    BY <2>2 DEF ReadInv
<1>7. ASSUME NEW t \in Terms, Awaits(t)', Answered(t)'
      PROVE  line'[t] # <<>> \/ early'[t]
  <2>1. CASE t = curr_term
    <3>1. ~b /\ pc'[t] = "r_wait" /\ (ENTER_FLAG[t] = 1 => a) /\ early'[t] = a
      BY <1>1, <1>7, <2>1 DEF Awaits, ReadInv, HistoryType
    <3>2. QED
      BY <1>7, <3>1 DEF Answered
  <2>2. CASE t # curr_term
    <3>1. Awaits(t) /\ Answered(t)
      BY <1>4, <1>7, <2>2 DEF Answered
    <3>2. QED
      BY <1>1, <2>2, <3>1 DEF ReadInv
  <2>3. QED
    BY <2>1, <2>2
<1>8. QED
  BY <1>2, <1>5, <1>6, <1>7 DEF ReadInv

\* What is typed on a terminal that reads goes to its line.
LEMMA ReaderTarget ==
  ASSUME TypeInv, FlagInv, TERM_READ_FLAG[disp_term] = 1
  PROVE  Target(1) = {disp_term}
<1> DEFINE rd == TERM_READ_FLAG[disp_term]
           wd == TERM_WRITE_FLAG[disp_term]
           rc == TERM_READ_FLAG[curr_term]
           wc == TERM_WRITE_FLAG[curr_term]
<1>1. /\ rd = 1 /\ wd = 0
      /\ <<rc, wc>> \in {<<0, 0>>, <<0, 1>>, <<1, 0>>}
  BY DEF TypeInv, FlagInv, Reading, Writing
<1>2. Bitmap(1) = <<rd, wd, rc, wc, 1>>
  BY DEF Bitmap
<1> HIDE DEF rd, wd, rc, wc
<1>3. WriteFlag(1) = 1
  BY <1>1, <1>2 DEF WriteFlag, Ignored, ToDisplayed, ToRunning
<1>4. QED
  BY <1>1, <1>3 DEF Target, rd

\* The three effects of a key on the line of a terminal that reads.
LEMMA LetterSeen ==
  ASSUME NEW t \in Terms, TypeInv, HistoryType, LineSeen(t), curr_idx[t] < L,
         NEW c \in Text, all_char(t, c),
         typed' = [typed EXCEPT ![t] = Append(typed[t], c)], UNCHANGED line
  PROVE  LineSeen(t)'
<1> DEFINE s == typed[t]
           n == Len(s)
           e == line[t]
           m == Len(e)
<1>1. s \in Seq(Text) /\ e \in Seq(Text) /\ n \in Nat /\ m \in Nat
      /\ typed'[t] = Append(s, c) /\ line'[t] = e
  BY DEF HistoryType
<1>2. Len(Append(s, c)) = n + 1
      /\ \A i \in 1 .. n + 1 : Append(s, c)[i] = IF i = n + 1 THEN c ELSE s[i]
  BY <1>1
<1>3. /\ curr_idx'[t] = n + 1 /\ n < L
      /\ \A j \in Memory : input_buffer'[t][j] = IF j = n THEN c
                                                 ELSE input_buffer[t][j]
  BY DEF TypeInv, all_char, LineSeen
<1>4. /\ \A i \in 1 .. n + 1 : i - 1 \in Memory /\ (i - 1 = n <=> i = n + 1)
      /\ \A i \in 1 .. m : i <= L => L + i - 1 \in Memory /\ L + i - 1 # n
  BY <1>1, <1>3, LineAssumption DEF Memory
<1>5. /\ \A i \in 1 .. n : input_buffer[t][i - 1] = s[i]
      /\ \A i \in 1 .. m : i <= L => input_buffer[t][L + i - 1] = e[i]
  BY DEF LineSeen
<1> HIDE DEF s, n, e, m
<1>6. \A i \in 1 .. n + 1 : input_buffer'[t][i - 1] = Append(s, c)[i]
  <2>1. \A i \in 1 .. n + 1 : i = n + 1 \/ i \in 1 .. n
    BY <1>1 DEF n
  <2>2. QED
    BY <1>2, <1>3, <1>4, <1>5, <2>1
<1>7. \A i \in 1 .. m : i <= L => input_buffer'[t][L + i - 1] = e[i]
  BY <1>3, <1>4, <1>5
<1>8. QED
  BY <1>1, <1>2, <1>3, <1>6, <1>7 DEF LineSeen, m

LEMMA FrontFact ==
  ASSUME NEW S, NEW s \in Seq(S), s # <<>>
  PROVE  /\ Front(s) \in Seq(S) /\ Len(Front(s)) = Len(s) - 1
         /\ \A i \in 1 .. Len(s) - 1 : Front(s)[i] = s[i]
<1> DEFINE n == Len(s)
           m == n - 1
<1>1. n \in Nat /\ n # 0 /\ m \in Nat /\ m + 1 = n
  OBVIOUS
<1> HIDE DEF m
<1>2. /\ SubSeq(s, 1, m) \in Seq(S) /\ Len(SubSeq(s, 1, m)) = m
      /\ \A i \in 1 .. m : SubSeq(s, 1, m)[i] = s[i]
  BY <1>1
<1>3. QED
  BY <1>2 DEF Front, m

LEMMA EnterSeen ==
  ASSUME NEW t \in Terms, TypeInv, HistoryType, LineSeen(t), new_line_char(t),
         typed' = [typed EXCEPT ![t] = <<>>],
         line' = [line EXCEPT ![t] = Append(typed[t], LF)]
  PROVE  LineSeen(t)'
<1> DEFINE s == typed[t]
           n == Len(s)
           terminated == [input_buffer[t] EXCEPT ![n] = LF]
<1>1. s \in Seq(Text) /\ n \in Nat /\ typed'[t] = <<>> /\ line'[t] = Append(s, LF)
  BY DEF HistoryType
<1>2. Len(Append(s, LF)) = n + 1
      /\ \A i \in 1 .. n + 1 : Append(s, LF)[i] = IF i = n + 1 THEN LF ELSE s[i]
  BY <1>1, CharactersFact DEF Text, NUL, LF
<1>3. /\ curr_idx'[t] = 0
      /\ input_buffer'[t] = [i \in Memory |-> IF i >= L /\ i - L <= n
                                              THEN terminated[i - L] ELSE NUL]
  BY DEF TypeInv, new_line_char, LineSeen, Entered
<1>4. /\ \A j \in Memory : terminated[j] = IF j = n THEN LF ELSE input_buffer[t][j]
      /\ \A i \in 1 .. n : input_buffer[t][i - 1] = s[i]
  BY CharactersFact, StoreFact DEF TypeInv, LineSeen
<1> HIDE DEF s, n, terminated
<1>5. ASSUME NEW i \in 1 .. n + 1, i <= L
      PROVE  input_buffer'[t][L + i - 1] = Append(s, LF)[i]
  <2>1. /\ i - 1 \in Memory /\ L + i - 1 \in Memory /\ L + i - 1 >= L
        /\ L + i - 1 - L = i - 1 /\ i - 1 <= n
        /\ (i - 1 = n <=> i = n + 1) /\ (i = n + 1 \/ i \in 1 .. n)
    BY <1>1, <1>5, LineAssumption DEF Memory
  <2>2. input_buffer'[t][L + i - 1] = terminated[i - 1]
    <3> DEFINE j == L + i - 1
    <3>1. j \in Memory /\ j >= L /\ j - L = i - 1 /\ j - L <= n
      BY <1>1, <1>5, <2>1, LineAssumption
    <3> HIDE DEF j
    <3>2. input_buffer'[t][j] = terminated[j - L]
      BY <1>3, <3>1
    <3>3. QED
      BY <3>1, <3>2, Zenon DEF j
  <2>3. QED
    BY <1>2, <1>4, <2>1, <2>2
<1>6. Len(<<>>) = 0 /\ 1 .. 0 = {}
  OBVIOUS
<1>7. QED
  BY <1>1, <1>2, <1>3, <1>5, <1>6 DEF LineSeen

LEMMA BackspaceSeen ==
  ASSUME NEW t \in Terms, TypeInv, HistoryType, LineSeen(t), curr_idx[t] <= L,
         backspace_char(t), UNCHANGED line,
         typed' = [typed EXCEPT ![t] = IF typed[t] = <<>> THEN <<>>
                                       ELSE Front(typed[t])]
  PROVE  LineSeen(t)'
<1> DEFINE s == typed[t]
           n == Len(s)
           e == line[t]
           m == Len(e)
<1>1. s \in Seq(Text) /\ e \in Seq(Text) /\ n \in Nat /\ m \in Nat
      /\ (s = <<>> <=> n = 0)
      /\ typed'[t] = (IF s = <<>> THEN <<>> ELSE Front(s)) /\ line'[t] = e
  BY DEF HistoryType
<1>2. /\ \A i \in 1 .. n : input_buffer[t][i - 1] = s[i]
      /\ \A i \in 1 .. m : i <= L => input_buffer[t][L + i - 1] = e[i]
      /\ curr_idx[t] = n
  BY DEF LineSeen
<1>3. CASE n = 0
  <2>1. UNCHANGED lineVars
    BY <1>2, <1>3 DEF backspace_char
  <2>2. typed'[t] = s
    BY <1>1, <1>3
  <2>3. QED
    BY <1>1, <2>1, <2>2 DEF LineSeen, lineVars
<1>4. CASE n > 0
  <2>1. /\ curr_idx'[t] = n - 1
        /\ \A j \in Memory : input_buffer'[t][j] = IF j = n - 1 THEN NUL
                                                   ELSE input_buffer[t][j]
    BY <1>2, <1>4 DEF TypeInv, backspace_char
  <2>2. /\ typed'[t] = Front(s) /\ Len(Front(s)) = n - 1
        /\ \A i \in 1 .. n - 1 : Front(s)[i] = s[i]
    <3>1. s # <<>>
      BY <1>1, <1>4
    <3>2. QED
      BY <1>1, <3>1, FrontFact
  <2>3. /\ \A i \in 1 .. n - 1 : i \in 1 .. n /\ i - 1 \in Memory /\ i - 1 # n - 1
        /\ \A i \in 1 .. m : i <= L => L + i - 1 \in Memory /\ L + i - 1 # n - 1
    BY <1>1, <1>2, <1>4, LineAssumption DEF Memory
  <2> HIDE DEF s, n, e, m
  <2>4. \A i \in 1 .. n - 1 : input_buffer'[t][i - 1] = Front(s)[i]
    BY <1>2, <2>1, <2>2, <2>3
  <2>5. \A i \in 1 .. m : i <= L => input_buffer'[t][L + i - 1] = e[i]
    BY <1>2, <2>1, <2>3
  <2>6. QED
    BY <1>1, <2>1, <2>2, <2>4, <2>5 DEF LineSeen, m
<1>5. QED
  BY <1>1, <1>3, <1>4

\* A key is seen in the line of the terminal on the screen while that reads.
LEMMA KeyRead ==
  ASSUME IndInv, ReadInv, NEW c \in {Letter(disp_term), LF, Backspace}, Key(c)
  PROVE  ReadInv'
<1>1. PICK t \in Terms : t = disp_term
  BY DEF IndInv, TypeInv
<1> DEFINE s == typed[t]
           s2 == IF c = Backspace THEN IF s = <<>> THEN s ELSE Front(s)
                 ELSE IF c = LF THEN <<>> ELSE Append(s, c)
           seen == /\ TERM_READ_FLAG[t] = 1
                   /\ pc[t] # "r_end" /\ ~disturbed[t]
<1>2. /\ c \in Text /\ LF \in Text /\ Letter(t) \notin {LF, Backspace}
      /\ LF # Backspace
  BY <1>1 DEF Text, Characters, Letter, LF, Backspace, NUL, Terms
<1>3. /\ terminal_putc(c, 1)
      /\ UNCHANGED <<disp_term, pc, disturbed>>
      /\ c \in {LF, Backspace} \/ (c = Letter(t) /\ curr_idx[t] < MAX_LINE)
  BY <1>1, <1>2 DEF Key, threadVars
<1>4. IF seen
      THEN /\ typed' = [typed EXCEPT ![t] = s2]
           /\ line' = IF c = LF THEN [line EXCEPT ![t] = Append(s, LF)] ELSE line
      ELSE UNCHANGED <<typed, line>>
  BY <1>1 DEF Key, Typing
<1>5. UNCHANGED early
  BY DEF Key
<1>6. s \in Seq(Text) /\ HistoryType
  BY DEF ReadInv, HistoryType
<1>7. s2 \in Seq(Text) /\ Append(s, LF) \in Seq(Text)
  BY <1>2, <1>6, FrontFact
<1> HIDE DEF s2
<1>8. HistoryType'
  BY <1>4, <1>6, <1>7, <1>5 DEF HistoryType
<1>9. ASSUME NEW u \in Terms \ {t}, Awaits(u)
      PROVE  /\ LineSeen(u)'
             /\ ENTER_FLAG'[u] = ENTER_FLAG[u] /\ line'[u] = line[u]
  <2>1. Same(u) /\ ENTER_FLAG'[u] = ENTER_FLAG[u]
    <3>1. PutOutcome(c, 1)
      BY <1>2, <1>3, PutFact DEF IndInv, Text
    <3>2. u \notin Target(1)
      BY <1>1, TargetFact DEF IndInv
    <3>3. ENTER_FLAG'[u] = ENTER_FLAG[u]
      BY <1>3, <3>2, EnterFact DEF IndInv, TypeInv
    <3>4. QED
      BY <1>1, <3>1, <3>2, <3>3 DEF PutOutcome
  <2>2. typed'[u] = typed[u] /\ line'[u] = line[u]
    BY <1>4, <1>6 DEF HistoryType
  <2>3. LineSeen(u)
    BY <1>9 DEF ReadInv
  <2>4. QED
    BY <2>1, <2>2, <2>3 DEF LineSeen, Same
<1>10. ASSUME Awaits(t)
      PROVE  /\ LineSeen(t)'
             /\ line'[t] # <<>> \/ (UNCHANGED ENTER_FLAG /\ line'[t] = line[t])
  <2>1. TERM_READ_FLAG[t] = 1 /\ seen
    BY <1>10 DEF Awaits, IndInv, FlagInv, Reading
  <2>2. Target(1) = {t}
    BY <1>1, <2>1, ReaderTarget DEF IndInv
  <2>3. LineSeen(t) /\ TypeInv
    BY <1>10 DEF ReadInv, IndInv
  <2>4. curr_idx[t] <= L /\ curr_idx[t] \in Nat
    BY <1>10 DEF Awaits, IndInv, TypeInv, LengthInv
  <2>5. CASE c = LF
    <3>1. new_line_char(t)
      BY <1>2, <1>3, <2>2, <2>5 DEF terminal_putc
    <3>2. /\ typed' = [typed EXCEPT ![t] = <<>>]
          /\ line' = [line EXCEPT ![t] = Append(typed[t], LF)]
      BY <1>2, <1>4, <2>1, <2>5 DEF s2
    <3>3. line'[t] # <<>>
      BY <1>2, <1>6, <3>2 DEF HistoryType
    <3>4. QED
      BY <1>6, <2>3, <3>1, <3>2, <3>3, EnterSeen
  <2>6. CASE c = Backspace
    <3>1. backspace_char(t)
      BY <1>1, <1>2, <1>3, <2>1, <2>2, <2>6 DEF terminal_putc
    <3>2. /\ typed' = [typed EXCEPT ![t] = IF typed[t] = <<>> THEN <<>>
                                           ELSE Front(typed[t])]
          /\ UNCHANGED line
      BY <1>2, <1>4, <2>1, <2>6 DEF s2
    <3>3. UNCHANGED ENTER_FLAG
      BY <3>1 DEF backspace_char
    <3>4. QED
      BY <1>6, <2>3, <2>4, <3>1, <3>2, <3>3, BackspaceSeen
  <2>7. CASE c \notin {LF, Backspace}
    <3>1. all_char(t, c)
      BY <1>3, <2>2, <2>7 DEF terminal_putc
    <3>2. typed' = [typed EXCEPT ![t] = Append(typed[t], c)] /\ UNCHANGED line
      BY <1>4, <2>1, <2>7 DEF s2
    <3>3. curr_idx[t] < L
      BY <1>3, <2>4, <2>7, LineAssumption
    <3>4. UNCHANGED ENTER_FLAG
      BY <3>1 DEF all_char
    <3>5. QED
      BY <1>2, <1>6, <2>3, <3>1, <3>2, <3>3, <3>4, LetterSeen
  <2>8. QED
    BY <2>5, <2>6, <2>7
<1>11. \A u \in Terms : Awaits(u)' <=> Awaits(u)
  BY <1>3 DEF Awaits
<1>12. ASSUME NEW u \in Terms, Awaits(u)', Answered(u)'
       PROVE  line'[u] # <<>> \/ early'[u]
  <2>1. Awaits(u)
    BY <1>11, <1>12
  <2>2. CASE u = t /\ line'[t] # <<>>
    BY <2>2
  <2>3. CASE ~(u = t /\ line'[t] # <<>>)
    <3>1. ENTER_FLAG'[u] = ENTER_FLAG[u] /\ line'[u] = line[u]
      BY <1>9, <1>10, <2>1, <2>3
    <3>2. Answered(u)
      BY <1>3, <1>12, <3>1 DEF Answered
    <3>3. QED
      BY <1>5, <2>1, <3>1, <3>2 DEF ReadInv
  <2>4. QED
    BY <2>2, <2>3
<1>13. QED
  BY <1>3, <1>8, <1>9, <1>10, <1>11, <1>12 DEF ReadInv

LEMMA ReadInvInit == Init => ReadInv
<1> SUFFICES ASSUME Init PROVE ReadInv
  OBVIOUS
<1>1. <<>> \in Seq(Text)
  OBVIOUS
<1>2. QED
  BY <1>1 DEF Init, ReadInv, HistoryType, Awaits

LEMMA ReadInvStep == IndInv /\ ReadInv /\ [Next]_vars => ReadInv'
<1> SUFFICES ASSUME IndInv, ReadInv, [Next]_vars PROVE ReadInv'
  OBVIOUS
<1>1. pc \in [Terms -> Locations] /\ disturbed \in [Terms -> BOOLEAN]
      /\ curr_term \in Terms
  BY DEF IndInv, TypeInv
<1>2. CASE ReadReset \/ ReadCopy \/ OutputReset \/ OutputLast
  <2>1. PICK l \in Locations \ {"r_copy"} : Goto(l)
    BY <1>2 DEF ReadReset, ReadCopy, OutputReset, OutputLast, Locations
  <2>2. \A t \in Terms : pc'[t] = IF t = curr_term THEN l ELSE pc[t]
    BY <1>1, <2>1 DEF Goto
  <2>3. ResetBuffer(FALSE) /\ UNCHANGED <<disp_term, ENTER_FLAG>>
    BY <1>2 DEF ReadReset, ReadCopy, OutputReset, OutputLast, flagVars
  <2>4. PICK a \in BOOLEAN : early' = [early EXCEPT ![curr_term] = a]
                              /\ (l = "r_wait" => a = (ENTER_FLAG[curr_term] = 1))
    <3>1. early = [early EXCEPT ![curr_term] = early[curr_term]]
          /\ early[curr_term] \in BOOLEAN
      BY <1>1 DEF ReadInv, HistoryType
    <3>2. CASE ReadReset
      BY <3>2 DEF ReadReset
    <3>3. CASE ReadCopy \/ OutputReset \/ OutputLast
      <4>1. l # "r_wait"
        BY <1>1, <2>1, <3>3 DEF ReadCopy, OutputReset, OutputLast, Goto
      <4>2. QED
        BY <3>1, <3>3, <4>1 DEF ReadCopy, OutputReset, OutputLast
    <3>4. QED
      BY <1>2, <3>2, <3>3
  <2>5. \/ pc'[curr_term] = "r_wait" /\ (ENTER_FLAG[curr_term] = 1 => a)
        \/ pc'[curr_term] \notin {"r_wait", "r_copy"}
    BY <1>1, <2>1, <2>2, <2>4
  <2>6. QED
    BY <1>1, <2>2, <2>3, <2>4, <2>5, ResetRead DEF IndInv
<1>3. CASE KeyClear
  <2>1. ResetBuffer(TRUE) /\ UNCHANGED <<disp_term, pc, ENTER_FLAG, early>>
    BY <1>3 DEF KeyClear, threadVars
  <2>2. early' = [early EXCEPT ![curr_term] = early[curr_term]]
        /\ early[curr_term] \in BOOLEAN
    BY <1>1, <2>1 DEF ReadInv, HistoryType
  <2>3. QED
    BY <2>1, <2>2, ResetRead DEF IndInv
<1>4. CASE \E c \in {Letter(disp_term), LF, Backspace} : Key(c)
  BY <1>4, KeyRead
<1>5. CASE OutputChar
  <2>1. /\ UNCHANGED <<typed, line, early, disp_term>>
        /\ pc' = [pc EXCEPT ![curr_term] = "loop"]
    BY <1>5 DEF OutputChar, Goto
  <2>2. ASSUME NEW t \in Terms, Awaits(t)'
        PROVE  /\ Awaits(t) /\ LineSeen(t)' /\ pc'[t] = pc[t]
               /\ Answered(t)' => line'[t] # <<>> \/ early'[t]
    <3>1. t # curr_term /\ pc'[t] = pc[t]
      BY <1>1, <2>1, <2>2 DEF Awaits
    <3>2. Same(t) /\ ENTER_FLAG'[t] = ENTER_FLAG[t] /\ ~disturbed[t]
      BY <1>5, <2>2, <3>1, OtherLines DEF Awaits
    <3>3. Awaits(t)
      BY <2>2, <3>1, <3>2 DEF Awaits
    <3>4. QED
      BY <2>1, <3>1, <3>2, <3>3 DEF ReadInv, LineSeen, Same, Answered
  <2>3. HistoryType'
    BY <2>1 DEF ReadInv, HistoryType
  <2>4. QED
    BY <2>1, <2>2, <2>3 DEF ReadInv
<1>6. CASE ReadWake
  <2>1. /\ pc' = [pc EXCEPT ![curr_term] = "r_copy"] /\ pc[curr_term] = "r_wait"
        /\ disp_term = curr_term /\ ENTER_FLAG[curr_term] = 1
        /\ UNCHANGED <<disp_term, ENTER_FLAG, lineVars, typed, line, disturbed,
                       early>>
    BY <1>6 DEF ReadWake, At, Woken, Goto, history, flagVars
  <2>2. ASSUME NEW t \in Terms, Awaits(t)'
        PROVE  /\ Awaits(t) /\ (Answered(t)' => Answered(t))
               /\ pc'[t] = "r_copy" => disp_term' = t
    BY <1>1, <2>1, <2>2 DEF Awaits, Answered, ReadInv
  <2>3. QED
    BY <2>1, <2>2, QuietRead
<1>7. CASE \E t \in Terms : AltF(t)
  <2>1. /\ UNCHANGED <<pc, ENTER_FLAG, lineVars, typed, line, early>>
        /\ \A t \in Terms : disturbed'[t] = (disturbed[t] \/ pc[t] = "r_copy")
    BY <1>7 DEF AltF, threadVars
  <2>2. ASSUME NEW t \in Terms, Awaits(t)'
        PROVE  Awaits(t) /\ (Answered(t)' => Answered(t)) /\ pc'[t] # "r_copy"
    BY <2>1, <2>2 DEF Awaits, Answered
  <2>3. QED
    BY <2>1, <2>2, QuietRead
<1>8. CASE \/ Calls \/ ReadClearEnter \/ ReadEnd \/ OutputEnd \/ HandlerSteps
           \/ (\E t \in Terms : Tick(t)) \/ UNCHANGED vars
  <2>1. /\ UNCHANGED <<lineVars, typed, line, disturbed, early, disp_term>>
        /\ \A t \in Terms : ENTER_FLAG'[t] \in {ENTER_FLAG[t], 0}
        /\ \/ UNCHANGED pc
           \/ \E l \in Locations \ {"r_wait", "r_copy"} : Goto(l)
    BY <1>8
    DEF IndInv, TypeInv, SetFlag, flagVars, Calls, ReadCall, terminal_write,
        terminal_printf, Output, ReadClearEnter, ReadEnd, OutputEnd,
        HandlerSteps, ClearRest, KeyEnd, Tick, vars, lineVars, threadVars,
        history, Locations
  <2>2. ASSUME NEW t \in Terms, Awaits(t)'
        PROVE  Awaits(t) /\ (Answered(t)' => Answered(t)) /\ pc'[t] = pc[t]
    BY <1>1, <2>1, <2>2 DEF Awaits, Answered, Goto
  <2>3. QED
    BY <2>1, <2>2, QuietRead DEF ReadInv
<1>9. QED
  BY <1>2, <1>3, <1>4, <1>5, <1>6, <1>7, <1>8
  DEF Next, ReadSteps, OutputSteps, Keys

-----------------------------------------------------------------------------
\* A place of the entered line that is not NUL does not end the copy.
LEMMA CopyEnough ==
  ASSUME NEW t, NEW nbytes \in Nat, NEW m \in 0 .. L, m <= nbytes,
         \A i \in 1 .. m : input_buffer[t][L + i - 1] # NUL
  PROVE  m <= CopyLength(t, nbytes)
<1> DEFINE S == {i \in 0 .. L - 1 :
                   /\ i < nbytes
                   /\ \A j \in 0 .. i : ~(/\ input_buffer[t][j] = NUL
                                          /\ input_buffer[t][L + j] = NUL)}
           T == 0 .. m - 1
<1>1. L \in Nat /\ m \in Nat /\ m <= L
  BY LineAssumption
<1>2. ASSUME NEW i \in T PROVE i \in S
  <2>1. i \in 0 .. L - 1 /\ i < nbytes /\ \A j \in 0 .. i : j + 1 \in 1 .. m
    BY <1>1
  <2>2. ASSUME NEW j \in 0 .. i PROVE input_buffer[t][L + j] # NUL
    <3>1. L + (j + 1) - 1 = L + j /\ j + 1 \in 1 .. m
      BY <1>1, <2>1
    <3>2. input_buffer[t][L + (j + 1) - 1] # NUL
      BY <3>1
    <3>3. QED
      BY <3>1, <3>2
  <2>3. QED
    BY <2>1, <2>2
<1>3. IsFiniteSet(0 .. L - 1) /\ IsFiniteSet(T) /\ Cardinality(T) = m
  <2>1. \A a \in Nat : /\ IsFiniteSet(0 .. a - 1)
                       /\ Cardinality(0 .. a - 1) = a
    <3> TAKE a \in Nat
    <3> DEFINE b == a - 1
    <3>1. b \in Int /\ (0 > b => a = 0) /\ b - 0 + 1 = a
      OBVIOUS
    <3> HIDE DEF b
    <3>2. /\ IsFiniteSet(0 .. b)
          /\ Cardinality(0 .. b) = IF 0 > b THEN 0 ELSE b - 0 + 1
      BY <3>1, FS_Interval
    <3>3. QED
      BY <3>1, <3>2 DEF b
  <2>2. QED
    BY <1>1, <2>1
<1>4. S \in SUBSET (0 .. L - 1)
  OBVIOUS
<1>5. CopyLength(t, nbytes) = Cardinality(S)
  BY DEF CopyLength
<1> HIDE DEF S, T
<1>6. IsFiniteSet(S)
  BY <1>3, <1>4, FS_Subset
<1>7. T \in SUBSET S
  BY <1>2
<1>8. Cardinality(T) <= Cardinality(S)
  BY <1>6, <1>7, FS_Subset
<1>9. QED
  BY <1>3, <1>5, <1>8

\* What terminal_read copies for a reader whose line is not disturbed.
LEMMA CopySeen ==
  ASSUME IndInv, ReadInv, ReadCopy, NEW t \in Terms, t = curr_term,
         ~disturbed[t]
  PROVE  LET got == buf'[t].data
             room == {Len(line[t]), L, buf'[t].nbytes}
         IN  /\ line[t] # <<>> \/ early[t]
             /\ \A i \in DOMAIN got \cap DOMAIN line[t] : got[i] = line[t][i]
             /\ \E n \in room : n <= Len(got) /\ \A m \in room : n <= m
<1>1. pc[t] = "r_copy"
  BY DEF ReadCopy, At
<1>2. LineSeen(t) /\ disp_term = t
  BY <1>1 DEF ReadInv, Awaits
<1>3. PICK nbytes \in Sizes :
        buf' = [buf EXCEPT ![t] =
                 [nbytes |-> nbytes,
                  data |-> [i \in 1 .. CopyLength(t, nbytes) |->
                              input_buffer[t][L + i - 1]]]]
  BY <1>2 DEF ReadCopy
<1> DEFINE n == CopyLength(t, nbytes)
           got == [i \in 1 .. n |-> input_buffer[t][L + i - 1]]
           e == line[t]
           k == Len(e)
<1>4. /\ n \in 0 .. L /\ L \in Nat /\ nbytes \in Nat /\ k \in Nat
      /\ e \in Seq(Text) /\ DOMAIN e = 1 .. k
  BY CopyFact, SizesAssumption, LineAssumption DEF ReadInv, HistoryType
<1>5. buf'[t].data = got /\ buf'[t].nbytes = nbytes
  BY <1>3 DEF IndInv, TypeInv
<1>6. \A i \in 1 .. k : i <= L => input_buffer[t][L + i - 1] = e[i]
  BY <1>2 DEF LineSeen
<1>7. \A i \in 1 .. k : e[i] # NUL
  BY <1>4 DEF Text
<1>8. ASSUME NEW m \in Nat, m <= k, m <= L, m <= nbytes PROVE m <= n
  <2>1. \A i \in 1 .. m : i \in 1 .. k /\ i <= L
    BY <1>4, <1>8
  <2>2. \A i \in 1 .. m : input_buffer[t][L + i - 1] # NUL
    BY <1>6, <1>7, <2>1
  <2>3. m \in 0 .. L
    BY <1>4, <1>8
  <2>4. QED
    BY <1>4, <1>8, <2>2, <2>3, CopyEnough
<1> HIDE DEF n
<1>9. DOMAIN got = 1 .. n /\ Len(got) = n
  BY <1>4
<1>10. \A i \in DOMAIN got \cap DOMAIN e : got[i] = e[i]
  BY <1>4, <1>6, <1>9
<1> HIDE DEF got, e, k
<1>11. \E m \in {k, L, nbytes} : m <= n /\ \A m2 \in {k, L, nbytes} : m <= m2
  <2>1. CASE k <= L /\ k <= nbytes
    BY <1>4, <1>8, <2>1
  <2>2. CASE L <= k /\ L <= nbytes
    BY <1>4, <1>8, <2>2
  <2>3. CASE nbytes <= k /\ nbytes <= L
    BY <1>4, <1>8, <2>3
  <2>4. QED
    BY <1>4, <2>1, <2>2, <2>3
<1>12. line[t] # <<>> \/ early[t]
  BY <1>1 DEF ReadInv, Awaits, Answered
<1>13. QED
  BY <1>5, <1>9, <1>10, <1>11, <1>12 DEF e, k

\* IndInv and ReadInv hold in every reachable state.
THEOREM ReadInvariance == Spec => [](IndInv /\ ReadInv)
<1>1. Init => IndInv /\ ReadInv
  BY InitInv, ReadInvInit
<1>2. IndInv /\ ReadInv /\ [Next]_vars => (IndInv /\ ReadInv)'
  BY StepInv, ReadInvStep
<1>3. QED
  BY <1>1, <1>2, PTL DEF Spec

\* terminal_read returns the line that its user saw grow and entered, cut to
\* nbytes and to the line buffer, and only after one was entered, whatever keys,
\* output and switches of the terminals came meanwhile, unless the read met one
\* of the races that the history variables name.  (terminal.c:112-137)
THEOREM ReadsSeenLine == Spec => ReadsOwnLine
<1> DEFINE Returned(t) ==
      pc[t] = "r_copy" /\ pc'[t] = "r_end" /\ ~disturbed[t] =>
         LET got == buf'[t].data
             room == {Len(line[t]), L, buf'[t].nbytes}
         IN  /\ line[t] # <<>> \/ early[t]
             /\ \A i \in DOMAIN got \cap DOMAIN line[t] : got[i] = line[t][i]
             /\ \E n \in room : n <= Len(got) /\ \A m \in room : n <= m
<1>1. ASSUME IndInv, ReadInv, [Next]_vars, NEW t \in Terms
      PROVE  Returned(t)
  <2>1. CASE pc[t] = "r_copy" /\ pc'[t] = "r_end"
    <3>1. pc'[t] # pc[t]
      BY <2>1
    <3>2. ReadCopy /\ t = curr_term
      BY <1>1, <2>1
      DEF Next, Calls, terminal_write, terminal_printf, Output, ReadCall,
          ReadSteps, ReadClearEnter, ReadReset, ReadWake, ReadCopy, ReadEnd,
          OutputSteps, OutputReset, OutputLast, OutputChar, OutputEnd, Keys,
          Key, KeyClear, HandlerSteps, ClearRest, KeyEnd, AltF, Tick,
          threadVars, vars, At, Goto, IndInv, TypeInv
    <3>3. QED
      BY <1>1, <3>2, CopySeen
  <2>2. QED
    BY <2>1
<1>2. IndInv /\ ReadInv /\ [Next]_vars => [\A t \in Terms : Returned(t)]_vars
  BY <1>1
<1>3. QED
  BY <1>2, ReadInvariance, PTL DEF Spec, ReadsOwnLine
=============================================================================
