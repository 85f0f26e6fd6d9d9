----------------------------- MODULE ProcStacks -----------------------------
(***************************************************************************)
(* What execute, halt and the scheduler promise together: each terminal    *)
(* has a stack of processes, of which only the top one of the running      *)
(* terminal acts; a terminal that has a program always has one.            *)
(***************************************************************************)
EXTENDS Integers

CONSTANTS NUM_TERMS, MAX_PROGS

VARIABLES running,  \* the terminal that has the CPU
          depth     \* how many processes each terminal has

vars == <<running, depth>>

Terms == 0 .. NUM_TERMS - 1

Init == /\ running = 0
        /\ depth = [t \in Terms |-> 0]

\* The top process of the running terminal starts another, or the terminal's
\* first shell is set up.
Execute == /\ depth[running] < MAX_PROGS
           /\ depth' = [depth EXCEPT ![running] = @ + 1]
           /\ UNCHANGED running

\* It ends, unless it is the first shell, which is never ended.
Halt == /\ depth[running] > 1
        /\ depth' = [depth EXCEPT ![running] = @ - 1]
        /\ UNCHANGED running

\* The CPU goes to a terminal with programs, or to one whose first shell is
\* to be started.
Switch(t) == /\ running' = t
             /\ UNCHANGED depth

Next == Execute \/ Halt \/ \E t \in Terms : Switch(t)

Spec == Init /\ [][Next]_vars
=============================================================================
