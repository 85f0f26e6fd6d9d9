--------------------------- MODULE MCSchedShells ---------------------------
(***************************************************************************)
(* Sched where the shells only wait: programs neither execute nor halt.    *)
(* What is left is starting terminals and switching among them, for the    *)
(* three terminals of the code.                                            *)
(***************************************************************************)
EXTENDS Sched

ShellsSpec ==
  /\ Init /\ [][Next /\ ~User]_vars
  /\ WF_vars(Execute \/ Halt \/ Handler) /\ SF_vars(Tick \/ TickSkip)
=============================================================================
