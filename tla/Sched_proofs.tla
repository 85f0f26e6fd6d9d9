---------------------------- MODULE Sched_proofs ----------------------------
(***************************************************************************)
(* Theorems about Sched, for any number of terminals and processes.        *)
(*                                                                         *)
(* IndInv is inductive; the safety properties follow from it, and with it  *)
(* every step of Sched is a step of ProcStacks or leaves it alone.  What   *)
(* makes the argument go through is that the lock is held exactly while a  *)
(* switch is under way (LockInv), so the only thread that moves is that of *)
(* curr_term, and each other thread stays where its PCB says.              *)
(***************************************************************************)
EXTENDS Sched, TLAPS

\* Arithmetic of the constants.
LEMMA WordFact == WORD \in Nat /\ WORD > 0
BY WordAssumption, NumTermsAssumption, MaxProgsAssumption

LEMMA ModFact == ASSUME NEW n \in Int PROVE n % WORD \in 0 .. WORD - 1
BY WordFact

LEMMA PidFact == ASSUME NEW t \in Terms, NEW i \in 0 .. MAX_PROGS - 1
                 PROVE  <<t, i>> \in Pid
BY DEF Pid

LEMMA PidParts == ASSUME NEW p \in Pid
                  PROVE  /\ p[1] \in Terms /\ p[2] \in 0 .. MAX_PROGS - 1
                         /\ p = <<p[1], p[2]>>
BY DEF Pid

LEMMA ZeroFact == 0 \in Terms /\ 0 \in 0 .. MAX_PROGS - 1
BY NumTermsAssumption, MaxProgsAssumption DEF Terms

LEMMA NextSlotFact == ASSUME pit_counter \in Terms PROVE NextSlot \in Terms
BY NumTermsAssumption DEF Terms, NextSlot

\* The active process of a terminal is the top of its stack.
LEMMA TopFact == ASSUME TypeOK, ProcessStack, NEW t \in Terms
                 PROVE  /\ Depth(t) \in 0 .. MAX_PROGS
                        /\ active_progs[t] # NULL <=> Depth(t) > 0
                        /\ active_progs[t] # NULL =>
                             active_progs[t] = <<t, Depth(t) - 1>>
<1>1. CASE active_progs[t] = NULL
  BY <1>1, MaxProgsAssumption DEF Depth
<1>2. CASE active_progs[t] # NULL
  <2>1. active_progs[t] \in Pid /\ active_progs[t][1] = t
    BY <1>2 DEF TypeOK, ProcessStack
  <2>2. active_progs[t][2] \in 0 .. MAX_PROGS - 1
        /\ active_progs[t] = <<t, active_progs[t][2]>>
    BY <2>1, PidParts
  <2>3. Depth(t) = active_progs[t][2] + 1
    BY <1>2 DEF Depth
  <2>4. QED
    BY <1>2, <2>2, <2>3, MaxProgsAssumption
<1>3. QED
  BY <1>1, <1>2

\* Saving a stack pointer changes one field of one PCB.
LEMMA EspFact ==
  ASSUME pcb \in [Pid -> PCB], NEW c \in Pid, NEW v \in {"stale", "pit", "kb"},
         pcb' = [pcb EXCEPT ![c].ESP_S = v]
  PROVE  /\ pcb' \in [Pid -> PCB]
         /\ pcb'[c].ESP_S = v
         /\ \A p \in Pid : p # c => pcb'[p] = pcb[p]
         /\ \A p \in Pid : /\ pcb'[p].p_id = pcb[p].p_id
                           /\ pcb'[p].parent_p_id = pcb[p].parent_p_id
                           /\ pcb'[p].parent = pcb[p].parent
                           /\ pcb'[p].ESP0 = pcb[p].ESP0
BY DEF PCB

\* The running process and its place on its terminal's stack.
LEMMA CurrFact ==
  ASSUME IndInv, curr_pcb_ptr # NULL
  PROVE  /\ curr_term \in Terms
         /\ Depth(curr_term) \in 1 .. MAX_PROGS
         /\ curr_pcb_ptr = <<curr_term, Depth(curr_term) - 1>>
         /\ curr_pcb_ptr \in Pid
         /\ pcb[curr_pcb_ptr].p_id = Depth(curr_term) - 1
         /\ pcb[curr_pcb_ptr].parent = IF Depth(curr_term) = 1 THEN NULL
                                       ELSE <<curr_term, Depth(curr_term) - 2>>
         /\ pcb[curr_pcb_ptr].parent_p_id =
              IF Depth(curr_term) = 1 THEN 0 ELSE Depth(curr_term) - 2
         /\ curr_pcb_ptr = active_progs[curr_term]
<1>1. curr_term \in Terms /\ curr_pcb_ptr = active_progs[curr_term]
  BY DEF IndInv, TypeOK, CurrentInv
<1>2. /\ Depth(curr_term) \in 1 .. MAX_PROGS
      /\ curr_pcb_ptr = <<curr_term, Depth(curr_term) - 1>>
  BY <1>1, TopFact DEF IndInv
<1>3. Links(curr_term)
  BY <1>1 DEF IndInv, ProcessStack
<1>4. Depth(curr_term) - 1 \in 0 .. Depth(curr_term) - 1
  BY <1>2
<1>5. curr_pcb_ptr \in Pid
  BY DEF IndInv, TypeOK
<1>6. QED
  BY <1>1, <1>2, <1>3, <1>4, <1>5 DEF Links

\* Outside the first steps of execute_func a process is running.
LEMMA HasProcess ==
  ASSUME IndInv, pc[curr_term] \notin Loading \cup {"x_fail"}
  PROVE  curr_pcb_ptr # NULL
BY DEF IndInv, TypeOK, CurrentInv, PlaceInv

\* Each place on a terminal's stack is a process of that terminal.
LEMMA PlacePid ==
  ASSUME TypeOK, ProcessStack, NEW t \in Terms, NEW i \in 0 .. Depth(t) - 1
  PROVE  <<t, i>> \in Pid /\ i \in 0 .. MAX_PROGS - 1
<1>1. Depth(t) \in 0 .. MAX_PROGS
  BY TopFact
<1>2. i \in 0 .. MAX_PROGS - 1
  BY <1>1, MaxProgsAssumption
<1>3. QED
  BY <1>2, PidFact

\* So does XTss, to the kernel stack.
LEMMA Esp0Fact ==
  ASSUME pcb \in [Pid -> PCB], NEW c \in Pid, pcb' = [pcb EXCEPT ![c].ESP0 = c]
  PROVE  /\ pcb' \in [Pid -> PCB]
         /\ pcb'[c].ESP0 = c
         /\ \A p \in Pid : p # c => pcb'[p] = pcb[p]
         /\ \A p \in Pid : /\ pcb'[p].p_id = pcb[p].p_id
                           /\ pcb'[p].parent_p_id = pcb[p].parent_p_id
                           /\ pcb'[p].parent = pcb[p].parent
                           /\ pcb'[p].ESP_S = pcb[p].ESP_S
BY DEF PCB

\* The links, depths and kernel stacks only depend on what a switch leaves alone.
LEMMA SameStacks ==
  ASSUME TypeOK, ProcessStack, UNCHANGED active_progs,
         \A p \in Pid : /\ pcb'[p].p_id = pcb[p].p_id
                        /\ pcb'[p].parent_p_id = pcb[p].parent_p_id
                        /\ pcb'[p].parent = pcb[p].parent
  PROVE  \A t \in Terms : Depth(t)' = Depth(t) /\ Links(t)'
<1> TAKE t \in Terms
<1>1. Depth(t)' = Depth(t)
  BY DEF Depth
<1>2. Links(t)
  BY DEF ProcessStack
<1>3. \A i \in 0 .. Depth(t) - 1 : <<t, i>> \in Pid
  BY PlacePid
<1>4. QED
  BY <1>1, <1>2, <1>3 DEF Links

\* What do_switch does to the thread it leaves.
LEMMA SaveFact ==
  ASSUME IndInv, NEW via \in {"pit", "kb"}, SaveCurrent(via)
  PROVE  /\ active_progs' = active_progs
         /\ pcb' \in [Pid -> PCB]
         /\ curr_pcb_ptr # NULL => pcb'[curr_pcb_ptr].ESP_S = via
         /\ \A p \in Pid : p # curr_pcb_ptr => pcb'[p] = pcb[p]
         /\ \A p \in Pid : /\ pcb'[p].p_id = pcb[p].p_id
                           /\ pcb'[p].parent_p_id = pcb[p].parent_p_id
                           /\ pcb'[p].parent = pcb[p].parent
                           /\ pcb'[p].ESP0 = pcb[p].ESP0
<1>1. active_progs' = active_progs
  BY DEF IndInv, TypeOK, CurrentInv, SaveCurrent
<1>2. CASE curr_pcb_ptr = NULL
  BY <1>1, <1>2 DEF SaveCurrent, IndInv, TypeOK
<1>3. CASE curr_pcb_ptr # NULL
  <2>1. /\ curr_pcb_ptr \in Pid /\ pcb \in [Pid -> PCB]
        /\ pcb' = [pcb EXCEPT ![curr_pcb_ptr].ESP_S = via]
    BY <1>3 DEF SaveCurrent, IndInv, TypeOK
  <2>2. QED
    BY <1>1, <2>1, EspFact
<1>4. QED
  BY <1>2, <1>3

\* execute_func's new process, by its p_id.
new_p_id == next_p_id[curr_term]
new_proc == <<curr_term, new_p_id>>

\* What XPcb does, with the new process in its place on the stack.
LEMMA XPcbStep ==
  ASSUME IndInv, XPcb
  PROVE  /\ curr_term \in Terms /\ new_p_id \in 0 .. MAX_PROGS - 1
         /\ new_proc \in Pid /\ new_proc # NULL
         /\ Depth(curr_term) \in {new_p_id, new_p_id + 1}
         /\ Depth(curr_term)' = new_p_id + 1
         /\ \A t \in Terms : t # curr_term => Depth(t)' = Depth(t)
         /\ pcb' \in [Pid -> PCB]
         /\ \A p \in Pid : p # new_proc => pcb'[p] = pcb[p]
         /\ pcb'[new_proc].p_id = new_p_id
         /\ pcb'[new_proc].parent = IF new_p_id = 0 THEN NULL
                                    ELSE <<curr_term, new_p_id - 1>>
         /\ pcb'[new_proc].parent_p_id = IF new_p_id = 0 THEN 0 ELSE new_p_id - 1
<1> DEFINE n == new_p_id
<1> DEFINE depth == Depth(curr_term)
<1>1. curr_term \in Terms /\ n \in 0 .. MAX_PROGS - 1 /\ n = next_p_id[curr_term]
  BY MaxProgsAssumption DEF IndInv, TypeOK, PlaceInv, XPcb, At, new_p_id
<1>2. new_proc = <<curr_term, n>> /\ new_proc \in Pid /\ new_proc # NULL
  BY <1>1, PidFact, NullAssumption DEF new_proc
<1>3. /\ depth \in 0 .. MAX_PROGS /\ (curr_pcb_ptr # NULL <=> depth > 0)
      /\ curr_pcb_ptr # NULL => curr_pcb_ptr = <<curr_term, depth - 1>>
  BY <1>1, TopFact DEF IndInv, CurrentInv
<1>4. Ending(curr_term) <=> n = 0
  BY <1>1 DEF XPcb, At, Ending
<1>5. n = IF depth > 0 /\ n = 0 THEN depth - 1 ELSE depth
  BY <1>1, <1>4 DEF IndInv, ProcessStack
<1>6. /\ n = 0 => depth \in {0, 1}
      /\ n # 0 => curr_pcb_ptr = <<curr_term, n - 1>> /\ curr_pcb_ptr # NULL
                  /\ n = depth /\ n - 1 \in 0 .. MAX_PROGS - 1
  BY <1>1, <1>3, <1>5, MaxProgsAssumption
<1>7. /\ pcb' = [pcb EXCEPT ![new_proc] = PCB_init(@)] /\ pcb \in [Pid -> PCB]
      /\ active_progs' = [active_progs EXCEPT ![curr_term] = new_proc]
      /\ active_progs \in [Terms -> Pid \cup {NULL}] /\ curr_term' = curr_term
      /\ curr_pcb_ptr \in Pid \cup {NULL}
  BY <1>1, <1>2 DEF XPcb, IndInv, TypeOK
<1> HIDE DEF n, depth
<1>8. Depth(curr_term)' = n + 1
  BY <1>1, <1>2, <1>7 DEF Depth
<1>9. \A t \in Terms : t # curr_term => Depth(t)' = Depth(t)
  BY <1>7 DEF Depth
<1>10. LET new == PCB_init(pcb[new_proc])
       IN  /\ new \in PCB
           /\ new.p_id = n
           /\ new.parent = IF n = 0 THEN NULL ELSE <<curr_term, n - 1>>
           /\ new.parent_p_id = IF n = 0 THEN 0 ELSE n - 1
  <2>1. pcb[new_proc] \in PCB /\ 0 \in 0 .. MAX_PROGS - 1
    BY <1>2, <1>7, ZeroFact
  <2>2. CASE n = 0
    <3>1. PCB_init(pcb[new_proc]) = [pcb[new_proc] EXCEPT !.p_id = 0, !.parent_p_id = 0,
                                                          !.parent = NULL]
      BY <2>2, <1>1 DEF PCB_init
    <3>2. QED
      BY <2>1, <2>2, <3>1 DEF PCB
  <2>3. CASE n # 0
    <3>1. PCB_init(pcb[new_proc]) = [pcb[new_proc] EXCEPT !.p_id = n, !.parent_p_id = n - 1,
                                                          !.parent = curr_pcb_ptr]
      BY <2>3, <1>1, <1>6 DEF PCB_init
    <3>2. QED
      BY <2>1, <2>3, <3>1, <1>1, <1>6, <1>7 DEF PCB
  <2>4. QED
    BY <2>2, <2>3
<1>11. /\ pcb' \in [Pid -> PCB] /\ pcb'[new_proc] = PCB_init(pcb[new_proc])
       /\ \A p \in Pid : p # new_proc => pcb'[p] = pcb[p]
  BY <1>2, <1>7, <1>10
<1>12. depth \in {n, n + 1}
  BY <1>1, <1>6
<1>13. QED
  BY <1>1, <1>2, <1>8, <1>9, <1>10, <1>11, <1>12 DEF n, depth

\* A switch disturbs neither the stacks of processes nor their kernel stacks.
LEMMA SwitchKeeps ==
  ASSUME IndInv, UNCHANGED <<active_progs, next_p_id>>,
         \A t \in Terms : active_progs[t] # NULL => pc'[t] = pc[t],
         \A p \in Pid : /\ pcb'[p].p_id = pcb[p].p_id
                        /\ pcb'[p].parent_p_id = pcb[p].parent_p_id
                        /\ pcb'[p].parent = pcb[p].parent
                        /\ pcb'[p].ESP0 = pcb[p].ESP0
  PROVE  /\ \A t \in Terms : Depth(t)' = Depth(t)
         /\ ProcessStack'
         /\ StackInv'
<1> USE DEF IndInv
<1>1. \A t \in Terms : Depth(t)' = Depth(t) /\ Links(t)'
  BY SameStacks
<1>2. ASSUME NEW t \in Terms
      PROVE  /\ active_progs[t] # NULL => active_progs[t][1] = t
             /\ next_p_id[t] = IF Depth(t) > 0 /\ Ending(t)' THEN Depth(t) - 1
                               ELSE Depth(t)
  <2>1. Depth(t) > 0 => Ending(t)' = Ending(t)
    BY TopFact DEF Ending
  <2>2. QED
    BY <2>1 DEF ProcessStack
<1>3. ASSUME NEW t \in Terms, NEW i \in 0 .. Depth(t) - 1,
             i < Depth(t) - 1 \/ pc'[t] \notin Fresh
      PROVE  pcb'[<<t, i>>].ESP0 = <<t, i>>
  <2>1. Depth(t) > 0 /\ active_progs[t] # NULL
    BY TopFact
  <2>2. <<t, i>> \in Pid
    BY PlacePid
  <2>3. QED
    BY <2>1, <2>2, <1>3 DEF StackInv
<1>4. QED
  BY <1>1, <1>2, <1>3 DEF ProcessStack, StackInv

-----------------------------------------------------------------------------
\* Each action preserves IndInv.  The conjuncts an action can disturb by more
\* than the location of a thread have a step of their own.

LEMMA ExecSyscallInv == IndInv /\ ExecSyscall => IndInv'
<1> SUFFICES ASSUME IndInv, ExecSyscall PROVE IndInv'
  OBVIOUS
<1> USE DEF IndInv, ExecSyscall, At, Goto, SetIF, cpuVars, memVars, progVars,
        dispVars, thrVars, ctxVars, intVars, retVars
<1>1. TypeOK'
  BY DEF TypeOK, Locations, Crashes, EXCEPTION_RET
<1>2. LockInv' /\ CurrentInv' /\ PlaceInv' /\ SavedContexts'
  BY DEF LockInv, TypeOK, InHandler, Crashes, CurrentInv, PlaceInv, ProcessStack,
         Depth, Loading, Ending, SavedContexts, Waiting, PCB
<1>3. ProcessStack' /\ StackInv'
  BY DEF ProcessStack, PlaceInv, CurrentInv, Links, Depth, Ending, TypeOK, PCB,
         Loading, StackInv, Fresh
<1>4. TssInv' /\ PageInv' /\ RetInv' /\ ScreenInv'
  BY DEF TssInv, CurrentInv, TypeOK, Fresh, PageInv, RetInv, ProcessStack, Depth,
         Ending, EXCEPTION_RET, ScreenInv
<1>5. QED
  BY <1>1, <1>2, <1>3, <1>4

LEMMA XCheckInv == IndInv /\ XCheck => IndInv'
<1> SUFFICES ASSUME IndInv, XCheck PROVE IndInv'
  OBVIOUS
<1> USE DEF IndInv, XCheck, At, Goto, cpuVars, memVars, progVars, dispVars,
        thrVars, ctxVars, intVars, retVars
<1>1. TypeOK'
  BY DEF TypeOK, Locations, Crashes, EXCEPTION_RET
<1>2. LockInv' /\ CurrentInv' /\ PlaceInv' /\ SavedContexts'
  BY DEF LockInv, TypeOK, InHandler, Crashes, CurrentInv, PlaceInv, ProcessStack,
         Depth, Loading, Ending, SavedContexts, Waiting, PCB
<1>3. ProcessStack' /\ StackInv'
  BY DEF ProcessStack, PlaceInv, CurrentInv, Links, Depth, Ending, TypeOK, PCB,
         Loading, StackInv, Fresh
<1>4. TssInv' /\ PageInv' /\ RetInv' /\ ScreenInv'
  BY DEF TssInv, CurrentInv, TypeOK, Fresh, PageInv, RetInv, ProcessStack, Depth,
         Ending, EXCEPTION_RET, ScreenInv
<1>5. QED
  BY <1>1, <1>2, <1>3, <1>4

LEMMA XRefuseInv == IndInv /\ XRefuse => IndInv'
<1> SUFFICES ASSUME IndInv, XRefuse PROVE IndInv'
  OBVIOUS
<1> USE DEF IndInv, XRefuse, At, Goto, SetIF, Starting, Restarting, cpuVars,
        memVars, progVars, dispVars, thrVars, ctxVars, intVars, retVars
<1>1. TypeOK'
  BY DEF TypeOK, Locations, Crashes, EXCEPTION_RET
<1>2. LockInv' /\ CurrentInv' /\ PlaceInv' /\ SavedContexts'
  BY DEF LockInv, TypeOK, InHandler, Crashes, CurrentInv, PlaceInv, ProcessStack,
         Depth, Loading, Ending, SavedContexts, Waiting, PCB
<1>3. ProcessStack' /\ StackInv'
  BY DEF ProcessStack, PlaceInv, CurrentInv, Links, Depth, Ending, TypeOK, PCB,
         Loading, StackInv, Fresh
<1>4. TssInv' /\ PageInv' /\ RetInv' /\ ScreenInv'
  BY DEF TssInv, CurrentInv, TypeOK, Fresh, PageInv, RetInv, ProcessStack, Depth,
         Ending, EXCEPTION_RET, ScreenInv
<1>5. QED
  BY <1>1, <1>2, <1>3, <1>4

LEMMA XFailInv == IndInv /\ XFail => IndInv'
<1> SUFFICES ASSUME IndInv, XFail PROVE IndInv'
  OBVIOUS
<1> USE DEF IndInv, XFail, At, Goto, cpuVars, memVars, progVars, dispVars,
        thrVars, ctxVars, intVars, retVars
<1>1. TypeOK'
  BY DEF TypeOK, Locations, Crashes, EXCEPTION_RET
<1>2. LockInv' /\ CurrentInv' /\ PlaceInv' /\ SavedContexts'
  BY DEF LockInv, TypeOK, InHandler, Crashes, CurrentInv, PlaceInv, ProcessStack,
         Depth, Loading, Ending, SavedContexts, Waiting, PCB
<1>3. ProcessStack' /\ StackInv'
  BY DEF ProcessStack, PlaceInv, CurrentInv, Links, Depth, Ending, TypeOK, PCB,
         Loading, StackInv, Fresh
<1>4. TssInv' /\ PageInv' /\ RetInv' /\ ScreenInv'
  BY DEF TssInv, CurrentInv, TypeOK, Fresh, PageInv, RetInv, ProcessStack, Depth,
         Ending, EXCEPTION_RET, ScreenInv
<1>5. QED
  BY <1>1, <1>2, <1>3, <1>4

LEMMA XOverrunInv == IndInv /\ XOverrun => IndInv'
<1> SUFFICES ASSUME IndInv, XOverrun PROVE IndInv'
  OBVIOUS
<1> USE DEF IndInv, XOverrun, At, Goto, cpuVars, memVars, progVars, dispVars,
        thrVars, ctxVars, intVars, retVars
<1>1. TypeOK'
  BY DEF TypeOK, Locations, Crashes, EXCEPTION_RET
<1>2. LockInv' /\ CurrentInv' /\ PlaceInv' /\ SavedContexts'
  BY DEF LockInv, TypeOK, InHandler, Crashes, CurrentInv, PlaceInv, ProcessStack,
         Depth, Loading, Ending, SavedContexts, Waiting, PCB
<1>3. ProcessStack' /\ StackInv'
  BY DEF ProcessStack, PlaceInv, CurrentInv, Links, Depth, Ending, TypeOK, PCB,
         Loading, StackInv, Fresh
<1>4. TssInv' /\ PageInv' /\ RetInv' /\ ScreenInv'
  BY DEF TssInv, CurrentInv, TypeOK, Fresh, PageInv, RetInv, ProcessStack, Depth,
         Ending, EXCEPTION_RET, ScreenInv
<1>5. QED
  BY <1>1, <1>2, <1>3, <1>4

LEMMA XMapInv == IndInv /\ XMap => IndInv'
<1> SUFFICES ASSUME IndInv, XMap PROVE IndInv'
  OBVIOUS
<1> USE DEF IndInv, XMap, At, Goto, cpuVars, memVars, progVars, dispVars,
        thrVars, ctxVars, intVars, retVars
<1>1. TypeOK'
  BY PidFact, MaxProgsAssumption DEF TypeOK, Locations, Crashes, EXCEPTION_RET
<1>2. LockInv' /\ CurrentInv' /\ PlaceInv' /\ SavedContexts'
  BY DEF LockInv, TypeOK, InHandler, Crashes, CurrentInv, PlaceInv, ProcessStack,
         Depth, Loading, Ending, SavedContexts, Waiting, PCB
<1>3. ProcessStack' /\ StackInv'
  BY DEF ProcessStack, PlaceInv, CurrentInv, Links, Depth, Ending, TypeOK, PCB,
         Loading, StackInv, Fresh
<1>4. PageInv'
  BY PidParts, MaxProgsAssumption DEF PageInv, CurrentInv, TypeOK
<1>5. TssInv' /\ RetInv' /\ ScreenInv'
  BY DEF TssInv, CurrentInv, TypeOK, Fresh, RetInv, ProcessStack, Depth, Ending,
         EXCEPTION_RET, ScreenInv
<1>6. QED
  BY <1>1, <1>2, <1>3, <1>4, <1>5

LEMMA XLoadInv == IndInv /\ XLoad => IndInv'
<1> SUFFICES ASSUME IndInv, XLoad PROVE IndInv'
  OBVIOUS
<1> USE DEF IndInv, XLoad, At, Goto, cpuVars, memVars, progVars, dispVars,
        thrVars, ctxVars, intVars, retVars
<1>1. TypeOK'
  BY DEF TypeOK, Locations, Crashes, EXCEPTION_RET
<1>2. LockInv' /\ CurrentInv' /\ PlaceInv' /\ SavedContexts'
  BY DEF LockInv, TypeOK, InHandler, Crashes, CurrentInv, PlaceInv, ProcessStack,
         Depth, Loading, Ending, SavedContexts, Waiting, PCB
<1>3. ProcessStack' /\ StackInv'
  BY DEF ProcessStack, PlaceInv, CurrentInv, Links, Depth, Ending, TypeOK, PCB,
         Loading, StackInv, Fresh
<1>4. TssInv' /\ PageInv' /\ RetInv' /\ ScreenInv'
  BY DEF TssInv, CurrentInv, TypeOK, Fresh, PageInv, RetInv, ProcessStack, Depth,
         Ending, EXCEPTION_RET, ScreenInv
<1>5. QED
  BY <1>1, <1>2, <1>3, <1>4

LEMMA XPcbInv == IndInv /\ XPcb => IndInv'
<1> SUFFICES ASSUME IndInv, XPcb PROVE IndInv'
  OBVIOUS
<1> USE DEF IndInv, XPcb, At, Goto, PCB_init, cpuVars, memVars, progVars,
        dispVars, thrVars, ctxVars, intVars, retVars
<1>1. /\ curr_term \in Terms /\ new_p_id \in 0 .. MAX_PROGS - 1
      /\ new_proc \in Pid /\ new_proc # NULL /\ new_proc = <<curr_term, new_p_id>>
  BY XPcbStep DEF new_proc
<1>2. \A p \in Pid : p # new_proc => pcb'[p] = pcb[p]
  BY XPcbStep
<1>3. \A t \in Terms : t # curr_term => Depth(t)' = Depth(t)
  BY XPcbStep
<1>4. \A t \in Terms : t = curr_term =>
        Depth(t)' = new_p_id + 1 /\ Depth(t) \in {new_p_id, new_p_id + 1}
  BY XPcbStep
<1>5. /\ curr_pcb_ptr' = new_proc
      /\ active_progs' = [active_progs EXCEPT ![curr_term] = new_proc]
      /\ next_p_id' = [next_p_id EXCEPT ![curr_term] = new_p_id + 1]
      /\ pc' = [pc EXCEPT ![curr_term] = "x_count"]
      /\ UNCHANGED <<mode, curr_term, memVars, dispVars, thrVars, ctxVars, intVars,
                     retVars, total_progs>>
      /\ mode = "run" /\ pc[curr_term] = "x_pcb"
  BY DEF new_p_id, new_proc
<1> HIDE DEF XPcb
<1>6. TypeOK'
  <2>1. /\ next_p_id' \in [Terms -> 0 .. MAX_PROGS] /\ pcb' \in [Pid -> PCB]
        /\ active_progs' \in [Terms -> Pid \cup {NULL}]
    BY <1>1, <1>5, XPcbStep, MaxProgsAssumption DEF TypeOK
  <2>2. pc' \in [Terms -> Locations]
    BY <1>5 DEF TypeOK, Locations
  <2>3. QED
    BY <2>1, <2>2, <1>1, <1>5 DEF TypeOK
<1>7. LockInv'
  BY <1>5 DEF LockInv, InHandler
<1>8. CurrentInv'
  BY <1>1, <1>5 DEF CurrentInv, TypeOK
<1>9. PlaceInv'
  BY <1>1, <1>3, <1>5 DEF PlaceInv, CurrentInv, TypeOK, Loading
<1>10. ProcessStack'
  <2> SUFFICES ASSUME NEW t \in Terms
               PROVE  /\ active_progs[t]' # NULL => active_progs[t]'[1] = t
                      /\ Links(t)'
                      /\ next_p_id[t]' = IF Depth(t)' > 0 /\ Ending(t)'
                                         THEN Depth(t)' - 1 ELSE Depth(t)'
    BY DEF ProcessStack
  <2>1. Links(t)
    BY DEF ProcessStack
  <2>2. CASE t = curr_term
    <3>1. ASSUME NEW i \in 0 .. Depth(t)' - 1
          PROVE  /\ pcb'[<<t, i>>].p_id = i
                 /\ pcb'[<<t, i>>].parent = IF i = 0 THEN NULL ELSE <<t, i - 1>>
                 /\ pcb'[<<t, i>>].parent_p_id = IF i = 0 THEN 0 ELSE i - 1
      <4>1. i \in 0 .. new_p_id
        BY <2>2, <1>1, <1>4
      <4>2. CASE i = new_p_id
        BY <2>2, <4>2, <1>1, XPcbStep
      <4>3. CASE i # new_p_id
        <5>1. i \in 0 .. Depth(t) - 1
          BY <2>2, <4>1, <4>3, <1>1, <1>4
        <5>2. <<t, i>> \in Pid /\ <<t, i>> # new_proc
          BY <4>3, <5>1, <1>1, PlacePid
        <5>3. QED
          BY <2>1, <5>1, <5>2, <1>2 DEF Links
      <4>4. QED
        BY <4>2, <4>3
    <3>2. Links(t)'
      BY <3>1 DEF Links
    <3>3. ~Ending(t)' /\ next_p_id'[t] = new_p_id + 1 /\ active_progs[t]'[1] = t
      BY <2>2, <1>1, <1>5 DEF Ending, TypeOK
    <3>4. QED
      BY <2>2, <3>2, <3>3, <1>4
  <2>3. CASE t # curr_term
    <3>1. /\ Depth(t)' = Depth(t) /\ active_progs'[t] = active_progs[t]
          /\ pc'[t] = pc[t] /\ next_p_id'[t] = next_p_id[t]
      BY <2>3, <1>3, <1>5 DEF TypeOK
    <3>2. \A i \in 0 .. Depth(t) - 1 : pcb'[<<t, i>>] = pcb[<<t, i>>]
      BY <2>3, <1>1, <1>2, PlacePid
    <3>3. Links(t)'
      BY <2>1, <3>1, <3>2 DEF Links
    <3>4. QED
      BY <3>1, <3>3 DEF ProcessStack, Ending
  <2>4. QED
    BY <2>2, <2>3
<1>11. StackInv'
  <2> SUFFICES ASSUME NEW t \in Terms, NEW i \in 0 .. Depth(t)' - 1,
                      i < Depth(t)' - 1 \/ pc'[t] \notin Fresh
               PROVE  pcb'[<<t, i>>].ESP0 = <<t, i>>
    BY DEF StackInv
  <2>1. i \in 0 .. Depth(t) - 1 /\ <<t, i>> # new_proc
    <3>1. CASE t = curr_term
      BY <3>1, <1>1, <1>4, <1>5 DEF Fresh, TypeOK
    <3>2. CASE t # curr_term
      BY <3>2, <1>1, <1>3
    <3>3. QED
      BY <3>1, <3>2
  <2>2. i < Depth(t) - 1 \/ pc[t] \notin Fresh
    <3>1. CASE t = curr_term
      BY <3>1, <1>5 DEF Fresh
    <3>2. CASE t # curr_term
      BY <3>2, <1>3, <1>5 DEF TypeOK
    <3>3. QED
      BY <3>1, <3>2
  <2>3. <<t, i>> \in Pid
    BY <2>1, PlacePid
  <2>4. QED
    BY <2>1, <2>2, <2>3, <1>2 DEF StackInv
<1>12. TssInv'
  BY <1>1, <1>5 DEF TssInv, TypeOK, Fresh
<1>13. PageInv'
  BY <1>1, <1>5 DEF PageInv
<1>14. RetInv'
  BY <1>1, <1>5 DEF RetInv, TypeOK
<1>15. ScreenInv'
  BY <1>1, <1>5 DEF ScreenInv, TypeOK
<1>16. SavedContexts'
  <2> SUFFICES ASSUME NEW t \in Terms, Waiting(t)'
               PROVE  /\ active_progs'[t] # NULL
                      /\ pcb'[active_progs'[t]].ESP_S \in {"pit", "kb"}
    BY DEF SavedContexts
  <2>1. t # curr_term /\ Waiting(t)
    BY <1>5 DEF Waiting, Crashes, TypeOK
  <2>2. /\ active_progs'[t] = active_progs[t] /\ active_progs[t] # NULL
        /\ pcb[active_progs[t]].ESP_S \in {"pit", "kb"}
    BY <2>1, <1>5 DEF SavedContexts, TypeOK
  <2>3. active_progs[t] \in Pid /\ active_progs[t] # new_proc
    BY <2>1, <2>2, <1>1 DEF TypeOK, ProcessStack
  <2>4. QED
    BY <2>2, <2>3, <1>2
<1>17. QED
  BY <1>6, <1>7, <1>8, <1>9, <1>10, <1>11, <1>12, <1>13, <1>14, <1>15,
     <1>16

LEMMA XCountInv == IndInv /\ XCount => IndInv'
<1> SUFFICES ASSUME IndInv, XCount PROVE IndInv'
  OBVIOUS
<1> USE DEF IndInv, XCount, At, Goto, cpuVars, memVars, progVars, dispVars,
        thrVars, ctxVars, intVars, retVars
<1>1. TypeOK'
  BY DEF TypeOK, Locations, Crashes, EXCEPTION_RET
<1>2. LockInv' /\ CurrentInv' /\ PlaceInv' /\ SavedContexts'
  BY DEF LockInv, TypeOK, InHandler, Crashes, CurrentInv, PlaceInv, ProcessStack,
         Depth, Loading, Ending, SavedContexts, Waiting, PCB
<1>3. ProcessStack' /\ StackInv'
  BY DEF ProcessStack, PlaceInv, CurrentInv, Links, Depth, Ending, TypeOK, PCB,
         Loading, StackInv, Fresh
<1>4. TssInv' /\ PageInv' /\ RetInv' /\ ScreenInv'
  BY DEF TssInv, CurrentInv, TypeOK, Fresh, PageInv, RetInv, ProcessStack, Depth,
         Ending, EXCEPTION_RET, ScreenInv
<1>5. QED
  BY <1>1, <1>2, <1>3, <1>4

LEMMA XStoreInv == IndInv /\ XStore => IndInv'
<1> SUFFICES ASSUME IndInv, XStore PROVE IndInv'
  OBVIOUS
<1> USE DEF IndInv, XStore, At, Goto, cpuVars, memVars, progVars, dispVars,
        thrVars, ctxVars, intVars, retVars
<1>1. TypeOK'
  BY ModFact, WordFact DEF TypeOK, Locations, Crashes, EXCEPTION_RET
<1>2. LockInv' /\ CurrentInv' /\ PlaceInv' /\ SavedContexts'
  BY DEF LockInv, TypeOK, InHandler, Crashes, CurrentInv, PlaceInv, ProcessStack,
         Depth, Loading, Ending, SavedContexts, Waiting, PCB
<1>3. ProcessStack' /\ StackInv'
  BY DEF ProcessStack, PlaceInv, CurrentInv, Links, Depth, Ending, TypeOK, PCB,
         Loading, StackInv, Fresh
<1>4. TssInv' /\ PageInv' /\ RetInv' /\ ScreenInv'
  BY DEF TssInv, CurrentInv, TypeOK, Fresh, PageInv, RetInv, ProcessStack, Depth,
         Ending, EXCEPTION_RET, ScreenInv
<1>5. QED
  BY <1>1, <1>2, <1>3, <1>4

LEMMA XTssInv == IndInv /\ XTss => IndInv'
<1> SUFFICES ASSUME IndInv, XTss PROVE IndInv'
  OBVIOUS
<1> USE DEF IndInv, XTss, At, Goto, ClearRetval, cpuVars, memVars, progVars,
        dispVars, thrVars, ctxVars, intVars, retVars
<1>1. curr_pcb_ptr # NULL
  BY HasProcess DEF Loading
<1> DEFINE depth == Depth(curr_term)
<1>2. /\ curr_term \in Terms /\ depth \in 1 .. MAX_PROGS
      /\ curr_pcb_ptr = <<curr_term, depth - 1>> /\ curr_pcb_ptr \in Pid
      /\ curr_pcb_ptr = active_progs[curr_term]
  BY <1>1, CurrFact
<1>3. pcb[curr_pcb_ptr].parent = IF depth = 1 THEN NULL ELSE <<curr_term, depth - 2>>
  BY <1>1, CurrFact
<1>4. next_p_id[curr_term] = depth
  BY <1>2 DEF ProcessStack, Ending
<1>5. pcb' = [pcb EXCEPT ![curr_pcb_ptr].ESP0 = curr_pcb_ptr]
      /\ tss_esp0' = curr_pcb_ptr
  BY <1>2, <1>4
<1>6. /\ pcb' \in [Pid -> PCB]
      /\ pcb'[curr_pcb_ptr].ESP0 = curr_pcb_ptr
      /\ \A p \in Pid : p # curr_pcb_ptr => pcb'[p] = pcb[p]
      /\ \A p \in Pid : /\ pcb'[p].p_id = pcb[p].p_id
                        /\ pcb'[p].parent_p_id = pcb[p].parent_p_id
                        /\ pcb'[p].parent = pcb[p].parent
                        /\ pcb'[p].ESP_S = pcb[p].ESP_S
  BY <1>2, <1>5, Esp0Fact DEF TypeOK
<1>7. \A t \in Terms : Depth(t)' = Depth(t)
  BY DEF Depth
<1>8. \A t \in Terms : \A i \in 0 .. Depth(t) - 1 : <<t, i>> \in Pid
  BY PlacePid
<1>9. UNCHANGED <<cpuVars, page, active_progs, next_p_id, dispVars, thrVars, ctxVars,
                  intVars, total_progs>>
      /\ mode = "run" /\ pc[curr_term] = "x_tss"
      /\ pc' = [pc EXCEPT ![curr_term] = "x_iret"]
  OBVIOUS
<1>10. /\ halt_retval' = [halt_retval EXCEPT ![curr_term] = 0]
      /\ faulted' = [faulted EXCEPT ![curr_term] = FALSE]
  OBVIOUS
<1> HIDE DEF XTss, depth, At, Goto, ClearRetval
<1>11. TypeOK'
  BY <1>2, <1>5, <1>6, <1>9, <1>10 DEF TypeOK, Locations, EXCEPTION_RET
<1>12. LockInv'
  BY <1>9 DEF LockInv, TypeOK, InHandler, Crashes
<1>13. CurrentInv'
  BY <1>9 DEF CurrentInv, TypeOK
<1>14. PlaceInv'
  BY <1>2, <1>7, <1>9 DEF PlaceInv, CurrentInv, TypeOK, Loading
<1>15. ProcessStack'
  <2>1. \A t \in Terms : Links(t)'
    BY <1>6, <1>9, SameStacks
  <2>2. \A t \in Terms : Ending(t)' = Ending(t) /\ active_progs'[t] = active_progs[t]
                          /\ next_p_id'[t] = next_p_id[t]
    BY <1>9 DEF Ending, TypeOK
  <2>3. QED
    BY <2>1, <2>2, <1>7 DEF ProcessStack
<1>16. StackInv'
  <2> SUFFICES ASSUME NEW t \in Terms, NEW i \in 0 .. Depth(t) - 1
               PROVE  i < Depth(t) - 1 \/ pc'[t] \notin Fresh => pcb'[<<t, i>>].ESP0 = <<t, i>>
    BY <1>7 DEF StackInv
  <2>1. CASE <<t, i>> = curr_pcb_ptr
    BY <2>1, <1>6
  <2>2. CASE <<t, i>> # curr_pcb_ptr
    <3>1. i < Depth(t) - 1 \/ pc'[t] \notin Fresh => i < Depth(t) - 1 \/ pc[t] \notin Fresh
      BY <2>2, <1>2, <1>9 DEF TypeOK, Fresh, depth
    <3>2. QED
      BY <2>2, <3>1, <1>6, <1>8 DEF StackInv
  <2>3. QED
    BY <2>1, <2>2
<1>17. TssInv'
  BY <1>5, <1>9 DEF TssInv
<1>18. PageInv'
  BY <1>9 DEF PageInv, CurrentInv, TypeOK
<1>19. RetInv'
  BY <1>9, <1>10 DEF RetInv, ProcessStack, Depth, Ending, TypeOK, EXCEPTION_RET
<1>20. ScreenInv'
  BY <1>9 DEF ScreenInv, TypeOK, CurrentInv
<1>21. SavedContexts'
  <2>1. \A t \in Terms : Waiting(t)' => Waiting(t)
    BY <1>9 DEF Waiting, Crashes, TypeOK
  <2>2. QED
    BY <2>1, <1>6, <1>9 DEF SavedContexts, TypeOK
<1>22. QED
  BY <1>11, <1>12, <1>13, <1>14, <1>15, <1>16, <1>17, <1>18, <1>19, <1>20,
     <1>21

LEMMA XIretInv == IndInv /\ XIret => IndInv'
<1> SUFFICES ASSUME IndInv, XIret PROVE IndInv'
  OBVIOUS
<1> USE DEF IndInv, XIret, At, Goto, SetIF, cpuVars, memVars, progVars,
        dispVars, thrVars, ctxVars, intVars, retVars
<1>1. TypeOK'
  BY DEF TypeOK, Locations, Crashes, EXCEPTION_RET
<1>2. LockInv' /\ CurrentInv' /\ PlaceInv' /\ SavedContexts'
  BY DEF LockInv, TypeOK, InHandler, Crashes, CurrentInv, PlaceInv, ProcessStack,
         Depth, Loading, Ending, SavedContexts, Waiting, PCB
<1>3. ProcessStack' /\ StackInv'
  BY DEF ProcessStack, PlaceInv, CurrentInv, Links, Depth, Ending, TypeOK, PCB,
         Loading, StackInv, Fresh
<1>4. TssInv' /\ PageInv' /\ RetInv' /\ ScreenInv'
  BY DEF TssInv, CurrentInv, TypeOK, Fresh, PageInv, RetInv, ProcessStack, Depth,
         Ending, EXCEPTION_RET, ScreenInv
<1>5. QED
  BY <1>1, <1>2, <1>3, <1>4

LEMMA HaltSyscallInv == IndInv /\ HaltSyscall => IndInv'
<1> SUFFICES ASSUME IndInv, HaltSyscall PROVE IndInv'
  OBVIOUS
<1> USE DEF IndInv, HaltSyscall, At, Goto, SetIF, cpuVars, memVars, progVars,
        dispVars, thrVars, ctxVars, intVars, retVars
<1>1. TypeOK'
  BY DEF TypeOK, Locations, Crashes, EXCEPTION_RET
<1>2. LockInv' /\ CurrentInv' /\ PlaceInv' /\ SavedContexts'
  BY DEF LockInv, TypeOK, InHandler, Crashes, CurrentInv, PlaceInv, ProcessStack,
         Depth, Loading, Ending, SavedContexts, Waiting, PCB
<1>3. ProcessStack' /\ StackInv'
  BY DEF ProcessStack, PlaceInv, CurrentInv, Links, Depth, Ending, TypeOK, PCB,
         Loading, StackInv, Fresh
<1>4. TssInv' /\ PageInv' /\ RetInv' /\ ScreenInv'
  BY DEF TssInv, CurrentInv, TypeOK, Fresh, PageInv, RetInv, ProcessStack, Depth,
         Ending, EXCEPTION_RET, ScreenInv
<1>5. QED
  BY <1>1, <1>2, <1>3, <1>4

LEMMA ExceptionInv == IndInv /\ Exception => IndInv'
<1> SUFFICES ASSUME IndInv, Exception PROVE IndInv'
  OBVIOUS
<1> USE DEF IndInv, Exception, At, Goto, SetIF, cpuVars, memVars, progVars,
        dispVars, thrVars, ctxVars, intVars, retVars
<1>1. TypeOK'
  BY DEF TypeOK, Locations, Crashes, EXCEPTION_RET
<1>2. LockInv' /\ CurrentInv' /\ PlaceInv' /\ SavedContexts'
  BY DEF LockInv, TypeOK, InHandler, Crashes, CurrentInv, PlaceInv, ProcessStack,
         Depth, Loading, Ending, SavedContexts, Waiting, PCB
<1>3. ProcessStack' /\ StackInv'
  BY DEF ProcessStack, PlaceInv, CurrentInv, Links, Depth, Ending, TypeOK, PCB,
         Loading, StackInv, Fresh
<1>4. TssInv' /\ PageInv' /\ RetInv' /\ ScreenInv'
  BY DEF TssInv, CurrentInv, TypeOK, Fresh, PageInv, RetInv, ProcessStack, Depth,
         Ending, EXCEPTION_RET, ScreenInv
<1>5. QED
  BY <1>1, <1>2, <1>3, <1>4

LEMMA HCountInv == IndInv /\ HCount => IndInv'
<1> SUFFICES ASSUME IndInv, HCount PROVE IndInv'
  OBVIOUS
<1> USE DEF IndInv, HCount, At, Goto, cpuVars, memVars, progVars, dispVars,
        thrVars, ctxVars, intVars, retVars
<1>1. TypeOK'
  BY DEF TypeOK, Locations, Crashes, EXCEPTION_RET
<1>2. LockInv' /\ CurrentInv' /\ PlaceInv' /\ SavedContexts'
  BY DEF LockInv, TypeOK, InHandler, Crashes, CurrentInv, PlaceInv, ProcessStack,
         Depth, Loading, Ending, SavedContexts, Waiting, PCB
<1>3. ProcessStack' /\ StackInv'
  BY DEF ProcessStack, PlaceInv, CurrentInv, Links, Depth, Ending, TypeOK, PCB,
         Loading, StackInv, Fresh
<1>4. TssInv' /\ PageInv' /\ RetInv' /\ ScreenInv'
  BY DEF TssInv, CurrentInv, TypeOK, Fresh, PageInv, RetInv, ProcessStack, Depth,
         Ending, EXCEPTION_RET, ScreenInv
<1>5. QED
  BY <1>1, <1>2, <1>3, <1>4

LEMMA HStoreInv == IndInv /\ HStore => IndInv'
<1> SUFFICES ASSUME IndInv, HStore PROVE IndInv'
  OBVIOUS
<1> USE DEF IndInv, HStore, At, Goto, GiveBackPid, cpuVars, memVars, progVars,
        dispVars, thrVars, ctxVars, intVars, retVars
<1>1. curr_pcb_ptr # NULL
  BY HasProcess DEF Loading
<1> DEFINE depth == Depth(curr_term)
<1>2. /\ curr_term \in Terms /\ depth \in 1 .. MAX_PROGS
      /\ curr_pcb_ptr = <<curr_term, depth - 1>> /\ curr_pcb_ptr \in Pid
      /\ curr_pcb_ptr = active_progs[curr_term]
  BY <1>1, CurrFact
<1>3. pcb[curr_pcb_ptr].parent = IF depth = 1 THEN NULL ELSE <<curr_term, depth - 2>>
  BY <1>1, CurrFact
<1>4. next_p_id[curr_term] = depth
  BY <1>2 DEF ProcessStack, Ending
<1>5. next_p_id' = [next_p_id EXCEPT ![curr_term] = depth - 1]
  BY <1>4
<1>6. depth - 1 \in 0 .. MAX_PROGS /\ depth - 1 < MAX_PROGS
  BY <1>2, MaxProgsAssumption
<1>7. pc' = [pc EXCEPT ![curr_term] = IF depth = 1 THEN "x_check" ELSE "h_swap"]
  <2>1. CASE depth = 1
    BY <2>1, <1>3
  <2>2. CASE depth # 1
    <3>1. <<curr_term, depth - 2>> \in Pid
      BY <2>2, <1>2, PidFact, MaxProgsAssumption
    <3>2. pcb[curr_pcb_ptr].parent # NULL
      BY <2>2, <3>1, <1>3, NullAssumption
    <3>3. QED
      BY <2>2, <3>2
  <2>3. QED
    BY <2>1, <2>2
<1>8. \A t \in Terms : Depth(t)' = Depth(t)
  BY DEF Depth
<1> HIDE DEF depth
<1>9. TypeOK'
  <2>1. total_progs' \in 0 .. WORD - 1
    BY <1>2, ModFact, WordFact DEF TypeOK
  <2>2. reg' \in [Terms -> 0 .. WORD - 1]
    BY WordFact DEF TypeOK
  <2>3. QED
    BY <2>1, <2>2, <1>5, <1>6, <1>7 DEF TypeOK, Locations
<1>10. PlaceInv'
  BY <1>2, <1>5, <1>6, <1>7, <1>8 DEF PlaceInv, CurrentInv, TypeOK, Loading, depth
<1>11. LockInv' /\ CurrentInv' /\ SavedContexts'
  BY DEF LockInv, TypeOK, InHandler, Crashes, CurrentInv, SavedContexts,
         PlaceInv, ProcessStack, Waiting, PCB
<1>12. ProcessStack'
  BY <1>2, <1>5, <1>7, <1>8 DEF ProcessStack, Links, Ending, TypeOK, depth
<1>13. StackInv'
  BY DEF StackInv, Depth, TypeOK, Fresh
<1>14. RetInv'
  BY <1>2, <1>5, <1>7, <1>6 DEF RetInv, TypeOK, EXCEPTION_RET
<1>15. TssInv' /\ PageInv' /\ ScreenInv'
  BY DEF TssInv, CurrentInv, TypeOK, Fresh, PageInv, ScreenInv
<1>16. QED
  BY <1>9, <1>10, <1>11, <1>12, <1>13, <1>14, <1>15

LEMMA HSwapInv == IndInv /\ HSwap => IndInv'
<1> SUFFICES ASSUME IndInv, HSwap PROVE IndInv'
  OBVIOUS
<1> USE DEF IndInv, HSwap, At, Goto, SetIF, swap_pages, cpuVars, memVars,
        progVars, dispVars, thrVars, ctxVars, intVars, retVars
<1>1. curr_pcb_ptr # NULL
  BY HasProcess DEF Loading
<1> DEFINE depth == Depth(curr_term)
<1>2. /\ curr_term \in Terms /\ depth \in 1 .. MAX_PROGS
      /\ curr_pcb_ptr = <<curr_term, depth - 1>> /\ curr_pcb_ptr \in Pid
      /\ curr_pcb_ptr = active_progs[curr_term]
  BY <1>1, CurrFact
<1>3. pcb[curr_pcb_ptr].parent = IF depth = 1 THEN NULL ELSE <<curr_term, depth - 2>>
  BY <1>1, CurrFact
<1>4. depth > 1
  BY <1>2 DEF PlaceInv
<1>5. page' = <<curr_term, depth - 2>>
  BY <1>1, <1>4, CurrFact
<1>6. depth - 2 \in 0 .. MAX_PROGS - 1
  BY <1>2, <1>4, MaxProgsAssumption
<1>7. page' \in Pid
  BY <1>2, <1>5, <1>6, PidFact
<1> HIDE DEF depth
<1>8. TypeOK'
  BY <1>7 DEF TypeOK, Locations, Crashes, EXCEPTION_RET
<1>9. LockInv' /\ CurrentInv' /\ PlaceInv' /\ SavedContexts'
  BY DEF LockInv, TypeOK, InHandler, Crashes, CurrentInv, PlaceInv, ProcessStack,
         Depth, Loading, Ending, SavedContexts, Waiting, PCB
<1>10. ProcessStack' /\ StackInv'
  BY DEF ProcessStack, PlaceInv, CurrentInv, Links, Depth, Ending, TypeOK, PCB,
         Loading, StackInv, Fresh
<1>11. PageInv'
  BY <1>2, <1>5, <1>6 DEF PageInv
<1>12. TssInv' /\ RetInv' /\ ScreenInv'
  BY DEF TssInv, CurrentInv, TypeOK, Fresh, RetInv, ProcessStack, Depth, Ending,
         EXCEPTION_RET, ScreenInv
<1>13. QED
  BY <1>8, <1>9, <1>10, <1>11, <1>12

LEMMA HParentInv == IndInv /\ HParent => IndInv'
<1> SUFFICES ASSUME IndInv, HParent PROVE IndInv'
  OBVIOUS
<1> USE DEF IndInv, HParent, At, Goto, UseStackOf, cpuVars, memVars, progVars,
        dispVars, thrVars, ctxVars, intVars, retVars
<1>1. curr_pcb_ptr # NULL
  BY HasProcess DEF Loading
<1> DEFINE depth == Depth(curr_term)
<1>2. /\ curr_term \in Terms /\ depth \in 1 .. MAX_PROGS
      /\ curr_pcb_ptr = <<curr_term, depth - 1>> /\ curr_pcb_ptr \in Pid
      /\ curr_pcb_ptr = active_progs[curr_term]
  BY <1>1, CurrFact
<1>3. pcb[curr_pcb_ptr].parent = IF depth = 1 THEN NULL ELSE <<curr_term, depth - 2>>
  BY <1>1, CurrFact
<1>4. depth > 1
  BY <1>2 DEF PlaceInv
<1> DEFINE par == <<curr_term, depth - 2>>
<1>5. par \in Pid /\ par # NULL /\ depth - 2 \in 0 .. MAX_PROGS - 1
  BY <1>2, <1>4, PidFact, NullAssumption, MaxProgsAssumption
<1>6. pcb[curr_pcb_ptr].parent = par
  BY <1>2, <1>3, <1>4
<1>7. /\ curr_pcb_ptr' = par
      /\ active_progs' = [active_progs EXCEPT ![curr_term] = par]
      /\ tss_esp0' = pcb[par].ESP0
      /\ pc' = [pc EXCEPT ![curr_term] = "h_return"]
      /\ UNCHANGED <<curr_term, pcb, next_p_id, page>>
  <2> HIDE DEF par
  <2>1. QED
    BY <1>6
<1>8. pcb[par].ESP0 = par
  BY <1>2, <1>4 DEF StackInv
<1>9. Depth(curr_term)' = depth - 1
  BY <1>2, <1>5, <1>7 DEF Depth, TypeOK
<1>10. \A t \in Terms : t # curr_term => Depth(t)' = Depth(t)
  BY <1>7 DEF Depth, TypeOK
<1>11. next_p_id[curr_term] = depth - 1
  BY <1>2 DEF ProcessStack, Ending
<1> HIDE DEF depth, par
<1>12. TypeOK'
  BY <1>5, <1>7, <1>8 DEF TypeOK, Locations
<1>13. PlaceInv'
  BY <1>2, <1>4, <1>5, <1>7, <1>10 DEF PlaceInv, CurrentInv, TypeOK, Loading
<1>14. LockInv' /\ CurrentInv' /\ SavedContexts'
  BY DEF LockInv, TypeOK, InHandler, Crashes, CurrentInv, SavedContexts,
         PlaceInv, ProcessStack, Waiting, PCB
<1>15. ProcessStack'
  <2> SUFFICES ASSUME NEW t \in Terms
               PROVE  /\ active_progs[t]' # NULL => active_progs[t]'[1] = t
                      /\ Links(t)'
                      /\ next_p_id[t]' = IF Depth(t)' > 0 /\ Ending(t)' THEN Depth(t)' - 1 ELSE Depth(t)'
    BY DEF ProcessStack
  <2>1. CASE t = curr_term
    <3>1. Links(t)'
      BY <2>1, <1>2, <1>4, <1>9 DEF ProcessStack, Links, depth
    <3>2. pc'[t] = "h_return" /\ ~Ending(t)'
      BY <2>1, <1>7 DEF Ending, TypeOK
    <3>3. QED
      BY <2>1, <3>1, <3>2, <1>7, <1>9, <1>11 DEF par, TypeOK
  <2>2. CASE t # curr_term
    <3>1. Depth(t)' = Depth(t) /\ active_progs'[t] = active_progs[t] /\ pc'[t] = pc[t]
      BY <2>2, <1>7, <1>10 DEF TypeOK
    <3>2. QED
      BY <3>1 DEF ProcessStack, Links, Ending
  <2>3. QED
    BY <2>1, <2>2
<1>16. StackInv'
  <2> SUFFICES ASSUME NEW t \in Terms, NEW i \in 0 .. Depth(t)' - 1,
                      i < Depth(t)' - 1 \/ pc'[t] \notin Fresh
               PROVE  pcb[<<t, i>>].ESP0 = <<t, i>>
    BY DEF StackInv
  <2>1. CASE t = curr_term
    BY <2>1, <1>2, <1>4, <1>9 DEF StackInv, depth
  <2>2. CASE t # curr_term
    BY <2>2, <1>7, <1>10 DEF StackInv, Fresh, TypeOK
  <2>3. QED
    BY <2>1, <2>2
<1>17. TssInv'
  BY <1>7, <1>8 DEF TssInv
<1>18. PageInv'
  BY <1>1 DEF PageInv
<1>19. RetInv' /\ ScreenInv'
  BY DEF RetInv, ProcessStack, Depth, Ending, TypeOK, EXCEPTION_RET, ScreenInv,
         CurrentInv
<1>20. QED
  BY <1>12, <1>13, <1>14, <1>15, <1>16, <1>17, <1>18, <1>19

LEMMA HReturnInv == IndInv /\ HReturn => IndInv'
<1> SUFFICES ASSUME IndInv, HReturn PROVE IndInv'
  OBVIOUS
<1> USE DEF IndInv, HReturn, At, Goto, SetIF, ClearRetval, cpuVars, memVars,
        progVars, dispVars, thrVars, ctxVars, intVars, retVars
<1>1. TypeOK'
  BY DEF TypeOK, Locations, Crashes, EXCEPTION_RET
<1>2. LockInv' /\ CurrentInv' /\ PlaceInv' /\ SavedContexts'
  BY DEF LockInv, TypeOK, InHandler, Crashes, CurrentInv, PlaceInv, ProcessStack,
         Depth, Loading, Ending, SavedContexts, Waiting, PCB
<1>3. ProcessStack' /\ StackInv'
  BY DEF ProcessStack, PlaceInv, CurrentInv, Links, Depth, Ending, TypeOK, PCB,
         Loading, StackInv, Fresh
<1>4. TssInv' /\ PageInv' /\ RetInv' /\ ScreenInv'
  BY DEF TssInv, CurrentInv, TypeOK, Fresh, PageInv, RetInv, ProcessStack, Depth,
         Ending, EXCEPTION_RET, ScreenInv
<1>5. QED
  BY <1>1, <1>2, <1>3, <1>4

LEMMA TickInv == IndInv /\ Tick => IndInv'
<1> SUFFICES ASSUME IndInv, Tick PROVE IndInv'
  OBVIOUS
<1> USE DEF IndInv, Tick, At, Goto, SaveCurrent, swap_pages, UseStackOf,
        TryLock, Interruptible, InHandler, cpuVars, memVars, progVars,
        dispVars, thrVars, ctxVars, intVars, retVars
<1> DEFINE new == active_progs[pit_counter]
<1>1. /\ SaveCurrent("pit") /\ new # NULL /\ curr_term' = pit_counter
      /\ switch_lock' = 1 /\ mode' = "switch"
      /\ pc' = IF curr_pcb_ptr = NULL THEN [pc EXCEPT ![curr_term] = "off"] ELSE pc
      /\ UNCHANGED <<next_p_id, dispVars, thrVars, ctxVars, pit_counter, retVars,
                     total_progs>>
  BY DEF Tick
<1>2. mode = "run"
  BY DEF Tick, TryLock, Interruptible, InHandler, LockInv, Crashes
<1>3. /\ active_progs' = active_progs
      /\ pcb' \in [Pid -> PCB]
      /\ curr_pcb_ptr # NULL => pcb'[curr_pcb_ptr].ESP_S = "pit"
      /\ \A p \in Pid : p # curr_pcb_ptr => pcb'[p] = pcb[p]
      /\ \A p \in Pid : /\ pcb'[p].p_id = pcb[p].p_id
                        /\ pcb'[p].parent_p_id = pcb[p].parent_p_id
                        /\ pcb'[p].parent = pcb[p].parent
                        /\ pcb'[p].ESP0 = pcb[p].ESP0
  BY <1>1, SaveFact
<1>4. /\ curr_pcb_ptr' = new
      /\ tss_esp0' = pcb[new].ESP0
      /\ page' = <<pit_counter, pcb[new].p_id>>
  BY <1>3 DEF Tick, UseStackOf, swap_pages
<1>5. /\ pit_counter \in Terms /\ Depth(pit_counter) \in 1 .. MAX_PROGS
      /\ new = <<pit_counter, Depth(pit_counter) - 1>> /\ new \in Pid
  BY <1>1, TopFact DEF TypeOK
<1>6. \A t \in Terms : Depth(t)' = Depth(t)
  BY <1>3, SameStacks
<1>7. /\ curr_term \in Terms /\ curr_pcb_ptr = active_progs[curr_term]
      /\ pc \in [Terms -> Locations]
  BY DEF TypeOK, CurrentInv
<1>8. \A t \in Terms : active_progs[t] # NULL => pc'[t] = pc[t]
  BY <1>1, <1>7
<1>9. \A t \in Terms : pc'[t] = pc[t] \/ (pc'[t] = "off" /\ active_progs[t] = NULL)
  BY <1>1, <1>7
<1>10. pcb[new] \in PCB /\ pcb[new].p_id \in 0 .. MAX_PROGS - 1
      /\ pcb[new].ESP0 \in Pid \cup {NULL}
  BY <1>5 DEF TypeOK, PCB
<1>11. page' \in Pid
  BY <1>4, <1>5, <1>10, PidFact
<1> HIDE DEF new, Tick
<1>12. TypeOK'
  BY <1>1, <1>3, <1>4, <1>5, <1>9, <1>10, <1>11 DEF TypeOK, Locations
<1>13. LockInv'
  BY <1>1 DEF LockInv, InHandler, Crashes
<1>14. CurrentInv'
  BY <1>1, <1>3, <1>4, <1>5, <1>8 DEF CurrentInv, PlaceInv, new
<1>15. PlaceInv'
  <2> SUFFICES ASSUME NEW t \in Terms
               PROVE  /\ pc'[t] \in {"off", "x_fail"} => active_progs[t] = NULL
                      /\ active_progs[t] = NULL =>
                           /\ pc'[t] \in Loading \cup {"off", "x_fail"}
                           /\ t # curr_term' => pc'[t] = "off"
                      /\ pc'[t] \in {"x_flush", "x_pcb"} => next_p_id[t] < MAX_PROGS
                      /\ pc'[t] \in {"h_swap", "h_flush"} => Depth(t) > 1
    BY <1>1, <1>3, <1>6 DEF PlaceInv
  <2>1. CASE active_progs[t] # NULL
    BY <2>1, <1>8 DEF PlaceInv
  <2>2. CASE active_progs[t] = NULL
    BY <2>2, <1>1, <1>7, <1>9 DEF PlaceInv
  <2>3. QED
    BY <2>1, <2>2
<1>16. ProcessStack'
  BY <1>1, <1>3, <1>8, SwitchKeeps
<1>17. StackInv'
  BY <1>1, <1>3, <1>8, SwitchKeeps
<1>18. TssInv'
  BY <1>1, <1>4, <1>5, <1>8 DEF TssInv, StackInv, new
<1>19. PageInv'
  BY <1>1, <1>4, <1>10 DEF PageInv
<1>20. RetInv'
  BY <1>1, <1>9 DEF RetInv
<1>21. ScreenInv'
  BY <1>1, <1>2, <1>9 DEF ScreenInv
<1>22. SavedContexts'
  <2> SUFFICES ASSUME NEW t \in Terms, pc'[t] # "off"
               PROVE  /\ active_progs[t] # NULL
                      /\ pcb'[active_progs[t]].ESP_S \in {"pit", "kb"}
    BY <1>3 DEF SavedContexts, Waiting
  <2>1. CASE t = curr_term
    BY <2>1, <1>1, <1>3, <1>7
  <2>2. CASE t # curr_term
    <3>1. Waiting(t)
      BY <2>2, <1>2, <1>9 DEF Waiting, Crashes
    <3>2. active_progs[t] # NULL /\ pcb[active_progs[t]].ESP_S \in {"pit", "kb"}
      BY <3>1 DEF SavedContexts
    <3>3. active_progs[t] \in Pid /\ active_progs[t] # curr_pcb_ptr
      BY <2>2, <3>2, <1>7 DEF TypeOK, ProcessStack
    <3>4. QED
      BY <3>2, <3>3, <1>3
  <2>3. QED
    BY <2>1, <2>2
<1>23. QED
  BY <1>12, <1>13, <1>14, <1>15, <1>16, <1>17, <1>18, <1>19, <1>20, <1>21,
     <1>22

LEMMA TickSkipInv == IndInv /\ TickSkip => IndInv'
<1> SUFFICES ASSUME IndInv, TickSkip PROVE IndInv'
  OBVIOUS
<1> USE DEF IndInv, TickSkip, At, Goto, Interruptible, InHandler, TryLock,
        cpuVars, memVars, progVars, dispVars, thrVars, ctxVars, intVars,
        retVars
<1>1. TypeOK'
  BY NextSlotFact DEF TypeOK, Locations, Crashes, EXCEPTION_RET
<1>2. LockInv' /\ CurrentInv' /\ PlaceInv' /\ SavedContexts'
  BY DEF LockInv, TypeOK, InHandler, Crashes, CurrentInv, PlaceInv, ProcessStack,
         Depth, Loading, Ending, SavedContexts, Waiting, PCB
<1>3. ProcessStack' /\ StackInv'
  BY DEF ProcessStack, PlaceInv, CurrentInv, Links, Depth, Ending, TypeOK, PCB,
         Loading, StackInv, Fresh
<1>4. TssInv' /\ PageInv' /\ RetInv' /\ ScreenInv'
  BY DEF TssInv, CurrentInv, TypeOK, Fresh, PageInv, RetInv, ProcessStack, Depth,
         Ending, EXCEPTION_RET, ScreenInv
<1>5. QED
  BY <1>1, <1>2, <1>3, <1>4

LEMMA ResumeInv == IndInv /\ Resume => IndInv'
<1> SUFFICES ASSUME IndInv, Resume PROVE IndInv'
  OBVIOUS
<1> USE DEF IndInv, Resume, At, Goto, Unlock, cpuVars, memVars, progVars,
        dispVars, thrVars, ctxVars, intVars, retVars
<1>1. /\ mode = "switch" /\ mode' = "run"
      /\ pcb' = [pcb EXCEPT ![curr_pcb_ptr].ESP_S = "stale"]
      /\ pit_counter' \in {pit_counter, NextSlot}
      /\ switch_lock' = 0 /\ clobbered' \subseteq clobbered \cup Terms
      /\ UNCHANGED <<curr_term, curr_pcb_ptr, memVars, active_progs, next_p_id,
                     dispVars, pc, thrVars, under, retVars, total_progs>>
  BY DEF Resume, Unlock
<1>2. curr_pcb_ptr \in Pid /\ curr_pcb_ptr = active_progs[curr_term] /\ curr_term \in Terms
  BY <1>1 DEF TypeOK, CurrentInv
<1>3. /\ pcb' \in [Pid -> PCB]
      /\ \A p \in Pid : p # curr_pcb_ptr => pcb'[p] = pcb[p]
      /\ \A p \in Pid : /\ pcb'[p].p_id = pcb[p].p_id
                        /\ pcb'[p].parent_p_id = pcb[p].parent_p_id
                        /\ pcb'[p].parent = pcb[p].parent
                        /\ pcb'[p].ESP0 = pcb[p].ESP0
  BY <1>1, <1>2, EspFact DEF TypeOK
<1>4. \A t \in Terms : Depth(t)' = Depth(t)
  BY <1>1, <1>3, SameStacks
<1>5. \A t \in Terms : pc'[t] = pc[t]
  BY <1>1
<1>6. pit_counter' \in Terms
  BY <1>1, NextSlotFact DEF TypeOK
<1> HIDE DEF Resume
<1>7. TypeOK'
  BY <1>1, <1>3, <1>6 DEF TypeOK
<1>8. LockInv'
  BY <1>1 DEF LockInv, InHandler, Crashes
<1>9. CurrentInv'
  BY <1>1 DEF CurrentInv
<1>10. PlaceInv'
  BY <1>1, <1>4 DEF PlaceInv
<1>11. ProcessStack'
  BY <1>1, <1>3, <1>5, SwitchKeeps
<1>12. StackInv'
  BY <1>1, <1>3, <1>5, SwitchKeeps
<1>13. TssInv'
  BY <1>1 DEF TssInv
<1>14. PageInv'
  BY <1>1 DEF PageInv
<1>15. RetInv'
  BY <1>1 DEF RetInv
<1>16. ScreenInv'
  BY <1>1 DEF ScreenInv
<1>17. SavedContexts'
  <2> SUFFICES ASSUME NEW t \in Terms, Waiting(t)'
               PROVE  /\ active_progs[t] # NULL
                      /\ pcb'[active_progs[t]].ESP_S \in {"pit", "kb"}
    BY <1>1 DEF SavedContexts
  <2>1. Waiting(t) /\ t # curr_term
    BY <1>1 DEF Waiting, Crashes
  <2>2. active_progs[t] # NULL /\ pcb[active_progs[t]].ESP_S \in {"pit", "kb"}
    BY <2>1 DEF SavedContexts
  <2>3. active_progs[t] \in Pid /\ active_progs[t] # curr_pcb_ptr
    BY <2>1, <2>2, <1>2 DEF TypeOK, ProcessStack
  <2>4. QED
    BY <2>2, <2>3, <1>3
<1>18. QED
  BY <1>7, <1>8, <1>9, <1>10, <1>11, <1>12, <1>13, <1>14, <1>15, <1>16,
     <1>17

LEMMA ResumeLostInv == IndInv /\ ResumeLost => IndInv'
<1> SUFFICES ASSUME IndInv, ResumeLost PROVE IndInv'
  OBVIOUS
<1> USE DEF IndInv, ResumeLost, At, Goto, cpuVars, memVars, progVars, dispVars,
        thrVars, ctxVars, intVars, retVars
<1>1. TypeOK'
  BY DEF TypeOK, Locations, Crashes, EXCEPTION_RET
<1>2. LockInv' /\ CurrentInv' /\ PlaceInv' /\ SavedContexts'
  BY DEF LockInv, TypeOK, InHandler, Crashes, CurrentInv, PlaceInv, ProcessStack,
         Depth, Loading, Ending, SavedContexts, Waiting, PCB
<1>3. ProcessStack' /\ StackInv'
  BY DEF ProcessStack, PlaceInv, CurrentInv, Links, Depth, Ending, TypeOK, PCB,
         Loading, StackInv, Fresh
<1>4. TssInv' /\ PageInv' /\ RetInv' /\ ScreenInv'
  BY DEF TssInv, CurrentInv, TypeOK, Fresh, PageInv, RetInv, ProcessStack, Depth,
         Ending, EXCEPTION_RET, ScreenInv
<1>5. QED
  BY <1>1, <1>2, <1>3, <1>4

LEMMA AltFInv == ASSUME NEW d \in Terms PROVE IndInv /\ AltF(d) => IndInv'
<1> SUFFICES ASSUME IndInv, AltF(d) PROVE IndInv'
  OBVIOUS
<1> USE DEF IndInv, AltF, At, Goto, switch_vidmap, TryLock, Interruptible,
        InHandler, cpuVars, memVars, progVars, dispVars, thrVars, ctxVars,
        intVars, retVars
<1>1. TypeOK'
  BY DEF TypeOK, Locations, Crashes, EXCEPTION_RET
<1>2. LockInv' /\ CurrentInv' /\ PlaceInv' /\ SavedContexts'
  BY DEF LockInv, TypeOK, InHandler, Crashes, CurrentInv, PlaceInv, ProcessStack,
         Depth, Loading, Ending, SavedContexts, Waiting, PCB
<1>3. ProcessStack' /\ StackInv'
  BY DEF ProcessStack, PlaceInv, CurrentInv, Links, Depth, Ending, TypeOK, PCB,
         Loading, StackInv, Fresh
<1>4. ScreenInv'
  BY DEF ScreenInv, TypeOK, CurrentInv, LockInv, Crashes
<1>5. TssInv' /\ PageInv' /\ RetInv'
  BY DEF TssInv, CurrentInv, TypeOK, Fresh, PageInv, RetInv, ProcessStack, Depth,
         Ending, EXCEPTION_RET
<1>6. QED
  BY <1>1, <1>2, <1>3, <1>4, <1>5

LEMMA DisplayInv == IndInv /\ Display => IndInv'
<1> SUFFICES ASSUME IndInv, Display PROVE IndInv'
  OBVIOUS
<1> USE DEF IndInv, Display, At, Goto, Unlock, cpuVars, memVars, progVars,
        dispVars, thrVars, ctxVars, intVars, retVars
<1>1. TypeOK'
  BY ZeroFact DEF TypeOK, Locations, Crashes, EXCEPTION_RET
<1>2. LockInv' /\ CurrentInv' /\ PlaceInv' /\ SavedContexts'
  BY DEF LockInv, TypeOK, InHandler, Crashes, CurrentInv, PlaceInv, ProcessStack,
         Depth, Loading, Ending, SavedContexts, Waiting, PCB
<1>3. ProcessStack' /\ StackInv'
  BY DEF ProcessStack, PlaceInv, CurrentInv, Links, Depth, Ending, TypeOK, PCB,
         Loading, StackInv, Fresh
<1>4. TssInv' /\ PageInv' /\ RetInv' /\ ScreenInv'
  BY DEF TssInv, CurrentInv, TypeOK, Fresh, PageInv, RetInv, ProcessStack, Depth,
         Ending, EXCEPTION_RET, ScreenInv
<1>5. QED
  BY <1>1, <1>2, <1>3, <1>4

LEMMA StartTermInv == IndInv /\ StartTerm => IndInv'
<1> SUFFICES ASSUME IndInv, StartTerm PROVE IndInv'
  OBVIOUS
<1> USE DEF IndInv, StartTerm, At, Goto, SaveCurrent, Unlock, cpuVars, memVars,
        progVars, dispVars, thrVars, ctxVars, intVars, retVars
<1>1. /\ mode = "switch_vid" /\ mode' = "run" /\ active_progs[vdest] = NULL
      /\ SaveCurrent("kb") /\ curr_term' = vdest /\ disp_term' = vdest /\ vdest' = 0
      /\ pc' = [t \in Terms |->
                  IF t = vdest THEN "x_check"
                  ELSE IF t = curr_term /\ curr_pcb_ptr = NULL THEN "off" ELSE pc[t]]
      /\ iflag' = [iflag EXCEPT ![vdest] = FALSE]
      /\ under' = [under EXCEPT ![vdest] =
                     under[curr_term] \cup
                       (IF curr_pcb_ptr = NULL THEN {} ELSE {curr_term})]
      /\ clobbered' \subseteq clobbered
      /\ switch_lock' = 0
      /\ UNCHANGED <<memVars, next_p_id, video_table, reg, pit_counter, retVars,
                     total_progs>>
  BY DEF StartTerm, Unlock
<1>2. /\ active_progs' = active_progs
      /\ pcb' \in [Pid -> PCB]
      /\ curr_pcb_ptr # NULL => pcb'[curr_pcb_ptr].ESP_S = "kb"
      /\ \A p \in Pid : p # curr_pcb_ptr => pcb'[p] = pcb[p]
      /\ \A p \in Pid : /\ pcb'[p].p_id = pcb[p].p_id
                        /\ pcb'[p].parent_p_id = pcb[p].parent_p_id
                        /\ pcb'[p].parent = pcb[p].parent
                        /\ pcb'[p].ESP0 = pcb[p].ESP0
  BY <1>1, SaveFact
<1>3. curr_pcb_ptr' = NULL
  BY <1>1, <1>2 DEF StartTerm
<1>4. vdest \in Terms /\ next_p_id[vdest] = 0
  <2>1. vdest \in Terms /\ Depth(vdest) = 0
    BY <1>1 DEF TypeOK, Depth
  <2>2. QED
    BY <2>1 DEF ProcessStack
<1>5. \A t \in Terms : Depth(t)' = Depth(t)
  BY <1>2, SameStacks
<1>6. /\ curr_term \in Terms /\ curr_pcb_ptr = active_progs[curr_term]
      /\ pc \in [Terms -> Locations]
  BY DEF TypeOK, CurrentInv
<1>7. \A t \in Terms : active_progs[t] # NULL => pc'[t] = pc[t]
  BY <1>1, <1>6
<1>8. \A t \in Terms : \/ pc'[t] = pc[t]
                       \/ pc'[t] = "off" /\ active_progs[t] = NULL
                       \/ pc'[t] = "x_check" /\ t = vdest
  BY <1>1, <1>6
<1> HIDE DEF StartTerm
<1>9. TypeOK'
  BY <1>1, <1>2, <1>3, <1>4, ZeroFact DEF TypeOK, Locations
<1>10. LockInv'
  BY <1>1 DEF LockInv, InHandler, Crashes
<1>11. CurrentInv'
  BY <1>1, <1>2, <1>3, <1>4 DEF CurrentInv
<1>12. PlaceInv'
  <2> SUFFICES ASSUME NEW t \in Terms
               PROVE  /\ pc'[t] \in {"off", "x_fail"} => active_progs[t] = NULL
                      /\ active_progs[t] = NULL =>
                           /\ pc'[t] \in Loading \cup {"off", "x_fail"}
                           /\ t # curr_term' => pc'[t] = "off"
                      /\ pc'[t] \in {"x_flush", "x_pcb"} => next_p_id[t] < MAX_PROGS
                      /\ pc'[t] \in {"h_swap", "h_flush"} => Depth(t) > 1
    BY <1>1, <1>2, <1>5 DEF PlaceInv
  <2>1. CASE active_progs[t] # NULL
    BY <2>1, <1>7 DEF PlaceInv
  <2>2. CASE active_progs[t] = NULL
    BY <2>2, <1>1, <1>4, <1>6, <1>8 DEF PlaceInv, Loading
  <2>3. QED
    BY <2>1, <2>2
<1>13. ProcessStack'
  BY <1>1, <1>2, <1>7, SwitchKeeps
<1>14. StackInv'
  BY <1>1, <1>2, <1>7, SwitchKeeps
<1>15. TssInv'
  BY <1>3 DEF TssInv
<1>16. PageInv'
  BY <1>1, <1>3, <1>4 DEF PageInv
<1>17. RetInv'
  BY <1>1, <1>4, <1>8 DEF RetInv
<1>18. ScreenInv'
  BY <1>1, <1>4, <1>8 DEF ScreenInv
<1>19. SavedContexts'
  <2> SUFFICES ASSUME NEW t \in Terms, t # vdest, pc'[t] # "off"
               PROVE  /\ active_progs[t] # NULL
                      /\ pcb'[active_progs[t]].ESP_S \in {"pit", "kb"}
    BY <1>1, <1>2 DEF SavedContexts, Waiting
  <2>1. CASE t = curr_term
    BY <2>1, <1>1, <1>2, <1>6
  <2>2. CASE t # curr_term
    <3>1. Waiting(t)
      BY <2>2, <1>1, <1>8 DEF Waiting, Crashes
    <3>2. active_progs[t] # NULL /\ pcb[active_progs[t]].ESP_S \in {"pit", "kb"}
      BY <3>1 DEF SavedContexts
    <3>3. active_progs[t] \in Pid /\ active_progs[t] # curr_pcb_ptr
      BY <2>2, <3>2, <1>6 DEF TypeOK, ProcessStack
    <3>4. QED
      BY <3>2, <3>3, <1>2
  <2>3. QED
    BY <2>1, <2>2
<1>20. QED
  BY <1>9, <1>10, <1>11, <1>12, <1>13, <1>14, <1>15, <1>16, <1>17, <1>18,
     <1>19

\* From here on: the initial states, every step, and the theorems.

-----------------------------------------------------------------------------
\* The initial states, every step, and the theorems.

\* The invariant holds at boot.
LEMMA InitInv == Init => IndInv
<1> SUFFICES ASSUME Init PROVE IndInv
  OBVIOUS
<1> USE DEF Init
<1>1. \A t \in Terms : Depth(t) = 0
  BY DEF Depth
<1>2. TypeOK
  <2>1. pcb \in [Pid -> PCB]
    BY ZeroFact DEF PCB
  <2>2. QED
    BY <2>1, ZeroFact, WordFact, MaxProgsAssumption
       DEF TypeOK, Locations, Crashes, EXCEPTION_RET
<1>3. LockInv /\ CurrentInv /\ PlaceInv /\ SavedContexts
  BY ZeroFact, MaxProgsAssumption
     DEF LockInv, InHandler, CurrentInv, PlaceInv, Loading, SavedContexts, Waiting
<1>4. ProcessStack /\ StackInv
  BY <1>1 DEF ProcessStack, Links, StackInv
<1>5. TssInv /\ PageInv /\ RetInv /\ ScreenInv
  BY ZeroFact DEF TssInv, PageInv, RetInv, ScreenInv
<1>6. QED
  BY <1>2, <1>3, <1>4, <1>5 DEF IndInv

\* It speaks only of the variables of vars.
LEMMA StutterInv == IndInv /\ UNCHANGED vars => IndInv'
<1> SUFFICES ASSUME IndInv, UNCHANGED vars PROVE IndInv'
  OBVIOUS
<1> USE DEF IndInv, vars, cpuVars, memVars, progVars, dispVars, thrVars, ctxVars,
        intVars, retVars
<1>1. TypeOK' /\ LockInv' /\ CurrentInv' /\ PlaceInv' /\ SavedContexts'
  BY DEF TypeOK, LockInv, InHandler, CurrentInv, PlaceInv, Depth, SavedContexts, Waiting
<1>2. ProcessStack' /\ StackInv'
  BY DEF ProcessStack, Links, Depth, Ending, StackInv
<1>3. TssInv' /\ PageInv' /\ RetInv' /\ ScreenInv'
  BY DEF TssInv, PageInv, RetInv, ScreenInv
<1>4. QED
  BY <1>1, <1>2, <1>3

\* Every step of the system preserves it.
LEMMA NextInv == IndInv /\ [Next]_vars => IndInv'
<1> SUFFICES ASSUME IndInv, [Next]_vars PROVE IndInv'
  OBVIOUS
<1>1. CASE Execute
  BY <1>1, XCheckInv, XRefuseInv, XFailInv, XOverrunInv, XMapInv, XLoadInv, XPcbInv,
     XCountInv, XStoreInv, XTssInv, XIretInv DEF Execute
<1>2. CASE Halt
  BY <1>2, HCountInv, HStoreInv, HSwapInv, HParentInv, HReturnInv DEF Halt
<1>3. CASE User
  BY <1>3, ExecSyscallInv, HaltSyscallInv, ExceptionInv DEF User
<1>4. CASE Interrupt
  BY <1>4, TickInv, TickSkipInv, AltFInv DEF Interrupt
<1>5. CASE Handler
  BY <1>5, ResumeInv, ResumeLostInv, DisplayInv, StartTermInv DEF Handler
<1>6. CASE Crashed \/ UNCHANGED vars
  BY <1>6, StutterInv DEF Crashed
<1>7. QED
  BY <1>1, <1>2, <1>3, <1>4, <1>5, <1>6 DEF Next

\* The inductive invariant: for any number of terminals, processes and any
\* width of total_progs, every reachable state satisfies what IndInv says of each
\* location of execute_func, halt_func, do_switch and get_c_keyboard.
THEOREM Invariance == Spec => []IndInv
<1>1. QED
  BY InitInv, NextInv, PTL DEF Spec

\* Every variable keeps its type.  (An execute whose p_id would be MAX_PROGS is
\* the step XOverrun; before it next_p_id is never above that, nor below 0.)
THEOREM TypeCorrect == Spec => []TypeOK
<1>1. IndInv => TypeOK
  BY DEF IndInv
<1>2. QED
  BY Invariance, <1>1, PTL

\* Every thread the scheduler can be asked to resume has had its stack pointer
\* saved by the do_switch that left it (schedule.c).
THEOREM ContextsSaved == Spec => []SavedContexts
<1>1. IndInv => SavedContexts
  BY DEF IndInv
<1>2. QED
  BY Invariance, <1>1, PTL

\* The PCBs of each terminal are linked as a stack whose height agrees with
\* next_p_id, through execute_func, halt_func and shells started again.
THEOREM StacksOfProcesses == Spec => []ProcessStack
<1>1. IndInv => ProcessStack
  BY DEF IndInv
<1>2. QED
  BY Invariance, <1>1, PTL

\* Whenever the CPU is in user mode the TSS names the kernel stack of the
\* running process (buglog.txt, Checkpoint 3, 3).
THEOREM OwnKernelStack == Spec => []EntersOnOwnStack
<1>1. IndInv => EntersOnOwnStack
  BY HasProcess DEF IndInv, TssInv, EntersOnOwnStack, Fresh, Loading
<1>2. QED
  BY Invariance, <1>1, PTL

\* No interleaving makes a terminal run on, or load a file into, a page of
\* another terminal (file_desc.c, swap_pages).
THEOREM OwnPages == Spec => []TerminalIsolation
<1>1. IndInv => TerminalIsolation
  BY HasProcess DEF IndInv, PageInv, TerminalIsolation, Loading
<1>2. QED
  BY Invariance, <1>1, PTL

\* execute returns 256 exactly after a program that an exception ended
\* (syscalls.c:122-128).
THEOREM StatusReturned == Spec => []HaltStatus
<1>1. IndInv => HaltStatus
  BY DEF IndInv, RetInv, HaltStatus
<1>2. QED
  BY Invariance, <1>1, PTL

\* Only the terminal on the screen writes to video memory through its vidmap
\* page, except while switch_vidmap is at work (schedule.c:176-183).
THEOREM ScreenShared == Spec => []OneOnScreen
<1>1. IndInv => OneOnScreen
  BY DEF IndInv, TypeOK, ScreenInv, OneOnScreen
<1>2. QED
  BY Invariance, <1>1, PTL

\* An interrupt taken inside a switch never changes what the switch is moving:
\* the try lock makes the nested tick or key do nothing (schedule.c:107-174).
THEOREM SwitchesAtomic == Spec => SwitchAtomic
<1> DEFINE Kept == InHandler /\ InHandler' => /\ mode' = mode
                                              /\ UNCHANGED <<cpuVars, memVars, progVars,
                                                             dispVars>>
<1>1. IndInv /\ [Next]_vars => [Kept]_vars
  <2> SUFFICES ASSUME IndInv, Next, InHandler, InHandler' PROVE Kept
    OBVIOUS
  <2> USE DEF InHandler, cpuVars, memVars, progVars, dispVars
  <2>1. CASE Execute
    BY <2>1 DEF Execute, XCheck, XRefuse, XFail, XOverrun, XMap, XLoad, XPcb, XCount,
                XStore, XTss, XIret, At
  <2>2. CASE Halt
    BY <2>2 DEF Halt, HCount, HStore, HSwap, HParent, HReturn, At
  <2>3. CASE User
    BY <2>3 DEF User, ExecSyscall, HaltSyscall, Exception, At
  <2>4. CASE Interrupt
    <3>1. switch_lock = 1
      BY DEF IndInv, LockInv, Crashes
    <3>2. ~Tick /\ ~(\E d \in Terms : AltF(d))
      BY <3>1 DEF Tick, AltF, TryLock
    <3>3. QED
      BY <2>4, <3>2 DEF Interrupt, TickSkip
  <2>5. CASE Handler
    BY <2>5 DEF Handler, Resume, ResumeLost, Display, StartTerm
  <2>6. CASE Crashed
    BY <2>6 DEF Crashed, Crashes
  <2>7. QED
    BY <2>1, <2>2, <2>3, <2>4, <2>5, <2>6 DEF Next
<1>2. QED
  BY Invariance, <1>1, PTL DEF Spec, SwitchAtomic

-----------------------------------------------------------------------------
\* The refinement of ProcStacks.

\* Who is on top of each stack decides the depths ProcStacks sees.
LEMMA SameTops ==
  ASSUME UNCHANGED active_progs PROVE \A t \in Terms : Depth(t)' = Depth(t)
BY DEF Depth

\* The steps that are not stuttering of ProcStacks: XPcb is its Execute, unless a
\* first shell takes its own place again,
LEMMA XPcbRefines == IndInv /\ XPcb => [Stacks!Next]_Stacks!vars
<1> SUFFICES ASSUME IndInv, XPcb PROVE [Stacks!Next]_Stacks!vars
  OBVIOUS
<1>1. /\ curr_term \in Terms /\ curr_term' = curr_term
      /\ new_p_id \in 0 .. MAX_PROGS - 1
      /\ Depth(curr_term) \in {new_p_id, new_p_id + 1}
      /\ \A t \in Terms : Depth(t)' = IF t = curr_term THEN new_p_id + 1 ELSE Depth(t)
  BY XPcbStep DEF XPcb
<1>2. CASE Depth(curr_term) = new_p_id
  <2> DEFINE depth == [t \in Terms |-> Depth(t)]
  <2>1. depth' = [depth EXCEPT ![curr_term] = @ + 1]
    BY <1>1, <1>2
  <2>2. depth[curr_term] < MAX_PROGS
    BY <1>1, <1>2, MaxProgsAssumption
  <2>3. Stacks!Execute
    BY <1>1, <2>1, <2>2 DEF Stacks!Execute
  <2>4. QED
    BY <2>3 DEF Stacks!Next
<1>3. CASE Depth(curr_term) = new_p_id + 1
  <2>1. \A t \in Terms : Depth(t)' = Depth(t)
    BY <1>1, <1>3
  <2>2. QED
    BY <1>1, <2>1 DEF Stacks!vars
<1>4. QED
  BY <1>1, <1>2, <1>3

\* HParent is its Halt,
LEMMA HParentRefines == IndInv /\ HParent => [Stacks!Next]_Stacks!vars
<1> SUFFICES ASSUME IndInv, HParent PROVE Stacks!Halt
  BY DEF Stacks!Next
<1> DEFINE depth == Depth(curr_term)
<1>1. curr_term \in Terms /\ pc[curr_term] = "h_flush" /\ curr_term' = curr_term
  BY DEF IndInv, TypeOK, HParent, At
<1>2. curr_pcb_ptr # NULL
  BY <1>1, HasProcess DEF Loading
<1>3. depth > 1 /\ depth \in 0 .. MAX_PROGS
  BY <1>1, TopFact DEF IndInv, PlaceInv
<1>4. pcb[curr_pcb_ptr].parent = <<curr_term, depth - 2>>
  BY <1>2, <1>3, CurrFact
<1>5. <<curr_term, depth - 2>> \in Pid /\ <<curr_term, depth - 2>> # NULL
  BY <1>1, <1>3, PidFact, NullAssumption, MaxProgsAssumption
<1>6. /\ active_progs' = [active_progs EXCEPT ![curr_term] = <<curr_term, depth - 2>>]
      /\ active_progs \in [Terms -> Pid \cup {NULL}]
  BY <1>4 DEF HParent, IndInv, TypeOK
<1> HIDE DEF depth
<1>7. Depth(curr_term)' = depth - 1
  BY <1>1, <1>3, <1>5, <1>6 DEF Depth
<1>8. \A t \in Terms : t # curr_term => Depth(t)' = Depth(t)
  BY <1>6 DEF Depth
<1>9. QED
  BY <1>1, <1>3, <1>7, <1>8 DEF Stacks!Halt, depth

\* and a change of thread is its Switch.
LEMMA SwitchRefines ==
  IndInv /\ (Tick \/ StartTerm) => [Stacks!Next]_Stacks!vars
<1> SUFFICES ASSUME IndInv, Tick \/ StartTerm PROVE Stacks!Next
  OBVIOUS
<1>1. active_progs' = active_progs
  BY SaveFact DEF Tick, StartTerm
<1>2. \A t \in Terms : Depth(t)' = Depth(t)
  BY <1>1, SameTops
<1>3. curr_term' \in Terms
  BY DEF Tick, StartTerm, IndInv, TypeOK
<1>4. Stacks!Switch(curr_term')
  BY <1>2 DEF Stacks!Switch
<1>5. QED
  BY <1>3, <1>4 DEF Stacks!Next, Stacks!Terms, Terms

\* All other steps leave both of its variables alone.
LEMMA StutterRefines ==
  ASSUME UNCHANGED <<active_progs, curr_term>> PROVE UNCHANGED Stacks!vars
BY SameTops DEF Stacks!vars

\* Scheduling, executing and halting together implement the stacks of processes
\* that ProcStacks specifies, whatever the interrupts do.
THEOREM Refinement == Spec => ImplementsProcStacks
<1>1. Init => Stacks!Init
  BY DEF Init, Stacks!Init, Stacks!Terms, Terms, Depth
<1>2. IndInv /\ [Next]_vars => [Stacks!Next]_Stacks!vars
  <2> SUFFICES ASSUME IndInv, [Next]_vars PROVE [Stacks!Next]_Stacks!vars
    OBVIOUS
  <2> USE DEF cpuVars, progVars
  <2>1. CASE Execute
    <3>1. CASE XPcb
      BY <3>1, XPcbRefines
    <3>2. CASE ~XPcb
      <4>1. UNCHANGED <<active_progs, curr_term>>
        BY <2>1, <3>2 DEF Execute, XCheck, XRefuse, XFail, XOverrun, XMap, XLoad,
                          XCount, XStore, XTss, XIret
      <4>2. QED
        BY <4>1, StutterRefines
    <3>3. QED
      BY <3>1, <3>2
  <2>2. CASE Halt
    <3>1. CASE HParent
      BY <3>1, HParentRefines
    <3>2. CASE ~HParent
      <4>1. UNCHANGED <<active_progs, curr_term>>
        BY <2>2, <3>2 DEF Halt, HCount, HStore, HSwap, HReturn
      <4>2. QED
        BY <4>1, StutterRefines
    <3>3. QED
      BY <3>1, <3>2
  <2>3. CASE Tick \/ StartTerm
    BY <2>3, SwitchRefines
  <2>4. CASE User \/ TickSkip \/ (\E d \in Terms : AltF(d)) \/ Resume \/ ResumeLost \/ Display
    <3>1. UNCHANGED <<active_progs, curr_term>>
      BY <2>4 DEF User, ExecSyscall, HaltSyscall, Exception, TickSkip, AltF, Resume,
                  ResumeLost, Display
    <3>2. QED
      BY <3>1, StutterRefines
  <2>5. CASE Crashed \/ UNCHANGED vars
    <3>1. UNCHANGED <<active_progs, curr_term>>
      BY <2>5 DEF Crashed, vars
    <3>2. QED
      BY <3>1, StutterRefines
  <2>6. QED
    BY <2>1, <2>2, <2>3, <2>4, <2>5 DEF Next, Interrupt, Handler
<1>3. QED
  BY Invariance, <1>1, <1>2, PTL DEF Spec, ImplementsProcStacks, Stacks!Spec
=============================================================================
