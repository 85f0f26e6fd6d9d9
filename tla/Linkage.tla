------------------------------ MODULE Linkage ------------------------------
(***************************************************************************)
(* The way into the kernel and back: the gates of the IDT, the system call *)
(* handler, and the global word TEMP through which it hands the return     *)
(* value of a system call to the user program.                             *)
(*                                                                         *)
(* As in Sched, a terminal is one thread of control and pc[t] says where   *)
(* the thread of terminal t is.  Which thread runs is changed by Switch, a *)
(* tick of the PIT that Sched models in full: there SavedContexts shows    *)
(* that a thread goes on where it was interrupted.                         *)
(***************************************************************************)
EXTENDS Integers, Sequences

CONSTANTS NUM_TERMS,   \* globals.h: number of terminals
          MAX_PROGS,   \* globals.h: programs that may run at once
          Calls        \* the system call numbers that each terminal's programs use

Terms == 0 .. NUM_TERMS - 1

ASSUME NumTermsAssumption == NUM_TERMS \in Nat \ {0}
ASSUME MaxProgsAssumption == MAX_PROGS \in Nat \ {0}
ASSUME CallsAssumption == Calls \in [Terms -> SUBSET Int]

VARIABLES
  curr_term,   \* terminal whose thread the CPU runs
  level,       \* p_id of the program each terminal runs
  pc,          \* location of each terminal's thread
  iflag,       \* IF of each thread
  TEMP         \* the word in syscalls_linkage.S: the terminal whose system
               \* call's return value it holds

linkVars == <<curr_term, level, pc, iflag, TEMP>>

\* The functions of the system calls 1 to 10.  A thread dispatched to one is
\* at the location of that name; close and the last four change nothing here.
syscall_jump_table ==
  <<"halt", "execute", "read", "write", "open",
    "other", "other", "other", "other", "other">>

MIN_SYSCALL_NUM == 1
MAX_SYSCALL_NUM == 10

\* The entries of the IDT: exceptions, PIT, keyboard and RTC have interrupt
\* gates of privilege 0, the system call a trap gate that users may call.
PIT_IDT_ENTRY == 32
KB_IDT_ENTRY == 33
RTC_IDT_ENTRY == 40
SYSCALL_ENTRY == 128

IDT ==
  [n \in 0 .. 19 \cup {PIT_IDT_ENTRY, KB_IDT_ENTRY, RTC_IDT_ENTRY, SYSCALL_ENTRY} |->
     IF n = SYSCALL_ENTRY THEN [dpl |-> 3, reserved3 |-> 1]
     ELSE [dpl |-> 0, reserved3 |-> 0]]

\* IF after the CPU has gone through gate n with IF = old.
IFThrough(n, old) == IDT[n].reserved3 = 1 /\ old

At(l) == pc[curr_term] = l
Goto(l) == pc' = [pc EXCEPT ![curr_term] = l]
SetIF(b) == iflag' = [iflag EXCEPT ![curr_term] = b]

\* The function of a system call returns.
Return == Goto("store")

\* The sti before restore_flags lets an interrupt in even with IF = 0: after
\* the message of squash_user_prog and at the end of halt_func.
Windows == {"fault", "h_return"}

Interruptible == iflag[curr_term] \/ pc[curr_term] \in Windows

-----------------------------------------------------------------------------
\* A user program loads n into EAX and executes int 0x80.
Syscall(n) ==
  /\ At("user")
  /\ SetIF(IFThrough(SYSCALL_ENTRY, iflag[curr_term]))
  /\ IF n \in MIN_SYSCALL_NUM .. MAX_SYSCALL_NUM
     THEN Goto(syscall_jump_table[n]) /\ UNCHANGED TEMP
     ELSE Goto("end") /\ TEMP' = curr_term
  /\ UNCHANGED <<curr_term, level>>

\* squash_user_prog, then halt_func(0).
Exception(n) ==
  /\ At("user")
  /\ n \in 0 .. 19
  /\ SetIF(IFThrough(n, iflag[curr_term]))
  /\ Goto("fault")
  /\ UNCHANGED <<curr_term, level, TEMP>>

\* movl %eax, TEMP
StoreTemp == TEMP' = curr_term

Store ==
  /\ At("store")
  /\ StoreTemp
  /\ Goto("end")
  /\ UNCHANGED <<curr_term, level, iflag>>

\* popal; popfl: the flags are those pushed after the gate, so IF is set even
\* if the system call left it clear.
PopFlags ==
  /\ At("end")
  /\ SetIF(IFThrough(SYSCALL_ENTRY, TRUE))
  /\ Goto("load")
  /\ UNCHANGED <<curr_term, level, TEMP>>

\* movl TEMP, %eax; iret.  The program goes on with the value in TEMP.
Load ==
  /\ At("load")
  /\ SetIF(TRUE)
  /\ Goto("user")
  /\ UNCHANGED <<curr_term, level, TEMP>>

\* execute_func: a new program, or -1.  (Sched has the steps.)
Execute ==
  /\ At("execute")
  /\ \/ /\ level[curr_term] < MAX_PROGS - 1
        /\ level' = [level EXCEPT ![curr_term] = @ + 1]
        /\ Goto("user")
     \/ Return /\ UNCHANGED level
  /\ UNCHANGED <<curr_term, iflag, TEMP>>

\* A first shell that halts or faults is started again.
Restart ==
  /\ At("halt") \/ At("fault")
  /\ level[curr_term] = 0
  /\ Goto("user")
  /\ SetIF(TRUE)
  /\ UNCHANGED <<curr_term, level, TEMP>>

\* Any other program ends and its parent's execute returns, in halt_func's
\* critical section.
HaltToParent ==
  /\ At("halt") \/ At("fault")
  /\ level[curr_term] > 0
  /\ level' = [level EXCEPT ![curr_term] = @ - 1]
  /\ Goto("h_return")
  /\ UNCHANGED <<curr_term, iflag, TEMP>>

HaltReturn ==
  /\ At("h_return")
  /\ Goto("store")
  /\ UNCHANGED <<curr_term, level, iflag, TEMP>>

\* A system call that leaves the RTC alone: read, write and open of something
\* else, any close (rtc_close does nothing), getargs, vidmap, set_handler and
\* sigreturn.
Elsewhere ==
  /\ pc[curr_term] \in {"read", "write", "open", "other"}
  /\ Return
  /\ UNCHANGED <<curr_term, level, iflag, TEMP>>

\* A tick gives the CPU to terminal t.
Switch(t) ==
  /\ Interruptible
  /\ t # curr_term
  /\ curr_term' = t
  /\ UNCHANGED <<level, pc, iflag, TEMP>>

-----------------------------------------------------------------------------
\* The first shell of every terminal runs.
LinkInit ==
  /\ curr_term = 0
  /\ level = [t \in Terms |-> 0]
  /\ pc = [t \in Terms |-> "user"]
  /\ iflag = [t \in Terms |-> TRUE]
  /\ TEMP = 0

UserStep ==
  \/ \E n \in Calls[curr_term] : Syscall(n)
  \/ \E n \in 0 .. 19 : Exception(n)

KernelStep ==
  Store \/ PopFlags \/ Load \/ Execute \/ Restart \/ HaltReturn \/ Elsewhere

-----------------------------------------------------------------------------
\* syscalls_linkage.S:62, "EAX will have the return value": when the program
\* goes on, TEMP is what its own system call returned.
OwnReturnValue ==
  [][\A t \in Terms : pc[t] = "load" /\ pc'[t] = "user" => TEMP = t]_linkVars
=============================================================================
