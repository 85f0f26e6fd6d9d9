------------------------------- MODULE Sched -------------------------------
(***************************************************************************)
(* Program execution and scheduling on the single CPU: execute, halt, the  *)
(* PIT scheduler, the Alt+F terminal switch, and the try lock both share.  *)
(*                                                                         *)
(* A terminal is one thread of control: curr_term and curr_pcb_ptr are     *)
(* saved and restored by do_switch, so the code between two switches is    *)
(* run by the thread of terminal curr_term.  pc[t] says where that thread  *)
(* is, at the granularity of the points where an interrupt can be taken.   *)
(* Exceptions and interrupts come through interrupt gates (IF = 0), system *)
(* calls through a trap gate (IF = 1).  Each critical section ends with    *)
(*     sti(); restore_flags(flags);                                        *)
(* and the popfl comes at least one instruction after the one that sti     *)
(* shadows, so an interrupt can be taken there even when the caller runs   *)
(* with IF = 0: the locations in Windows.                                  *)
(***************************************************************************)
EXTENDS Integers, FiniteSets

CONSTANTS NUM_TERMS,   \* globals.h: number of terminals
          MAX_PROGS,   \* globals.h: programs that may run at once
          WORD,        \* unsigned ints are modulo WORD (2^32 in the code)
          NULL

Terms == 0 .. NUM_TERMS - 1

\* Process p of terminal t.  Its PCB, kernel stack and program page are all
\* at offset p + t * MAX_PROGS of their areas, so one name stands for each.
Pid == Terms \X (0 .. MAX_PROGS - 1)

ASSUME NumTermsAssumption == NUM_TERMS \in Nat \ {0}
ASSUME MaxProgsAssumption == MAX_PROGS \in Nat \ {0}
ASSUME WordAssumption == WORD \in Nat /\ WORD > MAX_PROGS * NUM_TERMS + NUM_TERMS
ASSUME NullAssumption == NULL \notin Pid

VARIABLES
  mode,          \* "run", or inside a window of a switch, or crashed
  curr_term,     \* terminal whose thread the CPU runs
  disp_term,     \* terminal on the screen
  curr_pcb_ptr,  \* PCB of the running process
  active_progs,  \* PCB of the process each terminal runs, NULL if none
  next_p_id,     \* p_id the next process of each terminal will get
  total_progs,   \* count of all programs
  halt_retval,   \* what execute returns: 0, or 256 after an exception
  pcb,           \* the process control blocks
  switch_lock,   \* the try lock
  pit_counter,   \* terminal of the next time slice
  page,          \* what page_directory[PD_ENTRY_PROG] maps at 128 MB
  tss_esp0,      \* kernel stack the CPU takes on entry from user mode
  video_table,   \* what each terminal's vidmap page maps
  vdest,         \* argument of the switch_terminals in progress
  pc,            \* location of each terminal's thread
  iflag,         \* IF of each thread
  reg,           \* register between the load and the store of total_progs
  under,         \* threads whose saved frames lie below a thread's own frames
                 \* on the kernel stack it runs on
  clobbered,     \* threads whose saved frames others have since run over
  faulted        \* history: whether an exception ended the last process

cpuVars  == <<mode, curr_term, curr_pcb_ptr>>
memVars  == <<page, tss_esp0>>
progVars == <<active_progs, next_p_id, pcb>>
dispVars == <<disp_term, video_table, vdest>>
thrVars  == <<iflag, reg>>
ctxVars  == <<under, clobbered>>
intVars  == <<switch_lock, pit_counter>>
retVars  == <<halt_retval, faulted>>
vars == <<cpuVars, memVars, progVars, dispVars, pc, thrVars, ctxVars, intVars,
          retVars, total_progs>>

EXCEPTION_RET == 256

Crashes == {"crash_null",   \* do_switch went on with curr_pcb_ptr = NULL
            "crash_stack",  \* a thread resumed on frames run over by another
            "crash_pid"}    \* a p_id of MAX_PROGS: the next terminal's memory

Locations == {"off", "user",
              "x_check", "x_fail", "x_map", "x_flush", "x_pcb",
              "x_count", "x_store", "x_tss", "x_iret",
              "h_count", "h_store", "h_swap", "h_flush", "h_return"}

\* Where the instruction boundary after an sti lies: flush_tlb, push_stack_iret,
\* the end of halt_func, and the terminal_printf before h_count (exceptions)
\* and in x_fail.
Windows == {"x_fail", "x_flush", "x_iret", "h_count", "h_flush", "h_return"}

PCB == [p_id : 0 .. MAX_PROGS - 1, parent_p_id : 0 .. MAX_PROGS - 1,
        parent : Pid \cup {NULL}, ESP0 : Pid \cup {NULL},
        ESP_S : {"stale", "pit", "kb"}]

-----------------------------------------------------------------------------
\* Bug variant: the offset of the terminal's first page is left out.
swap_pages_bug(t, p_id) == page' = <<0, p_id>>

\* Map the page of process p_id of terminal t at 128 MB.
swap_pages(t, p_id) == page' = <<t, p_id>>

\* Bug variant: the CPU keeps the kernel stack it had.
UseStackOf_bug(p) == UNCHANGED tss_esp0

\* tss.esp0 = curr_pcb_ptr->ESP0
UseStackOf(p) == tss_esp0' = pcb[p].ESP0

\* Bug variant: the p_id of a program that ended is not used again.
GiveBackPid_bug == UNCHANGED next_p_id

\* next_p_id[curr_term]--
GiveBackPid == next_p_id' = [next_p_id EXCEPT ![curr_term] = @ - 1]

\* Bug variant: an old return value is left for the next program.
ClearRetval_bug ==
  /\ UNCHANGED halt_retval
  /\ faulted' = [faulted EXCEPT ![curr_term] = FALSE]

\* halt_retval[curr_term] = 0
ClearRetval ==
  /\ halt_retval' = [halt_retval EXCEPT ![curr_term] = 0]
  /\ faulted' = [faulted EXCEPT ![curr_term] = FALSE]

\* The thread of curr_term is at location l, outside every handler's window.
At(l) == mode = "run" /\ pc[curr_term] = l

Goto(l) == pc' = [pc EXCEPT ![curr_term] = l]

SetIF(b) == iflag' = [iflag EXCEPT ![curr_term] = b]

\* execute_func was called by do_switch or by entry, by halt_func, or by a
\* system call.
Starting == curr_pcb_ptr = NULL
Restarting == curr_pcb_ptr # NULL /\ next_p_id[curr_term] = 0

\* An interrupt can be taken.  halt_func prints before it calls execute_func
\* again, so that call is preceded by the window of terminal_printf.
Interruptible ==
  /\ mode = "run"
  /\ \/ pc[curr_term] \in Windows \cup {"user"}
     \/ iflag[curr_term]
     \/ pc[curr_term] = "x_check" /\ Restarting

\* A handler has a window too, in the flush it does with the lock held.
InHandler == mode \in {"switch", "switch_vid"}

-----------------------------------------------------------------------------
\* execute_func and the system call that enters it

\* A user program calls execute.
ExecSyscall ==
  /\ At("user")
  /\ Goto("x_check")
  /\ SetIF(TRUE)
  /\ UNCHANGED <<cpuVars, memVars, progVars, dispVars, reg, ctxVars, intVars,
                 retVars, total_progs>>

\* The program count and the file are fine.
XCheck ==
  /\ At("x_check")
  /\ total_progs < MAX_PROGS
  /\ Goto("x_map")
  /\ UNCHANGED <<cpuVars, memVars, progVars, dispVars, thrVars, ctxVars,
                 intVars, retVars, total_progs>>

\* Too many programs, or a user's file is missing or not executable: -1.
\* halt_func's loop just calls again, which changes nothing.
XRefuse ==
  /\ At("x_check")
  /\ ~Restarting
  /\ total_progs >= MAX_PROGS \/ ~Starting
  /\ Goto(IF Starting THEN "x_fail" ELSE "user")
  /\ SetIF(~Starting \/ iflag[curr_term])
  /\ UNCHANGED <<cpuVars, memVars, progVars, dispVars, reg, ctxVars, intVars,
                 retVars, total_progs>>

\* do_switch goes on after a refused execute_func: it reads ESP0, p_id and
\* the stack pointers of the process at address 0.
XFail ==
  /\ At("x_fail")
  /\ mode' = "crash_null"
  /\ UNCHANGED <<curr_term, curr_pcb_ptr, memVars, progVars, dispVars, pc,
                 thrVars, ctxVars, intVars, retVars, total_progs>>

\* The page of a p_id of MAX_PROGS is process 0 of the next terminal, and so
\* are its PCB and kernel stack.
XOverrun ==
  /\ At("x_map")
  /\ next_p_id[curr_term] >= MAX_PROGS
  /\ mode' = "crash_pid"
  /\ UNCHANGED <<curr_term, curr_pcb_ptr, memVars, progVars, dispVars, pc,
                 thrVars, ctxVars, intVars, retVars, total_progs>>

\* Map the new program's page.
XMap ==
  /\ At("x_map")
  /\ next_p_id[curr_term] < MAX_PROGS
  /\ page' = <<curr_term, next_p_id[curr_term]>>
  /\ Goto("x_flush")
  /\ UNCHANGED <<cpuVars, tss_esp0, progVars, dispVars, thrVars,
                 ctxVars, intVars, retVars, total_progs>>

\* Load the file at 128 MB: into the page that is mapped now.  What the pages
\* hold is not modelled.
XLoad ==
  /\ At("x_flush")
  /\ Goto("x_pcb")
  /\ UNCHANGED <<cpuVars, memVars, progVars, dispVars, thrVars,
                 ctxVars, intVars, retVars, total_progs>>

PCB_init(old) ==
  LET child == curr_pcb_ptr # NULL /\ next_p_id[curr_term] # 0
  IN  [old EXCEPT !.p_id = IF child THEN next_p_id[curr_term] ELSE 0,
                  !.parent_p_id = IF child THEN next_p_id[curr_term] - 1 ELSE 0,
                  !.parent = IF child THEN curr_pcb_ptr ELSE NULL]

\* Fill the PCB and make it the terminal's current process.
XPcb ==
  /\ At("x_pcb")
  /\ LET new == <<curr_term, next_p_id[curr_term]>>
     IN  /\ pcb' = [pcb EXCEPT ![new] = PCB_init(@)]
         /\ curr_pcb_ptr' = new
         /\ active_progs' = [active_progs EXCEPT ![curr_term] = new]
  /\ next_p_id' = [next_p_id EXCEPT ![curr_term] = @ + 1]
  /\ Goto("x_count")
  /\ UNCHANGED <<mode, curr_term, memVars, dispVars, thrVars, ctxVars, intVars,
                 retVars, total_progs>>

\* total_progs++ loads ...
XCount ==
  /\ At("x_count")
  /\ reg' = [reg EXCEPT ![curr_term] = total_progs]
  /\ Goto("x_store")
  /\ UNCHANGED <<cpuVars, memVars, progVars, dispVars, iflag, ctxVars, intVars,
                 retVars, total_progs>>

\* ... and stores.
XStore ==
  /\ At("x_store")
  /\ total_progs' = (reg[curr_term] + 1) % WORD
  /\ reg' = [reg EXCEPT ![curr_term] = 0]
  /\ Goto("x_tss")
  /\ UNCHANGED <<cpuVars, memVars, progVars, dispVars, iflag, ctxVars, intVars,
                 retVars>>

\* The kernel stack of the new process, and a clean return value.
XTss ==
  /\ At("x_tss")
  /\ LET stack == <<curr_term, next_p_id[curr_term] - 1>>
     IN  /\ pcb' = [pcb EXCEPT ![curr_pcb_ptr].ESP0 = stack]
         /\ tss_esp0' = stack
  /\ ClearRetval
  /\ Goto("x_iret")
  /\ UNCHANGED <<cpuVars, page, active_progs, next_p_id, dispVars,
                 thrVars, ctxVars, intVars, total_progs>>

\* push_stack_iret enters the program.  From here on the thread enters the
\* kernel on its own stack.
XIret ==
  /\ At("x_iret")
  /\ Goto("user")
  /\ SetIF(TRUE)
  /\ under' = [under EXCEPT ![curr_term] = {}]
  /\ UNCHANGED <<cpuVars, memVars, progVars, dispVars, reg, clobbered, intVars,
                 retVars, total_progs>>

-----------------------------------------------------------------------------
\* halt_func, entered by the system call or by an exception of the program

HaltSyscall ==
  /\ At("user")
  /\ Goto("h_count")
  /\ SetIF(TRUE)
  /\ faulted' = [faulted EXCEPT ![curr_term] = FALSE]
  /\ UNCHANGED <<cpuVars, memVars, progVars, dispVars, reg, ctxVars, intVars,
                 halt_retval, total_progs>>

\* squash_user_prog
Exception ==
  /\ At("user")
  /\ halt_retval' = [halt_retval EXCEPT ![curr_term] = EXCEPTION_RET]
  /\ Goto("h_count")
  /\ SetIF(FALSE)
  /\ faulted' = [faulted EXCEPT ![curr_term] = TRUE]
  /\ UNCHANGED <<cpuVars, memVars, progVars, dispVars, reg, ctxVars, intVars,
                 total_progs>>

\* total_progs-- loads ...
HCount ==
  /\ At("h_count")
  /\ reg' = [reg EXCEPT ![curr_term] = total_progs]
  /\ Goto("h_store")
  /\ UNCHANGED <<cpuVars, memVars, progVars, dispVars, iflag, ctxVars, intVars,
                 retVars, total_progs>>

\* ... and stores.  Then the p_id is given back, and a terminal's first
\* shell is started again rather than ended.
HStore ==
  /\ At("h_store")
  /\ total_progs' = (reg[curr_term] - 1) % WORD
  /\ reg' = [reg EXCEPT ![curr_term] = 0]
  /\ GiveBackPid
  /\ Goto(IF pcb[curr_pcb_ptr].parent = NULL THEN "x_check" ELSE "h_swap")
  /\ UNCHANGED <<cpuVars, memVars, active_progs, pcb, dispVars, iflag, ctxVars,
                 intVars, retVars>>

\* get_parent_PCB maps the parent's page first.
HSwap ==
  /\ At("h_swap")
  /\ swap_pages(curr_term, pcb[curr_pcb_ptr].parent_p_id)
  /\ Goto("h_flush")
  /\ SetIF(FALSE)
  /\ UNCHANGED <<cpuVars, tss_esp0, progVars, dispVars, reg, ctxVars,
                 intVars, retVars, total_progs>>

\* The parent becomes the terminal's process and gets its kernel stack back.
HParent ==
  /\ At("h_flush")
  /\ LET parent == pcb[curr_pcb_ptr].parent
     IN  /\ curr_pcb_ptr' = parent
         /\ active_progs' = [active_progs EXCEPT ![curr_term] = parent]
         /\ UseStackOf(parent)
  /\ Goto("h_return")
  /\ UNCHANGED <<mode, curr_term, page, next_p_id, pcb, dispVars,
                 thrVars, ctxVars, intVars, retVars, total_progs>>

\* jmp RETURN_HERE: the parent's execute returns halt_retval.
HReturn ==
  /\ At("h_return")
  /\ ClearRetval
  /\ Goto("user")
  /\ SetIF(TRUE)
  /\ UNCHANGED <<cpuVars, memVars, progVars, dispVars, reg, ctxVars, intVars,
                 total_progs>>

-----------------------------------------------------------------------------
\* Bug variants: the stack pointer is not saved; the displayed terminal is
\* taken for the running one.
SaveCurrent_noesp(via) ==
  /\ UNCHANGED pcb
  /\ active_progs' = [active_progs EXCEPT ![curr_term] = curr_pcb_ptr]

SaveCurrent_disp(via) ==
  /\ pcb' = IF curr_pcb_ptr = NULL THEN pcb
            ELSE [pcb EXCEPT ![curr_pcb_ptr].ESP_S = via]
  /\ active_progs' = [active_progs EXCEPT ![disp_term] = curr_pcb_ptr]

\* do_switch up to the lazy start: save the interrupted thread in its PCB.
\* With curr_pcb_ptr = NULL it is saved at address 0, and never found again.
SaveCurrent(via) ==
  /\ pcb' = IF curr_pcb_ptr = NULL THEN pcb
            ELSE [pcb EXCEPT ![curr_pcb_ptr].ESP_S = via]
  /\ active_progs' = [active_progs EXCEPT ![curr_term] = curr_pcb_ptr]

\* Bug variants: no lock; a lock that is never released.
TryLock_bug == TRUE
Unlock_bug == UNCHANGED switch_lock

\* The try lock: switch_terminals and schedule do nothing unless it is free.
Unlock == switch_lock' = 0
TryLock == switch_lock = 0

\* pit_handler: schedule() finds a program to run and the lock free.
\* do_switch takes its state from the new PCB, up to the flush in swap_pages.
Tick ==
  /\ Interruptible \/ InHandler
  /\ active_progs[pit_counter] # NULL
  /\ TryLock
  /\ switch_lock' = 1
  /\ SaveCurrent("pit")
  /\ curr_pcb_ptr' = active_progs'[pit_counter]
  /\ curr_term' = pit_counter
  /\ UseStackOf(curr_pcb_ptr')
  /\ swap_pages(pit_counter, pcb[curr_pcb_ptr'].p_id)
  /\ pc' = IF curr_pcb_ptr = NULL THEN [pc EXCEPT ![curr_term] = "off"] ELSE pc
  /\ mode' = "switch"
  /\ UNCHANGED <<next_p_id, dispVars, thrVars, ctxVars, pit_counter,
                 retVars, total_progs>>

\* Bug variant: no wrap after the last terminal's slot.
NextSlot_bug == pit_counter + 1

NextSlot == (pit_counter + 1) % NUM_TERMS

\* pit_handler with no program in this slot, or with the lock taken: the tick
\* came in the window of another handler's flush.
TickSkip ==
  /\ Interruptible \/ InHandler
  /\ active_progs[pit_counter] = NULL \/ ~TryLock
  /\ pit_counter' = NextSlot
  /\ UNCHANGED <<cpuVars, memVars, progVars, dispVars, pc, thrVars, ctxVars,
                 switch_lock, retVars, total_progs>>

\* The end of do_switch loads the stack pointers: the thread goes on where it
\* was interrupted, and may run over frames that others saved below it.  A
\* thread saved by a tick also returns through pit_handler.
Resume ==
  /\ mode = "switch"
  /\ mode' = "run"
  /\ pcb' = [pcb EXCEPT ![curr_pcb_ptr].ESP_S = "stale"]
  /\ pit_counter' = IF pcb[curr_pcb_ptr].ESP_S = "pit"
                    THEN NextSlot ELSE pit_counter
  /\ Unlock
  /\ clobbered' = (clobbered \cup {t \in Terms : curr_term \in under[t]})
                    \ {curr_term}
  /\ UNCHANGED <<curr_term, curr_pcb_ptr, memVars, active_progs, next_p_id,
                 dispVars, pc, thrVars, under, retVars, total_progs>>

\* What is on those frames decides what a clobbered thread does; here, that
\* it does not survive.
ResumeLost ==
  /\ mode = "switch"
  /\ curr_term \in clobbered \/ pcb[curr_pcb_ptr].ESP_S \notin {"pit", "kb"}
  /\ mode' = "crash_stack"
  /\ UNCHANGED <<curr_term, curr_pcb_ptr, memVars, progVars, dispVars, pc,
                 thrVars, ctxVars, intVars, retVars, total_progs>>

-----------------------------------------------------------------------------
\* Bug variant: the terminal that leaves the screen keeps its mapping.
switch_vidmap_bug(d) == video_table' = [video_table EXCEPT ![d] = "VIDEO"]

switch_vidmap(d) ==
  video_table' = [video_table EXCEPT ![disp_term] = "buffer", ![d] = "VIDEO"]

\* get_c_keyboard: Alt+F for a terminal not on the screen, with the lock free,
\* up to the flush in switch_vidmap.  With the lock taken the key is dropped.
AltF(d) ==
  /\ Interruptible \/ InHandler
  /\ disp_term # d
  /\ TryLock
  /\ switch_lock' = 1
  /\ switch_vidmap(d)
  /\ vdest' = d
  /\ mode' = "switch_vid"
  /\ UNCHANGED <<curr_term, curr_pcb_ptr, memVars, progVars, disp_term, pc,
                 thrVars, ctxVars, pit_counter, retVars, total_progs>>

\* The terminal has a program: only the screen changes.
Display ==
  /\ mode = "switch_vid"
  /\ active_progs[vdest] # NULL
  /\ disp_term' = vdest
  /\ vdest' = 0
  /\ Unlock
  /\ mode' = "run"
  /\ UNCHANGED <<curr_term, curr_pcb_ptr, memVars, progVars, video_table, pc,
                 thrVars, ctxVars, pit_counter, retVars, total_progs>>

\* The terminal has none: do_switch to it frees the lock and runs the shell's
\* execute_func on the interrupted thread's kernel stack, with IF = 0.
StartTerm ==
  /\ mode = "switch_vid"
  /\ active_progs[vdest] = NULL
  /\ disp_term' = vdest
  /\ vdest' = 0
  /\ SaveCurrent("kb")
  /\ curr_term' = vdest
  /\ curr_pcb_ptr' = active_progs'[vdest]
  /\ pc' = [t \in Terms |->
              IF t = vdest THEN "x_check"
              ELSE IF t = curr_term /\ curr_pcb_ptr = NULL THEN "off" ELSE pc[t]]
  /\ iflag' = [iflag EXCEPT ![vdest] = FALSE]
  /\ under' = [under EXCEPT ![vdest] =
                 under[curr_term] \cup
                   (IF curr_pcb_ptr = NULL THEN {} ELSE {curr_term})]
  /\ clobbered' = clobbered \ {vdest}
  /\ Unlock
  /\ mode' = "run"
  /\ UNCHANGED <<memVars, next_p_id, video_table, reg, pit_counter, retVars,
                 total_progs>>

\* After a crash anything may happen; the model stays.
Crashed == mode \in Crashes /\ UNCHANGED vars

-----------------------------------------------------------------------------
\* entry() after init_terminals: execute_func("shell") on the boot stack, with
\* the PIT already ticking.
Init ==
  /\ mode = "run"
  /\ curr_term = 0
  /\ disp_term = 0
  /\ curr_pcb_ptr = NULL
  /\ active_progs = [t \in Terms |-> NULL]
  /\ next_p_id = [t \in Terms |-> 0]
  /\ total_progs = 0
  /\ halt_retval = [t \in Terms |-> 0]
  /\ pcb = [p \in Pid |-> [p_id |-> 0, parent_p_id |-> 0, parent |-> NULL,
                           ESP0 |-> NULL, ESP_S |-> "stale"]]
  /\ switch_lock = 0
  /\ pit_counter \in Terms
  /\ page = NULL
  /\ tss_esp0 = NULL
  /\ video_table = [t \in Terms |-> "VIDEO"]
  /\ vdest = 0
  /\ pc = [t \in Terms |-> IF t = 0 THEN "x_check" ELSE "off"]
  /\ iflag = [t \in Terms |-> t = 0]
  /\ reg = [t \in Terms |-> 0]
  /\ under = [t \in Terms |-> {}]
  /\ clobbered = {}
  /\ faulted = [t \in Terms |-> FALSE]

Execute == \/ XCheck \/ XRefuse \/ XFail \/ XOverrun \/ XMap \/ XLoad \/ XPcb
           \/ XCount \/ XStore \/ XTss \/ XIret

Halt == HCount \/ HStore \/ HSwap \/ HParent \/ HReturn

User == ExecSyscall \/ HaltSyscall \/ Exception

Interrupt == \/ Tick \/ TickSkip
             \/ \E d \in Terms : AltF(d)

Handler == Resume \/ ResumeLost \/ Display \/ StartTerm

Next == Execute \/ Halt \/ User \/ Interrupt \/ Handler \/ Crashed

Spec == Init /\ [][Next]_vars

\* The CPU always goes on; the PIT keeps ticking; a program may compute for
\* ever in user mode and nobody has to press a key.
FairSpec ==
  Spec /\ WF_vars(Execute \/ Halt \/ Handler) /\ SF_vars(Tick \/ TickSkip)
-----------------------------------------------------------------------------
TypeOK ==
  /\ mode \in {"run", "switch", "switch_vid"} \cup Crashes
  /\ curr_term \in Terms
  /\ disp_term \in Terms
  /\ curr_pcb_ptr \in Pid \cup {NULL}
  /\ active_progs \in [Terms -> Pid \cup {NULL}]
  /\ next_p_id \in [Terms -> 0 .. MAX_PROGS]
  /\ total_progs \in 0 .. WORD - 1
  /\ halt_retval \in [Terms -> {0, EXCEPTION_RET}]
  /\ pcb \in [Pid -> PCB]
  /\ switch_lock \in {0, 1}
  /\ pit_counter \in Terms
  /\ page \in Pid \cup {NULL}
  /\ tss_esp0 \in Pid \cup {NULL}
  /\ video_table \in [Terms -> {"VIDEO", "buffer"}]
  /\ vdest \in Terms
  /\ pc \in [Terms -> Locations]
  /\ iflag \in [Terms -> BOOLEAN]
  /\ reg \in [Terms -> 0 .. WORD - 1]
  /\ under \in [Terms -> SUBSET Terms]
  /\ clobbered \subseteq Terms
  /\ faulted \in [Terms -> BOOLEAN]

\* No interrupt, at any instruction boundary, disturbs a switch under way: the
\* registers and tables do_switch is moving stay as they are until it ends.
\* (buglog.txt, Checkpoint 5, 3: the lock around switch_terminals and schedule)
SwitchAtomic ==
  [][InHandler /\ InHandler' => /\ mode' = mode
                                /\ UNCHANGED <<cpuVars, memVars, progVars,
                                               dispVars>>]_vars

\* Whoever does not run can be resumed: the PCB the scheduler will find for it
\* holds a stack pointer saved by its last switch.  (schedule.c, do_switch)
Waiting(t) == /\ pc[t] # "off"
              /\ mode \notin Crashes
              /\ t = curr_term => mode = "switch"

SavedContexts ==
  \A t \in Terms : Waiting(t) => /\ active_progs[t] # NULL
                                 /\ pcb[active_progs[t]].ESP_S \in {"pit", "kb"}

\* The processes of a terminal are a stack: the PCBs under the active one link
\* back, p_id by p_id, to a first shell, and next_p_id is the next to be used.
\* (buglog.txt, Checkpoint 4, 3: p_ids given back by halt)
Depth(t) == IF active_progs[t] = NULL THEN 0 ELSE active_progs[t][2] + 1

Links(t) ==
  \A i \in 0 .. Depth(t) - 1 :
    /\ pcb[<<t, i>>].p_id = i
    /\ pcb[<<t, i>>].parent = IF i = 0 THEN NULL ELSE <<t, i - 1>>
    /\ pcb[<<t, i>>].parent_p_id = IF i = 0 THEN 0 ELSE i - 1

\* Between the decrement in halt_func and the parent, or the shell started
\* again, next_p_id is one less.
Ending(t) == \/ pc[t] \in {"h_swap", "h_flush"}
             \/ /\ pc[t] \in {"x_check", "x_map", "x_flush", "x_pcb"}
                /\ next_p_id[t] = 0

ProcessStack ==
  \A t \in Terms :
    /\ active_progs[t] # NULL => active_progs[t][1] = t
    /\ Links(t)
    /\ next_p_id[t] = IF Depth(t) > 0 /\ Ending(t) THEN Depth(t) - 1
                      ELSE Depth(t)

\* In user mode the CPU will enter the kernel on the running process's own
\* kernel stack.  (buglog.txt, Checkpoint 3, 3)
EntersOnOwnStack ==
  mode \notin Crashes /\ pc[curr_term] = "user" =>
    curr_pcb_ptr # NULL /\ tss_esp0 = curr_pcb_ptr

\* A terminal's programs run on, and are loaded into, pages of that terminal
\* only, wherever the scheduler was let in.  (file_desc.c, swap_pages)
TerminalIsolation ==
  mode \notin Crashes /\ pc[curr_term] \in {"user", "x_flush"} =>
    page \in {curr_term} \X (0 .. MAX_PROGS - 1)

\* execute returns 256 exactly when the program it ran was ended by an
\* exception, whatever ran and ended in between.  (syscalls.c:122-128)
HaltStatus ==
  \A t \in Terms :
    /\ pc[t] = "user" => halt_retval[t] = 0
    /\ pc[t] = "h_return" =>
         (halt_retval[t] = EXCEPTION_RET <=> faulted[t])

\* Outside switch_vidmap, the terminal on the screen and no other one writes
\* to video memory through its vidmap page.  (schedule.c:176-183)
OneOnScreen ==
  mode # "switch_vid" =>
    \A t \in Terms : pc[t] # "off" => (video_table[t] = "VIDEO" <=> t = disp_term)

\* Every terminal with a program gets the CPU, if the user does not press Alt+F
\* for ever and not every switch takes as long as a tick.  (Both are needed: a
\* tick inside a switch skips a slot, and a thread that the keyboard switched
\* away from resumes without moving pit_counter on.)  (pit.c, schedule)
TicksSpaced == <>[][InHandler => ~TickSkip]_vars
KeysStop == <>[][\A d \in Terms : ~AltF(d)]_vars

NoStarvation ==
  TicksSpaced /\ KeysStop =>
    \A t \in Terms : active_progs[t] # NULL
                       ~> (mode = "run" /\ curr_term = t) \/ mode \in Crashes

\* The processes of each terminal are the stack that ProcStacks describes.
Stacks == INSTANCE ProcStacks WITH running <- curr_term,
                                   depth <- [t \in Terms |-> Depth(t)]
ImplementsProcStacks == Stacks!Spec

-----------------------------------------------------------------------------
\* The inductive invariant: what holds at each location, of each thread.

\* The lock is held just while a handler is switching.
LockInv == mode \notin Crashes => (switch_lock = 1 <=> InHandler)

\* curr_pcb_ptr is the running terminal's entry of active_progs.
CurrentInv == /\ curr_pcb_ptr = active_progs[curr_term]
              /\ pc[curr_term] # "off"
              /\ mode = "switch" => curr_pcb_ptr # NULL

\* Only a terminal whose first shell is being started runs without a process.
Loading == {"x_check", "x_map", "x_flush", "x_pcb"}

PlaceInv ==
  \A t \in Terms :
    /\ pc[t] \in {"off", "x_fail"} => active_progs[t] = NULL
    /\ active_progs[t] = NULL =>
         /\ pc[t] \in Loading \cup {"off", "x_fail"}
         /\ t # curr_term => pc[t] = "off"
    /\ pc[t] \in {"x_flush", "x_pcb"} => next_p_id[t] < MAX_PROGS
    /\ pc[t] \in {"h_swap", "h_flush"} => Depth(t) > 1

\* A process has its kernel stack from XTss on, and the TSS names it.
Fresh == {"x_count", "x_store", "x_tss"}

StackInv ==
  \A t \in Terms : \A i \in 0 .. Depth(t) - 1 :
    (i < Depth(t) - 1 \/ pc[t] \notin Fresh) => pcb[<<t, i>>].ESP0 = <<t, i>>

TssInv ==
  (curr_pcb_ptr # NULL /\ pc[curr_term] \notin Fresh) => tss_esp0 = curr_pcb_ptr

PageInv ==
  (curr_pcb_ptr # NULL \/ pc[curr_term] \in {"x_flush", "x_pcb"}) =>
    page \in {curr_term} \X (0 .. MAX_PROGS - 1)

RetInv ==
  \A t \in Terms :
    /\ pc[t] \in {"user", "x_iret"} => halt_retval[t] = 0
    /\ pc[t] = "x_check" /\ next_p_id[t] > 0 => halt_retval[t] = 0
    /\ pc[t] \in {"h_count", "h_store", "h_swap", "h_flush", "h_return"} =>
         (halt_retval[t] = EXCEPTION_RET <=> faulted[t])

ScreenInv ==
  LET shown == IF mode = "switch_vid" THEN vdest ELSE disp_term
  IN  /\ video_table[shown] = "VIDEO"
      /\ \A t \in Terms :
           pc[t] # "off" /\ t # shown => video_table[t] = "buffer"

IndInv ==
  /\ TypeOK /\ LockInv /\ CurrentInv /\ PlaceInv /\ ProcessStack /\ StackInv
  /\ TssInv /\ PageInv /\ RetInv /\ ScreenInv /\ SavedContexts

-----------------------------------------------------------------------------
\* What the code's comments say and the runs refute.

\* syscalls.c:79-88: the file is loaded into the new program's page.
LoadsIntoOwnPage ==
  At("x_flush") => page = <<curr_term, next_p_id[curr_term]>>

\* syscalls.c:481: after halt the parent runs again, so on its own page.
ParentPageBack == At("h_return") => page = curr_pcb_ptr

\* syscalls.c:52: no more than MAX_PROGS programs.
Live == {p \in Pid : p[2] < Depth(p[1])}
ProgramLimit == Cardinality(Live) <= MAX_PROGS

\* buglog.txt, Checkpoint 5, 3: switching quickly no longer faults.
NeverNullSwitch == mode # "crash_null"
NeverLostStack == mode # "crash_stack"
=============================================================================
