-------------------------------- MODULE Rtc --------------------------------
(***************************************************************************)
(* The RTC driver: one chip that interrupts RTC_HZ times a second, and a   *)
(* virtual RTC for each terminal derived from it.  The chip's registers    *)
(* are reached through an index port and a data port; the programs of all  *)
(* terminals and the interrupt handler share the index.  The interrupt     *)
(* comes through the slave PIC, so the driver's use of both PICs is here.  *)
(*                                                                         *)
(* A register of the chip is its two nibbles, each known by the register   *)
(* it was read from: "A", "B" and "C" are what the chip had there, "PIE"   *)
(* is B's high nibble with bit 6 (periodic interrupts) set, and "MAX" the  *)
(* rate RTC_MAX_Hz.                                                        *)
(***************************************************************************)
EXTENDS Linkage, FiniteSets

CONSTANT RTC_HZ   \* interrupts per second of the chip, a power of two (1024)

ASSUME RtcHzAssumption == RTC_HZ \in Nat /\ RTC_HZ > 1

VARIABLES
  rtc_int,      \* a virtual tick of each terminal has come
  rtc_freq,     \* chip interrupts per virtual tick of each terminal
  rtc_counter,  \* chip interrupts since the last virtual tick
  prev,         \* register A as rtc_open has read it
  cmos,         \* the chip: index port, registers, interrupt flag in C
  pic,          \* both PICs: masked lines, requests, lines in service
  ticked        \* history: a virtual tick since rtc_read began to wait

rtcVars == <<rtc_int, rtc_freq, rtc_counter>>
vars == <<linkVars, rtcVars, prev, cmos, pic, ticked>>

RTC_IRQ_NUM == 8
PIT_IRQ_NUM == 0
KB_IRQ_NUM == 1

DEFAULT_FREQ == RTC_HZ \div 2

\* The rates rtc_write accepts: powers of two from 2 up to the chip's.
Rates == {f \in 2 .. RTC_HZ : \E i \in 1 .. f : f = 2 ^ i /\ RTC_HZ % f = 0}

-----------------------------------------------------------------------------
\* i8259.c.  A PIC is modelled by its sets of masked, requested and
\* in-service lines; an interrupt of the slave is line 2 of the master.

i8259_init == [master |-> 0 .. 7 \ {2}, slave |-> 0 .. 7,
               irr |-> {}, isr |-> {}]

enable_irq(p, irq_num) ==
  IF irq_num \in 0 .. 7 THEN [p EXCEPT !.master = @ \ {irq_num}]
  ELSE IF irq_num \in 8 .. 15 THEN [p EXCEPT !.slave = @ \ {irq_num - 8}]
  ELSE p

disable_irq(p, irq_num) ==
  IF irq_num \in 0 .. 7 THEN [p EXCEPT !.master = @ \cup {irq_num}]
  ELSE IF irq_num \in 8 .. 15 THEN [p EXCEPT !.slave = @ \cup {irq_num - 8}]
  ELSE p

\* Bug variant: only the PIC the line is on is told.
send_eoi_bug(p, irq_num) == [p EXCEPT !.isr = @ \ {irq_num}]

send_eoi(p, irq_num) ==
  IF irq_num \in 8 .. 15 THEN [p EXCEPT !.isr = @ \ {irq_num, 2}]
  ELSE [p EXCEPT !.isr = @ \ {irq_num}]

\* What the PICs do: deliver a request of the RTC, and take it into service.
Delivers(p) == /\ RTC_IRQ_NUM \in p.irr
               /\ RTC_IRQ_NUM - 8 \notin p.slave /\ 2 \notin p.master
               /\ RTC_IRQ_NUM \notin p.isr /\ 2 \notin p.isr

Acknowledge(p) == [p EXCEPT !.irr = @ \ {RTC_IRQ_NUM},
                            !.isr = @ \cup {RTC_IRQ_NUM, 2}]

-----------------------------------------------------------------------------
\* The chip behind INDEX_PORT and RTC_PORT_RW.  The NMI bit that the code sets
\* and clears in the index port is left out: writing it back with the index
\* that was read there leaves the index as it is.

Select(c, r) == [c EXCEPT !.index = r]
Read(c) == c.regs[c.index]

\* Register C is read only, and reading it clears the interrupt flag.
AfterRead(c) == IF c.index = "C" THEN [c EXCEPT !.cflag = FALSE] ELSE c
Write(c, v) == IF c.index = "C" THEN c ELSE [c EXCEPT !.regs[c.index] = v]

PowerOn == [index |-> "A", cflag |-> FALSE,
            regs |-> [r \in {"A", "B", "C"} |-> [hi |-> r, lo |-> r]]]

\* (prev & RTC_HIGH_MASK) | (RTC_MAX_Hz & RTC_LOW_MASK)
AtMaxRate(v) == [hi |-> v.hi, lo |-> "MAX"]

\* rtc_init: periodic interrupts on, then the rate.  B is still selected when
\* the "initial value of register A" is read.
rtc_init ==
  LET b1 == Select(PowerOn, "B")
      b2 == Write(b1, [Read(b1) EXCEPT !.hi = "PIE"])
      a1 == Select(b2, "A")
  IN  Write(a1, AtMaxRate(Read(b2)))

-----------------------------------------------------------------------------
\* The chip's period is over: the flag in C is set and, if it was clear, the
\* request line rises.  Periods that end before C is read leave no trace.
ChipPeriod ==
  /\ cmos.regs["B"].hi = "PIE"
  /\ ~cmos.cflag
  /\ cmos' = [cmos EXCEPT !.cflag = TRUE]
  /\ pic' = [pic EXCEPT !.irr = @ \cup {RTC_IRQ_NUM}]
  /\ UNCHANGED <<linkVars, rtcVars, prev, ticked>>

VirtualTicks == {t \in Terms : (rtc_counter[t] + 1) % rtc_freq[t] = 0}

\* Bug variant: C is left unread.
AckChip_bug(c) == c

\* Select C and throw away its contents.
AckChip(c) == AfterRead(Select(c, "C"))

\* Bug variant: every interrupt of the chip is a virtual tick.
CountPeriod_bug ==
  /\ rtc_counter' = [t \in Terms |-> rtc_counter[t] + 1]
  /\ rtc_int' = [t \in Terms |-> 1]

CountPeriod ==
  /\ rtc_counter' = [t \in Terms |-> (rtc_counter[t] + 1) % rtc_freq[t]]
  /\ rtc_int' = [t \in Terms |-> IF t \in VirtualTicks THEN 1 ELSE rtc_int[t]]

\* RTC_handler and RTC_IRQ_handler: one step, as nothing in it enables
\* interrupts.
RTC_IRQ_handler ==
  /\ Interruptible
  /\ Delivers(pic)
  /\ pic' = enable_irq(send_eoi(disable_irq(Acknowledge(pic), RTC_IRQ_NUM),
                                RTC_IRQ_NUM), RTC_IRQ_NUM)
  /\ CountPeriod
  /\ cmos' = AckChip(cmos)
  /\ ticked' = [t \in Terms |->
                 ticked[t] \/ (pc[t] = "r_wait" /\ t \in VirtualTicks)]
  /\ UNCHANGED <<linkVars, rtc_freq, prev>>

-----------------------------------------------------------------------------
\* rtc_open, one port access after the other.
OpenSelect ==
  /\ At("open")
  /\ cmos' = Select(cmos, "A")
  /\ Goto("o_in")
  /\ UNCHANGED <<curr_term, level, iflag, TEMP, rtcVars, prev,
                 pic, ticked>>

OpenRead ==
  /\ At("o_in")
  /\ prev' = [prev EXCEPT ![curr_term] = Read(cmos)]
  /\ cmos' = AfterRead(cmos)
  /\ Goto("o_select")
  /\ UNCHANGED <<curr_term, level, iflag, TEMP, rtcVars, pic,
                 ticked>>

OpenReselect ==
  /\ At("o_select")
  /\ cmos' = Select(cmos, "A")
  /\ Goto("o_out")
  /\ UNCHANGED <<curr_term, level, iflag, TEMP, rtcVars, prev,
                 pic, ticked>>

\* Bug variant: what was read is written back.
OpenValue_bug(v) == v

OpenValue(v) == AtMaxRate(v)

OpenWrite ==
  /\ At("o_out")
  /\ cmos' = Write(cmos, OpenValue(prev[curr_term]))
  /\ prev' = [prev EXCEPT ![curr_term] = PowerOn.regs["A"]]
  /\ Return
  /\ UNCHANGED <<curr_term, level, iflag, TEMP, rtcVars, pic, ticked>>

\* Bug variant: an old virtual tick is taken for a new one.
ForgetTick_bug == UNCHANGED rtc_int

\* rtc_int[curr_term] = 0
ForgetTick == rtc_int' = [rtc_int EXCEPT ![curr_term] = 0]

\* rtc_read forgets what came before, waits, and forgets what it waited for.
ReadForget ==
  /\ At("read")
  /\ ForgetTick
  /\ Goto("r_wait")
  /\ UNCHANGED <<curr_term, level, iflag, TEMP, rtc_freq,
                 rtc_counter, prev, cmos, pic, ticked>>

ReadWake ==
  /\ At("r_wait")
  /\ rtc_int[curr_term] # 0
  /\ Goto("r_done")
  /\ UNCHANGED <<curr_term, level, iflag, TEMP, rtcVars, prev,
                 cmos, pic, ticked>>

ReadDone ==
  /\ At("r_done")
  /\ rtc_int' = [rtc_int EXCEPT ![curr_term] = 0]
  /\ ticked' = [ticked EXCEPT ![curr_term] = FALSE]
  /\ Return
  /\ UNCHANGED <<curr_term, level, iflag, TEMP, rtc_freq, rtc_counter,
                 prev, cmos, pic>>

\* Bug variant: the counter of the old rate goes on.
SetRate_bug(f) ==
  /\ rtc_freq' = [rtc_freq EXCEPT ![curr_term] = f]
  /\ UNCHANGED rtc_counter

SetRate(f) ==
  /\ rtc_freq' = [rtc_freq EXCEPT ![curr_term] = f]
  /\ rtc_counter' = [rtc_counter EXCEPT ![curr_term] = 0]

\* rtc_write with a rate it accepts, inside its critical section.
WriteRate ==
  /\ At("write")
  /\ \E new_freq \in Rates : SetRate(RTC_HZ \div new_freq)
  /\ Return
  /\ UNCHANGED <<curr_term, level, iflag, TEMP, rtc_int, prev, cmos, pic,
                 ticked>>

\* ... and with a bad argument: the early return leaves interrupts off.
WriteRefuse ==
  /\ At("write")
  /\ SetIF(FALSE)
  /\ Return
  /\ UNCHANGED <<curr_term, level, TEMP, rtcVars, prev, cmos, pic, ticked>>

\* halt_func sets the default rate for the terminal, that is for the parent.
Halt ==
  /\ HaltToParent
  /\ SetRate(DEFAULT_FREQ)
  /\ UNCHANGED <<rtc_int, prev, cmos, pic, ticked>>

-----------------------------------------------------------------------------
\* Boot: i8259_init, the other devices' lines, rtc_init, and no interrupt yet.
Init ==
  /\ LinkInit
  /\ rtc_int = [t \in Terms |-> 0]
  /\ rtc_freq = [t \in Terms |-> DEFAULT_FREQ]
  /\ rtc_counter = [t \in Terms |-> 0]
  /\ prev = [t \in Terms |-> PowerOn.regs["A"]]
  /\ cmos = rtc_init
  /\ pic = enable_irq(enable_irq(enable_irq(i8259_init, PIT_IRQ_NUM),
                                 KB_IRQ_NUM), RTC_IRQ_NUM)
  /\ ticked = [t \in Terms |-> FALSE]

RtcStep ==
  \/ OpenSelect \/ OpenRead \/ OpenReselect \/ OpenWrite
  \/ ReadForget \/ ReadWake \/ ReadDone
  \/ WriteRate \/ WriteRefuse \/ Halt

others == <<rtcVars, prev, cmos, pic, ticked>>

\* A step of the kernel's code in the thread of terminal t.
Step(t) == /\ curr_term = t
           /\ RtcStep \/ (KernelStep /\ UNCHANGED others)

Preempt(t) == Switch(t) /\ UNCHANGED others

Next == \/ UserStep /\ UNCHANGED others
        \/ \E t \in Terms : Step(t) \/ Preempt(t)
        \/ ChipPeriod \/ RTC_IRQ_handler

Spec == Init /\ [][Next]_vars

\* The chip and the PIT do not stop, every terminal gets the CPU again and
\* again (NoStarvation of Sched), and then long enough to make a step.
FairSpec ==
  /\ Spec
  /\ WF_vars(ChipPeriod) /\ SF_vars(RTC_IRQ_handler)
  /\ \A t \in Terms : SF_vars(Preempt(t)) /\ SF_vars(Step(t))
-----------------------------------------------------------------------------
Nibbles == {"A", "B", "C", "PIE", "MAX"}
Register == [hi : Nibbles, lo : Nibbles]

Locations ==
  {"user", "fault", "store", "end", "load", "h_return", "o_in", "o_select",
   "o_out", "r_wait", "r_done"} \cup {syscall_jump_table[n] : n \in 1 .. 10}

TypeOK ==
  /\ curr_term \in Terms
  /\ level \in [Terms -> 0 .. MAX_PROGS - 1]
  /\ pc \in [Terms -> Locations]
  /\ iflag \in [Terms -> BOOLEAN]
  /\ TEMP \in Terms
  /\ rtc_int \in [Terms -> {0, 1}]
  /\ rtc_freq \in [Terms -> 1 .. DEFAULT_FREQ]
  /\ rtc_counter \in [Terms -> 0 .. DEFAULT_FREQ - 1]
  /\ prev \in [Terms -> Register]
  /\ cmos \in [index : {"A", "B", "C"}, cflag : BOOLEAN,
               regs : [{"A", "B", "C"} -> Register]]
  /\ pic \in [master : SUBSET (0 .. 7), slave : SUBSET (0 .. 7),
              irr : SUBSET (0 .. 15), isr : SUBSET (0 .. 15)]
  /\ ticked \in [Terms -> BOOLEAN]

\* However the port accesses of rtc_open in several programs and of the
\* interrupt handler fall, the chip keeps interrupting at the maximum rate, on
\* which all virtual rates rest.  (rtc_driver.c:81-88)
RateKept ==
  cmos.regs["A"].lo = "MAX" /\ cmos.regs["B"].hi = "PIE"

\* rtc_read returns only after a virtual tick that came since it was called.
\* (buglog.txt, Checkpoint 4, 2)
ReadWaits == \A t \in Terms : pc[t] = "r_done" => ticked[t]

\* A change of rate, or the reset when a program ends, never leaves a count
\* beyond the new period: the next virtual tick is at most one period away.
\* (rtc_driver.c:130-131, 166-171)
CountInPeriod == \A t \in Terms : rtc_counter[t] < rtc_freq[t]

\* Between interrupts the RTC's line is open: unmasked, and no interrupt left
\* in service on either PIC.  A flag set in C always has its request pending, or
\* the chip would never interrupt again.  (rtc_driver.c:44-65)
LineOpen == /\ RTC_IRQ_NUM - 8 \notin pic.slave /\ 2 \notin pic.master
            /\ pic.isr = {}
            /\ cmos.cflag => RTC_IRQ_NUM \in pic.irr

\* A program that waits in rtc_read goes on, whatever the other programs do
\* with the RTC and with their system calls.
ReaderWakes == \A t \in Terms : pc[t] = "r_wait" ~> pc[t] # "r_wait"
=============================================================================
