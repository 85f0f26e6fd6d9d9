----------------------------- MODULE Rtc_proofs -----------------------------
(***************************************************************************)
(* Theorems about Rtc, for any number of terminals and programs, any rate  *)
(* of the chip and any system calls.                                       *)
(*                                                                         *)
(* IndInv adds to the properties that register B is never selected once    *)
(* the chip is set up, so that a write that comes too late can only reach  *)
(* A or C, and that a reader who has not been ticked since it began to     *)
(* wait sees rtc_int = 0.                                                  *)
(***************************************************************************)
EXTENDS Rtc, TLAPS

WaitInv ==
  \A t \in Terms : pc[t] = "r_wait" /\ rtc_int[t] # 0 => ticked[t]

IndInv ==
  /\ TypeOK
  /\ cmos.index # "B"
  /\ RateKept
  /\ CountInPeriod
  /\ LineOpen
  /\ WaitInv
  /\ ReadWaits

-----------------------------------------------------------------------------
\* Arithmetic: the periods of the rates, and counting in a period.
LEMMA DefaultFact == DEFAULT_FREQ \in Nat \ {0}
BY RtcHzAssumption DEF DEFAULT_FREQ

LEMMA PeriodFact ==
  ASSUME NEW f \in Rates
  PROVE  RTC_HZ \div f \in 1 .. DEFAULT_FREQ
<1>1. f \in 2 .. RTC_HZ
  BY DEF Rates
<1>2. RTC_HZ \div f >= 1
  BY <1>1, RtcHzAssumption
<1>3. RTC_HZ \div f <= RTC_HZ \div 2
  BY <1>1, RtcHzAssumption
<1>4. QED
  BY <1>1, <1>2, <1>3, RtcHzAssumption DEF DEFAULT_FREQ

LEMMA CountFact ==
  ASSUME NEW c \in Nat, NEW f \in 1 .. DEFAULT_FREQ
  PROVE  /\ (c + 1) % f \in 0 .. f - 1
         /\ (c + 1) % f \in 0 .. DEFAULT_FREQ - 1
BY DefaultFact

-----------------------------------------------------------------------------
\* The initial state: what rtc_init leaves in the chip.
LEMMA ChipInit ==
  /\ rtc_init \in [index : {"A", "B", "C"}, cflag : BOOLEAN,
                    regs : [{"A", "B", "C"} -> Register]]
  /\ rtc_init.index = "A" /\ ~rtc_init.cflag
  /\ rtc_init.regs["A"].lo = "MAX" /\ rtc_init.regs["B"].hi = "PIE"
BY DEF rtc_init, PowerOn, Select, Write, Read, AtMaxRate, Register, Nibbles

LEMMA InitInv == Init => IndInv
<1> SUFFICES ASSUME Init PROVE IndInv
  OBVIOUS
<1> USE DEF Init, LinkInit
<1>1. 0 \in Terms
  BY NumTermsAssumption DEF Terms
<1>2. TypeOK
  <2>1. pic \in [master : SUBSET (0 .. 7), slave : SUBSET (0 .. 7),
                 irr : SUBSET (0 .. 15), isr : SUBSET (0 .. 15)]
    BY DEF enable_irq, i8259_init, PIT_IRQ_NUM, KB_IRQ_NUM, RTC_IRQ_NUM
  <2>2. pc \in [Terms -> Locations] /\ iflag \in [Terms -> BOOLEAN]
    BY DEF Locations
  <2>3. level \in [Terms -> 0 .. MAX_PROGS - 1]
    BY MaxProgsAssumption
  <2>4. /\ rtc_int \in [Terms -> {0, 1}]
        /\ rtc_freq \in [Terms -> 1 .. DEFAULT_FREQ]
        /\ rtc_counter \in [Terms -> 0 .. DEFAULT_FREQ - 1]
        /\ ticked \in [Terms -> BOOLEAN]
    BY DefaultFact
  <2>5. prev \in [Terms -> Register]
    BY DEF PowerOn, Register, Nibbles
  <2>6. QED
    BY <1>1, <2>1, <2>2, <2>3, <2>4, <2>5, ChipInit DEF TypeOK
<1>3. LineOpen
  BY ChipInit
  DEF LineOpen, enable_irq, i8259_init, PIT_IRQ_NUM, KB_IRQ_NUM, RTC_IRQ_NUM
<1>4. CountInPeriod
  BY DefaultFact DEF CountInPeriod
<1>5. QED
  BY <1>2, <1>3, <1>4, ChipInit DEF IndInv, RateKept, WaitInv, ReadWaits

-----------------------------------------------------------------------------
\* The steps of programs and of the linkage do not touch the RTC.
LEMMA LinkSteps ==
  ASSUME IndInv, UNCHANGED others,
         UserStep \/ KernelStep \/ \E t \in Terms : Switch(t)
  PROVE  IndInv'
<1> USE DEF others, rtcVars
<1>1. TypeOK'
  <2> USE DEF IndInv, TypeOK, At, Goto, SetIF, Return
  <2>1. CASE UserStep
    <3>1. CASE \E n \in Calls[curr_term] : Syscall(n)
      <4>1. PICK n \in Calls[curr_term] : Syscall(n)
        BY <3>1
      <4>2. n \in Int
        BY CallsAssumption
      <4>3. n \in MIN_SYSCALL_NUM .. MAX_SYSCALL_NUM =>
              syscall_jump_table[n] \in Locations
        BY DEF MIN_SYSCALL_NUM, MAX_SYSCALL_NUM, Locations
      <4>4. IFThrough(SYSCALL_ENTRY, iflag[curr_term]) \in BOOLEAN
        BY DEF IFThrough
      <4>5. QED
        BY <4>1, <4>3, <4>4 DEF Syscall, Locations
    <3>2. CASE \E n \in 0 .. 19 : Exception(n)
      BY <3>2 DEF Exception, Locations, IFThrough
    <3>3. QED
      BY <2>1, <3>1, <3>2 DEF UserStep
  <2>2. CASE KernelStep
    <3> USE <2>2 DEF Locations
    <3>1. CASE Store
      BY <3>1 DEF Store, StoreTemp
    <3>2. CASE PopFlags
      BY <3>2 DEF PopFlags, IFThrough
    <3>3. CASE Load
      BY <3>3 DEF Load
    <3>4. CASE Execute
      BY <3>4, MaxProgsAssumption DEF Execute
    <3>5. CASE Restart
      BY <3>5 DEF Restart
    <3>6. CASE HaltReturn
      BY <3>6 DEF HaltReturn
    <3>7. CASE Elsewhere
      BY <3>7 DEF Elsewhere
    <3>8. QED
      BY <3>1, <3>2, <3>3, <3>4, <3>5, <3>6, <3>7 DEF KernelStep
  <2>3. CASE \E t \in Terms : Switch(t)
    BY <2>3 DEF Switch
  <2>4. QED
    BY <2>1, <2>2, <2>3
<1>2. \A t \in Terms : pc'[t] \in {"r_wait", "r_done"} => pc'[t] = pc[t]
  <2> USE DEF IndInv, TypeOK, At, Goto, Return
  <2>1. CASE UserStep
    BY <2>1 DEF UserStep, Syscall, Exception, syscall_jump_table,
                MIN_SYSCALL_NUM, MAX_SYSCALL_NUM
  <2>2. CASE KernelStep
    BY <2>2 DEF KernelStep, Store, PopFlags, Load, Execute, Restart,
                HaltReturn, Elsewhere
  <2>3. CASE \E t \in Terms : Switch(t)
    BY <2>3 DEF Switch
  <2>4. QED
    BY <2>1, <2>2, <2>3
<1>3. QED
  BY <1>1, <1>2
  DEF IndInv, RateKept, CountInPeriod, LineOpen, WaitInv, ReadWaits

-----------------------------------------------------------------------------
\* The chip's period, and the interrupt handler.
LEMMA PeriodStep == IndInv /\ ChipPeriod => IndInv'
<1> SUFFICES ASSUME IndInv, ChipPeriod PROVE IndInv'
  OBVIOUS
<1> USE DEF ChipPeriod, linkVars, rtcVars
<1>1. pic' \in [master : SUBSET (0 .. 7), slave : SUBSET (0 .. 7),
                irr : SUBSET (0 .. 15), isr : SUBSET (0 .. 15)]
  <2>1. pic.irr \cup {RTC_IRQ_NUM} \in SUBSET (0 .. 15)
    BY DEF IndInv, TypeOK, RTC_IRQ_NUM
  <2>2. QED
    BY <2>1 DEF IndInv, TypeOK
<1>2. TypeOK'
  BY <1>1 DEF IndInv, TypeOK
<1>3. LineOpen'
  BY DEF IndInv, TypeOK, LineOpen, RTC_IRQ_NUM
<1>4. QED
  BY <1>2, <1>3 DEF IndInv, TypeOK, RateKept, CountInPeriod, WaitInv, ReadWaits

LEMMA HandlerStep == IndInv /\ RTC_IRQ_handler => IndInv'
<1> SUFFICES ASSUME IndInv, RTC_IRQ_handler PROVE IndInv'
  OBVIOUS
<1> USE DEF RTC_IRQ_handler, linkVars
<1>1. /\ pic' \in [master : SUBSET (0 .. 7), slave : SUBSET (0 .. 7),
                   irr : SUBSET (0 .. 15), isr : SUBSET (0 .. 15)]
      /\ pic'.master = pic.master
      /\ pic'.slave \subseteq pic.slave /\ 0 \notin pic'.slave
      /\ pic'.isr = {}
  <2> DEFINE p1 == Acknowledge(pic)
             p2 == disable_irq(p1, RTC_IRQ_NUM)
             p3 == send_eoi(p2, RTC_IRQ_NUM)
  <2>1. RTC_IRQ_NUM \notin 0 .. 7 /\ RTC_IRQ_NUM \in 8 .. 15
    BY DEF RTC_IRQ_NUM
  <2>2. /\ p1 = [pic EXCEPT !.irr = @ \ {RTC_IRQ_NUM},
                            !.isr = @ \cup {RTC_IRQ_NUM, 2}]
        /\ p2 = [p1 EXCEPT !.slave = @ \cup {RTC_IRQ_NUM - 8}]
        /\ p3 = [p2 EXCEPT !.isr = @ \ {RTC_IRQ_NUM, 2}]
        /\ pic' = [p3 EXCEPT !.slave = @ \ {RTC_IRQ_NUM - 8}]
    BY <2>1 DEF Acknowledge, disable_irq, send_eoi, enable_irq
  <2> HIDE DEF p1, p2, p3
  <2>3. pic \in [master : SUBSET (0 .. 7), slave : SUBSET (0 .. 7),
                 irr : SUBSET (0 .. 15), isr : SUBSET (0 .. 15)]
    BY DEF IndInv, TypeOK
  <2>4. pic' = [master |-> pic.master, slave |-> pic'.slave,
                irr |-> pic.irr \ {RTC_IRQ_NUM}, isr |-> pic'.isr]
    BY <2>2, <2>3
  <2>5. /\ pic'.slave = (pic.slave \cup {0}) \ {0}
        /\ pic'.isr = (pic.isr \cup {8, 2}) \ {8, 2}
    <3>1. p1 = [master |-> pic.master, slave |-> pic.slave,
                irr |-> pic.irr \ {RTC_IRQ_NUM},
                isr |-> pic.isr \cup {RTC_IRQ_NUM, 2}]
      BY <2>2, <2>3
    <3>2. p2 = [master |-> p1.master, slave |-> p1.slave \cup {RTC_IRQ_NUM - 8},
                irr |-> p1.irr, isr |-> p1.isr]
      BY <2>2, <3>1
    <3>3. p3 = [master |-> p2.master, slave |-> p2.slave,
                irr |-> p2.irr, isr |-> p2.isr \ {RTC_IRQ_NUM, 2}]
      BY <2>2, <3>2
    <3>4. RTC_IRQ_NUM - 8 = 0 /\ RTC_IRQ_NUM = 8
      BY DEF RTC_IRQ_NUM
    <3>5. pic'.slave = p3.slave \ {RTC_IRQ_NUM - 8} /\ pic'.isr = p3.isr
      BY <2>2, <3>3
    <3>6. QED
      BY <3>1, <3>2, <3>3, <3>4, <3>5
  <2>6. pic'.isr = {}
    BY <2>5 DEF IndInv, LineOpen
  <2>7. QED
    BY <2>3, <2>4, <2>5, <2>6
<1>2. /\ cmos' = [cmos EXCEPT !.index = "C", !.cflag = FALSE]
      /\ cmos' \in [index : {"A", "B", "C"}, cflag : BOOLEAN,
                    regs : [{"A", "B", "C"} -> Register]]
  BY DEF IndInv, TypeOK, AckChip, AfterRead, Select
<1>3. \A t \in Terms : /\ rtc_counter'[t] \in 0 .. rtc_freq[t] - 1
                       /\ rtc_counter'[t] \in 0 .. DEFAULT_FREQ - 1
  <2> TAKE t \in Terms
  <2>1. rtc_counter[t] \in Nat /\ rtc_freq[t] \in 1 .. DEFAULT_FREQ
    BY DefaultFact DEF IndInv, TypeOK
  <2>2. rtc_counter'[t] = (rtc_counter[t] + 1) % rtc_freq[t]
    BY DEF CountPeriod
  <2>3. QED
    BY <2>1, <2>2, CountFact
<1>4. /\ rtc_counter' \in [Terms -> 0 .. DEFAULT_FREQ - 1]
      /\ rtc_int' \in [Terms -> {0, 1}]
      /\ ticked' \in [Terms -> BOOLEAN]
  <2>1. rtc_counter' = [t \in Terms |-> rtc_counter'[t]]
    BY DEF CountPeriod
  <2>2. rtc_int' \in [Terms -> {0, 1}]
    BY DEF IndInv, TypeOK, CountPeriod
  <2>3. ticked' \in [Terms -> BOOLEAN]
    BY DEF IndInv, TypeOK
  <2>4. QED
    BY <1>3, <2>1, <2>2, <2>3
<1>5. TypeOK'
  BY <1>1, <1>2, <1>4 DEF IndInv, TypeOK
<1>6. cmos'.index # "B" /\ RateKept'
  BY <1>2 DEF IndInv, TypeOK, RateKept
<1>7. CountInPeriod'
  <2>1. \A t \in Terms : rtc_freq[t] \in Int
    BY DefaultFact DEF IndInv, TypeOK
  <2>2. QED
    BY <1>3, <2>1 DEF CountInPeriod
<1>8. LineOpen'
  BY <1>1, <1>2 DEF IndInv, LineOpen, RTC_IRQ_NUM
<1>9. WaitInv' /\ ReadWaits'
  BY DEF IndInv, TypeOK, WaitInv, ReadWaits, CountPeriod
<1>10. QED
  BY <1>5, <1>6, <1>7, <1>8, <1>9 DEF IndInv

-----------------------------------------------------------------------------
\* rtc_open: whatever it finds selected when it writes, the rate stays.
LEMMA OpenSteps ==
  IndInv /\ (OpenSelect \/ OpenRead \/ OpenReselect \/ OpenWrite) => IndInv'
<1> SUFFICES ASSUME IndInv,
                    OpenSelect \/ OpenRead \/ OpenReselect \/ OpenWrite
             PROVE  IndInv'
  OBVIOUS
<1>1. cmos' \in [index : {"A", "B", "C"}, cflag : BOOLEAN,
                 regs : [{"A", "B", "C"} -> Register]]
  <2>1. prev[curr_term] \in Register
    BY DEF IndInv, TypeOK
  <2>2. AtMaxRate(prev[curr_term]) \in Register
    BY <2>1 DEF AtMaxRate, Register, Nibbles
  <2>3. CASE OpenSelect \/ OpenReselect
    BY <2>3 DEF IndInv, TypeOK, OpenSelect, OpenReselect, Select
  <2>4. CASE OpenRead
    BY <2>4 DEF IndInv, TypeOK, OpenRead, AfterRead
  <2>5. CASE OpenWrite
    <3>1. \A r \in {"A", "B", "C"}, v \in Register :
            [cmos EXCEPT !.regs[r] = v] \in
              [index : {"A", "B", "C"}, cflag : BOOLEAN,
               regs : [{"A", "B", "C"} -> Register]]
      BY DEF IndInv, TypeOK
    <3>2. QED
      BY <2>2, <2>5, <3>1 DEF IndInv, TypeOK, OpenWrite, Write, OpenValue
  <2>6. QED
    BY <2>3, <2>4, <2>5
<1>2. /\ cmos'.index # "B" /\ RateKept'
      /\ cmos'.cflag => cmos.cflag
  BY DEF IndInv, TypeOK, RateKept, OpenSelect, OpenRead, OpenReselect,
         OpenWrite, Select, AfterRead, Write, OpenValue, AtMaxRate
<1>3. prev' \in [Terms -> Register]
  <2>1. Read(cmos) \in Register /\ PowerOn.regs["A"] \in Register
    BY DEF IndInv, TypeOK, Read, PowerOn, Register, Nibbles
  <2>2. QED
    BY <2>1 DEF IndInv, TypeOK, OpenSelect, OpenRead, OpenReselect, OpenWrite
<1>4. /\ pc' \in [Terms -> Locations]
      /\ \A t \in Terms : pc'[t] \in {"r_wait", "r_done"} => pc'[t] = pc[t]
  BY DEF IndInv, TypeOK, OpenSelect, OpenRead, OpenReselect, OpenWrite, Goto,
         Return, Locations
<1>5. UNCHANGED <<curr_term, level, iflag, TEMP, rtcVars, pic, ticked>>
  BY DEF OpenSelect, OpenRead, OpenReselect, OpenWrite
<1>6. QED
  BY <1>1, <1>2, <1>3, <1>4, <1>5
  DEF IndInv, TypeOK, rtcVars, CountInPeriod, LineOpen, WaitInv, ReadWaits

\* rtc_read: it forgets, waits and returns.
LEMMA ReadSteps == IndInv /\ (ReadForget \/ ReadWake \/ ReadDone) => IndInv'
<1> SUFFICES ASSUME IndInv, ReadForget \/ ReadWake \/ ReadDone
             PROVE  IndInv'
  OBVIOUS
<1> USE DEF ReadForget, ReadWake, ReadDone, At, Goto, Return
<1>1. TypeOK'
  BY DEF IndInv, TypeOK, rtcVars, ForgetTick, Locations
<1>2. WaitInv'
  BY DEF IndInv, TypeOK, WaitInv, rtcVars, ForgetTick
<1>3. ReadWaits'
  BY DEF IndInv, TypeOK, WaitInv, ReadWaits
<1>4. QED
  BY <1>1, <1>2, <1>3
  DEF IndInv, rtcVars, RateKept, CountInPeriod, LineOpen

\* A new rate starts a new count, in rtc_write and in halt_func.
LEMMA RateSteps == IndInv /\ (WriteRate \/ WriteRefuse \/ Halt) => IndInv'
<1> SUFFICES ASSUME IndInv, WriteRate \/ WriteRefuse \/ Halt
             PROVE  IndInv'
  OBVIOUS
<1>1. \/ UNCHANGED <<rtc_freq, rtc_counter>>
      \/ \E f \in 1 .. DEFAULT_FREQ : SetRate(f)
  <2>1. CASE WriteRate
    <3>1. PICK f \in Rates : SetRate(RTC_HZ \div f)
      BY <2>1 DEF WriteRate
    <3>2. RTC_HZ \div f \in 1 .. DEFAULT_FREQ
      BY PeriodFact
    <3>3. QED
      BY <3>1, <3>2
  <2>2. CASE WriteRefuse
    BY <2>2 DEF WriteRefuse, rtcVars
  <2>3. CASE Halt
    <3>1. DEFAULT_FREQ \in 1 .. DEFAULT_FREQ
      BY DefaultFact
    <3>2. QED
      BY <2>3, <3>1 DEF Halt
  <2>4. QED
    BY <2>1, <2>2, <2>3
<1>2. /\ rtc_freq' \in [Terms -> 1 .. DEFAULT_FREQ]
      /\ rtc_counter' \in [Terms -> 0 .. DEFAULT_FREQ - 1]
      /\ CountInPeriod'
  BY <1>1, DefaultFact DEF IndInv, TypeOK, CountInPeriod, SetRate
<1>3. /\ pc' \in [Terms -> Locations]
      /\ \A t \in Terms : pc'[t] \in {"r_wait", "r_done"} => pc'[t] = pc[t]
  BY DEF IndInv, TypeOK, WriteRate, WriteRefuse, Halt, HaltToParent, Goto,
         Return, Locations
<1>4. level' \in [Terms -> 0 .. MAX_PROGS - 1] /\ iflag' \in [Terms -> BOOLEAN]
  <2>1. CASE WriteRate \/ WriteRefuse
    BY <2>1 DEF IndInv, TypeOK, WriteRate, WriteRefuse, SetIF
  <2>2. CASE Halt
    BY <2>2, MaxProgsAssumption DEF IndInv, TypeOK, Halt, HaltToParent
  <2>3. QED
    BY <2>1, <2>2
<1>5. UNCHANGED <<curr_term, TEMP, rtc_int, prev, cmos, pic, ticked>>
  BY DEF WriteRate, WriteRefuse, Halt, HaltToParent, rtcVars
<1>6. QED
  BY <1>2, <1>3, <1>4, <1>5
  DEF IndInv, TypeOK, RateKept, LineOpen, WaitInv, ReadWaits

\* A step that changes nothing.
LEMMA StutterInv == IndInv /\ UNCHANGED vars => IndInv'
BY DEF IndInv, vars, linkVars, rtcVars, TypeOK, RateKept, CountInPeriod,
       LineOpen, WaitInv, ReadWaits

LEMMA StepInv == IndInv /\ [Next]_vars => IndInv'
<1> SUFFICES ASSUME IndInv, [Next]_vars PROVE IndInv'
  OBVIOUS
<1>1. CASE UserStep /\ UNCHANGED others
  BY <1>1, LinkSteps
<1>2. CASE \E t \in Terms : Step(t)
  <2>1. CASE KernelStep /\ UNCHANGED others
    BY <2>1, LinkSteps
  <2>2. CASE RtcStep
    BY <2>2, OpenSteps, ReadSteps, RateSteps DEF RtcStep
  <2>3. QED
    BY <1>2, <2>1, <2>2 DEF Step
<1>3. CASE \E t \in Terms : Preempt(t)
  BY <1>3, LinkSteps DEF Preempt
<1>4. CASE ChipPeriod \/ RTC_IRQ_handler
  BY <1>4, PeriodStep, HandlerStep
<1>5. CASE UNCHANGED vars
  BY <1>5, StutterInv
<1>6. QED
  BY <1>1, <1>2, <1>3, <1>4, <1>5 DEF Next

-----------------------------------------------------------------------------
\* IndInv holds in every reachable state.
THEOREM Invariance == Spec => []IndInv
BY InitInv, StepInv, PTL DEF Spec

\* Every variable keeps its type; in particular the counts and the periods of
\* the virtual RTCs stay within half a second's interrupts of the chip.
THEOREM TypeCorrect == Spec => []TypeOK
BY Invariance, PTL DEF IndInv

\* However the port accesses of rtc_open in several programs and those of the
\* interrupt handler are interleaved, the chip keeps the maximum rate and its
\* periodic interrupt.  (rtc_driver.c:81-88)
THEOREM ChipKeepsRate == Spec => []RateKept
BY Invariance, PTL DEF IndInv

\* rtc_read returns only after a virtual tick that came since it was called.
THEOREM ReadersWait == Spec => []ReadWaits
BY Invariance, PTL DEF IndInv

\* No change of rate leaves a count beyond the new period.
THEOREM CountsInPeriod == Spec => []CountInPeriod
BY Invariance, PTL DEF IndInv

\* The RTC's line is open between interrupts, and a flag set in register C has
\* its request pending: the chip is never left silent.  (rtc_driver.c:44-65)
THEOREM LineStaysOpen == Spec => []LineOpen
BY Invariance, PTL DEF IndInv
=============================================================================
