# A TLA+ model of the ECE391 operating system

The repository is a small operating system for 32-bit x86: one CPU, three text
terminals, up to six user programs, preemptive round robin scheduling by the PIT,
system calls through `int 0x80`, a read-only file system, a virtualised RTC and a
"try lock". There are no kernel threads and no automated tests. What makes it hard
is that almost everything is a global variable, that interrupts are enabled in
system calls, and that each critical section ends with `sti(); restore_flags();`,
which lets an interrupt in even where interrupts were off. This directory models
that control flow, checks it with TLC and proves its invariants with TLAPS.

## Inventory

| Component | State | Operations | Interacts through |
|---|---|---|---|
| Execution (`syscalls.c`, `file_desc.c`) | `curr_pcb_ptr`, `next_p_id`, `total_progs`, `halt_retval`, PCBs, `tss.esp0`, the 128 MB page | `execute_func`, `halt_func`, `PCB_init`, `get_parent_PCB`, `swap_pages` | called by system calls, exceptions, `do_switch`, `entry` |
| Scheduler (`schedule.c`, `pit.c`) | `active_progs`, `curr_term`, `disp_term`, `switch_lock`, `pit_counter`, saved ESP/EBP | `schedule`, `switch_terminals`, `do_switch`, `pit_handler` | PIT and keyboard interrupts; starts shells with `execute_func` |
| Exceptions (`idt_handlers.c`) | none | `squash_user_prog` | `halt_retval`, `halt_func` |
| System call linkage (`syscalls_linkage.S`) | `TEMP` | `syscall_handler` | all system calls of all terminals |
| Terminal and keyboard (`terminal.c`, `PS_2.c`) | line buffers, cursors, `TERM_READ_FLAG`, `TERM_WRITE_FLAG`, `ENTER_FLAG`, `char_from_KB` | `terminal_read`, `terminal_write`, `terminal_putc`, `get_c_keyboard` | keyboard interrupt against the running program; Alt+F calls the scheduler |
| RTC (`rtc_driver.c`) | `rtc_int`, `rtc_freq`, `rtc_counter`, the index port | `rtc_open`, `rtc_read`, `rtc_write`, `RTC_IRQ_handler` | RTC interrupt against readers; `halt_func` resets the rate |
| File descriptors (`syscalls.c`, `file_desc.c`) | `fd_A`, `fd_total_open` of each PCB | `open_func`, `close_func`, `read_func`, `write_func` | dispatch to terminal, RTC, files |
| File system (`file_sys.c`) | `pos` of a descriptor | `read_data`, `read_dentry_by_name`, `read_dir` | program loading, `read` |
| vidmap, paging (`paging.c`, `syscalls.c`) | `video_table`, page directory | `vidmap_func`, `switch_vidmap`, `init_paging` | the scheduler remaps it |
| PIC, library, boot | port state | initialisation, helpers | everything |

What makes each correct, and what is hard about it:

- *Execution and scheduling.* Switching away from and back to a terminal, at any
  instruction, is invisible to it: its stack pointer, kernel stack, page and PCB links
  are its own. A terminal's processes form a stack. `execute` returns its own program's
  status. The program limit holds. Hard: preemption inside `execute` and `halt`, shells
  started inside a keyboard interrupt on another terminal's stack, a tick inside a switch.
- *Linkage.* A system call returns its own value. Hard: `TEMP` is one global.
- *Terminal.* A line typed goes to the terminal on the screen, output to the one that
  wrote it; `terminal_read` returns its terminal's line. Hard: keyboard interrupt and
  Alt+F between a test and its use.
- *RTC.* A reader wakes once per virtual period. Hard: index and data port pairs
  interrupted by the handler; a clear racing the tick.
- *Descriptors, files.* A descriptor names the file it was opened on; reads deliver the
  file's bytes once each. Hard: counts kept apart from tables, block and size boundaries.

## How the modules fit together

A terminal is one thread of control (`curr_term`, the stacks and the page map change
together in `do_switch`), so every module models the threads of all terminals, and each
module models completely the state that its part of the system keeps. What one module
shows is an assumption of the others, at one named place:

| Module | Takes from | What it takes |
|---|---|---|
| `Linkage`, `Rtc`, `Terminal`, `Screen` | `Sched` | a tick is one step that changes `curr_term` and nothing of the interrupted thread (`SavedContexts`, `SwitchAtomic`); every terminal runs again (`NoStarvation`), for their fairness |
| `Rtc` | `Linkage` | EXTENDS it: the RTC's calls are entered and left through the system call linkage |
| `Screen` | `Terminal` | where a character goes: echo to the displayed reader, output to its own terminal (`LinesApart`, `OutputKept`) |
| `Sched` | `FileDesc` | whether `execute` refuses a file (any answer) |
| `FileDesc` | `FileSys` | EXTENDS it: the file system is a set of functions of an image |

Three abstract specifications say what a part promises: `ProcStacks` (a terminal's
processes are a stack), `Streams` (a descriptor is a stream of its file), `Pictures` (a
terminal has a picture of its own). `Sched`, `FileDesc` and `Screen` are shown to
implement them.

## Modules

- **`Sched`** is the core. A terminal is a thread of control, because `curr_term` and
  `curr_pcb_ptr` change only in `do_switch`, which also changes the stack. `pc[t]` is
  where the thread of terminal `t` is, among the points where an interrupt can be taken
  with an effect; `iflag[t]` is its IF flag. Actions named `X...` are the stretches of
  `execute_func`, `H...` those of `halt_func`; `Tick`, `AltF` are the two interrupts up
  to the flush inside the switch, where other interrupts can nest; `Resume`, `Display`
  and `StartTerm` are the rest. `Windows` lists the one-instruction openings left by
  `sti(); restore_flags();`, in which even code with IF = 0 is interrupted.
  `total_progs++` and `--` are a load and a store, as compiled.
  Statements between two such points are one action when only the thread itself reads
  or writes what they touch (`PCB_init` to `active_progs[curr_term] = ...`, say: the
  switch that could come between would store the same values).
  `under` and `clobbered` record on whose kernel stack a shell was started and whether
  those frames have been run over since. `faulted` is a history variable.
  A process is named `<<terminal, p_id>>`: the code computes the addresses of its PCB,
  its kernel stack and its page from those two numbers in the same way.
- **`ProcStacks`** is the abstract specification: each terminal has a stack of processes;
  the running terminal pushes, pops (never its first shell), or the CPU changes hands.
- **`MCSched`** instantiates `Sched` for TLC; **`MCSchedShells`** restricts it to shells
  that only wait, so that three terminals and liveness are within reach.
- **`Linkage`** is the way into the kernel and back. The gates of the IDT decide IF on
  entry; `Syscall`, `Store`, `PopFlags`, `Load` are the instructions of `syscall_handler`
  between which an interrupt matters, because of the global `TEMP`. `TEMP` holds the
  terminal whose value it is.
- **`Rtc`** extends it with the RTC driver, the chip's registers behind the index and data
  ports, and both PICs. Each port access of `rtc_open` is an action; the interrupt handler
  is one, as nothing in it enables interrupts. A register is its two nibbles, each known
  by where it came from, so that a rate written to the wrong register, or built from
  another one, is visible. `ticked` is a history variable.
- **`FileSys`** has no state: `read_data`, `read_dir` and the searches are operators on an
  image. A data byte is `<<block, position>>`, so a byte from the wrong place is a
  different byte. Strings go on until a 0, also beyond their field, as in memory. The loop
  of `read_data` is a function of its rounds (`FirstRound`, `Round`, `Rounds`), so that it
  can be proved about.
- **`FileDesc`** is the stack of the PCBs of one terminal (nobody else touches a
  process's table). Each system call is two actions, its success and its refusal.
- **`Streams`** is what descriptors promise.
- **`Terminal`** has the line buffers and the flags. `pc[t]` is the location of the
  program of terminal `t` in `terminal_read` or in an output call; `kb[t]` that of a
  keyboard handler on top of it. Both line buffers of a terminal are one function over
  `0 .. 2L - 1`, as they lie in memory. `Bitmap` and the three sets are the table of
  `terminal_putc`. `typed`, `line`, `disturbed` and `early` are history: the line as its
  user sees it grow, the line entered, whether one of the races named under Findings has met
  the read under way, and whether Enter came between `terminal_read`'s clearing of
  `ENTER_FLAG` and its reset of the buffer (the read then returns without a line).
- **`Screen`** has the pictures: video memory, the buffers, the places, the cursor, and
  the page maps of vidmap. A cell is blank or inked. `switch_terminals` and `SwitchEnd`
  are the two sides of the flush in `switch_vidmap`.
- **`Pictures`** is what the screen promises.
- **`MC...`** modules give the constants values for TLC.
- **`Sched_proofs`**, **`Rtc_proofs`**, **`FileSys_proofs`**, **`FileDesc_proofs`**,
  **`Terminal_proofs`** and **`Screen_proofs`** hold the theorems.

Three modes end a behaviour of `Sched`: `crash_null` (do_switch continues with a NULL PCB),
`crash_stack` (a thread is resumed on overwritten frames) and `crash_pid` (a p_id of
`MAX_PROGS`, which is the next terminal's process 0). The code does reach them; what
happens then depends on what the memory holds. The safety properties that speak of the
CPU are stated for the states before.

## Runs

| Run | Shows |
|---|---|
| `sched` | 2 terminals, 2 programs at once, `WORD` = 8: 702,092 states. `TypeOK`, `IndInv` and the safety properties; `SwitchAtomic`; `ImplementsProcStacks`. |
| `shells` | 3 terminals, 3 programs, `WORD` = 16: `SavedContexts`, `OneOnScreen` and `NoStarvation`. |
| `load` | refutes `LoadsIntoOwnPage`: the file is loaded over the parent's page. |
| `parent` | refutes `ParentPageBack`: after halt the parent runs on the dead child's page. |
| `limit` | refutes `ProgramLimit`: check and increment of `total_progs` are apart. |
| `null_pcb` | refutes `NeverNullSwitch`: Alt+F at the program limit. |
| `lost_stack` | refutes `NeverLostStack`: a new shell's frames on another terminal's stack. |
| `rtc` | 2 terminals, 2 programs on each, `RTC_HZ` = 4: 367,960 states. `RateKept`, `LineOpen`, `ReadWaits`, `CountInPeriod`; `ReaderWakes` under `FairSpec`. |
| `retval` | refutes `OwnReturnValue`: a program gets another terminal's return value. |
| `files` | 2 programs, tables of 4, blocks of 2 bytes, inodes of 2 block numbers: 101,574 states. `TableCounts`, `StandardStreams`, `ReadBounds`, `ListedOpens`; `ImplementsStreams`. |
| `terminal` | 2 terminals, a reader and one that does everything, line buffers of 2: 3,931,730 states. `LinesApart`, `ReadsOwnLine`, `OutputKept`. |
| `screen` | 2 terminals, a screen of 2 by 2: 1,791,535 states. `OnScreen`, `LineOnScreen`; `ImplementsPictures`; `CursorFollows` under `FairSpec`. |

Bounds. Two terminals are enough for one thread to interrupt another anywhere, and with
`MAX_PROGS` = 2 there are parents and children on each, the limit is reached, and the
races drive `total_progs` both above the number of programs and below zero (where it
wraps modulo `WORD`, which only has to be larger than any count). Three terminals matter for
starting a shell inside another's start, which `shells` covers. No variable is cut off
by a bound of the model.

`rtc`: with `RTC_HZ` = 4 there are two rates and a period of one chip interrupt as well as
of two; one terminal opens and reads, the other makes every call, also with numbers 0 and
11, so that each port access meets each other one. `files`: a table of two free entries is filled,
emptied in both orders and overfilled; the image has a file that ends on a block boundary
with the inode full, followed by a word that is a possible block number for one file and
not for the other, an executable by one byte only, and a name that fills its field.
`terminal`: what is typed is cut to lines of one character before Enter (`MAX_LINE`),
output to one character or newline at a time, and one keyboard handler is in progress at
a time (`MAX_HANDLERS`); no key comes on top of a handler or while Alt+F is held. A line
of one character in a buffer of two has all the cases of the copy (line, newline, NUL
behind it, leftover type-ahead). `screen`: with two rows of two a line of two characters wraps,
scrolls and is erased back across the row; programs draw in cell 0 only (`DrawCells`).
Two characters are the longest line that still fits on that screen when it has scrolled,
as 128 do on 25 rows of 80.
Alt+F does not come on top of Ctrl+L.

Fairness (`FairSpec` of `Sched`). The CPU does not stop (`WF` of the code's own steps), and the PIT
keeps ticking and is not for ever masked at the moments it could be taken (`SF` of a
tick: a thread enables interrupts again and again). User programs and keys get no
fairness. `NoStarvation` has two further premises in its statement, since without them
it is false in the code: keys do not come for ever (each Alt+F start resumes its victim
without moving `pit_counter`), and ticks do not always fall inside a switch (such a tick
uses up a terminal's slot).
`FairSpec` of `Rtc`: the chip's periods go on (`WF`), its interrupt is taken when it is
possible again and again (`SF`: interrupts are off only for a few instructions), every
terminal gets the CPU again (`SF` of `Preempt(t)`, what `NoStarvation` shows) and then
makes a step (`SF`, since a tick may fall just before it each time but a slice is
thousands of instructions long). `FairSpec` of `Screen`: interrupt handlers end (`WF`), the
PIT goes on (`SF` of `Tick(t)`, which is disabled during a switch). Programs and keys get no
fairness in any of them. `Terminal` states safety only: its state space is too large for
a liveness check.

`CHECK_DEADLOCK` is on in every run: the system never stops, and a crash is a state that
stutters by the action `Crashed`.

## Findings

Each is a run above and an entry in `PROJECT.json`. In short: the page mapped at 128 MB
is derived from the current process on every switch, but `execute` and `halt` change the
page and the current process at different moments with interrupts possible in between
(`load`, `parent`); the program count is neither tested and changed together nor
changed atomically (`limit`, and the drift of the count behind `crash_pid`); starting a
shell from the keyboard interrupt relies on `execute_func` neither failing (`null_pcb`)
nor being interrupted (`lost_stack`); and `syscall_handler` reads the return value from
the one global `TEMP` after `popfl` has let interrupts in (`retval`).

Some properties name a race in their premise (`disturbed` and `early` in `Terminal`,
`broken` in `Screen`): Enter before `terminal_read` has reset its buffer, Alt+F between
its test and its `cli`, keys taken in the flush of a switch, and what Ctrl+L does while
it lets interrupts in. There the code does return early or another line, or draw in the
wrong place; nothing in the repository says what should happen instead, so these are
entries under "hazards", not findings. One of them is out of reach of two terminals: with a
third whose thread is inside Ctrl+L, what another program puts out goes into the
displayed reader's line, which then grows beyond its memory. This is why `curr_idx` has no
bound in `Terminal`'s `TypeOK`; the bound is part of `LinesApart`, for the lines that met
no such race.

## Proofs

Every theorem holds for all values of the constants that satisfy the named assumptions at
the top of the module it is about. Each proof module of a component with state gives an
invariant `IndInv`, proves `Invariance` (`Spec => []IndInv`) with one lemma per action, and
derives the rest from it. Every safety property that a passing run checks is the conclusion
of a theorem.

**`Sched_proofs`**, for every number of terminals and processes and every `WORD` above
`MAX_PROGS * NUM_TERMS + NUM_TERMS`: `TypeCorrect`, `ContextsSaved`, `StacksOfProcesses`,
`OwnKernelStack`, `OwnPages`, `StatusReturned`, `ScreenShared`, the action property
`SwitchesAtomic`, and `Refinement`: `Spec => ImplementsProcStacks`.
The properties are not inductive alone. `IndInv` adds what holds at each location:
the lock is held exactly while a switch is under way, so interrupts in the windows of a
switch do nothing (`LockInv`); `curr_pcb_ptr` is the running terminal's entry of
`active_progs` (`CurrentInv`); which locations a terminal without a process can be at,
and that one that is not running has no thread (`PlaceInv`); from when a process has its
kernel stack, and when the TSS names it (`StackInv`, `TssInv`); whose page is mapped
(`PageInv`); and where the return value is settled (`RetInv`). The actions that change the
shape of a stack (`XPcb`, `HParent`) and those that switch (`Tick`, `Resume`,
`StartTerm`) carry the work. TLC checks `IndInv` in run `sched`.

**`Rtc_proofs`**, for every number of terminals and programs, every `RTC_HZ` and every set of
calls: `TypeCorrect`, `ChipKeepsRate`, `ReadersWait`, `CountsInPeriod`, `LineStaysOpen`.
`ChipKeepsRate` needs that the index port never selects register B once the chip is set
up: `rtc_open` and the handler select A and C only, so a write that comes too late, after
the handler has moved the index, can reach no other register. `ReadersWait` needs that a
reader whose terminal has `rtc_int` set has been ticked (`WaitInv`).

**`FileSys_proofs`**, for every image and all sizes of blocks, inodes and names: `ReadData`
(the bytes that `read_data` puts into the buffer are the file's, in order, no more than
asked for, and if it succeeds as many as it returns) and `ListedIsFound` (a name that
`read_dir` delivers is found, and finds an entry of that name). `read_data` is a loop, so
`ReadData` is an induction over its rounds. The library's induction theorems take a formula
as parameter, which the provers cannot instantiate, but its well-foundedness theorem
speaks of *sets*: the set of rounds for which the loop invariant `Copied` holds contains 0 and is
closed under successor, so it contains every round (`LeastNat`, `SetInduction`). The
recursive function `Rounds` has to be shown to exist first (`RoundsExist`, by the same
induction on longer and longer prefixes). `Copied` says that after `k` rounds the buffer is
the first bytes of the read, that the next round starts where the next byte is, and that
`k` rounds have copied at least `k` bytes unless all are there; that last part is why
`length` rounds are enough. For names, `strlen` and `strncmp` are characterised on strings
that run out of their field (`StrlenFact`, `StrncmpPrefix`, `MatchIsName`).

**`FileDesc_proofs`**, for every image, every size of the tables and every set of calls:
`TypeCorrect`, `CountsAgree`, `StandardKept`, `OpenFindsEntry`, `ReadsStayInFile`,
`ReadsInBounds`, `ListedCanBeOpened` and `Refinement`: `Spec => ImplementsStreams`.
`IndInv` says of each PCB in the stack of programs that its count is the cardinality of
its open entries (plus one), that its first two entries are stdin and stdout, and that
no position is past the end of its file; each call replaces at most one PCB by one that is
as good. `OpenFindsEntry` follows by counting: the test of `fd_total_open` leaves an entry
free, so `new_fd` is set. `ReadsInBounds` and `ListedCanBeOpened` speak of the last read:
its result is described by `ReadData` and `ListedIsFound` at the position that `IndInv`
keeps in the file. For `Refinement` an entry is mapped to what is left of its file behind
its position (`Left`): a read that returns `n` splits it into the `n` bytes delivered and
the rest, which is what the moved position leaves; a failed read delivers nothing and moves
nothing.

What the proofs assume of an image (`ImagesAssumption`, `DirectoryAssumption`) is how
`src/filesys_img` is laid out, and the code relies on it without a check: the 16 entries it
counts have a name of at most 32 bytes and a type from 0 to 2, the one behind them is zero,
and sizes and numbers are unsigned.

**`Terminal_proofs`**, for every number of terminals, length of the line buffers and bound
on what is typed: `TypeCorrect`, `LinesKeptApart`, `OutputReaches`, `ReadsSeenLine`. `IndInv` ties the
flags of a terminal to where its thread is (`FlagInv`: at most one of the two is set, none between
calls), which leaves only some rows of the table of `terminal_putc`; a line that is not
empty begins with a character (`FirstInv`); and how long an undisturbed line can be
depends on how far the output under way has come (`LengthInv`), as `terminal_write` and
`terminal_printf` empty it at different moments. `ReadsSeenLine` needs a second invariant on
top (`ReadInv`, theorem `ReadInvariance`): while a program waits for its line and no race
has met it, `CURR_LINE` begins with the characters its user has typed and not erased,
`curr_idx` is their number, `ENTERED_LINE` begins with the line entered, `ENTER_FLAG` is
not set before a line is entered (unless `early`), and from the end of the wait to the copy
the reader is on the screen, since `terminal_read` copies from the displayed terminal. Then
no place of the entered line is NUL, and the copy cannot end within it.

**`Screen_proofs`**, for every number of terminals, every size of the screen and lines that
fit on it when it has scrolled: `TypeCorrect`, `DrawsOnScreen`, `LineStaysOnScreen`, and
`Refinement`: `Spec => ImplementsPictures`. `IndInv` adds that the displayed terminal has a
program and that the user page of every running terminal is mapped to video memory
exactly if that is where its picture is (`MapInv`); without it a program that draws through
vidmap could reach another terminal's picture. The lemmas speak of `View(t)`, the picture
of `t` wherever it is kept, so that the invariant on lines and the refinement rest on the
same facts about drawing.

Only model-checked, on the instances above: liveness (`NoStarvation`, `ReaderWakes`,
`CursorFollows`), because fairness is out of the prover's reach, and the refutations, each
of which is one behaviour.

## Not modelled

- Contents: what a program's page holds, which name finds which file (except in
  `FileSys`), characters other than one letter per terminal, newline and backspace.
- Scancodes, shift and caps lock; the conversions of `terminal_printf`; NULL and length
  checks of the calls; `terminal_close`; the command history and the cursor keys, which
  are not in use; `vidmap_func`'s check of its argument.
- Page tables other than the 128 MB page and the vidmap page; exceptions in the kernel
  itself; the registers that the page fault handler prints.
- The PICs as the PIT and the keyboard use them: their interrupts are one step in
  `Sched`, `Terminal` and `Screen`. The NMI bit of the index port.
- Boot is the Init of each module; its straight-line code runs once. Interrupts that come
  during boot are a hazard in `PROJECT.json` without a property.
- More than one keyboard handler at a time, and keys on top of a handler (`MAX_HANDLERS`).
- The functions that print the file system, and helpers of `lib.c` without state.
- Liveness of the terminal: its state space is too large, and that a reader gets its line
  depends on a user typing Enter.
- What a thread does on overwritten frames, or with the memory of another terminal's
  process, is left at the three crash modes.
