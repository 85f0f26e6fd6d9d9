------------------------------ MODULE FileDesc ------------------------------
(***************************************************************************)
(* File descriptors: the table fd_A of each process, the system calls that *)
(* work on it, and the parts of execute that read the file system and set  *)
(* up a process's table and arguments.  Only the process itself uses its   *)
(* table, so the programs of one terminal are enough: they form a stack,   *)
(* and the one on top makes the calls.  flags is left out: every entry is  *)
(* given !IN_USE, for which read_func and write_func test.                 *)
(***************************************************************************)
EXTENDS FileSys, FiniteSets

CONSTANTS MAX_FD,       \* structs.h: entries of a table
          MAX_PROGS,    \* globals.h: programs that may run at once
          LINE_BUFFER_SIZE,  \* structs.h: longest argument string
          Images,       \* file system images, a sequence
          Paths,        \* strings that programs pass to open, each ended by 0
          Commands,     \* strings that programs pass to execute
          Lengths       \* nbytes that programs pass to read and write

ASSUME MaxFdAssumption == MAX_FD \in Nat /\ MAX_FD > 2
ASSUME MaxProgsAssumption == MAX_PROGS \in Nat \ {0}
ASSUME LengthsAssumption == Lengths \subseteq Int
ASSUME ImagesAssumption ==
  \A m \in DOMAIN Images : LET img == Images[m] IN
    /\ \A i \in {1, 2, 3} : img.stats[i] \in Nat
    /\ \A i \in 0 .. img.stats[1] :
         /\ img.dentries[i].file_type \in {RTC_TYPE, DIR_TYPE, REGULAR_FILE_TYPE}
         /\ img.dentries[i].inode_num \in Nat
    /\ \A i \in 0 .. img.stats[2] - 1 : get_file_size(img, i) \in Nat

\* As in filesys_img: a name is a field of bytes, the entries that are counted
\* have one, and the entry behind them, which read_dir reads too, has none.
ASSUME DirectoryAssumption ==
  \A m \in DOMAIN Images : LET img == Images[m] IN
    \A i \in 0 .. img.stats[1] :
      /\ img.dentries[i].filename \in [1 .. FILE_NAME_CHARMAX -> Nat]
      /\ img.dentries[i].filename[1] = 0 <=> i = img.stats[1]

VARIABLES
  image,   \* which image the boot loader has loaded
  pcb,     \* the process control blocks of the terminal's programs, one on the
           \* other; one that a program leaves is filled again before its use
  last     \* what the last system call has returned, and put into a buffer

vars == <<image, pcb, last>>

Fds == 0 .. MAX_FD - 1
img == Images[image]

\* next_p_id, and the running program: curr_pcb_ptr.
depth == Len(pcb)
curr == pcb[depth]
fd_A == curr.fd_A

\* The functions of each kind of descriptor, for open, read, write and close.
fops == [stdin  |-> <<"invalid_func", "terminal_read", "invalid_func", "invalid_func">>,
         stdout |-> <<"invalid_func", "invalid_func", "terminal_write", "invalid_func">>,
         rtc    |-> <<"rtc_open", "rtc_read", "rtc_write", "rtc_close">>,
         dir    |-> <<"file_open", "read_dir", "invalid_func", "file_close">>,
         file   |-> <<"file_open", "read_data_file", "file_write", "file_close">>]

Kinds == DOMAIN fops \cup {"NULL"}

-----------------------------------------------------------------------------
Entry(kind, inode, pos) == [fops_ptr |-> kind, inode_num |-> inode, pos |-> pos]

\* Only entries in use have an inode and a position in the model.
Free == Entry("NULL", -1, 0)

fd_A_init ==
  [i \in Fds |-> IF i = 0 THEN Entry("stdin", -1, 0)
                 ELSE IF i = 1 THEN Entry("stdout", -1, 0) ELSE Free]

PCB_init(args) == [fd_A |-> fd_A_init, fd_total_open |-> 1, args |-> args]

\* The running program's table gets another entry at fd, and its count is n.
SetEntry(fd, entry, n) ==
  pcb' = [pcb EXCEPT ![depth] = [fd_A |-> [fd_A EXCEPT ![fd] = entry],
                                 fd_total_open |-> n, args |-> curr.args]]

\* The entry at fd, n further on.
Moved(fd, n) ==
  Entry(fd_A[fd].fops_ptr, fd_A[fd].inode_num, fd_A[fd].pos + n)

\* What a call has put into the program's buffer, and returned with it.
NoData == [op |-> "none", fd |-> 0, nbytes |-> 0, ret |-> 0, buf |-> <<>>]

Delivers(op, fd, nbytes, r) ==
  last' = [op |-> op, fd |-> fd, nbytes |-> nbytes, ret |-> r.ret, buf |-> r.buf]

-----------------------------------------------------------------------------
\* get_args_fname: skip spaces, the name up to a stop or its maximal length,
\* skip spaces, the arguments up to the end of the line.
SPACE == 32
LineEnds == {0, 10, 13}

LOCAL FirstFrom(s, i, P(_)) ==
  CHOOSE j \in i .. Len(s) : P(j) /\ \A k \in i .. j - 1 : ~P(k)

get_args_fname(command) ==
  LET nonspace(j) == command[j] # SPACE
      start == FirstFrom(command, 1, nonspace)
      stop(j) == \/ command[j] \in LineEnds \cup {SPACE}
                 \/ j = start + FILE_NAME_CHARMAX
      end == FirstFrom(command, start, stop)
      arg == FirstFrom(command, end, nonspace)
      line(j) == command[j] \in LineEnds \/ j = arg + LINE_BUFFER_SIZE
  IN  [file_name |-> SubSeq(command, start, end - 1),
       args |-> SubSeq(command, arg, FirstFrom(command, arg, line) - 1)]

\* A name of maximal length has no end: what follows it on the stack is read.
\* The model takes the end of the string, or one byte more.
Ends(file_name) ==
  IF Len(file_name) < FILE_NAME_CHARMAX THEN {file_name \o <<0>>}
  ELSE {file_name \o <<0>>, file_name \o <<REGULAR_FILE_TYPE, 0>>}

\* The test for an executable refuses a file if each of its first four bytes
\* differs from the magic number's; bytes that were not read are any bytes.
\* img.elf has <<k, byte>> for the bytes that are byte k of the magic number.
_4B == 4

ExecCheck(inode) ==
  LET exec_check == read_data(img, inode, 0, _4B).buf
      agrees == \E k \in 1 .. Len(exec_check) : <<k, exec_check[k]>> \in img.elf
  IN  {ok \in BOOLEAN : IF agrees THEN ok
                        ELSE Len(exec_check) < _4B \/ ~ok}

\* execute_func: the checks that need the file system, then a new PCB.
Executable(name) ==
  {i \in read_dentry_by_name(img, name) :
     /\ img.dentries[i].file_type = REGULAR_FILE_TYPE
     /\ TRUE \in ExecCheck(img.dentries[i].inode_num)}

\* Bug variant: one program more.
Room_bug == depth <= MAX_PROGS

Room == depth < MAX_PROGS

Execute(command) ==
  LET parsed == get_args_fname(command)
  IN  /\ Room
      /\ \E name \in Ends(parsed.file_name) : Executable(name) # {}
      /\ pcb' = Append(pcb, PCB_init(parsed.args))
      /\ last' = NoData
      /\ UNCHANGED image

ExecuteFails(command) ==
  LET parsed == get_args_fname(command)
  IN  /\ \/ ~Room
         \/ \E name \in Ends(parsed.file_name) :
              \A i \in read_dentry_by_name(img, name) :
                \/ img.dentries[i].file_type # REGULAR_FILE_TYPE
                \/ FALSE \in ExecCheck(img.dentries[i].inode_num)
      /\ last' = NoData
      /\ UNCHANGED <<image, pcb>>

\* halt_func: back to the parent; a first shell is set up again.
Halt ==
  /\ pcb' = IF depth > 1 THEN SubSeq(pcb, 1, depth - 1) ELSE <<PCB_init(<<>>)>>
  /\ last' = NoData
  /\ UNCHANGED image

-----------------------------------------------------------------------------
\* The free entry open_func finds; new_fd is uninitialized if it finds none.
new_fds ==
  LET free == {i \in 2 .. MAX_FD - 1 : fd_A[i].fops_ptr = "NULL"}
  IN  IF free = {} THEN Fds
      ELSE {i \in free : \A j \in free : i <= j}

\* The entry for a directory entry, by file type.
Opened(dentry) ==
  IF dentry.file_type = RTC_TYPE THEN Entry("rtc", -1, 0)
  ELSE IF dentry.file_type = DIR_TYPE THEN Entry("dir", -1, 1)
  ELSE Entry("file", dentry.inode_num, 0)

\* Bug variant: the limit does not count stdin and stdout.
TooManyOpen_bug == curr.fd_total_open >= MAX_FD + 1

TooManyOpen == curr.fd_total_open >= MAX_FD - 1

open_func(path) ==
  /\ ~TooManyOpen
  /\ \E i \in read_dentry_by_name(img, path), fd \in new_fds :
       /\ SetEntry(fd, Opened(img.dentries[i]), curr.fd_total_open + 1)
       /\ last' = NoData
  /\ UNCHANGED image

open_func_fails(path) ==
  /\ TooManyOpen \/ read_dentry_by_name(img, path) = {}
  /\ last' = NoData
  /\ UNCHANGED <<image, pcb>>

InTable(fd) == fd \in Fds /\ fd_A[fd].fops_ptr # "NULL"
Function(fd, op) == fops[fd_A[fd].fops_ptr][op]

\* Bug variant: the count is left as it was.
CountClosed_bug(n) == n

CountClosed(n) == n - 1

close_func(fd) ==
  /\ fd > 1 /\ InTable(fd)
  /\ SetEntry(fd, Free, CountClosed(curr.fd_total_open))
  /\ last' = NoData
  /\ UNCHANGED image

close_func_fails(fd) ==
  /\ fd <= 1 \/ ~InTable(fd)
  /\ last' = NoData
  /\ UNCHANGED <<image, pcb>>

-----------------------------------------------------------------------------
\* read_func dispatches.
Reads(fd, nbytes, function) ==
  InTable(fd) /\ nbytes > 0 /\ Function(fd, 2) = function

\* Bug variant: pos also moves past what a failed read has copied.
Advance_bug(r) == Len(r.buf)

Advance(r) == IF r.ret > 0 THEN r.ret ELSE 0

read_data_file(fd, nbytes) ==
  /\ Reads(fd, nbytes, "read_data_file")
  /\ LET r == read_data(img, fd_A[fd].inode_num, fd_A[fd].pos, nbytes)
     IN  /\ SetEntry(fd, Moved(fd, Advance(r)), curr.fd_total_open)
         /\ Delivers("read", fd, nbytes, r)
  /\ UNCHANGED image

\* The directory entry goes through a pointer that was never set: the model is
\* of a build where nothing else is there.
read_dir_file(fd, nbytes) ==
  /\ Reads(fd, nbytes, "read_dir")
  /\ LET r == read_dir(img, fd_A[fd].pos)
     IN  /\ IF read_dentry_by_index(img, fd_A[fd].pos) = {} THEN UNCHANGED pcb
            ELSE SetEntry(fd, Moved(fd, 1), curr.fd_total_open)
         /\ Delivers("list", fd, nbytes, r)
  /\ UNCHANGED image

\* Any other read or write: refused by read_func or write_func, handled by
\* invalid_func, file_write, the terminal or the RTC, none of which touches the
\* table.  So are getargs without a buffer, vidmap, set_handler and sigreturn.
OtherCall(fd, nbytes) ==
  /\ ~Reads(fd, nbytes, "read_data_file") /\ ~Reads(fd, nbytes, "read_dir")
  /\ last' = NoData
  /\ UNCHANGED <<image, pcb>>

getargs_func ==
  /\ Delivers("getargs", 0, 0, [ret |-> 0, buf |-> curr.args])
  /\ UNCHANGED <<image, pcb>>

-----------------------------------------------------------------------------
Init ==
  /\ image \in DOMAIN Images
  /\ pcb = <<PCB_init(<<>>)>>
  /\ last = NoData

Next ==
  \/ \E command \in Commands : Execute(command) \/ ExecuteFails(command)
  \/ Halt
  \/ \E path \in Paths : open_func(path) \/ open_func_fails(path)
  \/ \E fd \in -1 .. MAX_FD : close_func(fd) \/ close_func_fails(fd)
  \/ \E fd \in -1 .. MAX_FD, nbytes \in Lengths :
       \/ read_data_file(fd, nbytes) \/ read_dir_file(fd, nbytes)
       \/ OtherCall(fd, nbytes)
  \/ getargs_func

Spec == Init /\ [][Next]_vars
-----------------------------------------------------------------------------
FD == [fops_ptr : Kinds, inode_num : Int, pos : Nat]

TypeOK ==
  /\ image \in DOMAIN Images
  /\ depth \in 1 .. MAX_PROGS
  /\ \A p \in 1 .. depth :
       /\ pcb[p].fd_A \in [Fds -> FD]
       /\ pcb[p].fd_total_open \in Nat

\* fd_total_open is kept apart from the entries it counts; through any order
\* of opens, closes, programs started and ended, failed or not, it is one more
\* than the entries in use, so that open_func finds an entry whenever the count
\* lets it look for one.  (syscalls.c:298-321, 366-368, 397)
InUse(table) == {i \in 2 .. MAX_FD - 1 : table[i].fops_ptr # "NULL"}

TableCounts ==
  \A p \in 1 .. depth :
    pcb[p].fd_total_open = Cardinality(InUse(pcb[p].fd_A)) + 1

\* No sequence of opens and closes ever takes stdin or stdout away from a
\* program, or lets one be used for the other.  (file_desc.c:113-123)
StandardStreams ==
  \A p \in 1 .. depth :
    /\ pcb[p].fd_A[0].fops_ptr = "stdin"
    /\ pcb[p].fd_A[1].fops_ptr = "stdout"

\* A read from a file never puts more into the buffer than was asked for, even
\* when it fails half way, and reports the end of the file only there.
\* (file_sys.c:167-237)
ReadBounds ==
  LET entry == fd_A[last.fd]
  IN  last.op = "read" =>
        /\ last.ret <= Len(last.buf) /\ Len(last.buf) <= last.nbytes
        /\ last.ret = 0 => entry.pos = get_file_size(img, entry.inode_num)

\* A name that reading the directory delivers opens an entry with that name,
\* also one that fills its field and is not ended there.  (file_sys.c:69-84)
ListedOpens ==
  last.op = "list" /\ last.ret > 0 =>
    \E i \in read_dentry_by_name(img, last.buf \o <<0>>) :
      String(Name(img.dentries[i])) = last.buf

\* What is left of the file or directory of a descriptor.
LeftIn(m, entry) ==
  IF entry.fops_ptr = "file"
  THEN [i \in 1 .. get_file_size(m, entry.inode_num) - entry.pos |->
          FileByte(m, entry.inode_num, entry.pos + i - 1)]
  ELSE IF entry.fops_ptr = "dir"
  THEN [i \in 1 .. m.stats[1] - entry.pos |->
          String(Name(m.dentries[entry.pos + i - 1]))]
  ELSE <<>>

Left(entry) == LeftIn(img, entry)

StreamsOf(table) == [fd \in InUse(table) |-> Left(table[fd])]

AllStreams == [p \in 1 .. depth |-> StreamsOf(pcb[p].fd_A)]

\* What can be opened: whole files, the directory from entry 1, nothing (RTC).
Contents ==
  [n \in DOMAIN Images |->
     {LeftIn(Images[n], Opened(Images[n].dentries[i])) :
        i \in 0 .. Images[n].stats[1] - 1}]

Delivered ==
  IF last.ret <= 0 \/ last.op = "getargs" THEN <<>>
  ELSE IF last.op = "list" THEN <<last.buf>> ELSE last.buf

\* A descriptor is a stream of its file: what reads deliver, and what the
\* table then says is left, are the file's bytes in order and once each.
AbstractStreams ==
  INSTANCE Streams WITH
    Fds <- 2 .. MAX_FD - 1,
    MaxDepth <- MAX_PROGS,
    contents <- Contents[image],
    streams <- AllStreams,
    got <- Delivered

ImplementsStreams == AbstractStreams!Spec
=============================================================================
