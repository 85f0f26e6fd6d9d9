--------------------------- MODULE FileDesc_proofs ---------------------------
(***************************************************************************)
(* Theorems about FileDesc, for any image, any size of the tables and any  *)
(* calls.                                                                  *)
(*                                                                         *)
(* The invariant says of each process control block, whatever its place in *)
(* the stack of programs, that its count is that of its table and that its *)
(* first two entries are stdin and stdout; a step puts at most one block   *)
(* in the place of another, and that one keeps what is said of it.         *)
(*                                                                         *)
(* What reads deliver follows from the theorems of FileSys_proofs, at the  *)
(* position that the invariant keeps in the file.  For the refinement, an  *)
(* entry stands for what its descriptor has left: a read splits that into  *)
(* what it delivers and what the new position leaves.                      *)
(***************************************************************************)
EXTENDS FileDesc, FileSys_proofs, FiniteSetTheorems, TLAPS

Args == {get_args_fname(command).args : command \in Commands} \cup {<<>>}

BlockType == [fd_A : [Fds -> FD], fd_total_open : Nat, args : Args]

\* The position in a file is not past its end.
InFile(e) ==
  e.fops_ptr = "file" /\ e.inode_num \in 0 .. img.stats[2] - 1 =>
    e.pos <= get_file_size(img, e.inode_num)

Block ==
  {b \in BlockType :
     /\ \A fd \in Fds : InFile(b.fd_A[fd])
     /\ b.fd_total_open = Cardinality(InUse(b.fd_A)) + 1
     /\ b.fd_A[0].fops_ptr = "stdin"
     /\ b.fd_A[1].fops_ptr = "stdout"}

IndInv ==
  /\ image \in DOMAIN Images
  /\ pcb \in Seq(Block)
  /\ Len(pcb) \in 1 .. MAX_PROGS

-----------------------------------------------------------------------------
\* The entries that can be opened, and the counts of them.
LEMMA Standard == Fds = 0 .. MAX_FD - 1 /\ {0, 1} \subseteq Fds
BY MaxFdAssumption DEF Fds

LEMMA KindsFact ==
  Kinds = {"stdin", "stdout", "rtc", "dir", "file", "NULL"}
BY DEF Kinds, fops

LEMMA FreeType == Free \in FD
BY KindsFact DEF Free, Entry, FD

LEMMA OpenFinite ==
  ASSUME NEW table
  PROVE  /\ IsFiniteSet(InUse(table))
         /\ Cardinality(InUse(table)) \in Nat
         /\ Cardinality(InUse(table)) <= MAX_FD - 2
         /\ InUse(table) # 2 .. MAX_FD - 1 =>
              Cardinality(InUse(table)) < MAX_FD - 2
         /\ InUse(table) = 2 .. MAX_FD - 1 =>
              Cardinality(InUse(table)) = MAX_FD - 2
<1>1. /\ IsFiniteSet(2 .. MAX_FD - 1)
      /\ Cardinality(2 .. MAX_FD - 1) = MAX_FD - 2
  BY FS_Interval, MaxFdAssumption
<1>2. InUse(table) \subseteq 2 .. MAX_FD - 1
  BY DEF InUse
<1>3. /\ IsFiniteSet(InUse(table))
      /\ Cardinality(InUse(table)) <= MAX_FD - 2
      /\ Cardinality(InUse(table)) = MAX_FD - 2 => InUse(table) = 2 .. MAX_FD - 1
  BY <1>1, <1>2, FS_Subset
<1>4. Cardinality(InUse(table)) \in Nat
  BY <1>3, FS_CardinalityType
<1>5. QED
  BY <1>1, <1>3, <1>4, MaxFdAssumption

\* Putting an entry into the table, or taking it out.
LEMMA OpenOne ==
  ASSUME NEW table \in [Fds -> FD], NEW fd \in 2 .. MAX_FD - 1,
         table[fd].fops_ptr = "NULL",
         NEW e \in FD, e.fops_ptr # "NULL"
  PROVE  Cardinality(InUse([table EXCEPT ![fd] = e])) = Cardinality(InUse(table)) + 1
<1>1. fd \in Fds
  BY MaxFdAssumption DEF Fds
<1>2. InUse([table EXCEPT ![fd] = e]) = InUse(table) \cup {fd}
  BY <1>1, Standard DEF InUse
<1>3. fd \notin InUse(table)
  BY DEF InUse
<1>4. QED
  BY <1>2, <1>3, OpenFinite, FS_AddElement

LEMMA CloseOne ==
  ASSUME NEW table \in [Fds -> FD], NEW fd \in InUse(table)
  PROVE  Cardinality(InUse([table EXCEPT ![fd] = Free])) =
           Cardinality(InUse(table)) - 1
<1>1. fd \in Fds
  BY MaxFdAssumption DEF Fds, InUse
<1>2. InUse([table EXCEPT ![fd] = Free]) = InUse(table) \ {fd}
  BY <1>1, Standard DEF InUse, Free, Entry
<1>3. QED
  BY <1>2, OpenFinite, FS_RemoveElement

\* A new process's block.
LEMMA NewBlock == \A args \in Args : PCB_init(args) \in Block
<1> TAKE args \in Args
<1>1. fd_A_init \in [Fds -> FD]
  BY FreeType, KindsFact DEF fd_A_init, FD, Entry
<1>2. InUse(fd_A_init) = {}
  BY Standard DEF InUse, fd_A_init, Free, Entry
<1>3. Cardinality(InUse(fd_A_init)) = 0
  BY <1>2, FS_EmptySet
<1>4. fd_A_init[0].fops_ptr = "stdin" /\ fd_A_init[1].fops_ptr = "stdout"
  BY Standard DEF fd_A_init, Entry
<1>5. \A fd \in Fds : InFile(fd_A_init[fd])
  BY DEF InFile, fd_A_init, Free, Entry
<1>6. QED
  BY <1>1, <1>3, <1>4, <1>5 DEF PCB_init, Block, BlockType

\* What is known of the image.
LEMMA ImageFact ==
  ASSUME image \in DOMAIN Images
  PROVE  /\ \A i \in {1, 2, 3} : img.stats[i] \in Nat
         /\ \A i \in 0 .. img.stats[1] :
              /\ img.dentries[i].file_type \in
                   {RTC_TYPE, DIR_TYPE, REGULAR_FILE_TYPE}
              /\ img.dentries[i].inode_num \in Nat
         /\ \A i \in 0 .. img.stats[2] - 1 : get_file_size(img, i) \in Nat
BY ImagesAssumption DEF img

\* Every entry of the directory, and the one behind it, has a name that ends;
\* the one behind it has the empty name.
LEMMA DirectoryFact ==
  ASSUME image \in DOMAIN Images, NEW i \in 0 .. img.stats[1]
  PROVE  /\ IsString(Name(img.dentries[i]))
         /\ strlen(Name(img.dentries[i])) = 0 <=> i = img.stats[1]
<1> DEFINE d == img.dentries[i]
           f == d.filename
           t == <<d.file_type, 0>>
           N == FILE_NAME_CHARMAX
<1>1. /\ f \in [1 .. N -> Nat] /\ N \in Nat /\ N >= 1
      /\ f[1] = 0 <=> i = img.stats[1]
  BY DirectoryAssumption, NameAssumption DEF img
<1>2. d.file_type \in Nat
  BY ImageFact DEF RTC_TYPE, DIR_TYPE, REGULAR_FILE_TYPE
<1>3. t \in Seq(Nat) /\ Len(t) = 2 /\ t[2] = 0
  BY <1>2
<1>4. f \in Seq(Nat) /\ Len(f) = N
  BY <1>1
<1>5. Name(d) = f \o t
  BY DEF Name
<1> HIDE DEF f, t, N
<1>6. /\ f \o t \in Seq(Nat)
      /\ Len(f \o t) = Len(f) + Len(t)
      /\ \A j \in 1 .. Len(f) + Len(t) :
           (f \o t)[j] = IF j <= Len(f) THEN f[j] ELSE t[j - Len(f)]
  BY <1>3, <1>4, ConcatProperties
<1> HIDE DEF d
<1>7. Name(d) \in Seq(Nat) /\ Len(Name(d)) = N + 2
  BY <1>3, <1>4, <1>5, <1>6
<1>8. Name(d)[N + 2] = 0 /\ Name(d)[1] = f[1]
  <2>1. /\ N + 2 \in 1 .. Len(f) + Len(t) /\ ~(N + 2 <= Len(f)) /\ N + 2 - Len(f) = 2
        /\ 1 \in 1 .. Len(f) + Len(t) /\ 1 <= Len(f)
    BY <1>1, <1>3, <1>4
  <2>2. (f \o t)[N + 2] = 0
    <3>1. (f \o t)[N + 2] = t[N + 2 - Len(f)]
      BY <1>1, <1>3, <1>4, <1>6, <2>1
    <3>2. t[N + 2 - Len(f)] = t[2]
      BY <2>1
    <3>3. QED
      BY <1>3, <3>1, <3>2
  <2>3. (f \o t)[1] = f[1]
    BY <1>6, <2>1
  <2>4. QED
    BY <1>5, <2>2, <2>3, Zenon
<1>9. IsString(Name(d))
  <2>1. N + 2 \in 1 .. Len(Name(d))
    BY <1>1, <1>7
  <2>2. QED
    BY <1>7, <1>8, <2>1 DEF IsString
<1>10. strlen(Name(d)) = 0 => Name(d)[1] = 0
  <2>1. Name(d)[strlen(Name(d)) + 1] = 0
    BY <1>9, StrlenFact
  <2>2. QED
    BY <2>1
<1>11. Name(d)[1] = 0 => strlen(Name(d)) = 0
  <2>1. 0 \in 0 .. Len(Name(d)) - 1 /\ 0 + 1 = 1
    BY <1>1, <1>7
  <2>2. QED
    BY <1>9, <2>1, StrlenIs
<1>12. QED
  BY <1>1, <1>8, <1>9, <1>10, <1>11 DEF d

\* What the running program's block may become.
LEMMA CurrBlock ==
  ASSUME IndInv
  PROVE  /\ depth \in DOMAIN pcb
         /\ curr \in Block /\ curr \in BlockType
         /\ fd_A \in [Fds -> FD]
BY DEF IndInv, Block, BlockType, depth, curr, fd_A

LEMMA NewTop ==
  ASSUME IndInv, NEW b \in Block, pcb' = [pcb EXCEPT ![depth] = b],
         UNCHANGED image
  PROVE  IndInv'
<1>1. Block' = Block
  BY DEF Block, BlockType, InFile, img
<1>2. QED
  BY <1>1 DEF IndInv, depth

-----------------------------------------------------------------------------
LEMMA InitInv == Init => IndInv
BY NewBlock, MaxProgsAssumption DEF Init, IndInv, Args

\* A program starts, or ends.
LEMMA ExecuteStep == \A command \in Commands : IndInv /\ Execute(command) => IndInv'
<1> SUFFICES ASSUME NEW command \in Commands, IndInv, Execute(command)
             PROVE  IndInv'
  OBVIOUS
<1>1. get_args_fname(command).args \in Args
  BY DEF Args
<1>2. /\ pcb' = Append(pcb, PCB_init(get_args_fname(command).args))
      /\ Len(pcb) < MAX_PROGS
      /\ image' = image
  BY DEF Execute, Room, depth
<1>3. PCB_init(get_args_fname(command).args) \in Block
  BY <1>1, NewBlock
<1>4. Block' = Block
  BY <1>2 DEF Block, BlockType, InFile, img
<1>5. QED
  BY <1>2, <1>3, <1>4, MaxProgsAssumption DEF IndInv

LEMMA HaltStep == IndInv /\ Halt => IndInv'
<1> SUFFICES ASSUME IndInv, Halt PROVE IndInv'
  OBVIOUS
<1>1. PCB_init(<<>>) \in Block
  BY NewBlock DEF Args
<1>2. Block' = Block
  BY DEF Halt, Block, BlockType, InFile, img
<1>3. CASE depth > 1
  <2>1. pcb' = SubSeq(pcb, 1, Len(pcb) - 1)
    BY <1>3 DEF Halt, depth
  <2>2. pcb' \in Seq(Block) /\ Len(pcb') = Len(pcb) - 1
    BY <1>3, <2>1 DEF IndInv, depth
  <2>3. QED
    BY <1>2, <1>3, <2>2, MaxProgsAssumption DEF IndInv, Halt, depth
<1>4. CASE ~(depth > 1)
  BY <1>1, <1>2, <1>4, MaxProgsAssumption DEF IndInv, Halt
<1>5. QED
  BY <1>3, <1>4

\* open_func finds a free entry whenever the count lets it look for one.
LEMMA FreeEntry ==
  ASSUME IndInv, ~TooManyOpen
  PROVE  /\ \E i \in 2 .. MAX_FD - 1 : fd_A[i].fops_ptr = "NULL"
         /\ new_fds \subseteq {i \in 2 .. MAX_FD - 1 : fd_A[i].fops_ptr = "NULL"}
<1>1. Cardinality(InUse(fd_A)) < MAX_FD - 2
  BY CurrBlock, MaxFdAssumption, OpenFinite DEF TooManyOpen, Block, fd_A
<1>2. InUse(fd_A) # 2 .. MAX_FD - 1
  BY <1>1, OpenFinite, MaxFdAssumption
<1>3. \E i \in 2 .. MAX_FD - 1 : fd_A[i].fops_ptr = "NULL"
  BY <1>2 DEF InUse
<1>4. QED
  BY <1>3 DEF new_fds

LEMMA OpenStep == \A path \in Paths : IndInv /\ open_func(path) => IndInv'
<1> SUFFICES ASSUME NEW path \in Paths, IndInv, open_func(path)
             PROVE  IndInv'
  OBVIOUS
<1>1. PICK i \in read_dentry_by_name(img, path), fd \in new_fds :
        SetEntry(fd, Opened(img.dentries[i]), curr.fd_total_open + 1)
  BY DEF open_func
<1> DEFINE e == Opened(img.dentries[i])
           table == [fd_A EXCEPT ![fd] = e]
           b == [fd_A |-> table, fd_total_open |-> curr.fd_total_open + 1,
                 args |-> curr.args]
<1>2. fd \in 2 .. MAX_FD - 1 /\ fd_A[fd].fops_ptr = "NULL"
  BY FreeEntry DEF open_func
<1>3. /\ img.dentries[i].inode_num \in Nat
      /\ img.stats[2] \in Nat
      /\ \A j \in 0 .. img.stats[2] - 1 : get_file_size(img, j) \in Nat
  BY ImageFact DEF IndInv, read_dentry_by_name
<1>4. e \in FD /\ e.fops_ptr # "NULL" /\ InFile(e)
  BY <1>3, KindsFact DEF Opened, Entry, FD, InFile
<1>5. fd \in Fds /\ fd \notin {0, 1}
  BY <1>2, MaxFdAssumption DEF Fds
<1>6. pcb' = [pcb EXCEPT ![depth] = b]
  BY <1>1 DEF SetEntry
<1> HIDE DEF e
<1>7. table \in [Fds -> FD] /\ b \in BlockType
  BY <1>4, <1>5, CurrBlock DEF BlockType
<1>8. Cardinality(InUse(table)) = Cardinality(InUse(fd_A)) + 1
  BY <1>2, <1>4, CurrBlock, OpenOne
<1>9. /\ table[0].fops_ptr = "stdin" /\ table[1].fops_ptr = "stdout"
      /\ \A f \in Fds : InFile(table[f])
  BY <1>4, <1>5, CurrBlock, Standard DEF Block, fd_A
<1> HIDE DEF table
<1>10. b \in Block
  <2>1. curr.fd_total_open = Cardinality(InUse(fd_A)) + 1
    BY CurrBlock DEF Block, fd_A
  <2>2. QED
    BY <1>7, <1>8, <1>9, <2>1 DEF Block
<1>11. QED
  BY <1>6, <1>10, NewTop DEF open_func

LEMMA CloseStep ==
  ASSUME IndInv, NEW fd \in -1 .. MAX_FD, close_func(fd)
  PROVE  IndInv'
<1> DEFINE table == [fd_A EXCEPT ![fd] = Free]
           b == [fd_A |-> table, fd_total_open |-> curr.fd_total_open - 1,
                 args |-> curr.args]
<1>1. fd \in Fds /\ fd \notin {0, 1} /\ fd \in InUse(fd_A)
  BY DEF close_func, InTable, Fds, InUse
<1>2. pcb' = [pcb EXCEPT ![depth] = b]
  BY DEF close_func, CountClosed, SetEntry
<1>3. Cardinality(InUse(table)) = Cardinality(InUse(fd_A)) - 1
  BY <1>1, CurrBlock, CloseOne
<1>4. curr.fd_total_open = Cardinality(InUse(fd_A)) + 1
  BY CurrBlock DEF Block, fd_A
<1>5. table \in [Fds -> FD] /\ b \in BlockType
  <2>1. b.fd_total_open \in Nat
    BY <1>3, <1>4, OpenFinite
  <2>2. QED
    BY <1>1, <2>1, FreeType, CurrBlock DEF BlockType
<1>6. /\ table[0].fops_ptr = "stdin" /\ table[1].fops_ptr = "stdout"
      /\ \A f \in Fds : InFile(table[f])
  <2>1. InFile(Free)
    BY DEF InFile, Free, Entry
  <2>2. QED
    BY <1>1, <2>1, CurrBlock, Standard DEF Block, fd_A
<1> HIDE DEF table
<1>7. b \in Block
  BY <1>3, <1>4, <1>5, <1>6, OpenFinite DEF Block
<1>8. QED
  BY <1>2, <1>7, NewTop DEF close_func

\* A read that only moves the position of a descriptor.
LEMMA MoveStep ==
  ASSUME IndInv, NEW fd \in Fds, NEW n \in Nat, UNCHANGED image,
         SetEntry(fd, Moved(fd, n), curr.fd_total_open), InFile(Moved(fd, n))
  PROVE  IndInv'
<1> DEFINE e == Moved(fd, n)
           table == [fd_A EXCEPT ![fd] = e]
           b == [fd_A |-> table, fd_total_open |-> curr.fd_total_open,
                 args |-> curr.args]
<1>1. e \in FD /\ e.fops_ptr = fd_A[fd].fops_ptr /\ InFile(e)
  BY CurrBlock DEF FD, Moved, Entry
<1>2. pcb' = [pcb EXCEPT ![depth] = b]
  BY DEF SetEntry
<1> HIDE DEF e
<1>3. table \in [Fds -> FD] /\ b \in BlockType
  BY <1>1, CurrBlock DEF BlockType
<1>4. InUse(table) = InUse(fd_A)
  BY <1>1, CurrBlock, Standard DEF InUse
<1>5. /\ table[0].fops_ptr = "stdin" /\ table[1].fops_ptr = "stdout"
      /\ \A f \in Fds : InFile(table[f])
  BY <1>1, CurrBlock, Standard DEF Block, fd_A
<1> HIDE DEF table
<1>6. b \in Block
  <2>1. curr.fd_total_open = Cardinality(InUse(fd_A)) + 1
    BY CurrBlock DEF Block, fd_A
  <2>2. QED
    BY <1>3, <1>4, <1>5, <2>1 DEF Block
<1>7. QED
  BY <1>2, <1>6, NewTop

\* What a read of a file returns, by the lemma about read_data: the next bytes,
\* all that were asked for or up to the end; the end; or a failure.
LEMMA ReadResult ==
  ASSUME IndInv, NEW fd \in -1 .. MAX_FD, NEW nbytes \in Lengths,
         read_data_file(fd, nbytes)
  PROVE  LET e == fd_A[fd]
             r == read_data(img, e.inode_num, e.pos, nbytes)
             size == get_file_size(img, e.inode_num)
         IN  /\ fd \in Fds /\ e \in FD /\ e.fops_ptr = "file"
             /\ r.ret \in Int /\ Len(r.buf) \in Nat
             /\ r.ret <= Len(r.buf) /\ Len(r.buf) <= nbytes
             /\ r.ret = 0 => e.pos = size
             /\ r.ret > 0 => /\ r.buf = Bytes(img, e.inode_num, e.pos, r.ret)
                             /\ size \in Nat /\ e.pos + r.ret <= size
<1> DEFINE e == fd_A[fd]
           r == read_data(img, e.inode_num, e.pos, nbytes)
           size == get_file_size(img, e.inode_num)
<1>1. /\ fd \in Fds /\ e \in FD /\ e.pos \in Nat /\ InFile(e)
      /\ nbytes \in Nat \ {0}
  BY CurrBlock, LengthsAssumption
  DEF read_data_file, Reads, InTable, FD, Block, fd_A
<1>2. e.fops_ptr = "file"
  BY <1>1, KindsFact DEF read_data_file, Reads, InTable, Function, fops, FD
<1>3. CASE e.inode_num \in 0 .. img.stats[2] - 1
  <2>1. size \in Nat /\ e.inode_num \in Nat /\ e.pos <= size
    BY <1>1, <1>2, <1>3, ImageFact DEF IndInv, InFile
  <2>2. /\ r.ret \in -1 .. nbytes
        /\ r.ret = 0 => e.pos >= size
        /\ \E m \in 0 .. nbytes :
             /\ r.buf = Bytes(img, e.inode_num, e.pos, m)
             /\ r.ret > 0 => m = r.ret /\ e.pos + m <= size
    BY <1>1, <2>1, ReadData
  <2> HIDE DEF r, size, e
  <2>3. PICK m \in 0 .. nbytes :
          /\ r.buf = Bytes(img, e.inode_num, e.pos, m)
          /\ r.ret > 0 => m = r.ret /\ e.pos + m <= size
    BY <2>2
  <2>4. Len(r.buf) = m
    BY <1>1, <2>3, BytesSeq
  <2>5. QED
    BY <1>1, <1>2, <2>1, <2>2, <2>3, <2>4 DEF r, size, e
<1>4. CASE e.inode_num \notin 0 .. img.stats[2] - 1
  <2>1. r.ret = -1 /\ r.buf = <<>>
    BY <1>4 DEF read_data, Refused
  <2> HIDE DEF r, e
  <2>2. QED
    BY <1>1, <1>2, <2>1 DEF r, e
<1>5. QED
  BY <1>3, <1>4

LEMMA ReadStep ==
  ASSUME IndInv, NEW fd \in -1 .. MAX_FD, NEW nbytes \in Lengths,
         read_data_file(fd, nbytes)
  PROVE  IndInv'
<1> DEFINE e == fd_A[fd]
           r == read_data(img, e.inode_num, e.pos, nbytes)
           n == Advance(r)
           size == get_file_size(img, e.inode_num)
<1>1. /\ fd \in Fds /\ e \in FD /\ r.ret \in Int
      /\ r.ret > 0 => size \in Nat /\ e.pos + r.ret <= size
  BY ReadResult
<1>2. SetEntry(fd, Moved(fd, n), curr.fd_total_open) /\ UNCHANGED image
  BY DEF read_data_file
<1>3. InFile(e) /\ e.pos \in Nat
  BY <1>1, CurrBlock DEF Block, fd_A, FD
<1> HIDE DEF r
<1>4. n \in Nat /\ (n # 0 => e.pos + n <= size)
  BY <1>1 DEF Advance
<1> HIDE DEF n
<1>5. InFile(Moved(fd, n))
  BY <1>1, <1>3, <1>4 DEF InFile, Moved, Entry
<1>6. QED
  BY <1>1, <1>2, <1>4, <1>5, MoveStep DEF n, r

LEMMA ListStep ==
  ASSUME IndInv, NEW fd \in -1 .. MAX_FD, NEW nbytes \in Lengths,
         read_dir_file(fd, nbytes)
  PROVE  IndInv'
<1>1. fd \in Fds /\ fd_A[fd].fops_ptr # "file"
  BY DEF read_dir_file, Reads, InTable, Function, fops
<1>2. CASE UNCHANGED pcb
  <2>1. Block' = Block
    BY DEF read_dir_file, Block, BlockType, InFile, img
  <2>2. QED
    BY <1>2, <2>1 DEF IndInv, read_dir_file
<1>3. CASE SetEntry(fd, Moved(fd, 1), curr.fd_total_open)
  <2>1. InFile(Moved(fd, 1))
    BY <1>1 DEF InFile, Moved, Entry
  <2>2. QED
    BY <1>1, <1>3, <2>1, MoveStep DEF read_dir_file
<1>4. QED
  BY <1>2, <1>3 DEF read_dir_file

\* Calls that fail, or have nothing to do with the table.
LEMMA OtherStep ==
  ASSUME IndInv, UNCHANGED <<image, pcb>>
  PROVE  IndInv'
<1>1. Block' = Block
  BY DEF Block, BlockType, InFile, img
<1>2. QED
  BY <1>1 DEF IndInv

LEMMA StepInv == IndInv /\ [Next]_vars => IndInv'
<1> SUFFICES ASSUME IndInv, [Next]_vars PROVE IndInv'
  OBVIOUS
<1>1. CASE \E command \in Commands : Execute(command)
  BY <1>1, ExecuteStep
<1>2. CASE Halt
  BY <1>2, HaltStep
<1>3. CASE \E path \in Paths : open_func(path)
  BY <1>3, OpenStep
<1>4. CASE \E fd \in -1 .. MAX_FD : close_func(fd)
  BY <1>4, CloseStep
<1>5. CASE \E fd \in -1 .. MAX_FD, nbytes \in Lengths :
             read_data_file(fd, nbytes) \/ read_dir_file(fd, nbytes)
  BY <1>5, ReadStep, ListStep
<1>6. CASE UNCHANGED <<image, pcb>>
  BY <1>6, OtherStep
<1>7. QED
  BY <1>1, <1>2, <1>3, <1>4, <1>5, <1>6
  DEF Next, vars, ExecuteFails, open_func_fails, close_func_fails, OtherCall,
      getargs_func

-----------------------------------------------------------------------------
\* IndInv holds in every reachable state.
THEOREM Invariance == Spec => []IndInv
BY InitInv, StepInv, PTL DEF Spec

\* Every table keeps its type, and never more than MAX_PROGS programs run.
THEOREM TypeCorrect == Spec => []TypeOK
<1>1. IndInv => TypeOK
  BY DEF IndInv, TypeOK, Block, BlockType, depth
<1>2. QED
  BY <1>1, Invariance, PTL

\* fd_total_open counts the entries of its table through any sequence of
\* opens, closes and programs.  (syscalls.c:298-321, 366-368, 397)
THEOREM CountsAgree == Spec => []TableCounts
<1>1. IndInv => TableCounts
  BY DEF IndInv, TableCounts, Block, InUse, depth
<1>2. QED
  BY <1>1, Invariance, PTL

\* No sequence of calls takes stdin or stdout away from a program.
THEOREM StandardKept == Spec => []StandardStreams
<1>1. IndInv => StandardStreams
  BY DEF IndInv, StandardStreams, Block, depth
<1>2. QED
  BY <1>1, Invariance, PTL

\* Whenever the count lets open_func look for a free entry there is one, so
\* that new_fd is never used uninitialized.  (syscalls.c:298-321)
FindsEntry ==
  ~TooManyOpen => new_fds \subseteq {i \in 2 .. MAX_FD - 1 :
                                       fd_A[i].fops_ptr = "NULL"}

THEOREM OpenFindsEntry == Spec => []FindsEntry
<1>1. IndInv => FindsEntry
  BY FreeEntry DEF FindsEntry
<1>2. QED
  BY <1>1, Invariance, PTL

\* No sequence of reads moves a descriptor past the end of its file, whatever
\* was asked for and whichever reads failed.  (file_sys.c:144-155, 167-237)
PositionsInFile ==
  \A p \in 1 .. depth, fd \in Fds : InFile(pcb[p].fd_A[fd])

THEOREM ReadsStayInFile == Spec => []PositionsInFile
<1>1. IndInv => PositionsInFile
  BY DEF IndInv, PositionsInFile, Block, depth
<1>2. QED
  BY <1>1, Invariance, PTL

-----------------------------------------------------------------------------
\* The running program's table after a call that has changed an entry.
LEMMA EntrySet ==
  ASSUME IndInv, NEW fd \in Fds, NEW e, NEW n, SetEntry(fd, e, n)
  PROVE  /\ depth' = depth
         /\ fd_A' = [fd_A EXCEPT ![fd] = e]
         /\ fd_A'[fd] = e
<1> DEFINE table == [fd_A EXCEPT ![fd] = e]
           b == [fd_A |-> table, fd_total_open |-> n, args |-> curr.args]
<1>1. pcb' = [pcb EXCEPT ![depth] = b]
  BY DEF SetEntry
<1>2. fd \in DOMAIN fd_A
  BY CurrBlock
<1>3. table[fd] = e
  BY <1>2
<1> HIDE DEF table
<1>4. depth \in 1 .. Len(pcb) /\ pcb \in Seq(Block)
  BY DEF IndInv, depth
<1>5. Len(pcb') = Len(pcb) /\ pcb'[depth] = b
  <2> HIDE DEF b
  <2>1. QED
    BY <1>1, <1>4
<1>6. QED
  BY <1>3, <1>5 DEF depth, curr, fd_A, table

LEMMA ReadBoundsStep ==
  ASSUME IndInv, NEW fd \in -1 .. MAX_FD, NEW nbytes \in Lengths,
         read_data_file(fd, nbytes)
  PROVE  ReadBounds'
<1> DEFINE e == fd_A[fd]
           r == read_data(img, e.inode_num, e.pos, nbytes)
           n == Advance(r)
           size == get_file_size(img, e.inode_num)
<1>1. /\ fd \in Fds /\ e \in FD
      /\ r.ret \in Int /\ Len(r.buf) \in Nat
      /\ r.ret <= Len(r.buf) /\ Len(r.buf) <= nbytes
      /\ r.ret = 0 => e.pos = size
  BY ReadResult
<1>2. /\ SetEntry(fd, Moved(fd, n), curr.fd_total_open)
      /\ last' = [op |-> "read", fd |-> fd, nbytes |-> nbytes,
                  ret |-> r.ret, buf |-> r.buf]
      /\ image' = image
  BY DEF read_data_file, Delivers
<1> HIDE DEF r
<1>3. fd_A'[fd] = Moved(fd, n)
  BY <1>1, <1>2, EntrySet
<1>4. r.ret = 0 => n = 0
  BY DEF Advance
<1> HIDE DEF n
<1>5. /\ Moved(fd, n).inode_num = e.inode_num
      /\ n = 0 => Moved(fd, n).pos = e.pos
  BY <1>1 DEF Moved, Entry, FD
<1>6. /\ last'.fd = fd /\ last'.ret = r.ret /\ last'.nbytes = nbytes
      /\ last'.buf = r.buf
  BY <1>2
<1>7. img' = img
  BY <1>2 DEF img
<1>8. r.ret = 0 => fd_A'[last'.fd].pos = get_file_size(img', fd_A'[last'.fd].inode_num)
  BY <1>1, <1>3, <1>4, <1>5, <1>6, <1>7
<1>9. QED
  BY <1>1, <1>6, <1>8 DEF ReadBounds

\* What reading the directory has delivered.
LEMMA ListResult ==
  ASSUME IndInv, NEW fd \in -1 .. MAX_FD, NEW nbytes \in Lengths,
         read_dir_file(fd, nbytes)
  PROVE  LET e == fd_A[fd]
             r == read_dir(img, e.pos)
         IN  /\ fd \in Fds /\ e \in FD /\ e.fops_ptr = "dir"
             /\ r.ret \in Nat
             /\ r.ret > 0 <=> e.pos < img.stats[1]
             /\ e.pos <= img.stats[1] => r.buf = String(Name(img.dentries[e.pos]))
<1> DEFINE e == fd_A[fd]
           r == read_dir(img, e.pos)
           name == Name(img.dentries[e.pos])
<1>1. fd \in Fds /\ e \in FD /\ e.pos \in Nat
  BY CurrBlock DEF read_dir_file, Reads, InTable, FD
<1>2. e.fops_ptr = "dir"
  BY <1>1, KindsFact DEF read_dir_file, Reads, InTable, Function, fops, FD
<1>3. img.stats[1] \in Nat
  BY ImageFact DEF IndInv
<1>4. CASE e.pos <= img.stats[1]
  <2>1. e.pos \in 0 .. img.stats[1]
    BY <1>1, <1>3, <1>4
  <2>2. IsString(name) /\ (strlen(name) = 0 <=> e.pos = img.stats[1])
    BY <2>1, DirectoryFact DEF IndInv
  <2>3. Len(String(name)) = strlen(name) /\ strlen(name) \in Nat
    BY <2>2, StringFact, StrlenFact DEF IsString
  <2>4. r.ret = Len(String(name)) /\ r.buf = String(name)
    BY <1>4 DEF read_dir, read_dentry_by_index
  <2> HIDE DEF r, name, e
  <2>5. r.ret > 0 <=> e.pos < img.stats[1]
    BY <1>3, <2>1, <2>2, <2>3, <2>4
  <2>6. QED
    BY <1>1, <1>2, <2>3, <2>4, <2>5 DEF r, name, e
<1>5. CASE ~(e.pos <= img.stats[1])
  <2>1. r = AtEnd
    BY <1>5 DEF read_dir, read_dentry_by_index
  <2>2. r.ret = 0
    BY <2>1 DEF AtEnd
  <2> HIDE DEF r, e
  <2>3. QED
    BY <1>1, <1>2, <1>3, <1>5, <2>2 DEF r, e
<1>6. QED
  BY <1>4, <1>5

LEMMA ListedOpensStep ==
  ASSUME IndInv, NEW fd \in -1 .. MAX_FD, NEW nbytes \in Lengths,
         read_dir_file(fd, nbytes)
  PROVE  ListedOpens'
<1> DEFINE e == fd_A[fd]
           r == read_dir(img, e.pos)
           name == Name(img.dentries[e.pos])
<1>1. /\ e \in FD
      /\ r.ret > 0 => e.pos < img.stats[1] /\ r.buf = String(name)
  <2> HIDE DEF r
  <2>1. e.pos \in Nat /\ img.stats[1] \in Nat
    BY ListResult, ImageFact DEF IndInv, FD
  <2>2. QED
    BY <2>1, ListResult DEF r
<1>2. /\ last' = [op |-> "list", fd |-> fd, nbytes |-> nbytes,
                  ret |-> r.ret, buf |-> r.buf]
      /\ img' = img
  BY DEF read_dir_file, Delivers, img
<1>3. SUFFICES ASSUME r.ret > 0
               PROVE  \E i \in read_dentry_by_name(img, r.buf \o <<0>>) :
                        String(Name(img.dentries[i])) = r.buf
  BY <1>2 DEF ListedOpens
<1>4. /\ img.stats[1] \in Nat
      /\ \A i \in 0 .. img.stats[1] : IsString(Name(img.dentries[i]))
  BY ImageFact, DirectoryFact DEF IndInv
<1>5. e.pos \in 0 .. img.stats[1] - 1
  BY <1>1, <1>3, <1>4 DEF FD
<1>6. r.buf \o <<0>> = Ended(name) /\ r.buf = String(name)
  BY <1>1, <1>3 DEF Ended
<1> HIDE DEF r
<1>7. \E i \in read_dentry_by_name(img, Ended(name)) :
        String(Name(img.dentries[i])) = String(name)
  BY <1>4, <1>5, ListedIsFound
<1>8. QED
  BY <1>6, <1>7

\* What the last call has delivered was right when it was delivered, and nobody
\* changes the table or the image behind it.
LEMMA DeliveredStep ==
  IndInv /\ ReadBounds /\ ListedOpens /\ [Next]_vars =>
    ReadBounds' /\ ListedOpens'
<1> SUFFICES ASSUME IndInv, ReadBounds, ListedOpens, [Next]_vars
             PROVE  ReadBounds' /\ ListedOpens'
  OBVIOUS
<1>1. CASE last' = NoData \/ getargs_func
  <2>1. last'.op \notin {"read", "list"}
    BY <1>1 DEF NoData, getargs_func, Delivers
  <2>2. QED
    BY <2>1 DEF ReadBounds, ListedOpens
<1>2. ASSUME NEW fd \in -1 .. MAX_FD, NEW nbytes \in Lengths,
             read_data_file(fd, nbytes)
      PROVE  ReadBounds' /\ ListedOpens'
  <2>1. last'.op # "list"
    BY <1>2 DEF read_data_file, Delivers
  <2>2. QED
    BY <1>2, <2>1, ReadBoundsStep DEF ListedOpens
<1>3. ASSUME NEW fd \in -1 .. MAX_FD, NEW nbytes \in Lengths,
             read_dir_file(fd, nbytes)
      PROVE  ReadBounds' /\ ListedOpens'
  <2>1. last'.op # "read"
    BY <1>3 DEF read_dir_file, Delivers
  <2>2. QED
    BY <1>3, <2>1, ListedOpensStep DEF ReadBounds
<1>4. CASE UNCHANGED vars
  BY <1>4 DEF vars, ReadBounds, ListedOpens, fd_A, curr, depth, img
<1>5. QED
  BY <1>1, <1>2, <1>3, <1>4
  DEF Next, Execute, ExecuteFails, Halt, open_func, open_func_fails, close_func,
      close_func_fails, OtherCall

LEMMA DeliveredInvariance == Spec => [](IndInv /\ ReadBounds /\ ListedOpens)
<1>1. Init => IndInv /\ ReadBounds /\ ListedOpens
  BY InitInv DEF Init, ReadBounds, ListedOpens, NoData
<1>2. QED
  BY <1>1, StepInv, DeliveredStep, PTL DEF Spec

\* A read from a file puts no more into the buffer than was asked for, reports
\* no more than it has put there, and reports the end of the file only there,
\* for any image and any sizes of blocks.  (file_sys.c:167-237)
THEOREM ReadsInBounds == Spec => []ReadBounds
BY DeliveredInvariance, PTL

\* A name that reading the directory delivers opens an entry with that name,
\* for any directory, names that fill their field included.  (file_sys.c:69-84)
THEOREM ListedCanBeOpened == Spec => []ListedOpens
BY DeliveredInvariance, PTL

-----------------------------------------------------------------------------
\* FileDesc implements Streams: every step of it is a step of Streams on what is
\* left for each descriptor, or changes nothing there.

\* The programs' streams, as a sequence; and after a step.
LEMMA StreamsSeq ==
  ASSUME NEW n \in Nat, NEW f, NEW S, f = [p \in 1 .. n |-> f[p]],
         \A p \in 1 .. n : f[p] \in S
  PROVE  f \in Seq(S) /\ Len(f) = n
<1>1. f \in [1 .. n -> S]
  OBVIOUS
<1>2. QED
  BY <1>1

LEMMA StreamsNow ==
  ASSUME IndInv, NEW S, \A p \in 1 .. depth : StreamsOf(pcb[p].fd_A) \in S
  PROVE  /\ AllStreams \in Seq(S) /\ Len(AllStreams) = depth
         /\ depth \in Nat \ {0}
         /\ \A p \in 1 .. depth : AllStreams[p] = StreamsOf(pcb[p].fd_A)
<1>1. depth \in Nat \ {0}
  BY DEF IndInv, depth
<1> DEFINE f == AllStreams
<1>2. \A p \in 1 .. depth : f[p] = StreamsOf(pcb[p].fd_A)
  BY DEF AllStreams
<1>3. f = [p \in 1 .. depth |-> f[p]]
  BY DEF AllStreams
<1> HIDE DEF f
<1>4. f \in Seq(S) /\ Len(f) = depth
  BY <1>1, <1>2, <1>3, StreamsSeq
<1>5. QED
  BY <1>1, <1>2, <1>4 DEF f

LEMMA StreamsThen ==
  ASSUME UNCHANGED image
  PROVE  AllStreams' = [p \in 1 .. depth' |-> StreamsOf(pcb'[p].fd_A)]
BY DEF AllStreams, StreamsOf, Left, img

LEMMA ContentsKept ==
  ASSUME UNCHANGED image
  PROVE  UNCHANGED Contents[image]
BY DEF Contents

\* A new program has no streams.
LEMMA NoneAtFirst == \A args : StreamsOf(PCB_init(args).fd_A) = AbstractStreams!NoStreams
<1> TAKE args
<1>1. InUse(fd_A_init) = {}
  BY Standard DEF InUse, fd_A_init, Free, Entry
<1>2. PCB_init(args).fd_A = fd_A_init
  BY DEF PCB_init
<1>3. QED
  BY <1>1, <1>2 DEF StreamsOf, AbstractStreams!NoStreams

LEMMA StartRefines ==
  ASSUME IndInv, NEW command \in Commands, Execute(command)
  PROVE  AbstractStreams!Start
<1> DEFINE b == PCB_init(get_args_fname(command).args)
           none == AbstractStreams!NoStreams
           S == {StreamsOf(pcb[p].fd_A) : p \in 1 .. depth} \cup {none}
           T == Append(AllStreams, none)
<1>1. /\ pcb' = Append(pcb, b) /\ Len(pcb) < MAX_PROGS
      /\ last' = NoData /\ image' = image
  BY DEF Execute, Room, depth
<1>2. StreamsOf(b.fd_A) = none
  BY NoneAtFirst
<1> HIDE DEF b, none
<1>3. \A p \in 1 .. depth : StreamsOf(pcb[p].fd_A) \in S
  OBVIOUS
<1>4. none \in S
  OBVIOUS
<1> HIDE DEF S
<1>5. /\ AllStreams \in Seq(S) /\ Len(AllStreams) = depth
      /\ depth \in Nat \ {0}
      /\ \A p \in 1 .. depth : AllStreams[p] = StreamsOf(pcb[p].fd_A)
  BY <1>3, StreamsNow
<1>6. /\ T \in Seq(S) /\ Len(T) = depth + 1
      /\ \A p \in 1 .. depth : T[p] = StreamsOf(pcb[p].fd_A)
      /\ T[depth + 1] = none
  BY <1>4, <1>5, AppendProperties
<1>7. /\ depth' = depth + 1
      /\ \A p \in 1 .. depth : pcb'[p] = pcb[p]
      /\ pcb'[depth + 1] = b
  BY <1>1 DEF IndInv, depth
<1> HIDE DEF T
<1>8. AllStreams' = [p \in 1 .. depth + 1 |-> StreamsOf(pcb'[p].fd_A)]
  BY <1>1, <1>7, StreamsThen
<1>9. \A p \in 1 .. depth + 1 : StreamsOf(pcb'[p].fd_A) = T[p]
  <2> TAKE p \in 1 .. depth + 1
  <2>1. CASE p \in 1 .. depth
    BY <1>6, <1>7, <2>1
  <2>2. CASE p = depth + 1
    BY <1>2, <1>6, <1>7, <2>2
  <2>3. QED
    BY <1>5, <2>1, <2>2
<1>10. T = [p \in 1 .. depth + 1 |-> T[p]]
  BY <1>5, <1>6, LenProperties
<1>11. AllStreams' = T
  BY <1>8, <1>9, <1>10
<1>12. Delivered' = <<>>
  BY <1>1 DEF Delivered, NoData
<1>13. Len(AllStreams) < MAX_PROGS
  BY <1>1, <1>5 DEF depth
<1>14. QED
  BY <1>11, <1>12, <1>13 DEF AbstractStreams!Start, T, none

LEMMA EndRefines ==
  ASSUME IndInv, Halt
  PROVE  AbstractStreams!End
<1> DEFINE none == AbstractStreams!NoStreams
           S == {StreamsOf(pcb[p].fd_A) : p \in 1 .. depth}
<1>1. image' = image /\ Delivered' = <<>>
  BY DEF Halt, Delivered, NoData
<1>2. \A p \in 1 .. depth : StreamsOf(pcb[p].fd_A) \in S
  OBVIOUS
<1> HIDE DEF S
<1>3. /\ AllStreams \in Seq(S) /\ Len(AllStreams) = depth
      /\ depth \in Nat \ {0}
      /\ \A p \in 1 .. depth : AllStreams[p] = StreamsOf(pcb[p].fd_A)
  BY <1>2, StreamsNow
<1>4. CASE depth > 1
  <2> DEFINE T == SubSeq(AllStreams, 1, depth - 1)
  <2>1. pcb' = SubSeq(pcb, 1, depth - 1)
    BY <1>4 DEF Halt
  <2>2. /\ depth' = depth - 1
        /\ \A p \in 1 .. depth - 1 : pcb'[p] = pcb[p]
    BY <1>4, <2>1 DEF IndInv, depth
  <2>3. \A p \in 1 .. depth - 1 : AllStreams[p] \in S
    BY <1>2, <1>3
  <2>4. /\ T \in Seq(S) /\ Len(T) = depth - 1
        /\ \A p \in 1 .. depth - 1 : T[p] = AllStreams[p]
    <3>1. /\ T \in Seq(S)
          /\ Len(T) = IF 1 <= depth - 1 THEN depth - 1 - 1 + 1 ELSE 0
          /\ \A p \in 1 .. depth - 1 - 1 + 1 : T[p] = AllStreams[1 + p - 1]
      BY <1>3, <2>3, SubSeqProperties
    <3> HIDE DEF T
    <3>2. ASSUME NEW p \in 1 .. depth - 1 PROVE T[p] = AllStreams[p]
      <4>1. p \in 1 .. depth - 1 - 1 + 1 /\ 1 + p - 1 = p
        BY <1>3
      <4>2. QED
        BY <3>1, <4>1
    <3>3. QED
      BY <1>3, <1>4, <3>1, <3>2
  <2> HIDE DEF T
  <2>5. AllStreams' = [p \in 1 .. depth - 1 |-> StreamsOf(pcb'[p].fd_A)]
    BY <1>1, <2>2, StreamsThen
  <2>6. \A p \in 1 .. depth - 1 : StreamsOf(pcb'[p].fd_A) = T[p]
    BY <1>3, <2>2, <2>4
  <2>7. T = [p \in 1 .. depth - 1 |-> T[p]]
    BY <2>4, LenProperties
  <2>8. AllStreams' = SubSeq(AllStreams, 1, Len(AllStreams) - 1)
    BY <1>3, <2>5, <2>6, <2>7 DEF T
  <2>9. Len(AllStreams) # 1
    BY <1>3, <1>4
  <2>10. QED
    BY <1>1, <2>8, <2>9 DEF AbstractStreams!End
<1>5. CASE depth = 1
  <2>1. pcb' = <<PCB_init(<<>>)>>
    BY <1>5 DEF Halt
  <2>2. StreamsOf(PCB_init(<<>>).fd_A) = none
    BY NoneAtFirst
  <2> HIDE DEF none
  <2>3. depth' = 1 /\ pcb'[1] = PCB_init(<<>>)
    BY <2>1 DEF depth
  <2>4. AllStreams' = [p \in 1 .. 1 |-> StreamsOf(pcb'[p].fd_A)]
    BY <1>1, <2>3, StreamsThen
  <2>5. AllStreams' = [p \in 1 .. 1 |-> none]
    BY <2>2, <2>3, <2>4
  <2>6. AllStreams' = <<none>>
    BY <2>5
  <2>7. QED
    BY <1>1, <1>3, <1>5, <2>6 DEF AbstractStreams!End, none
<1>6. QED
  BY <1>3, <1>4, <1>5

\* A call that has changed an entry of the running program's table changes that
\* program's streams only.
LEMMA TopRefines ==
  ASSUME IndInv, NEW fd \in Fds, NEW e, NEW n, SetEntry(fd, e, n),
         UNCHANGED image
  PROVE  /\ AbstractStreams!Becomes(StreamsOf([fd_A EXCEPT ![fd] = e]))
         /\ AllStreams[Len(AllStreams)] = StreamsOf(fd_A)
<1> DEFINE S == {StreamsOf(pcb[p].fd_A) : p \in 1 .. depth}
           table == [fd_A EXCEPT ![fd] = e]
<1>1. \A p \in 1 .. depth : StreamsOf(pcb[p].fd_A) \in S
  OBVIOUS
<1> HIDE DEF S
<1>2. /\ AllStreams \in Seq(S) /\ Len(AllStreams) = depth
      /\ depth \in Nat \ {0}
      /\ \A p \in 1 .. depth : AllStreams[p] = StreamsOf(pcb[p].fd_A)
  BY <1>1, StreamsNow
<1>3. depth' = depth /\ fd_A' = table
  BY EntrySet
<1> HIDE DEF table
<1>4. pcb'[depth].fd_A = table
  BY <1>3 DEF fd_A, curr
<1>5. ASSUME NEW p \in 1 .. depth, p # depth PROVE pcb'[p] = pcb[p]
  BY <1>5 DEF SetEntry, IndInv, depth
<1>6. AllStreams' = [p \in 1 .. depth |-> StreamsOf(pcb'[p].fd_A)]
  BY <1>3, StreamsThen
<1>7. \A p \in 1 .. depth :
        StreamsOf(pcb'[p].fd_A) = IF p = depth THEN StreamsOf(table) ELSE AllStreams[p]
  BY <1>2, <1>4, <1>5
<1>8. AllStreams = [p \in 1 .. depth |-> AllStreams[p]]
  BY <1>2, LenProperties
<1>9. AllStreams' = [AllStreams EXCEPT ![depth] = StreamsOf(table)]
  BY <1>6, <1>7, <1>8
<1>10. AllStreams[depth] = StreamsOf(fd_A)
  BY <1>2 DEF fd_A, curr
<1>11. QED
  BY <1>2, <1>9, <1>10 DEF AbstractStreams!Becomes, table

LEMMA OpenRefines ==
  ASSUME IndInv, NEW path \in Paths, open_func(path)
  PROVE  AbstractStreams!Open(AllStreams[Len(AllStreams)])
<1>1. PICK i \in read_dentry_by_name(img, path), fd \in new_fds :
        /\ SetEntry(fd, Opened(img.dentries[i]), curr.fd_total_open + 1)
        /\ last' = NoData
  BY DEF open_func
<1> DEFINE e == Opened(img.dentries[i])
           table == [fd_A EXCEPT ![fd] = e]
           mine == StreamsOf(fd_A)
           c == Left(e)
<1>2. fd \in 2 .. MAX_FD - 1 /\ fd_A[fd].fops_ptr = "NULL" /\ image' = image
  BY FreeEntry DEF open_func
<1>3. fd \in Fds
  BY <1>2, MaxFdAssumption DEF Fds
<1>4. /\ AbstractStreams!Becomes(StreamsOf(table))
      /\ AllStreams[Len(AllStreams)] = mine
  BY <1>1, <1>2, <1>3, TopRefines
<1>5. e.fops_ptr # "NULL"
  BY DEF Opened, Entry
<1>6. c \in Contents[image]
  <2>1. i \in 0 .. Images[image].stats[1] - 1
    BY DEF read_dentry_by_name, img
  <2>2. image \in DOMAIN Images
    BY DEF IndInv
  <2>3. QED
    BY <2>1, <2>2 DEF Contents, Left, img
<1> HIDE DEF e
<1>7. /\ DOMAIN mine = InUse(fd_A)
      /\ fd \notin InUse(fd_A)
      /\ InUse(table) = InUse(fd_A) \cup {fd}
  BY <1>2, <1>3, <1>5, CurrBlock, Standard DEF InUse, StreamsOf
<1>8. StreamsOf(table) =
        [f \in DOMAIN mine \cup {fd} |-> IF f = fd THEN c ELSE mine[f]]
  <2>1. \A f \in InUse(fd_A) : table[f] = fd_A[f] /\ f # fd
    BY <1>2, <1>3, <1>7, CurrBlock, Standard DEF InUse
  <2>2. table[fd] = e
    BY <1>3, CurrBlock
  <2> HIDE DEF table, c
  <2>3. \A f \in InUse(fd_A) \cup {fd} :
          Left(table[f]) = IF f = fd THEN c ELSE mine[f]
    BY <2>1, <2>2 DEF StreamsOf, c
  <2>4. StreamsOf(table) = [f \in InUse(fd_A) \cup {fd} |-> Left(table[f])]
    BY <1>7 DEF StreamsOf
  <2> HIDE DEF mine
  <2>5. QED
    BY <1>7, <2>3, <2>4
<1>9. Delivered' = <<>>
  BY <1>1 DEF Delivered, NoData
<1> HIDE DEF table, c, mine
<1>10. fd \in (2 .. MAX_FD - 1) \ DOMAIN mine
  BY <1>2, <1>7
<1>11. QED
  BY <1>4, <1>6, <1>8, <1>9, <1>10 DEF AbstractStreams!Open

LEMMA CloseRefines ==
  ASSUME IndInv, NEW fd \in -1 .. MAX_FD, close_func(fd)
  PROVE  AbstractStreams!Close(AllStreams[Len(AllStreams)])
<1> DEFINE table == [fd_A EXCEPT ![fd] = Free]
           mine == StreamsOf(fd_A)
<1>1. fd \in Fds /\ fd \in InUse(fd_A) /\ image' = image /\ last' = NoData
  BY DEF close_func, InTable, Fds, InUse
<1>2. /\ AbstractStreams!Becomes(StreamsOf(table))
      /\ AllStreams[Len(AllStreams)] = mine
  BY <1>1, TopRefines DEF close_func
<1>3. DOMAIN mine = InUse(fd_A) /\ InUse(table) = InUse(fd_A) \ {fd}
  BY <1>1, CurrBlock, Standard DEF InUse, StreamsOf, Free, Entry
<1>4. \A f \in InUse(fd_A) \ {fd} : table[f] = fd_A[f]
  BY <1>1, CurrBlock, Standard DEF InUse
<1> HIDE DEF table
<1>5. StreamsOf(table) = [f \in DOMAIN mine \ {fd} |-> mine[f]]
  BY <1>3, <1>4 DEF StreamsOf
<1>6. Delivered' = <<>>
  BY <1>1 DEF Delivered, NoData
<1> HIDE DEF mine
<1>7. QED
  BY <1>1, <1>2, <1>3, <1>5, <1>6 DEF AbstractStreams!Close

\* A read that moves a descriptor leaves the others as they are.
LEMMA MoveRefines ==
  ASSUME IndInv, NEW fd \in Fds, NEW n \in Nat, UNCHANGED image,
         fd_A[fd].fops_ptr \in {"file", "dir"},
         SetEntry(fd, Moved(fd, n), curr.fd_total_open)
  PROVE  LET mine == AllStreams[Len(AllStreams)]
         IN  /\ fd \in DOMAIN mine /\ mine[fd] = Left(fd_A[fd])
             /\ AbstractStreams!Becomes([mine EXCEPT ![fd] = Left(Moved(fd, n))])
<1> DEFINE e == Moved(fd, n)
           table == [fd_A EXCEPT ![fd] = e]
           mine == StreamsOf(fd_A)
<1>1. /\ AbstractStreams!Becomes(StreamsOf(table))
      /\ AllStreams[Len(AllStreams)] = mine
  BY TopRefines
<1>2. fd \in 2 .. MAX_FD - 1
  BY CurrBlock, MaxFdAssumption DEF Block, fd_A, Fds
<1>3. fd \in InUse(fd_A) /\ e.fops_ptr = fd_A[fd].fops_ptr
  BY <1>2 DEF InUse, Moved, Entry
<1> HIDE DEF e
<1>4. /\ InUse(table) = InUse(fd_A)
      /\ \A f \in InUse(fd_A) : table[f] = IF f = fd THEN e ELSE fd_A[f]
  BY <1>3, CurrBlock, Standard DEF InUse
<1> HIDE DEF table
<1>5. mine = [f \in InUse(fd_A) |-> Left(fd_A[f])]
  BY DEF StreamsOf
<1>6. StreamsOf(table) = [f \in InUse(fd_A) |-> Left(table[f])]
  BY <1>4 DEF StreamsOf
<1> HIDE DEF mine
<1>7. StreamsOf(table) = [mine EXCEPT ![fd] = Left(e)]
  BY <1>3, <1>4, <1>5, <1>6
<1>8. fd \in DOMAIN mine /\ mine[fd] = Left(fd_A[fd])
  BY <1>3, <1>5
<1>9. QED
  BY <1>1, <1>7, <1>8 DEF e

\* What the running program's streams become may be what they are.
LEMMA SameRefines ==
  ASSUME IndInv, Delivered' = <<>>,
         AbstractStreams!Becomes(AllStreams[Len(AllStreams)])
  PROVE  AbstractStreams!Nothing
<1> DEFINE S == {StreamsOf(pcb[p].fd_A) : p \in 1 .. depth}
<1>1. \A p \in 1 .. depth : StreamsOf(pcb[p].fd_A) \in S
  OBVIOUS
<1> HIDE DEF S
<1>2. AllStreams \in Seq(S)
  BY <1>1, StreamsNow
<1>3. AllStreams' = [AllStreams EXCEPT ![Len(AllStreams)] = AllStreams[Len(AllStreams)]]
  BY DEF AbstractStreams!Becomes
<1>4. AllStreams' = AllStreams
  BY <1>2, <1>3
<1>5. QED
  BY <1>4 DEF AbstractStreams!Nothing

LEMMA StillRefines ==
  ASSUME UNCHANGED <<image, pcb>>
  PROVE  UNCHANGED AllStreams
BY DEF AllStreams, StreamsOf, Left, img, depth

\* A read that does not move changes nothing.
LEMMA StayRefines ==
  ASSUME IndInv, NEW fd \in Fds, UNCHANGED image, Delivered' = <<>>,
         SetEntry(fd, Moved(fd, 0), curr.fd_total_open)
  PROVE  AbstractStreams!Nothing
<1>1. fd_A[fd] \in FD /\ fd_A \in [Fds -> FD]
  BY CurrBlock
<1>2. Moved(fd, 0) = fd_A[fd]
  BY <1>1 DEF Moved, Entry, FD
<1>3. [fd_A EXCEPT ![fd] = Moved(fd, 0)] = fd_A
  BY <1>1, <1>2
<1>4. AbstractStreams!Becomes(AllStreams[Len(AllStreams)])
  BY <1>3, TopRefines
<1>5. QED
  BY <1>4, SameRefines

LEMMA ReadRefines ==
  ASSUME IndInv, NEW fd \in -1 .. MAX_FD, NEW nbytes \in Lengths,
         read_data_file(fd, nbytes)
  PROVE  \/ AbstractStreams!Read(AllStreams[Len(AllStreams)])
         \/ AbstractStreams!Nothing
<1> DEFINE e == fd_A[fd]
           r == read_data(img, e.inode_num, e.pos, nbytes)
           n == Advance(r)
           size == get_file_size(img, e.inode_num)
<1>1. /\ fd \in Fds /\ e \in FD /\ e.fops_ptr = "file" /\ r.ret \in Int
      /\ r.ret > 0 => /\ r.buf = Bytes(img, e.inode_num, e.pos, r.ret)
                      /\ size \in Nat /\ e.pos + r.ret <= size
  BY ReadResult
<1>2. /\ SetEntry(fd, Moved(fd, n), curr.fd_total_open)
      /\ last' = [op |-> "read", fd |-> fd, nbytes |-> nbytes,
                  ret |-> r.ret, buf |-> r.buf]
      /\ image' = image
  BY DEF read_data_file, Delivers
<1> HIDE DEF r
<1>3. Delivered' = IF r.ret <= 0 THEN <<>> ELSE r.buf
  BY <1>2 DEF Delivered
<1>4. CASE r.ret <= 0
  <2>1. n = 0
    BY <1>1, <1>4 DEF Advance
  <2> HIDE DEF n
  <2>2. QED
    BY <1>1, <1>2, <1>3, <1>4, <2>1, StayRefines
<1>5. CASE r.ret > 0
  <2> DEFINE k == size - e.pos
             mine == AllStreams[Len(AllStreams)]
  <2>1. n = r.ret
    BY <1>5 DEF Advance
  <2> HIDE DEF n
  <2>2. e.pos \in Nat /\ k \in Nat /\ n \in 0 .. k /\ n \in Nat
    BY <1>1, <1>5, <2>1 DEF FD
  <2>3. Delivered' = Bytes(img, e.inode_num, e.pos, n)
    BY <1>1, <1>3, <1>5, <2>1
  <2>4. /\ fd \in DOMAIN mine /\ mine[fd] = Left(e)
        /\ AbstractStreams!Becomes([mine EXCEPT ![fd] = Left(Moved(fd, n))])
    BY <1>1, <1>2, <2>2, MoveRefines
  <2>5. Left(e) = Bytes(img, e.inode_num, e.pos, k)
    BY <1>1 DEF Left, LeftIn, Bytes
  <2>6. Left(Moved(fd, n)) = Bytes(img, e.inode_num, e.pos + n, k - n)
    <3>1. size - (e.pos + n) = k - n
      BY <1>1, <1>5, <2>2
    <3>2. QED
      BY <1>1, <3>1 DEF Left, LeftIn, Bytes, Moved, Entry
  <2> HIDE DEF k, mine, e
  <2> DEFINE s == mine[fd]
  <2>7. s = Bytes(img, e.inode_num, e.pos, k)
    BY <2>4, <2>5
  <2>8. /\ SubSeq(s, 1, n) = Bytes(img, e.inode_num, e.pos, n)
        /\ SubSeq(s, n + 1, Len(s)) = Bytes(img, e.inode_num, e.pos + n, k - n)
        /\ Len(s) = k /\ Len(Delivered') = n
    <3>1. e.pos \in Int
      BY <2>2
    <3>2. Len(s) = k /\ Len(Delivered') = n
      BY <2>2, <2>3, <2>7, <3>1, BytesSeq
    <3>3. Splits(s, n, Bytes(img, e.inode_num, e.pos, n),
                 Bytes(img, e.inode_num, e.pos + n, k - n))
      BY <2>2, <2>7, <3>1, BytesParts
    <3> HIDE DEF s
    <3>4. QED
      BY <3>2, <3>3 DEF Splits
  <2> HIDE DEF s
  <2>9. AbstractStreams!Becomes([mine EXCEPT ![fd] = SubSeq(s, n + 1, Len(s))])
    BY <2>4, <2>6, <2>8
  <2>10. AbstractStreams!Read(mine)
    BY <2>2, <2>3, <2>4, <2>8, <2>9 DEF AbstractStreams!Read, s
  <2>11. QED
    BY <2>10 DEF mine
<1>6. QED
  BY <1>1, <1>4, <1>5

\* The names of k entries, from one on.
Names(from, k) == [i \in 1 .. k |-> String(Name(img.dentries[from + i - 1]))]

LEMMA NamesParts ==
  ASSUME NEW from \in Nat, NEW k \in Nat \ {0}
  PROVE  /\ Splits(Names(from, k), 1,
                   <<String(Name(img.dentries[from]))>>, Names(from + 1, k - 1))
         /\ Len(Names(from, k)) = k
<1> DEFINE name(i) == String(Name(img.dentries[i]))
           S == {name(i) : i \in Int}
           s == Names(from, k)
           t == <<name(from)>>
           u == Names(from + 1, k - 1)
<1>1. /\ \A i \in 1 .. k : s[i] \in S /\ s[i] = name(from + i - 1)
      /\ \A i \in 1 .. k - 1 : u[i] \in S /\ u[i] = name(from + 1 + i - 1)
      /\ s = [i \in 1 .. k |-> s[i]] /\ u = [i \in 1 .. k - 1 |-> u[i]]
  BY DEF Names
<1>2. name(from) \in S
  OBVIOUS
<1> HIDE DEF S, s, u
<1>3. s \in Seq(S) /\ Len(s) = k /\ u \in Seq(S) /\ Len(u) = k - 1
  BY <1>1, StreamsSeq
<1>4. t \in Seq(S) /\ Len(t) = 1 /\ t[1] = name(from)
  BY <1>2
<1> HIDE DEF t
<1>5. /\ SubSeq(s, 1, 1) \in Seq(S) /\ Len(SubSeq(s, 1, 1)) = 1
      /\ \A i \in 1 .. 1 : SubSeq(s, 1, 1)[i] = s[i]
      /\ SubSeq(s, 1 + 1, Len(s)) \in Seq(S)
      /\ Len(SubSeq(s, 1 + 1, Len(s))) = Len(s) - 1
      /\ \A i \in 1 .. Len(s) - 1 : SubSeq(s, 1 + 1, Len(s))[i] = s[1 + i]
  <2>1. 1 \in 0 .. Len(s)
    BY <1>3
  <2>2. QED
    BY <1>3, <2>1, Parts
<1>6. s[1] = name(from)
  <2>1. 1 \in 1 .. k /\ from + 1 - 1 = from
    OBVIOUS
  <2>2. QED
    BY <1>1, <2>1
<1>7. ASSUME NEW i \in 1 .. k - 1 PROVE s[1 + i] = u[i]
  <2>1. 1 + i \in 1 .. k /\ from + (1 + i) - 1 = from + 1 + i - 1
    OBVIOUS
  <2>2. QED
    BY <1>1, <2>1
<1> HIDE DEF name
<1>8. SubSeq(s, 1, 1) = t
  BY <1>4, <1>5, <1>6, SeqEqual
<1>9. SubSeq(s, 1 + 1, Len(s)) = u
  BY <1>3, <1>5, <1>7, SeqEqual
<1>10. QED
  BY <1>3, <1>8, <1>9 DEF Splits, s, t, u, name

LEMMA ListRefines ==
  ASSUME IndInv, NEW fd \in -1 .. MAX_FD, NEW nbytes \in Lengths,
         read_dir_file(fd, nbytes)
  PROVE  \/ AbstractStreams!Read(AllStreams[Len(AllStreams)])
         \/ AbstractStreams!Nothing
<1> DEFINE e == fd_A[fd]
           r == read_dir(img, e.pos)
           mine == AllStreams[Len(AllStreams)]
           N == img.stats[1]
<1>1. /\ fd \in Fds /\ e \in FD /\ e.fops_ptr = "dir"
      /\ r.ret \in Nat /\ (r.ret > 0 <=> e.pos < N)
      /\ e.pos <= N => r.buf = String(Name(img.dentries[e.pos]))
  BY ListResult
<1>2. /\ last' = [op |-> "list", fd |-> fd, nbytes |-> nbytes,
                  ret |-> r.ret, buf |-> r.buf]
      /\ image' = image
  BY DEF read_dir_file, Delivers
<1> HIDE DEF r
<1>3. Delivered' = IF r.ret <= 0 THEN <<>> ELSE <<r.buf>>
  BY <1>2 DEF Delivered
<1>4. e.pos \in Nat /\ N \in Nat
  BY <1>1, ImageFact DEF FD, IndInv
<1>5. /\ e.pos <= N => SetEntry(fd, Moved(fd, 1), curr.fd_total_open)
      /\ ~(e.pos <= N) => UNCHANGED pcb
  BY DEF read_dir_file, read_dentry_by_index
<1>6. ASSUME e.pos <= N
      PROVE  /\ fd \in DOMAIN mine /\ mine[fd] = Names(e.pos, N - e.pos)
             /\ AbstractStreams!Becomes(
                  [mine EXCEPT ![fd] = Names(e.pos + 1, N - (e.pos + 1))])
  <2>1. /\ fd \in DOMAIN mine /\ mine[fd] = Left(e)
        /\ AbstractStreams!Becomes([mine EXCEPT ![fd] = Left(Moved(fd, 1))])
    BY <1>1, <1>2, <1>5, <1>6, MoveRefines
  <2>2. Left(e) = Names(e.pos, N - e.pos)
    BY <1>1 DEF Left, LeftIn, Names
  <2>3. Left(Moved(fd, 1)) = Names(e.pos + 1, N - (e.pos + 1))
    BY <1>1 DEF Left, LeftIn, Names, Moved, Entry
  <2>4. QED
    BY <2>1, <2>2, <2>3
<1>11. ASSUME e.pos <= N PROVE mine = StreamsOf(fd_A)
  <2>1. SetEntry(fd, Moved(fd, 1), curr.fd_total_open)
    BY <1>5, <1>11
  <2> HIDE DEF e, N
  <2>2. QED
    BY <1>1, <1>2, <2>1, TopRefines
<1> HIDE DEF e, mine, N
<1>7. CASE e.pos < N
  <2> DEFINE s == mine[fd]
             k == N - e.pos
  <2>1. k \in Nat \ {0} /\ k - 1 = N - (e.pos + 1)
    BY <1>4, <1>7
  <2>2. Delivered' = <<String(Name(img.dentries[e.pos]))>>
    BY <1>1, <1>3, <1>4, <1>7
  <2>3. s = Names(e.pos, k)
    BY <1>4, <1>6, <1>7
  <2> HIDE DEF k
  <2>4. /\ Splits(s, 1, <<String(Name(img.dentries[e.pos]))>>, Names(e.pos + 1, k - 1))
        /\ Len(s) = k
    BY <1>4, <2>1, <2>3, NamesParts
  <2> HIDE DEF s
  <2>5. /\ SubSeq(s, 1, 1) = Delivered'
        /\ SubSeq(s, 1 + 1, Len(s)) = Names(e.pos + 1, N - (e.pos + 1))
    BY <2>1, <2>2, <2>4 DEF Splits
  <2>6. Len(Delivered') = 1 /\ 1 \in 0 .. Len(s)
    BY <2>1, <2>2, <2>4
  <2>7. /\ fd \in DOMAIN mine
        /\ AbstractStreams!Becomes([mine EXCEPT ![fd] = SubSeq(s, 1 + 1, Len(s))])
    <3>1. e.pos <= N
      BY <1>4, <1>7
    <3>2. /\ fd \in DOMAIN mine
          /\ AbstractStreams!Becomes(
               [mine EXCEPT ![fd] = Names(e.pos + 1, N - (e.pos + 1))])
      BY <1>6, <3>1
    <3>3. QED
      BY <2>5, <3>2, Zenon
  <2>8. AbstractStreams!Read(mine)
    BY <2>5, <2>6, <2>7 DEF AbstractStreams!Read, s
  <2>9. QED
    BY <2>8 DEF mine
<1>8. CASE e.pos = N
  <2>1. Names(e.pos, N - e.pos) = Names(e.pos + 1, N - (e.pos + 1))
    <3>1. 1 .. N - e.pos = {} /\ 1 .. N - (e.pos + 1) = {}
      BY <1>4, <1>8
    <3>2. QED
      BY <3>1 DEF Names
  <2>2. fd \in DOMAIN mine /\ AbstractStreams!Becomes([mine EXCEPT ![fd] = mine[fd]])
    <3>1. e.pos <= N
      BY <1>4, <1>8
    <3>2. /\ fd \in DOMAIN mine /\ mine[fd] = Names(e.pos, N - e.pos)
          /\ AbstractStreams!Becomes(
               [mine EXCEPT ![fd] = Names(e.pos + 1, N - (e.pos + 1))])
      BY <1>6, <3>1
    <3>3. mine[fd] = Names(e.pos + 1, N - (e.pos + 1))
      BY <2>1, <3>2, Zenon
    <3>4. QED
      BY <3>2, <3>3, Zenon
  <2>3. [mine EXCEPT ![fd] = mine[fd]] = mine
    <3>1. mine = StreamsOf(fd_A)
      BY <1>4, <1>8, <1>11
    <3>2. mine = [f \in DOMAIN mine |-> mine[f]]
      BY <3>1 DEF StreamsOf
    <3>3. QED
      BY <3>2
  <2>4. Delivered' = <<>>
    BY <1>1, <1>3, <1>4, <1>8
  <2>5. QED
    BY <2>2, <2>3, <2>4, SameRefines DEF mine
<1>9. CASE e.pos > N
  <2>1. Delivered' = <<>> /\ UNCHANGED AllStreams
    BY <1>1, <1>2, <1>3, <1>4, <1>5, <1>9, StillRefines
  <2>2. QED
    BY <2>1 DEF AbstractStreams!Nothing
<1>10. QED
  BY <1>4, <1>7, <1>8, <1>9

LEMMA StepRefines ==
  IndInv /\ [Next]_vars => [AbstractStreams!Next]_(AbstractStreams!vars)
<1> SUFFICES ASSUME IndInv, [Next]_vars
             PROVE  [AbstractStreams!Next]_(AbstractStreams!vars)
  OBVIOUS
<1> DEFINE mine == AllStreams[Len(AllStreams)]
<1>1. ASSUME UNCHANGED image,
             \/ AbstractStreams!Start \/ AbstractStreams!End
             \/ AbstractStreams!Nothing \/ AbstractStreams!Open(mine)
             \/ AbstractStreams!Close(mine) \/ AbstractStreams!Read(mine)
      PROVE  AbstractStreams!Next
  BY <1>1, ContentsKept DEF AbstractStreams!Next
<1>2. CASE \E command \in Commands : Execute(command)
  BY <1>1, <1>2, StartRefines DEF Execute
<1>3. CASE Halt
  BY <1>1, <1>3, EndRefines DEF Halt
<1>4. CASE \E path \in Paths : open_func(path)
  BY <1>1, <1>4, OpenRefines DEF open_func
<1>5. CASE \E fd \in -1 .. MAX_FD : close_func(fd)
  BY <1>1, <1>5, CloseRefines DEF close_func
<1>6. CASE \E fd \in -1 .. MAX_FD, nbytes \in Lengths : read_data_file(fd, nbytes)
  BY <1>1, <1>6, ReadRefines DEF read_data_file
<1>7. CASE \E fd \in -1 .. MAX_FD, nbytes \in Lengths : read_dir_file(fd, nbytes)
  BY <1>1, <1>7, ListRefines DEF read_dir_file
<1>8. CASE UNCHANGED <<image, pcb>> /\ (last' = NoData \/ getargs_func)
  <2>1. Delivered' = <<>>
    BY <1>8 DEF Delivered, NoData, getargs_func, Delivers
  <2>2. AbstractStreams!Nothing
    BY <1>8, <2>1, StillRefines DEF AbstractStreams!Nothing
  <2>3. QED
    BY <1>1, <1>8, <2>2
<1>9. CASE UNCHANGED vars
  <2>1. UNCHANGED AllStreams /\ UNCHANGED Delivered /\ UNCHANGED Contents[image]
    BY <1>9, StillRefines, ContentsKept DEF vars, Delivered
  <2>2. QED
    BY <2>1 DEF AbstractStreams!vars
<1>10. QED
  BY <1>2, <1>3, <1>4, <1>5, <1>6, <1>7, <1>8, <1>9
  DEF Next, ExecuteFails, open_func_fails, close_func_fails, OtherCall, getargs_func

\* Descriptors are streams of their files and of the directory: what reads
\* deliver, and what the table then says is left, are the file's bytes, in order
\* and once each, for any image, any sizes and any calls of any number of
\* programs.  (syscalls.c:284-409, file_sys.c:121-237)
THEOREM Refinement == Spec => ImplementsStreams
<1>1. Init => AbstractStreams!Init
  <2> SUFFICES ASSUME Init PROVE AbstractStreams!Init
    OBVIOUS
  <2>1. depth = 1 /\ pcb[1] = PCB_init(<<>>) /\ Delivered = <<>>
    BY DEF Init, depth, Delivered, NoData
  <2>2. AllStreams = [p \in 1 .. 1 |-> AbstractStreams!NoStreams]
    BY <2>1, NoneAtFirst DEF AllStreams
  <2>3. QED
    BY <2>1, <2>2 DEF AbstractStreams!Init
<1>2. QED
  BY Invariance, StepRefines, <1>1, PTL
  DEF Spec, ImplementsStreams, AbstractStreams!Spec
=============================================================================
