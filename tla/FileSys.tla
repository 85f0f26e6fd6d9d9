------------------------------ MODULE FileSys ------------------------------
(***************************************************************************)
(* The read-only file system: an image of one boot block with the counts   *)
(* and the directory, the inodes, and the data blocks.  img is a record    *)
(*   stats     directory entries, inodes and data blocks (fs_stats)        *)
(*   dentries  the directory, from entry 0; the image has room for one     *)
(*             more than stats counts                                      *)
(*   words     the words of all inodes, one inode after the other: size,   *)
(*             then block numbers; one word of what follows the inodes     *)
(* A data byte is known by where it is: <<block, position>>.  Strings are  *)
(* sequences of bytes; 0 ends a string.                                    *)
(***************************************************************************)
EXTENDS Integers, Sequences

CONSTANTS BYTES_PER_BLOCK,    \* 4096
          WORDS,              \* words of an inode, 1024
          FILE_NAME_CHARMAX   \* 32

ASSUME BlockAssumption == BYTES_PER_BLOCK \in Nat \ {0}
ASSUME WordsAssumption == WORDS \in Nat /\ WORDS > 1
ASSUME NameAssumption == FILE_NAME_CHARMAX \in Nat \ {0}

Least(a, b) == IF a <= b THEN a ELSE b

RTC_TYPE == 0
DIR_TYPE == 1
REGULAR_FILE_TYPE == 2

-----------------------------------------------------------------------------
\* lib.c, on bytes in memory from a string's first byte on.

strlen(s) == (CHOOSE i \in 1 .. Len(s) :
                s[i] = 0 /\ \A j \in 1 .. i - 1 : s[j] # 0) - 1

strncmp_equal(s1, s2, n) ==
  \A i \in 1 .. n : (\A j \in 1 .. i - 1 : s1[j] = s2[j] /\ s1[j] # 0)
                      => s1[i] = s2[i]

\* What strcpy copies.
String(s) == SubSeq(s, 1, strlen(s))

-----------------------------------------------------------------------------
\* The name of an entry as the string functions see it: one that fills its
\* field goes on into the file type, whose other bytes are 0.
Name(dentry) == dentry.filename \o <<dentry.file_type, 0>>

\* Bug variant: longer strings than the field are no names.
NameMatches_bug(dentry, fname) ==
  /\ strlen(fname) <= FILE_NAME_CHARMAX
  /\ strncmp_equal(Name(dentry), fname, strlen(Name(dentry)))

NameMatches(dentry, fname) ==
  LET len == strlen(fname)
      dlen == strlen(Name(dentry))
  IN  IF len > dlen THEN dlen = len /\ strncmp_equal(Name(dentry), fname, len)
      ELSE strncmp_equal(Name(dentry), fname, dlen)

\* The first entry of that name; none if the set is empty.
read_dentry_by_name(img, fname) ==
  {i \in 0 .. img.stats[1] - 1 :
     /\ NameMatches(img.dentries[i], fname)
     /\ \A j \in 0 .. i - 1 : ~NameMatches(img.dentries[j], fname)}

\* The index is compared with > where the entries end at >=.
read_dentry_by_index(img, index) == {i \in {index} : i <= img.stats[1]}

-----------------------------------------------------------------------------
get_file_size(img, inode) == img.words[inode * WORDS]

Chunk(block, at, n) == [i \in 1 .. n |-> <<block, at + i - 1>>]

\* Bug variant: always a whole block.
ToCopy_bug(left) == BYTES_PER_BLOCK

ToCopy(left) == Least(left, BYTES_PER_BLOCK)

\* The loop of read_data, by rounds: bytes copied, where the next ones are, how
\* many the next round copies, and whether a block number was too large.  Each
\* round looks at the next block number, also when it has copied all.
FirstRound(offset, length) ==
  LET at == offset % BYTES_PER_BLOCK
  IN  [buf |-> <<>>, at |-> at,
       data_to_copy |-> Least(length, BYTES_PER_BLOCK - at), failed |-> FALSE]

Round(img, inode, offset, length, k, s) ==
  LET word(j) == img.words[inode * WORDS + (offset \div BYTES_PER_BLOCK) + j]
      buf == s.buf \o Chunk(word(k), s.at, s.data_to_copy)
  IN  IF s.failed \/ Len(s.buf) >= length THEN s
      ELSE [buf |-> buf, at |-> 0, data_to_copy |-> ToCopy(length - Len(buf)),
            failed |-> word(k + 1) > img.stats[3]]

Rounds(img, inode, offset, length) ==
  LET round[k \in 0 .. length] ==
        IF k = 0 THEN FirstRound(offset, length)
        ELSE Round(img, inode, offset, length, k, round[k - 1])
  IN  round

\* Every round copies something, so that length rounds are enough.
CopyLoop(img, inode, offset, length) ==
  Rounds(img, inode, offset, length)[length]

\* The bytes of a read of length bytes from offset on, in a file of size bytes.
Clipped(size, offset, length) ==
  IF length + offset > size THEN size - offset ELSE length

\* What a read returns, and the bytes it has put into the buffer by then.
Refused == [ret |-> -1, buf |-> <<>>]
AtEnd == [ret |-> 0, buf |-> <<>>]

read_data(img, inode, offset, length) ==
  IF inode \notin 0 .. img.stats[2] - 1 THEN Refused
  ELSE IF offset >= get_file_size(img, inode) THEN AtEnd
  ELSE IF img.words[inode * WORDS + (offset \div BYTES_PER_BLOCK) + 1] > img.stats[3]
       THEN Refused
  ELSE LET n == Clipped(get_file_size(img, inode), offset, length)
           end == CopyLoop(img, inode, offset, n)
       IN  [ret |-> IF end.failed THEN -1 ELSE n, buf |-> end.buf]

\* read_dir of the entry at pos.
read_dir(img, pos) ==
  IF read_dentry_by_index(img, pos) = {} THEN AtEnd
  ELSE LET name == String(Name(img.dentries[pos]))
       IN  [ret |-> Len(name), buf |-> name]

\* Byte i of a file, where the format of the image puts it.
FileByte(img, inode, i) ==
  <<img.words[inode * WORDS + (i \div BYTES_PER_BLOCK) + 1], i % BYTES_PER_BLOCK>>
=============================================================================
