----------------------------- MODULE MCFileDesc -----------------------------
(***************************************************************************)
(* An image with the directory, the RTC, an executable of two blocks, and  *)
(* a file whose name fills its field.                                      *)
(***************************************************************************)
EXTENDS FileDesc

Directory ==
  [i \in 0 .. 4 |->
     CASE i = 0 -> [filename |-> <<46, 0>>, file_type |-> 1, inode_num |-> 0]
       [] i = 1 -> [filename |-> <<114, 0>>, file_type |-> 0, inode_num |-> 0]
       [] i = 2 -> [filename |-> <<115, 0>>, file_type |-> 2, inode_num |-> 1]
       [] i = 3 -> [filename |-> <<97, 98>>, file_type |-> 2, inode_num |-> 2]
       [] i = 4 -> [filename |-> <<0, 0>>, file_type |-> 0, inode_num |-> 0]]

\* Inode k's words are at 3 * k; the last word is what follows the inodes.
Words(seq) == [i \in 0 .. 9 |-> seq[i + 1]]

\* File 1 fills its inode, and the size of file 2 that follows is a possible
\* block number; file 2 fills its inode too, and what follows is not.  Only the
\* first byte of file 1 is as in an executable, and no byte of file 2.
MCImages ==
  <<[stats |-> <<4, 3, 4>>, dentries |-> Directory,
     words |-> Words(<<0, 0, 0, 4, 0, 1, 3, 2, 3, 9>>),
     elf |-> {<<1, <<0, 0>>>>}]>>

MCPaths == {<<46, 0>>, <<114, 0>>, <<115, 0>>, <<97, 98, 2, 0>>, <<97, 0>>}

\* " s a" and a line end, "ab", "r"
MCCommands == {<<32, 115, 32, 97, 10, 0>>, <<97, 98, 0>>, <<114, 0>>}

MCLengths == {0, 3}
=============================================================================
