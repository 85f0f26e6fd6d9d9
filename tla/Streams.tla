------------------------------ MODULE Streams ------------------------------
(***************************************************************************)
(* What open, read and close promise a program: a descriptor is a stream   *)
(* of what is left of one file or directory, in order and each item once,  *)
(* until it is closed.  Programs of a terminal form a stack; a program     *)
(* starts without streams, and nobody else touches the ones it opens.      *)
(***************************************************************************)
EXTENDS Integers, Sequences

CONSTANTS Fds,        \* descriptors that open may return
          MaxDepth    \* programs at once

VARIABLES contents,   \* what files and directories hold: a set of sequences
          streams,    \* of each program: what is left, by descriptor
          got         \* items the last call has delivered

vars == <<contents, streams, got>>

NoStreams == [fd \in {} |-> <<>>]

Init == streams = <<NoStreams>> /\ got = <<>>

\* A program starts on top of the one that runs.
Start == /\ Len(streams) < MaxDepth
         /\ streams' = Append(streams, NoStreams)
         /\ got' = <<>>

\* It ends; the first one is started again.
End == /\ streams' = IF Len(streams) = 1 THEN <<NoStreams>>
                     ELSE SubSeq(streams, 1, Len(streams) - 1)
       /\ got' = <<>>

\* The program on top has mine and goes on with new.
Becomes(new) == streams' = [streams EXCEPT ![Len(streams)] = new]

Open(mine) ==
  /\ \E fd \in Fds \ DOMAIN mine, c \in contents :
       Becomes([f \in DOMAIN mine \cup {fd} |-> IF f = fd THEN c ELSE mine[f]])
  /\ got' = <<>>

Close(mine) ==
  /\ \E fd \in DOMAIN mine : Becomes([f \in DOMAIN mine \ {fd} |-> mine[f]])
  /\ got' = <<>>

Read(mine) ==
  \E fd \in DOMAIN mine :
    LET n == Len(got') IN
      /\ n \in 0 .. Len(mine[fd])
      /\ got' = SubSeq(mine[fd], 1, n)
      /\ Becomes([mine EXCEPT ![fd] = SubSeq(@, n + 1, Len(@))])

\* Any other call, and any call that fails.
Nothing == got' = <<>> /\ UNCHANGED streams

Next == /\ UNCHANGED contents
        /\ \/ Start \/ End \/ Nothing
           \/ \E mine \in {streams[Len(streams)]} :
                Open(mine) \/ Close(mine) \/ Read(mine)

Spec == Init /\ [][Next]_vars
=============================================================================
