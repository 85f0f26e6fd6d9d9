----------------------------- MODULE MCTerminal -----------------------------
\* A terminal whose program reads, one whose programs read and write.
EXTENDS Terminal

MCPrograms == 0 :> {"read"} @@ 1 :> {"read", "write", "printf"}

MCOutputs == {<<FALSE>>, <<TRUE>>}
=============================================================================
