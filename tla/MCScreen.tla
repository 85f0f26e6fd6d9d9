------------------------------ MODULE MCScreen ------------------------------
\* Two rows of two columns.
EXTENDS Screen
=============================================================================
