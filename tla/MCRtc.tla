------------------------------- MODULE MCRtc -------------------------------
EXTENDS Rtc

\* Terminal 0 reads, writes and opens; the other terminals make every system
\* call, and calls with a number below and above the valid ones.
MCCalls == [t \in Terms |-> IF t = 0 THEN {3, 5} ELSE {0, 1, 2, 4, 5, 11}]
=============================================================================
