------------------------------ MODULE MCDisplay ------------------------------
(* The two threads of ndbg at the console window.                          *)
EXTENDS Display

CONSTANTS main, session

BothThreads == {main, session}
=============================================================================
