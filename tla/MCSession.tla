------------------------------ MODULE MCSession ------------------------------
(* Instances of Session for TLC: what the environment may do in a run.     *)
EXTENDS SessionRefinement

AnyCommandLine == BOOLEAN
ProgramGiven   == {TRUE}
NothingFails   == {}
=============================================================================
