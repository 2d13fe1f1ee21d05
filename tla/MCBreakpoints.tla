---------------------------- MODULE MCBreakpoints ----------------------------
(* Instances of Breakpoints for TLC.                                       *)
EXTENDS Breakpoints, TLC

RemoveCalls == {"DbgRemoveBreakpoint"}

(* The code treats all addresses alike, in its heap and in the debuggee,   *)
(* and all bytes but its Int3.                                             *)
Alike == Permutations(Nodes) \cup Permutations(Cells)
           \cup Permutations(Addrs) \cup Permutations(Bytes)
=============================================================================
