----------------------------- MODULE MCLinkedList -----------------------------
(* Two lists over a heap of few addresses, so that they are soon reused.   *)
EXTENDS LinkedList, TLC

(* The code treats all addresses alike: it only compares them with null.   *)
Addresses == Permutations(Nodes) \cup Permutations(Cells)
=============================================================================
