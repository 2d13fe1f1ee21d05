------------------------------ MODULE MCConsole ------------------------------
(* Every text of up to MaxText characters.  The commands are a q, one that *)
(* has a procedure, and one that has none.                                 *)
EXTENDS Console

CONSTANT MaxText

AllTexts == UNION {[1..n -> Letters \cup Delims] : n \in 0..MaxText}

SmallTable == << [cmd |-> <<"q">>, proc |-> FALSE],
                 [cmd |-> <<"c">>, proc |-> TRUE],
                 [cmd |-> <<"c", "c">>, proc |-> FALSE] >>
=============================================================================
