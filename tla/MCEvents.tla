------------------------------ MODULE MCEvents ------------------------------
(* Two states of the registers, one of them with more in a segment         *)
(* register than a word holds; an exception of each kind: with a code, with *)
(* the code 0, with a shared one, unknown; names shorter and longer than   *)
(* the buffer; decimal, hexadecimal and mixed addresses, beyond the        *)
(* largest long too.                                                       *)
EXTENDS Events

TwoContexts ==
  {[r \in Registers |-> 0],
   [r \in Registers |-> IF r = "cs" THEN Half + 1 ELSE IF r \in {"ds", "eip"} THEN 1 ELSE Word - 1]}

SomeExceptions == {"ACCESS_VIOLATION", "INT_DIVIDE_BY_ZERO", "PRIV_INSTRUCTION", "DBG_CONTROL_C"}

ShortStrings == UNION {[1..n -> Letters \cup {Nul}] : n \in 0..3}
ShortNames   == UNION {[1..n -> Letters] : n \in {1, 3}}
TwoCodes     == {0, 1}
SomeTexts ==
  {<<1, 0>>, <<1, 1, 1>>, <<10, 1>>, <<10, 0, 0>>, <<1, 10>>, <<0, 10>>,
   <<0, X, 1, 0>>, <<0, X, 10, 10>>, <<0, X>>, <<0>>}
=============================================================================
