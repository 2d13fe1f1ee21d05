------------------------------ MODULE MCSymbols ------------------------------
(* Three source files, of which one has no lines, on a heap that is large  *)
(* enough for all of them, or is not.                                      *)
EXTENDS Symbols

CONSTANTS f1, f2, f3

EightNodes  == << "n1", "n2", "n3", "n4", "n5", "n6", "n7", "n8" >>
TwelveCells == << "c1", "c2", "c3", "c4", "c5", "c6",
                  "c7", "c8", "c9", "c10", "c11", "c12" >>

ThreeFiles == <<f1, f2, f3>>
TheirLines == (f1 :> <<1, 2>>) @@ (f2 :> << >>) @@ (f3 :> <<1, 2>>)
=============================================================================
