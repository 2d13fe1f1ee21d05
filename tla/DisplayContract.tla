--------------------------- MODULE DisplayContract ---------------------------
(* What the display promises: a message is shown in one piece, its prefix  *)
(* in the colour of the prompt and its text in the colour of its kind.     *)
EXTENDS Sequences

CONSTANTS Threads
VARIABLE shown

ColourOf == [debugOut |-> "yellow", error |-> "red", message |-> "green"]
Kinds    == DOMAIN ColourOf

Prefix(t)  == [by |-> t, what |-> "prefix", colour |-> "brightGreen"]
Text(t, k) == [by |-> t, what |-> k, colour |-> ColourOf[k]]

Init == shown = << >>

Show(t, k) == shown' = shown \o <<Prefix(t), Text(t, k)>>

(* DbgDisplayMessage (0), the prompt of the console, has no text.          *)
Prompt(t) == shown' = Append(shown, Prefix(t))

Next == \E t \in Threads : Prompt(t) \/ \E k \in Kinds : Show(t, k)

Spec == Init /\ [][Next]_shown
=============================================================================
