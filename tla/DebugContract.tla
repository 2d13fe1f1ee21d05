---------------------------- MODULE DebugContract ----------------------------
(***************************************************************************)
(* What the session promises to the debuggee and to the user, with neither *)
(* threads nor memory:                                                     *)
(*                                                                         *)
(*  - a debug event is taken once, and answered before the next is taken;  *)
(*  - no event is taken while the session is suspended;                    *)
(*  - only the handling of an event suspends the session, and only the     *)
(*    user continues or quits it outside such a handling;                  *)
(*  - nobody lets a live debuggee go, or ends it, before the user quits.   *)
(***************************************************************************)

VARIABLES
  phase,  \* the debuggee: "closed", "idle", "raised", "handling", "over"
  mode,   \* the session: "CONTINUE", "SUSPEND", "QUIT"
  quit    \* the user has quit

vars == <<phase, mode, quit>>

Init == phase = "closed" /\ mode = "CONTINUE" /\ quit = FALSE

Open == phase = "closed" /\ phase' = "idle" /\ UNCHANGED <<mode, quit>>

Raise == phase = "idle" /\ phase' = "raised" /\ UNCHANGED <<mode, quit>>

Take ==
  /\ phase = "raised" /\ mode # "SUSPEND"
  /\ phase' = "handling"
  /\ UNCHANGED <<mode, quit>>

(* The handler's verdict.  It may overrule what the user said meanwhile.   *)
Decide ==
  /\ phase = "handling"
  /\ mode' \in {"CONTINUE", "SUSPEND"}
  /\ UNCHANGED <<phase, quit>>

(* The debuggee runs again, unless the event was its last.                 *)
Answer ==
  /\ phase = "handling"
  /\ phase' \in {"idle", "over"}
  /\ UNCHANGED <<mode, quit>>

Continue ==
  /\ ~quit
  /\ mode' = "CONTINUE"
  /\ UNCHANGED <<phase, quit>>

Quit ==
  /\ mode' = "QUIT" /\ quit' = TRUE
  /\ UNCHANGED phase

Release ==
  /\ quit
  /\ phase \in {"idle", "raised", "handling"}
  /\ phase' = "over"
  /\ UNCHANGED <<mode, quit>>

Next == \/ Open \/ Raise \/ Take \/ Decide \/ Answer
        \/ Continue \/ Quit \/ Release

Spec == Init /\ [][Next]_vars

(* An event that was taken is answered, or its debuggee let go.            *)
FairSpec == Spec /\ WF_vars(Answer)
=============================================================================
