-------------------------- MODULE SessionRefinement --------------------------
(* The two-thread session implements DebugContract.                        *)
EXTENDS Session

(* The contract opens with the session: a debuggee created for a session   *)
(* that cannot be allocated is none of its business.                       *)
phaseOf ==
  CASE block = "unborn" \/ debuggee = "none"    -> "closed"
    [] block # "unborn" /\ debuggee # "none" /\ ~attached -> "over"
    [] OTHER -> IF event # Null THEN "handling"
                ELSE IF port # Null THEN "raised" ELSE "idle"

Contract == INSTANCE DebugContract
              WITH phase <- phaseOf, mode <- state,
                   quit <- mainPc \in {"exit", "exited"}

(* Every step of the two threads is a step of the contract or none: the    *)
(* loop of DbgSessionThreadEntry and the console commands, interleaved in  *)
(* any way, take and answer events as DebugContract says.                  *)
ImplementsContract == Contract!Spec

(* With both threads scheduled, an event taken is also answered.           *)
ImplementsLiveContract == Contract!FairSpec
=============================================================================
