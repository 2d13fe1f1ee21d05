------------------------------- MODULE Display -------------------------------
(***************************************************************************)
(* The console window, written by both threads through DbgDisplayDebugOut, *)
(* DbgDisplayError and DbgDisplayMessage (main.c), which hold              *)
(* _dbgDisplayMutex, and through plain calls of printf, which do not.      *)
(*                                                                         *)
(* Every call of the operating system or of the C library is a step.  The  *)
(* colour is the console's, not the call's: it stays until it is changed.  *)
(* main deletes the mutex without waiting for the session thread.          *)
(***************************************************************************)
EXTENDS Subsequences

CONSTANTS
  Threads,  \* the threads that print
  Main,     \* the one that runs main
  MaxCalls  \* bound of the runs on the calls

Nobody == "nobody"  \* the owner of a mutex nobody holds

(* DbgCreateSession starts a session thread only when there is no session. *)
ASSUME DisplayConstantsOK ==
  /\ Main \in Threads
  /\ \A s, t \in Threads \ {Main} : s = t
  /\ Nobody \notin Threads
  /\ MaxCalls \in Nat

VARIABLES
  pc,      \* where each thread is in a display function
  kind,    \* what it displays
  owner,   \* the owner of _dbgDisplayMutex, or Nobody
  alive,   \* the process has not ended
  colour,  \* the text attribute of the console
  out,     \* what was printed, with its colour
  calls    \* the number of calls made

vars == <<pc, kind, owner, alive, colour, out, calls>>

ColourOf == [debugOut |-> "yellow", error |-> "red", message |-> "green",
             prompt |-> "green"]
Kinds    == DOMAIN ColourOf  \* "prompt" is DbgDisplayMessage (0)
Inside   == {"prompt", "prefix", "paint", "text", "restore", "leave"}

Init ==
  /\ pc = [t \in Threads |-> "idle"] /\ kind = [t \in Threads |-> "prompt"]
  /\ owner = Nobody /\ alive = TRUE
  /\ colour = "grey" /\ out = << >> /\ calls = 0

Deleted == pc[Main] = "deleted"

(* Thread t goes from one step of a display function to the next.          *)
Step(t, from, to) ==
  /\ pc[t] = from
  /\ pc' = [pc EXCEPT ![t] = to]

Put(t, what) == out' = Append(out, [by |-> t, what |-> what, colour |-> colour])

Display(t, k) ==
  /\ Step(t, "idle", "enter")
  /\ calls < MaxCalls
  /\ calls' = calls + 1
  /\ kind' = [kind EXCEPT ![t] = k]
  /\ UNCHANGED <<owner, alive, colour, out>>

(* Faulty variants, like this one, are what the properties are tested      *)
(* against; they are no part of the model.                                 *)
EnterUnlocked(t) ==
  /\ Step(t, "enter", "prompt")
  /\ owner' = t
  /\ UNCHANGED <<kind, alive, colour, out, calls>>

Enter(t) ==
  /\ ~Deleted /\ owner = Nobody
  /\ Step(t, "enter", "prompt")
  /\ owner' = t
  /\ UNCHANGED <<kind, alive, colour, out, calls>>

(* A critical section that was deleted: the call may return, never return, *)
(* or fault, which ends the process.                                       *)
EnterDeleted(t) ==
  /\ Deleted
  /\ \/ Step(t, "enter", "prompt") /\ owner' = t /\ UNCHANGED alive
     \/ Step(t, "enter", "stuck") /\ UNCHANGED <<owner, alive>>
     \/ pc[t] = "enter" /\ alive' = FALSE /\ UNCHANGED <<pc, owner>>
  /\ UNCHANGED <<kind, colour, out, calls>>

SetPromptColour(t) ==
  /\ Step(t, "prompt", "prefix")
  /\ colour' = "brightGreen"
  /\ UNCHANGED <<kind, owner, alive, out, calls>>

PrintPrefixAndLeave(t) ==
  /\ Step(t, "prefix", "paint")
  /\ Put(t, "prefix")
  /\ owner' = Nobody
  /\ UNCHANGED <<kind, alive, colour, calls>>

PrintPrefix(t) ==
  /\ Step(t, "prefix", "paint")
  /\ Put(t, "prefix")
  /\ UNCHANGED <<kind, owner, alive, colour, calls>>

SetMessageColour(t) ==
  /\ Step(t, "paint", "text")
  /\ colour' = ColourOf[kind[t]]
  /\ UNCHANGED <<kind, owner, alive, out, calls>>

PrintMessage(t) ==
  /\ Step(t, "text", "restore")
  /\ IF kind[t] = "prompt" THEN UNCHANGED out ELSE Put(t, kind[t])
  /\ UNCHANGED <<kind, owner, alive, colour, calls>>

RestoreColourUnlessPrompt(t) ==
  /\ Step(t, "restore", "leave")
  /\ colour' = IF kind[t] = "prompt" THEN colour ELSE "grey"
  /\ UNCHANGED <<kind, owner, alive, out, calls>>

RestoreColour(t) ==
  /\ Step(t, "restore", "leave")
  /\ colour' = "grey"
  /\ UNCHANGED <<kind, owner, alive, out, calls>>

LeaveForgotten(t) ==
  /\ Step(t, "leave", "idle")
  /\ UNCHANGED <<kind, owner, alive, colour, out, calls>>

(* Leaving a critical section that was deleted may fault.                  *)
Leave(t) ==
  /\ \/ Step(t, "leave", "idle") /\ owner' = Nobody /\ UNCHANGED alive
     \/ /\ Deleted /\ pc[t] = "leave"
        /\ alive' = FALSE
        /\ UNCHANGED <<pc, owner>>
  /\ UNCHANGED <<kind, colour, out, calls>>

(* printf without the mutex: help, registers, unknown commands, and what   *)
(* the session thread says of a Ctrl+C.                                    *)
PlainPrint(t) ==
  /\ pc[t] = "idle" /\ calls < MaxCalls
  /\ calls' = calls + 1
  /\ Put(t, "plain")
  /\ UNCHANGED <<pc, kind, owner, alive, colour>>

(* The end of main, after the console: the session thread is not joined,   *)
(* and ends with the process.                                              *)
DeleteMutex ==
  /\ Step(Main, "idle", "deleted")
  /\ UNCHANGED <<kind, owner, alive, colour, out, calls>>

ExitProcess ==
  /\ Deleted
  /\ alive' = FALSE
  /\ UNCHANGED <<pc, kind, owner, colour, out, calls>>

InCall(t) ==
  \/ EnterDeleted(t) \/ SetPromptColour(t) \/ PrintPrefix(t)
  \/ SetMessageColour(t) \/ PrintMessage(t) \/ RestoreColour(t) \/ Leave(t)

Next ==
  /\ alive
  /\ \/ \E t \in Threads :
          \/ PlainPrint(t) \/ Enter(t) \/ InCall(t)
          \/ \E k \in Kinds : Display(t, k)
     \/ DeleteMutex \/ ExitProcess

Spec == Init /\ [][Next]_vars

(* The threads are scheduled, and the operating system is fair to those    *)
(* that wait for a critical section.                                       *)
Fairness ==
  /\ \A t \in Threads : WF_vars(alive /\ InCall(t)) /\ SF_vars(alive /\ Enter(t))
  /\ WF_vars(alive /\ ExitProcess)

FairSpec == Spec /\ Fairness

----------------------------------------------------------------------------
Colours == {"grey", "brightGreen", "yellow", "red", "green"}

TypeOK ==
  /\ pc \in [Threads -> Inside \cup {"idle", "enter", "stuck", "deleted"}]
  /\ kind \in [Threads -> Kinds]
  /\ owner \in Threads \cup {Nobody} /\ alive \in BOOLEAN
  /\ colour \in Colours /\ calls \in 0..MaxCalls
  /\ out \in Seq([by : Threads, colour : Colours,
                  what : (Kinds \ {"prompt"}) \cup {"prefix", "plain"}])

(* _dbgDisplayMutex keeps the two threads from changing the one colour of  *)
(* the console under each other, even while main deletes it: every prefix  *)
(* is in the colour of the prompt and every text in that of its kind.      *)
InColour ==
  /\ TypeOK
  /\ \A i \in DOMAIN out :
       LET o == out[i]
       IN /\ o.what = "prefix" => o.colour = "brightGreen"
          /\ o.what \in Kinds => o.colour = ColourOf[o.what]

(* Whatever prints without the mutex does so in the console's own colour,  *)
(* unless another thread is just then in a display function.               *)
DefaultAtRest == (\A t \in Threads : pc[t] \notin Inside) => colour = "grey"

(* The messages, without what was printed past the mutex, and without the  *)
(* prefix of one whose text is not printed yet.  The end of the process    *)
(* may cut that one in half; its prefix then stays on the screen and is no *)
(* message to the contract, which promises nothing of it.                  *)
Locked == Dropping(out, [by : Threads, what : {"plain"}, colour : Colours])

Open == \E t \in Threads : pc[t] \in {"paint", "text"} /\ kind[t] # "prompt"

Contract == INSTANCE DisplayContract WITH
              shown <- IF Open THEN SubSeq(Locked, 1, Len(Locked) - 1) ELSE Locked

(* Two threads at once, and main that deletes the mutex at any moment: the *)
(* messages still come out whole, one after the other, but for the last if *)
(* the process ends within it.                                             *)
ImplementsContract == Contract!Spec

(* A call of a display function returns, or the process ends: a thread     *)
(* that waits for the mutex gets it, and one left waiting for the deleted  *)
(* mutex does not keep the process from ending.                            *)
CallReturns ==
  \A t \in Threads : (pc[t] = "enter") ~> (pc[t] = "idle" \/ ~alive)
=============================================================================
