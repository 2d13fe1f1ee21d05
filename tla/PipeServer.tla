----------------------------- MODULE PipeServer -----------------------------
(***************************************************************************)
(* The loop that main runs at this commit (main.c:140-175): it polls a     *)
(* named pipe in message mode, reads what a client sends into the buffer   *)
(* "in", and prints it as a C string.  It serves the one client that the   *)
(* pipe it created can have, and never ends.                               *)
(*                                                                         *)
(* Its names are not those of Display, the other part of main.c, so that   *)
(* MainProofs can extend both.                                             *)
(***************************************************************************)
EXTENDS Subsequences, SequencesExt

CONSTANTS
  Letters,   \* what the client may write, besides NUL
  Messages,  \* the messages it may send
  Size,      \* the size of "in", 32 in the code
  MaxSent    \* bound of the runs on the messages

Nul  == "nul"
Junk == "junk"  \* what printf reads past the end of "in"

ASSUME PipeConstantsOK ==
  /\ {Nul, Junk} \cap Letters = {}
  /\ Messages \subseteq Seq(Letters \cup {Nul})
  /\ Size \in Nat \ {0} /\ MaxSent \in Nat

VARIABLES
  pipe,            \* "none" if it could not be made, or
                   \* "listening", then "connected", then "closed"
  queue,           \* the messages in it; of the first, what is not read yet
  loop,            \* where the loop is
  bytesAvailable,
  in,              \* the buffer
  numWritten,      \* the number of bytes ReadFile read
  printed,         \* history: what was printed
  sent, messages   \* history: what the client sent, in how many messages

serverVars == <<loop, bytesAvailable, in, numWritten, printed>>
clientVars == <<sent, messages>>
pipeVars == <<pipe, queue, serverVars, clientVars>>

Zeroed == [i \in 1..Size |-> Nul]

PipeInit ==
  /\ pipe \in {"none", "listening"} /\ queue = << >>
  /\ loop = "peek" /\ bytesAvailable = 0 /\ in = Zeroed /\ numWritten = 0
  /\ printed = << >> /\ sent = << >> /\ messages = 0

Unread == FlattenSeq(queue)

----------------------------------------------------------------------------
(* Faulty variants, like this one, are what the properties are tested      *)
(* against; they are no part of the model.                                 *)
PeekForFullBuffer ==
  /\ loop = "peek"
  /\ IF pipe = "connected" \/ queue # << >>
     THEN bytesAvailable' = Len(Unread)
     ELSE bytesAvailable' \in {0, 1}
  /\ loop' = IF bytesAvailable' >= Size THEN "read" ELSE "peek"
  /\ UNCHANGED <<pipe, queue, in, numWritten, printed, clientVars>>

(* PeekNamedPipe fails when nobody is connected (a pipe that could not be  *)
(* made does not stop the loop), and when the client has gone and nothing  *)
(* is left; bytesAvailable is then not initialized.                        *)
Peek ==
  /\ loop = "peek"
  /\ IF pipe = "connected" \/ queue # << >>
     THEN bytesAvailable' = Len(Unread)
     ELSE bytesAvailable' \in {0, 1}
  /\ loop' = IF bytesAvailable' > 0 THEN "read" ELSE "peek"
  /\ UNCHANGED <<pipe, queue, in, numWritten, printed, clientVars>>

ReadFileDroppingTheRest ==
  /\ loop = "read" /\ queue # << >>
  /\ numWritten' = IF Len(Head(queue)) < Size THEN Len(Head(queue)) ELSE Size
  /\ in' = [i \in 1..Size |-> IF i <= numWritten' THEN Head(queue)[i] ELSE in[i]]
  /\ queue' = Tail(queue)
  /\ loop' = "print"
  /\ UNCHANGED <<pipe, bytesAvailable, printed, clientVars>>

(* ReadFile reads one message or, of a longer one, as much as fits; the    *)
(* rest is left for the next call.                                         *)
ReadFile ==
  /\ loop = "read" /\ queue # << >>
  /\ numWritten' = IF Len(Head(queue)) < Size THEN Len(Head(queue)) ELSE Size
  /\ in' = [i \in 1..Size |-> IF i <= numWritten' THEN Head(queue)[i] ELSE in[i]]
  /\ queue' = IF Len(Head(queue)) <= Size THEN Tail(queue)
              ELSE <<SubSeq(Head(queue), Size + 1, Len(Head(queue)))>> \o Tail(queue)
  /\ loop' = "print"
  /\ UNCHANGED <<pipe, bytesAvailable, printed, clientVars>>

(* After a peek that failed there may be nobody to read from.  With a      *)
(* client there would be, and the call waits for it.                       *)
ReadFileFails ==
  /\ loop = "read" /\ queue = << >> /\ pipe # "connected"
  /\ numWritten' = 0
  /\ loop' = "print"
  /\ UNCHANGED <<pipe, queue, bytesAvailable, in, printed, clientVars>>

(* printf ("%s", in): up to the first NUL, wherever that is.               *)
StringIn(b) ==
  SubSeq(b, 1, Min({i \in 1..Size : b[i] = Nul} \cup {Size + 1}) - 1)

ShowText ==
  /\ loop = "print"
  /\ \E beyond \in {<< >>, <<Junk>>} :
       /\ beyond = <<Junk>> => Nul \notin Range(in)
       /\ printed' = printed \o StringIn(in) \o beyond
  /\ loop' = "clear"
  /\ UNCHANGED <<pipe, queue, bytesAvailable, in, numWritten, clientVars>>

Clear ==
  /\ loop = "clear"
  /\ in' = Zeroed
  /\ loop' = "peek"
  /\ UNCHANGED <<pipe, queue, bytesAvailable, numWritten, printed, clientVars>>

----------------------------------------------------------------------------
(* The client.                                                             *)

Connect ==
  /\ pipe = "listening"
  /\ pipe' = "connected"
  /\ UNCHANGED <<queue, serverVars, clientVars>>

Send(m) ==
  /\ pipe = "connected" /\ messages < MaxSent
  /\ queue' = Append(queue, m)
  /\ sent' = sent \o m /\ messages' = messages + 1
  /\ UNCHANGED <<pipe, serverVars>>

Close ==
  /\ pipe = "connected"
  /\ pipe' = "closed"
  /\ UNCHANGED <<queue, serverVars, clientVars>>

Server == Peek \/ ReadFile \/ ReadFileFails \/ ShowText \/ Clear
Client == Connect \/ Close \/ \E m \in Messages : Send(m)

PipeNext == Server \/ Client

PipeSpec == PipeInit /\ [][PipeNext]_pipeVars

(* The loop runs; the client owes nothing.                                 *)
FairPipeSpec == PipeSpec /\ WF_pipeVars(Server)

----------------------------------------------------------------------------
PipeTypeOK ==
  /\ pipe \in {"none", "listening", "connected", "closed"}
  /\ loop \in {"peek", "read", "print", "clear"}
  /\ queue \in Seq(Seq(Letters \cup {Nul}))
  /\ bytesAvailable \in Nat /\ numWritten \in 0..Size
  /\ in \in [1..Size -> Letters \cup {Nul}]
  /\ printed \in Seq(Letters \cup {Junk}) /\ messages \in 0..MaxSent

(* What is printed, being printed and still in the pipe.                   *)
Shown ==
  Dropping(printed, {Junk}) \o (IF loop = "print" THEN StringIn(in) ELSE << >>) \o Unread

(* That is what was sent, in order, nothing twice and nothing from an      *)
(* earlier message, although every message goes through the one buffer,    *)
(* long ones in parts, and a poll that fails may send the loop to read     *)
(* what is not there.  What is missing was behind a NUL.  printf may run   *)
(* past the end of the buffer only behind a read that filled it.           *)
ShownAsSent ==
  /\ PipeTypeOK
  /\ InOrder(Shown, sent)
  /\ Nul \notin Range(sent) => Shown = sent
  /\ loop = "print" /\ Nul \notin Range(in) => numWritten = Size

(* Once the client has sent n bytes the loop goes on to read the n-th,     *)
(* whether the client stops there, sends more behind it or leaves.  (A     *)
(* message of no bytes may stay: no poll can see it.)                      *)
ReadInTheEnd(n) == (Len(sent) >= n) ~> (Len(sent) - Len(Unread) >= n)
=============================================================================
