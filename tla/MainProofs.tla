----------------------------- MODULE MainProofs -----------------------------
(***************************************************************************)
(* What main.c keeps for the whole program: the display, and the pipe      *)
(* server main runs.  They share no state, and are proved one after the    *)
(* other: the display for any main thread, any other thread and any number *)
(* of calls; the pipe server for any messages, any number of them and a    *)
(* buffer of any size.                                                     *)
(*                                                                         *)
(* The colour is right because only the owner of the mutex changes it      *)
(* (Exclusive), and each step of the owner leaves the colour its next step *)
(* counts on (ColourInv).  Once the mutex is deleted it excludes nobody;   *)
(* main is then past its last call, and the other thread is alone.         *)
(*                                                                         *)
(* What the pipe server shows is right because the buffer is zeroed before *)
(* every read, so what follows the bytes read is NUL (Buffer); and because *)
(* each step of the loop only moves bytes along, from the pipe to the      *)
(* buffer and from there to the screen: only ReadFile can lose some, those *)
(* behind a NUL.                                                           *)
(***************************************************************************)
EXTENDS Display, PipeServer, DataProofs

Pcs == Inside \cup {"idle", "enter", "stuck", "deleted"}

Piece == [by : Threads, colour : Colours,
          what : (Kinds \ {"prompt"}) \cup {"prefix", "plain"}]

(* The pieces in the colour InColour asks for.                             *)
Coloured == {o \in Piece : /\ o.what = "prefix" => o.colour = "brightGreen"
                           /\ o.what \in Kinds => o.colour = ColourOf[o.what]}

Types == /\ pc \in [Threads -> Pcs] /\ kind \in [Threads -> Kinds]
         /\ out \in Seq(Piece) /\ out \in Seq(Coloured)
         /\ owner \in Threads \cup {Nobody} /\ alive \in BOOLEAN
         /\ colour \in Colours /\ calls \in 0..MaxCalls

Exclusive == \A t \in Threads : pc[t] \in Inside => owner = t

AtRest == {"prompt", "leave"}  \* where the owner finds or leaves the colour grey

ColourInv ==
  /\ (\A t \in Threads : pc[t] \in Inside => pc[t] \in AtRest) => colour = "grey"
  /\ \A t \in Threads : /\ pc[t] = "prefix" => colour = "brightGreen"
                        /\ pc[t] = "text" => colour = ColourOf[kind[t]]

DisplayInv == Types /\ Exclusive /\ ColourInv

LEMMA InitEstablishes == Init => DisplayInv
  BY DisplayConstantsOK DEF Init, DisplayInv, Types, Exclusive, ColourInv,
     Pcs, Inside, Kinds, ColourOf, Colours, Nobody, AtRest

LEMMA KindsAre == Kinds = {"debugOut", "error", "message", "prompt"}
  BY DEF Kinds, ColourOf

(* A piece that is printed is in its colour, if the console is.            *)
LEMMA AppendInColour ==
  ASSUME Types, NEW t \in Threads,
         NEW what \in (Kinds \ {"prompt"}) \cup {"prefix", "plain"},
         Put(t, what),
         what = "prefix" => colour = "brightGreen",
         what \in Kinds => colour = ColourOf[what]
  PROVE  out' \in Seq(Piece) /\ out' \in Seq(Coloured)
  <1> DEFINE new == [by |-> t, what |-> what, colour |-> colour]
  <1>1. new \in Piece /\ new \in Coloured BY DEF Types, Piece, Coloured
  <1>2. out \in Seq(Piece) /\ out \in Seq(Coloured) BY DEF Types
  <1>3. out' = Append(out, new) BY DEF Put
  <1> HIDE DEF new
  <1>4. /\ Append(out, new) \in Seq(Piece)
        /\ Append(out, new) \in Seq(Coloured)
    BY <1>1, <1>2, AppendProperties
  <1>5. QED BY <1>3, <1>4

(* Each step of a display function is taken by the owner, so the others    *)
(* are outside.                                                            *)
LEMMA StepPreserves ==
  ASSUME DisplayInv, NEW t \in Threads, InCall(t) \/ Enter(t)
  PROVE  DisplayInv'
  <1> USE DisplayConstantsOK DEF Step, Inside, Pcs, AtRest
  <1>1. CASE Enter(t)
    BY <1>1 DEF Enter, DisplayInv, Types, Exclusive, ColourInv, Deleted
  <1>2. CASE EnterDeleted(t)
    <2>1. \A s \in Threads : s # t => pc[s] \notin Inside
      BY <1>2 DEF EnterDeleted, Deleted
    <2>2. CASE Step(t, "enter", "prompt") /\ owner' = t /\ UNCHANGED alive
      BY <1>2, <2>1, <2>2 DEF EnterDeleted, DisplayInv, Types, Exclusive, ColourInv
    <2>3. CASE Step(t, "enter", "stuck") /\ UNCHANGED <<owner, alive>>
      BY <1>2, <2>1, <2>3 DEF EnterDeleted, DisplayInv, Types, Exclusive, ColourInv
    <2>4. CASE pc[t] = "enter" /\ alive' = FALSE /\ UNCHANGED <<pc, owner>>
      BY <1>2, <2>4 DEF EnterDeleted, DisplayInv, Types, Exclusive, ColourInv
    <2>5. QED BY <1>2, <2>2, <2>3, <2>4 DEF EnterDeleted
  <1>3. CASE SetPromptColour(t)
    BY <1>3 DEF SetPromptColour, DisplayInv, Types, Exclusive, ColourInv,
       Colours
  <1>4. CASE PrintPrefix(t)
    <2>1. out' \in Seq(Piece) /\ out' \in Seq(Coloured)
      BY <1>4, AppendInColour DEF PrintPrefix, DisplayInv, ColourInv, Kinds, ColourOf
    <2>2. QED BY <1>4, <2>1 DEF PrintPrefix, DisplayInv, Types, Exclusive, ColourInv
  <1>5. CASE SetMessageColour(t)
    <2>1. colour' \in Colours
      <3>1. \A k \in Kinds : ColourOf[k] \in Colours 
        <4>1. /\ ColourOf["debugOut"] \in Colours /\ ColourOf["error"] \in Colours
              /\ ColourOf["message"] \in Colours /\ ColourOf["prompt"] \in Colours
          BY DEF ColourOf, Colours
        <4>2. QED BY <4>1, KindsAre
      <3>2. kind[t] \in Kinds BY DEF DisplayInv, Types
      <3>3. QED BY <1>5, <3>1, <3>2 DEF SetMessageColour
    <2>2. QED
      BY <1>5, <2>1 DEF SetMessageColour, DisplayInv, Types, Exclusive, ColourInv
  <1>6. CASE PrintMessage(t)
    <2>1. out' \in Seq(Piece) /\ out' \in Seq(Coloured)
      <3>1. CASE kind[t] = "prompt"
        BY <1>6, <3>1 DEF PrintMessage, DisplayInv, Types
      <3>2. CASE kind[t] # "prompt"
        BY <1>6, <3>2, AppendInColour
           DEF PrintMessage, DisplayInv, ColourInv, Types, Kinds, ColourOf
      <3>3. QED BY <3>1, <3>2
    <2>2. QED BY <1>6, <2>1 DEF PrintMessage, DisplayInv, Types, Exclusive, ColourInv
  <1>7. CASE RestoreColour(t)
    BY <1>7 DEF RestoreColour, DisplayInv, Types, Exclusive, ColourInv, Colours
  <1>8. CASE Leave(t)
    <2>1. CASE Step(t, "leave", "idle") /\ owner' = Nobody /\ UNCHANGED alive
      BY <1>8, <2>1 DEF Leave, DisplayInv, Types, Exclusive, ColourInv
    <2>2. CASE Deleted /\ pc[t] = "leave" /\ alive' = FALSE /\ UNCHANGED <<pc, owner>>
      BY <1>8, <2>2 DEF Leave, DisplayInv, Types, Exclusive, ColourInv
    <2>3. QED BY <1>8, <2>1, <2>2 DEF Leave
  <1>9. QED BY <1>1, <1>2, <1>3, <1>4, <1>5, <1>6, <1>7, <1>8 DEF InCall

LEMMA NextPreserves == DisplayInv /\ [Next]_vars => DisplayInv'
  <1> SUFFICES ASSUME DisplayInv, [Next]_vars PROVE DisplayInv' OBVIOUS
  <1> USE DisplayConstantsOK
  <1>1. ASSUME NEW t \in Threads, InCall(t) \/ Enter(t) PROVE DisplayInv'
    BY <1>1, StepPreserves
  <1>2. ASSUME NEW t \in Threads, PlainPrint(t) PROVE DisplayInv'
    <2>1. out' \in Seq(Piece) /\ out' \in Seq(Coloured)
      BY <1>2, AppendInColour, KindsAre DEF PlainPrint, DisplayInv
    <2>2. Types' BY <1>2, <2>1 DEF PlainPrint, DisplayInv, Types
    <2>3. QED BY <1>2, <2>1, <2>2 DEF PlainPrint, DisplayInv, Exclusive, ColourInv
  <1>3. ASSUME NEW t \in Threads, NEW k \in Kinds, Display(t, k) PROVE DisplayInv'
    <2> USE <1>3 DEF Display, Step, Pcs, Inside, AtRest
    <2>1. Types' BY DEF DisplayInv, Types
    <2>2. Exclusive' BY DEF DisplayInv, Types, Exclusive
    <2>3. \A s \in Threads : 
             pc'[s] = pc[s] \/ (s = t /\ pc[s] = "idle" /\ pc'[s] = "enter")
      BY DEF DisplayInv, Types
    <2>4. \A s \in Threads : s # t => kind'[s] = kind[s] BY DEF DisplayInv, Types
    <2>5. ColourInv'
      <3>1. ColourInv!1' BY <2>3 DEF DisplayInv, ColourInv
      <3>2. ASSUME NEW s \in Threads
            PROVE  /\ pc'[s] = "prefix" => colour' = "brightGreen"
                   /\ pc'[s] = "text" => colour' = ColourOf[kind'[s]]
        BY <2>3, <2>4 DEF DisplayInv, ColourInv
      <3>3. QED BY <3>1, <3>2 DEF ColourInv
    <2>6. QED BY <2>1, <2>2, <2>5 DEF DisplayInv
  <1>4. CASE DeleteMutex
    BY <1>4 DEF DeleteMutex, Step, DisplayInv, Types, Exclusive, ColourInv,
       Pcs, Inside, AtRest
  <1>5. CASE ExitProcess
    BY <1>5 DEF ExitProcess, DisplayInv, Types, Exclusive, ColourInv
  <1>6. CASE UNCHANGED vars
    BY <1>6 DEF vars, DisplayInv, Types, Exclusive, ColourInv
  <1>7. QED BY <1>1, <1>2, <1>3, <1>4, <1>5, <1>6 DEF Next

LEMMA Invariance == Spec => []DisplayInv
  BY InitEstablishes, NextPreserves, PTL DEF Spec

(* No thread changes the colour under a message another one is printing,   *)
(* not even while main deletes the mutex.                                  *)
THEOREM MessagesInColour == Spec => []InColour
  <1>1. DisplayInv => InColour
    <2>0. DisplayInv => TypeOK BY DEF DisplayInv, Types, TypeOK, Pcs, Piece
    <2>1. ASSUME NEW s \in Seq(Coloured), NEW i \in DOMAIN s PROVE s[i] \in Coloured
      BY <2>1
    <2>2. QED BY <2>0, <2>1 DEF DisplayInv, Types, InColour, Coloured
  <1>2. QED BY Invariance, <1>1, PTL

(* Between messages the console has its own colour.                        *)
THEOREM ColourRestored == Spec => []DefaultAtRest
  <1>1. DisplayInv => DefaultAtRest BY DEF DisplayInv, ColourInv, DefaultAtRest
  <1>2. QED BY Invariance, <1>1, PTL
----------------------------------------------------------------------------
(* The contract.  What is shown is what was printed but for the plain      *)
(* pieces, so the steps need to know what one piece more does to it.       *)

(* Between its prefix and its text, a thread has the last piece printed    *)
(* under the mutex.                                                        *)
OpenInv ==
  \A t \in Threads :
    pc[t] \in {"paint", "text"} =>
      Locked # << >> /\ Locked[Len(Locked)] = Contract!Prefix(t)

RefinementInv == DisplayInv /\ OpenInv

(* Threads that print nothing under the mutex, and neither come between a  *)
(* prefix and its text nor leave it, show nothing new.                     *)
LEMMA NothingShown ==
  ASSUME RefinementInv, Locked' = Locked,
         \A t \in Threads :
           /\ pc'[t] \in {"paint", "text"} <=> pc[t] \in {"paint", "text"}
           /\ pc[t] \in {"paint", "text"} => kind'[t] = kind[t]
  PROVE  OpenInv' /\ Open' = Open
  <1>1. OpenInv' BY DEF RefinementInv, OpenInv, Contract!Prefix
  <1>2. Open' = Open BY DEF Open
  <1>3. QED BY <1>1, <1>2

OnScreen == IF Open THEN SubSeq(Locked, 1, Len(Locked) - 1) ELSE Locked

LEMMA LockedIsSeq == ASSUME Types PROVE Locked \in Seq(Piece) /\ Len(out) \in Nat
  <1>1. out \in Seq(Piece) BY DEF Types
  <1>2. Len(out) \in 0..Len(out) BY <1>1
  <1>3. QED BY <1>1, <1>2, DroppingIs DEF Locked

(* One piece more is printed.                                              *)
LEMMA PutLocks ==
  ASSUME Types, NEW t \in Threads,
         NEW what \in (Kinds \ {"prompt"}) \cup {"prefix", "plain"}, Put(t, what)
  PROVE  Locked' = IF what = "plain" THEN Locked
                   ELSE Append(Locked, [by |-> t, what |-> what, colour |-> colour])
  <1> DEFINE new == [by |-> t, what |-> what, colour |-> colour]
             plain == [by : Threads, what : {"plain"}, colour : Colours]
  <1>1. new \in Piece /\ out \in Seq(Piece) BY DEF Types, Piece
  <1>2. out' = Append(out, new) BY DEF Put
  <1>3. new \in plain <=> what = "plain" BY <1>1 DEF Piece
  <1> HIDE DEF new, plain
  <1>4. Dropping(Append(out, new), plain) =
          IF new \in plain THEN Dropping(out, plain) ELSE Append(Dropping(out, plain), new)
    BY <1>1, DroppingAppend
  <1>5. QED BY <1>2, <1>3, <1>4 DEF Locked, new, plain

(* The steps that print nothing, or past the mutex.                        *)
LEMMA QuietSteps ==
  ASSUME RefinementInv,
         \/ UNCHANGED vars \/ DeleteMutex \/ ExitProcess
         \/ \E t \in Threads :
              \/ PlainPrint(t) \/ Enter(t) \/ EnterDeleted(t) \/ SetPromptColour(t)
              \/ SetMessageColour(t) \/ RestoreColour(t) \/ Leave(t)
              \/ \E k \in Kinds : Display(t, k)
  PROVE  OpenInv' /\ OnScreen' = OnScreen
  <1>0. Types BY DEF RefinementInv, DisplayInv
  <1>1. Locked' = Locked
    <2>1. CASE out' = out BY <2>1 DEF Locked
    <2>2. ASSUME NEW t \in Threads, PlainPrint(t) PROVE Locked' = Locked
      BY <1>0, <2>2, PutLocks DEF PlainPrint
    <2>3. QED
     
        BY <2>1, <2>2 DEF vars, DeleteMutex, ExitProcess, Enter, EnterDeleted, SetPromptColour,
         SetMessageColour, RestoreColour, Leave, Display
  <1>2. \A t \in Threads :
          /\ pc'[t] \in {"paint", "text"} <=> pc[t] \in {"paint", "text"}
          /\ pc[t] \in {"paint", "text"} => kind'[t] = kind[t]
    <2> SUFFICES ASSUME NEW t \in Threads
                 PROVE  /\ pc'[t] \in {"paint", "text"} <=> pc[t] \in {"paint", "text"}
                        /\ pc[t] \in {"paint", "text"} => kind'[t] = kind[t]
      OBVIOUS
    <2>1. CASE UNCHANGED vars \/ ExitProcess BY <2>1 DEF vars, ExitProcess
    <2>2. CASE DeleteMutex
      BY <1>0, <2>2, DisplayConstantsOK DEF DeleteMutex, Step, Types
    <2>3. ASSUME NEW s \in Threads,
                 \/ PlainPrint(s) \/ Enter(s) \/ EnterDeleted(s) \/ SetPromptColour(s)
                 \/ SetMessageColour(s) \/ RestoreColour(s) \/ Leave(s)
          PROVE  /\ pc'[t] \in {"paint", "text"} <=> pc[t] \in {"paint", "text"}
                 /\ pc[t] \in {"paint", "text"} => kind'[t] = kind[t]
      BY <1>0, <2>3 DEF Types, Step, PlainPrint, Enter, EnterDeleted, SetPromptColour,
         SetMessageColour, RestoreColour, Leave
    <2>4. ASSUME NEW s \in Threads, NEW k \in Kinds, Display(s, k)
          PROVE  /\ pc'[t] \in {"paint", "text"} <=> pc[t] \in {"paint", "text"}
                 /\ pc[t] \in {"paint", "text"} => kind'[t] = kind[t]
      BY <1>0, <2>4 DEF Types, Step, Display
    <2>5. QED BY <2>1, <2>2, <2>3, <2>4
  <1>3. QED BY <1>1, <1>2, NothingShown DEF OnScreen

(* Only the thread that is inside prints or has printed a prefix.          *)
LEMMA OthersOutside ==
  ASSUME DisplayInv, NEW t \in Threads, pc[t] \in Inside
  PROVE  \A s \in Threads : s # t => pc[s] \notin Inside
  BY DEF DisplayInv, Exclusive

(* The prefix of a prompt is shown at once, that of a message is not yet.  *)
LEMMA PrefixShows ==
  ASSUME RefinementInv, NEW t \in Threads, PrintPrefix(t)
  PROVE  OpenInv' /\ (OnScreen' = OnScreen \/ Contract!Prompt(t))
  <1>1. Types /\ DisplayInv /\ Locked \in Seq(Piece)
    BY LockedIsSeq DEF RefinementInv, DisplayInv
  <1>2. colour = "brightGreen" BY <1>1 DEF PrintPrefix, Step, DisplayInv, ColourInv
  <1>3. Locked' = Append(Locked, Contract!Prefix(t))
    BY <1>1, <1>2, PutLocks DEF PrintPrefix, Contract!Prefix
  <1>4. /\ pc[t] = "prefix" /\ pc' = [pc EXCEPT ![t] = "paint"] /\ kind' = kind
        /\ pc'[t] = "paint" /\ kind'[t] = kind[t]
        /\ \A s \in Threads : s # t => pc'[s] = pc[s]
    BY <1>1 DEF PrintPrefix, Step, Types
  <1>5. \A s \in Threads : s # t => pc[s] \notin {"paint", "text"}
    BY <1>1, <1>4, OthersOutside DEF Inside
  <1>6. ~Open BY <1>4, <1>5 DEF Open
  <1>7. Open' <=> kind[t] # "prompt" BY <1>4, <1>5 DEF Open
  <1> DEFINE longer == Append(Locked, Contract!Prefix(t))
  <1>8. /\ longer # << >> /\ longer[Len(longer)] = Contract!Prefix(t)
        /\ SubSeq(longer, 1, Len(longer) - 1) = Locked
    <2> DEFINE p == Contract!Prefix(t)
    <2>1. Len(longer) = Len(Locked) + 1 /\ Len(Locked) \in Nat BY <1>1
    <2> HIDE DEF p
    <2>2. longer[Len(longer)] = p BY <1>1, <2>1 DEF p
    <2>3. SubSeq(longer, 1, Len(longer) - 1) = Locked BY <1>1, <2>1
    <2>4. QED BY <2>1, <2>2, <2>3 DEF p
  <1>9. OpenInv'
    BY <1>3, <1>4, <1>5, <1>8 DEF OpenInv, Contract!Prefix
  <1>10. CASE kind[t] = "prompt"
    BY <1>3, <1>6, <1>7, <1>9, <1>10 DEF OnScreen, Contract!Prompt
  <1>11. CASE kind[t] # "prompt"
    BY <1>3, <1>6, <1>7, <1>8, <1>9, <1>11 DEF OnScreen
  <1>12. QED BY <1>9, <1>10, <1>11

(* The text of a message is shown with the prefix it follows.              *)
LEMMA MessageShows ==
  ASSUME RefinementInv, NEW t \in Threads, PrintMessage(t)
  PROVE  /\ OpenInv'
         /\ OnScreen' = OnScreen \/ \E k \in Contract!Kinds : Contract!Show(t, k)
  <1>1. Types /\ DisplayInv /\ OpenInv /\ Locked \in Seq(Piece)
    BY LockedIsSeq DEF RefinementInv, DisplayInv
  <1>2. colour = ColourOf[kind[t]] /\ kind[t] \in Kinds
    BY <1>1 DEF PrintMessage, Step, DisplayInv, ColourInv, Types
  <1>3. /\ pc[t] = "text" /\ pc' = [pc EXCEPT ![t] = "restore"] /\ kind' = kind
        /\ pc'[t] = "restore"
        /\ \A s \in Threads : s # t => pc'[s] = pc[s]
    BY <1>1 DEF PrintMessage, Step, Types
  <1>4. \A s \in Threads : s # t => pc[s] \notin {"paint", "text"}
    BY <1>1, <1>3, OthersOutside DEF Inside
  <1>5. ~Open' /\ OpenInv' BY <1>3, <1>4 DEF Open, OpenInv
  <1>6. Open <=> kind[t] # "prompt" BY <1>3, <1>4 DEF Open
  <1>7. CASE kind[t] = "prompt"
    <2>1. Locked' = Locked BY <1>7 DEF PrintMessage, Locked
    <2>2. QED BY <1>5, <1>6, <1>7, <2>1 DEF OnScreen
  <1>8. CASE kind[t] # "prompt"
    <2> DEFINE k == kind[t]
    <2>1. k \in Contract!Kinds /\ Contract!ColourOf[k] = ColourOf[k]
      BY <1>2, <1>8, KindsAre DEF Contract!Kinds, Contract!ColourOf, ColourOf
    <2>2. Locked' = Append(Locked, Contract!Text(t, k))
      <3>1. Put(t, k) /\ k \in Kinds \ {"prompt"} /\ k # "plain"
        BY <1>2, <1>8, KindsAre DEF PrintMessage
      <3>2. Locked' = Append(Locked, [by |-> t, what |-> k, colour |-> colour])
        BY <1>1, <3>1, PutLocks
      <3>3. QED BY <1>2, <2>1, <3>2 DEF Contract!Text
    <2> DEFINE p == Contract!Prefix(t)
               x == Contract!Text(t, k)
               before == SubSeq(Locked, 1, Len(Locked) - 1)
    <2>3. Locked # << >> /\ Locked[Len(Locked)] = p BY <1>1, <1>3 DEF OpenInv
    <2>4. OnScreen = before BY <1>6, <1>8 DEF OnScreen
    <2>5. OnScreen' = Append(Locked, x) BY <1>5, <2>2 DEF OnScreen
    <2> HIDE DEF p, x
    <2>6. Append(Locked, x) = before \o <<p, x>>
      <3>1. Len(Locked) \in Nat \ {0} BY <1>1, <2>3
      <3>2. before \in Seq(Piece) /\ Len(before) = Len(Locked) - 1
        <4>1. /\ Len(Locked) - 1 \in 0..Len(Locked)
              /\ \A i \in 1..(Len(Locked) - 1) : Locked[i] \in Piece
          BY <1>1, <3>1
        <4>2. 1 \in Int /\ Len(Locked) - 1 \in Int BY <3>1
        <4>3. /\ before \in Seq(Piece)
              /\ Len(before) = IF 1 <= Len(Locked) - 1 THEN (Len(Locked) - 1) - 1 + 1 ELSE 0
          BY <4>1, <4>2, SubSeqProperties
        <4>4. (IF 1 <= Len(Locked) - 1 THEN (Len(Locked) - 1) - 1 + 1 ELSE 0) = Len(Locked) - 1
          <5> DEFINE n == Len(Locked) - 1
          <5>1. n \in Nat BY <3>1
          <5> HIDE DEF n
          <5>2. (IF 1 <= n THEN n - 1 + 1 ELSE 0) = n BY <5>1
          <5>3. QED BY <5>2 DEF n
        <4>5. QED BY <4>3, <4>4
      <3>3. Locked = Append(before, p) BY <1>1, <2>3, <3>1, <3>2
      <3>4. QED BY <3>2, <3>3
    <2>7. Contract!Show(t, k)
      BY <2>4, <2>5, <2>6 DEF Contract!Show, OnScreen, p, x
    <2>8. QED BY <1>5, <2>1, <2>7
  <1>9. QED BY <1>7, <1>8

LEMMA StepRefines ==
  ASSUME RefinementInv, [Next]_vars
  PROVE  OpenInv' /\ [Contract!Next]_OnScreen
  <1>1. ASSUME NEW t \in Threads, PrintPrefix(t)
        PROVE  OpenInv' /\ [Contract!Next]_OnScreen
    BY <1>1, PrefixShows DEF Contract!Next
  <1>2. ASSUME NEW t \in Threads, PrintMessage(t)
        PROVE  OpenInv' /\ [Contract!Next]_OnScreen
    BY <1>2, MessageShows DEF Contract!Next
  <1>3. QED BY <1>1, <1>2, QuietSteps DEF Next, InCall

LEMMA InitRefines == Init => OpenInv /\ Contract!Init
  <1> SUFFICES ASSUME Init PROVE OpenInv /\ Contract!Init OBVIOUS
  <1>1. /\ out = << >> /\ out \in Seq(Piece)
        /\ \A t \in Threads : pc[t] = "idle"
    BY DEF Init
  <1>2. Locked = << >> BY <1>1, DroppingEmpty DEF Locked
  <1>3. QED BY <1>1, <1>2 DEF OpenInv, Open, Contract!Init

(* The two threads and a main that deletes the mutex at any moment show    *)
(* whole messages, each in its colours, one after the other.               *)
THEOREM DisplayImplementsContract == Spec => ImplementsContract
  <1>1. RefinementInv /\ DisplayInv' /\ [Next]_vars => RefinementInv'
    BY StepRefines DEF RefinementInv
  <1>2. Init => RefinementInv /\ Contract!Init
    BY InitEstablishes, InitRefines DEF RefinementInv
  <1>3. RefinementInv /\ [Next]_vars =>
          [Contract!Next]_(IF Open THEN SubSeq(Locked, 1, Len(Locked) - 1) ELSE Locked)
    BY StepRefines DEF OnScreen
  <1>4. QED
    BY <1>1, <1>2, <1>3, Invariance, PTL DEF Spec, ImplementsContract, Contract!Spec

----------------------------------------------------------------------------
(* The pipe server.                                                        *)

Bytes == Letters \cup {Nul}
All   == Letters \cup {Nul, Junk}

Buffer ==
  /\ loop \in {"peek", "read"} => in = Zeroed
  /\ loop = "print" => \A i \in 1..Size : i > numWritten => in[i] = Nul

Moved ==
  /\ Embeds(Shown, sent)
  /\ Nul \notin Range(sent) => Shown = sent

PipeInv == PipeTypeOK /\ sent \in Seq(Bytes) /\ Buffer /\ Moved

----------------------------------------------------------------------------
(* The string in a buffer is what comes before its first NUL.              *)
LEMMA StringInIs ==
  ASSUME NEW b \in [1..Size -> Bytes]
  PROVE  \E k \in 0..Size :
           /\ StringIn(b) = SubSeq(b, 1, k)
           /\ \A i \in 1..k : b[i] # Nul
           /\ k = Size \/ b[k + 1] = Nul
           /\ StringIn(b) \in Seq(Letters)
  <1> DEFINE S == {i \in 1..Size : b[i] = Nul} \cup {Size + 1}
  <1>1. Size \in Nat BY PipeConstantsOK
  <1>2. S \subseteq Nat /\ S # {} BY <1>1
  <1>3. \E x \in S : \A y \in S : x <= y
    <2> HIDE DEF S
    <2>1. QED BY <1>2, LeastNumber
  <1>4. Min(S) \in S /\ \A y \in S : Min(S) <= y
    <2> HIDE DEF S
    <2>1. QED BY <1>3 DEF Min
  <1> DEFINE k == Min(S) - 1
  <1>5. Min(S) \in 1..(Size + 1) BY <1>1, <1>4
  <1>6. StringIn(b) = SubSeq(b, 1, k) BY DEF StringIn
  <1>7. \A i \in 1..k : b[i] # Nul
    <2> SUFFICES ASSUME NEW i \in 1..k, b[i] = Nul PROVE FALSE OBVIOUS
    <2>1. i \in 1..Size /\ i < Min(S) BY <1>1, <1>5
    <2>2. i \in S BY <2>1
    <2> HIDE DEF S
    <2>3. QED BY <1>4, <1>5, <2>1, <2>2
  <1>8. k = Size \/ b[k + 1] = Nul
    <2>1. Min(S) = Size + 1 \/ b[Min(S)] = Nul BY <1>4
    <2> HIDE DEF S
    <2>2. QED BY <1>1, <1>5, <2>1
  <1> HIDE DEF S
  <1>9. k \in 0..Size BY <1>1, <1>5
  <1> HIDE DEF k
  <1>10. \A i \in 1..k : b[i] \in Letters
    <2> SUFFICES ASSUME NEW i \in 1..k PROVE b[i] \in Letters OBVIOUS
    <2>1. i \in 1..Size BY <1>1, <1>9
    <2>2. QED BY <1>7, <2>1 DEF Bytes
  <1>11. SubSeq(b, 1, k) \in Seq(Letters) BY <1>9, <1>10, SubSeqProperties
  <1>12. QED BY <1>6, <1>7, <1>8, <1>9, <1>11

LEMMA Associates == \A s, t, u \in Seq(All) : (s \o t) \o u = s \o (t \o u)
  BY ConcatAssociative

(* Of what comes next, n bytes are taken and k of them kept.               *)
LEMMA Taking ==
  ASSUME NEW p \in Seq(All), NEW h \in Seq(All), NEW r \in Seq(All),
         NEW n \in 0..Len(h), NEW k \in 0..n
  PROVE  LET before == (p \o << >>) \o (h \o r)
             after  == (p \o SubSeq(h, 1, k)) \o (SubSeq(h, n + 1, Len(h)) \o r)
         IN /\ Embeds(after, before)
            /\ k = n => after = before
  <1> DEFINE x == SubSeq(h, 1, k)
             y == SubSeq(h, 1, n)
             z == SubSeq(h, n + 1, Len(h))
  <1>0. Len(h) \in Nat OBVIOUS
  <1>1. y \o z = h
    <2>1. /\ 1 \in 1..Len(h) + 1 /\ n \in (1 - 1)..Len(h) /\ Len(h) \in n..Len(h)
      BY <1>0
    <2>2. SubSeq(h, 1, n) \o SubSeq(h, n + 1, Len(h)) = SubSeq(h, 1, Len(h))
      BY <2>1, ConcatAdjacentSubSeq, Zenon
    <2>3. QED BY <2>2, SubSeqFull
  <1>2. x \in Seq(All) /\ y \in Seq(All) /\ z \in Seq(All) /\ Len(y) = n BY <1>0
  <1>3. x = SubSeq(y, 1, k)
    <2>1. SubSeq(y, 1, k) \in Seq(All) /\ Len(SubSeq(y, 1, k)) = k /\ Len(x) = k BY <1>0
    <2>2. \A i \in 1..k : SubSeq(y, 1, k)[i] = x[i] BY <1>0
    <2> HIDE DEF x, y
    <2>3. QED BY <1>2, <2>1, <2>2, SeqEqual
  <1>4. Embeds(x, y)
    <2>1. k \in 0..Len(y) BY <1>2
    <2> HIDE DEF x, y
    <2>2. QED BY <1>2, <1>3, <2>1, EmbedsBegin
  <1> HIDE DEF x, y, z
  <1>5. /\ p \o x \in Seq(All) /\ p \o y \in Seq(All) /\ z \o r \in Seq(All)
        /\ Embeds(p, p) /\ Embeds(z \o r, z \o r)
    BY <1>2, ConcatProperties, EmbedsSelf
  <1>6. Embeds(p \o x, p \o y) BY <1>2, <1>4, <1>5, EmbedsConcat
  <1>7. Embeds((p \o x) \o (z \o r), (p \o y) \o (z \o r)) BY <1>5, <1>6, EmbedsConcat
  <1>8. (p \o y) \o (z \o r) = (p \o << >>) \o (h \o r)
    <2>1. (p \o y) \o (z \o r) = p \o (y \o (z \o r))
      <3>1. \A w \in Seq(All) : (p \o y) \o w = p \o (y \o w) BY <1>2, Associates, Zenon
      <3>2. z \o r \in Seq(All) BY <1>5
      <3>3. QED BY <3>1, <3>2, Zenon
    <2>2. y \o (z \o r) = (y \o z) \o r
      <3>1. \A w \in Seq(All) : (y \o z) \o w = y \o (z \o w) BY <1>2, Associates, Zenon
      <3>2. QED BY <3>1, Zenon
    <2>3. p \o << >> = p BY ConcatEmptySeq
    <2>4. QED BY <1>1, <2>1, <2>2, <2>3
  <1>9. k = n => x = y BY DEF x, y
  <1>10. QED BY <1>7, <1>8, <1>9 DEF x, z
----------------------------------------------------------------------------
(* What the parts of Shown are.                                            *)
LEMMA Parts ==
  ASSUME PipeTypeOK
  PROVE  /\ Dropping(printed, {Junk}) \in Seq(All) /\ Unread \in Seq(All) /\ Unread \in Seq(Bytes)
         /\ printed \in Seq(All)
         /\ StringIn(in) \in Seq(Letters) /\ StringIn(in) \in Seq(All)
         /\ queue \in Seq(Seq(All)) /\ queue \in Seq(Seq(Bytes))
  <1>1. printed \in Seq(All) BY SeqMonotonic DEF PipeTypeOK, All
  <1>2. Dropping(printed, {Junk}) \in Seq(All)
    <2>1. PICK f \in [0..Len(printed) -> Seq(All)] : Dropping(printed, {Junk}) = f[Len(printed)]
      BY <1>1, DroppingIs
    <2>2. Len(printed) \in 0..Len(printed) BY <1>1
    <2>3. QED BY <2>1, <2>2
  <1>3. queue \in Seq(Seq(Bytes)) BY DEF PipeTypeOK, Bytes
  <1>4. Unread \in Seq(Bytes)
    <2>1. PICK f \in [0..Len(queue) -> Seq(Bytes)] : FlattenSeq(queue) = f[Len(queue)]
      BY <1>3, FlattenIs
    <2>2. Len(queue) \in 0..Len(queue) BY <1>3
    <2>3. QED BY <2>1, <2>2 DEF Unread
  <1>5. Unread \in Seq(All) BY <1>4, SeqMonotonic DEF All, Bytes
  <1>6. in \in [1..Size -> Bytes] BY DEF PipeTypeOK, Bytes
  <1>7. StringIn(in) \in Seq(Letters) BY <1>6, StringInIs
  <1>8. StringIn(in) \in Seq(All) BY <1>7, SeqMonotonic DEF All
  <1>9. Seq(Bytes) \subseteq Seq(All) BY SeqMonotonic DEF All, Bytes
  <1>10. queue \in Seq(Seq(All)) BY <1>3, <1>9, SeqMonotonic
  <1>11. QED BY <1>1, <1>2, <1>3, <1>4, <1>5, <1>7, <1>8, <1>10

LEMMA PipeInitEstablishes == PipeInit => PipeInv
  <1> SUFFICES ASSUME PipeInit PROVE PipeInv OBVIOUS
  <1>1. PipeTypeOK BY PipeConstantsOK DEF PipeInit, PipeTypeOK, Zeroed
  <1>2. sent \in Seq(Bytes) /\ Buffer BY DEF PipeInit, Buffer
  <1>3. Shown = << >> /\ sent = << >>
    <2>1. Dropping(printed, {Junk}) = << >> BY DroppingEmpty DEF PipeInit
    <2>2. Unread = << >> BY FlattenEmpty DEF PipeInit, Unread
    <2>3. QED BY <2>1, <2>2 DEF PipeInit, Shown
  <1>4. Embeds(Shown, sent) BY <1>2, <1>3, EmbedsSelf
  <1>5. QED BY <1>1, <1>2, <1>3, <1>4 DEF PipeInv, Moved

(* A read gets n bytes of the first message, and zeros follow them in the  *)
(* buffer.  Of the n bytes the k before the first NUL will be shown.       *)
LEMMA ReadFileMoves == PipeInv /\ ReadFile => PipeInv'
  <1> SUFFICES ASSUME PipeInv, ReadFile PROVE PipeInv' OBVIOUS
  <1> DEFINE h == Head(queue)
             r == FlattenSeq(Tail(queue))
             n == numWritten'
             p == Dropping(printed, {Junk})
  <1>1. /\ Size \in Nat /\ in = Zeroed /\ loop = "read" /\ loop' = "print"
        /\ queue \in Seq(Seq(Bytes)) /\ queue # << >>
    BY Parts, PipeConstantsOK DEF PipeInv, Buffer, ReadFile
  <1>2. h \in Seq(Bytes) /\ Tail(queue) \in Seq(Seq(Bytes)) /\ Len(h) \in Nat
    BY <1>1, HeadTailProperties
  <1>3. /\ n = IF Len(h) < Size THEN Len(h) ELSE Size
        /\ in' = [i \in 1..Size |-> IF i <= n THEN h[i] ELSE in[i]]
        /\ queue' = IF Len(h) <= Size THEN Tail(queue)
                    ELSE <<SubSeq(h, Size + 1, Len(h))>> \o Tail(queue)
        /\ UNCHANGED <<pipe, bytesAvailable, printed, sent, messages>>
    BY DEF ReadFile, clientVars
  <1>4. n \in 0..Len(h) /\ n \in 0..Size BY <1>1, <1>2, <1>3
  <1>5. r \in Seq(Bytes)
    <2>1. PICK f \in [0..Len(Tail(queue)) -> Seq(Bytes)] :
            FlattenSeq(Tail(queue)) = f[Len(Tail(queue))]
      BY <1>2, FlattenIs
    <2>2. Len(Tail(queue)) \in 0..Len(Tail(queue)) BY <1>2
    <2>3. QED BY <2>1, <2>2
  <1>6. Unread = h \o r
    <2>1. queue = <<h>> \o Tail(queue) BY <1>1
    <2>2. FlattenSeq(<<h>> \o Tail(queue)) = h \o r BY <1>2, FlattenHead
    <2> HIDE DEF h, r
    <2>3. QED BY <2>1, <2>2 DEF Unread
  <1>7. Unread' = SubSeq(h, n + 1, Len(h)) \o r /\ queue' \in Seq(Seq(Bytes))
    <2>1. SubSeq(h, n + 1, Len(h)) \in Seq(Bytes)
      <3> HIDE DEF h, n
      <3>1. QED BY <1>2, <1>4
    <2>2. CASE Len(h) <= Size
      <3>1. queue' = Tail(queue) /\ n = Len(h) BY <1>1, <1>2, <1>3, <2>2
      <3>2. SubSeq(h, n + 1, Len(h)) = << >> BY <1>2, <3>1
      <3>3. << >> \o r = r BY <1>5, ConcatEmptySeq
      <3>4. QED BY <1>2, <3>1, <3>2, <3>3 DEF Unread
    <2>3. CASE ~(Len(h) <= Size)
      <3> DEFINE g == SubSeq(h, n + 1, Len(h))
      <3>1. n = Size /\ queue' = <<g>> \o Tail(queue)
        <4>1. n = Size
          <5> HIDE DEF h, n
          <5>1. QED BY <1>1, <1>2, <1>3, <2>3
        <4>2. queue' = <<SubSeq(h, Size + 1, Len(h))>> \o Tail(queue) BY <1>3, <2>3
        <4>3. QED BY <4>1, <4>2
      <3> HIDE DEF g, h
      <3>2. g \in Seq(Bytes) BY <2>1 DEF g
      <3>3. FlattenSeq(<<g>> \o Tail(queue)) = g \o r BY <1>2, <3>2, FlattenHead
      <3>4. <<g>> \o Tail(queue) \in Seq(Seq(Bytes)) BY <1>2, <3>2
      <3>5. QED BY <3>1, <3>3, <3>4 DEF Unread, g
    <2>4. QED BY <2>2, <2>3
  <1> HIDE DEF h, r, n, p
  <1>8. /\ in' \in [1..Size -> Bytes]
        /\ \A i \in 1..Size : IF i <= n THEN in'[i] = h[i] ELSE in'[i] = Nul
    <2>1. \A i \in 1..Size : i <= n => h[i] \in Bytes BY <1>1, <1>2, <1>4
    <2>2. \A i \in 1..Size : in[i] = Nul BY <1>1 DEF Zeroed
    <2>3. Nul \in Bytes BY DEF Bytes
    <2>4. QED BY <1>3, <2>1, <2>2, <2>3
  <1>9. PICK k \in 0..n : /\ StringIn(in') = SubSeq(h, 1, k)
                          /\ \A i \in 1..k : h[i] # Nul
                          /\ k < n => h[k + 1] = Nul
    <2>1. PICK k \in 0..Size : /\ StringIn(in') = SubSeq(in', 1, k)
                               /\ \A i \in 1..k : in'[i] # Nul
                               /\ k = Size \/ in'[k + 1] = Nul
      BY <1>8, StringInIs
    <2>2. k <= n
      <3> SUFFICES ASSUME n < k PROVE FALSE BY <1>1, <1>4
      <3>1. k \in 1..k /\ k \in 1..Size /\ ~(k <= n) BY <1>1, <1>4
      <3>2. QED BY <1>8, <2>1, <3>1
    <2>3. k \in 0..n BY <1>1, <1>4, <2>2
    <2>4. \A i \in 1..k : in'[i] = h[i] /\ i \in 1..Size /\ i \in 1..Len(h)
      BY <1>1, <1>2, <1>4, <1>8, <2>2
    <2>5. SubSeq(in', 1, k) = SubSeq(h, 1, k)
      <3>1. \A i \in 1..k : in'[i] \in Bytes /\ h[i] \in Bytes BY <1>2, <1>8, <2>4
      <3>2. /\ SubSeq(in', 1, k) \in Seq(Bytes) /\ Len(SubSeq(in', 1, k)) = k
            /\ \A i \in 1..k : SubSeq(in', 1, k)[i] = in'[i]
        BY <3>1, SubSeqProperties
      <3>3. /\ SubSeq(h, 1, k) \in Seq(Bytes) /\ Len(SubSeq(h, 1, k)) = k
            /\ \A i \in 1..k : SubSeq(h, 1, k)[i] = h[i]
        BY <3>1, SubSeqProperties
      <3>4. QED BY <2>4, <3>2, <3>3, SeqEqual
    <2>6. k < n => h[k + 1] = Nul
      <3> SUFFICES ASSUME k < n PROVE h[k + 1] = Nul OBVIOUS
      <3>1. k + 1 \in 1..Size /\ k + 1 <= n /\ k # Size BY <1>1, <1>4
      <3>2. QED BY <1>8, <2>1, <3>1
    <2>7. QED BY <2>1, <2>3, <2>4, <2>5, <2>6
  <1>10. PipeTypeOK' /\ sent' \in Seq(Bytes)
    BY <1>1, <1>3, <1>4, <1>7, <1>8 DEF PipeInv, PipeTypeOK, Bytes, n
  <1>11. Buffer'
    <2>1. \A i \in 1..Size : i > n => in'[i] = Nul
      <3> SUFFICES ASSUME NEW i \in 1..Size, i > n PROVE in'[i] = Nul OBVIOUS
      <3>1. ~(i <= n) BY <1>1, <1>4
      <3>2. QED BY <1>8, <3>1
    <2>2. QED BY <1>1, <2>1 DEF Buffer, n
  <1>12. /\ Shown = (p \o << >>) \o (h \o r)
         /\ Shown' = (p \o SubSeq(h, 1, k)) \o (SubSeq(h, n + 1, Len(h)) \o r)
    BY <1>1, <1>3, <1>6, <1>7, <1>9 DEF Shown, p
  <1>13. h \in Seq(All) /\ r \in Seq(All) /\ p \in Seq(All)
    BY <1>2, <1>5, SeqMonotonic, Parts DEF All, Bytes, PipeInv, p
  <1>14. Embeds(Shown', Shown) /\ (k = n => Shown' = Shown)
    BY <1>4, <1>9, <1>12, <1>13, Taking, ZenonT(60)
  <1>15. Shown \in Seq(All) /\ Shown' \in Seq(All) /\ sent \in Seq(All)
    <2>1. Shown \in Seq(All) BY <1>12, <1>13, ConcatProperties
    <2>2. SubSeq(h, 1, k) \in Seq(All) /\ SubSeq(h, n + 1, Len(h)) \in Seq(All)
      BY <1>4, <1>13
    <2>3. Shown' \in Seq(All) BY <1>12, <1>13, <2>2, ConcatProperties
    <2>4. sent \in Seq(All) BY SeqMonotonic DEF PipeInv, All, Bytes
    <2>5. QED BY <2>1, <2>3, <2>4
  <1>16. Embeds(Shown', sent')
    <2>1. Embeds(Shown, sent) /\ sent' = sent BY <1>3 DEF PipeInv, Moved
    <2>2. QED BY <1>14, <1>15, <2>1, EmbedsThrough
  <1>17. Nul \notin Range(sent') => Shown' = sent'
    <2> SUFFICES ASSUME Nul \notin Range(sent') PROVE Shown' = sent' OBVIOUS
    <2>1. sent' = sent /\ Shown = sent BY <1>3 DEF PipeInv, Moved
    <2>2. k = n
      <3> SUFFICES ASSUME k < n PROVE FALSE BY <1>4, <1>9
      <3>1. h[k + 1] = Nul /\ k + 1 \in 1..Len(h) BY <1>2, <1>4, <1>9
      <3>2. Nul \in Range(h) BY <1>2, <3>1, RangeEquality
      <3>3. Range(Shown) = Range(p \o << >>) \cup (Range(h) \cup Range(r))
        <4> DEFINE x == p \o << >>
                   y == h \o r
        <4>1. x \in Seq(All) /\ y \in Seq(All) BY <1>13, ConcatProperties
        <4>2. Range(x \o y) = Range(x) \cup Range(y)
          <5> HIDE DEF x, y
          <5>1. QED BY <4>1, RangeConcatenation
        <4>3. Range(h \o r) = Range(h) \cup Range(r) BY <1>13, RangeConcatenation
        <4>4. QED BY <1>12, <4>2, <4>3
      <3>4. QED BY <2>1, <3>2, <3>3
    <2>3. QED BY <1>14, <2>1, <2>2
  <1>18. QED BY <1>10, <1>11, <1>16, <1>17 DEF PipeInv, Moved
(* With nobody to read from, the buffer holds no string.                   *)
LEMMA ReadFileFailsMoves == PipeInv /\ ReadFileFails => PipeInv'
  <1> SUFFICES ASSUME PipeInv, ReadFileFails PROVE PipeInv' OBVIOUS
  <1>1. /\ PipeTypeOK /\ in = Zeroed /\ in \in [1..Size -> Bytes] /\ Size \in Nat /\ Size # 0
    BY PipeConstantsOK DEF PipeInv, Buffer, ReadFileFails, PipeTypeOK, Bytes
  <1>2. /\ UNCHANGED <<pipe, queue, bytesAvailable, in, printed, sent, messages>>
        /\ loop = "read" /\ loop' = "print" /\ numWritten' = 0
    BY DEF ReadFileFails, clientVars
  <1>3. StringIn(in) = << >>
    <2>1. PICK k \in 0..Size : StringIn(in) = SubSeq(in, 1, k) /\ \A i \in 1..k : in[i] # Nul
      BY <1>1, StringInIs
    <2>2. k = 0
      <3> SUFFICES ASSUME k # 0 PROVE FALSE OBVIOUS
      <3>1. 1 \in 1..k /\ 1 \in 1..Size BY <1>1
      <3>2. in[1] = Nul BY <1>1, <3>1 DEF Zeroed
      <3>3. QED BY <2>1, <3>1, <3>2
    <2>3. QED BY <2>1, <2>2
  <1>4. Shown' = Shown BY <1>2, <1>3 DEF Shown, Unread
  <1>5. PipeTypeOK' BY <1>1, <1>2 DEF PipeTypeOK
  <1>6. Buffer' BY <1>1, <1>2 DEF Buffer, Zeroed
  <1>7. QED BY <1>2, <1>4, <1>5, <1>6 DEF PipeInv, Moved

(* The string leaves the buffer for the screen; junk that may follow it is *)
(* not counted.                                                            *)
LEMMA ShowTextMoves == PipeInv /\ ShowText => PipeInv'
  <1> SUFFICES ASSUME PipeInv, ShowText PROVE PipeInv' OBVIOUS
  <1> DEFINE s == StringIn(in)
             p == Dropping(printed, {Junk})
  <1>1. PICK beyond \in {<< >>, <<Junk>>} : printed' = printed \o s \o beyond BY DEF ShowText
  <1>2. /\ UNCHANGED <<pipe, queue, bytesAvailable, in, numWritten, sent, messages>>
        /\ loop = "print" /\ loop' = "clear"
    BY DEF ShowText, clientVars
  <1>3. /\ p \in Seq(All) /\ printed \in Seq(All) /\ s \in Seq(Letters) /\ s \in Seq(All)
        /\ Unread \in Seq(All)
    BY Parts DEF PipeInv
  <1>4. Junk \notin Letters /\ Junk \in All BY PipeConstantsOK DEF All
  <1> HIDE DEF s
  <1>5. Dropping(printed \o s, {Junk}) = p \o s
    <2>1. \A i \in 1..Len(s) : s[i] \notin {Junk} BY <1>3, <1>4
    <2>2. QED BY <1>3, <2>1, DroppingKeeps
  <1>6. Dropping(printed', {Junk}) = p \o s
    <2> DEFINE t == printed \o s
    <2>1. t \in Seq(All) BY <1>3, ConcatProperties
    <2> HIDE DEF t
    <2>2. CASE beyond = << >>
      <3>1. printed' = t BY <1>1, <2>1, <2>2, ConcatEmptySeq DEF t
      <3>2. QED BY <1>5, <3>1 DEF t
    <2>3. CASE beyond = <<Junk>>
      <3>1. printed' = t \o <<Junk>> BY <1>1, <2>3 DEF t
      <3>2. printed' = Append(t, Junk) BY <1>4, <2>1, <3>1, AppendIsConcat
      <3>3. Dropping(Append(t, Junk), {Junk}) = Dropping(t, {Junk})
        BY <1>4, <2>1, DroppingAppend
      <3>4. QED BY <1>5, <3>2, <3>3 DEF t
    <2>4. QED BY <2>2, <2>3
  <1>7. Shown' = Shown
    <2>1. Shown = (p \o s) \o Unread BY <1>2 DEF Shown, s
    <2>2. Shown' = (Dropping(printed', {Junk}) \o << >>) \o Unread BY <1>2 DEF Shown, Unread
    <2>3. (p \o s) \o << >> = p \o s
      <3>1. p \o s \in Seq(All) BY <1>3, ConcatProperties
      <3> HIDE DEF p
      <3>2. QED BY <3>1, ConcatEmptySeq
    <2>4. QED BY <1>6, <2>1, <2>2, <2>3
  <1>8. PipeTypeOK'
    <2>1. printed' \in Seq(Letters \cup {Junk})
      <3>1. printed \in Seq(Letters \cup {Junk}) BY DEF PipeInv, PipeTypeOK
      <3>2. s \in Seq(Letters \cup {Junk}) BY <1>3, SeqMonotonic
      <3>3. beyond \in Seq(Letters \cup {Junk})
        <4>1. << >> \in Seq(Letters \cup {Junk}) OBVIOUS
        <4>2. <<Junk>> \in Seq(Letters \cup {Junk}) OBVIOUS
        <4>3. QED BY <4>1, <4>2
      <3>4. QED BY <1>1, <3>1, <3>2, <3>3, ConcatProperties
    <2>2. QED BY <1>2, <2>1 DEF PipeInv, PipeTypeOK
  <1>9. Buffer' BY <1>2 DEF Buffer
  <1>10. QED BY <1>2, <1>7, <1>8, <1>9 DEF PipeInv, Moved

(* What is sent is last in the pipe.                                       *)
LEMMA SendMoves == ASSUME PipeInv, NEW m \in Messages, Send(m) PROVE PipeInv'
  <1> DEFINE b == Dropping(printed, {Junk}) \o (IF loop = "print" THEN StringIn(in) ELSE << >>)
             u == FlattenSeq(queue)
  <1>1. /\ queue' = Append(queue, m) /\ sent' = sent \o m /\ messages' = messages + 1
        /\ UNCHANGED <<pipe, loop, bytesAvailable, in, numWritten, printed>>
        /\ messages < MaxSent
    BY DEF Send, serverVars
  <1>2. m \in Seq(Bytes) /\ m \in Seq(All)
    <2>1. m \in Seq(Bytes) BY PipeConstantsOK DEF Bytes
    <2>2. QED BY <2>1, SeqMonotonic DEF All, Bytes
  <1>3. /\ queue \in Seq(Seq(Bytes)) /\ sent \in Seq(Bytes) /\ sent \in Seq(All)
        /\ u \in Seq(All)
    <2>1. queue \in Seq(Seq(Bytes)) /\ Unread \in Seq(All) BY Parts DEF PipeInv
    <2>2. sent \in Seq(Bytes) BY DEF PipeInv
    <2>3. sent \in Seq(All) BY <2>2, SeqMonotonic DEF All, Bytes
    <2>4. QED BY <2>1, <2>2, <2>3 DEF Unread
  <1>4. b \in Seq(All)
    <2>1. Dropping(printed, {Junk}) \in Seq(All) /\ StringIn(in) \in Seq(All)
      BY Parts DEF PipeInv
    <2>2. (IF loop = "print" THEN StringIn(in) ELSE << >>) \in Seq(All) BY <2>1
    <2>3. QED BY <2>1, <2>2, ConcatProperties
  <1>5. Unread' = u \o m BY <1>1, <1>2, <1>3, FlattenAppend DEF Unread
  <1>6. Shown = b \o u /\ Shown' = b \o (u \o m) BY <1>1, <1>5 DEF Shown, Unread
  <1> HIDE DEF b, u
  <1>7. Shown' = Shown \o m BY <1>2, <1>3, <1>4, <1>6, Associates
  <1>8. Shown \in Seq(All) BY <1>3, <1>4, <1>6, ConcatProperties
  <1>9. Embeds(Shown', sent')
    <2>1. Embeds(Shown, sent) BY DEF PipeInv, Moved
    <2>2. Embeds(m, m) BY <1>2, EmbedsSelf
    <2>3. QED BY <1>1, <1>2, <1>3, <1>7, <1>8, <2>1, <2>2, EmbedsConcat
  <1>10. Nul \notin Range(sent') => Shown' = sent'
    <2>1. Range(sent \o m) = Range(sent) \cup Range(m) BY <1>2, <1>3, RangeConcatenation
    <2>2. Nul \notin Range(sent) => Shown = sent BY DEF PipeInv, Moved
    <2>3. QED BY <1>1, <1>7, <2>1, <2>2
  <1>11. PipeTypeOK'
    <2>1. queue' \in Seq(Seq(Bytes)) BY <1>1, <1>2, <1>3, AppendProperties
    <2>2. messages' \in 0..MaxSent BY <1>1, PipeConstantsOK DEF PipeInv, PipeTypeOK
    <2>3. QED BY <1>1, <2>1, <2>2 DEF PipeInv, PipeTypeOK, Bytes
  <1>12. sent' \in Seq(Bytes) BY <1>1, <1>2, <1>3, ConcatProperties
  <1>13. Buffer' BY <1>1 DEF PipeInv, Buffer
  <1>14. QED BY <1>9, <1>10, <1>11, <1>12, <1>13 DEF PipeInv, Moved

(* The other steps move nothing.                                           *)
LEMMA OthersKeep ==
  PipeInv /\ (Peek \/ Clear \/ Connect \/ Close \/ UNCHANGED pipeVars) => PipeInv'
  <1> SUFFICES ASSUME PipeInv, Peek \/ Clear \/ Connect \/ Close \/ UNCHANGED pipeVars
               PROVE  PipeInv'
    OBVIOUS
  <1>1. /\ UNCHANGED <<queue, printed, sent, messages, numWritten>>
        /\ loop = "print" => loop' = "print" /\ in' = in
        /\ loop # "print" => loop' # "print"
    BY DEF Peek, Clear, Connect, Close, pipeVars, serverVars, clientVars
  <1>2. Shown' = Shown BY <1>1 DEF Shown, Unread
  <1>3. Moved' BY <1>1, <1>2 DEF PipeInv, Moved
  <1>4. Buffer'
    BY DEF PipeInv, Buffer, Peek, Clear, Connect, Close, pipeVars, serverVars, clientVars, Zeroed
  <1>5. PipeTypeOK'
    <2>1. CASE Peek
      <3>1. Len(Unread) \in Nat
        <4>1. Unread \in Seq(All) BY Parts DEF PipeInv
        <4>2. QED BY <4>1
      <3>2. bytesAvailable' \in Nat /\ loop' \in {"peek", "read"} BY <2>1, <3>1 DEF Peek
      <3>3. QED BY <2>1, <3>2 DEF PipeInv, PipeTypeOK, Peek, clientVars
    <2>2. CASE Clear BY <2>2 DEF PipeInv, PipeTypeOK, Clear, Zeroed, clientVars
    <2>3. CASE Connect \/ Close \/ UNCHANGED pipeVars
      BY <2>3 DEF PipeInv, PipeTypeOK, Connect, Close, pipeVars, serverVars, clientVars
    <2>4. QED BY <2>1, <2>2, <2>3
  <1>6. QED BY <1>1, <1>3, <1>4, <1>5 DEF PipeInv

LEMMA PipeInvariance == PipeSpec => []PipeInv
  <1>1. PipeInv /\ [PipeNext]_pipeVars => PipeInv'
    BY ReadFileMoves, ReadFileFailsMoves, ShowTextMoves, SendMoves, OthersKeep
       DEF PipeNext, Server, Client
  <1>2. QED BY PipeInitEstablishes, <1>1, PTL DEF PipeSpec

(* What is printed, being printed and still in the pipe is what was sent   *)
(* (but for what was behind a NUL), in order, nothing twice.               *)
THEOREM AlwaysShownAsSent == PipeSpec => []ShownAsSent
  <1>1. PipeInv => ShownAsSent
    <2> SUFFICES ASSUME PipeInv PROVE ShownAsSent OBVIOUS
    <2>1. Shown \in Seq(All) /\ sent \in Seq(All)
      <3>1. /\ Dropping(printed, {Junk}) \in Seq(All) /\ Unread \in Seq(All)
            /\ (IF loop = "print" THEN StringIn(in) ELSE << >>) \in Seq(All)
        BY Parts DEF PipeInv
      <3>2. QED BY <3>1, SeqMonotonic, ConcatProperties DEF PipeInv, All, Bytes, Shown
    <2>2. InOrder(Shown, sent) BY <2>1, EmbedsInOrder DEF PipeInv, Moved
    <2>3. ASSUME loop = "print", numWritten # Size PROVE Nul \in Range(in)
      <3>1. numWritten + 1 \in 1..Size /\ numWritten + 1 > numWritten
        BY <2>3, PipeConstantsOK DEF PipeInv, PipeTypeOK
      <3>2. in[numWritten + 1] = Nul BY <2>3, <3>1 DEF PipeInv, Buffer
      <3>3. QED BY <3>1, <3>2 DEF PipeInv, PipeTypeOK, Range
    <2>4. QED BY <2>2, <2>3 DEF PipeInv, Moved, ShownAsSent
  <1>2. QED BY PipeInvariance, <1>1, PTL
=============================================================================
