------------------------------- MODULE Console -------------------------------
(***************************************************************************)
(* The command line of the console (cmd.c): how the text the user types    *)
(* becomes commands.  One buffer serves every line.  fgets fills its front *)
(* and leaves the rest as it was, strtok cuts it up in place, the argument *)
(* list points into it, and at the end of the input fgets leaves it alone. *)
(* What a command does to the session is in Session.                       *)
(***************************************************************************)
EXTENDS Subsequences, SequencesExt

CONSTANTS
  Texts,     \* what the user may type until the end of the input
  Letters,   \* the characters commands and arguments are made of
  Table,     \* _commandList: the commands, and whether they have a procedure
  LineSize,  \* the size of currentLine, 32 in the code
  MaxArgs    \* the size of argv, 5 in the code

Nul    == "nul"
Delims == {"blank", "newline"}
Slots  == 32  \* the size of _commandList
Quit   == <<"q">>

(* DbgConsoleRegister asserts that there is a slot, and ends the program   *)
(* when a name is registered twice.                                        *)
ASSUME ConsoleConstantsOK ==
  /\ Letters \cap (Delims \cup {Nul}) = {}
  /\ Texts \subseteq Seq(Letters \cup Delims)
  /\ Table \in Seq([cmd : Seq(Letters), proc : BOOLEAN]) /\ Len(Table) <= Slots
  /\ \A i, j \in DOMAIN Table : i # j => Table[i].cmd # Table[j].cmd
  /\ [cmd |-> Quit, proc |-> FALSE] \in Range(Table)
  /\ LineSize \in Nat \ {0, 1} /\ MaxArgs \in Nat \ {0}

VARIABLES
  pc,        \* where DbgConsoleEntry is
  input,     \* what is still to be read from stdin
  line,      \* _console.currentLine
  scan,      \* where strtok goes on
  argv,      \* the argument list: where each argument begins in the line
  text,      \* history: all that was to be read
  executed   \* history: the commands run or found unknown, with arguments

vars == <<pc, input, line, scan, argv, text, executed>>

Cleared == [i \in 1..LineSize |-> Nul]

Init ==
  /\ text \in Texts /\ input = text
  /\ pc = "read" /\ line = Cleared /\ scan = 1 /\ argv = << >> /\ executed = << >>

(* The first position of the line from i on with a character of C.         *)
NextOf(i, C) == Min({j \in i..LineSize : line[j] \in C})

(* The C string that begins at position i.                                 *)
StringAt(i) == SubSeq(line, i, NextOf(i, {Nul}) - 1)

Arguments == [i \in DOMAIN argv |-> StringAt(argv[i])]

(* fgets: through the end of the line, or as much of it as fits.           *)
GetLine ==
  LET n == Min({k \in DOMAIN input : k = LineSize - 1 \/ input[k] = "newline"}
                 \cup {Len(input)})
  IN /\ pc = "read"
     /\ input # << >>
     /\ line' = [i \in 1..LineSize |-> IF i <= n THEN input[i] ELSE
                                       IF i = n + 1 THEN Nul ELSE line[i]]
     /\ input' = SubSeq(input, n + 1, Len(input))
     /\ pc' = "args" /\ scan' = 1 /\ argv' = << >>
     /\ UNCHANGED <<text, executed>>

(* At the end of the input fgets fails, which is not tested: the console   *)
(* takes whatever the buffer still holds for the line.                     *)
EndOfInput ==
  /\ pc = "read"
  /\ input = << >>
  /\ pc' = "args" /\ scan' = 1 /\ argv' = << >>
  /\ UNCHANGED <<input, line, text, executed>>

(* DbgConsoleGetArgs: one turn of its loop, and the call of strtok for the *)
(* next.  The argument that exceeds argv is cut off in the line, too.      *)
TokenAt == NextOf(scan, Letters \cup {Nul})

(* Faulty variants, like this one, are what the properties are tested      *)
(* against; they are no part of the model.                                 *)
HasRoomForOneLess == Len(argv) < MaxArgs - 1

HasRoom == Len(argv) < MaxArgs

NextToken ==
  LET start == TokenAt
      end   == NextOf(start, Delims \cup {Nul})
  IN /\ pc = "args"
     /\ line[start] # Nul
     /\ line' = [line EXCEPT ![end] = Nul]
     /\ scan' = IF line[end] = Nul THEN end ELSE end + 1
     /\ IF HasRoom
        THEN argv' = Append(argv, start) /\ pc' = "args"
        ELSE argv' = argv /\ pc' = "command"
     /\ UNCHANGED <<input, text, executed>>

NoMoreTokens ==
  /\ pc = "args"
  /\ line[TokenAt] = Nul
  /\ pc' = "command"
  /\ UNCHANGED <<input, line, scan, argv, text, executed>>

(* An empty line is not cleared.                                           *)
NothingEntered ==
  /\ pc = "command"
  /\ argv = << >>
  /\ pc' = "read"
  /\ UNCHANGED <<input, line, scan, argv, text, executed>>

QuitCommandByPrefix ==
  /\ pc = "command"
  /\ argv # << >>
  /\ IsPrefix(Quit, Arguments[1])
  /\ pc' = "quit"
  /\ UNCHANGED <<input, line, scan, argv, text, executed>>

(* q leaves the loop for DbgSessionSendEvent (Session).                    *)
QuitCommand ==
  /\ pc = "command"
  /\ argv # << >>
  /\ Arguments[1] = Quit
  /\ pc' = "quit"
  /\ UNCHANGED <<input, line, scan, argv, text, executed>>

RunCommandAndKeep ==
  /\ pc = "command"
  /\ argv # << >>
  /\ Arguments[1] # Quit
  /\ executed' = Append(executed, Arguments)
  /\ pc' = "read"
  /\ UNCHANGED <<input, line, scan, argv, text>>

(* A command with a procedure is run, one without is passed over, and an   *)
(* unknown one reported.                                                   *)
RunCommand ==
  /\ pc = "command"
  /\ argv # << >>
  /\ Arguments[1] # Quit
  /\ executed' = IF [cmd |-> Arguments[1], proc |-> FALSE] \in Range(Table)
                 THEN executed ELSE Append(executed, Arguments)
  /\ line' = Cleared
  /\ pc' = "read"
  /\ UNCHANGED <<input, scan, argv, text>>

Next == \/ GetLine \/ EndOfInput \/ NextToken \/ NoMoreTokens
        \/ NothingEntered \/ QuitCommand \/ RunCommand

Spec == Init /\ [][Next]_vars

(* The console's thread is scheduled, and the user types the whole text.   *)
FairSpec == Spec /\ WF_vars(Next)

----------------------------------------------------------------------------
(* The text read as a reader of it would: lines, and words in them.        *)

(* The words of each line, as many of them as argv can hold.               *)
ArgumentsOf(l) ==
  LET words == Pieces(l, Delims) IN SubSeq(words, 1, Min({Len(words), MaxArgs}))

Lines(s) ==
  LET lines == Pieces(s, {"newline"}) IN [i \in DOMAIN lines |-> ArgumentsOf(lines[i])]

Quits(args) == args # << >> /\ args[1] = Quit

SpellsQuit(s) == \E i \in DOMAIN Lines(s) : Quits(Lines(s)[i])

(* Nothing is done for a line of blanks and a command with no procedure.   *)
PassedOver ==
  {args \in Seq(Seq(Letters)) :
     args = << >> \/ [cmd |-> args[1], proc |-> FALSE] \in Range(Table)}

(* The commands a text spells, up to its first q.                          *)
Spelled(s) ==
  LET all  == Lines(s)
      upto == Min({i \in DOMAIN all : Quits(all[i])} \cup {Len(all) + 1}) - 1
  IN Dropping(SubSeq(all, 1, upto), PassedOver)

(* Every line of s, with its end, fits the buffer.                         *)
Fits(s) ==
  \A i \in DOMAIN s :
    i + LineSize - 1 \in DOMAIN s => \E k \in i..(i + LineSize - 2) : s[k] = "newline"

TypeOK ==
  /\ pc \in {"read", "args", "command", "quit"}
  /\ line \in [1..LineSize -> Letters \cup Delims \cup {Nul}]
  /\ \E i \in 1..LineSize : line[i] = Nul
  /\ scan \in 1..LineSize
  /\ Len(argv) <= MaxArgs /\ Range(argv) \subseteq 1..LineSize
  /\ text \in Texts /\ IsSuffix(input, text)

(* A line that does not fit is cut, and its rest read as lines of its own. *)
(* Even then the arguments come from what was read, in its order, and no   *)
(* character is used twice, from an earlier line or at the end of input.   *)
Read == SubSeq(text, 1, Len(text) - Len(input))
Used == FlattenSeq(FlattenSeq(executed))

UsedOnce == TypeOK /\ InOrder(Used, Read)

(* As long as its lines fit, what was read is executed as it is spelled,   *)
(* line by line and each line once: no command is missing, run twice or    *)
(* left over from before, neither between two lines, nor at the end of the *)
(* text, nor at a q, behind which nothing is.                              *)
ExecutedAsRead ==
  Fits(text) =>
    /\ pc = "read" => executed = Spelled(Read) /\ ~SpellsQuit(Read)
    /\ pc = "quit" => executed = Spelled(text) /\ SpellsQuit(text)

(* And such a text is executed in the end, all of it or up to its q.  That *)
(* is the only way out: when the text ends without one nothing more can be *)
(* typed, and the console goes on for ever.                                *)
TextIsExecuted ==
  Fits(text) => <>[](executed = Spelled(text) /\ (pc = "quit" <=> SpellsQuit(text)))
=============================================================================
