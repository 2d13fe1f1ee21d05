---------------------------- MODULE ConsoleProofs ----------------------------
(***************************************************************************)
(* The console for any text, any table of commands, a line of any size and *)
(* any number of arguments.                                                *)
(*                                                                         *)
(* While a line is worked on, m is where what was read for it ends, b how  *)
(* far its letters are from their places in the text, and u how much of    *)
(* the text was taken for commands and arguments (Pending).  The letters   *)
(* that strtok still has before it, those from scan to m, come later in    *)
(* the text than that.  What the buffer holds behind m does not matter,    *)
(* and what it holds between two lines has no letters before its end       *)
(* (Blank): so the end of the input finds nothing to run.                  *)
(*                                                                         *)
(* In the second part every line fits.  The arguments in argv, then, are   *)
(* the words that a reader of the text finds in the part of the line that  *)
(* strtok has passed (Cutting), and the lines read before stay read as     *)
(* they are (LinesExtend): what is executed is what they spell (LineInv).  *)
(***************************************************************************)
EXTENDS Console, DataProofs

Chars == Letters \cup Delims

(* How much of the text was read.                                          *)
Consumed == Len(text) - Len(input)

Words == FlattenSeq(Arguments)

Types ==
  /\ text \in Texts /\ text \in Seq(Chars)
  /\ input \in Seq(Chars) /\ Len(input) <= Len(text)
  /\ \A i \in 1..Len(input) : input[i] = text[Consumed + i]
  /\ pc \in {"read", "args", "command", "quit"}
  /\ line \in [1..LineSize -> Chars \cup {Nul}]
  /\ \E i \in 1..LineSize : line[i] = Nul
  /\ scan \in 1..LineSize
  /\ argv \in Seq(1..LineSize) /\ Len(argv) <= MaxArgs
  /\ executed \in Seq(Seq(Seq(Letters)))

(* The line holds no command.                                              *)
Blank ==
  \E m \in 1..LineSize : line[m] = Nul /\ \A i \in 1..(m - 1) : line[i] \notin Letters

(* Every argument ends before strtok goes on.                              *)
Cut == \A j \in 1..Len(argv) : \E z \in argv[j]..scan : line[z] = Nul

Pending(u, b, m) ==
  /\ u \in 0..Consumed /\ b \in 0..Consumed
  /\ m \in scan..LineSize /\ line[m] = Nul
  /\ Embeds(Used \o Words, SubSeq(text, 1, u))
  /\ \A i \in scan..(m - 1) :
       line[i] \in Letters => b + i \in (u + 1)..Consumed /\ line[i] = text[b + i]

InLine ==
  /\ Cut /\ Arguments \in Seq(Seq(Letters))
  /\ \E u, b, m \in Nat : Pending(u, b, m)

ConsoleInv ==
  /\ Types
  /\ pc \in {"read", "quit"} => Embeds(Used, Read)
  /\ pc \in {"args", "command"} => InLine
  /\ pc = "args" /\ argv = << >> => scan = 1
  /\ pc = "read" \/ (pc = "command" /\ argv = << >>) => Blank

----------------------------------------------------------------------------
(* Where a scan along a line stops.                                        *)
FirstIn(l, i, n, C) == Min({j \in i..n : l[j] \in C})

LEMMA FirstInIs ==
  ASSUME NEW l, NEW i \in Nat, NEW n \in Nat, NEW C, NEW z \in i..n, l[z] \in C
  PROVE  /\ FirstIn(l, i, n, C) \in i..z /\ l[FirstIn(l, i, n, C)] \in C
         /\ \A j \in i..(FirstIn(l, i, n, C) - 1) : l[j] \notin C
  <1> DEFINE S == {j \in i..n : l[j] \in C}
  <1>1. S \subseteq Nat /\ z \in S OBVIOUS
  <1>2. \E x \in S : \A y \in S : x <= y
    <2> HIDE DEF S
    <2>1. QED BY <1>1, LeastNumber
  <1>3. Min(S) \in S /\ \A y \in S : Min(S) <= y
    <2> HIDE DEF S
    <2>1. QED BY <1>2 DEF Min
  <1> DEFINE k == Min(S)
  <1>4. k \in i..z /\ l[k] \in C BY <1>1, <1>3
  <1>5. ASSUME NEW j \in i..(k - 1), l[j] \in C PROVE FALSE
    <2> HIDE DEF k
    <2>1. j \in S /\ ~(k <= j) BY <1>4, <1>5
    <2>2. QED BY <1>3, <2>1 DEF k
  <1>6. FirstIn(l, i, n, C) = k BY DEF FirstIn
  <1> HIDE DEF k
  <1>7. QED BY <1>4, <1>5, <1>6

(* It depends only on the line up to there.                                *)
Alike(k, l, i, z) == \A j \in i..z : k[j] = l[j]

LEMMA FirstInSame ==
  ASSUME NEW l, NEW k, NEW i \in Nat, NEW n \in Nat, NEW C, NEW z \in i..n, l[z] \in C,
         Alike(k, l, i, z)
  PROVE  /\ FirstIn(k, i, n, C) = FirstIn(l, i, n, C)
         /\ FirstIn(l, i, n, C) \in i..z
  <1> USE DEF Alike
  <1> DEFINE p == FirstIn(l, i, n, C)
             q == FirstIn(k, i, n, C)
  <1>1. /\ p \in i..z /\ l[p] \in C /\ \A j \in i..(p - 1) : l[j] \notin C
    BY FirstInIs
  <1>2. k[z] \in C OBVIOUS
  <1>3. q \in i..z /\ k[q] \in C /\ \A j \in i..(q - 1) : k[j] \notin C
    BY <1>2, FirstInIs
  <1> HIDE DEF p, q
  <1>4. ~(p < q)
    <2> SUFFICES ASSUME p < q PROVE FALSE OBVIOUS
    <2>1. p \in i..(q - 1) /\ k[p] = l[p] BY <1>1, <1>3
    <2>2. QED BY <1>1, <1>3, <2>1
  <1>5. ~(q < p)
    <2> SUFFICES ASSUME q < p PROVE FALSE OBVIOUS
    <2>1. q \in i..(p - 1) /\ k[q] = l[q] BY <1>1, <1>3
    <2>2. QED BY <1>1, <1>3, <2>1
  <1>6. p = q BY <1>1, <1>3, <1>4, <1>5
  <1>7. QED BY <1>1, <1>6 DEF p, q

(* The C string at position i of a line.                                   *)
CString(l, i) == SubSeq(l, i, FirstIn(l, i, LineSize, {Nul}) - 1)

LEMMA CStringSame ==
  ASSUME NEW l \in [1..LineSize -> Chars \cup {Nul}],
         NEW k \in [1..LineSize -> Chars \cup {Nul}],
         NEW i \in 1..LineSize, NEW z \in i..LineSize, l[z] = Nul,
         Alike(k, l, i, z)
  PROVE  CString(k, i) = CString(l, i)
  <1>1. LineSize \in Nat BY ConsoleConstantsOK
  <1> DEFINE p == FirstIn(l, i, LineSize, {Nul})
             T == Chars \cup {Nul}
  <1>2. FirstIn(k, i, LineSize, {Nul}) = p /\ p \in i..z
    <2> DEFINE C == {Nul}
    <2>1. i \in Nat /\ l[z] \in C BY <1>1
    <2> HIDE DEF C
    <2>2. /\ FirstIn(k, i, LineSize, C) = FirstIn(l, i, LineSize, C)
          /\ FirstIn(l, i, LineSize, C) \in i..z
      BY <1>1, <2>1, FirstInSame
    <2>3. QED BY <2>2 DEF C
  <1> HIDE DEF p
  <1>3. \A j \in i..(p - 1) : k[j] = l[j] /\ l[j] \in T /\ k[j] \in T
    BY <1>1, <1>2 DEF Alike
  <1> HIDE DEF T
  <1>4. /\ SubSeq(k, i, p - 1) \in Seq(T)
        /\ Len(SubSeq(k, i, p - 1)) = IF i <= p - 1 THEN (p - 1) - i + 1 ELSE 0
        /\ \A j \in 1..((p - 1) - i + 1) : SubSeq(k, i, p - 1)[j] = k[i + j - 1]
    BY <1>1, <1>2, <1>3, SubSeqProperties
  <1>5. /\ SubSeq(l, i, p - 1) \in Seq(T)
        /\ Len(SubSeq(l, i, p - 1)) = IF i <= p - 1 THEN (p - 1) - i + 1 ELSE 0
        /\ \A j \in 1..((p - 1) - i + 1) : SubSeq(l, i, p - 1)[j] = l[i + j - 1]
    BY <1>1, <1>2, <1>3, SubSeqProperties
  <1>6. \A j \in 1..Len(SubSeq(k, i, p - 1)) : SubSeq(k, i, p - 1)[j] = SubSeq(l, i, p - 1)[j]
    <2> SUFFICES ASSUME NEW j \in 1..Len(SubSeq(k, i, p - 1))
                 PROVE  SubSeq(k, i, p - 1)[j] = SubSeq(l, i, p - 1)[j]
      OBVIOUS
    <2>1. j \in 1..((p - 1) - i + 1) BY <1>1, <1>2, <1>4
    <2>2. i + j - 1 \in i..(p - 1) BY <1>1, <1>2, <2>1
    <2>3. k[i + j - 1] = l[i + j - 1] BY <1>3, <2>2
    <2>4. QED BY <1>4, <1>5, <2>1, <2>3
  <1>7. SubSeq(k, i, p - 1) = SubSeq(l, i, p - 1) BY <1>4, <1>5, <1>6, SeqEqual
  <1>8. QED BY <1>2, <1>7 DEF CString, p

----------------------------------------------------------------------------
(* What the types say of what is read, used and pending.                   *)
LEMMA ConstantsAre ==
  /\ LineSize \in Nat /\ LineSize > 1 /\ MaxArgs \in Nat /\ MaxArgs > 0
  /\ Nul \notin Chars /\ Letters \subseteq Chars /\ Nul \notin Letters
  /\ \A d \in Delims : d \notin Letters
  /\ \A t \in Texts : t \in Seq(Chars)
  BY ConsoleConstantsOK DEF Chars, Delims, Nul

LEMMA PartsTyped ==
  ASSUME Types
  PROVE  /\ Used \in Seq(Letters) /\ Used \in Seq(Chars)
         /\ FlattenSeq(executed) \in Seq(Seq(Letters))
         /\ Consumed \in 0..Len(text) /\ Len(text) \in Nat
         /\ Read = SubSeq(text, 1, Consumed) /\ Read \in Seq(Chars)
  <1>1. executed \in Seq(Seq(Seq(Letters))) /\ << >> \in Seq(Letters) BY DEF Types
  <1>2. FlattenSeq(executed) \in Seq(Seq(Letters)) BY <1>1, FlattenAppend, EmptySeq
  <1>3. Used \in Seq(Letters) BY <1>2, FlattenAppend, EmptySeq DEF Used
  <1>4. Used \in Seq(Chars) BY <1>3, SeqMonotonic DEF Chars
  <1>5. Consumed \in 0..Len(text) /\ Len(text) \in Nat BY DEF Types, Consumed
  <1>6. Read = SubSeq(text, 1, Consumed) /\ SubSeq(text, 1, Consumed) \in Seq(Chars)
    BY <1>5 DEF Types, Read, Consumed
  <1>7. QED BY <1>2, <1>3, <1>4, <1>5, <1>6

LEMMA InitEstablishes == Init => ConsoleInv
  <1> SUFFICES ASSUME Init PROVE ConsoleInv OBVIOUS
  <1>1. Types
    BY ConstantsAre DEF Init, Types, Consumed, Cleared
  <1>2. Used = << >>
    <2>1. FlattenSeq(executed) = << >> BY FlattenEmpty DEF Init
    <2>2. QED BY <2>1, FlattenEmpty DEF Used
  <1>3. Embeds(Used, Read)
    <2>1. Read = << >> BY <1>1 DEF Init, Types, Read
    <2>2. << >> \in Seq(Chars) OBVIOUS
    <2>3. QED BY <1>2, <2>1, <2>2, EmbedsSelf
  <1>4. Blank BY ConstantsAre DEF Init, Blank, Cleared
  <1>5. QED BY <1>1, <1>3, <1>4 DEF ConsoleInv, Init

(* The text up to u is part of what was read.                              *)
LEMMA PendingRead ==
  ASSUME Types, NEW s \in Seq(Chars), NEW u \in 0..Consumed, Embeds(s, SubSeq(text, 1, u))
  PROVE  Embeds(s, Read)
  <1>1. /\ Consumed \in 0..Len(text) /\ Len(text) \in Nat /\ text \in Seq(Chars)
        /\ Read = SubSeq(text, 1, Consumed) /\ Read \in Seq(Chars)
    BY PartsTyped DEF Types
  <1> DEFINE a == SubSeq(text, 1, u)
  <1>2. a \in Seq(Chars) /\ Len(Read) = Consumed BY <1>1
  <1>3. a = SubSeq(Read, 1, u)
    <2>1. /\ SubSeq(Read, 1, u) \in Seq(Chars) /\ Len(SubSeq(Read, 1, u)) = u /\ Len(a) = u
          /\ \A i \in 1..u : SubSeq(Read, 1, u)[i] = a[i]
      BY <1>1
    <2> HIDE DEF a
    <2>2. QED BY <1>2, <2>1, SeqEqual
  <1> HIDE DEF a
  <1>4. Embeds(a, Read) BY <1>1, <1>2, <1>3, EmbedsBegin
  <1>5. QED BY <1>1, <1>2, <1>4, EmbedsThrough DEF a

(* A line begins with no arguments.                                        *)
LEMMA NoWordsYet ==
  ASSUME Types, Embeds(Used, Read), argv' = << >>, executed' = executed
  PROVE  /\ Cut' /\ Arguments' \in Seq(Seq(Letters))
         /\ Embeds(Used' \o Words', SubSeq(text, 1, Consumed))
  <1>1. Cut' BY DEF Cut
  <1>2. Arguments' = << >> BY DEF Arguments
  <1>3. Words' = << >> BY <1>2, FlattenEmpty DEF Words
  <1>4. Used' = Used /\ Used \in Seq(Chars) /\ Read = SubSeq(text, 1, Consumed)
    BY PartsTyped DEF Used
  <1>5. Used \o << >> = Used BY <1>4, ConcatEmptySeq
  <1>6. QED BY <1>1, <1>2, <1>3, <1>4, <1>5

(* fgets puts n characters and a NUL into the line.                        *)
Gets(n) ==
  /\ n < LineSize
  /\ \A k \in 1..(n - 1) : input[k] # "newline"
  /\ n = LineSize - 1 \/ n = Len(input) \/ input[n] = "newline"
  /\ line' = [i \in 1..LineSize |-> IF i <= n THEN input[i] ELSE
                                    IF i = n + 1 THEN Nul ELSE line[i]]
  /\ input' = SubSeq(input, n + 1, Len(input))

LEMMA GetLineGets ==
  ASSUME Types, GetLine
  PROVE  \E n \in 1..Len(input) : Gets(n)
  <1> DEFINE S == {k \in DOMAIN input : k = LineSize - 1 \/ input[k] = "newline"}
                    \cup {Len(input)}
             n == Min(S)
  <1>1. /\ input # << >>
        /\ line' = [i \in 1..LineSize |-> IF i <= n THEN input[i] ELSE
                                          IF i = n + 1 THEN Nul ELSE line[i]]
        /\ input' = SubSeq(input, n + 1, Len(input))
    BY DEF GetLine
  <1>2. LineSize \in Nat /\ LineSize > 1 BY ConstantsAre
  <1>3. Len(input) \in Nat /\ Len(input) > 0 /\ DOMAIN input = 1..Len(input)
    BY <1>1 DEF Types
  <1>4. S \subseteq Nat /\ Len(input) \in S BY <1>3
  <1>5. \A k \in S : /\ k \in 1..Len(input)
                     /\ k = LineSize - 1 \/ k = Len(input) \/ input[k] = "newline"
    BY <1>3
  <1>6. /\ Len(input) >= LineSize - 1 => LineSize - 1 \in S
        /\ \A k \in 1..Len(input) : input[k] = "newline" => k \in S
    <2>1. Len(input) >= LineSize - 1 => LineSize - 1 \in DOMAIN input BY <1>2, <1>3
    <2>2. QED BY <1>3, <2>1
  <1> HIDE DEF S
  <1>7. \E x \in S : \A y \in S : x <= y BY <1>4, LeastNumber
  <1>8. n \in S /\ \A y \in S : n <= y BY <1>7 DEF Min
  <1> HIDE DEF n
  <1>9. n \in 1..Len(input) /\ n <= Len(input) BY <1>4, <1>5, <1>8
  <1>10. n < LineSize
    <2>1. CASE Len(input) >= LineSize - 1
      <3>1. n <= LineSize - 1 BY <1>6, <1>8, <2>1
      <3>2. QED BY <1>2, <1>9, <3>1
    <2>2. CASE ~(Len(input) >= LineSize - 1) BY <1>2, <1>3, <1>9, <2>2
    <2>3. QED BY <2>1, <2>2
  <1>11. ASSUME NEW k \in 1..(n - 1) PROVE input[k] # "newline"
    <2>1. k \in 1..Len(input) /\ ~(n <= k) BY <1>3, <1>9
    <2>2. QED BY <1>6, <1>8, <2>1
  <1>12. n = LineSize - 1 \/ n = Len(input) \/ input[n] = "newline" BY <1>5, <1>8
  <1>13. Gets(n) BY <1>1, <1>10, <1>11, <1>12 DEF Gets
  <1>14. QED BY <1>9, <1>13

(* The characters are the next of the text.                                *)
LEMMA LineRead ==
  ASSUME Types, GetLine, NEW n \in 1..Len(input), Gets(n), NEW c \in Nat, c = Consumed
  PROVE  /\ Types' /\ Consumed' = c + n /\ Len(text) = c + Len(input)
         /\ n + 1 \in 1..LineSize /\ line'[n + 1] = Nul
         /\ \A i \in 1..n : line'[i] = text[c + i]
  <1>1. /\ pc' = "args" /\ scan' = 1 /\ argv' = << >>
        /\ text' = text /\ executed' = executed
    BY DEF GetLine
  <1>2. /\ n < LineSize
        /\ line' = [i \in 1..LineSize |-> IF i <= n THEN input[i] ELSE
                                          IF i = n + 1 THEN Nul ELSE line[i]]
        /\ input' = SubSeq(input, n + 1, Len(input))
    BY DEF Gets
  <1>3. /\ LineSize \in Nat /\ LineSize > 1
        /\ text \in Seq(Chars) /\ input \in Seq(Chars) /\ Len(input) <= Len(text)
        /\ \A i \in 1..Len(input) : input[i] = text[Consumed + i]
        /\ Len(input) \in Nat /\ Len(text) \in Nat /\ n \in Nat
    BY ConstantsAre DEF Types
  <1>5. /\ input' \in Seq(Chars) /\ Len(input') = Len(input) - n
        /\ \A i \in 1..(Len(input) - n) : input'[i] = input[n + i]
    <2>1. \A i \in (n + 1)..Len(input) : input[i] \in Chars BY <1>3
    <2>2. /\ SubSeq(input, n + 1, Len(input)) \in Seq(Chars)
          /\ Len(SubSeq(input, n + 1, Len(input))) = Len(input) - n
          /\ \A i \in 1..(Len(input) - n) :
                SubSeq(input, n + 1, Len(input))[i] = input[n + i]
      BY <1>3
    <2>3. QED BY <1>2, <2>2
  <1>6. Consumed' = c + n /\ Len(text) = c + Len(input) BY <1>1, <1>3, <1>5 DEF Consumed
  <1>7. \A i \in 1..Len(input') : input'[i] = text'[Consumed' + i]
    <2> SUFFICES ASSUME NEW i \in 1..Len(input') PROVE input'[i] = text[Consumed' + i]
      BY <1>1
    <2>1. i \in 1..(Len(input) - n) /\ n + i \in 1..Len(input) BY <1>3, <1>5
    <2>2. input'[i] = input[n + i] BY <1>5, <2>1
    <2>3. input[n + i] = text[c + (n + i)] BY <1>3, <2>1
    <2>4. c + (n + i) = Consumed' + i BY <1>3, <1>6, <2>1
    <2>5. QED BY <2>2, <2>3, <2>4
  <1>8. /\ line' \in [1..LineSize -> Chars \cup {Nul}]
        /\ n + 1 \in 1..LineSize /\ line'[n + 1] = Nul
        /\ \A i \in 1..n : line'[i] = input[i]
    <2>1. line \in [1..LineSize -> Chars \cup {Nul}] BY DEF Types
    <2>2. \A i \in 1..LineSize : i <= n => input[i] \in Chars BY <1>2, <1>3
    <2>3. n + 1 \in 1..LineSize /\ n \in Nat BY <1>2, <1>3
    <2>4. \A i \in 1..n : i \in 1..LineSize /\ i <= n BY <1>2, <1>3
    <2>5. QED BY <1>2, <2>1, <2>2, <2>3, <2>4
  <1>9. Types'
    <2>1. Len(input') <= Len(text') BY <1>1, <1>3, <1>5
    <2>2. scan' \in 1..LineSize BY <1>1, <1>3
    <2>3. argv' \in Seq(1..LineSize) /\ Len(argv') <= MaxArgs BY <1>1, ConstantsAre
    <2>4. \E i \in 1..LineSize : line'[i] = Nul BY <1>8
    <2>5. text' \in Texts /\ executed' \in Seq(Seq(Seq(Letters))) BY <1>1 DEF Types
    <2>6. QED BY <1>1, <1>3, <1>5, <1>7, <1>8, <2>1, <2>2, <2>3, <2>4, <2>5 DEF Types
  <1>10. \A i \in 1..n : line'[i] = text[c + i]
    <2> SUFFICES ASSUME NEW i \in 1..n PROVE line'[i] = text[c + i] OBVIOUS
    <2>1. i \in 1..Len(input) BY <1>3
    <2>2. QED BY <1>3, <1>8, <2>1
  <1>11. QED BY <1>6, <1>8, <1>9, <1>10

LEMMA GetLineInv == ConsoleInv /\ GetLine => ConsoleInv'
  <1> SUFFICES ASSUME ConsoleInv, GetLine PROVE ConsoleInv' OBVIOUS
  <1>1. /\ Types /\ Embeds(Used, Read)
        /\ pc' = "args" /\ scan' = 1 /\ argv' = << >>
        /\ text' = text /\ executed' = executed
    BY DEF ConsoleInv, GetLine
  <1>2. PICK n \in 1..Len(input) : Gets(n) BY <1>1, GetLineGets
  <1>3. Consumed \in Nat /\ Len(input) \in Nat BY <1>1, PartsTyped DEF Types
  <1>4. PICK c \in Nat : c = Consumed
    <2> HIDE DEF Consumed
    <2>1. QED BY <1>3
  <1>5. /\ Types' /\ Consumed' = c + n
        /\ n + 1 \in 1..LineSize /\ line'[n + 1] = Nul
        /\ \A i \in 1..n : line'[i] = text[c + i]
    BY <1>1, <1>2, <1>4, LineRead
  <1>6. /\ Cut' /\ Arguments' \in Seq(Seq(Letters))
        /\ Embeds(Used' \o Words', SubSeq(text, 1, c))
    BY <1>1, <1>4, NoWordsYet
  <1>7. Pending(c, c, n + 1)'
    <2>1. c \in 0..Consumed' /\ n + 1 \in scan'..LineSize
      BY <1>1, <1>3, <1>5
    <2>2. ASSUME NEW i \in scan'..n
          PROVE  c + i \in (c + 1)..Consumed' /\ line'[i] = text'[c + i]
      <3>1. i \in 1..n BY <1>1
      <3>2. QED BY <1>1, <1>3, <1>5, <3>1
    <2>3. (n + 1) - 1 = n BY <1>3
    <2>4. QED BY <1>1, <1>5, <1>6, <2>1, <2>2, <2>3 DEF Pending
  <1>8. InLine' BY <1>3, <1>6, <1>7 DEF InLine
  <1>9. QED BY <1>1, <1>5, <1>8 DEF ConsoleInv

LEMMA EndOfInputInv == ConsoleInv /\ EndOfInput => ConsoleInv'
  <1> SUFFICES ASSUME ConsoleInv, EndOfInput PROVE ConsoleInv' OBVIOUS
  <1>1. /\ Types /\ Embeds(Used, Read) /\ Blank
        /\ pc' = "args" /\ scan' = 1 /\ argv' = << >>
        /\ UNCHANGED <<input, line, text, executed>>
    BY DEF ConsoleInv, EndOfInput
  <1>2. LineSize \in Nat /\ LineSize > 1 BY ConstantsAre
  <1>3. PICK c \in Nat : c = Consumed
    <2>1. Consumed \in Nat BY <1>1, PartsTyped
    <2> HIDE DEF Consumed
    <2>2. QED BY <2>1
  <1>4. Consumed' = c BY <1>1, <1>3 DEF Consumed
  <1>5. Types'
    <2>1. scan' \in 1..LineSize BY <1>1, <1>2
    <2>2. argv' \in Seq(1..LineSize) /\ Len(argv') <= MaxArgs BY <1>1, ConstantsAre
    <2>3. \A i \in 1..Len(input') : input'[i] = text'[Consumed' + i]
      BY <1>1, <1>3, <1>4 DEF Types
    <2>4. QED BY <1>1, <2>1, <2>2, <2>3 DEF Types
  <1>6. /\ Cut' /\ Arguments' \in Seq(Seq(Letters))
        /\ Embeds(Used' \o Words', SubSeq(text, 1, c))
    BY <1>1, <1>3, NoWordsYet
  <1>7. PICK m \in 1..LineSize : line[m] = Nul /\ \A i \in 1..(m - 1) : line[i] \notin Letters
    BY <1>1 DEF Blank
  <1>8. Pending(c, 0, m)'
    <2>1. c \in 0..Consumed' /\ 0 \in 0..Consumed' /\ m \in scan'..LineSize
      BY <1>1, <1>2, <1>4
    <2>2. QED BY <1>1, <1>6, <1>7, <2>1 DEF Pending
  <1>9. InLine' BY <1>2, <1>6, <1>8 DEF InLine
  <1>10. QED BY <1>1, <1>5, <1>9 DEF ConsoleInv

(* What is neither read, cut nor run stays as it is.                       *)
LEMMA Still ==
  ASSUME UNCHANGED <<input, line, text, executed>>
  PROVE  /\ Consumed' = Consumed /\ Used' = Used /\ Read' = Read /\ Blank' = Blank
         /\ UNCHANGED <<scan, argv>> => InLine' = InLine
  <1>1. Consumed' = Consumed /\ Used' = Used /\ Read' = Read BY DEF Consumed, Used, Read
  <1>2. Blank' = Blank BY DEF Blank
  <1>3. ASSUME UNCHANGED <<scan, argv>> PROVE InLine' = InLine
    <2>1. Arguments' = Arguments BY <1>3 DEF Arguments, StringAt, NextOf
    <2>2. Words' = Words BY <2>1 DEF Words
    <2>3. Cut' = Cut BY <1>3 DEF Cut
    <2>4. ASSUME NEW u, NEW b, NEW m PROVE Pending(u, b, m)' = Pending(u, b, m)
      BY <1>1, <1>3, <2>2 DEF Pending
    <2>5. QED BY <2>1, <2>3, <2>4 DEF InLine
  <1>4. QED BY <1>1, <1>2, <1>3

(* In a line, too, the commands run come from what was read.               *)
LEMMA InLineUsed ==
  ASSUME Types, InLine
  PROVE  /\ Words \in Seq(Letters)
         /\ Embeds(Used, Read) /\ Embeds(Used \o Words, Read)
  <1>1. Used \in Seq(Letters) /\ Used \in Seq(Chars) /\ Read \in Seq(Chars) BY PartsTyped
  <1>2. Words \in Seq(Letters)
    <2>1. Arguments \in Seq(Seq(Letters)) /\ << >> \in Seq(Letters) BY DEF InLine
    <2>2. QED BY <2>1, FlattenAppend DEF Words
  <1>3. Words \in Seq(Chars) BY <1>2, SeqMonotonic DEF Chars
  <1> DEFINE t == Used \o Words
  <1>4. t \in Seq(Chars) /\ Len(Used) \in 0..Len(t) BY <1>1, <1>3, ConcatProperties
  <1>5. Embeds(t, Read)
    <2>1. PICK u, b, m \in Nat : Pending(u, b, m) BY DEF InLine
    <2>2. u \in 0..Consumed /\ Embeds(t, SubSeq(text, 1, u)) BY <2>1 DEF Pending
    <2> HIDE DEF t
    <2>3. QED BY <1>4, <2>2, PendingRead
  <1>6. Used = SubSeq(t, 1, Len(Used))
    <2> DEFINE p == SubSeq(t, 1, Len(Used))
    <2>1. /\ p \in Seq(Chars) /\ Len(p) = Len(Used)
          /\ \A i \in 1..Len(Used) : p[i] = t[i] /\ t[i] = Used[i]
      BY <1>1, <1>3, <1>4
    <2> HIDE DEF p, t
    <2>2. p = Used BY <1>1, <2>1, SeqEqual
    <2>3. QED BY <2>2 DEF p
  <1> HIDE DEF t
  <1>7. Embeds(Used, t) BY <1>4, <1>6, EmbedsBegin
  <1>8. Embeds(Used, Read) BY <1>1, <1>4, <1>5, <1>7, EmbedsThrough
  <1>9. QED BY <1>2, <1>5, <1>8 DEF t

(* strtok finds a word from p up to q, and writes a NUL behind it.         *)
Token(p, q) ==
  /\ \A i \in scan..(p - 1) : line[i] \in Delims
  /\ \A i \in p..(q - 1) : line[i] \in Letters
  /\ line[q] \in Delims \cup {Nul}
  /\ line' = [line EXCEPT ![q] = Nul]
  /\ scan' = IF line[q] = Nul THEN q ELSE q + 1
  /\ \/ argv' = argv /\ Len(argv) = MaxArgs /\ pc' = "command"
     \/ argv' = Append(argv, p) /\ Len(argv) < MaxArgs /\ pc' = "args"

LEMMA TokenIs ==
  ASSUME Types, NEW m \in scan..LineSize, line[m] = Nul, NextToken
  PROVE  \E p \in scan..(m - 1) : \E q \in (p + 1)..m : Token(p, q)
  <1> DEFINE C == Letters \cup {Nul}
             D == Delims \cup {Nul}
             p == FirstIn(line, scan, LineSize, C)
             q == FirstIn(line, p, LineSize, D)
  <1>1. /\ LineSize \in Nat /\ MaxArgs \in Nat /\ MaxArgs > 0 /\ Nul \notin Letters
        /\ \A d \in Delims : d \notin Letters
    BY ConstantsAre
  <1>2. /\ scan \in 1..LineSize /\ m \in scan..LineSize /\ line[m] = Nul
        /\ \A i \in 1..LineSize : line[i] \in Letters \cup Delims \cup {Nul}
        /\ argv \in Seq(1..LineSize) /\ Len(argv) <= MaxArgs
    BY DEF Types, Chars
  <1>3. TokenAt = p BY DEF TokenAt, NextOf, FirstIn
  <1>4. NextOf(p, Delims \cup {Nul}) = q BY DEF NextOf, FirstIn
  <1>5. line[p] # Nul BY <1>3 DEF NextToken
  <1>6. /\ line' = [line EXCEPT ![q] = Nul]
        /\ scan' = IF line[q] = Nul THEN q ELSE q + 1
        /\ IF Len(argv) < MaxArgs
           THEN argv' = Append(argv, p) /\ pc' = "args"
           ELSE argv' = argv /\ pc' = "command"
    BY <1>3, <1>4, Zenon DEF NextToken, HasRoom
  <1>7. line[m] \in C /\ line[m] \in D BY <1>2
  <1> HIDE DEF C, D
  <1>8. p \in scan..m /\ line[p] \in C /\ \A i \in scan..(p - 1) : line[i] \notin C
    <2>1. scan \in Nat BY <1>2
    <2>2. QED BY <1>1, <1>2, <1>7, <2>1, FirstInIs
  <1> HIDE DEF p
  <1>9. p \in Nat /\ p < m /\ m \in p..LineSize /\ line[p] \in Letters
    BY <1>2, <1>5, <1>8 DEF C
  <1>10. q \in p..m /\ line[q] \in D /\ \A i \in p..(q - 1) : line[i] \notin D
    BY <1>1, <1>7, <1>9, FirstInIs
  <1> HIDE DEF q
  <1>11. q \in (p + 1)..m
    <2>1. line[p] \notin D BY <1>1, <1>9 DEF D
    <2>2. q # p BY <1>10, <2>1
    <2>3. QED BY <1>9, <1>10, <2>2
  <1>12. ASSUME NEW i \in p..(q - 1) PROVE line[i] \in Letters
    <2>1. i \in 1..LineSize BY <1>1, <1>2, <1>8, <1>9, <1>11
    <2>2. QED BY <1>2, <1>10, <2>1 DEF D
  <1>13. ASSUME NEW i \in scan..(p - 1) PROVE line[i] \in Delims
    <2>1. i \in 1..LineSize BY <1>1, <1>2, <1>9
    <2>2. QED BY <1>2, <1>8, <2>1 DEF C
  <1>14. \/ argv' = argv /\ Len(argv) = MaxArgs /\ pc' = "command"
         \/ argv' = Append(argv, p) /\ Len(argv) < MaxArgs /\ pc' = "args"
    BY <1>1, <1>2, <1>6
  <1>15. p \in scan..(m - 1) BY <1>2, <1>8, <1>9
  <1>16. line[q] \in Delims \cup {Nul} BY <1>10 DEF D
  <1>17. Token(p, q) BY <1>6, <1>12, <1>13, <1>14, <1>16 DEF Token
  <1>18. QED BY <1>11, <1>15, <1>17

(* What that leaves of the line, and where the arguments begin.            *)
LEMMA TokenTyped ==
  ASSUME Types, NEW m \in scan..LineSize, line[m] = Nul,
         NEW p \in scan..(m - 1), NEW q \in (p + 1)..m, Token(p, q)
  PROVE  /\ p \in Nat /\ q \in Nat /\ scan <= p /\ p < q /\ q <= m
         /\ p \in 1..LineSize /\ q \in 1..LineSize /\ scan' \in q..m
         /\ line' \in [1..LineSize -> Chars \cup {Nul}] /\ line'[q] = Nul
         /\ \A i \in 1..LineSize : i # q => line'[i] = line[i]
         /\ argv' \in Seq(1..LineSize) /\ Len(argv') <= MaxArgs
         /\ argv' # argv =>
              /\ Len(argv) < MaxArgs /\ pc' = "args"
              /\ Len(argv') = Len(argv) + 1 /\ argv'[Len(argv) + 1] = p /\ argv' # << >>
              /\ \A j \in 1..Len(argv) : argv'[j] = argv[j]
         /\ argv' = argv => argv # << >> /\ Len(argv) = MaxArgs /\ pc' = "command"
  <1>1. /\ LineSize \in Nat /\ MaxArgs \in Nat /\ MaxArgs > 0
        /\ scan \in 1..LineSize /\ line \in [1..LineSize -> Chars \cup {Nul}]
        /\ argv \in Seq(1..LineSize) /\ Len(argv) <= MaxArgs /\ Len(argv) \in Nat
    BY ConstantsAre DEF Types
  <1>2. /\ p \in Nat /\ q \in Nat /\ scan <= p /\ p < q /\ q <= m
        /\ p \in 1..LineSize /\ q \in 1..LineSize
    BY <1>1
  <1>3. scan' \in q..m
    <2>1. line[q] # Nul => q # m OBVIOUS
    <2>2. QED BY <1>1, <1>2, <2>1 DEF Token
  <1>4. /\ line' \in [1..LineSize -> Chars \cup {Nul}] /\ line'[q] = Nul
        /\ \A i \in 1..LineSize : i # q => line'[i] = line[i]
    BY <1>1, <1>2 DEF Token
  <1> DEFINE T == 1..LineSize
             z == Append(argv, p)
  <1>5. argv \in Seq(T) /\ p \in T BY <1>1, <1>2
  <1>6. T = 1..LineSize OBVIOUS
  <1> HIDE DEF T
  <1>7. /\ z \in Seq(T) /\ Len(z) = Len(argv) + 1 /\ z[Len(argv) + 1] = p /\ z # << >>
        /\ \A j \in 1..Len(argv) : z[j] = argv[j]
    BY <1>5, AppendProperties
  <1>8. z # argv BY <1>1, <1>7
  <1>9. CASE argv' = argv /\ Len(argv) = MaxArgs /\ pc' = "command"
    BY <1>1, <1>2, <1>3, <1>4, <1>9
  <1>10. CASE argv' = Append(argv, p) /\ Len(argv) < MaxArgs /\ pc' = "args"
    <2>1. argv' = z BY <1>10
    <2> HIDE DEF z
    <2>2. QED BY <1>1, <1>2, <1>3, <1>4, <1>6, <1>7, <1>8, <1>10, <2>1
  <1>11. QED BY <1>9, <1>10 DEF Token

(* The words found before are those that were found before.                *)
LEMMA CutStays ==
  ASSUME Types, Cut, NEW q \in 1..LineSize, scan < q, line' = [line EXCEPT ![q] = Nul],
         NEW j \in 1..Len(argv)
  PROVE  CString(line', argv[j]) = CString(line, argv[j])
  <1>1. PICK z \in argv[j]..scan : line[z] = Nul BY DEF Cut
  <1>2. /\ line \in [1..LineSize -> Chars \cup {Nul}] /\ argv[j] \in 1..LineSize
        /\ scan \in 1..LineSize /\ LineSize \in Nat
    BY ConstantsAre, SMTT(60) DEF Types
  <1>3. line' \in [1..LineSize -> Chars \cup {Nul}] BY <1>2
  <1>4. z \in argv[j]..LineSize BY <1>2
  <1>5. Alike(line', line, argv[j], z)
    <2>1. ASSUME NEW i \in argv[j]..z PROVE line'[i] = line[i]
      <3>1. i # q /\ i \in 1..LineSize BY <1>2, <1>4
      <3>2. QED BY <1>2, <3>1
    <2>2. QED BY <2>1 DEF Alike
  <1> DEFINE k == line'
             l == line
             i == argv[j]
  <1>6. /\ k \in [1..LineSize -> Chars \cup {Nul}] /\ l \in [1..LineSize -> Chars \cup {Nul}]
        /\ i \in 1..LineSize /\ z \in i..LineSize /\ l[z] = Nul /\ Alike(k, l, i, z)
    BY <1>1, <1>2, <1>3, <1>4, <1>5
  <1> HIDE DEF k, l, i
  <1>7. CString(k, i) = CString(l, i) BY <1>6, CStringSame
  <1>8. QED BY <1>7 DEF k, l, i

(* The word that ends at q is what the line has from p to there.           *)
LEMMA WordIs ==
  ASSUME NEW l \in [1..LineSize -> Chars \cup {Nul}], NEW p \in 1..LineSize,
         NEW q \in (p + 1)..LineSize, l[q] = Nul, \A i \in p..(q - 1) : l[i] \in Letters
  PROVE  CString(l, p) = SubSeq(l, p, q - 1)
  <1> DEFINE C == {Nul}
             t == FirstIn(l, p, LineSize, C)
  <1>1. LineSize \in Nat /\ Nul \notin Letters BY ConstantsAre
  <1>2. p \in Nat /\ q \in p..LineSize /\ l[q] \in C BY <1>1
  <1>3. \A i \in p..(q - 1) : l[i] \notin C BY <1>1
  <1>4. CString(l, p) = SubSeq(l, p, t - 1) BY DEF CString
  <1> HIDE DEF C
  <1>5. t \in p..q /\ l[t] \in C BY <1>1, <1>2, FirstInIs
  <1> HIDE DEF t
  <1>6. t = q
    <2>1. ~(t \in p..(q - 1)) BY <1>3, <1>5
    <2>2. QED BY <1>2, <1>5, <2>1
  <1>7. QED BY <1>4, <1>6

(* A stretch of the line that holds characters of the text.                *)
LEMMA SameWord ==
  ASSUME NEW T, NEW l, NEW t, NEW b \in Nat, NEW p \in Nat, NEW q \in Nat, p <= q,
         \A i \in p..q : l[i] \in T /\ l[i] = t[b + i]
  PROVE  SubSeq(l, p, q) \in Seq(T) /\ SubSeq(l, p, q) = SubSeq(t, b + p, b + q)
  <1> DEFINE w == SubSeq(l, p, q)
             x == SubSeq(t, b + p, b + q)
  <1>1. /\ w \in Seq(T) /\ Len(w) = (q - p) + 1
        /\ \A i \in 1..((q - p) + 1) : w[i] = l[p + i - 1]
    <2>1. \A i \in p..q : l[i] \in T OBVIOUS
    <2>2. p \in Int /\ q \in Int OBVIOUS
    <2>3. /\ w \in Seq(T) /\ Len(w) = IF p <= q THEN q - p + 1 ELSE 0
          /\ \A i \in 1..(q - p + 1) : w[i] = l[p + i - 1]
      BY <2>1, <2>2, SubSeqProperties
    <2> HIDE DEF w
    <2>4. QED BY <2>3
  <1>2. /\ x \in Seq(T) /\ Len(x) = (q - p) + 1
        /\ \A i \in 1..((q - p) + 1) : x[i] = t[b + (p + i - 1)]
    <2>1. \A i \in (b + p)..(b + q) : t[i] \in T
      <3> SUFFICES ASSUME NEW i \in (b + p)..(b + q) PROVE t[i] \in T OBVIOUS
      <3>1. i - b \in p..q /\ b + (i - b) = i OBVIOUS
      <3>2. QED BY <3>1
    <2>2. b + p \in Int /\ b + q \in Int OBVIOUS
    <2>3. /\ x \in Seq(T) /\ Len(x) = IF b + p <= b + q THEN (b + q) - (b + p) + 1 ELSE 0
          /\ \A i \in 1..((b + q) - (b + p) + 1) : x[i] = t[(b + p) + i - 1]
      BY <2>1, <2>2, SubSeqProperties
    <2>4. (b + q) - (b + p) + 1 = (q - p) + 1 /\ b + p <= b + q OBVIOUS
    <2>5. \A i \in 1..((q - p) + 1) : (b + p) + i - 1 = b + (p + i - 1) OBVIOUS
    <2> HIDE DEF x
    <2>6. QED BY <2>3, <2>4, <2>5
  <1>3. \A i \in 1..((q - p) + 1) : w[i] = x[i]
    <2> SUFFICES ASSUME NEW i \in 1..((q - p) + 1) PROVE w[i] = x[i] OBVIOUS
    <2>1. p + i - 1 \in p..q OBVIOUS
    <2> HIDE DEF w, x
    <2>2. QED BY <1>1, <1>2, <2>1
  <1> HIDE DEF w, x
  <1>4. w = x BY <1>1, <1>2, <1>3, SeqEqual
  <1>5. QED BY <1>1, <1>4 DEF w, x

(* The token is a new argument, if there is room for it.                   *)
LEMMA ArgumentFound ==
  ASSUME Types, Cut, Arguments \in Seq(Seq(Letters)), NEW m \in scan..LineSize, line[m] = Nul,
         NEW p \in scan..(m - 1), NEW q \in (p + 1)..m, Token(p, q)
  PROVE  /\ SubSeq(line', p, q - 1) \in Seq(Letters)
         /\ argv' = argv => Arguments' = Arguments
         /\ argv' # argv => Arguments' = Append(Arguments, SubSeq(line', p, q - 1))
  <1> DEFINE w == SubSeq(line', p, q - 1)
  <1>1. /\ LineSize \in Nat /\ argv \in Seq(1..LineSize) /\ Len(argv) \in Nat
        /\ scan \in 1..LineSize
    BY ConstantsAre DEF Types
  <1>2. /\ p \in Nat /\ q \in Nat /\ scan <= p /\ p < q /\ q <= m
        /\ p \in 1..LineSize /\ q \in 1..LineSize
        /\ line' \in [1..LineSize -> Chars \cup {Nul}] /\ line'[q] = Nul
        /\ \A i \in 1..LineSize : i # q => line'[i] = line[i]
        /\ argv' \in Seq(1..LineSize)
        /\ argv' # argv =>
             /\ Len(argv') = Len(argv) + 1 /\ argv'[Len(argv) + 1] = p
             /\ \A j \in 1..Len(argv) : argv'[j] = argv[j]
    BY TokenTyped
  <1>3. \A j \in 1..Len(argv) : CString(line', argv[j]) = CString(line, argv[j])
    <2>1. scan < q /\ line' = [line EXCEPT ![q] = Nul] BY <1>1, <1>2 DEF Token
    <2>2. QED BY <1>2, <2>1, CutStays
  <1>4. /\ Arguments = [i \in DOMAIN argv |-> CString(line, argv[i])]
        /\ Arguments' = [i \in DOMAIN argv' |-> CString(line', argv'[i])]
    BY DEF Arguments, StringAt, NextOf, CString, FirstIn
  <1>5. DOMAIN argv = 1..Len(argv) /\ DOMAIN argv' = 1..Len(argv') BY <1>1, <1>2
  <1>6. /\ \A i \in p..(q - 1) : line'[i] \in Letters
        /\ q - 1 \in Nat /\ p <= q - 1
    BY <1>1, <1>2 DEF Token
  <1>7. w \in Seq(Letters)
    <2> DEFINE l == line'
    <2>1. 0 \in Nat /\ \A i \in p..(q - 1) : l[i] \in Letters /\ l[i] = l[0 + i]
      BY <1>2, <1>6
    <2> HIDE DEF l
    <2>2. SubSeq(l, p, q - 1) \in Seq(Letters) BY <1>2, <1>6, <2>1, SameWord
    <2>3. QED BY <2>2 DEF l
  <1>8. CString(line', p) = w
    <2> DEFINE l == line'
    <2>1. /\ l \in [1..LineSize -> Chars \cup {Nul}] /\ l[q] = Nul
          /\ q \in (p + 1)..LineSize /\ p \in 1..LineSize
      BY <1>1, <1>2
    <2>2. \A i \in p..(q - 1) : l[i] \in Letters BY <1>6
    <2> HIDE DEF l
    <2>3. CString(l, p) = SubSeq(l, p, q - 1) BY <2>1, <2>2, WordIs
    <2>4. QED BY <2>3 DEF l
  <1> HIDE DEF w
  <1>9. argv' = argv => Arguments' = Arguments BY <1>3, <1>4, <1>5
  <1>10. ASSUME argv' # argv PROVE Arguments' = Append(Arguments, w)
    <2> DEFINE a == Arguments
               c == Arguments'
               n == Len(argv)
    <2>1. Len(a) = n BY <1>1, <1>4, <1>5
    <2>2. \A j \in 1..(n + 1) : c[j] = IF j = n + 1 THEN w ELSE a[j]
      <3> SUFFICES ASSUME NEW j \in 1..(n + 1) PROVE c[j] = IF j = n + 1 THEN w ELSE a[j]
        OBVIOUS
      <3>1. c[j] = CString(line', argv'[j]) BY <1>2, <1>4, <1>5, <1>10
      <3>2. CASE j = n + 1 BY <1>2, <1>8, <1>10, <3>1, <3>2
      <3>3. CASE j # n + 1
        <4>1. j \in 1..n BY <1>1, <3>3
        <4>2. a[j] = CString(line, argv[j]) BY <1>4, <1>5, <4>1
        <4>3. argv'[j] = argv[j] BY <1>2, <1>10, <4>1
        <4>4. QED BY <1>3, <3>1, <3>3, <4>1, <4>2, <4>3
      <3>4. QED BY <3>2, <3>3
    <2>3. c = [j \in 1..(n + 1) |-> c[j]] BY <1>2, <1>4, <1>5, <1>10
    <2>4. n \in Nat /\ a \in Seq(Seq(Letters)) BY <1>1
    <2> HIDE DEF a, c, n
    <2> DEFINE z == Append(a, w)
    <2>5. /\ z \in Seq(Seq(Letters)) /\ Len(z) = n + 1
          /\ \A j \in 1..n : z[j] = a[j]
          /\ z[n + 1] = w
      BY <1>7, <2>1, <2>4, AppendProperties DEF w
    <2> HIDE DEF z
    <2>6. \A j \in 1..(n + 1) : c[j] = z[j]
      <3> SUFFICES ASSUME NEW j \in 1..(n + 1) PROVE c[j] = z[j] OBVIOUS
      <3>1. j = n + 1 \/ (j # n + 1 /\ j \in 1..n) BY <2>4
      <3>2. QED BY <2>2, <2>5, <3>1
    <2>7. z = [j \in 1..(n + 1) |-> z[j]]
      <3>1. z \in [1..(n + 1) -> Seq(Letters)] BY <2>5, LenProperties
      <3>2. QED BY <3>1
    <2>8. c = z BY <2>3, <2>6, <2>7
    <2>9. QED BY <2>8 DEF a, c, z
  <1>11. QED BY <1>7, <1>9, <1>10 DEF w

LEMMA NextTokenInv == ConsoleInv /\ NextToken => ConsoleInv'
  <1> SUFFICES ASSUME ConsoleInv, NextToken PROVE ConsoleInv' OBVIOUS
  <1>1. /\ Types /\ InLine /\ UNCHANGED <<input, text, executed>>
    BY DEF ConsoleInv, NextToken
  <1>2. PICK u, b, m \in Nat : Pending(u, b, m) BY <1>1 DEF InLine
  <1>2a. m \in scan..LineSize /\ line[m] = Nul BY <1>2 DEF Pending
  <1>3. PICK p \in scan..(m - 1) : \E q \in (p + 1)..m : Token(p, q) BY <1>1, <1>2a, TokenIs
  <1>4. PICK q \in (p + 1)..m : Token(p, q) BY <1>3
  <1>5. /\ LineSize \in Nat /\ Nul \notin Letters
        /\ scan \in 1..LineSize /\ line \in [1..LineSize -> Chars \cup {Nul}]
        /\ argv \in Seq(1..LineSize) /\ Len(argv) \in Nat
    BY <1>1, ConstantsAre DEF Types
  <1>6. /\ p \in Nat /\ q \in Nat /\ scan <= p /\ p < q /\ q <= m
        /\ p \in 1..LineSize /\ q \in 1..LineSize /\ scan' \in q..m
        /\ line' \in [1..LineSize -> Chars \cup {Nul}] /\ line'[q] = Nul
        /\ \A i \in 1..LineSize : i # q => line'[i] = line[i]
        /\ argv' \in Seq(1..LineSize) /\ Len(argv') <= MaxArgs
        /\ argv' # argv =>
             /\ Len(argv) < MaxArgs /\ pc' = "args"
             /\ Len(argv') = Len(argv) + 1 /\ argv'[Len(argv) + 1] = p /\ argv' # << >>
             /\ \A j \in 1..Len(argv) : argv'[j] = argv[j]
        /\ argv' = argv => argv # << >> /\ Len(argv) = MaxArgs /\ pc' = "command"
    BY <1>1, <1>2a, <1>4, TokenTyped
  <1>7. Consumed' = Consumed /\ Consumed \in 0..Len(text) /\ Len(text) \in Nat /\ Used' = Used
    BY <1>1, PartsTyped DEF Consumed, Used
  <1>8. Types'
    <2>1. scan' \in 1..LineSize BY <1>2a, <1>5, <1>6
    <2>2. pc' \in {"read", "args", "command", "quit"} BY <1>6
    <2>3. \E i \in 1..LineSize : line'[i] = Nul BY <1>6
    <2>4. QED BY <1>1, <1>6, <1>7, <2>1, <2>2, <2>3 DEF Types
  <1>9. Cut'
    <2> SUFFICES ASSUME NEW j \in 1..Len(argv') PROVE \E z \in argv'[j]..scan' : line'[z] = Nul
      BY DEF Cut
    <2>1. CASE j \in 1..Len(argv)
      <3>1. PICK z \in argv[j]..scan : line[z] = Nul BY <1>1, <2>1 DEF InLine, Cut
      <3>2. argv[j] \in 1..LineSize BY <1>5, <2>1
      <3>3. argv'[j] = argv[j]
        <4>1. CASE argv' = argv BY <4>1
        <4>2. CASE argv' # argv BY <1>6, <2>1, <4>2
        <4>3. QED BY <4>1, <4>2
      <3>4. scan' \in q..m /\ scan <= p /\ p < q /\ p \in Nat /\ q \in Nat BY <1>6
      <3> DEFINE e == scan'
      <3>5. z \in 1..LineSize /\ z # q /\ z \in argv[j]..e BY <1>2a, <1>5, <3>2, <3>4
      <3>6. QED BY <1>6, <3>1, <3>3, <3>5
    <2>2. CASE j \notin 1..Len(argv)
      <3>1. j = Len(argv) + 1 /\ argv' # argv BY <1>5, <1>6, <2>2
      <3>2. argv'[j] = p /\ q \in p..scan' BY <1>2a, <1>5, <1>6, <3>1
      <3>3. QED BY <1>6, <3>2
    <2>3. QED BY <2>1, <2>2
  <1> DEFINE w == SubSeq(line', p, q - 1)
  <1>10. /\ Arguments \in Seq(Seq(Letters)) /\ w \in Seq(Letters)
         /\ argv' = argv => Arguments' = Arguments
         /\ argv' # argv => Arguments' = Append(Arguments, w)
    <2>1. Cut /\ Arguments \in Seq(Seq(Letters)) BY <1>1 DEF InLine
    <2>2. QED BY <1>1, <1>2a, <1>4, <2>1, ArgumentFound
  <1>11. /\ m \in scan'..LineSize /\ line'[m] = Nul
         /\ \A i \in scan'..(m - 1) : line'[i] \in Letters =>
              /\ i \in scan..(m - 1) /\ i >= q /\ line'[i] = line[i] /\ line[i] \in Letters
    <2>1. m \in scan'..LineSize BY <1>2a, <1>5, <1>6
    <2>2. line'[m] = Nul BY <1>2a, <1>5, <1>6
    <2>3. ASSUME NEW i \in scan'..(m - 1), line'[i] \in Letters
          PROVE  /\ i \in scan..(m - 1) /\ i >= q /\ line'[i] = line[i] /\ line[i] \in Letters
      <3>1. i \in scan..(m - 1) /\ i >= q /\ i \in 1..LineSize BY <1>2a, <1>5, <1>6
      <3>2. i # q BY <1>5, <1>6, <2>3
      <3>3. QED BY <1>6, <2>3, <3>1, <3>2
    <2>4. QED BY <2>1, <2>2, <2>3
  <1>12. CASE argv' = argv
    <2>1. Arguments' = Arguments /\ Arguments' \in Seq(Seq(Letters)) BY <1>10, <1>12
    <2>2. Words' = Words BY <2>1 DEF Words
    <2>3. Pending(u, b, m)'
      BY <1>1, <1>2, <1>6, <1>7, <1>11, <2>2 DEF Pending
    <2>4. InLine' BY <1>9, <2>1, <2>3 DEF InLine
    <2>5. QED BY <1>6, <1>8, <1>12, <2>4 DEF ConsoleInv
  <1>13. CASE argv' # argv
    <2>1. /\ b + p \in (u + 1)..Consumed /\ b + (q - 1) \in (u + 1)..Consumed
          /\ \A i \in p..(q - 1) : line'[i] = text[b + i] /\ line'[i] \in Letters
      <3>1. \A i \in scan..(m - 1) :
              line[i] \in Letters => b + i \in (u + 1)..Consumed /\ line[i] = text[b + i]
        BY <1>2 DEF Pending
      <3>2. \A i \in p..(q - 1) :
              /\ i \in scan..(m - 1) /\ line[i] \in Letters /\ line'[i] = line[i]
        BY <1>2a, <1>4, <1>5, <1>6 DEF Token
      <3>3. p \in p..(q - 1) /\ q - 1 \in p..(q - 1) BY <1>6
      <3>4. QED BY <3>1, <3>2, <3>3
    <2>2. w = SubSeq(text, b + p, b + (q - 1))
      <3> DEFINE l == line'
                 t == text
                 e == q - 1
      <3>1. b \in Nat /\ p \in Nat /\ e \in Nat /\ p <= e BY <1>2, <1>6
      <3>2. \A i \in p..e : l[i] \in Letters /\ l[i] = t[b + i] BY <2>1
      <3> HIDE DEF l, t, e
      <3>3. SubSeq(l, p, e) = SubSeq(t, b + p, b + e) BY <3>1, <3>2, SameWord
      <3>4. QED BY <3>3 DEF l, t, e
    <2> HIDE DEF w
    <2>3. Arguments' \in Seq(Seq(Letters)) /\ Words' = Words \o w
      <3> DEFINE a == Arguments
      <3>1. a \in Seq(Seq(Letters)) BY <1>10
      <3>2. Arguments' = Append(a, w) BY <1>10, <1>13
      <3> HIDE DEF a
      <3>3. Append(a, w) \in Seq(Seq(Letters)) BY <1>10, <3>1, AppendProperties
      <3>4. FlattenSeq(Append(a, w)) = FlattenSeq(a) \o w BY <1>10, <3>1, FlattenAppend
      <3>5. QED BY <3>2, <3>3, <3>4 DEF Words, a
    <2>4. Embeds(Used' \o Words', SubSeq(text, 1, b + (q - 1)))
      <3> DEFINE t == text
                 s == Used \o Words
                 i == b + p
                 k == b + (q - 1)
      <3>1. /\ Used \in Seq(Chars) /\ Words \in Seq(Chars) /\ w \in Seq(Chars)
            /\ t \in Seq(Chars)
        <4>1. Words \in Seq(Letters) BY <1>1, InLineUsed
        <4>2. QED BY <1>1, <1>10, <4>1, PartsTyped, SeqMonotonic DEF Types, Chars
      <3>2. s \in Seq(Chars) BY <3>1, ConcatProperties
      <3>3. /\ u \in 0..Len(t) /\ i \in (u + 1)..Len(t) /\ k \in i..Len(t)
            /\ Embeds(s, SubSeq(t, 1, u)) /\ w = SubSeq(t, i, k)
        BY <1>2, <1>6, <1>7, <2>1, <2>2, SMTT(60) DEF Pending
      <3>4. Used' \o Words' = s \o w
        <4> DEFINE e == Used
                   o == Words
        <4>1. Used' = e /\ Words' = o \o w BY <1>7, <2>3
        <4>2. e \in Seq(Chars) /\ o \in Seq(Chars) /\ w \in Seq(Chars) BY <3>1
        <4> HIDE DEF e, o
        <4>3. \A x, y, z \in Seq(Chars) : (x \o y) \o z = x \o (y \o z)
          BY ConcatAssociative, SMTT(60)
        <4>4. e \o (o \o w) = (e \o o) \o w BY <4>2, <4>3, Zenon
        <4>5. QED BY <4>1, <4>4 DEF e, o
      <3> HIDE DEF t, s, i, k
      <3>5. Embeds(s \o SubSeq(t, i, k), SubSeq(t, 1, k)) BY <3>1, <3>2, <3>3, EmbedsNext
      <3>6. QED BY <3>3, <3>4, <3>5 DEF t, k
    <2>5. Pending(b + (q - 1), b, m)'
      <3>1. /\ b + (q - 1) \in 0..Consumed' /\ b \in 0..Consumed'
            /\ text' = text
        BY <1>1, <1>2, <1>6, <1>7, <2>1 DEF Pending
      <3>2. ASSUME NEW i \in scan'..(m - 1), line'[i] \in Letters
            PROVE  b + i \in (b + (q - 1) + 1)..Consumed' /\ line'[i] = text'[b + i]
        <4>1. i \in scan..(m - 1) /\ i >= q /\ line'[i] = line[i] /\ line[i] \in Letters
          BY <1>11, <3>2
        <4>2. b + i \in (u + 1)..Consumed /\ line[i] = text[b + i] BY <1>2, <4>1 DEF Pending
        <4>3. (b + (q - 1)) + 1 <= b + i /\ b + i \in Nat BY <1>2, <1>5, <1>6, <4>1
        <4>4. QED BY <1>1, <1>2, <1>6, <1>7, <4>1, <4>2, <4>3
      <3>3. QED BY <1>11, <2>4, <3>1, <3>2 DEF Pending
    <2>6. InLine'
      <3>1. b + (q - 1) \in Nat BY <1>6
      <3>2. QED BY <1>9, <2>3, <2>5, <3>1 DEF InLine
    <2>7. QED BY <1>6, <1>8, <1>13, <2>6 DEF ConsoleInv
  <1>14. QED BY <1>12, <1>13

LEMMA NoMoreTokensInv == ConsoleInv /\ NoMoreTokens => ConsoleInv'
  <1> SUFFICES ASSUME ConsoleInv, NoMoreTokens PROVE ConsoleInv' OBVIOUS
  <1>1. /\ Types /\ InLine /\ line[TokenAt] = Nul /\ (argv = << >> => scan = 1)
        /\ pc' = "command" /\ UNCHANGED <<input, line, scan, argv, text, executed>>
    BY DEF ConsoleInv, NoMoreTokens
  <1>2. Types' BY <1>1, Still DEF Types
  <1>3. InLine' BY <1>1, Still
  <1>4. ASSUME argv = << >> PROVE Blank
    <2> DEFINE C == Letters \cup {Nul}
               t == FirstIn(line, 1, LineSize, C)
    <2>1. TokenAt = t BY <1>1, <1>4 DEF TokenAt, NextOf, FirstIn
    <2>2. PICK z \in 1..LineSize : line[z] = Nul BY <1>1 DEF Types
    <2>3. line[z] \in C /\ LineSize \in Nat /\ 1 \in Nat BY <2>2, ConstantsAre
    <2> HIDE DEF C
    <2>4. t \in 1..z /\ \A j \in 1..(t - 1) : line[j] \notin C BY <2>3, FirstInIs
    <2> HIDE DEF t
    <2>5. t \in 1..LineSize /\ \A j \in 1..(t - 1) : line[j] \notin Letters
      BY <2>3, <2>4 DEF C
    <2>6. QED BY <1>1, <2>1, <2>5 DEF Blank
  <1>5. argv' = << >> => Blank' BY <1>1, <1>4, Still
  <1>6. QED BY <1>1, <1>2, <1>3, <1>5 DEF ConsoleInv

LEMMA NothingEnteredInv == ConsoleInv /\ NothingEntered => ConsoleInv'
  <1> SUFFICES ASSUME ConsoleInv, NothingEntered PROVE ConsoleInv' OBVIOUS
  <1>1. /\ Types /\ InLine /\ Blank
        /\ pc' = "read" /\ UNCHANGED <<input, line, scan, argv, text, executed>>
    BY DEF ConsoleInv, NothingEntered
  <1>2. Types' BY <1>1, Still DEF Types
  <1>3. Blank' /\ Embeds(Used', Read') BY <1>1, Still, InLineUsed
  <1>4. QED BY <1>1, <1>2, <1>3 DEF ConsoleInv

LEMMA QuitCommandInv == ConsoleInv /\ QuitCommand => ConsoleInv'
  <1> SUFFICES ASSUME ConsoleInv, QuitCommand PROVE ConsoleInv' OBVIOUS
  <1>1. /\ Types /\ InLine
        /\ pc' = "quit" /\ UNCHANGED <<input, line, scan, argv, text, executed>>
    BY DEF ConsoleInv, QuitCommand
  <1>2. Types' BY <1>1, Still DEF Types
  <1>3. Embeds(Used', Read') BY <1>1, Still, InLineUsed
  <1>4. QED BY <1>1, <1>2, <1>3 DEF ConsoleInv

(* The buffer is cleared, and the words of the line are used.              *)
LEMMA RunCommandInv == ConsoleInv /\ RunCommand => ConsoleInv'
  <1> SUFFICES ASSUME ConsoleInv, RunCommand PROVE ConsoleInv' OBVIOUS
  <1>1. /\ Types /\ InLine
        /\ executed' = executed \/ executed' = Append(executed, Arguments)
        /\ line' = Cleared /\ pc' = "read" /\ UNCHANGED <<input, scan, argv, text>>
    BY DEF ConsoleInv, RunCommand
  <1>2. Arguments \in Seq(Seq(Letters)) /\ executed \in Seq(Seq(Seq(Letters)))
    BY <1>1 DEF InLine, Types
  <1>3. executed' \in Seq(Seq(Seq(Letters)))
    <2> DEFINE a == Arguments
               T == Seq(Seq(Letters))
    <2>1. a \in T /\ executed \in Seq(T) BY <1>2
    <2> HIDE DEF a, T
    <2>2. Append(executed, a) \in Seq(T) BY <2>1, AppendProperties
    <2>3. QED BY <1>1, <2>1, <2>2 DEF a, T
  <1>4. Consumed' = Consumed /\ Read' = Read BY <1>1 DEF Consumed, Read
  <1>5. /\ line' \in [1..LineSize -> Chars \cup {Nul}]
        /\ 1 \in 1..LineSize /\ line'[1] = Nul
    BY <1>1, ConstantsAre DEF Cleared
  <1>6. Types'
    <2>1. \A i \in 1..Len(input') : input'[i] = text'[Consumed' + i]
      BY <1>1, <1>4 DEF Types
    <2>2. \E i \in 1..LineSize : line'[i] = Nul BY <1>5
    <2>3. QED BY <1>1, <1>3, <1>5, <2>1, <2>2 DEF Types
  <1>7. Embeds(Used', Read')
    <2>1. CASE executed' = executed
      <3>1. Used' = Used BY <2>1 DEF Used
      <3>2. QED BY <1>1, <1>4, <3>1, InLineUsed
    <2>2. CASE executed' = Append(executed, Arguments)
      <3> DEFINE e == FlattenSeq(executed)
                 a == Arguments
      <3>1. e \in Seq(Seq(Letters)) /\ a \in Seq(Seq(Letters)) BY <1>1, <1>2, PartsTyped
      <3>2. FlattenSeq(executed') = e \o a BY <1>2, <2>2, FlattenAppend
      <3> HIDE DEF e, a
      <3>3. FlattenSeq(e \o a) = FlattenSeq(e) \o FlattenSeq(a) BY <3>1, FlattenConcat
      <3>4. Used' = Used \o Words BY <3>2, <3>3 DEF Used, Words, e, a
      <3>5. QED BY <1>1, <1>4, <3>4, InLineUsed
    <2>3. QED BY <1>1, <2>1, <2>2
  <1>8. Blank' BY <1>5, ConstantsAre DEF Blank
  <1>9. QED BY <1>1, <1>6, <1>7, <1>8 DEF ConsoleInv

LEMMA StutterInv == ConsoleInv /\ UNCHANGED vars => ConsoleInv'
  <1> SUFFICES ASSUME ConsoleInv, UNCHANGED vars PROVE ConsoleInv' OBVIOUS
  <1>1. /\ Types /\ UNCHANGED <<pc, input, line, scan, argv, text, executed>>
    BY DEF ConsoleInv, vars
  <1>2. Types' BY <1>1, Still DEF Types
  <1>3. InLine' = InLine /\ Blank' = Blank /\ Used' = Used /\ Read' = Read BY <1>1, Still
  <1>4. QED BY <1>1, <1>2, <1>3 DEF ConsoleInv

LEMMA Invariance == Spec => []ConsoleInv
  <1>1. ConsoleInv /\ [Next]_vars => ConsoleInv'
    BY GetLineInv, EndOfInputInv, NextTokenInv, NoMoreTokensInv, NothingEnteredInv,
       QuitCommandInv, RunCommandInv, StutterInv DEF Next
  <1>2. QED BY InitEstablishes, <1>1, PTL DEF Spec

(* Whatever the lines that are typed, the commands and arguments that are  *)
(* run come from what was read, in its order, and no character is used     *)
(* twice.                                                                  *)
THEOREM AlwaysUsedOnce == Spec => []UsedOnce
  <1>1. ConsoleInv => UsedOnce
    <2> SUFFICES ASSUME ConsoleInv PROVE UsedOnce OBVIOUS
    <2>1. Types BY DEF ConsoleInv
    <2>2. Embeds(Used, Read)
      <3>1. pc \in {"read", "quit"} \/ pc \in {"args", "command"} BY <2>1 DEF Types
      <3>2. QED BY <2>1, <3>1, InLineUsed DEF ConsoleInv
    <2>3. InOrder(Used, Read) BY <2>1, <2>2, PartsTyped, EmbedsInOrder
    <2>4. IsSuffix(input, text)
      <3> DEFINE n == Len(input)
                 k == Len(text)
      <3>1. /\ n \in Nat /\ k \in Nat /\ n <= k
            /\ \A i \in 1..n : input[i] = text[(k - n) + i]
        BY <2>1 DEF Types, Consumed
      <3> HIDE DEF n, k
      <3> DEFINE r == [i \in 1..n |-> input[(n - i) + 1]]
                 q == [i \in 1..k |-> text[(k - i) + 1]]
      <3>2. Reverse(input) = r /\ Reverse(text) = q BY DEF Reverse, n, k
      <3>3. ASSUME NEW i \in 1..n PROVE r[i] = q[i]
        <4>1. (n - i) + 1 \in 1..n /\ (k - n) + ((n - i) + 1) = (k - i) + 1 /\ i \in 1..k
          BY <3>1
        <4>2. input[(n - i) + 1] = text[(k - i) + 1] BY <3>1, <4>1
        <4>3. QED BY <4>1, <4>2
      <3>4. Len(r) = n /\ Len(q) = k BY <3>1
      <3> HIDE DEF r, q
      <3>5. SubSeq(r, 1, n) = SubSeq(q, 1, n)
        <4>1. SubSeq(r, 1, n) = [i \in 1..n |-> r[i]] BY <3>1
        <4>2. SubSeq(q, 1, n) = [i \in 1..n |-> q[i]] BY <3>1
        <4>3. QED BY <3>3, <4>1, <4>2
      <3>6. QED BY <3>1, <3>2, <3>4, <3>5 DEF IsSuffix, IsPrefix
    <2>5. TypeOK
      <3>1. Range(argv) \subseteq 1..LineSize BY <2>1, RangeOfSeq DEF Types
      <3>2. QED BY <2>1, <2>4, <3>1 DEF Types, TypeOK, Chars
    <2>6. QED BY <2>3, <2>5 DEF UsedOnce
  <1>2. QED BY Invariance, <1>1, PTL
----------------------------------------------------------------------------
(* Lines.  The text is read line by line, from one place where a line ends *)
(* to the next (IsLine), and each line adds its arguments to the lines     *)
(* read before (LineAdds).  What comes behind leaves those as they are     *)
(* (LinesExtend), so that the first q stays the first (QuitsThere).        *)

LineArgs == Seq(Seq(Chars))

LinesTo(t, k) == Lines(SubSeq(t, 1, k))

FirstFew(w) == SubSeq(w, 1, Min({Len(w), MaxArgs}))

EachLine(ps) == [i \in DOMAIN ps |-> ArgumentsOf(ps[i])]

LineEnds(t, c) == c \in 0..Len(t) /\ (c = 0 \/ c = Len(t) \/ t[c] = "newline")

IsLine(t, b, c) ==
  /\ b \in 0..c /\ LineEnds(t, b) /\ LineEnds(t, c)
  /\ \A i \in (b + 1)..(c - 1) : t[i] # "newline"

(* ms are ls and a line with the arguments args, or without any.           *)
Adds(ls, ms, args) == ms = Append(ls, args) \/ (ms = ls /\ args = << >>)

LEMMA FirstFewIs ==
  ASSUME NEW T, NEW w \in Seq(T)
  PROVE  /\ FirstFew(w) \in Seq(T)
         /\ Len(w) <= MaxArgs => FirstFew(w) = w
         /\ \A v \in Seq(T) : Extends(v, w) /\ Len(v) = MaxArgs => FirstFew(w) = v
  <1> DEFINE n == Len(w)
             m == Min({n, MaxArgs})
  <1>1. n \in Nat /\ MaxArgs \in Nat BY ConstantsAre
  <1>2. m = IF n <= MaxArgs THEN n ELSE MaxArgs
    <2> DEFINE k == IF n <= MaxArgs THEN n ELSE MaxArgs
    <2> HIDE DEF n
    <2>1. k \in {n, MaxArgs} /\ \A y \in {n, MaxArgs} : k <= y BY <1>1
    <2>2. m \in {n, MaxArgs} /\ \A y \in {n, MaxArgs} : m <= y BY <2>1 DEF Min
    <2> HIDE DEF m
    <2>3. QED BY <1>1, <2>2
  <1> HIDE DEF m
  <1>3. m \in 0..n /\ FirstFew(w) = SubSeq(w, 1, m) BY <1>1, <1>2 DEF FirstFew, m
  <1> DEFINE f == SubSeq(w, 1, m)
  <1>4. f \in Seq(T) /\ Len(f) = m /\ \A i \in 1..m : f[i] = w[i] BY <1>1, <1>3
  <1> HIDE DEF f
  <1>5. ASSUME n <= MaxArgs PROVE f = w
    <2>1. Len(f) = Len(w) /\ \A i \in 1..Len(f) : f[i] = w[i] BY <1>2, <1>4, <1>5
    <2>2. QED BY <1>4, <2>1, SeqEqual
  <1>6. ASSUME NEW v \in Seq(T), Extends(v, w), Len(v) = MaxArgs PROVE f = v
    <2>1. m = MaxArgs BY <1>1, <1>2, <1>6 DEF Extends
    <2>2. Len(f) = Len(v) /\ \A i \in 1..Len(f) : f[i] = v[i]
      BY <1>4, <1>6, <2>1 DEF Extends
    <2>3. QED BY <1>4, <1>6, <2>2, SeqEqual
  <1>7. QED BY <1>3, <1>4, <1>5, <1>6 DEF f

LEMMA ArgumentsAre ==
  ASSUME NEW l \in Seq(Chars)
  PROVE  ArgumentsOf(l) = FirstFew(Pieces(l, Delims)) /\ ArgumentsOf(l) \in LineArgs
  <1>1. Pieces(l, Delims) \in LineArgs
    <2>1. PICK f \in [0..Len(l) -> Seq(Seq(Chars))] : Pieces(l, Delims) = f[Len(l)]
      BY PiecesIs
    <2>2. Len(l) \in 0..Len(l) OBVIOUS
    <2>3. QED BY <2>1, <2>2 DEF LineArgs
  <1>2. ArgumentsOf(l) = FirstFew(Pieces(l, Delims)) BY DEF ArgumentsOf, FirstFew
  <1>3. QED BY <1>1, <1>2, FirstFewIs DEF LineArgs

LEMMA LinesAre ==
  ASSUME NEW t \in Seq(Chars), NEW k \in 0..Len(t)
  PROVE  /\ LinesTo(t, k) = EachLine(PiecesTo(t, 1, k, {"newline"}))
         /\ PiecesTo(t, 1, k, {"newline"}) \in Seq(Seq(Chars))
  <1>1. LinesTo(t, k) = EachLine(PiecesTo(t, 1, k, {"newline"}))
    BY DEF LinesTo, Lines, EachLine, PiecesTo
  <1>2. 1 \in 1..(Len(t) + 1) /\ k \in (1 - 1)..Len(t) OBVIOUS
  <1>3. QED BY <1>1, <1>2, PiecesToTyped

LEMMA EachLineIs ==
  ASSUME NEW ps \in Seq(Seq(Chars))
  PROVE  /\ EachLine(ps) \in Seq(LineArgs) /\ Len(EachLine(ps)) = Len(ps)
         /\ \A i \in 1..Len(ps) : EachLine(ps)[i] = ArgumentsOf(ps[i])
  <1> DEFINE n == Len(ps)
             e(i) == ArgumentsOf(ps[i])
             f == EachLine(ps)
  <1>1. n \in Nat /\ DOMAIN ps = 1..n /\ \A i \in 1..n : ps[i] \in Seq(Chars) OBVIOUS
  <1>2. \A i \in 1..n : e(i) \in LineArgs BY <1>1, ArgumentsAre
  <1>3. f = [i \in 1..n |-> e(i)] BY <1>1 DEF EachLine
  <1> HIDE DEF e, f, n
  <1>4. f \in Seq(LineArgs) /\ Len(f) = n BY <1>1, <1>2, <1>3
  <1>5. QED BY <1>3, <1>4 DEF e, f, n

(* One line more.                                                          *)
LEMMA EachLineAppend ==
  ASSUME NEW ps \in Seq(Seq(Chars)), NEW l \in Seq(Chars)
  PROVE  EachLine(Append(ps, l)) = Append(EachLine(ps), ArgumentsOf(l))
  <1> DEFINE qs == Append(ps, l)
             n == Len(ps)
             e == EachLine(ps)
             a == ArgumentsOf(l)
             f == EachLine(qs)
             g == Append(e, a)
  <1>1. /\ n \in Nat /\ qs \in Seq(Seq(Chars)) /\ Len(qs) = n + 1 /\ qs[n + 1] = l
        /\ \A i \in 1..n : qs[i] = ps[i]
    BY AppendProperties
  <1>2. /\ e \in Seq(LineArgs) /\ Len(e) = n /\ a \in LineArgs
        /\ \A i \in 1..n : e[i] = ArgumentsOf(ps[i])
    BY EachLineIs, ArgumentsAre
  <1> HIDE DEF qs, e, n
  <1>3. /\ f \in Seq(LineArgs) /\ Len(f) = n + 1
        /\ \A i \in 1..(n + 1) : f[i] = ArgumentsOf(qs[i])
    BY <1>1, EachLineIs
  <1>4. f[n + 1] = a /\ \A i \in 1..n : f[i] = e[i]
    <2>1. n + 1 \in 1..(n + 1) BY <1>1
    <2>2. \A i \in 1..n : i \in 1..(n + 1) BY <1>1
    <2>3. QED BY <1>1, <1>2, <1>3, <2>1, <2>2
  <1> HIDE DEF a, f
  <1>5. /\ g \in Seq(LineArgs) /\ Len(g) = n + 1 /\ g[n + 1] = a
        /\ \A i \in 1..n : g[i] = e[i]
    BY <1>2, AppendProperties
  <1> HIDE DEF g
  <1>6. \A i \in 1..(n + 1) : f[i] = g[i]
    <2> SUFFICES ASSUME NEW i \in 1..(n + 1) PROVE f[i] = g[i] OBVIOUS
    <2>1. i = n + 1 \/ i \in 1..n BY <1>1
    <2>2. QED BY <1>4, <1>5, <2>1
  <1>7. f = g BY <1>3, <1>5, <1>6, SeqEqual
  <1>8. QED BY <1>7 DEF f, g, qs, e, a

LEMMA LinesTyped ==
  ASSUME NEW t \in Seq(Chars), NEW k \in 0..Len(t)
  PROVE  LinesTo(t, k) \in Seq(LineArgs)
  BY LinesAre, EachLineIs

LEMMA LineAdds ==
  ASSUME NEW t \in Seq(Chars), NEW b, NEW c, IsLine(t, b, c)
  PROVE  Adds(LinesTo(t, b), LinesTo(t, c), ArgumentsOf(SubSeq(t, b + 1, c)))
  <1> DEFINE N == {"newline"}
             l == SubSeq(t, b + 1, c)
             P(k) == PiecesTo(t, 1, k, N)
  <1>1. /\ Len(t) \in Nat /\ b \in Nat /\ c \in Nat /\ b <= c /\ c <= Len(t)
        /\ b \in 0..Len(t) /\ c \in 0..Len(t)
    BY DEF IsLine, LineEnds
  <1>2. /\ LinesTo(t, b) = EachLine(P(b)) /\ LinesTo(t, c) = EachLine(P(c))
        /\ P(b) \in Seq(Seq(Chars)) /\ P(c) \in Seq(Seq(Chars))
    BY <1>1, LinesAre
  <1>3. Len(<< >>) <= MaxArgs /\ << >> \in LineArgs BY ConstantsAre DEF LineArgs
  <1>4. ASSUME Pieces(l, Delims) = << >> PROVE ArgumentsOf(l) = << >>
    <2>1. ArgumentsOf(l) = FirstFew(<< >>) BY <1>4 DEF ArgumentsOf, FirstFew
    <2>2. QED BY <1>3, <2>1, FirstFewIs DEF LineArgs
  <1>5. CASE b = c
    <2>1. l = << >> BY <1>1, <1>5
    <2>2. ArgumentsOf(l) = << >> BY <1>4, <2>1, PiecesEmpty
    <2>3. QED BY <1>5, <2>2 DEF Adds
  <1>6. CASE b < c
    <2>1. b + 1 = 1 \/ t[(b + 1) - 1] \in N BY <1>1, <1>6 DEF IsLine, LineEnds
    <2>2. \A i \in (b + 1)..(c - 1) : t[i] \notin N BY DEF IsLine
    <2>3. CASE t[c] \notin N
      <3>1. \A i \in (b + 1)..c : t[i] \notin N
        <4>1. \A i \in (b + 1)..c : i = c \/ i \in (b + 1)..(c - 1) BY <1>1
        <4>2. QED BY <2>2, <2>3, <4>1
      <3> HIDE DEF N
      <3>2. PiecesTo(t, 1, c, N) = Append(PiecesTo(t, 1, (b + 1) - 1, N), SubSeq(t, b + 1, c))
        <4>1. /\ 1 \in 1..Len(t) /\ b + 1 \in 1..Len(t) /\ c \in (b + 1)..Len(t)
          BY <1>1, <1>6
        <4>2. QED BY <2>1, <3>1, <4>1, PiecesWord
      <3>3. (b + 1) - 1 = b /\ l \in Seq(Chars) BY <1>1
      <3>4. P(c) = Append(P(b), l) BY <3>2, <3>3
      <3> HIDE DEF P, l
      <3>5. EachLine(P(c)) = Append(EachLine(P(b)), ArgumentsOf(l))
        BY <1>2, <3>3, <3>4, EachLineAppend
      <3>6. QED BY <1>2, <3>5 DEF Adds, l
    <2>4. CASE t[c] \in N /\ c = b + 1
      <3>1. P(c) = P(b)
        <4>1. /\ 1 \in 1..(Len(t) + 1) /\ c \in 1..(Len(t) + 1) /\ c \in (c - 1)..Len(t)
              /\ \A i \in c..c : t[i] \in N
          BY <1>1, <2>4
        <4> HIDE DEF N
        <4>2. PiecesTo(t, 1, c, N) = PiecesTo(t, 1, c - 1, N) BY <4>1, PiecesSkip
        <4>3. c - 1 = b BY <1>1, <2>4
        <4>4. QED BY <4>2, <4>3
      <3>2. Pieces(l, Delims) = << >>
        <4> DEFINE D == Delims
        <4>1. /\ c \in 1..(Len(t) + 1) /\ c \in c..(Len(t) + 1) /\ c \in (c - 1)..Len(t)
              /\ c - 1 \in (c - 1)..Len(t)
          BY <1>1, <1>6
        <4>2. \A i \in c..c : t[i] \in D BY <1>1, <2>4 DEF Delims
        <4> HIDE DEF D
        <4>3. PiecesTo(t, c, c, D) = PiecesTo(t, c, c - 1, D) BY <4>1, <4>2, PiecesSkip
        <4>4. PiecesTo(t, c, c - 1, D) = << >> BY <4>1, PiecesToTyped
        <4>5. QED BY <2>4, <4>3, <4>4 DEF PiecesTo, D
      <3>3. QED BY <1>2, <1>4, <3>1, <3>2 DEF Adds
    <2>5. CASE t[c] \in N /\ c # b + 1
      <3> DEFINE o == SubSeq(t, b + 1, c - 1)
      <3>1. /\ 1 \in 1..Len(t) /\ b + 1 \in 1..Len(t) /\ b + 1 \in (b + 1)..Len(t)
            /\ c - 1 \in (b + 1)..Len(t) /\ c \in (c - 1)..Len(t) /\ c = (c - 1) + 1
            /\ \A i \in (b + 1)..((b + 1) - 1) : t[i] \in N
        BY <1>1, <1>6, <2>5
      <3>2. P(c) = Append(P(b), o)
        <4> DEFINE s == b + 1
        <4>1. IsStep(t, N, 1, s, s, c - 1, c) /\ s - 1 = b
          BY <1>1, <2>1, <2>2, <2>5, <3>1 DEF IsStep
        <4> HIDE DEF N, s
        <4>2. PiecesTo(t, 1, c, N) = Append(PiecesTo(t, 1, s - 1, N), SubSeq(t, s, c - 1))
          BY <4>1, PiecesStep
        <4>3. QED BY <4>1, <4>2 DEF s
      <3>3. o \in Seq(Chars) BY <1>1
      <3>4. ArgumentsOf(l) = ArgumentsOf(o)
        <4> DEFINE D == Delims
                   a == b + 1
        <4>1. /\ a \in 1..(Len(t) + 1) /\ c \in a..(Len(t) + 1) /\ c \in (c - 1)..Len(t)
          BY <1>1, <1>6
        <4>2. \A i \in c..c : t[i] \in D BY <1>1, <2>5 DEF Delims
        <4> HIDE DEF D, a
        <4>3. PiecesTo(t, a, c, D) = PiecesTo(t, a, c - 1, D) BY <4>1, <4>2, PiecesSkip
        <4>4. Pieces(l, Delims) = Pieces(o, Delims) BY <4>3 DEF PiecesTo, D, a
        <4>5. QED BY <4>4 DEF ArgumentsOf
      <3> HIDE DEF P, o, l
      <3>5. EachLine(P(c)) = Append(EachLine(P(b)), ArgumentsOf(o))
        BY <1>2, <3>2, <3>3, EachLineAppend
      <3>6. QED BY <1>2, <3>4, <3>5 DEF Adds, l
    <2>6. QED BY <2>3, <2>4, <2>5
  <1>7. QED BY <1>1, <1>5, <1>6

LEMMA LinesExtend ==
  ASSUME NEW t \in Seq(Chars), NEW c, LineEnds(t, c)
  PROVE  Extends(LinesTo(t, c), LinesTo(t, Len(t)))
  <1> DEFINE N == {"newline"}
             n == Len(t)
             ps == PiecesTo(t, 1, c, N)
             qs == PiecesTo(t, 1, n, N)
  <1>1. n \in Nat /\ c \in 0..n /\ n \in 0..n BY DEF LineEnds
  <1>2. Extends(ps, qs)
    <2>1. CASE c = n
      <3>1. ps \in Seq(Seq(Chars)) /\ ps = qs BY <1>1, <2>1, LinesAre
      <3> HIDE DEF ps, qs
      <3>2. QED BY <3>1 DEF Extends
    <2>2. CASE c # n
      <3> DEFINE s == c + 1
      <3>1. s = 1 \/ t[s - 1] \in N BY <1>1, <2>2 DEF LineEnds
      <3>2. /\ 1 \in 1..(n + 1) /\ s \in 1..(n + 1) /\ n \in (s - 1)..n /\ s - 1 = c
        BY <1>1
      <3> HIDE DEF N, s
      <3>3. Extends(PiecesTo(t, 1, s - 1, N), PiecesTo(t, 1, Len(t), N))
        BY <3>1, <3>2, PiecesExtend
      <3>4. QED BY <3>2, <3>3
    <2>3. QED BY <2>1, <2>2
  <1>3. /\ LinesTo(t, c) = EachLine(ps) /\ LinesTo(t, n) = EachLine(qs)
        /\ ps \in Seq(Seq(Chars)) /\ qs \in Seq(Seq(Chars))
    BY <1>1, LinesAre
  <1> HIDE DEF ps, qs
  <1>4. /\ Len(EachLine(ps)) = Len(ps) /\ Len(EachLine(qs)) = Len(qs)
        /\ \A i \in 1..Len(ps) : EachLine(ps)[i] = ArgumentsOf(ps[i])
        /\ \A i \in 1..Len(qs) : EachLine(qs)[i] = ArgumentsOf(qs[i])
    BY <1>3, EachLineIs
  <1>5. Len(ps) \in Nat /\ Len(qs) \in Nat BY <1>3
  <1>6. Extends(EachLine(ps), EachLine(qs)) BY <1>2, <1>4, <1>5 DEF Extends
  <1>7. QED BY <1>3, <1>6 DEF n

(* What is run of lines, up to the first q.                                *)
Commands(all) ==
  LET upto == Min({i \in DOMAIN all : Quits(all[i])} \cup {Len(all) + 1}) - 1
  IN Dropping(SubSeq(all, 1, upto), PassedOver)

Going(all) == \A i \in DOMAIN all : ~Quits(all[i])

LEMMA SpelledIs ==
  ASSUME NEW s
  PROVE  Spelled(s) = Commands(Lines(s)) /\ (SpellsQuit(s) <=> ~Going(Lines(s)))
  BY DEF Spelled, Commands, SpellsQuit, Going

LEMMA CommandsAre ==
  ASSUME NEW all \in Seq(LineArgs), NEW k \in 1..(Len(all) + 1),
         k = Len(all) + 1 \/ Quits(all[k]), \A i \in 1..(k - 1) : ~Quits(all[i])
  PROVE  Commands(all) = Dropping(SubSeq(all, 1, k - 1), PassedOver)
  <1> DEFINE S == {i \in DOMAIN all : Quits(all[i])} \cup {Len(all) + 1}
  <1>1. Len(all) \in Nat /\ DOMAIN all = 1..Len(all) OBVIOUS
  <1>2. k \in S
    <2>1. k = Len(all) + 1 \/ (k \in 1..Len(all) /\ Quits(all[k])) BY <1>1
    <2>2. QED BY <1>1, <2>1
  <1>3. \A y \in S : y \in Nat /\ k <= y
    <2> SUFFICES ASSUME NEW y \in S PROVE y \in Nat /\ k <= y OBVIOUS
    <2>1. y = Len(all) + 1 \/ (y \in 1..Len(all) /\ Quits(all[y])) BY <1>1
    <2>2. QED BY <1>1, <2>1
  <1> HIDE DEF S
  <1>4. Min(S) = k
    <2>1. Min(S) \in S /\ \A y \in S : Min(S) <= y BY <1>2, <1>3 DEF Min
    <2> DEFINE m == Min(S)
    <2> HIDE DEF m
    <2>2. m <= k /\ k <= m /\ m \in Nat BY <1>2, <1>3, <2>1 DEF m
    <2>3. QED BY <2>2 DEF m
  <1>5. Commands(all) = Dropping(SubSeq(all, 1, Min(S) - 1), PassedOver)
    BY Zenon DEF Commands, S
  <1>6. QED BY <1>4, <1>5

LEMMA CommandsGoing ==
  ASSUME NEW all \in Seq(LineArgs), Going(all)
  PROVE  Commands(all) = Dropping(all, PassedOver)
  <1> DEFINE n == Len(all)
  <1>1. n \in Nat /\ DOMAIN all = 1..n OBVIOUS
  <1>2. SubSeq(all, 1, n) = all
    <2> DEFINE s == SubSeq(all, 1, n)
    <2>1. s \in Seq(LineArgs) /\ Len(s) = n /\ \A i \in 1..n : s[i] = all[i] BY <1>1
    <2> HIDE DEF s
    <2>2. s = all BY <2>1, SeqEqual
    <2>3. QED BY <2>2 DEF s
  <1>3. n + 1 \in 1..(n + 1) /\ (n + 1) - 1 = n /\ \A i \in 1..((n + 1) - 1) : ~Quits(all[i])
    BY <1>1 DEF Going
  <1> DEFINE k == n + 1
  <1>4. k \in 1..(Len(all) + 1) /\ k = Len(all) + 1 /\ \A i \in 1..(k - 1) : ~Quits(all[i])
    BY <1>3
  <1> HIDE DEF k
  <1>5. Commands(all) = Dropping(SubSeq(all, 1, k - 1), PassedOver) BY <1>4, CommandsAre
  <1>6. QED BY <1>2, <1>3, <1>5 DEF k

(* Nothing is done for a line without a command.                           *)
LEMMA IsPassedOver ==
  ASSUME NEW args \in Seq(Seq(Letters))
  PROVE  args \in PassedOver <=>
           args = << >> \/ [cmd |-> args[1], proc |-> FALSE] \in Range(Table)
  BY DEF PassedOver

(* A line that is not a q adds its command, if it has one.                 *)
LEMMA RunsOn ==
  ASSUME NEW ls \in Seq(LineArgs), Going(ls), NEW args \in LineArgs, ~Quits(args),
         NEW ms, Adds(ls, ms, args)
  PROVE  /\ Going(ms)
         /\ args \in PassedOver => Commands(ms) = Commands(ls)
         /\ args \notin PassedOver => Commands(ms) = Append(Commands(ls), args)
  <1>1. CASE ms = ls /\ args = << >>
    <2>1. args \in Seq(Seq(Letters)) BY <1>1
    <2>2. args \in PassedOver BY <1>1, <2>1, IsPassedOver
    <2>3. QED BY <1>1, <2>2
  <1>2. CASE ms = Append(ls, args)
    <2> DEFINE n == Len(ls)
    <2>1. /\ n \in Nat /\ DOMAIN ls = 1..n
          /\ ms \in Seq(LineArgs) /\ Len(ms) = n + 1 /\ ms[n + 1] = args
          /\ DOMAIN ms = 1..(n + 1)
          /\ \A i \in 1..n : ms[i] = ls[i]
      BY <1>2, AppendProperties
    <2>2. Going(ms)
      <3> SUFFICES ASSUME NEW i \in 1..(n + 1) PROVE ~Quits(ms[i]) BY <2>1 DEF Going
      <3>1. i = n + 1 \/ i \in 1..n BY <2>1
      <3>2. QED BY <2>1, <3>1 DEF Going
    <2>3. Commands(ms) = Dropping(ms, PassedOver) /\ Commands(ls) = Dropping(ls, PassedOver)
      BY <2>1, <2>2, CommandsGoing
    <2>4. Dropping(ms, PassedOver) =
            IF args \in PassedOver THEN Dropping(ls, PassedOver)
            ELSE Append(Dropping(ls, PassedOver), args)
      BY <1>2, DroppingAppend
    <2>5. QED BY <2>2, <2>3, <2>4
  <1>3. QED BY <1>1, <1>2 DEF Adds

(* Behind a line that is a q nothing is run, whatever all comes there.     *)
LEMMA QuitsThere ==
  ASSUME NEW ls \in Seq(LineArgs), Going(ls), NEW args \in LineArgs, Quits(args),
         NEW ms, Adds(ls, ms, args), NEW all \in Seq(LineArgs), Extends(ms, all)
  PROVE  ~Going(all) /\ Commands(all) = Commands(ls)
  <1> DEFINE n == Len(ls)
             k == n + 1
  <1>1. ms = Append(ls, args) BY DEF Adds, Quits
  <1>2. /\ n \in Nat /\ DOMAIN ls = 1..n
        /\ ms \in Seq(LineArgs) /\ Len(ms) = n + 1 /\ ms[n + 1] = args
        /\ \A i \in 1..n : ms[i] = ls[i]
    BY <1>1, AppendProperties
  <1>3. /\ Len(all) \in Nat /\ DOMAIN all = 1..Len(all) /\ n + 1 <= Len(all)
        /\ all[n + 1] = args /\ \A i \in 1..n : all[i] = ls[i]
    BY <1>2 DEF Extends
  <1>4. ~Going(all) BY <1>2, <1>3 DEF Going
  <1>5. /\ k \in 1..(Len(all) + 1) /\ Quits(all[k]) /\ k - 1 = n
        /\ \A i \in 1..(k - 1) : ~Quits(all[i])
    BY <1>2, <1>3 DEF Going
  <1> HIDE DEF k
  <1>6. Commands(all) = Dropping(SubSeq(all, 1, k - 1), PassedOver) BY <1>5, CommandsAre
  <1>7. SubSeq(all, 1, n) = ls
    <2> DEFINE s == SubSeq(all, 1, n)
    <2>1. s \in Seq(LineArgs) /\ Len(s) = n /\ \A i \in 1..n : s[i] = ls[i]
      BY <1>2, <1>3
    <2> HIDE DEF s
    <2>2. s = ls BY <2>1, SeqEqual
    <2>3. QED BY <2>2 DEF s
  <1>8. QED BY <1>4, <1>5, <1>6, <1>7, CommandsGoing

(* What was run is what the text up to k spells, and no q is among it.     *)
SpelledTo(k) == executed = Commands(LinesTo(text, k)) /\ Going(LinesTo(text, k))

(* The line holds the text behind b up to its end at m, and the arguments  *)
(* are the words before scan, which is where one may begin.                *)
InText(b, m) ==
  /\ m \in scan..LineSize /\ line[m] = Nul
  /\ \A i \in scan..(m - 1) : line[i] = text[b + i]
  /\ scan = 1 \/ scan = m \/ text[b + scan - 1] \in Delims
  /\ Arguments = PiecesTo(text, b + 1, b + scan - 1, Delims)

(* The line in work is that from b on.  At the end of the text it is none. *)
AtLine(b) == IsLine(text, b, Consumed) /\ SpelledTo(b)

Cutting(b) ==
  /\ AtLine(b)
  /\ b = Consumed => argv = << >> /\ scan = 1 /\ Blank
  /\ b < Consumed => InText(b, Consumed - b + 1)

Entered(b) == AtLine(b) /\ Arguments = ArgumentsOf(SubSeq(text, b + 1, Consumed))

LineInv ==
  /\ pc = "read" => LineEnds(text, Consumed) /\ SpelledTo(Consumed)
  /\ pc = "args" => \E b \in Nat : Cutting(b)
  /\ pc = "command" => \E b \in Nat : Entered(b)
  /\ pc = "quit" => executed = Spelled(text) /\ SpellsQuit(text)

(* Of a line that fits fgets reads all.                                    *)
LEMMA WholeLine ==
  ASSUME Types, Fits(text), LineEnds(text, Consumed), GetLine,
         NEW n \in 1..Len(input), Gets(n), NEW c \in Nat, c = Consumed
  PROVE  IsLine(text, c, c + n)
  <1>1. Consumed' = c + n /\ Len(text) = c + Len(input) BY LineRead
  <1>2. /\ LineSize \in Nat /\ LineSize > 1 /\ Len(text) \in Nat /\ Len(input) \in Nat
        /\ n \in Nat /\ DOMAIN text = 1..Len(text)
        /\ \A i \in 1..Len(input) : input[i] = text[c + i]
    BY ConstantsAre DEF Types
  <1>3. ASSUME NEW i \in (c + 1)..(c + n - 1) PROVE text[i] # "newline"
    <2>1. i - c \in 1..(n - 1) /\ i - c \in 1..Len(input) /\ c + (i - c) = i BY <1>2
    <2>2. input[i - c] # "newline" /\ input[i - c] = text[c + (i - c)] BY <1>2, <2>1 DEF Gets
    <2>3. QED BY <2>1, <2>2
  <1>4. c + n \in 0..Len(text) BY <1>1, <1>2
  <1>5. c + n = Len(text) \/ text[c + n] = "newline"
    <2>1. CASE n = Len(input) BY <1>1, <2>1
    <2>2. CASE input[n] = "newline" BY <1>2, <2>2
    <2>3. CASE n = LineSize - 1 /\ c + n # Len(text)
      <3>1. c + 1 \in DOMAIN text /\ (c + 1) + LineSize - 1 \in DOMAIN text
        <4>1. (c + 1) + LineSize - 1 = c + n + 1 BY <1>2, <2>3
        <4>2. c + n + 1 <= Len(text) BY <1>2, <1>4, <2>3, SMTT(60)
        <4>3. QED BY <1>2, <4>1, <4>2
      <3>2. PICK k \in (c + 1)..((c + 1) + LineSize - 2) : text[k] = "newline"
        BY <3>1 DEF Fits
      <3>3. k = c + n \/ k \in (c + 1)..(c + n - 1) BY <1>2, <2>3
      <3>4. QED BY <1>3, <3>2, <3>3
    <2>4. QED BY <2>1, <2>2, <2>3 DEF Gets
  <1>6. LineEnds(text, c) OBVIOUS
  <1>7. LineEnds(text, c + n) BY <1>4, <1>5 DEF LineEnds
  <1>8. c \in 0..(c + n) BY <1>2
  <1>9. QED BY <1>3, <1>6, <1>7, <1>8 DEF IsLine

LEMMA GetLineLine ==
  ASSUME ConsoleInv, Fits(text), LineInv, GetLine
  PROVE  LineInv'
  <1>1. /\ Types /\ LineEnds(text, Consumed) /\ SpelledTo(Consumed)
        /\ pc' = "args" /\ scan' = 1 /\ argv' = << >>
        /\ text' = text /\ executed' = executed
    BY DEF ConsoleInv, LineInv, GetLine
  <1>2. PICK n \in 1..Len(input) : Gets(n) BY <1>1, GetLineGets
  <1>3. Consumed \in Nat /\ Len(input) \in Nat BY <1>1, PartsTyped DEF Types
  <1>4. PICK c \in Nat : c = Consumed
    <2> HIDE DEF Consumed
    <2>1. QED BY <1>3
  <1>5. /\ Consumed' = c + n /\ Len(text) = c + Len(input)
        /\ n + 1 \in 1..LineSize /\ line'[n + 1] = Nul
        /\ \A i \in 1..n : line'[i] = text[c + i]
    BY <1>1, <1>2, <1>4, LineRead
  <1>6. IsLine(text, c, c + n) BY <1>1, <1>2, <1>4, WholeLine
  <1>7. AtLine(c)'
    <2>1. SpelledTo(c)' BY <1>1, <1>4 DEF SpelledTo
    <2>2. QED BY <1>1, <1>5, <1>6, <2>1 DEF AtLine
  <1>8. Arguments' = PiecesTo(text, c + 1, c + 1 - 1, Delims)
    <2>1. Arguments' = << >> BY <1>1 DEF Arguments
    <2> DEFINE a == c + 1
               D == Delims
    <2>2. a \in 1..(Len(text) + 1) /\ a - 1 \in (a - 1)..Len(text) /\ text \in Seq(Chars)
      BY <1>1, <1>2, <1>3, <1>5 DEF Types
    <2> HIDE DEF a, D
    <2>3. PiecesTo(text, a, a - 1, D) = << >> BY <2>2, PiecesToTyped
    <2>4. QED BY <2>1, <2>3 DEF a, D
  <1>9. InText(c, n + 1)'
    <2>1. n + 1 \in scan'..LineSize /\ (n + 1) - 1 = n BY <1>1, <1>3, <1>5
    <2>2. \A i \in scan'..((n + 1) - 1) : line'[i] = text'[c + i] BY <1>1, <1>5, <2>1
    <2>3. Arguments' = PiecesTo(text', c + 1, c + scan' - 1, Delims) BY <1>1, <1>8
    <2>4. QED BY <1>1, <1>5, <2>1, <2>2, <2>3 DEF InText
  <1>10. Cutting(c)'
    <2>1. Consumed' # c /\ Consumed' - c + 1 = n + 1 BY <1>3, <1>5
    <2>2. QED BY <1>7, <1>9, <2>1 DEF Cutting
  <1>11. QED BY <1>1, <1>10 DEF LineInv

LEMMA EndOfInputLine ==
  ASSUME ConsoleInv, LineInv, EndOfInput
  PROVE  LineInv'
  <1>1. /\ Types /\ Blank /\ LineEnds(text, Consumed) /\ SpelledTo(Consumed)
        /\ pc' = "args" /\ scan' = 1 /\ argv' = << >>
        /\ UNCHANGED <<input, line, text, executed>>
    BY DEF ConsoleInv, LineInv, EndOfInput
  <1>2. Consumed \in Nat BY <1>1, PartsTyped
  <1>3. PICK c \in Nat : c = Consumed
    <2> HIDE DEF Consumed
    <2>1. QED BY <1>2
  <1>4. Consumed' = c /\ Blank' BY <1>1, <1>3, Still
  <1>5. IsLine(text, c, c)
    <2>1. c \in 0..c /\ \A i \in (c + 1)..(c - 1) : text[i] # "newline" OBVIOUS
    <2>2. QED BY <1>1, <1>3, <2>1 DEF IsLine
  <1>6. AtLine(c)'
    <2>1. SpelledTo(c)' BY <1>1, <1>3 DEF SpelledTo
    <2>2. QED BY <1>1, <1>4, <1>5, <2>1 DEF AtLine
  <1>7. Cutting(c)' BY <1>1, <1>4, <1>6 DEF Cutting
  <1>8. QED BY <1>1, <1>7 DEF LineInv

(* A line that is none has no token.                                       *)
LEMMA NoTokenInBlank ==
  ASSUME Types, Blank, scan = 1
  PROVE  ~NextToken
  <1> SUFFICES ASSUME NextToken PROVE FALSE OBVIOUS
  <1>1. PICK m \in 1..LineSize : line[m] = Nul /\ \A i \in 1..(m - 1) : line[i] \notin Letters
    BY DEF Blank
  <1>2. m \in scan..LineSize BY <1>1
  <1>3. PICK p \in scan..(m - 1) : \E q \in (p + 1)..m : Token(p, q) BY <1>1, <1>2, TokenIs
  <1>4. PICK q \in (p + 1)..m : Token(p, q) BY <1>3
  <1>5. p \in p..(q - 1) /\ p \in 1..(m - 1) BY <1>3, <1>4
  <1>6. QED BY <1>1, <1>4, <1>5 DEF Token

LEMMA NextTokenLine ==
  ASSUME ConsoleInv, LineInv, NextToken
  PROVE  LineInv'
  <1>1. /\ Types /\ Cut /\ Arguments \in Seq(Seq(Letters))
        /\ UNCHANGED <<input, text, executed>> /\ text \in Seq(Chars)
    BY DEF ConsoleInv, InLine, NextToken, Types
  <1>2. PICK b \in Nat : Cutting(b) BY DEF LineInv, NextToken
  <1>3. Consumed \in Nat /\ Consumed' = Consumed /\ Len(text) \in Nat /\ Consumed <= Len(text)
    BY <1>1, PartsTyped DEF Consumed
  <1>4. PICK c \in Nat : c = Consumed
    <2> HIDE DEF Consumed
    <2>1. QED BY <1>3
  <1>5. b <= c /\ IsLine(text, b, c) /\ SpelledTo(b)
    BY <1>2, <1>4 DEF Cutting, AtLine, IsLine
  <1>6. b < c
    <2>1. b # c BY <1>1, <1>2, <1>4, NoTokenInBlank DEF Cutting
    <2>2. QED BY <1>5, <2>1
  <1> DEFINE m == c - b + 1
             t == text
             D == Delims
             a == b + 1
             s == b + scan
  <1>7. InText(b, m) BY <1>2, <1>4, <1>6 DEF Cutting
  <1>8. /\ m \in scan..LineSize /\ line[m] = Nul /\ m \in Nat /\ b + (m - 1) = c
        /\ \A i \in scan..(m - 1) : line[i] = t[b + i]
        /\ scan = 1 \/ scan = m \/ t[s - 1] \in D
        /\ Arguments = PiecesTo(t, a, s - 1, D)
    <2>1. m \in Nat /\ b + (m - 1) = c BY <1>2, <1>4, <1>6
    <2> HIDE DEF m
    <2>2. /\ m \in scan..LineSize /\ line[m] = Nul
          /\ \A i \in scan..(m - 1) : line[i] = text[b + i]
          /\ scan = 1 \/ scan = m \/ text[b + scan - 1] \in Delims
          /\ Arguments = PiecesTo(text, b + 1, b + scan - 1, Delims)
      BY <1>7 DEF InText
    <2>3. scan \in Nat BY <1>1, ConstantsAre DEF Types
    <2>4. b + scan - 1 = s - 1 BY <2>3
    <2>5. QED BY <2>1, <2>2, <2>4, Zenon
  <1>9. scan \in Nat /\ scan >= 1 /\ LineSize \in Nat /\ scan <= LineSize /\ m <= LineSize
    BY <1>1, <1>8, ConstantsAre DEF Types
  <1> HIDE DEF m
  <1>10. PICK p \in scan..(m - 1) : \E q \in (p + 1)..m : Token(p, q) BY <1>1, <1>8, TokenIs
  <1>11. PICK q \in (p + 1)..m : Token(p, q) BY <1>10
  <1>12. /\ p \in Nat /\ q \in Nat /\ scan <= p /\ p < q /\ q <= m
         /\ scan' \in q..m
         /\ \A i \in 1..LineSize : i # q => line'[i] = line[i]
         /\ argv' # argv => Len(argv) < MaxArgs /\ pc' = "args"
         /\ argv' = argv => argv # << >> /\ Len(argv) = MaxArgs /\ pc' = "command"
    BY <1>1, <1>8, <1>11, TokenTyped, SMTT(60)
  <1>13. /\ SubSeq(line', p, q - 1) \in Seq(Letters)
         /\ argv' = argv => Arguments' = Arguments
         /\ argv' # argv => Arguments' = Append(Arguments, SubSeq(line', p, q - 1))
    BY <1>1, <1>8, <1>11, ArgumentFound
  <1>14. AtLine(b)'
    <2>1. SpelledTo(b)' BY <1>1, <1>5 DEF SpelledTo
    <2>2. QED BY <1>1, <1>3, <1>4, <1>5, <2>1 DEF AtLine
  <1>15. a \in 1..Len(t) /\ s \in a..Len(t) /\ s - 1 <= c /\ (s = a \/ t[s - 1] \in D)
    <2>1. scan < m /\ b + scan <= c BY <1>8, <1>9, <1>12
    <2>2. QED BY <1>3, <1>4, <1>6, <1>8, <1>9, <2>1
  <1>16. CASE argv' = argv
    <2> DEFINE v == Arguments
               w == PiecesTo(t, a, c, D)
    <2>1. Len(v) = MaxArgs
      <3>1. Len(argv) \in Nat /\ DOMAIN argv = 1..Len(argv) BY <1>1 DEF Types
      <3>2. Len(v) = Len(argv) BY <3>1 DEF Arguments
      <3>3. QED BY <1>12, <1>16, <3>2
    <2>2. Extends(PiecesTo(t, a, s - 1, D), w)
      <3>1. a \in 1..(Len(t) + 1) /\ s \in a..(Len(t) + 1) /\ c \in (s - 1)..Len(t) /\ t \in Seq(Chars)
        BY <1>1, <1>3, <1>4, <1>9, <1>15
      <3> HIDE DEF t, a, s, D
      <3>2. QED BY <1>15, <3>1, PiecesExtend
    <2>3. w \in Seq(Seq(Chars))
      <3>1. a \in 1..(Len(t) + 1) /\ c \in (a - 1)..Len(t) /\ t \in Seq(Chars)
        BY <1>1, <1>3, <1>4, <1>5, <1>15
      <3> HIDE DEF t, a, D
      <3>2. QED BY <3>1, PiecesToTyped
    <2>4. v \in Seq(Seq(Chars))
      <3>1. PiecesTo(t, a, s - 1, D) \in Seq(Seq(Chars))
        <4> DEFINE k == s - 1
        <4>1. a \in 1..(Len(t) + 1) /\ k \in (a - 1)..Len(t) /\ t \in Seq(Chars)
          BY <1>1, <1>3, <1>9, <1>15
        <4> HIDE DEF t, a, D, k
        <4>2. PiecesTo(t, a, k, D) \in Seq(Seq(Chars)) BY <4>1, PiecesToTyped
        <4>3. QED BY <4>2 DEF k
      <3>2. QED BY <1>8, <3>1
    <2>5. FirstFew(w) = v
      <3>1. Extends(v, w) BY <1>8, <2>2
      <3> HIDE DEF v, w
      <3>2. QED BY <2>1, <2>3, <2>4, <3>1, FirstFewIs
    <2>6. ArgumentsOf(SubSeq(text, b + 1, c)) = FirstFew(w)
      BY DEF ArgumentsOf, FirstFew, PiecesTo
    <2>7. Arguments' = ArgumentsOf(SubSeq(text', b + 1, Consumed'))
      BY <1>1, <1>3, <1>4, <1>13, <1>16, <2>5, <2>6
    <2>8. Entered(b)' BY <1>14, <2>7 DEF Entered
    <2>9. QED BY <1>12, <1>16, <2>8 DEF LineInv
  <1>17. CASE argv' # argv
    <2> DEFINE e == b + (q - 1)
               r == b + scan' - 1
    <2>1. /\ \A i \in scan..(p - 1) : t[b + i] \in D
          /\ \A i \in p..(q - 1) : line'[i] \in Letters /\ line'[i] = t[b + i] /\ t[b + i] \in Letters
      <3>1. ASSUME NEW i \in scan..(p - 1) PROVE t[b + i] \in D
        <4>1. i \in scan..(m - 1) BY <1>8, <1>9, <1>12
        <4>2. QED BY <1>8, <1>11, <4>1 DEF Token
      <3>2. ASSUME NEW i \in p..(q - 1)
            PROVE  line'[i] \in Letters /\ line'[i] = t[b + i] /\ t[b + i] \in Letters
        <4>1. i \in scan..(m - 1) /\ i \in 1..LineSize /\ i # q BY <1>8, <1>9, <1>12
        <4>2. line[i] = t[b + i] /\ line'[i] = line[i] BY <1>8, <1>12, <4>1
        <4>3. line[i] \in Letters BY <1>11 DEF Token
        <4>4. QED BY <4>2, <4>3
      <3>3. QED BY <3>1, <3>2
    <2>2. r = e \/ (r = e + 1 /\ t[r] \in D)
      <3>1. CASE line[q] = Nul
        <4>1. scan' = q BY <1>11, <3>1 DEF Token
        <4>2. QED BY <1>12, <4>1
      <3>2. CASE line[q] # Nul
        <4>1. scan' = q + 1 /\ line[q] \in D BY <1>11, <3>2 DEF Token
        <4>2. q # m /\ q \in scan..(m - 1) BY <1>8, <1>9, <1>12, <3>2
        <4>3. line[q] = t[b + q] BY <1>8, <4>2
        <4>4. r = b + q /\ e + 1 = b + q BY <1>12, <4>1
        <4>5. QED BY <4>1, <4>3, <4>4
      <3>3. QED BY <3>1, <3>2
    <2>3. /\ b + p \in s..Len(t) /\ e \in (b + p)..Len(t) /\ r \in e..Len(t)
      <3>1. b + (m - 1) <= Len(t) /\ b + (m - 1) = c BY <1>3, <1>4, <1>8
      <3>2. q - 1 <= m - 1 BY <1>8, <1>12
      <3>3. e <= c /\ b + p <= e /\ s <= b + p /\ e \in Nat /\ b + p \in Nat
        BY <1>8, <1>9, <1>12, <3>1, <3>2
      <3>4. r <= c
        <4> DEFINE k == scan'
        <4>1. r = b + k - 1 /\ k \in q..m BY <1>12
        <4>2. m \in Nat /\ q \in Nat /\ b \in Nat BY <1>8, <1>12
        <4> HIDE DEF k, r
        <4>3. QED BY <3>1, <4>1, <4>2
      <3>5. r \in Nat /\ r >= e BY <2>2, <3>3
      <3>6. QED BY <1>3, <1>4, <1>15, <3>3, <3>4, <3>5
    <2>4. IsStep(t, D, a, s, b + p, e, r)
      <3>1. \A i \in s..((b + p) - 1) : t[i] \in D
        <4> SUFFICES ASSUME NEW i \in s..((b + p) - 1) PROVE t[i] \in D OBVIOUS
        <4>1. i - b \in scan..(p - 1) /\ b + (i - b) = i BY <1>9, <1>12
        <4>2. QED BY <2>1, <4>1
      <3>2. \A i \in (b + p)..e : t[i] \notin D
        <4> SUFFICES ASSUME NEW i \in (b + p)..e PROVE t[i] \notin D OBVIOUS
        <4>1. i - b \in p..(q - 1) /\ b + (i - b) = i BY <1>12
        <4>2. t[i] \in Letters BY <2>1, <4>1
        <4>3. QED BY <4>2, ConstantsAre
      <3> HIDE DEF t, D, a, s, e, r
      <3>3. QED BY <1>15, <2>2, <2>3, <3>1, <3>2 DEF IsStep
    <2>5. PiecesTo(t, a, r, D) = Append(PiecesTo(t, a, s - 1, D), SubSeq(t, b + p, e))
      <3> DEFINE x == b + p
      <3>1. t \in Seq(Chars) BY <1>1
      <3>2. IsStep(t, D, a, s, x, e, r) BY <2>4
      <3> HIDE DEF t, D, a, s, e, r, x
      <3>3. PiecesTo(t, a, r, D) = Append(PiecesTo(t, a, s - 1, D), SubSeq(t, x, e))
        BY <3>1, <3>2, PiecesStep
      <3>4. QED BY <3>3 DEF x
    <2>6. SubSeq(line', p, q - 1) = SubSeq(t, b + p, e)
      <3> DEFINE l == line'
                 k == q - 1
      <3>1. k \in Nat /\ p <= k /\ p \in Nat BY <1>12
      <3>2. \A i \in p..k : l[i] \in Letters /\ l[i] = t[b + i] BY <2>1
      <3> HIDE DEF l, t, k
      <3>3. SubSeq(l, p, k) = SubSeq(t, b + p, b + k) BY <3>1, <3>2, SameWord
      <3>4. QED BY <3>3 DEF l, k, e
    <2>7. Arguments' = PiecesTo(text', b + 1, b + scan' - 1, Delims)
      <3>1. Arguments' = Append(PiecesTo(t, a, s - 1, D), SubSeq(t, b + p, e))
        BY <1>8, <1>13, <1>17, <2>6
      <3>2. QED BY <1>1, <2>5, <3>1
    <2>8. InText(b, m)'
      <3>1. m \in scan'..LineSize BY <1>8, <1>9, <1>12
      <3>2. line'[m] = Nul
        <4>1. CASE q = m BY <1>1, <1>8, <1>11, <4>1, TokenTyped
        <4>2. CASE q # m
          <5>1. m \in 1..LineSize BY <1>8, <1>9
          <5>2. QED BY <1>8, <1>12, <4>2, <5>1
        <4>3. QED BY <4>1, <4>2
      <3>3. ASSUME NEW i \in scan'..(m - 1) PROVE line'[i] = text'[b + i]
        <4>1. scan' \in Nat /\ scan' >= q BY <1>8, <1>12
        <4>2. i # q
          <5>1. CASE line[q] = Nul
            <6>1. q # m => q \in scan..(m - 1) BY <1>8, <1>9, <1>12
            <6>2. q = m
              <7>1. ASSUME q # m PROVE FALSE
                <8>1. line[q] = t[b + q] BY <1>8, <6>1, <7>1
                <8>2. b + q \in 1..Len(t)
                  BY <1>3, <1>4, <1>8, <1>12, <7>1
                <8>3. t[b + q] \in Chars BY <1>1, <8>2
                <8>4. QED BY <5>1, <8>1, <8>3, ConstantsAre
              <7>2. QED BY <7>1
            <6>3. QED BY <1>8, <4>1, <6>2
          <5>2. CASE line[q] # Nul
            <6>1. scan' = q + 1 BY <1>11, <5>2 DEF Token
            <6>2. QED BY <1>12, <6>1
          <5>3. QED BY <5>1, <5>2
        <4>3. i \in scan..(m - 1) /\ i \in 1..LineSize BY <1>8, <1>9, <1>12, <4>1
        <4>4. line[i] = t[b + i] /\ line'[i] = line[i] BY <1>8, <1>12, <4>2, <4>3
        <4>5. QED BY <1>1, <4>4
      <3>4. scan' = m \/ text'[b + scan' - 1] \in Delims
        <4>1. CASE r = e
          <5>1. scan' = q /\ line[q] = Nul
            <6>1. scan' = q BY <1>12, <4>1
            <6>2. line[q] # Nul => scan' = q + 1 BY <1>11 DEF Token
            <6>3. QED BY <1>12, <6>1, <6>2
          <5>2. ASSUME q # m PROVE FALSE
            <6>1. q \in scan..(m - 1) BY <1>8, <1>9, <1>12, <5>2
            <6>2. line[q] = t[b + q] BY <1>8, <6>1
            <6>3. b + q \in 1..Len(t) BY <1>3, <1>4, <1>8, <1>12, <5>2
            <6>4. t[b + q] \in Chars BY <1>1, <6>3
            <6>5. QED BY <5>1, <6>2, <6>4, ConstantsAre
          <5>3. QED BY <5>1, <5>2
        <4>2. CASE r = e + 1 /\ t[r] \in D BY <1>1, <4>2
        <4>3. QED BY <2>2, <4>1, <4>2
      <3>5. QED BY <2>7, <3>1, <3>2, <3>3, <3>4 DEF InText
    <2>9. Cutting(b)'
      <3>1. Consumed' = c /\ c # b /\ c - b + 1 = m BY <1>3, <1>4, <1>6 DEF m
      <3>2. QED BY <1>14, <2>8, <3>1 DEF Cutting
    <2>10. QED BY <1>12, <1>17, <2>9 DEF LineInv
  <1>18. QED BY <1>16, <1>17

(* What is behind the last word begins no other.                           *)
LEMMA NoMoreTokensLine ==
  ASSUME ConsoleInv, LineInv, NoMoreTokens
  PROVE  LineInv'
  <1>1. /\ Types /\ InLine /\ line[TokenAt] = Nul /\ text \in Seq(Chars)
        /\ pc' = "command" /\ UNCHANGED <<input, line, scan, argv, text, executed>>
    BY DEF ConsoleInv, NoMoreTokens, Types
  <1>2. PICK b \in Nat : Cutting(b) BY DEF LineInv, NoMoreTokens
  <1>3. Consumed \in Nat /\ Len(text) \in Nat /\ Consumed <= Len(text) BY <1>1, PartsTyped
  <1>4. PICK c \in Nat : c = Consumed
    <2> HIDE DEF Consumed
    <2>1. QED BY <1>3
  <1>5. b <= c /\ AtLine(b) BY <1>2, <1>4 DEF Cutting, AtLine, IsLine
  <1>6. Consumed' = c /\ AtLine(b)'
    <2>1. Consumed' = c BY <1>1, <1>4 DEF Consumed
    <2>2. QED BY <1>1, <1>4, <1>5, <2>1 DEF AtLine, SpelledTo
  <1>7. Arguments' = Arguments BY <1>1 DEF Arguments, StringAt, NextOf
  <1> DEFINE l == SubSeq(text, b + 1, c)
  <1>8. CASE b = c
    <2>1. Arguments = << >> BY <1>2, <1>4, <1>8 DEF Cutting, Arguments
    <2>2. Pieces(l, Delims) = << >>
      <3>1. l = << >> BY <1>8
      <3>2. QED BY <3>1, PiecesEmpty
    <2>3. ArgumentsOf(l) = << >>
      <3>1. << >> \in LineArgs /\ Len(<< >>) <= MaxArgs BY ConstantsAre DEF LineArgs
      <3>2. ArgumentsOf(l) = FirstFew(<< >>) BY <2>2 DEF ArgumentsOf, FirstFew
      <3>3. QED BY <3>1, <3>2, FirstFewIs DEF LineArgs
    <2>4. Entered(b)' BY <1>1, <1>6, <1>7, <2>1, <2>3 DEF Entered
    <2>5. QED BY <1>1, <2>4 DEF LineInv
  <1>9. CASE b < c
    <2> DEFINE m == c - b + 1
               t == text
               D == Delims
               a == b + 1
               s == b + scan
               w == PiecesTo(t, a, c, D)
    <2>1. InText(b, m) BY <1>2, <1>4, <1>9 DEF Cutting
    <2>2. /\ m \in scan..LineSize /\ line[m] = Nul /\ m \in Nat /\ b + (m - 1) = c
          /\ \A i \in scan..(m - 1) : line[i] = t[b + i]
          /\ Arguments = PiecesTo(t, a, s - 1, D) /\ scan \in 1..LineSize
      <3>1. m \in Nat /\ b + (m - 1) = c BY <1>4, <1>9
      <3>2. scan \in 1..LineSize BY <1>1 DEF Types
      <3>3. b + scan - 1 = s - 1 BY <3>2, ConstantsAre
      <3> HIDE DEF m
      <3>4. /\ m \in scan..LineSize /\ line[m] = Nul
            /\ \A i \in scan..(m - 1) : line[i] = text[b + i]
            /\ Arguments = PiecesTo(text, b + 1, b + scan - 1, Delims)
        BY <2>1 DEF InText
      <3>5. QED BY <3>1, <3>2, <3>3, <3>4, Zenon
    <2> HIDE DEF m
    <2>3. scan \in Nat /\ scan >= 1 /\ LineSize \in Nat BY <2>2, ConstantsAre
    <2>4. ASSUME NEW i \in scan..(m - 1) PROVE t[b + i] \in D
      <3> DEFINE C == Letters \cup {Nul}
                 k == FirstIn(line, scan, LineSize, C)
      <3>1. TokenAt = k BY DEF TokenAt, NextOf, FirstIn
      <3>2. line[m] \in C /\ m \in scan..LineSize BY <2>2
      <3>3. line[i] = t[b + i] /\ t[b + i] \in Chars
        <4>1. b + i \in 1..Len(t) BY <1>3, <1>4, <2>2, <2>3
        <4>2. QED BY <1>1, <2>2, <4>1
      <3> HIDE DEF C
      <3>4. k \in scan..m /\ \A j \in scan..(k - 1) : line[j] \notin C
        BY <2>3, <3>2, FirstInIs
      <3> HIDE DEF k
      <3>5. k = m
        <4>1. ASSUME k # m PROVE FALSE
          <5>1. k \in scan..(m - 1) BY <2>2, <2>3, <3>4, <4>1
          <5>2. line[k] = t[b + k] BY <2>2, <5>1
          <5>3. b + k \in 1..Len(t) BY <1>3, <1>4, <2>2, <2>3, <5>1
          <5>4. t[b + k] \in Chars BY <1>1, <5>3
          <5>5. QED BY <1>1, <3>1, <5>2, <5>4, ConstantsAre
        <4>2. QED BY <4>1
      <3>6. line[i] \notin C BY <3>4, <3>5
      <3>7. QED BY <3>3, <3>6 DEF C, Chars
    <2>5. w = PiecesTo(t, a, s - 1, D)
      <3>1. /\ a \in 1..(Len(t) + 1) /\ s \in a..(Len(t) + 1) /\ c \in (s - 1)..Len(t)
            /\ t \in Seq(Chars)
        <4>1. b + scan <= b + m /\ b + m = c + 1 BY <2>2, <2>3
        <4>2. QED BY <1>1, <1>3, <1>4, <1>9, <2>3, <4>1
      <3>2. \A i \in s..c : t[i] \in D
        <4> SUFFICES ASSUME NEW i \in s..c PROVE t[i] \in D OBVIOUS
        <4>1. i - b \in scan..(m - 1) /\ b + (i - b) = i BY <2>2, <2>3
        <4>2. QED BY <2>4, <4>1
      <3> HIDE DEF t, a, s, D
      <3>3. QED BY <3>1, <3>2, PiecesSkip
    <2>6. Len(Arguments) <= MaxArgs
      <3>1. Len(argv) \in Nat /\ DOMAIN argv = 1..Len(argv) /\ Len(argv) <= MaxArgs
        BY <1>1 DEF Types
      <3>2. QED BY <3>1 DEF Arguments
    <2>7. ArgumentsOf(l) = Arguments
      <3>1. ArgumentsOf(l) = FirstFew(w) BY DEF ArgumentsOf, FirstFew, PiecesTo
      <3>2. w = Arguments /\ Arguments \in Seq(Seq(Letters)) BY <1>1, <2>2, <2>5 DEF InLine
      <3> HIDE DEF w
      <3>3. QED BY <2>6, <3>1, <3>2, FirstFewIs
    <2>8. Entered(b)' BY <1>1, <1>6, <1>7, <2>7 DEF Entered
    <2>9. QED BY <1>1, <2>8 DEF LineInv
  <1>10. QED BY <1>5, <1>8, <1>9

(* A line that was entered adds its arguments to those before.             *)
LEMMA EnteredAdds ==
  ASSUME Types, InLine, NEW b \in Nat, Entered(b), NEW c, c = Consumed
  PROVE  /\ LineEnds(text, c) /\ SpelledTo(b)
         /\ Arguments \in LineArgs /\ Arguments \in Seq(Seq(Letters))
         /\ Adds(LinesTo(text, b), LinesTo(text, c), Arguments)
         /\ LinesTo(text, b) \in Seq(LineArgs)
         /\ LinesTo(text, Len(text)) \in Seq(LineArgs)
         /\ Extends(LinesTo(text, c), LinesTo(text, Len(text)))
  <1>1. /\ text \in Seq(Chars) /\ IsLine(text, b, c) /\ SpelledTo(b)
        /\ Arguments = ArgumentsOf(SubSeq(text, b + 1, c))
        /\ Arguments \in Seq(Seq(Letters))
    BY DEF Types, Entered, AtLine, InLine
  <1>2. Seq(Letters) \subseteq Seq(Chars) BY ConstantsAre
  <1>3. Arguments \in LineArgs
    <2> DEFINE a == Arguments
    <2>1. a \in Seq(Seq(Letters)) BY <1>1
    <2> HIDE DEF a
    <2>2. a \in Seq(Seq(Chars)) BY <1>2, <2>1
    <2>3. QED BY <2>2 DEF LineArgs, a
  <1>4. LineEnds(text, c) /\ LineEnds(text, b) BY <1>1 DEF IsLine
  <1>5. b \in 0..Len(text) /\ Len(text) \in 0..Len(text) BY <1>1, <1>4 DEF LineEnds
  <1>6. /\ LinesTo(text, b) \in Seq(LineArgs)
        /\ LinesTo(text, Len(text)) \in Seq(LineArgs)
    BY <1>1, <1>5, LinesTyped
  <1>7. Adds(LinesTo(text, b), LinesTo(text, c), Arguments) BY <1>1, LineAdds
  <1>8. Extends(LinesTo(text, c), LinesTo(text, Len(text))) BY <1>1, <1>4, LinesExtend
  <1>9. QED BY <1>1, <1>3, <1>4, <1>6, <1>7, <1>8

(* Whether or not its command is one that does something.                  *)
LEMMA CommandLine ==
  ASSUME ConsoleInv, LineInv, pc = "command", text' = text, input' = input, pc' = "read",
         ~Quits(Arguments),
         executed' = IF Arguments \in PassedOver THEN executed
                     ELSE Append(executed, Arguments)
  PROVE  LineInv'
  <1>1. Types /\ InLine BY DEF ConsoleInv
  <1>2. PICK b \in Nat : Entered(b) BY DEF LineInv
  <1>3. Consumed' = Consumed BY DEF Consumed
  <1> DEFINE c == Consumed
             ls == LinesTo(text, b)
             ms == LinesTo(text, c)
             args == Arguments
  <1>4. /\ LineEnds(text, c) /\ SpelledTo(b) /\ args \in LineArgs
        /\ Adds(ls, ms, args) /\ ls \in Seq(LineArgs)
    BY <1>1, <1>2, EnteredAdds
  <1>5. executed = Commands(ls) /\ Going(ls) /\ ~Quits(args) BY <1>4 DEF SpelledTo
  <1>6. executed' = IF args \in PassedOver THEN executed ELSE Append(executed, args) OBVIOUS
  <1> HIDE DEF ls, ms, args, c
  <1>7. /\ Going(ms)
        /\ args \in PassedOver => Commands(ms) = Commands(ls)
        /\ args \notin PassedOver => Commands(ms) = Append(Commands(ls), args)
    BY <1>4, <1>5, RunsOn
  <1>8. executed' = Commands(ms) BY <1>5, <1>6, <1>7
  <1>9. SpelledTo(c)' BY <1>3, <1>7, <1>8 DEF SpelledTo, ms, c
  <1>10. LineEnds(text', Consumed') /\ SpelledTo(Consumed)'
    BY <1>3, <1>4, <1>9 DEF c, SpelledTo
  <1>11. QED BY <1>10 DEF LineInv

LEMMA NothingEnteredLine ==
  ASSUME ConsoleInv, LineInv, NothingEntered
  PROVE  LineInv'
  <1>1. /\ pc = "command" /\ argv = << >> /\ pc' = "read"
        /\ UNCHANGED <<input, line, scan, argv, text, executed>>
    BY DEF NothingEntered
  <1>2. Arguments = << >> BY <1>1 DEF Arguments
  <1>3. << >> \in Seq(Seq(Letters)) OBVIOUS
  <1>4. Arguments \in PassedOver BY <1>2, <1>3, IsPassedOver
  <1>5. ~Quits(Arguments) BY <1>2 DEF Quits
  <1>6. QED BY <1>1, <1>4, <1>5, CommandLine

LEMMA RunCommandLine ==
  ASSUME ConsoleInv, LineInv, RunCommand
  PROVE  LineInv'
  <1>1. /\ pc = "command" /\ argv # << >> /\ Arguments[1] # Quit /\ pc' = "read"
        /\ executed' = IF [cmd |-> Arguments[1], proc |-> FALSE] \in Range(Table)
                       THEN executed ELSE Append(executed, Arguments)
        /\ UNCHANGED <<input, text>>
    BY DEF RunCommand
  <1>2. Arguments \in Seq(Seq(Letters)) /\ argv \in Seq(1..LineSize)
    BY <1>1 DEF ConsoleInv, InLine, Types
  <1>3. Arguments # << >>
    <2>1. DOMAIN Arguments = DOMAIN argv BY DEF Arguments
    <2>2. Len(argv) \in Nat /\ Len(argv) # 0 /\ DOMAIN argv = 1..Len(argv) BY <1>1, <1>2
    <2>3. 1 \in DOMAIN Arguments BY <2>1, <2>2
    <2>4. QED BY <2>3
  <1>4. Arguments \in PassedOver <=> [cmd |-> Arguments[1], proc |-> FALSE] \in Range(Table)
    BY <1>2, <1>3, IsPassedOver
  <1>5. ~Quits(Arguments) BY <1>1 DEF Quits
  <1>6. executed' = IF Arguments \in PassedOver THEN executed ELSE Append(executed, Arguments)
    BY <1>1, <1>4
  <1>7. QED BY <1>1, <1>5, <1>6, CommandLine

(* Nothing that is still to be read changes what is executed.              *)
LEMMA QuitCommandLine ==
  ASSUME ConsoleInv, LineInv, QuitCommand
  PROVE  LineInv'
  <1>1. /\ pc = "command" /\ argv # << >> /\ Arguments[1] = Quit /\ pc' = "quit"
        /\ UNCHANGED <<input, line, scan, argv, text, executed>>
    BY DEF QuitCommand
  <1>2. Types /\ InLine /\ text \in Seq(Chars) BY <1>1 DEF ConsoleInv, Types
  <1>3. PICK b \in Nat : Entered(b) BY <1>1 DEF LineInv
  <1>4. Quits(Arguments)
    <2>1. DOMAIN Arguments = DOMAIN argv BY DEF Arguments
    <2>2. argv \in Seq(1..LineSize) BY <1>2 DEF Types
    <2>3. Len(argv) \in Nat /\ Len(argv) # 0 /\ DOMAIN argv = 1..Len(argv) BY <1>1, <2>2
    <2>4. 1 \in DOMAIN Arguments BY <2>1, <2>3
    <2>5. QED BY <1>1, <2>4 DEF Quits
  <1> DEFINE c == Consumed
             ls == LinesTo(text, b)
             ms == LinesTo(text, c)
             all == LinesTo(text, Len(text))
             args == Arguments
  <1>5. /\ SpelledTo(b) /\ args \in LineArgs
        /\ Adds(ls, ms, args) /\ ls \in Seq(LineArgs) /\ all \in Seq(LineArgs)
        /\ Extends(ms, all)
    BY <1>2, <1>3, EnteredAdds
  <1>6. executed = Commands(ls) /\ Going(ls) /\ Quits(args) BY <1>4, <1>5 DEF SpelledTo
  <1>7. all = Lines(text)
    <2> DEFINE t == SubSeq(text, 1, Len(text))
    <2>1. t \in Seq(Chars) /\ Len(t) = Len(text) /\ \A i \in 1..Len(text) : t[i] = text[i]
      BY <1>2
    <2> HIDE DEF t
    <2>2. t = text BY <1>2, <2>1, SeqEqual
    <2>3. QED BY <2>2 DEF LinesTo, t
  <1> HIDE DEF ls, ms, all, args
  <1>8. ~Going(all) /\ Commands(all) = Commands(ls) BY <1>5, <1>6, QuitsThere
  <1>9. executed = Spelled(text) /\ SpellsQuit(text) BY <1>6, <1>7, <1>8, SpelledIs
  <1>10. executed' = Spelled(text') /\ SpellsQuit(text') BY <1>1, <1>9
  <1>11. pc' = "quit" /\ (SpellsQuit(text))' BY <1>1, <1>10
  <1>12. QED BY <1>10, <1>11 DEF LineInv

LEMMA InitLine == Init => LineInv
  <1> SUFFICES ASSUME Init PROVE LineInv OBVIOUS
  <1>1. ConsoleInv BY InitEstablishes
  <1>2. Types /\ text \in Seq(Chars) /\ Len(text) \in Nat BY <1>1 DEF ConsoleInv, Types
  <1>3. pc = "read" /\ executed = << >> /\ Consumed = 0 BY <1>2 DEF Init, Consumed
  <1>4. LineEnds(text, Consumed) BY <1>2, <1>3 DEF LineEnds
  <1>5. LinesTo(text, 0) = << >>
    <2> DEFINE N == {"newline"}
    <2>1. 1 \in 1..(Len(text) + 1) /\ 0 \in (1 - 1)..Len(text) /\ 0 \in 0..Len(text)
          /\ 0 = 1 - 1
      BY <1>2
    <2> HIDE DEF N
    <2>2. PiecesTo(text, 1, 0, N) = << >> BY <1>2, <2>1, PiecesToTyped
    <2>3. EachLine(<< >>) = << >> BY DEF EachLine
    <2>4. QED BY <1>2, <2>1, <2>2, <2>3, LinesAre DEF N
  <1>6. << >> \in Seq(LineArgs) /\ Going(<< >>) BY DEF Going
  <1>7. Commands(<< >>) = << >> BY <1>6, CommandsGoing, DroppingEmpty
  <1>8. SpelledTo(0) BY <1>3, <1>5, <1>6, <1>7 DEF SpelledTo
  <1>9. QED BY <1>3, <1>4, <1>8 DEF LineInv

LEMMA StutterLine ==
  ASSUME ConsoleInv, LineInv, UNCHANGED vars
  PROVE  LineInv'
  <1>1. UNCHANGED <<pc, input, line, scan, argv, text, executed>> BY DEF vars
  <1>2. Consumed' = Consumed /\ Blank' = Blank BY <1>1, Still
  <1>3. Arguments' = Arguments BY <1>1 DEF Arguments, StringAt, NextOf
  <1>4. ASSUME NEW k PROVE SpelledTo(k)' = SpelledTo(k) BY <1>1 DEF SpelledTo
  <1>5. ASSUME NEW b, NEW m PROVE InText(b, m)' = InText(b, m) BY <1>1, <1>3 DEF InText
  <1>6. ASSUME NEW b PROVE AtLine(b)' = AtLine(b) BY <1>1, <1>2, <1>4 DEF AtLine
  <1>7. ASSUME NEW b PROVE Cutting(b)' = Cutting(b) BY <1>1, <1>2, <1>5, <1>6 DEF Cutting
  <1>8. ASSUME NEW b PROVE Entered(b)' = Entered(b) BY <1>1, <1>2, <1>3, <1>6 DEF Entered
  <1>9. SpelledTo(Consumed)' = SpelledTo(Consumed) BY <1>1, <1>2 DEF SpelledTo
  <1>10. QED BY <1>1, <1>2, <1>7, <1>8, <1>9 DEF LineInv

LineInvariant == ConsoleInv /\ (Fits(text) => LineInv)

LEMMA LineInvariance == Spec => []LineInvariant
  <1>1. Init => LineInvariant BY InitEstablishes, InitLine DEF LineInvariant
  <1>2. LineInvariant /\ [Next]_vars => LineInvariant'
    <2> SUFFICES ASSUME LineInvariant, [Next]_vars PROVE LineInvariant' OBVIOUS
    <2>1. ConsoleInv /\ ConsoleInv'
      BY GetLineInv, EndOfInputInv, NextTokenInv, NoMoreTokensInv, NothingEnteredInv,
         QuitCommandInv, RunCommandInv, StutterInv DEF Next, LineInvariant
    <2>2. text' = text
      BY DEF Next, GetLine, EndOfInput, NextToken, NoMoreTokens, NothingEntered,
             QuitCommand, RunCommand, vars
    <2>3. ASSUME Fits(text) PROVE LineInv'
      <3>1. LineInv BY <2>3 DEF LineInvariant
      <3>2. QED BY <2>1, <2>3, <3>1, GetLineLine, EndOfInputLine, NextTokenLine,
                   NoMoreTokensLine, NothingEnteredLine, QuitCommandLine, RunCommandLine,
                   StutterLine DEF Next
    <2>4. Fits(text)' => Fits(text) BY <2>2
    <2>5. QED BY <2>1, <2>3, <2>4 DEF LineInvariant
  <1>3. QED BY <1>1, <1>2, PTL DEF Spec

(* Of any text whose lines fit the buffer, what was read is executed as it *)
(* is spelled: no command is missing, run twice or left over from before.  *)
THEOREM AlwaysExecutedAsRead == Spec => []ExecutedAsRead
  <1>1. LineInvariant => ExecutedAsRead
    <2> SUFFICES ASSUME LineInvariant, Fits(text) PROVE
          /\ pc = "read" => executed = Spelled(Read) /\ ~SpellsQuit(Read)
          /\ pc = "quit" => executed = Spelled(text) /\ SpellsQuit(text)
      BY DEF ExecutedAsRead
    <2>1. ConsoleInv /\ LineInv BY DEF LineInvariant
    <2>2. Read = SubSeq(text, 1, Consumed) BY <2>1, PartsTyped DEF ConsoleInv
    <2>3. LinesTo(text, Consumed) = Lines(Read) BY <2>2 DEF LinesTo
    <2>4. SpelledTo(Consumed) => executed = Spelled(Read) /\ ~SpellsQuit(Read)
      BY <2>3, SpelledIs DEF SpelledTo
    <2>5. QED BY <2>1, <2>4 DEF LineInv
  <1>2. QED BY LineInvariance, <1>1, PTL
=============================================================================
