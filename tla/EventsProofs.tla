---------------------------- MODULE EventsProofs ----------------------------
(***************************************************************************)
(* Theorems about Events for any registers, strings, names, exceptions and *)
(* buffer sizes, and for any widths of the registers.                      *)
(***************************************************************************)
EXTENDS Events, DataProofs, FiniteSetTheorems, SequenceTheorems

LEMMA Disjoint ==
  /\ Control \cap Registers = {} /\ Segment \subseteq Registers
  /\ (General \cup Segment) \cap Control = {}
  /\ General \cup Segment \subseteq DbgRegisters
BY DEF Control, Registers, General, Segment, Debug, DbgRegisters

----------------------------------------------------------------------------
(* The inductive invariant.  What the loop is about to store halts the     *)
(* session for an exception only; a buffer is allocated just while the     *)
(* loop is at its free; and r works on the registers the debuggee still    *)
(* has, if it has not run since r was typed.                               *)
Line ==
  /\ event.kind = "EXCEPTION"
  /\ shown.what = "exception" /\ shown.firstChance = event.firstChance

Halting ==
  /\ state \in {"continue", "suspend"} /\ result \in {"continue", "suspend"}
  /\ state = "suspend" => Line /\ pc \in {"store", "go", "wait"}
  /\ pc = "store" /\ result = "suspend" => Line
  /\ pc \in {"wait", "process", "free", "store", "go", "fault"}
  /\ pc \in {"free", "fault"} => event.kind = "OUTPUT_DEBUG_STRING"
  /\ pc = "free" => result = "continue"
  /\ pc \in {"store", "go", "wait"} /\ event.kind = "EXCEPTION" => Line

Displaying ==
  /\ console = "show" /\ still => context = DbgContextFromWin32(thread)
  /\ console \in {"idle", "show"} => displayed = << >>
  /\ console \in {"idle", "show", "return"}

IInv == Halting /\ BuffersFreed /\ Displaying /\ RegistersCurrent

LEMMA InitIInv == Init => IInv
<1> SUFFICES ASSUME Init PROVE IInv
  OBVIOUS
<1>1. Halting
  BY DEF Init, Halting
<1>2. BuffersFreed
  BY DEF Init, BuffersFreed
<1>3. Displaying /\ RegistersCurrent
  BY DEF Init, Displaying, RegistersCurrent
<1> QED BY <1>1, <1>2, <1>3 DEF IInv

LEMMA HaltingStep == Halting /\ [Next]_vars => Halting'
<1> SUFFICES ASSUME Halting, [Next]_vars PROVE Halting'
  OBVIOUS
<1> USE DEF Halting, Line
<1>1. ASSUME NEW e \in DebugEvents, WaitForDebugEvent(e) PROVE Halting'
  BY <1>1 DEF WaitForDebugEvent
<1>2. CASE CreateEvent
  BY <1>2 DEF CreateEvent, Handle, Return
<1>3. CASE ExitEvent
  BY <1>3 DEF ExitEvent, Handle, Return
<1>4. CASE ExceptionEvent
  BY <1>4 DEF ExceptionEvent, Handle, Return
<1>5. CASE StringEvent
  BY <1>5 DEF StringEvent, Handle
<1>6. CASE FreeString
  BY <1>6 DEF FreeString
<1>7. CASE StringFault
  BY <1>7 DEF StringFault, Handle, dataVars
<1>8. CASE LoadEvent
  BY <1>8 DEF LoadEvent, Handle, Return
<1>9. CASE OtherEvent
  BY <1>9 DEF OtherEvent, Handle, Return
<1>10. CASE StoreState
  BY <1>10 DEF StoreState, dataVars
<1>11. CASE ContinueDebugEvent
  BY <1>11 DEF ContinueDebugEvent, dataVars
<1>12. CASE Run
  BY <1>12 DEF Run, sessionVars, dataVars
<1>13. CASE Console
  BY <1>13 DEF Console, Continue, GetRegisters, DisplayRegisters, SetBreakpoint, Prompt,
               sessionVars, dataVars
<1>14. CASE UNCHANGED vars
  BY <1>14 DEF vars, sessionVars, dataVars
<1> QED BY <1>1, <1>2, <1>3, <1>4, <1>5, <1>6, <1>7, <1>8, <1>9, <1>10, <1>11, <1>12,
           <1>13, <1>14 DEF Next, Session

LEMMA BuffersStep == BuffersFreed /\ [Next]_vars => BuffersFreed'
<1> SUFFICES ASSUME BuffersFreed, [Next]_vars PROVE BuffersFreed'
  OBVIOUS
<1> USE DEF BuffersFreed
<1>1. ASSUME NEW e \in DebugEvents, WaitForDebugEvent(e) PROVE BuffersFreed'
  BY <1>1 DEF WaitForDebugEvent
<1>2. CASE CreateEvent \/ ExitEvent \/ ExceptionEvent \/ LoadEvent \/ OtherEvent
  BY <1>2 DEF CreateEvent, ExitEvent, ExceptionEvent, LoadEvent, OtherEvent, Handle, Return
<1>3. CASE StringEvent
  BY <1>3 DEF StringEvent, Handle
<1>4. CASE FreeString
  BY <1>4 DEF FreeString
<1>5. CASE StringFault
  BY <1>5 DEF StringFault, Handle, dataVars
<1>6. CASE StoreState \/ ContinueDebugEvent
  BY <1>6 DEF StoreState, ContinueDebugEvent, dataVars
<1>7. CASE Run \/ UNCHANGED vars
  BY <1>7 DEF Run, vars, sessionVars, dataVars
<1>8. CASE Console
  BY <1>8 DEF Console, Continue, GetRegisters, DisplayRegisters, SetBreakpoint, Prompt,
              sessionVars, dataVars
<1> QED BY <1>1, <1>2, <1>3, <1>4, <1>5, <1>6, <1>7, <1>8 DEF Next, Session

LEMMA DisplayingStep ==
  Displaying /\ RegistersCurrent /\ [Next]_vars => Displaying' /\ RegistersCurrent'
<1> SUFFICES ASSUME Displaying, RegistersCurrent, [Next]_vars
             PROVE  Displaying' /\ RegistersCurrent'
  OBVIOUS
<1>1. CASE UNCHANGED <<thread, consoleVars>>
  BY <1>1 DEF consoleVars, Displaying, RegistersCurrent
<1>2. CASE GetRegisters
  <2>1. displayed' = << >>
    BY <1>2 DEF GetRegisters, Typed, Displaying
  <2>2. ASSUME console' = "show", still' PROVE context' = DbgContextFromWin32(thread')
    BY <1>2, <2>2 DEF GetRegisters, Seen
  <2>3. console' \in {"show", "return"}
    BY <1>2 DEF GetRegisters
  <2> QED BY <2>1, <2>2, <2>3 DEF Displaying, RegistersCurrent
<1>3. CASE DisplayRegisters
  <2>1. Displaying' /\ still' = still /\ thread' = thread
    BY <1>3 DEF DisplayRegisters, Displaying
  <2>2. ASSUME still
        PROVE  displayed' = [r \in General \cup Segment |-> DbgContextFromWin32(thread)[r]]
    BY <1>3, <2>2 DEF DisplayRegisters, Displaying, DbgDisplayContext
  <2>3. ASSUME still, NEW r \in DOMAIN displayed'
        PROVE  displayed'[r] = IF r \in Segment THEN thread[r] % Half ELSE thread[r]
    <3>1. r \in General \cup Segment /\ displayed'[r] = DbgContextFromWin32(thread)[r]
      BY <2>2, <2>3
    <3> QED BY <3>1, Disjoint DEF DbgContextFromWin32
  <2> QED BY <2>1, <2>3 DEF RegistersCurrent
<1>4. ASSUME NEW text \in Texts, SetBreakpoint(text)
      PROVE  Displaying' /\ RegistersCurrent'
  BY <1>4 DEF SetBreakpoint, Typed, Displaying, RegistersCurrent
<1>5. CASE Prompt
  BY <1>5 DEF Prompt, Displaying, RegistersCurrent
<1>6. CASE Run
  BY <1>6 DEF Run, Displaying, RegistersCurrent
<1>7. Session \/ Continue \/ UNCHANGED vars => UNCHANGED <<thread, consoleVars>>
  BY DEF Session, WaitForDebugEvent, CreateEvent, ExitEvent, ExceptionEvent, StringEvent,
         FreeString, StringFault, LoadEvent, OtherEvent, Return, StoreState,
         ContinueDebugEvent, Continue, vars, consoleVars
<1> QED BY <1>1, <1>2, <1>3, <1>4, <1>5, <1>6, <1>7 DEF Next, Console

LEMMA Inductive == Spec => []IInv
<1>1. Init => IInv
  BY InitIInv
<1>2. IInv /\ [Next]_vars => IInv'
  BY HaltingStep, BuffersStep, DisplayingStep DEF IInv
<1> QED BY <1>1, <1>2, PTL DEF Spec

----------------------------------------------------------------------------
(* A halted session has on the screen the exception that halted it, and    *)
(* has taken no event since (dbg.c:14-25, session.c:559-578).              *)
THEOREM HaltShown == Spec => []HaltedOnShown
<1>1. IInv => HaltedOnShown
  BY DEF IInv, Halting, Line, HaltedOnShown
<1> QED BY <1>1, Inductive, PTL

(* The buffer of a debug string is freed once, before the event is         *)
(* answered (session.c:396-404).                                           *)
THEOREM StringsFreed == Spec => []BuffersFreed
<1>1. IInv => BuffersFreed
  BY DEF IInv
<1> QED BY <1>1, Inductive, PTL

(* r displays what the debuggee has in its registers, as long as it stands *)
(* still: nothing stale is shown when GetThreadContext fails               *)
(* (session.c:215-224, cmd.c:149-157).                                     *)
THEOREM CurrentDisplayed == Spec => []RegistersCurrent
<1>1. IInv => RegistersCurrent
  BY DEF IInv
<1> QED BY <1>1, Inductive, PTL

----------------------------------------------------------------------------
(* The strings.  A text ends before its first NUL, a number at the first   *)
(* character that is no digit: both count the numbers before the least     *)
(* one of a set.                                                           *)
LEMMA Leading ==
  ASSUME NEW n \in Nat, NEW Bad
  PROVE  \E k \in 0..n :
           /\ Cardinality({i \in 1..n : \A j \in 1..i : j \notin Bad}) = k
           /\ \A j \in 1..k : j \notin Bad
           /\ (k = n \/ k + 1 \in Bad)
  <1> DEFINE Good == {i \in 1..n : \A j \in 1..i : j \notin Bad}
             B == {j \in 1..n : j \in Bad}
  <1>1. \E k \in 0..n : /\ Good = 1..k /\ (\A j \in 1..k : j \notin Bad)
                        /\ (k = n \/ k + 1 \in Bad)
    <2>1. CASE B = {}
      <3>1. Good = 1..n BY <2>1
      <3>2. QED BY <2>1, <3>1
    <2>2. CASE B # {}
      <3>1. B \subseteq Nat OBVIOUS
      <3> HIDE DEF B
      <3>2. PICK b \in B : \A y \in B : b <= y BY <2>2, <3>1, LeastNumber
      <3> USE DEF B
      <3>3. b \in 1..n /\ b \in Bad /\ b - 1 \in 0..n /\ (b - 1) + 1 = b BY <3>2
      <3>4. \A j \in 1..(b - 1) : j \notin Bad BY <3>2, <3>3
      <3>5. Good = 1..(b - 1)
        <4>1. ASSUME NEW i \in Good PROVE i \in 1..(b - 1) BY <3>3, <4>1
        <4>2. ASSUME NEW i \in 1..(b - 1) PROVE i \in Good BY <3>3, <3>4
        <4>3. QED BY <4>1, <4>2
      <3>6. QED BY <3>3, <3>4, <3>5
    <2>3. QED BY <2>1, <2>2
  <1>2. PICK k \in 0..n : /\ Good = 1..k /\ (\A j \in 1..k : j \notin Bad)
                         /\ (k = n \/ k + 1 \in Bad)
    BY <1>1
  <1>3. Cardinality(1..k) = k
    <2>1. Cardinality(1..k) = IF 1 > k THEN 0 ELSE k - 1 + 1 BY FS_Interval
    <2>2. QED BY <2>1
  <1>4. Cardinality(Good) = k BY <1>2, <1>3
  <1>5. \A j \in 1..k : j \notin Bad BY <1>2
  <1>6. k = n \/ k + 1 \in Bad BY <1>2
  <1>7. QED BY <1>4, <1>5, <1>6, Zenon

LEMMA DigitValues ==
  ASSUME NEW s \in Seq(Characters)
  PROVE  \A i \in 1..Len(s) : s[i] \in Nat
  BY DEF Characters

(* The digits strtol reads are those before the first character that is    *)
(* none.                                                                   *)
LEMMA DigitsAre ==
  ASSUME NEW r \in Seq(Characters), NEW base \in Nat
  PROVE  \E k \in 0..Len(r) :
           /\ Digits(r, base) = SubSeq(r, 1, k) /\ Digits(r, base) \in Seq(Characters)
           /\ \A j \in 1..k : r[j] < base
           /\ k = Len(r) \/ ~(r[k + 1] < base)
  <1> DEFINE n == Len(r)
             Bad == {j \in 1..n : ~(r[j] < base)}
  <1>1. n \in Nat /\ DOMAIN r = 1..n OBVIOUS
  <1>2. PICK k \in 0..n : /\ Cardinality({i \in 1..n : \A j \in 1..i : j \notin Bad}) = k
                          /\ \A j \in 1..k : j \notin Bad
                          /\ (k = n \/ k + 1 \in Bad)
    <2> HIDE DEF Bad, n
    <2>1. QED BY <1>1, Leading
  <1>3. {i \in 1..n : \A j \in 1..i : j \notin Bad} = {i \in DOMAIN r : \A j \in 1..i : r[j] < base}
    BY <1>1
  <1>4. Digits(r, base) = SubSeq(r, 1, k) BY <1>2, <1>3 DEF Digits
  <1>5. ASSUME NEW j \in 1..k PROVE r[j] < base
    <2>1. j \notin Bad
      <3> HIDE DEF Bad, n
      <3>1. QED BY <1>2
    <2>2. j \in 1..n
      <3> HIDE DEF Bad, n
      <3>1. QED BY <1>1
    <2>3. QED BY <2>1, <2>2
  <1>6. k = n \/ ~(r[k + 1] < base) BY <1>2
  <1>7. k \in 0..n BY <1>2
  <1> HIDE DEF Bad
  <1>8. SubSeq(r, 1, k) \in Seq(Characters) BY <1>7
  <1>9. QED BY <1>4, <1>5, <1>6, <1>7, <1>8, Zenon

Short(n) == IF n < LongMax THEN n ELSE LongMax
Skipped(s, base) == IF base = 16 /\ Prefixed(s) THEN SubSeq(s, 3, Len(s)) ELSE s

(* strtol adds digit after digit, and stays at the largest long.           *)
LEMMA StrtolIs ==
  ASSUME NEW s \in Seq(Characters), NEW base \in Nat
  PROVE  \E digits \in Seq(Characters) :
           /\ digits = Digits(Skipped(s, base), base)
           /\ \E f \in [0..Len(digits) -> 0..LongMax] :
                /\ f[0] = 0 /\ strtol(s, base) = f[Len(digits)]
                /\ \A i \in 1..Len(digits) : f[i] = Short(f[i - 1] * base + digits[i])
  <1> DEFINE d == Digits(Skipped(s, base), base)
             n == Len(d)
             More(v, i) == IF v * base + d[i] > LongMax THEN LongMax ELSE v * base + d[i]
             step == [p \in (0..LongMax) \X (1..n) |-> More(p[1], p[2])]
             value == CHOOSE f : f = [i \in 0..n |-> IF i = 0 THEN 0 ELSE More(f[i - 1], i)]
  <1>1. d \in Seq(Characters)
    <2>1. Skipped(s, base) \in Seq(Characters) BY DEF Skipped
    <2>2. QED BY <2>1, DigitsAre
  <1>2. n \in Nat /\ \A i \in 1..n : d[i] \in Nat
    <2> HIDE DEF d
    <2>1. QED BY <1>1 DEF Characters
  <1> DEFINE Longs == 0..LongMax
  <1>3. ASSUME NEW v \in Longs, NEW i \in 1..n
        PROVE  /\ More(v, i) \in Longs /\ More(v, i) = Short(v * base + d[i])
               /\ step[<<v, i>>] = More(v, i)
    <2>1. step[<<v, i>>] = More(v, i)
      <3> HIDE DEF d, n, More
      <3>1. QED OBVIOUS
    <2>2. d[i] \in Nat /\ v * base \in Nat BY <1>2
    <2> DEFINE sum == v * base + d[i]
    <2>3. sum \in Nat
      <3> DEFINE x == v * base
      <3>1. x \in Nat /\ sum = x + d[i] BY <2>2
      <3> HIDE DEF x
      <3>2. QED BY <2>2, <3>1
    <2>4. More(v, i) = IF sum > LongMax THEN LongMax ELSE sum OBVIOUS
    <2> HIDE DEF d, n, More, step, sum
    <2>5. More(v, i) \in Longs /\ More(v, i) = Short(sum) BY <2>3, <2>4, LongMaxOK DEF Short
    <2>6. QED BY <2>1, <2>5 DEF sum
  <1>4. strtol(s, base) = value[n] BY Zenon DEF strtol, Skipped
  <1> HIDE DEF d, n, More, step
  <1>5. PICK f \in [0..n -> Longs] : Follows(f, n, 0, step)
    <2>1. 0 \in Longs BY LongMaxOK
    <2> HIDE DEF Longs
    <2>2. \A v \in Longs, i \in 1..n : step[<<v, i>>] \in Longs BY <1>3
    <2>3. QED BY <1>2, <2>1, <2>2, RecursionExists
  <1>6. \A i \in 1..n : f[i] = More(f[i - 1], i) /\ f[i - 1] \in Longs
    <2> SUFFICES ASSUME NEW i \in 1..n PROVE f[i] = More(f[i - 1], i) /\ f[i - 1] \in Longs
      OBVIOUS
    <2> HIDE DEF Longs
    <2>1. i - 1 \in 0..n BY <1>2
    <2>2. f[i - 1] \in Longs BY <1>5, <2>1
    <2>3. f[i] = step[<<f[i - 1], i>>] BY <1>5 DEF Follows
    <2>4. QED BY <1>3, <2>2, <2>3
  <1>7. f[0] = 0 BY <1>5 DEF Follows
  <1>8. f = [i \in 0..n |-> IF i = 0 THEN 0 ELSE More(f[i - 1], i)]
    <2>1. f = [i \in 0..n |-> f[i]] BY <1>5
    <2>2. \A i \in 0..n : i # 0 => i \in 1..n BY <1>2
    <2>3. QED BY <1>6, <1>7, <2>1, <2>2
  <1>9. value = [i \in 0..n |-> IF i = 0 THEN 0 ELSE More(value[i - 1], i)]
    BY <1>8, Zenon
  <1> HIDE DEF value
  <1>10. \A i \in 0..n : value[i] = f[i]
    <2>1. value[0] = f[0] BY <1>2, <1>7, <1>9
    <2>2. ASSUME NEW i \in 1..n PROVE value[i] = More(value[i - 1], i)
      <3>1. i \in 0..n /\ i # 0 BY <1>2
      <3>2. QED BY <1>9, <3>1
    <2>3. \A i \in 1..n : value[i - 1] = f[i - 1] => value[i] = f[i] BY <1>6, <2>2
    <2>4. GoOnAlike(value, f, n) BY <2>1, <2>3 DEF GoOnAlike
    <2>5. QED BY <1>2, <2>4, RecursionAgrees
  <1>11. \A i \in 1..n : f[i] = Short(f[i - 1] * base + d[i]) BY <1>3, <1>6
  <1>12. strtol(s, base) = f[n] BY <1>2, <1>4, <1>10
  <1>13. QED BY <1>1, <1>5, <1>7, <1>11, <1>12 DEF n, d

(* strtol yields no more than the largest long.                            *)
LEMMA StrtolBounded ==
  ASSUME NEW s \in Seq(Characters), NEW base \in Nat
  PROVE  strtol(s, base) \in 0..LongMax
  <1>1. PICK d \in Seq(Characters) :
          \E f \in [0..Len(d) -> 0..LongMax] : strtol(s, base) = f[Len(d)]
    BY StrtolIs
  <1>2. Len(d) \in 0..Len(d) OBVIOUS
  <1>3. QED BY <1>1, <1>2

----------------------------------------------------------------------------
(* The types, and what is shown for a string or a name.                    *)

LEMMA AddressBounded ==
  ASSUME NEW text \in Seq(Characters)
  PROVE  AddressOf(text) \in 0..LongMax
  BY StrtolBounded DEF AddressOf

LEMMA ContextBounded ==
  ASSUME NEW c \in Win32Contexts
  PROVE  DbgContextFromWin32(c) \in DbgContexts
  <1> DEFINE d == DbgContextFromWin32(c)
  <1>1. ASSUME NEW r \in DbgRegisters PROVE d[r] \in 0..(Word - 1)
    <2>1. CASE r \in Segment
      <3>1. c[r] \in 0..(Word - 1) BY <2>1, Disjoint DEF Win32Contexts
      <3>2. d[r] = c[r] % Half BY <2>1 DEF DbgContextFromWin32
      <3>3. c[r] % Half \in 0..(Half - 1) BY <3>1, WidthsOK
      <3>4. QED BY <3>2, <3>3, WidthsOK
    <2>2. CASE r \in Control BY <2>2, Disjoint, WidthsOK DEF DbgContextFromWin32
    <2>3. CASE r \in Registers \ Segment
      BY <2>3, Disjoint DEF DbgContextFromWin32, Win32Contexts
    <2>4. QED BY <2>1, <2>2, <2>3 DEF DbgRegisters
  <1>2. ASSUME NEW r \in Segment \cup Control PROVE d[r] < Half
    <2>0. r \in DbgRegisters BY Disjoint DEF DbgRegisters
    <2>1. CASE r \in Segment
      <3>1. c[r] \in 0..(Word - 1) BY <2>1, Disjoint DEF Win32Contexts
      <3>2. d[r] = c[r] % Half BY <2>0, <2>1 DEF DbgContextFromWin32
      <3>3. QED BY <3>1, <3>2, WidthsOK
    <2>2. CASE r \in Control
      <3>1. r \notin Segment BY <2>2, Disjoint
      <3>2. d[r] = 0 BY <2>0, <2>2, <3>1 DEF DbgContextFromWin32
      <3>3. QED BY <3>2, WidthsOK
    <2>3. QED BY <2>1, <2>2
  <1>3. d \in [DbgRegisters -> 0..(Word - 1)]
    <2>1. d = [r \in DbgRegisters |-> d[r]] BY DEF DbgContextFromWin32
    <2> HIDE DEF d
    <2>2. QED BY <1>1, <2>1
  <1> HIDE DEF d
  <1>4. d \in DbgContexts BY <1>2, <1>3 DEF DbgContexts
  <1>5. QED BY <1>4 DEF d

(* What %s shows of a buffer that ends in NUL: some of what stands before  *)
(* it.  Only an empty string has a buffer with no NUL.                     *)
Shows == Letters \cup {Junk}

LEMMA TextOf ==
  ASSUME NEW buffer \in Seq(Chars), NEW text \in TextIn(buffer)
  PROVE  /\ text \in Seq(Shows)
         /\ Len(buffer) # 0 /\ buffer[Len(buffer)] = Nul =>
              \E k \in 0..(Len(buffer) - 1) :
                text = SubSeq(buffer, 1, k) /\ buffer[k + 1] = Nul
  <1> DEFINE n == Len(buffer)
             Bad == {j \in 1..n : buffer[j] = Nul}
             Ending == Cardinality({i \in DOMAIN buffer : \A j \in 1..i : buffer[j] # Nul})
  <1>1. n \in Nat /\ DOMAIN buffer = 1..n /\ \A i \in 1..n : buffer[i] \in Chars OBVIOUS
  <1>2. \E k \in 0..n : /\ Ending = k /\ (\A j \in 1..k : j \notin Bad)
                        /\ (k = n \/ k + 1 \in Bad)
    <2>1. {i \in 1..n : \A j \in 1..i : j \notin Bad}
            = {i \in DOMAIN buffer : \A j \in 1..i : buffer[j] # Nul}
      BY <1>1
    <2>2. \E k \in 0..n : /\ Cardinality({i \in 1..n : \A j \in 1..i : j \notin Bad}) = k
                          /\ (\A j \in 1..k : j \notin Bad)
                          /\ (k = n \/ k + 1 \in Bad)
      <3> HIDE DEF Bad, n
      <3>1. QED BY <1>1, Leading
    <2>3. QED BY <2>1, <2>2
  <1>3. PICK k \in 0..n : /\ Ending = k /\ (\A j \in 1..k : j \notin Bad)
                         /\ (k = n \/ k + 1 \in Bad)
    BY <1>2
  <1>4. CASE \E i \in DOMAIN buffer : buffer[i] = Nul
    <2>1. text = SubSeq(buffer, 1, k) BY <1>3, <1>4 DEF TextIn
    <2>2. \A j \in 1..k : buffer[j] \in Shows
      <3> SUFFICES ASSUME NEW j \in 1..k PROVE buffer[j] \in Shows OBVIOUS
      <3>1. j \in 1..n
        <4> HIDE DEF n
        <4>1. QED BY <1>1, <1>3
      <3>2. buffer[j] # Nul BY <1>3, <3>1
      <3>3. buffer[j] \in Chars BY <1>1, <3>1
      <3>4. QED BY <3>2, <3>3 DEF Chars, Shows
    <2>3. text \in Seq(Shows) BY <1>1, <2>1, <2>2, SubSeqProperties
    <2>4. ASSUME n # 0, buffer[n] = Nul PROVE k \in 0..(n - 1) /\ buffer[k + 1] = Nul
      <3>1. n \in Bad BY <1>1, <2>4
      <3>2. k # n
        <4> SUFFICES ASSUME k = n PROVE FALSE OBVIOUS
        <4>1. n \in 1..k BY <1>1, <2>4
        <4> HIDE DEF Bad, n
        <4>2. QED BY <1>3, <3>1, <4>1
      <3>3. k + 1 \in Bad BY <1>3, <3>2
      <3>4. buffer[k + 1] = Nul BY <3>3
      <3> HIDE DEF n
      <3>5. QED BY <1>1, <1>3, <3>2, <3>4
    <2>5. QED BY <2>1, <2>3, <2>4
  <1>5. CASE ~\E i \in DOMAIN buffer : buffer[i] = Nul
    <2>1. text = buffer \/ text = Append(buffer, Junk) BY <1>5 DEF TextIn
    <2>2. \A i \in 1..n : buffer[i] \in Shows BY <1>1, <1>5 DEF Chars, Shows
    <2>3. buffer \in Seq(Shows)
      <3>1. buffer = [i \in 1..n |-> buffer[i]] OBVIOUS
      <3> HIDE DEF n
      <3>2. QED BY <1>1, <2>2, <3>1
    <2>4. Junk \in Shows BY DEF Shows
    <2>5. text \in Seq(Shows) BY <2>1, <2>3, <2>4, AppendProperties
    <2>6. ~(n # 0 /\ buffer[n] = Nul) BY <1>1, <1>5
    <2>7. QED BY <2>5, <2>6
  <1>6. QED BY <1>4, <1>5

(* The names of libraries.                                                 *)
LEMMA CutOf ==
  ASSUME NEW S, NEW name \in Seq(S)
  PROVE  /\ Cut(name) \in Seq(S) /\ Len(Cut(name)) <= NameSize /\ IsPrefixOf(Cut(name), name)
         /\ Cut(name) = name \/ Len(Cut(name)) = NameSize
  <1> DEFINE n == IF Len(name) < NameSize THEN Len(name) ELSE NameSize
  <1>1. n \in 0..Len(name) /\ n <= NameSize /\ NameSize \in Nat
    BY EventsConstantsOK
  <1>2. Cut(name) = SubSeq(name, 1, n) BY DEF Cut
  <1> HIDE DEF n
  <1>3. \A i \in 1..n : name[i] \in S BY <1>1
  <1>4. 1 \in Int /\ n \in Int BY <1>1
  <1>5. /\ SubSeq(name, 1, n) \in Seq(S)
        /\ Len(SubSeq(name, 1, n)) = IF 1 <= n THEN n - 1 + 1 ELSE 0
    BY <1>3, <1>4, SubSeqProperties
  <1>6. (IF 1 <= n THEN n - 1 + 1 ELSE 0) = n BY <1>1
  <1>7. IsPrefixOf(Cut(name), name) BY <1>1, <1>2 DEF IsPrefixOf
  <1>8. Cut(name) = name \/ Len(Cut(name)) = NameSize
    <2>1. CASE n = Len(name) BY <1>2, <2>1
    <2>2. CASE n = NameSize BY <1>2, <1>5, <1>6, <2>2
    <2>3. QED BY <2>1, <2>2 DEF n
  <1>9. QED BY <1>1, <1>2, <1>5, <1>6, <1>7, <1>8

LEMMA SomeCodes == Zero \in DbgExceptions /\ \A e \in DOMAIN CodeOf : CodeOf[e] \in DbgExceptions
  <1>1. "INT_DIVIDE_BY_ZERO" \in DOMAIN CodeOf /\ CodeOf["INT_DIVIDE_BY_ZERO"] = Zero
    BY DEF CodeOf, Zero
  <1>2. QED BY <1>1 DEF DbgExceptions

(* The events, kind by kind.                                               *)
LEMMA EventOf ==
  ASSUME NEW e \in DebugEvents
  PROVE  /\ e.kind \in {"EXIT_THREAD", "EXIT_PROCESS"} => e.exitCode \in ExitCodes
         /\ e.kind = "EXCEPTION" => e.firstChance \in BOOLEAN
         /\ e.kind = "OUTPUT_DEBUG_STRING" => e.string \in Seq(Letters \cup {Nul})
         /\ e.kind = "LOAD_DLL" =>
              /\ e.name \in Seq(Letters)
              /\ ~e.named => e.name = << >>
  <1> DEFINE Goal == /\ e.kind \in {"EXIT_THREAD", "EXIT_PROCESS"} => e.exitCode \in ExitCodes
                     /\ e.kind = "EXCEPTION" => e.firstChance \in BOOLEAN
                     /\ e.kind = "OUTPUT_DEBUG_STRING" => e.string \in Strings
                     /\ e.kind = "LOAD_DLL" => e.name \in Names \cup {<< >>}
                     /\ e.kind = "LOAD_DLL" /\ ~e.named => e.name = << >>
  <1> SUFFICES Goal
    <2>1. << >> \in Seq(Letters) OBVIOUS
    <2>2. QED BY <2>1, EventsConstantsOK
  <1>1. CASE e \in [kind : {"CREATE_PROCESS", "CREATE_THREAD", "RIP", "UNLOAD_DLL"}]
    BY <1>1
  <1>2. CASE e \in [kind : {"EXCEPTION"}, code : Exceptions, firstChance : BOOLEAN]
    BY <1>2
  <1>3. CASE e \in [kind : {"EXIT_THREAD", "EXIT_PROCESS"}, exitCode : ExitCodes]
    BY <1>3
  <1>4. CASE e \in [kind : {"OUTPUT_DEBUG_STRING"}, string : Strings]
    BY <1>4
  <1>5. CASE e \in [kind : {"LOAD_DLL"}, named : {TRUE}, name : Names]
    BY <1>5
  <1>6. CASE e = Unnamed
    BY <1>6 DEF Unnamed
  <1> HIDE DEF Goal
  <1>7. QED BY <1>1, <1>2, <1>3, <1>4, <1>5, <1>6 DEF DebugEvents

(* What ShownAsRead says of the line for a debug string.                   *)
StringAsRead(text, string, failed) ==
  /\ Len(text) < Len(string)
  /\ ~failed => /\ IsPrefixOf(text, string)
                /\ Len(text) + 1 = Len(string) \/ string[Len(text) + 1] = Nul

(* The line and the text of a debug string; and whether its terminator     *)
(* falls into the buffer.                                                  *)
LEMMA StringShown ==
  ASSUME TypeOK, StringEvent
  PROVE  /\ shown' \in Lines /\ unread' \in BOOLEAN /\ damaged' \in BOOLEAN
         /\ event.string # << >> =>
              StringAsRead(shown'.text, event.string, unread') /\ damaged' = damaged
  <1> DEFINE string == event.string
             n == Len(string)
  <1>1. string \in Seq(Letters \cup {Nul}) /\ n \in Nat /\ DOMAIN string = 1..n
    <2>1. event \in DebugEvents /\ event.kind = "OUTPUT_DEBUG_STRING"
      BY DEF TypeOK, StringEvent, Handle
    <2>2. QED BY <2>1, EventOf
  <1> HIDE DEF string
  <1>2a. PICK read \in BOOLEAN :
           \E buffer \in Buffers(read) : unread' = ~read /\ ShowString(buffer, Len(buffer))
    BY DEF StringEvent
  <1>2. PICK buffer \in Buffers(read) : unread' = ~read /\ ShowString(buffer, Len(buffer))
    BY <1>2a
  <1>4. /\ DOMAIN buffer = 1..n /\ buffer = [i \in 1..n |-> buffer[i]]
        /\ \A i \in 1..n : buffer[i] \in Chars
        /\ read => buffer = string
    <2>1. CASE read BY <1>1, <1>2, <2>1 DEF Buffers, Chars, string
    <2>2. CASE ~read BY <1>1, <1>2, <2>2 DEF Buffers, Chars, string
    <2>3. QED BY <2>1, <2>2
  <1>b. Len(buffer) = n
    <2> HIDE DEF n
    <2>1. QED BY <1>1, <1>4
  <1> DEFINE ended == [j \in DOMAIN buffer |-> IF j = n THEN Nul ELSE buffer[j]]
  <1>3. /\ \E text \in TextIn(ended) : shown' = [what |-> "string", text |-> text]
        /\ damaged' = (damaged \/ n \notin DOMAIN buffer)
    BY <1>2, <1>b DEF ShowString
  <1>t. PICK text \in TextIn(ended) : shown' = [what |-> "string", text |-> text]
    BY <1>3
  <1>5. ended = [i \in 1..n |-> IF i = n THEN Nul ELSE buffer[i]]
    BY <1>4
  <1> HIDE DEF ended
  <1>6. /\ ended \in Seq(Chars) /\ Len(ended) = n /\ (n # 0 => ended[n] = Nul)
    <2>1. \A i \in 1..n : (IF i = n THEN Nul ELSE buffer[i]) \in Chars BY <1>4 DEF Chars
    <2> HIDE DEF n
    <2>2. QED BY <1>1, <1>5, <2>1
  <1>7. text \in Seq(Shows) BY <1>t, <1>6, TextOf
  <1>8. /\ shown' \in Lines /\ unread' \in BOOLEAN
    BY <1>2, <1>t, <1>7 DEF Lines, Shows
  <1>d. damaged' \in BOOLEAN
    <2>1. damaged \in BOOLEAN BY DEF TypeOK
    <2>2. QED BY <1>3, <2>1
  <1>9. ASSUME string # << >>
        PROVE  StringAsRead(text, string, unread') /\ damaged' = damaged
    <2>1. n # 0 /\ n \in 1..n
      <3>1. Len(string) = 0 => string = << >> BY <1>1
      <3>2. n = Len(string) BY DEF string
      <3>3. n # 0 BY <1>9, <3>1, <3>2
      <3>4. QED BY <1>1, <3>3
    <2>2. PICK k \in 0..(n - 1) : text = SubSeq(ended, 1, k) /\ ended[k + 1] = Nul
      BY <1>t, <1>6, <2>1, TextOf
    <2>3. Len(text) = k /\ k < n /\ k \in 0..n BY <1>1, <1>6, <2>2
    <2>4. ASSUME read
          PROVE  IsPrefixOf(text, string) /\ (k + 1 = n \/ string[k + 1] = Nul)
      <3>1. SubSeq(ended, 1, k) = SubSeq(string, 1, k)
        <4>1. \A i \in 1..k : ended[i] = string[i] BY <1>1, <1>4, <1>5, <2>1, <2>4
        <4>2. QED BY <1>1, <1>6, <2>3, <4>1
      <3>2. k + 1 # n => ended[k + 1] = string[k + 1]
        BY <1>1, <1>4, <1>5, <2>3, <2>4
      <3>3. QED BY <2>2, <2>3, <3>1, <3>2 DEF IsPrefixOf
    <2>5. damaged' = damaged
      <3>1. damaged \in BOOLEAN BY DEF TypeOK
      <3>2. QED BY <1>3, <1>4, <2>1, <3>1
    <2>6. ~unread' => read BY <1>2, Zenon
    <2>7. QED BY <2>3, <2>4, <2>5, <2>6 DEF StringAsRead
  <1>10. QED BY <1>t, <1>8, <1>d, <1>9 DEF string

(* The other lines.                                                        *)
LEMMA LinesShown ==
  /\ \A e : (IF e \in DOMAIN CodeOf THEN CodeOf[e] ELSE Zero) \in DbgExceptions
  /\ \A k \in DbgExceptions, f \in BOOLEAN :
       [what |-> "exception", code |-> k, firstChance |-> f] \in Lines
  /\ \A w \in {"EXIT_THREAD", "EXIT_PROCESS"}, x \in ExitCodes : [what |-> w, exitCode |-> x] \in Lines
  /\ \A w \in {"nothing", "UNLOAD_DLL", "RIP"} : [what |-> w] \in Lines
  /\ \A text \in Seq(Shows) : [what |-> "loaded", text |-> text] \in Lines
  <1>1. \A e : (IF e \in DOMAIN CodeOf THEN CodeOf[e] ELSE Zero) \in DbgExceptions
    BY SomeCodes
  <1>2. \A k \in DbgExceptions, f \in BOOLEAN :
          [what |-> "exception", code |-> k, firstChance |-> f] \in Lines
    BY DEF Lines
  <1>3. \A w \in {"EXIT_THREAD", "EXIT_PROCESS"}, x \in ExitCodes :
          [what |-> w, exitCode |-> x] \in Lines
    BY DEF Lines
  <1>4. \A w \in {"nothing", "UNLOAD_DLL", "RIP"} : [what |-> w] \in Lines
    BY DEF Lines
  <1>5. \A text \in Seq(Shows) : [what |-> "loaded", text |-> text] \in Lines
    BY DEF Lines, Shows
  <1>6. QED BY <1>1, <1>2, <1>3, <1>4, <1>5

(* The name shown is a cut of the one read, or of the one read before.     *)
LEMMA NameShown ==
  ASSUME TypeOK, LoadEvent
  PROVE  /\ path' \in Seq(Shows) /\ Len(path') <= NameSize /\ image' \in Seq(Shows)
         /\ unread' \in BOOLEAN /\ shown' = [what |-> "loaded", text |-> path']
         /\ ~unread' => /\ IsPrefixOf(path', event.name)
                        /\ path' = event.name \/ Len(path') = NameSize
  <1>1. event \in DebugEvents /\ event.kind = "LOAD_DLL"
    BY DEF TypeOK, LoadEvent, Handle
  <1>2. /\ event.name \in Seq(Letters) /\ event.name \in Seq(Shows)
        /\ ~event.named => event.name = << >>
    <2>1. event.name \in Seq(Letters) BY <1>1, EventOf
    <2>2. Letters \subseteq Shows BY DEF Shows
    <2>3. event.name \in Seq(Shows) BY <2>1, <2>2
    <2>4. QED BY <1>1, <2>1, <2>3, EventOf
  <1>3. image \in Seq(Shows) BY DEF TypeOK, Shows
  <1>4. << >> \in Seq(Shows) /\ Len(<< >>) <= NameSize /\ IsPrefixOf(<< >>, << >>)
    <2>1. Len(<< >>) = 0 /\ << >> = SubSeq(<< >>, 1, 0) OBVIOUS
    <2>2. QED BY <2>1, EventsConstantsOK DEF IsPrefixOf
  <1>5. shown' = [what |-> "loaded", text |-> path'] BY DEF LoadEvent
  <1>6. CASE event.named /\ unread' = FALSE /\ image' = event.name /\ path' = Cut(image')
    BY <1>2, <1>5, <1>6, CutOf
  <1>7. CASE event.named /\ unread' = TRUE /\ image' = image /\ path' \in {<< >>, Cut(image)}
    BY <1>3, <1>4, <1>5, <1>7, CutOf
  <1>8. CASE ~event.named /\ path' = << >> /\ UNCHANGED <<image, unread>>
    BY <1>2, <1>3, <1>4, <1>5, <1>8 DEF TypeOK
  <1>9. QED BY <1>6, <1>7, <1>8 DEF LoadEvent

(* The steps of the session thread that show something.                    *)
LEMMA HandlingStep ==
  ASSUME TypeOK, CreateEvent \/ ExitEvent \/ ExceptionEvent \/ StringEvent \/ LoadEvent \/ OtherEvent
  PROVE  TypeOK' /\ ShownAsRead'
  <1>0. /\ event \in DebugEvents /\ event' = event
        /\ UNCHANGED <<life, thread, console, context, typed, address, still>>
    <2>1. event # [kind |-> "none"]
      BY DEF CreateEvent, ExitEvent, ExceptionEvent, StringEvent, LoadEvent, OtherEvent, Handle
    <2>2. QED
      BY <2>1 DEF TypeOK, CreateEvent, ExitEvent, ExceptionEvent, StringEvent, LoadEvent,
         OtherEvent, Return, consoleVars
  <1> USE DEF Handle, Return
  <1>1. CASE CreateEvent
    BY <1>0, <1>1 DEF CreateEvent, TypeOK, ShownAsRead
  <1>2. CASE ExitEvent
    <2>1. shown' \in Lines BY <1>0, <1>2, EventOf, LinesShown DEF ExitEvent
    <2>2. QED BY <1>0, <1>2, <2>1 DEF ExitEvent, TypeOK, ShownAsRead
  <1>3. CASE ExceptionEvent
    <2>1. (IF event.code \in DOMAIN CodeOf THEN CodeOf[event.code] ELSE Zero) \in DbgExceptions
      BY LinesShown
    <2>2. event.firstChance \in BOOLEAN BY <1>0, <1>3, EventOf DEF ExceptionEvent
    <2>3. shown' \in Lines BY <1>3, <2>1, <2>2, LinesShown DEF ExceptionEvent
    <2>4. QED BY <1>0, <1>3, <2>3 DEF ExceptionEvent, TypeOK, ShownAsRead
  <1>4. CASE StringEvent
    <2>1. shown' \in Lines /\ unread' \in BOOLEAN /\ damaged' \in BOOLEAN
      BY <1>4, StringShown
    <2>2. TypeOK' BY <1>0, <1>4, <2>1 DEF StringEvent, TypeOK
    <2>3. event.kind = "OUTPUT_DEBUG_STRING" BY <1>4 DEF StringEvent
    <2>4. ShownAsRead' BY <1>0, <1>4, <2>3, StringShown DEF ShownAsRead, StringAsRead
    <2>5. QED BY <2>2, <2>4
  <1>5. CASE LoadEvent
    <2>1. /\ path' \in Seq(Shows) /\ Len(path') <= NameSize /\ image' \in Seq(Shows)
          /\ unread' \in BOOLEAN /\ shown' = [what |-> "loaded", text |-> path']
          /\ ~unread' => /\ IsPrefixOf(path', event.name)
                         /\ path' = event.name \/ Len(path') = NameSize
      BY <1>5, NameShown
    <2>2. shown' \in Lines BY <2>1, LinesShown
    <2>3. TypeOK' BY <1>0, <1>5, <2>1, <2>2 DEF LoadEvent, TypeOK, Shows
    <2>4. event.kind = "LOAD_DLL" BY <1>5 DEF LoadEvent
    <2>5. shown'.text = path' BY <2>1
    <2>6. ShownAsRead' BY <1>0, <2>1, <2>4, <2>5 DEF ShownAsRead
    <2>7. QED BY <2>3, <2>6
  <1>6. CASE OtherEvent
    <2>1. shown' \in Lines BY <1>6, LinesShown DEF OtherEvent
    <2>2. QED BY <1>0, <1>6, <2>1 DEF OtherEvent, TypeOK, ShownAsRead
  <1>7. QED BY <1>1, <1>2, <1>3, <1>4, <1>5, <1>6

(* The other steps of the session thread, and those of the debuggee and of *)
(* the main thread.                                                        *)
LEMMA OtherStep ==
  ASSUME TypeOK, BuffersFreed, ShownAsRead,
         \/ \E e \in DebugEvents : WaitForDebugEvent(e)
         \/ FreeString \/ StringFault \/ StoreState \/ ContinueDebugEvent
         \/ Run \/ Console \/ UNCHANGED vars
  PROVE  TypeOK' /\ ShownAsRead'
  <1>1. ASSUME NEW e \in DebugEvents, WaitForDebugEvent(e) PROVE TypeOK' /\ ShownAsRead'
    BY <1>1 DEF WaitForDebugEvent, TypeOK, ShownAsRead, consoleVars
  <1>2. CASE FreeString
    BY <1>2 DEF FreeString, BuffersFreed, TypeOK, ShownAsRead, consoleVars
  <1>3. CASE StringFault
    BY <1>3 DEF StringFault, Handle, TypeOK, ShownAsRead, consoleVars, dataVars
  <1>4. CASE StoreState
    BY <1>4 DEF StoreState, TypeOK, ShownAsRead, consoleVars, dataVars
  <1>5. CASE ContinueDebugEvent
    BY <1>5 DEF ContinueDebugEvent, TypeOK, ShownAsRead, consoleVars, dataVars
  <1>6. CASE Run
    <2>1. /\ UNCHANGED <<sessionVars, state, console, context, displayed, typed, address>>
          /\ thread' \in Contexts /\ still' \in BOOLEAN
      BY <1>6 DEF Run
    <2>2. TypeOK' BY <2>1 DEF TypeOK, sessionVars, dataVars
    <2>3. ShownAsRead' BY <2>1 DEF ShownAsRead, sessionVars, dataVars
    <2>4. QED BY <2>2, <2>3
  <1>7. CASE Console
    <2>1. CASE Continue
      BY <2>1 DEF Continue, TypeOK, ShownAsRead, consoleVars, sessionVars, dataVars
    <2>2. CASE GetRegisters
      <3>1. ASSUME NEW seen \in Seen PROVE DbgContextFromWin32(seen) \in DbgContexts
        BY ContextBounded, EventsConstantsOK DEF TypeOK, Seen
      <3>2. context' \in DbgContexts BY <2>2, <3>1 DEF GetRegisters, TypeOK
      <3>3. still' \in BOOLEAN BY <2>2 DEF GetRegisters, Stopped
      <3>4. QED
        BY <2>2, <3>2, <3>3 DEF GetRegisters, TypeOK, ShownAsRead, sessionVars, dataVars
    <2>3. CASE DisplayRegisters
      BY <2>3 DEF DisplayRegisters, TypeOK, ShownAsRead, sessionVars, dataVars
    <2>4. ASSUME NEW text \in Texts, SetBreakpoint(text) PROVE TypeOK' /\ ShownAsRead'
      <3>1. AddressOf(text) \in 0..LongMax BY AddressBounded, EventsConstantsOK
      <3>2. QED BY <2>4, <3>1 DEF SetBreakpoint, TypeOK, ShownAsRead, sessionVars, dataVars
    <2>5. CASE Prompt
      BY <2>5, LongMaxOK DEF Prompt, TypeOK, ShownAsRead, sessionVars, dataVars
    <2>6. QED BY <1>7, <2>1, <2>2, <2>3, <2>4, <2>5 DEF Console
  <1>8. CASE UNCHANGED vars
    BY <1>8 DEF vars, TypeOK, ShownAsRead, consoleVars, sessionVars, dataVars
  <1>9. QED BY <1>1, <1>2, <1>3, <1>4, <1>5, <1>6, <1>7, <1>8

LEMMA InitShown == Init => TypeOK /\ ShownAsRead
  <1> SUFFICES ASSUME Init PROVE TypeOK /\ ShownAsRead OBVIOUS
  <1>1. context \in DbgContexts BY ContextBounded, EventsConstantsOK DEF Init
  <1>2. shown \in Lines BY LinesShown DEF Init, Nothing
  <1>3. /\ path \in Seq(Letters \cup {Junk}) /\ Len(path) <= NameSize
        /\ image \in Seq(Letters \cup {Junk})
    <2>1. << >> \in Seq(Letters \cup {Junk}) /\ Len(<< >>) = 0 OBVIOUS
    <2>2. <<Junk>> \in Seq(Letters \cup {Junk}) OBVIOUS
    <2>3. QED BY <2>1, <2>2, EventsConstantsOK DEF Init
  <1>4. ShownAsRead BY DEF Init, ShownAsRead
  <1>5. /\ life \in {"new", "running", "exited"} /\ thread \in Contexts /\ still \in BOOLEAN
        /\ pc \in {"wait", "process", "free", "store", "go", "fault"}
        /\ event \in DebugEvents \cup {[kind |-> "none"]}
        /\ {result, state} \subseteq {"continue", "suspend"}
        /\ held \in Nat /\ damaged \in BOOLEAN /\ unread \in BOOLEAN
        /\ console \in {"idle", "show", "return"} /\ typed \in Texts \cup {<< >>}
    BY DEF Init
  <1>6. address \in 0..LongMax BY LongMaxOK DEF Init
  <1>7. QED BY <1>1, <1>2, <1>3, <1>4, <1>5, <1>6 DEF TypeOK

LEMMA ShownInductive == Spec => [](TypeOK /\ ShownAsRead /\ BuffersFreed)
  <1> DEFINE Inv == TypeOK /\ ShownAsRead /\ BuffersFreed
  <1>1. Init => Inv BY InitShown, InitIInv DEF IInv
  <1>2. Inv /\ [Next]_vars => Inv'
    BY HandlingStep, OtherStep, BuffersStep DEF Next, Session
  <1> HIDE DEF Inv
  <1>3. Spec => []Inv BY <1>1, <1>2, PTL DEF Spec
  <1>4. QED BY <1>3 DEF Inv

(* The events, the buffers and the lines stay within their types: no name  *)
(* is longer than path, whether it was read or is left over.               *)
THEOREM TypeCorrect == Spec => []TypeOK
  <1>1. TypeOK /\ ShownAsRead /\ BuffersFreed => TypeOK OBVIOUS
  <1>2. QED BY <1>1, ShownInductive, PTL

(* No line about a non-empty debug string runs past its buffer; if the     *)
(* string or the name was read, the line shows it up to its first NUL, its *)
(* last character or what path can take (session.c:396-402, 416-442).      *)
THEOREM StringsShownAsRead == Spec => []ShownAsRead
  <1>1. TypeOK /\ ShownAsRead /\ BuffersFreed => ShownAsRead OBVIOUS
  <1>2. QED BY <1>1, ShownInductive, PTL

(* The terminator of a debug string falls into its buffer unless the       *)
(* string is empty (session.c:399).                                        *)
THEOREM DamageOnlyByEmpty == Spec => DamagedByEmptyOnly
  <1> DEFINE Unless == damaged' => damaged \/ (event.kind = "OUTPUT_DEBUG_STRING" /\ event.string = << >>)
  <1>1. TypeOK /\ [Next]_vars => [Unless]_vars
    <2> SUFFICES ASSUME TypeOK, Next PROVE Unless OBVIOUS
    <2>1. CASE StringEvent
      <3>1. event.kind = "OUTPUT_DEBUG_STRING" BY <2>1 DEF StringEvent, Handle
      <3>2. QED BY <2>1, <3>1, StringShown
    <2>2. CASE damaged' = damaged BY <2>2
    <2>3. QED
      BY <2>1, <2>2 DEF Next, Session, WaitForDebugEvent, CreateEvent, ExitEvent, ExceptionEvent,
         FreeString, StringFault, LoadEvent, OtherEvent, Handle, Return, StoreState,
         ContinueDebugEvent, Run, Console, Continue, GetRegisters, DisplayRegisters,
         SetBreakpoint, Prompt, sessionVars, dataVars
  <1>2. QED BY <1>1, TypeCorrect, PTL DEF Spec, DamagedByEmptyOnly

----------------------------------------------------------------------------
(* The address of b.  strtol adds up a number digit by digit from the      *)
(* left (Horner), the property adds the weighted digits.                   *)

(* The powers of the base, and the sums of the weighted digits.            *)
LEMMA WeightIs ==
  ASSUME NEW n \in Nat, NEW base \in Nat, NEW weight,
         weight = CHOOSE f : f = [i \in 0..n |-> IF i = 0 THEN 1 ELSE base * f[i - 1]]
  PROVE  /\ weight[0] = 1 /\ \A i \in 1..n : weight[i] = base * weight[i - 1]
         /\ \A i \in 0..n : weight[i] \in Nat
  <1> DEFINE step == [p \in Nat \X (1..n) |-> base * p[1]]
  <1>1. \A v \in Nat, i \in 1..n : step[<<v, i>>] = base * v /\ step[<<v, i>>] \in Nat
    OBVIOUS
  <1> HIDE DEF step
  <1>2. PICK f \in [0..n -> Nat] : Follows(f, n, 1, step)
    <2>1. 1 \in Nat OBVIOUS
    <2>2. QED BY <1>1, <2>1, RecursionExists
  <1>3. f[0] = 1 /\ \A i \in 1..n : f[i] = base * f[i - 1]
    <2>1. ASSUME NEW i \in 1..n PROVE f[i] = base * f[i - 1]
      <3>1. i - 1 \in 0..n OBVIOUS
      <3>2. f[i - 1] \in Nat BY <1>2, <3>1
      <3>3. f[i] = step[<<f[i - 1], i>>] BY <1>2 DEF Follows
      <3>4. QED BY <1>1, <3>2, <3>3
    <2>2. QED BY <1>2, <2>1 DEF Follows
  <1>4. f = [i \in 0..n |-> IF i = 0 THEN 1 ELSE base * f[i - 1]]
    <2>1. f = [i \in 0..n |-> f[i]] BY <1>2
    <2>2. \A i \in 0..n : i # 0 => i \in 1..n OBVIOUS
    <2>3. QED BY <1>3, <2>1, <2>2
  <1>5. weight = [i \in 0..n |-> IF i = 0 THEN 1 ELSE base * weight[i - 1]]
    BY <1>4, Zenon
  <1>6. weight[0] = 1
    <2>1. 0 \in 0..n OBVIOUS
    <2>2. QED BY <1>5, <2>1, Zenon
  <1>7. ASSUME NEW i \in 1..n PROVE weight[i] = base * weight[i - 1]
    <2>1. i \in 0..n /\ i # 0 OBVIOUS
    <2>2. QED BY <1>5, <2>1
  <1>8. GoOnAlike(weight, f, n) BY <1>3, <1>6, <1>7 DEF GoOnAlike
  <1>9. \A i \in 0..n : weight[i] = f[i] BY <1>8, RecursionAgrees
  <1>10. QED BY <1>2, <1>6, <1>7, <1>9

Adds(weight, sum, s, base) ==
  /\ weight[0] = 1 /\ \A i \in 1..Len(s) : weight[i] = base * weight[i - 1]
  /\ \A i \in 0..Len(s) : weight[i] \in Nat
  /\ sum[0] = 0 /\ \A i \in 1..Len(s) : sum[i] = sum[i - 1] + s[i] * weight[Len(s) - i]

LEMMA NumberIs ==
  ASSUME NEW s \in Seq(Characters), NEW base \in Nat
  PROVE  \E weight, sum : Adds(weight, sum, s, base) /\ Number(s, base) = sum[Len(s)]
  <1> DEFINE n == Len(s)
             weight == CHOOSE f : f = [i \in 0..n |-> IF i = 0 THEN 1 ELSE base * f[i - 1]]
             sum == CHOOSE f : f = [i \in 0..n |->
                                      IF i = 0 THEN 0 ELSE f[i - 1] + s[i] * weight[n - i]]
  <1>1. n \in Nat /\ \A i \in 1..n : s[i] \in Nat BY DEF Characters
  <1>2. Number(s, base) = sum[n] BY Zenon DEF Number
  <1> HIDE DEF n
  <1>3. /\ weight[0] = 1 /\ \A i \in 1..n : weight[i] = base * weight[i - 1]
        /\ \A i \in 0..n : weight[i] \in Nat
    <2> DEFINE w == weight
    <2>1. w = weight OBVIOUS
    <2> HIDE DEF w
    <2>2. QED BY <1>1, <2>1, WeightIs
  <1> HIDE DEF weight
  <1> DEFINE More(i) == s[i] * weight[n - i]
             step == [p \in Nat \X (1..n) |-> p[1] + More(p[2])]
  <1>4. ASSUME NEW i \in 1..n PROVE More(i) \in Nat
    <2>1. n - i \in 0..n BY <1>1
    <2>2. weight[n - i] \in Nat BY <1>3, <2>1
    <2>3. QED BY <1>1, <2>2
  <1>5. sum = CHOOSE f : f = [i \in 0..n |-> IF i = 0 THEN 0 ELSE f[i - 1] + More(i)]
    OBVIOUS
  <1> HIDE DEF sum, More
  <1>6. \A v \in Nat, i \in 1..n : step[<<v, i>>] = v + More(i) /\ step[<<v, i>>] \in Nat
    BY <1>4
  <1> HIDE DEF step
  <1>7. PICK f \in [0..n -> Nat] : Follows(f, n, 0, step)
    <2>1. 0 \in Nat OBVIOUS
    <2>2. QED BY <1>1, <1>6, <2>1, RecursionExists
  <1>8. f[0] = 0 /\ \A i \in 1..n : f[i] = f[i - 1] + More(i)
    <2>1. ASSUME NEW i \in 1..n PROVE f[i] = f[i - 1] + More(i)
      <3>1. i - 1 \in 0..n BY <1>1
      <3>2. f[i - 1] \in Nat BY <1>7, <3>1
      <3>3. f[i] = step[<<f[i - 1], i>>] BY <1>7 DEF Follows
      <3>4. QED BY <1>6, <3>2, <3>3
    <2>2. QED BY <1>7, <2>1 DEF Follows
  <1>9. f = [i \in 0..n |-> IF i = 0 THEN 0 ELSE f[i - 1] + More(i)]
    <2>1. f = [i \in 0..n |-> f[i]] BY <1>7
    <2>2. \A i \in 0..n : i # 0 => i \in 1..n BY <1>1
    <2>3. QED BY <1>8, <2>1, <2>2
  <1>10. sum = [i \in 0..n |-> IF i = 0 THEN 0 ELSE sum[i - 1] + More(i)]
    BY <1>5, <1>9, Zenon
  <1>11. sum[0] = 0 BY <1>1, <1>10
  <1>12. ASSUME NEW i \in 1..n PROVE sum[i] = sum[i - 1] + More(i)
    <2>1. i \in 0..n /\ i # 0 BY <1>1
    <2>2. QED BY <1>10, <2>1
  <1>13. QED BY <1>2, <1>3, <1>11, <1>12 DEF More, n, Adds

(* Digits of the base alone are read as the number they stand for.         *)
LEMMA StrtolOfDigits ==
  ASSUME NEW s \in Seq(Characters), NEW base \in {10, 16},
         \A i \in DOMAIN Skipped(s, base) : Skipped(s, base)[i] < base
  PROVE  /\ strtol(s, base) = Short(Number(Skipped(s, base), base))
         /\ Number(Skipped(s, base), base) \in Nat
  <1> DEFINE r == Skipped(s, base)
             n == Len(r)
  <1>0. r \in Seq(Characters) /\ (\A i \in DOMAIN r : r[i] < base) /\ base \in Nat
    BY DEF Skipped
  <1>d. PICK digits \in Seq(Characters) :
          /\ digits = Digits(r, base)
          /\ \E f \in [0..Len(digits) -> 0..LongMax] :
               /\ f[0] = 0 /\ strtol(s, base) = f[Len(digits)]
               /\ \A i \in 1..Len(digits) : f[i] = Short(f[i - 1] * base + digits[i])
    BY <1>0, StrtolIs
  <1> HIDE DEF r
  <1>1. r \in Seq(Characters) /\ n \in Nat BY <1>0
  <1>2. Digits(r, base) = r
    <2>1. PICK k \in 0..n : /\ Digits(r, base) = SubSeq(r, 1, k)
                            /\ k = n \/ ~(r[k + 1] < base)
      BY <1>0, DigitsAre
    <2>2. k = n
      <3> SUFFICES ASSUME k # n PROVE FALSE OBVIOUS
      <3>1. k + 1 \in DOMAIN r BY <1>1
      <3>2. QED BY <1>0, <2>1, <3>1
    <2>3. QED BY <1>1, <2>1, <2>2
  <1>3. PICK f \in [0..n -> 0..LongMax] :
          /\ f[0] = 0 /\ strtol(s, base) = f[n]
          /\ \A i \in 1..n : f[i] = Short(f[i - 1] * base + r[i])
    BY <1>2, <1>d
  <1>4a. PICK weight, sum : Adds(weight, sum, r, base) /\ Number(r, base) = sum[n]
    BY <1>0, NumberIs
  <1>4. /\ weight[0] = 1 /\ \A i \in 1..n : weight[i] = base * weight[i - 1]
        /\ \A i \in 0..n : weight[i] \in Nat
        /\ sum[0] = 0 /\ \A i \in 1..n : sum[i] = sum[i - 1] + r[i] * weight[n - i]
        /\ Number(r, base) = sum[n]
    BY <1>4a DEF Adds
  <1>5. \A i \in 1..n : r[i] \in Nat BY <1>0, DigitValues, Zenon
  <1> HIDE DEF n
  (* The value of the first digits, and what it is with strtol and in the  *)
  (* sum.                                                                  *)
  <1> DEFINE step == [p \in Nat \X (1..n) |-> p[1] * base + r[p[2]]]
  <1>6. ASSUME NEW v \in Nat, NEW i \in 1..n
        PROVE  step[<<v, i>>] = v * base + r[i] /\ step[<<v, i>>] \in Nat
    <2>1. step[<<v, i>>] = v * base + r[i] OBVIOUS
    <2>2. r[i] \in Nat BY <1>5
    <2>3. CASE base = 10 BY <2>1, <2>2, <2>3
    <2>4. CASE base = 16 BY <2>1, <2>2, <2>4
    <2>5. QED BY <2>1, <2>3, <2>4
  <1> HIDE DEF step
  <1>7. PICK h \in [0..n -> Nat] : Follows(h, n, 0, step)
    <2>1. 0 \in Nat OBVIOUS
    <2>2. QED BY <1>1, <1>6, <2>1, RecursionExists
  <1>8. h[0] = 0 BY <1>7 DEF Follows
  <1>9. ASSUME NEW i \in 1..n PROVE h[i] = h[i - 1] * base + r[i] /\ h[i - 1] \in Nat
    <2>1. i - 1 \in 0..n BY <1>1
    <2>2. h[i - 1] \in Nat BY <1>7, <2>1
    <2>3. h[i] = step[<<h[i - 1], i>>] BY <1>7 DEF Follows
    <2>4. QED BY <1>6, <2>2, <2>3
  <1> DEFINE T == {i \in Nat : i <= n => f[i] = Short(h[i]) /\ sum[i] = h[i] * weight[n - i]}
  <1>10. 0 \in T
    <2>1. Short(0) = 0 BY LongMaxOK DEF Short
    <2>2. 0 * weight[n - 0] = 0
      <3>1. n - 0 \in 0..n BY <1>1
      <3>2. weight[n - 0] \in Nat BY <1>4, <3>1
      <3>3. QED BY <3>2
    <2>3. QED BY <1>3, <1>4, <1>8, <2>1, <2>2
  <1>11. ASSUME NEW j \in Nat, j \in T PROVE j + 1 \in T
    <2> SUFFICES ASSUME j + 1 <= n
                 PROVE  f[j + 1] = Short(h[j + 1]) /\ sum[j + 1] = h[j + 1] * weight[n - (j + 1)]
      OBVIOUS
    <2> DEFINE i == j + 1
               d == r[i]
               v == h[j]
               w == weight[n - i]
    <2>1. j <= n /\ i \in 1..n /\ i - 1 = j /\ n - i \in 0..n /\ n - j \in 1..n /\ (n - j) - 1 = n - i BY <1>1
    <2>2. f[j] = Short(v) /\ sum[j] = v * weight[n - j] BY <1>11, <2>1
    <2>3. d \in Nat /\ v \in Nat /\ w \in Nat /\ h[i] = v * base + d
      BY <1>4, <1>5, <1>9, <2>1
    <2>4. f[i] = Short(f[j] * base + d) BY <1>3, <2>1
    <2>5. weight[n - j] = base * w BY <1>4, <2>1
    <2>6. sum[i] = sum[j] + d * w BY <1>4, <2>1
    <2> HIDE DEF i, d, v, w, T
    <2>7. Short(Short(v) * base + d) = Short(v * base + d)
      <3>1. CASE base = 10 BY <2>3, <3>1, LongMaxOK DEF Short
      <3>2. CASE base = 16 BY <2>3, <3>2, LongMaxOK DEF Short
      <3>3. QED BY <3>1, <3>2
    <2>8. v * (base * w) + d * w = (v * base + d) * w
      <3>1. CASE base = 10 BY <2>3, <3>1
      <3>2. CASE base = 16 BY <2>3, <3>2
      <3>3. QED BY <3>1, <3>2
    <2>9. QED BY <2>2, <2>3, <2>4, <2>5, <2>6, <2>7, <2>8 DEF i, w
  <1>12. Nat \subseteq T
    <2> HIDE DEF T
    <2>1. QED BY <1>10, <1>11, SetInduction
  <1>13. n \in Nat /\ n <= n /\ n - n = 0 /\ n \in 0..n BY <1>1
  <1>14. f[n] = Short(h[n]) /\ sum[n] = h[n] * weight[0] BY <1>12, <1>13
  <1>15. h[n] \in Nat /\ h[n] * 1 = h[n] BY <1>7, <1>13
  <1>16. QED BY <1>3, <1>4, <1>14, <1>15 DEF r

(* What is typed with no digit of the base in front is read as 0.          *)
LEMMA StrtolOfNone ==
  ASSUME NEW s \in Seq(Characters), s # << >>, ~(s[1] < 10)
  PROVE  strtol(s, 10) = 0
  <1>1. Len(s) \in Nat /\ Len(s) # 0 /\ Skipped(s, 10) = s BY DEF Skipped
  <1>2. PICK k \in 0..Len(s) : /\ Digits(s, 10) = SubSeq(s, 1, k)
                               /\ \A j \in 1..k : s[j] < 10
    BY DigitsAre
  <1>3. k = 0
    <2> SUFFICES ASSUME k # 0 PROVE FALSE OBVIOUS
    <2>1. 1 \in 1..k BY <1>1
    <2>2. QED BY <1>2, <2>1
  <1>4. Digits(s, 10) = << >> BY <1>2, <1>3
  <1>5. QED BY <1>1, <1>4, StrtolIs

(* 0x is, in decimal, a 0.                                                 *)
LEMMA StrtolOfPrefix ==
  ASSUME NEW s \in Seq(Characters), Prefixed(s)
  PROVE  strtol(s, 10) = 0
  <1>1. Len(s) \in Nat /\ Len(s) > 2 /\ s[1] = 0 /\ s[2] = 16 /\ Skipped(s, 10) = s
    BY DEF Prefixed, X, Skipped
  <1>2. PICK k \in 0..Len(s) : /\ Digits(s, 10) = SubSeq(s, 1, k)
                               /\ \A j \in 1..k : s[j] < 10
                               /\ k = Len(s) \/ ~(s[k + 1] < 10)
    BY DigitsAre
  <1>3. k = 1
    <2>1. CASE k = 0 BY <1>1, <1>2, <2>1
    <2>2. CASE k > 1
      <3>1. 2 \in 1..k BY <2>2
      <3>2. QED BY <1>1, <1>2, <3>1
    <2>3. QED BY <2>1, <2>2
  <1>4. Digits(s, 10) = <<0>> BY <1>1, <1>2, <1>3
  <1>5. PICK f \in [0..1 -> 0..LongMax] :
          f[0] = 0 /\ strtol(s, 10) = f[1] /\ f[1] = Short(f[0] * 10 + 0)
    <2>1. Len(<<0>>) = 1 /\ <<0>>[1] = 0 OBVIOUS
    <2>2. PICK f \in [0..1 -> 0..LongMax] :
            /\ f[0] = 0 /\ strtol(s, 10) = f[1]
            /\ \A i \in 1..1 : f[i] = Short(f[i - 1] * 10 + <<0>>[i])
      BY <1>1, <1>4, <2>1, StrtolIs
    <2>3. 1 \in 1..1 /\ 1 - 1 = 0 OBVIOUS
    <2>4. f[1] = Short(f[0] * 10 + 0) BY <2>1, <2>2, <2>3
    <2>5. QED BY <2>2, <2>4
  <1>6. Short(0 * 10 + 0) = 0 BY LongMaxOK DEF Short
  <1>7. QED BY <1>5, <1>6

LEMMA AddressIs ==
  ASSUME NEW s \in Seq(Characters)
  PROVE  /\ (\A i \in DOMAIN s : s[i] < 10) /\ Number(s, 10) # 0
              => AddressOf(s) = Short(Number(s, 10))
         /\ (\A i \in DOMAIN s : s[i] < 16) /\ s # << >> /\ s[1] > 9
              => AddressOf(s) = Short(Number(s, 16))
         /\ Prefixed(s) /\ (\A i \in DOMAIN SubSeq(s, 3, Len(s)) : SubSeq(s, 3, Len(s))[i] < 16)
              => AddressOf(s) = Short(Number(SubSeq(s, 3, Len(s)), 16))
  <1>1. ASSUME \A i \in DOMAIN s : s[i] < 10, Number(s, 10) # 0
        PROVE  AddressOf(s) = Short(Number(s, 10))
    <2>1. Skipped(s, 10) = s BY DEF Skipped
    <2>2. strtol(s, 10) = Short(Number(s, 10)) /\ Number(s, 10) \in Nat
      BY <1>1, <2>1, StrtolOfDigits
    <2>3. Short(Number(s, 10)) # 0 BY <1>1, <2>2, LongMaxOK DEF Short
    <2>4. QED BY <2>2, <2>3 DEF AddressOf
  <1>2. ASSUME \A i \in DOMAIN s : s[i] < 16, s # << >>, s[1] > 9
        PROVE  AddressOf(s) = Short(Number(s, 16))
    <2>1. s[1] \in Nat BY <1>2 DEF Characters
    <2>2. ~(s[1] < 10) /\ Skipped(s, 16) = s BY <1>2, <2>1 DEF Skipped, Prefixed
    <2>3. strtol(s, 10) = 0 BY <1>2, <2>2, StrtolOfNone
    <2>4. strtol(s, 16) = Short(Number(s, 16)) BY <1>2, <2>2, StrtolOfDigits
    <2>5. QED BY <2>3, <2>4 DEF AddressOf
  <1>3. ASSUME Prefixed(s), NEW r, r = SubSeq(s, 3, Len(s)), \A i \in DOMAIN r : r[i] < 16
        PROVE  AddressOf(s) = Short(Number(r, 16))
    <2>1. Skipped(s, 16) = r BY <1>3 DEF Skipped
    <2>2. strtol(s, 10) = 0 BY <1>3, StrtolOfPrefix
    <2>3. strtol(s, 16) = Short(Number(r, 16)) BY <1>3, <2>1, StrtolOfDigits
    <2>4. QED BY <2>2, <2>3 DEF AddressOf
  <1>4. QED BY <1>1, <1>2, <1>3

(* The address that b gets (cmd.c:142-145): a number other than 0 of       *)
(* decimal digits alone is taken as decimal; hexadecimal digits alone, the *)
(* first of them a letter or after 0x, as hexadecimal; and what is beyond  *)
(* the largest long gives the largest long.  For any texts and any largest *)
(* long; other texts are left open.                                        *)
THEOREM AddressesTyped == Spec => []AddressAsTyped
  <1> DEFINE Inv == typed \in Seq(Characters)
                    /\ address = IF typed = << >> THEN 0 ELSE AddressOf(typed)
  <1>1. Inv => AddressAsTyped
    <2> SUFFICES ASSUME Inv PROVE AddressAsTyped OBVIOUS
    <2>1. CASE typed # << >>
      <3>1. address = AddressOf(typed) BY <2>1
      <3>2. QED BY <3>1, AddressIs DEF AddressAsTyped, Short
    <2>2. CASE typed = << >>
      <3>1. Number(typed, 10) = 0
        <4>1. Len(typed) = 0 BY <2>2
        <4>2. typed \in Seq(Characters) OBVIOUS
        <4>3. QED BY <4>1, <4>2, NumberIs DEF Adds
      <3>2. ~Prefixed(typed) BY <2>2 DEF Prefixed
      <3>3. QED BY <2>2, <3>1, <3>2 DEF AddressAsTyped
    <2>3. QED BY <2>1, <2>2
  <1>2. Init => Inv BY DEF Init
  <1>3. Inv /\ [Next]_vars => Inv'
    <2> SUFFICES ASSUME Inv, [Next]_vars PROVE Inv' OBVIOUS
    <2>1. ASSUME NEW text \in Texts, SetBreakpoint(text) PROVE Inv'
      <3>1. typed' = text /\ address' = AddressOf(text) /\ text \in Seq(Characters)
        BY <2>1, EventsConstantsOK DEF SetBreakpoint
      <3>2. AddressOf(<< >>) = 0
        <4> DEFINE none == << >>
        <4>1. none \in Seq(Characters) /\ Len(none) = 0 /\ \A k \in 0..0 : SubSeq(none, 1, k) = none
          OBVIOUS
        <4>2. ASSUME NEW base \in {10, 16} PROVE strtol(none, base) = 0
          <5>1. base \in Nat /\ Skipped(none, base) = none BY DEF Skipped, Prefixed
          <5> HIDE DEF none
          <5>2. Digits(none, base) = none BY <4>1, <5>1, DigitsAre
          <5>3. PICK digits \in Seq(Characters) :
                  /\ digits = Digits(Skipped(none, base), base)
                  /\ \E f \in [0..Len(digits) -> 0..LongMax] :
                       /\ f[0] = 0 /\ strtol(none, base) = f[Len(digits)]
                       /\ \A i \in 1..Len(digits) : f[i] = Short(f[i - 1] * base + digits[i])
            BY <4>1, <5>1, StrtolIs, Zenon
          <5>4. digits = none BY <5>1, <5>2, <5>3
          <5>5. QED BY <4>1, <5>3, <5>4
        <4>3. QED BY <4>2 DEF AddressOf
      <3>3. QED BY <3>1, <3>2
    <2>2. CASE Prompt BY <2>2 DEF Prompt
    <2>3. CASE Session \/ Run \/ Continue \/ GetRegisters \/ DisplayRegisters \/ UNCHANGED vars
      <3>1. typed' = typed /\ address' = address
        BY <2>3 DEF Session, WaitForDebugEvent, CreateEvent, ExitEvent, ExceptionEvent, StringEvent,
           FreeString, StringFault, LoadEvent, OtherEvent, Handle, Return, StoreState,
           ContinueDebugEvent, Run, Continue, GetRegisters, DisplayRegisters, vars, consoleVars
      <3>2. QED BY <3>1
    <2>4. QED BY <2>1, <2>2, <2>3 DEF Next, Console
  <1> HIDE DEF Inv
  <1>4. QED BY <1>1, <1>2, <1>3, PTL DEF Spec
=============================================================================
