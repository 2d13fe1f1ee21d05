------------------------------- MODULE Events -------------------------------
(***************************************************************************)
(* What passes between the debuggee and the user of a session: the session *)
(* thread turns a debug event of Windows into one of NDBG and shows it     *)
(* (DbgSessionProcessEvent, DbgEventProc), while the main thread runs the  *)
(* commands c, r and b.  When the two threads create and end the session,  *)
(* and how q ends it, is modelled in Session; here the session lives, and  *)
(* the data are what matters.                                              *)
(***************************************************************************)
EXTENDS Context, Address

CONSTANTS
  Contexts,    \* the registers the debuggee may have
  Exceptions,  \* the codes of the exceptions it may raise
  Letters,     \* the characters of its strings, besides NUL
  Strings,     \* the strings it may output, with the NUL that counts
  Names,       \* the names its libraries may have
  NameSize,    \* the size of "path" without its NUL, 63 in the code
  ExitCodes,
  Texts        \* the arguments of b

Nul  == "nul"
Junk == "junk"  \* memory nobody has written

ASSUME EventsConstantsOK ==
  /\ Contexts \subseteq Win32Contexts /\ Contexts # {}
  /\ {Nul, Junk} \cap Letters = {}
  /\ Strings \subseteq Seq(Letters \cup {Nul}) /\ Names \subseteq Seq(Letters)
  /\ NameSize \in Nat /\ Texts \subseteq Seq(Characters)

VARIABLES
  life,       \* of the debuggee: "new", "running", "exited"
  thread,     \* the registers of its first thread
  pc,         \* of the session thread
  event,      \* the debug event it took last
  path, image, \* its two buffers for names, where they last were
  result,     \* the state that DbgSessionProcessEvent returns
  state,      \* session->state
  held,       \* how many string buffers are allocated
  damaged,    \* has the heap been written out of bounds?
  unread,     \* history: could the event's string or name not be read?
  shown,      \* the last line shown for an event
  console,    \* of the main thread
  context,    \* the context of r, where it last was
  displayed,  \* the registers that r has displayed
  typed, address, \* the argument of b and the address it becomes
  still       \* history: has the debuggee been stopped ever since r was typed?

dataVars    == <<path, image, held, damaged, unread, shown>>
sessionVars == <<life, pc, event, result, dataVars>>
consoleVars == <<console, context, displayed, typed, address, still>>
vars == <<thread, sessionVars, state, consoleVars>>

(* The exceptions DbgSessionProcessEvent knows, and how it calls them.     *)
CodeOf ==
  [ACCESS_VIOLATION |-> "SEGMENT", ARRAY_BOUNDS_EXCEEDED |-> "BOUNDS",
   BREAKPOINT |-> "BREAKPOINT", DATATYPE_MISALIGNMENT |-> "ALIGNMENT",
   FLT_DENORMAL_OPERAND |-> "FLT_DENORMAL_OPERAND",
   FLT_DIVIDE_BY_ZERO |-> "FLT_DIVIDE", FLT_INEXACT_RESULT |-> "FLT_INEXACT_RESULT",
   FLT_INVALID_OPERATION |-> "FLT_INVALID_OP", FLT_OVERFLOW |-> "FLT_OVERFLOW",
   FLT_STACK_CHECK |-> "FLT_STACK_CHECK", FLT_UNDERFLOW |-> "FLT_UNDERFLOW",
   ILLEGAL_INSTRUCTION |-> "INVALID_OPCODE", INT_DIVIDE_BY_ZERO |-> "INT_DIVIDE",
   INT_OVERFLOW |-> "INT_OVERFLOW", SINGLE_STEP |-> "SINGLE_STEP",
   STACK_OVERFLOW |-> "STACK", IN_PAGE_ERROR |-> "GPF", INVALID_DISPOSITION |-> "GPF",
   NONCONTINUABLE_EXCEPTION |-> "GPF", PRIV_INSTRUCTION |-> "GPF"]

(* The code in a cleared descriptor: it is the 0 of dbgException.          *)
Zero == "INT_DIVIDE"

DbgExceptions == {CodeOf[e] : e \in DOMAIN CodeOf}

Unnamed == [kind |-> "LOAD_DLL", named |-> FALSE, name |-> << >>]

DebugEvents ==
  [kind : {"CREATE_PROCESS", "CREATE_THREAD", "RIP", "UNLOAD_DLL"}]
    \cup [kind : {"EXCEPTION"}, code : Exceptions, firstChance : BOOLEAN]
    \cup [kind : {"EXIT_THREAD", "EXIT_PROCESS"}, exitCode : ExitCodes]
    \cup [kind : {"OUTPUT_DEBUG_STRING"}, string : Strings]
    \cup [kind : {"LOAD_DLL"}, named : {TRUE}, name : Names] \cup {Unnamed}

Nothing == [what |-> "nothing"]

Init ==
  /\ life = "new" /\ thread \in Contexts
  /\ pc = "wait" /\ event = [kind |-> "none"] /\ result = "continue"
  /\ state = "continue"
  /\ path = << >> /\ image = <<Junk>>
  /\ held = 0 /\ damaged = FALSE /\ unread = FALSE /\ shown = Nothing
  /\ \E garbage \in Contexts : context = DbgContextFromWin32(garbage)
  /\ console = "idle" /\ displayed = << >>
  /\ typed = << >> /\ address = 0 /\ still = FALSE

----------------------------------------------------------------------------
(* The session thread: it takes an event unless it is suspended, handles   *)
(* it, stores the state this gives, and lets the debuggee go on.           *)

(* Faulty variants, like this one, are what the properties are tested      *)
(* against; they are no part of the model.                                 *)
WaitForDebugEventAlways(e) ==
  /\ pc = "wait"
  /\ IF e.kind = "CREATE_PROCESS" THEN life = "new" ELSE life = "running"
  /\ life' = IF e.kind = "EXIT_PROCESS" THEN "exited" ELSE "running"
  /\ event' = e /\ unread' = FALSE
  /\ pc' = "process"
  /\ UNCHANGED <<thread, result, path, image, held, damaged, shown, state, consoleVars>>

WaitForDebugEvent(e) ==
  /\ pc = "wait" /\ state = "continue"
  /\ IF e.kind = "CREATE_PROCESS" THEN life = "new" ELSE life = "running"
  /\ life' = IF e.kind = "EXIT_PROCESS" THEN "exited" ELSE "running"
  /\ event' = e /\ unread' = FALSE
  /\ pc' = "process"
  /\ UNCHANGED <<thread, result, path, image, held, damaged, shown, state, consoleVars>>

Handle(kind) == pc = "process" /\ event.kind = kind

Return(s) ==
  /\ result' = s
  /\ pc' = "store"
  /\ UNCHANGED <<life, thread, event, consoleVars>>

CreateEvent ==
  /\ Handle("CREATE_PROCESS") \/ Handle("CREATE_THREAD")
  /\ UNCHANGED <<path, image, held, damaged, unread, shown, state>>
  /\ Return("continue")

ExitEvent ==
  /\ Handle("EXIT_THREAD") \/ Handle("EXIT_PROCESS")
  /\ shown' = [what |-> event.kind, exitCode |-> event.exitCode]
  /\ UNCHANGED <<path, image, held, damaged, unread, state>>
  /\ Return("continue")

(* The descriptor is cleared before every event, and an exception that the *)
(* code does not know keeps the cleared code.  DbgProcessException halts   *)
(* the session; the loop will store it again.                              *)
ExceptionEvent ==
  /\ Handle("EXCEPTION")
  /\ shown' = [what |-> "exception", firstChance |-> event.firstChance,
               code |-> IF event.code \in DOMAIN CodeOf THEN CodeOf[event.code] ELSE Zero]
  /\ state' = "suspend"
  /\ UNCHANGED <<path, image, held, damaged, unread>>
  /\ Return("suspend")

(* What %s shows of a buffer: up to the first NUL, or past its end.        *)
TextIn(buffer) ==
  IF \E i \in DOMAIN buffer : buffer[i] = Nul
  THEN {SubSeq(buffer, 1, Cardinality({i \in DOMAIN buffer : \A j \in 1..i : buffer[j] # Nul}))}
  ELSE {buffer, Append(buffer, Junk)}

(* What the buffer for a string holds after DBG_REQ_READ: the string, or   *)
(* what malloc left there.                                                 *)
Buffers(read) ==
  IF read THEN {event.string} ELSE [DOMAIN event.string -> {Nul, Junk}]

(* The buffer is ended in its i-th cell, counted from 1, and shown: a cell *)
(* that malloc did not give is somebody else's.                            *)
ShowString(buffer, i) ==
  /\ \E text \in TextIn([j \in DOMAIN buffer |-> IF j = i THEN Nul ELSE buffer[j]]) :
       shown' = [what |-> "string", text |-> text]
  /\ damaged' = (damaged \/ i \notin DOMAIN buffer)

StringReturnedEarly ==
  /\ Handle("OUTPUT_DEBUG_STRING")
  /\ \E read \in BOOLEAN : \E buffer \in Buffers(read) :
       /\ unread' = ~read
       /\ ShowString(buffer, Len(buffer))
  /\ held' = held + 1
  /\ UNCHANGED <<path, image, state>>
  /\ Return("continue")

StringTerminatedBehind ==
  /\ Handle("OUTPUT_DEBUG_STRING")
  /\ \E read \in BOOLEAN : \E buffer \in Buffers(read) :
       unread' = ~read /\ ShowString(buffer, Len(buffer) + 1)
  /\ held' = held + 1
  /\ result' = "continue"
  /\ pc' = "free"
  /\ UNCHANGED <<life, thread, event, path, image, state, consoleVars>>

(* The buffer is allocated, read, ended at its length - 1, counted from 0, *)
(* and shown by the event procedure.                                       *)
StringEvent ==
  /\ Handle("OUTPUT_DEBUG_STRING")
  /\ \E read \in BOOLEAN : \E buffer \in Buffers(read) :
       /\ unread' = ~read
       /\ ShowString(buffer, Len(buffer))
  /\ held' = held + 1
  /\ result' = "continue"
  /\ pc' = "free"
  /\ UNCHANGED <<life, thread, event, path, image, state, consoleVars>>

(* Only then it is freed, and the state returned.                          *)
FreeString ==
  /\ pc = "free"
  /\ held' = held - 1
  /\ pc' = "store"
  /\ UNCHANGED <<life, thread, event, result, path, image, damaged, unread, shown,
                 state, consoleVars>>

(* malloc is not checked: the read fails and the terminator goes through   *)
(* the null pointer.  What a damaged heap leads to is taken for the same.  *)
StringFault ==
  /\ Handle("OUTPUT_DEBUG_STRING")
  /\ pc' = "fault"
  /\ UNCHANGED <<life, thread, event, result, dataVars, state, consoleVars>>

(* As much of a name as path can take with its NUL.                        *)
Cut(name) == SubSeq(name, 1, IF Len(name) < NameSize THEN Len(name) ELSE NameSize)

LoadUncleared ==
  /\ Handle("LOAD_DLL")
  /\ IF event.named
     THEN \/ unread' = FALSE /\ image' = event.name /\ path' = Cut(image')
          \/ unread' = TRUE /\ image' = image /\ path' \in {<< >>, Cut(image)}
     ELSE UNCHANGED <<path, image, unread>>
  /\ shown' = [what |-> "loaded", text |-> path']
  /\ UNCHANGED <<held, damaged, state>>
  /\ Return("continue")

LoadUncut ==
  /\ Handle("LOAD_DLL")
  /\ IF event.named
     THEN \/ unread' = FALSE /\ image' = event.name /\ path' = image'
          \/ unread' = TRUE /\ image' = image /\ path' \in {<< >>, image}
     ELSE path' = << >> /\ UNCHANGED <<image, unread>>
  /\ shown' = [what |-> "loaded", text |-> path']
  /\ UNCHANGED <<held, damaged, state>>
  /\ Return("continue")

(* path is cleared.  If the pointer to the name cannot be read it stays    *)
(* so; if the name cannot be read, it gets what image held before: the     *)
(* memset of image has its arguments swapped and clears nothing.           *)
LoadEvent ==
  /\ Handle("LOAD_DLL")
  /\ IF event.named
     THEN \/ unread' = FALSE /\ image' = event.name /\ path' = Cut(image')
          \/ unread' = TRUE /\ image' = image /\ path' \in {<< >>, Cut(image)}
     ELSE path' = << >> /\ UNCHANGED <<image, unread>>
  /\ shown' = [what |-> "loaded", text |-> path']
  /\ UNCHANGED <<held, damaged, state>>
  /\ Return("continue")

(* Nothing is ever put into libraryList, so no library is found there.     *)
OtherEvent ==
  /\ Handle("UNLOAD_DLL") \/ Handle("RIP")
  /\ shown' = [what |-> event.kind]
  /\ UNCHANGED <<path, image, held, damaged, unread, state>>
  /\ Return("continue")

StoreState ==
  /\ pc = "store"
  /\ state' = result
  /\ pc' = "go"
  /\ UNCHANGED <<life, thread, event, result, dataVars, consoleVars>>

ContinueDebugEvent ==
  /\ pc = "go"
  /\ pc' = "wait"
  /\ UNCHANGED <<life, thread, event, result, dataVars, state, consoleVars>>

Session ==
  \/ \E e \in DebugEvents : WaitForDebugEvent(e)
  \/ CreateEvent \/ ExitEvent \/ ExceptionEvent \/ StringEvent \/ FreeString
  \/ StringFault \/ LoadEvent \/ OtherEvent
  \/ StoreState \/ ContinueDebugEvent

----------------------------------------------------------------------------
(* The debuggee runs, and its registers change, unless an event of its     *)
(* waits for an answer; that the session is halted does not stop it.       *)
Stopped == life # "running" \/ pc # "wait"

Run ==
  /\ ~Stopped
  /\ thread' \in Contexts
  /\ still' = FALSE
  /\ UNCHANGED <<sessionVars, state, console, context, displayed, typed, address>>

----------------------------------------------------------------------------
(* The main thread.                                                        *)

Typed == console = "idle" /\ pc # "fault"

(* c: DbgConsoleContinue, when ResumeThread succeeds.                      *)
Continue ==
  /\ Typed
  /\ state' = "continue"
  /\ UNCHANGED <<thread, sessionVars, consoleVars>>

(* What GetThreadContext yields.  Nothing suspends the thread before: while *)
(* it runs, any registers may come back.                                   *)
Seen == IF Stopped THEN {thread} ELSE Contexts

GetRegistersUnchecked ==
  /\ Typed
  /\ console' = "show" /\ still' = Stopped
  /\ \/ \E seen \in Seen : context' = DbgContextFromWin32(seen)
     \/ context' = context
  /\ UNCHANGED <<thread, sessionVars, state, displayed, typed, address>>

(* r: GetThreadContext may fail, and then nothing is displayed.            *)
GetRegisters ==
  /\ Typed
  /\ still' = Stopped
  /\ \/ console' = "show" /\ \E seen \in Seen : context' = DbgContextFromWin32(seen)
     \/ console' = "return" /\ context' = context
  /\ UNCHANGED <<thread, sessionVars, state, displayed, typed, address>>

DisplayRegisters ==
  /\ console = "show" /\ pc # "fault"
  /\ displayed' = DbgDisplayContext(context)
  /\ console' = "return"
  /\ UNCHANGED <<thread, sessionVars, state, context, typed, address, still>>

(* b: the address that DbgSetBreakpoint gets.                              *)
SetBreakpoint(text) ==
  /\ Typed
  /\ typed' = text /\ address' = AddressOf(text)
  /\ console' = "return"
  /\ UNCHANGED <<thread, sessionVars, state, context, displayed, still>>

Prompt ==
  /\ console = "return" /\ pc # "fault"
  /\ console' = "idle"
  /\ displayed' = << >> /\ typed' = << >> /\ address' = 0
  /\ UNCHANGED <<thread, sessionVars, state, context, still>>

Console ==
  \/ Continue \/ GetRegisters \/ DisplayRegisters \/ Prompt
  \/ \E text \in Texts : SetBreakpoint(text)

Next == Session \/ Run \/ Console

Spec == Init /\ [][Next]_vars

----------------------------------------------------------------------------
Chars == Letters \cup {Nul, Junk}

Lines ==
  [what : {"nothing", "UNLOAD_DLL", "RIP"}]
    \cup [what : {"exception"}, code : DbgExceptions, firstChance : BOOLEAN]
    \cup [what : {"EXIT_THREAD", "EXIT_PROCESS"}, exitCode : ExitCodes]
    \cup [what : {"string", "loaded"}, text : Seq(Letters \cup {Junk})]

TypeOK ==
  /\ life \in {"new", "running", "exited"} /\ thread \in Contexts
  /\ pc \in {"wait", "process", "free", "store", "go", "fault"}
  /\ event \in DebugEvents \cup {[kind |-> "none"]}
  /\ path \in Seq(Letters \cup {Junk}) /\ Len(path) <= NameSize
  /\ image \in Seq(Letters \cup {Junk})
  /\ {result, state} \subseteq {"continue", "suspend"}
  /\ held \in Nat /\ damaged \in BOOLEAN /\ unread \in BOOLEAN /\ shown \in Lines
  /\ console \in {"idle", "show", "return"} /\ context \in DbgContexts
  /\ typed \in Texts \cup {<< >>} /\ address \in 0..LongMax /\ still \in BOOLEAN

(* While the session is halted, what stands last on the screen is the      *)
(* exception that halted it, and no later event has been taken: whatever   *)
(* the main thread stores, and whenever.                                   *)
HaltedOnShown ==
  state = "suspend" =>
    /\ event.kind = "EXCEPTION" /\ pc # "process"
    /\ shown.what = "exception" /\ shown.firstChance = event.firstChance

IsPrefixOf(s, t) == \E n \in 0..Len(t) : s = SubSeq(t, 1, n)

(* A line about a debug string never runs past the buffer of the string,   *)
(* be it read or not; if it was read, it shows the string up to its first  *)
(* NUL, or all of it but the last character, which the code overwrites     *)
(* (session.c:399).  A line about a library whose name was read shows the  *)
(* name, or as much of it as path can take (session.c:433).  Nothing is    *)
(* left over from another library, nothing shown from behind a buffer.     *)
(* (An empty string has no buffer; a name that cannot be read may be that  *)
(* of another library.)                                                    *)
ShownAsRead ==
  pc \in {"free", "store", "go"} =>
    /\ event.kind = "OUTPUT_DEBUG_STRING" /\ event.string # << >> =>
         /\ Len(shown.text) < Len(event.string)
         /\ ~unread =>
              /\ IsPrefixOf(shown.text, event.string)
              /\ \/ Len(shown.text) + 1 = Len(event.string)
                 \/ event.string[Len(shown.text) + 1] = Nul
    /\ event.kind = "LOAD_DLL" /\ ~unread =>
         /\ IsPrefixOf(shown.text, event.name)
         /\ shown.text = event.name \/ Len(shown.text) = NameSize

(* Every buffer is freed, once, before its event is answered.              *)
BuffersFreed == held = IF pc = "free" THEN 1 ELSE 0

(* The terminator of a debug string, whatever was read and however long it *)
(* is, falls into its buffer: only an empty string, the length of which is *)
(* a 0 that session.c:399 counts down from, has it written in front.       *)
DamagedByEmptyOnly ==
  [][damaged' => damaged \/ (event.kind = "OUTPUT_DEBUG_STRING" /\ event.string = << >>)]_vars

(* What r displays is what the debuggee has in its registers, the lower    *)
(* half of each segment register, as long as it stands still: events taken *)
(* and answered meanwhile do not change that, nor is anything shown that   *)
(* an earlier r has read.  (Of a debuggee that runs r may show anything.)  *)
RegistersCurrent ==
  still => \A r \in DOMAIN displayed :
             displayed[r] = IF r \in Segment THEN thread[r] % Half ELSE thread[r]

(* The number that digits stand for.                                       *)
Number(s, base) ==
  LET n == Len(s)
      weight[i \in 0..n] == IF i = 0 THEN 1 ELSE base * weight[i - 1]
      sum[i \in 0..n]    == IF i = 0 THEN 0 ELSE sum[i - 1] + s[i] * weight[n - i]
  IN sum[n]

(* A number other than 0 typed in decimal digits is taken for what it is;  *)
(* so is one typed in hexadecimal digits after 0x or beginning with a      *)
(* letter; one beyond the largest long becomes the largest long.  (Digits  *)
(* that go on as letters, or any other character, are left open.)          *)
AddressAsTyped ==
  LET Short(n) == IF n < LongMax THEN n ELSE LongMax
      All(s, base) == \A i \in DOMAIN s : s[i] < base
  IN /\ All(typed, 10) /\ Number(typed, 10) # 0 => address = Short(Number(typed, 10))
     /\ All(typed, 16) /\ typed # << >> /\ typed[1] > 9
          => address = Short(Number(typed, 16))
     /\ Prefixed(typed) /\ All(SubSeq(typed, 3, Len(typed)), 16)
          => address = Short(Number(SubSeq(typed, 3, Len(typed)), 16))
=============================================================================
