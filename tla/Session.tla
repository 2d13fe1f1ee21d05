------------------------------- MODULE Session -------------------------------
(***************************************************************************)
(* The debugger proper: two threads that share one dbgSession block.       *)
(*                                                                         *)
(*  - the MAIN thread parses the command line, waits for the session to    *)
(*    be published, registers the event procedure and then runs the        *)
(*    console (main.c, dbg.c, cmd.c);                                      *)
(*  - the SESSION thread creates the debuggee, publishes the session and   *)
(*    pumps debug events until it reads DBG_STATE_QUIT (session.c);        *)
(*  - the DEBUGGEE, with the debug port of the operating system, is the    *)
(*    environment.                                                         *)
(*                                                                         *)
(* Every step is one access to memory the threads share, or one operating  *)
(* system call.  There is no lock around the block: DbgRegisterEventProc   *)
(* has its mutex commented out (session.c:35).                             *)
(***************************************************************************)

CONSTANTS
  WithProgram,  \* the values that "argv[1] is given" may take
  Failing,      \* the operating system calls that may fail
  HoistedLoad   \* TRUE: the build may keep session->state, which is not
                \* volatile, in a register while the event loop spins

FallibleCalls == {"CreateThread", "CreateProcess", "malloc", "SymInitialize",
                  "ResumeThread"}

ASSUME ConstantsOK ==
  /\ WithProgram \subseteq BOOLEAN
  /\ Failing \subseteq FallibleCalls
  /\ HoistedLoad \in BOOLEAN

Null       == "null"
TheSession == "session"

(* Debug events the session hands to session->proc, and those it handles   *)
(* itself because they are specific to Windows.                            *)
ProcEvents     == {"createProcess", "createThread", "exception",
                   "exitThread", "exitProcess", "print"}
InternalEvents == {"loadDll", "unloadDll", "rip"}
Events         == ProcEvents \cup InternalEvents

States   == {"CONTINUE", "SUSPEND", "QUIT"}
Commands == {"c", "b", "r", "q"}

VARIABLES
  mainPc,     \* where the main thread is; a command's name while it runs
  held,       \* the session pointer the main thread works on
  sessPc,     \* where the session thread is
  event,      \* its local dbgEvent, Null outside the handling of an event
  ret,        \* the value DbgSessionProcessEvent returned
  current,    \* _currentSession
  block,      \* the dbgSession block on the heap: "unborn", "live", "freed"
  state,      \* session->state
  proc,       \* session->proc
  handles,    \* the debuggee's process and thread handles (and pid)
  symHandle,  \* the handle the symbol handler was initialized for
  debuggee,   \* "none", "suspended", "running", "stopped", "gone"
  created,    \* the debuggee has raised its CREATE_PROCESS event
  attached,   \* the session thread is the debugger of the debuggee
  port        \* the debug event raised and not yet taken, or Null

mainVars == <<mainPc, held>>
sessVars == <<sessPc, event, ret>>
blockVars == <<current, block, state, proc>>
osVars == <<handles, symHandle, debuggee, created, attached, port>>
vars == <<mainVars, sessVars, blockVars, osVars>>

MainPcs == {"start", "create", "await", "register", "console", "eof",
            "storeContinue", "storeQuit", "exit", "exited", "crashed"}
             \cup Commands
Pumping  == {"checkQuit", "checkContinue", "spin", "wait"}
Handling == {"dispatch", "store", "resume"}
Teardown == {"detach", "close", "symFree", "clear", "free", "done"}
SessPcs  == {"none", "createProcess", "new", "symbols", "publish", "failed"}
              \cup Pumping \cup Handling \cup Teardown

Init ==
  /\ mainPc = "start" /\ held = Null
  /\ sessPc = "none" /\ event = Null /\ ret = "CONTINUE"
  /\ current = Null /\ block = "unborn" /\ state = "CONTINUE" /\ proc = Null
  /\ handles = "none" /\ symHandle = Null
  /\ debuggee = "none" /\ created = FALSE /\ attached = FALSE /\ port = Null

(* main returning, or a fault in any thread, ends every thread.            *)
Alive == mainPc \notin {"exited", "crashed"}

----------------------------------------------------------------------------
(* Start-up: DbgParseCommandLine, DbgCreateSession, DbgInitialize.         *)

ParseCommandLine ==
  /\ mainPc = "start"
  /\ \E given \in WithProgram : mainPc' = IF given THEN "create" ELSE "console"
  /\ UNCHANGED <<held, sessVars, blockVars, osVars>>

(* The result of CreateThread is ignored.                                  *)
CreateSession ==
  /\ mainPc = "create"
  /\ \/ current = Null /\ sessPc' = "createProcess"
     \/ /\ current # Null \/ "CreateThread" \in Failing
        /\ sessPc' = sessPc
  /\ mainPc' = "await"
  /\ UNCHANGED <<held, event, ret, blockVars, osVars>>

AwaitSessionOnce ==
  /\ mainPc = "await"
  /\ held' = current
  /\ mainPc' = "register"
  /\ UNCHANGED <<sessVars, blockVars, osVars>>

(* The main thread polls _currentSession until the session thread sets it. *)
AwaitSession ==
  /\ mainPc = "await"
  /\ current # Null
  /\ held' = current
  /\ mainPc' = "register"
  /\ UNCHANGED <<sessVars, blockVars, osVars>>

RegisterEventProc ==
  /\ mainPc = "register"
  /\ proc' = "DbgEventProc"
  /\ mainPc' = "console"
  /\ UNCHANGED <<held, sessVars, current, block, state, osVars>>

----------------------------------------------------------------------------
(* The console.  A command with no effect on the session (help, clear, s,  *)
(* an unknown or an unimplemented one) is a stuttering step.               *)

ReadCommand(cmd) ==
  /\ mainPc = "console"
  /\ mainPc' = cmd
  /\ held' = current
  /\ UNCHANGED <<sessVars, blockVars, osVars>>

(* At end of input fgets fails, the line stays empty, and the console      *)
(* reads again for ever.                                                   *)
EndOfInput ==
  /\ mainPc = "console"
  /\ mainPc' = "eof"
  /\ UNCHANGED <<held, sessVars, blockVars, osVars>>

(* c: DbgContinue fails without a session or when ResumeThread fails;      *)
(* resuming a thread that is not suspended succeeds and does nothing.      *)
Continue ==
  /\ mainPc = "c"
  /\ \/ /\ \/ held = Null
           \/ handles # "open"
           \/ "ResumeThread" \in Failing
        /\ mainPc' = "console"
        /\ UNCHANGED debuggee
     \/ /\ held # Null /\ handles = "open"
        /\ mainPc' = "storeContinue"
        /\ debuggee' = IF debuggee = "suspended" THEN "running" ELSE debuggee
  /\ UNCHANGED <<held, sessVars, blockVars, handles, symHandle, created,
                 attached, port>>

StoreContinueAsRequestCode ==  \* DBG_SESSION_CONTINUE is 1, as DBG_STATE_SUSPEND
  /\ mainPc = "storeContinue"
  /\ state' = "SUSPEND"
  /\ mainPc' = "console"
  /\ UNCHANGED <<held, sessVars, current, block, proc, osVars>>

StoreContinue ==
  /\ mainPc = "storeContinue"
  /\ state' = "CONTINUE"
  /\ mainPc' = "console"
  /\ UNCHANGED <<held, sessVars, current, block, proc, osVars>>

(* r reads the context through the handles and changes nothing here; b     *)
(* changes the debuggee's memory and the breakpoint list (Breakpoints).    *)
RegistersOrBreakpoint ==
  /\ mainPc \in {"r", "b"}
  /\ mainPc = "b" => held # Null
  /\ mainPc' = "console"
  /\ UNCHANGED <<held, sessVars, blockVars, osVars>>

(* b and q use the session pointer without testing it.                     *)
NullSessionFault ==
  /\ mainPc \in {"b", "q"}
  /\ held = Null
  /\ mainPc' = "crashed"
  /\ UNCHANGED <<held, sessVars, blockVars, osVars>>

(* Faulty variants of definitions, like the one above and those below, are *)
(* what the properties are tested against: they are no part of the model.  *)
SendQuitStoringFirst ==
  /\ mainPc = "q" /\ held # Null
  /\ state' = "QUIT"
  /\ mainPc' = "storeQuit"
  /\ UNCHANGED <<held, sessVars, current, block, proc, osVars>>

(* q: DbgSessionSendEvent asks session->proc, which answers QUIT, and only *)
(* then stores the state.                                                  *)
SendQuit ==
  /\ mainPc = "q"
  /\ held # Null
  /\ mainPc' = "storeQuit"
  /\ UNCHANGED <<held, sessVars, blockVars, osVars>>

StoreQuitAndStay ==
  /\ mainPc = "storeQuit"
  /\ state' = "QUIT"
  /\ mainPc' = "console"
  /\ UNCHANGED <<held, sessVars, current, block, proc, osVars>>

StoreQuit ==
  /\ mainPc = "storeQuit"
  /\ state' = "QUIT"
  /\ mainPc' = "exit"
  /\ UNCHANGED <<held, sessVars, current, block, proc, osVars>>

(* main returns without joining the session thread: the process ends, and  *)
(* a debuggee still attached is terminated with its debugger.              *)
ExitProcess ==
  /\ mainPc = "exit"
  /\ mainPc' = "exited"
  /\ debuggee' = IF attached THEN "gone" ELSE debuggee
  /\ attached' = FALSE
  /\ port' = Null
  /\ UNCHANGED <<held, sessVars, blockVars, handles, symHandle, created>>

----------------------------------------------------------------------------
(* The session thread: DbgSessionThreadEntry up to its event loop.         *)

CreateDebuggeeRunning ==
  /\ sessPc = "createProcess"
  /\ debuggee' = "running" /\ handles' = "open" /\ attached' = TRUE
  /\ sessPc' = "new"
  /\ UNCHANGED <<mainVars, event, ret, blockVars, symHandle, created, port>>

(* The debuggee is created suspended.  A failure is reported and ignored.  *)
CreateDebuggee ==
  /\ sessPc = "createProcess"
  /\ \/ /\ debuggee' = "suspended"
        /\ handles' = "open"
        /\ attached' = TRUE
     \/ /\ "CreateProcess" \in Failing
        /\ UNCHANGED <<debuggee, handles, attached>>
  /\ sessPc' = "new"
  /\ UNCHANGED <<mainVars, event, ret, blockVars, symHandle, created, port>>

(* Without memory the thread closes the handles and returns; a debugger    *)
(* thread that ends takes its debuggee with it.                            *)
SessionNew ==
  /\ sessPc = "new"
  /\ \/ /\ block' = "live" /\ state' = "CONTINUE" /\ proc' = Null
        /\ sessPc' = "symbols"
        /\ UNCHANGED <<handles, debuggee, attached>>
     \/ /\ "malloc" \in Failing
        /\ handles' = IF handles = "open" THEN "closed" ELSE handles
        /\ debuggee' = IF attached THEN "gone" ELSE debuggee
        /\ attached' = FALSE
        /\ sessPc' = "failed"
        /\ UNCHANGED <<block, state, proc>>
  /\ UNCHANGED <<mainVars, event, ret, current, symHandle, created, port>>

(* DbgInitializePDB initializes the symbol handler for ndbg's own process. *)
(* Its result is not tested, and a session without symbols goes on.        *)
SymbolEnumerate ==
  /\ sessPc = "symbols"
  /\ \/ symHandle' = "ndbg"
     \/ "SymInitialize" \in Failing /\ UNCHANGED symHandle
  /\ sessPc' = "publish"
  /\ UNCHANGED <<mainVars, event, ret, blockVars, handles, debuggee, created,
                 attached, port>>

SetCurrentSessionNever ==
  /\ sessPc = "publish" /\ sessPc' = "checkQuit"
  /\ UNCHANGED <<mainVars, event, ret, blockVars, osVars>>

SetCurrentSession ==
  /\ sessPc = "publish"
  /\ current' = TheSession
  /\ sessPc' = "checkQuit"
  /\ UNCHANGED <<mainVars, event, ret, block, state, proc, osVars>>

----------------------------------------------------------------------------
(* The event loop reads session->state twice in each round.                *)

CheckQuit ==
  /\ sessPc = "checkQuit"
  /\ sessPc' = IF state = "QUIT" THEN "detach" ELSE "checkContinue"
  /\ UNCHANGED <<mainVars, event, ret, blockVars, osVars>>

CheckContinueNotQuit ==
  /\ sessPc = "checkContinue" /\ sessPc' = "wait"
  /\ UNCHANGED <<mainVars, event, ret, blockVars, osVars>>

(* A round that calls nothing may be compiled into a loop with no reload.  *)
CheckContinue ==
  /\ sessPc = "checkContinue"
  /\ \/ sessPc' = IF state = "CONTINUE" THEN "wait" ELSE "checkQuit"
     \/ HoistedLoad /\ state = "SUSPEND" /\ sessPc' = "spin"
  /\ UNCHANGED <<mainVars, event, ret, blockVars, osVars>>

TakeEvent ==
  /\ sessPc = "wait"
  /\ port # Null
  /\ event' = port
  /\ port' = Null
  /\ sessPc' = "dispatch"
  /\ UNCHANGED <<mainVars, ret, blockVars, handles, symHandle, debuggee,
                 created, attached>>

(* WaitForDebugEvent gives up after 1000 ms, or fails without a debuggee.  *)
WaitTimeout ==
  /\ sessPc = "wait"
  /\ port = Null
  /\ sessPc' = "checkQuit"
  /\ UNCHANGED <<mainVars, event, ret, blockVars, osVars>>

(* DbgSessionProcessEvent and DbgEventProc.  An exception stores SUSPEND   *)
(* on the way (DbgSessionSendEvent) and returns it; all others continue.   *)
ProcessEvent ==
  /\ sessPc = "dispatch"
  /\ \/ /\ event = "exception"
        /\ state' = "SUSPEND" /\ ret' = "SUSPEND"
     \/ /\ event # "exception"
        /\ ret' = "CONTINUE" /\ UNCHANGED state
  /\ sessPc' = "store"
  /\ UNCHANGED <<mainVars, event, current, block, proc, osVars>>

StoreStateIgnored ==  \* DBG_STATE_IGNORED
  /\ sessPc = "store" /\ sessPc' = "resume"
  /\ state' = IF ret = "SUSPEND" THEN "IGNORED" ELSE ret
  /\ UNCHANGED <<mainVars, event, ret, current, block, proc, osVars>>

StoreState ==
  /\ sessPc = "store"
  /\ state' = ret
  /\ sessPc' = "resume"
  /\ UNCHANGED <<mainVars, event, ret, current, block, proc, osVars>>

ContinueEventUnlessSuspended ==
  /\ sessPc = "resume"
  /\ debuggee' = IF event = "exitProcess" THEN "gone"
                 ELSE IF state = "SUSPEND" THEN "stopped" ELSE "running"
  /\ attached' = (event # "exitProcess")
  /\ event' = Null /\ sessPc' = "checkQuit"
  /\ UNCHANGED <<mainVars, ret, blockVars, handles, symHandle, created, port>>

ContinueEventNever ==
  /\ sessPc = "resume" /\ UNCHANGED vars

(* ContinueDebugEvent is called whatever the state has become.             *)
ContinueEvent ==
  /\ sessPc = "resume"
  /\ debuggee' = IF event = "exitProcess" THEN "gone" ELSE "running"
  /\ attached' = (event # "exitProcess")
  /\ event' = Null
  /\ sessPc' = "checkQuit"
  /\ UNCHANGED <<mainVars, ret, blockVars, handles, symHandle, created, port>>

----------------------------------------------------------------------------
(* After QUIT: DbgSessionDelete, DbgSymbolFree, and the block itself.      *)

(* Detaching drops an event nobody took and lets the debuggee run; it does *)
(* not resume a thread that was created suspended.                         *)
Detach ==
  /\ sessPc = "detach"
  /\ attached' = FALSE
  /\ port' = Null
  /\ debuggee' = IF debuggee = "stopped" THEN "running" ELSE debuggee
  /\ sessPc' = "close"
  /\ UNCHANGED <<mainVars, event, ret, blockVars, handles, symHandle, created>>

CloseHandlesLeaked ==
  /\ sessPc = "close" /\ sessPc' = "symFree"
  /\ UNCHANGED <<mainVars, event, ret, blockVars, osVars>>

CloseHandles ==
  /\ sessPc = "close"
  /\ handles' = IF handles = "open" THEN "closed" ELSE handles
  /\ sessPc' = "symFree"
  /\ UNCHANGED <<mainVars, event, ret, blockVars, symHandle, debuggee, created,
                 attached, port>>

(* SymCleanup is given the debuggee's handle.                              *)
SymbolFree ==
  /\ sessPc = "symFree"
  /\ symHandle' = IF symHandle = "debuggee" THEN Null ELSE symHandle
  /\ sessPc' = "clear"
  /\ UNCHANGED <<mainVars, event, ret, blockVars, handles, debuggee, created,
                 attached, port>>

ClearCurrentForgotten ==
  /\ sessPc = "clear" /\ sessPc' = "free"
  /\ UNCHANGED <<mainVars, event, ret, blockVars, osVars>>

ClearCurrent ==
  /\ sessPc = "clear"
  /\ current' = IF current = TheSession THEN Null ELSE current
  /\ sessPc' = "free"
  /\ UNCHANGED <<mainVars, event, ret, block, state, proc, osVars>>

FreeSession ==
  /\ sessPc = "free"
  /\ block' = "freed"
  /\ sessPc' = "done"
  /\ UNCHANGED <<mainVars, event, ret, current, state, proc, osVars>>

----------------------------------------------------------------------------
(* The debuggee: once resumed it raises CREATE_PROCESS, then other events; *)
(* it is stopped from the moment it raises one until that is continued.    *)

Raise(e) ==
  /\ debuggee = "running" /\ attached
  /\ created <=> e # "createProcess"
  /\ port' = e
  /\ debuggee' = "stopped"
  /\ created' = TRUE
  /\ UNCHANGED <<mainVars, sessVars, blockVars, handles, symHandle, attached>>

----------------------------------------------------------------------------
StartUp == ParseCommandLine \/ CreateSession \/ AwaitSession \/ RegisterEventProc

Command == \/ Continue \/ StoreContinue \/ RegistersOrBreakpoint
           \/ NullSessionFault \/ SendQuit \/ StoreQuit \/ ExitProcess

User == EndOfInput \/ \E cmd \in Commands : ReadCommand(cmd)

SessionThread ==
  \/ CreateDebuggee \/ SessionNew \/ SymbolEnumerate \/ SetCurrentSession
  \/ CheckQuit \/ CheckContinue \/ TakeEvent \/ WaitTimeout
  \/ ProcessEvent \/ StoreState \/ ContinueEvent
  \/ Detach \/ CloseHandles \/ SymbolFree \/ ClearCurrent \/ FreeSession

Debuggee == \E e \in Events : Raise(e)

Next == Alive /\ (StartUp \/ Command \/ User \/ SessionThread \/ Debuggee)

Spec == Init /\ [][Next]_vars

(* Both threads are scheduled by the operating system as long as the       *)
(* process lives; the user and the debuggee owe nothing.                   *)
Fairness ==
  /\ WF_vars(Alive /\ StartUp)
  /\ WF_vars(Alive /\ Command)
  /\ WF_vars(Alive /\ SessionThread)

FairSpec == Spec /\ Fairness

----------------------------------------------------------------------------
TypeOK ==
  /\ mainPc \in MainPcs /\ held \in {Null, TheSession}
  /\ sessPc \in SessPcs /\ event \in Events \cup {Null} /\ ret \in States
  /\ current \in {Null, TheSession} /\ block \in {"unborn", "live", "freed"}
  /\ state \in States /\ proc \in {Null, "DbgEventProc"}
  /\ handles \in {"none", "open", "closed"}
  /\ symHandle \in {Null, "ndbg", "debuggee"}
  /\ debuggee \in {"none", "suspended", "running", "stopped", "gone"}
  /\ created \in BOOLEAN /\ attached \in BOOLEAN
  /\ port \in Events \cup {Null}

(* session->proc is called without a test, by the session thread for each  *)
(* event it dispatches and by q, while the main thread registers it only   *)
(* after the session is published: the call never finds it null.           *)
NoUnregisteredCall ==
  /\ sessPc = "dispatch" /\ event \in ProcEvents => proc # Null
  /\ mainPc = "q" /\ held # Null => proc # Null

(* The session thread frees the block without telling the main thread,     *)
(* which keeps a pointer to it across every command: no command, and no    *)
(* reader of _currentSession, ever finds a freed block or a closed handle. *)
SessionOutlivesUse ==
  /\ current # Null => block = "live"
  /\ mainPc \in Commands \cup {"register", "storeContinue", "storeQuit"}
       /\ held # Null => block = "live" /\ handles # "closed"

(* The session thread starts to tear the session down only after the main  *)
(* thread has made its last access to it.                                  *)
QuitPrecedesTeardown == sessPc \in Teardown => mainPc \in {"exit", "exited"}

(* A debuggee stopped by an event is accounted for: the event is either    *)
(* still in the port or being handled, never both and never neither, so    *)
(* none is lost, taken twice or left unanswered by the loop.               *)
EventAccounting ==
  /\ event # Null <=> sessPc \in Handling
  /\ port # Null => event = Null /\ debuggee = "stopped"
  /\ attached /\ debuggee = "stopped" => port # Null \/ event # Null
  /\ event # Null /\ Alive => attached /\ debuggee = "stopped"

(* A session thread that ran its tear-down to the end leaves nothing of    *)
(* the session behind: no attachment, no handle, no pointer, no block.     *)
TeardownComplete ==
  sessPc = "done" => /\ ~attached /\ port = Null /\ handles # "open"
                     /\ current = Null /\ block = "freed"

(* b and q use the session pointer without testing it.  They fault when    *)
(* ndbg was given no program, and never once a session thread exists: the  *)
(* console is not entered between its creation and its publication, nor    *)
(* after the tear-down that follows a q.                                   *)
FaultOnlyWithoutSession == mainPc = "crashed" => sessPc = "none"

(* A stored QUIT is overwritten only by the session thread on its way out  *)
(* of the handling of an event it had taken before; no command undoes it.  *)
QuitLostOnlyInHandling ==
  [][state = "QUIT" /\ state' # "QUIT" => sessPc \in {"dispatch", "store"}]_vars

(* A debugger started with a program gets to its console, whatever calls   *)
(* fail: the poll of _currentSession (main.c:111) ends, unless no session  *)
(* thread was created or that thread found no memory for the session.      *)
ConsoleReached ==
  (mainPc = "create") ~>
    \/ mainPc = "console"
    \/ mainPc = "await" /\ sessPc \in {"none", "failed"}

(* As long as the user goes on typing c (and c finds the debuggee), no     *)
(* debug event stays in the port: a c that loses the race against the      *)
(* store of SUSPEND is made good by a later one.                           *)
ContinueUnblocks ==
  []<><<StoreContinue>>_vars => ((port # Null) ~> (port = Null))

----------------------------------------------------------------------------
(* What the program says of itself and does not do.                        *)

(* "tell session manager to halt which in turn enables the console"        *)
(* (dbg.c:22): once an exception has halted the session the debuggee it    *)
(* belongs to is not running.                                              *)
HaltStopsDebuggee ==
  state = "SUSPEND" /\ sessPc \in Pumping => debuggee # "running"

(* "free symbols" (session.c:583): the symbol handler is freed.            *)
SymbolsFreed == sessPc = "done" => symHandle = Null
=============================================================================
