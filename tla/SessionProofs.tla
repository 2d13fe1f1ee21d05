---------------------------- MODULE SessionProofs ----------------------------
(***************************************************************************)
(* Safety of the two-thread session, for every value of the constants: any *)
(* command line, any of the calls failing, the state reloaded or not.      *)
(*                                                                         *)
(* None of the invariants is inductive alone.  IInv ties the program       *)
(* counters of the two threads together (StartUpInv, QuitInv), says what   *)
(* the session thread has built and torn down at each of its own           *)
(* (ResourceInv), and follows the debuggee and its events (DebuggeeInv).   *)
(***************************************************************************)
EXTENDS SessionRefinement, TLAPS

Starting == {"createProcess", "new", "symbols", "publish", "failed"}

StartUpInv ==
  /\ mainPc \in {"start", "create"} => sessPc = "none"
  /\ sessPc \in Starting => mainPc = "await"
  /\ mainPc \in {"start", "create", "await"} => held = Null
  /\ sessPc = "none" => held = Null
  /\ mainPc \in {"storeContinue", "storeQuit"} => held # Null
  /\ /\ mainPc \notin {"start", "create", "await", "register"}
     /\ sessPc # "none"
     => proc # Null
  /\ mainPc \in Commands \cup {"crashed"} /\ held = Null => sessPc = "none"
  /\ mainPc = "crashed" => held = Null

ResourceInv ==
  /\ block = "unborn" <=> sessPc \in {"none", "createProcess", "new", "failed"}
  /\ block = "freed" <=> sessPc = "done"
  /\ current # Null <=> sessPc \in Pumping \cup Handling
                                     \cup {"detach", "close", "symFree", "clear"}
  /\ handles = "closed" => sessPc \in {"failed", "symFree", "clear", "free", "done"}
  /\ sessPc \in {"symFree", "clear", "free", "done"} => handles # "open"
  /\ sessPc \in Teardown \ {"detach"} => ~attached /\ port = Null
  /\ sessPc \in {"none"} \cup Starting => state = "CONTINUE"

DebuggeeInv ==
  /\ sessPc \in {"none", "createProcess"} =>
       debuggee = "none" /\ handles = "none" /\ ~attached /\ ~created
  /\ attached => debuggee \in {"suspended", "running", "stopped"}
  /\ sessPc = "new" /\ debuggee # "none" => attached
  /\ debuggee \in {"running", "stopped"} => sessPc \notin {"none"} \cup Starting
  /\ port # Null => attached
  /\ debuggee \in {"running", "stopped"} \/ event # Null => proc # Null
  /\ debuggee = "stopped" => attached
  /\ debuggee = "suspended" => ~created

QuitInv ==
  /\ state = "QUIT" => mainPc \in {"exit", "exited"}
  /\ QuitPrecedesTeardown
  /\ ret # "QUIT"
  /\ sessPc = "wait" => state # "SUSPEND"

IInv == TypeOK /\ StartUpInv /\ ResourceInv /\ DebuggeeInv /\ QuitInv
               /\ EventAccounting

----------------------------------------------------------------------------
(* The invariant holds before either thread has done anything.             *)
LEMMA InitEstablishes == Init => IInv
BY DEF Init, IInv, TypeOK, StartUpInv, ResourceInv, DebuggeeInv, QuitInv,
       QuitPrecedesTeardown, EventAccounting, MainPcs, SessPcs, Pumping,
       Handling, Teardown, Starting, Commands, States, Events, ProcEvents,
       InternalEvents, Null, TheSession

(* A step of the main thread, start-up or command, preserves it.           *)
LEMMA MainPreserves ==
  ASSUME IInv, Alive, StartUp \/ Command
  PROVE  IInv'
<1> USE DEF IInv, TypeOK, StartUpInv, ResourceInv, DebuggeeInv, QuitInv,
            QuitPrecedesTeardown, EventAccounting, Alive, MainPcs, SessPcs,
            Pumping, Handling, Teardown, Starting, Commands, States, Events,
            ProcEvents, InternalEvents, Null, TheSession, FallibleCalls,
            mainVars, sessVars, blockVars, osVars
<1>1. CASE ParseCommandLine
  BY <1>1, ConstantsOK DEF ParseCommandLine
<1>2. CASE CreateSession
  BY <1>2, ConstantsOK DEF CreateSession
<1>3. CASE AwaitSession
  BY <1>3 DEF AwaitSession
<1>4. CASE RegisterEventProc
  BY <1>4 DEF RegisterEventProc
<1>5. CASE Continue
  BY <1>5, ConstantsOK DEF Continue
<1>6. CASE StoreContinue
  BY <1>6 DEF StoreContinue
<1>7. CASE RegistersOrBreakpoint
  BY <1>7 DEF RegistersOrBreakpoint
<1>8. CASE NullSessionFault
  BY <1>8 DEF NullSessionFault
<1>9. CASE SendQuit
  BY <1>9 DEF SendQuit
<1>10. CASE StoreQuit
  <2>1. TypeOK'
    BY <1>10 DEF StoreQuit
  <2>2. StartUpInv'
    BY <1>10 DEF StoreQuit
  <2>3. ResourceInv'
    BY <1>10 DEF StoreQuit
  <2>4. DebuggeeInv'
    BY <1>10 DEF StoreQuit
  <2>5. QuitInv'
    BY <1>10 DEF StoreQuit
  <2>6. EventAccounting'
    BY <1>10 DEF StoreQuit
  <2> QED BY <2>1, <2>2, <2>3, <2>4, <2>5, <2>6 DEF IInv
<1>11. CASE ExitProcess
  <2>1. TypeOK'
    <3>1. debuggee' \in {"none", "suspended", "running", "stopped", "gone"}
      BY <1>11 DEF ExitProcess
    <3>2. mainPc' \in MainPcs /\ attached' \in BOOLEAN /\ port' \in Events \cup {Null}
      BY <1>11 DEF ExitProcess
    <3>3. UNCHANGED <<held, sessVars, blockVars, handles, symHandle, created>>
      BY <1>11 DEF ExitProcess
    <3> QED BY <3>1, <3>2, <3>3
  <2>2. StartUpInv'
    BY <1>11 DEF ExitProcess
  <2>3. ResourceInv'
    BY <1>11 DEF ExitProcess
  <2>4. DebuggeeInv'
    BY <1>11 DEF ExitProcess
  <2>5. QuitInv'
    BY <1>11 DEF ExitProcess
  <2>6. EventAccounting'
    BY <1>11 DEF ExitProcess
  <2> QED BY <2>1, <2>2, <2>3, <2>4, <2>5, <2>6 DEF IInv
<1> QED BY <1>1, <1>2, <1>3, <1>4, <1>5, <1>6, <1>7, <1>8, <1>9, <1>10, <1>11 DEF StartUp, Command

(* So does a command the user types, and the end of the input.              *)
LEMMA UserPreserves ==
  ASSUME IInv, Alive, User
  PROVE  IInv'
<1> USE DEF IInv, TypeOK, StartUpInv, ResourceInv, DebuggeeInv, QuitInv,
            QuitPrecedesTeardown, EventAccounting, Alive, MainPcs, SessPcs,
            Pumping, Handling, Teardown, Starting, Commands, States, Events,
            ProcEvents, InternalEvents, Null, TheSession, FallibleCalls,
            mainVars, sessVars, blockVars, osVars
<1>1. CASE EndOfInput
  BY <1>1 DEF EndOfInput
<1>2. ASSUME NEW cmd \in Commands, ReadCommand(cmd) PROVE IInv'
  BY <1>2 DEF ReadCommand
<1> QED BY <1>1, <1>2 DEF User

(* So does a step of the session thread.                                    *)
LEMMA SessionPreserves ==
  ASSUME IInv, Alive, SessionThread
  PROVE  IInv'
<1> USE DEF IInv, TypeOK, StartUpInv, ResourceInv, DebuggeeInv, QuitInv,
            QuitPrecedesTeardown, EventAccounting, Alive, MainPcs, SessPcs,
            Pumping, Handling, Teardown, Starting, Commands, States, Events,
            ProcEvents, InternalEvents, Null, TheSession, FallibleCalls,
            mainVars, sessVars, blockVars, osVars
<1>1. CASE CreateDebuggee
  <2>1. TypeOK'
    BY <1>1, ConstantsOK DEF CreateDebuggee
  <2>2. StartUpInv'
    BY <1>1, ConstantsOK DEF CreateDebuggee
  <2>3. ResourceInv'
    BY <1>1, ConstantsOK DEF CreateDebuggee
  <2>4. DebuggeeInv'
    BY <1>1, ConstantsOK DEF CreateDebuggee
  <2>5. QuitInv'
    BY <1>1, ConstantsOK DEF CreateDebuggee
  <2>6. EventAccounting'
    BY <1>1, ConstantsOK DEF CreateDebuggee
  <2> QED BY <2>1, <2>2, <2>3, <2>4, <2>5, <2>6 DEF IInv
<1>2. CASE SessionNew
  <2>1. TypeOK'
    BY <1>2, ConstantsOK DEF SessionNew
  <2>2. StartUpInv'
    BY <1>2, ConstantsOK DEF SessionNew
  <2>3. ResourceInv'
    BY <1>2, ConstantsOK DEF SessionNew
  <2>4. DebuggeeInv'
    BY <1>2, ConstantsOK DEF SessionNew
  <2>5. QuitInv'
    BY <1>2, ConstantsOK DEF SessionNew
  <2>6. EventAccounting'
    BY <1>2, ConstantsOK DEF SessionNew
  <2> QED BY <2>1, <2>2, <2>3, <2>4, <2>5, <2>6 DEF IInv
<1>3. CASE SymbolEnumerate
  BY <1>3 DEF SymbolEnumerate
<1>4. CASE SetCurrentSession
  BY <1>4 DEF SetCurrentSession
<1>5. CASE CheckQuit
  BY <1>5 DEF CheckQuit
<1>6. CASE CheckContinue
  BY <1>6, ConstantsOK DEF CheckContinue
<1>7. CASE TakeEvent
  BY <1>7 DEF TakeEvent
<1>8. CASE WaitTimeout
  BY <1>8 DEF WaitTimeout
<1>9. CASE ProcessEvent
  BY <1>9 DEF ProcessEvent
<1>10. CASE StoreState
  BY <1>10 DEF StoreState
<1>11. CASE ContinueEvent
  <2>1. TypeOK'
    BY <1>11 DEF ContinueEvent
  <2>2. StartUpInv'
    BY <1>11 DEF ContinueEvent
  <2>3. ResourceInv'
    BY <1>11 DEF ContinueEvent
  <2>4. DebuggeeInv'
    BY <1>11 DEF ContinueEvent
  <2>5. QuitInv'
    BY <1>11 DEF ContinueEvent
  <2>6. EventAccounting'
    BY <1>11 DEF ContinueEvent
  <2> QED BY <2>1, <2>2, <2>3, <2>4, <2>5, <2>6 DEF IInv
<1>12. CASE Detach
  <2>1. TypeOK'
    <3>1. debuggee' \in {"none", "suspended", "running", "stopped", "gone"}
      BY <1>12 DEF Detach
    <3>2. sessPc' \in SessPcs /\ attached' \in BOOLEAN /\ port' \in Events \cup {Null}
      BY <1>12 DEF Detach
    <3>3. UNCHANGED <<mainVars, event, ret, blockVars, handles, symHandle, created>>
      BY <1>12 DEF Detach
    <3> QED BY <3>1, <3>2, <3>3
  <2>2. StartUpInv'
    BY <1>12 DEF Detach
  <2>3. ResourceInv'
    BY <1>12 DEF Detach
  <2>4. DebuggeeInv'
    BY <1>12 DEF Detach
  <2>5. QuitInv'
    BY <1>12 DEF Detach
  <2>6. EventAccounting'
    BY <1>12 DEF Detach
  <2> QED BY <2>1, <2>2, <2>3, <2>4, <2>5, <2>6 DEF IInv
<1>13. CASE CloseHandles
  BY <1>13 DEF CloseHandles
<1>14. CASE SymbolFree
  BY <1>14 DEF SymbolFree
<1>15. CASE ClearCurrent
  BY <1>15 DEF ClearCurrent
<1>16. CASE FreeSession
  BY <1>16 DEF FreeSession
<1> QED BY <1>1, <1>2, <1>3, <1>4, <1>5, <1>6, <1>7, <1>8, <1>9, <1>10, <1>11, <1>12, <1>13, <1>14, <1>15, <1>16 DEF SessionThread

(* So does an event of the debuggee.                                        *)
LEMMA DebuggeePreserves ==
  ASSUME IInv, Alive, Debuggee
  PROVE  IInv'
<1> USE DEF IInv, TypeOK, StartUpInv, ResourceInv, DebuggeeInv, QuitInv,
            QuitPrecedesTeardown, EventAccounting, Alive, MainPcs, SessPcs,
            Pumping, Handling, Teardown, Starting, Commands, States, Events,
            ProcEvents, InternalEvents, Null, TheSession, FallibleCalls,
            mainVars, sessVars, blockVars, osVars
<1>1. ASSUME NEW e \in Events, Raise(e) PROVE IInv'
  BY <1>1 DEF Raise
<1> QED BY <1>1 DEF Debuggee

(* Hence every step of the system, and every stuttering step, preserves it. *)
LEMMA NextPreserves ==
  ASSUME IInv, [Next]_vars
  PROVE  IInv'
<1>1. CASE Next
  <2>0. Alive
    BY <1>1 DEF Next
  <2>1. CASE StartUp \/ Command
    BY <2>0, <2>1, MainPreserves
  <2>2. CASE User
    BY <2>0, <2>2, UserPreserves
  <2>3. CASE SessionThread
    BY <2>0, <2>3, SessionPreserves
  <2>4. CASE Debuggee
    BY <2>0, <2>4, DebuggeePreserves
  <2> QED BY <1>1, <2>1, <2>2, <2>3, <2>4 DEF Next
<1>2. CASE UNCHANGED vars
  BY <1>2 DEF vars, mainVars, sessVars, blockVars, osVars, IInv, TypeOK,
              StartUpInv, ResourceInv, DebuggeeInv, QuitInv,
              QuitPrecedesTeardown, EventAccounting, Alive
<1> QED BY <1>1, <1>2

(* The inductive invariant holds in every state of every execution.        *)
LEMMA Invariant == Spec => []IInv
<1>1. IInv /\ [Next]_vars => IInv'
  BY NextPreserves
<1> QED BY InitEstablishes, <1>1, PTL DEF Spec

----------------------------------------------------------------------------
(* Every variable keeps to its values; above all the session's state stays *)
(* among the three that DbgSessionThreadEntry understands.                 *)
THEOREM TypeCorrect == Spec => []TypeOK
<1>1. IInv => TypeOK
  BY DEF IInv
<1> QED BY Invariant, <1>1, PTL

(* session->proc is never called before it is registered, although the     *)
(* session is published first and nothing orders the two threads.          *)
THEOREM ProcRegistered == Spec => []NoUnregisteredCall
<1>1. IInv => NoUnregisteredCall
  <2> SUFFICES ASSUME IInv PROVE NoUnregisteredCall
    OBVIOUS
  <2>1. sessPc = "dispatch" => proc # Null
    BY DEF IInv, DebuggeeInv, EventAccounting, Handling
  <2>2. mainPc = "q" /\ held # Null => proc # Null
    BY DEF IInv, StartUpInv
  <2> QED BY <2>1, <2>2 DEF NoUnregisteredCall
<1> QED BY Invariant, <1>1, PTL

(* The session thread never begins to tear down a session that the main    *)
(* thread may still use.                                                   *)
THEOREM TeardownAfterQuit == Spec => []QuitPrecedesTeardown
<1>1. IInv => QuitPrecedesTeardown
  BY DEF IInv, QuitInv
<1> QED BY Invariant, <1>1, PTL

(* The pointers the main thread holds, and _currentSession itself, never   *)
(* lead to freed memory or to closed handles.                              *)
THEOREM NoUseAfterFree == Spec => []SessionOutlivesUse
<1>1. IInv => SessionOutlivesUse
  <2> SUFFICES ASSUME IInv PROVE SessionOutlivesUse
    OBVIOUS
  <2>1. current # Null => block = "live"
    BY DEF IInv, TypeOK, ResourceInv, Pumping, Handling, Null, TheSession
  <2>2. ASSUME mainPc \in Commands \cup {"register", "storeContinue", "storeQuit"},
               held # Null
        PROVE  block = "live" /\ handles # "closed"
    <3>1. sessPc # "none" /\ sessPc \notin Starting
      BY <2>2 DEF IInv, StartUpInv, Commands
    <3>2. sessPc \notin Teardown
      BY <2>2 DEF IInv, QuitInv, QuitPrecedesTeardown, Commands
    <3> QED BY <3>1, <3>2 DEF IInv, TypeOK, ResourceInv, Starting, Teardown
  <2> QED BY <2>1, <2>2 DEF SessionOutlivesUse
<1> QED BY Invariant, <1>1, PTL

(* No debug event is lost, taken twice or left unanswered by the loop,     *)
(* whatever the console does meanwhile.                                    *)
THEOREM EventsAccounted == Spec => []EventAccounting
<1>1. IInv => EventAccounting
  BY DEF IInv
<1> QED BY Invariant, <1>1, PTL

(* A tear-down that reaches its end has released everything but the symbol *)
(* handler.                                                                *)
THEOREM TeardownReleases == Spec => []TeardownComplete
<1>1. IInv => TeardownComplete
  BY DEF IInv, TypeOK, ResourceInv, TeardownComplete, Teardown, Pumping,
         Handling, Null
<1> QED BY Invariant, <1>1, PTL

(* Once a session thread exists no command faults on a null session.       *)
THEOREM NoFaultWithSession == Spec => []FaultOnlyWithoutSession
<1>1. IInv => FaultOnlyWithoutSession
  BY DEF IInv, StartUpInv, FaultOnlyWithoutSession
<1> QED BY Invariant, <1>1, PTL

(* Of all the stores to session->state, only the two in the handling of an *)
(* event can undo a QUIT.                                                  *)
THEOREM QuitKept == Spec => QuitLostOnlyInHandling
<1>1. ASSUME IInv, [Next]_vars
      PROVE  [state = "QUIT" /\ state' # "QUIT" => sessPc \in {"dispatch", "store"}]_vars
  <2> SUFFICES ASSUME state = "QUIT", state' # "QUIT", Next
               PROVE  sessPc \in {"dispatch", "store"}
    BY <1>1
  <2>1. mainPc \in {"exit", "exited"} /\ sessPc \notin {"none"} \cup Starting
    BY <1>1 DEF IInv, QuitInv, ResourceInv
  <2>2. ~(StartUp \/ Command \/ User)
    BY <2>1 DEF StartUp, Command, User, ParseCommandLine, CreateSession,
      AwaitSession, RegisterEventProc, EndOfInput, ReadCommand, Continue,
      StoreContinue, RegistersOrBreakpoint, NullSessionFault, SendQuit,
      StoreQuit, ExitProcess, blockVars
  <2>3. CASE Debuggee
    BY <2>3 DEF Debuggee, Raise, blockVars
  <2>4. CASE SessionThread
    BY <2>1, <2>4 DEF SessionThread, Starting, CreateDebuggee, SessionNew,
      SymbolEnumerate, SetCurrentSession, CheckQuit, CheckContinue, TakeEvent,
      WaitTimeout, ProcessEvent, StoreState, ContinueEvent, Detach,
      CloseHandles, SymbolFree, ClearCurrent, FreeSession, blockVars
  <2> QED BY <2>2, <2>3, <2>4 DEF Next
<1> QED BY Invariant, <1>1, PTL DEF Spec, QuitLostOnlyInHandling

----------------------------------------------------------------------------
(* The refinement.  Under IInv each action of Session is one action of the *)
(* contract, or leaves what the contract sees alone.                       *)

(* A step that changes nothing the contract sees.                         *)
LEMMA StutterIsContractStep ==
  ASSUME UNCHANGED phaseOf, UNCHANGED state,
         (mainPc' \in {"exit", "exited"}) <=> (mainPc \in {"exit", "exited"})
  PROVE  [Contract!Next]_(Contract!vars)
BY DEF Contract!vars

(* Before the session exists the contract is at its beginning.             *)
LEMMA InitRefines == Init => Contract!Init
BY DEF Init, Contract!Init, phaseOf, Null

(* The steps of the main thread: c is Continue, q is Quit once its store   *)
(* is made, and the end of the process releases the debuggee.              *)
LEMMA MainStepRefines ==
  ASSUME IInv, Alive, StartUp \/ Command \/ User
  PROVE  [Contract!Next]_(Contract!vars)
<1> USE DEF Alive, mainVars, sessVars, blockVars, osVars
<1>1. CASE StartUp \/ User
  BY <1>1, StutterIsContractStep DEF StartUp, User, ParseCommandLine, CreateSession,
     AwaitSession, RegisterEventProc, EndOfInput, ReadCommand, Commands, phaseOf
<1>2. CASE RegistersOrBreakpoint \/ NullSessionFault \/ SendQuit
  BY <1>2, StutterIsContractStep DEF RegistersOrBreakpoint, NullSessionFault,
     SendQuit, phaseOf
<1>3. CASE Continue
  <2>1. UNCHANGED phaseOf
    BY <1>3 DEF Continue, phaseOf, IInv, DebuggeeInv
  <2> QED BY <1>3, <2>1, StutterIsContractStep DEF Continue
<1>4. CASE StoreContinue
  <2>1. Contract!Continue
    BY <1>4 DEF StoreContinue, Contract!Continue, phaseOf
  <2> QED BY <2>1 DEF Contract!Next
<1>5. CASE StoreQuit
  <2>1. Contract!Quit
    BY <1>5 DEF StoreQuit, Contract!Quit, phaseOf
  <2> QED BY <2>1 DEF Contract!Next
<1>6. CASE ExitProcess
  <2>1. CASE attached
    <3>1. block # "unborn"
      BY <1>6, <2>1 DEF ExitProcess, IInv, StartUpInv, ResourceInv, DebuggeeInv, Starting
    <3>2. debuggee # "none"
      BY <2>1 DEF IInv, DebuggeeInv
    <3>3. phaseOf \in {"idle", "raised", "handling"}
      BY <2>1, <3>1, <3>2 DEF phaseOf
    <3>4. phaseOf' = "over"
      BY <1>6, <2>1, <3>1 DEF ExitProcess, phaseOf
    <3>5. Contract!Release
      BY <1>6, <3>3, <3>4 DEF ExitProcess, Contract!Release
    <3> QED BY <3>5 DEF Contract!Next
  <2>2. CASE ~attached
    <3>1. UNCHANGED phaseOf
      BY <1>6, <2>2 DEF ExitProcess, phaseOf, IInv, DebuggeeInv
    <3> QED BY <1>6, <3>1, StutterIsContractStep DEF ExitProcess
  <2> QED BY <2>1, <2>2
<1> QED BY <1>1, <1>2, <1>3, <1>4, <1>5, <1>6 DEF Command

(* The debuggee raises an event only while the contract has it idle.       *)
LEMMA DebuggeeStepRefines ==
  ASSUME IInv, Alive, Debuggee
  PROVE  [Contract!Next]_(Contract!vars)
<1> PICK e \in Events : Raise(e)
  BY DEF Debuggee
<1>1. block # "unborn" /\ event = Null /\ port = Null
  BY DEF Raise, IInv, ResourceInv, DebuggeeInv, EventAccounting, Starting
<1>2. e # Null
  BY DEF Events, ProcEvents, InternalEvents, Null
<1>3. phaseOf = "idle" /\ phaseOf' = "raised"
  BY <1>1, <1>2 DEF Raise, phaseOf, sessVars, blockVars
<1>4. Contract!Raise
  BY <1>3 DEF Contract!Raise, Raise, mainVars, blockVars
<1> QED BY <1>4 DEF Contract!Next

(* The session thread opens the contract with the session, takes, decides  *)
(* and answers events, and releases the debuggee when it detaches.         *)
LEMMA SessionStepRefines ==
  ASSUME IInv, Alive, SessionThread
  PROVE  [Contract!Next]_(Contract!vars)
<1> USE DEF Alive, mainVars, sessVars, blockVars, osVars
<1>1. CASE CreateDebuggee
  BY <1>1, StutterIsContractStep DEF CreateDebuggee, phaseOf, IInv, ResourceInv
<1>2. CASE SessionNew
  <2>1. block = "unborn" /\ state = "CONTINUE" /\ event = Null /\ port = Null
    BY <1>2 DEF SessionNew, IInv, ResourceInv, DebuggeeInv, EventAccounting,
       Starting, Handling
  <2>2. CASE block' = "live" /\ debuggee # "none"
    <3>1. phaseOf = "closed" /\ phaseOf' = "idle" /\ state' = state
      BY <1>2, <2>1, <2>2 DEF SessionNew, phaseOf, IInv, DebuggeeInv
    <3>2. Contract!Open
      BY <1>2, <3>1 DEF SessionNew, Contract!Open
    <3> QED BY <3>2 DEF Contract!Next
  <2>3. CASE block' # "live" \/ debuggee = "none"
    <3>1. phaseOf' = phaseOf /\ state' = state
      BY <1>2, <2>1, <2>3 DEF SessionNew, phaseOf
    <3> QED BY <1>2, <3>1, StutterIsContractStep DEF SessionNew
  <2> QED BY <2>2, <2>3
<1>3. CASE SymbolEnumerate \/ SetCurrentSession \/ CheckQuit \/ CheckContinue
             \/ WaitTimeout \/ CloseHandles \/ SymbolFree \/ ClearCurrent
  BY <1>3, StutterIsContractStep DEF SymbolEnumerate, SetCurrentSession,
     CheckQuit, CheckContinue, WaitTimeout, CloseHandles, SymbolFree,
     ClearCurrent, phaseOf
<1>4. CASE TakeEvent
  <2>1. block # "unborn" /\ attached /\ debuggee = "stopped" /\ event = Null
    BY <1>4 DEF TakeEvent, IInv, ResourceInv, DebuggeeInv, EventAccounting
  <2>2. phaseOf = "raised" /\ phaseOf' = "handling"
    BY <1>4, <2>1 DEF TakeEvent, phaseOf
  <2>3. Contract!Take
    BY <1>4, <2>2 DEF TakeEvent, Contract!Take, IInv, QuitInv
  <2> QED BY <2>3 DEF Contract!Next
<1>5. CASE ProcessEvent \/ StoreState
  <2>1. block # "unborn" /\ attached /\ debuggee = "stopped" /\ event # Null
    BY <1>5 DEF ProcessEvent, StoreState, IInv, ResourceInv, EventAccounting, Handling
  <2>2. phaseOf = "handling" /\ UNCHANGED phaseOf
    BY <1>5, <2>1 DEF ProcessEvent, StoreState, phaseOf
  <2>3. state' = state \/ state' \in {"CONTINUE", "SUSPEND"}
    BY <1>5 DEF ProcessEvent, StoreState, IInv, TypeOK, QuitInv, States
  <2>4. CASE state' = state
    BY <1>5, <2>2, <2>4, StutterIsContractStep DEF ProcessEvent, StoreState
  <2>5. CASE state' \in {"CONTINUE", "SUSPEND"}
    <3>1. Contract!Decide
      BY <1>5, <2>2, <2>5 DEF ProcessEvent, StoreState, Contract!Decide
    <3> QED BY <3>1 DEF Contract!Next
  <2> QED BY <2>3, <2>4, <2>5
<1>6. CASE ContinueEvent
  <2>1. block # "unborn" /\ attached /\ debuggee = "stopped" /\ event # Null
        /\ port = Null
    BY <1>6 DEF ContinueEvent, IInv, ResourceInv, EventAccounting, Handling
  <2>2. phaseOf = "handling" /\ phaseOf' \in {"idle", "over"}
    BY <1>6, <2>1 DEF ContinueEvent, phaseOf
  <2>3. Contract!Answer
    BY <1>6, <2>2 DEF ContinueEvent, Contract!Answer
  <2> QED BY <2>3 DEF Contract!Next
<1>7. CASE Detach
  <2>1. mainPc = "exit" /\ block # "unborn" /\ event = Null
    BY <1>7 DEF Detach, IInv, QuitInv, QuitPrecedesTeardown, ResourceInv,
       EventAccounting, Teardown, Handling
  <2>2. CASE attached
    <3>1. debuggee # "none"
      BY <2>2 DEF IInv, DebuggeeInv
    <3>2. phaseOf \in {"idle", "raised"} /\ phaseOf' = "over"
      BY <1>7, <2>1, <2>2, <3>1 DEF Detach, phaseOf
    <3>3. Contract!Release
      BY <1>7, <2>1, <3>2 DEF Detach, Contract!Release
    <3> QED BY <3>3 DEF Contract!Next
  <2>3. CASE ~attached
    <3>1. UNCHANGED phaseOf
      BY <1>7, <2>1, <2>3 DEF Detach, phaseOf
    <3> QED BY <1>7, <3>1, StutterIsContractStep DEF Detach
  <2> QED BY <2>2, <2>3
<1>8. CASE FreeSession
  <2>1. block # "unborn"
    BY <1>8 DEF FreeSession, IInv, ResourceInv
  <2>2. UNCHANGED phaseOf
    BY <1>8, <2>1 DEF FreeSession, phaseOf
  <2> QED BY <1>8, <2>2, StutterIsContractStep DEF FreeSession
<1> QED BY <1>1, <1>2, <1>3, <1>4, <1>5, <1>6, <1>7, <1>8 DEF SessionThread

(* Every execution of the two threads, seen through phaseOf, is one the    *)
(* contract allows.                                                        *)
THEOREM SessionImplementsContract == Spec => ImplementsContract
<1>1. ASSUME IInv, [Next]_vars
      PROVE  [Contract!Next]_(Contract!vars)
  <2>1. CASE UNCHANGED vars
    BY <2>1, StutterIsContractStep DEF vars, mainVars, sessVars, blockVars,
       osVars, phaseOf
  <2>2. CASE Next
    BY <1>1, <2>2, MainStepRefines, SessionStepRefines, DebuggeeStepRefines
    DEF Next
  <2> QED BY <1>1, <2>1, <2>2
<1> QED BY Invariant, InitRefines, <1>1, PTL DEF Spec, ImplementsContract,
           Contract!Spec
=============================================================================
