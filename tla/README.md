# A verification of ndbg in TLA+

ndbg is a console debugger for Windows: about 1900 lines of C that start a
program under the Windows debug API, pump its debug events on a *session
thread* and read commands on the *main thread*. This directory holds TLA+
modules of it, TLC configurations that check them, and proofs that TLAPS checks.

    tlc -config SessionSafety.cfg MCSession      # one of the runs below
    tlapm SessionProofs.tla                      # the proofs

## 1. The system

| Part (source) | State it keeps | Operations | Used by |
|---|---|---|---|
| Start-up and shutdown (`main.c`) | none | `DbgParseCommandLine`, deletion of the mutex, exit | - |
| Pipe server (`main.c`) | the pipe, the buffer `in` | poll, read, print, clear | a client of the pipe |
| Display (`main.c`) | `_dbgDisplayMutex`, the console's colour | `DbgDisplayDebugOut`, `DbgDisplayError`, `DbgDisplayMessage` | both threads |
| Command console (`cmd.c`) | command table, current line | register, tokenize, look up, `c b r q help clear s` | main thread |
| Debugger core (`dbg.c`) | none | `DbgContinue`, `DbgGetRegisters`, `DbgEventProc` | console, session thread |
| Session manager (`session.c`) | `_currentSession`, the `dbgSession` block (`state`, `proc`, handles, lists) | create, event loop, process event, send event, requests, delete | both threads |
| Event and register conversion (`session.c`, `sys.h`) | the event descriptor, the string and name buffers | one case per debug event; `CONTEXT` to `dbgContext` | session thread, console |
| Breakpoint manager (`break.c`) | `breakPointList`, the id counter, bytes in the debuggee | set, get, remove, hit count (the rest are stubs) | console |
| Linked lists (`list.c`) | the lists and their heap blocks | init, add, remove, free all | session, breakpoints, symbols |
| Symbol manager, PDB back end (`symbol.c`, `pdb.c`) | the symbol handler, source file and line lists | enumerate, look up, free | session thread |
| Source manager (`source.c`), `pipe.c` | - | two `extern` declarations; an empty file | nobody |

How they interact. The main thread starts the session thread and polls
`_currentSession` until the session is published; it then stores a pointer to
`DbgEventProc` in the session block. From there on the threads share that block
with no lock (the mutex in `DbgRegisterEventProc` is commented out): the console
stores `state` for `c` and `q`, the loop reads it twice a round and stores the
result of each event. The session thread calls back into `dbg.c` through
`session->proc`, and so does `q`. The third party is the debuggee with the
Windows debug port: it raises one event at a time and stands still until
`ContinueDebugEvent`.

At this commit `main` never leaves its pipe loop (`main.c:166`), so the session
and the console are compiled but not reached. The comment after the loop
("Create default session; application is in argv[1].") and the rest of the
repository are about what follows, so the model of the session begins there, at
`DbgParseCommandLine`.

What is hard here, and the properties that answer it (`PROJECT.json` lists every
hazard at its line):

* two threads on one unprotected block whose owner frees it: is the block, its
  handles and its `proc` valid whenever they are used? (`SessionOutlivesUse`,
  `NoUnregisteredCall`, `QuitPrecedesTeardown`)
* a state word written by both: which stores get lost, and does the debuggee
  ever wait for ever? (`QuitLostOnlyInHandling`, `ContinueUnblocks`)
* one answer per event while the console interferes (`EventAccounting`,
  `ImplementsContract`, `ImplementsLiveContract`)
* calls that fail half-way through starting, setting a breakpoint, loading
  symbols or deleting (`ConsoleReached`, `TeardownComplete`, `OpcodeSaved`,
  `Planted`, `OneOwner`, `AllReleased`)
* two threads that write to one window, whose colour neither owns, through a
  mutex that one of them deletes (`InColour`, `DefaultAtRest`, `CallReturns`,
  `Display!ImplementsContract`)
* buffers that are used again, with what earlier lines, messages, libraries and
  events left in them (`ExecutedAsRead`, `TextIsExecuted`, `UsedOnce`, `ShownAsSent`,
  `ShownAsRead`, `RegistersCurrent`)
* the ends of those buffers (`DamagedByEmptyOnly`, `ShownAsSent`)
* pointers of lists after any mix of calls, in reused memory (`WellLinked`,
  `LeakSources`, `LinkedList!ImplementsContract`)

## 2. The modules

```
DebugContract <--INSTANCE-- SessionRefinement --EXTENDS--> Session
                             ^              ^
                       MCSession       SessionProofs

ListContract <--INSTANCE-- LinkedList --EXTENDS--> List <--EXTENDS-- Breakpoints
                               ^                    ^                    ^
                          MCLinkedList           Symbols           MCBreakpoints
                                                    ^
                                                MCSymbols

DisplayContract <--INSTANCE-- Display <--EXTENDS-- MainProofs, MCDisplay
                              PipeServer <--EXTENDS-- MainProofs, MCPipeServer

Context, Address <--EXTENDS-- Events <--EXTENDS-- EventsProofs, MCEvents

Console <--EXTENDS-- ConsoleProofs, MCConsole

Subsequences <--EXTENDS-- Symbols, Console, PipeServer, Display

DataProofs --EXTENDS--> List, Subsequences
DataProofs <--EXTENDS-- LinkedListProofs, BreakpointsProofs, SymbolsProofs, ConsoleProofs,
                        EventsProofs, MainProofs (each EXTENDS the module it is about)
```

### Session

| In the model | In the code |
|---|---|
| `mainPc`, `held` | where the main thread is, and the `session` local or argument it works on |
| `sessPc`, `event`, `ret` | where `DbgSessionThreadEntry` is, its `dbgEvent`, the value of `DbgSessionProcessEvent` |
| `current`, `block`, `state`, `proc` | `_currentSession`; the session block and two of its fields |
| `handles`, `symHandle` | the debuggee's handles; the handle of `SymInitialize` |
| `debuggee`, `created`, `attached`, `port` | Windows: the debuggee, its debugger, the event raised and not taken |

A step is one access to shared memory or one call of the operating system, so
TLC interleaves the threads wherever the code lets them. Worth knowing:

* `ProcessEvent` covers `DbgSessionProcessEvent` and `DbgEventProc`. It makes at
  most one access to shared state: the store of `DBG_STATE_SUSPEND` in
  `DbgSessionSendEvent`, for an exception. `StoreState` is the store at
  `session.c:572` and `ContinueEvent` the call after it.
* `Failing` names the calls that may fail: any of `CreateThread`,
  `CreateProcess`, `malloc`, `SymInitialize` and `ResumeThread`. A failed
  `CreateThread` or `malloc` leaves the main thread polling; the results of
  `CreateProcess` and `SymInitialize` are not heeded, so that a session without a
  debuggee or without symbols is published. `ContinueDebugEvent` and
  `CloseHandle`, whose results nothing reads either, always succeed here:
  "whatever fails" below means those five calls.
* `HoistedLoad`. `session->state` is neither volatile nor atomic, and a round of
  the loop in `DBG_STATE_SUSPEND` calls nothing, so a build may read it once and
  spin. With `TRUE` the model may go to `spin` and stay; the safety properties
  are checked and proved for both values, the liveness ones for `FALSE`, the
  build that reloads. The poll of `_currentSession` is a call into another
  source file and is taken to reload.
* The debuggee is created suspended, so it raises nothing before
  `ResumeThread`. Detaching drops the event in the port and lets a stopped
  debuggee run, but resumes no suspended thread. The end of ndbg, or of its
  debugger thread, ends a debuggee that is still attached. Processes the
  debuggee starts (`DEBUG_PROCESS` debugs them too) are not modelled.
* `DbgCreateSession` has one caller, so its check of `_currentSession` is never
  raced.
* `b` and `r` change nothing in these variables; `Breakpoints` models `b`.

`DebugContract` is what the session promises with neither threads nor memory:
an event is taken once, never while suspended, and answered before the next one;
only the handling of an event suspends; nobody lets the debuggee go before the
user quits. `SessionRefinement` maps the session to it: `phaseOf` reads the phase of the
debuggee off the variables, the mode is `state`, and the user has quit once the
console has stored QUIT.

### List, LinkedList, ListContract

`List` has the functions of `list.c` as operators on a memory: the allocated
nodes and data blocks as functions from addresses, and the list descriptors.
A freed address leaves the domain and may be allocated again.
`LinkedList` calls them in any order on several lists in one heap, and
`ListContract` says what they promise: each list is a sequence of its own.

### Breakpoints

Extends `List` with the memory of the debuggee (`mem`), the bytes that would be
there had ndbg written nothing (`own`, which only the properties read), the id
counter and the call in progress. `DbgSetBreakpoint` is four steps (scan and
number, read, write, add), because between two of them a running debuggee may
store to, map or unmap its memory. `DbgFlushInstructionCache` has no effect on
this state. `DbgRemoveBreakpoint` is one step: it passes the saved opcode as the
*address* of the byte to write, where nothing is ever mapped, so it writes
nothing. Removing a copy, which is all `DbgGetBreakpoint` gives out,
matches no list element: the call returns `FALSE` and is no action.
Both requests fail at an unmapped address and may fail at any other, at a page
that cannot be written for one; the code goes on (`Fail`). Three histories say
which bytes are still ndbg's affair: `left`, where the Int3 of a breakpoint that
could not be added or was removed stayed behind, `touched`, what the debuggee
changed after its byte was read, and `refused`, the requests that failed when an
address was last set.

### Display, DisplayContract

A call of `DbgDisplayError` and its two siblings is seven steps: enter the mutex,
colour, prefix, colour, text, colour, leave. `kind` says which of the three it
is; `prompt` is `DbgDisplayMessage (0)`. `colour` is the console's, and `out` what
was printed, with the colour it came in. `PlainPrint` stands for every `printf`
that takes no mutex. The second thread is not joined: `DeleteMutex` may come
while it is anywhere in a call, and a deleted critical section then lets it in,
keeps it for ever or faults (Windows promises none of these). `DisplayContract`
prints a prefix and a text in one step; `Display` is shown to implement it, with
what is printed past the mutex left out of the picture. The mapping shows a
message only once it is whole (`Open`): the end of the process may cut the last
one between prefix and text, and the contract says nothing of that half.

### Console

The one line buffer, at the level of characters: `GetLine` is `fgets`, `NextToken`
a turn of `DbgConsoleGetArgs` with the call of `strtok` at its end, which writes a
NUL into the line even for an argument that finds no room in `argv`. The command
table is a constant; that it fits `_commandList` and names nothing twice, which
`DbgConsoleRegister` asserts, is an assumption on it. Running a command is one
step here; what it does is in `Session`, `Events` and `Breakpoints`.

### Symbols

Extends `List`, because the loader's hazards are those of lists that hold lists:
a `dbgSourceFile` is a data block of `sourceFileList`, owns the block with its
name, and has the descriptor of its list of lines in itself, so that freeing the
file frees the descriptor. dbghelp is external: each of its calls may fail, and
an enumeration reports the files or lines of a constant, one callback a step.
`DbgSetBreakpoint` shares the heap, which is why it is there
(`AddBreakpoint`). `malloc` gives the first free address of an order: the code
compares no addresses, so only whether one is used again matters.

### PipeServer

The loop of `main.c:164-175` step by step, with a pipe in message mode and its
only client (nothing creates a second instance or disconnects the first). A poll
that fails leaves `bytesAvailable` uninitialized, which may send the loop to
read where there is nothing. Its names (`PipeSpec`, `PipeInit`, `loop`, ...) differ from
those of `Display`, the other part of `main.c`, so that `MainProofs` can extend both.

### Subsequences

Three operators the properties of several modules share: a sequence without the
elements of a set (`Dropping`), the parts of a sequence between such elements
(`Pieces`: a text's lines, a line's words), and whether a sequence occurs in
another in its order (`InOrder`), looked for from the front.

### Events, Context, Address

`Events` is `DbgSessionProcessEvent` with its data, one action per kind of debug
event, against the console's `c`, `r` and `b`. It leaves creation and end of the
session to `Session`, and keeps what `Session` abstracts: the exception code, the
strings, the exit codes, the registers. What the code leaves uninitialized holds
what the last event left there: `image` (the `memset` at `session.c:428` has its
arguments swapped), the console's `context`, the string buffer (`Junk`).
Nothing suspends the thread for `r`: of one that runs, `GetThreadContext` may
yield any registers (`Seen`), and the history `still` says whether the debuggee has
stood still since. `ShowString` puts the terminator where the code computes it,
which for an empty string is in front of the buffer.
`Context` has the register copy with the narrowing of the segment
registers, as a function from register names; `Address` has `strtol` with its
prefix, its stop at the first character that is no digit and its saturation.

## 3. The runs

| Run | Question | Bounds |
|---|---|---|
| `session_safety` | Is every use of the session inside its life, every event accounted for, the contract kept? | any command line, any of the five calls failing, `HoistedLoad` |
| `session_liveness` | Is the console reached whenever there is a session to wait for, and does every event get its answer? | a program, any of the five calls failing |
| `linked_list` | Does each call do what it was asked to one list and nothing to the others, are the links whole, and what leaks? | 2 lists, 2 values, 4 nodes, 4 blocks |
| `breakpoints` | One breakpoint per address, ascending ids, an Int3 only where it belongs and there unless it could not be written, and the right byte saved, with `malloc` and the requests failing and the debuggee running | 2 addresses, 2 bytes, 2 nodes, 3 blocks, 3 calls that set |
| `symbols` | Who owns each block while files and lines are loaded, looked up and deleted with any call failing? Is what was loaded what was reported? | 3 files, 4 lines, 8 nodes, 12 blocks |
| `display` | Do messages come out whole and in their colours, and does every call return? | 2 threads, 3 calls |
| `console` | Is what was typed run line by line, all of it in the end, and nothing twice, in spite of the reused buffer and of lines it cannot hold? | every text of up to 6 of 4 characters, a buffer of 6, 2 arguments |
| `pipe_server` | Is what the client sends printed, once and in order, and does none of it stay in the pipe? | 2 messages of up to 3 characters or NULs, a buffer of 2 |
| `events` | Does each line shown belong to its event, each register shown to the thread, and is an address taken as typed? | 4 exceptions, strings of up to 3, names of 1 and 3 with room for 2, 2 sets of registers, 10 addresses |
| `session_halt`, `session_symbols` | disagreements, below | as `session_safety`, nothing fails |
| `break_remove` | disagreement, below | 2 addresses, 2 nodes |

The bounds. `Session` needs none: its state is finite. Four nodes give a list
with two nodes inside, the shortest on which removals inside can follow one
another, and a full heap; two lists show that none disturbs another. For
breakpoints, two addresses and three calls let an address be set, removed and set
again around a call at another, and the two nodes that two breakpoints take give
a list with a head and a tail; `MaxId` bounds the counter, which wraps only
after 2^32 calls. Heap addresses are interchangeable in the code, and so are the
debuggee's addresses and bytes other than the Int3, hence the symmetry. Eight nodes and twelve blocks of `symbols` hold the whole PDB with a
breakpoint and no more, so that the heap also fills up in the middle of it.
Three calls at the display are the fewest for one to wait, one to be inside and
one to follow. Six characters on a line of six give lines that fit with room,
just fit, and are cut; two arguments and three tokens one that finds no room.
Messages of 0 to 3 on a buffer of 2 are empty, short, full and cut, and a second
one finds what the first left. The 4 exceptions are one of each kind the
`switch` tells apart (a code of its own, the code 0, a shared code, none); the
widths of `events` (segments of 2 bits in registers of 4, a largest long of 100)
are small, with values beyond them. Deadlock is not checked: ndbg ends, and a run whose session could not
start stops moving; `ConsoleReached` says that the main thread waits in vain
only when there is no session thread or that one had no memory.

Every module has a type invariant `TypeOK` (`PipeTypeOK` in `PipeServer`). The runs of `Session`, `Breakpoints`
and `Events` check it by its name; `WellLinked`, `OneOwner`, `InColour`, `ShownAsSent`
and `UsedOnce` have that of their modules as a conjunct.

Fairness. Both threads are runnable threads of one process, so each is weakly
fair as long as the process lives. The user and the debuggee owe nothing:
`ContinueUnblocks` says in its premise that the user goes on typing `c`.
`Display` adds strong fairness on entering the mutex: a critical section does
not pass a waiter over for ever, as long as others keep leaving it.
`Console` and `PipeServer` need their one thread to run, and, for the console, the
user to type the text to its end, because a state with text left always has a
step; the client of the pipe owes nothing. `symbols` and `events` ask for safety
only.

## 4. What the code does otherwise than it says

Each is a run that TLC ends with a counterexample.

* `session_halt`: "tell session manager to halt" (`dbg.c:22`) stores SUSPEND, and
  `ContinueDebugEvent` runs all the same.
* `session_symbols`: "Free symbol handler" (`pdb.c:361`) frees another handle
  than the one initialized.
* `break_remove`: "write back original byte" (`break.c:112`) writes nothing.

Seen while modelling, stated exactly by passing properties:

* `q` and `b` use a null session when no program was given
  (`FaultOnlyWithoutSession` says that they do so only without a session);
* the wrong opcode is saved when the read fails, after a call that failed
  half-way, or when the debuggee runs (`OpcodeSaved` names all three), and a
  breakpoint that could not be written is listed without its Int3 (`Planted`
  says that nothing else brings this about but the debuggee);
* an empty debug string stores its terminator before its buffer
  (`DamagedByEmptyOnly`);
* an address above the largest long becomes the largest long
  (`AddressAsTyped`, which leaves "12ab", taken for 12, open);
* a pipe message that fills the buffer is printed past its end
  (`ShownAsSent`, which says that nothing shorter is); at the end of the input the console runs for ever
  (`TextIsExecuted`); the breakpoints of a session are never freed, nor is the
  name of a file that found no node (`AllReleased`).

And with no property: an exception without a name, Ctrl+C among them, is shown
as code 0, a division by zero, and the name of a library that cannot be read as
that of another; `q` before the first `c` detaches from a debuggee that is still
suspended, and what becomes of it is up to Windows; nothing disables the console when the session is not
halted (`dbg.c:22`), and nobody reads the flag of `DbgConsoleSendEvent`; a
breakpoint on an unmapped address is reported as added and then meets the
"should never happen" of `break.c:110`; nothing is ever put into `libraryList`, so
every unloaded library is "unknown"; `DBG_REQ_SETCONTEXT` passes a `dbgContext`
for a `CONTEXT`, and `DBG_SESSION_CONTINUE` stores 1, which as a state is
SUSPEND, but neither has a caller; `help` names a command "exit" that does not
exist (`cmd.c:96`).

## 5. What is proved

For every value of the constants, from these assumptions on them only:

| Assumption | What it asks |
|---|---|
| `ConstantsOK`, `EventsConstantsOK` | types |
| `WidthsOK` | a word is no narrower than its half |
| `PipeConstantsOK` | messages of letters and NULs, a buffer of at least one byte, and types |
| `ConsoleConstantsOK` | a NUL, a blank and a newline are no letters, the command table has q without a procedure and no name twice, a line has room for a character and its NUL, `argv` for one argument, and types |
| `LongMaxOK` | the largest long is positive |
| `DisplayConstantsOK` | one thread besides main: a second session thread is never started |
| `ListConstantsOK` | the null pointer is no address, and there are finitely many nodes |
| `BreakConstantsOK` | the null pointer is no address, a byte is not "unmapped", and types |
| `SymbolConstantsOK` | the heap's two orders of addresses name none twice, the null pointer is none, and a descriptor of the session block is none of its blocks |

The results, each listed in `PROJECT.json`:

* `SessionProofs`: `TypeOK`, `NoUnregisteredCall`, `SessionOutlivesUse`,
  `QuitPrecedesTeardown`, `EventAccounting`, `TeardownComplete`,
  and `FaultOnlyWithoutSession` are invariants, and `Spec` implies
  `QuitLostOnlyInHandling` and `ImplementsContract`, whatever fails.
* `LinkedListProofs`: `WellLinked` is an invariant, and `Spec` implies `LeakSources`
  and `ImplementsContract`, for any number of lists, nodes and values.
* `BreakpointsProofs`: `TypeOK`, `OnePerAddress`, `IdsAscend`, `OpcodeSaved` and
  `Planted` are invariants, with `malloc` failing and the debuggee running or not,
  and any request failing.
* `SymbolsProofs`: `OneOwner`, `AsReported` and `AllReleased` are invariants, for any
  PDB, any heap and any calls that fail.
* `MainProofs`: of the display, `InColour` and `DefaultAtRest` are invariants, and
  `Spec` implies `ImplementsContract`, for any number of calls; of the pipe server,
  `ShownAsSent` is an invariant, for any messages and any size of the buffer.
* `ConsoleProofs`: `UsedOnce` and `ExecutedAsRead` are invariants, for any text, any
  table, any size of the line and of `argv`.
* `EventsProofs`: `TypeOK`, `HaltedOnShown`, `BuffersFreed`, `ShownAsRead`,
  `AddressAsTyped` and `RegistersCurrent` are invariants, and `Spec` implies
  `DamagedByEmptyOnly`.
* `DataProofs` holds what several of them rest on: induction and recursion, parts of
  sequences, a sequence cut into pieces, and the lists of `list.c`.

With this every safety invariant and every action property of the passing runs
is a theorem.

**The session.** None of the properties is inductive. A `q` is safe because the
tear-down follows a stored QUIT, that because only the console stores it, and on
its way out (`QuitInv`); a pointer the main thread holds is good because it can
only be got from a published session (`StartUpInv`), whose block, handles and
pointer change at known places of the session thread alone (`ResourceInv`); a
dispatched event finds `proc` set because a debuggee raises events only after a
`c`, which comes after the registration (`DebuggeeInv`). `IInv` is their
conjunction with `TypeOK` and `EventAccounting`; each action of each party is
shown to preserve it (`MainPreserves`, `UserPreserves`, `SessionPreserves`,
`DebuggeePreserves`), and every property follows from it. For the refinement,
under `IInv` each action is shown to be one action of the contract or to leave
its three variables alone.

**The lists.** `Chain` walks the links, which says what a list is but not how a call
changes it. So `DataProofs` describes a list by the sequence of its nodes:
`Holds(m, l, s)` says that the descriptor `l` has the ends of `s`, that each node of
`s` links to its neighbours, and that none occurs twice. `ChainOf` shows that the
walk then returns `s`. It is the one induction of the proofs of lists, over the
length of the walk; the library states induction for an operator, which no
prover here can instantiate, and `SetInduction` states it for a set of numbers
instead. `Heap(m)` says that every list holds some sequence, that no node is in two,
and that every allocated node has an allocated block of its own. Each operation of
`list.c` has one lemma (`AddHeap`, `RemoveHeap`, `FreeAllHeap`): from a heap, its
sequence gets one node more, one less, or none at all, the other lists keep
theirs, and the result is a heap. `LinkedListProofs` reads the properties and
the contract off these lemmas. `WellLinked` alone is not inductive: it says
nothing of the nodes that a removal has unlinked and not freed, whose blocks a
new node must not get.

**The breakpoints.** `IInv` adds to the five properties and `Heap` what a call of
`DbgSetBreakpoint` counts on between its steps (`SettingInv`): no breakpoint of the
list has the address it scanned for, its id is above all of the list, and the
byte it holds, and the one in memory once it is written, are what the properties
say of them once it is added, with the requests that failed in `refused`.

**The symbols.** Which list a block belongs to is not written anywhere, but what is
in it tells who owns it, and `MemoryInv` says so: a name has one file or is `lost`;
a line is in the list of a file that is in `sourceFileList`; a descriptor in a
block is that of a file in the list. `OneOwner` counts owners block by block,
and each count follows from these and `Heap`. `Control` says for each place of the
thread what is there: while a loop runs it is at a node of the list (`LoopInv`), and in
`DbgFreeSymbols` the files before it have lost their names and lines, so that when
`DbgListFreeAll` frees the files nothing is reached only through them.
`AsReported` looks at the end of loading only; on the way (`ReportInv`) what is on
the list of files, followed by what is still to be reported, is in the PDB in this
order, and so are the lines of the file at hand (`Kept`), the files before it are
complete and those behind it empty. `View` shows the heap as that list, and no step
but the two callbacks changes what it shows.

**The display.** Only the owner of the mutex changes the colour (`Exclusive`), and
each of its steps leaves the colour the next one counts on (`ColourInv`). A
deleted mutex excludes nobody, but main is then past its last call, and the
assumption leaves one other thread. For the contract it remains to say that
between prefix and text the last piece under the mutex is that prefix (`OpenInv`):
then the text completes it to a message in one step of the contract, and every
other step shows nothing new.

**The pipe server.** The buffer is zeroed before every read, so behind the bytes
read are NULs (`Buffer`), and what is printed ends with them. What is shown, still
in the buffer and still in the pipe is one sequence, and no step but `ReadFile`
loses a byte of it, then those behind a NUL (`Moved`). Because "in order" is not
easily composed when looked for from the front, the proofs say instead that there
are ascending places for it (`Embeds`); `EmbedsInOrder` leads from one to the other.

**The console.** Neither property is inductive, because both compare the commands
executed with the text, and between the two lie the line, which `strtok` cuts up,
and pointers into it. `Pending` names, while a line is worked on, the end `m` of
what was read into it, the distance `b` between a letter's places in the line and
in the text, and how much of the text (`u`) is used up by what was executed and by
the arguments found; every letter that `strtok` still has before it lies behind `u` in
the text. `Cut` says that the NULs which end the arguments found are
behind `scan` for good, and `Blank` that between two lines, and after a line without
arguments, the buffer has no letter before its end: that is why the end of the
input, which leaves the buffer as it is, runs nothing. These hold for lines that
do not fit, too, and give `UsedOnce`.

For `ExecutedAsRead` the line is also a line of the text (`AtLine`), and as `strtok`
goes along it, the arguments are the words which `Pieces` finds in the part
already passed (`Cutting`): blanks change nothing (`PiecesSkip`), a word adds one
(`PiecesWord`), and the argument that found no room is where both stop. `Pieces` is
a fold over all of a text, so what a line adds is a lemma (`PiecesStep`,
`LineAdds`), and so is that lines read stay the same when more text follows
(`LinesExtend`), whence the first q stays the first (`QuitsThere`). `LineInv` says at
each place of the loop what was executed; it is preserved only under
`Fits(text)`, the hypothesis of the property.

**The events.** The loop stores "suspend" for an exception only, whatever the console
stores in between, and takes no event while it stands (`Halting`); while the
debuggee stands still its registers are those that `r` read (`Displaying`). A string is shown right because the
terminator that the code stores ends it before anything left in the buffer, and
what is read is stored before that; that the text printed ends before its first
NUL is `Leading`, which also bounds what `strtol` returns. An address is right although
`strtol` multiplies and adds digit by digit and stops at its limit, where the property
weighs each digit by its place: before the limit each step keeps the value so far a
multiple of the base plus a digit (`NumberIs`), and one that exceeds the limit
never comes back under it (`StrtolOfDigits`).

Only model-checked: liveness, since fairness and `ENABLED` are beyond the prover.
These are `ConsoleReached`, `ContinueUnblocks` and `ImplementsLiveContract` of the
session, `CallReturns` of the display, `TextIsExecuted` of the console, whose safety
part is `ExecutedAsRead`, and `Drained` of the pipe server. The three disagreements of
section 4 are counterexamples, which need no proof.

## 6. What is not modelled, and what is left to do

* Code without a caller: `DBG_SESSION_CONTINUE`, `DBG_REQ_BREAK`, `DBG_REQ_STOP`,
  `DBG_REQ_SETCONTEXT`, `DbgWin32ContextFromDbg`, `DbgConsoleSendEvent`, `DbgConsoleInterrupt`, `DbgOpenPipe`,
  `ReadPipeThreadEntry`. A model of it would have to invent its callers.
* The fields of a symbol (`DbgSymbolFromPDB`): no code reads what a lookup returns.
  Among them is the name, which points into a block that is freed before the
  lookup returns (`pdb.c:77`).
* Failures of `ContinueDebugEvent` and `CloseHandle`, and a spinning loop
  (`HoistedLoad`) in the liveness properties.
* What a detached debuggee does with the Int3s left in it (`session.c:94`).
* Signs in the address of `b`, and library names that have no form in the
  code page of the console.
* `source.c` and `pipe.c`, which contain no code, the stubs that return `FALSE`,
  watchpoints (all stubs), and the wording of messages.

Left to prove: liveness, with a prover for fairness.
