------------------------------- MODULE Symbols -------------------------------
(***************************************************************************)
(* The symbols of a session (symbol.c, pdb.c), from DbgSymbolEnumerate to  *)
(* DbgSessionDeleteProc, on the heap and the lists of List.                *)
(*                                                                         *)
(* dbghelp reports the source files of the debuggee, then the lines of     *)
(* each, one callback at a time; a file is a block of the session's        *)
(* sourceFileList that owns a block with its name and has the descriptor   *)
(* of its own list of lines inside, named here by the block's address.     *)
(* Any call of dbghelp may fail, and so may any call of malloc.            *)
(***************************************************************************)
EXTENDS List, Subsequences, FiniteSets, SequencesExt

CONSTANTS
  PdbFiles,  \* the source files the PDB has, in the order of the report
  PdbLines,  \* the lines it has of each
  Nodes, Cells  \* the addresses of list nodes and of other blocks, in the
                \* order in which malloc gives those that are free

Files == "sourceFileList"
Bps   == "breakPointList"
SessionLists == {"libraryList", "threadList", Files, Bps, "watchPointList"}

ASSUME SymbolConstantsOK ==
  /\ PdbFiles \in Seq(Range(PdbFiles)) /\ PdbLines \in [Range(PdbFiles) -> Seq(Nat)]
  /\ Nodes \in Seq(Range(Nodes)) /\ Cells \in Seq(Range(Cells))
  /\ IsInjective(Nodes) /\ IsInjective(Cells) /\ Null \notin Range(Nodes \o Cells)
  /\ SessionLists \cap Range(Cells) = {}

VARIABLES
  pc,      \* where the thread of the session is
  memory,  \* the heap
  report,  \* what dbghelp is still to report in the enumeration under way
  cur,     \* the node a loop over sourceFileList is at
  turn,    \* the number of its turns
  block,   \* the SYMBOL_INFO of a lookup
  lost,    \* history: names of files that were not added to the list
  missing  \* history: dbghelp or malloc failed while symbols were loaded

vars == <<pc, memory, report, cur, turn, block, lost, missing>>

FilesAt(c) == memory.cell[memory.node[c].data]

Init ==
  /\ memory = [node |-> [n \in {} |-> Null], cell |-> [c \in {} |-> Null],
               root |-> [l \in SessionLists |-> EmptyRoot]]
  /\ pc = "start" /\ report = << >> /\ cur = Null /\ turn = 0 /\ block = Null
  /\ lost = {} /\ missing = FALSE

(* malloc gives any free address.  They are all alike to the code: the     *)
(* first in an order stands for the others, and is soon used again.        *)
Room(f, order)  == Len(order) - Cardinality(DOMAIN f)
Fresh(f, order) == order[Min({i \in DOMAIN order : order[i] \notin DOMAIN f})]

HasNode == Room(memory.node, Nodes) > 0
HasCell == Room(memory.cell, Cells) > 0
NewCell == Fresh(memory.cell, Cells)

Add(m, l, data) ==
  listAddElement(m, l, Fresh(m.node, Nodes), Fresh(m.cell, Cells), data)

----------------------------------------------------------------------------
(* DbgSymbolEnumerate.                                                     *)

(* SymInitialize, whose result is ignored, SymLoadModule, SymGetModuleInfo *)
(* and the kind of symbols: only those of a PDB are loaded.                *)
LoadTable ==
  /\ pc = "start"
  /\ \/ pc' = "ready" /\ UNCHANGED report
     \/ pc' = "files" /\ report' \in {PdbFiles, << >>}
  /\ missing' = (pc' = "ready" \/ report' # PdbFiles)
  /\ UNCHANGED <<memory, cur, turn, block, lost>>

(* Faulty variants, like this one, are what the properties are tested      *)
(* against; they are no part of the model.                                 *)
SourceFileSharingName ==
  /\ pc = "files" /\ report # << >> /\ HasNode /\ HasCell
  /\ memory' = LET m == Add(memory, Files, [kind |-> "file", of |-> Head(report),
                                            name |-> NewCell])
               IN [m EXCEPT !.root = Allocate(@, NewCell, EmptyRoot)]
  /\ report' = Tail(report)
  /\ UNCHANGED <<pc, cur, turn, block, lost, missing>>

(* EnumSourceFilesProcPDB: a block for the name, then one for the file.    *)
SourceFile ==
  /\ pc = "files" /\ report # << >>
  /\ HasCell
  /\ LET name  == NewCell
         named == [memory EXCEPT !.cell = Allocate(@, name, [kind |-> "name"])]
         file  == [kind |-> "file", of |-> Head(report), name |-> name]
     IN \/ /\ HasNode /\ Room(named.cell, Cells) > 0
           /\ LET m == Add(named, Files, file)
              IN memory' = [m EXCEPT !.root = Allocate(@, m.node[m.root[Files].last].data,
                                                       EmptyRoot)]
           /\ UNCHANGED <<lost, missing>>
        \/ /\ memory' = named  \* no memory for the node
           /\ lost' = lost \cup {name}
           /\ missing' = TRUE
  /\ report' = Tail(report)
  /\ UNCHANGED <<pc, cur, turn, block>>

(* The malloc of a name or of the data of a node fails: the copy that      *)
(* follows goes through null.                                              *)
CopyFault ==
  /\ pc \in {"files", "line"} /\ report # << >>
  /\ pc' = "crashed"
  /\ UNCHANGED <<memory, report, cur, turn, block, lost, missing>>

FilesReported ==
  /\ pc = "files" /\ report = << >>
  /\ pc' = "lines"
  /\ cur' = memory.root[Files].first /\ turn' = 0
  /\ UNCHANGED <<memory, report, block, lost, missing>>

EnumerateLines ==
  /\ pc = "lines"
  /\ turn < memory.root[Files].count
  /\ report' \in {PdbLines[FilesAt(cur).of], << >>}
  /\ missing' = (missing \/ report' # PdbLines[FilesAt(cur).of])
  /\ pc' = "line"
  /\ UNCHANGED <<memory, cur, turn, block, lost>>

SourceLineOfFirst ==
  /\ pc = "line" /\ report # << >> /\ HasNode /\ HasCell
  /\ memory' = Add(memory, memory.node[memory.root[Files].first].data,
                   [kind |-> "line", of |-> FilesAt(cur).of, no |-> Head(report)])
  /\ report' = Tail(report)
  /\ UNCHANGED <<pc, cur, turn, block, lost, missing>>

(* EnumLinesProcPDB, with the file the loop is at.                         *)
SourceLine ==
  /\ pc = "line" /\ report # << >>
  /\ \/ /\ HasNode /\ HasCell
        /\ memory' = Add(memory, memory.node[cur].data,
                         [kind |-> "line", of |-> FilesAt(cur).of, no |-> Head(report)])
        /\ UNCHANGED missing
     \/ UNCHANGED memory /\ missing' = TRUE  \* no memory for the node
  /\ report' = Tail(report)
  /\ UNCHANGED <<pc, cur, turn, block, lost>>

LinesReported ==
  /\ pc = "line" /\ report = << >>
  /\ cur' = memory.node[cur].next
  /\ turn' = turn + 1
  /\ pc' = "lines"
  /\ UNCHANGED <<memory, report, block, lost, missing>>

Loaded ==
  /\ pc = "lines"
  /\ turn = memory.root[Files].count
  /\ pc' = "ready"
  /\ UNCHANGED <<memory, report, cur, turn, block, lost, missing>>

----------------------------------------------------------------------------
(* What follows until the session is deleted.                              *)

(* DbgSetBreakpoint adds to another list of the session (Breakpoints).     *)
AddBreakpoint ==
  /\ pc = "ready"
  /\ HasNode /\ HasCell
  /\ memory' = Add(memory, Bps, [kind |-> "breakpoint"])
  /\ UNCHANGED <<pc, report, cur, turn, block, lost, missing>>

(* DbgSymbolFromAddress and DbgSymbolFromName: the block for dbghelp's     *)
(* answer; only the second tests that it got one.                          *)
Lookup ==
  /\ pc = "ready"
  /\ \/ /\ HasCell
        /\ memory' = [memory EXCEPT !.cell = Allocate(@, NewCell, [kind |-> "symbol"])]
        /\ block' = NewCell /\ pc' = "lookup"
     \/ pc' = "crashed" /\ UNCHANGED <<memory, block>>
  /\ UNCHANGED <<report, cur, turn, lost, missing>>

(* Found or not, the block is freed before the lookup returns, with the    *)
(* name that a symbol it found points to.                                  *)
LookupDone ==
  /\ pc = "lookup"
  /\ memory' = [memory EXCEPT !.cell = Free(@, {block})]
  /\ block' = Null
  /\ pc' = "ready"
  /\ UNCHANGED <<report, cur, turn, lost, missing>>

----------------------------------------------------------------------------
(* DbgSessionDeleteProc, and the end of the session.                       *)

DeleteProc ==
  /\ pc = "ready"
  /\ memory' = listFreeAll(listFreeAll(memory, "libraryList"), "threadList")
  /\ cur' = memory.root[Files].first /\ turn' = 0
  /\ pc' = "delete"
  /\ UNCHANGED <<report, block, lost, missing>>

(* The name and the lines of a file.                                       *)
DeleteFile ==
  /\ pc = "delete"
  /\ turn < memory.root[Files].count
  /\ LET c == memory.node[cur].data
     IN memory' = listFreeAll([memory EXCEPT
                                 !.cell = Free([@ EXCEPT ![c].name = Null], {@[c].name})],
                              c)
  /\ cur' = memory.node[cur].next
  /\ turn' = turn + 1
  /\ UNCHANGED <<pc, report, block, lost, missing>>

DeleteFileListsFirst ==
  /\ pc = "delete"
  /\ pc' = "deleted"
  /\ memory' = LET m == listFreeAll(memory, Files)
               IN [m EXCEPT !.root = [l \in SessionLists |-> @[l]]]
  /\ UNCHANGED <<report, cur, turn, block, lost, missing>>

(* Then the files, and with them the descriptors of their lists.           *)
DeleteFiles ==
  /\ pc = "delete"
  /\ turn = memory.root[Files].count
  /\ memory' = LET m == listFreeAll(memory, Files)
               IN [m EXCEPT !.root = [l \in SessionLists |-> @[l]]]
  /\ pc' = "deleted"
  /\ UNCHANGED <<report, cur, turn, block, lost, missing>>

Next == \/ LoadTable \/ SourceFile \/ CopyFault \/ FilesReported
        \/ EnumerateLines \/ SourceLine \/ LinesReported \/ Loaded
        \/ AddBreakpoint \/ Lookup \/ LookupDone
        \/ DeleteProc \/ DeleteFile \/ DeleteFiles

Spec == Init /\ [][Next]_vars

----------------------------------------------------------------------------
Loading == {"files", "lines", "line"}

TypeOK ==
  /\ pc \in Loading \cup {"start", "ready", "lookup", "delete", "deleted", "crashed"}
  /\ DOMAIN memory.node \subseteq Range(Nodes) /\ DOMAIN memory.cell \subseteq Range(Cells)
  /\ SessionLists \subseteq DOMAIN memory.root
  /\ lost \subseteq Range(Cells) /\ missing \in BOOLEAN
  /\ cur \in Range(Nodes) \cup {Null} /\ turn \in 0..Len(PdbFiles)
  /\ block \in Range(Cells) \cup {Null} /\ (block # Null <=> pc = "lookup")

DataOf(l) == LET chain == Chain(memory, l)
             IN [i \in DOMAIN chain |-> memory.cell[memory.node[chain[i]].data]]

(* The loops over sourceFileList count turns and follow next.              *)
LoopInList ==
  pc \in {"lines", "line", "delete"} /\ turn < memory.root[Files].count =>
    cur = NodeAt(memory, Files, turn)

(* Every block of the heap has one owner, and every pointer to a block     *)
(* leads to one: nothing is freed twice or used after it was freed, and    *)
(* nothing leaks but the name of a file for which there was no node.  The  *)
(* loops over the files never leave the list, also while its elements are  *)
(* being taken apart.                                                      *)
OneOwner ==
  LET Fs == {c \in DOMAIN memory.cell : memory.cell[c].kind = "file"}
  IN /\ TypeOK /\ LoopInList
     /\ \A c \in DOMAIN memory.cell :
          Cardinality({n \in DOMAIN memory.node : memory.node[n].data = c})
            + Cardinality({f \in Fs : memory.cell[f].name = c})
            + (IF c \in lost \cup {block} THEN 1 ELSE 0) = 1
     /\ \A n \in DOMAIN memory.node :
          /\ memory.node[n].data \in DOMAIN memory.cell
          /\ Cardinality({l \in DOMAIN memory.root : n \in Range(Chain(memory, l))}) = 1
     /\ \A f \in Fs : memory.cell[f].name \in DOMAIN memory.cell \cup {Null}
     /\ DOMAIN memory.root = SessionLists \cup Fs

(* What was loaded is what the PDB reports: the files in their order, with *)
(* their own lines in theirs; all of them when no call fails.              *)
FileLists ==
  LET nodes == Chain(memory, Files)
  IN [i \in DOMAIN nodes |-> [of |-> memory.cell[memory.node[nodes[i]].data].of,
                              lines |-> DataOf(memory.node[nodes[i]].data)]]

AsReported ==
  pc = "ready" =>
    LET lists == FileLists
        files == [i \in DOMAIN lists |-> lists[i].of]
    IN /\ InOrder(files, PdbFiles)
       /\ \A i \in DOMAIN lists :
            LET reported == PdbLines[lists[i].of]
            IN /\ \A k \in DOMAIN lists[i].lines : lists[i].lines[k].of = lists[i].of
               /\ InOrder([k \in DOMAIN lists[i].lines |-> lists[i].lines[k].no], reported)
               /\ ~missing => Len(lists[i].lines) = Len(reported)
       /\ ~missing => files = PdbFiles

(* Deleting the session frees all that was allocated for its symbols.  The *)
(* blocks that stay are the breakpoints', which nothing frees, and names   *)
(* that were lost while loading.                                           *)
AllReleased ==
  pc = "deleted" =>
    LET nodes == Range(Chain(memory, Bps))
    IN /\ DOMAIN memory.node = nodes
       /\ DOMAIN memory.cell = lost \cup {memory.node[n].data : n \in nodes}
=============================================================================
