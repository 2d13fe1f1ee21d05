----------------------------- MODULE Breakpoints -----------------------------
(***************************************************************************)
(* The breakpoint manager (break.c) at work in the memory of the debuggee. *)
(*                                                                         *)
(* One thread of ndbg calls it, but each request to read or write memory   *)
(* is a step of its own: the console is open while the debuggee runs, and  *)
(* a running debuggee stores to, maps and unmaps its memory between any    *)
(* two of them.  The breakpoint list is a list of list.c (List).           *)
(***************************************************************************)
EXTENDS List, FiniteSets

CONSTANTS
  Addrs,     \* addresses in the debuggee
  Bytes,     \* the bytes the debuggee itself keeps there
  Nodes, Cells,  \* addresses malloc may give, as in LinkedList
  Calls,     \* the calls made besides DbgSetBreakpoint
  MallocMayFail,
  DebuggeeRuns,  \* FALSE: it stays suspended, as CREATE_SUSPENDED left it
  MaxId      \* bound of the runs on _breakPointUniqueID

Int3     == "cc"
Unmapped == "unmapped"
NoOpcode == "00"
ApiCalls == {"DbgSetBreakpointHitCount", "DbgRemoveBreakpoint"}

ASSUME BreakConstantsOK ==
  /\ Unmapped \notin Bytes
  /\ Null \notin Nodes \cup Cells \cup Addrs
  /\ Calls \subseteq ApiCalls
  /\ MallocMayFail \in BOOLEAN /\ DebuggeeRuns \in BOOLEAN
  /\ MaxId \in Nat

VARIABLES
  memory,   \* ndbg's heap, with the list "breakPointList"
  mem,      \* the debuggee's memory: a byte at each mapped address
  own,      \* what would be there had ndbg written nothing
  nextId,   \* _breakPointUniqueID
  pc,       \* where the call in progress is, "idle" between calls
  bp,       \* the dbgBreakpoint on the stack of DbgSetBreakpoint
  left,     \* history: where the Int3 of no listed breakpoint was left behind
  touched,  \* history: what the debuggee changed after its byte was last saved
  refused   \* history: the requests that failed when an address was last set

vars == <<memory, mem, own, nextId, pc, bp, left, touched, refused>>
debuggeeVars == <<mem, own, left, touched>>

Requests == {"read", "write"} \X Addrs

L == "breakPointList"

Hits == {"garbage", "reset"}  \* DbgSetBreakpoint leaves hits uninitialized

Breakpoint == [id : 0..MaxId, address : Addrs, hits : Hits,
               opcode : Bytes \cup {Int3, NoOpcode}]

NoBreakpoint == [id |-> 0, address |-> Null, hits |-> "garbage", opcode |-> NoOpcode]

Init ==
  /\ memory = listInit([node |-> [n \in {} |-> Null], cell |-> [c \in {} |-> Null],
                        root |-> [l \in {L} |-> EmptyRoot]], L)
  /\ mem \in [Addrs -> Bytes \cup {Unmapped}]
  /\ own = mem
  /\ nextId = 0 /\ pc = "idle" /\ bp = NoBreakpoint
  /\ left = {} /\ touched = {} /\ refused = {}

(* The breakpoints in the list, in its order.                              *)
DataAt(i) == memory.node[NodeAt(memory, L, i - 1)].data
Entries   == [i \in 1..memory.root[L].count |-> memory.cell[DataAt(i)]]
Listed(a) == \E i \in DOMAIN Entries : Entries[i].address = a

(* Address a is no longer that of a listed breakpoint.                     *)
Abandon(a) == left' = IF mem[a] # own[a] THEN left \cup {a} ELSE left

----------------------------------------------------------------------------
(* DbgSetBreakpoint.                                                       *)

(* Faulty variants, like the two below, are what the properties are tested *)
(* against; they are no part of the model.                                 *)
SetBreakpointUnscanned(a) ==
  /\ pc = "idle" /\ nextId < MaxId
  /\ bp' = [id |-> nextId, address |-> a, hits |-> "garbage", opcode |-> NoOpcode]
  /\ nextId' = nextId + 1 /\ pc' = "read"
  /\ refused' = refused \ {<<"read", a>>, <<"write", a>>}
  /\ UNCHANGED <<memory, debuggeeVars>>

SetBreakpointSameId(a) ==
  /\ pc = "idle" /\ ~Listed(a)
  /\ bp' = [id |-> nextId, address |-> a, hits |-> "garbage", opcode |-> NoOpcode]
  /\ pc' = "read"
  /\ refused' = refused \ {<<"read", a>>, <<"write", a>>}
  /\ UNCHANGED <<memory, debuggeeVars, nextId>>

(* An address that is in the list already is refused.                      *)
SetBreakpoint(a) ==
  /\ pc = "idle"
  /\ ~Listed(a)
  /\ nextId < MaxId
  /\ bp' = [id |-> nextId, address |-> a, hits |-> "garbage", opcode |-> NoOpcode]
  /\ nextId' = nextId + 1
  /\ pc' = "read"
  /\ refused' = refused \ {<<"read", a>>, <<"write", a>>}
  /\ UNCHANGED <<memory, debuggeeVars>>

(* A request fails at an unmapped address, and may fail at any other: the  *)
(* page may be guarded, or not writable.  Its result is ignored.           *)
Fail(request) ==
  /\ refused' = refused \cup {<<request, bp.address>>}
  /\ UNCHANGED <<mem, bp>>

ReadOpcodeDropped ==
  /\ pc = "read" /\ pc' = "write"
  /\ touched' = touched \ {bp.address}
  /\ UNCHANGED <<memory, mem, own, left, nextId, bp, refused>>

ReadOpcodeUnchecked ==
  /\ pc = "read" /\ pc' = "write"
  /\ bp' = [bp EXCEPT !.opcode = mem[bp.address]]
  /\ touched' = touched \ {bp.address}
  /\ UNCHANGED <<memory, mem, own, left, nextId, refused>>

ReadOpcode ==
  /\ pc = "read"
  /\ \/ /\ mem[bp.address] # Unmapped
        /\ bp' = [bp EXCEPT !.opcode = mem[bp.address]]
        /\ UNCHANGED <<mem, refused>>
     \/ Fail("read")
  /\ pc' = "write"
  /\ touched' = touched \ {bp.address}
  /\ UNCHANGED <<memory, own, left, nextId>>

WriteInt3Dropped ==
  /\ pc = "write" /\ pc' = "add"
  /\ UNCHANGED <<memory, debuggeeVars, nextId, bp, refused>>

WriteInt3 ==
  /\ pc = "write"
  /\ \/ /\ mem[bp.address] # Unmapped
        /\ mem' = [mem EXCEPT ![bp.address] = Int3]
        /\ UNCHANGED <<bp, refused>>
     \/ Fail("write")
  /\ pc' = "add"
  /\ UNCHANGED <<memory, own, left, touched, nextId>>

(* Without memory for a node the call fails, and leaves the Int3 behind;   *)
(* without memory for the data listAddElement writes through null.         *)
AddToList ==
  /\ pc = "add"
  /\ \/ \E n \in Nodes \ DOMAIN memory.node, c \in Cells \ DOMAIN memory.cell :
          /\ memory' = listAddElement(memory, L, n, c, bp)
          /\ pc' = "idle"
          /\ UNCHANGED left
     \/ /\ MallocMayFail \/ Nodes \subseteq DOMAIN memory.node
        /\ pc' = "idle"
        /\ Abandon(bp.address)
        /\ UNCHANGED memory
     \/ /\ MallocMayFail \/ Cells \subseteq DOMAIN memory.cell
        /\ ~(Nodes \subseteq DOMAIN memory.node)
        /\ pc' = "crashed"
        /\ Abandon(bp.address)
        /\ UNCHANGED memory
  /\ bp' = NoBreakpoint
  /\ UNCHANGED <<mem, own, touched, nextId, refused>>

----------------------------------------------------------------------------
(* The other services.                                                     *)

SetHitCount(hits) ==
  /\ pc = "idle" /\ "DbgSetBreakpointHitCount" \in Calls
  /\ memory' = [memory EXCEPT !.cell =
                  [c \in DOMAIN @ |->
                     IF \E i \in DOMAIN Entries : DataAt(i) = c THEN [@[c] EXCEPT !.hits = hits]
                     ELSE @[c]]]
  /\ UNCHANGED <<debuggeeVars, nextId, pc, bp, refused>>

(* The caller names a breakpoint by its address in the list; a copy, as    *)
(* DbgGetBreakpoint returns, matches nothing and changes nothing.  If the  *)
(* byte read back is an Int3 the saved opcode is given to the write as the *)
(* address of the byte (break.c:113): nothing is mapped there, so nothing  *)
(* is written, and the breakpoint leaves the list in either case.          *)
RemoveBreakpoint(i) ==
  /\ pc = "idle" /\ "DbgRemoveBreakpoint" \in Calls
  /\ memory' = listRemoveElement(memory, L, i - 1)
  /\ Abandon(Entries[i].address)
  /\ UNCHANGED <<mem, own, touched, nextId, pc, bp, refused>>

----------------------------------------------------------------------------
(* The debuggee, while it runs.                                            *)

Store(a, b) ==
  /\ mem[a] # Unmapped
  /\ mem' = [mem EXCEPT ![a] = b]
  /\ own' = [own EXCEPT ![a] = b]

Unmap(a) ==
  /\ mem[a] # Unmapped
  /\ mem' = [mem EXCEPT ![a] = Unmapped]
  /\ own' = [own EXCEPT ![a] = Unmapped]

Map(a, b) ==
  /\ mem[a] = Unmapped
  /\ mem' = [mem EXCEPT ![a] = b]
  /\ own' = [own EXCEPT ![a] = b]

Debuggee ==
  /\ DebuggeeRuns
  /\ \E a \in Addrs :
       /\ Unmap(a) \/ \E b \in Bytes : Store(a, b) \/ Map(a, b)
       /\ left' = left \ {a} /\ touched' = touched \cup {a}
  /\ UNCHANGED <<memory, nextId, pc, bp, refused>>

Call == \/ \E a \in Addrs : SetBreakpoint(a)
        \/ ReadOpcode \/ WriteInt3 \/ AddToList
        \/ \E h \in Hits \ {"garbage"} : SetHitCount(h)
        \/ \E i \in DOMAIN Entries : RemoveBreakpoint(i)

Next == pc # "crashed" /\ (Call \/ Debuggee)

Spec == Init /\ [][Next]_vars

----------------------------------------------------------------------------
Setting == pc \in {"read", "write", "add"}

TypeOK ==
  /\ DOMAIN memory.node \subseteq Nodes /\ DOMAIN memory.cell \subseteq Cells
  /\ memory.cell \in [DOMAIN memory.cell -> Breakpoint]
  /\ mem \in [Addrs -> Bytes \cup {Int3, Unmapped}]
  /\ own \in [Addrs -> Bytes \cup {Unmapped}]
  /\ nextId \in 0..MaxId
  /\ pc \in {"idle", "read", "write", "add", "crashed"}
  /\ bp \in Breakpoint \cup {NoBreakpoint}
  /\ left \subseteq Addrs /\ touched \subseteq Addrs /\ refused \subseteq Requests

(* However calls fail, are repeated, and remove, the list never holds two  *)
(* breakpoints of one address, nor one of the address now being set: the   *)
(* scan at the head of DbgSetBreakpoint is still true when it adds.        *)
OnePerAddress ==
  /\ \A i, j \in DOMAIN Entries :
       i # j => Entries[i].address # Entries[j].address
  /\ Setting => ~Listed(bp.address)

(* "unique ID counters" (break.c:15): ids ascend along the list, and the   *)
(* next is above them all, whatever was removed or could not be added.     *)
IdsAscend ==
  /\ \A i, j \in DOMAIN Entries : i < j => Entries[i].id < Entries[j].id
  /\ \A i \in DOMAIN Entries : Entries[i].id < (IF Setting THEN bp.id ELSE nextId)

(* "save byte at address and attempt to write breakpoint" (break.c:39): a  *)
(* listed breakpoint holds the debuggee's own byte, unless the read of it  *)
(* failed (break.c:40 goes on all the same), the debuggee changed it after *)
(* it was read (before the Int3 was written, too), or an earlier call left *)
(* its Int3 to be read in its place.                                       *)
OpcodeSaved ==
  \A i \in DOMAIN Entries :
    LET e == Entries[i]
    IN e.address \notin left \cup touched /\ <<"read", e.address>> \notin refused
         => e.opcode = own[e.address]

(* ndbg changes the debuggee's memory only at a listed breakpoint, at the  *)
(* one being set, or where it left the Int3 of one that could not be added *)
(* or was removed; and a listed breakpoint is in place until the debuggee  *)
(* changes its memory there, unless the write of it failed: break.c:41     *)
(* ignores that, and the breakpoint is listed without its Int3.            *)
Planted ==
  \A a \in Addrs :
    /\ mem[a] # own[a] =>
         /\ mem[a] = Int3
         /\ Listed(a) \/ a \in left \/ (pc = "add" /\ bp.address = a)
    /\ Listed(a) /\ a \notin touched /\ <<"write", a>> \notin refused => mem[a] = Int3

----------------------------------------------------------------------------
(* What the program says of itself and does not do.                        *)

(* "write back original byte and return success" (break.c:112): an address *)
(* with no breakpoint has no Int3 of ndbg, when no call is in progress.    *)
OriginalRestored ==
  pc = "idle" => \A a \in Addrs : mem[a] = Int3 /\ own[a] # Int3 => Listed(a)
=============================================================================
