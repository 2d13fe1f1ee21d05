----------------------------- MODULE LinkedList -----------------------------
(***************************************************************************)
(* The lists of list.c in use: any sequence of calls, on several lists     *)
(* that share one heap.                                                    *)
(***************************************************************************)
EXTENDS List, FiniteSets

CONSTANTS
  Lists,  \* the list descriptors
  Data,   \* what the callers store
  Nodes,  \* the addresses malloc may give a listNode
  Cells   \* the addresses malloc may give a data block

ASSUME ListConstantsOK ==
  /\ Null \notin Nodes \cup Cells
  /\ IsFiniteSet(Nodes)

VARIABLES
  memory,  \* see List
  faulted  \* a null pointer was written through

vars == <<memory, faulted>>

FreeNodes == Nodes \ DOMAIN memory.node
FreeCells == Cells \ DOMAIN memory.cell

Init ==
  /\ memory = [node |-> [n \in {} |-> Null], cell |-> [c \in {} |-> Null],
               root |-> [l \in Lists |-> EmptyRoot]]
  /\ faulted = FALSE

(* Without memory for the node the call returns 0 and changes nothing.     *)
AddElement(l, data) ==
  /\ \E n \in FreeNodes, c \in FreeCells :
       memory' = listAddElement(memory, l, n, c, data)
  /\ UNCHANGED faulted

(* The malloc of the data is not checked before the memcpy into it.        *)
AddElementFault ==
  /\ FreeNodes # {} /\ FreeCells = {}
  /\ faulted' = TRUE
  /\ UNCHANGED memory

RemoveElement(l, num) ==
  /\ memory' = listRemoveElement(memory, l, num)
  /\ UNCHANGED faulted

FreeAll(l) ==
  /\ memory' = listFreeAll(memory, l)
  /\ UNCHANGED faulted

Next ==
  /\ ~faulted
  /\ \/ \E l \in Lists :
          \/ \E data \in Data : AddElement(l, data)
          \/ \E num \in 0..memory.root[l].count : RemoveElement(l, num)
          \/ FreeAll(l)
     \/ AddElementFault

Spec == Init /\ [][Next]_vars

----------------------------------------------------------------------------
ListNode   == [next : Nodes \cup {Null}, prev : Nodes \cup {Null},
               data : Cells \cup {Null}]
Descriptor == [count : 0..Cardinality(Nodes), first : Nodes \cup {Null},
               last : Nodes \cup {Null}]

TypeOK ==
  /\ DOMAIN memory.node \subseteq Nodes /\ DOMAIN memory.cell \subseteq Cells
  /\ memory.node \in [DOMAIN memory.node -> ListNode]
  /\ memory.cell \in [DOMAIN memory.cell -> Data]
  /\ memory.root \in [Lists -> Descriptor]
  /\ faulted \in BOOLEAN

(* The data of a list in order, as the loops over count read it.           *)
Contents(l) ==
  LET ch == Chain(memory, l)
  IN [i \in DOMAIN ch |-> memory.cell[memory.node[ch[i]].data]]

(* Whatever was added, removed and freed before, on either list, walking   *)
(* forward from first and backward from last meets the same allocated      *)
(* nodes; each owns an allocated block; no two lists share a node.         *)
WellLinked ==
  /\ TypeOK
  /\ \A l \in Lists :
       LET r  == memory.root[l]
           ch == Chain(memory, l)
       IN /\ \A i \in DOMAIN ch :
               /\ ch[i] \in DOMAIN memory.node
               /\ memory.node[ch[i]].data \in DOMAIN memory.cell
               /\ memory.node[ch[i]].prev = IF i = 1 THEN Null ELSE ch[i - 1]
          /\ IF r.count = 0 THEN r = EmptyRoot
             ELSE r.last = ch[r.count] /\ memory.node[r.last].next = Null
  /\ \A l, k \in Lists : l # k =>
       \A i \in DOMAIN Chain(memory, l), j \in DOMAIN Chain(memory, k) :
         Chain(memory, l)[i] # Chain(memory, k)[j]

(* Allocated blocks that no list leads to.                                 *)
Listed    == UNION {{Chain(memory, l)[i] : i \in DOMAIN Chain(memory, l)} : l \in Lists}
LostNodes == DOMAIN memory.node \ Listed
LostCells == DOMAIN memory.cell \ {memory.node[n].data : n \in Listed}

(* Leaks: a node is lost by one call only, the removal of a node that has  *)
(* neighbours on both sides (list.c:102-105; the ends of the list do not   *)
(* move), and a data block only by a removal; listFreeAll loses neither.   *)
OnlyRemovalsLeak ==
  /\ \A n \in LostNodes' \ LostNodes : \E l \in Lists :
       /\ memory'.root[l].count = memory.root[l].count - 1
       /\ memory'.root[l].first = memory.root[l].first
       /\ memory'.root[l].last = memory.root[l].last
  /\ \A c \in LostCells' \ LostCells : \E l \in Lists :
       /\ memory'.root[l].count = memory.root[l].count - 1
       /\ \E n \in DOMAIN memory.node : memory.node[n].data = c

(* No step leaks in any other way than OnlyRemovalsLeak allows.            *)
LeakSources == [][OnlyRemovalsLeak]_memory

(* Seen through their contents the lists are sequences, each its own.      *)
Contract == INSTANCE ListContract WITH seqs <- [l \in Lists |-> Contents(l)]

(* Each call does to its list what the contract says of it.               *)
CallsFollowContract ==
  \A l \in Lists :
    /\ \A d \in Data : AddElement(l, d) => Contract!Add(l, d)
    /\ \A num \in 0..(memory.root[l].count - 1) :
         RemoveElement(l, num) => Contract!RemoveNth(l, num + 1)
    /\ FreeAll(l) => Contract!Clear(l)

(* Each call appends to, removes from or empties one sequence, and leaves  *)
(* the others alone, although all share one heap with reused addresses; it *)
(* appends the data it was given and removes the element it was asked for. *)
ImplementsContract == Contract!Spec /\ [][CallsFollowContract]_vars
=============================================================================
