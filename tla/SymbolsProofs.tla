---------------------------- MODULE SymbolsProofs ----------------------------
(***************************************************************************)
(* Who owns the blocks of the heap while the symbols of a session are      *)
(* loaded, looked up and deleted, for any PDB, any heap and any calls of   *)
(* dbghelp and malloc failing.                                             *)
(*                                                                         *)
(* OneOwner counts owners; the invariant that the steps preserve says the  *)
(* same block by block: what kind a block has tells who owns it, and the   *)
(* kinds are kept apart by the lists the blocks are on (MemoryInv).        *)
(*                                                                         *)
(* AsReported compares the lists with the PDB when they are loaded; what   *)
(* is on them and what is still to come does so all the way (ReportInv).   *)
(***************************************************************************)
EXTENDS Symbols, DataProofs, FiniteSetTheorems

Kind(m, c) == m.cell[c].kind
Name(m, f) == m.cell[f].name
Data(m, n) == m.node[n].data

FilesOf(m) == {c \in DOMAIN m.cell : Kind(m, c) = "file"}
On(m, l, n) == n \in Range(Chain(m, l))

NodeKinds == {"file", "line", "breakpoint"}
KindIn(l) == IF l = Files THEN "file" ELSE IF l = Bps THEN "breakpoint" ELSE "line"

(* Every node is on a list, and its data is of the kind the list is for.   *)
Placed(m) ==
  /\ \A n \in DOMAIN m.node : \E l \in DOMAIN m.root : On(m, l, n)
  /\ \A l \in DOMAIN m.root : \A n : On(m, l, n) => Kind(m, Data(m, n)) = KindIn(l)
  /\ \A l \in SessionLists \ {Files, Bps} : Chain(m, l) = << >>

(* The kind of a block says what owns it.                                  *)
OwnedByKind(m, names, symbol) ==
  \A c \in DOMAIN m.cell :
    /\ Kind(m, c) \in NodeKinds \cup {"name", "symbol"}
    /\ Kind(m, c) \in NodeKinds => \E n \in DOMAIN m.node : Data(m, n) = c
    /\ Kind(m, c) = "name" => c \in names \/ \E f \in FilesOf(m) : Name(m, f) = c
    /\ Kind(m, c) = "symbol" => c = symbol

(* The names of files, those that lost theirs, and the block of a lookup.  *)
Names(m, names) ==
  /\ \A f \in FilesOf(m) :
       /\ m.cell[f] = [kind |-> "file", of |-> m.cell[f].of, name |-> Name(m, f)]
       /\ Name(m, f) # Null =>
            Name(m, f) \in DOMAIN m.cell \ names /\ Kind(m, Name(m, f)) = "name"
  /\ \A f, g \in FilesOf(m) : f # g /\ Name(m, f) # Null => Name(m, f) # Name(m, g)
  /\ \A c \in names : c \in DOMAIN m.cell /\ Kind(m, c) = "name"

SymbolKept(m, symbol) ==
  symbol # Null => symbol \in DOMAIN m.cell /\ Kind(m, symbol) = "symbol"

Addresses(m) ==
  /\ DOMAIN m.node \subseteq Range(Nodes) /\ DOMAIN m.cell \subseteq Range(Cells)
  /\ DOMAIN m.root = SessionLists \cup FilesOf(m)

MemoryInv(m, names, symbol) ==
  /\ Heap(m) /\ Addresses(m) /\ Placed(m)
  /\ OwnedByKind(m, names, symbol) /\ Names(m, names) /\ SymbolKept(m, symbol)

TakenApart(m, c) == Chain(m, c) = << >> /\ Name(m, c) = Null

(* The loops over sourceFileList keep to it, and what a turn of the loop   *)
(* of DbgSessionDeleteProc is done with is empty.                          *)
LoopInv(m) ==
  LET ch == Chain(m, Files)
  IN /\ Len(ch) <= Len(PdbFiles)
     /\ pc \in {"start", "deleted"} => ch = << >>
     /\ pc = "files" => report \in Seq(Range(PdbFiles)) /\ Len(ch) + Len(report) <= Len(PdbFiles)
     /\ pc \in {"lines", "line", "delete"} =>
          turn <= Len(ch) /\ (turn < Len(ch) => cur = ch[turn + 1])
     /\ pc = "line" => turn < Len(ch)
     /\ pc = "delete" => \A i \in 1..turn : TakenApart(m, Data(m, ch[i]))

Control ==
  /\ pc \in Loading \cup {"start", "ready", "lookup", "delete", "deleted", "crashed"}
  /\ block # Null <=> pc = "lookup"
  /\ block \in Range(Cells) \cup {Null}
  /\ missing \in BOOLEAN
  /\ turn \in 0..Len(PdbFiles) /\ cur \in Range(Nodes) \cup {Null}

IInv == Control /\ MemoryInv(memory, lost, block) /\ LoopInv(memory)

----------------------------------------------------------------------------
(* malloc.                                                                 *)

(* While there is room, Fresh is an address and free.                      *)
LEMMA FreshIsFree ==
  ASSUME NEW T, NEW order \in Seq(T), IsInjective(order), NEW f,
         DOMAIN f \subseteq Range(order), Room(f, order) > 0
  PROVE  Fresh(f, order) \in Range(order) \ DOMAIN f
  <1> DEFINE len == Len(order)
             S == {i \in 1..len : order[i] \notin DOMAIN f}
  <1>1. /\ len \in Nat /\ DOMAIN order = 1..len /\ order = [i \in 1..len |-> order[i]]
        /\ Range(order) = {order[i] : i \in 1..len}
    BY DEF Range
  <1>2. S # {}
    <2> SUFFICES ASSUME S = {} PROVE FALSE OBVIOUS
    <2>1. Range(order) \subseteq DOMAIN f BY <1>1
    <2>2. Range(order) = DOMAIN f BY <2>1
    <2>3. order \in [1..len -> Range(order)] BY <1>1
    <2>4. order \in Bijection(1..len, Range(order))
      BY <1>1, <2>3 DEF Bijection, Injection, Surjection, IsInjective
    <2>5. IsFiniteSet(1..len) /\ Cardinality(1..len) = len
      <3>1. len \in Int /\ len >= 0 BY <1>1
      <3> HIDE DEF len
      <3>2. IsFiniteSet(1..len) /\ Cardinality(1..len) = IF 1 > len THEN 0 ELSE len - 1 + 1
        BY <3>1, FS_Interval
      <3>3. (IF 1 > len THEN 0 ELSE len - 1 + 1) = len BY <3>1
      <3>4. QED BY <3>2, <3>3
    <2>6. ExistsBijection(1..len, Range(order)) BY <2>4 DEF ExistsBijection
    <2>7. Cardinality(Range(order)) = len BY <2>5, <2>6, FS_Bijection
    <2>8. Room(f, order) = len - Cardinality(Range(order)) BY <2>2 DEF Room
    <2> HIDE DEF len
    <2>9. QED BY <1>1, <2>7, <2>8
  <1>3. S \subseteq Nat BY <1>1
  <1>4. \E i \in S : \A j \in S : i <= j
    <2> HIDE DEF S
    <2>1. QED BY <1>2, <1>3, LeastNumber
  <1>5. Min(S) \in S
    <2> HIDE DEF S
    <2>1. QED BY <1>4 DEF Min
  <1>6. {i \in DOMAIN order : order[i] \notin DOMAIN f} = S BY <1>1
  <1>7. Fresh(f, order) = order[Min(S)] BY <1>6 DEF Fresh
  <1>8. QED BY <1>1, <1>5, <1>7

(* The addresses the actions allocate.                                     *)
LEMMA NewAddresses ==
  ASSUME NEW m, Addresses(m)
  PROVE  /\ Null \notin DOMAIN m.node /\ Null \notin DOMAIN m.cell
         /\ Room(m.node, Nodes) > 0 =>
              Fresh(m.node, Nodes) \in Range(Nodes) \ (DOMAIN m.node \cup {Null})
         /\ Room(m.cell, Cells) > 0 =>
              Fresh(m.cell, Cells) \in Range(Cells) \ (DOMAIN m.cell \cup {Null} \cup SessionLists)
  <1>1. Null \notin Range(Nodes) /\ Null \notin Range(Cells)
    <2>1. Nodes \in Seq(Range(Nodes)) /\ Cells \in Seq(Range(Cells)) BY SymbolConstantsOK
    <2>2. Range(Nodes) \subseteq Range(Nodes \o Cells) /\ Range(Cells) \subseteq Range(Nodes \o Cells)
      <3> DEFINE both == Nodes \o Cells
      <3>1. /\ Len(both) = Len(Nodes) + Len(Cells) /\ Len(Nodes) \in Nat /\ Len(Cells) \in Nat
            /\ DOMAIN both = 1..Len(both)
            /\ DOMAIN Nodes = 1..Len(Nodes) /\ DOMAIN Cells = 1..Len(Cells)
            /\ \A i \in 1..Len(Nodes) : both[i] = Nodes[i]
            /\ \A i \in 1..Len(Cells) : both[Len(Nodes) + i] = Cells[i]
        BY <2>1
      <3> HIDE DEF both
      <3>2. \A i \in 1..Len(Nodes) : i \in DOMAIN both BY <3>1
      <3>3. \A i \in 1..Len(Cells) : Len(Nodes) + i \in DOMAIN both BY <3>1
      <3>4. Range(Nodes) \subseteq Range(both) BY <3>1, <3>2 DEF Range
      <3>5. Range(Cells) \subseteq Range(both) BY <3>1, <3>3 DEF Range
      <3>6. QED BY <3>4, <3>5 DEF both
    <2>3. QED BY <2>2, SymbolConstantsOK
  <1>2. Room(m.node, Nodes) > 0 => Fresh(m.node, Nodes) \in Range(Nodes) \ DOMAIN m.node
    BY FreshIsFree, SymbolConstantsOK DEF Addresses
  <1>3. Room(m.cell, Cells) > 0 => Fresh(m.cell, Cells) \in Range(Cells) \ DOMAIN m.cell
    BY FreshIsFree, SymbolConstantsOK DEF Addresses
  <1>4. SessionLists \cap Range(Cells) = {} BY SymbolConstantsOK
  <1>5. QED BY <1>1, <1>2, <1>3, <1>4 DEF Addresses

----------------------------------------------------------------------------
(* The blocks that are no node's data.                                     *)

(* The heap with one more block.                                           *)
NewBlock(m, c, v) == WithCells(m, Allocate(m.cell, c, v))

(* A block that no node owns is allocated: the lists stay as they are.     *)
LEMMA BlockAllocated ==
  ASSUME NEW m, Heap(m), NEW c, c \notin DOMAIN m.cell, NEW v,
         NEW mm, mm = NewBlock(m, c, v)
  PROVE  /\ Heap(mm) /\ mm.node = m.node /\ mm.root = m.root
         /\ \A l \in DOMAIN m.root : Chain(mm, l) = Chain(m, l)
         /\ DOMAIN mm.cell = DOMAIN m.cell \cup {c}
         /\ mm.cell[c] = v
         /\ \A x \in DOMAIN m.cell : mm.cell[x] = m.cell[x]
  <1> DEFINE f == Allocate(m.cell, c, v)
  <1>1. /\ IsFcn(f) /\ DOMAIN f = DOMAIN m.cell \cup {c}
        /\ f[c] = v /\ \A x \in DOMAIN m.cell : f[x] = m.cell[x]
    BY DEF Allocate, IsFcn
  <1>2. mm = WithCells(m, f) BY DEF NewBlock
  <1> HIDE DEF f
  <1>3. \A x \in DOMAIN m.node : m.node[x].data \in DOMAIN f BY <1>1 DEF Heap
  <1>4. /\ Heap(mm) /\ mm.node = m.node /\ mm.root = m.root /\ mm.cell = f
        /\ \A l \in DOMAIN m.root : Chain(mm, l) = Chain(m, l)
    BY <1>1, <1>2, <1>3, CellsReplaced
  <1>5. QED BY <1>1, <1>4

(* Where the nodes are depends on no other blocks than theirs.             *)
LEMMA PlacedStill ==
  ASSUME NEW m, Heap(m), Addresses(m), Placed(m), NEW mm, mm.node = m.node, mm.root = m.root,
         \A l \in DOMAIN m.root : Chain(mm, l) = Chain(m, l),
         \A n \in DOMAIN m.node : Kind(mm, Data(m, n)) = Kind(m, Data(m, n))
  PROVE  Placed(mm) /\ Chain(mm, Files) = Chain(m, Files)
  <1>1. \A l \in DOMAIN m.root : \A n : On(mm, l, n) <=> On(m, l, n) BY DEF On
  <1>2. \A l \in DOMAIN m.root : \A n : On(m, l, n) => n \in DOMAIN m.node
    BY HeapChain DEF On
  <1>3. \A n : Data(mm, n) = Data(m, n) BY DEF Data
  <1>4. SessionLists \subseteq DOMAIN m.root /\ Files \in SessionLists
    BY DEF Addresses, SessionLists
  <1>5. QED BY <1>1, <1>2, <1>3, <1>4 DEF Placed

(* The name of a file, which no file has yet.                              *)
LEMMA NameAllocated ==
  ASSUME NEW m, NEW names, MemoryInv(m, names, Null),
         NEW c \in Range(Cells) \ DOMAIN m.cell,
         NEW mm, mm = WithCells(m, Allocate(m.cell, c, [kind |-> "name"]))
  PROVE  /\ MemoryInv(mm, names \cup {c}, Null) /\ c \notin names
         /\ mm.node = m.node /\ mm.root = m.root
         /\ Chain(mm, Files) = Chain(m, Files)
  <1>1. /\ Heap(mm) /\ mm.node = m.node /\ mm.root = m.root
        /\ \A l \in DOMAIN m.root : Chain(mm, l) = Chain(m, l)
        /\ DOMAIN mm.cell = DOMAIN m.cell \cup {c}
        /\ mm.cell[c] = [kind |-> "name"]
        /\ \A x \in DOMAIN m.cell : mm.cell[x] = m.cell[x]
    BY BlockAllocated, SMTT(60) DEF MemoryInv, NewBlock
  <1>2. c \notin DOMAIN m.cell /\ c \in Range(Cells) OBVIOUS
  <1>3. /\ Kind(mm, c) = "name"
        /\ \A x \in DOMAIN m.cell : Kind(mm, x) = Kind(m, x) /\ Name(mm, x) = Name(m, x)
        /\ \A n : Data(mm, n) = Data(m, n)
    BY <1>1 DEF Kind, Name, Data
  <1>4. FilesOf(mm) = FilesOf(m) BY <1>1, <1>2, <1>3 DEF FilesOf
  <1>5. Addresses(mm) BY <1>1, <1>2, <1>4 DEF MemoryInv, Addresses
  <1>6. \A n \in DOMAIN m.node : Kind(mm, Data(m, n)) = Kind(m, Data(m, n))
    BY <1>3 DEF MemoryInv, Heap, Data
  <1>7. Placed(mm) /\ Chain(mm, Files) = Chain(m, Files)
    BY <1>1, <1>6, PlacedStill DEF MemoryInv
  <1>8. OwnedByKind(mm, names \cup {c}, Null)
    <2> SUFFICES ASSUME NEW x \in DOMAIN mm.cell
                 PROVE  /\ Kind(mm, x) \in NodeKinds \cup {"name", "symbol"}
                        /\ Kind(mm, x) \in NodeKinds => \E n \in DOMAIN mm.node : Data(mm, n) = x
                        /\ Kind(mm, x) = "name" =>
                             x \in names \cup {c} \/ \E f \in FilesOf(mm) : Name(mm, f) = x
                        /\ Kind(mm, x) = "symbol" => x = Null
      BY DEF OwnedByKind
    <2>1. CASE x = c BY <1>3, <2>1 DEF NodeKinds
    <2>2. CASE x \in DOMAIN m.cell
      <3>1. \A f \in FilesOf(m) : Name(mm, f) = Name(m, f) BY <1>3 DEF FilesOf
      <3>2. QED BY <1>1, <1>3, <1>4, <2>2, <3>1 DEF MemoryInv, OwnedByKind
    <2>3. QED BY <1>1, <2>1, <2>2
  <1>9. Names(mm, names \cup {c})
    <2>1. \A f \in FilesOf(m) : f \in DOMAIN m.cell /\ Name(mm, f) = Name(m, f) BY <1>3 DEF FilesOf
    <2>2. QED BY <1>1, <1>2, <1>3, <1>4, <2>1 DEF MemoryInv, Names
  <1>10. SymbolKept(mm, Null) BY DEF SymbolKept
  <1>11. c \notin names BY <1>2 DEF MemoryInv, Names
  <1>12. QED BY <1>1, <1>5, <1>7, <1>8, <1>9, <1>10, <1>11 DEF MemoryInv

(* The block of a lookup.                                                  *)
LEMMA SymbolAllocated ==
  ASSUME NEW m, NEW names, MemoryInv(m, names, Null),
         NEW c \in Range(Cells) \ DOMAIN m.cell,
         NEW mm, mm = WithCells(m, Allocate(m.cell, c, [kind |-> "symbol"]))
  PROVE  MemoryInv(mm, names, c) /\ Chain(mm, Files) = Chain(m, Files)
  <1>1. /\ Heap(mm) /\ mm.node = m.node /\ mm.root = m.root
        /\ \A l \in DOMAIN m.root : Chain(mm, l) = Chain(m, l)
        /\ DOMAIN mm.cell = DOMAIN m.cell \cup {c}
        /\ mm.cell[c] = [kind |-> "symbol"]
        /\ \A x \in DOMAIN m.cell : mm.cell[x] = m.cell[x]
    BY BlockAllocated DEF MemoryInv, NewBlock
  <1>2. c \notin DOMAIN m.cell /\ c \in Range(Cells) OBVIOUS
  <1>3. /\ Kind(mm, c) = "symbol"
        /\ \A x \in DOMAIN m.cell : Kind(mm, x) = Kind(m, x) /\ Name(mm, x) = Name(m, x)
        /\ \A n : Data(mm, n) = Data(m, n)
    BY <1>1 DEF Kind, Name, Data
  <1>4. FilesOf(mm) = FilesOf(m) BY <1>1, <1>2, <1>3 DEF FilesOf
  <1>5. Addresses(mm) BY <1>1, <1>2, <1>4 DEF MemoryInv, Addresses
  <1>6. \A n \in DOMAIN m.node : Kind(mm, Data(m, n)) = Kind(m, Data(m, n))
    BY <1>3 DEF MemoryInv, Heap, Data
  <1>7. Placed(mm) /\ Chain(mm, Files) = Chain(m, Files)
    BY <1>1, <1>6, PlacedStill DEF MemoryInv
  <1>8. Null \notin DOMAIN m.cell BY NewAddresses DEF MemoryInv
  <1>9. OwnedByKind(mm, names, c)
    <2> SUFFICES ASSUME NEW x \in DOMAIN mm.cell
                 PROVE  /\ Kind(mm, x) \in NodeKinds \cup {"name", "symbol"}
                        /\ Kind(mm, x) \in NodeKinds => \E n \in DOMAIN mm.node : Data(mm, n) = x
                        /\ Kind(mm, x) = "name" =>
                             x \in names \/ \E f \in FilesOf(mm) : Name(mm, f) = x
                        /\ Kind(mm, x) = "symbol" => x = c
      BY DEF OwnedByKind
    <2>1. CASE x = c BY <1>3, <2>1 DEF NodeKinds
    <2>2. CASE x \in DOMAIN m.cell
      <3>1. \A f \in FilesOf(m) : Name(mm, f) = Name(m, f) BY <1>3 DEF FilesOf
      <3>2. QED BY <1>1, <1>3, <1>4, <1>8, <2>2, <3>1 DEF MemoryInv, OwnedByKind
    <2>3. QED BY <1>1, <2>1, <2>2
  <1>10. Names(mm, names)
    <2>1. \A f \in FilesOf(m) : f \in DOMAIN m.cell /\ Name(mm, f) = Name(m, f) BY <1>3 DEF FilesOf
    <2>2. QED BY <1>1, <1>2, <1>3, <1>4, <2>1 DEF MemoryInv, Names
  <1>11. SymbolKept(mm, c) BY <1>1, <1>3 DEF SymbolKept
  <1>12. QED BY <1>1, <1>5, <1>7, <1>9, <1>10, <1>11 DEF MemoryInv

(* The heap without a block.                                               *)
FreeBlock(m, c) == WithCells(m, Free(m.cell, {c}))

(* It is freed: so do they.                                                *)
LEMMA BlockFreed ==
  ASSUME NEW m, Heap(m), NEW c, \A n \in DOMAIN m.node : Data(m, n) # c,
         NEW mm, mm = FreeBlock(m, c)
  PROVE  /\ Heap(mm) /\ mm.node = m.node /\ mm.root = m.root
         /\ \A l \in DOMAIN m.root : Chain(mm, l) = Chain(m, l)
         /\ DOMAIN mm.cell = DOMAIN m.cell \ {c}
         /\ \A x \in DOMAIN m.cell : x # c => mm.cell[x] = m.cell[x]
  <1> DEFINE f == Free(m.cell, {c})
  <1>1. /\ IsFcn(f) /\ DOMAIN f = DOMAIN m.cell \ {c}
        /\ \A x \in DOMAIN m.cell : x # c => f[x] = m.cell[x]
    BY DEF Free, IsFcn
  <1>2. mm = WithCells(m, f) BY DEF FreeBlock
  <1> HIDE DEF f
  <1>3. \A x \in DOMAIN m.node : m.node[x].data \in DOMAIN f BY <1>1 DEF Heap, Data
  <1>4. IsFcn(f) BY <1>1
  <1>5. /\ Heap(mm) /\ mm.node = m.node /\ mm.root = m.root /\ mm.cell = f
        /\ \A l \in DOMAIN m.root : Chain(mm, l) = Chain(m, l)
    BY <1>2, <1>3, <1>4, CellsReplaced
  <1>6. QED BY <1>1, <1>5

(* A node's block has a kind of its own.                                   *)
LEMMA DataKinds ==
  ASSUME NEW m, Heap(m), Placed(m), NEW n \in DOMAIN m.node
  PROVE  Data(m, n) \in DOMAIN m.cell /\ Kind(m, Data(m, n)) \in NodeKinds
  <1>1. PICK l \in DOMAIN m.root : On(m, l, n) BY DEF Placed
  <1>2. Kind(m, Data(m, n)) = KindIn(l) BY <1>1 DEF Placed
  <1>3. QED BY <1>2 DEF Heap, Data, KindIn, NodeKinds

(* The end of a lookup.                                                    *)
LEMMA SymbolFreed ==
  ASSUME NEW m, NEW names, NEW c, c # Null, MemoryInv(m, names, c),
         NEW mm, mm = FreeBlock(m, c)
  PROVE  MemoryInv(mm, names, Null) /\ Chain(mm, Files) = Chain(m, Files)
  <1>1. c \in DOMAIN m.cell /\ Kind(m, c) = "symbol" BY DEF MemoryInv, SymbolKept
  <1>2. Heap(m) /\ \A n \in DOMAIN m.node : Data(m, n) # c
    BY <1>1, DataKinds DEF MemoryInv, NodeKinds
  <1>3. /\ Heap(mm) /\ mm.node = m.node /\ mm.root = m.root
        /\ \A l \in DOMAIN m.root : Chain(mm, l) = Chain(m, l)
        /\ DOMAIN mm.cell = DOMAIN m.cell \ {c}
        /\ \A x \in DOMAIN m.cell : x # c => mm.cell[x] = m.cell[x]
    BY <1>2, BlockFreed
  <1>4. /\ \A x \in DOMAIN mm.cell : Kind(mm, x) = Kind(m, x) /\ Name(mm, x) = Name(m, x)
        /\ \A n : Data(mm, n) = Data(m, n)
    BY <1>3 DEF Kind, Name, Data
  <1>5. FilesOf(mm) = FilesOf(m) BY <1>1, <1>3, <1>4 DEF FilesOf
  <1>6. Addresses(mm) BY <1>3, <1>5 DEF MemoryInv, Addresses
  <1>7. \A n \in DOMAIN m.node : Kind(mm, Data(m, n)) = Kind(m, Data(m, n))
    BY <1>2, <1>3, <1>4 DEF MemoryInv, Heap, Data
  <1>8. Placed(mm) /\ Chain(mm, Files) = Chain(m, Files)
    BY <1>3, <1>7, PlacedStill DEF MemoryInv
  <1>9. \A f \in FilesOf(m) : f \in DOMAIN mm.cell /\ f \in DOMAIN m.cell /\ Name(mm, f) = Name(m, f)
    BY <1>4, <1>5 DEF FilesOf
  <1>10. OwnedByKind(mm, names, Null)
    <2> SUFFICES ASSUME NEW x \in DOMAIN mm.cell
                 PROVE  /\ Kind(mm, x) \in NodeKinds \cup {"name", "symbol"}
                        /\ Kind(mm, x) \in NodeKinds => \E n \in DOMAIN mm.node : Data(mm, n) = x
                        /\ Kind(mm, x) = "name" =>
                             x \in names \/ \E f \in FilesOf(mm) : Name(mm, f) = x
                        /\ Kind(mm, x) = "symbol" => x = Null
      BY DEF OwnedByKind
    <2>1. x \in DOMAIN m.cell /\ x # c /\ Kind(mm, x) = Kind(m, x) BY <1>3, <1>4
    <2>2. QED BY <1>3, <1>4, <1>5, <1>9, <2>1 DEF MemoryInv, OwnedByKind
  <1>11. Names(mm, names)
    <2>1. \A x \in DOMAIN m.cell : Kind(m, x) = "name" => x \in DOMAIN mm.cell /\ Kind(mm, x) = "name"
      BY <1>1, <1>3, <1>4
    <2>2. \A f \in FilesOf(m) : mm.cell[f] = m.cell[f] BY <1>3, <1>9
    <2>3. \A x \in names : x \in DOMAIN mm.cell /\ Kind(mm, x) = "name"
      BY <2>1 DEF MemoryInv, Names
    <2>4. ASSUME NEW f \in FilesOf(mm)
          PROVE  /\ mm.cell[f] = [kind |-> "file", of |-> mm.cell[f].of, name |-> Name(mm, f)]
                 /\ Name(mm, f) # Null =>
                      Name(mm, f) \in DOMAIN mm.cell \ names /\ Kind(mm, Name(mm, f)) = "name"
      BY <1>5, <1>9, <2>1, <2>2 DEF MemoryInv, Names
    <2>5. ASSUME NEW f \in FilesOf(mm), NEW g \in FilesOf(mm), f # g, Name(mm, f) # Null
          PROVE  Name(mm, f) # Name(mm, g)
      BY <1>5, <1>9, <2>5 DEF MemoryInv, Names
    <2>6. QED BY <2>3, <2>4, <2>5 DEF Names
  <1>12. SymbolKept(mm, Null) BY DEF SymbolKept
  <1>13. QED BY <1>3, <1>6, <1>8, <1>10, <1>11, <1>12 DEF MemoryInv

----------------------------------------------------------------------------
(* Nodes with their data.                                                  *)

(* No file has the address of one of the session's lists.                  *)
LEMMA FilesAreNoNames ==
  ASSUME NEW m, Addresses(m)
  PROVE  FilesOf(m) \cap SessionLists = {}
  BY SymbolConstantsOK DEF Addresses, FilesOf

(* What listAddElement does, seen through what the invariant looks at.     *)
LEMMA Added ==
  ASSUME NEW m, Heap(m), NEW l \in DOMAIN m.root, NEW n, n \notin DOMAIN m.node \cup {Null},
         NEW c, c \notin DOMAIN m.cell, NEW data,
         NEW mm, mm = listAddElement(m, l, n, c, data)
  PROVE  /\ Heap(mm)
         /\ Chain(mm, l) = Append(Chain(m, l), n)
         /\ \A k \in DOMAIN m.root : k # l => Chain(mm, k) = Chain(m, k)
         /\ DOMAIN mm.root = DOMAIN m.root
         /\ DOMAIN mm.node = DOMAIN m.node \cup {n}
         /\ DOMAIN mm.cell = DOMAIN m.cell \cup {c}
         /\ mm.cell[c] = data
         /\ \A x \in DOMAIN m.cell :
              /\ mm.cell[x] = m.cell[x]
              /\ Kind(mm, x) = Kind(m, x) /\ Name(mm, x) = Name(m, x)
         /\ Data(mm, n) = c
         /\ \A x \in DOMAIN m.node : Data(mm, x) = Data(m, x) /\ Data(m, x) \in DOMAIN m.cell
         /\ \A x : On(mm, l, x) <=> On(m, l, x) \/ x = n
         /\ \A k \in DOMAIN m.root : k # l => \A x : On(mm, k, x) <=> On(m, k, x)
         /\ \A k \in DOMAIN m.root : \A x : On(m, k, x) => x \in DOMAIN m.node
  <1>1. n \notin DOMAIN m.node /\ n # Null OBVIOUS
  <1>2. /\ Heap(mm)
        /\ Chain(mm, l) = Append(Chain(m, l), n)
        /\ DOMAIN mm.root = DOMAIN m.root
        /\ \A k \in DOMAIN m.root : k # l => Chain(mm, k) = Chain(m, k)
        /\ DOMAIN mm.node = DOMAIN m.node \cup {n}
        /\ mm.node[n].data = c
        /\ \A x \in DOMAIN m.node : mm.node[x].data = m.node[x].data
        /\ mm.cell = Allocate(m.cell, c, data)
    BY <1>1, AddHeap
  <1>3. /\ DOMAIN mm.cell = DOMAIN m.cell \cup {c} /\ mm.cell[c] = data
        /\ \A x \in DOMAIN m.cell : mm.cell[x] = m.cell[x]
    BY <1>2 DEF Allocate
  <1>4. Range(Append(Chain(m, l), n)) = Range(Chain(m, l)) \cup {n}
    <2> DEFINE ch == Chain(m, l)
    <2>1. ch \in Seq(DOMAIN m.node) BY DEF Heap, Holds
    <2> HIDE DEF ch
    <2>2. Range(Append(ch, n)) = Range(ch) \cup {n} BY <2>1, AppendProperties DEF Range
    <2>3. QED BY <2>2 DEF ch
  <1>5. \A x \in DOMAIN m.node : m.node[x].data \in DOMAIN m.cell BY DEF Heap
  <1>6. \A k \in DOMAIN m.root : \A x : On(m, k, x) => x \in DOMAIN m.node
    BY HeapChain DEF On
  <1>7. /\ \A x : On(mm, l, x) <=> On(m, l, x) \/ x = n
        /\ \A k \in DOMAIN m.root : k # l => \A x : On(mm, k, x) <=> On(m, k, x)
    BY <1>2, <1>4 DEF On
  <1>8. QED BY <1>2, <1>3, <1>5, <1>6, <1>7 DEF Kind, Name, Data

(* A line of a file, or a breakpoint.                                      *)
LEMMA ElementAdded ==
  ASSUME NEW m, NEW names, NEW symbol, MemoryInv(m, names, symbol),
         NEW l, l = Bps \/ l \in FilesOf(m),
         NEW n \in Range(Nodes), n \notin DOMAIN m.node \cup {Null},
         NEW c \in Range(Cells), c \notin DOMAIN m.cell,
         NEW data, data.kind = KindIn(l),
         NEW mm, mm = listAddElement(m, l, n, c, data)
  PROVE  MemoryInv(mm, names, symbol) /\ Chain(mm, Files) = Chain(m, Files)
  <1>1. Heap(m) /\ Addresses(m) /\ Placed(m) /\ OwnedByKind(m, names, symbol)
        /\ Names(m, names) /\ SymbolKept(m, symbol)
    BY DEF MemoryInv
  <1>2. l \in DOMAIN m.root /\ l \notin SessionLists \ {Bps} /\ l # Files
    BY <1>1, FilesAreNoNames DEF Addresses, SessionLists, Files, Bps
  <1>3. data.kind \in {"line", "breakpoint"} BY <1>2 DEF KindIn
  <1>4. Files \in DOMAIN m.root BY <1>1 DEF Addresses, SessionLists
  <1>5. /\ Heap(mm)
        /\ \A k \in DOMAIN m.root : k # l => Chain(mm, k) = Chain(m, k)
        /\ DOMAIN mm.root = DOMAIN m.root
        /\ DOMAIN mm.node = DOMAIN m.node \cup {n}
        /\ DOMAIN mm.cell = DOMAIN m.cell \cup {c}
        /\ mm.cell[c] = data
        /\ \A x \in DOMAIN m.cell :
             /\ mm.cell[x] = m.cell[x]
             /\ Kind(mm, x) = Kind(m, x) /\ Name(mm, x) = Name(m, x)
        /\ Data(mm, n) = c
        /\ \A x \in DOMAIN m.node : Data(mm, x) = Data(m, x) /\ Data(m, x) \in DOMAIN m.cell
        /\ \A x : On(mm, l, x) <=> On(m, l, x) \/ x = n
        /\ \A k \in DOMAIN m.root : k # l => \A x : On(mm, k, x) <=> On(m, k, x)
        /\ \A k \in DOMAIN m.root : \A x : On(m, k, x) => x \in DOMAIN m.node
    BY <1>1, <1>2, Added
  <1>6. Kind(mm, c) = KindIn(l) BY <1>5 DEF Kind
  <1>7. FilesOf(mm) = FilesOf(m) BY <1>3, <1>5, <1>6 DEF FilesOf
  <1>8. \A f \in FilesOf(m) : f \in DOMAIN m.cell /\ Name(mm, f) = Name(m, f)
    BY <1>5 DEF FilesOf
  <1>9. Addresses(mm) BY <1>1, <1>5, <1>7 DEF Addresses
  <1>10. Placed(mm)
    <2>1. ASSUME NEW x \in DOMAIN mm.node PROVE \E k \in DOMAIN mm.root : On(mm, k, x)
      <3>1. CASE x = n BY <1>2, <1>5, <3>1
      <3>2. CASE x \in DOMAIN m.node
        <4>1. PICK k \in DOMAIN m.root : On(m, k, x) BY <1>1, <3>2 DEF Placed
        <4>2. QED BY <1>5, <4>1
      <3>3. QED BY <1>5, <3>1, <3>2
    <2>2. ASSUME NEW k \in DOMAIN mm.root, NEW x, On(mm, k, x)
          PROVE  Kind(mm, Data(mm, x)) = KindIn(k)
      <3>1. CASE On(m, k, x)
        <4>1. x \in DOMAIN m.node /\ Kind(m, Data(m, x)) = KindIn(k)
          BY <1>1, <1>5, <2>2, <3>1 DEF Placed
        <4>2. QED BY <1>5, <4>1
      <3>2. CASE k = l /\ x = n BY <1>5, <1>6, <3>2
      <3>3. QED BY <1>5, <2>2, <3>1, <3>2
    <2>3. \A k \in SessionLists \ {Files, Bps} : Chain(mm, k) = << >>
      BY <1>1, <1>2, <1>5 DEF Addresses, Placed
    <2>4. QED BY <2>1, <2>2, <2>3 DEF Placed
  <1>11. OwnedByKind(mm, names, symbol)
    <2> SUFFICES ASSUME NEW x \in DOMAIN mm.cell
                 PROVE  /\ Kind(mm, x) \in NodeKinds \cup {"name", "symbol"}
                        /\ Kind(mm, x) \in NodeKinds => \E y \in DOMAIN mm.node : Data(mm, y) = x
                        /\ Kind(mm, x) = "name" =>
                             x \in names \/ \E f \in FilesOf(mm) : Name(mm, f) = x
                        /\ Kind(mm, x) = "symbol" => x = symbol
      BY DEF OwnedByKind
    <2>1. CASE x = c
      <3>1. Kind(mm, x) \in {"line", "breakpoint"} BY <1>3, <1>6, <2>1
      <3>2. QED BY <1>5, <2>1, <3>1 DEF NodeKinds
    <2>2. CASE x \in DOMAIN m.cell
      <3>1. /\ Kind(mm, x) = Kind(m, x)
            /\ Kind(m, x) \in NodeKinds => \E y \in DOMAIN m.node : Data(m, y) = x
            /\ Kind(m, x) = "name" => x \in names \/ \E f \in FilesOf(m) : Name(m, f) = x
            /\ Kind(m, x) = "symbol" => x = symbol
            /\ Kind(m, x) \in NodeKinds \cup {"name", "symbol"}
        BY <1>1, <1>5, <2>2 DEF OwnedByKind
      <3>2. QED BY <1>5, <1>7, <1>8, <3>1
    <2>3. QED BY <1>5, <2>1, <2>2
  <1>12. Names(mm, names)
    <2>1. \A x \in names : x \in DOMAIN mm.cell /\ Kind(mm, x) = "name"
      BY <1>1, <1>5 DEF Names
    <2>2. ASSUME NEW f \in FilesOf(mm)
          PROVE  /\ mm.cell[f] = [kind |-> "file", of |-> mm.cell[f].of, name |-> Name(mm, f)]
                 /\ Name(mm, f) # Null =>
                      Name(mm, f) \in DOMAIN mm.cell \ names /\ Kind(mm, Name(mm, f)) = "name"
      BY <1>1, <1>5, <1>7, <1>8 DEF Names
    <2>3. ASSUME NEW f \in FilesOf(mm), NEW g \in FilesOf(mm), f # g, Name(mm, f) # Null
          PROVE  Name(mm, f) # Name(mm, g)
      BY <1>1, <1>7, <1>8, <2>3 DEF Names
    <2>4. QED BY <2>1, <2>2, <2>3 DEF Names
  <1>13. SymbolKept(mm, symbol) BY <1>1, <1>5 DEF SymbolKept
  <1>14. QED BY <1>2, <1>4, <1>5, <1>9, <1>10, <1>11, <1>12, <1>13 DEF MemoryInv

(* A file, with the name allocated for it, and its list of lines.          *)
LEMMA FileAdded ==
  ASSUME NEW m, NEW names, NEW e, e \notin names, MemoryInv(m, names \cup {e}, Null),
         NEW n \in Range(Nodes), n \notin DOMAIN m.node \cup {Null},
         NEW c \in Range(Cells), c \notin DOMAIN m.cell, c \notin SessionLists,
         NEW of, NEW data, data = [kind |-> "file", of |-> of, name |-> e],
         NEW mid, mid = listAddElement(m, Files, n, c, data),
         NEW mm, mm = WithRoots(mid, Allocate(mid.root, c, EmptyRoot))
  PROVE  /\ MemoryInv(mm, names, Null)
         /\ Chain(mm, Files) = Append(Chain(m, Files), n)
         /\ Data(mm, n) = c /\ mm.cell[c] = data /\ Chain(mm, c) = << >>
         /\ \A f \in FilesOf(m) : Chain(mm, f) = Chain(m, f)
         /\ \A x \in DOMAIN m.node :
              Data(mm, x) = Data(m, x) /\ mm.cell[Data(m, x)] = m.cell[Data(m, x)]
  <1>1. Heap(m) /\ Addresses(m) /\ Placed(m) /\ OwnedByKind(m, names \cup {e}, Null)
        /\ Names(m, names \cup {e})
    BY DEF MemoryInv
  <1>2. Files \in DOMAIN m.root BY <1>1 DEF Addresses, SessionLists
  <1>3. c \notin DOMAIN m.root BY <1>1 DEF Addresses, FilesOf
  <1>4. /\ Heap(mid)
        /\ Chain(mid, Files) = Append(Chain(m, Files), n)
        /\ \A k \in DOMAIN m.root : k # Files => Chain(mid, k) = Chain(m, k)
        /\ DOMAIN mid.root = DOMAIN m.root
        /\ DOMAIN mid.node = DOMAIN m.node \cup {n}
        /\ DOMAIN mid.cell = DOMAIN m.cell \cup {c}
        /\ mid.cell[c] = data
        /\ \A x \in DOMAIN m.cell :
             /\ mid.cell[x] = m.cell[x]
             /\ Kind(mid, x) = Kind(m, x) /\ Name(mid, x) = Name(m, x)
        /\ Data(mid, n) = c
        /\ \A x \in DOMAIN m.node : Data(mid, x) = Data(m, x) /\ Data(m, x) \in DOMAIN m.cell
        /\ \A x : On(mid, Files, x) <=> On(m, Files, x) \/ x = n
        /\ \A k \in DOMAIN m.root : k # Files => \A x : On(mid, k, x) <=> On(m, k, x)
        /\ \A k \in DOMAIN m.root : \A x : On(m, k, x) => x \in DOMAIN m.node
    BY <1>1, <1>2, Added
  <1> DEFINE r == Allocate(mid.root, c, EmptyRoot)
             S == DOMAIN r
  <1>5. /\ IsFcn(r) /\ S = DOMAIN m.root \cup {c} /\ r[c] = EmptyRoot
        /\ \A l \in DOMAIN m.root : r[l] = mid.root[l]
    BY <1>3, <1>4 DEF Allocate, IsFcn
  <1>6. mm = WithRoots(mid, r) /\ S = DOMAIN r OBVIOUS
  <1> HIDE DEF r, S
  <1>7. /\ Heap(mm) /\ mm.node = mid.node /\ mm.root = r /\ mm.cell = mid.cell
        /\ \A l \in S : l \in DOMAIN mid.root /\ r[l] = mid.root[l] => Chain(mm, l) = Chain(mid, l)
        /\ \A l \in S : r[l] = EmptyRoot => Chain(mm, l) = << >>
    <2>1. \A l \in S : (l \in DOMAIN mid.root /\ r[l] = mid.root[l]) \/ r[l] = EmptyRoot
      BY <1>4, <1>5
    <2>2. Heap(mid) /\ IsFcn(r) BY <1>4, <1>5
    <2>3. QED BY <1>6, <2>1, <2>2, RootsReplaced
  <1>8. /\ \A l \in DOMAIN m.root : Chain(mm, l) = Chain(mid, l)
        /\ Chain(mm, c) = << >> /\ DOMAIN mm.root = DOMAIN m.root \cup {c}
    BY <1>4, <1>5, <1>6, <1>7
  <1>9. /\ \A x : Kind(mm, x) = Kind(mid, x) /\ Name(mm, x) = Name(mid, x)
        /\ \A x : Data(mm, x) = Data(mid, x)
        /\ \A l \in DOMAIN m.root : \A x : On(mm, l, x) <=> On(mid, l, x)
    BY <1>7, <1>8 DEF Kind, Name, Data, On
  <1>10. \A x : ~On(mm, c, x) BY <1>8 DEF On, Range
  <1>11. Kind(mm, c) = "file" /\ Name(mm, c) = e BY <1>4, <1>7 DEF Kind, Name
  <1>12. e \in DOMAIN m.cell /\ Kind(m, e) = "name" BY <1>1 DEF Names
  <1>13. FilesOf(mm) = FilesOf(m) \cup {c} BY <1>4, <1>7, <1>9, <1>11 DEF FilesOf
  <1>14. \A f \in FilesOf(m) : /\ f \in DOMAIN m.cell /\ mm.cell[f] = m.cell[f]
                               /\ Name(mm, f) = Name(m, f) /\ f # c
    BY <1>4, <1>7, <1>9 DEF FilesOf
  <1>15. Addresses(mm) BY <1>1, <1>4, <1>7, <1>8, <1>13 DEF Addresses
  <1>16. Placed(mm)
    <2>1. ASSUME NEW x \in DOMAIN mm.node PROVE \E k \in DOMAIN mm.root : On(mm, k, x)
      <3>1. CASE x = n BY <1>2, <1>4, <1>8, <1>9, <3>1
      <3>2. CASE x \in DOMAIN m.node
        <4>1. PICK k \in DOMAIN m.root : On(m, k, x) BY <1>1, <3>2 DEF Placed
        <4>2. QED BY <1>4, <1>8, <1>9, <4>1
      <3>3. QED BY <1>4, <1>7, <3>1, <3>2
    <2>2. ASSUME NEW k \in DOMAIN mm.root, NEW x, On(mm, k, x)
          PROVE  Kind(mm, Data(mm, x)) = KindIn(k)
      <3>1. k \in DOMAIN m.root BY <1>8, <1>10, <2>2
      <3>2. CASE On(m, k, x)
        <4>1. x \in DOMAIN m.node /\ Kind(m, Data(m, x)) = KindIn(k)
          BY <1>1, <1>4, <3>1, <3>2 DEF Placed
        <4>2. QED BY <1>4, <1>9, <4>1
      <3>3. CASE k = Files /\ x = n BY <1>4, <1>9, <1>11, <3>3 DEF KindIn
      <3>4. QED BY <1>4, <1>9, <2>2, <3>1, <3>2, <3>3
    <2>3. \A k \in SessionLists \ {Files, Bps} : Chain(mm, k) = << >>
      BY <1>1, <1>4, <1>8 DEF Addresses, Placed
    <2>4. QED BY <2>1, <2>2, <2>3 DEF Placed
  <1>17. OwnedByKind(mm, names, Null)
    <2> SUFFICES ASSUME NEW x \in DOMAIN mm.cell
                 PROVE  /\ Kind(mm, x) \in NodeKinds \cup {"name", "symbol"}
                        /\ Kind(mm, x) \in NodeKinds => \E y \in DOMAIN mm.node : Data(mm, y) = x
                        /\ Kind(mm, x) = "name" =>
                             x \in names \/ \E f \in FilesOf(mm) : Name(mm, f) = x
                        /\ Kind(mm, x) = "symbol" => x = Null
      BY DEF OwnedByKind
    <2>1. CASE x = c
      <3>1. n \in DOMAIN mm.node /\ Data(mm, n) = x BY <1>4, <1>7, <1>9, <2>1
      <3>2. QED BY <1>11, <2>1, <3>1 DEF NodeKinds
    <2>2. CASE x \in DOMAIN m.cell
      <3>1. /\ Kind(mm, x) = Kind(m, x)
            /\ Kind(m, x) \in NodeKinds => \E y \in DOMAIN m.node : Data(m, y) = x
            /\ Kind(m, x) = "name" =>
                 x \in names \cup {e} \/ \E f \in FilesOf(m) : Name(m, f) = x
            /\ Kind(m, x) = "symbol" => x = Null
            /\ Kind(m, x) \in NodeKinds \cup {"name", "symbol"}
        BY <1>1, <1>4, <1>9, <2>2 DEF OwnedByKind
      <3>2. \A y \in DOMAIN m.node : y \in DOMAIN mm.node /\ Data(mm, y) = Data(m, y)
        BY <1>4, <1>7, <1>9
      <3>3. c \in FilesOf(mm) /\ Name(mm, c) = e BY <1>11, <1>13
      <3>4. \A f \in FilesOf(m) : f \in FilesOf(mm) /\ Name(mm, f) = Name(m, f)
        BY <1>13, <1>14
      <3>5. QED BY <3>1, <3>2, <3>3, <3>4
    <2>3. x = c \/ x \in DOMAIN m.cell BY <1>4, <1>7
    <2>4. QED BY <2>1, <2>2, <2>3
  <1>18. Names(mm, names)
    <2>1. \A x \in DOMAIN m.cell : x \in DOMAIN mm.cell /\ Kind(mm, x) = Kind(m, x)
      BY <1>4, <1>7, <1>9
    <2>2. \A x \in names : x \in DOMAIN mm.cell /\ Kind(mm, x) = "name"
      BY <1>1, <2>1 DEF Names
    <2>3. ASSUME NEW f \in FilesOf(mm)
          PROVE  /\ mm.cell[f] = [kind |-> "file", of |-> mm.cell[f].of, name |-> Name(mm, f)]
                 /\ Name(mm, f) # Null =>
                      Name(mm, f) \in DOMAIN mm.cell \ names /\ Kind(mm, Name(mm, f)) = "name"
      <3>1. CASE f = c BY <1>4, <1>7, <1>11, <1>12, <2>1, <3>1
      <3>2. CASE f \in FilesOf(m) BY <1>1, <1>14, <2>1, <3>2 DEF Names
      <3>3. QED BY <1>13, <3>1, <3>2
    <2>4. ASSUME NEW f \in FilesOf(mm), NEW g \in FilesOf(mm), f # g, Name(mm, f) # Null
          PROVE  Name(mm, f) # Name(mm, g)
      <3>1. \A h \in FilesOf(m) : Name(mm, h) = Name(m, h) /\ (Name(m, h) # Null => Name(m, h) # e)
        BY <1>1, <1>14 DEF Names
      <3>2. CASE f \in FilesOf(m) /\ g \in FilesOf(m) BY <1>1, <2>4, <3>1, <3>2 DEF Names
      <3>3. CASE f = c /\ g \in FilesOf(m) BY <1>11, <2>4, <3>1, <3>3
      <3>4. CASE g = c /\ f \in FilesOf(m) BY <1>11, <2>4, <3>1, <3>4
      <3>5. QED BY <1>13, <2>4, <3>2, <3>3, <3>4
    <2>5. QED BY <2>2, <2>3, <2>4 DEF Names
  <1>19. SymbolKept(mm, Null) BY DEF SymbolKept
  <1>20. Chain(mm, Files) = Append(Chain(m, Files), n) BY <1>2, <1>4, <1>8
  <1>21. \A f \in FilesOf(m) : Chain(mm, f) = Chain(m, f)
    <2>1. FilesOf(m) \subseteq DOMAIN m.root /\ Files \notin FilesOf(m)
      BY <1>1, FilesAreNoNames DEF Addresses, SessionLists
    <2>2. QED BY <1>4, <1>8, <2>1
  <1>22. \A x \in DOMAIN m.node :
           Data(mm, x) = Data(m, x) /\ mm.cell[Data(m, x)] = m.cell[Data(m, x)]
    BY <1>4, <1>7, <1>9
  <1>23. Data(mm, n) = c /\ mm.cell[c] = data BY <1>4, <1>7, <1>9
  <1>24. MemoryInv(mm, names, Null)
    BY <1>7, <1>15, <1>16, <1>17, <1>18, <1>19 DEF MemoryInv
  <1>25. QED BY <1>8, <1>20, <1>21, <1>22, <1>23, <1>24

(* The descriptor of its lines is that of the last element of the list.    *)
LEMMA LastAdded ==
  ASSUME NEW m, Heap(m), NEW l \in DOMAIN m.root, NEW n, n \notin DOMAIN m.node \cup {Null},
         NEW c, c \notin DOMAIN m.cell, NEW data,
         NEW mm, mm = listAddElement(m, l, n, c, data)
  PROVE  mm.node[mm.root[l].last].data = c
  <1>1. /\ Heap(mm) /\ Chain(mm, l) = Append(Chain(m, l), n) /\ Data(mm, n) = c
        /\ DOMAIN mm.root = DOMAIN m.root
    BY Added
  <1>2. Holds(mm, l, Append(Chain(m, l), n)) BY <1>1 DEF Heap
  <1>3. Chain(m, l) \in Seq(DOMAIN m.node) BY DEF Heap, Holds
  <1> DEFINE ch == Chain(m, l)
  <1> HIDE DEF ch
  <1>4. Append(ch, n) # << >> /\ Append(ch, n)[Len(Append(ch, n))] = n
    BY <1>3 DEF ch
  <1>5. mm.root[l].last = n BY <1>2, <1>4 DEF Holds, ch
  <1>6. QED BY <1>1, <1>5 DEF Data

----------------------------------------------------------------------------
(* The files are taken apart, one by one, and then freed.                  *)

(* What listFreeAll does, seen through what the invariant looks at.        *)
LEMMA ListFreed ==
  ASSUME NEW m, Heap(m), Placed(m), NEW l \in DOMAIN m.root,
         NEW mm, mm = listFreeAll(m, l)
  PROVE  /\ Heap(mm)
         /\ Chain(mm, l) = << >>
         /\ DOMAIN mm.root = DOMAIN m.root
         /\ \A k \in DOMAIN m.root : k # l => Chain(mm, k) = Chain(m, k)
         /\ DOMAIN mm.node \subseteq DOMAIN m.node
         /\ \A n \in DOMAIN m.node : n \in DOMAIN mm.node <=> ~On(m, l, n)
         /\ \A n \in DOMAIN mm.node : Data(mm, n) = Data(m, n)
         /\ DOMAIN mm.cell \subseteq DOMAIN m.cell
         /\ \A x \in DOMAIN m.cell : Kind(m, x) # KindIn(l) => x \in DOMAIN mm.cell
         /\ \A n : On(m, l, n) => Data(m, n) \notin DOMAIN mm.cell
         /\ \A x \in DOMAIN mm.cell :
              /\ mm.cell[x] = m.cell[x]
              /\ Kind(mm, x) = Kind(m, x) /\ Name(mm, x) = Name(m, x)
         /\ \A x : ~On(mm, l, x)
         /\ \A k \in DOMAIN m.root : k # l => \A x : On(mm, k, x) <=> On(m, k, x)
  <1> DEFINE ch == Chain(m, l)
             owned == Owned(m, ch)
  <1>1. /\ Heap(mm)
        /\ Chain(mm, l) = << >>
        /\ DOMAIN mm.root = DOMAIN m.root
        /\ \A k \in DOMAIN m.root : k # l => Chain(mm, k) = Chain(m, k)
        /\ DOMAIN mm.node = DOMAIN m.node \ Range(ch)
        /\ \A x \in DOMAIN mm.node : mm.node[x] = m.node[x]
        /\ mm.cell = Free(m.cell, owned)
    BY FreeAllHeap
  <1>2. \A n : On(m, l, n) <=> n \in Range(ch) BY DEF On
  <1>3. owned = {Data(m, n) : n \in Range(ch)} BY DEF Owned, Data
  <1> HIDE DEF ch, owned
  <1>4. /\ DOMAIN mm.cell = DOMAIN m.cell \ owned
        /\ \A x \in DOMAIN mm.cell : mm.cell[x] = m.cell[x]
    BY <1>1 DEF Free
  <1>5. \A n : On(m, l, n) => Kind(m, Data(m, n)) = KindIn(l) BY DEF Placed
  <1>6. \A x \in owned : Kind(m, x) = KindIn(l) BY <1>2, <1>3, <1>5
  <1>7. \A x \in DOMAIN mm.cell : Kind(mm, x) = Kind(m, x) /\ Name(mm, x) = Name(m, x)
    BY <1>4 DEF Kind, Name
  <1>8. \A n \in DOMAIN mm.node : Data(mm, n) = Data(m, n) BY <1>1 DEF Data
  <1>9. /\ \A x : ~On(mm, l, x)
        /\ \A k \in DOMAIN m.root : k # l => \A x : On(mm, k, x) <=> On(m, k, x)
    BY <1>1 DEF On, Range
  <1>10. \A n : On(m, l, n) => Data(m, n) \notin DOMAIN mm.cell BY <1>2, <1>3, <1>4
  <1>11. \A x \in DOMAIN m.cell : Kind(m, x) # KindIn(l) => x \in DOMAIN mm.cell BY <1>4, <1>6
  <1>12. DOMAIN mm.node \subseteq DOMAIN m.node
         /\ \A n \in DOMAIN m.node : n \in DOMAIN mm.node <=> ~On(m, l, n)
    BY <1>1, <1>2
  <1>13. QED BY <1>1, <1>4, <1>7, <1>8, <1>9, <1>10, <1>11, <1>12

(* The nodes that stay are on the lists they were on, and a block that     *)
(* stays has the node it had.                                              *)
LEMMA ListFreedPlaced ==
  ASSUME NEW m, Heap(m), Placed(m), SessionLists \subseteq DOMAIN m.root, NEW l \in DOMAIN m.root,
         NEW mm, mm = listFreeAll(m, l)
  PROVE  /\ Placed(mm)
         /\ \A n \in DOMAIN m.node : Data(m, n) \in DOMAIN mm.cell =>
              n \in DOMAIN mm.node /\ Data(mm, n) = Data(m, n)
  <1>1. /\ Heap(mm)
        /\ Chain(mm, l) = << >>
        /\ DOMAIN mm.root = DOMAIN m.root
        /\ \A k \in DOMAIN m.root : k # l => Chain(mm, k) = Chain(m, k)
        /\ DOMAIN mm.node \subseteq DOMAIN m.node
        /\ \A n \in DOMAIN m.node : n \in DOMAIN mm.node <=> ~On(m, l, n)
        /\ \A n \in DOMAIN mm.node : Data(mm, n) = Data(m, n)
        /\ \A n : On(m, l, n) => Data(m, n) \notin DOMAIN mm.cell
        /\ \A x \in DOMAIN mm.cell : Kind(mm, x) = Kind(m, x)
        /\ \A x : ~On(mm, l, x)
        /\ \A k \in DOMAIN m.root : k # l => \A x : On(mm, k, x) <=> On(m, k, x)
    BY ListFreed
  <1>2. \A n \in DOMAIN mm.node : Data(mm, n) \in DOMAIN mm.cell BY <1>1 DEF Heap, Data
  <1>3. \A k \in DOMAIN mm.root : \A n : On(mm, k, n) => n \in DOMAIN mm.node
    BY <1>1, HeapChain DEF On
  <1>4. ASSUME NEW n \in DOMAIN mm.node PROVE \E k \in DOMAIN mm.root : On(mm, k, n)
    <2>1. n \in DOMAIN m.node /\ ~On(m, l, n) BY <1>1
    <2>2. PICK k \in DOMAIN m.root : On(m, k, n) BY <2>1 DEF Placed
    <2>3. QED BY <1>1, <2>1, <2>2
  <1>5. ASSUME NEW k \in DOMAIN mm.root, NEW n, On(mm, k, n)
        PROVE  Kind(mm, Data(mm, n)) = KindIn(k)
    <2>1. k # l /\ On(m, k, n) /\ n \in DOMAIN mm.node BY <1>1, <1>3, <1>5
    <2>2. Kind(m, Data(m, n)) = KindIn(k) BY <1>1, <2>1 DEF Placed
    <2>3. QED BY <1>1, <1>2, <2>1, <2>2
  <1>6. ASSUME NEW k \in SessionLists \ {Files, Bps} PROVE Chain(mm, k) = << >>
    <2>1. Chain(m, k) = << >> /\ k \in DOMAIN m.root BY DEF Placed
    <2>2. QED BY <1>1, <2>1
  <1>7. Placed(mm) BY <1>4, <1>5, <1>6 DEF Placed
  <1>8. QED BY <1>1, <1>7

(* The lists of libraries and of threads are empty.                        *)
LEMMA NoneFreed ==
  ASSUME NEW m, Heap(m), Addresses(m), Placed(m), NEW l \in {"libraryList", "threadList"}
  PROVE  listFreeAll(m, l) = m
  <1>1. l \in SessionLists \ {Files, Bps} BY DEF SessionLists, Files, Bps
  <1>2. Chain(m, l) = << >> /\ l \in DOMAIN m.root BY <1>1 DEF Placed, Addresses
  <1>3. Holds(m, l, << >>) BY <1>2 DEF Heap
  <1>4. m.root[l].first = Null BY <1>3 DEF Holds
  <1>5. QED BY <1>4 DEF listFreeAll

(* The name of a file that DbgSessionDeleteProc frees.                     *)
NameTaken(m, c) == WithCells(m, Free([m.cell EXCEPT ![c].name = Null], {m.cell[c].name}))

(* The file then has no name, and nothing else has changed.                *)
LEMMA NameFreed ==
  ASSUME NEW m, NEW names, MemoryInv(m, names, Null), NEW c \in FilesOf(m),
         NEW mm, mm = NameTaken(m, c)
  PROVE  /\ MemoryInv(mm, names, Null)
         /\ FilesOf(mm) = FilesOf(m) /\ mm.node = m.node /\ mm.root = m.root
         /\ \A l \in DOMAIN m.root : Chain(mm, l) = Chain(m, l)
         /\ Name(mm, c) = Null
         /\ \A f \in FilesOf(m) : f # c => Name(mm, f) = Name(m, f)
  <1> DEFINE e == Name(m, c)
             f == Free([m.cell EXCEPT ![c].name = Null], {e})
  <1>1. /\ Heap(m) /\ Addresses(m) /\ Placed(m) /\ OwnedByKind(m, names, Null)
        /\ Names(m, names)
    BY DEF MemoryInv
  <1>2. c \in DOMAIN m.cell /\ Kind(m, c) = "file" BY DEF FilesOf
  <1>3. e # Null => e \in DOMAIN m.cell \ names /\ Kind(m, e) = "name" BY <1>1 DEF Names
  <1>4. e # c /\ (e \in DOMAIN m.cell => Kind(m, e) = "name" /\ e # Null)
    <2>1. Null \notin DOMAIN m.cell BY <1>1, NewAddresses
    <2>2. QED BY <1>2, <1>3, <2>1
  <1>5. m.cell[c] = [kind |-> "file", of |-> m.cell[c].of, name |-> e] BY <1>1 DEF Names
  <1>6. /\ IsFcn(f) /\ DOMAIN f = DOMAIN m.cell \ {e}
        /\ f[c] = [kind |-> "file", of |-> m.cell[c].of, name |-> Null]
        /\ \A x \in DOMAIN m.cell \ {e, c} : f[x] = m.cell[x]
    <2> HIDE DEF e
    <2> DEFINE g == [m.cell EXCEPT ![c].name = Null]
    <2>1. DOMAIN g = DOMAIN m.cell /\ \A x \in DOMAIN m.cell \ {c} : g[x] = m.cell[x] OBVIOUS
    <2>2. g[c] = [kind |-> "file", of |-> m.cell[c].of, name |-> Null]
      <3> DEFINE v == m.cell[c]
      <3>1. g[c] = [v EXCEPT !.name = Null] BY <1>2
      <3>2. v = [kind |-> "file", of |-> v.of, name |-> e] BY <1>5
      <3> HIDE DEF v, g
      <3>3. [v EXCEPT !.name = Null] = [kind |-> "file", of |-> v.of, name |-> Null] BY <3>2
      <3>4. QED BY <3>1, <3>3 DEF v
    <2> HIDE DEF g
    <2>3. f = [x \in DOMAIN g \ {e} |-> g[x]] BY DEF Free, g
    <2>4. c \in DOMAIN m.cell \ {e} BY <1>2, <1>4
    <2> HIDE DEF f
    <2>5. IsFcn(f) BY <2>3 DEF IsFcn
    <2>6. QED BY <2>1, <2>2, <2>3, <2>4, <2>5
  <1>7. mm = WithCells(m, f) BY DEF NameTaken, Name
  <1> HIDE DEF f, e
  <1>8. \A n \in DOMAIN m.node : Data(m, n) \in DOMAIN m.cell \ {e}
    BY <1>1, <1>4, DataKinds DEF NodeKinds
  <1>9. \A n \in DOMAIN m.node : m.node[n].data \in DOMAIN f BY <1>6, <1>8 DEF Data
  <1>10. /\ Heap(mm) /\ mm.node = m.node /\ mm.root = m.root /\ mm.cell = f
         /\ \A l \in DOMAIN m.root : Chain(mm, l) = Chain(m, l)
    BY <1>1, <1>6, <1>7, <1>9, CellsReplaced
  <1>11. /\ DOMAIN mm.cell = DOMAIN m.cell \ {e}
         /\ Kind(mm, c) = "file" /\ Name(mm, c) = Null
         /\ \A x \in DOMAIN m.cell \ {e, c} :
              mm.cell[x] = m.cell[x] /\ Kind(mm, x) = Kind(m, x) /\ Name(mm, x) = Name(m, x)
         /\ \A n : Data(mm, n) = Data(m, n)
    BY <1>6, <1>10 DEF Kind, Name, Data
  <1>12. \A x \in DOMAIN mm.cell : Kind(mm, x) = Kind(m, x) BY <1>2, <1>11
  <1>13. FilesOf(mm) = FilesOf(m) BY <1>4, <1>11, <1>12 DEF FilesOf
  <1>14. \A g \in FilesOf(m) : g # c =>
           g \in DOMAIN m.cell /\ mm.cell[g] = m.cell[g] /\ Name(mm, g) = Name(m, g)
    BY <1>4, <1>11 DEF FilesOf
  <1>15. Addresses(mm) BY <1>1, <1>10, <1>11, <1>13 DEF Addresses
  <1>16. \A n \in DOMAIN m.node : Kind(mm, Data(m, n)) = Kind(m, Data(m, n))
    BY <1>8, <1>11, <1>12
  <1>17. Placed(mm) BY <1>1, <1>10, <1>16, PlacedStill
  <1>18. OwnedByKind(mm, names, Null)
    <2> SUFFICES ASSUME NEW x \in DOMAIN mm.cell
                 PROVE  /\ Kind(mm, x) \in NodeKinds \cup {"name", "symbol"}
                        /\ Kind(mm, x) \in NodeKinds => \E n \in DOMAIN mm.node : Data(mm, n) = x
                        /\ Kind(mm, x) = "name" =>
                             x \in names \/ \E g \in FilesOf(mm) : Name(mm, g) = x
                        /\ Kind(mm, x) = "symbol" => x = Null
      BY DEF OwnedByKind
    <2>1. /\ x \in DOMAIN m.cell /\ x # e /\ Kind(mm, x) = Kind(m, x)
      BY <1>11, <1>12
    <2>2. /\ Kind(m, x) \in NodeKinds \cup {"name", "symbol"}
          /\ Kind(m, x) \in NodeKinds => \E n \in DOMAIN m.node : Data(m, n) = x
          /\ Kind(m, x) = "name" => x \in names \/ \E g \in FilesOf(m) : Name(m, g) = x
          /\ Kind(m, x) = "symbol" => x = Null
      BY <1>1, <2>1 DEF OwnedByKind
    <2>3. \A g \in FilesOf(m) : Name(m, g) = x => g # c BY <2>1 DEF e
    <2>4. Kind(m, x) = "name" => x \in names \/ \E g \in FilesOf(mm) : Name(mm, g) = x
      BY <1>13, <1>14, <2>2, <2>3
    <2>5. QED BY <1>10, <1>11, <2>1, <2>2, <2>4
  <1>19. Names(mm, names)
    <2>1. ASSUME NEW g \in FilesOf(mm)
          PROVE  /\ mm.cell[g] = [kind |-> "file", of |-> mm.cell[g].of, name |-> Name(mm, g)]
                 /\ Name(mm, g) # Null =>
                      Name(mm, g) \in DOMAIN mm.cell \ names /\ Kind(mm, Name(mm, g)) = "name"
      <3>1. CASE g = c BY <1>6, <1>10, <1>11, <3>1
      <3>2. CASE g # c
        <4>1. Name(m, g) # Null =>
                Name(m, g) \in DOMAIN m.cell \ names /\ Kind(m, Name(m, g)) = "name"
          BY <1>1, <1>13 DEF Names
        <4>2. Name(m, g) # Null => Name(m, g) # e BY <1>1, <1>13, <3>2 DEF Names, e
        <4>3. Name(m, g) # Null => Name(m, g) \in DOMAIN mm.cell BY <1>11, <4>1, <4>2
        <4>4. mm.cell[g] = [kind |-> "file", of |-> mm.cell[g].of, name |-> Name(mm, g)]
          BY <1>1, <1>13, <1>14, <3>2 DEF Names
        <4>5. QED BY <1>12, <1>13, <1>14, <3>2, <4>1, <4>3, <4>4
      <3>3. QED BY <3>1, <3>2
    <2>2. ASSUME NEW g \in FilesOf(mm), NEW h \in FilesOf(mm), g # h, Name(mm, g) # Null
          PROVE  Name(mm, g) # Name(mm, h)
      <3>1. g # c BY <1>11, <2>2
      <3>2. CASE h = c BY <1>11, <2>2, <3>2
      <3>3. CASE h # c BY <1>1, <1>13, <1>14, <2>2, <3>1, <3>3 DEF Names
      <3>4. QED BY <3>2, <3>3
    <2>3. ASSUME NEW x \in names PROVE x \in DOMAIN mm.cell /\ Kind(mm, x) = "name"
      <3>1. x \in DOMAIN m.cell /\ Kind(m, x) = "name" BY <1>1 DEF Names
      <3>2. x # e BY <1>3, <1>4, <3>1
      <3>3. QED BY <1>11, <1>12, <3>1, <3>2
    <2>4. QED BY <2>1, <2>2, <2>3 DEF Names
  <1>20. SymbolKept(mm, Null) BY DEF SymbolKept
  <1>21. MemoryInv(mm, names, Null) BY <1>10, <1>15, <1>17, <1>18, <1>19, <1>20 DEF MemoryInv
  <1>22. QED BY <1>10, <1>11, <1>13, <1>14, <1>21

(* Its lines.                                                              *)
LEMMA LinesFreed ==
  ASSUME NEW m, NEW names, MemoryInv(m, names, Null), NEW c \in FilesOf(m),
         NEW mm, mm = listFreeAll(m, c)
  PROVE  /\ MemoryInv(mm, names, Null)
         /\ FilesOf(mm) = FilesOf(m)
         /\ Chain(mm, c) = << >>
         /\ \A l \in DOMAIN m.root : l # c => Chain(mm, l) = Chain(m, l)
         /\ \A f \in FilesOf(m) : Name(mm, f) = Name(m, f)
         /\ \A n \in DOMAIN mm.node : Data(mm, n) = Data(m, n)
  <1>1. /\ Heap(m) /\ Addresses(m) /\ Placed(m) /\ OwnedByKind(m, names, Null)
        /\ Names(m, names)
    BY DEF MemoryInv
  <1>2. c \in DOMAIN m.root /\ c \notin SessionLists /\ SessionLists \subseteq DOMAIN m.root
    BY <1>1, FilesAreNoNames DEF Addresses
  <1>3. KindIn(c) = "line" BY <1>2 DEF KindIn, SessionLists
  <1>4. /\ Heap(mm)
        /\ Chain(mm, c) = << >>
        /\ DOMAIN mm.root = DOMAIN m.root
        /\ \A k \in DOMAIN m.root : k # c => Chain(mm, k) = Chain(m, k)
        /\ DOMAIN mm.node \subseteq DOMAIN m.node
        /\ \A n \in DOMAIN mm.node : Data(mm, n) = Data(m, n)
        /\ DOMAIN mm.cell \subseteq DOMAIN m.cell
        /\ \A x \in DOMAIN m.cell : Kind(m, x) # "line" => x \in DOMAIN mm.cell
        /\ \A x \in DOMAIN mm.cell :
             /\ mm.cell[x] = m.cell[x]
             /\ Kind(mm, x) = Kind(m, x) /\ Name(mm, x) = Name(m, x)
    BY <1>1, <1>2, <1>3, ListFreed
  <1>5. /\ Placed(mm)
        /\ \A n \in DOMAIN m.node : Data(m, n) \in DOMAIN mm.cell =>
             n \in DOMAIN mm.node /\ Data(mm, n) = Data(m, n)
    BY <1>1, <1>2, ListFreedPlaced
  <1>6. FilesOf(mm) = FilesOf(m) BY <1>4 DEF FilesOf
  <1>7. \A f \in FilesOf(m) : /\ f \in DOMAIN mm.cell /\ mm.cell[f] = m.cell[f]
                              /\ Name(mm, f) = Name(m, f)
    BY <1>4, <1>6 DEF FilesOf
  <1>8. Addresses(mm) BY <1>1, <1>4, <1>6 DEF Addresses
  <1>9. OwnedByKind(mm, names, Null)
    <2> SUFFICES ASSUME NEW x \in DOMAIN mm.cell
                 PROVE  /\ Kind(mm, x) \in NodeKinds \cup {"name", "symbol"}
                        /\ Kind(mm, x) \in NodeKinds => \E n \in DOMAIN mm.node : Data(mm, n) = x
                        /\ Kind(mm, x) = "name" =>
                             x \in names \/ \E f \in FilesOf(mm) : Name(mm, f) = x
                        /\ Kind(mm, x) = "symbol" => x = Null
      BY DEF OwnedByKind
    <2>1. x \in DOMAIN m.cell /\ Kind(mm, x) = Kind(m, x) BY <1>4
    <2>2. /\ Kind(m, x) \in NodeKinds \cup {"name", "symbol"}
          /\ Kind(m, x) \in NodeKinds => \E n \in DOMAIN m.node : Data(m, n) = x
          /\ Kind(m, x) = "name" => x \in names \/ \E f \in FilesOf(m) : Name(m, f) = x
          /\ Kind(m, x) = "symbol" => x = Null
      BY <1>1, <2>1 DEF OwnedByKind
    <2>3. QED BY <1>5, <1>6, <1>7, <2>1, <2>2
  <1>10. Names(mm, names)
    <2>1. \A x \in DOMAIN m.cell : Kind(m, x) = "name" => x \in DOMAIN mm.cell /\ Kind(mm, x) = "name"
      BY <1>4
    <2>2. \A x \in names : x \in DOMAIN mm.cell /\ Kind(mm, x) = "name" BY <1>1, <2>1 DEF Names
    <2>3. ASSUME NEW f \in FilesOf(mm)
          PROVE  /\ mm.cell[f] = [kind |-> "file", of |-> mm.cell[f].of, name |-> Name(mm, f)]
                 /\ Name(mm, f) # Null =>
                      Name(mm, f) \in DOMAIN mm.cell \ names /\ Kind(mm, Name(mm, f)) = "name"
      BY <1>1, <1>6, <1>7, <2>1 DEF Names
    <2>4. ASSUME NEW f \in FilesOf(mm), NEW g \in FilesOf(mm), f # g, Name(mm, f) # Null
          PROVE  Name(mm, f) # Name(mm, g)
      BY <1>1, <1>6, <1>7, <2>4 DEF Names
    <2>5. QED BY <2>2, <2>3, <2>4 DEF Names
  <1>11. SymbolKept(mm, Null) BY DEF SymbolKept
  <1>12. MemoryInv(mm, names, Null) BY <1>4, <1>5, <1>8, <1>9, <1>10, <1>11 DEF MemoryInv
  <1>13. QED BY <1>4, <1>6, <1>7, <1>12

(* Every file is on sourceFileList.                                        *)
LEMMA FilesListed ==
  ASSUME NEW m, Placed(m), NEW names, NEW symbol, OwnedByKind(m, names, symbol),
         NEW f \in FilesOf(m)
  PROVE  \E n \in DOMAIN m.node : On(m, Files, n) /\ Data(m, n) = f
  <1>1. f \in DOMAIN m.cell /\ Kind(m, f) = "file" BY DEF FilesOf
  <1>2. PICK n \in DOMAIN m.node : Data(m, n) = f BY <1>1 DEF OwnedByKind, NodeKinds
  <1>3. PICK l \in DOMAIN m.root : On(m, l, n) BY DEF Placed
  <1>4. KindIn(l) = "file" BY <1>1, <1>2, <1>3 DEF Placed
  <1>5. l = Files BY <1>4 DEF KindIn
  <1>6. QED BY <1>2, <1>3, <1>5

(* The files themselves, and with them the descriptors of their lists.     *)
LEMMA FilesFreed ==
  ASSUME NEW m, NEW names, MemoryInv(m, names, Null),
         \A n : On(m, Files, n) => TakenApart(m, Data(m, n)),
         NEW mid, mid = listFreeAll(m, Files),
         NEW mm, mm = WithRoots(mid, [l \in SessionLists |-> mid.root[l]])
  PROVE  MemoryInv(mm, names, Null) /\ Chain(mm, Files) = << >>
  <1>1. /\ Heap(m) /\ Addresses(m) /\ Placed(m) /\ OwnedByKind(m, names, Null)
        /\ Names(m, names)
    BY DEF MemoryInv
  <1>2. Files \in SessionLists /\ SessionLists \subseteq DOMAIN m.root
    BY <1>1 DEF Addresses, SessionLists
  <1>3. KindIn(Files) = "file" BY DEF KindIn
  <1>4. ASSUME NEW f \in FilesOf(m) PROVE TakenApart(m, f)
    <2>1. PICK n \in DOMAIN m.node : On(m, Files, n) /\ Data(m, n) = f BY <1>1, FilesListed
    <2>2. QED BY <2>1
  <1>5. /\ Heap(mid)
        /\ Chain(mid, Files) = << >>
        /\ DOMAIN mid.root = DOMAIN m.root
        /\ \A k \in DOMAIN m.root : k # Files => Chain(mid, k) = Chain(m, k)
        /\ DOMAIN mid.node \subseteq DOMAIN m.node
        /\ \A n \in DOMAIN mid.node : Data(mid, n) = Data(m, n)
        /\ DOMAIN mid.cell \subseteq DOMAIN m.cell
        /\ \A x \in DOMAIN m.cell : Kind(m, x) # "file" => x \in DOMAIN mid.cell
        /\ \A n : On(m, Files, n) => Data(m, n) \notin DOMAIN mid.cell
        /\ \A x \in DOMAIN mid.cell :
             /\ mid.cell[x] = m.cell[x]
             /\ Kind(mid, x) = Kind(m, x) /\ Name(mid, x) = Name(m, x)
        /\ \A k \in DOMAIN m.root : k # Files => \A x : On(mid, k, x) <=> On(m, k, x)
    BY <1>1, <1>2, <1>3, ListFreed
  <1>6. /\ Placed(mid)
        /\ \A n \in DOMAIN m.node : Data(m, n) \in DOMAIN mid.cell =>
             n \in DOMAIN mid.node /\ Data(mid, n) = Data(m, n)
    BY <1>1, <1>2, ListFreedPlaced
  <1> DEFINE r == [l \in SessionLists |-> mid.root[l]]
  <1>7. IsFcn(r) /\ SessionLists = DOMAIN r /\ \A l \in SessionLists : r[l] = mid.root[l]
    BY DEF IsFcn
  <1>8. mm = WithRoots(mid, r) OBVIOUS
  <1> HIDE DEF r
  <1>9. /\ Heap(mm) /\ mm.node = mid.node /\ mm.root = r /\ mm.cell = mid.cell
        /\ \A l \in SessionLists : Chain(mm, l) = Chain(mid, l)
    <2>1. \A l \in SessionLists : (l \in DOMAIN mid.root /\ r[l] = mid.root[l]) \/ r[l] = EmptyRoot
      BY <1>2, <1>5, <1>7
    <2>2. Heap(mid) /\ IsFcn(r) BY <1>5, <1>7
    <2> DEFINE S == SessionLists
    <2>3. S = DOMAIN r BY <1>7
    <2> HIDE DEF S
    <2>4. \A l \in S : (l \in DOMAIN mid.root /\ r[l] = mid.root[l]) \/ r[l] = EmptyRoot
      BY <2>1 DEF S
    <2>5. ASSUME NEW q, q = WithRoots(mid, r)
          PROVE  /\ Heap(q) /\ q.node = mid.node /\ q.root = r /\ q.cell = mid.cell
                 /\ \A l \in S : l \in DOMAIN mid.root /\ r[l] = mid.root[l] =>
                                Chain(q, l) = Chain(mid, l)
      BY <2>2, <2>3, <2>4, <2>5, RootsReplaced
    <2>6. \A l \in S : l \in DOMAIN mid.root /\ r[l] = mid.root[l] BY <1>2, <1>5, <1>7 DEF S
    <2>7. QED BY <1>8, <2>5, <2>6 DEF S
  <1>10. /\ DOMAIN mm.root = SessionLists
         /\ \A x : Kind(mm, x) = Kind(mid, x) /\ Name(mm, x) = Name(mid, x)
         /\ \A n : Data(mm, n) = Data(mid, n)
         /\ \A l \in SessionLists : \A x : On(mm, l, x) <=> On(mid, l, x)
    BY <1>7, <1>9 DEF Kind, Name, Data, On
  <1>11. FilesOf(mm) = {}
    <2> SUFFICES ASSUME NEW f \in FilesOf(mm) PROVE FALSE OBVIOUS
    <2>1. f \in DOMAIN mid.cell /\ Kind(mid, f) = "file" BY <1>9, <1>10 DEF FilesOf
    <2>2. f \in FilesOf(m) BY <1>5, <2>1 DEF FilesOf
    <2>3. PICK n \in DOMAIN m.node : On(m, Files, n) /\ Data(m, n) = f BY <1>1, <2>2, FilesListed
    <2>4. QED BY <1>5, <2>1, <2>3
  <1>12. Addresses(mm) BY <1>1, <1>5, <1>9, <1>10, <1>11 DEF Addresses
  <1>13. Placed(mm)
    <2>1. ASSUME NEW n \in DOMAIN mm.node PROVE \E k \in DOMAIN mm.root : On(mm, k, n)
      <3>1. PICK k \in DOMAIN mid.root : On(mid, k, n) BY <1>6, <1>9 DEF Placed
      <3>2. k \in SessionLists \cup FilesOf(m) BY <1>1, <1>5 DEF Addresses
      <3>3. ASSUME k \in FilesOf(m) PROVE FALSE
        <4>1. k # Files BY <1>1, <1>2, <3>3, FilesAreNoNames
        <4>2. Chain(mid, k) = << >> BY <1>4, <1>5, <3>3, <4>1 DEF TakenApart
        <4>3. QED BY <3>1, <4>2 DEF On, Range
      <3>4. QED BY <1>10, <3>1, <3>2, <3>3
    <2>2. ASSUME NEW k \in DOMAIN mm.root, NEW n, On(mm, k, n)
          PROVE  Kind(mm, Data(mm, n)) = KindIn(k)
      <3>1. k \in DOMAIN mid.root /\ On(mid, k, n) BY <1>2, <1>5, <1>10, <2>2
      <3>2. QED BY <1>6, <1>10, <3>1 DEF Placed
    <2>3. \A k \in SessionLists \ {Files, Bps} : Chain(mm, k) = << >> BY <1>6, <1>9 DEF Placed
    <2>4. QED BY <2>1, <2>2, <2>3 DEF Placed
  <1>14. Null \notin DOMAIN m.cell BY <1>1, NewAddresses
  <1>15. OwnedByKind(mm, names, Null)
    <2> SUFFICES ASSUME NEW x \in DOMAIN mm.cell
                 PROVE  /\ Kind(mm, x) \in NodeKinds \cup {"name", "symbol"}
                        /\ Kind(mm, x) \in NodeKinds => \E n \in DOMAIN mm.node : Data(mm, n) = x
                        /\ Kind(mm, x) = "name" =>
                             x \in names \/ \E f \in FilesOf(mm) : Name(mm, f) = x
                        /\ Kind(mm, x) = "symbol" => x = Null
      BY DEF OwnedByKind
    <2>1. x \in DOMAIN m.cell /\ x \in DOMAIN mid.cell /\ Kind(mm, x) = Kind(m, x)
      BY <1>5, <1>9, <1>10
    <2>2. /\ Kind(m, x) \in NodeKinds \cup {"name", "symbol"}
          /\ Kind(m, x) \in NodeKinds => \E n \in DOMAIN m.node : Data(m, n) = x
          /\ Kind(m, x) = "name" => x \in names \/ \E f \in FilesOf(m) : Name(m, f) = x
          /\ Kind(m, x) = "symbol" => x = Null
      BY <1>1, <2>1 DEF OwnedByKind
    <2>3. \A f \in FilesOf(m) : Name(m, f) # x BY <1>4, <1>14, <2>1 DEF TakenApart
    <2>4. QED BY <1>6, <1>9, <1>10, <2>1, <2>2, <2>3
  <1>16. Names(mm, names)
    <2>1. ASSUME NEW x \in names PROVE x \in DOMAIN mm.cell /\ Kind(mm, x) = "name"
      <3>1. x \in DOMAIN m.cell /\ Kind(m, x) = "name" BY <1>1 DEF Names
      <3>2. x \in DOMAIN mid.cell BY <1>5, <3>1
      <3>3. QED BY <1>5, <1>9, <1>10, <3>1, <3>2
    <2>2. QED BY <1>11, <2>1 DEF Names
  <1>17. SymbolKept(mm, Null) BY DEF SymbolKept
  <1>18. Chain(mm, Files) = << >> BY <1>2, <1>5, <1>9
  <1>19. QED BY <1>9, <1>12, <1>13, <1>15, <1>16, <1>17, <1>18 DEF MemoryInv

----------------------------------------------------------------------------
(* The steps.                                                              *)

(* The list the loops follow: its descriptor, its nodes and its files.     *)
LEMMA FileNodes ==
  ASSUME NEW m, Heap(m), Addresses(m), Placed(m), NEW ch, ch = Chain(m, Files)
  PROVE  /\ Len(ch) \in Nat /\ m.root[Files].count = Len(ch)
         /\ m.root[Files].first = IF ch = << >> THEN Null ELSE ch[1]
         /\ (ch = << >>) <=> (Len(ch) = 0)
         /\ \A i \in 1..Len(ch) :
              /\ ch[i] \in DOMAIN m.node /\ ch[i] \in Range(Nodes)
              /\ m.node[ch[i]].next = IF i = Len(ch) THEN Null ELSE ch[i + 1]
              /\ m.node[ch[i]].data = Data(m, ch[i]) /\ Data(m, ch[i]) \in FilesOf(m)
         /\ \A i, j \in 1..Len(ch) : i # j => Data(m, ch[i]) # Data(m, ch[j])
         /\ \A n : On(m, Files, n) <=> \E i \in 1..Len(ch) : n = ch[i]
         /\ m.root[Files].first \in Range(Nodes) \cup {Null}
  <1>1. Files \in DOMAIN m.root BY DEF Addresses, SessionLists
  <1>2. /\ Holds(m, Files, ch) /\ Len(ch) \in Nat /\ m.root[Files].count = Len(ch)
        /\ Range(ch) \subseteq DOMAIN m.node
        /\ Range(ch) = {ch[i] : i \in 1..Len(ch)}
    BY <1>1, HeapChain
  <1>3. \A n : On(m, Files, n) <=> n \in Range(ch) BY DEF On
  <1>4. \A n : On(m, Files, n) => Kind(m, Data(m, n)) = "file"
    <2>1. KindIn(Files) = "file" BY DEF KindIn
    <2>2. QED BY <1>1, <2>1 DEF Placed
  <1>5. \A i \in 1..Len(ch) : ch[i] \in DOMAIN m.node BY <1>2
  <1>6. \A n : On(m, Files, n) <=> \E i \in 1..Len(ch) : n = ch[i] BY <1>2, <1>3
  <1>7. \A i \in 1..Len(ch) : Data(m, ch[i]) \in FilesOf(m)
    <2>1. \A n \in DOMAIN m.node : Data(m, n) \in DOMAIN m.cell BY DEF Heap, Data
    <2>2. QED BY <1>4, <1>5, <1>6, <2>1 DEF FilesOf
  <1>8. \A i, j \in 1..Len(ch) : i # j => Data(m, ch[i]) # Data(m, ch[j])
    BY <1>2, <1>5 DEF Holds, Heap, Data
  <1>9. /\ m.root[Files].first = IF ch = << >> THEN Null ELSE ch[1]
        /\ (ch = << >>) <=> (Len(ch) = 0)
        /\ \A i \in 1..Len(ch) : m.node[ch[i]].next = IF i = Len(ch) THEN Null ELSE ch[i + 1]
    BY <1>2 DEF Holds
  <1>10. DOMAIN m.node \subseteq Range(Nodes) BY DEF Addresses
  <1>11. m.root[Files].first \in Range(Nodes) \cup {Null}
    <2>1. CASE ch = << >> BY <1>9, <2>1
    <2>2. CASE ch # << >>
      <3>1. 1 \in 1..Len(ch) BY <1>2, <1>9, <2>2
      <3>2. QED BY <1>5, <1>9, <1>10, <2>2, <3>1
    <2>3. QED BY <2>1, <2>2
  <1>12. \A n : m.node[n].data = Data(m, n) BY DEF Data
  <1>13. QED BY <1>2, <1>5, <1>6, <1>7, <1>8, <1>9, <1>10, <1>11, <1>12

(* What holds of the list while the invariant does.                        *)
LEMMA InLoop ==
  ASSUME IInv, NEW ch, ch = Chain(memory, Files)
  PROVE  /\ Heap(memory) /\ Addresses(memory) /\ Placed(memory)
         /\ Len(ch) \in Nat /\ memory.root[Files].count = Len(ch) /\ turn \in Nat
         /\ pc \in {"line", "lines", "delete"} /\ turn < Len(ch) =>
              /\ cur = ch[turn + 1] /\ cur \in DOMAIN memory.node
              /\ Data(memory, cur) = memory.node[cur].data
              /\ Data(memory, cur) \in FilesOf(memory)
              /\ memory.node[cur].next \in Range(Nodes) \cup {Null}
              /\ turn + 1 < Len(ch) => memory.node[cur].next = ch[turn + 2]
  <1>1. Heap(memory) /\ Addresses(memory) /\ Placed(memory) BY DEF IInv, MemoryInv
  <1>2. /\ Len(ch) \in Nat /\ memory.root[Files].count = Len(ch)
        /\ \A i \in 1..Len(ch) :
             /\ ch[i] \in DOMAIN memory.node /\ ch[i] \in Range(Nodes)
             /\ memory.node[ch[i]].next = IF i = Len(ch) THEN Null ELSE ch[i + 1]
             /\ memory.node[ch[i]].data = Data(memory, ch[i])
             /\ Data(memory, ch[i]) \in FilesOf(memory)
    BY <1>1, FileNodes
  <1>3. turn \in Nat
    <2>1. turn \in 0..Len(PdbFiles) BY DEF IInv, Control
    <2>2. QED BY <2>1
  <1>4. pc \in {"line", "lines", "delete"} /\ turn < Len(ch) => cur = ch[turn + 1]
    BY DEF IInv, LoopInv
  <1>5. ASSUME turn < Len(ch) PROVE turn + 1 \in 1..Len(ch) /\ (turn + 1) + 1 = turn + 2
    BY <1>2, <1>3, <1>5
  <1>6. ASSUME turn < Len(ch), turn + 1 # Len(ch)
        PROVE  turn + 2 \in 1..Len(ch)
    BY <1>2, <1>3, <1>6
  <1>7. ASSUME pc \in {"line", "lines", "delete"}, turn < Len(ch)
        PROVE  /\ cur = ch[turn + 1] /\ cur \in DOMAIN memory.node
               /\ Data(memory, cur) = memory.node[cur].data
               /\ Data(memory, cur) \in FilesOf(memory)
               /\ memory.node[cur].next \in Range(Nodes) \cup {Null}
               /\ turn + 1 < Len(ch) => memory.node[cur].next = ch[turn + 2]
    <2>1. cur = ch[turn + 1] /\ turn + 1 \in 1..Len(ch) BY <1>4, <1>5, <1>7
    <2>2. memory.node[cur].next = IF turn + 1 = Len(ch) THEN Null ELSE ch[turn + 2]
      BY <1>2, <1>5, <1>7, <2>1
    <2>3. memory.node[cur].next \in Range(Nodes) \cup {Null}
      BY <1>2, <1>6, <1>7, <2>2
    <2>4. turn + 1 < Len(ch) => memory.node[cur].next = ch[turn + 2]
      BY <1>2, <1>3, <2>2
    <2>5. QED BY <1>2, <2>1, <2>3, <2>4
  <1>8. QED BY <1>1, <1>2, <1>3, <1>7

(* No symbols are loaded, and the lists of the session are empty.          *)
LEMMA InitInv == Init => IInv
  <1> SUFFICES ASSUME Init PROVE IInv
    OBVIOUS
  <1> DEFINE m == memory
  <1>1. /\ m = [node |-> m.node, cell |-> m.cell, root |-> m.root]
        /\ m.node = [n \in {} |-> Null] /\ m.cell = [c \in {} |-> Null]
        /\ m.root = [l \in SessionLists |-> EmptyRoot]
    BY DEF Init
  <1> HIDE DEF m
  <1>2. DOMAIN m.node = {} /\ DOMAIN m.cell = {} /\ DOMAIN m.root = SessionLists
    BY <1>1
  <1>3. ASSUME NEW l \in SessionLists PROVE Holds(m, l, << >>) /\ Chain(m, l) = << >>
    <2>1. Holds(m, l, << >>) BY <1>1, <1>2, <1>3 DEF Holds, EmptyRoot
    <2>2. QED BY <2>1, ChainOf
  <1>4. WellFormed(m)
    <2>1. \A l \in SessionLists : m.root[l] = [count |-> m.root[l].count,
                                    first |-> m.root[l].first, last |-> m.root[l].last]
      BY <1>1 DEF EmptyRoot
    <2>2. QED BY <1>1, <1>2, <2>1 DEF WellFormed
  <1>5. Range(<< >>) = {} BY DEF Range
  <1>6. Heap(m) BY <1>2, <1>3, <1>4, <1>5 DEF Heap
  <1>7. FilesOf(m) = {} BY <1>2 DEF FilesOf
  <1>8. Addresses(m) BY <1>2, <1>7 DEF Addresses
  <1>9. Placed(m) BY <1>2, <1>3, <1>5 DEF Placed, On
  <1>10. OwnedByKind(m, {}, Null) /\ Names(m, {}) /\ SymbolKept(m, Null)
    BY <1>2, <1>7 DEF OwnedByKind, Names, SymbolKept
  <1>11. MemoryInv(memory, lost, block)
    BY <1>6, <1>8, <1>9, <1>10 DEF Init, MemoryInv, m
  <1>12. Chain(memory, Files) = << >> BY <1>3 DEF m, SessionLists
  <1>13. Len(PdbFiles) \in Nat BY SymbolConstantsOK
  <1>14. Control
    <2>1. /\ pc = "start" /\ cur = Null /\ turn = 0 /\ block = Null /\ missing \in BOOLEAN
      BY DEF Init
    <2>2. QED BY <1>13, <2>1 DEF Control
  <1>15. LoopInv(memory)
    <2>1. Len(<< >>) = 0 OBVIOUS
    <2>2. QED BY <1>12, <1>13, <2>1 DEF Init, LoopInv
  <1>16. QED BY <1>11, <1>14, <1>15 DEF IInv

(* SymInitialize and SymLoadModule.                                        *)
LEMMA LoadTableStep == IInv /\ LoadTable => IInv'
  <1> SUFFICES ASSUME IInv, LoadTable PROVE IInv'
    OBVIOUS
  <1>1. MemoryInv(memory, lost, block)' BY DEF IInv, LoadTable
  <1>2. Control' BY DEF IInv, Control, LoadTable, Loading
  <1>3. Chain(memory, Files) = << >> /\ Chain(memory', Files) = << >>
    BY DEF IInv, LoopInv, LoadTable
  <1>4. pc' = "files" => report' \in Seq(Range(PdbFiles)) /\ Len(report') <= Len(PdbFiles)
    <2>1. pc' = "files" => report' = PdbFiles \/ report' = << >> BY DEF LoadTable
    <2>2. /\ PdbFiles \in Seq(Range(PdbFiles)) /\ << >> \in Seq(Range(PdbFiles))
          /\ Len(<< >>) <= Len(PdbFiles) /\ Len(PdbFiles) <= Len(PdbFiles)
      BY SymbolConstantsOK
    <2>3. QED BY <2>1, <2>2
  <1>5. LoopInv(memory)'
    <2>1. Len(<< >>) = 0 /\ Len(PdbFiles) \in Nat BY SymbolConstantsOK
    <2>2. pc' \in {"ready", "files"} BY DEF LoadTable
    <2>3. pc' = "files" => Len(report') \in Nat BY <1>4
    <2>4. QED BY <1>3, <1>4, <2>1, <2>2, <2>3 DEF LoopInv
  <1>6. QED BY <1>1, <1>2, <1>5 DEF IInv

(* The report gets shorter as the list gets longer.                        *)
LEMMA Reported ==
  ASSUME NEW T, NEW s \in Seq(T), s # << >>
  PROVE  Tail(s) \in Seq(T) /\ Len(Tail(s)) = Len(s) - 1 /\ Len(s) \in Nat \ {0}
         /\ Head(s) \in T
  OBVIOUS

(* EnumSourceFilesProcPDB.                                                 *)
LEMMA SourceFileStep == IInv /\ SourceFile => IInv'
  <1> SUFFICES ASSUME IInv, SourceFile PROVE IInv'
    OBVIOUS
  <1> DEFINE name  == Fresh(memory.cell, Cells)
             named == WithCells(memory, Allocate(memory.cell, name, [kind |-> "name"]))
             file  == [kind |-> "file", of |-> Head(report), name |-> name]
             ch    == Chain(memory, Files)
  <1>1. /\ pc = "files" /\ pc' = "files" /\ report # << >> /\ report' = Tail(report)
        /\ cur' = cur /\ turn' = turn /\ block' = block
        /\ Room(memory.cell, Cells) > 0
    BY DEF SourceFile, HasCell
  <1>2. block = Null BY <1>1 DEF IInv, Control
  <1>3. MemoryInv(memory, lost, Null) /\ Addresses(memory) BY <1>2 DEF IInv, MemoryInv
  <1>4. name \in Range(Cells) \ DOMAIN memory.cell BY <1>1, <1>3, NewAddresses
  <1>5. /\ MemoryInv(named, lost \cup {name}, Null) /\ name \notin lost
        /\ named.node = memory.node /\ Chain(named, Files) = ch
    <2> HIDE DEF name
    <2>1. QED BY <1>3, <1>4, NameAllocated
  <1>6. \/ /\ Room(memory.node, Nodes) > 0 /\ Room(named.cell, Cells) > 0
           /\ LET m == Add(named, Files, file)
              IN memory' = WithRoots(m, Allocate(m.root, m.node[m.root[Files].last].data, EmptyRoot))
           /\ lost' = lost /\ missing' = missing
        \/ memory' = named /\ lost' = lost \cup {name} /\ missing' = TRUE
    BY DEF SourceFile, HasNode, NewCell, WithCells, WithRoots
  <1>7. Addresses(named) /\ Heap(named) BY <1>5 DEF MemoryInv
  <1> HIDE DEF named, name, ch
  <1>8. CASE /\ Room(memory.node, Nodes) > 0 /\ Room(named.cell, Cells) > 0
             /\ LET m == Add(named, Files, file)
                IN memory' = WithRoots(m, Allocate(m.root, m.node[m.root[Files].last].data, EmptyRoot))
             /\ lost' = lost /\ missing' = missing
    <2> DEFINE n   == Fresh(named.node, Nodes)
               c   == Fresh(named.cell, Cells)
               mid == listAddElement(named, Files, n, c, file)
    <2>1. n \in Range(Nodes) /\ n \notin DOMAIN named.node \cup {Null}
      BY <1>5, <1>7, <1>8, NewAddresses
    <2>2. c \in Range(Cells) /\ c \notin DOMAIN named.cell /\ c \notin SessionLists
      BY <1>7, <1>8, NewAddresses
    <2>3. memory' = WithRoots(mid, Allocate(mid.root, mid.node[mid.root[Files].last].data, EmptyRoot))
      BY <1>8 DEF Add
    <2>4. Files \in DOMAIN named.root BY <1>7 DEF Addresses, SessionLists
    <2> HIDE DEF n, c, file
    <2>5. mid.node[mid.root[Files].last].data = c BY <1>7, <2>1, <2>2, <2>4, LastAdded
    <2>6. memory' = WithRoots(mid, Allocate(mid.root, c, EmptyRoot)) BY <2>3, <2>5
    <2>7. file = [kind |-> "file", of |-> Head(report), name |-> name] BY DEF file
    <2> HIDE DEF mid
    <2>8. mid = listAddElement(named, Files, n, c, file) BY DEF mid
    <2>9. /\ MemoryInv(memory', lost, Null)
          /\ Chain(memory', Files) = Append(Chain(named, Files), n)
      BY <1>5, <2>1, <2>2, <2>6, <2>7, <2>8, FileAdded
    <2>10. Chain(memory', Files) = Append(ch, n) BY <1>5, <2>9
    <2>11. MemoryInv(memory, lost, block)' BY <1>1, <1>2, <1>8, <2>9
    <2>12. Control' BY <1>1, <1>8 DEF IInv, Control
    <2>13. LoopInv(memory)'
      <3>1. report \in Seq(Range(PdbFiles)) /\ Len(ch) + Len(report) <= Len(PdbFiles)
        BY <1>1 DEF IInv, LoopInv, ch
      <3>2. /\ report' \in Seq(Range(PdbFiles)) /\ Len(report') = Len(report) - 1
            /\ Len(report) \in Nat \ {0}
        BY <1>1, <3>1, Reported
      <3>3. ch \in Seq(DOMAIN memory.node)
        <4>1. Files \in DOMAIN memory.root BY <1>3 DEF Addresses, SessionLists
        <4>2. QED BY <1>3, <4>1, HeapChain DEF MemoryInv, Holds, ch
      <3>4. Len(Append(ch, n)) = Len(ch) + 1 /\ Len(ch) \in Nat BY <3>3
      <3>5. Len(PdbFiles) \in Nat BY SymbolConstantsOK
      <3>6. Len(Append(ch, n)) + Len(report') <= Len(PdbFiles)
            /\ Len(Append(ch, n)) <= Len(PdbFiles)
        BY <3>1, <3>2, <3>4, <3>5
      <3>7. QED BY <1>1, <2>10, <3>2, <3>6 DEF LoopInv
    <2>14. QED BY <2>11, <2>12, <2>13 DEF IInv
  <1>9. CASE memory' = named /\ lost' = lost \cup {name} /\ missing' = TRUE
    <2>1. MemoryInv(memory, lost, block)' BY <1>1, <1>2, <1>5, <1>9
    <2>2. Control' BY <1>1, <1>9 DEF IInv, Control
    <2>3. LoopInv(memory)'
      <3>1. report \in Seq(Range(PdbFiles)) /\ Len(ch) + Len(report) <= Len(PdbFiles)
            /\ Len(ch) <= Len(PdbFiles)
        BY <1>1 DEF IInv, LoopInv, ch
      <3>2. /\ report' \in Seq(Range(PdbFiles)) /\ Len(report') = Len(report) - 1
            /\ Len(report) \in Nat \ {0}
        BY <1>1, <3>1, Reported
      <3>3. Len(ch) \in Nat
        <4>1. Files \in DOMAIN memory.root BY <1>3 DEF Addresses, SessionLists
        <4>2. QED BY <1>3, <4>1, HeapChain DEF MemoryInv, ch
      <3>4. Len(PdbFiles) \in Nat BY SymbolConstantsOK
      <3>5. Len(ch) + Len(report') <= Len(PdbFiles) BY <3>1, <3>2, <3>3, <3>4
      <3>6. Chain(memory', Files) = ch BY <1>5, <1>9
      <3>7. QED BY <1>1, <3>1, <3>2, <3>5, <3>6 DEF LoopInv
    <2>4. QED BY <2>1, <2>2, <2>3 DEF IInv
  <1>10. QED BY <1>6, <1>8, <1>9

(* The callbacks that add nothing, and the control of the loops.           *)
LEMMA ControlStep ==
  IInv /\ (CopyFault \/ FilesReported \/ EnumerateLines \/ LinesReported \/ Loaded) => IInv'
  <1> SUFFICES ASSUME IInv,
                      CopyFault \/ FilesReported \/ EnumerateLines \/ LinesReported \/ Loaded
               PROVE  IInv'
    OBVIOUS
  <1> DEFINE ch == Chain(memory, Files)
  <1>1. memory' = memory /\ lost' = lost /\ block' = block
    BY DEF CopyFault, FilesReported, EnumerateLines, LinesReported, Loaded
  <1>2. MemoryInv(memory, lost, block)' BY <1>1 DEF IInv
  <1>3. Chain(memory', Files) = ch BY <1>1
  <1>4. /\ Heap(memory) /\ Addresses(memory) /\ Placed(memory)
        /\ Len(ch) \in Nat /\ memory.root[Files].count = Len(ch) /\ turn \in Nat
        /\ pc \in {"line", "lines", "delete"} /\ turn < Len(ch) =>
             /\ memory.node[cur].next \in Range(Nodes) \cup {Null}
             /\ turn + 1 < Len(ch) => memory.node[cur].next = ch[turn + 2]
    BY InLoop
  <1>5. /\ memory.root[Files].first = IF ch = << >> THEN Null ELSE ch[1]
        /\ (ch = << >>) <=> (Len(ch) = 0)
        /\ memory.root[Files].first \in Range(Nodes) \cup {Null}
    BY <1>4, FileNodes
  <1>6. /\ Len(ch) <= Len(PdbFiles)
        /\ pc \in {"lines", "line"} => turn <= Len(ch) /\ (turn < Len(ch) => cur = ch[turn + 1])
        /\ pc = "line" => turn < Len(ch)
    BY DEF IInv, LoopInv
  <1>7. Len(PdbFiles) \in Nat BY SymbolConstantsOK
  <1>8. Control BY DEF IInv
  <1> HIDE DEF ch
  <1>9. CASE CopyFault
    <2>1. Control'
      BY <1>8, <1>9 DEF Control, CopyFault, Loading
    <2>2. LoopInv(memory)' BY <1>3, <1>6, <1>9 DEF CopyFault, LoopInv
    <2>3. QED BY <1>2, <2>1, <2>2 DEF IInv
  <1>10. CASE FilesReported
    <2>1. /\ pc = "files" /\ pc' = "lines" /\ cur' = memory.root[Files].first /\ turn' = 0
          /\ missing' = missing /\ block' = block
      BY <1>10 DEF FilesReported
    <2>2. Control' BY <1>5, <1>7, <1>8, <2>1 DEF Control, Loading
    <2>3. turn' <= Len(ch) /\ (turn' < Len(ch) => cur' = ch[turn' + 1]) BY <1>4, <1>5, <2>1
    <2>4. LoopInv(memory)' BY <1>3, <1>6, <2>1, <2>3 DEF LoopInv
    <2>5. QED BY <1>2, <2>2, <2>4 DEF IInv
  <1>11. CASE EnumerateLines
    <2>1. /\ pc = "lines" /\ pc' = "line" /\ turn < Len(ch) /\ cur' = cur /\ turn' = turn
          /\ block' = block
      BY <1>4, <1>11 DEF EnumerateLines
    <2>2. missing' \in BOOLEAN BY <1>11 DEF EnumerateLines
    <2>3. Control' BY <1>8, <2>1, <2>2 DEF Control, Loading
    <2>4. LoopInv(memory)' BY <1>3, <1>6, <2>1 DEF LoopInv
    <2>5. QED BY <1>2, <2>3, <2>4 DEF IInv
  <1>12. CASE LinesReported
    <2>1. /\ pc = "line" /\ pc' = "lines" /\ cur' = memory.node[cur].next /\ turn' = turn + 1
          /\ missing' = missing /\ block' = block
      BY <1>12 DEF LinesReported
    <2>2. turn < Len(ch) BY <1>6, <2>1
    <2>3. turn' \in 0..Len(PdbFiles) BY <1>4, <1>6, <1>7, <2>1, <2>2
    <2>4. Control' BY <1>4, <1>8, <2>1, <2>2, <2>3 DEF Control, Loading
    <2>5. turn' + 1 = turn + 2 /\ turn' <= Len(ch) BY <1>4, <2>1, <2>2
    <2>6. turn' < Len(ch) => cur' = ch[turn' + 1] BY <1>4, <2>1, <2>2, <2>5
    <2>7. LoopInv(memory)' BY <1>3, <1>6, <2>1, <2>5, <2>6 DEF LoopInv
    <2>8. QED BY <1>2, <2>4, <2>7 DEF IInv
  <1>13. CASE Loaded
    <2>1. /\ pc = "lines" /\ pc' = "ready" /\ cur' = cur /\ turn' = turn
          /\ missing' = missing /\ block' = block
      BY <1>13 DEF Loaded
    <2>2. Control' BY <1>8, <2>1 DEF Control, Loading
    <2>3. LoopInv(memory)' BY <1>3, <1>6, <2>1 DEF LoopInv
    <2>4. QED BY <1>2, <2>2, <2>3 DEF IInv
  <1>14. QED BY <1>9, <1>10, <1>11, <1>12, <1>13

(* EnumLinesProcPDB: the element at hand stays the one it was.             *)
LEMMA SourceLineStep == IInv /\ SourceLine => IInv'
  <1> SUFFICES ASSUME IInv, SourceLine PROVE IInv'
    OBVIOUS
  <1> DEFINE ch == Chain(memory, Files)
             c  == Data(memory, cur)
  <1>1. /\ pc = "line" /\ pc' = "line" /\ cur' = cur /\ turn' = turn
        /\ block' = block /\ lost' = lost
    BY DEF SourceLine
  <1>2. turn < Len(ch) BY <1>1 DEF IInv, LoopInv
  <1>3. /\ Heap(memory) /\ Addresses(memory)
        /\ c = memory.node[cur].data /\ c \in FilesOf(memory)
    BY <1>1, <1>2, InLoop
  <1>4. KindIn(c) = "line"
    <2>1. c \notin SessionLists BY <1>3, FilesAreNoNames
    <2>2. QED BY <2>1 DEF KindIn, SessionLists
  <1>5. MemoryInv(memory, lost, block) BY DEF IInv
  <1> HIDE DEF ch, c
  <1>6. MemoryInv(memory', lost, block) /\ Chain(memory', Files) = Chain(memory, Files)
    <2>1. CASE UNCHANGED memory BY <1>5, <2>1
    <2>2. CASE HasNode /\ HasCell /\ memory' # memory
      <3> DEFINE n == Fresh(memory.node, Nodes)
                 x == Fresh(memory.cell, Cells)
                 data == [kind |-> "line", of |-> FilesAt(cur).of, no |-> Head(report)]
      <3>1. n \in Range(Nodes) /\ n \notin DOMAIN memory.node \cup {Null}
            /\ x \in Range(Cells) /\ x \notin DOMAIN memory.cell
        BY <1>3, <2>2, NewAddresses DEF HasNode, HasCell
      <3>2. memory' = listAddElement(memory, c, n, x, data)
        BY <1>3, <2>2 DEF SourceLine, Add
      <3>3. data.kind = KindIn(c) BY <1>4
      <3> HIDE DEF n, x, data
      <3>4. QED BY <1>3, <1>5, <3>1, <3>2, <3>3, ElementAdded
    <2>3. QED BY <2>1, <2>2 DEF SourceLine
  <1>7. missing' \in BOOLEAN BY DEF IInv, Control, SourceLine
  <1>8. Control' BY <1>1, <1>7 DEF IInv, Control
  <1>9. LoopInv(memory)' BY <1>1, <1>6 DEF IInv, LoopInv
  <1>10. MemoryInv(memory, lost, block)' BY <1>1, <1>6
  <1>11. QED BY <1>8, <1>9, <1>10 DEF IInv

(* A breakpoint that is set, the block of a lookup, and its end.           *)
LEMMA ReadyStep == IInv /\ (AddBreakpoint \/ Lookup \/ LookupDone) => IInv'
  <1> SUFFICES ASSUME IInv, AddBreakpoint \/ Lookup \/ LookupDone PROVE IInv'
    OBVIOUS
  <1>1. /\ pc' \in {"ready", "crashed", "lookup"} /\ cur' = cur /\ turn' = turn
        /\ lost' = lost /\ missing' = missing
    BY DEF AddBreakpoint, Lookup, LookupDone
  <1>2. MemoryInv(memory, lost, block) /\ Addresses(memory) BY DEF IInv, MemoryInv
  <1>3. /\ MemoryInv(memory', lost, block') /\ Chain(memory', Files) = Chain(memory, Files)
        /\ block' # Null <=> pc' = "lookup"
        /\ block' \in Range(Cells) \cup {Null}
    <2>1. CASE AddBreakpoint
      <3> DEFINE n == Fresh(memory.node, Nodes)
                 x == Fresh(memory.cell, Cells)
                 data == [kind |-> "breakpoint"]
      <3>1. n \in Range(Nodes) /\ n \notin DOMAIN memory.node \cup {Null}
            /\ x \in Range(Cells) /\ x \notin DOMAIN memory.cell
        BY <1>2, <2>1, NewAddresses DEF HasNode, HasCell, AddBreakpoint
      <3>2. memory' = listAddElement(memory, Bps, n, x, data) BY <2>1 DEF AddBreakpoint, Add
      <3>3. data.kind = KindIn(Bps) BY DEF KindIn, Files, Bps
      <3> HIDE DEF n, x, data
      <3>4. MemoryInv(memory', lost, block) /\ Chain(memory', Files) = Chain(memory, Files)
        BY <1>2, <3>1, <3>2, <3>3, ElementAdded
      <3>5. pc = "ready" /\ pc' = "ready" /\ block' = block BY <2>1 DEF AddBreakpoint
      <3>6. QED BY <3>4, <3>5 DEF IInv, Control
    <2>2. CASE Lookup
      <3>1. pc = "ready" /\ block = Null BY <2>2 DEF Lookup, IInv, Control
      <3>2. CASE pc' = "crashed" /\ UNCHANGED <<memory, block>> BY <1>2, <3>1, <3>2
      <3>3. CASE pc' # "crashed"
        <4> DEFINE x == Fresh(memory.cell, Cells)
        <4>1. /\ HasCell /\ block' = x /\ pc' = "lookup"
              /\ memory' = WithCells(memory, Allocate(memory.cell, x, [kind |-> "symbol"]))
          BY <2>2, <3>3 DEF Lookup, NewCell, WithCells
        <4>2. x \in Range(Cells) \ DOMAIN memory.cell /\ x # Null
          BY <1>2, <4>1, NewAddresses DEF HasCell
        <4> HIDE DEF x
        <4>3. MemoryInv(memory', lost, x) /\ Chain(memory', Files) = Chain(memory, Files)
          BY <1>2, <3>1, <4>1, <4>2, SymbolAllocated
        <4>4. QED BY <4>1, <4>2, <4>3
      <3>4. QED BY <2>2, <3>2, <3>3 DEF Lookup
    <2>3. CASE LookupDone
      <3>1. pc = "lookup" /\ pc' = "ready" /\ block # Null /\ block' = Null
        BY <2>3 DEF LookupDone, IInv, Control
      <3>2. memory' = FreeBlock(memory, block) BY <2>3 DEF LookupDone, FreeBlock, WithCells
      <3>3. MemoryInv(memory', lost, Null) /\ Chain(memory', Files) = Chain(memory, Files)
        BY <1>2, <3>1, <3>2, SymbolFreed
      <3>4. QED BY <3>1, <3>3
    <2>4. QED BY <2>1, <2>2, <2>3
  <1>4. Control' BY <1>1, <1>3 DEF IInv, Control, Loading
  <1>5. LoopInv(memory)' BY <1>1, <1>3 DEF IInv, LoopInv
  <1>6. MemoryInv(memory, lost, block)' BY <1>1, <1>3
  <1>7. QED BY <1>4, <1>5, <1>6 DEF IInv

(* DbgSessionDeleteProc: libraries and threads,                            *)
LEMMA DeleteProcStep == IInv /\ DeleteProc => IInv'
  <1> SUFFICES ASSUME IInv, DeleteProc PROVE IInv'
    OBVIOUS
  <1> DEFINE ch == Chain(memory, Files)
  <1>1. /\ pc = "ready" /\ pc' = "delete" /\ cur' = memory.root[Files].first /\ turn' = 0
        /\ block' = block /\ lost' = lost /\ missing' = missing
    BY DEF DeleteProc
  <1>2. /\ Heap(memory) /\ Addresses(memory) /\ Placed(memory) /\ Len(ch) \in Nat
    BY InLoop
  <1>3. memory' = memory
    <2>1. listFreeAll(memory, "libraryList") = memory BY <1>2, NoneFreed
    <2>2. listFreeAll(memory, "threadList") = memory BY <1>2, NoneFreed
    <2>3. QED BY <2>1, <2>2 DEF DeleteProc
  <1>4. /\ memory.root[Files].first = IF ch = << >> THEN Null ELSE ch[1]
        /\ (ch = << >>) <=> (Len(ch) = 0)
        /\ memory.root[Files].first \in Range(Nodes) \cup {Null}
    BY <1>2, FileNodes
  <1>5. Len(ch) <= Len(PdbFiles) BY DEF IInv, LoopInv
  <1>6. Chain(memory', Files) = ch BY <1>3
  <1>7. Len(PdbFiles) \in Nat BY SymbolConstantsOK
  <1> HIDE DEF ch
  <1>8. Control' BY <1>1, <1>4, <1>7 DEF IInv, Control
  <1>9. turn' <= Len(ch) /\ (turn' < Len(ch) => cur' = ch[turn' + 1]) /\ 1..turn' = {}
    BY <1>1, <1>2, <1>4
  <1>10. LoopInv(memory)' BY <1>1, <1>5, <1>6, <1>9 DEF LoopInv
  <1>11. MemoryInv(memory, lost, block)' BY <1>1, <1>3 DEF IInv
  <1>12. QED BY <1>8, <1>10, <1>11 DEF IInv

(* the name and the lines of each file,                                    *)
LEMMA DeleteFileStep == IInv /\ DeleteFile => IInv'
  <1> SUFFICES ASSUME IInv, DeleteFile PROVE IInv'
    OBVIOUS
  <1> DEFINE ch  == Chain(memory, Files)
             c   == Data(memory, cur)
             mid == NameTaken(memory, c)
  <1>1. /\ pc = "delete" /\ pc' = "delete" /\ turn' = turn + 1
        /\ cur' = memory.node[cur].next /\ turn < memory.root[Files].count
        /\ block' = block /\ lost' = lost /\ missing' = missing
    BY DEF DeleteFile
  <1>2. block = Null BY <1>1 DEF IInv, Control
  <1>3. MemoryInv(memory, lost, Null) BY <1>2 DEF IInv
  <1>4. /\ Heap(memory) /\ Addresses(memory) /\ Placed(memory)
        /\ Len(ch) \in Nat /\ turn \in Nat /\ turn < Len(ch)
        /\ cur = ch[turn + 1] /\ c = memory.node[cur].data /\ c \in FilesOf(memory)
        /\ memory.node[cur].next \in Range(Nodes) \cup {Null}
        /\ turn + 1 < Len(ch) => memory.node[cur].next = ch[turn + 2]
    BY <1>1, InLoop
  <1>5. memory' = listFreeAll(mid, c) BY <1>4 DEF DeleteFile, NameTaken, WithCells
  <1>6. Len(ch) <= Len(PdbFiles) /\ \A i \in 1..turn : TakenApart(memory, Data(memory, ch[i]))
    BY <1>1 DEF IInv, LoopInv
  <1>7. /\ \A i \in 1..Len(ch) : Data(memory, ch[i]) \in FilesOf(memory)
        /\ \A i, j \in 1..Len(ch) : i # j => Data(memory, ch[i]) # Data(memory, ch[j])
    BY <1>4, FileNodes
  <1>8. /\ c \notin SessionLists /\ Files \in DOMAIN memory.root /\ Files # c
        /\ \A f \in FilesOf(memory) : f \in DOMAIN memory.root
    BY <1>4, FilesAreNoNames DEF Addresses, SessionLists
  <1> HIDE DEF ch, c
  <1>9. /\ MemoryInv(mid, lost, Null)
        /\ FilesOf(mid) = FilesOf(memory) /\ mid.node = memory.node /\ mid.root = memory.root
        /\ \A l \in DOMAIN memory.root : Chain(mid, l) = Chain(memory, l)
        /\ Name(mid, c) = Null
        /\ \A f \in FilesOf(memory) : f # c => Name(mid, f) = Name(memory, f)
    BY <1>3, <1>4, NameFreed
  <1> HIDE DEF mid
  <1>10. /\ MemoryInv(memory', lost, Null)
         /\ Chain(memory', c) = << >>
         /\ \A l \in DOMAIN mid.root : l # c => Chain(memory', l) = Chain(mid, l)
         /\ \A f \in FilesOf(mid) : Name(memory', f) = Name(mid, f)
         /\ \A n \in DOMAIN memory'.node : Data(memory', n) = Data(mid, n)
    BY <1>4, <1>5, <1>9, LinesFreed
  <1>11. Chain(memory', Files) = ch BY <1>8, <1>9, <1>10 DEF ch
  <1>12. \A i \in 1..Len(ch) : Data(memory', ch[i]) = Data(memory, ch[i])
    <2>1. Heap(memory') /\ Addresses(memory') /\ Placed(memory') BY <1>10 DEF MemoryInv
    <2>2. \A i \in 1..Len(ch) : ch[i] \in DOMAIN memory'.node BY <1>11, <2>1, FileNodes
    <2>3. \A n : Data(mid, n) = Data(memory, n) BY <1>9 DEF Data
    <2>4. QED BY <1>10, <2>2, <2>3
  <1>13. ASSUME NEW i \in 1..turn' PROVE TakenApart(memory', Data(memory', ch[i]))
    <2>1. i \in 1..Len(ch) /\ (i = turn + 1 \/ i \in 1..turn) BY <1>1, <1>4
    <2>2. turn + 1 \in 1..Len(ch) BY <1>4
    <2> DEFINE f == Data(memory, ch[i])
    <2>3. Data(memory', ch[i]) = f /\ f \in FilesOf(memory) BY <1>7, <1>12, <2>1
    <2>4. CASE i = turn + 1
      <3>1. f = c BY <1>4, <2>4 DEF c
      <3>2. QED BY <1>4, <1>9, <1>10, <2>3, <3>1 DEF TakenApart
    <2>5. CASE i # turn + 1
      <3>1. i \in 1..turn BY <2>1, <2>5
      <3>2. TakenApart(memory, f) BY <1>6, <3>1
      <3>3. f # c
        <4>1. c = Data(memory, ch[turn + 1]) BY <1>4 DEF c
        <4>2. QED BY <1>7, <2>1, <2>2, <2>5, <4>1
      <3> HIDE DEF f
      <3>4. Chain(memory', f) = Chain(memory, f) BY <1>8, <1>9, <1>10, <2>3, <3>3
      <3>5. Name(memory', f) = Name(memory, f) BY <1>9, <1>10, <2>3, <3>3
      <3>6. TakenApart(memory', f) BY <3>2, <3>4, <3>5 DEF TakenApart
      <3>7. QED BY <2>3, <3>6
    <2>6. QED BY <2>4, <2>5
  <1>14. Control'
    <2>1. Len(PdbFiles) \in Nat BY SymbolConstantsOK
    <2>2. turn' \in 0..Len(PdbFiles) BY <1>1, <1>4, <1>6, <2>1
    <2>3. QED BY <1>1, <1>4, <2>2 DEF IInv, Control
  <1>15. LoopInv(memory)'
    <2>1. turn' <= Len(ch) /\ (turn' < Len(ch) => cur' = ch[turn' + 1])
      <3>1. turn' + 1 = turn + 2 BY <1>1, <1>4
      <3>2. QED BY <1>1, <1>4, <3>1
    <2>2. QED BY <1>1, <1>6, <1>11, <1>13, <2>1 DEF LoopInv
  <1>16. MemoryInv(memory, lost, block)' BY <1>1, <1>2, <1>10
  <1>17. QED BY <1>14, <1>15, <1>16 DEF IInv

(* and the files.                                                          *)
LEMMA DeleteFilesStep == IInv /\ DeleteFiles => IInv'
  <1> SUFFICES ASSUME IInv, DeleteFiles PROVE IInv'
    OBVIOUS
  <1> DEFINE ch  == Chain(memory, Files)
             mid == listFreeAll(memory, Files)
  <1>1. /\ pc = "delete" /\ pc' = "deleted" /\ turn = memory.root[Files].count
        /\ cur' = cur /\ turn' = turn
        /\ block' = block /\ lost' = lost /\ missing' = missing
    BY DEF DeleteFiles
  <1>2. block = Null BY <1>1 DEF IInv, Control
  <1>3. MemoryInv(memory, lost, Null) BY <1>2 DEF IInv
  <1>4. /\ Heap(memory) /\ Addresses(memory) /\ Placed(memory) /\ turn = Len(ch)
    BY <1>1, InLoop
  <1>5. \A n : On(memory, Files, n) <=> \E i \in 1..Len(ch) : n = ch[i] BY <1>4, FileNodes
  <1>6. \A i \in 1..turn : TakenApart(memory, Data(memory, ch[i]))
    BY <1>1 DEF IInv, LoopInv
  <1> HIDE DEF ch
  <1>7. \A n : On(memory, Files, n) => TakenApart(memory, Data(memory, n))
    BY <1>4, <1>5, <1>6
  <1>8. memory' = WithRoots(mid, [l \in SessionLists |-> mid.root[l]])
    BY DEF DeleteFiles, WithRoots
  <1>9. mid = listFreeAll(memory, Files) OBVIOUS
  <1> HIDE DEF mid
  <1>10. MemoryInv(memory', lost, Null) /\ Chain(memory', Files) = << >>
    BY <1>3, <1>7, <1>8, <1>9, FilesFreed
  <1>11. Control' BY <1>1 DEF IInv, Control
  <1>12. LoopInv(memory)'
    <2>1. Len(<< >>) = 0 /\ Len(PdbFiles) \in Nat BY SymbolConstantsOK
    <2>2. QED BY <1>1, <1>10, <2>1 DEF LoopInv
  <1>13. MemoryInv(memory, lost, block)' BY <1>1, <1>2, <1>10
  <1>14. QED BY <1>11, <1>12, <1>13 DEF IInv

(* Every step preserves the invariant.                                     *)
LEMMA InvStep == IInv /\ [Next]_vars => IInv'
  <1> SUFFICES ASSUME IInv, [Next]_vars PROVE IInv'
    OBVIOUS
  <1>1. CASE UNCHANGED vars
    BY <1>1 DEF vars, IInv, Control, LoopInv
  <1>2. CASE Next
    BY <1>2, LoadTableStep, SourceFileStep, ControlStep, SourceLineStep, ReadyStep,
       DeleteProcStep, DeleteFileStep, DeleteFilesStep DEF Next
  <1>3. QED BY <1>1, <1>2

(* The inductive invariant holds in every behaviour.                       *)
THEOREM Invariance == Spec => []IInv
  BY InitInv, InvStep, PTL DEF Spec

----------------------------------------------------------------------------
(* One owner of each block.                                                *)

(* Counting what there is one of, or none.                                 *)
LEMMA OneOrNone ==
  ASSUME NEW S
  PROVE  /\ S = {} => Cardinality(S) = 0
         /\ \A x : S = {x} => Cardinality(S) = 1
  BY FS_EmptySet, FS_Singleton

(* The owners of a block, by its kind.                                     *)
LEMMA OwnersOfBlock ==
  ASSUME NEW m, NEW names, NEW symbol, MemoryInv(m, names, symbol), NEW c \in DOMAIN m.cell,
         NEW N, N = {n \in DOMAIN m.node : Data(m, n) = c},
         NEW F, F = {f \in FilesOf(m) : Name(m, f) = c}
  PROVE  Cardinality(N) + Cardinality(F) + (IF c \in names \cup {symbol} THEN 1 ELSE 0) = 1
  <1>1. /\ Heap(m) /\ Addresses(m) /\ Placed(m) /\ OwnedByKind(m, names, symbol)
        /\ Names(m, names) /\ SymbolKept(m, symbol)
    BY DEF MemoryInv
  <1>2. /\ Kind(m, c) \in NodeKinds \cup {"name", "symbol"}
        /\ Kind(m, c) \in NodeKinds => \E n \in DOMAIN m.node : Data(m, n) = c
        /\ Kind(m, c) = "name" => c \in names \/ \E f \in FilesOf(m) : Name(m, f) = c
        /\ Kind(m, c) = "symbol" => c = symbol
    BY <1>1 DEF OwnedByKind
  <1>3. c # Null BY <1>1, NewAddresses
  <1>4. \A n \in N : Kind(m, c) \in NodeKinds BY <1>1, DataKinds
  <1>5. \A n, k \in N : n = k BY <1>1 DEF Heap, Data
  <1>6. \A f \in F : Kind(m, c) = "name" /\ c \notin names BY <1>1, <1>3 DEF Names
  <1>7. \A f, g \in F : f = g BY <1>1, <1>3 DEF Names
  <1>8. c \in names => Kind(m, c) = "name" BY <1>1 DEF Names
  <1>9. c = symbol => Kind(m, c) = "symbol" BY <1>1, <1>3 DEF SymbolKept
  <1>10. "name" \notin NodeKinds /\ "symbol" \notin NodeKinds BY DEF NodeKinds
  <1>11. CASE Kind(m, c) \in NodeKinds
    <2>1. PICK n \in DOMAIN m.node : Data(m, n) = c BY <1>2, <1>11
    <2>2. N = {n} BY <1>5, <2>1
    <2>3. F = {} BY <1>6, <1>10, <1>11
    <2>4. c \notin names \cup {symbol} BY <1>8, <1>9, <1>10, <1>11
    <2>5. Cardinality(N) = 1 /\ Cardinality(F) = 0 BY <2>2, <2>3, OneOrNone
    <2>6. QED BY <2>4, <2>5
  <1>12. CASE Kind(m, c) = "name"
    <2>1. N = {} BY <1>4, <1>10, <1>12
    <2>2. Cardinality(N) = 0 BY <2>1, OneOrNone
    <2>3. c # symbol BY <1>9, <1>12
    <2>4. CASE c \in names
      <3>1. F = {} BY <1>6, <2>4
      <3>2. Cardinality(F) = 0 BY <3>1, OneOrNone
      <3>3. QED BY <2>2, <2>4, <3>2
    <2>5. CASE c \notin names
      <3>1. PICK f \in FilesOf(m) : Name(m, f) = c BY <1>2, <1>12, <2>5
      <3>2. F = {f} BY <1>7, <3>1
      <3>3. Cardinality(F) = 1 BY <3>2, OneOrNone
      <3>4. QED BY <2>2, <2>3, <2>5, <3>3
    <2>6. QED BY <2>4, <2>5
  <1>13. CASE Kind(m, c) = "symbol"
    <2>1. N = {} /\ F = {} BY <1>4, <1>6, <1>10, <1>13
    <2>2. Cardinality(N) = 0 /\ Cardinality(F) = 0 BY <2>1, OneOrNone
    <2>3. c = symbol BY <1>2, <1>13
    <2>4. QED BY <2>2, <2>3
  <1>14. QED BY <1>2, <1>11, <1>12, <1>13

(* A node is on one list.                                                  *)
LEMMA OneList ==
  ASSUME NEW m, Heap(m), Placed(m), NEW n \in DOMAIN m.node,
         NEW S, S = {l \in DOMAIN m.root : On(m, l, n)}
  PROVE  Cardinality(S) = 1
  <1>1. PICK l \in DOMAIN m.root : On(m, l, n) BY DEF Placed
  <1>2. \A k \in DOMAIN m.root : On(m, k, n) => k = l BY <1>1 DEF Heap, On
  <1>3. S = {l} BY <1>1, <1>2
  <1>4. QED BY <1>3, OneOrNone

(* Every block of the heap has one owner, every node is on one list, and   *)
(* the loops over sourceFileList stay in it (pdb.c, symbol.c, session.c).  *)
THEOREM OwnersUnique == Spec => []OneOwner
  <1>1. ASSUME IInv PROVE OneOwner
    <2>1. /\ Heap(memory) /\ Addresses(memory) /\ Placed(memory)
          /\ Names(memory, lost) /\ Control /\ MemoryInv(memory, lost, block)
      BY <1>1 DEF IInv, MemoryInv
    <2>2. TypeOK
      <3>1. lost \subseteq Range(Cells) BY <2>1 DEF Names, Addresses
      <3>2. QED BY <2>1, <3>1 DEF TypeOK, Control, Addresses
    <2>3. LoopInList
      <3> SUFFICES ASSUME pc \in {"lines", "line", "delete"}, turn < memory.root[Files].count
                   PROVE  cur = NodeAt(memory, Files, turn)
        BY DEF LoopInList
      <3> DEFINE ch == Chain(memory, Files)
      <3>1. /\ Len(ch) \in Nat /\ turn \in Nat /\ memory.root[Files].count = Len(ch)
            /\ turn < Len(ch) => cur = ch[turn + 1]
        BY <1>1, InLoop
      <3>2. Holds(memory, Files, ch) BY <2>1 DEF Heap, Addresses, SessionLists
      <3> HIDE DEF ch
      <3>3. turn + 1 \in 1..Len(ch) /\ (turn + 1) - 1 = turn BY <3>1
      <3>4. NodeAt(memory, Files, turn) = ch[turn + 1] BY <3>2, <3>3, ChainOf
      <3>5. QED BY <3>1, <3>4
    <2>4. ASSUME NEW c \in DOMAIN memory.cell
          PROVE  Cardinality({n \in DOMAIN memory.node : memory.node[n].data = c})
                   + Cardinality({f \in FilesOf(memory) : memory.cell[f].name = c})
                   + (IF c \in lost \cup {block} THEN 1 ELSE 0) = 1
      <3> DEFINE N == {n \in DOMAIN memory.node : Data(memory, n) = c}
                 F == {f \in FilesOf(memory) : Name(memory, f) = c}
      <3>1. Cardinality(N) + Cardinality(F) + (IF c \in lost \cup {block} THEN 1 ELSE 0) = 1
        BY <2>1, OwnersOfBlock
      <3>2. QED BY <3>1 DEF Data, Name
    <2>5. ASSUME NEW n \in DOMAIN memory.node
          PROVE  /\ memory.node[n].data \in DOMAIN memory.cell
                 /\ Cardinality({l \in DOMAIN memory.root : n \in Range(Chain(memory, l))}) = 1
      <3> DEFINE S == {l \in DOMAIN memory.root : On(memory, l, n)}
      <3>1. Cardinality(S) = 1 BY <2>1, OneList
      <3>2. memory.node[n].data \in DOMAIN memory.cell BY <2>1 DEF Heap
      <3>3. QED BY <3>1, <3>2 DEF On
    <2>6. \A f \in FilesOf(memory) : memory.cell[f].name \in DOMAIN memory.cell \cup {Null}
      BY <2>1 DEF Names, Name
    <2>7. DOMAIN memory.root = SessionLists \cup FilesOf(memory) BY <2>1 DEF Addresses
    <2>8. FilesOf(memory) = {c \in DOMAIN memory.cell : memory.cell[c].kind = "file"}
      BY DEF FilesOf, Kind
    <2> HIDE DEF FilesOf
    <2>9. QED BY <2>2, <2>3, <2>4, <2>5, <2>6, <2>7, <2>8 DEF OneOwner
  <1>2. IInv => OneOwner BY <1>1
  <1>3. QED BY <1>2, Invariance, PTL

(* After DbgSessionDeleteProc the heap holds breakpoints and the lost      *)
(* names, and nothing else (session.c).                                    *)
THEOREM SymbolsReleased == Spec => []AllReleased
  <1>1. ASSUME IInv, pc = "deleted"
        PROVE  LET nodes == Range(Chain(memory, Bps))
               IN /\ DOMAIN memory.node = nodes
                  /\ DOMAIN memory.cell = lost \cup {memory.node[n].data : n \in nodes}
    <2> DEFINE nodes == Range(Chain(memory, Bps))
    <2>1. /\ Heap(memory) /\ Addresses(memory) /\ Placed(memory)
          /\ OwnedByKind(memory, lost, block) /\ Names(memory, lost)
      BY <1>1 DEF IInv, MemoryInv
    <2>2. block = Null /\ Chain(memory, Files) = << >> BY <1>1 DEF IInv, Control, LoopInv
    <2>3. FilesOf(memory) = {}
      <3> SUFFICES ASSUME NEW f \in FilesOf(memory) PROVE FALSE OBVIOUS
      <3>1. PICK n \in DOMAIN memory.node : On(memory, Files, n) BY <2>1, FilesListed
      <3>2. QED BY <2>2, <3>1 DEF On, Range
    <2>4. DOMAIN memory.root = SessionLists /\ Bps \in SessionLists
      BY <2>1, <2>3 DEF Addresses, SessionLists
    <2>5. \A n : n \in nodes <=> On(memory, Bps, n) BY DEF On
    <2>6. \A l \in SessionLists : l # Bps => Chain(memory, l) = << >>
      BY <2>1, <2>2 DEF Placed
    <2>7. \A l \in SessionLists : \A n : On(memory, l, n) => l = Bps
      BY <2>6 DEF On, Range
    <2>8. nodes \subseteq DOMAIN memory.node BY <2>1, <2>4, HeapChain
    <2> HIDE DEF nodes
    <2>9. \A n \in DOMAIN memory.node : n \in nodes BY <2>1, <2>4, <2>5, <2>7 DEF Placed
    <2>10. Null \notin DOMAIN memory.cell BY <2>1, NewAddresses
    <2>11. ASSUME NEW c \in DOMAIN memory.cell
           PROVE  c \in lost \/ \E n \in nodes : Data(memory, n) = c
      <3>1. /\ Kind(memory, c) \in NodeKinds \cup {"name", "symbol"}
            /\ Kind(memory, c) \in NodeKinds => \E n \in DOMAIN memory.node : Data(memory, n) = c
            /\ Kind(memory, c) = "name" => c \in lost \/ \E f \in FilesOf(memory) : Name(memory, f) = c
            /\ Kind(memory, c) = "symbol" => c = block
        BY <2>1 DEF OwnedByKind
      <3>2. QED BY <2>2, <2>3, <2>9, <2>10, <3>1
    <2>12. lost \subseteq DOMAIN memory.cell BY <2>1 DEF Names
    <2>13. \A n \in nodes : memory.node[n].data \in DOMAIN memory.cell BY <2>1, <2>8 DEF Heap
    <2>14. DOMAIN memory.cell = lost \cup {memory.node[n].data : n \in nodes}
      BY <2>11, <2>12, <2>13 DEF Data
    <2>15. DOMAIN memory.node = nodes BY <2>8, <2>9
    <2>16. QED BY <2>14, <2>15 DEF nodes
  <1>2. IInv => AllReleased BY <1>1 DEF AllReleased
  <1>3. QED BY <1>2, Invariance, PTL

----------------------------------------------------------------------------
(* What is loaded of what the PDB has.                                     *)

(* Of the elements of t, s was kept so far and rest is still to come; some *)
(* are missing only if a call failed.                                      *)
Kept(s, rest, t, lossy) ==
  /\ s \in Seq(Range(t)) /\ rest \in Seq(Range(t)) /\ t \in Seq(Range(t))
  /\ Embeds(s \o rest, t)
  /\ lossy \/ s \o rest = t

(* Nothing was kept yet, and all is to come.                               *)
LEMMA KeptNone ==
  ASSUME NEW T, NEW t \in Seq(T), NEW lossy
  PROVE  Kept(<< >>, t, t, lossy)
  <1> DEFINE R == Range(t)
  <1>1. t \in Seq(R)
    <2>1. \A i \in 1..Len(t) : t[i] \in R BY DEF Range
    <2> HIDE DEF R
    <2>2. QED BY <2>1
  <1>2. << >> \in Seq(R) /\ << >> \o t = t OBVIOUS
  <1>3. Embeds(t, t) BY EmbedsSelf
  <1>4. QED BY <1>1, <1>2, <1>3 DEF Kept

(* A call failed, and nothing is to come.                                  *)
LEMMA KeptNothing ==
  ASSUME NEW T, NEW t \in Seq(T)
  PROVE  Kept(<< >>, << >>, t, TRUE)
  <1>1. Kept(<< >>, t, t, TRUE) BY KeptNone
  <1>2. SubSeq(t, 1, 0) = << >> /\ 0 \in 0..Len(t) OBVIOUS
  <1>3. Embeds(<< >>, t) BY <1>2, EmbedsBegin
  <1>4. << >> \o << >> = << >> /\ << >> \in Seq(Range(t)) OBVIOUS
  <1>5. QED BY <1>1, <1>3, <1>4 DEF Kept

(* The next element is kept.                                               *)
LEMMA KeptNext ==
  ASSUME NEW s, NEW rest, NEW t, NEW lossy, Kept(s, rest, t, lossy), rest # << >>
  PROVE  Kept(Append(s, Head(rest)), Tail(rest), t, lossy) /\ Head(rest) \in Range(t)
  <1> DEFINE R == Range(t)
  <1>1. s \in Seq(R) /\ rest \in Seq(R) BY DEF Kept
  <1> HIDE DEF R
  <1>2. /\ Head(rest) \in R /\ Append(s, Head(rest)) \in Seq(R) /\ Tail(rest) \in Seq(R)
        /\ Append(s, Head(rest)) \o Tail(rest) = s \o rest
    BY <1>1
  <1>3. QED BY <1>2 DEF Kept, R

(* The next element is lost.                                               *)
LEMMA KeptLess ==
  ASSUME NEW s, NEW rest, NEW t, NEW lossy, Kept(s, rest, t, lossy), rest # << >>
  PROVE  Kept(s, Tail(rest), t, TRUE)
  <1> DEFINE R == Range(t)
             tail == Tail(rest)
             one == <<Head(rest)>>
  <1>1. s \in Seq(R) /\ rest \in Seq(R) /\ t \in Seq(R) BY DEF Kept
  <1> HIDE DEF R
  <1>2. tail \in Seq(R) /\ one \in Seq(R) /\ one \o tail = rest BY <1>1
  <1>3. Embeds(s, s) /\ Embeds(tail, tail) BY <1>1, <1>2, EmbedsSelf
  <1>4. Embeds(<< >>, one)
    <2>1. 0 \in 0..Len(one) /\ SubSeq(one, 1, 0) = << >> BY <1>2
    <2> HIDE DEF one
    <2>2. QED BY <1>2, <2>1, EmbedsBegin
  <1> HIDE DEF tail, one
  <1>5. Embeds(tail, rest)
    <2>1. << >> \in Seq(R) /\ << >> \o tail = tail BY <1>2
    <2>2. Embeds(<< >> \o tail, one \o tail) BY <1>2, <1>3, <1>4, <2>1, EmbedsConcat
    <2>3. QED BY <1>2, <2>1, <2>2
  <1>6. Embeds(s \o tail, s \o rest) BY <1>1, <1>2, <1>3, <1>5, EmbedsConcat
  <1> DEFINE less == s \o tail
             more == s \o rest
  <1>7. less \in Seq(R) /\ more \in Seq(R) BY <1>1, <1>2
  <1>8. Embeds(more, t) BY DEF Kept
  <1>9. Embeds(less, more) BY <1>6
  <1> HIDE DEF less, more
  <1>10. Embeds(less, t) BY <1>1, <1>7, <1>8, <1>9, EmbedsThrough
  <1>11. QED BY <1>1, <1>2, <1>10 DEF Kept, R, less, tail

(* Another call failed.                                                    *)
LEMMA KeptStill ==
  ASSUME NEW s, NEW rest, NEW t, NEW lossy, NEW more, lossy => more, Kept(s, rest, t, lossy)
  PROVE  Kept(s, rest, t, more)
  BY DEF Kept

(* Nothing more is to come.                                                *)
LEMMA KeptAll ==
  ASSUME NEW s, NEW t, NEW lossy, Kept(s, << >>, t, lossy)
  PROVE  InOrder(s, t) /\ (~lossy => s = t)
  <1> DEFINE R == Range(t)
  <1>1. s \in Seq(R) /\ t \in Seq(R) BY DEF Kept
  <1> HIDE DEF R
  <1>2. s \o << >> = s BY <1>1
  <1>3. Embeds(s, t) /\ (~lossy => s = t) BY <1>2 DEF Kept
  <1>4. QED BY <1>1, <1>3, EmbedsInOrder

(* A file of sourceFileList and its lines; the list as FileLists shows it. *)
Entry(m, c) == [of |-> m.cell[c].of, lines |-> Stored(m, Chain(m, c))]

View(m) ==
  LET ch == Chain(m, Files)
  IN [i \in 1..Len(ch) |-> Entry(m, Data(m, ch[i]))]

(* A file is shown alike after a step that lets its block and its lines be.*)
LEMMA EntrySame ==
  ASSUME NEW m, Heap(m), Addresses(m), NEW f \in FilesOf(m), NEW mm,
         Chain(mm, f) = Chain(m, f), mm.cell[f] = m.cell[f],
         \A x \in DOMAIN m.node :
            Data(mm, x) = Data(m, x) /\ mm.cell[Data(m, x)] = m.cell[Data(m, x)]
  PROVE  Entry(mm, f) = Entry(m, f)
  <1>1. f \in DOMAIN m.root BY DEF Addresses
  <1>2. Range(Chain(m, f)) \subseteq DOMAIN m.node BY <1>1, HeapChain
  <1>3. \A x \in Range(Chain(m, f)) :
          mm.node[x].data = m.node[x].data /\ mm.cell[m.node[x].data] = m.cell[m.node[x].data]
    BY <1>2 DEF Data
  <1>4. Stored(mm, Chain(m, f)) = Stored(m, Chain(m, f)) BY <1>1, <1>3, StoredSame
  <1>5. QED BY <1>4 DEF Entry

(* So is the list, if that is true of all its files.                       *)
LEMMA ViewSame ==
  ASSUME NEW m, Heap(m), Addresses(m), Placed(m), NEW mm,
         Chain(mm, Files) = Chain(m, Files),
         \A f \in FilesOf(m) : Chain(mm, f) = Chain(m, f),
         \A x \in DOMAIN m.node :
            Data(mm, x) = Data(m, x) /\ mm.cell[Data(m, x)] = m.cell[Data(m, x)]
  PROVE  View(mm) = View(m)
  <1> DEFINE ch == Chain(m, Files)
  <1>1. /\ Len(ch) \in Nat
        /\ \A i \in 1..Len(ch) : ch[i] \in DOMAIN m.node /\ Data(m, ch[i]) \in FilesOf(m)
    BY FileNodes
  <1> HIDE DEF ch
  <1>2. ASSUME NEW i \in 1..Len(ch)
        PROVE  Entry(mm, Data(mm, ch[i])) = Entry(m, Data(m, ch[i]))
    <2>1. Data(m, ch[i]) \in FilesOf(m) /\ Data(mm, ch[i]) = Data(m, ch[i])
          /\ mm.cell[Data(m, ch[i])] = m.cell[Data(m, ch[i])]
      BY <1>1
    <2> DEFINE f == Data(m, ch[i])
    <2>2. f \in FilesOf(m) /\ Chain(mm, f) = Chain(m, f) /\ mm.cell[f] = m.cell[f] BY <2>1
    <2> HIDE DEF f
    <2>3. Entry(mm, f) = Entry(m, f) BY <2>2, EntrySame
    <2>4. QED BY <2>1, <2>3 DEF f
  <1>3. View(m) = [i \in 1..Len(ch) |-> Entry(m, Data(m, ch[i]))] BY DEF View, ch
  <1>4. View(mm) = [i \in 1..Len(ch) |-> Entry(mm, Data(mm, ch[i]))] BY DEF View, ch
  <1>5. QED BY <1>2, <1>3, <1>4

(* Blocks that are no node's data do not show.                             *)
LEMMA ViewNewBlock ==
  ASSUME NEW m, Heap(m), Addresses(m), Placed(m), NEW c, c \notin DOMAIN m.cell, NEW v,
         NEW mm, mm = NewBlock(m, c, v)
  PROVE  View(mm) = View(m)
  <1>1. /\ mm.node = m.node
        /\ \A l \in DOMAIN m.root : Chain(mm, l) = Chain(m, l)
        /\ \A x \in DOMAIN m.cell : mm.cell[x] = m.cell[x]
    BY BlockAllocated
  <1>2. Files \in DOMAIN m.root /\ FilesOf(m) \subseteq DOMAIN m.root
    BY DEF Addresses, SessionLists
  <1>3. \A x \in DOMAIN m.node : Data(m, x) \in DOMAIN m.cell /\ Data(mm, x) = Data(m, x)
    BY <1>1 DEF Heap, Data
  <1>4. QED BY <1>1, <1>2, <1>3, ViewSame

LEMMA ViewFreeBlock ==
  ASSUME NEW m, Heap(m), Addresses(m), Placed(m), NEW c, \A n \in DOMAIN m.node : Data(m, n) # c,
         NEW mm, mm = FreeBlock(m, c)
  PROVE  View(mm) = View(m)
  <1>1. /\ mm.node = m.node
        /\ \A l \in DOMAIN m.root : Chain(mm, l) = Chain(m, l)
        /\ \A x \in DOMAIN m.cell : x # c => mm.cell[x] = m.cell[x]
    BY BlockFreed
  <1>2. Files \in DOMAIN m.root /\ FilesOf(m) \subseteq DOMAIN m.root
    BY DEF Addresses, SessionLists
  <1>3. \A x \in DOMAIN m.node : Data(m, x) \in DOMAIN m.cell /\ Data(mm, x) = Data(m, x)
    BY <1>1 DEF Heap, Data
  <1>4. QED BY <1>1, <1>2, <1>3, ViewSame

(* Nor do breakpoints.                                                     *)
LEMMA ViewBreakpoint ==
  ASSUME NEW m, Heap(m), Addresses(m), Placed(m),
         NEW n, n \notin DOMAIN m.node \cup {Null}, NEW c, c \notin DOMAIN m.cell,
         NEW data, NEW mm, mm = listAddElement(m, Bps, n, c, data)
  PROVE  View(mm) = View(m)
  <1>1. /\ Files \in DOMAIN m.root /\ FilesOf(m) \subseteq DOMAIN m.root
        /\ Bps \in DOMAIN m.root /\ Bps \notin FilesOf(m) /\ Bps # Files
    BY FilesAreNoNames DEF Addresses, SessionLists, Files, Bps
  <1>2. /\ \A k \in DOMAIN m.root : k # Bps => Chain(mm, k) = Chain(m, k)
        /\ \A x \in DOMAIN m.cell : mm.cell[x] = m.cell[x]
        /\ \A x \in DOMAIN m.node : Data(mm, x) = Data(m, x) /\ Data(m, x) \in DOMAIN m.cell
    BY <1>1, Added
  <1>3. QED BY <1>1, <1>2, ViewSame

(* The list with one more file.                                            *)
LEMMA ViewLonger ==
  ASSUME NEW m, Heap(m), Addresses(m), Placed(m), NEW mm, NEW n, NEW c, NEW of,
         Chain(mm, Files) = Append(Chain(m, Files), n),
         Data(mm, n) = c, mm.cell[c].of = of, Chain(mm, c) = << >>,
         \A f \in FilesOf(m) : Chain(mm, f) = Chain(m, f),
         \A x \in DOMAIN m.node :
            Data(mm, x) = Data(m, x) /\ mm.cell[Data(m, x)] = m.cell[Data(m, x)]
  PROVE  /\ Len(View(mm)) = Len(View(m)) + 1
         /\ DOMAIN View(mm) = 1..(Len(View(m)) + 1) /\ DOMAIN View(m) = 1..Len(View(m))
         /\ Len(View(m)) \in Nat
         /\ \A i \in 1..Len(View(m)) : View(mm)[i] = View(m)[i]
         /\ View(mm)[Len(View(m)) + 1] = [of |-> of, lines |-> << >>]
  <1> DEFINE ch == Chain(m, Files)
             longer == Append(ch, n)
  <1>1. /\ Len(ch) \in Nat
        /\ \A i \in 1..Len(ch) : ch[i] \in DOMAIN m.node /\ Data(m, ch[i]) \in FilesOf(m)
    BY FileNodes
  <1>2. ch \in Seq(DOMAIN m.node)
    <2>1. Files \in DOMAIN m.root BY DEF Addresses, SessionLists
    <2>2. QED BY <2>1, HeapChain DEF Holds
  <1> HIDE DEF ch
  <1>3. /\ Len(longer) = Len(ch) + 1 /\ longer[Len(ch) + 1] = n
        /\ \A i \in 1..Len(ch) : longer[i] = ch[i]
    BY <1>2, AppendProperties
  <1>4. Chain(mm, Files) = longer BY DEF ch
  <1> HIDE DEF longer
  <1>5. View(m) = [i \in 1..Len(ch) |-> Entry(m, Data(m, ch[i]))] BY DEF View, ch
  <1>6. View(mm) = [i \in 1..(Len(ch) + 1) |-> Entry(mm, Data(mm, longer[i]))]
    BY <1>3, <1>4 DEF View
  <1>7. Len(View(m)) = Len(ch) /\ Len(View(mm)) = Len(ch) + 1
    BY <1>1, <1>5, <1>6
  <1>8. ASSUME NEW i \in 1..Len(ch) PROVE View(mm)[i] = View(m)[i]
    <2>1. Data(m, ch[i]) \in FilesOf(m) /\ Data(mm, ch[i]) = Data(m, ch[i])
          /\ mm.cell[Data(m, ch[i])] = m.cell[Data(m, ch[i])] /\ longer[i] = ch[i]
      BY <1>1, <1>3
    <2> DEFINE f == Data(m, ch[i])
    <2>2. f \in FilesOf(m) /\ Chain(mm, f) = Chain(m, f) /\ mm.cell[f] = m.cell[f] BY <2>1
    <2> HIDE DEF f
    <2>3. Entry(mm, f) = Entry(m, f) BY <2>2, EntrySame
    <2>4. i \in 1..(Len(ch) + 1) BY <1>1
    <2>5. QED BY <1>5, <1>6, <2>1, <2>3, <2>4 DEF f
  <1>9. View(mm)[Len(ch) + 1] = [of |-> of, lines |-> << >>]
    <2>1. Len(ch) + 1 \in 1..(Len(ch) + 1) BY <1>1
    <2>2. View(mm)[Len(ch) + 1] = Entry(mm, c) BY <1>3, <1>6, <2>1
    <2>3. Stored(mm, << >>) = << >> BY DEF Stored
    <2>4. QED BY <2>2, <2>3 DEF Entry
  <1>10. DOMAIN View(mm) = 1..(Len(ch) + 1) /\ DOMAIN View(m) = 1..Len(ch) BY <1>5, <1>6
  <1>11. QED BY <1>1, <1>7, <1>8, <1>9, <1>10

(* The list with one more line of its j-th file.                           *)
IsFile(m, j, l) == j \in 1..Len(Chain(m, Files)) /\ l = Data(m, Chain(m, Files)[j])

OneLineMore(v, w, j, line) ==
  /\ Len(v) \in Nat /\ DOMAIN w = 1..Len(v) /\ Len(w) = Len(v)
  /\ \A i \in 1..Len(v) : i # j => w[i] = v[i]
  /\ w[j] = [of |-> v[j].of, lines |-> Append(v[j].lines, line)]

LEMMA ViewOfLine ==
  ASSUME NEW m, Heap(m), Addresses(m), Placed(m),
         NEW j, NEW l, IsFile(m, j, l),
         NEW n, n \notin DOMAIN m.node \cup {Null}, NEW c, c \notin DOMAIN m.cell,
         NEW data, NEW mm, mm = listAddElement(m, l, n, c, data)
  PROVE  OneLineMore(View(m), View(mm), j, data)
  <1> DEFINE ch == Chain(m, Files)
  <1>1. /\ Len(ch) \in Nat
        /\ \A i \in 1..Len(ch) : ch[i] \in DOMAIN m.node /\ Data(m, ch[i]) \in FilesOf(m)
        /\ \A i, k \in 1..Len(ch) : i # k => Data(m, ch[i]) # Data(m, ch[k])
    BY FileNodes
  <1>2. l = Data(m, ch[j]) /\ j \in 1..Len(ch) BY DEF IsFile
  <1> HIDE DEF ch
  <1>3. l \in FilesOf(m) /\ l \in DOMAIN m.root /\ l # Files /\ Files \in DOMAIN m.root
    <2>1. l \in FilesOf(m) BY <1>1, <1>2
    <2>2. QED BY <2>1, FilesAreNoNames DEF Addresses, SessionLists
  <1>4. /\ \A k \in DOMAIN m.root : k # l => Chain(mm, k) = Chain(m, k)
        /\ \A x \in DOMAIN m.cell : mm.cell[x] = m.cell[x]
        /\ \A x \in DOMAIN m.node : Data(mm, x) = Data(m, x) /\ Data(m, x) \in DOMAIN m.cell
    BY <1>3, Added
  <1>5. Stored(mm, Chain(mm, l)) = Append(Stored(m, Chain(m, l)), data)
    BY <1>3, AddStores
  <1>6. Chain(mm, Files) = ch BY <1>3, <1>4 DEF ch
  <1>7. View(m) = [i \in 1..Len(ch) |-> Entry(m, Data(m, ch[i]))] BY DEF View, ch
  <1>8. View(mm) = [i \in 1..Len(ch) |-> Entry(mm, Data(mm, ch[i]))] BY <1>6 DEF View
  <1>9. Len(View(m)) = Len(ch) /\ Len(View(mm)) = Len(ch) BY <1>1, <1>7, <1>8
  <1>10. ASSUME NEW i \in 1..Len(ch), i # j PROVE View(mm)[i] = View(m)[i]
    <2> DEFINE f == Data(m, ch[i])
    <2>1. f \in FilesOf(m) /\ f # l /\ Data(mm, ch[i]) = f /\ ch[i] \in DOMAIN m.node
      BY <1>1, <1>2, <1>4, <1>10
    <2>2. f \in DOMAIN m.root /\ f \in DOMAIN m.cell BY <2>1 DEF Addresses, FilesOf
    <2> HIDE DEF f
    <2>3. Chain(mm, f) = Chain(m, f) /\ mm.cell[f] = m.cell[f] BY <1>4, <2>1, <2>2
    <2>4. Entry(mm, f) = Entry(m, f) BY <1>4, <2>1, <2>3, EntrySame
    <2>5. QED BY <1>7, <1>8, <2>1, <2>4 DEF f
  <1>11. View(mm)[j] = [of |-> View(m)[j].of, lines |-> Append(View(m)[j].lines, data)]
    <2>1. View(mm)[j] = Entry(mm, l) /\ View(m)[j] = Entry(m, l)
      BY <1>1, <1>2, <1>4, <1>7, <1>8
    <2>2. mm.cell[l] = m.cell[l] BY <1>3, <1>4 DEF FilesOf
    <2>3. QED BY <1>5, <2>1, <2>2 DEF Entry
  <1>12. DOMAIN View(mm) = 1..Len(ch) /\ DOMAIN View(m) = 1..Len(ch) BY <1>7, <1>8
  <1>13. QED BY <1>1, <1>9, <1>10, <1>11, <1>12 DEF OneLineMore

LineRecords == [kind : {"line"}, of : Range(PdbFiles), no : Nat]
FileRecords == [of : Range(PdbFiles), lines : Seq(LineRecords)]

Ofs(v)     == [i \in 1..Len(v) |-> v[i].of]
Nos(lines) == [k \in 1..Len(lines) |-> lines[k].no]

(* A file has lines of its own only, and those that were reported.         *)
LinesKept(file, rest, lossy) ==
  /\ \A k \in 1..Len(file.lines) : file.lines[k].of = file.of
  /\ Kept(Nos(file.lines), rest, PdbLines[file.of], lossy)

(* At the place p, after n turns of the loop that loads lines: is the i-th *)
(* file done with, or at hand?                                             *)
Done(p, n, i)  == p \in {"ready", "lookup"} \/ (p \in {"lines", "line"} /\ i <= n)
Going(p, n, i) == p = "line" /\ i = n + 1

(* What the list has of the PDB while its symbols are loaded, and then.    *)
Loads(v, p, rest, n, lossy) ==
  p \in Loading \cup {"ready", "lookup"} =>
    /\ v \in Seq(FileRecords)
    /\ Kept(Ofs(v), IF p = "files" THEN rest ELSE << >>, PdbFiles, lossy)
    /\ \A i \in 1..Len(v) :
         /\ Done(p, n, i) => LinesKept(v[i], << >>, lossy)
         /\ Going(p, n, i) => LinesKept(v[i], rest, lossy)
         /\ ~Done(p, n, i) /\ ~Going(p, n, i) => v[i].lines = << >>

ReportInv == Loads(View(memory), pc, report, turn, missing)

(* What a sequence with one more element is.                               *)
Continues(t, s, e) ==
  /\ t = [i \in 1..(Len(s) + 1) |-> t[i]]
  /\ \A i \in 1..Len(s) : t[i] = s[i]
  /\ t[Len(s) + 1] = e

LEMMA OneMore ==
  ASSUME NEW T, NEW s \in Seq(T), NEW e \in T, NEW t, Continues(t, s, e)
  PROVE  t = Append(s, e)
  <1> DEFINE len == Len(s)
  <1>0. /\ t = [i \in 1..(len + 1) |-> t[i]]
        /\ \A i \in 1..len : t[i] = s[i]
        /\ t[len + 1] = e
    BY DEF Continues
  <1>1. len \in Nat /\ \A i \in 1..len : s[i] \in T OBVIOUS
  <1>2. ASSUME NEW i \in 1..(len + 1) PROVE i \in 1..len \/ i = len + 1 BY <1>1
  <1>3. \A i \in 1..(len + 1) : t[i] \in T BY <1>0, <1>1, <1>2
  <1>4. len + 1 \in Nat BY <1>1
  <1>5. t \in Seq(T) /\ Len(t) = len + 1
    <2> DEFINE next == len + 1
    <2>1. next \in Nat /\ t = [i \in 1..next |-> t[i]] /\ \A i \in 1..next : t[i] \in T
      BY <1>0, <1>3, <1>4
    <2> HIDE DEF next
    <2>2. t \in [1..next -> T] BY <2>1
    <2>3. t \in Seq(T) BY <2>1, <2>2, SeqDef
    <2>4. Len(t) = next BY <2>1, <2>2, <2>3
    <2>5. QED BY <2>3, <2>4 DEF next
  <1>6. /\ Append(s, e) \in Seq(T) /\ Len(Append(s, e)) = len + 1
        /\ \A i \in 1..len : Append(s, e)[i] = s[i]
        /\ Append(s, e)[len + 1] = e
    BY AppendProperties
  <1>7. ASSUME NEW i \in 1..(len + 1) PROVE t[i] = Append(s, e)[i] BY <1>0, <1>2, <1>6
  <1>8. QED BY <1>5, <1>6, <1>7, SeqEqual

(* A longer list has the files and the numbers of the shorter, and one     *)
(* more.                                                                   *)
LEMMA OfsAppend ==
  ASSUME NEW T, NEW v, Ofs(v) \in Seq(T), Len(v) \in Nat,
         NEW w, Len(w) = Len(v) + 1, \A i \in 1..Len(v) : w[i] = v[i],
         NEW e \in T, w[Len(v) + 1].of = e
  PROVE  Ofs(w) = Append(Ofs(v), e)
  <1> DEFINE s == Ofs(v)
             t == Ofs(w)
             len == Len(v)
  <1>1. s = [i \in 1..len |-> s[i]] /\ \A i \in 1..len : s[i] = v[i].of
    BY DEF Ofs
  <1>2. t = [i \in 1..(len + 1) |-> t[i]] /\ \A i \in 1..(len + 1) : t[i] = w[i].of BY DEF Ofs
  <1>3. len \in Nat /\ len + 1 \in 1..(len + 1) /\ \A i \in 1..len : i \in 1..(len + 1)
    OBVIOUS
  <1>4. t[len + 1] = e /\ \A i \in 1..len : t[i] = s[i] BY <1>1, <1>2, <1>3
  <1>5. s \in Seq(T) OBVIOUS
  <1> HIDE DEF s, t, len
  <1>6. len = Len(s) BY <1>1, <1>3, <1>5
  <1>7. Continues(t, s, e) BY <1>2, <1>4, <1>6 DEF Continues
  <1>8. t = Append(s, e) BY <1>5, <1>7, OneMore
  <1>9. QED BY <1>8 DEF s, t

LEMMA NosAppend ==
  ASSUME NEW lines \in Seq(LineRecords), NEW line \in LineRecords
  PROVE  Nos(Append(lines, line)) = Append(Nos(lines), line.no)
  <1> DEFINE len == Len(lines)
             more == Append(lines, line)
             s == Nos(lines)
             t == Nos(more)
             e == line.no
  <1>1. /\ len \in Nat /\ Len(more) = len + 1
        /\ more[len + 1] = line /\ \A i \in 1..len : more[i] = lines[i]
        /\ \A i \in 1..len : lines[i] \in LineRecords
    BY AppendProperties
  <1>2. e \in Nat /\ \A i \in 1..len : lines[i].no \in Nat BY <1>1 DEF LineRecords
  <1> HIDE DEF more
  <1>3. s = [i \in 1..len |-> s[i]] /\ \A i \in 1..len : s[i] = lines[i].no BY DEF Nos
  <1>4. t = [i \in 1..(len + 1) |-> t[i]] /\ \A i \in 1..(len + 1) : t[i] = more[i].no
    BY <1>1 DEF Nos
  <1>5. len + 1 \in 1..(len + 1) /\ \A i \in 1..len : i \in 1..(len + 1) BY <1>1
  <1>6. t[len + 1] = e /\ \A i \in 1..len : t[i] = s[i] BY <1>1, <1>3, <1>4, <1>5
  <1>7. \A i \in 1..len : s[i] \in Nat BY <1>2, <1>3
  <1> HIDE DEF s, t, e, len
  <1>8. s \in Seq(Nat) /\ len = Len(s) BY <1>1, <1>3, <1>7
  <1>9. Continues(t, s, e) BY <1>4, <1>6, <1>8 DEF Continues
  <1>10. t = Append(s, e) BY <1>2, <1>8, <1>9, OneMore
  <1>11. QED BY <1>10 DEF s, t, e, more

(* What was kept is no less than before when another call fails.           *)
LEMMA LinesStill ==
  ASSUME NEW file, NEW rest, NEW lossy, NEW more, lossy => more, LinesKept(file, rest, lossy)
  PROVE  LinesKept(file, rest, more)
  BY KeptStill DEF LinesKept

(* The enumeration of files begins.                                        *)
LEMMA LoadsFirst ==
  ASSUME NEW rest, NEW n, NEW lossy, rest = PdbFiles \/ rest = << >>, rest # PdbFiles => lossy
  PROVE  Loads(<< >>, "files", rest, n, lossy)
  <1>1. PdbFiles \in Seq(Range(PdbFiles)) BY SymbolConstantsOK
  <1>2. Kept(<< >>, rest, PdbFiles, lossy)
    <2>1. CASE rest = PdbFiles BY <1>1, <2>1, KeptNone
    <2>2. CASE rest = << >> /\ rest # PdbFiles
      <3>1. Kept(<< >>, << >>, PdbFiles, TRUE) BY <1>1, KeptNothing
      <3>2. QED BY <2>2, <3>1 DEF Kept
    <2>3. QED BY <2>1, <2>2
  <1>3. Ofs(<< >>) = << >> /\ 1..Len(<< >>) = {} /\ << >> \in Seq(FileRecords) BY DEF Ofs
  <1>4. Kept(Ofs(<< >>), rest, PdbFiles, lossy) BY <1>2, <1>3
  <1>5. QED BY <1>3, <1>4 DEF Loads

(* No PDB was found: no symbols.                                           *)
LEMMA LoadsNothing ==
  ASSUME NEW rest, NEW n PROVE Loads(<< >>, "ready", rest, n, TRUE)
  <1>1. PdbFiles \in Seq(Range(PdbFiles)) BY SymbolConstantsOK
  <1>2. Kept(<< >>, << >>, PdbFiles, TRUE) BY <1>1, KeptNothing
  <1>3. Ofs(<< >>) = << >> /\ 1..Len(<< >>) = {} /\ << >> \in Seq(FileRecords) BY DEF Ofs
  <1>4. Kept(Ofs(<< >>), << >>, PdbFiles, TRUE) BY <1>2, <1>3
  <1>5. QED BY <1>3, <1>4 DEF Loads

(* A file was reported and is on the list.                                 *)
LEMMA LoadsFile ==
  ASSUME NEW v, NEW rest, NEW n, NEW lossy, Loads(v, "files", rest, n, lossy), rest # << >>,
         NEW w, Len(w) = Len(v) + 1, DOMAIN w = 1..(Len(v) + 1), w = [i \in DOMAIN w |-> w[i]],
         \A i \in 1..Len(v) : w[i] = v[i],
         w[Len(v) + 1] = [of |-> Head(rest), lines |-> << >>]
  PROVE  Loads(w, "files", Tail(rest), n, lossy)
  <1> DEFINE len == Len(v)
             new == [of |-> Head(rest), lines |-> << >>]
             R == Range(PdbFiles)
  <1>1. /\ v \in Seq(FileRecords) /\ Kept(Ofs(v), rest, PdbFiles, lossy)
        /\ \A i \in 1..len : v[i].lines = << >>
    BY DEF Loads, Loading, Done, Going
  <1>2. Head(rest) \in R /\ Kept(Append(Ofs(v), Head(rest)), Tail(rest), PdbFiles, lossy)
    BY <1>1, KeptNext
  <1>3. new \in FileRecords /\ new.of = Head(rest) /\ new.lines = << >> BY <1>2 DEF FileRecords
  <1>4. Continues(w, v, new) BY DEF Continues
  <1>5. Ofs(v) \in Seq(R) /\ len \in Nat BY <1>1 DEF Kept
  <1>6. w[len + 1].of = Head(rest) /\ \A i \in 1..len : w[i] = v[i] BY <1>3
  <1>7. Ofs(w) = Append(Ofs(v), Head(rest)) BY <1>2, <1>5, <1>6, OfsAppend
  <1> HIDE DEF new
  <1>8. w = Append(v, new) BY <1>1, <1>3, <1>4, OneMore
  <1>9. w \in Seq(FileRecords) BY <1>1, <1>3, <1>8, AppendProperties
  <1>10. \A i \in 1..Len(w) : w[i].lines = << >>
    <2>1. ASSUME NEW i \in 1..Len(w) PROVE i \in 1..len \/ i = len + 1 BY <1>5
    <2>2. w[len + 1].lines = << >> BY <1>3 DEF new
    <2>3. QED BY <1>1, <1>6, <2>1, <2>2
  <1>11. QED BY <1>2, <1>7, <1>9, <1>10 DEF Loads, Loading, Done, Going

(* It is not on the list.                                                  *)
LEMMA LoadsFileLost ==
  ASSUME NEW v, NEW rest, NEW n, NEW lossy, Loads(v, "files", rest, n, lossy), rest # << >>
  PROVE  Loads(v, "files", Tail(rest), n, TRUE)
  <1>1. /\ v \in Seq(FileRecords) /\ Kept(Ofs(v), rest, PdbFiles, lossy)
        /\ \A i \in 1..Len(v) : v[i].lines = << >>
    BY DEF Loads, Loading, Done, Going
  <1>2. Kept(Ofs(v), Tail(rest), PdbFiles, TRUE) BY <1>1, KeptLess
  <1>3. QED BY <1>1, <1>2 DEF Loads, Loading, Done, Going

(* The loop over the files begins,                                         *)
LEMMA LoadsLoop ==
  ASSUME NEW v, NEW n, NEW lossy, Loads(v, "files", << >>, n, lossy)
  PROVE  Loads(v, "lines", << >>, 0, lossy)
  <1>1. /\ v \in Seq(FileRecords) /\ Kept(Ofs(v), << >>, PdbFiles, lossy)
        /\ \A i \in 1..Len(v) : v[i].lines = << >>
    BY DEF Loads, Loading, Done, Going
  <1>2. \A i \in 1..Len(v) : ~Done("lines", 0, i) /\ ~Going("lines", 0, i) BY DEF Done, Going
  <1>3. QED BY <1>1, <1>2 DEF Loads, Loading

(* asks for the lines of a file,                                           *)
LEMMA LoadsAsked ==
  ASSUME NEW v, NEW n \in Nat, n < Len(v), NEW before, NEW lossy, NEW more,
         Loads(v, "lines", before, n, lossy), lossy => more,
         NEW rest, rest = PdbLines[v[n + 1].of] \/ rest = << >>,
         rest # PdbLines[v[n + 1].of] => more
  PROVE  Loads(v, "line", rest, n, more)
  <1>1. v \in Seq(FileRecords) /\ Kept(Ofs(v), << >>, PdbFiles, lossy)
    BY DEF Loads, Loading
  <1>2. Kept(Ofs(v), << >>, PdbFiles, more) BY <1>1, KeptStill
  <1>3. ASSUME NEW i \in 1..Len(v)
        PROVE  /\ Done("line", n, i) => LinesKept(v[i], << >>, more)
               /\ Going("line", n, i) => LinesKept(v[i], rest, more)
               /\ ~Done("line", n, i) /\ ~Going("line", n, i) => v[i].lines = << >>
    <2>1. /\ Done("lines", n, i) => LinesKept(v[i], << >>, lossy)
          /\ ~Done("lines", n, i) => v[i].lines = << >>
      BY DEF Loads, Loading, Going
    <2>2. Done("line", n, i) <=> Done("lines", n, i) BY DEF Done
    <2>3. Done("line", n, i) => LinesKept(v[i], << >>, more) BY <2>1, <2>2, LinesStill
    <2>4. ASSUME Going("line", n, i) PROVE LinesKept(v[i], rest, more)
      <3>1. i = n + 1 /\ ~Done("lines", n, i) BY <2>4 DEF Going, Done
      <3>2. v[i].lines = << >> BY <2>1, <3>1
      <3> DEFINE t == PdbLines[v[i].of]
      <3>3. t \in Seq(Nat)
        <4>1. v[i] \in FileRecords BY <1>1
        <4>2. v[i].of \in Range(PdbFiles) BY <4>1 DEF FileRecords
        <4>3. QED BY <4>2, SymbolConstantsOK
      <3>4. (rest = t \/ rest = << >>) /\ (rest # t => more) BY <3>1
      <3> HIDE DEF t
      <3>5. Kept(<< >>, rest, t, more)
        <4>1. CASE rest = t BY <3>3, <4>1, KeptNone
        <4>2. CASE rest = << >> /\ rest # t
          <5>1. Kept(<< >>, << >>, t, TRUE) BY <3>3, KeptNothing
          <5>2. QED BY <3>4, <4>2, <5>1 DEF Kept
        <4>3. QED BY <3>4, <4>1, <4>2
      <3>6. Nos(<< >>) = << >> /\ Len(<< >>) = 0 BY DEF Nos
      <3>7. QED BY <3>2, <3>5, <3>6 DEF LinesKept, t
    <2>5. QED BY <2>1, <2>2, <2>3, <2>4
  <1>4. QED BY <1>1, <1>2, <1>3 DEF Loads, Loading

(* adds a line to it,                                                      *)
LEMMA LoadsLine ==
  ASSUME NEW v, NEW rest, NEW n \in Nat, n < Len(v), NEW lossy,
         Loads(v, "line", rest, n, lossy), rest # << >>,
         NEW line, line = [kind |-> "line", of |-> v[n + 1].of, no |-> Head(rest)],
         NEW w, Len(w) = Len(v), DOMAIN w = 1..Len(v), w = [i \in DOMAIN w |-> w[i]],
         \A i \in 1..Len(v) : i # n + 1 => w[i] = v[i],
         w[n + 1] = [of |-> v[n + 1].of, lines |-> Append(v[n + 1].lines, line)]
  PROVE  Loads(w, "line", Tail(rest), n, lossy)
  <1> DEFINE len == Len(v)
             j == n + 1
             lines == v[j].lines
             of == v[j].of
             t == PdbLines[of]
  <1>1. /\ v \in Seq(FileRecords) /\ Kept(Ofs(v), << >>, PdbFiles, lossy) /\ len \in Nat
        /\ j \in 1..len
    BY DEF Loads, Loading
  <1>2. /\ \A k \in 1..Len(lines) : lines[k].of = of
        /\ Kept(Nos(lines), rest, t, lossy)
    <2>1. Going("line", n, j) BY DEF Going
    <2>2. LinesKept(v[j], rest, lossy) BY <1>1, <2>1 DEF Loads, Loading
    <2>3. QED BY <2>2 DEF LinesKept
  <1>3. v[j] \in FileRecords /\ lines \in Seq(LineRecords) /\ of \in Range(PdbFiles)
    <2>1. v[j] \in FileRecords BY <1>1
    <2>2. QED BY <2>1 DEF FileRecords
  <1>4. Range(t) \subseteq Nat
    <2>1. t \in Seq(Nat) BY <1>3, SymbolConstantsOK
    <2> HIDE DEF t
    <2>2. QED BY <2>1 DEF Range
  <1>5. /\ Kept(Append(Nos(lines), Head(rest)), Tail(rest), t, lossy)
        /\ Head(rest) \in Nat
    BY <1>2, <1>4, KeptNext
  <1>6. line \in LineRecords /\ line.of = of /\ line.no = Head(rest)
    BY <1>3, <1>5 DEF LineRecords
  <1>7. Nos(Append(lines, line)) = Append(Nos(lines), Head(rest)) BY <1>3, <1>6, NosAppend
  <1> DEFINE longer == Append(lines, line)
             file == [of |-> of, lines |-> longer]
  <1>8. /\ longer \in Seq(LineRecords) /\ \A k \in 1..Len(longer) : longer[k].of = of
    <2>1. /\ longer \in Seq(LineRecords) /\ Len(longer) = Len(lines) + 1
          /\ longer[Len(lines) + 1] = line /\ \A k \in 1..Len(lines) : longer[k] = lines[k]
          /\ Len(lines) \in Nat
      BY <1>3, <1>6, AppendProperties
    <2> HIDE DEF longer, lines
    <2>2. ASSUME NEW k \in 1..Len(longer) PROVE k \in 1..Len(lines) \/ k = Len(lines) + 1
      BY <2>1
    <2>3. QED BY <1>2, <1>6, <2>1, <2>2
  <1>9. w[j] = file /\ file \in FileRecords /\ file.of = of /\ file.lines = longer
    BY <1>3, <1>8 DEF FileRecords
  <1>10. LinesKept(w[j], Tail(rest), lossy)
    <2>1. Kept(Nos(longer), Tail(rest), t, lossy) BY <1>5, <1>7
    <2>2. QED BY <1>8, <1>9, <2>1 DEF LinesKept
  <1> HIDE DEF file, longer, t, lines
  <1>11. w \in Seq(FileRecords)
    <2>1. \A i \in 1..len : w[i] \in FileRecords BY <1>1, <1>9
    <2>2. w \in [1..len -> FileRecords] BY <2>1
    <2>3. QED BY <1>1, <2>2, SeqDef
  <1>12. Ofs(w) = Ofs(v)
    <2>1. \A i \in 1..len : w[i].of = v[i].of BY <1>9
    <2>2. QED BY <2>1 DEF Ofs
  <1>13. ASSUME NEW i \in 1..Len(w)
         PROVE  /\ Done("line", n, i) => LinesKept(w[i], << >>, lossy)
                /\ Going("line", n, i) => LinesKept(w[i], Tail(rest), lossy)
                /\ ~Done("line", n, i) /\ ~Going("line", n, i) => w[i].lines = << >>
    <2>1. CASE i = j
      <3>1. ~Done("line", n, i) /\ Going("line", n, i) BY <2>1 DEF Done, Going
      <3>2. QED BY <1>10, <2>1, <3>1
    <2>2. CASE i # j
      <3>1. ~Going("line", n, i) /\ w[i] = v[i] /\ i \in 1..Len(v) BY <2>2 DEF Going
      <3>2. QED BY <3>1 DEF Loads, Loading
    <2>3. QED BY <2>1, <2>2
  <1>14. QED BY <1>1, <1>11, <1>12, <1>13 DEF Loads, Loading

(* or finds no room for it,                                                *)
LEMMA LoadsLineLost ==
  ASSUME NEW v, NEW rest, NEW n, NEW lossy, Loads(v, "line", rest, n, lossy), rest # << >>
  PROVE  Loads(v, "line", Tail(rest), n, TRUE)
  <1>1. v \in Seq(FileRecords) /\ Kept(Ofs(v), << >>, PdbFiles, TRUE)
    BY KeptStill DEF Loads, Loading
  <1>2. ASSUME NEW i \in 1..Len(v)
        PROVE  /\ Done("line", n, i) => LinesKept(v[i], << >>, TRUE)
               /\ Going("line", n, i) => LinesKept(v[i], Tail(rest), TRUE)
               /\ ~Done("line", n, i) /\ ~Going("line", n, i) => v[i].lines = << >>
    <2>1. /\ Done("line", n, i) => LinesKept(v[i], << >>, lossy)
          /\ Going("line", n, i) => LinesKept(v[i], rest, lossy)
          /\ ~Done("line", n, i) /\ ~Going("line", n, i) => v[i].lines = << >>
      BY DEF Loads, Loading
    <2>2. Done("line", n, i) => LinesKept(v[i], << >>, TRUE) BY <2>1, LinesStill
    <2>3. Going("line", n, i) => LinesKept(v[i], Tail(rest), TRUE)
      BY <2>1, KeptLess DEF LinesKept
    <2>4. QED BY <2>1, <2>2, <2>3
  <1>3. QED BY <1>1, <1>2 DEF Loads, Loading

(* goes on to the next file,                                               *)
LEMMA LoadsTurn ==
  ASSUME NEW v, NEW n \in Nat, NEW lossy, Loads(v, "line", << >>, n, lossy)
  PROVE  Loads(v, "lines", << >>, n + 1, lossy)
  <1>1. v \in Seq(FileRecords) /\ Kept(Ofs(v), << >>, PdbFiles, lossy)
    BY DEF Loads, Loading
  <1>2. ASSUME NEW i \in 1..Len(v)
        PROVE  /\ Done("lines", n + 1, i) => LinesKept(v[i], << >>, lossy)
               /\ ~Going("lines", n + 1, i)
               /\ ~Done("lines", n + 1, i) => v[i].lines = << >>
    <2>1. /\ Done("line", n, i) => LinesKept(v[i], << >>, lossy)
          /\ Going("line", n, i) => LinesKept(v[i], << >>, lossy)
          /\ ~Done("line", n, i) /\ ~Going("line", n, i) => v[i].lines = << >>
      BY DEF Loads, Loading
    <2>2. Done("lines", n + 1, i) <=> Done("line", n, i) \/ Going("line", n, i)
      <3>1. i \in Nat OBVIOUS
      <3>2. i <= n + 1 <=> i <= n \/ i = n + 1 BY <3>1
      <3>3. QED BY <3>2 DEF Done, Going
    <2>3. QED BY <2>1, <2>2 DEF Going
  <1>3. QED BY <1>1, <1>2 DEF Loads, Loading

(* and ends with the last.                                                 *)
LEMMA LoadsAll ==
  ASSUME NEW v, NEW rest, NEW n, NEW lossy, Loads(v, "lines", rest, n, lossy), n = Len(v)
  PROVE  Loads(v, "ready", rest, n, lossy)
  <1>1. v \in Seq(FileRecords) /\ Kept(Ofs(v), << >>, PdbFiles, lossy)
    BY DEF Loads, Loading
  <1>2. \A i \in 1..Len(v) : Done("lines", n, i) /\ Done("ready", n, i) /\ ~Going("ready", n, i)
    BY <1>1 DEF Done, Going
  <1>3. \A i \in 1..Len(v) : LinesKept(v[i], << >>, lossy) BY <1>2 DEF Loads, Loading
  <1>4. QED BY <1>1, <1>2, <1>3 DEF Loads, Loading

(* What an action finds: the list is there, and shown as View shows it.    *)
LEMMA Shown ==
  ASSUME IInv, NEW v, v = View(memory)
  PROVE  /\ Heap(memory) /\ Addresses(memory) /\ Placed(memory)
         /\ Len(v) \in Nat /\ DOMAIN v = 1..Len(v) /\ v = [i \in DOMAIN v |-> v[i]]
         /\ Len(v) = memory.root[Files].count /\ Len(v) = Len(Chain(memory, Files))
         /\ turn \in Nat
         /\ pc = "line" => turn < Len(v)
         /\ pc \in {"lines", "line"} => turn <= Len(v)
         /\ pc \in {"lines", "line"} /\ turn < Len(v) =>
              /\ turn + 1 \in 1..Len(v) /\ cur = Chain(memory, Files)[turn + 1]
              /\ Data(memory, cur) = memory.node[cur].data
              /\ FilesAt(cur).of = v[turn + 1].of
  <1> DEFINE ch == Chain(memory, Files)
  <1>1. /\ Heap(memory) /\ Addresses(memory) /\ Placed(memory)
        /\ Len(ch) \in Nat /\ memory.root[Files].count = Len(ch) /\ turn \in Nat
        /\ pc \in {"line", "lines", "delete"} /\ turn < Len(ch) =>
             /\ cur = ch[turn + 1] /\ Data(memory, cur) = memory.node[cur].data
    BY InLoop
  <1>2. v = [i \in 1..Len(ch) |-> Entry(memory, Data(memory, ch[i]))] BY DEF View
  <1>3. /\ pc = "line" => turn < Len(ch)
        /\ pc \in {"lines", "line"} => turn <= Len(ch)
    BY DEF IInv, LoopInv
  <1> HIDE DEF ch
  <1>4. Len(v) = Len(ch) /\ DOMAIN v = 1..Len(ch) BY <1>1, <1>2
  <1>5. v = [i \in DOMAIN v |-> v[i]] BY <1>2
  <1>6. ASSUME pc \in {"lines", "line"}, turn < Len(ch)
        PROVE  turn + 1 \in 1..Len(ch) /\ FilesAt(cur).of = v[turn + 1].of
    <2>1. turn + 1 \in 1..Len(ch) BY <1>1, <1>6
    <2>2. v[turn + 1] = Entry(memory, Data(memory, cur)) BY <1>1, <1>2, <1>6, <2>1
    <2>3. QED BY <1>1, <1>6, <2>1, <2>2 DEF Entry, FilesAt
  <1>7. QED BY <1>1, <1>3, <1>4, <1>5, <1>6 DEF ch

LEMMA InitReport == Init => ReportInv
  BY DEF Init, ReportInv, Loads, Loading

(* EnumSourceFilesProcPDB.                                                 *)
LEMMA FileReport == IInv /\ ReportInv /\ SourceFile => ReportInv'
  <1> SUFFICES ASSUME IInv, ReportInv, SourceFile PROVE ReportInv'
    OBVIOUS
  <1> DEFINE name  == Fresh(memory.cell, Cells)
             named == WithCells(memory, Allocate(memory.cell, name, [kind |-> "name"]))
             file  == [kind |-> "file", of |-> Head(report), name |-> name]
             v     == View(memory)
  <1>1. /\ pc = "files" /\ pc' = "files" /\ report # << >> /\ report' = Tail(report)
        /\ turn' = turn /\ Room(memory.cell, Cells) > 0
    BY DEF SourceFile, HasCell
  <1>2. block = Null BY <1>1 DEF IInv, Control
  <1>3. /\ MemoryInv(memory, lost, Null) /\ Heap(memory) /\ Addresses(memory) /\ Placed(memory)
    BY <1>2 DEF IInv, MemoryInv
  <1>4. name \in Range(Cells) \ DOMAIN memory.cell BY <1>1, <1>3, NewAddresses
  <1>5. /\ MemoryInv(named, lost \cup {name}, Null) /\ name \notin lost
        /\ named.node = memory.node /\ Chain(named, Files) = Chain(memory, Files)
    <2> HIDE DEF name
    <2>1. QED BY <1>3, <1>4, NameAllocated
  <1>6. View(named) = v
    <2> DEFINE value == [kind |-> "name"]
    <2>1. name \notin DOMAIN memory.cell /\ named = NewBlock(memory, name, value)
      BY <1>4 DEF NewBlock
    <2> HIDE DEF named, value, name
    <2>2. QED BY <1>3, <2>1, ViewNewBlock
  <1>7. \/ /\ Room(memory.node, Nodes) > 0 /\ Room(named.cell, Cells) > 0
           /\ LET m == Add(named, Files, file)
              IN memory' = WithRoots(m, Allocate(m.root, m.node[m.root[Files].last].data, EmptyRoot))
           /\ missing' = missing
        \/ memory' = named /\ missing' = TRUE
    BY DEF SourceFile, HasNode, NewCell, WithCells, WithRoots
  <1>8. Addresses(named) /\ Heap(named) /\ Placed(named) BY <1>5 DEF MemoryInv
  <1>9. Loads(v, "files", report, turn, missing) BY <1>1 DEF ReportInv
  <1> HIDE DEF named, name, v
  <1>10. CASE /\ Room(memory.node, Nodes) > 0 /\ Room(named.cell, Cells) > 0
              /\ LET m == Add(named, Files, file)
                 IN memory' = WithRoots(m, Allocate(m.root, m.node[m.root[Files].last].data, EmptyRoot))
              /\ missing' = missing
    <2> DEFINE n   == Fresh(named.node, Nodes)
               c   == Fresh(named.cell, Cells)
               mid == listAddElement(named, Files, n, c, file)
               w   == View(memory')
               of  == Head(report)
    <2>1. n \in Range(Nodes) /\ n \notin DOMAIN named.node \cup {Null}
      BY <1>5, <1>8, <1>10, NewAddresses
    <2>2. c \in Range(Cells) /\ c \notin DOMAIN named.cell /\ c \notin SessionLists
      BY <1>8, <1>10, NewAddresses
    <2>3. memory' = WithRoots(mid, Allocate(mid.root, mid.node[mid.root[Files].last].data, EmptyRoot))
      BY <1>10 DEF Add
    <2>4. Files \in DOMAIN named.root BY <1>8 DEF Addresses, SessionLists
    <2> HIDE DEF n, c, file
    <2>5. mid.node[mid.root[Files].last].data = c BY <1>8, <2>1, <2>2, <2>4, LastAdded
    <2>6. memory' = WithRoots(mid, Allocate(mid.root, c, EmptyRoot)) BY <2>3, <2>5
    <2>7. file = [kind |-> "file", of |-> of, name |-> name] BY DEF file
    <2> HIDE DEF mid, of
    <2>8. mid = listAddElement(named, Files, n, c, file) BY DEF mid
    <2>9. /\ Chain(memory', Files) = Append(Chain(named, Files), n)
          /\ Data(memory', n) = c /\ memory'.cell[c] = file /\ Chain(memory', c) = << >>
          /\ \A f \in FilesOf(named) : Chain(memory', f) = Chain(named, f)
          /\ \A x \in DOMAIN named.node :
               /\ Data(memory', x) = Data(named, x)
               /\ memory'.cell[Data(named, x)] = named.cell[Data(named, x)]
      BY <1>5, <2>1, <2>2, <2>6, <2>7, <2>8, FileAdded
    <2>10. memory'.cell[c].of = of BY <2>7, <2>9
    <2>11. /\ Len(w) = Len(v) + 1 /\ DOMAIN w = 1..(Len(v) + 1)
           /\ \A i \in 1..Len(v) : w[i] = v[i]
           /\ w[Len(v) + 1] = [of |-> of, lines |-> << >>]
      BY <1>6, <1>8, <2>9, <2>10, ViewLonger
    <2>12. w = [i \in DOMAIN w |-> w[i]] BY DEF View
    <2> HIDE DEF w
    <2>13. Loads(w, "files", Tail(report), turn, missing)
      BY <1>1, <1>9, <2>11, <2>12, LoadsFile DEF of
    <2>14. QED BY <1>1, <1>10, <2>13 DEF ReportInv, w
  <1>11. CASE memory' = named /\ missing' = TRUE
    <2>1. Loads(v, "files", Tail(report), turn, TRUE) BY <1>1, <1>9, LoadsFileLost
    <2>2. QED BY <1>1, <1>6, <1>11, <2>1 DEF ReportInv
  <1>12. QED BY <1>7, <1>10, <1>11

(* EnumLinesProcPDB.                                                       *)
LEMMA LineReport == IInv /\ ReportInv /\ SourceLine => ReportInv'
  <1> SUFFICES ASSUME IInv, ReportInv, SourceLine PROVE ReportInv'
    OBVIOUS
  <1> DEFINE v == View(memory)
             l == Data(memory, cur)
             j == turn + 1
  <1>1. /\ pc = "line" /\ pc' = "line" /\ report # << >> /\ report' = Tail(report)
        /\ turn' = turn
    BY DEF SourceLine
  <1>2. /\ Heap(memory) /\ Addresses(memory) /\ Placed(memory)
        /\ Len(v) \in Nat /\ turn \in Nat /\ turn < Len(v) /\ Len(v) = Len(Chain(memory, Files))
        /\ j \in 1..Len(v) /\ cur = Chain(memory, Files)[j] /\ l = memory.node[cur].data
        /\ FilesAt(cur).of = v[j].of
    BY <1>1, Shown
  <1>3. Loads(v, "line", report, turn, missing) BY <1>1 DEF ReportInv
  <1>4. CASE UNCHANGED memory /\ missing' = TRUE
    <2> HIDE DEF v
    <2>1. Loads(v, "line", Tail(report), turn, TRUE) BY <1>1, <1>3, LoadsLineLost
    <2>2. QED BY <1>1, <1>4, <2>1 DEF ReportInv, v
  <1>5. CASE /\ HasNode /\ HasCell /\ UNCHANGED missing
             /\ memory' = Add(memory, memory.node[cur].data,
                              [kind |-> "line", of |-> FilesAt(cur).of, no |-> Head(report)])
    <2> DEFINE n == Fresh(memory.node, Nodes)
               c == Fresh(memory.cell, Cells)
               data == [kind |-> "line", of |-> v[j].of, no |-> Head(report)]
               w == View(memory')
    <2>1. n \notin DOMAIN memory.node \cup {Null} /\ c \notin DOMAIN memory.cell
      BY <1>2, <1>5, NewAddresses DEF HasNode, HasCell
    <2>2. memory' = listAddElement(memory, l, n, c, data) BY <1>2, <1>5 DEF Add
    <2>3. w = [i \in DOMAIN w |-> w[i]] BY DEF View
    <2>4. data = [kind |-> "line", of |-> v[turn + 1].of, no |-> Head(report)] OBVIOUS
    <2> HIDE DEF n, c, data, l, j
    <2>5. IsFile(memory, j, l) BY <1>2 DEF l, IsFile
    <2>6. OneLineMore(v, w, j, data)
      <3> DEFINE mm == memory'
      <3>1. mm = listAddElement(memory, l, n, c, data) BY <2>2
      <3> HIDE DEF mm
      <3>2. OneLineMore(View(memory), View(mm), j, data) BY <1>2, <2>1, <2>5, <3>1, ViewOfLine
      <3>3. QED BY <3>2 DEF mm
    <2> HIDE DEF v, w
    <2>7. Loads(w, "line", Tail(report), turn, missing)
      BY <1>1, <1>2, <1>3, <2>3, <2>4, <2>6, LoadsLine DEF j, OneLineMore
    <2>8. QED BY <1>1, <1>5, <2>7 DEF ReportInv, w
  <1>6. QED BY <1>4, <1>5 DEF SourceLine

(* The steps that change no list of files or lines.                        *)
LEMMA OtherReport ==
  IInv /\ ReportInv /\ [Next]_vars => SourceFile \/ SourceLine \/ ReportInv'
  <1> SUFFICES ASSUME IInv, ReportInv, [Next]_vars, ~SourceFile, ~SourceLine PROVE ReportInv'
    OBVIOUS
  <1> DEFINE v == View(memory)
             vv == View(memory')
             ch == Chain(memory, Files)
  <1>1. /\ Heap(memory) /\ Addresses(memory) /\ Placed(memory)
        /\ Len(v) = memory.root[Files].count /\ turn \in Nat
        /\ pc \in {"lines", "line"} /\ turn < Len(v) => FilesAt(cur).of = v[turn + 1].of
    BY Shown
  <1>2. Loads(v, pc, report, turn, missing) BY DEF ReportInv
  <1>3. memory' = memory => vv = v OBVIOUS
  <1>4. ReportInv' <=> Loads(vv, pc', report', turn', missing') BY DEF ReportInv
  <1>5. pc = "start" => v = << >> /\ memory' = memory
    <2>1. pc = "start" => Chain(memory, Files) = << >> BY DEF IInv, LoopInv
    <2>2. ch = << >> => v = << >>
      <3>1. v = [i \in 1..Len(ch) |-> Entry(memory, Data(memory, ch[i]))] BY DEF View
      <3>2. ch = << >> => 1..Len(ch) = {} OBVIOUS
      <3> HIDE DEF ch
      <3>3. QED BY <3>1, <3>2
    <2>3. pc = "start" => memory' = memory
      BY DEF Next, vars, LoadTable, SourceFile, CopyFault, FilesReported, EnumerateLines,
             SourceLine, LinesReported, Loaded, AddBreakpoint, Lookup, LookupDone,
             DeleteProc, DeleteFile, DeleteFiles
    <2>4. QED BY <2>1, <2>2, <2>3
  <1> HIDE DEF v, vv
  <1>6. CASE LoadTable
    <2>1. pc = "start" /\ memory' = memory /\ turn' = turn /\ vv = << >>
      BY <1>3, <1>5, <1>6 DEF LoadTable
    <2>2. QED BY <1>4, <1>6, <2>1, LoadsFirst, LoadsNothing DEF LoadTable
  <1>7. CASE CopyFault \/ DeleteProc \/ DeleteFile \/ DeleteFiles
    <2>1. pc' \in {"crashed", "delete", "deleted"}
      BY <1>7 DEF CopyFault, DeleteProc, DeleteFile, DeleteFiles
    <2>2. QED BY <1>4, <2>1 DEF Loads, Loading
  <1>8. CASE FilesReported
    <2>1. vv = v /\ pc = "files" /\ pc' = "lines" /\ report = << >> /\ report' = << >>
          /\ turn' = 0 /\ missing' = missing
      BY <1>3, <1>8 DEF FilesReported
    <2>2. QED BY <1>2, <1>4, <2>1, LoadsLoop
  <1>9. CASE EnumerateLines
    <2> DEFINE t == PdbLines[FilesAt(cur).of]
    <2>1. vv = v /\ pc = "lines" /\ pc' = "line" /\ turn < Len(v) /\ turn' = turn
          /\ (report' = t \/ report' = << >>) /\ missing' = (missing \/ report' # t)
      BY <1>1, <1>3, <1>9 DEF EnumerateLines
    <2>2. t = PdbLines[v[turn + 1].of] BY <1>1, <2>1
    <2> HIDE DEF t
    <2>3. Loads(v, "lines", report, turn, missing) BY <1>2, <2>1
    <2>4. (missing => missing') /\ (report' # t => missing') BY <2>1
    <2>5. Loads(v, "line", report', turn, missing')
      BY <1>1, <2>1, <2>2, <2>3, <2>4, LoadsAsked
    <2>6. QED BY <1>4, <2>1, <2>5
  <1>10. CASE LinesReported
    <2>1. vv = v /\ pc = "line" /\ pc' = "lines" /\ report = << >> /\ report' = << >>
          /\ turn' = turn + 1 /\ missing' = missing
      BY <1>3, <1>10 DEF LinesReported
    <2>2. QED BY <1>1, <1>2, <1>4, <2>1, LoadsTurn
  <1>11. CASE Loaded
    <2>1. vv = v /\ pc = "lines" /\ pc' = "ready" /\ report' = report
          /\ turn' = turn /\ missing' = missing /\ turn = Len(v)
      BY <1>1, <1>3, <1>11 DEF Loaded
    <2>2. QED BY <1>2, <1>4, <2>1, LoadsAll
  <1>12. CASE AddBreakpoint \/ Lookup \/ LookupDone
    <2>1. pc' = "crashed" \/ vv = v
      <3> SUFFICES ASSUME pc' # "crashed" PROVE vv = v
        OBVIOUS
      <3>1. CASE AddBreakpoint
        <4> DEFINE n == Fresh(memory.node, Nodes)
                   c == Fresh(memory.cell, Cells)
                   data == [kind |-> "breakpoint"]
        <4>1. n \notin DOMAIN memory.node \cup {Null} /\ c \notin DOMAIN memory.cell
          BY <1>1, <3>1, NewAddresses DEF HasNode, HasCell, AddBreakpoint
        <4>2. memory' = listAddElement(memory, Bps, n, c, data)
          BY <3>1 DEF AddBreakpoint, Add
        <4> HIDE DEF n, c, data
        <4>3. QED BY <1>1, <4>1, <4>2, ViewBreakpoint DEF v, vv
      <3>2. CASE Lookup
        <4> DEFINE c == Fresh(memory.cell, Cells)
                   value == [kind |-> "symbol"]
        <4>1. HasCell /\ memory' = NewBlock(memory, c, value)
          BY <3>2 DEF Lookup, NewCell, NewBlock, WithCells
        <4>2. c \notin DOMAIN memory.cell BY <1>1, <4>1, NewAddresses DEF HasCell
        <4> HIDE DEF c, value
        <4>3. QED BY <1>1, <4>1, <4>2, ViewNewBlock DEF v, vv
      <3>3. CASE LookupDone
        <4>1. block # Null /\ memory' = FreeBlock(memory, block)
          BY <3>3 DEF LookupDone, FreeBlock, WithCells, IInv, Control
        <4>2. block \in DOMAIN memory.cell /\ Kind(memory, block) = "symbol"
          BY <4>1 DEF IInv, MemoryInv, SymbolKept
        <4>3. \A n \in DOMAIN memory.node : Data(memory, n) # block
          BY <1>1, <4>2, DataKinds DEF NodeKinds
        <4>4. QED BY <1>1, <4>1, <4>3, ViewFreeBlock DEF v, vv
      <3>4. QED BY <1>12, <3>1, <3>2, <3>3
    <2>2. /\ pc \in {"ready", "lookup"} /\ pc' \in {"ready", "lookup", "crashed"}
          /\ report' = report /\ turn' = turn /\ missing' = missing
      BY <1>12 DEF AddBreakpoint, Lookup, LookupDone
    <2>3. CASE pc' = "crashed" BY <1>4, <2>3 DEF Loads, Loading
    <2>4. CASE pc' # "crashed"
      <3>1. \A i : Done(pc', turn, i) /\ Done(pc, turn, i) /\ ~Going(pc', turn, i)
        BY <2>2, <2>4 DEF Done, Going
      <3>2. QED BY <1>2, <1>4, <2>1, <2>2, <2>4, <3>1 DEF Loads, Loading
    <2>5. QED BY <2>3, <2>4
  <1>13. CASE UNCHANGED vars BY <1>2, <1>3, <1>4, <1>13 DEF vars
  <1>14. QED BY <1>6, <1>7, <1>8, <1>9, <1>10, <1>11, <1>12, <1>13 DEF Next

(* When the session's symbols are loaded, the list of its files is that of *)
(* the PDB, in its order and each with its own lines, and complete if no   *)
(* call failed (EnumSourceFilesProcPDB and EnumLinesProcPDB of pdb.c).     *)
THEOREM LoadedAsReported == Spec => []AsReported
  <1>1. IInv /\ ReportInv /\ [Next]_vars => ReportInv' BY FileReport, LineReport, OtherReport
  <1>2. ASSUME IInv, ReportInv, pc = "ready" PROVE AsReported
    <2> DEFINE v == View(memory)
               files == [i \in DOMAIN v |-> v[i].of]
    <2>1. Len(v) \in Nat /\ DOMAIN v = 1..Len(v) BY <1>2, Shown
    <2>2. FileLists = v
      <3> DEFINE ch == Chain(memory, Files)
      <3>1. ASSUME NEW i \in 1..Len(ch)
            PROVE  DataOf(memory.node[ch[i]].data) = Stored(memory, Chain(memory, memory.node[ch[i]].data))
        <4> DEFINE c == memory.node[ch[i]].data
                   s == Chain(memory, c)
        <4>1. Data(memory, ch[i]) \in FilesOf(memory) BY <1>2, Shown, FileNodes
        <4>2. c \in DOMAIN memory.root BY <1>2, <4>1, Shown DEF Addresses, Data
        <4> HIDE DEF c
        <4>3. DOMAIN s = 1..Len(s) BY <1>2, <4>2, Shown, HeapChain
        <4>4. DataOf(c) = [k \in DOMAIN s |-> memory.cell[memory.node[s[k]].data]] BY DEF DataOf
        <4>5. QED BY <4>3, <4>4 DEF Stored, c
      <3>2. DOMAIN ch = 1..Len(ch) BY <1>2, Shown, HeapChain DEF Addresses, SessionLists
      <3>3. QED BY <3>1, <3>2 DEF FileLists, View, Entry, Data
    <2>3. /\ v \in Seq(FileRecords) /\ Kept(Ofs(v), << >>, PdbFiles, missing)
          /\ \A i \in 1..Len(v) : LinesKept(v[i], << >>, missing)
      BY <1>2 DEF ReportInv, Loads, Loading, Done
    <2> HIDE DEF v
    <2>4. files = Ofs(v) BY <2>1 DEF Ofs
    <2>5. InOrder(files, PdbFiles) /\ (~missing => files = PdbFiles) BY <2>3, <2>4, KeptAll
    <2>6. ASSUME NEW i \in DOMAIN v
          PROVE  LET reported == PdbLines[v[i].of]
                 IN /\ \A k \in DOMAIN v[i].lines : v[i].lines[k].of = v[i].of
                    /\ InOrder([k \in DOMAIN v[i].lines |-> v[i].lines[k].no], reported)
                    /\ ~missing => Len(v[i].lines) = Len(reported)
      <3> DEFINE lines == v[i].lines
                 reported == PdbLines[v[i].of]
      <3>1. v[i] \in FileRecords BY <2>1, <2>3
      <3>2. lines \in Seq(LineRecords) BY <3>1 DEF FileRecords
      <3>3. /\ \A k \in 1..Len(lines) : lines[k].of = v[i].of
            /\ Kept(Nos(lines), << >>, reported, missing)
        BY <2>1, <2>3 DEF LinesKept
      <3> HIDE DEF lines, reported
      <3>4. DOMAIN lines = 1..Len(lines) /\ Len(lines) \in Nat BY <3>2
      <3>5. InOrder(Nos(lines), reported) /\ (~missing => Nos(lines) = reported)
        BY <3>3, KeptAll
      <3>6. Nos(lines) = [k \in DOMAIN lines |-> lines[k].no] BY <3>4 DEF Nos
      <3>7. Len(Nos(lines)) = Len(lines) BY <3>4 DEF Nos
      <3>8. QED BY <3>3, <3>4, <3>5, <3>6, <3>7 DEF lines, reported
    <2>7. QED BY <2>2, <2>5, <2>6 DEF AsReported
  <1>3. IInv /\ ReportInv => AsReported BY <1>2 DEF AsReported
  <1>4. QED BY <1>1, <1>3, InitReport, Invariance, PTL DEF Spec
=============================================================================
