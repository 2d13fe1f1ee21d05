-------------------------- MODULE LinkedListProofs --------------------------
(***************************************************************************)
(* The lists stay well linked, leak only where LeakSources says, and are   *)
(* sequences, for any number of lists, addresses and calls.                *)
(***************************************************************************)
EXTENDS LinkedList, DataProofs, FiniteSetTheorems

(* The inductive invariant: the heap of DataProofs, at the addresses that  *)
(* malloc may give.  Unlike WellLinked it also speaks of the nodes that    *)
(* no list leads to any more: that their data is no other node's keeps     *)
(* listFreeAll from freeing it.                                            *)
MemoryInv(m) ==
  /\ Heap(m)
  /\ DOMAIN m.root = Lists
  /\ DOMAIN m.node \subseteq Nodes
  /\ DOMAIN m.cell \subseteq Cells
  /\ Links(m, Nodes)
  /\ \A c \in DOMAIN m.cell : m.cell[c] \in Data

IInv == MemoryInv(memory) /\ faulted \in BOOLEAN

(* The empty heap satisfies the invariant.                                 *)
LEMMA InitInv == Init => IInv
  <1> SUFFICES ASSUME Init PROVE IInv
    OBVIOUS
  <1> DEFINE m == memory
  <1>1. /\ m = [node |-> m.node, cell |-> m.cell, root |-> m.root]
        /\ m.node = [n \in {} |-> Null] /\ m.cell = [c \in {} |-> Null]
        /\ m.root = [l \in Lists |-> EmptyRoot]
    BY DEF Init
  <1> HIDE DEF m
  <1>2. DOMAIN m.node = {} /\ DOMAIN m.cell = {} /\ DOMAIN m.root = Lists
    BY <1>1
  <1>3. ASSUME NEW l \in Lists PROVE Holds(m, l, << >>) /\ Chain(m, l) = << >>
    <2>1. Holds(m, l, << >>) BY <1>1, <1>2, <1>3 DEF Holds, EmptyRoot
    <2>2. QED BY <2>1, ChainOf
  <1>4. WellFormed(m)
    <2>1. \A l \in Lists : m.root[l] = [count |-> m.root[l].count, first |-> m.root[l].first,
                                        last |-> m.root[l].last]
      BY <1>1 DEF EmptyRoot
    <2>2. QED BY <1>1, <1>2, <2>1 DEF WellFormed
  <1>5. Range(<< >>) = {} BY DEF Range
  <1>6. Heap(m) BY <1>2, <1>3, <1>4, <1>5 DEF Heap
  <1>7. MemoryInv(m) BY <1>2, <1>6 DEF MemoryInv, Links
  <1>8. faulted \in BOOLEAN BY DEF Init
  <1>9. QED BY <1>7, <1>8 DEF IInv, m

(* listAddElement keeps it,                                                *)
LEMMA AddInv ==
  ASSUME NEW m, MemoryInv(m), NEW l \in Lists, NEW n \in Nodes \ DOMAIN m.node,
         NEW c \in Cells \ DOMAIN m.cell, NEW data \in Data,
         NEW mm, mm = listAddElement(m, l, n, c, data)
  PROVE  MemoryInv(mm)
  <1>1. /\ Heap(m) /\ l \in DOMAIN m.root /\ n \notin DOMAIN m.node /\ n # Null
        /\ c \notin DOMAIN m.cell
    BY ListConstantsOK DEF MemoryInv
  <1>2. /\ Heap(mm)
        /\ DOMAIN mm.root = DOMAIN m.root
        /\ DOMAIN mm.node = DOMAIN m.node \cup {n}
        /\ mm.cell = Allocate(m.cell, c, data)
    BY <1>1, AddHeap
  <1>3. Links(mm, Nodes)
    BY <1>1, AddLinks DEF MemoryInv
  <1>4. DOMAIN mm.cell \subseteq Cells /\ \A x \in DOMAIN mm.cell : mm.cell[x] \in Data
    BY <1>2 DEF Allocate, MemoryInv
  <1>5. QED BY <1>2, <1>3, <1>4 DEF MemoryInv

(* listRemoveElement, with any number,                                     *)
LEMMA RemoveInv ==
  ASSUME NEW m, MemoryInv(m), NEW l \in Lists, NEW num \in Nat,
         NEW mm, mm = listRemoveElement(m, l, num)
  PROVE  MemoryInv(mm)
  <1> DEFINE ch == Chain(m, l)
  <1>1. /\ Heap(m) /\ l \in DOMAIN m.root /\ Len(ch) \in Nat
        /\ Holds(m, l, ch)
    BY HeapChain DEF MemoryInv
  <1>2. CASE num >= Len(ch)
    <2>1. mm = m BY <1>1, <1>2, RemoveBeyond
    <2>2. QED BY <2>1
  <1>3. CASE num < Len(ch)
    <2> DEFINE i == num + 1
    <2>1. i \in 1..Len(ch) /\ num = i - 1 BY <1>1, <1>3
    <2> HIDE DEF i
    <2>2. /\ Heap(mm)
          /\ DOMAIN mm.root = DOMAIN m.root
          /\ DOMAIN mm.node \subseteq DOMAIN m.node
          /\ mm.cell = m.cell
      BY <1>1, <2>1, RemoveHeap
    <2>3. Links(mm, Nodes)
      BY <1>1, <2>1, RemoveLinks DEF MemoryInv
    <2>4. QED BY <2>2, <2>3 DEF MemoryInv
  <1>4. QED BY <1>1, <1>2, <1>3

(* and listFreeAll.                                                        *)
LEMMA FreeAllInv ==
  ASSUME NEW m, MemoryInv(m), NEW l \in Lists, NEW mm, mm = listFreeAll(m, l)
  PROVE  MemoryInv(mm)
  <1>1. Heap(m) /\ l \in DOMAIN m.root BY DEF MemoryInv
  <1> DEFINE owned == Owned(m, Chain(m, l))
  <1>2. /\ Heap(mm)
        /\ DOMAIN mm.root = DOMAIN m.root
        /\ DOMAIN mm.node = DOMAIN m.node \ Range(Chain(m, l))
        /\ \A x \in DOMAIN mm.node : mm.node[x] = m.node[x]
        /\ mm.cell = Free(m.cell, owned)
    BY <1>1, FreeAllHeap
  <1> HIDE DEF owned
  <1>3. Links(mm, Nodes) BY <1>2 DEF MemoryInv, Links
  <1>4. DOMAIN mm.cell \subseteq Cells /\ \A x \in DOMAIN mm.cell : mm.cell[x] \in Data
    BY <1>2 DEF Free, MemoryInv
  <1>5. QED BY <1>2, <1>3, <1>4 DEF MemoryInv

(* Every step keeps the invariant.                                         *)
LEMMA InvStep == IInv /\ [Next]_vars => IInv'
  <1> SUFFICES ASSUME IInv, [Next]_vars PROVE IInv'
    OBVIOUS
  <1>1. MemoryInv(memory) /\ faulted \in BOOLEAN BY DEF IInv
  <1>2. CASE UNCHANGED vars
    BY <1>2 DEF vars, IInv
  <1>3. ASSUME NEW l \in Lists, NEW data \in Data, AddElement(l, data) PROVE IInv'
    <2>1. PICK n \in FreeNodes, c \in FreeCells :
            memory' = listAddElement(memory, l, n, c, data)
      BY <1>3 DEF AddElement
    <2>2. MemoryInv(memory') BY <1>1, <2>1, AddInv DEF FreeNodes, FreeCells
    <2>3. QED BY <1>1, <1>3, <2>2 DEF AddElement, IInv
  <1>4. ASSUME NEW l \in Lists, NEW num \in 0..memory.root[l].count, RemoveElement(l, num)
        PROVE  IInv'
    <2>1. memory.root[l].count \in Nat
      BY <1>1, HeapChain DEF MemoryInv
    <2>2. num \in Nat BY <2>1
    <2>3. MemoryInv(memory') BY <1>1, <1>4, <2>2, RemoveInv DEF RemoveElement
    <2>4. QED BY <1>1, <1>4, <2>3 DEF RemoveElement, IInv
  <1>5. ASSUME NEW l \in Lists, FreeAll(l) PROVE IInv'
    <2>1. MemoryInv(memory') BY <1>1, <1>5, FreeAllInv DEF FreeAll
    <2>2. QED BY <1>1, <1>5, <2>1 DEF FreeAll, IInv
  <1>6. CASE AddElementFault
    BY <1>1, <1>6 DEF AddElementFault, IInv
  <1>7. QED BY <1>2, <1>3, <1>4, <1>5, <1>6 DEF Next

(* The heap stays whole under any mix of calls.                            *)
THEOREM Invariance == Spec => []IInv
  BY InitInv, InvStep, PTL DEF Spec

----------------------------------------------------------------------------
(* A list is no longer than there are nodes: its nodes differ.             *)
LEMMA CountBounded ==
  ASSUME NEW m, MemoryInv(m), NEW l \in Lists
  PROVE  m.root[l].count \in 0..Cardinality(Nodes)
  <1> DEFINE ch == Chain(m, l)
             len == Len(ch)
  <1>1. /\ Holds(m, l, ch) /\ len \in Nat /\ m.root[l].count = len /\ DOMAIN ch = 1..len
        /\ Range(ch) \subseteq DOMAIN m.node
    BY HeapChain DEF MemoryInv
  <1>2. ch = [i \in 1..len |-> ch[i]] /\ \A i \in 1..len : ch[i] \in Nodes
    BY <1>1 DEF MemoryInv, Holds
  <1>3. \A i, j \in 1..len : i # j => ch[i] # ch[j] BY <1>1 DEF Holds
  <1> HIDE DEF ch, len
  <1>4. ch \in Injection(1..len, Nodes)
    BY <1>2, <1>3 DEF Injection, IsInjective
  <1>5. Cardinality(1..len) <= Cardinality(Nodes)
    BY <1>4, FS_Injection, ListConstantsOK
  <1>6. Cardinality(1..len) = len
    BY <1>1, FS_Interval
  <1>7. Cardinality(Nodes) \in Nat BY FS_CardinalityType, ListConstantsOK
  <1>8. QED BY <1>1, <1>5, <1>6, <1>7

(* The invariant says that the lists are well linked.                      *)
LEMMA InvWellLinked == IInv => WellLinked
  <1> SUFFICES ASSUME IInv PROVE WellLinked
    OBVIOUS
  <1> DEFINE m == memory
  <1>1. /\ MemoryInv(m) /\ Heap(m) /\ faulted \in BOOLEAN /\ DOMAIN m.root = Lists
        /\ DOMAIN m.node \subseteq Nodes /\ DOMAIN m.cell \subseteq Cells
        /\ \A c \in DOMAIN m.cell : m.cell[c] \in Data
    BY DEF IInv, MemoryInv
  <1>w. /\ m.root = [l \in Lists |-> [count |-> m.root[l].count, first |-> m.root[l].first,
                                      last |-> m.root[l].last]]
        /\ m.node = [x \in DOMAIN m.node |-> [next |-> m.node[x].next, prev |-> m.node[x].prev,
                                              data |-> m.node[x].data]]
        /\ m.cell = [c \in DOMAIN m.cell |-> m.cell[c]]
    BY <1>1 DEF Heap, WellFormed
  <1>2. ASSUME NEW l \in Lists
        PROVE  /\ Holds(m, l, Chain(m, l))
               /\ Len(Chain(m, l)) \in Nat
               /\ m.root[l].count = Len(Chain(m, l))
               /\ DOMAIN Chain(m, l) = 1..Len(Chain(m, l))
               /\ Range(Chain(m, l)) \subseteq DOMAIN m.node
               /\ m.root[l] = [count |-> m.root[l].count, first |-> m.root[l].first,
                               last |-> m.root[l].last]
    BY <1>1, <1>w, HeapChain
  <1> HIDE DEF m
  <1>3. ASSUME NEW l \in Lists PROVE m.root[l] \in Descriptor
    <2> DEFINE ch == Chain(m, l)
    <2>1. m.root[l].count \in 0..Cardinality(Nodes) BY <1>1, CountBounded
    <2>2. m.root[l].first \in Nodes \cup {Null} /\ m.root[l].last \in Nodes \cup {Null}
      <3>1. Holds(m, l, ch) /\ Len(ch) \in Nat
        BY <1>2
      <3> HIDE DEF ch
      <3>2. CASE ch = << >> BY <3>1, <3>2 DEF Holds
      <3>3. CASE ch # << >>
        <4>0. Len(ch) # 0 BY <3>1, <3>3 DEF Holds
        <4>1. 1 \in 1..Len(ch) /\ Len(ch) \in 1..Len(ch) BY <3>1, <4>0
        <4>2. \A i \in 1..Len(ch) : ch[i] \in Nodes BY <1>1, <3>1 DEF Holds
        <4>3. QED BY <3>1, <3>3, <4>1, <4>2 DEF Holds
      <3>4. QED BY <3>2, <3>3
    <2>3. m.root[l] = [count |-> m.root[l].count, first |-> m.root[l].first,
                       last |-> m.root[l].last]
      BY <1>2
    <2>4. QED BY <2>1, <2>2, <2>3 DEF Descriptor
  <1>4. ASSUME NEW x \in DOMAIN m.node PROVE m.node[x] \in ListNode
    <2>1. m.node[x] = [next |-> m.node[x].next, prev |-> m.node[x].prev,
                       data |-> m.node[x].data]
      BY <1>w
    <2>2. m.node[x].data \in Cells BY <1>1 DEF Heap
    <2>3. m.node[x].next \in Nodes \cup {Null} /\ m.node[x].prev \in Nodes \cup {Null}
      BY <1>1 DEF MemoryInv, Links
    <2>4. QED BY <2>1, <2>2, <2>3 DEF ListNode
  <1>5. TypeOK
    <2>1. m.root = [l \in Lists |-> m.root[l]] BY <1>w
    <2>2. m.root \in [Lists -> Descriptor] BY <1>3, <2>1
    <2>3. m.node = [x \in DOMAIN m.node |-> m.node[x]] BY <1>w
    <2>4. m.node \in [DOMAIN m.node -> ListNode] BY <1>4, <2>3
    <2>5. m.cell \in [DOMAIN m.cell -> Data] BY <1>1, <1>w
    <2>6. QED BY <1>1, <2>2, <2>4, <2>5 DEF TypeOK, m
  <1>6. ASSUME NEW l \in Lists
        PROVE  LET r  == m.root[l]
                   ch == Chain(m, l)
               IN /\ \A i \in DOMAIN ch :
                       /\ ch[i] \in DOMAIN m.node
                       /\ m.node[ch[i]].data \in DOMAIN m.cell
                       /\ m.node[ch[i]].prev = IF i = 1 THEN Null ELSE ch[i - 1]
                  /\ IF r.count = 0 THEN r = EmptyRoot
                     ELSE r.last = ch[r.count] /\ m.node[r.last].next = Null
    <2> DEFINE r  == m.root[l]
               ch == Chain(m, l)
    <2>1. /\ Holds(m, l, ch) /\ Len(ch) \in Nat /\ r.count = Len(ch) /\ DOMAIN ch = 1..Len(ch)
          /\ Range(ch) \subseteq DOMAIN m.node
          /\ r = [count |-> r.count, first |-> r.first, last |-> r.last]
      BY <1>2
    <2>2. Null \notin DOMAIN m.node BY <1>1 DEF Heap
    <2> HIDE DEF ch, r
    <2>3. ASSUME NEW i \in DOMAIN ch
          PROVE  /\ ch[i] \in DOMAIN m.node
                 /\ m.node[ch[i]].data \in DOMAIN m.cell
                 /\ m.node[ch[i]].prev = IF i = 1 THEN Null ELSE ch[i - 1]
      <3>1. i \in 1..Len(ch) BY <2>1
      <3>2. ch[i] \in DOMAIN m.node BY <2>1, <3>1 DEF Holds
      <3>3. m.node[ch[i]].data \in DOMAIN m.cell BY <1>1, <3>2 DEF Heap
      <3>4. QED BY <2>1, <3>1, <3>2, <3>3 DEF Holds
    <2>4. CASE r.count = 0
      <3>1. ch = << >> BY <2>1, <2>4 DEF Holds
      <3>2. r.first = Null /\ r.last = Null BY <2>1, <3>1 DEF Holds, r
      <3>3. r = EmptyRoot BY <2>1, <2>4, <3>2 DEF EmptyRoot
      <3>4. QED BY <2>3, <2>4, <3>3 DEF ch, r
    <2>5. CASE r.count # 0
      <3>1. ch # << >> /\ Len(ch) \in 1..Len(ch) BY <2>1, <2>5
      <3>2. r.last = ch[r.count] BY <2>1, <3>1 DEF Holds, r
      <3>3. m.node[r.last].next = Null BY <2>1, <3>1, <3>2 DEF Holds
      <3>4. QED BY <2>3, <2>5, <3>2, <3>3 DEF ch, r
    <2>6. QED BY <2>4, <2>5
  <1>7. ASSUME NEW l \in Lists, NEW k \in Lists, l # k,
               NEW i \in DOMAIN Chain(m, l), NEW j \in DOMAIN Chain(m, k)
        PROVE  Chain(m, l)[i] # Chain(m, k)[j]
    <2>1. Range(Chain(m, l)) \cap Range(Chain(m, k)) = {} BY <1>1, <1>7 DEF Heap
    <2>2. QED BY <2>1 DEF Range
  <1>8. QED BY <1>5, <1>6, <1>7 DEF WellLinked, m

(* Whatever was added, removed and freed before, every list is well linked *)
(* in both directions and shares no node with another (list.c).            *)
THEOREM AlwaysWellLinked == Spec => []WellLinked
  BY Invariance, InvWellLinked, PTL

----------------------------------------------------------------------------
(* The listed and the lost, of any memory.                                 *)
On(m, x) == \E l \in Lists : x \in Range(Chain(m, l))
LostNodesOf(m) == {x \in DOMAIN m.node : ~On(m, x)}
LostCellsOf(m) == {c \in DOMAIN m.cell : \A x : On(m, x) => m.node[x].data # c}

(* The two forms agree, before and after a step.                           *)
LEMMA LostAre ==
  /\ LostNodes = LostNodesOf(memory) /\ LostNodes' = LostNodesOf(memory')
  /\ LostCells = LostCellsOf(memory) /\ LostCells' = LostCellsOf(memory')
  <1> DEFINE Elements(m) == UNION {{Chain(m, l)[i] : i \in DOMAIN Chain(m, l)} : l \in Lists}
  <1>1. ASSUME NEW m, NEW x PROVE x \in Elements(m) <=> On(m, x)
    BY DEF On, Range
  <1>2. Listed = Elements(memory) /\ Listed' = Elements(memory') BY DEF Listed
  <1> HIDE DEF Elements
  <1>3. QED BY <1>1, <1>2 DEF LostNodes, LostCells, LostNodesOf, LostCellsOf

(* listAddElement loses nothing.                                           *)
LEMMA AddLosesNothing ==
  ASSUME NEW m, MemoryInv(m), NEW l \in Lists, NEW n \in Nodes \ DOMAIN m.node,
         NEW c \in Cells \ DOMAIN m.cell, NEW data,
         NEW mm, mm = listAddElement(m, l, n, c, data)
  PROVE  LostNodesOf(mm) \subseteq LostNodesOf(m) /\ LostCellsOf(mm) \subseteq LostCellsOf(m)
  <1>1. /\ Heap(m) /\ l \in DOMAIN m.root /\ n \notin DOMAIN m.node /\ n # Null
        /\ c \notin DOMAIN m.cell /\ DOMAIN m.root = Lists
    BY ListConstantsOK DEF MemoryInv
  <1>2. /\ Chain(mm, l) = Append(Chain(m, l), n)
        /\ \A k \in DOMAIN m.root : k # l => Chain(mm, k) = Chain(m, k)
        /\ DOMAIN mm.node = DOMAIN m.node \cup {n}
        /\ mm.node[n].data = c
        /\ \A x \in DOMAIN m.node : mm.node[x].data = m.node[x].data
        /\ mm.cell = Allocate(m.cell, c, data)
    BY <1>1, AddHeap
  <1>3. Range(Chain(mm, l)) = Range(Chain(m, l)) \cup {n}
    <2> DEFINE ch == Chain(m, l)
    <2>1. ch \in Seq(DOMAIN m.node) BY <1>1 DEF Heap, Holds
    <2> HIDE DEF ch
    <2>2. Range(Append(ch, n)) = Range(ch) \cup {n} BY <2>1, AppendProperties DEF Range
    <2>3. QED BY <1>2, <2>2 DEF ch
  <1>4. ASSUME NEW x PROVE On(mm, x) <=> On(m, x) \/ x = n
    BY <1>1, <1>2, <1>3 DEF On
  <1>5. ASSUME NEW x, On(m, x) PROVE x \in DOMAIN m.node
    BY <1>1, <1>5, HeapChain DEF On
  <1>6. LostNodesOf(mm) \subseteq LostNodesOf(m)
    BY <1>2, <1>4 DEF LostNodesOf
  <1>7. DOMAIN mm.cell = DOMAIN m.cell \cup {c} BY <1>2 DEF Allocate
  <1>8. LostCellsOf(mm) \subseteq LostCellsOf(m)
    BY <1>2, <1>4, <1>5, <1>7 DEF LostCellsOf
  <1>9. QED BY <1>6, <1>8

(* Nor does listFreeAll.                                                   *)
LEMMA FreeAllLosesNothing ==
  ASSUME NEW m, MemoryInv(m), NEW l \in Lists, NEW mm, mm = listFreeAll(m, l)
  PROVE  LostNodesOf(mm) \subseteq LostNodesOf(m) /\ LostCellsOf(mm) \subseteq LostCellsOf(m)
  <1>1. Heap(m) /\ l \in DOMAIN m.root /\ DOMAIN m.root = Lists BY DEF MemoryInv
  <1> DEFINE owned == Owned(m, Chain(m, l))
  <1>2. /\ Chain(mm, l) = << >>
        /\ \A k \in DOMAIN m.root : k # l => Chain(mm, k) = Chain(m, k)
        /\ DOMAIN mm.node = DOMAIN m.node \ Range(Chain(m, l))
        /\ \A x \in DOMAIN mm.node : mm.node[x] = m.node[x]
        /\ mm.cell = Free(m.cell, owned)
    BY <1>1, FreeAllHeap
  <1>3. DOMAIN mm.cell = DOMAIN m.cell \ owned
    <2> HIDE DEF owned
    <2>1. QED BY <1>2 DEF Free
  <1>4. Range(Chain(mm, l)) = {} BY <1>2 DEF Range
  <1>5. ASSUME NEW x, On(m, x) PROVE x \in Range(Chain(m, l)) \/ (On(mm, x) /\ x \in DOMAIN mm.node)
    <2>1. PICK k \in Lists : x \in Range(Chain(m, k)) BY <1>5 DEF On
    <2>2. x \in DOMAIN m.node BY <1>1, <2>1, HeapChain
    <2>3. CASE k = l BY <2>1, <2>3
    <2>4. CASE k # l
      <3>1. x \in Range(Chain(mm, k)) BY <1>1, <1>2, <2>1, <2>4
      <3>2. QED BY <1>2, <2>2, <3>1 DEF On
    <2>5. QED BY <2>3, <2>4
  <1>6. LostNodesOf(mm) \subseteq LostNodesOf(m)
    BY <1>2, <1>5 DEF LostNodesOf
  <1>7. ASSUME NEW c \in LostCellsOf(mm) PROVE c \in LostCellsOf(m)
    <2>1. c \in DOMAIN m.cell /\ c \notin owned BY <1>3 DEF LostCellsOf
    <2>2. ASSUME NEW x, On(m, x) PROVE m.node[x].data # c
      <3>1. CASE x \in Range(Chain(m, l)) BY <2>1, <3>1 DEF Owned
      <3>2. CASE On(mm, x) /\ x \in DOMAIN mm.node BY <1>2, <3>2 DEF LostCellsOf
      <3>3. QED BY <1>5, <2>2, <3>1, <3>2
    <2>3. QED BY <2>1, <2>2 DEF LostCellsOf
  <1>8. QED BY <1>6, <1>7

(* listRemoveElement loses a node in the middle only, and the block of the *)
(* node that it removes.                                                   *)
LEMMA RemoveLoses ==
  ASSUME NEW m, MemoryInv(m), NEW l \in Lists, NEW num \in Nat,
         NEW mm, mm = listRemoveElement(m, l, num)
  PROVE  /\ \A x \in LostNodesOf(mm) \ LostNodesOf(m) :
              /\ mm.root[l].count = m.root[l].count - 1
              /\ mm.root[l].first = m.root[l].first
              /\ mm.root[l].last = m.root[l].last
         /\ \A c \in LostCellsOf(mm) \ LostCellsOf(m) :
              /\ mm.root[l].count = m.root[l].count - 1
              /\ \E x \in DOMAIN m.node : m.node[x].data = c
  <1> DEFINE ch == Chain(m, l)
             len == Len(ch)
             i == num + 1
             w == Without(ch, i)
  <1>1. /\ Heap(m) /\ l \in DOMAIN m.root /\ Len(ch) \in Nat
        /\ Holds(m, l, ch) /\ DOMAIN m.root = Lists
    BY HeapChain DEF MemoryInv
  <1>2. CASE num >= len
    <2>1. mm = m BY <1>1, <1>2, RemoveBeyond
    <2>2. QED BY <2>1
  <1>3. CASE num < len
    <2>1. i \in 1..len /\ num = i - 1 BY <1>1, <1>3
    <2> HIDE DEF i
    <2>2. /\ Heap(mm)
          /\ Chain(mm, l) = w
          /\ DOMAIN mm.root = DOMAIN m.root
          /\ \A k \in DOMAIN m.root : k # l => Chain(mm, k) = Chain(m, k)
          /\ DOMAIN mm.node = DOMAIN m.node \ Freed(ch, i)
          /\ \A x \in DOMAIN mm.node : mm.node[x].data = m.node[x].data
          /\ mm.cell = m.cell
      BY <1>1, <2>1, RemoveHeap
    <2>3. Holds(mm, l, w) BY <1>1, <2>2, HeapChain
    <2>4. Range(w) = Range(ch) \ {ch[i]}
      <3> HIDE DEF ch
      <3>1. QED BY <1>1, <2>1, WithoutRange DEF len
    <2>5. mm.root[l].count = m.root[l].count - 1
      <3> HIDE DEF ch
      <3>1. Len(w) = Len(ch) - 1 BY <1>1, <2>1 DEF Without
      <3>2. QED BY <1>1, <2>3, <3>1 DEF Holds
    <2>6. ASSUME NEW x, On(m, x) PROVE On(mm, x) \/ x = ch[i]
      <3>1. PICK k \in Lists : x \in Range(Chain(m, k)) BY <2>6 DEF On
      <3>2. CASE k = l
        <4>1. x \in Range(Chain(mm, l)) \/ x = ch[i] BY <2>2, <2>4, <3>1, <3>2
        <4>2. QED BY <4>1 DEF On
      <3>3. CASE k # l
        <4>1. x \in Range(Chain(mm, k)) BY <1>1, <2>2, <3>1, <3>3
        <4>2. QED BY <4>1 DEF On
      <3>4. QED BY <3>2, <3>3
    <2>7. ch[i] \in DOMAIN m.node
      <3> HIDE DEF ch
      <3>1. QED BY <1>1, <2>1 DEF Holds, len
    <2>8. ASSUME NEW x \in LostNodesOf(mm) \ LostNodesOf(m)
          PROVE  mm.root[l].first = m.root[l].first /\ mm.root[l].last = m.root[l].last
      <3>1. x = ch[i] /\ x \notin Freed(ch, i) BY <2>2, <2>6, <2>8 DEF LostNodesOf
      <3> HIDE DEF ch
      <3>2. i # 1 /\ i # len BY <3>1 DEF Freed
      <3> HIDE DEF len
      <3>3. 1 < i /\ i < len /\ len \in Nat /\ i \in Nat BY <1>1, <2>1, <3>2 DEF len
      <3>4. /\ w # << >> /\ Len(w) = len - 1 /\ w[1] = ch[1] /\ w[Len(w)] = ch[len]
        <4>1. /\ DOMAIN w = 1..(len - 1) /\ Len(w) = len - 1
              /\ \A j \in 1..(len - 1) : w[j] = IF j < i THEN ch[j] ELSE ch[j + 1]
          BY <2>1, <3>3 DEF Without, len
        <4> HIDE DEF w
        <4>0. 1 \in 1..(len - 1) /\ len - 1 # 0 BY <3>3
        <4>2. w[1] = ch[1] BY <3>3, <4>0, <4>1
        <4>3. w[len - 1] = ch[(len - 1) + 1] /\ (len - 1) + 1 = len BY <2>1, <3>3, <4>1
        <4>4. w # << >>
          <5>1. Len(w) # 0 BY <4>0, <4>1
          <5>2. QED BY <5>1
        <4>5. QED BY <4>1, <4>2, <4>3, <4>4
      <3>5. ch # << >>
        <4>1. Len(ch) # 0 BY <3>3 DEF len
        <4>2. QED BY <4>1
      <3>6. QED BY <1>1, <2>3, <3>4, <3>5 DEF Holds, len
    <2>9. ASSUME NEW c \in LostCellsOf(mm) \ LostCellsOf(m)
          PROVE  \E x \in DOMAIN m.node : m.node[x].data = c
      <3>1. PICK x : On(m, x) /\ m.node[x].data = c BY <2>2, <2>9 DEF LostCellsOf
      <3>2. x \in DOMAIN m.node BY <1>1, <3>1, HeapChain DEF On
      <3>3. QED BY <3>1, <3>2
    <2>10. QED BY <2>5, <2>8, <2>9
  <1>4. QED BY <1>1, <1>2, <1>3

(* Every step leaks as the action property says.                           *)
LEMMA StepLeaks == IInv /\ [Next]_vars => [OnlyRemovalsLeak]_memory
  <1> SUFFICES ASSUME IInv, [Next]_vars PROVE [OnlyRemovalsLeak]_memory
    OBVIOUS
  <1>1. MemoryInv(memory) BY DEF IInv
  <1>2. CASE UNCHANGED memory BY <1>2
  <1>3. ASSUME NEW l \in Lists, NEW data \in Data, AddElement(l, data)
        PROVE  OnlyRemovalsLeak
    <2>1. PICK n \in FreeNodes, c \in FreeCells :
            memory' = listAddElement(memory, l, n, c, data)
      BY <1>3 DEF AddElement
    <2>2. /\ LostNodesOf(memory') \subseteq LostNodesOf(memory)
          /\ LostCellsOf(memory') \subseteq LostCellsOf(memory)
      BY <1>1, <2>1, AddLosesNothing DEF FreeNodes, FreeCells
    <2>3. QED BY <2>2, LostAre DEF OnlyRemovalsLeak
  <1>4. ASSUME NEW l \in Lists, NEW num \in 0..memory.root[l].count, RemoveElement(l, num)
        PROVE  OnlyRemovalsLeak
    <2>1. memory.root[l].count \in Nat BY <1>1, HeapChain DEF MemoryInv
    <2>2. num \in Nat /\ memory' = listRemoveElement(memory, l, num)
      BY <1>4, <2>1 DEF RemoveElement
    <2>3. /\ \A x \in LostNodesOf(memory') \ LostNodesOf(memory) :
               /\ memory'.root[l].count = memory.root[l].count - 1
               /\ memory'.root[l].first = memory.root[l].first
               /\ memory'.root[l].last = memory.root[l].last
          /\ \A c \in LostCellsOf(memory') \ LostCellsOf(memory) :
               /\ memory'.root[l].count = memory.root[l].count - 1
               /\ \E x \in DOMAIN memory.node : memory.node[x].data = c
      BY <1>1, <2>2, RemoveLoses
    <2>4. QED BY <2>3, LostAre DEF OnlyRemovalsLeak
  <1>5. ASSUME NEW l \in Lists, FreeAll(l) PROVE OnlyRemovalsLeak
    <2>1. /\ LostNodesOf(memory') \subseteq LostNodesOf(memory)
          /\ LostCellsOf(memory') \subseteq LostCellsOf(memory)
      BY <1>1, <1>5, FreeAllLosesNothing DEF FreeAll
    <2>2. QED BY <2>1, LostAre DEF OnlyRemovalsLeak
  <1>6. QED BY <1>2, <1>3, <1>4, <1>5 DEF Next, vars, AddElementFault

(* A node is lost only when listRemoveElement takes it out from between    *)
(* two others, a data block only when it removes its node; listAddElement  *)
(* and listFreeAll lose nothing.                                           *)
THEOREM LeaksKnown == Spec => LeakSources
  <1>1. IInv /\ [Next]_vars => [OnlyRemovalsLeak]_memory BY StepLeaks
  <1>2. QED BY <1>1, Invariance, PTL DEF Spec, LeakSources

----------------------------------------------------------------------------
(* The refinement.                                                         *)
SeqsOf(m) == [l \in Lists |-> Stored(m, Chain(m, l))]

(* What the contract sees of the memory.                                   *)
LEMMA SeqsAre ==
  ASSUME MemoryInv(memory), MemoryInv(memory')
  PROVE  /\ [l \in Lists |-> Contents(l)] = SeqsOf(memory)
         /\ [l \in Lists |-> Contents(l)]' = SeqsOf(memory')
  <1>1. ASSUME NEW m, MemoryInv(m), NEW l \in Lists
        PROVE  DOMAIN Chain(m, l) = 1..Len(Chain(m, l))
    BY <1>1, HeapChain DEF MemoryInv
  <1>2. ASSUME NEW l \in Lists
        PROVE  Contents(l) = Stored(memory, Chain(memory, l))
    BY <1>1 DEF Contents, Stored
  <1>3. ASSUME NEW l \in Lists
        PROVE  Contents(l)' = Stored(memory', Chain(memory', l))
    BY <1>1 DEF Contents, Stored
  <1>4. QED BY <1>2, <1>3 DEF SeqsOf

(* The contents of a list are a sequence of as many data as it counts.     *)
LEMMA StoredLen ==
  ASSUME NEW m, MemoryInv(m), NEW l \in Lists
  PROVE  /\ Stored(m, Chain(m, l)) \in Seq(Data)
         /\ Len(Stored(m, Chain(m, l))) = m.root[l].count
         /\ m.root[l].count \in Nat
         /\ DOMAIN Stored(m, Chain(m, l)) = 1..m.root[l].count
  <1> DEFINE ch == Chain(m, l)
             s == Stored(m, ch)
  <1>1. /\ Len(ch) \in Nat /\ m.root[l].count = Len(ch)
        /\ Range(ch) = {ch[i] : i \in 1..Len(ch)} /\ Range(ch) \subseteq DOMAIN m.node
    BY HeapChain DEF MemoryInv
  <1> HIDE DEF ch
  <1>2. ASSUME NEW i \in 1..Len(ch) PROVE m.cell[m.node[ch[i]].data] \in Data
    <2>1. ch[i] \in DOMAIN m.node BY <1>1
    <2>2. m.node[ch[i]].data \in DOMAIN m.cell BY <2>1 DEF MemoryInv, Heap
    <2>3. QED BY <2>2 DEF MemoryInv
  <1>3. s \in Seq(Data) /\ Len(s) = Len(ch) /\ DOMAIN s = 1..Len(ch)
    BY <1>1, <1>2 DEF Stored
  <1>4. QED BY <1>1, <1>3 DEF ch

(* Two ways to leave out the i-th element.                                 *)
LEMMA RemoveAtIsWithout ==
  ASSUME NEW T, NEW s \in Seq(T), NEW i \in 1..Len(s)
  PROVE  SubSeq(s, 1, i - 1) \o SubSeq(s, i + 1, Len(s)) = Without(s, i)
  <1> DEFINE len == Len(s)
             a == SubSeq(s, 1, i - 1)
             b == SubSeq(s, i + 1, Len(s))
             w == Without(s, i)
  <1>1. len \in Nat /\ i \in Nat /\ 1 <= i /\ i <= len OBVIOUS
  <1>2. \A j \in 1..len : s[j] \in T BY DEF len
  <1>3. a \in Seq(T) /\ Len(a) = i - 1 /\ \A j \in 1..(i - 1) : a[j] = s[j]
    BY <1>1, SubSeqProperties DEF len
  <1>4. b \in Seq(T) /\ Len(b) = len - i /\ \A j \in 1..(len - i) : b[j] = s[j + i]
    BY <1>1, SubSeqProperties DEF len
  <1>5. /\ Len(w) = len - 1 /\ w = [j \in 1..(len - 1) |-> w[j]]
        /\ \A j \in 1..(len - 1) : w[j] = IF j < i THEN s[j] ELSE s[j + 1]
    BY <1>1 DEF Without, len
  <1> HIDE DEF a, b, w, len
  <1>6. w \in Seq(T)
    <2>1. \A j \in 1..(len - 1) : w[j] \in T BY <1>1, <1>2, <1>5
    <2>2. QED BY <1>1, <1>5, <2>1
  <1>7. /\ a \o b \in Seq(T) /\ Len(a \o b) = len - 1
        /\ \A j \in 1..(len - 1) : (a \o b)[j] = IF j <= i - 1 THEN a[j] ELSE b[j - (i - 1)]
    BY <1>1, <1>3, <1>4, ConcatProperties
  <1>8. ASSUME NEW j \in 1..(len - 1) PROVE (a \o b)[j] = w[j]
    <2>1. CASE j < i
      <3>1. j \in 1..(i - 1) /\ j <= i - 1 BY <1>1, <2>1
      <3>2. QED BY <1>3, <1>5, <1>7, <2>1, <3>1
    <2>2. CASE ~(j < i)
      <3>1. j - (i - 1) \in 1..(len - i) /\ ~(j <= i - 1) /\ (j - (i - 1)) + i = j + 1
        BY <1>1, <2>2
      <3>2. b[j - (i - 1)] = s[j + 1] BY <1>4, <3>1
      <3>3. QED BY <1>5, <1>7, <2>2, <3>1, <3>2
    <2>3. QED BY <2>1, <2>2
  <1>9. a \o b = w BY <1>5, <1>6, <1>7, <1>8, SeqEqual
  <1>10. QED BY <1>9 DEF a, b, w

(* listAddElement appends in the contract's picture.                       *)
LEMMA AddAppends ==
  ASSUME NEW m, MemoryInv(m), NEW l \in Lists, NEW n \in Nodes \ DOMAIN m.node,
         NEW c \in Cells \ DOMAIN m.cell, NEW data,
         NEW mm, mm = listAddElement(m, l, n, c, data)
  PROVE  SeqsOf(mm) = [SeqsOf(m) EXCEPT ![l] = Append(@, data)]
  <1>1. /\ Heap(m) /\ l \in DOMAIN m.root /\ n \notin DOMAIN m.node /\ n # Null
        /\ c \notin DOMAIN m.cell /\ DOMAIN m.root = Lists
    BY ListConstantsOK DEF MemoryInv
  <1>2. /\ Stored(mm, Chain(mm, l)) = Append(Stored(m, Chain(m, l)), data)
        /\ \A k \in Lists : k # l => Stored(mm, Chain(mm, k)) = Stored(m, Chain(m, k))
    BY <1>1, AddStores
  <1>3. QED BY <1>2 DEF SeqsOf

(* listRemoveElement removes the element it was asked for.                 *)
LEMMA RemoveRemovesNth ==
  ASSUME NEW m, MemoryInv(m), NEW l \in Lists, NEW i \in 1..m.root[l].count,
         NEW num, num = i - 1, NEW mm, mm = listRemoveElement(m, l, num)
  PROVE  SeqsOf(mm) = [SeqsOf(m) EXCEPT ![l] = SubSeq(@, 1, i - 1) \o SubSeq(@, i + 1, Len(@))]
  <1> DEFINE s == Stored(m, Chain(m, l))
  <1>1. /\ Heap(m) /\ l \in DOMAIN m.root /\ DOMAIN m.root = Lists
        /\ i \in 1..Len(Chain(m, l)) /\ s \in Seq(Data) /\ i \in 1..Len(s)
    BY HeapChain, StoredLen DEF MemoryInv
  <1>2. /\ Stored(mm, Chain(mm, l)) = Without(s, i)
        /\ \A k \in Lists : k # l => Stored(mm, Chain(mm, k)) = Stored(m, Chain(m, k))
    BY <1>1, RemoveStores
  <1>3. SeqsOf(m)[l] = s BY DEF SeqsOf
  <1> HIDE DEF s
  <1>4. Without(s, i) = SubSeq(s, 1, i - 1) \o SubSeq(s, i + 1, Len(s))
    BY <1>1, RemoveAtIsWithout
  <1>5. QED BY <1>2, <1>3, <1>4 DEF SeqsOf

(* listFreeAll empties.                                                    *)
LEMMA FreeAllClears ==
  ASSUME NEW m, MemoryInv(m), NEW l \in Lists, NEW mm, mm = listFreeAll(m, l)
  PROVE  SeqsOf(mm) = [SeqsOf(m) EXCEPT ![l] = << >>]
  <1>1. Heap(m) /\ l \in DOMAIN m.root /\ DOMAIN m.root = Lists BY DEF MemoryInv
  <1>2. /\ Stored(mm, Chain(mm, l)) = << >>
        /\ \A k \in Lists : k # l => Stored(mm, Chain(mm, k)) = Stored(m, Chain(m, k))
    BY <1>1, FreeAllStores
  <1>3. QED BY <1>2 DEF SeqsOf

(* The three calls, seen through the contents.                             *)
LEMMA CallsRefine ==
  ASSUME IInv, IInv', NEW l \in Lists
  PROVE  /\ \A d \in Data : AddElement(l, d) => Contract!Add(l, d)
         /\ \A num \in 0..(memory.root[l].count - 1) :
              RemoveElement(l, num) => Contract!RemoveNth(l, num + 1)
         /\ FreeAll(l) => Contract!Clear(l)
  <1> DEFINE seqs == [k \in Lists |-> Contents(k)]
  <1>1. MemoryInv(memory) /\ MemoryInv(memory') BY DEF IInv
  <1>2. seqs = SeqsOf(memory) /\ seqs' = SeqsOf(memory') BY <1>1, SeqsAre
  <1>3. SeqsOf(memory)[l] = Stored(memory, Chain(memory, l)) BY DEF SeqsOf
  <1> HIDE DEF seqs
  <1>4. ASSUME NEW d \in Data, AddElement(l, d) PROVE Contract!Add(l, d)
    <2>1. PICK n \in FreeNodes, c \in FreeCells :
            memory' = listAddElement(memory, l, n, c, d)
      BY <1>4 DEF AddElement
    <2>2. SeqsOf(memory') = [SeqsOf(memory) EXCEPT ![l] = Append(@, d)]
      BY <1>1, <2>1, AddAppends DEF FreeNodes, FreeCells
    <2>3. seqs' = [seqs EXCEPT ![l] = Append(@, d)] BY <1>2, <2>2
    <2>4. QED BY <2>3 DEF Contract!Add, seqs
  <1>5. ASSUME NEW num \in 0..(memory.root[l].count - 1), RemoveElement(l, num)
        PROVE  Contract!RemoveNth(l, num + 1)
    <2> DEFINE i == num + 1
    <2>1. memory.root[l].count \in Nat BY <1>1, StoredLen
    <2>2. i \in 1..memory.root[l].count /\ num = i - 1 BY <2>1
    <2> HIDE DEF i
    <2>3. SeqsOf(memory') = [SeqsOf(memory) EXCEPT ![l] =
                              SubSeq(@, 1, i - 1) \o SubSeq(@, i + 1, Len(@))]
      BY <1>1, <1>5, <2>2, RemoveRemovesNth DEF RemoveElement
    <2>4. seqs' = [seqs EXCEPT ![l] = SubSeq(@, 1, i - 1) \o SubSeq(@, i + 1, Len(@))]
      BY <1>2, <2>3
    <2>5. i \in DOMAIN seqs[l] BY <1>1, <1>2, <1>3, <2>2, StoredLen
    <2>6. Contract!RemoveNth(l, i)
      BY <2>4, <2>5 DEF Contract!RemoveNth, Contract!RemoveAt, seqs
    <2>7. QED BY <2>6 DEF i
  <1>6. ASSUME FreeAll(l) PROVE Contract!Clear(l)
    <2>1. SeqsOf(memory') = [SeqsOf(memory) EXCEPT ![l] = << >>]
      BY <1>1, <1>6, FreeAllClears DEF FreeAll
    <2>2. seqs' = [seqs EXCEPT ![l] = << >>] BY <1>2, <2>1
    <2>3. QED BY <2>2 DEF Contract!Clear, seqs
  <1>7. QED BY <1>4, <1>5, <1>6

(* The empty heap is the contract's initial state.                         *)
LEMMA InitRefines == Init => Contract!Init
  <1> SUFFICES ASSUME Init PROVE Contract!Init
    OBVIOUS
  <1>1. MemoryInv(memory) BY InitInv DEF IInv
  <1>2. ASSUME NEW l \in Lists PROVE Contents(l) = << >>
    <2>1. memory.root[l].count = 0 BY DEF Init, EmptyRoot
    <2>2. DOMAIN Chain(memory, l) = {} BY <2>1 DEF Chain
    <2>3. QED BY <2>2 DEF Contents
  <1>3. QED BY <1>2 DEF Contract!Init

(* Every step is one of the contract, or none.                             *)
LEMMA StepRefines ==
  ASSUME IInv, IInv', [Next]_vars
  PROVE  [Contract!Next]_([l \in Lists |-> Contents(l)]) /\ [CallsFollowContract]_vars
  <1> DEFINE seqs == [l \in Lists |-> Contents(l)]
  <1>1. MemoryInv(memory) /\ MemoryInv(memory') BY DEF IInv
  <1>2. seqs = SeqsOf(memory) /\ seqs' = SeqsOf(memory') BY <1>1, SeqsAre
  <1>3. CallsFollowContract BY CallsRefine DEF CallsFollowContract
  <1> HIDE DEF seqs
  <1>4. [Contract!Next]_seqs
    <2>1. CASE memory' = memory BY <1>2, <2>1
    <2>2. ASSUME NEW l \in Lists, NEW d \in Data, AddElement(l, d) PROVE Contract!Next
      <3>1. Contract!Add(l, d) BY <2>2, CallsRefine
      <3>2. QED BY <3>1 DEF Contract!Next
    <2>3. ASSUME NEW l \in Lists, NEW num \in 0..memory.root[l].count, RemoveElement(l, num)
          PROVE  [Contract!Next]_seqs
      <3>1. /\ memory.root[l].count = Len(Chain(memory, l)) /\ memory.root[l].count \in Nat
            /\ Holds(memory, l, Chain(memory, l))
        BY <1>1, HeapChain DEF MemoryInv
      <3>2. CASE num = memory.root[l].count
        <4>1. listRemoveElement(memory, l, num) = memory BY <3>1, <3>2, RemoveBeyond
        <4>2. QED BY <2>1, <2>3, <4>1 DEF RemoveElement
      <3>3. CASE num \in 0..(memory.root[l].count - 1)
        <4>1. Contract!RemoveNth(l, num + 1) BY <2>3, <3>3, CallsRefine
        <4>2. num + 1 \in DOMAIN seqs[l]
          BY <4>1 DEF Contract!RemoveNth, seqs
        <4>3. QED BY <4>1, <4>2 DEF Contract!Next, seqs
      <3>4. QED BY <3>1, <3>2, <3>3
    <2>4. ASSUME NEW l \in Lists, FreeAll(l) PROVE Contract!Next
      <3>1. Contract!Clear(l) BY <2>4, CallsRefine
      <3>2. QED BY <3>1 DEF Contract!Next
    <2>5. QED BY <2>1, <2>2, <2>3, <2>4 DEF Next, vars, AddElementFault
  <1>5. QED BY <1>3, <1>4 DEF seqs

(* Each list is a sequence of its own: the calls append the data they were *)
(* given, remove the element they were asked for, or empty the list, and   *)
(* leave every other list alone, in one heap with reused addresses.        *)
THEOREM Refinement == Spec => ImplementsContract
  <1>1. Init => Contract!Init BY InitRefines
  <1>2. IInv /\ IInv' /\ [Next]_vars =>
          [Contract!Next]_([l \in Lists |-> Contents(l)]) /\ [CallsFollowContract]_vars
    BY StepRefines
  <1>3. QED BY <1>1, <1>2, Invariance, PTL DEF Spec, ImplementsContract, Contract!Spec
=============================================================================
