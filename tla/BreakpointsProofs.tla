-------------------------- MODULE BreakpointsProofs --------------------------
(***************************************************************************)
(* What Breakpoints promises, for any number of addresses, breakpoints and *)
(* failures of malloc, however the debuggee runs between the requests.     *)
(***************************************************************************)
EXTENDS Breakpoints, DataProofs

(* The inductive invariant: the list is a list (DataProofs); and what is   *)
(* known of the breakpoint on the stack while it is being set.             *)
MemoryInv(m) ==
  /\ Heap(m)
  /\ DOMAIN m.root = {L}
  /\ DOMAIN m.node \subseteq Nodes /\ DOMAIN m.cell \subseteq Cells
  /\ \A c \in DOMAIN m.cell : m.cell[c] \in Breakpoint

(* Its id is taken.  Once its byte is read, the byte is the debuggee's,    *)
(* with the exceptions of OpcodeSaved; once written, the Int3 is there,    *)
(* with those of Planted.                                                  *)
SettingInv ==
  /\ Setting => bp \in Breakpoint /\ bp.id < nextId
  /\ pc \in {"write", "add"} =>
       (bp.address \notin left \cup touched /\ <<"read", bp.address>> \notin refused
          => bp.opcode = own[bp.address])
  /\ pc = "add" =>
       (bp.address \notin touched /\ <<"write", bp.address>> \notin refused
          => mem[bp.address] = Int3)

IInv ==
  /\ MemoryInv(memory)
  /\ TypeOK
  /\ SettingInv
  /\ OnePerAddress /\ IdsAscend /\ OpcodeSaved /\ Planted

(* The entries of the list, of any memory.                                 *)
EntriesOf(m) == Stored(m, Chain(m, L))

(* They are as many as the list counts, and each is a breakpoint.          *)
LEMMA EntriesAre ==
  ASSUME NEW m, MemoryInv(m)
  PROVE  /\ EntriesOf(m) = [i \in 1..m.root[L].count |-> m.cell[m.node[NodeAt(m, L, i - 1)].data]]
         /\ Len(EntriesOf(m)) = m.root[L].count
         /\ m.root[L].count = Len(Chain(m, L))
         /\ Len(EntriesOf(m)) \in Nat
         /\ DOMAIN EntriesOf(m) = 1..Len(EntriesOf(m))
         /\ EntriesOf(m) \in Seq(Breakpoint)
         /\ \A i \in 1..Len(EntriesOf(m)) : EntriesOf(m)[i] \in Breakpoint
  <1> DEFINE ch == Chain(m, L)
             n == m.root[L].count
  <1>1. /\ Len(ch) \in Nat /\ n = Len(ch) /\ Holds(m, L, ch)
        /\ Range(ch) = {ch[i] : i \in 1..Len(ch)} /\ Range(ch) \subseteq DOMAIN m.node
    BY HeapChain DEF MemoryInv
  <1>2. ASSUME NEW i \in 1..n PROVE ch[i] = NodeAt(m, L, i - 1) BY DEF Chain
  <1> HIDE DEF ch
  <1>3. ASSUME NEW i \in 1..n PROVE m.cell[m.node[ch[i]].data] \in Breakpoint
    <2>1. ch[i] \in DOMAIN m.node BY <1>1
    <2>2. m.node[ch[i]].data \in DOMAIN m.cell BY <2>1 DEF MemoryInv, Heap
    <2>3. QED BY <2>2 DEF MemoryInv
  <1>4. EntriesOf(m) = [i \in 1..n |-> m.cell[m.node[ch[i]].data]]
    BY <1>1 DEF EntriesOf, Stored, ch
  <1>5. EntriesOf(m) = [i \in 1..n |-> m.cell[m.node[NodeAt(m, L, i - 1)].data]]
    BY <1>2, <1>4
  <1>6. /\ Len(EntriesOf(m)) = n /\ DOMAIN EntriesOf(m) = 1..n
        /\ EntriesOf(m) \in Seq(Breakpoint)
        /\ \A i \in 1..n : EntriesOf(m)[i] \in Breakpoint
    BY <1>1, <1>3, <1>4
  <1>7. QED BY <1>1, <1>5, <1>6 DEF ch

(* The same of Entries, before a step,                                     *)
LEMMA EntriesNow ==
  ASSUME MemoryInv(memory)
  PROVE  /\ Entries = EntriesOf(memory)
         /\ Entries \in Seq(Breakpoint)
         /\ Len(Entries) \in Nat
         /\ Len(Entries) = memory.root[L].count
         /\ DOMAIN Entries = 1..Len(Entries)
         /\ \A i \in 1..Len(Entries) : Entries[i] \in Breakpoint
  <1>1. Entries = EntriesOf(memory) BY EntriesAre DEF Entries, DataAt
  <1>2. QED BY <1>1, EntriesAre

(* and after it.                                                           *)
LEMMA EntriesNext ==
  ASSUME MemoryInv(memory')
  PROVE  /\ Entries' = EntriesOf(memory')
         /\ Entries' \in Seq(Breakpoint)
         /\ Len(Entries') \in Nat
         /\ DOMAIN Entries' = 1..Len(Entries')
         /\ \A i \in 1..Len(Entries') : Entries'[i] \in Breakpoint
  <1>1. Entries' = EntriesOf(memory') BY EntriesAre DEF Entries, DataAt
  <1>2. QED BY <1>1, EntriesAre

(* The part of TypeOK that is about the list.                              *)
LEMMA CellType ==
  ASSUME NEW m, MemoryInv(m)
  PROVE  /\ DOMAIN m.node \subseteq Nodes /\ DOMAIN m.cell \subseteq Cells
         /\ m.cell \in [DOMAIN m.cell -> Breakpoint]
  <1>1. m.cell = [c \in DOMAIN m.cell |-> m.cell[c]] BY DEF MemoryInv, Heap, WellFormed
  <1>2. QED BY <1>1 DEF MemoryInv

(* What a breakpoint is, for the proofs about its fields.                  *)
LEMMA BreakpointFields ==
  ASSUME NEW b \in Breakpoint
  PROVE  /\ b.id \in 0..MaxId /\ b.address \in Addrs /\ b.hits \in Hits
         /\ b.opcode \in Bytes \cup {Int3, NoOpcode}
         /\ b = [id |-> b.id, address |-> b.address, hits |-> b.hits, opcode |-> b.opcode]
  BY DEF Breakpoint

(* A step that leaves the heap alone leaves the breakpoints alone.         *)
LEMMA MemoryStays ==
  ASSUME IInv, UNCHANGED memory
  PROVE  MemoryInv(memory') /\ Entries' = Entries
  BY DEF IInv, Entries, DataAt

(* The invariant holds at first.                                           *)
LEMMA InitInv == Init => IInv
  <1> SUFFICES ASSUME Init PROVE IInv
    OBVIOUS
  <1> DEFINE m == memory
  <1>1. /\ m = [node |-> m.node, cell |-> m.cell, root |-> m.root]
        /\ m.node = [n \in {} |-> Null] /\ m.cell = [c \in {} |-> Null]
        /\ m.root = [l \in {L} |-> EmptyRoot]
    BY DEF Init, listInit
  <1> HIDE DEF m
  <1>2. DOMAIN m.node = {} /\ DOMAIN m.cell = {} /\ DOMAIN m.root = {L}
    BY <1>1
  <1>3. Holds(m, L, << >>) /\ Chain(m, L) = << >>
    <2>1. Holds(m, L, << >>) BY <1>1, <1>2 DEF Holds, EmptyRoot
    <2>2. QED BY <2>1, ChainOf
  <1>4. WellFormed(m)
    <2>1. m.root[L] = [count |-> m.root[L].count, first |-> m.root[L].first,
                       last |-> m.root[L].last]
      BY <1>1 DEF EmptyRoot
    <2>2. QED BY <1>1, <1>2, <2>1 DEF WellFormed
  <1>5. Heap(m) BY <1>2, <1>3, <1>4 DEF Heap
  <1>6. MemoryInv(memory) BY <1>2, <1>5 DEF MemoryInv, m
  <1>7. DOMAIN Entries = {}
    <2>1. m.root[L].count = 0 BY <1>1 DEF EmptyRoot
    <2>2. QED BY <2>1 DEF Entries, m
  <1>8. TypeOK
    <2>1. /\ mem \in [Addrs -> Bytes \cup {Int3, Unmapped}]
          /\ own \in [Addrs -> Bytes \cup {Unmapped}]
          /\ nextId \in 0..MaxId
      BY BreakConstantsOK DEF Init
    <2>2. QED BY <1>6, <2>1, CellType DEF Init, TypeOK
  <1>9. SettingInv BY DEF Init, SettingInv, Setting
  <1>10. ~(\E a \in Addrs : Listed(a)) /\ ~Setting BY <1>7 DEF Listed, Init, Setting
  <1>11. OnePerAddress /\ IdsAscend /\ OpcodeSaved
    BY <1>7, <1>10 DEF OnePerAddress, IdsAscend, OpcodeSaved
  <1>12. Planted BY <1>10 DEF Init, Planted
  <1>13. QED BY <1>6, <1>8, <1>9, <1>11, <1>12 DEF IInv

----------------------------------------------------------------------------
(* The requests of DbgSetBreakpoint.                                       *)
LEMMA SetBreakpointStep ==
  ASSUME IInv, NEW a \in Addrs, SetBreakpoint(a)
  PROVE  IInv'
  <1> USE DEF SetBreakpoint, debuggeeVars
  <1>1. /\ MemoryInv(memory') /\ Entries' = Entries
        /\ UNCHANGED <<memory, mem, own, left, touched>>
    BY MemoryStays
  <1>2. bp' \in Breakpoint /\ bp'.address = a /\ bp'.id = nextId /\ nextId \in 0..MaxId
    BY DEF IInv, TypeOK, Breakpoint, Hits
  <1>3. /\ nextId' = nextId + 1 /\ nextId' \in 0..MaxId /\ bp'.id < nextId'
        /\ pc = "idle" /\ pc' = "read" /\ ~Setting /\ Setting'
    BY <1>2, BreakConstantsOK DEF Setting
  <1>r. /\ refused' = refused \ {<<"read", a>>, <<"write", a>>}
        /\ \A b, request : b # a => (<<request, b>> \in refused' <=> <<request, b>> \in refused)
    OBVIOUS
  <1>4. \A b \in Addrs : Listed(b)' <=> Listed(b) BY <1>1 DEF Listed
  <1>5. TypeOK' BY <1>1, <1>2, <1>3, <1>r, CellType DEF IInv, TypeOK
  <1>6. SettingInv' BY <1>2, <1>3 DEF SettingInv
  <1>7. OnePerAddress'
    BY <1>1, <1>2, <1>4 DEF IInv, OnePerAddress
  <1>8. IdsAscend'
    BY <1>1, <1>2, <1>3 DEF IInv, IdsAscend
  <1>9. OpcodeSaved'
    <2>1. \A i \in DOMAIN Entries : Entries[i].address # a BY DEF Listed
    <2>2. QED BY <1>1, <1>r, <2>1 DEF IInv, OpcodeSaved
  <1>10. Planted' BY <1>1, <1>3, <1>4, <1>r DEF IInv, Planted
  <1>11. QED BY <1>1, <1>5, <1>6, <1>7, <1>8, <1>9, <1>10 DEF IInv

(* What a request that fails does, in the proofs of both.                  *)
LEMMA FailedRequest ==
  ASSUME NEW request \in {"read", "write"}, Fail(request), bp.address \in Addrs,
         refused \subseteq Requests
  PROVE  /\ UNCHANGED <<mem, bp>>
         /\ refused \subseteq refused' /\ refused' \subseteq Requests
         /\ <<request, bp.address>> \in refused'
         /\ \A other, b : other # request \/ b # bp.address =>
              (<<other, b>> \in refused' <=> <<other, b>> \in refused)
  BY DEF Fail, Requests

(* DBG_REQ_READ of the byte, which may fail (break.c).                     *)
LEMMA ReadOpcodeStep ==
  ASSUME IInv, ReadOpcode
  PROVE  IInv'
  <1> DEFINE a == bp.address
  <1>1. /\ MemoryInv(memory') /\ Entries' = Entries
        /\ UNCHANGED <<memory, mem, own, left, nextId>>
        /\ pc = "read" /\ pc' = "write" /\ Setting /\ Setting'
        /\ touched' = touched \ {a}
    BY MemoryStays DEF ReadOpcode, Setting, Fail
  <1>2. bp \in Breakpoint /\ bp.id < nextId /\ a \in Addrs /\ ~Listed(a)
    BY <1>1, BreakpointFields DEF IInv, SettingInv, OnePerAddress
  <1>3. /\ bp' \in Breakpoint /\ bp'.id = bp.id /\ bp'.address = a
        /\ <<"read", a>> \in refused' \/ bp'.opcode = mem[a]
        /\ refused \subseteq refused' /\ refused' \subseteq Requests
    <2>0. refused \subseteq Requests BY DEF IInv, TypeOK
    <2>1. CASE Fail("read") BY <1>2, <2>0, <2>1, FailedRequest
    <2>2. CASE /\ mem[a] # Unmapped /\ bp' = [bp EXCEPT !.opcode = mem[a]]
               /\ UNCHANGED <<mem, refused>>
      <3>1. mem[a] \in Bytes \cup {Int3} BY <1>2, <2>2 DEF IInv, TypeOK
      <3>2. QED BY <1>2, <2>0, <2>2, <3>1 DEF Breakpoint
    <2>3. QED BY <2>1, <2>2 DEF ReadOpcode
  <1>4. \A b \in Addrs : Listed(b)' <=> Listed(b) BY <1>1 DEF Listed
  <1>5. TypeOK' BY <1>1, <1>3, CellType DEF IInv, TypeOK
  <1>6. SettingInv'
    <2>1. a \notin left => mem[a] = own[a]
      BY <1>1, <1>2 DEF IInv, Planted
    <2>2. QED BY <1>1, <1>2, <1>3, <2>1 DEF SettingInv
  <1>7. OnePerAddress' BY <1>1, <1>2, <1>3, <1>4 DEF IInv, OnePerAddress
  <1>8. IdsAscend' BY <1>1, <1>3 DEF IInv, IdsAscend
  <1>9. OpcodeSaved'
    <2>1. \A i \in DOMAIN Entries : Entries[i].address # a BY <1>2 DEF Listed
    <2>2. QED BY <1>1, <1>3, <2>1 DEF IInv, OpcodeSaved
  <1>10. Planted' BY <1>1, <1>2, <1>3, <1>4 DEF IInv, Planted
  <1>11. QED BY <1>1, <1>5, <1>6, <1>7, <1>8, <1>9, <1>10 DEF IInv

(* DBG_REQ_WRITE of the Int3, which may fail too.                          *)
LEMMA WriteInt3Step ==
  ASSUME IInv, WriteInt3
  PROVE  IInv'
  <1> DEFINE a == bp.address
  <1>1. /\ MemoryInv(memory') /\ Entries' = Entries
        /\ UNCHANGED <<memory, own, left, touched, nextId, bp>>
        /\ pc = "write" /\ pc' = "add" /\ Setting /\ Setting'
    BY MemoryStays DEF WriteInt3, Setting, Fail
  <1>2. bp \in Breakpoint /\ bp.id < nextId /\ a \in Addrs /\ ~Listed(a)
    BY <1>1, BreakpointFields DEF IInv, SettingInv, OnePerAddress
  <1>3. /\ mem' \in [Addrs -> Bytes \cup {Int3, Unmapped}]
        /\ \A b \in Addrs : b # a => mem'[b] = mem[b]
        /\ mem'[a] = Int3 \/ (mem'[a] = mem[a] /\ <<"write", a>> \in refused')
        /\ refused \subseteq refused' /\ refused' \subseteq Requests
        /\ <<"read", a>> \in refused' => <<"read", a>> \in refused
    <2>0. refused \subseteq Requests /\ mem \in [Addrs -> Bytes \cup {Int3, Unmapped}]
      BY DEF IInv, TypeOK
    <2>1. CASE Fail("write") BY <1>2, <2>0, <2>1, FailedRequest
    <2>2. CASE mem' = [mem EXCEPT ![a] = Int3] /\ UNCHANGED refused BY <1>2, <2>0, <2>2
    <2>3. QED BY <2>1, <2>2 DEF WriteInt3
  <1>4. \A b \in Addrs : Listed(b)' <=> Listed(b) BY <1>1 DEF Listed
  <1>5. TypeOK' BY <1>1, <1>3, CellType DEF IInv, TypeOK
  <1>6. SettingInv' BY <1>1, <1>3 DEF IInv, SettingInv
  <1>7. OnePerAddress' BY <1>1, <1>2, <1>4 DEF IInv, OnePerAddress
  <1>8. IdsAscend' BY <1>1 DEF IInv, IdsAscend
  <1>9. OpcodeSaved' BY <1>1, <1>3 DEF IInv, OpcodeSaved
  <1>10. Planted'
    <2>1. ASSUME NEW b \in Addrs, mem'[b] # own[b]
          PROVE  mem'[b] = Int3 /\ (Listed(b) \/ b \in left \/ b = a)
      <3>1. CASE b = a /\ mem'[a] = mem[a]
        BY <1>2, <2>1, <3>1 DEF IInv, Planted
      <3>2. CASE b = a /\ mem'[a] = Int3 BY <3>2
      <3>3. CASE b # a BY <1>1, <1>3, <2>1, <3>3 DEF IInv, Planted
      <3>4. QED BY <1>3, <3>1, <3>2, <3>3
    <2>2. ASSUME NEW b \in Addrs, Listed(b), b \notin touched, <<"write", b>> \notin refused'
          PROVE  mem'[b] = Int3
      BY <1>2, <1>3, <2>2 DEF IInv, Planted
    <2>3. QED BY <1>1, <1>4, <2>1, <2>2 DEF Planted
  <1>11. QED BY <1>1, <1>5, <1>6, <1>7, <1>8, <1>9, <1>10 DEF IInv

(* The debuggee changes the memory at one address between two requests.    *)
LEMMA DebuggeeStep ==
  ASSUME IInv, Debuggee
  PROVE  IInv'
  <1>1. /\ MemoryInv(memory') /\ Entries' = Entries
        /\ UNCHANGED <<memory, nextId, pc, bp, refused>> /\ Setting' = Setting
    BY MemoryStays DEF Debuggee, Setting
  <1>2. PICK a \in Addrs : /\ Unmap(a) \/ \E b \in Bytes : Store(a, b) \/ Map(a, b)
                           /\ left' = left \ {a} /\ touched' = touched \cup {a}
    BY DEF Debuggee
  <1>3. PICK v \in Bytes \cup {Unmapped} :
          mem' = [mem EXCEPT ![a] = v] /\ own' = [own EXCEPT ![a] = v]
    BY <1>2 DEF Unmap, Store, Map
  <1>4. /\ mem' \in [Addrs -> Bytes \cup {Int3, Unmapped}]
        /\ own' \in [Addrs -> Bytes \cup {Unmapped}]
        /\ mem'[a] = v /\ own'[a] = v
        /\ \A b \in Addrs : b # a => mem'[b] = mem[b] /\ own'[b] = own[b]
    BY <1>3 DEF IInv, TypeOK
  <1>5. \A b \in Addrs : Listed(b)' <=> Listed(b) BY <1>1 DEF Listed
  <1>6. TypeOK' BY <1>1, <1>2, <1>4, CellType DEF IInv, TypeOK
  <1>7. SettingInv'
    <2>1. Setting => bp.address \in Addrs
      BY BreakpointFields DEF IInv, SettingInv
    <2>2. QED BY <1>1, <1>2, <1>4, <2>1 DEF IInv, SettingInv, Setting
  <1>8. OnePerAddress'
    <2>1. Setting => bp.address \in Addrs
      BY BreakpointFields DEF IInv, SettingInv
    <2>2. QED BY <1>1, <1>5, <2>1 DEF IInv, OnePerAddress
  <1>9. IdsAscend' BY <1>1 DEF IInv, IdsAscend
  <1>10. OpcodeSaved'
    <2>1. \A i \in DOMAIN Entries : Entries[i].address \in Addrs
      BY EntriesNow, BreakpointFields DEF IInv
    <2>2. QED BY <1>1, <1>2, <1>4, <2>1 DEF IInv, OpcodeSaved
  <1>11. Planted' BY <1>1, <1>2, <1>4, <1>5 DEF IInv, Planted
  <1>12. QED BY <1>1, <1>6, <1>7, <1>8, <1>9, <1>10, <1>11 DEF IInv

(* listAddElement of the breakpoint on the stack.                          *)
LEMMA AddedEntries ==
  ASSUME MemoryInv(memory), bp \in Breakpoint,
         NEW n \in Nodes \ DOMAIN memory.node, NEW c \in Cells \ DOMAIN memory.cell,
         memory' = listAddElement(memory, L, n, c, bp)
  PROVE  /\ MemoryInv(memory')
         /\ Entries' = Append(Entries, bp)
         /\ DOMAIN Entries' = 1..(Len(Entries) + 1)
         /\ \A i \in DOMAIN Entries : Entries'[i] = Entries[i]
         /\ Entries'[Len(Entries) + 1] = bp
  <1> DEFINE m == memory
             mm == memory'
  <1>1. /\ Heap(m) /\ L \in DOMAIN m.root /\ n \notin DOMAIN m.node /\ n # Null
        /\ c \notin DOMAIN m.cell
    BY BreakConstantsOK DEF MemoryInv
  <1>2. /\ Heap(mm)
        /\ DOMAIN mm.root = DOMAIN m.root
        /\ DOMAIN mm.node = DOMAIN m.node \cup {n}
        /\ mm.cell = Allocate(m.cell, c, bp)
    BY <1>1, AddHeap
  <1>3. MemoryInv(mm) BY <1>2 DEF MemoryInv, Allocate
  <1>4. EntriesOf(mm) = Append(EntriesOf(m), bp) BY <1>1, AddStores DEF EntriesOf
  <1>5. Entries' = Append(Entries, bp) BY <1>3, <1>4, EntriesNow, EntriesNext
  <1>6. QED BY <1>3, <1>5, EntriesNow, AppendProperties

(* The breakpoint becomes the last of the list, or malloc fails.           *)
LEMMA AddToListStep ==
  ASSUME IInv, AddToList
  PROVE  IInv'
  <1> DEFINE a == bp.address
             len == Len(Entries)
  <1>1. /\ UNCHANGED <<mem, own, touched, nextId, refused>> /\ bp' = NoBreakpoint
        /\ pc = "add" /\ pc' \in {"idle", "crashed"} /\ Setting /\ ~Setting'
    BY DEF AddToList, Setting
  <1>2. /\ bp \in Breakpoint /\ bp.id < nextId /\ a \in Addrs /\ ~Listed(a)
        /\ bp.id \in 0..MaxId
    BY <1>1, BreakpointFields DEF IInv, SettingInv, OnePerAddress
  <1>3. SettingInv' BY <1>1 DEF SettingInv, Setting
  <1>n. len \in Nat /\ DOMAIN Entries = 1..len BY EntriesNow DEF IInv
  <1>i. nextId \in Nat /\ \A i \in 1..len : Entries[i].id \in Nat
    BY EntriesNow, BreakpointFields, BreakConstantsOK DEF IInv, TypeOK
  <1>4. CASE \E n \in Nodes \ DOMAIN memory.node, c \in Cells \ DOMAIN memory.cell :
               /\ memory' = listAddElement(memory, L, n, c, bp)
               /\ pc' = "idle" /\ UNCHANGED left
    <2>1. PICK n \in Nodes \ DOMAIN memory.node, c \in Cells \ DOMAIN memory.cell :
               /\ memory' = listAddElement(memory, L, n, c, bp)
               /\ pc' = "idle" /\ UNCHANGED left
      BY <1>4
    <2>2. /\ MemoryInv(memory') /\ DOMAIN Entries' = 1..(len + 1)
          /\ \A i \in 1..len : Entries'[i] = Entries[i]
          /\ Entries'[len + 1] = bp
      BY <1>2, <1>n, <2>1, AddedEntries DEF IInv
    <2>3. \A i \in 1..(len + 1) : i \in 1..len \/ i = len + 1 BY <1>n
    <2>4. len + 1 \in DOMAIN Entries' /\ \A i \in 1..len : i \in DOMAIN Entries' BY <1>n, <2>2
    <2> HIDE DEF len
    <2>5. ASSUME NEW b \in Addrs PROVE Listed(b)' <=> Listed(b) \/ b = a
      BY <1>n, <2>2, <2>3, <2>4 DEF Listed
    <2>6. TypeOK' BY <1>1, <2>1, <2>2, CellType DEF IInv, TypeOK
    <2>7. OnePerAddress'
      <3>1. ASSUME NEW i \in DOMAIN Entries', NEW j \in DOMAIN Entries', i # j
            PROVE  Entries'[i].address # Entries'[j].address
        <4>1. \A k \in 1..len : Entries[k].address # a BY <1>2, <1>n DEF Listed
        <4>2. CASE i \in 1..len /\ j \in 1..len
          BY <1>n, <2>2, <3>1, <4>2 DEF IInv, OnePerAddress
        <4>3. CASE i = len + 1 /\ j \in 1..len BY <2>2, <4>1, <4>3
        <4>4. CASE i \in 1..len /\ j = len + 1 BY <2>2, <4>1, <4>4
        <4>5. QED BY <2>2, <2>3, <3>1, <4>2, <4>3, <4>4
      <3>2. QED BY <1>1, <3>1 DEF OnePerAddress
    <2>8. IdsAscend'
      <3>0. \A k \in 1..len : Entries[k].id < bp.id
        BY <1>1, <1>n DEF IInv, IdsAscend
      <3>1. ASSUME NEW i \in DOMAIN Entries', NEW j \in DOMAIN Entries', i < j
            PROVE  Entries'[i].id < Entries'[j].id
        <4>1. CASE j \in 1..len
          <5>1. i \in 1..len BY <1>n, <2>2, <3>1, <4>1
          <5>2. Entries[i].id < Entries[j].id BY <1>n, <3>1, <4>1, <5>1 DEF IInv, IdsAscend
          <5>3. QED BY <2>2, <4>1, <5>1, <5>2
        <4>2. CASE j = len + 1
          <5>1. i \in 1..len BY <1>n, <2>2, <3>1, <4>2
          <5>2. QED BY <2>2, <3>0, <4>2, <5>1
        <4>3. QED BY <2>2, <2>3, <4>1, <4>2
      <3>2. ASSUME NEW i \in DOMAIN Entries' PROVE Entries'[i].id < nextId'
        <4>1. CASE i = len + 1 BY <1>1, <1>2, <2>2, <4>1
        <4>2. CASE i \in 1..len
          <5>1. Entries[i].id < bp.id /\ Entries[i].id \in Nat /\ bp.id \in Nat
            BY <1>2, <1>i, <3>0, <4>2 DEF len
          <5>2. QED BY <1>1, <1>2, <1>i, <2>2, <4>2, <5>1
        <4>3. QED BY <2>2, <2>3, <4>1, <4>2
      <3>3. QED BY <1>1, <3>1, <3>2 DEF IdsAscend
    <2>9. OpcodeSaved'
      <3>1. ASSUME NEW i \in DOMAIN Entries'
            PROVE  Entries'[i].address \notin left \cup touched /\ <<"read", Entries'[i].address>> \notin refused
                     => Entries'[i].opcode = own[Entries'[i].address]
        <4>1. CASE i = len + 1 BY <1>1, <2>2, <4>1 DEF IInv, SettingInv
        <4>2. CASE i \in 1..len BY <1>n, <2>2, <4>2 DEF IInv, OpcodeSaved
        <4>3. QED BY <2>2, <2>3, <4>1, <4>2
      <3>2. QED BY <1>1, <2>1, <3>1 DEF OpcodeSaved
    <2>10. Planted'
      <3>1. ASSUME NEW b \in Addrs, mem[b] # own[b]
            PROVE  mem[b] = Int3 /\ (Listed(b)' \/ b \in left)
        BY <1>1, <2>5, <3>1 DEF IInv, Planted
      <3>2. ASSUME NEW b \in Addrs, Listed(b)', b \notin touched, <<"write", b>> \notin refused
            PROVE  mem[b] = Int3
        BY <1>1, <2>5, <3>2 DEF IInv, Planted, SettingInv
      <3>3. QED BY <1>1, <2>1, <3>1, <3>2 DEF Planted
    <2>11. QED BY <1>3, <2>2, <2>6, <2>7, <2>8, <2>9, <2>10 DEF IInv
  <1>5. CASE Abandon(a) /\ UNCHANGED memory
    <2>1. MemoryInv(memory') /\ Entries' = Entries BY <1>5, MemoryStays
    <2>2. \A b \in Addrs : Listed(b)' <=> Listed(b) BY <2>1 DEF Listed
    <2>3. left' = IF mem[a] # own[a] THEN left \cup {a} ELSE left BY <1>5 DEF Abandon
    <2>4. TypeOK' BY <1>1, <1>2, <1>5, <2>1, <2>3, CellType DEF IInv, TypeOK
    <2>5. OnePerAddress' BY <1>1, <2>1 DEF IInv, OnePerAddress
    <2>6. IdsAscend'
      <3>1. ASSUME NEW i \in 1..len PROVE Entries[i].id < nextId
        <4>1. Entries[i].id < bp.id BY <1>1, <1>n DEF IInv, IdsAscend
        <4>2. Entries[i].id \in Nat /\ bp.id \in Nat BY <1>2, <1>i
        <4>3. QED BY <1>2, <1>i, <4>1, <4>2
      <3>2. QED BY <1>1, <1>n, <2>1, <3>1 DEF IInv, IdsAscend
    <2>7. OpcodeSaved' BY <1>1, <2>1, <2>3 DEF IInv, OpcodeSaved
    <2>8. Planted' BY <1>1, <2>2, <2>3 DEF IInv, Planted
    <2>9. QED BY <1>3, <2>1, <2>4, <2>5, <2>6, <2>7, <2>8 DEF IInv
  <1>6. QED BY <1>4, <1>5 DEF AddToList

----------------------------------------------------------------------------
(* The other services.                                                     *)
LEMMA SetHitCountStep ==
  ASSUME IInv, NEW hits \in Hits, SetHitCount(hits)
  PROVE  IInv'
  <1> DEFINE m == memory
             Hit(c) == \E i \in DOMAIN Entries : DataAt(i) = c
             cell1 == [c \in DOMAIN m.cell |->
                         IF Hit(c) THEN [m.cell[c] EXCEPT !.hits = hits] ELSE m.cell[c]]
             mm == [node |-> m.node, cell |-> cell1, root |-> m.root]
  <1>1. MemoryInv(m) BY DEF IInv
  <1>2. m = [node |-> m.node, cell |-> m.cell, root |-> m.root]
    BY <1>1 DEF MemoryInv, Heap, WellFormed
  <1>3. memory' = mm
    <2>1. memory' = [m EXCEPT !.cell = cell1] BY DEF SetHitCount
    <2> HIDE DEF cell1
    <2>2. QED BY <1>2, <2>1
  <1>4. DOMAIN cell1 = DOMAIN m.cell /\ cell1 = [c \in DOMAIN m.cell |-> cell1[c]]
    <2> HIDE DEF Hit
    <2>1. QED OBVIOUS
  <1>5. ASSUME NEW c \in DOMAIN m.cell
        PROVE  /\ cell1[c] \in Breakpoint
               /\ cell1[c].id = m.cell[c].id /\ cell1[c].address = m.cell[c].address
               /\ cell1[c].opcode = m.cell[c].opcode
    <2> HIDE DEF Hit
    <2>1. m.cell[c] \in Breakpoint BY <1>1 DEF MemoryInv
    <2>2. cell1[c] = IF Hit(c) THEN [m.cell[c] EXCEPT !.hits = hits] ELSE m.cell[c]
      OBVIOUS
    <2> HIDE DEF cell1
    <2>3. QED BY <2>1, <2>2 DEF Breakpoint
  <1> HIDE DEF cell1
  <1>6. /\ Heap(mm) /\ \A l \in DOMAIN m.root : Chain(mm, l) = Chain(m, l)
    BY <1>1, <1>4, CellsChange DEF MemoryInv
  <1>7. MemoryInv(mm)
    BY <1>1, <1>4, <1>5, <1>6 DEF MemoryInv
  <1>8. Chain(mm, L) = Chain(m, L) BY <1>1, <1>6 DEF MemoryInv
  <1>9. /\ DOMAIN Entries' = DOMAIN Entries
        /\ \A i \in DOMAIN Entries :
             /\ Entries'[i].id = Entries[i].id /\ Entries'[i].address = Entries[i].address
             /\ Entries'[i].opcode = Entries[i].opcode
    <2> DEFINE ch == Chain(m, L)
    <2>1. Entries = EntriesOf(m) /\ Entries' = EntriesOf(mm) /\ DOMAIN Entries = 1..Len(ch)
      BY <1>1, <1>3, <1>7, EntriesNow, EntriesNext, EntriesAre
    <2>2. ASSUME NEW i \in 1..Len(ch) PROVE m.node[ch[i]].data \in DOMAIN m.cell
      <3>1. ch[i] \in DOMAIN m.node BY <1>1, HeapChain DEF MemoryInv
      <3>2. QED BY <1>1, <3>1 DEF MemoryInv, Heap
    <2> HIDE DEF ch
    <2>3. /\ EntriesOf(m) = [i \in 1..Len(ch) |-> m.cell[m.node[ch[i]].data]]
          /\ EntriesOf(mm) = [i \in 1..Len(ch) |-> cell1[m.node[ch[i]].data]]
      BY <1>8 DEF EntriesOf, Stored, ch
    <2>4. QED BY <1>5, <2>1, <2>2, <2>3
  <1>10. /\ UNCHANGED <<mem, own, left, touched, nextId, pc, bp, refused>> /\ Setting' = Setting
         /\ MemoryInv(memory')
    BY <1>3, <1>7 DEF SetHitCount, debuggeeVars, Setting
  <1> HIDE DEF mm
  <1>11. \A b : Listed(b)' <=> Listed(b) BY <1>9 DEF Listed
  <1>12. TypeOK' BY <1>10, CellType DEF IInv, TypeOK
  <1>13. SettingInv' BY <1>10 DEF IInv, SettingInv
  <1>14. OnePerAddress' BY <1>9, <1>10, <1>11 DEF IInv, OnePerAddress
  <1>15. IdsAscend' BY <1>9, <1>10 DEF IInv, IdsAscend
  <1>16. OpcodeSaved' BY <1>9, <1>10 DEF IInv, OpcodeSaved
  <1>17. Planted' BY <1>10, <1>11 DEF IInv, Planted
  <1>18. QED BY <1>10, <1>12, <1>13, <1>14, <1>15, <1>16, <1>17 DEF IInv

(* DbgRemoveBreakpoint takes one breakpoint off the list and leaves its    *)
(* Int3 in the debuggee.                                                   *)
LEMMA RemoveBreakpointStep ==
  ASSUME IInv, NEW r \in DOMAIN Entries, RemoveBreakpoint(r)
  PROVE  IInv'
  <1> DEFINE m == memory
             a == Entries[r].address
             len == Len(Entries)
  <1>1. MemoryInv(m) BY DEF IInv
  <1>n. /\ len \in Nat /\ DOMAIN Entries = 1..len /\ r \in 1..len
        /\ Entries = EntriesOf(m) /\ len = Len(Chain(m, L))
        /\ \A i \in 1..len : Entries[i] \in Breakpoint
    BY <1>1, EntriesNow, EntriesAre
  <1>2. /\ UNCHANGED <<mem, own, touched, nextId, pc, bp, refused>> /\ Setting' = Setting
        /\ ~Setting /\ pc # "add"
        /\ left' = IF mem[a] # own[a] THEN left \cup {a} ELSE left
        /\ memory' = listRemoveElement(m, L, r - 1)
    BY DEF RemoveBreakpoint, Setting, Abandon
  <1>3. a \in Addrs BY <1>n, BreakpointFields
  <1>4. /\ Heap(memory') /\ DOMAIN memory'.root = DOMAIN m.root
        /\ DOMAIN memory'.node = DOMAIN m.node \ Freed(Chain(m, L), r)
        /\ memory'.cell = m.cell
    BY <1>1, <1>2, <1>n, RemoveHeap DEF MemoryInv
  <1>5. MemoryInv(memory') BY <1>1, <1>4 DEF MemoryInv
  <1>6. EntriesOf(memory') = Without(EntriesOf(m), r)
    BY <1>1, <1>2, <1>n, RemoveStores DEF MemoryInv, EntriesOf
  <1>7. Entries' = Without(Entries, r) BY <1>5, <1>6, <1>n, EntriesNext
  <1>8. /\ DOMAIN Entries' = 1..(len - 1)
        /\ \A i \in 1..(len - 1) : Entries'[i] = IF i < r THEN Entries[i] ELSE Entries[i + 1]
    BY <1>7 DEF Without
  <1> DEFINE old(i) == IF i < r THEN i ELSE i + 1
  <1> HIDE DEF len, a
  <1>9. ASSUME NEW i \in DOMAIN Entries'
        PROVE  /\ i \in Nat /\ old(i) \in 1..len /\ old(i) # r /\ Entries'[i] = Entries[old(i)]
    BY <1>8, <1>n
  <1>10. ASSUME NEW i \in DOMAIN Entries', NEW j \in DOMAIN Entries', i < j
         PROVE  old(i) < old(j)
    BY <1>8, <1>10, <1>n
  <1>11. ASSUME NEW i \in 1..len, i # r PROVE \E j \in DOMAIN Entries' : old(j) = i
    <2>1. CASE i < r
      <3>1. i \in DOMAIN Entries' /\ old(i) = i BY <1>8, <1>n, <2>1
      <3>2. QED BY <3>1
    <2>2. CASE i > r
      <3>1. i - 1 \in DOMAIN Entries' /\ old(i - 1) = i BY <1>8, <1>n, <2>2
      <3>2. QED BY <3>1
    <2>3. QED BY <1>11, <1>n, <2>1, <2>2
  <1> HIDE DEF old
  <1>12. ASSUME NEW b PROVE Listed(b) => Listed(b)' \/ b = a
    <2>1. ASSUME NEW i \in 1..len, Entries[i].address = b, b # a PROVE Listed(b)'
      <3>1. i # r BY <2>1 DEF a
      <3>2. PICK j \in DOMAIN Entries' : old(j) = i BY <1>11, <3>1
      <3>3. Entries'[j].address = b BY <1>9, <2>1, <3>2
      <3>4. QED BY <3>3 DEF Listed
    <2>2. QED BY <1>n, <2>1 DEF Listed
  <1>13. ASSUME NEW b PROVE Listed(b)' => Listed(b)
    BY <1>9, <1>n DEF Listed
  <1>14. TypeOK' BY <1>2, <1>3, <1>5, CellType DEF IInv, TypeOK
  <1>15. SettingInv' BY <1>2 DEF SettingInv, Setting
  <1>16. OnePerAddress'
    <2>1. ASSUME NEW i \in DOMAIN Entries', NEW j \in DOMAIN Entries', i # j
          PROVE  Entries'[i].address # Entries'[j].address
      <3>1. i \in Nat /\ j \in Nat BY <1>9
      <3>2. old(i) \in 1..len /\ old(j) \in 1..len BY <1>9
      <3>3. old(i) # old(j)
        <4>1. CASE i < j
          <5>1. old(i) < old(j) BY <1>10, <4>1
          <5>2. QED BY <3>2, <5>1
        <4>2. CASE j < i
          <5>1. old(j) < old(i) BY <1>10, <4>2
          <5>2. QED BY <3>2, <5>1
        <4>3. QED BY <2>1, <3>1, <4>1, <4>2
      <3>4. Entries[old(i)].address # Entries[old(j)].address
        BY <1>n, <3>2, <3>3 DEF IInv, OnePerAddress
      <3>5. QED BY <1>9, <3>4
    <2>2. QED BY <1>2, <2>1 DEF OnePerAddress
  <1>17. IdsAscend'
    <2>1. ASSUME NEW i \in DOMAIN Entries', NEW j \in DOMAIN Entries', i < j
          PROVE  Entries'[i].id < Entries'[j].id
      <3>1. old(i) < old(j) /\ old(i) \in 1..len /\ old(j) \in 1..len
        BY <1>9, <1>10, <2>1
      <3>2. Entries[old(i)].id < Entries[old(j)].id
        BY <1>n, <3>1 DEF IInv, IdsAscend
      <3>3. QED BY <1>9, <3>2
    <2>2. ASSUME NEW i \in DOMAIN Entries' PROVE Entries'[i].id < nextId
      BY <1>2, <1>9, <1>n DEF IInv, IdsAscend
    <2>3. QED BY <1>2, <2>1, <2>2 DEF IdsAscend
  <1>18. OpcodeSaved'
    <2>1. ASSUME NEW i \in DOMAIN Entries'
          PROVE  Entries'[i].address \notin left' \cup touched /\ <<"read", Entries'[i].address>> \notin refused
                   => Entries'[i].opcode = own[Entries'[i].address]
      <3>1. Entries'[i] = Entries[old(i)] /\ old(i) \in DOMAIN Entries BY <1>9, <1>n
      <3>2. left \subseteq left' BY <1>2
      <3>3. QED BY <3>1, <3>2 DEF IInv, OpcodeSaved
    <2>2. QED BY <1>2, <2>1 DEF OpcodeSaved
  <1>19. Planted'
    <2>1. ASSUME NEW b \in Addrs, mem[b] # own[b]
          PROVE  mem[b] = Int3 /\ (Listed(b)' \/ b \in left')
      BY <1>2, <1>12, <2>1 DEF IInv, Planted
    <2>2. ASSUME NEW b \in Addrs, Listed(b)', b \notin touched, <<"write", b>> \notin refused
          PROVE  mem[b] = Int3
      BY <1>13, <2>2 DEF IInv, Planted
    <2>3. QED BY <1>2, <2>1, <2>2 DEF Planted
  <1>20. QED BY <1>5, <1>14, <1>15, <1>16, <1>17, <1>18, <1>19 DEF IInv

----------------------------------------------------------------------------
(* Every step keeps the invariant.                                         *)
LEMMA InvStep == IInv /\ [Next]_vars => IInv'
  <1> SUFFICES ASSUME IInv, [Next]_vars PROVE IInv'
    OBVIOUS
  <1>1. CASE UNCHANGED vars
    <2>1. MemoryInv(memory') /\ Entries' = Entries
          /\ UNCHANGED <<memory, mem, own, nextId, pc, bp, left, touched, refused>>
      BY <1>1, MemoryStays DEF vars
    <2>2. \A a : Listed(a)' <=> Listed(a) BY <2>1 DEF Listed
    <2>3. Setting' = Setting BY <2>1 DEF Setting
    <2>4. TypeOK' /\ SettingInv' BY <2>1 DEF IInv, TypeOK, SettingInv, Setting
    <2>5. OnePerAddress' /\ IdsAscend' /\ OpcodeSaved'
      BY <2>1, <2>2, <2>3 DEF IInv, OnePerAddress, IdsAscend, OpcodeSaved
    <2>6. Planted' BY <2>1, <2>2 DEF IInv, Planted
    <2>7. QED BY <2>1, <2>4, <2>5, <2>6 DEF IInv
  <1>2. CASE Next
    <2>1. CASE \E a \in Addrs : SetBreakpoint(a) BY <2>1, SetBreakpointStep
    <2>2. CASE ReadOpcode BY <2>2, ReadOpcodeStep
    <2>3. CASE WriteInt3 BY <2>3, WriteInt3Step
    <2>4. CASE AddToList BY <2>4, AddToListStep
    <2>5. CASE \E h \in Hits \ {"garbage"} : SetHitCount(h) BY <2>5, SetHitCountStep
    <2>6. CASE \E i \in DOMAIN Entries : RemoveBreakpoint(i) BY <2>6, RemoveBreakpointStep
    <2>7. CASE Debuggee BY <2>7, DebuggeeStep
    <2>8. QED BY <1>2, <2>1, <2>2, <2>3, <2>4, <2>5, <2>6, <2>7 DEF Next, Call
  <1>3. QED BY <1>1, <1>2

(* The invariant holds in every state.                                     *)
THEOREM Invariance == Spec => []IInv
  BY InitInv, InvStep, PTL DEF Spec

(* The heap, the debuggee's memory and the call in progress stay within    *)
(* their types, whatever malloc and the debuggee do.                       *)
THEOREM TypeCorrect == Spec => []TypeOK
  <1>1. IInv => TypeOK BY DEF IInv
  <1>2. QED BY <1>1, Invariance, PTL

(* DbgSetBreakpoint never leaves two breakpoints of one address (break.c). *)
THEOREM AddressesUnique == Spec => []OnePerAddress
  <1>1. IInv => OnePerAddress BY DEF IInv
  <1>2. QED BY <1>1, Invariance, PTL

(* The ids ascend along the list, below the counter (break.c:15).          *)
THEOREM IdsUnique == Spec => []IdsAscend
  <1>1. IInv => IdsAscend BY DEF IInv
  <1>2. QED BY <1>1, Invariance, PTL

(* A breakpoint holds the debuggee's byte, with the stated exceptions      *)
(* (break.c:39).                                                           *)
THEOREM BytesSaved == Spec => []OpcodeSaved
  <1>1. IInv => OpcodeSaved BY DEF IInv
  <1>2. QED BY <1>1, Invariance, PTL

(* Every byte ndbg has changed is an Int3 of a breakpoint or one left      *)
(* behind, and the Int3 of a breakpoint is there and stays unless its      *)
(* write failed (break.c:41).                                              *)
THEOREM Int3Planted == Spec => []Planted
  <1>1. IInv => Planted BY DEF IInv
  <1>2. QED BY <1>1, Invariance, PTL
=============================================================================
