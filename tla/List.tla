-------------------------------- MODULE List --------------------------------
(***************************************************************************)
(* The doubly linked lists of list.c, as operators from one memory to the  *)
(* next.  A memory m has                                                   *)
(*                                                                         *)
(*   m.node : the listNode blocks that are allocated, by address,          *)
(*   m.cell : the data blocks that are allocated, by address,              *)
(*   m.root : the list descriptors, by name.                               *)
(*                                                                         *)
(* A freed address is outside the domain of its function, and may be       *)
(* allocated again.                                                        *)
(***************************************************************************)
EXTENDS Naturals

Null == "null"

EmptyRoot == [count |-> 0, first |-> Null, last |-> Null]

Allocate(f, x, v) == [y \in DOMAIN f \cup {x} |-> IF y = x THEN v ELSE f[y]]
Free(f, S)        == [x \in DOMAIN f \ S |-> f[x]]

(* The node reached by following next num times from the first one.        *)
NodeAt(m, l, num) ==
  LET walk[i \in 0..num] == IF i = 0 THEN m.root[l].first
                                     ELSE m.node[walk[i - 1]].next
  IN walk[num]

(* The nodes of the list, in order.                                        *)
Chain(m, l) == [i \in 1..m.root[l].count |-> NodeAt(m, l, i - 1)]

listInit(m, l) == [m EXCEPT !.root[l] = EmptyRoot]

(* The new node n owns a new block c with a copy of the data.              *)
listAddElement(m, l, n, c, data) ==
  LET r    == m.root[l]
      node == [next |-> Null, data |-> c,
               prev |-> IF r.count = 0 THEN Null ELSE r.last]
  IN [node |-> Allocate(IF r.count = 0 THEN m.node
                        ELSE [m.node EXCEPT ![r.last].next = n], n, node),
      cell |-> Allocate(m.cell, c, data),
      root |-> [m.root EXCEPT
                  ![l] = [count |-> r.count + 1, last |-> n,
                          first |-> IF r.count = 0 THEN n ELSE r.first]]]

(* The four cases of listRemoveElement.  None frees the data of the node.  *)
RemoveOnlyNode(m, l) ==
  [m EXCEPT !.node = Free(@, {m.root[l].first}), !.root[l] = EmptyRoot]

(* Faulty variants, like this one, are what the properties are tested      *)
(* against; they are no part of the model.                                 *)
RemoveFirstNodeHalf(m, l) ==
  LET n == m.root[l].first
  IN [m EXCEPT !.node = Free(@, {n}), !.root[l].first = m.node[n].next,
               !.root[l].count = @ - 1]

RemoveFirstNode(m, l) ==
  LET n    == m.root[l].first
      next == m.node[n].next
  IN [m EXCEPT !.node = Free([@ EXCEPT ![next].prev = Null], {n}),
               !.root[l].first = next, !.root[l].count = @ - 1]

RemoveLastNodeLeaking(m, l) ==
  LET prev == m.node[m.root[l].last].prev
  IN [m EXCEPT !.node = [@ EXCEPT ![prev].next = Null],
               !.root[l].last = prev, !.root[l].count = @ - 1]

RemoveLastNode(m, l) ==
  LET n    == m.root[l].last
      prev == m.node[n].prev
  IN [m EXCEPT !.node = Free([@ EXCEPT ![prev].next = Null], {n}),
               !.root[l].last = prev, !.root[l].count = @ - 1]

RemoveInsideNodeHalf(m, l, num) ==
  LET n == m.node[NodeAt(m, l, num)]
  IN [m EXCEPT !.node[n.next].prev = n.prev, !.root[l].count = @ - 1]

(* A node between two others is unlinked and returned, but not freed.      *)
RemoveInsideNode(m, l, num) ==
  LET n == m.node[NodeAt(m, l, num)]
  IN [m EXCEPT !.node = [@ EXCEPT ![n.next].prev = n.prev,
                                  ![n.prev].next = n.next],
               !.root[l].count = @ - 1]

listRemoveElement(m, l, num) ==
  LET count == m.root[l].count
  IN CASE num >= count                  -> m
       [] count = 1 /\ num = 0          -> RemoveOnlyNode(m, l)
       [] count > 1 /\ num = 0          -> RemoveFirstNode(m, l)
       [] num > 0 /\ num = count - 1    -> RemoveLastNode(m, l)
       [] num > 0 /\ num < count - 1    -> RemoveInsideNode(m, l, num)

(* Free the data of every node, then remove the first node until none is   *)
(* left.                                                                   *)
listFreeAll(m, l) ==
  LET count == m.root[l].count
      nodes == {NodeAt(m, l, i) : i \in 0..(count - 1)}
      bare  == [m EXCEPT
                  !.cell = Free(@, {m.node[n].data : n \in nodes}),
                  !.node = [n \in DOMAIN @ |->
                              IF n \in nodes THEN [@[n] EXCEPT !.data = Null]
                                             ELSE @[n]]]
      rest[k \in 0..count] == IF k = 0 THEN bare
                              ELSE listRemoveElement(rest[k - 1], l, 0)
  IN IF m.root[l].first = Null THEN m
     ELSE [rest[count] EXCEPT !.root[l] = EmptyRoot]
=============================================================================
