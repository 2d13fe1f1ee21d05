---------------------------- MODULE ListContract ----------------------------
(* What the lists of list.c promise: each is a sequence of its own.        *)
EXTENDS Naturals, SequencesExt

CONSTANTS Lists, Data
VARIABLE seqs

Init == seqs = [l \in Lists |-> << >>]

Add(l, d) == seqs' = [seqs EXCEPT ![l] = Append(@, d)]

RemoveNth(l, i) == /\ i \in DOMAIN seqs[l]
                   /\ seqs' = [seqs EXCEPT ![l] = RemoveAt(@, i)]

Clear(l) == seqs' = [seqs EXCEPT ![l] = << >>]

Next == \E l \in Lists : \/ \E d \in Data : Add(l, d)
                         \/ \E i \in DOMAIN seqs[l] : RemoveNth(l, i)
                         \/ Clear(l)

Spec == Init /\ [][Next]_seqs
=============================================================================
