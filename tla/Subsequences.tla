---------------------------- MODULE Subsequences ----------------------------
(***************************************************************************)
(* Parts of sequences, defined by recursive functions.  (SelectSeq and     *)
(* FoldLeft would do, but the provers cannot expand them.)                 *)
(***************************************************************************)
EXTENDS Naturals, Sequences

(* The elements of s that are not in X, in their order.                    *)
Dropping(s, X) ==
  LET kept[i \in 0..Len(s)] ==
        IF i = 0 THEN << >>
        ELSE IF s[i] \in X THEN kept[i - 1] ELSE Append(kept[i - 1], s[i])
  IN kept[Len(s)]

(* The maximal stretches of s without an element of C, in their order: an  *)
(* element that is not in C begins one, unless it goes on with the last.   *)
Pieces(s, C) ==
  LET upTo[i \in 0..Len(s)] ==
        IF i = 0 THEN << >>
        ELSE LET ps == upTo[i - 1]
             IN IF s[i] \in C THEN ps
                ELSE IF i = 1 \/ s[i - 1] \in C THEN Append(ps, <<s[i]>>)
                ELSE [ps EXCEPT ![Len(ps)] = Append(@, s[i])]
  IN upTo[Len(s)]

(* Is s what is left of t when some elements are dropped?  Along t, count  *)
(* the elements of s that were found.                                      *)
InOrder(s, t) ==
  LET found[i \in 0..Len(t)] ==
        IF i = 0 THEN 0
        ELSE LET n == found[i - 1] IN IF n < Len(s) /\ s[n + 1] = t[i] THEN n + 1 ELSE n
  IN found[Len(t)] = Len(s)
=============================================================================
