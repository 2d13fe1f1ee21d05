----------------------------- MODULE DataProofs -----------------------------
(***************************************************************************)
(* What the proofs of several components rest on: induction and recursion, *)
(* parts of sequences (Subsequences), and the lists of list.c (List), of   *)
(* any length.                                                             *)
(***************************************************************************)
EXTENDS List, Subsequences, SequencesExt, WellFoundedInduction, SequenceTheorems, TLAPS

----------------------------------------------------------------------------
(* Induction over the natural numbers, stated with sets: to prove P of     *)
(* every number, show that {n \in Nat : P(n)} has 0 and the successors of  *)
(* its elements.  Unlike the induction theorems of the library, which take *)
(* the operator P, these need no higher-order instance.                    *)

(* Every set of numbers that has any has a least one.                      *)
LEMMA LeastNumber ==
  ASSUME NEW T, T \subseteq Nat, T # {}
  PROVE  \E x \in T : \A y \in T : x <= y
  <1>1. PICK x \in T : \A y \in T : ~(<<y, x>> \in OpToRel(<, Nat))
    BY WFMin, NatLessThanWellFounded, Zenon
  <1>2. ASSUME NEW y \in T PROVE ~(y < x)
    BY <1>1, Zenon DEF OpToRel
  <1>3. ASSUME NEW y \in T PROVE x <= y
    BY <1>2
  <1>4. QED BY <1>3

(* A set with 0 and the successors of its numbers has every number.        *)
LEMMA SetInduction ==
  ASSUME NEW T, 0 \in T, \A n \in Nat : n \in T => n + 1 \in T
  PROVE  Nat \subseteq T
  <1> SUFFICES ASSUME Nat \ T # {} PROVE FALSE OBVIOUS
  <1>1. PICK n \in Nat \ T : \A k \in Nat \ T : n <= k BY LeastNumber
  <1>2. n # 0 /\ n - 1 \in Nat OBVIOUS
  <1>3. n - 1 \in T BY <1>1, <1>2
  <1>4. QED BY <1>1, <1>2, <1>3

----------------------------------------------------------------------------
(* Recursion: a function on 0..n is given by its value at 0 and a step,    *)
(* itself a function, from each value to the next.                         *)
Follows(f, n, a, step) == f[0] = a /\ \A i \in 1..n : f[i] = step[<<f[i - 1], i>>]

LEMMA RecursionExists ==
  ASSUME NEW S, NEW n \in Nat, NEW a \in S, NEW step,
         \A v \in S, i \in 1..n : step[<<v, i>>] \in S
  PROVE  \E f \in [0..n -> S] : Follows(f, n, a, step)
  <1> DEFINE T == {k \in Nat : k <= n => \E f \in [0..k -> S] : Follows(f, k, a, step)}
  <1>1. 0 \in T
    <2> DEFINE f0 == [i \in 0..0 |-> a]
    <2>1. f0 \in [0..0 -> S] /\ Follows(f0, 0, a, step) BY DEF Follows
    <2>2. QED BY <2>1
  <1>2. ASSUME NEW k \in Nat, k \in T PROVE k + 1 \in T
    <2> SUFFICES ASSUME k + 1 <= n
                 PROVE  \E f \in [0..(k + 1) -> S] : Follows(f, k + 1, a, step)
      OBVIOUS
    <2>1. PICK f \in [0..k -> S] : Follows(f, k, a, step)
      <3>1. k <= n OBVIOUS
      <3>2. QED BY <1>2, <3>1
    <2> DEFINE g == [i \in 0..(k + 1) |-> IF i = k + 1 THEN step[<<f[k], k + 1>>] ELSE f[i]]
    <2>2. f[k] \in S /\ k + 1 \in 1..n BY <2>1
    <2>3. step[<<f[k], k + 1>>] \in S BY <2>2
    <2>4. g \in [0..(k + 1) -> S] BY <2>1, <2>3
    <2>5. Follows(g, k + 1, a, step)
      <3>1. g[0] = a BY <2>1 DEF Follows
      <3>2. ASSUME NEW i \in 1..(k + 1) PROVE g[i] = step[<<g[i - 1], i>>]
        <4>1. g[i - 1] = f[i - 1] /\ i \in 0..(k + 1) /\ i - 1 \in 0..k OBVIOUS
        <4>2. CASE i = k + 1
          <5>1. g[i] = step[<<f[k], k + 1>>] /\ i - 1 = k BY <4>1, <4>2
          <5>2. QED BY <4>1, <4>2, <5>1
        <4>3. CASE i # k + 1
          <5>1. i \in 1..k /\ g[i] = f[i] BY <4>1, <4>3
          <5>2. f[i] = step[<<f[i - 1], i>>] BY <2>1, <5>1 DEF Follows
          <5>3. QED BY <4>1, <5>1, <5>2
        <4>4. QED BY <4>2, <4>3
      <3> HIDE DEF g
      <3>3. QED BY <3>1, <3>2 DEF Follows
    <2> HIDE DEF g
    <2>6. QED BY <2>4, <2>5
  <1>3. Nat \subseteq T
    <2> HIDE DEF T
    <2>1. QED BY <1>1, <1>2, SetInduction
  <1>4. n \in T /\ n <= n
    <2> HIDE DEF T
    <2>1. QED BY <1>3
  <1>5. QED BY <1>4

(* Two functions that begin alike and go on alike are alike.               *)
GoOnAlike(f, g, n) == f[0] = g[0] /\ \A i \in 1..n : f[i - 1] = g[i - 1] => f[i] = g[i]

LEMMA RecursionAgrees ==
  ASSUME NEW n \in Nat, NEW f, NEW g, GoOnAlike(f, g, n)
  PROVE  \A i \in 0..n : f[i] = g[i]
  <1> USE DEF GoOnAlike
  <1> DEFINE T == {i \in Nat : i <= n => f[i] = g[i]}
  <1>1. 0 \in T OBVIOUS
  <1>2. ASSUME NEW i \in Nat, i \in T PROVE i + 1 \in T
    <2> SUFFICES ASSUME i + 1 <= n PROVE f[i + 1] = g[i + 1] OBVIOUS
    <2>1. f[i] = g[i] /\ i + 1 \in 1..n /\ (i + 1) - 1 = i BY <1>2
    <2>2. f[(i + 1) - 1] = g[(i + 1) - 1] => f[i + 1] = g[i + 1] BY <2>1
    <2>3. QED BY <2>1, <2>2
  <1>3. Nat \subseteq T
    <2> HIDE DEF T
    <2>1. QED BY <1>1, <1>2, SetInduction
  <1>4. QED BY <1>3

----------------------------------------------------------------------------
(* Parts of sequences.                                                     *)

(* The function that Dropping builds.                                      *)
Keeps(f, s, X) ==
  /\ f[0] = << >>
  /\ \A i \in 1..Len(s) : f[i] = IF s[i] \in X THEN f[i - 1] ELSE Append(f[i - 1], s[i])

LEMMA DroppingIs ==
  ASSUME NEW T, NEW s \in Seq(T), NEW X
  PROVE  \E f \in [0..Len(s) -> Seq(T)] : Keeps(f, s, X) /\ Dropping(s, X) = f[Len(s)]
  <1> DEFINE n == Len(s)
             step == [p \in Seq(T) \X (1..n) |->
                        IF s[p[2]] \in X THEN p[1] ELSE Append(p[1], s[p[2]])]
             kept == CHOOSE f : f = [i \in 0..n |->
                                       IF i = 0 THEN << >>
                                       ELSE IF s[i] \in X THEN f[i - 1] ELSE Append(f[i - 1], s[i])]
  <1>1. n \in Nat /\ << >> \in Seq(T) /\ \A i \in 1..n : s[i] \in T OBVIOUS
  <1>2. Dropping(s, X) = kept[n] BY Zenon DEF Dropping
  <1> HIDE DEF n
  <1>3. ASSUME NEW v \in Seq(T), NEW i \in 1..n
        PROVE  /\ step[<<v, i>>] = IF s[i] \in X THEN v ELSE Append(v, s[i])
               /\ step[<<v, i>>] \in Seq(T)
    <2>1. step[<<v, i>>] = IF s[i] \in X THEN v ELSE Append(v, s[i]) OBVIOUS
    <2>2. Append(v, s[i]) \in Seq(T) BY <1>1, AppendProperties
    <2>3. QED BY <2>1, <2>2
  <1> HIDE DEF step
  <1>4. PICK f \in [0..n -> Seq(T)] : Follows(f, n, << >>, step)
    BY <1>1, <1>3, RecursionExists
  <1>5. /\ f[0] = << >>
        /\ \A i \in 1..n : f[i] = IF s[i] \in X THEN f[i - 1] ELSE Append(f[i - 1], s[i])
    <2>1. ASSUME NEW i \in 1..n
          PROVE  f[i] = IF s[i] \in X THEN f[i - 1] ELSE Append(f[i - 1], s[i])
      <3>1. f[i - 1] \in Seq(T) BY <1>1, <1>4
      <3>2. f[i] = step[<<f[i - 1], i>>] BY <1>4 DEF Follows
      <3>3. QED BY <1>3, <3>1, <3>2
    <2>2. QED BY <1>4, <2>1 DEF Follows
  <1>6. f = [i \in 0..n |-> IF i = 0 THEN << >>
                            ELSE IF s[i] \in X THEN f[i - 1] ELSE Append(f[i - 1], s[i])]
    <2>1. f = [i \in 0..n |-> f[i]] BY <1>4
    <2>2. \A i \in 0..n : i # 0 => i \in 1..n BY <1>1
    <2>3. QED BY <1>5, <2>1, <2>2
  <1>7. kept = [i \in 0..n |-> IF i = 0 THEN << >>
                               ELSE IF s[i] \in X THEN kept[i - 1] ELSE Append(kept[i - 1], s[i])]
    BY <1>6, Zenon
  <1> HIDE DEF kept
  <1>8. kept[0] = << >> BY <1>1, <1>7
  <1>9. ASSUME NEW i \in 1..n
        PROVE  kept[i] = IF s[i] \in X THEN kept[i - 1] ELSE Append(kept[i - 1], s[i])
    <2>1. i \in 0..n /\ i # 0 BY <1>1
    <2>2. QED BY <1>7, <2>1
  <1>10. \A i \in 0..n : kept[i] = f[i]
    <2>1. \A i \in 1..n : kept[i - 1] = f[i - 1] => kept[i] = f[i] BY <1>5, <1>9
    <2>2. kept[0] = f[0] BY <1>5, <1>8
    <2>3. GoOnAlike(kept, f, n) BY <2>1, <2>2 DEF GoOnAlike
    <2>4. QED BY <1>1, <2>3, RecursionAgrees
  <1>11. Dropping(s, X) = f[n] BY <1>1, <1>2, <1>10
  <1>12. Keeps(f, s, X) BY <1>5 DEF Keeps, n
  <1>13. QED BY <1>4, <1>11, <1>12 DEF n

LEMMA DroppingEmpty == ASSUME NEW X PROVE Dropping(<< >>, X) = << >>
  <1>1. << >> \in Seq({}) /\ Len(<< >>) = 0 OBVIOUS
  <1>2. PICK f \in [0..Len(<< >>) -> Seq({})] :
          Keeps(f, << >>, X) /\ Dropping(<< >>, X) = f[Len(<< >>)]
    BY <1>1, DroppingIs
  <1>3. QED BY <1>1, <1>2 DEF Keeps

(* One element more is kept, unless it is of X.                            *)
LEMMA DroppingAppend ==
  ASSUME NEW T, NEW s \in Seq(T), NEW o \in T, NEW X
  PROVE  /\ Dropping(s, X) \in Seq(T)
         /\ Dropping(Append(s, o), X) =
              IF o \in X THEN Dropping(s, X) ELSE Append(Dropping(s, X), o)
  <1> DEFINE r == Append(s, o)
             n == Len(s)
  <1>1. /\ n \in Nat /\ r \in Seq(T) /\ Len(r) = n + 1 /\ r[n + 1] = o
        /\ \A i \in 1..n : r[i] = s[i]
    OBVIOUS
  <1>2a. PICK f \in [0..n -> Seq(T)] : Keeps(f, s, X) /\ Dropping(s, X) = f[n]
    BY DroppingIs
  <1>2. /\ f[0] = << >> /\ Dropping(s, X) = f[n]
        /\ \A i \in 1..n : f[i] = IF s[i] \in X THEN f[i - 1] ELSE Append(f[i - 1], s[i])
    BY <1>2a DEF Keeps
  <1> HIDE DEF r, n
  <1>3a. PICK g \in [0..Len(r) -> Seq(T)] : Keeps(g, r, X) /\ Dropping(r, X) = g[Len(r)]
    BY <1>1, DroppingIs
  <1>3. /\ g[0] = << >> /\ Dropping(r, X) = g[n + 1]
        /\ \A i \in 1..(n + 1) : g[i] = IF r[i] \in X THEN g[i - 1] ELSE Append(g[i - 1], r[i])
    BY <1>1, <1>3a DEF Keeps
  <1>4. g[n] = f[n]
    <2>1. \A i \in 1..n : f[i - 1] = g[i - 1] => f[i] = g[i]
      <3> SUFFICES ASSUME NEW i \in 1..n, f[i - 1] = g[i - 1] PROVE f[i] = g[i] OBVIOUS
      <3>1. i \in 1..(n + 1) /\ r[i] = s[i] BY <1>1
      <3>2. QED BY <1>2, <1>3, <3>1
    <2>2. f[0] = g[0] BY <1>2, <1>3
    <2>3. GoOnAlike(f, g, n) BY <2>1, <2>2 DEF GoOnAlike
    <2>4. n \in Nat BY <1>1
    <2>5. \A i \in 0..n : f[i] = g[i] BY <2>3, <2>4, RecursionAgrees
    <2>6. QED BY <2>4, <2>5
  <1>5. g[n + 1] = IF o \in X THEN g[n] ELSE Append(g[n], o)
    <2>1. n + 1 \in 1..(n + 1) /\ (n + 1) - 1 = n BY <1>1
    <2>2. QED BY <1>1, <1>3, <2>1
  <1>6. f[n] \in Seq(T) BY <1>1, <1>2a
  <1>7. QED BY <1>2, <1>3, <1>4, <1>5, <1>6 DEF r

LEMMA ConcatAppend ==
  ASSUME NEW T, NEW s \in Seq(T), NEW t \in Seq(T), NEW e \in T
  PROVE  s \o t \in Seq(T) /\ s \o Append(t, e) = Append(s \o t, e)
  <1>1. /\ s \o t \in Seq(T) /\ <<e>> \in Seq(T) BY ConcatProperties
  <1>2. Append(t, e) = t \o <<e>> /\ Append(s \o t, e) = (s \o t) \o <<e>>
    BY <1>1, AppendIsConcat
  <1>3. (s \o t) \o <<e>> = s \o (t \o <<e>>)
    <2>1. \A x, y, z \in Seq(T) : (x \o y) \o z = x \o (y \o z)
      BY ConcatAssociative, SMTT(60)
    <2>2. QED BY <1>1, <2>1, Zenon
  <1>4. QED BY <1>1, <1>2, <1>3

KeptAfter(s, t, X) == Dropping(s \o t, X) = Dropping(s, X) \o t

LEMMA DroppingKeepsOne ==
  ASSUME NEW T, NEW s \in Seq(T), NEW t \in Seq(T), NEW X, NEW e \in T, e \notin X,
         Dropping(s, X) \in Seq(T), KeptAfter(s, t, X)
  PROVE  KeptAfter(s, Append(t, e), X)
  <1> DEFINE u == s \o t
             d == Dropping(s, X)
  <1>1. u \in Seq(T) /\ s \o Append(t, e) = Append(u, e) BY ConcatAppend
  <1>2. d \o Append(t, e) = Append(d \o t, e)
    <2>1. d \in Seq(T) OBVIOUS
    <2> HIDE DEF d
    <2>2. QED BY <2>1, ConcatAppend
  <1>3. Dropping(Append(u, e), X) = Append(Dropping(u, X), e)
    <2>1. u \in Seq(T) BY <1>1
    <2> HIDE DEF u
    <2>2. QED BY <2>1, DroppingAppend
  <1>4. QED BY <1>1, <1>2, <1>3 DEF KeptAfter

(* A sequence without elements of X is kept.                               *)
LEMMA DroppingKeeps ==
  ASSUME NEW T, NEW s \in Seq(T), NEW t \in Seq(T), NEW X,
         \A i \in 1..Len(t) : t[i] \notin X
  PROVE  Dropping(s \o t, X) = Dropping(s, X) \o t
  <1> DEFINE Begin(k) == SubSeq(t, 1, k)
             Good == {k \in Nat : k <= Len(t) => KeptAfter(s, Begin(k), X)}
  <1>1. Dropping(s, X) \in Seq(T)
    <2>1. PICK f \in [0..Len(s) -> Seq(T)] : Dropping(s, X) = f[Len(s)] BY DroppingIs
    <2>2. Len(s) \in 0..Len(s) OBVIOUS
    <2>3. QED BY <2>1, <2>2
  <1>2. 0 \in Good
    <2>1. Begin(0) = << >> OBVIOUS
    <2>2. s \o Begin(0) = s /\ Dropping(s, X) \o Begin(0) = Dropping(s, X)
      BY <1>1, <2>1, ConcatEmptySeq
    <2>3. QED BY <2>2 DEF KeptAfter
  <1>3. ASSUME NEW k \in Nat, k \in Good PROVE k + 1 \in Good
    <2> SUFFICES ASSUME k + 1 <= Len(t) PROVE KeptAfter(s, Begin(k + 1), X) OBVIOUS
    <2> DEFINE b == Begin(k)
               e == t[k + 1]
    <2>1. b \in Seq(T) /\ e \in T /\ e \notin X /\ Begin(k + 1) = Append(b, e) OBVIOUS
    <2>2. KeptAfter(s, b, X) BY <1>3
    <2> HIDE DEF b, e, Begin
    <2>3. KeptAfter(s, Append(b, e), X) BY <1>1, <2>1, <2>2, DroppingKeepsOne
    <2>4. QED BY <2>1, <2>3
  <1>4. Nat \subseteq Good
    <2> HIDE DEF Good
    <2>1. QED BY <1>2, <1>3, SetInduction
  <1>5. Begin(Len(t)) = t /\ Len(t) \in Nat BY SubSeqFull
  <1>6. KeptAfter(s, Begin(Len(t)), X)
    <2>1. Len(t) \in Good
      <3> HIDE DEF Good
      <3>1. QED BY <1>4, <1>5
    <2> HIDE DEF Begin
    <2>2. QED BY <2>1
  <1> HIDE DEF Begin
  <1>7. QED BY <1>5, <1>6 DEF KeptAfter

(* s is what is left of t when some elements are dropped.                  *)
Places(f, s, t) ==
  /\ f \in [1..Len(s) -> 1..Len(t)]
  /\ \A i, j \in 1..Len(s) : i < j => f[i] < f[j]
  /\ \A i \in 1..Len(s) : s[i] = t[f[i]]

Embeds(s, t) == \E f : Places(f, s, t)

LEMMA EmbedsSelf == ASSUME NEW T, NEW s \in Seq(T) PROVE Embeds(s, s)
  <1>1. Places([i \in 1..Len(s) |-> i], s, s) BY DEF Places
  <1>2. QED BY <1>1 DEF Embeds

LEMMA EmbedsThrough ==
  ASSUME NEW T, NEW s \in Seq(T), NEW t \in Seq(T), NEW u \in Seq(T), Embeds(s, t), Embeds(t, u)
  PROVE  Embeds(s, u)
  <1>1. PICK f : Places(f, s, t) BY DEF Embeds
  <1>2. PICK g : Places(g, t, u) BY DEF Embeds
  <1> DEFINE h == [i \in 1..Len(s) |-> g[f[i]]]
  <1>3. Len(s) \in Nat /\ Len(t) \in Nat /\ Len(u) \in Nat OBVIOUS
  <1>4. h \in [1..Len(s) -> 1..Len(u)] BY <1>1, <1>2 DEF Places
  <1>5. \A i, j \in 1..Len(s) : i < j => h[i] < h[j]
    <2> SUFFICES ASSUME NEW i \in 1..Len(s), NEW j \in 1..Len(s), i < j PROVE h[i] < h[j]
      OBVIOUS
    <2>1. f[i] \in 1..Len(t) /\ f[j] \in 1..Len(t) /\ f[i] < f[j] BY <1>1 DEF Places
    <2>2. g[f[i]] < g[f[j]] BY <1>2, <2>1 DEF Places
    <2>3. QED BY <2>2
  <1>6. \A i \in 1..Len(s) : s[i] = u[h[i]] BY <1>1, <1>2 DEF Places
  <1> HIDE DEF h
  <1>7. QED BY <1>4, <1>5, <1>6 DEF Embeds, Places

LEMMA EmbedsConcat ==
  ASSUME NEW T, NEW s \in Seq(T), NEW t \in Seq(T), NEW u \in Seq(T), NEW v \in Seq(T),
         Embeds(s, t), Embeds(u, v)
  PROVE  Embeds(s \o u, t \o v)
  <1>1. PICK f : Places(f, s, t) BY DEF Embeds
  <1>2. PICK g : Places(g, u, v) BY DEF Embeds
  <1> DEFINE h == [i \in 1..(Len(s) + Len(u)) |->
                     IF i <= Len(s) THEN f[i] ELSE Len(t) + g[i - Len(s)]]
  <1>3. /\ Len(s) \in Nat /\ Len(t) \in Nat /\ Len(u) \in Nat /\ Len(v) \in Nat
        /\ Len(s \o u) = Len(s) + Len(u) /\ Len(t \o v) = Len(t) + Len(v)
    OBVIOUS
  <1>4. /\ \A i \in 1..Len(s) : f[i] \in 1..Len(t) /\ s[i] = t[f[i]]
        /\ \A i \in 1..Len(u) : g[i] \in 1..Len(v) /\ u[i] = v[g[i]]
        /\ \A i, j \in 1..Len(s) : i < j => f[i] < f[j]
        /\ \A i, j \in 1..Len(u) : i < j => g[i] < g[j]
    BY <1>1, <1>2 DEF Places
  <1>5. \A i \in 1..(Len(s) + Len(u)) :
          \/ i \in 1..Len(s) /\ h[i] = f[i]
          \/ i > Len(s) /\ i - Len(s) \in 1..Len(u) /\ h[i] = Len(t) + g[i - Len(s)]
    BY <1>3
  <1> HIDE DEF h
  <1>6. ASSUME NEW i \in 1..(Len(s) + Len(u)) PROVE h[i] \in 1..(Len(t) + Len(v))
    <2>1. CASE i \in 1..Len(s) /\ h[i] = f[i]
      <3>1. f[i] \in 1..Len(t) BY <1>4, <2>1
      <3>2. QED BY <1>3, <2>1, <3>1
    <2>2. CASE i - Len(s) \in 1..Len(u) /\ h[i] = Len(t) + g[i - Len(s)]
      <3>1. g[i - Len(s)] \in 1..Len(v) BY <1>4, <2>2
      <3>2. QED BY <1>3, <2>2, <3>1
    <2>3. QED BY <1>5, <2>1, <2>2
  <1>7. h \in [1..(Len(s) + Len(u)) -> 1..(Len(t) + Len(v))] BY <1>6 DEF h
  <1>8. \A i, j \in 1..(Len(s) + Len(u)) : i < j => h[i] < h[j]
    <2> SUFFICES ASSUME NEW i \in 1..(Len(s) + Len(u)), NEW j \in 1..(Len(s) + Len(u)), i < j
                 PROVE  h[i] < h[j]
      OBVIOUS
    <2>1. CASE i \in 1..Len(s) /\ j \in 1..Len(s)
      <3>1. h[i] = f[i] /\ h[j] = f[j] BY <1>3, <1>5, <2>1
      <3>2. QED BY <1>4, <2>1, <3>1
    <2>2. CASE i \in 1..Len(s) /\ j > Len(s)
      <3>1. /\ h[i] = f[i] /\ j - Len(s) \in 1..Len(u) /\ h[j] = Len(t) + g[j - Len(s)]
        BY <1>3, <1>5, <2>2
      <3>2. f[i] \in 1..Len(t) /\ g[j - Len(s)] \in 1..Len(v) BY <1>4, <2>2, <3>1
      <3>3. QED BY <1>3, <3>1, <3>2
    <2>3. CASE i > Len(s)
      <3>1. /\ i - Len(s) \in 1..Len(u) /\ h[i] = Len(t) + g[i - Len(s)]
            /\ j - Len(s) \in 1..Len(u) /\ h[j] = Len(t) + g[j - Len(s)]
        BY <1>3, <1>5, <2>3
      <3>2. i - Len(s) < j - Len(s) BY <1>3
      <3>3. g[i - Len(s)] < g[j - Len(s)] BY <1>4, <3>1, <3>2
      <3>4. g[i - Len(s)] \in Nat /\ g[j - Len(s)] \in Nat BY <1>4, <3>1, SMTT(60)
      <3>5. QED BY <1>3, <3>1, <3>3, <3>4
    <2>4. QED BY <1>3, <2>1, <2>2, <2>3
  <1>9. \A i \in 1..(Len(s) + Len(u)) : (s \o u)[i] = (t \o v)[h[i]]
    <2> SUFFICES ASSUME NEW i \in 1..(Len(s) + Len(u)) PROVE (s \o u)[i] = (t \o v)[h[i]]
      OBVIOUS
    <2>1. CASE i \in 1..Len(s) /\ h[i] = f[i]
      <3>1. f[i] \in 1..Len(t) /\ s[i] = t[f[i]] BY <1>4, <2>1
      <3>2. (s \o u)[i] = s[i] /\ (t \o v)[f[i]] = t[f[i]]
        BY <1>3, <2>1, <3>1, ConcatProperties
      <3>3. QED BY <2>1, <3>1, <3>2
    <2>2. CASE /\ i > Len(s) /\ i - Len(s) \in 1..Len(u)
               /\ h[i] = Len(t) + g[i - Len(s)]
      <3> DEFINE k == i - Len(s)
      <3>1. g[k] \in 1..Len(v) /\ u[k] = v[g[k]] BY <1>4, <2>2
      <3>2. (s \o u)[i] = u[k] BY <1>3, <2>2, ConcatProperties
      <3>3. (t \o v)[Len(t) + g[k]] = v[g[k]]
        <4>1. Len(t) + g[k] \in 1..(Len(t) + Len(v)) /\ ~(Len(t) + g[k] <= Len(t))
              /\ (Len(t) + g[k]) - Len(t) = g[k]
          BY <1>3, <3>1
        <4>2. QED BY <4>1, ConcatProperties
      <3>4. QED BY <2>2, <3>1, <3>2, <3>3
    <2>3. QED BY <1>5, <2>1, <2>2
  <1>10. Places(h, s \o u, t \o v) BY <1>3, <1>7, <1>8, <1>9 DEF Places
  <1>11. QED BY <1>10 DEF Embeds

LEMMA EmbedsBegin ==
  ASSUME NEW T, NEW t \in Seq(T), NEW k \in 0..Len(t)
  PROVE  Embeds(SubSeq(t, 1, k), t)
  <1>1. Len(t) \in Nat /\ Len(SubSeq(t, 1, k)) = k OBVIOUS
  <1>2. \A i \in 1..k : SubSeq(t, 1, k)[i] = t[i] OBVIOUS
  <1>3. Places([i \in 1..k |-> i], SubSeq(t, 1, k), t) BY <1>1, <1>2 DEF Places
  <1>4. QED BY <1>3 DEF Embeds

(* InOrder, which takes each element as soon as it comes, finds them all.  *)
LEMMA EmbedsInOrder ==
  ASSUME NEW T, NEW s \in Seq(T), NEW t \in Seq(T), Embeds(s, t)
  PROVE  InOrder(s, t)
  <1>1. PICK f : Places(f, s, t) BY DEF Embeds
  <1> DEFINE n == Len(t)
             Found(k, i) == IF k < Len(s) /\ s[k + 1] = t[i] THEN k + 1 ELSE k
             step == [p \in (0..Len(s)) \X (1..n) |-> Found(p[1], p[2])]
             found == CHOOSE g : g = [i \in 0..n |-> IF i = 0 THEN 0 ELSE Found(g[i - 1], i)]
  <1>2. Len(s) \in Nat /\ n \in Nat /\ 0 \in 0..Len(s) OBVIOUS
  <1>3. InOrder(s, t) <=> found[n] = Len(s) BY Zenon DEF InOrder
  <1> HIDE DEF n
  <1>4. ASSUME NEW k \in 0..Len(s), NEW i \in 1..n
        PROVE  /\ step[<<k, i>>] = Found(k, i) /\ Found(k, i) \in 0..Len(s)
               /\ k <= Found(k, i)
    BY <1>2
  <1> HIDE DEF step
  <1>5. PICK g \in [0..n -> 0..Len(s)] : Follows(g, n, 0, step)
    <2>1. \A k \in 0..Len(s), i \in 1..n : step[<<k, i>>] \in 0..Len(s) BY <1>4
    <2> DEFINE S == 0..Len(s)
    <2>2. 0 \in S /\ n \in Nat /\ \A k \in S, i \in 1..n : step[<<k, i>>] \in S BY <1>2, <2>1
    <2> HIDE DEF S
    <2>3. \E g \in [0..n -> S] : Follows(g, n, 0, step) BY <2>2, RecursionExists
    <2>4. QED BY <2>3 DEF S
  <1>6. g[0] = 0 /\ \A i \in 1..n : g[i] = Found(g[i - 1], i)
    <2>1. ASSUME NEW i \in 1..n PROVE g[i] = Found(g[i - 1], i)
      <3>1. g[i - 1] \in 0..Len(s) BY <1>2, <1>5
      <3>2. g[i] = step[<<g[i - 1], i>>] BY <1>5 DEF Follows
      <3>3. QED BY <1>4, <3>1, <3>2
    <2>2. QED BY <1>5, <2>1 DEF Follows
  <1>7. g = [i \in 0..n |-> IF i = 0 THEN 0 ELSE Found(g[i - 1], i)]
    <2>1. g = [i \in 0..n |-> g[i]] BY <1>5
    <2>2. \A i \in 0..n : i # 0 => i \in 1..n BY <1>2
    <2> HIDE DEF Found
    <2>3. QED BY <1>6, <2>1, <2>2
  <1>8. found = [i \in 0..n |-> IF i = 0 THEN 0 ELSE Found(found[i - 1], i)]
    BY <1>7, Zenon
  <1> HIDE DEF found
  <1>9. GoOnAlike(found, g, n)
    <2>1. found[0] = g[0] BY <1>2, <1>6, <1>8
    <2>2. ASSUME NEW i \in 1..n, found[i - 1] = g[i - 1] PROVE found[i] = g[i]
      <3>1. i \in 0..n /\ i # 0 BY <1>2
      <3> HIDE DEF Found
      <3>2. found[i] = Found(found[i - 1], i) BY <1>8, <3>1
      <3>3. QED BY <1>6, <2>2, <3>2
    <2>3. QED BY <2>1, <2>2 DEF GoOnAlike
  <1>10. found[n] = g[n]
    <2>1. \A i \in 0..n : found[i] = g[i] BY <1>2, <1>9, RecursionAgrees
    <2>2. QED BY <1>2, <2>1
  <1> DEFINE Good == {i \in Nat : i <= n =>
                        \A j \in 1..Len(s) : f[j] <= i => j <= g[i]}
  <1>11. \A j \in 1..Len(s) : f[j] \in 1..n /\ s[j] = t[f[j]] BY <1>1 DEF Places, n
  <1>12. 0 \in Good BY <1>2, <1>11
  <1>13. ASSUME NEW i \in Nat, i \in Good PROVE i + 1 \in Good
    <2> SUFFICES ASSUME i + 1 <= n, NEW j \in 1..Len(s), f[j] <= i + 1 PROVE j <= g[i + 1]
      OBVIOUS
    <2>1. i + 1 \in 1..n /\ (i + 1) - 1 = i /\ i \in 0..n BY <1>2
    <2>2. g[i + 1] = Found(g[i], i + 1) /\ g[i] \in 0..Len(s) /\ g[i + 1] \in 0..Len(s)
      BY <1>5, <1>6, <2>1
    <2>3. g[i] <= g[i + 1] BY <1>4, <2>1, <2>2
    <2>4. CASE f[j] <= i
      <3>1. j <= g[i] BY <1>2, <1>13, <2>4
      <3>2. QED BY <2>2, <2>3, <3>1
    <2>5. CASE f[j] = i + 1
      <3>1. s[j] = t[i + 1] BY <1>11, <2>5
      <3>2. j - 1 <= g[i]
        <4>1. CASE j = 1 BY <2>2, <4>1
        <4>2. CASE j > 1
          <5>1. j - 1 \in 1..Len(s) /\ j - 1 < j BY <1>2, <4>2
          <5>2. f[j - 1] < f[j] BY <1>1, <5>1 DEF Places
          <5>3. f[j - 1] \in 1..n /\ f[j - 1] <= i BY <1>2, <1>11, <2>5, <5>1, <5>2, SMTT(60)
          <5>4. QED BY <1>2, <1>13, <5>1, <5>3
        <4>3. QED BY <4>1, <4>2
      <3>3. CASE g[i] = j - 1
        <4>1. g[i] < Len(s) /\ g[i] + 1 = j BY <3>3
        <4>2. Found(g[i], i + 1) = g[i] + 1 BY <3>1, <4>1
        <4>3. QED BY <2>2, <4>1, <4>2
      <3>4. CASE g[i] # j - 1
        <4>1. j <= g[i] BY <2>2, <3>2, <3>4
        <4>2. QED BY <2>2, <2>3, <4>1
      <3>5. QED BY <3>3, <3>4
    <2>6. f[j] <= i \/ f[j] = i + 1 BY <1>2, <1>11
    <2>7. QED BY <2>4, <2>5, <2>6
  <1>14. Nat \subseteq Good
    <2> HIDE DEF Good
    <2>1. QED BY <1>12, <1>13, SetInduction
  <1>15. g[n] = Len(s)
    <2>1. g[n] \in 0..Len(s) BY <1>2, <1>5
    <2>2. CASE Len(s) = 0 BY <2>1, <2>2
    <2>3. CASE Len(s) # 0
      <3>1. Len(s) \in 1..Len(s) /\ f[Len(s)] <= n BY <1>2, <1>11, <2>3
      <3>2. n \in Good
        <4> HIDE DEF Good
        <4>1. QED BY <1>2, <1>14
      <3>3. Len(s) <= g[n] BY <1>2, <3>1, <3>2
      <3>4. QED BY <1>2, <2>1, <3>3
    <2>4. QED BY <2>2, <2>3
  <1>16. QED BY <1>3, <1>10, <1>15

(* The function that FlattenSeq builds, begun one element earlier.         *)
Joins(f, q) == f[0] = << >> /\ \A i \in 1..Len(q) : f[i] = f[i - 1] \o q[i]

LEMMA FlattenIs ==
  ASSUME NEW T, NEW q \in Seq(Seq(T))
  PROVE  \E f \in [0..Len(q) -> Seq(T)] : Joins(f, q) /\ FlattenSeq(q) = f[Len(q)]
  <1> DEFINE n == Len(q)
             step == [p \in Seq(T) \X (1..n) |-> p[1] \o q[p[2]]]
             flatten == CHOOSE g : g = [i \in 1..n |-> IF i = 1 THEN q[i] ELSE g[i - 1] \o q[i]]
  <1>1. n \in Nat /\ << >> \in Seq(T) /\ \A i \in 1..n : q[i] \in Seq(T) OBVIOUS
  <1>2. FlattenSeq(q) = IF n = 0 THEN q ELSE flatten[n] BY Zenon DEF FlattenSeq
  <1>3. n = 0 => q = << >> OBVIOUS
  <1> HIDE DEF n
  <1>4. ASSUME NEW v \in Seq(T), NEW i \in 1..n
        PROVE  step[<<v, i>>] = v \o q[i] /\ step[<<v, i>>] \in Seq(T)
    <2>1. step[<<v, i>>] = v \o q[i] OBVIOUS
    <2>2. v \o q[i] \in Seq(T) BY <1>1, ConcatProperties
    <2>3. QED BY <2>1, <2>2
  <1> HIDE DEF step
  <1>5. PICK f \in [0..n -> Seq(T)] : Follows(f, n, << >>, step)
    BY <1>1, <1>4, RecursionExists
  <1>6. f[0] = << >> /\ \A i \in 1..n : f[i] = f[i - 1] \o q[i]
    <2>1. ASSUME NEW i \in 1..n PROVE f[i] = f[i - 1] \o q[i]
      <3>1. f[i - 1] \in Seq(T) BY <1>1, <1>5
      <3>2. f[i] = step[<<f[i - 1], i>>] BY <1>5 DEF Follows
      <3>3. QED BY <1>4, <3>1, <3>2
    <2>2. QED BY <1>5, <2>1 DEF Follows
  <1>7. CASE n = 0
    <2>1. FlattenSeq(q) = f[n] BY <1>2, <1>3, <1>6, <1>7
    <2>2. QED BY <1>5, <1>6, <2>1 DEF Joins, n
  <1>8. CASE n # 0
    <2> DEFINE h == [i \in 1..n |-> f[i]]
    <2>1. 1 \in 1..n /\ f[1] = q[1]
      <3>1. 1 \in 1..n /\ 1 - 1 = 0 BY <1>1, <1>8
      <3>2. f[1] = << >> \o q[1] /\ q[1] \in Seq(T) BY <1>1, <1>6, <3>1
      <3>3. QED BY <3>1, <3>2, ConcatEmptySeq
    <2>2. \A i \in 1..n : h[i] = IF i = 1 THEN q[i] ELSE h[i - 1] \o q[i]
      <3> SUFFICES ASSUME NEW i \in 1..n PROVE h[i] = IF i = 1 THEN q[i] ELSE h[i - 1] \o q[i]
        OBVIOUS
      <3>1. i # 1 => i - 1 \in 1..n BY <1>1
      <3>2. QED BY <1>6, <2>1, <3>1
    <2>3. h = [i \in 1..n |-> IF i = 1 THEN q[i] ELSE h[i - 1] \o q[i]]
      <3>1. h = [i \in 1..n |-> h[i]] OBVIOUS
      <3> HIDE DEF h
      <3>2. QED BY <2>2, <3>1
    <2>4. flatten = [i \in 1..n |-> IF i = 1 THEN q[i] ELSE flatten[i - 1] \o q[i]]
      <3> HIDE DEF h
      <3>1. QED BY <2>3, Zenon
    <2> HIDE DEF flatten
    <2> DEFINE Good == {i \in Nat : i + 1 <= n => flatten[i + 1] = f[i + 1]}
    <2>5. 0 \in Good BY <2>1, <2>4
    <2>6. ASSUME NEW i \in Nat, i \in Good PROVE i + 1 \in Good
      <3> SUFFICES ASSUME (i + 1) + 1 <= n PROVE flatten[(i + 1) + 1] = f[(i + 1) + 1]
        OBVIOUS
      <3>1. i + 1 \in 1..n /\ flatten[i + 1] = f[i + 1] BY <1>1, <2>6
      <3> DEFINE j == (i + 1) + 1
      <3>2. j \in 1..n /\ j # 1 /\ j - 1 = i + 1 BY <1>1
      <3> HIDE DEF j
      <3>3. flatten[j] = flatten[j - 1] \o q[j] /\ f[j] = f[j - 1] \o q[j]
        BY <1>6, <2>4, <3>2
      <3>4. flatten[j] = f[j] BY <3>1, <3>2, <3>3
      <3>5. QED BY <3>4 DEF j
    <2>7. Nat \subseteq Good
      <3> HIDE DEF Good
      <3>1. QED BY <2>5, <2>6, SetInduction
    <2>8. flatten[n] = f[n]
      <3>1. n - 1 \in Good /\ (n - 1) + 1 = n
        <4>1. n - 1 \in Nat /\ (n - 1) + 1 = n BY <1>1, <1>8
        <4> HIDE DEF Good
        <4>2. QED BY <2>7, <4>1
      <3>2. QED BY <1>1, <3>1
    <2>9. FlattenSeq(q) = f[n] BY <1>2, <1>8, <2>8
    <2>10. QED BY <1>5, <1>6, <2>9 DEF Joins, n
  <1>9. QED BY <1>7, <1>8

LEMMA FlattenAppend ==
  ASSUME NEW T, NEW q \in Seq(Seq(T)), NEW m \in Seq(T)
  PROVE  /\ FlattenSeq(q) \in Seq(T)
         /\ FlattenSeq(Append(q, m)) = FlattenSeq(q) \o m
  <1> DEFINE r == Append(q, m)
             n == Len(q)
  <1>1. /\ n \in Nat /\ r \in Seq(Seq(T)) /\ Len(r) = n + 1 /\ r[n + 1] = m
        /\ \A i \in 1..n : r[i] = q[i]
    BY AppendProperties
  <1>2. PICK f \in [0..n -> Seq(T)] : Joins(f, q) /\ FlattenSeq(q) = f[n] BY FlattenIs
  <1>3. f[0] = << >> /\ \A i \in 1..n : f[i] = f[i - 1] \o q[i] BY <1>2 DEF Joins
  <1> HIDE DEF r, n
  <1>4. PICK g \in [0..Len(r) -> Seq(T)] : Joins(g, r) /\ FlattenSeq(r) = g[Len(r)]
    BY <1>1, FlattenIs
  <1>5. g[0] = << >> /\ \A i \in 1..(n + 1) : g[i] = g[i - 1] \o r[i] BY <1>1, <1>4 DEF Joins
  <1>6. g[n] = f[n]
    <2>1. \A i \in 1..n : f[i - 1] = g[i - 1] => f[i] = g[i]
      <3> SUFFICES ASSUME NEW i \in 1..n, f[i - 1] = g[i - 1] PROVE f[i] = g[i] OBVIOUS
      <3>1. i \in 1..(n + 1) /\ r[i] = q[i] BY <1>1
      <3>2. QED BY <1>3, <1>5, <3>1
    <2>2. GoOnAlike(f, g, n) BY <1>3, <1>5, <2>1 DEF GoOnAlike
    <2>3. n \in Nat BY <1>1
    <2>4. \A i \in 0..n : f[i] = g[i] BY <2>2, <2>3, RecursionAgrees, ZenonT(60)
    <2>5. QED BY <2>3, <2>4
  <1>7. g[n + 1] = g[n] \o m
    <2>1. n \in Nat BY <1>1
    <2>2. n + 1 \in 1..(n + 1) /\ (n + 1) - 1 = n BY <2>1
    <2>3. r[n + 1] = m BY <1>1
    <2>4. QED BY <1>5, <2>2, <2>3
  <1>8. f[n] \in Seq(T) BY <1>1, <1>2
  <1>9. QED BY <1>1, <1>2, <1>4, <1>6, <1>7, <1>8 DEF r

LEMMA FlattenEmpty == FlattenSeq(<< >>) = << >>
  BY DEF FlattenSeq

(* Of two sequences of sequences one after the other, the first comes      *)
(* first.                                                                  *)
FlattensTo(p, q) == FlattenSeq(p \o q) = FlattenSeq(p) \o FlattenSeq(q)

LEMMA FlattensToOne ==
  ASSUME NEW T, NEW p \in Seq(Seq(T)), NEW q \in Seq(Seq(T)), NEW m \in Seq(T),
         FlattensTo(p, q)
  PROVE  FlattensTo(p, Append(q, m))
  <1> DEFINE u == p \o q
             c == FlattenSeq(p)
             d == FlattenSeq(q)
  <1>1. u \in Seq(Seq(T)) /\ p \o Append(q, m) = Append(u, m) BY ConcatAppend
  <1>2. FlattenSeq(Append(u, m)) = FlattenSeq(u) \o m
    <2>1. u \in Seq(Seq(T)) BY <1>1
    <2> HIDE DEF u
    <2>2. QED BY <2>1, FlattenAppend
  <1>3. /\ c \in Seq(T) /\ d \in Seq(T)
        /\ FlattenSeq(Append(q, m)) = d \o m
    BY FlattenAppend
  <1>4. (c \o d) \o m = c \o (d \o m)
    <2>1. \A x, y, z \in Seq(T) : (x \o y) \o z = x \o (y \o z)
      BY ConcatAssociative, SMTT(60)
    <2> HIDE DEF u, c, d
    <2>2. QED BY <1>3, <2>1, Zenon
  <1>5. FlattenSeq(u) = c \o d BY DEF FlattensTo
  <1> HIDE DEF u, c, d
  <1>6. QED BY <1>1, <1>2, <1>3, <1>4, <1>5 DEF FlattensTo, u, c, d

LEMMA FlattenConcat ==
  ASSUME NEW T, NEW p \in Seq(Seq(T)), NEW q \in Seq(Seq(T))
  PROVE  FlattenSeq(p \o q) = FlattenSeq(p) \o FlattenSeq(q)
  <1> DEFINE Begin(k) == SubSeq(q, 1, k)
             Good == {k \in Nat : k <= Len(q) => FlattensTo(p, Begin(k))}
  <1>1. 0 \in Good
    <2>1. Begin(0) = << >> /\ p \o << >> = p BY ConcatEmptySeq
    <2>2. FlattenSeq(<< >>) = << >> BY FlattenEmpty
    <2>3. FlattenSeq(p) \in Seq(T)
      <3>1. PICK f \in [0..Len(p) -> Seq(T)] : FlattenSeq(p) = f[Len(p)] BY FlattenIs
      <3>2. Len(p) \in 0..Len(p) OBVIOUS
      <3>3. QED BY <3>1, <3>2
    <2>4. FlattenSeq(p) \o << >> = FlattenSeq(p) BY <2>3, ConcatEmptySeq
    <2>5. QED BY <2>1, <2>2, <2>4 DEF FlattensTo
  <1>2. ASSUME NEW k \in Nat, k \in Good PROVE k + 1 \in Good
    <2> SUFFICES ASSUME k + 1 <= Len(q) PROVE FlattensTo(p, Begin(k + 1)) OBVIOUS
    <2> DEFINE b == Begin(k)
               m == q[k + 1]
    <2>1. b \in Seq(Seq(T)) /\ m \in Seq(T) /\ Begin(k + 1) = Append(b, m) OBVIOUS
    <2>2. FlattensTo(p, b) BY <1>2
    <2> HIDE DEF b, m, Begin
    <2>3. FlattensTo(p, Append(b, m)) BY <2>1, <2>2, FlattensToOne
    <2>4. QED BY <2>1, <2>3
  <1>3. Nat \subseteq Good
    <2> HIDE DEF Good
    <2>1. QED BY <1>1, <1>2, SetInduction
  <1>4. Begin(Len(q)) = q /\ Len(q) \in Nat BY SubSeqFull
  <1>5. FlattensTo(p, Begin(Len(q)))
    <2>1. Len(q) \in Good
      <3> HIDE DEF Good
      <3>1. QED BY <1>3, <1>4
    <2> HIDE DEF Begin
    <2>2. QED BY <2>1
  <1> HIDE DEF Begin
  <1>6. QED BY <1>4, <1>5 DEF FlattensTo

LEMMA FlattenHead ==
  ASSUME NEW T, NEW h \in Seq(T), NEW q \in Seq(Seq(T))
  PROVE  FlattenSeq(<<h>> \o q) = h \o FlattenSeq(q)
  <1>1. /\ <<h>> \in Seq(Seq(T)) /\ << >> \in Seq(Seq(T))
        /\ Append(<< >>, h) = <<h>> /\ << >> \o h = h
    BY ConcatEmptySeq
  <1>2. FlattenSeq(<<h>>) = h BY <1>1, FlattenAppend, FlattenEmpty
  <1>3. FlattenSeq(<<h>> \o q) = FlattenSeq(<<h>>) \o FlattenSeq(q) BY <1>1, FlattenConcat
  <1>4. QED BY <1>2, <1>3

(* What is taken of a text next to what was taken of it before.            *)
LEMMA EmbedsNext ==
  ASSUME NEW T, NEW s \in Seq(T), NEW t \in Seq(T),
         NEW u \in 0..Len(t), NEW p \in (u + 1)..Len(t), NEW q \in p..Len(t),
         Embeds(s, SubSeq(t, 1, u))
  PROVE  Embeds(s \o SubSeq(t, p, q), SubSeq(t, 1, q))
  <1> DEFINE a == SubSeq(t, 1, u)
             b == SubSeq(t, 1, p - 1)
             w == SubSeq(t, p, q)
  <1>1. Len(t) \in Nat /\ p - 1 \in Nat /\ u <= p - 1 OBVIOUS
  <1>2. a \in Seq(T) /\ b \in Seq(T) /\ w \in Seq(T) /\ Len(b) = p - 1 OBVIOUS
  <1>3. Embeds(a, b)
    <2>1. a = SubSeq(b, 1, u)
      <3>1. /\ SubSeq(b, 1, u) \in Seq(T) /\ Len(SubSeq(b, 1, u)) = u /\ Len(a) = u
            /\ \A i \in 1..u : SubSeq(b, 1, u)[i] = a[i]
        OBVIOUS
      <3> HIDE DEF a, b
      <3>2. QED BY <1>2, <3>1, SeqEqual
    <2>2. u \in 0..Len(b) BY <1>1, <1>2
    <2> HIDE DEF a, b
    <2>3. QED BY <1>2, <2>1, <2>2, EmbedsBegin
  <1>4. b \o w = SubSeq(t, 1, q)
    <2>1. /\ 1 \in 1..(Len(t) + 1) /\ p - 1 \in (1 - 1)..Len(t) /\ q \in (p - 1)..Len(t)
          /\ (p - 1) + 1 = p
      BY <1>1
    <2>2. SubSeq(t, 1, p - 1) \o SubSeq(t, (p - 1) + 1, q) = SubSeq(t, 1, q)
      BY <2>1, ConcatAdjacentSubSeq, Zenon
    <2>3. QED BY <2>1, <2>2
  <1> HIDE DEF a, b, w
  <1>5. Embeds(s, b) BY <1>2, <1>3, EmbedsThrough DEF a
  <1>6. Embeds(w, w) BY <1>2, EmbedsSelf
  <1>7. Embeds(s \o w, b \o w) BY <1>2, <1>5, <1>6, EmbedsConcat
  <1>8. QED BY <1>4, <1>7 DEF w

(* The last piece goes on with o.                                          *)
Longer(ps, o) == [ps EXCEPT ![Len(ps)] = Append(@, o)]

(* What the element at i makes of the pieces of s from a to before it.     *)
Grown(ps, s, a, i, C) ==
  IF s[i] \in C THEN ps
  ELSE IF i = a \/ s[i - 1] \in C THEN Append(ps, <<s[i]>>)
  ELSE Longer(ps, s[i])

(* The function that Pieces builds.                                        *)
CutsUp(f, s, C) == f[0] = << >> /\ \A i \in 1..Len(s) : f[i] = Grown(f[i - 1], s, 1, i, C)

LEMMA LongerIs ==
  ASSUME NEW T, NEW ps \in Seq(Seq(T)), NEW o \in T
  PROVE  /\ Longer(ps, o) \in Seq(Seq(T)) /\ Len(Longer(ps, o)) = Len(ps)
         /\ \A i \in 1..Len(ps) :
              Longer(ps, o)[i] = IF i = Len(ps) THEN Append(ps[i], o) ELSE ps[i]
  <1> DEFINE n == Len(ps)
             l == Longer(ps, o)
             e(i) == IF i = n THEN Append(ps[i], o) ELSE ps[i]
  <1>1. n \in Nat /\ DOMAIN ps = 1..n /\ \A i \in 1..n : ps[i] \in Seq(T) OBVIOUS
  <1>2. \A i \in 1..n : e(i) \in Seq(T) BY <1>1, AppendProperties
  <1>3. l = [i \in 1..n |-> e(i)] BY <1>1 DEF Longer
  <1> HIDE DEF l, e, n
  <1>4. l \in Seq(Seq(T)) /\ Len(l) = n BY <1>1, <1>2, <1>3
  <1>5. QED BY <1>3, <1>4 DEF l, e, n

LEMMA GrownTyped ==
  ASSUME NEW T, NEW ps \in Seq(Seq(T)), NEW s \in Seq(T), NEW i \in 1..Len(s), NEW C
  PROVE  Grown(ps, s, 1, i, C) \in Seq(Seq(T))
  <1>1. s[i] \in T OBVIOUS
  <1>2. <<s[i]>> \in Seq(T) BY <1>1
  <1>3. Append(ps, <<s[i]>>) \in Seq(Seq(T)) BY <1>2, AppendProperties
  <1>4. QED BY <1>1, <1>3, LongerIs DEF Grown

LEMMA PiecesIs ==
  ASSUME NEW T, NEW s \in Seq(T), NEW C
  PROVE  \E f \in [0..Len(s) -> Seq(Seq(T))] : CutsUp(f, s, C) /\ Pieces(s, C) = f[Len(s)]
  <1> DEFINE n == Len(s)
             P == Seq(Seq(T))
             step == [p \in P \X (1..n) |-> Grown(p[1], s, 1, p[2], C)]
             upTo == CHOOSE f : f = [i \in 0..n |->
                       IF i = 0 THEN << >> ELSE Grown(f[i - 1], s, 1, i, C)]
  <1>1. n \in Nat /\ << >> \in P OBVIOUS
  <1>2. Pieces(s, C) = upTo[n] BY Zenon DEF Pieces, Grown, Longer
  <1>3. ASSUME NEW v \in P, NEW i \in 1..n
        PROVE  step[<<v, i>>] = Grown(v, s, 1, i, C) /\ step[<<v, i>>] \in P
    <2>1. step[<<v, i>>] = Grown(v, s, 1, i, C) OBVIOUS
    <2>2. QED BY <2>1, GrownTyped
  <1> HIDE DEF n, P, step
  <1>4. PICK f \in [0..n -> P] : Follows(f, n, << >>, step)
    BY <1>1, <1>3, RecursionExists
  <1>5. /\ f[0] = << >>
        /\ \A i \in 1..n : f[i] = Grown(f[i - 1], s, 1, i, C)
    <2>1. ASSUME NEW i \in 1..n PROVE f[i] = Grown(f[i - 1], s, 1, i, C)
      <3>1. f[i - 1] \in P BY <1>1, <1>4
      <3>2. f[i] = step[<<f[i - 1], i>>] BY <1>4 DEF Follows
      <3>3. QED BY <1>3, <3>1, <3>2
    <2>2. QED BY <1>4, <2>1 DEF Follows
  <1>6. f = [i \in 0..n |-> IF i = 0 THEN << >> ELSE Grown(f[i - 1], s, 1, i, C)]
    <2>1. f = [i \in 0..n |-> f[i]] BY <1>4
    <2>2. \A i \in 0..n : i # 0 => i \in 1..n BY <1>1
    <2>3. QED BY <1>5, <2>1, <2>2
  <1>7. upTo = [i \in 0..n |-> IF i = 0 THEN << >> ELSE Grown(upTo[i - 1], s, 1, i, C)]
    BY <1>6, Zenon
  <1> HIDE DEF upTo
  <1>8. upTo[0] = << >> BY <1>1, <1>7
  <1>9. ASSUME NEW i \in 1..n PROVE upTo[i] = Grown(upTo[i - 1], s, 1, i, C)
    <2>1. i \in 0..n /\ i # 0 BY <1>1
    <2>2. QED BY <1>7, <2>1
  <1>10. \A i \in 0..n : upTo[i] = f[i]
    <2>1. \A i \in 1..n : upTo[i - 1] = f[i - 1] => upTo[i] = f[i] BY <1>5, <1>9
    <2>2. upTo[0] = f[0] BY <1>5, <1>8
    <2>3. GoOnAlike(upTo, f, n) BY <2>1, <2>2 DEF GoOnAlike
    <2>4. QED BY <1>1, <2>3, RecursionAgrees
  <1>11. Pieces(s, C) = f[n] BY <1>1, <1>2, <1>10
  <1>12. CutsUp(f, s, C) BY <1>5 DEF CutsUp, n
  <1>13. QED BY <1>4, <1>11, <1>12 DEF n, P

LEMMA PiecesEmpty == ASSUME NEW C PROVE Pieces(<< >>, C) = << >>
  <1>1. << >> \in Seq({}) /\ Len(<< >>) = 0 OBVIOUS
  <1>2. PICK f \in [0..Len(<< >>) -> Seq(Seq({}))] :
          CutsUp(f, << >>, C) /\ Pieces(<< >>, C) = f[Len(<< >>)]
    BY <1>1, PiecesIs
  <1>3. QED BY <1>1, <1>2 DEF CutsUp

(* One element more.                                                       *)
LEMMA PiecesAppend ==
  ASSUME NEW T, NEW s \in Seq(T), NEW o \in T, NEW C
  PROVE  /\ Pieces(s, C) \in Seq(Seq(T))
         /\ Pieces(Append(s, o), C) = Grown(Pieces(s, C), Append(s, o), 1, Len(s) + 1, C)
  <1> DEFINE r == Append(s, o)
             n == Len(s)
  <1>1. /\ n \in Nat /\ r \in Seq(T) /\ Len(r) = n + 1
        /\ \A i \in 1..n : r[i] = s[i]
    OBVIOUS
  <1>2a. PICK f \in [0..n -> Seq(Seq(T))] : CutsUp(f, s, C) /\ Pieces(s, C) = f[n]
    BY PiecesIs
  <1>2. /\ f[0] = << >> /\ Pieces(s, C) = f[n]
        /\ \A i \in 1..n : f[i] = Grown(f[i - 1], s, 1, i, C)
    BY <1>2a DEF CutsUp
  <1> HIDE DEF r, n
  <1>3a. PICK g \in [0..Len(r) -> Seq(Seq(T))] : CutsUp(g, r, C) /\ Pieces(r, C) = g[Len(r)]
    BY <1>1, PiecesIs
  <1>3. /\ g[0] = << >> /\ Pieces(r, C) = g[n + 1]
        /\ \A i \in 1..(n + 1) : g[i] = Grown(g[i - 1], r, 1, i, C)
    BY <1>1, <1>3a DEF CutsUp
  <1>4. g[n] = f[n]
    <2>1. \A i \in 1..n : f[i - 1] = g[i - 1] => f[i] = g[i]
      <3> SUFFICES ASSUME NEW i \in 1..n, f[i - 1] = g[i - 1] PROVE f[i] = g[i] OBVIOUS
      <3>1. i \in 1..(n + 1) /\ r[i] = s[i] BY <1>1
      <3>2. i = 1 \/ r[i - 1] = s[i - 1]
        <4>1. i # 1 => i - 1 \in 1..n BY <1>1
        <4>2. QED BY <1>1, <4>1
      <3>3. Grown(f[i - 1], s, 1, i, C) = Grown(f[i - 1], r, 1, i, C) BY <3>1, <3>2 DEF Grown
      <3>4. QED BY <1>2, <1>3, <3>1, <3>3
    <2>2. f[0] = g[0] BY <1>2, <1>3
    <2>3. GoOnAlike(f, g, n) BY <2>1, <2>2 DEF GoOnAlike
    <2>4. n \in Nat BY <1>1
    <2>5. \A i \in 0..n : f[i] = g[i] BY <2>3, <2>4, RecursionAgrees, ZenonT(60)
    <2>6. QED BY <2>4, <2>5
  <1>5. g[n + 1] = Grown(g[n], r, 1, n + 1, C)
    <2>1. n + 1 \in 1..(n + 1) /\ (n + 1) - 1 = n BY <1>1
    <2>2. QED BY <1>3, <2>1
  <1>6. f[n] \in Seq(Seq(T)) BY <1>1, <1>2a
  <1>7. QED BY <1>2, <1>3, <1>4, <1>5, <1>6 DEF r, n

(* The pieces of t from a to k.                                            *)
PiecesTo(t, a, k, C) == Pieces(SubSeq(t, a, k), C)

LEMMA PiecesToNext ==
  ASSUME NEW T, NEW t \in Seq(T), NEW C, NEW a \in 1..Len(t), NEW k \in a..Len(t)
  PROVE  /\ PiecesTo(t, a, k - 1, C) \in Seq(Seq(T))
         /\ PiecesTo(t, a, k, C) = Grown(PiecesTo(t, a, k - 1, C), t, a, k, C)
  <1> DEFINE s == SubSeq(t, a, k - 1)
             r == Append(s, t[k])
  <1>1. Len(t) \in Nat /\ a \in Nat /\ k \in Nat /\ a <= k /\ t[k] \in T OBVIOUS
  <1>2. /\ s \in Seq(T) /\ Len(s) = k - a
        /\ \A i \in 1..(k - a) : s[i] = t[a + i - 1]
    <2>1. \A i \in a..(k - 1) : t[i] \in T OBVIOUS
    <2>2. a \in Int /\ k - 1 \in Int BY <1>1
    <2>3. /\ s \in Seq(T) /\ Len(s) = IF a <= k - 1 THEN (k - 1) - a + 1 ELSE 0
          /\ \A i \in 1..((k - 1) - a + 1) : s[i] = t[a + i - 1]
      BY <2>1, <2>2, SubSeqProperties
    <2> HIDE DEF s
    <2>4. QED BY <1>1, <2>3
  <1>2a. /\ r \in Seq(T) /\ Len(r) = (k - a) + 1 /\ r[(k - a) + 1] = t[k]
         /\ \A i \in 1..(k - a) : r[i] = s[i]
    <2> DEFINE e == t[k]
    <2>1. s \in Seq(T) /\ e \in T BY <1>1, <1>2
    <2> HIDE DEF s, e
    <2>2. /\ Append(s, e) \in Seq(T) /\ Len(Append(s, e)) = Len(s) + 1
          /\ Append(s, e)[Len(s) + 1] = e
          /\ \A i \in 1..Len(s) : Append(s, e)[i] = s[i]
      BY <2>1, AppendProperties
    <2>3. r = Append(s, e) BY DEF e
    <2> HIDE DEF r
    <2>4. QED BY <1>2, <2>2, <2>3 DEF e
  <1>3. SubSeq(t, a, k) = r
    <2> DEFINE q == SubSeq(t, a, k)
    <2>1. \A i \in a..k : t[i] \in T OBVIOUS
    <2>2. a \in Int /\ k \in Int BY <1>1
    <2>3. /\ q \in Seq(T) /\ Len(q) = IF a <= k THEN k - a + 1 ELSE 0
          /\ \A i \in 1..(k - a + 1) : q[i] = t[a + i - 1]
      BY <2>1, <2>2, SubSeqProperties
    <2> HIDE DEF q, s
    <2> HIDE DEF r
    <2>5. \A i \in 1..((k - a) + 1) : q[i] = r[i]
      <3> SUFFICES ASSUME NEW i \in 1..((k - a) + 1) PROVE q[i] = r[i] OBVIOUS
      <3>1. CASE i = (k - a) + 1
        <4>1. a + i - 1 = k BY <1>1, <3>1
        <4>2. QED BY <1>1, <1>2a, <2>3, <3>1, <4>1
      <3>2. CASE i # (k - a) + 1
        <4>1. i \in 1..(k - a) BY <1>1, <3>2
        <4>2. QED BY <1>1, <1>2, <1>2a, <2>3, <4>1
      <3>3. QED BY <3>1, <3>2
    <2>6. QED BY <1>1, <1>2a, <2>3, <2>5, SeqEqual DEF q
  <1>4. /\ Len(s) + 1 = (k - a) + 1
        /\ r[(k - a) + 1] = t[k]
        /\ k # a => r[((k - a) + 1) - 1] = t[k - 1]
    <2> HIDE DEF s, r
    <2>2. ASSUME k # a PROVE r[((k - a) + 1) - 1] = t[k - 1]
      <3>1. k - a \in 1..(k - a) /\ a + (k - a) - 1 = k - 1 /\ ((k - a) + 1) - 1 = k - a
        BY <1>1, <2>2
      <3>2. r[k - a] = s[k - a] BY <1>2a, <3>1
      <3>3. QED BY <1>2, <3>1, <3>2
    <2>3. QED BY <1>1, <1>2, <1>2a, <2>2
  <1> HIDE DEF s, r
  <1>5. (k - a) + 1 = 1 <=> k = a BY <1>1
  <1>6. Pieces(s, C) \in Seq(Seq(T)) /\ Pieces(r, C) = Grown(Pieces(s, C), r, 1, Len(s) + 1, C)
    BY <1>1, <1>2, PiecesAppend DEF r
  <1>7. QED BY <1>3, <1>4, <1>5, <1>6 DEF PiecesTo, Grown, s

LEMMA PiecesToTyped ==
  ASSUME NEW T, NEW t \in Seq(T), NEW C, NEW a \in 1..(Len(t) + 1), NEW k \in (a - 1)..Len(t)
  PROVE  /\ PiecesTo(t, a, k, C) \in Seq(Seq(T))
         /\ k = a - 1 => PiecesTo(t, a, k, C) = << >>
  <1>1. Len(t) \in Nat /\ SubSeq(t, a, k) \in Seq(T) OBVIOUS
  <1>2. PICK f \in [0..Len(SubSeq(t, a, k)) -> Seq(Seq(T))] :
          Pieces(SubSeq(t, a, k), C) = f[Len(SubSeq(t, a, k))]
    BY <1>1, PiecesIs
  <1>3. Len(SubSeq(t, a, k)) \in 0..Len(SubSeq(t, a, k)) BY <1>1
  <1>4. k = a - 1 => SubSeq(t, a, k) = << >> OBVIOUS
  <1>5. QED BY <1>2, <1>3, <1>4, PiecesEmpty DEF PiecesTo

(* Elements of C begin no piece.                                           *)
LEMMA PiecesSkip ==
  ASSUME NEW T, NEW t \in Seq(T), NEW C, NEW a \in 1..(Len(t) + 1),
         NEW s \in a..(Len(t) + 1), NEW r \in (s - 1)..Len(t),
         \A i \in s..r : t[i] \in C
  PROVE  PiecesTo(t, a, r, C) = PiecesTo(t, a, s - 1, C)
  <1> DEFINE P(k) == PiecesTo(t, a, k, C)
             Good == {d \in Nat : s - 1 + d <= r => P(s - 1 + d) = P(s - 1)}
  <1>1. Len(t) \in Nat /\ a \in Nat /\ s \in Nat /\ r \in Nat OBVIOUS
  <1>2. 0 \in Good BY <1>1
  <1>3. ASSUME NEW d \in Nat, d \in Good PROVE d + 1 \in Good
    <2> SUFFICES ASSUME s - 1 + (d + 1) <= r PROVE P(s - 1 + (d + 1)) = P(s - 1) OBVIOUS
    <2> DEFINE k == s + d
    <2>1. /\ s - 1 + (d + 1) = k /\ s - 1 + d = k - 1 /\ s - 1 + d <= r
          /\ k \in s..r /\ k \in a..Len(t) /\ a \in 1..Len(t)
      BY <1>1
    <2>2. P(s - 1 + d) = P(s - 1) BY <1>3, <2>1
    <2> HIDE DEF k
    <2>3. P(k) = P(k - 1)
      <3>1. t[k] \in C BY <2>1
      <3>2. PiecesTo(t, a, k, C) = Grown(PiecesTo(t, a, k - 1, C), t, a, k, C)
        BY <2>1, PiecesToNext
      <3>3. QED BY <3>1, <3>2 DEF Grown
    <2>4. QED BY <2>1, <2>2, <2>3
  <1>4. r - (s - 1) \in Nat /\ s - 1 + (r - (s - 1)) = r BY <1>1
  <1>5. r - (s - 1) \in Good
    <2> HIDE DEF Good
    <2>1. QED BY <1>2, <1>3, <1>4, SetInduction
  <1>6. QED BY <1>1, <1>4, <1>5

(* The elements behind one of C, up to the next, are a piece.              *)
LEMMA PiecesWord ==
  ASSUME NEW T, NEW t \in Seq(T), NEW C, NEW a \in 1..Len(t),
         NEW s \in a..Len(t), NEW r \in s..Len(t),
         s = a \/ t[s - 1] \in C, \A i \in s..r : t[i] \notin C
  PROVE  PiecesTo(t, a, r, C) = Append(PiecesTo(t, a, s - 1, C), SubSeq(t, s, r))
  <1> DEFINE P(k) == PiecesTo(t, a, k, C)
             w(k) == SubSeq(t, s, k)
             Good == {d \in Nat : s + d <= r => P(s + d) = Append(P(s - 1), w(s + d))}
  <1>1. Len(t) \in Nat /\ a \in Nat /\ s \in Nat /\ r \in Nat OBVIOUS
  <1>2. P(s - 1) \in Seq(Seq(T)) BY <1>1, PiecesToNext
  <1>3. 0 \in Good
    <2>1. P(s) = Append(P(s - 1), <<t[s]>>)
      <3>1. PiecesTo(t, a, s, C) = Grown(PiecesTo(t, a, s - 1, C), t, a, s, C)
        BY <1>1, PiecesToNext
      <3>2. t[s] \notin C BY <1>1
      <3>3. QED BY <3>1, <3>2 DEF Grown
    <2>2. w(s) = <<t[s]>>
      <3>1. SubSeq(t, s, s) = [i \in 1..1 |-> t[s]] BY <1>1
      <3>2. QED BY <3>1
    <2>3. s + 0 = s BY <1>1
    <2>4. QED BY <2>1, <2>2, <2>3
  <1>4. ASSUME NEW d \in Nat, d \in Good PROVE d + 1 \in Good
    <2> SUFFICES ASSUME s + (d + 1) <= r
                 PROVE  P(s + (d + 1)) = Append(P(s - 1), w(s + (d + 1)))
      OBVIOUS
    <2> DEFINE k == s + (d + 1)
               p == P(s - 1)
               v == w(s + d)
    <2>1. /\ s + d = k - 1 /\ s + d <= r /\ k \in Nat /\ k # a
          /\ k \in s..r /\ k - 1 \in s..r /\ k \in a..Len(t) /\ k - 1 \in s..Len(t)
      BY <1>1
    <2>2. P(s + d) = Append(p, v) BY <1>4, <2>1
    <2>3. p \in Seq(Seq(T)) /\ v \in Seq(T) /\ t[k] \in T BY <1>1, <1>2, <2>1
    <2>4. w(s + (d + 1)) = Append(v, t[k])
      <3> DEFINE x == w(s + (d + 1))
                 e == t[k]
                 m == d + 1
      <3>1. \A i \in s..k : t[i] \in T BY <1>1, <2>1
      <3>2. /\ x \in Seq(T) /\ Len(x) = m + 1
            /\ \A i \in 1..(m + 1) : x[i] = t[s + i - 1]
        BY <1>1, <3>1
      <3>3. /\ v \in Seq(T) /\ Len(v) = m
            /\ \A i \in 1..m : v[i] = t[s + i - 1]
        BY <1>1, <2>1, <3>1, SMTT(60)
      <3>4. t[k] = e /\ s + (m + 1) - 1 = k /\ m \in Nat BY <1>1
      <3> HIDE DEF v, x, e, m
      <3>5. /\ Append(v, e) \in Seq(T) /\ Len(Append(v, e)) = m + 1
            /\ Append(v, e)[m + 1] = e
            /\ \A i \in 1..m : Append(v, e)[i] = v[i]
        BY <2>3, <3>3, <3>4, AppendProperties
      <3>6. \A i \in 1..(m + 1) : x[i] = Append(v, e)[i]
        <4> SUFFICES ASSUME NEW i \in 1..(m + 1) PROVE x[i] = Append(v, e)[i] OBVIOUS
        <4>1. i = m + 1 \/ i \in 1..m BY <3>4
        <4>2. QED BY <3>2, <3>3, <3>4, <3>5, <4>1
      <3>7. x = Append(v, e) BY <3>2, <3>5, <3>6, SeqEqual
      <3>8. QED BY <3>7 DEF x, e
    <2>5. P(k) = Longer(P(k - 1), t[k])
      <3>1. t[k] \notin C /\ t[k - 1] \notin C BY <2>1
      <3>2. k \in a..Len(t) /\ k # a BY <2>1
      <3> HIDE DEF k
      <3>3. PiecesTo(t, a, k, C) = Grown(PiecesTo(t, a, k - 1, C), t, a, k, C)
        BY <3>2, PiecesToNext
      <3>4. QED BY <3>1, <3>2, <3>3 DEF Grown
    <2> HIDE DEF k, p, v
    <2>6. Longer(Append(p, v), t[k]) = Append(p, Append(v, t[k]))
      <3> DEFINE e == t[k]
                 n == Len(p)
                 ps == Append(p, v)
                 x == Append(v, e)
                 y == Longer(ps, e)
                 z == Append(p, x)
      <3>1. e \in T /\ n \in Nat /\ x \in Seq(T) BY <2>3
      <3>2. /\ ps \in Seq(Seq(T)) /\ Len(ps) = n + 1 /\ ps[n + 1] = v
            /\ \A i \in 1..n : ps[i] = p[i]
        BY <2>3, AppendProperties
      <3>3. /\ z \in Seq(Seq(T)) /\ Len(z) = n + 1 /\ z[n + 1] = x
            /\ \A i \in 1..n : z[i] = p[i]
        <4> HIDE DEF x
        <4>1. QED BY <2>3, <3>1, AppendProperties
      <3> HIDE DEF e, ps, n
      <3>4. /\ y \in Seq(Seq(T)) /\ Len(y) = Len(ps)
            /\ \A i \in 1..Len(ps) : y[i] = IF i = Len(ps) THEN Append(ps[i], e) ELSE ps[i]
        BY <3>1, <3>2, LongerIs, ZenonT(60)
      <3> HIDE DEF y, z
      <3>5. \A i \in 1..(n + 1) : y[i] = z[i]
        <4> SUFFICES ASSUME NEW i \in 1..(n + 1) PROVE y[i] = z[i] OBVIOUS
        <4>1. i = n + 1 \/ (i # n + 1 /\ i \in 1..n) BY <3>1
        <4>2. y[i] = IF i = n + 1 THEN Append(ps[i], e) ELSE ps[i] BY <3>2, <3>4
        <4>3. QED BY <3>2, <3>3, <4>1, <4>2
      <3>6. y = z BY <3>2, <3>3, <3>4, <3>5, SeqEqual
      <3>7. QED BY <3>6 DEF y, z, ps, x, e
    <2>7. QED BY <2>1, <2>2, <2>4, <2>5, <2>6 DEF k, p
  <1>5. r - s \in Nat /\ s + (r - s) = r BY <1>1
  <1>6. r - s \in Good
    <2> HIDE DEF Good
    <2>1. QED BY <1>3, <1>4, <1>5, SetInduction
  <1>7. QED BY <1>1, <1>5, <1>6

(* What comes behind an element of C adds pieces to those before.          *)
Extends(ps, qs) == Len(ps) <= Len(qs) /\ \A i \in 1..Len(ps) : qs[i] = ps[i]

LEMMA PiecesExtend ==
  ASSUME NEW T, NEW t \in Seq(T), NEW C, NEW a \in 1..(Len(t) + 1),
         NEW s \in a..(Len(t) + 1), NEW r \in (s - 1)..Len(t),
         s = a \/ t[s - 1] \in C
  PROVE  Extends(PiecesTo(t, a, s - 1, C), PiecesTo(t, a, r, C))
  <1> DEFINE P(k) == PiecesTo(t, a, k, C)
             ps == P(s - 1)
             Ok(k) == /\ Extends(ps, P(k))
                      /\ k >= s /\ t[k] \notin C => Len(P(k)) > Len(ps)
             Good == {d \in Nat : s - 1 + d <= r => Ok(s - 1 + d)}
  <1>1. Len(t) \in Nat /\ a \in Nat /\ s \in Nat /\ r \in Nat OBVIOUS
  <1>2. ps \in Seq(Seq(T)) BY <1>1, PiecesToTyped
  <1>3. 0 \in Good BY <1>1, <1>2 DEF Extends
  <1>4. ASSUME NEW d \in Nat, d \in Good PROVE d + 1 \in Good
    <2> SUFFICES ASSUME s - 1 + (d + 1) <= r PROVE Ok(s - 1 + (d + 1)) OBVIOUS
    <2> DEFINE k == s + d
               qs == P(k - 1)
    <2>1. /\ s - 1 + (d + 1) = k /\ s - 1 + d = k - 1 /\ s - 1 + d <= r /\ k >= s
          /\ k \in s..r /\ k \in a..Len(t) /\ a \in 1..Len(t) /\ k \in Nat
          /\ (k = s \/ k - 1 >= s)
      BY <1>1
    <2>2. Ok(k - 1) BY <1>4, <2>1
    <2> HIDE DEF k
    <2>3. /\ qs \in Seq(Seq(T)) /\ t[k] \in T
          /\ P(k) = IF t[k] \in C THEN qs
                    ELSE IF k = a \/ t[k - 1] \in C THEN Append(qs, <<t[k]>>)
                    ELSE Longer(qs, t[k])
      <3>1. /\ PiecesTo(t, a, k - 1, C) \in Seq(Seq(T))
            /\ PiecesTo(t, a, k, C) = Grown(PiecesTo(t, a, k - 1, C), t, a, k, C)
        <4>1. a \in 1..Len(t) /\ k \in a..Len(t) BY <2>1
        <4>2. QED BY <4>1, PiecesToNext, SMTT(60)
      <3>2. t[k] \in T BY <2>1
      <3>3. QED BY <3>1, <3>2 DEF Grown
    <2> HIDE DEF ps, qs
    <2>4. /\ Len(ps) \in Nat /\ Len(qs) \in Nat /\ Len(ps) <= Len(qs)
          /\ \A i \in 1..Len(ps) : qs[i] = ps[i]
      BY <1>2, <2>2, <2>3 DEF Extends, qs
    <2>5. CASE t[k] \in C
      <3>1. P(k) = qs BY <2>3, <2>5
      <3>2. QED BY <2>1, <2>4, <2>5, <3>1 DEF Extends
    <2>6. CASE t[k] \notin C /\ (k = a \/ t[k - 1] \in C)
      <3> DEFINE e == <<t[k]>>
                 x == Append(qs, e)
      <3>1. e \in Seq(T) BY <2>3
      <3> HIDE DEF e
      <3>2. Len(x) = Len(qs) + 1 /\ \A i \in 1..Len(qs) : x[i] = qs[i]
        BY <2>3, <3>1, AppendProperties
      <3>3. P(k) = x BY <2>3, <2>6 DEF e
      <3> HIDE DEF x
      <3>4. Len(ps) <= Len(x) /\ Len(x) > Len(ps) /\ \A i \in 1..Len(ps) : x[i] = ps[i]
        BY <2>4, <3>2
      <3>5. QED BY <2>1, <3>3, <3>4 DEF Extends
    <2>7. CASE t[k] \notin C /\ ~(k = a \/ t[k - 1] \in C)
      <3> DEFINE x == Longer(qs, t[k])
      <3>1. /\ Len(x) = Len(qs)
            /\ \A i \in 1..Len(qs) : x[i] = IF i = Len(qs) THEN Append(qs[i], t[k]) ELSE qs[i]
        BY <2>3, LongerIs, ZenonT(60)
      <3>2. P(k) = x BY <2>3, <2>7
      <3>3. Len(qs) > Len(ps)
        <4>1. k - 1 >= s BY <2>1, <2>7
        <4>2. QED BY <2>2, <2>7, <4>1 DEF qs
      <3> HIDE DEF x
      <3>4. Len(ps) <= Len(x) /\ Len(x) > Len(ps) /\ \A i \in 1..Len(ps) : x[i] = ps[i]
        BY <2>4, <3>1, <3>3
      <3>5. QED BY <2>1, <3>2, <3>4 DEF Extends
    <2>8. QED BY <2>5, <2>6, <2>7
  <1>5. r - (s - 1) \in Nat /\ s - 1 + (r - (s - 1)) = r BY <1>1
  <1>6. r - (s - 1) \in Good
    <2> HIDE DEF Good
    <2>1. QED BY <1>3, <1>4, <1>5, SetInduction
  <1>7. QED BY <1>1, <1>5, <1>6

(* Behind s, some elements of C, a piece from p to q, and one of C at most *)
(* up to r.                                                                *)
IsStep(t, C, a, s, p, q, r) ==
  /\ a \in 1..Len(t) /\ s \in a..Len(t) /\ p \in s..Len(t)
  /\ q \in p..Len(t) /\ r \in q..Len(t)
  /\ s = a \/ t[s - 1] \in C
  /\ r = q \/ (r = q + 1 /\ t[r] \in C)
  /\ \A i \in s..(p - 1) : t[i] \in C
  /\ \A i \in p..q : t[i] \notin C

LEMMA PiecesStep ==
  ASSUME NEW T, NEW t \in Seq(T), NEW C, NEW a, NEW s, NEW p, NEW q, NEW r,
         IsStep(t, C, a, s, p, q, r)
  PROVE  PiecesTo(t, a, r, C) = Append(PiecesTo(t, a, s - 1, C), SubSeq(t, p, q))
  <1> USE DEF IsStep
  <1>1. Len(t) \in Nat /\ a \in Nat /\ s \in Nat /\ p \in Nat /\ q \in Nat OBVIOUS
  <1>2. PiecesTo(t, a, p - 1, C) = PiecesTo(t, a, s - 1, C)
    <2>1. /\ a \in 1..(Len(t) + 1) /\ s \in a..(Len(t) + 1)
          /\ p - 1 \in (s - 1)..Len(t)
      BY <1>1
    <2>2. QED BY <2>1, PiecesSkip
  <1>3. PiecesTo(t, a, q, C) = Append(PiecesTo(t, a, p - 1, C), SubSeq(t, p, q))
    <2>1. p = a \/ t[p - 1] \in C
      <3>1. p = s \/ p - 1 \in s..(p - 1) BY <1>1
      <3>2. QED BY <3>1
    <2>2. p \in a..Len(t) BY <1>1
    <2>3. QED BY <2>1, <2>2, PiecesWord
  <1>4. PiecesTo(t, a, r, C) = PiecesTo(t, a, q, C)
    <2>1. CASE r = q BY <2>1
    <2>2. CASE r = q + 1 /\ t[r] \in C
      <3>1. /\ a \in 1..(Len(t) + 1) /\ r \in a..(Len(t) + 1)
            /\ r \in (r - 1)..Len(t) /\ r - 1 = q /\ \A i \in r..r : t[i] \in C
        BY <1>1, <2>2
      <3>2. PiecesTo(t, a, r, C) = PiecesTo(t, a, r - 1, C) BY <3>1, PiecesSkip
      <3>3. QED BY <3>1, <3>2
    <2>3. QED BY <2>1, <2>2
  <1>5. QED BY <1>2, <1>3, <1>4

----------------------------------------------------------------------------
(* Lists.  A list is described by the sequence of its nodes (Holds).  Each *)
(* operation gets a lemma that says which sequence the list has afterwards *)
(* and what it leaves alone; that the sequence is the Chain, which walks   *)
(* along next, is proved once (ChainOf), by induction.                     *)

(* The shape that all memories have.                                       *)
WellFormed(m) ==
  /\ m = [node |-> m.node, cell |-> m.cell, root |-> m.root]
  /\ m.node = [n \in DOMAIN m.node |->
                  [next |-> m.node[n].next, prev |-> m.node[n].prev,
                   data |-> m.node[n].data]]
  /\ m.cell = [c \in DOMAIN m.cell |-> m.cell[c]]
  /\ m.root = [l \in DOMAIN m.root |->
                  [count |-> m.root[l].count, first |-> m.root[l].first,
                   last |-> m.root[l].last]]

(* The nodes of list l are those of ch, linked in both directions.         *)
Holds(m, l, ch) ==
  /\ l \in DOMAIN m.root
  /\ ch \in Seq(DOMAIN m.node)
  /\ m.root[l].count = Len(ch)
  /\ m.root[l].first = IF ch = << >> THEN Null ELSE ch[1]
  /\ m.root[l].last = IF ch = << >> THEN Null ELSE ch[Len(ch)]
  /\ \A i \in 1..Len(ch) :
       /\ m.node[ch[i]].next = IF i = Len(ch) THEN Null ELSE ch[i + 1]
       /\ m.node[ch[i]].prev = IF i = 1 THEN Null ELSE ch[i - 1]
  /\ \A i, j \in 1..Len(ch) : i # j => ch[i] # ch[j]

(* Walking along next from first leads along any sequence linked by it.    *)
LEMMA WalkAlong ==
  ASSUME NEW m, NEW l, NEW ch, Holds(m, l, ch)
  PROVE  \A num \in 0..(Len(ch) - 1) : NodeAt(m, l, num) = ch[num + 1]
  <1> SUFFICES ASSUME NEW num \in 0..(Len(ch) - 1) PROVE NodeAt(m, l, num) = ch[num + 1]
    OBVIOUS
  <1>0. /\ Len(ch) \in Nat /\ num \in Nat
        /\ ch[1] = m.root[l].first
        /\ \A i \in 1..(Len(ch) - 1) : m.node[ch[i]].next = ch[i + 1]
    BY DEF Holds
  <1> DEFINE Walk(w) == [k \in 0..num |-> IF k = 0 THEN m.root[l].first
                                          ELSE m.node[w[k - 1]].next]
             walk == CHOOSE w : w = Walk(w)
             w0 == [k \in 0..num |-> ch[k + 1]]
  <1>1. w0 = Walk(w0)
    <2>1. ASSUME NEW k \in 0..num, k # 0 PROVE w0[k] = m.node[w0[k - 1]].next
      <3>1. k \in 1..(Len(ch) - 1) /\ k - 1 \in 0..num BY <1>0, <2>1
      <3>2. w0[k] = ch[k + 1] /\ w0[k - 1] = ch[k] BY <3>1
      <3>3. QED BY <1>0, <3>1, <3>2
    <2>2. w0[0] = m.root[l].first BY <1>0
    <2>3. QED BY <2>1, <2>2
  <1>2. walk = Walk(walk)
    <2> HIDE DEF Walk, w0
    <2>1. QED BY <1>1, Zenon
  <1>3. NodeAt(m, l, num) = walk[num]
    BY Zenon DEF NodeAt
  <1> HIDE DEF walk
  <1>4. walk[0] = ch[1] BY <1>0, <1>2
  <1>5. ASSUME NEW k \in 0..num, k > 0 PROVE walk[k] = m.node[walk[k - 1]].next
    BY <1>2, <1>5
  <1> DEFINE T == {k \in Nat : k <= num => walk[k] = ch[k + 1]}
  <1>6. 0 \in T BY <1>4
  <1>7. ASSUME NEW k \in Nat, k \in T PROVE k + 1 \in T
    <2>1. CASE k + 1 <= num BY <1>0, <1>7, <2>1, <1>5
    <2>2. QED BY <2>1
  <1>8. Nat \subseteq T
    <2> HIDE DEF T
    <2>1. QED BY <1>6, <1>7, SetInduction
  <1>9. QED BY <1>0, <1>3, <1>8

(* The sequence a list holds is its Chain, and the only one.               *)
LEMMA ChainOf ==
  ASSUME NEW m, NEW l, NEW ch, Holds(m, l, ch)
  PROVE  /\ Chain(m, l) = ch
         /\ \A i \in 1..Len(ch) : NodeAt(m, l, i - 1) = ch[i]
  <1>1. Len(ch) \in Nat /\ DOMAIN ch = 1..Len(ch) /\ ch = [i \in 1..Len(ch) |-> ch[i]]
    BY DEF Holds
  <1>2. ASSUME NEW i \in 1..Len(ch) PROVE NodeAt(m, l, i - 1) = ch[i]
    <2>1. i - 1 \in 0..(Len(ch) - 1) /\ (i - 1) + 1 = i BY <1>1
    <2>2. QED BY <2>1, WalkAlong
  <1>3. Chain(m, l) = [i \in 1..Len(ch) |-> NodeAt(m, l, i - 1)]
    BY DEF Chain, Holds
  <1>4. QED BY <1>1, <1>2, <1>3

(* A list that an operation does not touch stays as it is.                 *)
LEMMA HoldsStill ==
  ASSUME NEW m, NEW mm, NEW l, NEW ch, Holds(m, l, ch),
         l \in DOMAIN mm.root, mm.root[l] = m.root[l],
         \A i \in 1..Len(ch) : ch[i] \in DOMAIN mm.node /\ mm.node[ch[i]] = m.node[ch[i]]
  PROVE  Holds(mm, l, ch)
  <1>1. ch \in Seq(DOMAIN mm.node) BY SMTT(60) DEF Holds
  <1>2. QED BY <1>1, SMTT(60) DEF Holds

(* listAddElement: the new node is appended.                               *)
LEMMA AddHolds ==
  ASSUME NEW m, WellFormed(m), NEW l, NEW ch, Holds(m, l, ch),
         NEW n, n \notin DOMAIN m.node, n # Null, Null \notin DOMAIN m.node,
         NEW c, NEW data, NEW mm, mm = listAddElement(m, l, n, c, data)
  PROVE  /\ WellFormed(mm)
         /\ Holds(mm, l, Append(ch, n))
         /\ DOMAIN mm.root = DOMAIN m.root
         /\ \A k \in DOMAIN m.root : k # l => mm.root[k] = m.root[k]
         /\ DOMAIN mm.node = DOMAIN m.node \cup {n}
         /\ mm.node[n].data = c
         /\ \A x \in DOMAIN m.node :
              /\ mm.node[x].data = m.node[x].data
              /\ x \notin Range(ch) => mm.node[x] = m.node[x]
         /\ mm.cell = Allocate(m.cell, c, data)
  <1> DEFINE r == m.root[l]
  <1>1. CASE ch = << >>
    <2>1. r.count = 0 BY <1>1 DEF Holds
    <2>2. mm = [node |-> Allocate(m.node, n, [next |-> Null, data |-> c, prev |-> Null]),
                cell |-> Allocate(m.cell, c, data),
                root |-> [m.root EXCEPT ![l] = [count |-> 1, last |-> n, first |-> n]]]
      BY <2>1 DEF listAddElement
    <2> DEFINE new == [next |-> Null, data |-> c, prev |-> Null]
    <2>2a. mm.node = [x \in DOMAIN m.node \cup {n} |-> IF x = n THEN new ELSE m.node[x]]
      BY <2>2 DEF Allocate
    <2>3. /\ DOMAIN mm.node = DOMAIN m.node \cup {n}
          /\ mm.node = [x \in DOMAIN mm.node |-> mm.node[x]]
          /\ mm.node[n] = new
          /\ \A x \in DOMAIN m.node : mm.node[x] = m.node[x]
      <3> HIDE DEF new
      <3>1. QED BY <2>2a
    <2>4. /\ DOMAIN mm.root = DOMAIN m.root
          /\ \A k \in DOMAIN m.root : k # l => mm.root[k] = m.root[k]
          /\ mm.root[l] = [count |-> 1, last |-> n, first |-> n]
      BY <2>2 DEF Holds
    <2>5. WellFormed(mm)
      <3>1. mm.cell = [x \in DOMAIN mm.cell |-> mm.cell[x]] BY <2>2 DEF Allocate
      <3>2. mm.root = [k \in DOMAIN mm.root |->
                         [count |-> mm.root[k].count, first |-> mm.root[k].first,
                          last |-> mm.root[k].last]]
        BY <2>2 DEF WellFormed, Holds
      <3>3. ASSUME NEW x \in DOMAIN mm.node
            PROVE  mm.node[x] = [next |-> mm.node[x].next, prev |-> mm.node[x].prev,
                                 data |-> mm.node[x].data]
        <4>1. CASE x = n BY <2>3, <4>1
        <4>2. CASE x \in DOMAIN m.node
          <5>1. m.node[x] = [next |-> m.node[x].next, prev |-> m.node[x].prev,
                             data |-> m.node[x].data]
            BY <4>2 DEF WellFormed
          <5>2. QED BY <2>3, <4>2, <5>1
        <4>3. QED BY <2>3, <4>1, <4>2
      <3>4. mm = [node |-> mm.node, cell |-> mm.cell, root |-> mm.root] BY <2>2
      <3>5. QED BY <2>3, <3>1, <3>2, <3>3, <3>4 DEF WellFormed
    <2>6. Holds(mm, l, Append(ch, n))
      <3> DEFINE one == Append(ch, n)
      <3>1. one \in Seq(DOMAIN mm.node) /\ Len(one) = 1 /\ one[1] = n /\ one # << >>
        BY <1>1, <2>3
      <3> HIDE DEF one
      <3>2. mm.node[n].next = Null /\ mm.node[n].prev = Null BY <2>3
      <3>3. Holds(mm, l, one) BY <2>4, <3>1, <3>2 DEF Holds
      <3>4. QED BY <3>3 DEF one
    <2>7. mm.node[n].data = c BY <2>3
    <2>8. mm.cell = Allocate(m.cell, c, data) BY <2>2
    <2>9. QED BY <2>3, <2>4, <2>5, <2>6, <2>7, <2>8
  <1>2. CASE ch # << >>
    <2> DEFINE end == ch[Len(ch)]
               new == [next |-> Null, data |-> c, prev |-> end]
    <2>1. /\ Len(ch) \in Nat \ {0} /\ r.count = Len(ch) /\ r.last = end
          /\ end \in DOMAIN m.node /\ r.first = ch[1] /\ l \in DOMAIN m.root
          /\ \A i \in 1..Len(ch) : ch[i] \in DOMAIN m.node
      BY <1>2 DEF Holds
    <2>2. mm = [node |-> Allocate([m.node EXCEPT ![end].next = n], n, new),
                cell |-> Allocate(m.cell, c, data),
                root |-> [m.root EXCEPT ![l] = [count |-> Len(ch) + 1, last |-> n,
                                                first |-> ch[1]]]]
      BY <2>1 DEF listAddElement
    <2>3. /\ DOMAIN mm.node = DOMAIN m.node \cup {n}
          /\ mm.node[n] = new
          /\ \A x \in DOMAIN m.node : mm.node[x] =
               [next |-> IF x = end THEN n ELSE m.node[x].next,
                prev |-> m.node[x].prev, data |-> m.node[x].data]
      BY <2>1, <2>2 DEF Allocate, WellFormed
    <2>3a. ASSUME NEW x \in DOMAIN m.node
           PROVE  /\ mm.node[x].data = m.node[x].data
                  /\ mm.node[x] = [next |-> mm.node[x].next, prev |-> mm.node[x].prev,
                                   data |-> mm.node[x].data]
      <3>1. mm.node[x] = [next |-> IF x = end THEN n ELSE m.node[x].next,
                          prev |-> m.node[x].prev, data |-> m.node[x].data]
        BY <2>3
      <3>2. QED BY <3>1
    <2>4. WellFormed(mm)
      <3>1. mm.cell = [x \in DOMAIN mm.cell |-> mm.cell[x]] BY <2>2 DEF Allocate
      <3>2. mm.root = [k \in DOMAIN mm.root |->
                         [count |-> mm.root[k].count, first |-> mm.root[k].first,
                          last |-> mm.root[k].last]]
        BY <2>1, <2>2 DEF WellFormed
      <3>3. mm.node = [x \in DOMAIN mm.node |-> mm.node[x]]
        <4> DEFINE old == [m.node EXCEPT ![end].next = n]
        <4>1. mm.node = Allocate(old, n, new) BY <2>2
        <4> HIDE DEF old, new
        <4>2. QED BY <4>1 DEF Allocate
      <3>4. ASSUME NEW x \in DOMAIN mm.node
            PROVE  mm.node[x] = [next |-> mm.node[x].next, prev |-> mm.node[x].prev,
                                 data |-> mm.node[x].data]
        <4>1. CASE x = n BY <2>3, <4>1
        <4>2. CASE x \in DOMAIN m.node BY <2>3a, <4>2
        <4>3. QED BY <2>3, <4>1, <4>2
      <3>5. mm = [node |-> mm.node, cell |-> mm.cell, root |-> mm.root] BY <2>2
      <3>6. QED BY <3>1, <3>2, <3>3, <3>4, <3>5 DEF WellFormed
    <2>5. /\ DOMAIN mm.root = DOMAIN m.root
          /\ \A k \in DOMAIN m.root : k # l => mm.root[k] = m.root[k]
          /\ mm.root[l] = [count |-> Len(ch) + 1, last |-> n, first |-> ch[1]]
      BY <2>1, <2>2
    <2>6. Holds(mm, l, Append(ch, n))
      <3> DEFINE longer == Append(ch, n)
      <3>1. /\ Len(longer) = Len(ch) + 1 /\ longer # << >>
            /\ longer[Len(ch) + 1] = n
            /\ \A i \in 1..Len(ch) : longer[i] = ch[i]
            /\ longer \in Seq(DOMAIN mm.node)
        BY <2>1, <2>3 DEF Holds
      <3> HIDE DEF longer
      <3>2. ASSUME NEW i \in 1..Len(longer)
            PROVE  /\ mm.node[longer[i]].next = IF i = Len(longer) THEN Null ELSE longer[i + 1]
                   /\ mm.node[longer[i]].prev = IF i = 1 THEN Null ELSE longer[i - 1]
        <4>1. CASE i = Len(ch) + 1 BY <2>1, <2>3, <3>1, <4>1
        <4>2. CASE i = Len(ch)
          <5>1. longer[i] = end /\ longer[i + 1] = n /\ i # Len(longer) /\ i \in 1..Len(ch)
            BY <2>1, <3>1, <4>2
          <5>2. mm.node[end] = [next |-> n, prev |-> m.node[end].prev, data |-> m.node[end].data]
            BY <2>1, <2>3
          <5>3. m.node[end].prev = IF i = 1 THEN Null ELSE ch[i - 1]
            BY <4>2, <5>1 DEF Holds
          <5>4. i # 1 => longer[i - 1] = ch[i - 1] BY <2>1, <3>1, <5>1
          <5>5. QED BY <5>1, <5>2, <5>3, <5>4
        <4>3. CASE i < Len(ch)
          <5>1. i \in 1..Len(ch) /\ i + 1 \in 1..Len(ch) /\ ch[i] # end
            BY <2>1, <4>3 DEF Holds
          <5>2. /\ m.node[ch[i]].prev = IF i = 1 THEN Null ELSE ch[i - 1]
                /\ m.node[ch[i]].next = ch[i + 1]
            BY <4>3, <5>1 DEF Holds
          <5>3. /\ longer[i] = ch[i] /\ longer[i + 1] = ch[i + 1] /\ i # Len(longer)
                /\ i # 1 => longer[i - 1] = ch[i - 1]
            BY <2>1, <3>1, <5>1
          <5>4. mm.node[ch[i]] = [next |-> m.node[ch[i]].next, prev |-> m.node[ch[i]].prev,
                                  data |-> m.node[ch[i]].data]
            BY <2>1, <2>3, <5>1
          <5>5. QED BY <5>2, <5>3, <5>4
        <4>4. QED BY <2>1, <3>1, <4>1, <4>2, <4>3
      <3>3. ASSUME NEW i \in 1..Len(longer), NEW j \in 1..Len(longer), i # j
            PROVE  longer[i] # longer[j]
        BY <2>1, <3>1, <3>3 DEF Holds
      <3>4. Holds(mm, l, longer) BY <2>1, <2>5, <3>1, <3>2, <3>3 DEF Holds
      <3>5. QED BY <3>4 DEF longer
    <2>7. ASSUME NEW x \in DOMAIN m.node, x \notin Range(ch) PROVE mm.node[x] = m.node[x]
      <3>1. x # end BY <2>1, <2>7 DEF Range, Holds
      <3>2. QED BY <2>3, <3>1 DEF WellFormed
    <2>8. \A x \in DOMAIN m.node : mm.node[x].data = m.node[x].data BY <2>3a
    <2>9. mm.node[n].data = c /\ mm.cell = Allocate(m.cell, c, data) BY <2>2, <2>3
    <2>10. QED BY <2>3, <2>4, <2>5, <2>6, <2>7, <2>8, <2>9
  <1>3. QED BY <1>1, <1>2

(* The neighbours of the i-th node.                                        *)
Before(ch, i) == IF i = 1 THEN Null ELSE ch[i - 1]
After(ch, i)  == IF i = Len(ch) THEN Null ELSE ch[i + 1]

(* The sequence without its i-th element.                                  *)
Without(ch, i) == [j \in 1..(Len(ch) - 1) |-> IF j < i THEN ch[j] ELSE ch[j + 1]]

(* A node is freed if it is removed from an end of its list.               *)
Freed(ch, i) == IF i = 1 \/ i = Len(ch) THEN {ch[i]} ELSE {}

(* What all four cases of listRemoveElement have in common: the neighbours *)
(* of the i-th node are linked with each other.                            *)
Bridged(m, mm, l, ch, i) ==
  /\ mm = [node |-> mm.node, cell |-> m.cell, root |-> mm.root]
  /\ mm.node = [x \in DOMAIN m.node \ Freed(ch, i) |-> mm.node[x]]
  /\ \A x \in DOMAIN m.node \ Freed(ch, i) :
       mm.node[x] = [next |-> IF x = Before(ch, i) THEN After(ch, i) ELSE m.node[x].next,
                     prev |-> IF x = After(ch, i) THEN Before(ch, i) ELSE m.node[x].prev,
                     data |-> m.node[x].data]
  /\ mm.root = [m.root EXCEPT ![l] =
                  [count |-> Len(ch) - 1,
                   first |-> IF i = 1 THEN After(ch, i) ELSE ch[1],
                   last  |-> IF i = Len(ch) THEN Before(ch, i) ELSE ch[Len(ch)]]]

(* Counting num steps leads listRemoveElement to the node it bridges.      *)
LEMMA RemoveBridges ==
  ASSUME NEW m, WellFormed(m), NEW l, NEW ch, Holds(m, l, ch),
         Null \notin DOMAIN m.node, NEW num \in 0..(Len(ch) - 1),
         NEW mm, mm = listRemoveElement(m, l, num)
  PROVE  Bridged(m, mm, l, ch, num + 1)
  <1> DEFINE len == Len(ch)
             D == DOMAIN m.node
             p == Before(ch, num + 1)
             q == After(ch, num + 1)
             Rec(x) == [next |-> m.node[x].next, prev |-> m.node[x].prev,
                        data |-> m.node[x].data]
  <1>1. /\ len \in Nat \ {0} /\ m.root[l].count = len /\ ch # << >>
        /\ m.root[l].first = ch[1] /\ m.root[l].last = ch[len] /\ l \in DOMAIN m.root
        /\ \A i \in 1..len : ch[i] \in D /\ ch[i] # Null
    BY DEF Holds
  <1>2. ASSUME NEW i \in 1..len
        PROVE  /\ m.node[ch[i]].next = IF i = len THEN Null ELSE ch[i + 1]
               /\ m.node[ch[i]].prev = IF i = 1 THEN Null ELSE ch[i - 1]
    BY DEF Holds
  <1>3. \A i, j \in 1..len : i # j => ch[i] # ch[j] BY DEF Holds
  <1>w. /\ m = [node |-> m.node, cell |-> m.cell, root |-> m.root]
        /\ m.node = [x \in D |-> Rec(x)]
        /\ m.root[l] = [count |-> len, first |-> ch[1], last |-> ch[len]]
        /\ m.root = [k \in DOMAIN m.root |-> m.root[k]]
    BY <1>1 DEF WellFormed
  <1>r. ASSUME NEW x \in D PROVE m.node[x] = Rec(x) BY <1>w
  <1>4. CASE len = 1
    <2>1. num = 0 /\ Freed(ch, 1) = {ch[1]} /\ p = Null /\ q = Null
      BY <1>1, <1>4 DEF Freed, Before, After
    <2>2. mm = RemoveOnlyNode(m, l) BY <1>1, <1>4, <2>1 DEF listRemoveElement
    <2>3. mm = [node |-> [x \in D \ {ch[1]} |-> m.node[x]], cell |-> m.cell,
                root |-> [m.root EXCEPT ![l] = EmptyRoot]]
      BY <1>1, <1>w, <2>2, ZenonT(60) DEF RemoveOnlyNode, Free
    <2>4. ASSUME NEW x \in D \ {ch[1]} PROVE mm.node[x] = Rec(x) /\ x # Null
      BY <2>3, <1>r
    <2>5. mm.root = [m.root EXCEPT ![l] = [count |-> len - 1, first |-> q, last |-> p]]
      BY <1>4, <2>1, <2>3 DEF EmptyRoot
    <2>6. mm.node = [x \in D \ {ch[1]} |-> mm.node[x]] BY <2>3
    <2>7. mm = [node |-> mm.node, cell |-> m.cell, root |-> mm.root] BY <2>3
    <2>8. QED BY <1>4, <2>1, <2>4, <2>5, <2>6, <2>7 DEF Bridged
  <1>5. CASE len > 1 /\ num = 0
    <2>1. /\ Freed(ch, 1) = {ch[1]} /\ ch[1] # ch[2] /\ ch[2] \in D /\ ch[2] # Null
          /\ m.node[ch[1]].next = ch[2] /\ p = Null /\ q = ch[2] /\ num + 1 = 1 /\ len # 1
      BY <1>1, <1>2, <1>3, <1>5 DEF Freed, Before, After
    <2>2. mm = RemoveFirstNode(m, l) BY <1>1, <1>5 DEF listRemoveElement
    <2>3. /\ mm = [node |-> mm.node, cell |-> m.cell, root |-> mm.root]
          /\ mm.node = Free([m.node EXCEPT ![ch[2]].prev = Null], {ch[1]})
          /\ mm.root = [m.root EXCEPT ![l].first = ch[2], ![l].count = len - 1]
      <3>1. mm = [m EXCEPT !.node = Free([@ EXCEPT ![ch[2]].prev = Null], {ch[1]}),
                           !.root[l].first = ch[2], !.root[l].count = @ - 1]
        BY <1>1, <2>1, <2>2 DEF RemoveFirstNode
      <3> HIDE DEF p, q
      <3>2. mm = [node |-> Free([m.node EXCEPT ![ch[2]].prev = Null], {ch[1]}),
                  cell |-> m.cell,
                  root |-> [m.root EXCEPT ![l].first = ch[2], ![l].count = @ - 1]]
        BY <1>w, <3>1
      <3>3. QED BY <1>1, <3>2
    <2>4. mm.root = [m.root EXCEPT ![l] = [count |-> len - 1, first |-> q, last |-> ch[len]]]
      BY <1>w, <2>1, <2>3
    <2>5. mm.node = [x \in D \ {ch[1]} |-> [m.node EXCEPT ![ch[2]].prev = Null][x]]
      BY <2>3 DEF Free
    <2>6. ASSUME NEW x \in D \ {ch[1]}
          PROVE  mm.node[x] = [next |-> IF x = p THEN q ELSE m.node[x].next,
                               prev |-> IF x = q THEN p ELSE m.node[x].prev,
                               data |-> m.node[x].data]
      <3>1. m.node[x] = Rec(x) /\ x # Null BY <1>r
      <3>2. CASE x = ch[2] BY <2>1, <2>5, <3>1, <3>2
      <3>3. CASE x # ch[2] BY <2>1, <2>5, <3>1, <3>3
      <3>4. QED BY <3>2, <3>3
    <2>7. mm.node = [x \in D \ {ch[1]} |-> mm.node[x]] BY <2>5
    <2>8. QED BY <2>1, <2>3, <2>4, <2>6, <2>7 DEF Bridged
  <1>6. CASE num > 0 /\ num = len - 1
    <2>1. /\ Freed(ch, len) = {ch[len]} /\ ch[len - 1] # ch[len]
          /\ ch[len - 1] \in D /\ ch[len - 1] # Null
          /\ m.node[ch[len]].prev = ch[len - 1] /\ q = Null /\ p = ch[len - 1]
          /\ num + 1 = len /\ len # 1
      BY <1>1, <1>2, <1>3, <1>6 DEF Freed, Before, After
    <2>2. mm = RemoveLastNode(m, l) BY <1>1, <1>6 DEF listRemoveElement
    <2>3. /\ mm = [node |-> mm.node, cell |-> m.cell, root |-> mm.root]
          /\ mm.node = Free([m.node EXCEPT ![ch[len - 1]].next = Null], {ch[len]})
          /\ mm.root = [m.root EXCEPT ![l].last = ch[len - 1], ![l].count = len - 1]
      <3>1. mm = [m EXCEPT !.node = Free([@ EXCEPT ![ch[len - 1]].next = Null], {ch[len]}),
                           !.root[l].last = ch[len - 1], !.root[l].count = @ - 1]
        BY <1>1, <2>1, <2>2 DEF RemoveLastNode
      <3> HIDE DEF p, q
      <3>2. mm = [node |-> Free([m.node EXCEPT ![ch[len - 1]].next = Null], {ch[len]}),
                  cell |-> m.cell,
                  root |-> [m.root EXCEPT ![l].last = ch[len - 1], ![l].count = @ - 1]]
        BY <1>w, <3>1
      <3>3. QED BY <1>1, <3>2
    <2>4. mm.root = [m.root EXCEPT ![l] = [count |-> len - 1, first |-> ch[1], last |-> p]]
      BY <1>w, <2>1, <2>3
    <2>5. mm.node = [x \in D \ {ch[len]} |-> [m.node EXCEPT ![ch[len - 1]].next = Null][x]]
      BY <2>3 DEF Free
    <2>6. ASSUME NEW x \in D \ {ch[len]}
          PROVE  mm.node[x] = [next |-> IF x = p THEN q ELSE m.node[x].next,
                               prev |-> IF x = q THEN p ELSE m.node[x].prev,
                               data |-> m.node[x].data]
      <3>1. m.node[x] = Rec(x) /\ x # Null BY <1>r
      <3>2. CASE x = ch[len - 1] BY <2>1, <2>5, <3>1, <3>2
      <3>3. CASE x # ch[len - 1] BY <2>1, <2>5, <3>1, <3>3
      <3>4. QED BY <3>2, <3>3
    <2>7. mm.node = [x \in D \ {ch[len]} |-> mm.node[x]] BY <2>5
    <2>8. QED BY <2>1, <2>3, <2>4, <2>6, <2>7 DEF Bridged
  <1>7. CASE num > 0 /\ num < len - 1
    <2>1. /\ Freed(ch, num + 1) = {} /\ num + 1 # 1 /\ num + 1 # len
          /\ ch[num] # ch[num + 2] /\ ch[num] \in D /\ ch[num + 2] \in D
          /\ m.node[ch[num + 1]].next = ch[num + 2] /\ m.node[ch[num + 1]].prev = ch[num]
          /\ p = ch[num] /\ q = ch[num + 2]
      BY <1>1, <1>2, <1>3, <1>7 DEF Freed, Before, After
    <2>2. mm = RemoveInsideNode(m, l, num) BY <1>1, <1>7 DEF listRemoveElement
    <2>3. NodeAt(m, l, num) = ch[num + 1] BY WalkAlong
    <2>4. /\ mm = [node |-> mm.node, cell |-> m.cell, root |-> mm.root]
          /\ mm.node = [m.node EXCEPT ![q].prev = p, ![p].next = q]
          /\ mm.root = [m.root EXCEPT ![l].count = len - 1]
      <3>1. mm = [m EXCEPT !.node = [@ EXCEPT ![q].prev = p, ![p].next = q],
                           !.root[l].count = @ - 1]
        BY <2>1, <2>2, <2>3 DEF RemoveInsideNode
      <3> HIDE DEF p, q
      <3>2. mm = [node |-> [m.node EXCEPT ![q].prev = p, ![p].next = q],
                  cell |-> m.cell, root |-> [m.root EXCEPT ![l].count = @ - 1]]
        BY <1>w, <3>1
      <3>3. QED BY <1>1, <3>2
    <2>5. mm.root = [m.root EXCEPT ![l] = [count |-> len - 1, first |-> ch[1],
                                           last |-> ch[len]]]
      BY <1>w, <2>4
    <2> HIDE DEF p, q
    <2>6. ASSUME NEW x \in D
          PROVE  mm.node[x] = [next |-> IF x = p THEN q ELSE m.node[x].next,
                               prev |-> IF x = q THEN p ELSE m.node[x].prev,
                               data |-> m.node[x].data]
      <3>1. m.node[x] = Rec(x) /\ p # q BY <1>r, <2>1
      <3>2. CASE x = p BY <2>4, <3>1, <3>2
      <3>3. CASE x = q BY <2>4, <3>1, <3>3
      <3>4. CASE x # p /\ x # q BY <2>4, <3>1, <3>4
      <3>5. QED BY <3>2, <3>3, <3>4
    <2>7. mm.node = [x \in D |-> mm.node[x]] BY <2>4
    <2>8. QED BY <2>1, <2>4, <2>5, <2>6, <2>7 DEF Bridged, p, q
  <1>8. len = 1 \/ (len > 1 /\ num = 0) \/ (num > 0 /\ num = len - 1) \/ (num > 0 /\ num < len - 1)
    <2>1. len \in Nat \ {0} /\ num \in 0..(len - 1) BY <1>1
    <2> HIDE DEF len
    <2>2. QED BY <2>1
  <1>9. QED BY <1>4, <1>5, <1>6, <1>7, <1>8

(* Bridging the i-th node takes it out of the sequence.                    *)
LEMMA BridgedHolds ==
  ASSUME NEW m, WellFormed(m), NEW l, NEW ch, Holds(m, l, ch),
         Null \notin DOMAIN m.node, NEW i \in 1..Len(ch),
         NEW mm, Bridged(m, mm, l, ch, i)
  PROVE  /\ WellFormed(mm)
         /\ Holds(mm, l, Without(ch, i))
         /\ DOMAIN mm.root = DOMAIN m.root
         /\ \A k \in DOMAIN m.root : k # l => mm.root[k] = m.root[k]
         /\ mm.cell = m.cell
         /\ DOMAIN mm.node = DOMAIN m.node \ Freed(ch, i)
         /\ \A x \in DOMAIN mm.node :
              /\ mm.node[x].data = m.node[x].data
              /\ x \notin Range(ch) => mm.node[x] = m.node[x]
  <1> DEFINE len == Len(ch)
             p == Before(ch, i)
             q == After(ch, i)
             w == Without(ch, i)
             D == DOMAIN m.node \ Freed(ch, i)
  <1>0. len \in Nat \ {0} /\ i \in 1..len BY DEF Holds
  <1>1. /\ len \in Nat \ {0} /\ i \in 1..len /\ l \in DOMAIN m.root
        /\ \A t \in 1..len : ch[t] \in DOMAIN m.node /\ ch[t] # Null
        /\ DOMAIN ch = 1..len
    BY DEF Holds
  <1>2. \A t \in 1..len : /\ m.node[ch[t]].next = IF t = len THEN Null ELSE ch[t + 1]
                          /\ m.node[ch[t]].prev = IF t = 1 THEN Null ELSE ch[t - 1]
    BY DEF Holds
  <1>3. \A t, u \in 1..len : t # u => ch[t] # ch[u] BY DEF Holds
  <1>4. /\ DOMAIN mm.node = D
        /\ mm.node = [x \in D |-> mm.node[x]]
        /\ mm = [node |-> mm.node, cell |-> m.cell, root |-> mm.root]
        /\ mm.cell = m.cell
    BY DEF Bridged
  <1>5. ASSUME NEW x \in D
        PROVE  mm.node[x] = [next |-> IF x = p THEN q ELSE m.node[x].next,
                             prev |-> IF x = q THEN p ELSE m.node[x].prev,
                             data |-> m.node[x].data]
    BY DEF Bridged
  <1>6. mm.root = [m.root EXCEPT ![l] =
                  [count |-> len - 1, first |-> IF i = 1 THEN q ELSE ch[1],
                   last  |-> IF i = len THEN p ELSE ch[len]]]
    BY DEF Bridged
  <1>6a. mm.root[l] = [count |-> len - 1, first |-> IF i = 1 THEN q ELSE ch[1],
                       last  |-> IF i = len THEN p ELSE ch[len]]
    <2> HIDE DEF p, q
    <2>1. QED BY <1>1, <1>6
  <1>7. /\ p = IF i = 1 THEN Null ELSE ch[i - 1]
        /\ q = IF i = len THEN Null ELSE ch[i + 1]
    BY DEF Before, After
  <1>8. /\ Len(w) = len - 1 /\ DOMAIN w = 1..(len - 1)
        /\ w = [j \in 1..(len - 1) |-> w[j]]
        /\ \A j \in 1..(len - 1) : w[j] = IF j < i THEN ch[j] ELSE ch[j + 1]
    BY <1>1 DEF Without
  <1>9. \A t \in 1..len : t # i => ch[t] \in D
    BY <1>1, <1>3 DEF Freed
  <1> HIDE DEF p, q, w, D
  <1>10. ASSUME NEW x \in D
         PROVE  /\ mm.node[x].next = IF x = p THEN q ELSE m.node[x].next
                /\ mm.node[x].prev = IF x = q THEN p ELSE m.node[x].prev
                /\ mm.node[x].data = m.node[x].data
                /\ mm.node[x] = [next |-> mm.node[x].next, prev |-> mm.node[x].prev,
                                 data |-> mm.node[x].data]
    <2>1. mm.node[x] = [next |-> IF x = p THEN q ELSE m.node[x].next,
                        prev |-> IF x = q THEN p ELSE m.node[x].prev,
                        data |-> m.node[x].data]
      BY <1>5
    <2>2. QED BY <2>1
  <1>11. WellFormed(mm)
    <2>1. m.root = [k \in DOMAIN m.root |->
                     [count |-> m.root[k].count, first |-> m.root[k].first,
                      last |-> m.root[k].last]]
          /\ m.cell = [c \in DOMAIN m.cell |-> m.cell[c]]
      BY DEF WellFormed
    <2>2. mm.root = [k \in DOMAIN mm.root |->
                     [count |-> mm.root[k].count, first |-> mm.root[k].first,
                      last |-> mm.root[k].last]]
      BY <1>1, <1>6, <2>1
    <2>3. mm.node = [x \in DOMAIN mm.node |->
                      [next |-> mm.node[x].next, prev |-> mm.node[x].prev,
                       data |-> mm.node[x].data]]
      BY <1>4, <1>10
    <2>4. QED BY <1>4, <2>1, <2>2, <2>3 DEF WellFormed
  <1>12. ASSUME NEW t \in 1..len, t # i
         PROVE  /\ mm.node[ch[t]].next = IF t = i - 1 THEN q
                                         ELSE IF t = len THEN Null ELSE ch[t + 1]
                /\ mm.node[ch[t]].prev = IF t = i + 1 THEN p
                                         ELSE IF t = 1 THEN Null ELSE ch[t - 1]
    <2>1. ch[t] \in D BY <1>9, <1>12
    <2>2. ch[t] = p <=> t = i - 1
      <3>1. CASE i = 1 BY <1>1, <1>7, <3>1
      <3>2. CASE i # 1
        <4>1. i - 1 \in 1..len
          <5> HIDE DEF len
          <5>1. QED BY <1>0, <3>2
        <4>2. p = ch[i - 1] BY <1>7, <3>2
        <4>3. QED BY <1>3, <4>1, <4>2
      <3>3. QED BY <3>1, <3>2
    <2>3. ch[t] = q <=> t = i + 1
      <3>1. CASE i = len BY <1>1, <1>7, <3>1
      <3>2. CASE i # len
        <4>1. i + 1 \in 1..len
          <5> HIDE DEF len
          <5>1. QED BY <1>0, <3>2
        <4>2. q = ch[i + 1] BY <1>7, <3>2
        <4>3. QED BY <1>3, <4>1, <4>2
      <3>3. QED BY <3>1, <3>2
    <2>4. QED BY <1>2, <1>10, <2>1, <2>2, <2>3, ZenonT(60)
  <1>13. Holds(mm, l, w)
    <2>1. w \in Seq(DOMAIN mm.node)
      <3>1. \A j \in 1..(len - 1) : w[j] \in D BY <1>1, <1>8, <1>9
      <3>2. QED BY <1>1, <1>4, <1>8, <3>1
    <2>2. ASSUME NEW j \in 1..Len(w)
          PROVE  /\ mm.node[w[j]].next = IF j = Len(w) THEN Null ELSE w[j + 1]
                 /\ mm.node[w[j]].prev = IF j = 1 THEN Null ELSE w[j - 1]
      <3>1. CASE j < i
        <4>1. w[j] = ch[j] /\ j \in 1..len /\ j # i /\ j # i + 1 /\ j # len
          BY <1>1, <1>8, <3>1
        <4>2. j # 1 => w[j - 1] = ch[j - 1] BY <1>1, <1>8, <3>1
        <4>3. mm.node[w[j]].prev = IF j = 1 THEN Null ELSE w[j - 1]
          BY <1>1, <1>12, <4>1, <4>2
        <4>4. CASE j = i - 1
          <5>1. mm.node[w[j]].next = q BY <1>12, <4>1, <4>4
          <5>2. CASE i = len BY <1>1, <1>7, <1>8, <4>4, <5>1, <5>2, <4>3
          <5>3. CASE i # len
            <6>1. j + 1 = i /\ w[i] = ch[i + 1] /\ j # Len(w) BY <1>1, <1>8, <4>4, <5>3
            <6>2. QED BY <1>7, <5>1, <5>3, <6>1, <4>3
          <5>4. QED BY <5>2, <5>3
        <4>5. CASE j # i - 1
          <5>1. w[j + 1] = ch[j + 1] /\ j # Len(w) BY <1>1, <1>8, <3>1, <4>5
          <5>2. QED BY <1>12, <4>1, <4>3, <4>5, <5>1
        <4>6. QED BY <4>4, <4>5
      <3>2. CASE j >= i
        <4> DEFINE t == j + 1
        <4>1. w[j] = ch[t] /\ t \in 1..len /\ t # i /\ t # i - 1 /\ t # 1 /\ t - 1 = j
          BY <1>1, <1>8, <3>2
        <4>2. /\ j # Len(w) => w[j + 1] = ch[t + 1]
              /\ j = Len(w) <=> t = len
          BY <1>1, <1>8, <3>2
        <4> HIDE DEF t
        <4>3. mm.node[w[j]].next = IF j = Len(w) THEN Null ELSE w[j + 1]
          BY <1>12, <4>1, <4>2
        <4>4. mm.node[w[j]].prev = IF t = i + 1 THEN p ELSE ch[j]
          BY <1>12, <4>1
        <4>5. t = i + 1 => j = i BY <1>1 DEF t
        <4>6. CASE j = i
          <5>1. t = i + 1 BY <4>6 DEF t
          <5>2. i # 1 => w[i - 1] = ch[i - 1] BY <1>1, <1>8
          <5>3. QED BY <1>7, <4>3, <4>4, <4>6, <5>1, <5>2
        <4>7. CASE j # i
          <5>1. w[j - 1] = ch[j] /\ j # 1 BY <1>1, <1>8, <3>2, <4>7
          <5>2. QED BY <4>3, <4>4, <4>5, <4>7, <5>1
        <4>8. QED BY <4>6, <4>7
      <3>3. QED BY <1>1, <1>8, <3>1, <3>2
    <2>3. ASSUME NEW j \in 1..Len(w), NEW k \in 1..Len(w), j # k PROVE w[j] # w[k]
      BY <1>1, <1>3, <1>8, <2>3
    <2>4. l \in DOMAIN mm.root /\ mm.root[l].count = Len(w) BY <1>1, <1>6, <1>8
    <2>5. mm.root[l].first = IF w = << >> THEN Null ELSE w[1]
      <3>1. mm.root[l].first = IF i = 1 THEN q ELSE ch[1] BY <1>6a
      <3>2. CASE len = 1 BY <1>1, <1>7, <1>8, <3>1, <3>2
      <3>3. CASE len # 1
        <4>1. w # << >> /\ w[1] = IF i = 1 THEN ch[2] ELSE ch[1] BY <1>1, <1>8, <3>3, SMTT(60)
        <4>2. CASE i = 1
          <5>1. q = ch[1 + 1] /\ 1 + 1 = 2 BY <1>7, <3>3, <4>2
          <5>2. QED BY <3>1, <4>1, <4>2, <5>1
        <4>3. CASE i # 1 BY <3>1, <4>1, <4>3
        <4>4. QED BY <4>2, <4>3
      <3>4. QED BY <3>2, <3>3
    <2>6. mm.root[l].last = IF w = << >> THEN Null ELSE w[Len(w)]
      <3>1. mm.root[l].last = IF i = len THEN p ELSE ch[len] BY <1>6a
      <3>2. CASE len = 1 BY <1>1, <1>7, <1>8, <3>1, <3>2
      <3>3. CASE len # 1
        <4>1. /\ w # << >> /\ Len(w) = len - 1
              /\ w[len - 1] = IF i = len THEN ch[len - 1] ELSE ch[len]
          BY <1>1, <1>8, <3>3
        <4>2. CASE i = len
          <5>1. p = ch[len - 1] BY <1>7, <3>3, <4>2
          <5>2. QED BY <3>1, <4>1, <4>2, <5>1
        <4>3. CASE i # len BY <3>1, <4>1, <4>3
        <4>4. QED BY <4>2, <4>3
      <3>4. QED BY <3>2, <3>3
    <2>7. QED BY <2>1, <2>2, <2>3, <2>4, <2>5, <2>6 DEF Holds
  <1>14. ASSUME NEW x \in D, x \notin Range(ch) PROVE mm.node[x] = m.node[x]
    <2>1. x # p /\ x # q
      <3>1. x # Null BY DEF D
      <3>2. \A t \in 1..len : x # ch[t] BY <1>1, <1>14 DEF Range
      <3>3. x # p
        <4>1. CASE i = 1 BY <1>7, <3>1, <4>1
        <4>2. CASE i # 1
          <5>1. i - 1 \in 1..len
            <6> HIDE DEF len
            <6>1. QED BY <1>0, <4>2
          <5>2. QED BY <1>7, <3>2, <4>2, <5>1
        <4>3. QED BY <4>1, <4>2
      <3>4. x # q
        <4>1. CASE i = len BY <1>7, <3>1, <4>1
        <4>2. CASE i # len
          <5>1. i + 1 \in 1..len
            <6> HIDE DEF len
            <6>1. QED BY <1>0, <4>2
          <5>2. QED BY <1>7, <3>2, <4>2, <5>1
        <4>3. QED BY <4>1, <4>2
      <3>5. QED BY <3>3, <3>4
    <2>2. m.node[x] = [next |-> m.node[x].next, prev |-> m.node[x].prev,
                       data |-> m.node[x].data]
      BY DEF WellFormed, D
    <2>3. QED BY <1>5, <2>1, <2>2
  <1>15. /\ DOMAIN mm.root = DOMAIN m.root
         /\ \A k \in DOMAIN m.root : k # l => mm.root[k] = m.root[k]
    BY <1>1, <1>6
  <1>16. QED
    BY <1>4, <1>10, <1>11, <1>13, <1>14, <1>15 DEF w, D

(* listRemoveElement: the element num is taken out, counted from 0; beyond *)
(* the end nothing happens.                                                *)
LEMMA RemoveHolds ==
  ASSUME NEW m, WellFormed(m), NEW l, NEW ch, Holds(m, l, ch),
         Null \notin DOMAIN m.node, NEW i \in 1..Len(ch), NEW num, num = i - 1,
         NEW mm, mm = listRemoveElement(m, l, num)
  PROVE  /\ WellFormed(mm)
         /\ Holds(mm, l, Without(ch, i))
         /\ DOMAIN mm.root = DOMAIN m.root
         /\ \A k \in DOMAIN m.root : k # l => mm.root[k] = m.root[k]
         /\ mm.cell = m.cell
         /\ DOMAIN mm.node = DOMAIN m.node \ Freed(ch, i)
         /\ \A x \in DOMAIN mm.node :
              /\ mm.node[x].data = m.node[x].data
              /\ x \notin Range(ch) => mm.node[x] = m.node[x]
  <1>1. Len(ch) \in Nat BY DEF Holds
  <1>2. num \in 0..(Len(ch) - 1) /\ num + 1 = i BY <1>1
  <1>3. Bridged(m, mm, l, ch, num + 1) BY <1>2, RemoveBridges
  <1>4. Bridged(m, mm, l, ch, i) BY <1>2, <1>3
  <1>5. QED BY <1>4, BridgedHolds

(* A number past the end leaves the list alone (list.c).                   *)
LEMMA RemoveBeyond ==
  ASSUME NEW m, NEW l, NEW ch, Holds(m, l, ch), NEW num \in Nat, num >= Len(ch)
  PROVE  listRemoveElement(m, l, num) = m
  <1>1. m.root[l].count = Len(ch) /\ Len(ch) \in Nat BY DEF Holds
  <1> DEFINE count == m.root[l].count
  <1>2. /\ num >= count /\ ~(count = 1 /\ num = 0) /\ ~(count > 1 /\ num = 0)
        /\ ~(num > 0 /\ num = count - 1) /\ ~(num > 0 /\ num < count - 1)
    BY <1>1
  <1>3. QED BY <1>2, Zenon DEF listRemoveElement

(* The loop of listFreeAll has removed the first k nodes of ch.            *)
Rest(ch, k) == [j \in 1..(Len(ch) - k) |-> ch[j + k]]

Emptied(bare, m, l, ch, k) ==
  /\ WellFormed(m)
  /\ Holds(m, l, Rest(ch, k))
  /\ DOMAIN m.root = DOMAIN bare.root
  /\ \A j \in DOMAIN m.root : j # l => m.root[j] = bare.root[j]
  /\ m.cell = bare.cell
  /\ DOMAIN m.node = DOMAIN bare.node \ {ch[j] : j \in 1..k}
  /\ \A x \in DOMAIN m.node : x \notin Range(ch) => m.node[x] = bare.node[x]

(* Each turn of the loop of listFreeAll frees the first node.              *)
LEMMA EmptyOneMore ==
  ASSUME NEW bare, NEW m, NEW l, NEW ch, Holds(bare, l, ch),
         Null \notin DOMAIN bare.node, NEW k \in Nat, k < Len(ch),
         Emptied(bare, m, l, ch, k)
  PROVE  Emptied(bare, listRemoveElement(m, l, 0), l, ch, k + 1)
  <1> DEFINE rest == Rest(ch, k)
             mm == listRemoveElement(m, l, 0)
  <1>1. Len(ch) \in Nat /\ DOMAIN ch = 1..Len(ch) BY DEF Holds
  <1>2. /\ Len(rest) = Len(ch) - k
        /\ \A j \in 1..Len(rest) : rest[j] = ch[j + k]
        /\ DOMAIN rest = 1..Len(rest)
    BY <1>1 DEF Rest
  <1>3. Without(rest, 1) = Rest(ch, k + 1)
    <2>1. (Len(ch) - k) - 1 = Len(ch) - (k + 1) BY <1>1
    <2>2. ASSUME NEW j \in 1..(Len(ch) - (k + 1)) PROVE rest[j + 1] = ch[j + (k + 1)]
      BY <1>1, <1>2
    <2>3. Without(rest, 1) = [j \in 1..(Len(ch) - (k + 1)) |-> rest[j + 1]]
      BY <1>1, <1>2, <2>1 DEF Without
    <2>4. QED BY <2>2, <2>3 DEF Rest
  <1>4. Freed(rest, 1) = {ch[k + 1]} BY <1>1, <1>2 DEF Freed
  <1>5. WellFormed(m) /\ Holds(m, l, rest) /\ Null \notin DOMAIN m.node
    BY DEF Emptied
  <1>6. Range(rest) \subseteq Range(ch) BY <1>1, <1>2 DEF Range
  <1> HIDE DEF rest, mm
  <1>7. /\ WellFormed(mm)
        /\ Holds(mm, l, Without(rest, 1))
        /\ DOMAIN mm.root = DOMAIN m.root
        /\ \A j \in DOMAIN m.root : j # l => mm.root[j] = m.root[j]
        /\ mm.cell = m.cell
        /\ DOMAIN mm.node = DOMAIN m.node \ Freed(rest, 1)
        /\ \A x \in DOMAIN mm.node : x \notin Range(rest) => mm.node[x] = m.node[x]
    <2>1. 1 \in 1..Len(rest) /\ 0 = 1 - 1 BY <1>1, <1>2
    <2>2. QED BY <1>5, <2>1, RemoveHolds DEF mm
  <1>8. {ch[j] : j \in 1..(k + 1)} = {ch[j] : j \in 1..k} \cup {ch[k + 1]}
    <2>1. 1..(k + 1) = 1..k \cup {k + 1} OBVIOUS
    <2>2. QED BY <2>1
  <1>9. DOMAIN mm.node = DOMAIN bare.node \ {ch[j] : j \in 1..(k + 1)}
    BY <1>4, <1>7, <1>8 DEF Emptied
  <1>10. \A x \in DOMAIN mm.node : x \notin Range(ch) => mm.node[x] = bare.node[x]
    BY <1>6, <1>7 DEF Emptied
  <1>11. /\ DOMAIN mm.root = DOMAIN bare.root /\ mm.cell = bare.cell
         /\ \A j \in DOMAIN mm.root : j # l => mm.root[j] = bare.root[j]
    BY <1>7 DEF Emptied
  <1>12. Emptied(bare, mm, l, ch, k + 1)
    BY <1>3, <1>7, <1>9, <1>10, <1>11 DEF Emptied
  <1>13. QED BY <1>12 DEF mm

(* The loop terminates with the empty list.                                *)
EmptyingLoop(bare, l, r, len) ==
  r = [k \in 0..len |-> IF k = 0 THEN bare ELSE listRemoveElement(r[k - 1], l, 0)]

(* The recursive function of the loop exists, so it has the values its     *)
(* equation gives.                                                         *)
LEMMA LoopExists ==
  ASSUME NEW bare, NEW l, NEW len \in Nat
  PROVE  \E r : EmptyingLoop(bare, l, r, len)
  <1> DEFINE Step(m) == listRemoveElement(m, l, 0)
             T == {k \in Nat : \E r : r = [j \in 0..k |-> IF j = 0 THEN bare ELSE Step(r[j - 1])]}
  <1> HIDE DEF Step
  <1>1. 0 \in T
    <2> DEFINE r0 == [j \in 0..0 |-> bare]
    <2>1. r0 = [j \in 0..0 |-> IF j = 0 THEN bare ELSE Step(r0[j - 1])] OBVIOUS
    <2>2. QED BY <2>1
  <1>2. ASSUME NEW k \in Nat, k \in T PROVE k + 1 \in T
    <2>1. PICK r : r = [j \in 0..k |-> IF j = 0 THEN bare ELSE Step(r[j - 1])] BY <1>2
    <2> DEFINE r1 == [j \in 0..(k + 1) |-> IF j <= k THEN r[j] ELSE Step(r[k])]
               Next1(j) == IF j = 0 THEN bare ELSE Step(r1[j - 1])
    <2>2. ASSUME NEW j \in 0..(k + 1) PROVE r1[j] = Next1(j)
      <3>1. CASE j = 0 BY <2>1, <3>1
      <3>2. CASE j \in 1..k
        <4>1. r[j] = Step(r[j - 1]) BY <2>1, <3>2
        <4>2. r1[j] = r[j] /\ r1[j - 1] = r[j - 1] /\ j # 0 BY <3>2
        <4>3. QED BY <4>1, <4>2
      <3>3. CASE j = k + 1
        <4>1. r1[j] = Step(r[k]) /\ r1[j - 1] = r[k] /\ j # 0 BY <3>3
        <4>2. QED BY <4>1
      <3>4. QED BY <3>1, <3>2, <3>3
    <2>3. r1 = [j \in 0..(k + 1) |-> r1[j]] OBVIOUS
    <2>4. r1 = [j \in 0..(k + 1) |-> Next1(j)]
      <3> HIDE DEF r1, Next1
      <3>1. QED BY <2>2, <2>3
    <2>5. \E g : g = [j \in 0..(k + 1) |-> IF j = 0 THEN bare ELSE Step(g[j - 1])]
      <3>1. r1 = [j \in 0..(k + 1) |-> IF j = 0 THEN bare ELSE Step(r1[j - 1])]
        BY <2>4
      <3> HIDE DEF r1
      <3>2. QED BY <3>1
    <2>6. QED BY <2>5
  <1>3. Nat \subseteq T
    <2> HIDE DEF T
    <2>1. QED BY <1>1, <1>2, SetInduction
  <1>4. QED BY <1>3 DEF Step, EmptyingLoop

(* After as many turns as the list is long, it is empty.                   *)
LEMMA LoopEmpties ==
  ASSUME NEW bare, WellFormed(bare), NEW l, NEW ch, Holds(bare, l, ch),
         Null \notin DOMAIN bare.node, NEW r, EmptyingLoop(bare, l, r, Len(ch))
  PROVE  Emptied(bare, r[Len(ch)], l, ch, Len(ch))
  <1>1. Len(ch) \in Nat BY DEF Holds
  <1>2. r[0] = bare BY <1>1 DEF EmptyingLoop
  <1>3. ASSUME NEW k \in Nat, k < Len(ch)
        PROVE  r[k + 1] = listRemoveElement(r[k], l, 0)
    <2>1. k + 1 \in 0..Len(ch) /\ k + 1 # 0 /\ (k + 1) - 1 = k BY <1>1, <1>3
    <2>2. QED BY <2>1 DEF EmptyingLoop
  <1> DEFINE T == {k \in Nat : k <= Len(ch) => Emptied(bare, r[k], l, ch, k)}
  <1>4. 0 \in T
    <2>1. Rest(ch, 0) = ch
      <3>1. ch = [j \in 1..Len(ch) |-> ch[j]] /\ Len(ch) - 0 = Len(ch) BY <1>1 DEF Holds
      <3>2. \A j \in 1..Len(ch) : ch[j + 0] = ch[j] BY <1>1
      <3>3. QED BY <3>1, <3>2 DEF Rest
    <2>2. {ch[j] : j \in 1..0} = {} OBVIOUS
    <2>3. Emptied(bare, bare, l, ch, 0) BY <2>1, <2>2 DEF Emptied
    <2>4. QED BY <1>2, <2>3
  <1>5. ASSUME NEW k \in Nat, k \in T PROVE k + 1 \in T
    <2>1. CASE k < Len(ch)
      <3>1. Emptied(bare, r[k], l, ch, k) BY <1>1, <1>5, <2>1
      <3>2. Emptied(bare, listRemoveElement(r[k], l, 0), l, ch, k + 1)
        BY <2>1, <3>1, EmptyOneMore
      <3>3. QED BY <1>3, <2>1, <3>2
    <2>2. CASE ~(k < Len(ch)) BY <1>1, <2>2
    <2>3. QED BY <2>1, <2>2
  <1>6. Nat \subseteq T
    <2> HIDE DEF T
    <2>1. QED BY <1>4, <1>5, SetInduction
  <1>7. QED BY <1>1, <1>6

(* listFreeAll: the list is empty; its nodes and their data, and no other, *)
(* are free.                                                               *)
Owned(m, ch) == {m.node[x].data : x \in Range(ch)}

(* listFreeAll, about one list.                                            *)
LEMMA FreeAllHolds ==
  ASSUME NEW m, WellFormed(m), NEW l, NEW ch, Holds(m, l, ch),
         Null \notin DOMAIN m.node, NEW mm, mm = listFreeAll(m, l)
  PROVE  /\ WellFormed(mm)
         /\ Holds(mm, l, << >>)
         /\ DOMAIN mm.root = DOMAIN m.root
         /\ \A j \in DOMAIN m.root : j # l => mm.root[j] = m.root[j]
         /\ mm.cell = Free(m.cell, Owned(m, ch))
         /\ DOMAIN mm.node = DOMAIN m.node \ Range(ch)
         /\ \A x \in DOMAIN mm.node : mm.node[x] = m.node[x]
  <1>1. /\ Len(ch) \in Nat /\ DOMAIN ch = 1..Len(ch) /\ m.root[l].count = Len(ch)
        /\ l \in DOMAIN m.root /\ \A i \in 1..Len(ch) : ch[i] \in DOMAIN m.node
    BY DEF Holds
  <1>2. CASE ch = << >>
    <2>1. Len(ch) = 0 /\ m.root[l].first = Null BY <1>2 DEF Holds
    <2>2. mm = m BY <2>1 DEF listFreeAll
    <2>3. Owned(m, ch) = {} /\ Range(ch) = {} BY <1>1, <2>1 DEF Owned, Range
    <2>4. m.cell = Free(m.cell, {}) BY DEF WellFormed, Free
    <2>5. QED BY <1>2, <2>2, <2>3, <2>4
  <1>3. CASE ch # << >>
    <2> DEFINE len == m.root[l].count
               nodes == {NodeAt(m, l, i) : i \in 0..(len - 1)}
               node1 == [x \in DOMAIN m.node |-> IF x \in nodes
                                                 THEN [m.node[x] EXCEPT !.data = Null]
                                                 ELSE m.node[x]]
               cell1 == Free(m.cell, {m.node[x].data : x \in nodes})
               bare == [m EXCEPT !.cell = Free(@, {m.node[x].data : x \in nodes}),
                                 !.node = [x \in DOMAIN @ |->
                                             IF x \in nodes THEN [@[x] EXCEPT !.data = Null]
                                             ELSE @[x]]]
               rest == CHOOSE r : r = [k \in 0..len |->
                         IF k = 0 THEN bare ELSE listRemoveElement(r[k - 1], l, 0)]
    <2>0. len = Len(ch) BY <1>1
    <2>1. m.root[l].first # Null
      <3>1. m.root[l].first = ch[1] /\ Len(ch) # 0 BY <1>3 DEF Holds
      <3>2. 1 \in 1..Len(ch) BY <1>1, <3>1
      <3>3. QED BY <1>1, <3>1, <3>2
    <2>2. mm = [rest[len] EXCEPT !.root[l] = EmptyRoot]
      BY <2>1, Zenon DEF listFreeAll
    <2>3. nodes = Range(ch)
      <3>1. ASSUME NEW i \in 0..(len - 1) PROVE NodeAt(m, l, i) \in Range(ch)
        <4>1. i \in 0..(Len(ch) - 1) BY <2>0
        <4>2. NodeAt(m, l, i) = ch[i + 1] BY <4>1, WalkAlong
        <4>3. QED BY <1>1, <4>1, <4>2 DEF Range
      <3>2. ASSUME NEW i \in 1..len PROVE ch[i] \in nodes
        <4>1. NodeAt(m, l, i - 1) = ch[i] BY <2>0, ChainOf
        <4>2. i - 1 \in 0..(len - 1) BY <1>1
        <4>3. QED BY <4>1, <4>2
      <3>3. QED BY <1>1, <3>1, <3>2 DEF Range
    <2>4. {m.node[x].data : x \in nodes} = Owned(m, ch)
      <3> HIDE DEF nodes
      <3>1. QED BY <2>3 DEF Owned
    <2>5. bare = [node |-> node1, cell |-> cell1, root |-> m.root]
      <3> HIDE DEF nodes
      <3>1. m = [node |-> m.node, cell |-> m.cell, root |-> m.root] BY DEF WellFormed
      <3>2. bare.node = node1
        <4> DEFINE new(x) == IF x \in nodes THEN [m.node[x] EXCEPT !.data = Null] ELSE m.node[x]
        <4>1. node1 = [x \in DOMAIN m.node |-> new(x)] OBVIOUS
        <4>2. bare = [m EXCEPT !.cell = Free(@, {m.node[x].data : x \in nodes}),
                               !.node = [x \in DOMAIN m.node |-> new(x)]]
          OBVIOUS
        <4> HIDE DEF new, node1, bare
        <4>3. QED BY <3>1, <4>1, <4>2
      <3>3. bare = [node |-> bare.node, cell |-> cell1, root |-> m.root]
        <4> DEFINE any == [x \in DOMAIN m.node |->
                             IF x \in nodes THEN [m.node[x] EXCEPT !.data = Null]
                             ELSE m.node[x]]
        <4>1. bare = [m EXCEPT !.cell = Free(m.cell, {m.node[x].data : x \in nodes}),
                               !.node = any]
          OBVIOUS
        <4> HIDE DEF any, bare
        <4>2. QED BY <3>1, <4>1
      <3>4. QED BY <3>2, <3>3
    <2> HIDE DEF nodes
    <2>6. /\ bare.root = m.root /\ bare.cell = Free(m.cell, Owned(m, ch))
          /\ bare.node = node1 /\ DOMAIN bare.node = DOMAIN m.node
      BY <2>4, <2>5
    <2>7. ASSUME NEW x \in DOMAIN m.node
          PROVE  /\ bare.node[x].next = m.node[x].next /\ bare.node[x].prev = m.node[x].prev
                 /\ bare.node[x] = [next |-> bare.node[x].next, prev |-> bare.node[x].prev,
                                    data |-> bare.node[x].data]
                 /\ x \notin Range(ch) => bare.node[x] = m.node[x]
      <3> HIDE DEF bare
      <3>1. m.node[x] = [next |-> m.node[x].next, prev |-> m.node[x].prev,
                         data |-> m.node[x].data]
        BY DEF WellFormed
      <3>2. bare.node[x] = IF x \in Range(ch) THEN [m.node[x] EXCEPT !.data = Null]
                           ELSE m.node[x]
        BY <2>3, <2>6
      <3>3. QED BY <3>1, <3>2
    <2>8. WellFormed(bare)
      <3>1. bare.cell = [c \in DOMAIN bare.cell |-> bare.cell[c]] BY <2>6 DEF Free
      <3>2. bare.root = [j \in DOMAIN bare.root |->
                          [count |-> bare.root[j].count, first |-> bare.root[j].first,
                           last |-> bare.root[j].last]]
        BY <2>6 DEF WellFormed
      <3>3. bare.node = [x \in DOMAIN bare.node |-> bare.node[x]] BY <2>6
      <3>4. bare = [node |-> bare.node, cell |-> bare.cell, root |-> bare.root] BY <2>5
      <3> HIDE DEF bare
      <3>5. QED BY <2>6, <2>7, <3>1, <3>2, <3>3, <3>4, ZenonT(60) DEF WellFormed
    <2>9. Holds(bare, l, ch)
      <3> HIDE DEF bare
      <3>1. \A i \in 1..len : /\ bare.node[ch[i]].next = m.node[ch[i]].next
                               /\ bare.node[ch[i]].prev = m.node[ch[i]].prev
        BY <1>1, <2>7
      <3>2. l \in DOMAIN bare.root /\ ch \in Seq(DOMAIN bare.node) BY <2>6 DEF Holds
      <3>3. QED BY <2>6, <3>1, <3>2, ZenonT(60) DEF Holds
    <2>10. EmptyingLoop(bare, l, rest, len)
      <3> HIDE DEF bare
      <3>1. \E r : EmptyingLoop(bare, l, r, len) BY <1>1, LoopExists
      <3>2. QED BY <3>1, Zenon DEF EmptyingLoop
    <2> DEFINE last == rest[len]
    <2> HIDE DEF bare, rest, node1
    <2>11. Emptied(bare, last, l, ch, len)
      <3>1. Null \notin DOMAIN bare.node BY <2>6
      <3>2. EmptyingLoop(bare, l, rest, Len(ch)) BY <2>0, <2>10
      <3>3. Emptied(bare, rest[Len(ch)], l, ch, Len(ch)) BY <2>8, <2>9, <3>1, <3>2, LoopEmpties
      <3>4. QED BY <2>0, <3>3 DEF last
    <2> HIDE DEF last
    <2>12. Rest(ch, len) = << >> BY <1>1 DEF Rest
    <2>13. Range(ch) = {ch[j] : j \in 1..len} BY <1>1 DEF Range
    <2>14. /\ WellFormed(last) /\ Holds(last, l, << >>)
           /\ last.cell = Free(m.cell, Owned(m, ch))
           /\ DOMAIN last.root = DOMAIN m.root
           /\ \A j \in DOMAIN m.root : j # l => last.root[j] = m.root[j]
           /\ DOMAIN last.node = DOMAIN m.node \ Range(ch)
      BY <2>6, <2>11, <2>12, <2>13 DEF Emptied
    <2>15. ASSUME NEW x \in DOMAIN last.node PROVE last.node[x] = m.node[x]
      <3>1. x \in DOMAIN m.node /\ x \notin Range(ch) BY <2>14
      <3>2. last.node[x] = bare.node[x] BY <2>11, <3>1 DEF Emptied
      <3>3. QED BY <2>7, <3>1, <3>2
    <2>16. mm = last
      <3>1. /\ last = [node |-> last.node, cell |-> last.cell, root |-> last.root]
            /\ last.root = [j \in DOMAIN last.root |->
                              [count |-> last.root[j].count, first |-> last.root[j].first,
                               last |-> last.root[j].last]]
            /\ l \in DOMAIN last.root
        BY <1>1, <2>14 DEF WellFormed
      <3>2. last.root[l].count = 0 /\ last.root[l].first = Null /\ last.root[l].last = Null
        BY <2>14 DEF Holds
      <3>3. last.root[l] = EmptyRoot BY <3>1, <3>2 DEF EmptyRoot
      <3>4. [last.root EXCEPT ![l] = EmptyRoot] = last.root BY <3>1, <3>3
      <3>5. QED BY <2>2, <3>1, <3>4 DEF last
    <2>17. QED BY <2>14, <2>15, <2>16
  <1>4. QED BY <1>2, <1>3

----------------------------------------------------------------------------
(* A heap with any number of lists.  Every node owns its data: no two      *)
(* allocated nodes, be they in a list or lost, have a block in common.     *)
Heap(m) ==
  /\ WellFormed(m)
  /\ Null \notin DOMAIN m.node
  /\ \A l \in DOMAIN m.root : Holds(m, l, Chain(m, l))
  /\ \A l, k \in DOMAIN m.root : l # k => Range(Chain(m, l)) \cap Range(Chain(m, k)) = {}
  /\ \A x \in DOMAIN m.node : m.node[x].data \in DOMAIN m.cell
  /\ \A x, y \in DOMAIN m.node : x # y => m.node[x].data # m.node[y].data

(* What Heap says of one list.                                             *)
LEMMA HeapChain ==
  ASSUME NEW m, Heap(m), NEW l \in DOMAIN m.root
  PROVE  /\ Holds(m, l, Chain(m, l))
         /\ Len(Chain(m, l)) \in Nat
         /\ m.root[l].count = Len(Chain(m, l))
         /\ DOMAIN Chain(m, l) = 1..Len(Chain(m, l))
         /\ Range(Chain(m, l)) \subseteq DOMAIN m.node
         /\ Range(Chain(m, l)) = {Chain(m, l)[i] : i \in 1..Len(Chain(m, l))}
  <1> DEFINE ch == Chain(m, l)
  <1>1. Holds(m, l, ch) BY DEF Heap
  <1> HIDE DEF ch
  <1>2. /\ Len(ch) \in Nat /\ m.root[l].count = Len(ch) /\ DOMAIN ch = 1..Len(ch)
        /\ \A i \in 1..Len(ch) : ch[i] \in DOMAIN m.node
    BY <1>1 DEF Holds
  <1>3. Range(ch) \subseteq DOMAIN m.node /\ Range(ch) = {ch[i] : i \in 1..Len(ch)}
    BY <1>2 DEF Range
  <1>4. QED BY <1>1, <1>2, <1>3 DEF ch

(* What an operation on list l does to the other lists: nothing, if it     *)
(* changes no node but those of l.                                         *)
LEMMA OthersStay ==
  ASSUME NEW m, Heap(m), NEW l \in DOMAIN m.root, NEW mm,
         DOMAIN mm.root = DOMAIN m.root,
         \A k \in DOMAIN m.root : k # l => mm.root[k] = m.root[k],
         DOMAIN m.node \ Range(Chain(m, l)) \subseteq DOMAIN mm.node,
         \A x \in DOMAIN m.node : x \notin Range(Chain(m, l)) => mm.node[x] = m.node[x]
  PROVE  \A k \in DOMAIN m.root : k # l =>
           Holds(mm, k, Chain(m, k)) /\ Chain(mm, k) = Chain(m, k)
  <1> SUFFICES ASSUME NEW k \in DOMAIN m.root, k # l
               PROVE  Holds(mm, k, Chain(m, k)) /\ Chain(mm, k) = Chain(m, k)
    OBVIOUS
  <1> DEFINE ch == Chain(m, k)
  <1>1. Holds(m, k, ch) BY DEF Heap
  <1>2. Range(ch) \cap Range(Chain(m, l)) = {} BY DEF Heap
  <1> HIDE DEF ch
  <1>3. \A i \in 1..Len(ch) : ch[i] \in DOMAIN m.node /\ ch[i] \in Range(ch)
    BY <1>1 DEF Holds, Range
  <1>4. \A i \in 1..Len(ch) : ch[i] \in DOMAIN mm.node /\ mm.node[ch[i]] = m.node[ch[i]]
    BY <1>2, <1>3
  <1>5. Holds(mm, k, ch) BY <1>1, <1>4, HoldsStill
  <1>6. Chain(mm, k) = ch BY <1>5, ChainOf
  <1>7. QED BY <1>5, <1>6 DEF ch

(* listAddElement keeps the heap whole and appends to one list.            *)
LEMMA AddHeap ==
  ASSUME NEW m, Heap(m), NEW l \in DOMAIN m.root,
         NEW n, n \notin DOMAIN m.node, n # Null, NEW c, c \notin DOMAIN m.cell,
         NEW data, NEW mm, mm = listAddElement(m, l, n, c, data)
  PROVE  /\ Heap(mm)
         /\ Chain(mm, l) = Append(Chain(m, l), n)
         /\ DOMAIN mm.root = DOMAIN m.root
         /\ \A k \in DOMAIN m.root : k # l => Chain(mm, k) = Chain(m, k)
         /\ DOMAIN mm.node = DOMAIN m.node \cup {n}
         /\ mm.node[n].data = c
         /\ \A x \in DOMAIN m.node : mm.node[x].data = m.node[x].data
         /\ mm.cell = Allocate(m.cell, c, data)
  <1> DEFINE ch == Chain(m, l)
             longer == Append(ch, n)
  <1>1. Holds(m, l, ch) /\ WellFormed(m) /\ Null \notin DOMAIN m.node BY DEF Heap
  <1>2. /\ WellFormed(mm)
        /\ Holds(mm, l, longer)
        /\ DOMAIN mm.root = DOMAIN m.root
        /\ \A k \in DOMAIN m.root : k # l => mm.root[k] = m.root[k]
        /\ DOMAIN mm.node = DOMAIN m.node \cup {n}
        /\ mm.node[n].data = c
        /\ \A x \in DOMAIN m.node :
             /\ mm.node[x].data = m.node[x].data
             /\ x \notin Range(ch) => mm.node[x] = m.node[x]
        /\ mm.cell = Allocate(m.cell, c, data)
    <2> HIDE DEF ch
    <2>1. QED BY <1>1, AddHolds
  <1>3. \A k \in DOMAIN m.root : k # l => Holds(mm, k, Chain(m, k)) /\ Chain(mm, k) = Chain(m, k)
    BY <1>2, OthersStay
  <1>4. Chain(mm, l) = longer BY <1>2, ChainOf
  <1>5. Range(longer) = Range(ch) \cup {n}
    <2> HIDE DEF ch
    <2>1. ch \in Seq(DOMAIN m.node) BY <1>1 DEF Holds
    <2>2. QED BY <2>1, AppendProperties DEF Range
  <1>6. \A k \in DOMAIN m.root : n \notin Range(Chain(m, k))
    BY HeapChain
  <1>7. ASSUME NEW j \in DOMAIN m.root, NEW k \in DOMAIN m.root, j # k
        PROVE  Range(Chain(mm, j)) \cap Range(Chain(mm, k)) = {}
    <2>1. Range(Chain(m, j)) \cap Range(Chain(m, k)) = {} BY <1>7 DEF Heap
    <2> HIDE DEF ch, longer
    <2>2. CASE j = l
      <3>1. Chain(mm, k) = Chain(m, k) /\ n \notin Range(Chain(m, k))
        BY <1>3, <1>6, <1>7, <2>2
      <3>2. Range(Chain(mm, j)) = Range(Chain(m, j)) \cup {n}
        BY <1>4, <1>5, <2>2 DEF ch
      <3>3. QED BY <2>1, <3>1, <3>2
    <2>3. CASE k = l
      <3>1. Chain(mm, j) = Chain(m, j) /\ n \notin Range(Chain(m, j))
        BY <1>3, <1>6, <1>7, <2>3
      <3>2. Range(Chain(mm, k)) = Range(Chain(m, k)) \cup {n}
        BY <1>4, <1>5, <2>3 DEF ch
      <3>3. QED BY <2>1, <3>1, <3>2
    <2>4. QED BY <1>3, <2>1, <2>2, <2>3
  <1>8. \A k \in DOMAIN mm.root : Holds(mm, k, Chain(mm, k))
    BY <1>2, <1>3, <1>4
  <1>9. DOMAIN mm.cell = DOMAIN m.cell \cup {c} BY <1>2 DEF Allocate
  <1>10. \A x \in DOMAIN mm.node : mm.node[x].data \in DOMAIN mm.cell
    BY <1>2, <1>9 DEF Heap
  <1>11. ASSUME NEW x \in DOMAIN mm.node, NEW y \in DOMAIN mm.node, x # y
         PROVE  mm.node[x].data # mm.node[y].data
    <2>1. \A z \in DOMAIN m.node : m.node[z].data \in DOMAIN m.cell BY DEF Heap
    <2>2. CASE x = n BY <1>2, <1>11, <2>1, <2>2
    <2>3. CASE y = n BY <1>2, <1>11, <2>1, <2>3
    <2>4. CASE x # n /\ y # n
      <3>1. x \in DOMAIN m.node /\ y \in DOMAIN m.node BY <1>2, <2>4
      <3>2. m.node[x].data # m.node[y].data BY <1>11, <3>1 DEF Heap
      <3>3. QED BY <1>2, <3>1, <3>2
    <2>5. QED BY <2>2, <2>3, <2>4
  <1>12. Null \notin DOMAIN mm.node BY <1>1, <1>2
  <1> HIDE DEF ch, longer
  <1>13. Heap(mm) BY <1>2, <1>7, <1>8, <1>10, <1>11, <1>12 DEF Heap
  <1>14. QED BY <1>2, <1>3, <1>4, <1>13 DEF ch, longer

(* The i-th node, and no other, leaves the set of nodes.                   *)
LEMMA WithoutRange ==
  ASSUME NEW m, NEW l, NEW ch, Holds(m, l, ch), NEW i \in 1..Len(ch)
  PROVE  Range(Without(ch, i)) = Range(ch) \ {ch[i]}
  <1> DEFINE len == Len(ch)
             w == Without(ch, i)
  <1>1. len \in Nat \ {0} /\ i \in 1..len /\ DOMAIN ch = 1..len BY DEF Holds
  <1>2. \A t, u \in 1..len : t # u => ch[t] # ch[u] BY DEF Holds
  <1> HIDE DEF len
  <1>3. /\ DOMAIN w = 1..(len - 1)
        /\ \A j \in 1..(len - 1) : w[j] = IF j < i THEN ch[j] ELSE ch[j + 1]
    BY <1>1 DEF Without, len
  <1> HIDE DEF w
  <1>4. ASSUME NEW j \in 1..(len - 1) PROVE w[j] \in Range(ch) \ {ch[i]}
    <2>1. PICK t \in 1..len : t # i /\ w[j] = ch[t]
      <3>1. CASE j < i BY <1>1, <1>3, <3>1
      <3>2. CASE ~(j < i)
        <4>1. j + 1 \in 1..len /\ j + 1 # i BY <1>1, <3>2
        <4>2. QED BY <1>3, <3>2, <4>1
      <3>3. QED BY <3>1, <3>2
    <2>2. QED BY <1>1, <1>2, <2>1 DEF Range
  <1>5. ASSUME NEW t \in 1..len, t # i PROVE ch[t] \in Range(w)
    <2>1. PICK j \in 1..(len - 1) : w[j] = ch[t]
      <3>1. CASE t < i
        <4>1. t \in 1..(len - 1) BY <1>1, <3>1
        <4>2. QED BY <1>3, <3>1, <4>1
      <3>2. CASE ~(t < i)
        <4>1. t - 1 \in 1..(len - 1) /\ ~(t - 1 < i) /\ (t - 1) + 1 = t BY <1>1, <1>5, <3>2
        <4>2. w[t - 1] = ch[t] BY <1>3, <4>1
        <4>3. QED BY <4>1, <4>2
      <3>3. QED BY <3>1, <3>2
    <2>2. QED BY <1>3, <2>1 DEF Range
  <1>6. Range(w) \subseteq Range(ch) \ {ch[i]} BY <1>3, <1>4 DEF Range
  <1>7. Range(ch) \ {ch[i]} \subseteq Range(w) BY <1>1, <1>5 DEF Range
  <1>8. QED BY <1>6, <1>7 DEF w

(* listRemoveElement keeps the heap whole and shortens one list.           *)
LEMMA RemoveHeap ==
  ASSUME NEW m, Heap(m), NEW l \in DOMAIN m.root, NEW i \in 1..Len(Chain(m, l)),
         NEW num, num = i - 1, NEW mm, mm = listRemoveElement(m, l, num)
  PROVE  /\ Heap(mm)
         /\ Chain(mm, l) = Without(Chain(m, l), i)
         /\ DOMAIN mm.root = DOMAIN m.root
         /\ \A k \in DOMAIN m.root : k # l => Chain(mm, k) = Chain(m, k)
         /\ DOMAIN mm.node = DOMAIN m.node \ Freed(Chain(m, l), i)
         /\ \A x \in DOMAIN mm.node : mm.node[x].data = m.node[x].data
         /\ mm.cell = m.cell
  <1> DEFINE ch == Chain(m, l)
             w == Without(ch, i)
  <1>1. Holds(m, l, ch) /\ WellFormed(m) /\ Null \notin DOMAIN m.node BY DEF Heap
  <1>2. /\ WellFormed(mm)
        /\ Holds(mm, l, w)
        /\ DOMAIN mm.root = DOMAIN m.root
        /\ \A k \in DOMAIN m.root : k # l => mm.root[k] = m.root[k]
        /\ mm.cell = m.cell
        /\ DOMAIN mm.node = DOMAIN m.node \ Freed(ch, i)
        /\ \A x \in DOMAIN mm.node :
             /\ mm.node[x].data = m.node[x].data
             /\ x \notin Range(ch) => mm.node[x] = m.node[x]
    <2> HIDE DEF ch
    <2>1. i \in 1..Len(ch) BY DEF ch
    <2>2. QED BY <1>1, <2>1, RemoveHolds
  <1>3. Freed(ch, i) \subseteq Range(ch)
    BY HeapChain DEF Freed
  <1>4. \A k \in DOMAIN m.root : k # l => Holds(mm, k, Chain(m, k)) /\ Chain(mm, k) = Chain(m, k)
    <2>1. DOMAIN m.node \ Range(ch) \subseteq DOMAIN mm.node BY <1>2, <1>3
    <2>2. \A x \in DOMAIN m.node : x \notin Range(ch) => mm.node[x] = m.node[x]
      BY <1>2, <2>1
    <2>3. QED BY <1>2, <2>1, <2>2, OthersStay
  <1>5. Chain(mm, l) = w BY <1>2, ChainOf
  <1>6. Range(w) \subseteq Range(ch)
    <2> HIDE DEF ch
    <2>1. i \in 1..Len(ch) BY DEF ch
    <2>2. QED BY <1>1, <2>1, WithoutRange
  <1>7. \A k \in DOMAIN m.root : Range(Chain(mm, k)) \subseteq Range(Chain(m, k))
    <2> HIDE DEF w
    <2>1. QED BY <1>4, <1>5, <1>6
  <1>8. ASSUME NEW j \in DOMAIN mm.root, NEW k \in DOMAIN mm.root, j # k
        PROVE  Range(Chain(mm, j)) \cap Range(Chain(mm, k)) = {}
    <2>1. Range(Chain(m, j)) \cap Range(Chain(m, k)) = {} BY <1>2, <1>8 DEF Heap
    <2>2. QED BY <1>2, <1>7, <2>1
  <1> HIDE DEF ch, w
  <1>9. \A k \in DOMAIN mm.root : Holds(mm, k, Chain(mm, k))
    BY <1>2, <1>4, <1>5
  <1>10. \A x \in DOMAIN mm.node : mm.node[x].data \in DOMAIN mm.cell
    BY <1>2 DEF Heap
  <1>11. \A x, y \in DOMAIN mm.node : x # y => mm.node[x].data # mm.node[y].data
    BY <1>2 DEF Heap
  <1>12. Heap(mm) BY <1>1, <1>2, <1>8, <1>9, <1>10, <1>11 DEF Heap
  <1>13. QED BY <1>2, <1>4, <1>5, <1>12 DEF ch, w

(* listFreeAll keeps the heap whole, empties one list, and frees just its  *)
(* nodes and blocks.                                                       *)
LEMMA FreeAllHeap ==
  ASSUME NEW m, Heap(m), NEW l \in DOMAIN m.root, NEW mm, mm = listFreeAll(m, l)
  PROVE  /\ Heap(mm)
         /\ Chain(mm, l) = << >>
         /\ DOMAIN mm.root = DOMAIN m.root
         /\ \A k \in DOMAIN m.root : k # l => Chain(mm, k) = Chain(m, k)
         /\ DOMAIN mm.node = DOMAIN m.node \ Range(Chain(m, l))
         /\ \A x \in DOMAIN mm.node : mm.node[x] = m.node[x]
         /\ mm.cell = Free(m.cell, Owned(m, Chain(m, l)))
  <1> DEFINE ch == Chain(m, l)
             owned == Owned(m, ch)
  <1>1. Holds(m, l, ch) /\ WellFormed(m) /\ Null \notin DOMAIN m.node BY DEF Heap
  <1>2. /\ WellFormed(mm)
        /\ Holds(mm, l, << >>)
        /\ DOMAIN mm.root = DOMAIN m.root
        /\ \A k \in DOMAIN m.root : k # l => mm.root[k] = m.root[k]
        /\ mm.cell = Free(m.cell, Owned(m, ch))
        /\ DOMAIN mm.node = DOMAIN m.node \ Range(ch)
        /\ \A x \in DOMAIN mm.node : mm.node[x] = m.node[x]
    <2> HIDE DEF ch
    <2>1. QED BY <1>1, FreeAllHolds
  <1>3. mm.cell = Free(m.cell, owned) BY <1>2
  <1>4. \A k \in DOMAIN m.root : k # l => Holds(mm, k, Chain(m, k)) /\ Chain(mm, k) = Chain(m, k)
    BY <1>2, OthersStay
  <1>5. Chain(mm, l) = << >> BY <1>2, ChainOf
  <1>6. Range(<< >>) = {} BY DEF Range
  <1> HIDE DEF ch
  <1>7. ASSUME NEW j \in DOMAIN mm.root, NEW k \in DOMAIN mm.root, j # k
        PROVE  Range(Chain(mm, j)) \cap Range(Chain(mm, k)) = {}
    <2>1. Range(Chain(m, j)) \cap Range(Chain(m, k)) = {} BY <1>2, <1>7 DEF Heap
    <2>2. CASE j = l \/ k = l BY <1>5, <1>6, <2>2
    <2>3. CASE j # l /\ k # l BY <1>2, <1>4, <2>1, <2>3
    <2>4. QED BY <2>2, <2>3
  <1>8. \A k \in DOMAIN mm.root : Holds(mm, k, Chain(mm, k))
    BY <1>2, <1>4, <1>5
  <1>9. \A x, y \in DOMAIN m.node : x # y => m.node[x].data # m.node[y].data
    BY DEF Heap
  <1>10. ASSUME NEW x \in DOMAIN mm.node PROVE mm.node[x].data \in DOMAIN mm.cell
    <2>1. x \in DOMAIN m.node /\ x \notin Range(ch) BY <1>2
    <2>2. m.node[x].data \in DOMAIN m.cell BY <2>1 DEF Heap
    <2>3. Range(ch) \subseteq DOMAIN m.node BY HeapChain DEF ch
    <2>4. m.node[x].data \notin owned BY <1>9, <2>1, <2>3 DEF Owned
    <2>5. DOMAIN mm.cell = DOMAIN m.cell \ owned
      <3> HIDE DEF owned
      <3>1. QED BY <1>3 DEF Free
    <2>6. QED BY <1>2, <2>2, <2>4, <2>5
  <1>11. \A x, y \in DOMAIN mm.node : x # y => mm.node[x].data # mm.node[y].data
    BY <1>2, <1>9
  <1>12. Heap(mm) BY <1>1, <1>2, <1>7, <1>8, <1>10, <1>11 DEF Heap
  <1>13. QED BY <1>2, <1>3, <1>4, <1>5, <1>12 DEF ch

(* No node, in a list or lost, ever points outside a set S that has all    *)
(* allocated nodes; a lost node may still point at nodes since freed.      *)
Links(m, S) ==
  \A x \in DOMAIN m.node : m.node[x].next \in S \cup {Null} /\ m.node[x].prev \in S \cup {Null}

(* The links of a list stay inside it.                                     *)
LEMMA ChainLinks ==
  ASSUME NEW m, NEW l, NEW ch, Holds(m, l, ch), NEW x \in Range(ch)
  PROVE  m.node[x].next \in Range(ch) \cup {Null} /\ m.node[x].prev \in Range(ch) \cup {Null}
  <1> DEFINE len == Len(ch)
  <1>1. len \in Nat /\ DOMAIN ch = 1..len BY DEF Holds
  <1>2. PICK i \in 1..len : x = ch[i] BY <1>1 DEF Range
  <1>3. /\ m.node[x].next = IF i = len THEN Null ELSE ch[i + 1]
        /\ m.node[x].prev = IF i = 1 THEN Null ELSE ch[i - 1]
    BY <1>2 DEF Holds
  <1>4. \A j \in 1..len : ch[j] \in Range(ch) BY <1>1 DEF Range
  <1> HIDE DEF len
  <1>5. i # len => i + 1 \in 1..len BY <1>1, <1>2
  <1>6. i # 1 => i - 1 \in 1..len BY <1>1, <1>2
  <1>7. QED BY <1>3, <1>4, <1>5, <1>6

(* listAddElement makes no link to another address than its node's.        *)
LEMMA AddLinks ==
  ASSUME NEW m, Heap(m), NEW l \in DOMAIN m.root,
         NEW n, n \notin DOMAIN m.node, n # Null, NEW c, NEW data,
         NEW mm, mm = listAddElement(m, l, n, c, data),
         NEW S, Links(m, S), DOMAIN m.node \subseteq S, n \in S
  PROVE  Links(mm, S)
  <1> DEFINE ch == Chain(m, l)
             longer == Append(ch, n)
  <1>1. Holds(m, l, ch) /\ WellFormed(m) /\ Null \notin DOMAIN m.node BY DEF Heap
  <1> HIDE DEF ch
  <1>2. /\ Holds(mm, l, longer)
        /\ DOMAIN mm.node = DOMAIN m.node \cup {n}
        /\ \A x \in DOMAIN m.node : x \notin Range(ch) => mm.node[x] = m.node[x]
    BY <1>1, AddHolds
  <1>3. Range(longer) = Range(ch) \cup {n}
    <2>1. ch \in Seq(DOMAIN m.node) BY <1>1 DEF Holds
    <2>2. QED BY <2>1, AppendProperties DEF Range
  <1>4. Range(ch) \subseteq S BY HeapChain DEF ch
  <1> HIDE DEF longer
  <1>5. ASSUME NEW x \in Range(longer)
        PROVE  mm.node[x].next \in S \cup {Null} /\ mm.node[x].prev \in S \cup {Null}
    <2>1. /\ mm.node[x].next \in Range(longer) \cup {Null}
          /\ mm.node[x].prev \in Range(longer) \cup {Null}
      BY <1>2, ChainLinks
    <2>2. QED BY <1>3, <1>4, <2>1
  <1>6. \A x \in DOMAIN mm.node : x \notin Range(longer) =>
          x \in DOMAIN m.node /\ mm.node[x] = m.node[x]
    BY <1>2, <1>3
  <1>7. QED BY <1>5, <1>6 DEF Links

(* Nor does listRemoveElement.                                             *)
LEMMA RemoveLinks ==
  ASSUME NEW m, Heap(m), NEW l \in DOMAIN m.root, NEW i \in 1..Len(Chain(m, l)),
         NEW num, num = i - 1, NEW mm, mm = listRemoveElement(m, l, num),
         NEW S, Links(m, S), DOMAIN m.node \subseteq S
  PROVE  Links(mm, S)
  <1> DEFINE ch == Chain(m, l)
             D == DOMAIN m.node \ Freed(ch, i)
  <1>1. Holds(m, l, ch) /\ WellFormed(m) /\ Null \notin DOMAIN m.node BY DEF Heap
  <1>2. Len(ch) \in Nat /\ i \in 1..Len(ch) /\ Range(ch) \subseteq S
        /\ \A j \in 1..Len(ch) : ch[j] \in Range(ch)
    BY HeapChain
  <1> HIDE DEF ch
  <1>3. num \in 0..(Len(ch) - 1) /\ num + 1 = i BY <1>2
  <1>4. Bridged(m, mm, l, ch, num + 1) BY <1>1, <1>3, RemoveBridges
  <1>5. Bridged(m, mm, l, ch, i) BY <1>3, <1>4
  <1>6. Before(ch, i) \in S \cup {Null} /\ After(ch, i) \in S \cup {Null}
    <2>1. i # Len(ch) => i + 1 \in 1..Len(ch) BY <1>2
    <2>2. i # 1 => i - 1 \in 1..Len(ch) BY <1>2
    <2>3. QED BY <1>2, <2>1, <2>2 DEF Before, After
  <1>7. DOMAIN mm.node = D BY <1>5 DEF Bridged
  <1>8. ASSUME NEW x \in D
        PROVE  mm.node[x].next \in S \cup {Null} /\ mm.node[x].prev \in S \cup {Null}
    <2>1. mm.node[x] = [next |-> IF x = Before(ch, i) THEN After(ch, i) ELSE m.node[x].next,
                        prev |-> IF x = After(ch, i) THEN Before(ch, i) ELSE m.node[x].prev,
                        data |-> m.node[x].data]
      BY <1>5 DEF Bridged
    <2>2. QED BY <1>6, <2>1 DEF Links
  <1>9. QED BY <1>7, <1>8 DEF Links

----------------------------------------------------------------------------
(* The data of the nodes of ch.                                            *)
Stored(m, ch) == [i \in 1..Len(ch) |-> m.cell[m.node[ch[i]].data]]

(* The contents of a list depend on its own nodes and blocks only.         *)
LEMMA StoredSame ==
  ASSUME NEW m, Heap(m), NEW l \in DOMAIN m.root, NEW mm,
         \A x \in Range(Chain(m, l)) :
            mm.node[x].data = m.node[x].data /\ mm.cell[m.node[x].data] = m.cell[m.node[x].data]
  PROVE  Stored(mm, Chain(m, l)) = Stored(m, Chain(m, l))
  <1> DEFINE ch == Chain(m, l)
  <1>1. Range(ch) = {ch[i] : i \in 1..Len(ch)} BY HeapChain
  <1> HIDE DEF ch
  <1>2. ASSUME NEW i \in 1..Len(ch)
        PROVE  mm.cell[mm.node[ch[i]].data] = m.cell[m.node[ch[i]].data]
    <2>1. ch[i] \in Range(ch) BY <1>1
    <2>2. QED BY <2>1 DEF ch
  <1>3. Stored(mm, ch) = Stored(m, ch) BY <1>2 DEF Stored
  <1>4. QED BY <1>3 DEF ch

(* The calls, seen through the data: append, remove, empty.                *)
LEMMA AddStores ==
  ASSUME NEW m, Heap(m), NEW l \in DOMAIN m.root,
         NEW n, n \notin DOMAIN m.node, n # Null, NEW c, c \notin DOMAIN m.cell,
         NEW data, NEW mm, mm = listAddElement(m, l, n, c, data)
  PROVE  /\ Stored(mm, Chain(mm, l)) = Append(Stored(m, Chain(m, l)), data)
         /\ \A k \in DOMAIN m.root : k # l =>
              Stored(mm, Chain(mm, k)) = Stored(m, Chain(m, k))
  <1>2. /\ Chain(mm, l) = Append(Chain(m, l), n)
        /\ \A k \in DOMAIN m.root : k # l => Chain(mm, k) = Chain(m, k)
        /\ DOMAIN mm.node = DOMAIN m.node \cup {n}
        /\ mm.node[n].data = c
        /\ \A x \in DOMAIN m.node : mm.node[x].data = m.node[x].data
        /\ mm.cell = Allocate(m.cell, c, data)
    BY AddHeap
  <1>3. ASSUME NEW x \in DOMAIN m.node
        PROVE  mm.node[x].data = m.node[x].data /\ mm.cell[m.node[x].data] = m.cell[m.node[x].data]
    <2>1. m.node[x].data \in DOMAIN m.cell BY DEF Heap
    <2>2. QED BY <1>2, <2>1 DEF Allocate
  <1>4. ASSUME NEW k \in DOMAIN m.root
        PROVE  Stored(mm, Chain(m, k)) = Stored(m, Chain(m, k))
    <2>1. Range(Chain(m, k)) \subseteq DOMAIN m.node BY HeapChain
    <2>2. QED BY <1>3, <2>1, StoredSame
  <1>5. Stored(mm, Chain(mm, l)) = Append(Stored(m, Chain(m, l)), data)
    <2> DEFINE ch == Chain(m, l)
               long == Append(ch, n)
               s == Stored(m, ch)
               t == Stored(mm, long)
    <2>1. ch \in Seq(DOMAIN m.node) /\ Len(ch) \in Nat BY DEF Heap, Holds
    <2>2. Stored(mm, ch) = s BY <1>4
    <2> HIDE DEF ch
    <2>3. /\ Len(long) = Len(ch) + 1 /\ long[Len(ch) + 1] = n
          /\ \A i \in 1..Len(ch) : long[i] = ch[i]
      BY <2>1, AppendProperties
    <2>4. s = [i \in 1..Len(ch) |-> s[i]] /\ DOMAIN s = 1..Len(ch) BY DEF Stored
    <2>5. \A i \in 1..Len(ch) : mm.cell[mm.node[ch[i]].data] = s[i] BY <2>2 DEF Stored
    <2>6. mm.cell[c] = data BY <1>2 DEF Allocate
    <2> HIDE DEF s, long
    <2>7. /\ t = [i \in 1..(Len(ch) + 1) |-> t[i]]
          /\ \A i \in 1..(Len(ch) + 1) : t[i] = mm.cell[mm.node[long[i]].data]
      BY <2>3 DEF Stored
    <2> HIDE DEF t
    <2>8. t[Len(ch) + 1] = data
      <3>1. Len(ch) + 1 \in 1..(Len(ch) + 1) BY <2>1
      <3>2. QED BY <1>2, <2>3, <2>6, <2>7, <3>1
    <2>9. ASSUME NEW i \in 1..Len(ch) PROVE t[i] = s[i]
      <3>1. i \in 1..(Len(ch) + 1) BY <2>1
      <3>2. t[i] = mm.cell[mm.node[ch[i]].data] BY <2>3, <2>7, <3>1
      <3>3. QED BY <2>5, <3>2
    <2> DEFINE T == {s[i] : i \in 1..Len(ch)} \cup {data}
    <2>10. s \in Seq(T) /\ Len(s) = Len(ch) BY <2>1, <2>4
    <2>11. t \in Seq(T) /\ Len(t) = Len(ch) + 1
      <3>1. \A i \in 1..(Len(ch) + 1) : t[i] \in T
        <4>1. ASSUME NEW i \in 1..(Len(ch) + 1) PROVE i \in 1..Len(ch) \/ i = Len(ch) + 1
          BY <2>1
        <4>2. QED BY <2>8, <2>9, <4>1
      <3> HIDE DEF T
      <3>2. QED BY <2>1, <2>7, <3>1
    <2> HIDE DEF T
    <2>12. data \in T BY DEF T
    <2>13. /\ Append(s, data) \in Seq(T) /\ Len(Append(s, data)) = Len(ch) + 1
           /\ \A i \in 1..Len(ch) : Append(s, data)[i] = s[i]
           /\ Append(s, data)[Len(ch) + 1] = data
      BY <2>10, <2>12, AppendProperties
    <2>14. ASSUME NEW i \in 1..(Len(ch) + 1) PROVE t[i] = Append(s, data)[i]
      <3>1. i \in 1..Len(ch) \/ i = Len(ch) + 1 BY <2>1
      <3>2. QED BY <2>8, <2>9, <2>13, <3>1
    <2>15. t = Append(s, data) BY <2>11, <2>13, <2>14, SeqEqual
    <2>16. QED BY <1>2, <2>15 DEF t, s, long, ch
  <1>6. ASSUME NEW k \in DOMAIN m.root, k # l PROVE Stored(mm, Chain(mm, k)) = Stored(m, Chain(m, k))
    BY <1>2, <1>4, <1>6
  <1>7. QED BY <1>5, <1>6

(* The i-th datum goes, and other lists keep theirs.                       *)
LEMMA RemoveStores ==
  ASSUME NEW m, Heap(m), NEW l \in DOMAIN m.root, NEW i \in 1..Len(Chain(m, l)),
         NEW num, num = i - 1, NEW mm, mm = listRemoveElement(m, l, num)
  PROVE  /\ Stored(mm, Chain(mm, l)) = Without(Stored(m, Chain(m, l)), i)
         /\ \A k \in DOMAIN m.root : k # l =>
              Stored(mm, Chain(mm, k)) = Stored(m, Chain(m, k))
  <1> DEFINE ch == Chain(m, l)
             s == Stored(m, ch)
  <1>1. /\ Len(ch) \in Nat /\ m.root[l].count = Len(ch) /\ i \in 1..Len(ch)
        /\ Range(ch) \subseteq DOMAIN m.node
        /\ Holds(m, l, ch)
    BY HeapChain
  <1>2. /\ Chain(mm, l) = Without(ch, i)
        /\ \A k \in DOMAIN m.root : k # l => Chain(mm, k) = Chain(m, k)
        /\ DOMAIN mm.node = DOMAIN m.node \ Freed(ch, i)
        /\ \A x \in DOMAIN mm.node : mm.node[x].data = m.node[x].data
        /\ mm.cell = m.cell
    BY <1>1, RemoveHeap
  <1>3. ASSUME NEW k \in DOMAIN m.root, k # l PROVE Stored(mm, Chain(mm, k)) = Stored(m, Chain(m, k))
    <2>1. Range(Chain(m, k)) \cap Range(ch) = {} BY <1>1, <1>3 DEF Heap
    <2>2. Range(Chain(m, k)) \subseteq DOMAIN m.node BY <1>1, HeapChain
    <2>3. Freed(ch, i) \subseteq Range(ch)
      <3>1. DOMAIN ch = 1..Len(ch) BY <1>1, HeapChain
      <3>2. QED BY <1>1, <3>1 DEF Freed, Range
    <2>4. Range(Chain(m, k)) \subseteq DOMAIN mm.node BY <1>2, <2>1, <2>2, <2>3
    <2>5. Stored(mm, Chain(m, k)) = Stored(m, Chain(m, k)) BY <1>2, <2>4, StoredSame
    <2>6. QED BY <1>1, <1>2, <1>3, <2>5
  <1>4. Stored(mm, Without(ch, i)) = Without(s, i)
    <2> DEFINE w == Without(ch, i)
               len == Len(ch)
    <2> HIDE DEF ch, len
    <2>1. /\ Len(w) = len - 1
          /\ \A j \in 1..(len - 1) : w[j] = IF j < i THEN ch[j] ELSE ch[j + 1]
      BY <1>1 DEF Without, len
    <2>2. Range(w) = Range(ch) \ {ch[i]} BY <1>1, WithoutRange
    <2>3. \A j \in 1..(len - 1) : w[j] \in Range(w)
      <3>1. DOMAIN w = 1..(len - 1) BY DEF Without, len
      <3> HIDE DEF w
      <3>2. QED BY <3>1 DEF Range
    <2>4. Range(w) \subseteq DOMAIN mm.node
      BY <1>1, <1>2, <2>2 DEF Freed
    <2> HIDE DEF w
    <2>5. /\ Len(s) = len
          /\ \A j \in 1..len : s[j] = m.cell[m.node[ch[j]].data]
      BY <1>1 DEF Stored, len
    <2> HIDE DEF s
    <2>6. ASSUME NEW j \in 1..(len - 1)
          PROVE  mm.cell[mm.node[w[j]].data] = IF j < i THEN s[j] ELSE s[j + 1]
      <3>1. mm.cell[mm.node[w[j]].data] = m.cell[m.node[w[j]].data]
        BY <1>2, <2>3, <2>4
      <3>2. j \in 1..len /\ j + 1 \in 1..len BY <1>1 DEF len
      <3>3. QED BY <2>1, <2>5, <3>1, <3>2
    <2>7. Stored(mm, w) = [j \in 1..(len - 1) |-> mm.cell[mm.node[w[j]].data]]
      BY <2>1 DEF Stored
    <2>8. Without(s, i) = [j \in 1..(len - 1) |-> IF j < i THEN s[j] ELSE s[j + 1]]
      BY <2>5 DEF Without
    <2>9. Stored(mm, w) = Without(s, i) BY <2>6, <2>7, <2>8
    <2>10. QED BY <2>9 DEF w
  <1> HIDE DEF ch
  <1>5. QED BY <1>2, <1>3, <1>4 DEF ch

(* No datum stays, and other lists keep theirs.                            *)
LEMMA FreeAllStores ==
  ASSUME NEW m, Heap(m), NEW l \in DOMAIN m.root, NEW mm, mm = listFreeAll(m, l)
  PROVE  /\ Stored(mm, Chain(mm, l)) = << >>
         /\ \A k \in DOMAIN m.root : k # l =>
              Stored(mm, Chain(mm, k)) = Stored(m, Chain(m, k))
  <1> DEFINE owned == Owned(m, Chain(m, l))
  <1>1. Heap(m) OBVIOUS
  <1>2. /\ Chain(mm, l) = << >>
        /\ \A k \in DOMAIN m.root : k # l => Chain(mm, k) = Chain(m, k)
        /\ DOMAIN mm.node = DOMAIN m.node \ Range(Chain(m, l))
        /\ \A x \in DOMAIN mm.node : mm.node[x] = m.node[x]
        /\ mm.cell = Free(m.cell, owned)
    BY <1>1, FreeAllHeap
  <1>3. ASSUME NEW k \in DOMAIN m.root, k # l PROVE Stored(mm, Chain(mm, k)) = Stored(m, Chain(m, k))
    <2>1. Range(Chain(m, k)) \cap Range(Chain(m, l)) = {} BY <1>1, <1>3 DEF Heap
    <2>2. Range(Chain(m, k)) \subseteq DOMAIN m.node /\ Range(Chain(m, l)) \subseteq DOMAIN m.node
      BY <1>1, HeapChain
    <2>3. ASSUME NEW x \in Range(Chain(m, k))
          PROVE  mm.node[x].data = m.node[x].data
                 /\ mm.cell[m.node[x].data] = m.cell[m.node[x].data]
      <3>1. x \in DOMAIN mm.node /\ x \in DOMAIN m.node BY <1>2, <2>1, <2>2
      <3>2. mm.node[x].data = m.node[x].data BY <1>2, <3>1
      <3>3. m.node[x].data \in DOMAIN m.cell BY <1>1, <3>1 DEF Heap
      <3>4. \A y \in DOMAIN m.node : x # y => m.node[x].data # m.node[y].data
        BY <1>1, <3>1 DEF Heap
      <3>5. m.node[x].data \notin owned BY <2>1, <2>2, <3>4 DEF Owned
      <3> HIDE DEF owned
      <3>6. mm.cell[m.node[x].data] = m.cell[m.node[x].data]
        BY <1>2, <3>3, <3>5 DEF Free
      <3>7. QED BY <3>2, <3>6
    <2>4. Stored(mm, Chain(m, k)) = Stored(m, Chain(m, k)) BY <2>3, StoredSame
    <2>5. QED BY <1>1, <1>2, <1>3, <2>4
  <1>4. Stored(mm, Chain(mm, l)) = << >> BY <1>2 DEF Stored
  <1>5. QED BY <1>3, <1>4

(* A function is its values.                                               *)
IsFcn(f) == f = [x \in DOMAIN f |-> f[x]]

WithCells(m, f) == [m EXCEPT !.cell = f]
WithRoots(m, r) == [m EXCEPT !.root = r]

(* Writing into data blocks, allocating others and freeing blocks that no  *)
(* node owns disturb no list.                                              *)
LEMMA CellsReplaced ==
  ASSUME NEW m, Heap(m), NEW f, IsFcn(f),
         \A x \in DOMAIN m.node : m.node[x].data \in DOMAIN f,
         NEW mm, mm = WithCells(m, f)
  PROVE  /\ Heap(mm)
         /\ \A l \in DOMAIN m.root : Chain(mm, l) = Chain(m, l)
         /\ mm.node = m.node /\ mm.root = m.root /\ mm.cell = f
  <1>0. mm = [node |-> m.node, cell |-> f, root |-> m.root]
    BY DEF WithCells, Heap, WellFormed
  <1>1. mm.node = m.node /\ mm.root = m.root /\ mm.cell = f BY <1>0
  <1>2. WellFormed(mm)
    <2>1. mm = [node |-> mm.node, cell |-> mm.cell, root |-> mm.root] BY <1>0
    <2>2. mm.cell = [c \in DOMAIN mm.cell |-> mm.cell[c]] BY <1>1 DEF IsFcn
    <2>3. WellFormed(m) BY DEF Heap
    <2>4. QED BY <1>1, <2>1, <2>2, <2>3 DEF WellFormed
  <1>3. ASSUME NEW l \in DOMAIN m.root
        PROVE  Holds(mm, l, Chain(m, l)) /\ Chain(mm, l) = Chain(m, l)
    <2> DEFINE ch == Chain(m, l)
    <2>1. Holds(m, l, ch) BY DEF Heap
    <2> HIDE DEF ch
    <2>2. \A i \in 1..Len(ch) : ch[i] \in DOMAIN m.node BY <2>1 DEF Holds
    <2>3. l \in DOMAIN mm.root /\ mm.root[l] = m.root[l]
          /\ \A i \in 1..Len(ch) : ch[i] \in DOMAIN mm.node /\ mm.node[ch[i]] = m.node[ch[i]]
      BY <1>1, <2>2
    <2>4. Holds(mm, l, ch) BY <2>1, <2>3, HoldsStill
    <2>5. QED BY <2>4, ChainOf DEF ch
  <1>4. /\ Null \notin DOMAIN m.node
        /\ \A l, k \in DOMAIN m.root : l # k => Range(Chain(m, l)) \cap Range(Chain(m, k)) = {}
        /\ \A x, y \in DOMAIN m.node : x # y => m.node[x].data # m.node[y].data
    BY DEF Heap
  <1>5. Heap(mm) BY <1>1, <1>2, <1>3, <1>4 DEF Heap
  <1>6. QED BY <1>1, <1>3, <1>5

(* Writing into the data blocks disturbs no list.                          *)
LEMMA CellsChange ==
  ASSUME NEW m, Heap(m), NEW f, f = [c \in DOMAIN m.cell |-> f[c]],
         NEW mm, mm = [node |-> m.node, cell |-> f, root |-> m.root]
  PROVE  /\ Heap(mm)
         /\ \A l \in DOMAIN m.root : Chain(mm, l) = Chain(m, l)
  <1>1. DOMAIN f = DOMAIN m.cell OBVIOUS
  <1>2. IsFcn(f) BY <1>1 DEF IsFcn
  <1>3. \A x \in DOMAIN m.node : m.node[x].data \in DOMAIN f BY <1>1 DEF Heap
  <1>4. mm = WithCells(m, f) BY DEF WithCells, Heap, WellFormed
  <1>5. QED BY <1>2, <1>3, <1>4, CellsReplaced

(* Lists may be added empty, and left out.                                 *)
LEMMA RootsReplaced ==
  ASSUME NEW m, Heap(m), NEW r, IsFcn(r), NEW S, S = DOMAIN r,
         \A l \in S : (l \in DOMAIN m.root /\ r[l] = m.root[l]) \/ r[l] = EmptyRoot,
         NEW mm, mm = WithRoots(m, r)
  PROVE  /\ Heap(mm)
         /\ \A l \in S : l \in DOMAIN m.root /\ r[l] = m.root[l] => Chain(mm, l) = Chain(m, l)
         /\ \A l \in S : r[l] = EmptyRoot => Chain(mm, l) = << >>
         /\ mm.node = m.node /\ mm.root = r /\ mm.cell = m.cell
  <1>0. mm = [node |-> m.node, cell |-> m.cell, root |-> r]
    BY DEF WithRoots, Heap, WellFormed
  <1>1. mm.node = m.node /\ mm.root = r /\ mm.cell = m.cell /\ DOMAIN r = S BY <1>0
  <1>2. \A l \in S : r[l] = [count |-> r[l].count, first |-> r[l].first, last |-> r[l].last]
    <2> SUFFICES ASSUME NEW l \in S
                 PROVE  r[l] = [count |-> r[l].count, first |-> r[l].first, last |-> r[l].last]
      OBVIOUS
    <2>1. CASE r[l] = EmptyRoot BY <2>1 DEF EmptyRoot
    <2>2. CASE l \in DOMAIN m.root /\ r[l] = m.root[l]
      <3>1. m.root[l] = [count |-> m.root[l].count, first |-> m.root[l].first,
                         last |-> m.root[l].last]
        BY <2>2 DEF Heap, WellFormed
      <3>2. QED BY <2>2, <3>1
    <2>3. QED BY <2>1, <2>2
  <1>3. WellFormed(mm)
    <2>1. mm = [node |-> mm.node, cell |-> mm.cell, root |-> mm.root] BY <1>0
    <2>2. mm.root = [l \in DOMAIN mm.root |->
                       [count |-> mm.root[l].count, first |-> mm.root[l].first,
                        last |-> mm.root[l].last]]
      BY <1>1, <1>2 DEF IsFcn
    <2>3. WellFormed(m) BY DEF Heap
    <2>4. QED BY <1>1, <2>1, <2>2, <2>3 DEF WellFormed
  <1>4. ASSUME NEW l \in S, l \in DOMAIN m.root, r[l] = m.root[l]
        PROVE  Holds(mm, l, Chain(m, l)) /\ Chain(mm, l) = Chain(m, l)
    <2> DEFINE ch == Chain(m, l)
    <2>1. Holds(m, l, ch) BY <1>4 DEF Heap
    <2> HIDE DEF ch
    <2>2. \A i \in 1..Len(ch) : ch[i] \in DOMAIN m.node BY <2>1 DEF Holds
    <2>3. l \in DOMAIN mm.root /\ mm.root[l] = m.root[l]
          /\ \A i \in 1..Len(ch) : ch[i] \in DOMAIN mm.node /\ mm.node[ch[i]] = m.node[ch[i]]
      BY <1>1, <1>4, <2>2
    <2>4. Holds(mm, l, ch) BY <2>1, <2>3, HoldsStill
    <2>5. QED BY <2>4, ChainOf DEF ch
  <1>5. ASSUME NEW l \in S, r[l] = EmptyRoot
        PROVE  Holds(mm, l, << >>) /\ Chain(mm, l) = << >>
    <2>1. /\ mm.root[l].count = 0 /\ mm.root[l].first = Null /\ mm.root[l].last = Null
          /\ l \in DOMAIN mm.root
      BY <1>1, <1>5 DEF EmptyRoot
    <2>2. Holds(mm, l, << >>) BY <2>1 DEF Holds
    <2>3. QED BY <2>2, ChainOf
  <1>6. \A l \in S : Holds(mm, l, Chain(mm, l)) BY <1>4, <1>5
  <1>7. Range(<< >>) = {} BY DEF Range
  <1>8. ASSUME NEW l \in S, NEW k \in S, l # k
        PROVE  Range(Chain(mm, l)) \cap Range(Chain(mm, k)) = {}
    <2>1. CASE r[l] = EmptyRoot \/ r[k] = EmptyRoot BY <1>5, <1>7, <2>1
    <2>2. CASE l \in DOMAIN m.root /\ r[l] = m.root[l] /\ k \in DOMAIN m.root /\ r[k] = m.root[k]
      <3>1. Range(Chain(m, l)) \cap Range(Chain(m, k)) = {} BY <1>8, <2>2 DEF Heap
      <3>2. QED BY <1>4, <2>2, <3>1
    <2>3. QED BY <2>1, <2>2
  <1>9. /\ Null \notin DOMAIN m.node
        /\ \A x \in DOMAIN m.node : m.node[x].data \in DOMAIN m.cell
        /\ \A x, y \in DOMAIN m.node : x # y => m.node[x].data # m.node[y].data
    BY DEF Heap
  <1>10. Heap(mm) BY <1>1, <1>3, <1>6, <1>8, <1>9 DEF Heap
  <1>11. QED BY <1>1, <1>4, <1>5, <1>10
=============================================================================
