----------------------------- MODULE FoldFacts ------------------------------
(***************************************************************************)
(* What the loops of the code compute: facts about FoldLeft for any        *)
(* operator Op.  A module that folds a definition of its own instantiates  *)
(* this one WITH Op <- that definition, which gives its proofs every fact  *)
(* here: the provers instantiate no theorem with an operator parameter.    *)
(* Induction is by the least natural number that is a counterexample.      *)
(***************************************************************************)
EXTENDS Integers, Sequences
LOCAL INSTANCE SequenceTheorems
LOCAL INSTANCE WellFoundedInduction
LOCAL INSTANCE TLAPS

CONSTANT Op(_, _)

Top(p) == CHOOSE x \in p : \A y \in p : x >= y

\* One iteration of a loop over s per element, from the value before it: what
\* FoldLeft(Op, base, s) is by its definitions in SequencesExt and Folds.
Fold(base, s) ==
  LET iter[p \in SUBSET DOMAIN s] ==
        IF p = {} THEN base ELSE Op(iter[p \ {Top(p)}], s[Top(p)])
  IN iter[DOMAIN s]

\* What FoldLeft chooses: the folds of the sets of positions up to n.
IsFold(g, base, s, n) ==
  g = [p \in SUBSET (1..n) |-> IF p = {} THEN base ELSE Op(g[p \ {Top(p)}], s[Top(p)])]

-----------------------------------------------------------------------------

\* Induction over the iterations of a loop: a set of naturals has a least one.
LEMMA Least ==
  ASSUME NEW T \in SUBSET Nat, T # {}
  PROVE \E n \in T : \A m \in T : n <= m
<1> DEFINE R == {ss \in Nat \X Nat : ss[1] < ss[2]}
<1>1. IsWellFoundedOn(R, Nat)
  BY NatLessThanWellFounded DEF OpToRel
<1>2. PICK x \in T : \A y \in T : ~ (<<y, x>> \in R)
  <2> HIDE DEF R
  <2> QED BY <1>1, WFMin
<1>3. \A y \in T : ~(y < x)
  BY <1>2
<1> QED BY <1>3

\* The same as a rule: a set of naturals with 0 and every successor is all of them.
LEMMA Induction ==
  ASSUME NEW G, 0 \in G, \A n \in Nat : n \in G => n + 1 \in G
  PROVE Nat \subseteq G
<1> DEFINE T == {n \in Nat : n \notin G}
<1> SUFFICES ASSUME T # {} PROVE FALSE
  OBVIOUS
<1>1. PICK n \in T : \A m \in T : n <= m
  <2> HIDE DEF T
  <2>1. T \in SUBSET Nat
    BY DEF T
  <2> QED BY <2>1, Least
<1>2. n # 0 /\ n - 1 \in Nat /\ n - 1 \notin T
  BY <1>1
<1> QED BY <1>1, <1>2

\* The last position of a set of positions.
LEMMA TopIsLast ==
  ASSUME NEW n \in Nat, NEW p \in SUBSET (1..n), p # {}
  PROVE Top(p) \in p /\ \A y \in p : Top(p) >= y
<1> DEFINE U == {m \in Nat : \A y \in p : y <= m}
<1>1. PICK m \in U : \A k \in U : m <= k
  <2>1. n \in U
    OBVIOUS
  <2>2. U \in SUBSET Nat
    OBVIOUS
  <2> HIDE DEF U
  <2> QED BY <2>1, <2>2, Least
<1>2. m \in p
  <2> SUFFICES ASSUME m \notin p PROVE FALSE
    OBVIOUS
  <2>1. PICK y \in p : TRUE
    OBVIOUS
  <2>2. y \in Nat /\ y >= 1 /\ y <= m
    BY <1>1
  <2>3. m - 1 \in U
    <3>1. \A z \in p : z \in Nat /\ z <= m /\ z # m
      BY <1>1
    <3>2. m - 1 \in Nat
      BY <2>2, <1>1
    <3> QED BY <3>1, <3>2
  <2> QED BY <1>1, <2>3
<1>3. \A y \in p : m >= y
  BY <1>1
<1> QED BY <1>2, <1>3 DEF Top

LEMMA TopOfAll ==
  ASSUME NEW n \in Nat \ {0}
  PROVE /\ Top(1..n) = n /\ (1..n) \ {Top(1..n)} = 1..(n - 1) /\ 1..n # {}
        /\ 1..n \in SUBSET (1..n)
<1>1. n \in 1..n /\ (1..n) \in SUBSET (1..n) /\ 1..n # {}
  OBVIOUS
<1>2. Top(1..n) \in 1..n /\ Top(1..n) >= n
  BY <1>1, TopIsLast
<1>3. Top(1..n) = n
  BY <1>2
<1> QED BY <1>1, <1>3

\* The function FoldLeft chooses exists.
LEMMA FoldExists ==
  ASSUME NEW base, NEW s, NEW n \in Nat
  PROVE \E g : IsFold(g, base, s, n)
<1> DEFINE G == {m \in Nat : \E g : IsFold(g, base, s, m)}
<1>1. 0 \in G
  <2>1. IsFold([p \in {{}} |-> base], base, s, 0)
    <3>1. SUBSET (1..0) = {{}}
      OBVIOUS
    <3> QED BY <3>1 DEF IsFold
  <2> QED BY <2>1
<1>2. ASSUME NEW m \in Nat, m \in G PROVE m + 1 \in G
  <2>1. PICK g : IsFold(g, base, s, m)
    BY <1>2
  <2> DEFINE h == [p \in SUBSET (1..(m + 1)) |->
                     IF m + 1 \in p THEN Op(g[p \ {m + 1}], s[m + 1]) ELSE g[p]]
  <2>2. ASSUME NEW p \in SUBSET (1..(m + 1))
        PROVE h[p] = IF p = {} THEN base ELSE Op(h[p \ {Top(p)}], s[Top(p)])
    <3>1. CASE m + 1 \in p
      <4>1. Top(p) = m + 1
        <5>1. Top(p) \in p /\ Top(p) >= m + 1
          <6>1. m + 1 \in Nat /\ p # {}
            BY <3>1
          <6> HIDE DEF h, G
          <6> QED BY <3>1, <6>1, TopIsLast
        <5>2. Top(p) \in 1..(m + 1)
          BY <5>1
        <5> QED BY <5>1, <5>2
      <4>2. p \ {m + 1} \in SUBSET (1..(m + 1)) /\ m + 1 \notin p \ {m + 1}
        OBVIOUS
      <4>3. h[p \ {m + 1}] = g[p \ {m + 1}]
        BY <4>2
      <4>4. h[p] = Op(g[p \ {m + 1}], s[m + 1])
        BY <3>1
      <4> HIDE DEF h
      <4> QED BY <3>1, <4>1, <4>3, <4>4
    <3>2. CASE m + 1 \notin p
      <4>1. p \in SUBSET (1..m)
        BY <3>2
      <4>2. h[p] = g[p]
        BY <3>2
      <4>3. g[p] = IF p = {} THEN base ELSE Op(g[p \ {Top(p)}], s[Top(p)])
        BY <2>1, <4>1 DEF IsFold
      <4>4. h[p \ {Top(p)}] = g[p \ {Top(p)}]
        <5>1. p \ {Top(p)} \in SUBSET (1..(m + 1)) /\ m + 1 \notin p \ {Top(p)}
          BY <3>2
        <5> QED BY <5>1
      <4> HIDE DEF h
      <4> QED BY <4>2, <4>3, <4>4
    <3> QED BY <3>1, <3>2
  <2>3. IsFold(h, base, s, m + 1)
    <3>1. h = [p \in SUBSET (1..(m + 1)) |-> h[p]]
      OBVIOUS
    <3> HIDE DEF h
    <3>2. [p \in SUBSET (1..(m + 1)) |-> h[p]] =
            [p \in SUBSET (1..(m + 1)) |->
               IF p = {} THEN base ELSE Op(h[p \ {Top(p)}], s[Top(p)])]
      BY <2>2
    <3> QED BY <3>1, <3>2 DEF IsFold
  <2> QED BY <2>3
<1> HIDE DEF G
<1>3. Nat \subseteq G
  BY <1>1, <1>2, Induction
<1> QED BY <1>3 DEF G

\* What it says of the first k positions depends on them only.
LEMMA FoldsAgree ==
  ASSUME NEW base, NEW s, NEW t, NEW m \in Nat, NEW n \in Nat,
         NEW g, IsFold(g, base, s, m), NEW h, IsFold(h, base, t, n),
         NEW k \in Nat, k <= m, k <= n, \A i \in 1..k : s[i] = t[i]
  PROVE g[1..k] = h[1..k]
<1> DEFINE G == {i \in Nat : i <= k => g[1..i] = h[1..i]}
<1>1. 0 \in G
  <2>1. 1..0 = {} /\ {} \in SUBSET (1..m) /\ {} \in SUBSET (1..n)
    OBVIOUS
  <2>2. g[{}] = base /\ h[{}] = base
    BY <2>1 DEF IsFold
  <2> QED BY <2>1, <2>2
<1>2. ASSUME NEW i \in Nat, i \in G PROVE i + 1 \in G
  <2> SUFFICES ASSUME i + 1 <= k PROVE g[1..(i + 1)] = h[1..(i + 1)]
    OBVIOUS
  <2>1. /\ Top(1..(i + 1)) = i + 1 /\ (1..(i + 1)) \ {Top(1..(i + 1))} = 1..i
        /\ 1..(i + 1) # {}
    <3>1. i + 1 \in Nat \ {0} /\ (i + 1) - 1 = i
      OBVIOUS
    <3> QED BY <3>1, TopOfAll
  <2>2. 1..(i + 1) \in SUBSET (1..m) /\ 1..(i + 1) \in SUBSET (1..n)
    OBVIOUS
  <2>3. g[1..(i + 1)] = Op(g[1..i], s[i + 1])
    BY <2>1, <2>2 DEF IsFold
  <2>4. h[1..(i + 1)] = Op(h[1..i], t[i + 1])
    BY <2>1, <2>2 DEF IsFold
  <2>5. g[1..i] = h[1..i] /\ s[i + 1] = t[i + 1]
    BY <1>2
  <2> QED BY <2>3, <2>4, <2>5
<1> HIDE DEF G
<1>3. k \in G
  BY <1>1, <1>2, Induction
<1> QED BY <1>3 DEF G

LEMMA FoldIs ==
  ASSUME NEW base, NEW S, NEW s \in Seq(S)
  PROVE \E g : IsFold(g, base, s, Len(s)) /\ Fold(base, s) = g[1..Len(s)]
<1>1. DOMAIN s = 1..Len(s) /\ Len(s) \in Nat
  OBVIOUS
<1>2. Fold(base, s) = (CHOOSE g : IsFold(g, base, s, Len(s)))[1..Len(s)]
  BY <1>1 DEF Fold, IsFold
<1>3. IsFold(CHOOSE g : IsFold(g, base, s, Len(s)), base, s, Len(s))
  BY <1>1, FoldExists
<1> QED BY <1>2, <1>3

-----------------------------------------------------------------------------

\* A loop over nothing changes nothing.
LEMMA FoldOfNone ==
  ASSUME NEW base PROVE Fold(base, <<>>) = base
<1>1. <<>> \in Seq({}) /\ Len(<<>>) = 0
  OBVIOUS
<1>2. PICK g : IsFold(g, base, <<>>, 0) /\ Fold(base, <<>>) = g[1..0]
  BY <1>1, FoldIs
<1>3. 1..0 = {} /\ {} \in SUBSET (1..0)
  OBVIOUS
<1> QED BY <1>2, <1>3 DEF IsFold

\* One element more is one iteration more.
LEMMA FoldOfOneMore ==
  ASSUME NEW base, NEW S, NEW s \in Seq(S), NEW x \in S
  PROVE Fold(base, Append(s, x)) = Op(Fold(base, s), x)
<1> DEFINE t == Append(s, x)  n == Len(s)
<1>1. n \in Nat /\ t \in Seq(S) /\ Len(t) = n + 1 /\ t[n + 1] = x /\ \A i \in 1..n : s[i] = t[i]
  OBVIOUS
<1> HIDE DEF t, n
<1>2. PICK g : IsFold(g, base, t, n + 1) /\ Fold(base, t) = g[1..(n + 1)]
  BY <1>1, FoldIs
<1>3. PICK h : IsFold(h, base, s, n) /\ Fold(base, s) = h[1..n]
  BY FoldIs DEF n
<1>4. /\ Top(1..(n + 1)) = n + 1 /\ (1..(n + 1)) \ {Top(1..(n + 1))} = 1..n
      /\ 1..(n + 1) # {} /\ 1..(n + 1) \in SUBSET (1..(n + 1))
  <2>1. n + 1 \in Nat \ {0} /\ (n + 1) - 1 = n
    BY <1>1
  <2> QED BY <2>1, TopOfAll
<1>5. g[1..(n + 1)] = Op(g[1..n], x)
  BY <1>1, <1>2, <1>4 DEF IsFold
<1>6. g[1..n] = h[1..n]
  <2>1. n <= n + 1 /\ n <= n /\ n + 1 \in Nat /\ \A i \in 1..n : t[i] = s[i]
    BY <1>1
  <2> DEFINE m == n + 1
  <2>2. m \in Nat /\ n \in Nat /\ n <= m /\ n <= n /\ IsFold(g, base, t, m)
    BY <1>1, <1>2, <2>1
  <2>3. IsFold(h, base, s, n)
    BY <1>3
  <2>4. \A i \in 1..n : t[i] = s[i]
    BY <2>1
  <2> HIDE DEF m
  <2> QED BY <2>2, <2>3, <2>4, FoldsAgree
<1> QED BY <1>2, <1>3, <1>5, <1>6 DEF t

\* What every iteration keeps holds after the loop.
LEMMA FoldKeeps ==
  ASSUME NEW T, NEW base \in T, NEW S, NEW s \in Seq(S),
         \A t \in T, x \in S : Op(t, x) \in T
  PROVE Fold(base, s) \in T
<1> DEFINE n == Len(s)
<1>1. n \in Nat /\ \A i \in 1..n : s[i] \in S
  OBVIOUS
<1>2. PICK g : IsFold(g, base, s, n) /\ Fold(base, s) = g[1..n]
  BY FoldIs
<1> HIDE DEF n
<1> DEFINE G == {i \in Nat : i <= n => g[1..i] \in T}
<1>3. 0 \in G
  <2>1. 1..0 = {} /\ {} \in SUBSET (1..n)
    OBVIOUS
  <2> QED BY <1>2, <2>1 DEF IsFold
<1>4. ASSUME NEW i \in Nat, i \in G PROVE i + 1 \in G
  <2> SUFFICES ASSUME i + 1 <= n PROVE g[1..(i + 1)] \in T
    OBVIOUS
  <2>1. /\ Top(1..(i + 1)) = i + 1 /\ (1..(i + 1)) \ {Top(1..(i + 1))} = 1..i
        /\ 1..(i + 1) # {}
    <3>1. i + 1 \in Nat \ {0} /\ (i + 1) - 1 = i
      OBVIOUS
    <3> QED BY <3>1, TopOfAll
  <2>2. 1..(i + 1) \in SUBSET (1..n) /\ i + 1 \in 1..n /\ i <= n
    BY <1>1
  <2>3. g[1..(i + 1)] = Op(g[1..i], s[i + 1])
    BY <1>2, <2>1, <2>2 DEF IsFold
  <2> QED BY <1>1, <1>4, <2>2, <2>3
<1> HIDE DEF G
<1>5. n \in G
  BY <1>1, <1>3, <1>4, Induction
<1> QED BY <1>1, <1>2, <1>5 DEF G

\* A sequence that is not empty: what comes before its last element, and that.
LEMMA Split ==
  ASSUME NEW S, NEW s \in Seq(S), NEW n \in Nat, Len(s) = n + 1
  PROVE /\ [k \in 1..n |-> s[k]] \in Seq(S) /\ Len([k \in 1..n |-> s[k]]) = n
        /\ s[n + 1] \in S /\ s = Append([k \in 1..n |-> s[k]], s[n + 1])
<1> DEFINE f == [k \in 1..n |-> s[k]]
<1>1. \A k \in 1..(n + 1) : s[k] \in S
  OBVIOUS
<1>2. f \in [1..n -> S]
  BY <1>1
<1>3. f \in Seq(S) /\ Len(f) = n
  BY <1>2
<1>4. s[n + 1] \in S
  BY <1>1
<1>5. Append(f, s[n + 1]) \in Seq(S) /\ Len(Append(f, s[n + 1])) = n + 1
      /\ \A k \in 1..n : Append(f, s[n + 1])[k] = f[k] /\ f[k] = s[k]
      /\ Append(f, s[n + 1])[n + 1] = s[n + 1]
  <2>1. \A k \in 1..n : f[k] = s[k]
    OBVIOUS
  <2> HIDE DEF f
  <2> QED BY <1>3, <1>4, <2>1
<1> HIDE DEF f
<1>6. s = Append(f, s[n + 1])
  <2>1. \A k \in 1..Len(s) : s[k] = Append(f, s[n + 1])[k]
    BY <1>5
  <2> QED BY <1>5, <2>1, SeqEqual
<1> QED BY <1>3, <1>4, <1>6 DEF f

\* Each iteration adds what the element weighs.
AddsWeight(S, W) ==
  W \in [S -> Int] /\ \A n \in Int, x \in S : Op(n, x) = n + W[x]

\* Induction over the elements of a list.
LEMMA ListInduction ==
  ASSUME NEW S, NEW G, <<>> \in G, \A s \in Seq(S), x \in S : s \in G => Append(s, x) \in G
  PROVE Seq(S) \subseteq G
<1> DEFINE H == {n \in Nat : \A s \in Seq(S) : Len(s) = n => s \in G}
<1>1. 0 \in H
  <2>1. \A s \in Seq(S) : Len(s) = 0 => s = <<>>
    OBVIOUS
  <2> QED BY <2>1
<1>2. ASSUME NEW n \in Nat, n \in H PROVE n + 1 \in H
  <2> SUFFICES ASSUME NEW s \in Seq(S), Len(s) = n + 1 PROVE s \in G
    OBVIOUS
  <2> DEFINE r == [k \in 1..n |-> s[k]]  x == s[n + 1]
  <2>1. r \in Seq(S) /\ Len(r) = n /\ x \in S /\ s = Append(r, x)
    BY Split
  <2> HIDE DEF r, x
  <2>2. r \in G
    BY <1>2, <2>1
  <2> QED BY <2>1, <2>2
<1> HIDE DEF H
<1>3. Nat \subseteq H
  BY <1>1, <1>2, Induction
<1>4. ASSUME NEW s \in Seq(S) PROVE s \in G
  <2>1. Len(s) \in H
    BY <1>3
  <2> QED BY <2>1 DEF H
<1> QED BY <1>4

\* A loop that adds up what its elements weigh: changing one element changes the
\* total by the difference.
LEMMA SumExcept ==
  ASSUME NEW S, NEW W, AddsWeight(S, W), NEW base \in Int,
         NEW s \in Seq(S), NEW i \in 1..Len(s), NEW x \in S,
         NEW u, u = [s EXCEPT ![i] = x]
  PROVE Fold(base, u) = Fold(base, s) + W[x] - W[s[i]]
<1> DEFINE G == {n \in Nat : \A r \in Seq(S) : Len(r) = n => \A j \in 1..n :
                   Fold(base, [r EXCEPT ![j] = x]) = Fold(base, r) + W[x] - W[r[j]]}
<1> W \in [S -> Int] /\ \A t \in Int, y \in S : Op(t, y) = t + W[y]
  BY DEF AddsWeight
<1>0. \A r \in Seq(S) : Fold(base, r) \in Int
  <2>1. \A t \in Int, y \in S : Op(t, y) \in Int
    OBVIOUS
  <2> QED BY <2>1, FoldKeeps
<1>1. 0 \in G
  OBVIOUS
<1>2. ASSUME NEW n \in Nat, n \in G PROVE n + 1 \in G
  <2> SUFFICES ASSUME NEW r \in Seq(S), Len(r) = n + 1, NEW j \in 1..(n + 1)
               PROVE Fold(base, [r EXCEPT ![j] = x]) = Fold(base, r) + W[x] - W[r[j]]
    OBVIOUS
  <2> DEFINE f == [k \in 1..n |-> r[k]]  l == r[n + 1]
  <2>1. f \in Seq(S) /\ Len(f) = n /\ l \in S /\ r = Append(f, l)
    BY Split
  <2>0. \A k \in 1..n : f[k] = r[k]
    OBVIOUS
  <2>2. Fold(base, r) = Fold(base, f) + W[l]
    <3> HIDE DEF f, l
    <3>1. Fold(base, Append(f, l)) = Op(Fold(base, f), l)
      BY <2>1, FoldOfOneMore
    <3>2. Fold(base, f) \in Int
      BY <1>0, <2>1
    <3> QED BY <2>1, <3>1, <3>2
  <2>3. CASE j = n + 1
    <3>1. [r EXCEPT ![j] = x] = Append(f, x)
      <4> HIDE DEF f, l
      <4>1. /\ [r EXCEPT ![j] = x] \in Seq(S) /\ Append(f, x) \in Seq(S)
            /\ Len([r EXCEPT ![j] = x]) = n + 1 /\ Len(Append(f, x)) = n + 1
        BY <2>1
      <4>2. /\ \A k \in 1..n : Append(f, x)[k] = r[k]
            /\ Append(f, x)[n + 1] = x
        BY <2>0, <2>1
      <4>3. /\ \A k \in 1..n : [r EXCEPT ![j] = x][k] = r[k]
            /\ [r EXCEPT ![j] = x][n + 1] = x
        BY <2>3
      <4>4. ASSUME NEW k \in 1..(n + 1) PROVE [r EXCEPT ![j] = x][k] = Append(f, x)[k]
        <5>1. k \in 1..n \/ k = n + 1
          OBVIOUS
        <5>2. CASE k \in 1..n
          BY <4>2, <4>3, <5>2, Zenon
        <5>3. CASE k = n + 1
          BY <4>2, <4>3, <5>3, Zenon
        <5> QED BY <5>1, <5>2, <5>3, Zenon
      <4> QED BY <4>1, <4>4, SeqEqual
    <3>2. Fold(base, Append(f, x)) = Op(Fold(base, f), x)
      <4> HIDE DEF f, l
      <4> QED BY <2>1, FoldOfOneMore
    <3>3. Fold(base, f) \in Int /\ W[x] \in Int /\ W[l] \in Int /\ r[j] = l
      <4> HIDE DEF f
      <4>1. l \in S
        BY <2>1
      <4> QED BY <1>0, <2>1, <2>3, <4>1
    <3> HIDE DEF f, l
    <3>4. Fold(base, [r EXCEPT ![j] = x]) = Fold(base, f) + W[x]
      BY <3>1, <3>2, <3>3
    <3> QED BY <2>2, <3>3, <3>4
  <2>4. CASE j \in 1..n
    <3> DEFINE h == [f EXCEPT ![j] = x]
    <3>1. h \in Seq(S) /\ Fold(base, h) = Fold(base, f) + W[x] - W[f[j]] /\ f[j] = r[j]
      <4>1. f[j] = r[j]
        BY <2>4
      <4>2. \A q \in Seq(S) : Len(q) = n => \A k \in 1..n :
               Fold(base, [q EXCEPT ![k] = x]) = Fold(base, q) + W[x] - W[q[k]]
        BY <1>2
      <4> HIDE DEF f, G
      <4>3. Fold(base, h) = Fold(base, f) + W[x] - W[f[j]]
        BY <2>1, <2>4, <4>2
      <4> QED BY <2>1, <2>4, <4>1, <4>3
    <3>2. [r EXCEPT ![j] = x] = Append(h, l)
      <4> HIDE DEF f, l
      <4>1. /\ [r EXCEPT ![j] = x] \in Seq(S) /\ Append(h, l) \in Seq(S)
            /\ Len([r EXCEPT ![j] = x]) = n + 1 /\ Len(Append(h, l)) = n + 1
        BY <2>1, <2>4
      <4>2. /\ \A k \in 1..n : Append(h, l)[k] = IF k = j THEN x ELSE r[k]
            /\ Append(h, l)[n + 1] = l
        <5>1. h \in Seq(S) /\ Len(h) = n /\ \A k \in 1..n : h[k] = IF k = j THEN x ELSE f[k]
          BY <2>1, <2>4
        <5> HIDE DEF h
        <5> QED BY <2>0, <2>1, <5>1, SMTT(30)
      <4>3. /\ \A k \in 1..n : [r EXCEPT ![j] = x][k] = IF k = j THEN x ELSE r[k]
            /\ [r EXCEPT ![j] = x][n + 1] = l
        BY <2>4 DEF l
      <4>4. ASSUME NEW k \in 1..(n + 1) PROVE [r EXCEPT ![j] = x][k] = Append(h, l)[k]
        <5> HIDE DEF h
        <5>1. k \in 1..n \/ k = n + 1
          OBVIOUS
        <5>2. CASE k \in 1..n
          BY <4>2, <4>3, <5>2, Zenon
        <5>3. CASE k = n + 1
          BY <4>2, <4>3, <5>3, Zenon
        <5> QED BY <5>1, <5>2, <5>3, Zenon
      <4> QED BY <4>1, <4>4, SeqEqual
    <3>3. Fold(base, Append(h, l)) = Op(Fold(base, h), l) /\ Fold(base, h) \in Int
      <4>1. h \in Seq(S) /\ l \in S
        BY <2>1, <3>1
      <4> HIDE DEF f, l, h
      <4> QED BY <1>0, <4>1, FoldOfOneMore
    <3>4. Fold(base, f) \in Int /\ W[x] \in Int /\ W[l] \in Int /\ W[r[j]] \in Int
      <4>1. l \in S /\ r[j] \in S
        <5> HIDE DEF f, l
        <5> QED BY <2>1
      <4> HIDE DEF f, l
      <4> QED BY <1>0, <2>1, <4>1
    <3>5. Fold(base, [r EXCEPT ![j] = x]) = Fold(base, h) + W[l]
      <4>1. l \in S
        BY <2>1
      <4> HIDE DEF f, l, h
      <4> QED BY <3>2, <3>3, <4>1
    <3> HIDE DEF f, l, h
    <3> QED BY <2>2, <3>1, <3>4, <3>5
  <2> QED BY <2>3, <2>4
<1> HIDE DEF G
<1>3. Nat \subseteq G
  BY <1>1, <1>2, Induction
<1>4. Len(s) \in Nat
  OBVIOUS
<1> QED BY <1>3, <1>4 DEF G

\* A loop that adds up what its elements weigh: of two sequences that differ in
\* one element, the totals differ by the difference.
LEMMA SumOfOneChanged ==
  ASSUME NEW S, NEW W, AddsWeight(S, W), NEW base \in Int,
         NEW s \in Seq(S), NEW t \in Seq(S), Len(t) = Len(s),
         NEW i \in 1..Len(s), \A j \in 1..Len(s) : j # i => t[j] = s[j]
  PROVE Fold(base, t) = Fold(base, s) + W[t[i]] - W[s[i]]
<1>1. t[i] \in S
  OBVIOUS
<1>2. t = [s EXCEPT ![i] = t[i]]
  <2> DEFINE u == [s EXCEPT ![i] = t[i]]
  <2>1. u \in Seq(S) /\ Len(u) = Len(s) /\ \A j \in 1..Len(s) : u[j] = t[j]
    BY <1>1
  <2> HIDE DEF u
  <2>2. t = u
    BY <2>1, SeqEqual
  <2> QED BY <2>2 DEF u
<1> QED BY <1>1, <1>2, SumExcept

=============================================================================
