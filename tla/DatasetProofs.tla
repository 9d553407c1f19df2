---------------------------- MODULE DatasetProofs ----------------------------
(***************************************************************************)
(* For any number of VUs and keys and a corpus of any size: one cursor per *)
(* key, a corpus that is dealt out evenly and in the seed's order, At()    *)
(* that agrees with it, and a cache that holds only what parses.           *)
(***************************************************************************)
EXTENDS Dataset, FiniteSetTheorems, TLAPS

-----------------------------------------------------------------------------
(* Division: the quotient and the remainder, and that they are unique.     *)

LEMMA DivMod ==
  ASSUME NEW n \in Int, NEW m \in Nat \ {0}
  PROVE  n = m * (n \div m) + (n % m) /\ n \div m \in Int /\ n % m \in 0..(m - 1)
OBVIOUS

LEMMA RemainderIsUnique ==
  ASSUME NEW m \in Nat \ {0}, NEW q \in Int, NEW p \in Int,
         NEW r \in 0..(m - 1), NEW s \in 0..(m - 1), m * q + r = m * p + s
  PROVE  r = s
<1>1. CASE q > p
  <2>1. m * (q - p) = s - r  OBVIOUS
  <2>2. m * (q - p) >= m     BY <1>1
  <2>. QED BY <2>1, <2>2
<1>2. CASE p > q
  <2>1. m * (p - q) = r - s  OBVIOUS
  <2>2. m * (p - q) >= m     BY <1>2
  <2>. QED BY <2>1, <2>2
<1>3. CASE p = q
  BY <1>3
<1>. QED BY <1>1, <1>2, <1>3

\* Counting on from n.
LEMMA ModSucc ==
  ASSUME NEW n \in Nat, NEW m \in Nat \ {0}
  PROVE  (n + 1) % m = IF (n % m) + 1 < m THEN (n % m) + 1 ELSE 0
<1>1. n = m * (n \div m) + (n % m) /\ n \div m \in Int /\ n % m \in 0..(m - 1)
  BY DivMod
<1>2. n + 1 = m * ((n + 1) \div m) + ((n + 1) % m)
      /\ (n + 1) \div m \in Int /\ (n + 1) % m \in 0..(m - 1)
  BY DivMod
<1>3. CASE (n % m) + 1 < m
  <2>1. (n % m) + 1 \in 0..(m - 1)
    BY <1>1, <1>3
  <2>2. m * (n \div m) + ((n % m) + 1) = m * ((n + 1) \div m) + ((n + 1) % m)
    BY <1>1, <1>2
  <2>3. (n % m) + 1 = (n + 1) % m
    BY <1>1, <1>2, <2>1, <2>2, RemainderIsUnique
  <2>. QED BY <1>3, <2>3
<1>4. CASE ~((n % m) + 1 < m)
  <2>1. (n % m) + 1 = m
    BY <1>1, <1>4
  <2>2. m * ((n \div m) + 1) = m * (n \div m) + m
    BY <1>1
  <2>3. m * ((n \div m) + 1) + 0 = m * ((n + 1) \div m) + ((n + 1) % m)
    BY <1>1, <1>2, <2>1, <2>2
  <2>4. 0 \in 0..(m - 1) /\ (n \div m) + 1 \in Int
    BY <1>1
  <2>5. 0 = (n + 1) % m
    BY <1>2, <2>3, <2>4, RemainderIsUnique
  <2>. QED BY <1>4, <2>5
<1>. QED BY <1>3, <1>4

\* Nothing is left of nothing.
LEMMA ZeroMod == 0 % Size = 0
<1>1. Size \in Nat \ {0}
  BY DatasetAssumption
<1>2. 0 = Size * (0 \div Size) + (0 % Size) /\ 0 \div Size \in Int /\ 0 % Size \in 0..(Size - 1)
  BY <1>1, DivMod
<1>3. Size * 0 + 0 = Size * (0 \div Size) + (0 % Size) /\ 0 \in 0..(Size - 1)
  BY <1>1, <1>2
<1>. QED BY <1>1, <1>2, <1>3, RemainderIsUnique

\* Go's remainder, normalised as At() does, is TLA+'s (dataset.go:209).
LEMMA NormalizeIsMod ==
  ASSUME NEW i \in Int, Size \in Nat \ {0}
  PROVE  Normalize(GoRem(i, Size)) = i % Size
<1>1. CASE i >= 0
  <2>1. i % Size \in 0..(Size - 1)
    BY DivMod
  <2>. QED BY <1>1, <2>1 DEF Normalize, GoRem
<1>2. CASE i < 0
  <2>. DEFINE r == (-i) % Size
              d == (-i) \div Size
  <2>1. -i = Size * d + r /\ d \in Int /\ r \in 0..(Size - 1)
    BY DivMod
  <2>2. i = Size * (i \div Size) + (i % Size) /\ i \div Size \in Int /\ i % Size \in 0..(Size - 1)
    BY DivMod
  <2>3. GoRem(i, Size) = -r
    BY <1>2 DEF GoRem
  <2>. HIDE DEF r, d
  <2>4. CASE r = 0
    <3>1. Size * (-d) + 0 = Size * (i \div Size) + (i % Size)
      <4>1. Size * (-d) = -(Size * d)  BY <2>1
      <4>. QED BY <2>1, <2>2, <2>4, <4>1
    <3>2. -d \in Int /\ 0 \in 0..(Size - 1)
      BY <2>1
    <3>3. 0 = i % Size
      BY <2>2, <3>1, <3>2, RemainderIsUnique
    <3>. QED BY <2>3, <2>4, <3>3 DEF Normalize
  <2>5. CASE r # 0
    <3>1. Size * (-d - 1) + (Size - r) = Size * (i \div Size) + (i % Size)
      <4>1. Size * (-d - 1) = -(Size * d) - Size  BY <2>1
      <4>. QED BY <2>1, <2>2, <4>1
    <3>2. -d - 1 \in Int /\ Size - r \in 0..(Size - 1)
      BY <2>1, <2>5
    <3>3. Size - r = i % Size
      BY <2>2, <3>1, <3>2, RemainderIsUnique
    <3>. QED BY <2>1, <2>3, <2>5, <3>3 DEF Normalize
  <2>. QED BY <2>4, <2>5
<1>. QED BY <1>1, <1>2

\* A shuffle reaches every line.
LEMMA OrderIsOnto ==
  ASSUME NEW o \in Orders, NEW i \in Lines
  PROVE  \E j \in Lines : o[j] = i
<1>. USE DatasetAssumption DEF Lines
<1>1. IsFiniteSet(Lines)
  BY FS_Interval
<1>2. o \in Injection(Lines, Lines)
  BY DEF Injection, IsInjective
<1>3. o \in Surjection(Lines, Lines)
  BY <1>1, <1>2, FS_Injection
<1>. QED BY <1>3 DEF Surjection

-----------------------------------------------------------------------------
(* The inductive invariant.                                                *)

\* Only a parsed file is stored or bound to.
CacheInv ==
  /\ cached = "items" => valid
  /\ \A v \in VUs : pc[v] \in {"bind", "ready"} => valid

\* Who made the cursor of a key has it, and everyone ready has their key's.
CursorInv ==
  /\ \A k \in Keys : cursors[k] # Nobody =>
       key[cursors[k]] = k /\ pc[cursors[k]] = "ready"
  /\ \A v \in VUs :
       /\ pc[v] = "ready" => cursor[v] # Nobody /\ cursor[v] = cursors[key[v]]
       /\ pc[v] # "ready" => cursor[v] = Nobody

\* Only a cursor that is shared has moved.
UnmovedInv == \A v \in VUs : pc[v] # "ready" => count[v] = 0

\* The types CursorInv rests on.
CursorTypes ==
  /\ key \in [VUs -> Keys]
  /\ pc \in [VUs -> {"load", "read", "bind", "ready", "failed"}]
  /\ cursors \in [Keys -> VUs \cup {Nobody}] /\ cursor \in [VUs -> VUs \cup {Nobody}]

\* How far the cursor of a key has come.
Drawn(k) == IF cursors[k] = Nobody THEN 0 ELSE count[cursors[k]]

\* Whole rounds of the corpus, and the start of one.
Rounds(k, q) ==
  \A j \in Lines : served[k][order[k][j]] = IF j < Drawn(k) % Size THEN q + 1 ELSE q

\* Since a reset a key's lines have been served in rounds.
RoundsInv == \A k \in Keys : \E q \in Nat : Rounds(k, q)

\* At() looked where the remainder says.
LookedInv == looked.line # -1 => looked.line = order[looked.key][looked.index % Size]

IInv == TypeOK /\ CacheInv /\ CursorInv /\ UnmovedInv /\ RoundsInv /\ LookedInv

\* Nothing is drawn yet.
LEMMA FreshRounds ==
  ASSUME DatasetAssumption, NEW k \in Keys, Drawn(k) = 0,
         order[k] \in [Lines -> Lines], served[k] = [i \in Lines |-> 0]
  PROVE  Rounds(k, 0)
<1>1. 0 % Size = 0
  BY ZeroMod
<1>. QED BY <1>1 DEF Rounds, Lines, DatasetAssumption

\* The invariant holds at the start.
LEMMA InitInv == Init => IInv
<1>. SUFFICES ASSUME Init  PROVE IInv
  OBVIOUS
<1>. USE DatasetAssumption
<1>1. TypeOK
  BY SMTT(30) DEF Init, TypeOK, Lines
<1>2. CacheInv
  BY DEF Init, CacheInv
<1>3. CursorInv
  BY DEF Init, CursorInv
<1>4. UnmovedInv
  BY DEF Init, UnmovedInv
<1>5. RoundsInv
  <2>. SUFFICES ASSUME NEW k \in Keys  PROVE Rounds(k, 0)
    BY DEF RoundsInv
  <2>1. order[k] \in [Lines -> Lines]
    BY <1>1 DEF TypeOK, Lines
  <2>2. Drawn(k) = 0 /\ served[k] = [i \in Lines |-> 0]
    BY DEF Init, Drawn, Lines
  <2>. QED BY <2>1, <2>2, FreshRounds
<1>6. LookedInv
  BY DEF Init, LookedInv
<1>. QED BY <1>1, <1>2, <1>3, <1>4, <1>5, <1>6 DEF IInv

-----------------------------------------------------------------------------
(* newDataset moves no cursor: it gives a key one that is new.             *)

\* Rounds depend on how far a key's cursor has come and what was served.
LEMMA SameRounds ==
  ASSUME RoundsInv, served' = served, order' = order,
         \A k \in Keys : Drawn(k)' = Drawn(k)
  PROVE  RoundsInv'
BY DEF RoundsInv, Rounds, Lines

\* dsCache.Load.
LEMMA LoadInv ==
  ASSUME IInv, NEW v \in VUs, LoadItems(v)
  PROVE  IInv'
<1>. USE DatasetAssumption DEF IInv, LoadItems, Goto, drawVars
<1>0. CursorTypes /\ count \in [VUs -> Nat]  BY DEF TypeOK, CursorTypes
<1>1. TypeOK'     BY DEF TypeOK, Lines
<1>2. CacheInv'   BY DEF TypeOK, CacheInv
<1>3. CursorInv'  BY <1>0 DEF CursorTypes, CursorInv
<1>4. RoundsInv'  BY SameRounds DEF Drawn
<1>5. LookedInv'  BY DEF LookedInv
<1>6. UnmovedInv' BY <1>0 DEF CursorTypes, UnmovedInv
<1>. QED BY <1>1, <1>2, <1>3, <1>4, <1>5, <1>6

\* Reading, checking and storing the lines.
LEMMA ReadInv ==
  ASSUME IInv, NEW v \in VUs, ReadItems(v)
  PROVE  IInv'
<1>. USE DatasetAssumption DEF IInv, ReadItems, Goto, Caches, drawVars
<1>0. CursorTypes /\ count \in [VUs -> Nat]  BY DEF TypeOK, CursorTypes
<1>1. TypeOK'     BY DEF TypeOK, Lines
<1>2. CacheInv'   BY DEF TypeOK, CacheInv
<1>3. CursorInv'  BY <1>0 DEF CursorTypes, CursorInv
<1>4. RoundsInv'  BY SameRounds DEF Drawn
<1>5. LookedInv'  BY DEF LookedInv
<1>6. UnmovedInv' BY <1>0 DEF CursorTypes, UnmovedInv
<1>. QED BY <1>1, <1>2, <1>3, <1>4, <1>5, <1>6

\* dsCursors.LoadOrStore: a cursor that is stored has not moved.
LEMMA BindInv ==
  ASSUME IInv, NEW v \in VUs, BindCursor(v)
  PROVE  IInv'
<1>. USE DatasetAssumption DEF IInv, BindCursor, Goto, drawVars
<1>0. CursorTypes /\ count \in [VUs -> Nat]  BY DEF TypeOK, CursorTypes
<1>1. TypeOK'     BY DEF TypeOK, Lines, Bound
<1>2. CacheInv'   BY DEF TypeOK, CacheInv
<1>3. CursorInv'  BY <1>0 DEF CursorTypes, CursorInv, Bound
<1>4. RoundsInv'
  <2>1. \A k \in Keys : Drawn(k)' = Drawn(k)
    BY <1>0 DEF Drawn, Bound, CursorTypes, CursorInv, UnmovedInv
  <2>. QED BY <2>1, SameRounds
<1>5. LookedInv'  BY DEF LookedInv
<1>6. UnmovedInv' BY <1>0 DEF CursorTypes, UnmovedInv
<1>. QED BY <1>1, <1>2, <1>3, <1>4, <1>5, <1>6

-----------------------------------------------------------------------------
(* The operations of a Dataset.                                            *)

\* A VU's cursor is its key's, and no other key has it.
LEMMA OwnCursor ==
  ASSUME IInv, NEW v \in VUs, pc[v] = "ready"
  PROVE  /\ key[v] \in Keys /\ cursor[v] \in VUs
         /\ cursors[key[v]] = cursor[v] /\ pc[cursor[v]] = "ready"
         /\ Drawn(key[v]) = count[cursor[v]]
         /\ \A k \in Keys \ {key[v]} : cursors[k] # cursor[v]
<1>1. CursorTypes
  BY DEF IInv, TypeOK, CursorTypes
<1>. QED BY <1>1, DatasetAssumption DEF IInv, CursorTypes, CursorInv, Drawn

\* Drawing the line a key has come to ends at the next one, or at a new round.
LEMMA DrawRounds ==
  ASSUME IInv, NEW v \in VUs, Draw(v), NEW k \in Keys, k = key[v]
  PROVE  \E q \in Nat : Rounds(k, q)'
<1>. DEFINE c == cursor[v]
            n == count[c]
            r == n % Size
<1>1. pc[v] = "ready" /\ UNCHANGED <<key, order, cursors, cursor>>
      /\ count' = [count EXCEPT ![c] = @ + 1]
      /\ served' = [served EXCEPT ![k][order[k][r]] = @ + 1]
  BY DEF Draw, Line, loadVars
<1>2. c \in VUs /\ cursors[k] = c /\ Drawn(k) = n
  BY <1>1, OwnCursor
<1>3. n \in Nat /\ order[k] \in Orders /\ served[k] \in [Lines -> Nat] /\ served \in [Keys -> [Lines -> Nat]]
  BY <1>2 DEF IInv, TypeOK
<1>4. order[k] \in [Lines -> Lines] /\ \A i, j \in Lines : order[k][i] = order[k][j] => i = j
  BY <1>3, DatasetAssumption DEF Lines
<1>5. r \in Lines /\ Size \in Nat \ {0}
  <2>1. Size \in Nat \ {0} /\ n \in Int
    BY <1>3, DatasetAssumption
  <2>. QED BY <2>1, DivMod DEF Lines
<1>6. Drawn(k)' = n + 1
  <2>1. count'[c] = n + 1
    BY <1>1, <1>2, <1>3 DEF IInv, TypeOK
  <2>. QED BY <1>1, <1>2, <2>1, DatasetAssumption DEF Drawn
<1>7. PICK q \in Nat : \A j \in Lines : served[k][order[k][j]] = IF j < r THEN q + 1 ELSE q
  BY <1>2 DEF IInv, RoundsInv, Rounds
<1>8. \A j \in Lines : served'[k][order[k][j]] = IF j <= r THEN q + 1 ELSE q
  <2>. SUFFICES ASSUME NEW j \in Lines
                PROVE  served'[k][order[k][j]] = IF j <= r THEN q + 1 ELSE q
    OBVIOUS
  <2>. HIDE DEF r
  <2>1. CASE j = r
    <3>1. served'[k][order[k][r]] = served[k][order[k][r]] + 1
      BY <1>1, <1>2, <1>3, <1>4, <1>5
    <3>2. served[k][order[k][r]] = q
      BY <1>5, <1>7 DEF Lines
    <3>. QED BY <2>1, <3>1, <3>2, <1>5 DEF Lines
  <2>2. CASE j # r
    <3>1. served'[k][order[k][j]] = served[k][order[k][j]]
      BY <1>1, <1>2, <1>3, <1>4, <1>5, <2>2
    <3>. QED BY <1>5, <1>7, <2>2, <3>1 DEF Lines
  <2>. QED BY <2>1, <2>2
<1>9. (n + 1) % Size = IF r + 1 < Size THEN r + 1 ELSE 0
  BY <1>3, <1>5, ModSucc
<1>. HIDE DEF r, n
<1>10. CASE r + 1 < Size
  <2>1. \A j \in Lines : served'[k][order[k][j]] = IF j < (n + 1) % Size THEN q + 1 ELSE q
    BY <1>5, <1>8, <1>9, <1>10 DEF Lines
  <2>. QED BY <1>1, <1>6, <2>1 DEF Rounds
<1>11. CASE ~(r + 1 < Size)
  <2>1. \A j \in Lines :
          served'[k][order[k][j]] = IF j < (n + 1) % Size THEN (q + 1) + 1 ELSE q + 1
    BY <1>5, <1>8, <1>9, <1>11 DEF Lines
  <2>2. q + 1 \in Nat
    OBVIOUS
  <2>. QED BY <1>1, <1>6, <2>1, <2>2 DEF Rounds
<1>. QED BY <1>10, <1>11

\* A key whose cursor stays where it is keeps its rounds.
LEMMA OtherRounds ==
  ASSUME RoundsInv, NEW k \in Keys, order' = order,
         served'[k] = served[k], Drawn(k)' = Drawn(k)
  PROVE  \E q \in Nat : Rounds(k, q)'
BY DEF RoundsInv, Rounds, Lines

\* Next.
LEMMA DrawInv ==
  ASSUME IInv, NEW v \in VUs, Draw(v)
  PROVE  IInv'
<1>. USE DatasetAssumption DEF IInv
<1>0. pc[v] = "ready" /\ UNCHANGED <<loadVars, looked>>
      /\ count' = [count EXCEPT ![cursor[v]] = @ + 1]
      /\ served' = [served EXCEPT ![key[v]][Line(key[v], count[cursor[v]])] = @ + 1]
      /\ draws < MaxDraws /\ draws' = draws + 1
  BY DEF Draw
<1>1. cursor[v] \in VUs /\ pc[cursor[v]] = "ready" /\ key[v] \in Keys
      /\ cursors[key[v]] = cursor[v] /\ \A k \in Keys \ {key[v]} : cursors[k] # cursor[v]
  BY <1>0, OwnCursor
<1>2. count \in [VUs -> Nat] /\ served \in [Keys -> [Lines -> Nat]] /\ draws \in 0..MaxDraws
  BY DEF TypeOK
<1>3. TypeOK'
  <2>. DEFINE n == count[cursor[v]]
              i == Line(key[v], n)
  <2>0. n \in Nat
    BY <1>1, <1>2
  <2>1. count' \in [VUs -> Nat]
    <3>1. n + 1 \in Nat
      BY <2>0
    <3>. QED BY <1>0, <1>2, <3>1
  <2>2. served' \in [Keys -> [Lines -> Nat]]
    <3>1. n % Size \in Lines
      <4>. HIDE DEF n
      <4>1. n \in Int /\ Size \in Nat \ {0}
        BY <2>0
      <4>. QED BY <4>1, DivMod DEF Lines
    <3>2. order[key[v]] \in [Lines -> Lines]
      BY <1>1 DEF TypeOK, Lines
    <3>3. i \in Lines
      BY <3>1, <3>2 DEF Line
    <3>. HIDE DEF i
    <3>4. served[key[v]] \in [Lines -> Nat] /\ served[key[v]][i] + 1 \in Nat
      BY <1>1, <1>2, <3>3
    <3>5. [served[key[v]] EXCEPT ![i] = @ + 1] \in [Lines -> Nat]
      BY <3>4
    <3>. QED BY <1>0, <1>2, <3>5 DEF i
  <2>3. draws' \in 0..MaxDraws
    BY <1>0, <1>2
  <2>. QED BY <1>0, <2>1, <2>2, <2>3 DEF TypeOK, loadVars, Lines
<1>4. CacheInv' /\ CursorInv' /\ LookedInv'
  BY <1>0 DEF CacheInv, CursorInv, LookedInv, loadVars
<1>5. UnmovedInv'
  <2>1. \A u \in VUs : pc[u] # "ready" => u # cursor[v]
    BY <1>1
  <2>. QED BY <1>0, <1>2, <2>1 DEF UnmovedInv, loadVars
<1>6. RoundsInv'
  <2>. SUFFICES ASSUME NEW k \in Keys  PROVE \E q \in Nat : Rounds(k, q)'
    BY DEF RoundsInv
  <2>1. CASE k = key[v]
    BY <2>1, DrawRounds
  <2>2. CASE k # key[v]
    <3>1. served'[k] = served[k]
      BY <1>0, <1>1, <1>2, <2>2
    <3>2. Drawn(k)' = Drawn(k)
      BY <1>0, <1>1, <1>2, <2>2 DEF Drawn, loadVars, TypeOK
    <3>. QED BY <1>0, <3>1, <3>2, OtherRounds DEF loadVars
  <2>. QED BY <2>1, <2>2
<1>. QED BY <1>3, <1>4, <1>5, <1>6

\* At.
LEMMA AtInv ==
  ASSUME IInv, NEW v \in VUs, At(v)
  PROVE  IInv'
<1>. USE DatasetAssumption DEF IInv
<1>0. pc[v] = "ready" /\ UNCHANGED <<loadVars, count, served, draws>>
  BY DEF At
<1>1. PICK i \in Indexes :
        looked' = [key |-> key[v], index |-> i,
                   line |-> order[key[v]][Normalize(GoRem(i, Size))]]
  BY DEF At
<1>2. key[v] \in Keys /\ order[key[v]] \in [Lines -> Lines] /\ i \in Int /\ Size \in Nat \ {0}
  BY <1>0, OwnCursor DEF TypeOK, Lines
<1>3. Normalize(GoRem(i, Size)) = i % Size
  BY <1>2, NormalizeIsMod
<1>4. i % Size \in Lines
  BY <1>2, DivMod DEF Lines
<1>5. looked' = [key |-> key[v], index |-> i, line |-> order[key[v]][i % Size]]
  BY <1>1, <1>3
<1>6. looked' \in [key: Keys, index: Int, line: Lines \cup {-1}]
  BY <1>2, <1>4, <1>5
<1>7. TypeOK'
  BY <1>0, <1>6 DEF TypeOK, loadVars, Lines
<1>8. LookedInv'
  <2>1. order' = order
    BY <1>0 DEF loadVars
  <2>. QED BY <1>5, <2>1 DEF LookedInv
<1>9. CacheInv' /\ CursorInv' /\ UnmovedInv'
  BY <1>0 DEF CacheInv, CursorInv, UnmovedInv, loadVars
<1>10. RoundsInv'
  <2>1. \A k \in Keys : Drawn(k)' = Drawn(k)
    BY <1>0 DEF Drawn, loadVars
  <2>. QED BY <1>0, <2>1, SameRounds DEF loadVars
<1>. QED BY <1>7, <1>8, <1>9, <1>10

\* Reset: the key starts a round, whoever holds its cursor.
LEMMA ResetInv ==
  ASSUME IInv, NEW v \in VUs, Reset(v)
  PROVE  IInv'
<1>. USE DatasetAssumption DEF IInv
<1>0. pc[v] = "ready" /\ UNCHANGED <<loadVars, draws, looked>>
      /\ count' = [count EXCEPT ![cursor[v]] = 0]
      /\ served' = [served EXCEPT ![key[v]] = [i \in Lines |-> 0]]
  BY DEF Reset, RewindsTo, Lines
<1>1. cursor[v] \in VUs /\ pc[cursor[v]] = "ready" /\ key[v] \in Keys
      /\ cursors[key[v]] = cursor[v] /\ \A k \in Keys \ {key[v]} : cursors[k] # cursor[v]
  BY <1>0, OwnCursor
<1>2. count \in [VUs -> Nat] /\ served \in [Keys -> [Lines -> Nat]]
      /\ order \in [Keys -> Orders]
  BY DEF TypeOK
<1>3. TypeOK'
  <2>1. count' \in [VUs -> Nat]
    BY <1>0, <1>2
  <2>2. served' \in [Keys -> [Lines -> Nat]]
    BY <1>0, <1>1, <1>2
  <2>. QED BY <1>0, <2>1, <2>2 DEF TypeOK, loadVars, Lines
<1>4. CacheInv' /\ CursorInv' /\ LookedInv'
  BY <1>0 DEF CacheInv, CursorInv, LookedInv, loadVars
<1>5. UnmovedInv'
  <2>1. \A u \in VUs : pc[u] # "ready" => u # cursor[v]
    BY <1>1
  <2>. QED BY <1>0, <1>2, <2>1 DEF UnmovedInv, loadVars
<1>6. RoundsInv'
  <2>. SUFFICES ASSUME NEW k \in Keys  PROVE \E q \in Nat : Rounds(k, q)'
    BY DEF RoundsInv
  <2>0. UNCHANGED <<order, cursors>>
    BY <1>0 DEF loadVars
  <2>1. CASE k = key[v]
    <3>1. served'[k] = [i \in Lines |-> 0]
      BY <1>0, <1>1, <1>2, <2>1
    <3>2. Drawn(k)' = 0
      <4>1. count'[cursor[v]] = 0
        BY <1>0, <1>1, <1>2
      <4>. QED BY <1>1, <2>0, <2>1, <4>1 DEF Drawn
    <3>3. 0 % Size = 0
      BY ZeroMod
    <3>4. order[k] \in [Lines -> Lines]
      BY <1>2 DEF Lines
    <3>5. \A j \in Lines : served'[k][order[k][j]] = IF j < 0 % Size THEN 0 + 1 ELSE 0
      BY <3>1, <3>3, <3>4 DEF Lines
    <3>. QED BY <2>0, <3>2, <3>5 DEF Rounds, Lines
  <2>2. CASE k # key[v]
    <3>1. served'[k] = served[k]
      BY <1>0, <1>1, <1>2, <2>2
    <3>2. Drawn(k)' = Drawn(k)
      BY <1>0, <1>1, <1>2, <2>0, <2>2 DEF Drawn, TypeOK
    <3>. QED BY <2>0, <3>1, <3>2, OtherRounds
  <2>. QED BY <2>1, <2>2
<1>. QED BY <1>3, <1>4, <1>5, <1>6

-----------------------------------------------------------------------------

\* ... and every step keeps it.
LEMMA NextInv == IInv /\ [Next]_vars => IInv'
<1>. SUFFICES ASSUME IInv, [Next]_vars  PROVE IInv'
  OBVIOUS
<1>1. CASE UNCHANGED vars \/ Failed
  <2>1. UNCHANGED vars
    BY <1>1 DEF Failed
  <2>2. UNCHANGED <<valid, cached, key, order, pc, cursors, cursor, count, served, draws, looked>>
    BY <2>1 DEF vars, loadVars, drawVars
  <2>. QED BY <2>2 DEF IInv, TypeOK, CacheInv, CursorInv, UnmovedInv,
                       RoundsInv, Rounds, Drawn, LookedInv, Lines
<1>. QED BY <1>1, LoadInv, ReadInv, BindInv, DrawInv, AtInv, ResetInv DEF Next

\* The inductive invariant of the datasets.
THEOREM Invariance == Spec => []IInv
BY InitInv, NextInv, PTL DEF Spec

\* Every variable keeps its type; in particular no cursor counts below zero.
THEOREM TypeCorrect == Spec => []TypeOK
<1>1. IInv => TypeOK
  BY DEF IInv
<1>. QED BY Invariance, <1>1, PTL

\* A file that does not parse is never served from the cache, however the
\* constructions race (newDataset).
THEOREM CacheIsValid == Spec => []OnlyValidCached
<1>1. IInv => OnlyValidCached
  BY DEF IInv, CacheInv, OnlyValidCached
<1>. QED BY Invariance, <1>1, PTL

\* Rounds, seen from the lines.
LEMMA RoundsAreEven == IInv => DrawnEvenly
<1>. SUFFICES ASSUME IInv, NEW k \in Keys, NEW i \in Lines, NEW j \in Lines
              PROVE  served[k][i] <= served[k][j] + 1
  BY DEF DrawnEvenly
<1>1. order[k] \in Orders
  BY DEF IInv, TypeOK
<1>2. PICK a \in Lines : order[k][a] = i
  BY <1>1, OrderIsOnto
<1>3. PICK b \in Lines : order[k][b] = j
  BY <1>1, OrderIsOnto
<1>4. PICK q \in Nat : Rounds(k, q)
  BY DEF IInv, RoundsInv
<1>5. served[k][i] \in {q, q + 1} /\ served[k][j] \in {q, q + 1}
  BY <1>2, <1>3, <1>4 DEF Rounds
<1>. QED BY <1>5

\* Rounds, seen from the order.
LEMMA RoundsAreOrdered == IInv => DrawnInOrder
<1>. SUFFICES ASSUME IInv, NEW k \in Keys, NEW i \in Lines, NEW j \in Lines, i < j
              PROVE  served[k][order[k][j]] <= served[k][order[k][i]]
  BY DEF DrawnInOrder
<1>1. PICK q \in Nat : Rounds(k, q)
  BY DEF IInv, RoundsInv
<1>2. Size \in Nat \ {0} /\ Drawn(k) \in Nat
  BY DatasetAssumption DEF IInv, TypeOK, Drawn
<1>3. Drawn(k) % Size \in 0..(Size - 1)
  BY <1>2, DivMod, SMTT(30)
<1>. QED BY <1>1, <1>3 DEF Rounds, Lines

\* However many VUs draw and reset, no line is drawn twice while another of its
\* corpus waits for its first time (Next, dataset.go:184).
THEOREM DrawsAreEven == Spec => []DrawnEvenly
BY Invariance, RoundsAreEven, PTL

\* ... and the draws follow the order of the seed (Next, Reset).
THEOREM DrawsFollowTheOrder == Spec => []DrawnInOrder
BY Invariance, RoundsAreOrdered, PTL

\* At(i) is the item i modulo the size, for every integer and every size.
THEOREM AtCountsModulo == Spec => []AtIsPeriodic
<1>1. IInv => AtIsPeriodic
  BY DEF IInv, LookedInv, AtIsPeriodic
<1>. QED BY Invariance, <1>1, PTL

-----------------------------------------------------------------------------

\* The initial states map to initial states.
LEMMA InitOnce == Init => Once!Init
BY DEF Init, Once!Init

\* Every step maps to a step of SharedOnce or to a stutter.
LEMMA NextOnce == IInv /\ [Next]_vars => [Once!Next]_(Once!vars)
<1>. SUFFICES ASSUME IInv, [Next]_vars  PROVE [Once!Next]_(Once!vars)
  OBVIOUS
<1>. USE DEF Once!vars, Once!Next
<1>1. ASSUME NEW v \in VUs, BindCursor(v)  PROVE [Once!Next]_(Once!vars)
  <2>1. cursor[v] = Nobody /\ cursors \in [Keys -> VUs \cup {Nobody}] /\ key[v] \in Keys
    BY <1>1 DEF BindCursor, IInv, TypeOK, CursorInv
  <2>2. cursors' = [cursors EXCEPT ![key[v]] = Bound(v)] /\ key' = key
        /\ cursor' = [cursor EXCEPT ![v] = Bound(v)]
    BY <1>1 DEF BindCursor
  <2>3. CASE cursors[key[v]] = Nobody
    <3>1. Bound(v) = v
      BY <2>3 DEF Bound
    <3>2. Once!OfferAndGet(v)
      BY <2>1, <2>2, <2>3, <3>1 DEF Once!OfferAndGet
    <3>. QED BY <3>2
  <2>4. CASE cursors[key[v]] # Nobody
    <3>1. Bound(v) = cursors[key[v]]
      BY <2>4 DEF Bound
    <3>2. cursors' = cursors
      BY <2>1, <2>2, <3>1
    <3>3. Once!Get(v)
      BY <2>1, <2>2, <2>4, <3>1, <3>2 DEF Once!Get
    <3>. QED BY <3>3
  <2>. QED BY <2>3, <2>4
<1>2. ASSUME NEW v \in VUs,
             LoadItems(v) \/ ReadItems(v) \/ Draw(v) \/ At(v) \/ Reset(v)
      PROVE  UNCHANGED <<key, cursors, cursor>>
  BY <1>2 DEF LoadItems, ReadItems, Draw, At, Reset, loadVars
<1>3. CASE UNCHANGED vars \/ Failed
  BY <1>3 DEF vars, loadVars, Failed
<1>. QED BY <1>1, <1>2, <1>3 DEF Next

\* The cursors implement SharedOnce: the first cursor stored for a key stays and
\* every VU is given that one, although each constructor makes its own
\* (dsCursors.LoadOrStore).
THEOREM CursorsImplementOnce == Spec => SharesOneCursor
<1>. USE DEF SharesOneCursor, Once!Spec
<1>. QED BY Invariance, InitOnce, NextOnce, PTL DEF Spec

==============================================================================
