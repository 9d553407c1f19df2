------------------------------ MODULE Dataset -------------------------------
(***************************************************************************)
(* llm.Dataset (dataset.go): every VU constructs its own Dataset in its    *)
(* init context, over one parsed corpus per file (dsCache) and one cursor  *)
(* per (path, seed, shuffle) (dsCursors), then draws from it while others  *)
(* draw, look at an index or reset.                                        *)
(*                                                                         *)
(* The corpus is one file.  A request is its line number, from 0 as in the *)
(* code; a cursor is named after the VU that made it.                      *)
(***************************************************************************)
EXTENDS Integers

CONSTANTS
  VUs,
  Keys,      \* the (seed, shuffle) pairs in use
  Size,      \* items in the corpus
  Orders,    \* the permutations a key's seed may give
  Indexes,   \* arguments of At()
  MaxDraws,  \* bound: calls of Next()
  Nobody     \* no cursor

ASSUME DatasetAssumption ==
  /\ Keys # {} /\ Size \in Nat \ {0} /\ MaxDraws \in Nat
  /\ Orders \subseteq [0..(Size - 1) -> 0..(Size - 1)]
  /\ \A o \in Orders : \A i, j \in 0..(Size - 1) : o[i] = o[j] => i = j
  /\ Indexes \subseteq Int
  /\ Nobody \notin VUs

VARIABLES
  valid,    \* whether the file parses
  cached,   \* dsCache: "none", or what is stored under the path
  key,      \* key[v]: the options of v's Dataset
  order,    \* order[k]: d.order, which the seed determines
  pc,       \* pc[v]: where v is in newDataset
  cursors,  \* dsCursors
  cursor,   \* cursor[v]: d.cursor
  count,    \* count[u]: the value of the cursor u made
  served,   \* auxiliary: served[k][i], draws of line i under k since a Reset
  draws,    \* calls of Next() so far (only to bound the model)
  looked    \* auxiliary: the last At(i): the key, i and what it returned

loadVars == <<valid, cached, key, order, pc, cursors, cursor>>
drawVars == <<count, served, draws, looked>>
vars == <<loadVars, drawVars>>

Goto(v, step) == pc' = [pc EXCEPT ![v] = step]

-----------------------------------------------------------------------------
(* newDataset.                                                             *)

\* dsCache.Load(abs)
LoadItems(v) ==
  /\ pc[v] = "load"
  /\ Goto(v, IF cached = "none" THEN "read" ELSE "bind")
  /\ UNCHANGED <<valid, cached, key, order, cursors, cursor, drawVars>>

\* Mutant: stored before the lines are checked.
CachesUnread == "items"

\* dsCache.Store(abs, &out) comes after the last error return.
Caches == IF valid THEN "items" ELSE cached

\* Read, check every line, store.  Two VUs may both be here.
ReadItems(v) ==
  /\ pc[v] = "read"
  /\ cached' = Caches
  /\ Goto(v, IF valid THEN "bind" ELSE "failed")
  /\ UNCHANGED <<valid, key, order, cursors, cursor, drawVars>>

\* Mutant: a cursor per instance, as before the cursors were shared.
BoundOwn(v) == v

\* dsCursors.LoadOrStore(key, new(atomic.Uint64))
Bound(v) == IF cursors[key[v]] = Nobody THEN v ELSE cursors[key[v]]

BindCursor(v) ==
  /\ pc[v] = "bind"
  /\ cursors' = [cursors EXCEPT ![key[v]] = Bound(v)]
  /\ cursor' = [cursor EXCEPT ![v] = Bound(v)]
  /\ Goto(v, "ready")
  /\ UNCHANGED <<valid, cached, key, order, drawVars>>

-----------------------------------------------------------------------------
(* Next, At and Reset.                                                     *)

\* d.items[d.order[n % sz]]
Line(k, n) == order[k][n % Size]

\* Next: cursor.Add(1) - 1, the only access it shares, and the item there.  The
\* cursor's 2^64 is beyond MaxDraws.
Draw(v) ==
  /\ pc[v] = "ready" /\ draws < MaxDraws
  /\ LET c == cursor[v] IN
       /\ count' = [count EXCEPT ![c] = @ + 1]
       /\ served' = [served EXCEPT ![key[v]][Line(key[v], count[c])] = @ + 1]
  /\ draws' = draws + 1
  /\ UNCHANGED <<loadVars, looked>>

\* Go's %, which takes the sign of the dividend.
GoRem(a, b) == IF a >= 0 THEN a % b ELSE -((-a) % b)

\* Mutant: a negative index mirrored.
NormalizeMirrored(r) == IF r < 0 THEN -r ELSE r

\* `if idx < 0 { idx += n }`
Normalize(r) == IF r < 0 THEN r + Size ELSE r

At(v) ==
  /\ pc[v] = "ready"
  /\ \E i \in Indexes :
       looked' = [key |-> key[v], index |-> i, line |-> order[key[v]][Normalize(GoRem(i, Size))]]
  /\ UNCHANGED <<loadVars, count, served, draws>>

\* Mutants: the cursor counts from one; or from before the first item.
RewindsToOne == 1
RewindsBefore == -1

\* d.cursor.Store(0)
RewindsTo == 0

Reset(v) ==
  /\ pc[v] = "ready"
  /\ count' = [count EXCEPT ![cursor[v]] = RewindsTo]
  /\ served' = [served EXCEPT ![key[v]] = [i \in 0..(Size - 1) |-> 0]]
  /\ UNCHANGED <<loadVars, draws, looked>>

-----------------------------------------------------------------------------

Init ==
  /\ valid \in BOOLEAN /\ cached = "none"
  /\ key \in [VUs -> Keys]
  /\ order \in [Keys -> Orders]
  /\ pc = [v \in VUs |-> "load"]
  /\ cursors = [k \in Keys |-> Nobody]
  /\ cursor = [v \in VUs |-> Nobody]
  /\ count = [v \in VUs |-> 0]
  /\ served = [k \in Keys |-> [i \in 0..(Size - 1) |-> 0]]
  /\ draws = 0
  /\ looked = [key |-> CHOOSE k \in Keys : TRUE, index |-> 0, line |-> -1]

\* llm.Dataset throws in the init context, and the test does not start.
Failed == (\A v \in VUs : pc[v] = "failed") /\ UNCHANGED vars

Next ==
  \/ \E v \in VUs :
       \/ LoadItems(v) \/ ReadItems(v) \/ BindCursor(v)
       \/ Draw(v) \/ At(v) \/ Reset(v)
  \/ Failed

Spec == Init /\ [][Next]_vars

-----------------------------------------------------------------------------

Lines == 0..(Size - 1)

TypeOK ==
  /\ valid \in BOOLEAN /\ cached \in {"none", "items"}
  /\ key \in [VUs -> Keys] /\ order \in [Keys -> Orders]
  /\ pc \in [VUs -> {"load", "read", "bind", "ready", "failed"}]
  /\ cursors \in [Keys -> VUs \cup {Nobody}] /\ cursor \in [VUs -> VUs \cup {Nobody}]
  /\ count \in [VUs -> Nat]
  /\ served \in [Keys -> [Lines -> Nat]]
  /\ draws \in 0..MaxDraws
  /\ looked \in [key: Keys, index: Int, line: Lines \cup {-1}]

\* "VUs in one process draw from one sequence, so no two of them send the same
\* prompt until the corpus wraps" (dataset.go:184): since the last Reset, no
\* line has been drawn twice while another waited for its first time, whichever
\* VUs drew and however their constructions raced.
DrawnEvenly ==
  \A k \in Keys : \A i, j \in Lines : served[k][i] <= served[k][j] + 1

\* ... and the draws follow the order of the seed from its first item, also
\* after a Reset by another VU: what has been drawn is a prefix of the rounds.
DrawnInOrder ==
  \A k \in Keys : \A i, j \in Lines :
    i < j => served[k][order[k][j]] <= served[k][order[k][i]]

\* At(i) counts as Next() does and the same way from the end: At(i) and
\* At(i + size) are one item for every i, negative too (dataset.go:201).
AtIsPeriodic ==
  looked.line # -1 => looked.line = order[looked.key][looked.index % Size]

\* A file that does not parse is never served to a later VU from the cache.
OnlyValidCached == cached = "items" \/ (\E v \in VUs : pc[v] \in {"bind", "ready"}) => valid

\* Dataset implements SharedOnce: one cursor per key.
Once == INSTANCE SharedOnce WITH Users <- VUs, owner <- cursors, got <- cursor
SharesOneCursor == Once!Spec

=============================================================================
