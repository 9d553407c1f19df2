----------------------------- MODULE SharedOnce -----------------------------
(***************************************************************************)
(* What a process-wide sync.Map used through LoadOrStore promises: the     *)
(* first value offered under a key stays, and everyone who asks for the    *)
(* key, however their calls interleave, gets that value.  Exporters and    *)
(* Dataset implement this.                                                 *)
(***************************************************************************)
CONSTANTS
  Users,   \* who asks; a user's offer is named after the user
  Nobody   \* no value

VARIABLES
  key,     \* key[u]: the key u asks for
  owner,   \* owner[k]: whose value is stored under k
  got      \* got[u]: the value u was given

vars == <<key, owner, got>>

Init ==
  /\ key \in [Users -> DOMAIN owner]
  /\ owner = [k \in DOMAIN owner |-> Nobody]
  /\ got = [u \in Users |-> Nobody]

Offer(u) ==
  /\ owner[key[u]] = Nobody
  /\ owner' = [owner EXCEPT ![key[u]] = u]
  /\ UNCHANGED <<key, got>>

Get(u) ==
  /\ got[u] = Nobody /\ owner[key[u]] # Nobody
  /\ got' = [got EXCEPT ![u] = owner[key[u]]]
  /\ UNCHANGED <<key, owner>>

OfferAndGet(u) ==
  /\ owner[key[u]] = Nobody /\ got[u] = Nobody
  /\ owner' = [owner EXCEPT ![key[u]] = u]
  /\ got' = [got EXCEPT ![u] = u]
  /\ UNCHANGED key

Next == \E u \in Users : Offer(u) \/ Get(u) \/ OfferAndGet(u)

Spec == Init /\ [][Next]_vars
=============================================================================
