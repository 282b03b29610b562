---------------------------- MODULE TrustedSites ----------------------------
(***************************************************************************)
(* What a reader is promised of the sites that are fetched (SPEC.md        *)
(* section 5): trust on first use, and no way back.  A copy is replaced as *)
(* a whole, by a version that the pin admits; a visit, in one step, shows  *)
(* and pins the very version that is on the disk.  Nothing here says that a*)
(* fetch takes many steps, two files and a network, or that it may die on  *)
(* the way.                                                                *)
(***************************************************************************)
EXTENDS Integers

CONSTANTS
  Uris,     \* the names
  Records,  \* the naming records [uri, public_key, timestamp, ...]
  None      \* no pin, no copy

VARIABLES
  pin,    \* pin[u]: key and date that the next version must agree with
  shown,  \* shown[u]: key and date of what the user was shown last, or None
  copy    \* copy[u]: the record of the version on the disk, or None

KeyAndDate(r) ==
  [public_key |-> r.public_key, record_timestamp |-> r.timestamp]

(* The first key of a name is taken; then only its records, of the date    *)
(* that is pinned or a later one.                                          *)
Admits(u, r) ==
  /\ r.uri = u
  /\ pin[u] # None =>
       /\ r.public_key = pin[u].public_key
       /\ r.timestamp >= pin[u].record_timestamp

Install(u, r) ==
  /\ Admits(u, r)
  /\ copy' = [copy EXCEPT ![u] = r]
  /\ UNCHANGED <<pin, shown>>

Show(u) ==
  /\ copy[u] # None
  /\ Admits(u, copy[u])
  /\ pin' = [pin EXCEPT ![u] = KeyAndDate(copy[u])]
  /\ shown' = [shown EXCEPT ![u] = KeyAndDate(copy[u])]
  /\ UNCHANGED copy

Discard(u) ==
  /\ copy' = [copy EXCEPT ![u] = None]
  /\ UNCHANGED <<pin, shown>>

Unpin(u) ==
  /\ pin' = [pin EXCEPT ![u] = None]
  /\ shown' = [shown EXCEPT ![u] = None]
  /\ UNCHANGED copy

Init ==
  /\ pin = [u \in Uris |-> None]
  /\ shown = [u \in Uris |-> None]
  /\ copy = [u \in Uris |-> None]

Next ==
  \E u \in Uris :
    \/ \E r \in Records : Install(u, r)
    \/ Show(u)
    \/ Discard(u)
    \/ Unpin(u)

Spec == Init /\ [][Next]_<<pin, shown, copy>>
=============================================================================
