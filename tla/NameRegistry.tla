---------------------------- MODULE NameRegistry ----------------------------
(***************************************************************************)
(* What the naming service promises about a name: it stays with its first  *)
(* key, and the timestamp of its record only increases (SPEC.md 4.2).      *)
(* Nothing here says where the records are kept; several names may move in *)
(* one step, as they do when one write of a file carries several updates.  *)
(***************************************************************************)
EXTENDS Integers

CONSTANTS
  Uris,        \* the names
  NameRecords, \* records [uri, public_key, timestamp]
  None         \* a name nobody holds

VARIABLE bound \* bound[u]: the record of name u, or None

(* r may come after `held`: it is the same record, or a strictly newer one *)
(* of the same key, or the first.                                          *)
Succeeds(r, held) ==
  \/ r = held
  \/ held = None
  \/ /\ r # None
     /\ r.public_key = held.public_key
     /\ r.timestamp > held.timestamp

Init == bound = [u \in Uris |-> None]

Bind ==
  /\ bound' \in [Uris -> NameRecords \cup {None}]
  /\ \A u \in Uris : Succeeds(bound'[u], bound[u])

Spec == Init /\ [][Bind]_bound
=============================================================================
