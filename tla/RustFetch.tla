----------------------------- MODULE RustFetch -----------------------------
(***************************************************************************)
(* fetch_site of the Rust client (rust/mdp2p-node/src/fetch.rs) on the same*)
(* data directory and pinstore as the Python clients of FetchSite: its     *)
(* store.rs is "layout-compatible with the Python peer" and its pinstore.rs*)
(* "file-compatible".  A user may run either program, or both at once.     *)
(*                                                                         *)
(* The Rust client compares the pin before it looks for providers, does not*)
(* verify the directory after it swapped it in, and records a visit with   *)
(* one operation where Python has two: what that operation writes depends  *)
(* on the pin it finds then, not on the status found before the download.  *)
(* The download itself, with its parallel attempts, is module RustPeer.    *)
(***************************************************************************)
EXTENDS FetchSite

CONSTANTS
  RustClients,   \* the clients that are mdp2p-node; the others are Python
  OneAtATime     \* does the user wait for one client before the next?

ASSUME RustAssumption ==
  /\ RustClients \subseteq Clients
  /\ OneAtATime \in BOOLEAN

(* Definitions marked BROKEN are faulty variants of the definition that    *)
(* follows them; no action uses one.                                       *)

(* verify_name_record with max_drift None: no clock is read. *)
check_resolved_record(u, r, signature) ==
  /\ verify_stored_name_record(r, signature)
  /\ r.uri = u

\* mdp2p_core::check_pin, with the entry that PinStore::check read
PinStatus(entry, public_key, timestamp) ==
  IF entry = None THEN "UNKNOWN"
  ELSE IF entry.public_key # public_key THEN "MISMATCH"
  ELSE IF timestamp < entry.record_timestamp THEN "ROLLBACK"
  ELSE "MATCH"

(* BROKEN: the hashes of the files are not compared. *)
check_bundle_any_content(bundle, u, r) ==
  /\ verify_manifest(bundle.manifest, bundle.signature, r.public_key)
  /\ bundle.manifest.uri = u
  /\ bundle.manifest = r.manifest_ref
  /\ ~ bundle.expired

check_downloaded_bundle(bundle, u, r) ==
  /\ verify_manifest(bundle.manifest, bundle.signature, r.public_key)
  /\ bundle.manifest.uri = u
  /\ bundle.manifest = r.manifest_ref
  /\ ~ bundle.expired
  /\ bundle.files = bundle.manifest.files

(* BROKEN: a pin that exists is left as it is. *)
record_visit_once(file, u, r) ==
  IF file[u] = None
  THEN [file EXCEPT ![u] = [public_key |-> r.public_key,
                            record_timestamp |-> r.timestamp]]
  ELSE file

(* An entry keeps its key, whatever key the visit had, and its mark rises  *)
(* to the visit's date; a name without an entry is pinned.                 *)
record_visit(file, u, r) ==
  IF file[u] = None
  THEN [file EXCEPT ![u] = [public_key |-> r.public_key,
                            record_timestamp |-> r.timestamp]]
  ELSE [file EXCEPT ![u].record_timestamp =
          IF r.timestamp > @ THEN r.timestamp ELSE @]
-----------------------------------------------------------------------------
(* The naming server answers; record and pin are checked at once, before   *)
(* the next await.  Anything refused leaves fetch_site with an error.      *)
ResolveAndCheck(c) ==
  /\ pc[c] = "idle"
  /\ \E u \in Uris, r \in Records, signature \in Authors \cup {Nobody} :
       /\ check_resolved_record(u, r, signature)
       /\ PinStatus(pins[u], r.public_key, r.timestamp)
            \in {"UNKNOWN", "MATCH"}
       /\ uri' = Set(uri, c, u)
       /\ record' = Set(record, c, r)
       /\ status' = Set(status, c,
                        PinStatus(pins[u], r.public_key, r.timestamp))
  /\ pc' = Set(pc, c, "downloading")
  /\ UNCHANGED <<pins, site, staged, backup, snapshot, visited, kept>>

\* A seeder's bundle is accepted; write_site fills the staging directory.
AcceptAndStage(c) ==
  /\ pc[c] = "downloading"
  /\ \E bundle \in Bundles :
       /\ check_downloaded_bundle(bundle, uri[c], record[c])
       /\ staged' = Set(staged, c, bundle)
  /\ pc' = Set(pc, c, "staged")
  /\ UNCHANGED <<pins, site, uri, record, status, backup, snapshot,
                 visited, kept>>

\* No provider, no valid bundle, or the staging directory is not writable.
FetchSiteFails(c) ==
  /\ pc[c] \in {"downloading", "staged"}
  /\ End(c)
  /\ UNCHANGED <<pins, site, visited, kept>>

(* target.exists() and the renames, with the second undone when it fails:  *)
(* the steps of _swap_into_place, under names that bear this process's pid.*)
swap_into_place(c) ==
  \/ LookAtSite(c)
  \/ MoveAside(c)
  \/ MoveIn(c)
  \/ SwapFails(c)

\* PinStore::load at the start of record_visit
LoadForVisit(c) ==
  /\ pc[c] = "installed"
  /\ snapshot' = Set(snapshot, c, pins)
  /\ pc' = Set(pc, c, "pinning")
  /\ UNCHANGED <<pins, site, uri, record, status, staged, backup, visited,
                 kept>>

\* PinStore::save renames a whole new file over the old one.
SaveVisit(c) ==
  /\ pc[c] = "pinning"
  /\ pins' = record_visit(snapshot[c], uri[c], record[c])
  /\ visited' = Set(visited, uri[c],
                    [public_key |-> record[c].public_key,
                     record_timestamp |-> record[c].timestamp])
  /\ End(c)
  /\ UNCHANGED <<site, kept>>

fetch_site(c) ==
  \/ ResolveAndCheck(c)
  \/ AcceptAndStage(c)
  \/ FetchSiteFails(c)
  \/ swap_into_place(c)
  \/ LoadForVisit(c)
  \/ SaveVisit(c)
-----------------------------------------------------------------------------
PythonClient(c) ==
  \/ Fetch(c)
  \/ LoadToUnpin(c)
  \/ SaveUnpinned(c)
  \/ RemoveSite(c)
  \/ Crash(c)

RustClient(c) == fetch_site(c) \/ Crash(c)

MixedNext ==
  \E c \in Clients :
    /\ OneAtATime => \A d \in Clients \ {c} : pc[d] = "idle"
    /\ \/ c \notin RustClients /\ PythonClient(c)
       \/ c \in RustClients /\ RustClient(c)

MixedSpec == Init /\ [][MixedNext]_vars
-----------------------------------------------------------------------------
(* The copy of u on the disk: the directory, or what a client has moved    *)
(* aside of it and not yet replaced.                                       *)
LocalCopy ==
  LET Aside(u) == {c \in Clients :
                     pc[c] = "moved" /\ uri[c] = u /\ backup[c] # None}
  IN  [u \in Uris |->
         IF site[u] # None THEN site[u].record
         ELSE IF Aside(u) # {}
         THEN backup[CHOOSE c \in Aside(u) : TRUE].record
         ELSE None]

Trust ==
  INSTANCE TrustedSites WITH pin <- pins, shown <- visited, copy <- LocalCopy

(* When the user waits for one client before the next, Python or Rust, the *)
(* many steps of a fetch, any of which may fail or be its last, look like  *)
(* two: a version that the pin admits replaces the copy, and the copy is   *)
(* shown and pinned (peer/peer.py:427-482, mdp2p-node/src/fetch.rs:57-184).*)
AtomicVisits == Trust!Spec
=============================================================================
