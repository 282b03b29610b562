----------------------------- MODULE FetchSite -----------------------------
(***************************************************************************)
(* Peer.fetch_site (peer/peer.py) and the two things it leaves on disk: the*)
(* pins of known_keys.json (pinstore.py) and the site directories below    *)
(* data_dir (bundle/serialization.py).                                     *)
(*                                                                         *)
(* A client is one process of one user: `mdp2p serve` with its reviewer    *)
(* daemon, `mdp2p fetch`, the TUI.  They share both files and take no lock.*)
(* The naming server and the seeders are not trusted: Resolve and Download *)
(* take any answer, and only the checks of the code narrow it down.        *)
(* try_download_from_seeders, which picks the answer, is module Download.  *)
(*                                                                         *)
(* Left out: attachments.json (read back through verifiers only), first    *)
(* and last seen dates, and the announcement after a visit.  A hash is the *)
(* thing hashed: manifest_ref is the manifest, a file hash is the content. *)
(***************************************************************************)
EXTENDS SignedRecords

CONSTANTS
  Clients,       \* processes of the user
  Uris,          \* names
  Authors,       \* keys that sign records and manifests
  Contents,      \* what the files of a site may hold
  Records,       \* the naming records that authors have signed
  MayDieInSwap,  \* may a client be killed between the two renames of a swap?
  None           \* no pin, no directory, no value

Manifests == [uri : Uris, public_key : Authors, files : Contents]
Bundles   == [manifest : Manifests, signature : Authors \cup {Nobody},
              files : Contents, expired : BOOLEAN]
Pins      == [public_key : Authors, record_timestamp : Nat]
PinFiles  == [Uris -> Pins \cup {None}]

\* What a directory holds, with the record under which it was put there.
Sites == [bundle : Bundles, record : Records]

ASSUME RecordsAssumption ==
  /\ Records \subseteq [uri : Uris, public_key : Authors,
                        manifest_ref : Manifests, timestamp : Nat]
  /\ MayDieInSwap \in BOOLEAN

ASSUME NoneAssumption ==
  None \notin Uris \cup Records \cup Bundles \cup Pins \cup Sites \cup PinFiles

VARIABLES
  pins,      \* known_keys.json
  site,      \* site[u]: the directory data_dir/u
  pc,        \* where each client is in fetch_site or unpin_key
  uri,       \* uri[c]: the name c fetches or unpins
  record,    \* record[c]: the naming record c resolved
  status,    \* status[c]: pin_status, as it was before the download
  staged,    \* staged[c]: the bundle in c's staging directory
  backup,    \* backup[c]: the copy c moved aside to .<uri>.old-<pid>
  snapshot,  \* snapshot[c]: the pinstore c loaded and is about to save
  visited,   \* visited[u]: key and date of the last fetch of u that
             \* returned True since the user last unpinned u
  kept       \* kept[u]: was a copy of u put in place, and not removed by
             \* the user since?

localVars == <<pc, uri, record, status, staged, backup, snapshot>>
vars == <<pins, site, localVars, visited, kept>>

Set(f, c, value) == [f EXCEPT ![c] = value]

\* c returns or dies: its local variables are gone.
End(c) ==
  /\ pc' = Set(pc, c, "idle")
  /\ uri' = Set(uri, c, None)
  /\ record' = Set(record, c, None)
  /\ status' = Set(status, c, None)
  /\ staged' = Set(staged, c, None)
  /\ backup' = Set(backup, c, None)
  /\ snapshot' = Set(snapshot, c, None)
-----------------------------------------------------------------------------
(* Definitions marked BROKEN are faulty variants of the definition that    *)
(* follows them; no action uses one.                                       *)

(* BROKEN: the key comparison is forgotten. *)
check_pin_mark_only(entry, public_key, timestamp) ==
  IF entry = None THEN "UNKNOWN"
  ELSE IF timestamp < entry.record_timestamp THEN "ROLLBACK"
  ELSE "MATCH"

(* BROKEN: the high-water mark is forgotten. *)
check_pin_key_only(entry, public_key, timestamp) ==
  IF entry = None THEN "UNKNOWN"
  ELSE IF entry.public_key # public_key THEN "MISMATCH"
  ELSE "MATCH"

check_pin(entry, public_key, timestamp) ==
  IF entry = None THEN "UNKNOWN"
  ELSE IF entry.public_key # public_key THEN "MISMATCH"
  ELSE IF timestamp < entry.record_timestamp THEN "ROLLBACK"
  ELSE "MATCH"

pin_key(file, u, r) ==
  [file EXCEPT ![u] = [public_key |-> r.public_key,
                       record_timestamp |-> r.timestamp]]

(* The key is kept whatever r says, and only the mark may rise. *)
update_pin_last_seen(file, u, r) ==
  IF file[u] # None /\ r.timestamp > file[u].record_timestamp
  THEN [file EXCEPT ![u].record_timestamp = r.timestamp]
  ELSE file

\* The clock is not modelled: a bundle has expired when the test says so.
is_manifest_expired(bundle) == bundle.expired

\* Exactly the files that the manifest lists, each with its hash.
validate_bundle_payload(bundle) == bundle.files = bundle.manifest.files

(* BROKEN: the reference the naming record gives is not compared. *)
check_bundle_any_version(bundle, u, r) ==
  /\ verify_manifest(bundle.manifest, bundle.signature, r.public_key)
  /\ bundle.manifest.uri = u
  /\ ~ is_manifest_expired(bundle)
  /\ validate_bundle_payload(bundle)

_check_downloaded_bundle(bundle, u, r) ==
  /\ verify_manifest(bundle.manifest, bundle.signature, r.public_key)
  /\ bundle.manifest.uri = u
  /\ bundle.manifest = r.manifest_ref
  /\ ~ is_manifest_expired(bundle)
  /\ validate_bundle_payload(bundle)
-----------------------------------------------------------------------------
(* BROKEN: the record need not be for the name that was asked for. *)
ResolveAnyName(c) ==
  /\ pc[c] = "idle"
  /\ \E u \in Uris, r \in Records, signature \in Authors \cup {Nobody} :
       /\ verify_stored_name_record(r, signature)
       /\ uri' = Set(uri, c, u)
       /\ record' = Set(record, c, r)
  /\ pc' = Set(pc, c, "resolved")
  /\ UNCHANGED <<pins, site, status, staged, backup, snapshot, visited, kept>>

Resolve(c) ==
  /\ pc[c] = "idle"
  /\ \E u \in Uris, r \in Records, signature \in Authors \cup {Nobody} :
       /\ verify_stored_name_record(r, signature)
       /\ r.uri = u
       /\ uri' = Set(uri, c, u)
       /\ record' = Set(record, c, r)
  /\ pc' = Set(pc, c, "resolved")
  /\ UNCHANGED <<pins, site, status, staged, backup, snapshot, visited, kept>>

(* Providers were found (an await).  The pin is compared here, and not     *)
(* again before it is saved.                                               *)
CheckPin(c) ==
  LET pin_status ==
        check_pin(pins[uri[c]], record[c].public_key, record[c].timestamp)
  IN
  /\ pc[c] = "resolved"
  /\ pin_status \in {"UNKNOWN", "MATCH"}
  /\ status' = Set(status, c, pin_status)
  /\ pc' = Set(pc, c, "downloading")
  /\ UNCHANGED <<pins, site, uri, record, staged, backup, snapshot,
                 visited, kept>>

(* No provider; pinstore unreadable; key or date refused; no seeder sent   *)
(* an acceptable bundle; the staging directory cannot be written.          *)
FetchFails(c) ==
  /\ pc[c] \in {"resolved", "downloading", "staged"}
  /\ End(c)
  /\ UNCHANGED <<pins, site, visited, kept>>

(* dict_to_bundle up to the swap: the staging directory bears c's pid. *)
Download(c) ==
  /\ pc[c] = "downloading"
  /\ \E bundle \in Bundles :
       /\ _check_downloaded_bundle(bundle, uri[c], record[c])
       /\ staged' = Set(staged, c, bundle)
  /\ pc' = Set(pc, c, "staged")
  /\ UNCHANGED <<pins, site, uri, record, status, backup, snapshot,
                 visited, kept>>

(* _swap_into_place: out.exists(), then one rename or two. *)
LookAtSite(c) ==
  /\ pc[c] = "staged"
  /\ pc' = Set(pc, c, IF site[uri[c]] = None THEN "placing" ELSE "replacing")
  /\ UNCHANGED <<pins, site, uri, record, status, staged, backup, snapshot,
                 visited, kept>>

(* out.rename(backup) *)
MoveAside(c) ==
  /\ pc[c] = "replacing"
  /\ site[uri[c]] # None
  /\ backup' = Set(backup, c, site[uri[c]])
  /\ site' = Set(site, uri[c], None)
  /\ pc' = Set(pc, c, "moved")
  /\ UNCHANGED <<pins, uri, record, status, staged, snapshot, visited, kept>>

(* staging.rename(out): a directory that is not empty is never replaced. *)
MoveIn(c) ==
  /\ pc[c] \in {"placing", "moved"}
  /\ site[uri[c]] = None
  /\ site' = Set(site, uri[c], [bundle |-> staged[c], record |-> record[c]])
  /\ kept' = Set(kept, uri[c], TRUE)
  /\ backup' = Set(backup, c, None)
  /\ pc' = Set(pc, c, "installed")
  /\ UNCHANGED <<pins, uri, record, status, staged, snapshot, visited>>

(* BROKEN: the copy moved aside is not put back. *)
SwapFailsForGood(c) ==
  /\ pc[c] \in {"placing", "replacing", "moved"}
  /\ End(c)
  /\ UNCHANGED <<pins, site, visited, kept>>

(* A rename raises: another client made or moved the directory, or the     *)
(* disk refuses.  The copy moved aside goes back if its place is free; the *)
(* exception leaves fetch_site, which only handles refused content.        *)
SwapFails(c) ==
  /\ pc[c] \in {"placing", "replacing", "moved"}
  /\ site' = IF pc[c] = "moved" /\ site[uri[c]] = None
             THEN Set(site, uri[c], backup[c])
             ELSE site
  /\ End(c)
  /\ UNCHANGED <<pins, visited, kept>>

\* No file is missing, altered or unlisted in what is there by now.
verify_files(manifest, directory) ==
  /\ directory # None
  /\ directory.bundle.files = manifest.files

Verify(c) ==
  /\ pc[c] = "installed"
  /\ verify_files(staged[c].manifest, site[uri[c]])
  /\ pc' = Set(pc, c, "verified")
  /\ UNCHANGED <<pins, site, uri, record, status, staged, backup, snapshot,
                 visited, kept>>

VerifyFails(c) ==
  /\ pc[c] = "installed"
  /\ ~ verify_files(staged[c].manifest, site[uri[c]])
  /\ End(c)
  /\ UNCHANGED <<pins, site, visited, kept>>

\* load_pinstore, in pin_key and in update_pin_last_seen
LoadPins(c) ==
  /\ pc[c] = "verified"
  /\ snapshot' = Set(snapshot, c, pins)
  /\ pc' = Set(pc, c, "pinning")
  /\ UNCHANGED <<pins, site, uri, record, status, staged, backup, visited,
                 kept>>

PinsToSave(c) ==
  IF status[c] = "UNKNOWN"
  THEN pin_key(snapshot[c], uri[c], record[c])
  ELSE update_pin_last_seen(snapshot[c], uri[c], record[c])

(* save_pinstore replaces the whole file, so the other names go back to    *)
(* what they were when c loaded it; update_pin_last_seen saves nothing     *)
(* when the name it looks for is not pinned any more.                      *)
SavePins(c) ==
  /\ pc[c] = "pinning"
  /\ pins' = IF status[c] = "MATCH" /\ snapshot[c][uri[c]] = None
             THEN pins
             ELSE PinsToSave(c)
  /\ visited' = Set(visited, uri[c],
                    [public_key |-> record[c].public_key,
                     record_timestamp |-> record[c].timestamp])
  /\ End(c)
  /\ UNCHANGED <<site, kept>>

\* unpin_key, from `mdp2p pins` and the interactive menu
LoadToUnpin(c) ==
  /\ pc[c] = "idle"
  /\ \E u \in Uris : pins[u] # None /\ uri' = Set(uri, c, u)
  /\ snapshot' = Set(snapshot, c, pins)
  /\ pc' = Set(pc, c, "unpinning")
  /\ UNCHANGED <<pins, site, record, status, staged, backup, visited, kept>>

SaveUnpinned(c) ==
  /\ pc[c] = "unpinning"
  /\ pins' = Set(snapshot[c], uri[c], None)
  /\ visited' = Set(visited, uri[c], None)
  /\ End(c)
  /\ UNCHANGED <<site, kept>>

(* remove_seeded_site removes the first directory, dot-names included,     *)
(* whose manifest is for u: the site, or the copy that a client has moved  *)
(* aside.  (Without a staging directory MoveIn raises, as in SwapFails.)   *)
RemoveSite(c) ==
  /\ pc[c] = "idle"
  /\ \E u \in Uris :
       \/ /\ site[u] # None
          /\ site' = Set(site, u, None)
          /\ kept' = Set(kept, u, FALSE)
          /\ UNCHANGED backup
       \/ \E d \in Clients :
            /\ pc[d] = "moved" /\ uri[d] = u /\ backup[d] # None
            /\ backup' = Set(backup, d, None)
            /\ kept' = IF site[u] = None THEN Set(kept, u, FALSE) ELSE kept
            /\ UNCHANGED site
  /\ UNCHANGED <<pins, pc, uri, record, status, staged, snapshot, visited>>

(* The process is killed, or a read or write of the pinstore raises.  What *)
(* it moved aside stays under a dot-name that nothing looks for.           *)
Crash(c) ==
  /\ pc[c] # "idle"
  /\ pc[c] = "moved" => MayDieInSwap
  /\ End(c)
  /\ UNCHANGED <<pins, site, visited, kept>>
-----------------------------------------------------------------------------
Init ==
  /\ pins = [u \in Uris |-> None]
  /\ site = [u \in Uris |-> None]
  /\ pc = [c \in Clients |-> "idle"]
  /\ uri = [c \in Clients |-> None]
  /\ record = [c \in Clients |-> None]
  /\ status = [c \in Clients |-> None]
  /\ staged = [c \in Clients |-> None]
  /\ backup = [c \in Clients |-> None]
  /\ snapshot = [c \in Clients |-> None]
  /\ visited = [u \in Uris |-> None]
  /\ kept = [u \in Uris |-> FALSE]

Fetch(c) ==
  \/ Resolve(c)
  \/ CheckPin(c)
  \/ FetchFails(c)
  \/ Download(c)
  \/ LookAtSite(c)
  \/ MoveAside(c)
  \/ MoveIn(c)
  \/ SwapFails(c)
  \/ Verify(c)
  \/ VerifyFails(c)
  \/ LoadPins(c)
  \/ SavePins(c)

Next ==
  \E c \in Clients :
    \/ Fetch(c)
    \/ LoadToUnpin(c)
    \/ SaveUnpinned(c)
    \/ RemoveSite(c)
    \/ Crash(c)

Spec == Init /\ [][Next]_vars
-----------------------------------------------------------------------------
PCs == {"idle", "resolved", "downloading", "staged", "placing", "replacing",
        "moved", "installed", "verified", "pinning", "unpinning"}

(* Every variable stays within its type. *)
TypeOK ==
  /\ pins \in PinFiles
  /\ site \in [Uris -> Sites \cup {None}]
  /\ pc \in [Clients -> PCs]
  /\ uri \in [Clients -> Uris \cup {None}]
  /\ record \in [Clients -> Records \cup {None}]
  /\ status \in [Clients -> {"UNKNOWN", "MATCH", None}]
  /\ staged \in [Clients -> Bundles \cup {None}]
  /\ backup \in [Clients -> Sites \cup {None}]
  /\ snapshot \in [Clients -> PinFiles \cup {None}]
  /\ visited \in [Uris -> Pins \cup {None}]
  /\ kept \in [Uris -> BOOLEAN]

\* One whole, unaltered version of u that its author signed and named.
IsAuthentic(u, s) ==
  /\ s.record.uri = u
  /\ s.bundle.manifest = s.record.manifest_ref
  /\ s.bundle.signature = s.record.public_key
  /\ s.bundle.manifest.public_key = s.record.public_key
  /\ s.bundle.files = s.bundle.manifest.files

(* Whatever the naming server and the seeders answered, and however many   *)
(* clients swap the same directory at once or die doing it, a site         *)
(* directory holds one complete version, signed and named by one author    *)
(* (_check_downloaded_bundle, dict_to_bundle, _swap_into_place).           *)
AuthenticSites == \A u \in Uris : site[u] # None => IsAuthentic(u, site[u])

(* "Swapped in atomically" (SPEC.md section 5): however many clients swap  *)
(* the same directory, a copy that the user has not removed is in place, or*)
(* aside with a client that is about to put it back or put another in place*)
(* (the except branch of _swap_into_place).                                *)
CopiesSurviveSwaps ==
  \A u \in Uris :
    kept[u] /\ site[u] = None =>
      \E c \in Clients : pc[c] = "moved" /\ uri[c] = u /\ backup[c] # None

(* The key pinned for a name, and its mark, are those of one record that   *)
(* this key signed for this name: a pin never combines two authors, which  *)
(* would refuse the true author's next records as a rollback.              *)
PinsAreSigned ==
  \A u \in Uris : pins[u] # None =>
    \E r \in Records :
      /\ r.uri = u
      /\ r.public_key = pins[u].public_key
      /\ r.timestamp = pins[u].record_timestamp

(* However many clients share the pinstore, the key pinned for a name has  *)
(* signed a record for that name.                                          *)
PinnedKeysAreSigned ==
  \A u \in Uris : pins[u] # None =>
    \E r \in Records : r.uri = u /\ r.public_key = pins[u].public_key

(* The local copy is never older than what the user has been shown, and is *)
(* by the same author, even after fetches that died between swapping the   *)
(* directory and raising the mark.                                         *)
CopyIsNotOlder ==
  \A u \in Uris : site[u] # None /\ visited[u] # None =>
    /\ site[u].record.public_key = visited[u].public_key
    /\ site[u].record.timestamp >= visited[u].record_timestamp

(* As long as the user does not unpin a name, its successful fetches are   *)
(* all by one author and never go back in time (SPEC.md section 5).        *)
VisitsOnlyAdvance ==
  [][\A u \in Uris : visited[u] # None /\ visited'[u] # None =>
       /\ visited'[u].public_key = visited[u].public_key
       /\ visited'[u].record_timestamp >= visited[u].record_timestamp]_vars

(* What ARCHITECTURE.md section 8.6 says of the pinstore: record_timestamp *)
(* "is a high-water mark that only goes up".                               *)
MarksOnlyRise ==
  [][\A u \in Uris : pins[u] # None /\ pins'[u] # None =>
       pins'[u].record_timestamp >= pins[u].record_timestamp]_vars
=============================================================================
