--------------------------- MODULE SignedRecords ---------------------------
(***************************************************************************)
(* The signed records of md:// and the verifiers every party runs on them: *)
(* bundle/name_records.py, review/record.py, bundle/manifest.py.           *)
(*                                                                         *)
(* Abstraction.  Ed25519 over canonical JSON is unforgeable, so a          *)
(* signature is represented by the key that produced it over exactly this  *)
(* record; a signature that verifies under no key, and a record whose      *)
(* shape the verifier refuses, are both the signature Nobody.  Display     *)
(* data (author, comment, verdict, addresses, categories) plays no part in *)
(* any rule stated over these records and is left out.                     *)
(***************************************************************************)
EXTENDS Integers

CONSTANTS
  MaxDrift,  \* MAX_TIMESTAMP_DRIFT_SECONDS = MAX_REVIEW_DRIFT_SECONDS = 300
  Nobody     \* "this signature verifies under no key"

ASSUME DriftAssumption == MaxDrift \in Nat

(* Definitions marked BROKEN are faulty variants of the definition that    *)
(* follows them; no verifier uses one.                                     *)

(* BROKEN: abs() is forgotten, so a record from the future passes. *)
WithinDriftOneSided(timestamp, now) == now - timestamp <= MaxDrift

(* abs(now - int(record["timestamp"])) <= max_drift *)
WithinDrift(timestamp, now) ==
  /\ now - timestamp <= MaxDrift
  /\ timestamp - now <= MaxDrift

(* SHA-256(uri ":" key): collision-free, so the pair itself. *)
compute_content_key(uri, publisher) == <<uri, publisher>>

(* The record is self-contained: checked against the key it embeds. *)
verify_name_record(record, signature, now) ==
  /\ WithinDrift(record.timestamp, now)
  /\ signature = record.public_key

(* With max_drift=None, as clients call it on what a server stored. *)
verify_stored_name_record(record, signature) == signature = record.public_key

(* The key comes from the naming record, never from the bundle. *)
verify_manifest(manifest, signature, trusted_key) ==
  /\ manifest.public_key = trusted_key
  /\ signature = trusted_key

verify_reviewer_opt_in(record, signature, now) ==
  /\ WithinDrift(record.timestamp, now)
  /\ signature = record.public_key

(* BROKEN: content_key is taken as the record states it. *)
verify_assignment_any_key(record, signature, now) ==
  /\ record.deadline > 0
  /\ WithinDrift(record.timestamp, now)
  /\ signature = record.publisher_public_key

verify_review_assignment(record, signature, now) ==
  /\ record.deadline > 0
  /\ record.content_key =
       compute_content_key(record.uri, record.publisher_public_key)
  /\ WithinDrift(record.timestamp, now)
  /\ signature = record.publisher_public_key

verify_review_record(record, signature, now) ==
  /\ WithinDrift(record.timestamp, now)
  /\ signature = record.reviewer_public_key
=============================================================================
