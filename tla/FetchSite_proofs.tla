-------------------------- MODULE FetchSite_proofs --------------------------
(***************************************************************************)
(* Theorems about FetchSite and RustFetch, for every set of clients, names,*)
(* keys, contents and records.  What is shown of Python clients holds of   *)
(* any mixture of Python and Rust clients, at once or in turn: a step of a *)
(* mixture is a step of FetchSite or one of the five actions that are only *)
(* the Rust client's.                                                      *)
(*                                                                         *)
(* One at a time, they implement TrustedSites: nobody changes the pin that *)
(* admitted a version before it is pinned (SerialInv), nor takes it from   *)
(* its place (InPlace).                                                    *)
(***************************************************************************)
EXTENDS RustFetch, TLAPS

Staging == {"staged", "placing", "replacing", "moved", "installed",
            "verified", "pinning"}

(* What a client holds in its local variables, step by step. *)
Holds(c) ==
  /\ pc[c] # "idle" => uri[c] \in Uris
  /\ pc[c] \notin {"idle", "unpinning"} => record[c] \in Records
  /\ pc[c] \in Staging \cup {"downloading"} =>
       status[c] \in {"UNKNOWN", "MATCH"}
  /\ pc[c] \in Staging => staged[c] \in Bundles
  /\ pc[c] \in {"pinning", "unpinning"} => snapshot[c] \in PinFiles

TypeInv == TypeOK /\ \A c \in Clients : Holds(c)

(* Ending a client keeps its variables typed and leaves it holding nothing. *)
LEMMA EndIsTyped ==
  ASSUME TypeInv, NEW c \in Clients, End(c)
  PROVE  /\ pc' \in [Clients -> PCs]
         /\ uri' \in [Clients -> Uris \cup {None}]
         /\ record' \in [Clients -> Records \cup {None}]
         /\ status' \in [Clients -> {"UNKNOWN", "MATCH", None}]
         /\ staged' \in [Clients -> Bundles \cup {None}]
         /\ backup' \in [Clients -> Sites \cup {None}]
         /\ snapshot' \in [Clients -> PinFiles \cup {None}]
         /\ \A d \in Clients : Holds(d)'
         /\ pc'[c] = "idle"
         /\ \A d \in Clients \ {c} :
              /\ pc'[d] = pc[d]
              /\ uri'[d] = uri[d]
              /\ record'[d] = record[d]
              /\ status'[d] = status[d]
              /\ staged'[d] = staged[d]
              /\ backup'[d] = backup[d]
              /\ snapshot'[d] = snapshot[d]
<1>1. /\ pc' \in [Clients -> PCs]
      /\ uri' \in [Clients -> Uris \cup {None}]
      /\ record' \in [Clients -> Records \cup {None}]
      /\ status' \in [Clients -> {"UNKNOWN", "MATCH", None}]
      /\ staged' \in [Clients -> Bundles \cup {None}]
      /\ backup' \in [Clients -> Sites \cup {None}]
      /\ snapshot' \in [Clients -> PinFiles \cup {None}]
  BY DEF TypeInv, TypeOK, End, Set, PCs
<1>2. pc'[c] = "idle"
  BY DEF TypeInv, TypeOK, End, Set
<1>3. ASSUME NEW d \in Clients \ {c}
      PROVE  /\ pc'[d] = pc[d]
             /\ uri'[d] = uri[d]
             /\ record'[d] = record[d]
             /\ status'[d] = status[d]
             /\ staged'[d] = staged[d]
             /\ backup'[d] = backup[d]
             /\ snapshot'[d] = snapshot[d]
  BY DEF TypeInv, TypeOK, End, Set
<1>4. \A d \in Clients : Holds(d)'
  BY <1>2, <1>3 DEF TypeInv, Holds, Staging
<1> QED
  BY <1>1, <1>2, <1>3, <1>4

(* A pin saved from a typed pinstore gives a typed pinstore. *)
LEMMA SavedPinsAreTyped ==
  ASSUME NEW file \in PinFiles, NEW u \in Uris, NEW r \in Records
  PROVE  /\ pin_key(file, u, r) \in PinFiles
         /\ update_pin_last_seen(file, u, r) \in PinFiles
<1>1. r.public_key \in Authors /\ r.timestamp \in Nat
  BY RecordsAssumption
<1>2. pin_key(file, u, r) \in PinFiles
  BY <1>1 DEF pin_key, PinFiles, Pins
<1>3. CASE file[u] # None /\ r.timestamp > file[u].record_timestamp
  <2>1. file[u] \in Pins
    BY <1>3 DEF PinFiles
  <2>2. [file[u] EXCEPT !.record_timestamp = r.timestamp] \in Pins
    BY <1>1, <2>1 DEF Pins
  <2> QED
    BY <1>2, <1>3, <2>2 DEF update_pin_last_seen, PinFiles
<1>4. CASE ~(file[u] # None /\ r.timestamp > file[u].record_timestamp)
  BY <1>2, <1>4 DEF update_pin_last_seen
<1> QED
  BY <1>2, <1>3, <1>4

(* The type invariant is inductive once it says what each client holds. *)
LEMMA TypeInvInductive == TypeInv /\ [Next]_vars => TypeInv'
<1> SUFFICES ASSUME TypeInv, [Next]_vars PROVE TypeInv'
  OBVIOUS
<1>1. ASSUME NEW c \in Clients, Resolve(c) PROVE TypeInv'
  BY <1>1 DEF TypeInv, TypeOK, Holds, Resolve, Set, Staging, PCs
<1>2. ASSUME NEW c \in Clients, CheckPin(c) PROVE TypeInv'
  BY <1>2 DEF TypeInv, TypeOK, Holds, CheckPin, Set, Staging, PCs
<1>3. ASSUME NEW c \in Clients, FetchFails(c) PROVE TypeInv'
  BY <1>3, EndIsTyped DEF TypeInv, TypeOK, FetchFails
<1>4. ASSUME NEW c \in Clients, Download(c) PROVE TypeInv'
  BY <1>4 DEF TypeInv, TypeOK, Holds, Download, Set, Staging, PCs
<1>5. ASSUME NEW c \in Clients, LookAtSite(c) PROVE TypeInv'
  BY <1>5 DEF TypeInv, TypeOK, Holds, LookAtSite, Set, Staging, PCs
<1>6. ASSUME NEW c \in Clients, MoveAside(c) PROVE TypeInv'
  BY <1>6 DEF TypeInv, TypeOK, Holds, MoveAside, Set, Staging, PCs
<1>7. ASSUME NEW c \in Clients, MoveIn(c) PROVE TypeInv'
  <2>1. [bundle |-> staged[c], record |-> record[c]] \in Sites
    BY <1>7 DEF TypeInv, Holds, MoveIn, Staging, Sites
  <2> QED
    BY <1>7, <2>1 DEF TypeInv, TypeOK, Holds, MoveIn, Set, Staging, PCs
<1>8. ASSUME NEW c \in Clients, SwapFails(c) PROVE TypeInv'
  BY <1>8, EndIsTyped DEF TypeInv, TypeOK, SwapFails, Set, Holds
<1>9. ASSUME NEW c \in Clients, Verify(c) PROVE TypeInv'
  BY <1>9 DEF TypeInv, TypeOK, Holds, Verify, Set, Staging, PCs
<1>10. ASSUME NEW c \in Clients, VerifyFails(c) PROVE TypeInv'
  BY <1>10, EndIsTyped DEF TypeInv, TypeOK, VerifyFails
<1>11. ASSUME NEW c \in Clients, LoadPins(c) PROVE TypeInv'
  BY <1>11 DEF TypeInv, TypeOK, Holds, LoadPins, Set, Staging, PCs
<1>12. ASSUME NEW c \in Clients, SavePins(c) PROVE TypeInv'
  <2>1. /\ uri[c] \in Uris
        /\ record[c] \in Records
        /\ snapshot[c] \in PinFiles
    BY <1>12 DEF TypeInv, Holds, SavePins, Staging
  <2>2. PinsToSave(c) \in PinFiles
    BY <2>1, SavedPinsAreTyped DEF PinsToSave
  <2>3. [public_key |-> record[c].public_key,
         record_timestamp |-> record[c].timestamp] \in Pins
    BY <2>1, RecordsAssumption DEF Pins
  <2>4. pins' \in PinFiles
    BY <1>12, <2>2 DEF SavePins, TypeInv, TypeOK
  <2>5. visited' \in [Uris -> Pins \cup {None}]
    BY <1>12, <2>3 DEF SavePins, TypeInv, TypeOK, Set
  <2> QED
    BY <1>12, <2>4, <2>5, EndIsTyped DEF TypeInv, TypeOK, SavePins
<1>13. ASSUME NEW c \in Clients, LoadToUnpin(c) PROVE TypeInv'
  BY <1>13 DEF TypeInv, TypeOK, Holds, LoadToUnpin, Set, Staging, PCs
<1>14. ASSUME NEW c \in Clients, SaveUnpinned(c) PROVE TypeInv'
  <2>1. pins' \in PinFiles
    BY <1>14 DEF SaveUnpinned, TypeInv, Holds, PinFiles, Set
  <2> QED
    BY <1>14, <2>1, EndIsTyped DEF TypeInv, TypeOK, SaveUnpinned, Set
<1>15. ASSUME NEW c \in Clients, RemoveSite(c) PROVE TypeInv'
  BY <1>15 DEF TypeInv, TypeOK, Holds, RemoveSite, Set
<1>16. ASSUME NEW c \in Clients, Crash(c) PROVE TypeInv'
  BY <1>16, EndIsTyped DEF TypeInv, TypeOK, Crash
<1>17. CASE UNCHANGED vars
  BY <1>17 DEF TypeInv, TypeOK, Holds, vars, localVars
<1> QED
  BY <1>1, <1>2, <1>3, <1>4, <1>5, <1>6, <1>7, <1>8, <1>9, <1>10, <1>11,
     <1>12, <1>13, <1>14, <1>15, <1>16, <1>17 DEF Next, Fetch

(* Every client starts idle, holding nothing. *)
LEMMA InitIsTyped == Init => TypeInv
BY DEF Init, TypeInv, TypeOK, Holds, PinFiles, Staging, PCs

-----------------------------------------------------------------------------
\* Every key in the file signed a record for the name it is pinned for.
KeysAreSigned(file) ==
  \A u \in Uris : file[u] # None =>
    \E r \in Records : r.uri = u /\ r.public_key = file[u].public_key

\* What a client may put in place, or put back, or save.
Carries(c) ==
  /\ pc[c] \notin {"idle", "unpinning"} => record[c].uri = uri[c]
  /\ pc[c] \in Staging =>
       IsAuthentic(uri[c], [bundle |-> staged[c], record |-> record[c]])
  /\ pc[c] = "moved" /\ backup[c] # None => IsAuthentic(uri[c], backup[c])
  /\ pc[c] \in {"pinning", "unpinning"} => KeysAreSigned(snapshot[c])

AuthenticInv ==
  /\ AuthenticSites
  /\ PinnedKeysAreSigned
  /\ \A c \in Clients : Carries(c)

(* What _check_downloaded_bundle accepts is what IsAuthentic asks for. *)
LEMMA AcceptedIsAuthentic ==
  ASSUME NEW u \in Uris, NEW r \in Records, NEW bundle \in Bundles,
         r.uri = u, _check_downloaded_bundle(bundle, u, r)
  PROVE  IsAuthentic(u, [bundle |-> bundle, record |-> r])
BY DEF _check_downloaded_bundle, verify_manifest, validate_bundle_payload,
       IsAuthentic

(* A client that ends carries nothing; the others carry what they did. *)
LEMMA EndCarriesNothing ==
  ASSUME TypeInv, AuthenticInv, NEW c \in Clients, End(c)
  PROVE  \A d \in Clients : Carries(d)'
BY EndIsTyped DEF AuthenticInv, Carries, Staging, KeysAreSigned, IsAuthentic

(* Authentic copies, records and pins are all that a step moves about. *)
LEMMA AuthenticInvInductive ==
  TypeInv /\ AuthenticInv /\ [Next]_vars => AuthenticInv'
<1> SUFFICES ASSUME TypeInv, AuthenticInv, [Next]_vars PROVE AuthenticInv'
  OBVIOUS
<1> USE DEF KeysAreSigned, IsAuthentic
<1>1. ASSUME NEW c \in Clients, Resolve(c) PROVE AuthenticInv'
  BY <1>1 DEF TypeInv, TypeOK, Holds, AuthenticInv, AuthenticSites,
              PinnedKeysAreSigned, Carries, Resolve, Set, Staging
<1>2. ASSUME NEW c \in Clients, CheckPin(c) PROVE AuthenticInv'
  BY <1>2 DEF TypeInv, TypeOK, Holds, AuthenticInv, AuthenticSites,
              PinnedKeysAreSigned, Carries, CheckPin, Set, Staging
<1>3. ASSUME NEW c \in Clients, FetchFails(c) PROVE AuthenticInv'
  BY <1>3, EndCarriesNothing
     DEF AuthenticInv, AuthenticSites, PinnedKeysAreSigned, FetchFails
<1>4. ASSUME NEW c \in Clients, Download(c) PROVE AuthenticInv'
  <2>1. /\ staged'[c] \in Bundles
        /\ IsAuthentic(uri[c], [bundle |-> staged'[c], record |-> record[c]])
    BY <1>4, AcceptedIsAuthentic
       DEF Download, TypeInv, TypeOK, Holds, Set, AuthenticInv, Carries
  <2> QED
    BY <1>4, <2>1
       DEF TypeInv, TypeOK, Holds, AuthenticInv, AuthenticSites,
           PinnedKeysAreSigned, Carries, Download, Set, Staging
<1>5. ASSUME NEW c \in Clients, LookAtSite(c) PROVE AuthenticInv'
  BY <1>5 DEF TypeInv, TypeOK, Holds, AuthenticInv, AuthenticSites,
              PinnedKeysAreSigned, Carries, LookAtSite, Set, Staging
<1>6. ASSUME NEW c \in Clients, MoveAside(c) PROVE AuthenticInv'
  BY <1>6 DEF TypeInv, TypeOK, Holds, AuthenticInv, AuthenticSites,
              PinnedKeysAreSigned, Carries, MoveAside, Set, Staging
<1>7. ASSUME NEW c \in Clients, MoveIn(c) PROVE AuthenticInv'
  BY <1>7 DEF TypeInv, TypeOK, Holds, AuthenticInv, AuthenticSites,
              PinnedKeysAreSigned, Carries, MoveIn, Set, Staging
<1>8. ASSUME NEW c \in Clients, SwapFails(c) PROVE AuthenticInv'
  BY <1>8, EndCarriesNothing
     DEF TypeInv, TypeOK, Holds, AuthenticInv, AuthenticSites,
         PinnedKeysAreSigned, Carries, SwapFails, Set
<1>9. ASSUME NEW c \in Clients, Verify(c) PROVE AuthenticInv'
  BY <1>9 DEF TypeInv, TypeOK, Holds, AuthenticInv, AuthenticSites,
              PinnedKeysAreSigned, Carries, Verify, Set, Staging
<1>10. ASSUME NEW c \in Clients, VerifyFails(c) PROVE AuthenticInv'
  BY <1>10, EndCarriesNothing
     DEF AuthenticInv, AuthenticSites, PinnedKeysAreSigned, VerifyFails
<1>11. ASSUME NEW c \in Clients, LoadPins(c) PROVE AuthenticInv'
  BY <1>11 DEF TypeInv, TypeOK, Holds, AuthenticInv, AuthenticSites,
               PinnedKeysAreSigned, Carries, LoadPins, Set, Staging
<1>12. ASSUME NEW c \in Clients, SavePins(c) PROVE AuthenticInv'
  <2>1. /\ uri[c] \in Uris
        /\ record[c] \in Records
        /\ record[c].uri = uri[c]
        /\ snapshot[c] \in PinFiles
        /\ KeysAreSigned(snapshot[c])
    BY <1>12 DEF TypeInv, Holds, AuthenticInv, Carries, SavePins
  <2>2. KeysAreSigned(pin_key(snapshot[c], uri[c], record[c]))
    BY <2>1 DEF pin_key, PinFiles
  <2>3. KeysAreSigned(update_pin_last_seen(snapshot[c], uri[c], record[c]))
    BY <2>1 DEF update_pin_last_seen, PinFiles, Pins
  <2>4. KeysAreSigned(pins')
    BY <1>12, <2>2, <2>3
       DEF SavePins, PinsToSave, AuthenticInv, PinnedKeysAreSigned
  <2> QED
    BY <1>12, <2>4, EndCarriesNothing
       DEF SavePins, AuthenticInv, AuthenticSites, PinnedKeysAreSigned
<1>13. ASSUME NEW c \in Clients, LoadToUnpin(c) PROVE AuthenticInv'
  BY <1>13 DEF TypeInv, TypeOK, Holds, AuthenticInv, AuthenticSites,
               PinnedKeysAreSigned, Carries, LoadToUnpin, Set, Staging
<1>14. ASSUME NEW c \in Clients, SaveUnpinned(c) PROVE AuthenticInv'
  <2>1. KeysAreSigned(pins')
    BY <1>14 DEF SaveUnpinned, TypeInv, Holds, AuthenticInv, Carries, Set,
                 PinFiles
  <2> QED
    BY <1>14, <2>1, EndCarriesNothing
       DEF SaveUnpinned, AuthenticInv, AuthenticSites, PinnedKeysAreSigned
<1>15. ASSUME NEW c \in Clients, RemoveSite(c) PROVE AuthenticInv'
  BY <1>15 DEF TypeInv, TypeOK, Holds, AuthenticInv, AuthenticSites,
               PinnedKeysAreSigned, Carries, RemoveSite, Set
<1>16. ASSUME NEW c \in Clients, Crash(c) PROVE AuthenticInv'
  BY <1>16, EndCarriesNothing
     DEF AuthenticInv, AuthenticSites, PinnedKeysAreSigned, Crash
<1>17. CASE UNCHANGED vars
  BY <1>17 DEF AuthenticInv, AuthenticSites, PinnedKeysAreSigned, Carries,
               vars, localVars
<1> QED
  BY <1>1, <1>2, <1>3, <1>4, <1>5, <1>6, <1>7, <1>8, <1>9, <1>10, <1>11,
     <1>12, <1>13, <1>14, <1>15, <1>16, <1>17 DEF Next, Fetch

(* Nothing is on disk and nobody carries anything at first. *)
LEMMA InitIsAuthentic == Init => AuthenticInv
BY DEF Init, AuthenticInv, AuthenticSites, PinnedKeysAreSigned, Carries,
       Staging

(* However many clients swap the same directory, and whatever answers they *)
(* were given, a site directory holds one complete version that its author *)
(* signed and named (_check_downloaded_bundle, dict_to_bundle).            *)
THEOREM SitesAreAuthentic == Spec => []AuthenticSites
<1>1. AuthenticInv => AuthenticSites
  BY DEF AuthenticInv
<1> QED
  BY <1>1, InitIsTyped, TypeInvInductive, InitIsAuthentic,
     AuthenticInvInductive, PTL DEF Spec

(* The key pinned for a name signed a record for that name: lost updates of*)
(* known_keys.json lose or revive pins, but never invent one.              *)
THEOREM KeysAreGenuine == Spec => []PinnedKeysAreSigned
<1>1. AuthenticInv => PinnedKeysAreSigned
  BY DEF AuthenticInv
<1> QED
  BY <1>1, InitIsTyped, TypeInvInductive, InitIsAuthentic,
     AuthenticInvInductive, PTL DEF Spec
-----------------------------------------------------------------------------
(* No step loses a copy, unless its client dies between two renames.       *)
LEMMA CopiesStay ==
  ASSUME ~ MayDieInSwap, TypeInv, CopiesSurviveSwaps, [Next]_vars
  PROVE  CopiesSurviveSwaps'
<1>1. ASSUME NEW c \in Clients, pc'[c] # "moved", pc[c] # "moved",
             \A d \in Clients \ {c} :
               pc'[d] = pc[d] /\ uri'[d] = uri[d] /\ backup'[d] = backup[d],
             UNCHANGED <<site, kept>>
      PROVE  CopiesSurviveSwaps'
  BY <1>1 DEF CopiesSurviveSwaps
<1>2. ASSUME NEW c \in Clients,
             \/ Resolve(c) \/ CheckPin(c) \/ Download(c) \/ LookAtSite(c)
             \/ Verify(c) \/ LoadPins(c) \/ LoadToUnpin(c)
      PROVE  CopiesSurviveSwaps'
  <2>1. /\ pc'[c] # "moved" /\ pc[c] # "moved"
        /\ \A d \in Clients \ {c} :
             pc'[d] = pc[d] /\ uri'[d] = uri[d] /\ backup'[d] = backup[d]
        /\ UNCHANGED <<site, kept>>
    BY <1>2 DEF TypeInv, TypeOK, Resolve, CheckPin, Download, LookAtSite,
                Verify, LoadPins, LoadToUnpin, Set
  <2> QED
    BY <1>1, <2>1
<1>3. ASSUME NEW c \in Clients,
             \/ FetchFails(c) \/ VerifyFails(c) \/ SavePins(c)
             \/ SaveUnpinned(c) \/ Crash(c)
      PROVE  CopiesSurviveSwaps'
  <2>1. End(c) /\ pc[c] # "moved" /\ UNCHANGED <<site, kept>>
    BY <1>3 DEF FetchFails, VerifyFails, SavePins, SaveUnpinned, Crash
  <2> QED
    BY <1>1, <2>1, EndIsTyped
<1>4. ASSUME NEW c \in Clients, MoveAside(c) PROVE CopiesSurviveSwaps'
  BY <1>4 DEF TypeInv, TypeOK, Holds, MoveAside, Set, CopiesSurviveSwaps
<1>5. ASSUME NEW c \in Clients, MoveIn(c) PROVE CopiesSurviveSwaps'
  <2>1. [bundle |-> staged[c], record |-> record[c]] \in Sites
    BY <1>5 DEF TypeInv, Holds, MoveIn, Staging, Sites
  <2> QED
    BY <1>5, <2>1, NoneAssumption
       DEF TypeInv, TypeOK, Holds, MoveIn, Set, CopiesSurviveSwaps
<1>6. ASSUME NEW c \in Clients, SwapFails(c) PROVE CopiesSurviveSwaps'
  <2>1. \/ site'[uri[c]] # None
        \/ (pc[c] # "moved" \/ backup[c] = None) /\ site' = site
    BY <1>6, NoneAssumption DEF TypeInv, TypeOK, Holds, SwapFails, Set
  <2>2. \A u \in Uris : u # uri[c] => site'[u] = site[u]
    BY <1>6 DEF TypeInv, TypeOK, SwapFails, Set
  <2> QED
    BY <1>6, <2>1, <2>2, EndIsTyped DEF SwapFails, CopiesSurviveSwaps
<1>7. ASSUME NEW c \in Clients, RemoveSite(c) PROVE CopiesSurviveSwaps'
  <2>1. /\ \A v \in Uris : kept'[v] => kept[v]
        /\ \A v \in Uris : kept'[v] /\ site'[v] = None => site[v] = None
        /\ \A v \in Uris, d \in Clients :
             kept'[v] /\ site'[v] = None /\ uri[d] = v => backup'[d] = backup[d]
        /\ UNCHANGED <<pc, uri>>
    BY <1>7 DEF TypeInv, TypeOK, RemoveSite, Set
  <2> QED
    BY <2>1 DEF CopiesSurviveSwaps
<1>8. CASE UNCHANGED vars
  BY <1>8 DEF CopiesSurviveSwaps, vars, localVars
<1> QED
  BY <1>2, <1>3, <1>4, <1>5, <1>6, <1>7, <1>8 DEF Next, Fetch

(* As long as nobody is killed between the two renames of a swap, a copy   *)
(* that the user has not removed is in place or about to be, however many  *)
(* clients swap the directory at once (_swap_into_place).                  *)
THEOREM CopiesAreKept ==
  ASSUME ~ MayDieInSwap
  PROVE  Spec => []CopiesSurviveSwaps
<1>1. Init => CopiesSurviveSwaps
  BY DEF Init, CopiesSurviveSwaps
<1>2. TypeInv /\ CopiesSurviveSwaps /\ [Next]_vars => CopiesSurviveSwaps'
  BY CopiesStay
<1> QED
  BY <1>1, <1>2, InitIsTyped, TypeInvInductive, PTL DEF Spec
-----------------------------------------------------------------------------
(* Rust clients *)

RustOnly(c) ==
  \/ ResolveAndCheck(c)
  \/ AcceptAndStage(c)
  \/ FetchSiteFails(c)
  \/ LoadForVisit(c)
  \/ SaveVisit(c)

(* Only those five are not steps that a Python client could take.          *)
LEMMA MixedSteps ==
  ASSUME [MixedNext]_vars
  PROVE  [Next]_vars \/ \E c \in Clients : RustOnly(c)
BY DEF MixedNext, PythonClient, RustClient, fetch_site, swap_into_place, Next,
       Fetch, RustOnly

(* The pinstore that a visit saves is typed, and no key in it is invented. *)
LEMMA VisitIsSigned ==
  ASSUME NEW file \in PinFiles, NEW u \in Uris, NEW r \in Records
  PROVE  /\ record_visit(file, u, r) \in PinFiles
         /\ r.uri = u /\ KeysAreSigned(file)
              => KeysAreSigned(record_visit(file, u, r))
<1>1. r.public_key \in Authors /\ r.timestamp \in Nat
  BY RecordsAssumption
<1>2. CASE file[u] = None
  BY <1>1, <1>2 DEF record_visit, PinFiles, Pins, KeysAreSigned
<1>3. CASE file[u] # None
  <2>1. file[u] \in Pins
    BY <1>3 DEF PinFiles
  <2> DEFINE mark == IF r.timestamp > file[u].record_timestamp
                     THEN r.timestamp ELSE file[u].record_timestamp
             p == [file[u] EXCEPT !.record_timestamp = mark]
  <2>2. mark \in Nat
    BY <1>1, <2>1 DEF Pins
  <2>3. p \in Pins /\ p.public_key = file[u].public_key
    BY <2>1, <2>2 DEF Pins
  <2>4. record_visit(file, u, r) = [file EXCEPT ![u] = p]
    BY <1>3 DEF record_visit
  <2> QED
    BY <1>3, <2>3, <2>4 DEF PinFiles, KeysAreSigned
<1> QED
  BY <1>2, <1>3

(* The type invariant of FetchSite is inductive for any mixture too.       *)
LEMMA MixedTypeInv == TypeInv /\ [MixedNext]_vars => TypeInv'
<1> SUFFICES ASSUME TypeInv, [MixedNext]_vars PROVE TypeInv'
  OBVIOUS
<1>1. ASSUME NEW c \in Clients, ResolveAndCheck(c) PROVE TypeInv'
  BY <1>1 DEF TypeInv, TypeOK, Holds, ResolveAndCheck, Set, Staging, PCs
<1>2. ASSUME NEW c \in Clients, AcceptAndStage(c) PROVE TypeInv'
  BY <1>2 DEF TypeInv, TypeOK, Holds, AcceptAndStage, Set, Staging, PCs
<1>3. ASSUME NEW c \in Clients, FetchSiteFails(c) PROVE TypeInv'
  BY <1>3, EndIsTyped DEF TypeInv, TypeOK, FetchSiteFails
<1>4. ASSUME NEW c \in Clients, LoadForVisit(c) PROVE TypeInv'
  BY <1>4 DEF TypeInv, TypeOK, Holds, LoadForVisit, Set, Staging, PCs
<1>5. ASSUME NEW c \in Clients, SaveVisit(c) PROVE TypeInv'
  <2>1. /\ uri[c] \in Uris
        /\ record[c] \in Records
        /\ snapshot[c] \in PinFiles
    BY <1>5 DEF TypeInv, Holds, SaveVisit, Staging
  <2>2. pins' \in PinFiles
    BY <1>5, <2>1, VisitIsSigned DEF SaveVisit
  <2>3. [public_key |-> record[c].public_key,
         record_timestamp |-> record[c].timestamp] \in Pins
    BY <2>1, RecordsAssumption DEF Pins
  <2>4. visited' \in [Uris -> Pins \cup {None}]
    BY <1>5, <2>3 DEF SaveVisit, TypeInv, TypeOK, Set
  <2> QED
    BY <1>5, <2>2, <2>4, EndIsTyped DEF TypeInv, TypeOK, SaveVisit
<1> QED
  BY <1>1, <1>2, <1>3, <1>4, <1>5, MixedSteps, TypeInvInductive DEF RustOnly

(* Every variable keeps its type, whatever programs the user runs.         *)
THEOREM TypeCorrect == MixedSpec => []TypeOK
<1>1. TypeInv => TypeOK
  BY DEF TypeInv
<1> QED
  BY <1>1, InitIsTyped, MixedTypeInv, PTL DEF MixedSpec

(* Rust and Python clients together move only authentic copies and pins.   *)
LEMMA MixedAuthenticInv ==
  TypeInv /\ AuthenticInv /\ [MixedNext]_vars => AuthenticInv'
<1> SUFFICES ASSUME TypeInv, AuthenticInv, [MixedNext]_vars
             PROVE  AuthenticInv'
  OBVIOUS
<1> USE DEF KeysAreSigned, IsAuthentic
<1>1. ASSUME NEW c \in Clients, ResolveAndCheck(c) PROVE AuthenticInv'
  BY <1>1 DEF TypeInv, TypeOK, Holds, AuthenticInv, AuthenticSites,
              PinnedKeysAreSigned, Carries, ResolveAndCheck,
              check_resolved_record, Set, Staging
<1>2. ASSUME NEW c \in Clients, AcceptAndStage(c) PROVE AuthenticInv'
  <2>1. /\ staged'[c] \in Bundles
        /\ IsAuthentic(uri[c], [bundle |-> staged'[c], record |-> record[c]])
    BY <1>2 DEF AcceptAndStage, check_downloaded_bundle, verify_manifest,
                TypeInv, TypeOK, Holds, Set, AuthenticInv, Carries
  <2> QED
    BY <1>2, <2>1
       DEF TypeInv, TypeOK, Holds, AuthenticInv, AuthenticSites,
           PinnedKeysAreSigned, Carries, AcceptAndStage, Set, Staging
<1>3. ASSUME NEW c \in Clients, FetchSiteFails(c) PROVE AuthenticInv'
  BY <1>3, EndCarriesNothing
     DEF AuthenticInv, AuthenticSites, PinnedKeysAreSigned, FetchSiteFails
<1>4. ASSUME NEW c \in Clients, LoadForVisit(c) PROVE AuthenticInv'
  BY <1>4 DEF TypeInv, TypeOK, Holds, AuthenticInv, AuthenticSites,
              PinnedKeysAreSigned, Carries, LoadForVisit, Set, Staging
<1>5. ASSUME NEW c \in Clients, SaveVisit(c) PROVE AuthenticInv'
  <2>1. /\ uri[c] \in Uris
        /\ record[c] \in Records
        /\ record[c].uri = uri[c]
        /\ snapshot[c] \in PinFiles
        /\ KeysAreSigned(snapshot[c])
    BY <1>5 DEF TypeInv, Holds, AuthenticInv, Carries, SaveVisit
  <2>2. KeysAreSigned(pins')
    BY <1>5, <2>1, VisitIsSigned DEF SaveVisit
  <2> QED
    BY <1>5, <2>2, EndCarriesNothing
       DEF SaveVisit, AuthenticInv, AuthenticSites, PinnedKeysAreSigned
<1> QED
  BY <1>1, <1>2, <1>3, <1>4, <1>5, MixedSteps, AuthenticInvInductive
     DEF RustOnly

(* Whatever mixture of Python and Rust clients swaps a directory, it holds *)
(* one complete version that its author signed and named                   *)
(* (check_downloaded_bundle, write_site).                                  *)
THEOREM MixedSitesAreAuthentic == MixedSpec => []AuthenticSites
<1>1. AuthenticInv => AuthenticSites
  BY DEF AuthenticInv
<1> QED
  BY <1>1, InitIsTyped, MixedTypeInv, InitIsAuthentic, MixedAuthenticInv, PTL
     DEF MixedSpec

(* The key pinned for a name signed a record for that name, although       *)
(* record_visit keeps the key it finds and not the one it visited.         *)
THEOREM MixedKeysAreGenuine == MixedSpec => []PinnedKeysAreSigned
<1>1. AuthenticInv => PinnedKeysAreSigned
  BY DEF AuthenticInv
<1> QED
  BY <1>1, InitIsTyped, MixedTypeInv, InitIsAuthentic, MixedAuthenticInv, PTL
     DEF MixedSpec

(* The renames of store.rs and of serialization.py, interleaved at will,   *)
(* keep a copy that the user has not removed in place or about to be.      *)
THEOREM MixedCopiesAreKept ==
  ASSUME ~ MayDieInSwap
  PROVE  MixedSpec => []CopiesSurviveSwaps
<1>1. Init => CopiesSurviveSwaps
  BY DEF Init, CopiesSurviveSwaps
<1>2. ASSUME TypeInv, CopiesSurviveSwaps, [MixedNext]_vars
      PROVE  CopiesSurviveSwaps'
  <2>1. ASSUME NEW c \in Clients, RustOnly(c) PROVE CopiesSurviveSwaps'
    <3>1. /\ pc'[c] # "moved" /\ pc[c] # "moved"
          /\ \A d \in Clients \ {c} :
               pc'[d] = pc[d] /\ uri'[d] = uri[d] /\ backup'[d] = backup[d]
          /\ UNCHANGED <<site, kept>>
      <4>1. CASE FetchSiteFails(c) \/ SaveVisit(c)
        BY <1>2, <4>1, EndIsTyped DEF FetchSiteFails, SaveVisit
      <4>2. CASE ResolveAndCheck(c) \/ AcceptAndStage(c) \/ LoadForVisit(c)
        BY <1>2, <4>2 DEF TypeInv, TypeOK, ResolveAndCheck, AcceptAndStage,
                          LoadForVisit, Set
      <4> QED
        BY <2>1, <4>1, <4>2 DEF RustOnly
    <3> QED
      BY <1>2, <3>1 DEF CopiesSurviveSwaps
  <2> QED
    BY <1>2, <2>1, MixedSteps, CopiesStay
<1> QED
  BY <1>1, <1>2, InitIsTyped, MixedTypeInv, PTL DEF MixedSpec
-----------------------------------------------------------------------------
\* No other client is in the middle of anything.
Alone(c) == \A d \in Clients \ {c} : pc[d] = "idle"

\* s is by the author the user was last shown for u, and not older.
NotOlder(u, s) ==
  visited[u] # None =>
    /\ s.record.public_key = visited[u].public_key
    /\ s.record.timestamp >= visited[u].record_timestamp

\* What stays true, of what c read earlier, while c is alone.
StillTrue(c) ==
  /\ pc[c] \in Staging \cup {"downloading"} =>
       status[c] = check_pin(pins[uri[c]], record[c].public_key,
                             record[c].timestamp)
  /\ pc[c] = "moved" /\ backup[c] # None => NotOlder(uri[c], backup[c])
  /\ pc[c] \in {"installed", "verified", "pinning"} /\ site[uri[c]] # None =>
       site[uri[c]].record = record[c]
  /\ pc[c] \in {"pinning", "unpinning"} => snapshot[c] = pins

SerialInv ==
  /\ pins = visited
  /\ PinsAreSigned
  /\ CopyIsNotOlder
  /\ \A c \in Clients : StillTrue(c)

\* A name's visits, in one step: by the same author, and not back in time.
Advance ==
  \A u \in Uris : visited[u] # None /\ visited'[u] # None =>
    /\ visited'[u].public_key = visited[u].public_key
    /\ visited'[u].record_timestamp >= visited[u].record_timestamp

(* Alone, a client finds nothing changed between pin check and pin save,   *)
(* so what is saved is the record that was checked.                        *)
LEMMA SavedIsChecked ==
  ASSUME TypeInv, AuthenticInv, SerialInv, NEW c \in Clients, SavePins(c)
  PROVE  /\ pins' = visited'
         /\ PinsAreSigned'
         /\ CopyIsNotOlder'
         /\ Advance
<1> DEFINE u == uri[c]
           r == record[c]
           p == [public_key |-> r.public_key, record_timestamp |-> r.timestamp]
<1>1. /\ u \in Uris
      /\ r \in Records
      /\ r.uri = u
      /\ snapshot[c] = pins
      /\ pins \in PinFiles
      /\ status[c] = check_pin(pins[u], r.public_key, r.timestamp)
      /\ status[c] \in {"UNKNOWN", "MATCH"}
      /\ site[u] # None => site[u].record = r
  BY DEF SavePins, TypeInv, TypeOK, Holds, AuthenticInv, Carries, SerialInv,
         StillTrue, Staging
<1>2. r.public_key \in Authors /\ r.timestamp \in Nat
  BY <1>1, RecordsAssumption
<1>3. pins[u] # None =>
        /\ pins[u] \in Pins
        /\ pins[u].public_key = r.public_key
        /\ r.timestamp >= pins[u].record_timestamp
  BY <1>1, <1>2 DEF check_pin, PinFiles, Pins
<1>4. pins' = [pins EXCEPT ![u] = p]
  <2>1. CASE pins[u] = None
    BY <1>1, <2>1 DEF SavePins, PinsToSave, pin_key, check_pin
  <2>2. CASE pins[u] # None
    <3>1. status[c] = "MATCH"
      BY <1>1, <1>3, <2>2 DEF check_pin
    <3>2. pins' = update_pin_last_seen(pins, u, r)
      BY <1>1, <2>2, <3>1 DEF SavePins, PinsToSave
    <3>3. CASE r.timestamp > pins[u].record_timestamp
      <4>1. [pins[u] EXCEPT !.record_timestamp = r.timestamp] = p
        BY <1>2, <1>3, <2>2 DEF Pins
      <4> QED
        BY <2>2, <3>2, <3>3, <4>1 DEF update_pin_last_seen
    <3>4. CASE ~(r.timestamp > pins[u].record_timestamp)
      <4>1. pins[u] = p
        BY <1>2, <1>3, <2>2, <3>4 DEF Pins
      <4> QED
        BY <1>1, <2>2, <3>2, <3>4, <4>1 DEF update_pin_last_seen, PinFiles
    <3> QED
      BY <3>3, <3>4
  <2> QED
    BY <2>1, <2>2
<1>5. visited' = [visited EXCEPT ![u] = p]
  BY DEF SavePins, Set
<1>6. pins' = visited'
  BY <1>4, <1>5 DEF SerialInv
<1>7. PinsAreSigned'
  BY <1>1, <1>4 DEF SerialInv, PinsAreSigned, PinFiles
<1>8. CopyIsNotOlder'
  BY <1>1, <1>2, <1>5 DEF SavePins, SerialInv, CopyIsNotOlder, TypeInv, TypeOK
<1>9. Advance
  BY <1>1, <1>2, <1>3, <1>5 DEF Advance, SerialInv, TypeInv, TypeOK, Pins
<1> QED
  BY <1>6, <1>7, <1>8, <1>9

(* What a client that is alone read stays true until it uses it: a Python  *)
(* step keeps the serial invariant, and lets visits only advance.          *)
LEMMA PythonSerialInv ==
  ASSUME TypeInv, AuthenticInv, SerialInv, NEW c \in Clients, Alone(c),
         PythonClient(c)
  PROVE  SerialInv' /\ Advance
<1>0. /\ \A u \in Uris : visited[u] # None => visited[u] \in Pins
      /\ \A r \in Records : r.timestamp \in Nat
  BY RecordsAssumption DEF TypeInv, TypeOK
<1>1. UNCHANGED visited => Advance
  BY <1>0 DEF Advance, Pins
<1>2. ASSUME End(c) PROVE \A d \in Clients : StillTrue(d)'
  BY <1>2, EndIsTyped DEF Alone, StillTrue, Staging
<1>3. CASE Resolve(c)
  BY <1>1, <1>3
     DEF Alone, TypeInv, TypeOK, SerialInv, PinsAreSigned, CopyIsNotOlder,
         StillTrue, Resolve, Set, Staging
<1>4. CASE CheckPin(c)
  BY <1>1, <1>4
     DEF Alone, TypeInv, TypeOK, SerialInv, PinsAreSigned, CopyIsNotOlder,
         StillTrue, CheckPin, Set, Staging
<1>5. CASE Download(c) \/ LookAtSite(c)
  BY <1>1, <1>5
     DEF Alone, TypeInv, TypeOK, SerialInv, PinsAreSigned, CopyIsNotOlder,
         StillTrue, Download, LookAtSite, Set, Staging
<1>6. CASE MoveAside(c)
  BY <1>1, <1>6
     DEF Alone, TypeInv, TypeOK, Holds, SerialInv, PinsAreSigned,
         CopyIsNotOlder, NotOlder, StillTrue, MoveAside, Set, Staging
<1>7. CASE MoveIn(c)
  <2>1. /\ uri[c] \in Uris
        /\ record[c] \in Records
        /\ status[c] \in {"UNKNOWN", "MATCH"}
        /\ status[c] = check_pin(pins[uri[c]], record[c].public_key,
                                 record[c].timestamp)
    BY <1>7 DEF MoveIn, TypeInv, Holds, SerialInv, StillTrue, Staging
  <2>2. NotOlder(uri[c], [bundle |-> staged[c], record |-> record[c]])
    BY <1>0, <2>1 DEF check_pin, NotOlder, SerialInv, Pins
  <2>3. CopyIsNotOlder'
    BY <1>7, <2>1, <2>2
       DEF MoveIn, TypeInv, TypeOK, SerialInv, CopyIsNotOlder, NotOlder, Set
  <2>4. \A d \in Clients : StillTrue(d)'
    BY <1>7, <2>1 DEF Alone, MoveIn, TypeInv, TypeOK, SerialInv,
                      StillTrue, Set, Staging
  <2> QED
    BY <1>1, <1>7, <2>3, <2>4 DEF MoveIn, SerialInv, PinsAreSigned
<1>8. CASE SwapFails(c)
  <2>1. CopyIsNotOlder'
    BY <1>8 DEF SwapFails, TypeInv, TypeOK, Holds, SerialInv, StillTrue,
                CopyIsNotOlder, NotOlder, Set
  <2> QED
    BY <1>1, <1>2, <1>8, <2>1 DEF SwapFails, SerialInv, PinsAreSigned
<1>9. CASE Verify(c) \/ LoadPins(c)
  BY <1>1, <1>9
     DEF Alone, TypeInv, TypeOK, SerialInv, PinsAreSigned, CopyIsNotOlder,
         StillTrue, Verify, LoadPins, Set, Staging
<1>10. CASE FetchFails(c) \/ VerifyFails(c) \/ Crash(c)
  BY <1>1, <1>2, <1>10
     DEF SerialInv, PinsAreSigned, CopyIsNotOlder, FetchFails, VerifyFails,
         Crash
<1>11. CASE SavePins(c)
  BY <1>2, <1>11, SavedIsChecked DEF SavePins, SerialInv
<1>12. CASE LoadToUnpin(c)
  BY <1>1, <1>12
     DEF Alone, TypeInv, TypeOK, SerialInv, PinsAreSigned, CopyIsNotOlder,
         StillTrue, LoadToUnpin, Set, Staging
<1>13. CASE SaveUnpinned(c)
  <2>1. uri[c] \in Uris /\ snapshot[c] = pins
    BY <1>13 DEF SaveUnpinned, TypeInv, Holds, SerialInv, StillTrue
  <2>2. /\ pins' = [pins EXCEPT ![uri[c]] = None]
        /\ visited' = [visited EXCEPT ![uri[c]] = None]
    BY <1>13, <2>1 DEF SaveUnpinned, Set
  <2>3. PinsAreSigned' /\ CopyIsNotOlder'
    BY <1>13, <2>1, <2>2
       DEF SaveUnpinned, TypeInv, TypeOK, PinFiles, SerialInv, PinsAreSigned,
           CopyIsNotOlder
  <2>4. Advance
    BY <1>0, <2>1, <2>2 DEF Advance, TypeInv, TypeOK, Pins
  <2> QED
    BY <1>2, <1>13, <2>2, <2>3, <2>4 DEF SaveUnpinned, SerialInv
<1>14. CASE RemoveSite(c)
  BY <1>1, <1>14
     DEF Alone, TypeInv, TypeOK, SerialInv, PinsAreSigned, CopyIsNotOlder,
         StillTrue, RemoveSite, Set, Staging
<1> QED
  BY <1>3, <1>4, <1>5, <1>6, <1>7, <1>8, <1>9, <1>10, <1>11, <1>12, <1>13,
     <1>14 DEF PythonClient, Fetch

(* A Rust client that is alone saves the record that it checked, although  *)
(* record_visit decides by the entry it finds and not by that check.       *)
LEMMA VisitIsChecked ==
  ASSUME TypeInv, AuthenticInv, SerialInv, NEW c \in Clients, SaveVisit(c)
  PROVE  /\ pins' = visited'
         /\ PinsAreSigned'
         /\ CopyIsNotOlder'
         /\ Advance
<1> DEFINE u == uri[c]
           r == record[c]
           p == [public_key |-> r.public_key, record_timestamp |-> r.timestamp]
<1>1. /\ u \in Uris
      /\ r \in Records
      /\ r.uri = u
      /\ snapshot[c] = pins
      /\ pins \in PinFiles
      /\ status[c] = check_pin(pins[u], r.public_key, r.timestamp)
      /\ status[c] \in {"UNKNOWN", "MATCH"}
      /\ site[u] # None => site[u].record = r
  BY DEF SaveVisit, TypeInv, TypeOK, Holds, AuthenticInv, Carries, SerialInv,
         StillTrue, Staging
<1>2. r.public_key \in Authors /\ r.timestamp \in Nat
  BY <1>1, RecordsAssumption
<1>3. pins[u] # None =>
        /\ pins[u] \in Pins
        /\ pins[u].public_key = r.public_key
        /\ r.timestamp >= pins[u].record_timestamp
  BY <1>1, <1>2 DEF check_pin, PinFiles, Pins
<1>4. pins' = [pins EXCEPT ![u] = p]
  <2>1. CASE pins[u] = None
    BY <1>1, <2>1 DEF SaveVisit, record_visit
  <2>2. CASE pins[u] # None
    <3> DEFINE mark == IF r.timestamp > pins[u].record_timestamp
                       THEN r.timestamp ELSE pins[u].record_timestamp
    <3>1. mark = r.timestamp
      BY <1>2, <1>3, <2>2 DEF Pins
    <3>2. [pins[u] EXCEPT !.record_timestamp = mark] = p
      BY <1>3, <2>2, <3>1 DEF Pins
    <3>3. pins' = [pins EXCEPT ![u] = [pins[u] EXCEPT !.record_timestamp = mark]]
      BY <1>1, <2>2 DEF SaveVisit, record_visit
    <3> QED
      BY <3>2, <3>3
  <2> QED
    BY <2>1, <2>2
<1>5. visited' = [visited EXCEPT ![u] = p]
  BY DEF SaveVisit, Set
<1>6. pins' = visited'
  BY <1>4, <1>5 DEF SerialInv
<1>7. PinsAreSigned'
  BY <1>1, <1>4 DEF SerialInv, PinsAreSigned, PinFiles
<1>8. CopyIsNotOlder'
  BY <1>1, <1>2, <1>5 DEF SaveVisit, SerialInv, CopyIsNotOlder, TypeInv, TypeOK
<1>9. Advance
  BY <1>1, <1>2, <1>3, <1>5 DEF Advance, SerialInv, TypeInv, TypeOK, Pins
<1> QED
  BY <1>6, <1>7, <1>8, <1>9

(* So does a Rust client that is alone.                                    *)
LEMMA RustSerialInv ==
  ASSUME TypeInv, AuthenticInv, SerialInv, NEW c \in Clients, Alone(c),
         RustOnly(c)
  PROVE  SerialInv' /\ Advance
<1>0. \A u \in Uris : visited[u] # None => visited[u] \in Pins
  BY DEF TypeInv, TypeOK
<1>1. UNCHANGED visited => Advance
  BY <1>0 DEF Advance, Pins
<1>2. ASSUME End(c) PROVE \A d \in Clients : StillTrue(d)'
  BY <1>2, EndIsTyped DEF Alone, StillTrue, Staging
<1>3. CASE ResolveAndCheck(c)
  <2>1. /\ uri'[c] \in Uris
        /\ status'[c] = check_pin(pins[uri'[c]], record'[c].public_key,
                                  record'[c].timestamp)
        /\ pc'[c] = "downloading"
        /\ \A d \in Clients \ {c} : pc'[d] = "idle"
        /\ UNCHANGED <<pins, site, visited>>
    BY <1>3 DEF Alone, TypeInv, TypeOK, ResolveAndCheck, PinStatus, check_pin,
                Set
  <2>2. \A d \in Clients : StillTrue(d)'
    BY <2>1 DEF StillTrue, Staging
  <2> QED
    BY <1>1, <2>1, <2>2 DEF SerialInv, PinsAreSigned, CopyIsNotOlder
<1>4. CASE AcceptAndStage(c) \/ LoadForVisit(c)
  BY <1>1, <1>4
     DEF Alone, TypeInv, TypeOK, SerialInv, PinsAreSigned, CopyIsNotOlder,
         StillTrue, AcceptAndStage, LoadForVisit, Set, Staging
<1>5. CASE FetchSiteFails(c)
  BY <1>1, <1>2, <1>5
     DEF SerialInv, PinsAreSigned, CopyIsNotOlder, FetchSiteFails
<1>6. CASE SaveVisit(c)
  BY <1>2, <1>6, VisitIsChecked DEF SaveVisit, SerialInv
<1> QED
  BY <1>3, <1>4, <1>5, <1>6 DEF RustOnly

(* What clients of either kind keep, when the user waits for one before the*)
(* next: every step is one of a client that is alone.                      *)
LEMMA InTurn ==
  ASSUME OneAtATime, TypeInv, AuthenticInv, SerialInv, [MixedNext]_vars
  PROVE  SerialInv' /\ [Advance]_vars
<1>1. CASE UNCHANGED vars
  BY <1>1
     DEF SerialInv, PinsAreSigned, CopyIsNotOlder, StillTrue, NotOlder, vars,
         localVars
<1>2. ASSUME NEW c \in Clients, Alone(c), PythonClient(c) \/ RustClient(c)
      PROVE  SerialInv' /\ Advance
  <2>1. PythonClient(c) \/ RustOnly(c)
    BY <1>2 DEF RustClient, fetch_site, swap_into_place, RustOnly,
                PythonClient, Fetch
  <2> QED
    BY <1>2, <2>1, PythonSerialInv, RustSerialInv
<1> QED
  BY <1>1, <1>2 DEF MixedNext, Alone

(* Nothing is pinned, on disk or visited at first. *)
LEMMA InitIsSerial == Init => SerialInv
BY DEF Init, SerialInv, PinsAreSigned, CopyIsNotOlder, StillTrue, Staging

LEMMA SerialInvHolds ==
  ASSUME OneAtATime
  PROVE  MixedSpec => [](TypeInv /\ AuthenticInv /\ SerialInv)
<1>1. TypeInv /\ AuthenticInv /\ SerialInv /\ [MixedNext]_vars => SerialInv'
  BY OneAtATime, InTurn
<1> QED
  BY <1>1, InitIsTyped, MixedTypeInv, InitIsAuthentic, MixedAuthenticInv,
     InitIsSerial, PTL DEF MixedSpec

(* When the user waits for one client before the next, be it Python or     *)
(* Rust and killed whenever it may be, a pin is the key and date of one    *)
(* signed record (fetch_site: nothing comes between check_pin and pin_key).*)
THEOREM PinsOfOneRecord ==
  ASSUME OneAtATime
  PROVE  MixedSpec => []PinsAreSigned
<1>1. SerialInv => PinsAreSigned
  BY DEF SerialInv
<1> QED
  BY <1>1, SerialInvHolds, PTL

(* Then the local copy is never older than, nor by another author than,    *)
(* what the user was last shown, even after fetches that died between the  *)
(* swap and the pin (check_pin comes before the swap, pin_key after it).   *)
THEOREM CopiesAreNotOlder ==
  ASSUME OneAtATime
  PROVE  MixedSpec => []CopyIsNotOlder
<1>1. SerialInv => CopyIsNotOlder
  BY DEF SerialInv
<1> QED
  BY <1>1, SerialInvHolds, PTL

(* And the successful fetches of a name that is not unpinned in between    *)
(* are by one author and never go back in time, whichever program made them*)
(* (pinstore.py, rust/mdp2p-node/src/pinstore.rs).                         *)
THEOREM VisitsAdvance ==
  ASSUME OneAtATime
  PROVE  MixedSpec => VisitsOnlyAdvance
<1>1. TypeInv /\ AuthenticInv /\ SerialInv /\ [MixedNext]_vars
        => [Advance]_vars
  BY OneAtATime, InTurn
<1>2. [Advance]_vars <=>
        [\A u \in Uris : visited[u] # None /\ visited'[u] # None =>
           /\ visited'[u].public_key = visited[u].public_key
           /\ visited'[u].record_timestamp >= visited[u].record_timestamp]_vars
  BY DEF Advance
<1> QED
  BY <1>1, <1>2, SerialInvHolds, PTL DEF MixedSpec, VisitsOnlyAdvance
-----------------------------------------------------------------------------
(* What a client that is alone has put in place stays there until it has   *)
(* pinned it.                                                              *)
InPlace ==
  \A c \in Clients :
    pc[c] \in {"installed", "verified", "pinning"} => site[uri[c]] # None

(* Then only the client that is alone may have moved a copy aside.         *)
CopyBeside(c, u) ==
  IF site[u] # None THEN site[u].record
  ELSE IF pc[c] = "moved" /\ uri[c] = u /\ backup[c] # None
  THEN backup[c].record
  ELSE None

LEMMA CopyWhenAlone ==
  ASSUME NEW c \in Clients, Alone(c)
  PROVE  LocalCopy = [u \in Uris |-> CopyBeside(c, u)]
<1> DEFINE aside(u) == {d \in Clients :
                          pc[d] = "moved" /\ uri[d] = u /\ backup[d] # None}
<1>1. ASSUME NEW u \in Uris
      PROVE  aside(u) = IF pc[c] = "moved" /\ uri[c] = u /\ backup[c] # None
                        THEN {c} ELSE {}
  BY DEF Alone
<1>2. (CHOOSE d \in {c} : TRUE) = c
  OBVIOUS
<1> QED BY <1>1, <1>2 DEF LocalCopy, CopyBeside

LEMMA CopyWhenAloneNext ==
  ASSUME NEW c \in Clients, Alone(c)'
  PROVE  LocalCopy' = [u \in Uris |-> CopyBeside(c, u)']
<1> DEFINE aside(u) == {d \in Clients :
                          pc'[d] = "moved" /\ uri'[d] = u /\ backup'[d] # None}
<1>1. ASSUME NEW u \in Uris
      PROVE  aside(u) = IF pc'[c] = "moved" /\ uri'[c] = u /\ backup'[c] # None
                        THEN {c} ELSE {}
  BY DEF Alone
<1>2. (CHOOSE d \in {c} : TRUE) = c
  OBVIOUS
<1> QED BY <1>1, <1>2 DEF LocalCopy, CopyBeside

(* A client that is alone leaves the others where they are.                *)
LEMMA StaysAlone ==
  ASSUME TypeInv, NEW c \in Clients, Alone(c),
         PythonClient(c) \/ RustClient(c)
  PROVE  Alone(c)'
<1>1. CASE End(c)
  BY <1>1, EndIsTyped DEF Alone
<1>2. CASE \E step \in PCs : pc' = Set(pc, c, step)
  BY <1>2 DEF Alone, Set, TypeInv, TypeOK
<1>3. CASE UNCHANGED pc
  BY <1>3 DEF Alone
<1> QED
  BY <1>1, <1>2, <1>3
     DEF PythonClient, RustClient, Fetch, fetch_site, swap_into_place, PCs,
         Resolve, CheckPin, FetchFails, Download, LookAtSite, MoveAside, MoveIn,
         SwapFails, Verify, VerifyFails, LoadPins, SavePins, LoadToUnpin,
         SaveUnpinned, RemoveSite, Crash, ResolveAndCheck, AcceptAndStage,
         FetchSiteFails, LoadForVisit, SaveVisit

(* Outside of a swap, the copy is what the directory is.                   *)
LEMMA CopyIsTheSite ==
  ASSUME NEW c \in Clients, Alone(c), Alone(c)',
         pc[c] # "moved", pc'[c] # "moved"
  PROVE  /\ LocalCopy = [u \in Uris |->
                           IF site[u] # None THEN site[u].record ELSE None]
         /\ LocalCopy' = [u \in Uris |->
                            IF site'[u] # None THEN site'[u].record ELSE None]
<1>1. \A u : CopyBeside(c, u) = IF site[u] # None THEN site[u].record ELSE None
  BY DEF CopyBeside
<1>2. \A u : CopyBeside(c, u)' = IF site'[u] # None THEN site'[u].record ELSE None
  BY DEF CopyBeside
<1> QED BY <1>1, <1>2, CopyWhenAlone, CopyWhenAloneNext

LEMMA ElementsAreSomething ==
  /\ \A r \in Records : r # None /\ r.timestamp \in Nat
  /\ \A s \in Sites : s # None /\ s.record \in Records
BY NoneAssumption, RecordsAssumption DEF Sites

(* One fetch, or part of one, by a client that is alone is at most one step*)
(* of the promise.                                                         *)
TrustStep == [Trust!Next]_<<pins, visited, LocalCopy>>

LEMMA InPlaceStays ==
  ASSUME TypeInv, InPlace, NEW c \in Clients, Alone(c),
         PythonClient(c) \/ RustClient(c)
  PROVE  InPlace'
<1>1. \A d \in Clients \ {c} : pc'[d] = "idle"
  BY StaysAlone DEF Alone
<1>2. CASE MoveIn(c)
  <2>1. uri[c] \in Uris /\ record[c] \in Records /\ staged[c] \in Bundles
    BY <1>2 DEF MoveIn, TypeInv, Holds, Staging
  <2> DEFINE s == [bundle |-> staged[c], record |-> record[c]]
  <2>2. s \in Sites
    BY <2>1 DEF Sites
  <2>3. s # None
    BY <2>2, ElementsAreSomething
  <2>4. site' = [site EXCEPT ![uri[c]] = s] /\ UNCHANGED uri
    BY <1>2 DEF MoveIn, Set
  <2> HIDE DEF s
  <2>5. site'[uri'[c]] # None
    BY <2>1, <2>3, <2>4 DEF TypeInv, TypeOK
  <2> QED BY <1>1, <2>5 DEF InPlace
<1>3. CASE End(c)
  <2>1. pc'[c] = "idle"
    BY <1>3, EndIsTyped
  <2> QED BY <1>1, <2>1 DEF InPlace
<1>4. CASE Verify(c) \/ LoadPins(c) \/ LoadForVisit(c)
  <2>1. /\ pc[c] \in {"installed", "verified"}
        /\ UNCHANGED <<site, uri>>
    BY <1>4 DEF Verify, LoadPins, LoadForVisit
  <2> QED BY <1>1, <2>1 DEF InPlace
<1>5. ASSUME pc'[c] \notin {"installed", "verified", "pinning"}
      PROVE  InPlace'
  BY <1>1, <1>5 DEF InPlace
<1>6. CASE Resolve(c) \/ CheckPin(c) \/ Download(c) \/ LookAtSite(c)
           \/ MoveAside(c) \/ LoadToUnpin(c) \/ RemoveSite(c)
           \/ ResolveAndCheck(c) \/ AcceptAndStage(c)
  BY <1>5, <1>6 DEF Resolve, CheckPin, Download, LookAtSite, MoveAside,
       LoadToUnpin, RemoveSite, ResolveAndCheck, AcceptAndStage, Set,
       TypeInv, TypeOK
<1> QED
  BY <1>2, <1>3, <1>4, <1>6
     DEF PythonClient, RustClient, Fetch, fetch_site, swap_into_place,
         FetchFails, SwapFails, VerifyFails, SavePins, SaveUnpinned, Crash,
         FetchSiteFails, SaveVisit

(* What is pinned at the end of a visit is the version that is in place.   *)
LEMMA VisitIsShown ==
  ASSUME TypeInv, AuthenticInv, SerialInv, InPlace, NEW c \in Clients,
         Alone(c), SavePins(c) \/ SaveVisit(c)
  PROVE  TrustStep
<1> DEFINE u == uri[c]
           r == record[c]
           p == [public_key |-> r.public_key, record_timestamp |-> r.timestamp]
<1>1. /\ u \in Uris /\ r \in Records /\ r.uri = u
      /\ status[c] = check_pin(pins[u], r.public_key, r.timestamp)
      /\ status[c] \in {"UNKNOWN", "MATCH"}
      /\ site[u] # None /\ site[u].record = r
      /\ pc[c] = "pinning" /\ UNCHANGED site
  BY DEF SavePins, SaveVisit, TypeInv, TypeOK, Holds, AuthenticInv, Carries,
         SerialInv, StillTrue, Staging, InPlace
<1>2. /\ pins' = [pins EXCEPT ![u] = p]
      /\ visited' = [visited EXCEPT ![u] = p]
  <2>1. pins' = visited'
    BY SavedIsChecked, VisitIsChecked
  <2>2. visited' = [visited EXCEPT ![u] = p]
    BY DEF SavePins, SaveVisit, Set
  <2> QED BY <2>1, <2>2 DEF SerialInv
<1>3. pc'[c] = "idle"
  BY EndIsTyped DEF SavePins, SaveVisit
<1>4. Alone(c)'
  BY StaysAlone DEF PythonClient, RustClient, Fetch, fetch_site
<1>5. /\ LocalCopy = [v \in Uris |->
                        IF site[v] # None THEN site[v].record ELSE None]
      /\ LocalCopy' = LocalCopy
  BY <1>1, <1>3, <1>4, CopyIsTheSite
<1>6. LocalCopy[u] = r /\ r # None
  BY <1>1, <1>5, ElementsAreSomething
<1>7. pins[u] # None =>
        r.public_key = pins[u].public_key /\ r.timestamp >= pins[u].record_timestamp
  <2>1. pins[u] \in Pins \cup {None} /\ r.timestamp \in Nat
    BY <1>1, ElementsAreSomething DEF TypeInv, TypeOK, PinFiles
  <2> QED BY <1>1, <2>1 DEF check_pin, Pins
<1>8. Trust!Show(u)
  BY <1>1, <1>2, <1>5, <1>6, <1>7 DEF Trust!Show, Trust!Admits, Trust!KeyAndDate
<1> QED BY <1>1, <1>8 DEF TrustStep, Trust!Next

(* A swap that is finished installs a version that the pin admits; one that*)
(* is not leaves the copy, but for a client killed between its renames.    *)
LEMMA SwapIsOneStep ==
  ASSUME TypeInv, AuthenticInv, SerialInv, NEW c \in Clients, Alone(c),
         MoveAside(c) \/ MoveIn(c) \/ SwapFails(c) \/ Crash(c)
  PROVE  TrustStep
<1> DEFINE u == uri[c]
<1>1. Alone(c)'
  BY StaysAlone DEF PythonClient, RustClient, Fetch, fetch_site,
                    swap_into_place
<1>2. /\ LocalCopy = [v \in Uris |-> CopyBeside(c, v)]
      /\ LocalCopy' = [v \in Uris |-> CopyBeside(c, v)']
  BY <1>1, CopyWhenAlone, CopyWhenAloneNext
<1>3. u \in Uris
  BY DEF MoveAside, MoveIn, SwapFails, Crash, TypeInv, Holds
<1>4. UNCHANGED <<pins, visited>>
  BY DEF MoveAside, MoveIn, SwapFails, Crash
<1>5. CASE MoveAside(c)
  <2>1. /\ pc[c] = "replacing" /\ pc'[c] = "moved" /\ site[u] # None
        /\ backup' = [backup EXCEPT ![c] = site[u]]
        /\ site' = [site EXCEPT ![u] = None] /\ uri' = uri
    BY <1>5 DEF MoveAside, Set, TypeInv, TypeOK
  <2>2. backup'[c] = site[u] /\ site'[u] = None
    BY <1>3, <2>1 DEF TypeInv, TypeOK
  <2>3. ASSUME NEW v \in Uris
        PROVE  CopyBeside(c, v)' = CopyBeside(c, v)
    <3>1. CASE v = u
      BY <2>1, <2>2, <3>1 DEF CopyBeside
    <3>2. CASE v # u
      <4>1. site'[v] = site[v]
        BY <1>3, <2>1, <3>2 DEF TypeInv, TypeOK
      <4> QED BY <2>1, <3>2, <4>1 DEF CopyBeside
    <3> QED BY <3>1, <3>2
  <2> QED BY <1>2, <1>4, <2>3 DEF TrustStep
<1>6. CASE MoveIn(c)
  <2> DEFINE r == record[c]
             s == [bundle |-> staged[c], record |-> r]
  <2>1. /\ pc[c] \in {"placing", "moved"} /\ pc'[c] = "installed"
        /\ site[u] = None /\ site' = [site EXCEPT ![u] = s] /\ uri' = uri
    BY <1>6 DEF MoveIn, Set, TypeInv, TypeOK
  <2>2. /\ r \in Records /\ r.uri = u /\ staged[c] \in Bundles
        /\ status[c] = check_pin(pins[u], r.public_key, r.timestamp)
        /\ status[c] \in {"UNKNOWN", "MATCH"}
    BY <2>1 DEF TypeInv, Holds, AuthenticInv, Carries, SerialInv, StillTrue,
                Staging
  <2>3. s # None /\ s.record = r
    BY <2>2, ElementsAreSomething DEF Sites
  <2> HIDE DEF s
  <2>4. Trust!Admits(u, r)
    <3>1. pins[u] \in Pins \cup {None} /\ r.timestamp \in Nat
      BY <1>3, <2>2, ElementsAreSomething DEF TypeInv, TypeOK, PinFiles
    <3> QED BY <2>2, <3>1 DEF check_pin, Pins, Trust!Admits
  <2>5. ASSUME NEW v \in Uris
        PROVE  CopyBeside(c, v)' = IF v = u THEN r ELSE CopyBeside(c, v)
    <3>1. CASE v = u
      <4>1. site'[u] = s
        BY <1>3, <2>1 DEF TypeInv, TypeOK
      <4> QED BY <2>3, <3>1, <4>1 DEF CopyBeside
    <3>2. CASE v # u
      <4>1. site'[v] = site[v]
        BY <1>3, <2>1, <3>2 DEF TypeInv, TypeOK
      <4> QED BY <2>1, <3>2, <4>1 DEF CopyBeside
    <3> QED BY <3>1, <3>2
  <2>6. LocalCopy' = [LocalCopy EXCEPT ![u] = r]
    BY <1>2, <1>3, <2>5
  <2>7. Trust!Install(u, r)
    BY <1>4, <2>4, <2>6 DEF Trust!Install
  <2> QED BY <1>3, <2>2, <2>7 DEF TrustStep, Trust!Next
<1>7. CASE SwapFails(c)
  <2>1. /\ pc'[c] = "idle" /\ pc[c] \in {"placing", "replacing", "moved"}
        /\ site' = IF pc[c] = "moved" /\ site[u] = None
                   THEN [site EXCEPT ![u] = backup[c]] ELSE site
    BY <1>7, EndIsTyped DEF SwapFails, Set
  <2>2. ASSUME NEW v \in Uris
        PROVE  CopyBeside(c, v)' = CopyBeside(c, v)
    <3>1. CASE v = u /\ pc[c] = "moved" /\ site[u] = None
      <4>1. site'[v] = backup[c]
        BY <1>3, <2>1, <3>1 DEF TypeInv, TypeOK
      <4> QED BY <2>1, <3>1, <4>1 DEF CopyBeside
    <3>2. CASE ~(v = u /\ pc[c] = "moved" /\ site[u] = None)
      <4>1. site'[v] = site[v]
        BY <1>3, <2>1, <3>2 DEF TypeInv, TypeOK
      <4> QED BY <2>1, <3>2, <4>1 DEF CopyBeside
    <3> QED BY <3>1, <3>2
  <2> QED BY <1>2, <1>4, <2>2 DEF TrustStep
<1>8. CASE Crash(c)
  <2>1. pc'[c] = "idle" /\ UNCHANGED site
    BY <1>8, EndIsTyped DEF Crash
  <2>2. PICK w \in Uris : w = u
    BY <1>3
  <2>3. \A v \in Uris \ {w} : CopyBeside(c, v)' = CopyBeside(c, v)
    BY <2>1, <2>2 DEF CopyBeside
  <2>4. CASE site[w] # None
    <3>1. CopyBeside(c, w)' = CopyBeside(c, w)
      BY <2>1, <2>4 DEF CopyBeside
    <3>2. LocalCopy' = LocalCopy
      BY <1>2, <2>3, <3>1
    <3> QED BY <1>4, <3>2 DEF TrustStep
  <2>5. CASE site[w] = None
    <3>1. CopyBeside(c, w)' = None
      BY <2>1, <2>5 DEF CopyBeside
    <3>2. LocalCopy' = [LocalCopy EXCEPT ![w] = None]
      BY <1>2, <2>3, <3>1
    <3> QED BY <1>4, <3>2 DEF TrustStep, Trust!Next, Trust!Discard
  <2> QED BY <2>4, <2>5
<1> QED BY <1>5, <1>6, <1>7, <1>8

LEMMA AloneIsTrustStep ==
  ASSUME TypeInv, AuthenticInv, SerialInv, InPlace, NEW c \in Clients,
         Alone(c), PythonClient(c) \/ RustClient(c)
  PROVE  TrustStep
<1>1. CASE SavePins(c) \/ SaveVisit(c)
  BY <1>1, VisitIsShown
<1>2. CASE MoveAside(c) \/ MoveIn(c) \/ SwapFails(c) \/ Crash(c)
  BY <1>2, SwapIsOneStep
<1>3. Alone(c)'
  BY StaysAlone
<1>4. ASSUME UNCHANGED <<pins, site, visited>>, pc[c] # "moved", pc'[c] # "moved"
      PROVE  TrustStep
  BY <1>3, <1>4, CopyIsTheSite DEF TrustStep
<1>5. CASE FetchFails(c) \/ VerifyFails(c) \/ FetchSiteFails(c)
  BY <1>4, <1>5, EndIsTyped DEF FetchFails, VerifyFails, FetchSiteFails
<1>6. CASE Resolve(c) \/ CheckPin(c) \/ Download(c) \/ LookAtSite(c)
           \/ Verify(c) \/ LoadPins(c) \/ LoadToUnpin(c)
           \/ ResolveAndCheck(c) \/ AcceptAndStage(c) \/ LoadForVisit(c)
  BY <1>4, <1>6 DEF Resolve, CheckPin, Download, LookAtSite, Verify, LoadPins,
       LoadToUnpin, ResolveAndCheck, AcceptAndStage, LoadForVisit, Set,
       TypeInv, TypeOK
<1>7. CASE SaveUnpinned(c)
  <2>1. /\ uri[c] \in Uris /\ snapshot[c] = pins
        /\ pc[c] = "unpinning" /\ pc'[c] = "idle" /\ UNCHANGED site
    BY <1>7, EndIsTyped DEF SaveUnpinned, TypeInv, Holds, SerialInv, StillTrue
  <2>2. /\ pins' = [pins EXCEPT ![uri[c]] = None]
        /\ visited' = [visited EXCEPT ![uri[c]] = None]
    BY <1>7, <2>1 DEF SaveUnpinned, Set
  <2>3. UNCHANGED LocalCopy
    BY <1>3, <2>1, CopyIsTheSite
  <2> QED BY <2>1, <2>2, <2>3 DEF TrustStep, Trust!Next, Trust!Unpin
<1>8. CASE RemoveSite(c)
  <2>1. /\ \A d \in Clients : pc[d] = "idle"
        /\ UNCHANGED <<pins, visited, pc>>
    BY <1>8 DEF RemoveSite, Alone
  <2>2. PICK u \in Uris : site' = [site EXCEPT ![u] = None]
    BY <1>8, <2>1 DEF RemoveSite, Set
  <2>3. LocalCopy' = [LocalCopy EXCEPT ![u] = None]
    <3>1. /\ LocalCopy = [v \in Uris |->
                            IF site[v] # None THEN site[v].record ELSE None]
          /\ LocalCopy' = [v \in Uris |->
                             IF site'[v] # None THEN site'[v].record ELSE None]
      BY <1>3, <2>1, CopyIsTheSite
    <3>2. \A v \in Uris : site'[v] = IF v = u THEN None ELSE site[v]
      BY <2>2 DEF TypeInv, TypeOK
    <3> QED BY <3>1, <3>2
  <2> QED BY <2>1, <2>3 DEF TrustStep, Trust!Next, Trust!Discard
<1> QED
  BY <1>1, <1>2, <1>5, <1>6, <1>7, <1>8
     DEF PythonClient, RustClient, Fetch, fetch_site, swap_into_place

(* When the user waits for one client before the next, every fetch, failed *)
(* or killed or not, keeps the promise of TrustedSites: the pin is one step*)
(* though its check, the swap and its save are many (fetch_site in         *)
(* peer/peer.py and fetch.rs, _swap_into_place, pinstore.py).              *)
THEOREM VisitsAreAtomic ==
  ASSUME OneAtATime
  PROVE  MixedSpec => AtomicVisits
<1> DEFINE Inv == TypeInv /\ AuthenticInv /\ SerialInv
<1>1. Init => Trust!Init /\ InPlace
  BY DEF Init, Trust!Init, LocalCopy, InPlace
<1>2. Inv /\ InPlace /\ [MixedNext]_vars => InPlace' /\ TrustStep
  <2> SUFFICES ASSUME Inv, InPlace, [MixedNext]_vars PROVE InPlace' /\ TrustStep
    OBVIOUS
  <2>1. CASE UNCHANGED vars
    BY <2>1 DEF vars, localVars, InPlace, TrustStep, LocalCopy
  <2>2. ASSUME NEW c \in Clients, Alone(c), PythonClient(c) \/ RustClient(c)
        PROVE  InPlace' /\ TrustStep
    BY <2>2, InPlaceStays, AloneIsTrustStep
  <2> QED BY OneAtATime, <2>1, <2>2 DEF MixedNext, Alone
<1>3. MixedSpec => []Inv
  BY OneAtATime, SerialInvHolds
<1> HIDE DEF Inv
<1> QED
  BY <1>1, <1>2, <1>3, PTL DEF MixedSpec, AtomicVisits, Trust!Spec, TrustStep

(* Then the mark of a pin only goes up, as ARCHITECTURE.md section 8.6 has *)
(* it: two clients at once are what it takes to lower one.                 *)
THEOREM MarksRiseOneAtATime ==
  ASSUME OneAtATime
  PROVE  MixedSpec => MarksOnlyRise
<1> DEFINE Rise == \A u \in Uris : pins[u] # None /\ pins'[u] # None =>
                     pins'[u].record_timestamp >= pins[u].record_timestamp
<1>1. TypeInv /\ AuthenticInv /\ SerialInv /\ [MixedNext]_vars => [Rise]_vars
  <2>1. TypeInv /\ AuthenticInv /\ SerialInv /\ [MixedNext]_vars
          => [Advance]_vars /\ SerialInv'
    BY OneAtATime, InTurn
  <2>2. SerialInv /\ SerialInv' /\ [Advance]_vars => [Rise]_vars
    BY DEF SerialInv, Advance
  <2> QED BY <2>1, <2>2
<1> QED
  BY <1>1, SerialInvHolds, PTL DEF MixedSpec, MarksOnlyRise
=============================================================================
