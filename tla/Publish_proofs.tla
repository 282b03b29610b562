--------------------------- MODULE Publish_proofs ---------------------------
(***************************************************************************)
(* Theorems about Publish: what it says is typed, a publication that says  *)
(* it succeeded can be fetched, and serve's rounds leave no site behind.   *)
(*                                                                         *)
(* SuccessIsFetchable is not inductive: a request of an earlier attempt    *)
(* may be on its way when the success is reported, and the server would    *)
(* let it replace the record if it were newer.  Inv says that it is not,   *)
(* from the moment the record of the later attempt is dated.               *)
(***************************************************************************)
EXTENDS Publish, TLAPS

Records == [manifest_ref : Manifests, timestamp : 0..MaxTime]

(* The publication is past this step: what it wrote is in place.           *)
SavedManifest(u) ==
  manifest[u] # None /\ manifest[u].files = files[u]

Saved(u) == SavedManifest(u) /\ signature[u] = manifest[u]

(* No request that is on its way could replace a record of this date.      *)
NothingNewer(u, t) == \A r \in sent : r.uri = u => r.timestamp <= t

Registered(u) ==
  /\ registry[u] # None
  /\ registry[u].manifest_ref = manifest[u]
  /\ NothingNewer(u, registry[u].timestamp)

(* Where the publication under way stands.                                 *)
Progress ==
  /\ pub.pc # "idle" => pub.uri \in Uris /\ outcome[pub.uri] = "unfinished"
  /\ pub.pc = "signature" => SavedManifest(pub.uri)
  /\ pub.pc \in {"register", "waiting", "accepted"} => Saved(pub.uri)
  /\ pub.pc = "waiting" =>
       /\ pub.record \in Requests
       /\ pub.record.uri = pub.uri
       /\ pub.record.manifest_ref = manifest[pub.uri]
       /\ NothingNewer(pub.uri, pub.record.timestamp)
  /\ pub.pc = "accepted" => Registered(pub.uri)

Published == \A u \in Uris : outcome[u] = "ok" => Fetchable(u) /\ Registered(u)

Pubs ==
  [pc : {"idle", "copying", "manifest", "signature", "register",
         "waiting", "accepted"},
   uri : Uris \cup {None}, attempt : {0, 1}, record : Requests \cup {None}]

(* A request is dated when it is sent.                                     *)
SentIsPast == \A r \in sent : r.timestamp <= now

Inv == TypeOK /\ Progress /\ Published /\ SentIsPast

LEMMA Kinds ==
  /\ None \notin Manifests
  /\ None \notin Records
  /\ None \notin Uris
<1>1. Editions \subseteq [Pages -> Nat]
  BY PublishAssumption DEF Editions
<1>2. Manifests \subseteq [files : [Pages -> Nat], timestamp : Nat]
  BY <1>1, PublishAssumption DEF Manifests
<1>3. Records \subseteq [manifest_ref : [files : [Pages -> Nat], timestamp : Nat],
                         timestamp : Nat]
  BY <1>2, PublishAssumption DEF Records
<1> QED
  BY <1>2, <1>3, PublishAssumption

(* How a step leaves the publication.                                      *)
LEMMA Gone ==
  ASSUME pub \in Pubs, NEW p, Goto(p),
         p \in {"manifest", "signature", "register", "waiting", "accepted"}
  PROVE  /\ pub' \in Pubs
         /\ pub'.pc = p /\ pub'.uri = pub.uri /\ pub'.record = pub.record
<1>1. pub' = [pc |-> p, uri |-> pub.uri, attempt |-> pub.attempt,
              record |-> pub.record]
  BY DEF Goto, Pubs
<1> QED
  BY <1>1 DEF Pubs

LEMMA Raised ==
  ASSUME Raise
  PROVE  pub' \in Pubs /\ pub'.pc = "idle"
BY DEF Raise, Idle, Pubs

LEMMA RaisedPermission ==
  ASSUME pub \in Pubs, RaisePermission
  PROVE  /\ pub' \in Pubs
         /\ \/ pub'.pc = "idle"
            \/ pub'.pc = "copying" /\ pub'.uri = pub.uri
<1>1. CASE Raise
  BY <1>1, Raised
<1>2. CASE pub' = [pub EXCEPT !.pc = "copying", !.attempt = 1]
  <2>1. pub' = [pc |-> "copying", uri |-> pub.uri, attempt |-> 1,
                record |-> pub.record]
    BY <1>2 DEF Pubs
  <2> QED
    BY <2>1 DEF Pubs
<1> QED
  BY <1>1, <1>2 DEF RaisePermission

LEMMA InitInv == Init => Inv
<1> SUFFICES ASSUME Init PROVE Inv
  OBVIOUS
<1>1. FirstEdition \in Manifests /\ FirstRecord \in Records
  BY PublishAssumption DEF FirstEdition, FirstRecord, Manifests, Editions, Records
<1>2. [p \in Pages |-> 0] \in Editions
  BY PublishAssumption DEF Editions
<1>3. PICK published \in SUBSET Uris :
        /\ files = [u \in Uris |-> IF u \in published THEN FirstEdition.files
                                   ELSE [p \in Pages |-> 0]]
        /\ manifest = [u \in Uris |-> IF u \in published THEN FirstEdition
                                      ELSE None]
        /\ registry = [u \in Uris |-> IF u \in published THEN FirstRecord
                                      ELSE None]
        /\ outcome = [u \in Uris |-> IF u \in published THEN "ok" ELSE "none"]
  BY DEF Init
<1>4. FirstEdition.files \in Editions
  BY <1>1 DEF Manifests
<1>5. TypeOK
  BY <1>1, <1>2, <1>3, <1>4, PublishAssumption DEF Init, TypeOK, Idle, Records
<1>6. Published
  <2> SUFFICES ASSUME NEW u \in Uris, outcome[u] = "ok"
               PROVE  Fetchable(u) /\ Registered(u)
    BY DEF Published
  <2>1. u \in published
    BY <1>3
  <2>2. /\ manifest[u] = FirstEdition
        /\ signature[u] = FirstEdition
        /\ registry[u] = FirstRecord
        /\ files[u] = FirstEdition.files
    BY <1>3, <2>1 DEF Init
  <2>3. sent = {}
    BY DEF Init
  <2>4. FirstRecord.manifest_ref = FirstEdition
    BY DEF FirstRecord
  <2> QED
    BY <1>1, <2>2, <2>3, <2>4, Kinds
       DEF Fetchable, Loadable, Registered, NothingNewer
<1> QED
  BY <1>5, <1>6 DEF Init, Inv, Progress, SentIsPast, Idle

(* Only the directory of the site that is being published may change.      *)
LEMMA OthersStay ==
  ASSUME NEW u \in Uris, Fetchable(u), Registered(u),
         files'[u] = files[u], manifest'[u] = manifest[u],
         signature'[u] = signature[u], registry'[u] = registry[u],
         \A r \in sent' : r.uri = u => r \in sent \/ r.timestamp <= registry[u].timestamp
  PROVE  Fetchable(u)' /\ Registered(u)'
BY DEF Fetchable, Loadable, Registered, NothingNewer

LEMMA StartPublishInv ==
  ASSUME Inv, NEW v \in Uris, StartPublish(v) PROVE Inv'
<1>1. TypeOK'
  BY PublishAssumption DEF Inv, TypeOK, StartPublish, Set, disk, seederVars
<1>2. Published'
  BY OthersStay DEF Inv, TypeOK, Published, StartPublish, Set, disk
<1> QED
  BY <1>1, <1>2 DEF Inv, TypeOK, Progress, SentIsPast, StartPublish, Set, disk

LEMMA CopyPagesInv ==
  ASSUME Inv, CopyPages PROVE Inv'
<1>0. pub \in Pubs
  BY DEF Inv, TypeOK, Pubs
<1>1. PICK editions \in Editions, which \in SUBSET Pages :
        /\ files' = Set(files, pub.uri, Copied(pub.uri, editions, which))
        /\ \/ which = Pages /\ Goto("manifest")
           \/ RaisePermission
  BY DEF CopyPages
<1>2. pub.uri \in Uris /\ outcome[pub.uri] = "unfinished"
  BY DEF CopyPages, Inv, Progress
<1>3. Copied(pub.uri, editions, which) \in Editions
  BY <1>2 DEF Copied, Editions, Inv, TypeOK
<1>4. pub' \in Pubs
      /\ pub'.pc \in {"idle", "copying", "manifest"}
      /\ (pub'.pc # "idle" => pub'.uri = pub.uri)
  BY <1>0, <1>1, Gone, Raised, RaisedPermission
<1>5. TypeOK'
  BY <1>1, <1>2, <1>3, <1>4 DEF Inv, TypeOK, CopyPages, Set, seederVars, Pubs
<1>6. Progress'
  BY <1>2, <1>4 DEF Progress, CopyPages
<1>7. Published'
  <2> SUFFICES ASSUME NEW u \in Uris, outcome'[u] = "ok"
               PROVE  Fetchable(u)' /\ Registered(u)'
    BY DEF Published
  <2>1. u # pub.uri /\ Fetchable(u) /\ Registered(u)
    BY <1>2 DEF CopyPages, Inv, Published
  <2> QED
    BY <1>1, <2>1, OthersStay DEF CopyPages, Set, Inv, TypeOK
<1> QED
  BY <1>5, <1>6, <1>7 DEF Inv, SentIsPast, CopyPages

LEMMA SaveManifestInv ==
  ASSUME Inv, SaveManifest PROVE Inv'
<1>0. pub \in Pubs
  BY DEF Inv, TypeOK, Pubs
<1>1. pub.uri \in Uris /\ outcome[pub.uri] = "unfinished"
  BY DEF SaveManifest, Inv, Progress
<1> DEFINE new == [files |-> files[pub.uri], timestamp |-> now]
<1>2. new \in Manifests
  BY <1>1 DEF Inv, TypeOK, Manifests
<1>3. \/ manifest' = Set(manifest, pub.uri, new) /\ Goto("signature")
      \/ RaisePermission /\ manifest' = manifest
      \/ Raise /\ manifest' = Set(manifest, pub.uri, None)
  BY DEF SaveManifest
<1>4. /\ manifest' \in [Uris -> Manifests \cup {None}]
      /\ \A u \in Uris : u # pub.uri => manifest'[u] = manifest[u]
  BY <1>1, <1>2, <1>3 DEF Inv, TypeOK, Set
<1>5. /\ pub' \in Pubs
      /\ pub'.pc \in {"idle", "copying", "signature"}
      /\ pub'.pc # "idle" => pub'.uri = pub.uri
      /\ pub'.pc = "signature" => manifest'[pub.uri] = new
  BY <1>0, <1>1, <1>3, Gone, Raised, RaisedPermission DEF Inv, TypeOK, Set
<1>6. TypeOK'
  BY <1>4, <1>5 DEF Inv, TypeOK, SaveManifest, seederVars, Pubs
<1>7. Progress'
  BY <1>1, <1>2, <1>5, Kinds DEF Progress, SaveManifest, SavedManifest
<1>8. Published'
  <2> SUFFICES ASSUME NEW u \in Uris, outcome'[u] = "ok"
               PROVE  Fetchable(u)' /\ Registered(u)'
    BY DEF Published
  <2>1. u # pub.uri /\ Fetchable(u) /\ Registered(u)
    BY <1>1 DEF SaveManifest, Inv, Published
  <2> QED
    BY <1>4, <2>1, OthersStay DEF SaveManifest
<1> QED
  BY <1>6, <1>7, <1>8 DEF Inv, SentIsPast, SaveManifest

LEMMA SaveSignatureInv ==
  ASSUME Inv, SaveSignature PROVE Inv'
<1>0. pub \in Pubs
  BY DEF Inv, TypeOK, Pubs
<1>1. /\ pub.uri \in Uris /\ outcome[pub.uri] = "unfinished"
      /\ SavedManifest(pub.uri)
  BY DEF SaveSignature, Inv, Progress
<1>2. \/ signature' = Set(signature, pub.uri, manifest[pub.uri])
         /\ Goto("register")
      \/ RaisePermission /\ signature' = signature
  BY DEF SaveSignature
<1>3. /\ signature' \in [Uris -> Manifests \cup {None}]
      /\ \A u \in Uris : u # pub.uri => signature'[u] = signature[u]
  BY <1>1, <1>2 DEF Inv, TypeOK, Set
<1>4. /\ pub' \in Pubs
      /\ pub'.pc \in {"idle", "copying", "register"}
      /\ pub'.pc # "idle" => pub'.uri = pub.uri
      /\ pub'.pc = "register" => signature'[pub.uri] = manifest[pub.uri]
  BY <1>0, <1>1, <1>2, Gone, Raised, RaisedPermission DEF Inv, TypeOK, Set
<1>5. TypeOK'
  BY <1>3, <1>4 DEF Inv, TypeOK, SaveSignature, seederVars, Pubs
<1>6. Progress'
  BY <1>1, <1>4 DEF Progress, SaveSignature, SavedManifest, Saved
<1>7. Published'
  <2> SUFFICES ASSUME NEW u \in Uris, outcome'[u] = "ok"
               PROVE  Fetchable(u)' /\ Registered(u)'
    BY DEF Published
  <2>1. u # pub.uri /\ Fetchable(u) /\ Registered(u)
    BY <1>1 DEF SaveSignature, Inv, Published
  <2> QED
    BY <1>3, <2>1, OthersStay DEF SaveSignature
<1> QED
  BY <1>5, <1>6, <1>7 DEF Inv, SentIsPast, SaveSignature

LEMMA RegisterInv ==
  ASSUME Inv, Register PROVE Inv'
<1> DEFINE record == [uri |-> pub.uri, manifest_ref |-> manifest[pub.uri],
                      timestamp |-> now]
<1>1. /\ pub.uri \in Uris /\ outcome[pub.uri] = "unfinished"
      /\ Saved(pub.uri)
  BY DEF Register, Inv, Progress
<1>2. record \in Requests
  BY <1>1 DEF Requests, Inv, TypeOK, Saved, SavedManifest
<1>3. sent' = sent \cup {record}
  BY DEF Register
<1>4. /\ pub' \in Pubs
      /\ pub'.pc = "waiting" /\ pub'.uri = pub.uri /\ pub'.record = record
  <2>1. pub' = [pc |-> "waiting", uri |-> pub.uri, attempt |-> pub.attempt,
                record |-> record]
    BY DEF Register, Inv, TypeOK
  <2> QED
    BY <1>2, <2>1 DEF Pubs, Inv, TypeOK
<1>5. TypeOK'
  BY <1>2, <1>3, <1>4 DEF Inv, TypeOK, Register, disk, seederVars, Pubs
<1>6. SentIsPast'
  BY <1>3, PublishAssumption DEF Register, Inv, SentIsPast, TypeOK
<1>7. NothingNewer(pub.uri, now)'
  BY <1>6 DEF Register, NothingNewer, SentIsPast
<1>8. Progress'
  BY <1>1, <1>2, <1>4, <1>7
     DEF Progress, Register, disk, Saved, SavedManifest, NothingNewer
<1>9. Published'
  <2> SUFFICES ASSUME NEW u \in Uris, outcome'[u] = "ok"
               PROVE  Fetchable(u)' /\ Registered(u)'
    BY DEF Published
  <2>1. u # pub.uri /\ Fetchable(u) /\ Registered(u)
    BY <1>1 DEF Register, Inv, Published
  <2> QED
    BY <1>3, <2>1, OthersStay DEF Register, disk
<1> QED
  BY <1>5, <1>6, <1>8, <1>9 DEF Inv

(* The heart of the matter: the server takes a request only if it is newer *)
(* than what it has, and none that is on its way is newer than the record  *)
(* of a publication that succeeded or is about to.                         *)
LEMMA HandleRegisterInv ==
  ASSUME Inv, NEW r, HandleRegister(r) PROVE Inv'
<1> DEFINE entry == [manifest_ref |-> r.manifest_ref, timestamp |-> r.timestamp]
           accepted == /\ now - r.timestamp <= MaxDrift
                       /\ \/ registry[r.uri] = None
                          \/ r.timestamp > registry[r.uri].timestamp
<1>1. /\ r \in sent /\ r \in Requests
      /\ sent' = sent \ {r}
  BY DEF HandleRegister, Inv, TypeOK
<1>2. /\ r.uri \in Uris
      /\ r.timestamp \in Nat
      /\ entry \in Records
  BY <1>1, PublishAssumption DEF Requests, Records
<1>3. registry' = IF accepted THEN Set(registry, r.uri, entry) ELSE registry
  BY DEF HandleRegister
<1>4. \/ pub.pc = "waiting" /\ pub.record = r /\ Respond(accepted)
      \/ pub' = pub
  BY DEF HandleRegister
<1>5. /\ registry' \in [Uris -> Records \cup {None}]
      /\ \A u \in Uris : u # r.uri => registry'[u] = registry[u]
      /\ accepted => registry'[r.uri] = entry
      /\ ~accepted => registry' = registry
  BY <1>2, <1>3 DEF Inv, TypeOK, Set, Records
<1>6. \/ pub' = pub
      \/ pub' \in Pubs /\ pub'.pc = "idle"
      \/ /\ accepted /\ pub.pc = "waiting" /\ pub.record = r
         /\ pub' \in Pubs /\ pub'.pc = "accepted" /\ pub'.uri = pub.uri
  BY <1>4, Gone, Raised DEF Respond, Inv, TypeOK, Pubs
<1>7. TypeOK'
  BY <1>1, <1>5, <1>6 DEF Inv, TypeOK, HandleRegister, disk, seederVars, Pubs, Records
<1>8. SentIsPast'
  BY <1>1 DEF HandleRegister, Inv, SentIsPast
<1>9. ASSUME NEW u \in Uris, Registered(u) PROVE Registered(u)' /\ registry'[u] = registry[u]
  <2>1. CASE u # r.uri
    BY <1>1, <1>5, <1>9, <2>1 DEF Registered, NothingNewer, HandleRegister, disk
  <2>2. CASE u = r.uri
    <3>1. registry[u] \in Records /\ r.timestamp <= registry[u].timestamp
      BY <1>1, <1>9, <2>2 DEF Registered, NothingNewer, Inv, TypeOK, Records
    <3>2. ~accepted
      BY <1>2, <1>9, <2>2, <3>1, PublishAssumption DEF Registered, Records
    <3> QED
      BY <1>1, <1>5, <1>9, <3>2 DEF Registered, NothingNewer, HandleRegister, disk
  <2> QED
    BY <2>1, <2>2
<1>10. Published'
  BY <1>9 DEF Published, Inv, HandleRegister, disk, Fetchable, Loadable
<1>11. Progress'
  <2>1. CASE pub' = pub
    BY <1>1, <1>9, <2>1
       DEF Progress, Inv, HandleRegister, disk, Saved, SavedManifest, NothingNewer
  <2>2. CASE pub'.pc = "idle"
    BY <2>2 DEF Progress
  <2>3. CASE /\ accepted /\ pub.pc = "waiting" /\ pub.record = r
             /\ pub'.pc = "accepted" /\ pub'.uri = pub.uri
    <3>1. /\ pub.uri \in Uris /\ outcome[pub.uri] = "unfinished"
          /\ Saved(pub.uri)
          /\ r.uri = pub.uri /\ r.manifest_ref = manifest[pub.uri]
          /\ NothingNewer(pub.uri, r.timestamp)
      BY <2>3 DEF Progress, Inv
    <3>2. registry'[pub.uri] = entry /\ entry # None
      BY <1>2, <1>5, <2>3, <3>1, Kinds
    <3>3. Registered(pub.uri)'
      BY <1>1, <2>3, <3>1, <3>2 DEF Registered, NothingNewer, HandleRegister, disk
    <3> QED
      BY <2>3, <3>1, <3>3 DEF Progress, HandleRegister, disk, Saved, SavedManifest
  <2> QED
    BY <1>6, <2>1, <2>2, <2>3
<1> QED
  BY <1>7, <1>8, <1>10, <1>11 DEF Inv

LEMMA StopInv ==
  ASSUME Inv, NoResponse \/ KillPublish PROVE Inv'
<1>1. pub' \in Pubs /\ pub'.pc = "idle"
  BY Raised DEF NoResponse, KillPublish, Raise
<1>2. TypeOK'
  BY <1>1 DEF Inv, TypeOK, NoResponse, KillPublish, disk, seederVars, Pubs
<1>3. Published'
  BY DEF Inv, Published, NoResponse, KillPublish, disk, Fetchable, Loadable,
         Registered, NothingNewer
<1> QED
  BY <1>1, <1>2, <1>3
     DEF Inv, Progress, SentIsPast, NoResponse, KillPublish

LEMMA SucceedInv ==
  ASSUME Inv, Succeed PROVE Inv'
<1>1. /\ pub.uri \in Uris
      /\ Saved(pub.uri) /\ Registered(pub.uri)
  BY DEF Succeed, Inv, Progress
<1>2. pub' \in Pubs /\ pub'.pc = "idle"
  BY Raised DEF Succeed, Raise
<1>3. TypeOK'
  BY <1>1, <1>2 DEF Inv, TypeOK, Succeed, Set, disk, seederVars, Pubs
<1>4. Fetchable(pub.uri)
  <2>1. manifest[pub.uri] \in Manifests
    BY <1>1 DEF Inv, TypeOK, Saved, SavedManifest
  <2> QED
    BY <1>1, <2>1, Kinds
       DEF Saved, SavedManifest, Registered, Fetchable, Loadable
<1>5. Published'
  <2> SUFFICES ASSUME NEW u \in Uris, outcome'[u] = "ok"
               PROVE  Fetchable(u)' /\ Registered(u)'
    BY DEF Published
  <2>1. Fetchable(u) /\ Registered(u)
    BY <1>1, <1>4 DEF Succeed, Set, Inv, Published, TypeOK
  <2> QED
    BY <2>1, OthersStay DEF Succeed, disk
<1> QED
  BY <1>2, <1>3, <1>5 DEF Inv, Progress, SentIsPast, Succeed

LEMMA RemoveSiteInv ==
  ASSUME Inv, NEW v \in Uris, RemoveSite(v) PROVE Inv'
<1>1. [p \in Pages |-> 0] \in Editions
  BY PublishAssumption DEF Editions
<1>2. TypeOK'
  BY <1>1 DEF Inv, TypeOK, RemoveSite, Set, seederVars
<1>3. Published'
  <2> SUFFICES ASSUME NEW u \in Uris, outcome'[u] = "ok"
               PROVE  Fetchable(u)' /\ Registered(u)'
    BY DEF Published
  <2>1. u # v /\ Fetchable(u) /\ Registered(u)
    BY DEF RemoveSite, Set, Inv, Published, TypeOK
  <2> QED
    BY <2>1, OthersStay DEF RemoveSite, Set, Inv, TypeOK
<1> QED
  BY <1>2, <1>3 DEF Inv, Progress, SentIsPast, RemoveSite

(* serve looks at the directories and at nothing else of a publication.    *)
LEMMA SeedingInv ==
  ASSUME Inv, Seeding PROVE Inv'
<1>1. UNCHANGED <<now, tries, disk, registry, sent, pub, outcome>>
  BY DEF Seeding, StartServe, RoundEnds, HalfDay, StopServe, HalfDayDown,
         Announce, AnnounceFails
<1> DEFINE SeederIsTyped ==
      /\ seeder \in {"down", "announcing", "sleeping"}
      /\ sites \subseteq Uris
      /\ todo \subseteq sites
      /\ age \in [Uris -> 0..2]
      /\ failed \in [Uris -> BOOLEAN]
<1>2. SeederIsTyped'
  <2>1. Older \in [Uris -> 0..2]
    BY DEF Older, Inv, TypeOK
  <2>2. CASE StartServe
    BY <2>2 DEF StartServe, Inv, TypeOK
  <2>3. CASE RoundEnds \/ HalfDay
    BY <2>1, <2>3 DEF RoundEnds, HalfDay, Inv, TypeOK
  <2>4. CASE StopServe \/ HalfDayDown
    BY <2>1, <2>4 DEF StopServe, HalfDayDown, Inv, TypeOK
  <2>5. ASSUME NEW u \in Uris, Announce(u) PROVE SeederIsTyped'
    BY <2>5 DEF Announce, Set, Inv, TypeOK
  <2>6. ASSUME NEW u \in Uris, AnnounceFails(u) PROVE SeederIsTyped'
    BY <2>6 DEF AnnounceFails, Set, Inv, TypeOK
  <2> QED
    BY <2>2, <2>3, <2>4, <2>5, <2>6 DEF Seeding
<1>3. TypeOK'
  BY <1>1, <1>2 DEF Inv, TypeOK, disk
<1> QED
  BY <1>1, <1>3 DEF Inv, Progress, Published, SentIsPast, Saved, SavedManifest,
     Registered, NothingNewer, Fetchable, Loadable, disk

LEMMA TickInv ==
  ASSUME Inv, Tick PROVE Inv'
<1>1. TypeOK'
  BY PublishAssumption DEF Inv, TypeOK, Tick, disk, seederVars
<1>2. SentIsPast'
  BY PublishAssumption DEF Inv, TypeOK, SentIsPast, Requests, Tick
<1> QED
  BY <1>1, <1>2 DEF Inv, Progress, Published, Saved, SavedManifest,
     Registered, NothingNewer, Fetchable, Loadable, Tick, disk

LEMMA StutterInv ==
  ASSUME Inv, UNCHANGED vars PROVE Inv'
BY DEF vars, disk, seederVars, Inv, TypeOK, Progress, Published, SentIsPast,
   Saved, SavedManifest, Registered, NothingNewer, Fetchable, Loadable

LEMMA StepInv == Inv /\ [Next]_vars => Inv'
<1> SUFFICES ASSUME Inv, [Next]_vars PROVE Inv'
  OBVIOUS
<1>1. CASE Publication
  BY <1>1, PublishAssumption, StartPublishInv, RemoveSiteInv, CopyPagesInv,
     SaveManifestInv, SaveSignatureInv, RegisterInv, StopInv, SucceedInv
     DEF Publication
<1>2. CASE Server
  BY <1>2, HandleRegisterInv DEF Server
<1>3. CASE Seeding
  BY <1>3, SeedingInv
<1>4. CASE Tick
  BY <1>4, TickInv
<1> QED
  BY <1>1, <1>2, <1>3, <1>4, StutterInv DEF Next

(* Inv, on which the theorems below rest, holds throughout.                *)
THEOREM Invariant == Spec => []Inv
<1>1. Init => Inv
  BY InitInv
<1>2. Inv /\ [Next]_vars => Inv'
  BY StepInv
<1> QED
  BY <1>1, <1>2, PTL DEF Spec

(* Every variable of the author's machine stays within its type, whatever  *)
(* the sites, the drift and the number of publications.                    *)
THEOREM PublishIsTyped == Spec => []TypeOK
<1>1. Inv => TypeOK
  BY DEF Inv
<1> QED
  BY <1>1, Invariant, PTL

(* do_publish never says that a site is published while readers would      *)
(* refuse what its directory holds: for any number of attempts, kills,     *)
(* refusals and requests that arrive late.                                 *)
THEOREM PublishedSitesAreFetchable == Spec => []SuccessIsFetchable
<1>1. Inv => SuccessIsFetchable
  BY DEF Inv, Published, SuccessIsFetchable
<1> QED
  BY <1>1, Invariant, PTL

(* During a round, what KeptFresh says between two holds of the sites that *)
(* it has come to.                                                         *)
ComeTo ==
  seeder = "announcing" =>
    \A u \in sites \ todo : age[u] < 2 \/ failed[u]

(* _periodic_reannounce and _announce_all together keep every site of      *)
(* serve known to the DHT, but for those whose own announcement failed.    *)
THEOREM SitesAreKeptFresh == Spec => []KeptFresh
<1>1. Init => ComeTo /\ KeptFresh
  BY DEF Init, ComeTo, KeptFresh
<1>2. TypeOK /\ ComeTo /\ KeptFresh /\ [Next]_vars => (ComeTo /\ KeptFresh)'
  <2> SUFFICES ASSUME TypeOK, ComeTo, KeptFresh, [Next]_vars
               PROVE  (ComeTo /\ KeptFresh)'
    OBVIOUS
  <2>1. CASE UNCHANGED <<seederVars>>
    BY <2>1 DEF ComeTo, KeptFresh, seederVars
  <2>2. CASE Seeding
    <3>1. CASE StartServe
      BY <3>1 DEF StartServe, ComeTo, KeptFresh
    <3>2. CASE RoundEnds
      BY <3>2 DEF RoundEnds, ComeTo, KeptFresh
    <3>3. CASE HalfDay
      BY <3>3 DEF HalfDay, ComeTo, KeptFresh
    <3>4. CASE StopServe \/ HalfDayDown
      BY <3>4 DEF StopServe, HalfDayDown, ComeTo, KeptFresh
    <3>5. ASSUME NEW u \in Uris, Announce(u) \/ AnnounceFails(u)
          PROVE  (ComeTo /\ KeptFresh)'
      BY <3>5 DEF Announce, AnnounceFails, Set, ComeTo, KeptFresh, TypeOK
    <3> QED
      BY <2>2, <3>1, <3>2, <3>3, <3>4, <3>5 DEF Seeding
  <2>3. CASE Publication \/ Server \/ Tick
    BY <2>1, <2>3 DEF Publication, Server, StartPublish, RemoveSite, CopyPages,
       SaveManifest, SaveSignature, Register, NoResponse, Succeed, KillPublish,
       HandleRegister, Tick
  <2>4. CASE UNCHANGED vars
    BY <2>1, <2>4 DEF vars
  <2> QED
    BY <2>2, <2>3, <2>4 DEF Next
<1> QED
  BY <1>1, <1>2, PublishIsTyped, PTL DEF Spec
=============================================================================
