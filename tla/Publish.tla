------------------------------ MODULE Publish ------------------------------
(***************************************************************************)
(* An author's machine: `mdp2p publish` (mdp2p_client/commands.py and      *)
(* publish_flow.py, Peer.publish in peer/peer.py), run now and then, and   *)
(* the seeder `mdp2p serve` (mdp2p_client/serve_flow.py) beside it.  The   *)
(* two processes share the directories of the sites; the naming server and *)
(* the DHT are what they see of them.                                      *)
(*                                                                         *)
(* A page is the edition of its text, a manifest the editions of its pages *)
(* and its date, a hash the thing hashed, a signature the thing signed     *)
(* (the key is the author's throughout; the counter `version`, which       *)
(* nobody checks, is left out).  Reviews are module Reviews.               *)
(*                                                                         *)
(* Time passes at two speeds: `now` counts seconds, for the dates of       *)
(* records; age[u] counts half days since u was announced, up to the day   *)
(* after which the DHT forgets it.  A round of announcements takes less    *)
(* than half a day.  The clock is not set back, and an author waits for    *)
(* one publication to end before the next.                                 *)
(***************************************************************************)
EXTENDS Naturals, FiniteSets

CONSTANTS
  Uris,        \* the author's sites
  Active,      \* those the author publishes anew while we watch
  Pages,       \* the pages that a site may have
  MaxEdition,  \* bounds the editions of a page
  MaxDrift,    \* MAX_TIMESTAMP_DRIFT_SECONDS
  MaxTime,     \* bounds the clock
  MaxTries,    \* bounds the publications
  None

ASSUME PublishAssumption ==
  /\ Active \subseteq Uris
  /\ MaxEdition \in Nat \ {0}
  /\ {MaxDrift, MaxTime, MaxTries} \subseteq Nat
  /\ None \notin Uris
  /\ None \notin [files : [Pages -> Nat], timestamp : Nat]
  /\ None \notin [manifest_ref : [files : [Pages -> Nat], timestamp : Nat],
                  timestamp : Nat]

VARIABLES
  now,
  tries,     \* the number of publications started
  files,     \* files[u]: the pages in <data_dir>/<author>_<uri>
  manifest,  \* manifest[u]: manifest.json there, or None
  signature, \* signature[u]: what manifest.sig there signs, or None
  registry,  \* registry[u]: the record the naming server has, or None
  sent,      \* register requests the server may still receive
  pub,       \* the publication under way
  outcome,   \* outcome[u]: what the last publication of u said
  seeder,    \* what serve is doing
  sites,     \* peer.sites of serve
  todo,      \* the sites that a round of _announce_all has still to come to
  age,       \* age[u]: how long ago the DHT was told of u; 2 when it forgot
  failed     \* failed[u]: did serve's last announcement of u fail?

disk == <<files, manifest, signature>>
seederVars == <<seeder, sites, todo, age, failed>>
vars == <<now, tries, disk, registry, sent, pub, outcome, seederVars>>

\* Edition 0 is no page.
Editions == [Pages -> 0..MaxEdition]
Manifests == [files : Editions, timestamp : 0..MaxTime]
Requests == [uri : Uris, manifest_ref : Manifests, timestamp : 0..MaxTime]
-----------------------------------------------------------------------------
(* Definitions marked BROKEN are faulty variants of the definition that    *)
(* follows them; no action uses one.                                       *)

Set(f, u, x) == [f EXCEPT ![u] = x]

\* load_bundle does not raise: both files are there, and one is JSON.
Loadable(u) == manifest[u] # None /\ signature[u] # None

(* What the bundle handler answers with is acceptable to a reader that has *)
(* resolved u: _check_downloaded_bundle, on what bundle_to_dict reads.     *)
Fetchable(u) ==
  /\ Loadable(u)
  /\ registry[u] # None
  /\ manifest[u] = registry[u].manifest_ref
  /\ signature[u] = manifest[u]
  /\ \A p \in Pages : manifest[u].files[p] \in {0, files[u][p]}

(* The copy of the pages in `which` from the author's own directory, where *)
(* they are in these editions: a page that is gone there stays in the copy.*)
Copied(u, editions, which) ==
  [p \in Pages |-> IF p \in which /\ editions[p] # 0
                   THEN editions[p] ELSE files[u][p]]
-----------------------------------------------------------------------------
(* do_publish and Peer.publish *)

\* No publication is under way.
Idle == [pc |-> "idle", uri |-> None, attempt |-> 0, record |-> None]

Goto(pc) == pub' = [pub EXCEPT !.pc = pc]

\* An exception leaves do_publish: cli_publish reports the failure.
Raise == pub' = Idle

(* A PermissionError: the first time, fix_permissions may have repaired    *)
(* what was wrong, and do_publish starts again.                            *)
RaisePermission ==
  \/ Raise
  \/ pub.attempt = 0 /\ pub' = [pub EXCEPT !.pc = "copying", !.attempt = 1]

StartPublish(u) ==
  /\ pub.pc = "idle"
  /\ tries < MaxTries
  /\ tries' = tries + 1
  /\ pub' = [pc |-> "copying", uri |-> u, attempt |-> 0, record |-> None]
  /\ outcome' = Set(outcome, u, "unfinished")
  /\ UNCHANGED <<now, disk, registry, sent, seederVars>>

\* shutil.copy2 for each page, up to the first that cannot be copied
CopyPages ==
  /\ pub.pc = "copying"
  /\ \E editions \in Editions, which \in SUBSET Pages :
       /\ \E p \in Pages : editions[p] # 0
       /\ files' = Set(files, pub.uri, Copied(pub.uri, editions, which))
       /\ \/ which = Pages /\ Goto("manifest")
          \/ RaisePermission
  /\ UNCHANGED <<now, tries, manifest, signature, registry, sent, outcome,
                 seederVars>>

\* create_manifest, sign_manifest, and the first half of save_bundle
SaveManifest ==
  /\ pub.pc = "manifest"
  /\ \/ /\ manifest' = Set(manifest, pub.uri,
                           [files |-> files[pub.uri], timestamp |-> now])
        /\ Goto("signature")
     \/ RaisePermission /\ UNCHANGED manifest
     \/ Raise /\ manifest' = Set(manifest, pub.uri, None)
  /\ UNCHANGED <<now, tries, files, signature, registry, sent, outcome,
                 seederVars>>

\* The second half of save_bundle: manifest.sig
SaveSignature ==
  /\ pub.pc = "signature"
  /\ \/ /\ signature' = Set(signature, pub.uri, manifest[pub.uri])
        /\ Goto("register")
     \/ RaisePermission /\ UNCHANGED signature
  /\ UNCHANGED <<now, tries, files, manifest, registry, sent, outcome,
                 seederVars>>

\* build_name_record dates the record anew; the request is on its way.
Register ==
  /\ pub.pc = "register"
  /\ LET record == [uri |-> pub.uri, manifest_ref |-> manifest[pub.uri],
                    timestamp |-> now]
     IN /\ sent' = sent \cup {record}
        /\ pub' = [pub EXCEPT !.pc = "waiting", !.record = record]
  /\ UNCHANGED <<now, tries, disk, registry, outcome, seederVars>>

(* BROKEN: the type of the response is not looked at. *)
RespondAnything(accepted) == Goto("accepted")

\* `if resp.get("type") != "ok": raise`
Respond(accepted) == IF accepted THEN Goto("accepted") ELSE Raise

(* The server handles a request, be it one whose sender gave up long ago:  *)
(* the drift, and NameStore.set for a key that is always the author's.     *)
HandleRegister(r) ==
  /\ r \in sent
  /\ sent' = sent \ {r}
  /\ LET accepted == /\ now - r.timestamp <= MaxDrift
                     /\ \/ registry[r.uri] = None
                        \/ r.timestamp > registry[r.uri].timestamp
     IN /\ registry' = IF accepted
                       THEN Set(registry, r.uri,
                                [manifest_ref |-> r.manifest_ref,
                                 timestamp |-> r.timestamp])
                       ELSE registry
        /\ \/ pub.pc = "waiting" /\ pub.record = r /\ Respond(accepted)
           \/ UNCHANGED pub  \* nobody waits, or the response is lost
  /\ UNCHANGED <<now, tries, disk, outcome, seederVars>>

\* No response comes: client_register raises.
NoResponse ==
  /\ pub.pc = "waiting"
  /\ Raise
  /\ UNCHANGED <<now, tries, disk, registry, sent, outcome, seederVars>>

(* Reviews are asked for, and the publishing peer announces the site to a  *)
(* DHT it knows nobody in (run_peer without bootstrap_multiaddrs).         *)
Succeed ==
  /\ pub.pc = "accepted"
  /\ outcome' = Set(outcome, pub.uri, "ok")
  /\ pub' = Idle
  /\ UNCHANGED <<now, tries, disk, registry, sent, seederVars>>

\* The process of the publication is killed.
KillPublish ==
  /\ pub.pc # "idle"
  /\ pub' = Idle
  /\ UNCHANGED <<now, tries, disk, registry, sent, outcome, seederVars>>

\* remove_seeded_site (mdp2p_client/config.py)
RemoveSite(u) ==
  /\ pub.pc = "idle"
  /\ manifest[u] # None
  /\ files' = Set(files, u, [p \in Pages |-> 0])
  /\ manifest' = Set(manifest, u, None)
  /\ signature' = Set(signature, u, None)
  /\ outcome' = Set(outcome, u, "removed")
  /\ UNCHANGED <<now, tries, registry, sent, pub, seederVars>>
-----------------------------------------------------------------------------
(* do_serve *)

\* Peer.attach: _rediscover_local_sites
StartServe ==
  /\ seeder = "down"
  /\ seeder' = "announcing"
  /\ sites' = {u \in Uris : Loadable(u)}
  /\ todo' = sites'
  /\ UNCHANGED <<now, tries, disk, registry, sent, pub, outcome, age,
                 failed>>

\* announce and dht.provide
Announce(u) ==
  /\ seeder = "announcing"
  /\ u \in todo
  /\ Loadable(u)
  /\ todo' = todo \ {u}
  /\ age' = Set(age, u, 0)
  /\ failed' = Set(failed, u, FALSE)
  /\ UNCHANGED <<now, tries, disk, registry, sent, pub, outcome, seeder,
                 sites>>

(* BROKEN: the `try` is around the loop: the sites after it are left out.  *)
AnnounceFailsAndStops(u) ==
  /\ seeder = "announcing"
  /\ u \in todo
  /\ todo' = {}
  /\ failed' = Set(failed, u, TRUE)
  /\ UNCHANGED <<now, tries, disk, registry, sent, pub, outcome, seeder,
                 sites, age>>

(* dht.provide fails or raises, or load_bundle raises, as for a directory  *)
(* that was removed, or whose files are being written.                     *)
AnnounceFails(u) ==
  /\ seeder = "announcing"
  /\ u \in todo
  /\ todo' = todo \ {u}
  /\ failed' = Set(failed, u, TRUE)
  /\ UNCHANGED <<now, tries, disk, registry, sent, pub, outcome, seeder,
                 sites, age>>

RoundEnds ==
  /\ seeder = "announcing"
  /\ todo = {}
  /\ seeder' = "sleeping"
  /\ UNCHANGED <<now, tries, disk, registry, sent, pub, outcome, sites,
                 todo, age, failed>>

Older == [u \in Uris |-> IF age[u] = 2 THEN 2 ELSE age[u] + 1]

(* BROKEN: only what the DHT still knows is announced again. *)
HalfDayForKnown ==
  /\ seeder = "sleeping"
  /\ seeder' = "announcing"
  /\ todo' = {u \in sites : age[u] < 2}
  /\ age' = Older
  /\ UNCHANGED <<now, tries, disk, registry, sent, pub, outcome, sites,
                 failed>>

\* REANNOUNCE_INTERVAL_SECONDS have passed, for list(peer.sites.keys()).
HalfDay ==
  /\ seeder = "sleeping"
  /\ seeder' = "announcing"
  /\ todo' = sites
  /\ age' = Older
  /\ UNCHANGED <<now, tries, disk, registry, sent, pub, outcome, sites,
                 failed>>

StopServe ==
  /\ seeder # "down"
  /\ seeder' = "down"
  /\ sites' = {}
  /\ todo' = {}
  /\ failed' = [u \in Uris |-> FALSE]
  /\ UNCHANGED <<now, tries, disk, registry, sent, pub, outcome, age>>

HalfDayDown ==
  /\ seeder = "down"
  /\ age' = Older
  /\ UNCHANGED <<now, tries, disk, registry, sent, pub, outcome, seeder,
                 sites, todo, failed>>

Tick ==
  /\ now < MaxTime
  /\ now' = now + 1
  /\ UNCHANGED <<tries, disk, registry, sent, pub, outcome, seederVars>>
-----------------------------------------------------------------------------
\* Some sites were published at time 0, in their first edition.
FirstEdition == [files |-> [p \in Pages |-> 1], timestamp |-> 0]
FirstRecord == [manifest_ref |-> FirstEdition, timestamp |-> 0]

Init ==
  /\ now = 0
  /\ tries = 0
  /\ \E published \in SUBSET Uris :
       /\ files = [u \in Uris |-> IF u \in published THEN FirstEdition.files
                                 ELSE [p \in Pages |-> 0]]
       /\ manifest = [u \in Uris |-> IF u \in published THEN FirstEdition
                                    ELSE None]
       /\ registry = [u \in Uris |-> IF u \in published THEN FirstRecord
                                    ELSE None]
       /\ outcome = [u \in Uris |-> IF u \in published THEN "ok" ELSE "none"]
  /\ signature = manifest
  /\ sent = {}
  /\ pub = Idle
  /\ seeder = "down"
  /\ sites = {}
  /\ todo = {}
  /\ age = [u \in Uris |-> 2]
  /\ failed = [u \in Uris |-> FALSE]

Publication ==
  \/ \E u \in Active : StartPublish(u)
  \/ \E u \in Uris : RemoveSite(u)
  \/ CopyPages \/ SaveManifest \/ SaveSignature
  \/ Register \/ NoResponse \/ Succeed \/ KillPublish

\* A request that is lost is one that is never handled.
Server == \E r \in sent : HandleRegister(r)

Seeding ==
  \/ StartServe \/ RoundEnds \/ HalfDay \/ StopServe \/ HalfDayDown
  \/ \E u \in Uris : Announce(u) \/ AnnounceFails(u)

Next ==
  \/ Publication
  \/ Server
  \/ Seeding
  \/ Tick

(* The loop of serve goes on, and an announcement that is tried over and   *)
(* over succeeds some time.  Nothing is asked of the author.               *)
Fairness ==
  /\ WF_vars(RoundEnds)
  /\ WF_vars(HalfDay)
  /\ \A u \in Uris :
       /\ WF_vars(Announce(u) \/ AnnounceFails(u))
       /\ SF_vars(Announce(u))

Spec == Init /\ [][Next]_vars /\ Fairness
-----------------------------------------------------------------------------
(* Every variable stays within its type. *)
TypeOK ==
  /\ now \in 0..MaxTime
  /\ tries \in 0..MaxTries
  /\ files \in [Uris -> Editions]
  /\ manifest \in [Uris -> Manifests \cup {None}]
  /\ signature \in [Uris -> Manifests \cup {None}]
  /\ registry \in [Uris -> [manifest_ref : Manifests,
                            timestamp : 0..MaxTime] \cup {None}]
  /\ sent \subseteq Requests
  /\ pub \in [pc : {"idle", "copying", "manifest", "signature", "register",
                    "waiting", "accepted"},
              uri : Uris \cup {None}, attempt : {0, 1}, record : Requests \cup {None}]
  /\ outcome \in [Uris -> {"none", "unfinished", "ok", "removed"}]
  /\ seeder \in {"down", "announcing", "sleeping"}
  /\ sites \subseteq Uris
  /\ todo \subseteq sites
  /\ age \in [Uris -> 0..2]
  /\ failed \in [Uris -> BOOLEAN]

(* A site whose last publication reported success can be fetched: what is  *)
(* in its directory is what the naming server has, though the files are    *)
(* saved before the name is registered, a publication may be refused for   *)
(* its date, fail half-way or be killed, and the requests of those before  *)
(* it may reach the server later (Peer.publish).                           *)
SuccessIsFetchable == \A u \in Uris : outcome[u] = "ok" => Fetchable(u)

(* Between two rounds, the DHT knows every site that serve has, except     *)
(* those whose own last announcement failed: one that raises takes no      *)
(* other with it (_announce_all: "isolating failures"), and each comes     *)
(* round before the DHT forgets it.                                        *)
KeptFresh ==
  seeder = "sleeping" => \A u \in sites : age[u] < 2 \/ failed[u]

(* A site that serve has is announced some time, however often that fails, *)
(* unless its directory goes or serve is stopped.                          *)
SeededIsFound ==
  \A u \in Uris :
    seeder # "down" /\ u \in sites
      ~> age[u] < 2 \/ ~ Loadable(u) \/ seeder = "down"
=============================================================================
