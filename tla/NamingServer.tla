---------------------------- MODULE NamingServer ----------------------------
(***************************************************************************)
(* The naming server of naming.py as peer_zero.py runs it: four stores     *)
(* (names, reviewer opt-ins, assignment inboxes, attached reviews), each a *)
(* dictionary in memory and a JSON file that is rewritten after every      *)
(* accepted request.                                                       *)
(*                                                                         *)
(* One action per request that can change a store.  A handler has no await *)
(* between reading the request and returning the reply, so it is atomic.   *)
(* A request that is refused changes nothing and is a stuttering step;     *)
(* senders are arbitrary (any record, any signature, any replay), since    *)
(* the server trusts none of them.                                         *)
(***************************************************************************)
EXTENDS SignedRecords, FiniteSets, Sequences, Functions

CONSTANTS
  Uris,           \* names
  Authors,        \* keys that register names
  Publishers,     \* keys that post assignments; peers use one key for both,
                  \* but no handler compares the two
  Reviewers,      \* keys that review
  Timestamps,     \* timestamps a sender may write in a record
  Deadlines,      \* deadlines a publisher may set
  ReviewerLists,  \* sequences of reviewers a publisher may name
  MaxReviewers,   \* MAX_REVIEWERS_PER_ASSIGNMENT
  MaxTime,        \* bound of the model: the clock stops here
  StrictReviews,  \* NamingServer(strict_reviews=...)
  SaveMayFail,    \* may the write of a store's file raise?
  FileMayBeLost,  \* may a store's file be unreadable at start-up?
  None            \* no record

ASSUME ServerAssumption ==
  /\ Timestamps \subseteq Nat
  /\ Deadlines \subseteq Nat
  /\ ReviewerLists \subseteq Seq(Reviewers)
  /\ MaxReviewers \in Nat
  /\ MaxTime \in Nat
  /\ {StrictReviews, SaveMayFail, FileMayBeLost} \subseteq BOOLEAN

VARIABLES
  now,             \* the server's clock
  up,              \* is the process running?
  names,           \* NameStore._records
  namesFile,       \* naming_records.json
  reviewers,       \* ReviewerStore._records
  reviewersFile,   \* reviewers.json
  inbox,           \* AssignmentStore._inbox
  inboxFile,       \* assignments.json
  attachments,     \* AttachmentStore._attachments
  attachmentsFile, \* attachments.json
  acked,           \* acked[u]: last record of u whose sender was told "ok"
  seen             \* seen[u]: last record of u a resolver was given

nameVars   == <<names, namesFile, acked, seen>>
optInVars  == <<reviewers, reviewersFile>>
inboxVars  == <<inbox, inboxFile>>
attachVars == <<attachments, attachmentsFile>>
vars == <<now, up, nameVars, optInVars, inboxVars, attachVars>>

ContentKeys == Uris \X Publishers

NameRecords == [uri : Uris, public_key : Authors, timestamp : Timestamps]
OptIns      == [public_key : Reviewers, timestamp : Timestamps]
Assignments == [uri : Uris, content_key : ContentKeys,
                publisher_public_key : Publishers,
                reviewer_public_keys : ReviewerLists,
                deadline : Deadlines, timestamp : Timestamps]
Reviews     == [content_key : ContentKeys, reviewer_public_key : Reviewers,
                timestamp : Timestamps]

ASSUME NoneAssumption ==
  None \notin NameRecords \cup OptIns \cup Assignments \cup Reviews

NoNames       == [u \in Uris |-> None]
NoReviewers   == [r \in Reviewers |-> None]
NoInbox       == [r \in Reviewers |-> [c \in ContentKeys |-> None]]
NoAttachments == [c \in ContentKeys |-> [r \in Reviewers |-> None]]
-----------------------------------------------------------------------------
(* Definitions marked BROKEN are faulty variants of the definition that    *)
(* follows them; no action uses one.  Putting one in the place of the      *)
(* definition shows which property notices the fault.                      *)

(* BROKEN: the timestamp comparison is forgotten. *)
NewerForgotten(record, held) == TRUE

(* Every store keeps what it holds unless the new record is strictly newer. *)
Newer(record, held) == held # None => record.timestamp > held.timestamp

(* _save: temporary file, then an atomic replace.  Either the file becomes *)
(* the memory just written, or the call raises and the file is untouched.  *)
SaveOutcomes == IF SaveMayFail THEN BOOLEAN ELSE {TRUE}

(* BROKEN: the key comparison is forgotten. *)
NameIsAnyones(record) == TRUE

NameIsFreeOrOwn(record) ==
  LET held == names[record.uri] IN
  held # None => held.public_key = record.public_key

(* NameStore.set assigns the record in memory before it saves, and the     *)
(* assignment stays when the save raises.  "ok" is replied after the save, *)
(* and the reply may be lost.                                              *)
Register(record, signature) ==
  /\ up
  /\ verify_name_record(record, signature, now)
  /\ NameIsFreeOrOwn(record)
  /\ Newer(record, names[record.uri])
  /\ names' = [names EXCEPT ![record.uri] = record]
  /\ \E saved \in SaveOutcomes, replied \in BOOLEAN :
       /\ namesFile' = IF saved THEN names' ELSE namesFile
       /\ acked' = IF saved /\ replied
                   THEN [acked EXCEPT ![record.uri] = record]
                   ELSE acked
  /\ UNCHANGED <<now, up, seen, optInVars, inboxVars, attachVars>>

Resolve(u) ==
  /\ up
  /\ names[u] # None
  /\ seen' = [seen EXCEPT ![u] = names[u]]
  /\ UNCHANGED <<now, up, names, namesFile, acked,
                 optInVars, inboxVars, attachVars>>

RegisterReviewer(record, signature) ==
  /\ up
  /\ verify_reviewer_opt_in(record, signature, now)
  /\ Newer(record, reviewers[record.public_key])
  /\ reviewers' = [reviewers EXCEPT ![record.public_key] = record]
  /\ \E saved \in SaveOutcomes :
       reviewersFile' = IF saved THEN reviewers' ELSE reviewersFile
  /\ UNCHANGED <<now, up, nameVars, inboxVars, attachVars>>

(* BROKEN: registration of the reviewers is not checked. *)
ReviewersAreDistinct(list) ==
  Len(list) <= MaxReviewers /\ IsInjective(list)

(* _check_assignment_reviewers *)
ReviewersAreAcceptable(list) ==
  /\ Len(list) <= MaxReviewers
  /\ IsInjective(list)
  /\ \A r \in Range(list) : reviewers[r] # None

(* AssignmentStore.add keeps, reviewer by reviewer, the newer of the two   *)
(* assignments for this content, and reports success whichever it kept.    *)
PostAssignment(record, signature) ==
  LET c == record.content_key
      Named == Range(record.reviewer_public_keys)
  IN
  /\ up
  /\ verify_review_assignment(record, signature, now)
  /\ StrictReviews => ReviewersAreAcceptable(record.reviewer_public_keys)
  /\ Named # {}
  /\ inbox' = [r \in Reviewers |->
                 IF r \in Named /\ Newer(record, inbox[r][c])
                   THEN [inbox[r] EXCEPT ![c] = record]
                   ELSE inbox[r]]
  /\ \E saved \in SaveOutcomes :
       inboxFile' = IF saved THEN inbox' ELSE inboxFile
  /\ UNCHANGED <<now, up, nameVars, optInVars, attachVars>>

(* BROKEN: the deadline is not compared. *)
ReviewWasEverAssigned(record) ==
  inbox[record.reviewer_public_key][record.content_key] # None

(* _check_review_was_assigned *)
ReviewWasAssigned(record) ==
  LET assignment == inbox[record.reviewer_public_key][record.content_key] IN
  /\ assignment # None
  /\ record.timestamp <= assignment.deadline

AttachReview(record, signature) ==
  LET c == record.content_key
      r == record.reviewer_public_key
  IN
  /\ up
  /\ verify_review_record(record, signature, now)
  /\ StrictReviews => ReviewWasAssigned(record)
  /\ Newer(record, attachments[c][r])
  /\ attachments' = [attachments EXCEPT ![c][r] = record]
  /\ \E saved \in SaveOutcomes :
       attachmentsFile' = IF saved THEN attachments' ELSE attachmentsFile
  /\ UNCHANGED <<now, up, nameVars, optInVars, inboxVars>>
-----------------------------------------------------------------------------
Tick ==
  /\ now < MaxTime
  /\ now' = now + 1
  /\ UNCHANGED <<up, nameVars, optInVars, inboxVars, attachVars>>

(* The process stops; memory is lost.  A request is either wholly before   *)
(* or wholly after it: a death between the assignment and the replace      *)
(* leaves the file as it was, one after the replace leaves it written.     *)
Crash ==
  /\ up
  /\ up' = FALSE
  /\ names' = NoNames
  /\ reviewers' = NoReviewers
  /\ inbox' = NoInbox
  /\ attachments' = NoAttachments
  /\ UNCHANGED <<now, namesFile, reviewersFile, inboxFile, attachmentsFile,
                 acked, seen>>

(* BROKEN: the stores start empty whatever the files hold. *)
LoadedNothing(file, empty) == {empty}

(* _load: a file that cannot be parsed is logged and the store starts      *)
(* empty; the file itself stays until the next save overwrites it.         *)
Loaded(file, empty) == IF FileMayBeLost THEN {file, empty} ELSE {file}

Restart ==
  /\ ~up
  /\ up' = TRUE
  /\ names' \in Loaded(namesFile, NoNames)
  /\ reviewers' \in Loaded(reviewersFile, NoReviewers)
  /\ inbox' \in Loaded(inboxFile, NoInbox)
  /\ attachments' \in Loaded(attachmentsFile, NoAttachments)
  /\ UNCHANGED <<now, namesFile, reviewersFile, inboxFile, attachmentsFile,
                 acked, seen>>
-----------------------------------------------------------------------------
Init ==
  /\ now = 0
  /\ up = TRUE
  /\ names = NoNames /\ namesFile = NoNames
  /\ acked = NoNames /\ seen = NoNames
  /\ reviewers = NoReviewers /\ reviewersFile = NoReviewers
  /\ inbox = NoInbox /\ inboxFile = NoInbox
  /\ attachments = NoAttachments /\ attachmentsFile = NoAttachments

Signatures == Authors \cup Publishers \cup Reviewers \cup {Nobody}

Next ==
  \/ \E m \in NameRecords, s \in Signatures : Register(m, s)
  \/ \E u \in Uris : Resolve(u)
  \/ \E m \in OptIns, s \in Signatures : RegisterReviewer(m, s)
  \/ \E m \in Assignments, s \in Signatures : PostAssignment(m, s)
  \/ \E m \in Reviews, s \in Signatures : AttachReview(m, s)
  \/ Tick
  \/ Crash
  \/ Restart

Spec == Init /\ [][Next]_vars
-----------------------------------------------------------------------------
(* Every variable has its type. *)
NameStore       == [Uris -> NameRecords \cup {None}]
ReviewerStore   == [Reviewers -> OptIns \cup {None}]
AssignmentStore == [Reviewers -> [ContentKeys -> Assignments \cup {None}]]
AttachmentStore == [ContentKeys -> [Reviewers -> Reviews \cup {None}]]

TypeOK ==
  /\ now \in 0 .. MaxTime
  /\ up \in BOOLEAN
  /\ {names, namesFile, acked, seen} \subseteq NameStore
  /\ {reviewers, reviewersFile} \subseteq ReviewerStore
  /\ {inbox, inboxFile} \subseteq AssignmentStore
  /\ {attachments, attachmentsFile} \subseteq AttachmentStore

(* The registry a name's owner relies on is the file: what memory holds is *)
(* gone with the process.  NameStore.set, the failing saves and the        *)
(* restarts together implement the abstract registry on the file: no name  *)
(* changes hands and no record goes back, even when one write persists an  *)
(* update of another name whose own save had failed.                       *)
Durable == INSTANCE NameRegistry WITH bound <- namesFile
DurableRegistry == Durable!Spec

Succeeds(r, held) == Durable!Succeeds(r, held)

(* A running server never knows less about a name than its file says: the  *)
(* checks of NameStore.set are made against memory, and only this makes    *)
(* them as strong as checks against the file.                              *)
MemoryHoldsTheFile ==
  up => \A u \in Uris : Succeeds(names[u], namesFile[u])

(* A sender that was told "ok" keeps the name: the record it registered,   *)
(* or a later one of its own, is in the file through crashes and failing   *)
(* saves of later requests (naming.py:142-144, 421-424).                   *)
AckedIsKept ==
  \A u \in Uris : Succeeds(namesFile[u], acked[u])

(* The same of the other three files: an opt-in, an inbox slot or a review *)
(* that reached its file is only ever replaced by a newer one.             *)
NoOlder(new, old) ==
  old # None => new # None /\ new.timestamp >= old.timestamp

ReviewFilesAdvance ==
  [][/\ \A r \in Reviewers : NoOlder(reviewersFile'[r], reviewersFile[r])
     /\ \A r \in Reviewers, c \in ContentKeys :
          /\ NoOlder(inboxFile'[r][c], inboxFile[r][c])
          /\ NoOlder(attachmentsFile'[c][r], attachmentsFile[c][r])
    ]_<<optInVars, inboxVars, attachVars>>

(* A resolver is never given a name under another key, or an older record, *)
(* than a resolver before it: "a name stays with its first key, and its    *)
(* timestamp only increases" (SPEC.md:141).  A client pins the key and the *)
(* timestamp it is given and refuses the site when either regresses.       *)
ResolversNeverSeeRegress ==
  [][\A u \in Uris : Succeeds(seen'[u], seen[u])]_seen

(* Nothing is stored with a timestamp beyond the allowed drift: a record   *)
(* dated far ahead would lock its owner out of every later update, since   *)
(* an update must be both newer than it and within the drift of the clock. *)
FromFuture(record, t) == record # None /\ record.timestamp > t + MaxDrift

NamesArePast(t) ==
  \A u \in Uris :
    /\ ~FromFuture(names[u], t)
    /\ ~FromFuture(namesFile[u], t)
OptInsArePast(t) ==
  \A r \in Reviewers :
    /\ ~FromFuture(reviewers[r], t)
    /\ ~FromFuture(reviewersFile[r], t)
AssignmentsArePast(t) ==
  \A r \in Reviewers, c \in ContentKeys :
    /\ ~FromFuture(inbox[r][c], t)
    /\ ~FromFuture(inboxFile[r][c], t)
ReviewsArePast(t) ==
  \A c \in ContentKeys, r \in Reviewers :
    /\ ~FromFuture(attachments[c][r], t)
    /\ ~FromFuture(attachmentsFile[c][r], t)

NothingFromTheFuture ==
  /\ NamesArePast(now)
  /\ OptInsArePast(now)
  /\ AssignmentsArePast(now)
  /\ ReviewsArePast(now)

(* A review stands only beside an assignment that names its reviewer, and  *)
(* an assignment only beside the opt-in of the reviewer it names, although *)
(* the three live in three stores with a file each that are saved and      *)
(* loaded apart (naming.py:578-592).                                       *)
ReviewsRestOnAssignments ==
  StrictReviews =>
    \A r \in Reviewers, c \in ContentKeys :
      /\ attachments[c][r] # None => inbox[r][c] # None
      /\ inbox[r][c] # None => reviewers[r] # None

(* An inbox slot holds an assignment of its own content, signed by that    *)
(* content's publisher, that names the inbox's reviewer: no one else can   *)
(* put work in it or displace what is there (review/record.py:195-199).    *)
PublishedTo(assignment, r, c) ==
  assignment # None =>
    /\ c = <<assignment.uri, assignment.publisher_public_key>>
    /\ r \in Range(assignment.reviewer_public_keys)

InboxIsThePublishers ==
  \A r \in Reviewers, c \in ContentKeys :
    /\ PublishedTo(inbox[r][c], r, c)
    /\ PublishedTo(inboxFile[r][c], r, c)

(* A verdict can be back-dated, but not far: none enters more than the     *)
(* drift after the deadline that stands when it enters, since its own      *)
(* timestamp is checked against both (naming.py:595, review/record.py:278).*)
LateVerdictsAreBounded ==
  [][(up /\ up' /\ StrictReviews) =>
       \A c \in ContentKeys, r \in Reviewers :
         attachments'[c][r] # attachments[c][r] =>
           now <= inbox[r][c].deadline + MaxDrift
    ]_<<up, attachments>>
=============================================================================
