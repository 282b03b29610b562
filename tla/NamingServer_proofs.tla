------------------------- MODULE NamingServer_proofs -------------------------
(***************************************************************************)
(* Theorems about NamingServer, for every set of names, keys and           *)
(* timestamps and every bound.                                             *)
(***************************************************************************)
EXTENDS NamingServer, TLAPS

(* The empty dictionaries a store starts with are stores. *)
LEMMA EmptyStores ==
  /\ NoNames \in NameStore
  /\ NoReviewers \in ReviewerStore
  /\ NoInbox \in AssignmentStore
  /\ NoAttachments \in AttachmentStore
BY DEF NoNames, NoReviewers, NoInbox, NoAttachments, NameStore, ReviewerStore,
       AssignmentStore, AttachmentStore

(* Time is counted in naturals. *)
LEMMA TimesAreNatural ==
  /\ \A t \in Timestamps : t \in Nat
  /\ TypeOK => now \in Nat
BY ServerAssumption DEF TypeOK

(* Every step keeps every variable in its type. *)
LEMMA TypeOKInductive == TypeOK /\ [Next]_vars => TypeOK'
<1> SUFFICES ASSUME TypeOK, [Next]_vars PROVE TypeOK'
  OBVIOUS
<1>1. ASSUME NEW m \in NameRecords, NEW s \in Signatures, Register(m, s)
      PROVE  TypeOK'
  BY <1>1 DEF TypeOK, Register, NameStore, NameRecords, optInVars,
              inboxVars, attachVars
<1>2. ASSUME NEW u \in Uris, Resolve(u)
      PROVE  TypeOK'
  BY <1>2 DEF TypeOK, Resolve, NameStore, optInVars, inboxVars, attachVars
<1>3. ASSUME NEW m \in OptIns, NEW s \in Signatures, RegisterReviewer(m, s)
      PROVE  TypeOK'
  BY <1>3 DEF TypeOK, RegisterReviewer, ReviewerStore, OptIns, nameVars,
              inboxVars, attachVars
<1>4. ASSUME NEW m \in Assignments, NEW s \in Signatures,
             PostAssignment(m, s)
      PROVE  TypeOK'
  <2>1. ASSUME NEW r \in Reviewers
        PROVE  inbox'[r] \in [ContentKeys -> Assignments \cup {None}]
    BY <1>4 DEF TypeOK, PostAssignment, AssignmentStore
  <2>2. inbox' = [r \in Reviewers |-> inbox'[r]]
    BY <1>4 DEF PostAssignment
  <2>3. inbox' \in AssignmentStore
    BY <2>1, <2>2 DEF AssignmentStore
  <2> QED
    BY <1>4, <2>3 DEF TypeOK, PostAssignment, nameVars, optInVars, attachVars
<1>5. ASSUME NEW m \in Reviews, NEW s \in Signatures, AttachReview(m, s)
      PROVE  TypeOK'
  BY <1>5 DEF TypeOK, AttachReview, AttachmentStore, Reviews, nameVars,
              optInVars, inboxVars
<1>6. CASE Tick
  BY <1>6, ServerAssumption
     DEF TypeOK, Tick, nameVars, optInVars, inboxVars, attachVars
<1>7. CASE Crash
  BY <1>7, EmptyStores DEF TypeOK, Crash
<1>8. CASE Restart
  BY <1>8, EmptyStores DEF TypeOK, Restart, Loaded
<1>9. CASE UNCHANGED vars
  BY <1>9 DEF TypeOK, vars, nameVars, optInVars, inboxVars, attachVars
<1> QED
  BY <1>1, <1>2, <1>3, <1>4, <1>5, <1>6, <1>7, <1>8, <1>9 DEF Next

(* The stores start empty. *)
LEMMA InitIsTyped == Init => TypeOK
BY ServerAssumption, EmptyStores DEF Init, TypeOK

(* Every variable keeps its type (one per store and file, naming.py:90). *)
THEOREM TypeCorrect == Spec => []TypeOK
BY InitIsTyped, TypeOKInductive, PTL DEF Spec
-----------------------------------------------------------------------------
(* No store and no file holds a record dated beyond the drift of the       *)
(* clock: the verifiers bound what enters, and the clock only advances     *)
(* (bundle/name_records.py:113, review/record.py:103, 199, 277).           *)
THEOREM FutureExcluded == Spec => []NothingFromTheFuture
<1>1. Init => NothingFromTheFuture
  BY DEF Init, NothingFromTheFuture, NamesArePast, OptInsArePast,
         AssignmentsArePast, ReviewsArePast, FromFuture, NoNames, NoReviewers,
         NoInbox, NoAttachments
<1>2. TypeOK /\ NothingFromTheFuture /\ [Next]_vars => NothingFromTheFuture'
  <2> SUFFICES ASSUME TypeOK, NothingFromTheFuture, [Next]_vars
               PROVE  NothingFromTheFuture'
    OBVIOUS
  <2>1. ASSUME NEW m \in NameRecords, NEW s \in Signatures,
               Register(m, s)
        PROVE  NothingFromTheFuture'
    <3>1. ~FromFuture(m, now)
      BY <2>1, DriftAssumption, ServerAssumption
         DEF Register, verify_name_record, WithinDrift, FromFuture,
             NameRecords, TypeOK
    <3>2. \A u \in Uris : names'[u] \in {names[u], m}
      BY <2>1 DEF Register, TypeOK, NameStore
    <3>3. namesFile' \in {namesFile, names'}
      BY <2>1 DEF Register
    <3>4. NamesArePast(now)'
      BY <2>1, <3>1, <3>2, <3>3
         DEF NothingFromTheFuture, NamesArePast, Register
    <3> QED
      BY <2>1, <3>4
         DEF Register, NothingFromTheFuture, OptInsArePast, AssignmentsArePast,
             ReviewsArePast, optInVars, inboxVars, attachVars
  <2>2. ASSUME NEW u \in Uris, Resolve(u)
        PROVE  NothingFromTheFuture'
    BY <2>2 DEF Resolve, NothingFromTheFuture, NamesArePast, OptInsArePast,
                AssignmentsArePast, ReviewsArePast, optInVars, inboxVars,
                attachVars
  <2>3. ASSUME NEW m \in OptIns, NEW s \in Signatures,
               RegisterReviewer(m, s)
        PROVE  NothingFromTheFuture'
    <3>1. ~FromFuture(m, now)
      BY <2>3, DriftAssumption, ServerAssumption
         DEF RegisterReviewer, verify_reviewer_opt_in, WithinDrift, FromFuture,
             OptIns, TypeOK
    <3>2. \A r \in Reviewers : reviewers'[r] \in {reviewers[r], m}
      BY <2>3 DEF RegisterReviewer, TypeOK, ReviewerStore
    <3>3. reviewersFile' \in {reviewersFile, reviewers'}
      BY <2>3 DEF RegisterReviewer
    <3>4. OptInsArePast(now)'
      BY <2>3, <3>1, <3>2, <3>3
         DEF NothingFromTheFuture, OptInsArePast, RegisterReviewer
    <3> QED
      BY <2>3, <3>4
         DEF RegisterReviewer, NothingFromTheFuture, NamesArePast, AssignmentsArePast,
             ReviewsArePast, nameVars, inboxVars, attachVars
  <2>4. ASSUME NEW m \in Assignments, NEW s \in Signatures,
               PostAssignment(m, s)
        PROVE  NothingFromTheFuture'
    <3>1. ~FromFuture(m, now)
      <4>1. m.timestamp \in Timestamps
        BY DEF Assignments
      <4>2. m.timestamp \in Nat /\ now \in Nat
        BY <4>1, TimesAreNatural
      <4>3. WithinDrift(m.timestamp, now)
        BY <2>4 DEF PostAssignment, verify_review_assignment
      <4> QED
        BY <4>2, <4>3, DriftAssumption DEF WithinDrift, FromFuture
    <3>2. \A r \in Reviewers, c \in ContentKeys : inbox'[r][c] \in {inbox[r][c], m}
      BY <2>4 DEF PostAssignment, TypeOK, AssignmentStore
    <3>3. inboxFile' \in {inboxFile, inbox'}
      BY <2>4 DEF PostAssignment
    <3>4. AssignmentsArePast(now)'
      BY <2>4, <3>1, <3>2, <3>3
         DEF NothingFromTheFuture, AssignmentsArePast, PostAssignment
    <3> QED
      BY <2>4, <3>4
         DEF PostAssignment, NothingFromTheFuture, NamesArePast, OptInsArePast,
             ReviewsArePast, nameVars, optInVars, attachVars
  <2>5. ASSUME NEW m \in Reviews, NEW s \in Signatures,
               AttachReview(m, s)
        PROVE  NothingFromTheFuture'
    <3>1. ~FromFuture(m, now)
      BY <2>5, DriftAssumption, ServerAssumption
         DEF AttachReview, verify_review_record, WithinDrift, FromFuture,
             Reviews, TypeOK
    <3>2. \A c \in ContentKeys, r \in Reviewers : attachments'[c][r] \in {attachments[c][r], m}
      BY <2>5 DEF AttachReview, TypeOK, AttachmentStore
    <3>3. attachmentsFile' \in {attachmentsFile, attachments'}
      BY <2>5 DEF AttachReview
    <3>4. ReviewsArePast(now)'
      BY <2>5, <3>1, <3>2, <3>3
         DEF NothingFromTheFuture, ReviewsArePast, AttachReview
    <3> QED
      BY <2>5, <3>4
         DEF AttachReview, NothingFromTheFuture, NamesArePast, OptInsArePast,
             AssignmentsArePast, nameVars, optInVars, inboxVars
  <2>6. CASE Tick
    <3>1. ASSUME NEW record, ~FromFuture(record, now),
                 record # None => record.timestamp \in Nat
          PROVE  ~FromFuture(record, now + 1)
      BY <3>1, DriftAssumption DEF FromFuture, TypeOK
    <3>2. NamesArePast(now + 1) /\ OptInsArePast(now + 1)
      BY <3>1, ServerAssumption
         DEF TypeOK, NothingFromTheFuture, NamesArePast, OptInsArePast,
             NameStore, NameRecords, ReviewerStore, OptIns
    <3>3. AssignmentsArePast(now + 1) /\ ReviewsArePast(now + 1)
      BY <3>1, ServerAssumption
         DEF TypeOK, NothingFromTheFuture, AssignmentsArePast, ReviewsArePast,
             AssignmentStore, Assignments, AttachmentStore, Reviews
    <3> QED
      BY <2>6, <3>2, <3>3
         DEF Tick, NothingFromTheFuture, NamesArePast, OptInsArePast,
             AssignmentsArePast, ReviewsArePast, nameVars, optInVars,
             inboxVars, attachVars
  <2>7. CASE Crash
    BY <2>7 DEF Crash, NothingFromTheFuture, NamesArePast, OptInsArePast,
                AssignmentsArePast, ReviewsArePast, FromFuture,
                NoNames, NoReviewers, NoInbox, NoAttachments
  <2>8. CASE Restart
    BY <2>8 DEF Restart, Loaded, NothingFromTheFuture, NamesArePast,
                OptInsArePast, AssignmentsArePast, ReviewsArePast, FromFuture,
                NoNames, NoReviewers, NoInbox, NoAttachments
  <2>9. CASE UNCHANGED vars
    BY <2>9 DEF vars, NothingFromTheFuture, NamesArePast, OptInsArePast,
                AssignmentsArePast, ReviewsArePast, nameVars, optInVars,
                inboxVars, attachVars
  <2> QED
    BY <2>1, <2>2, <2>3, <2>4, <2>5, <2>6, <2>7, <2>8, <2>9 DEF Next
<1> QED
  BY <1>1, <1>2, TypeCorrect, PTL DEF Spec
-----------------------------------------------------------------------------
(***************************************************************************)
(* Names.  The registry's order on records is the thread of all that       *)
(* follows: memory succeeds the file, and the file succeeds what was       *)
(* acknowledged.                                                           *)
(***************************************************************************)
(* A record that may come after another may come after its predecessors.   *)
LEMMA SucceedsTransitive ==
  ASSUME NEW a \in NameRecords \cup {None}, NEW b \in NameRecords \cup {None},
         NEW c \in NameRecords \cup {None}, Succeeds(a, b), Succeeds(b, c)
  PROVE  Succeeds(a, c)
<1>1. \A r \in NameRecords : r.timestamp \in Nat
  BY TimesAreNatural DEF NameRecords
<1> QED
  BY <1>1, NoneAssumption DEF Succeeds, Durable!Succeeds

(* What NameStore.set accepts succeeds what it held. *)
LEMMA RegisterSucceeds ==
  ASSUME NEW m, NEW s, Register(m, s), TypeOK, m \in NameRecords
  PROVE  /\ names' \in NameStore
         /\ \A u \in Uris : names'[u] = IF u = m.uri THEN m ELSE names[u]
         /\ Succeeds(m, names[m.uri])
<1>1. m.uri \in Uris /\ names \in NameStore
  BY DEF NameRecords, TypeOK
<1>2. m # None
  BY NoneAssumption
<1>3. Succeeds(m, names[m.uri])
  BY <1>2 DEF Register, NameIsFreeOrOwn, Newer, Succeeds, Durable!Succeeds
<1>4. names' = [names EXCEPT ![m.uri] = m]
  BY DEF Register
<1>5. names' \in NameStore
  BY <1>1, <1>4 DEF NameStore
<1>6. ASSUME NEW u \in Uris
      PROVE  names'[u] = IF u = m.uri THEN m ELSE names[u]
  BY <1>1, <1>4 DEF NameStore
<1> QED
  BY <1>3, <1>5, <1>6

NamesInv == TypeOK /\ MemoryHoldsTheFile /\ AckedIsKept

(* The three together are inductive, also when a save fails after memory   *)
(* was assigned or a reply is lost after the save.                         *)
LEMMA NamesInvInductive ==
  ASSUME ~FileMayBeLost
  PROVE  Spec => []NamesInv
<1> USE DEF NamesInv
<1>1. Init => NamesInv
  <2>1. Init => TypeOK
    BY EmptyStores, ServerAssumption DEF Init, TypeOK
  <2> QED
    BY <2>1 DEF Init, MemoryHoldsTheFile, AckedIsKept, Succeeds,
                Durable!Succeeds, NoNames
<1>2. TypeOK /\ TypeOK' /\ NamesInv /\ [Next]_vars => NamesInv'
  <2> SUFFICES ASSUME TypeOK, TypeOK', NamesInv, [Next]_vars
               PROVE  MemoryHoldsTheFile' /\ AckedIsKept'
    OBVIOUS
  <2>1. ASSUME NEW m \in NameRecords, NEW s \in Signatures, Register(m, s)
        PROVE  MemoryHoldsTheFile' /\ AckedIsKept'
    <3>1. \A u \in Uris : Succeeds(names'[u], names[u])
      BY <2>1, RegisterSucceeds DEF Succeeds, Durable!Succeeds
    <3>2. \A u \in Uris : Succeeds(names[u], namesFile[u])
      BY <2>1 DEF Register, MemoryHoldsTheFile
    <3>3. \A u \in Uris : Succeeds(names'[u], namesFile[u])
      <4> TAKE u \in Uris
      <4>1. /\ names'[u] \in NameRecords \cup {None}
            /\ names[u] \in NameRecords \cup {None}
            /\ namesFile[u] \in NameRecords \cup {None}
        BY DEF TypeOK, NameStore
      <4> QED
        BY <3>1, <3>2, <4>1, SucceedsTransitive
    <3>4. \A u \in Uris : Succeeds(names'[u], names'[u])
      BY DEF Succeeds, Durable!Succeeds
    <3>5. MemoryHoldsTheFile'
      BY <2>1, <3>3, <3>4 DEF Register, MemoryHoldsTheFile
    <3>6. AckedIsKept'
      <4>1. CASE namesFile' = names' /\ acked' = [acked EXCEPT ![m.uri] = m]
        <5> SUFFICES ASSUME NEW u \in Uris
                     PROVE  Succeeds(names'[u], acked'[u])
          BY <4>1 DEF AckedIsKept
        <5>1. CASE u = m.uri
          BY <2>1, <4>1, <5>1
             DEF Register, Succeeds, Durable!Succeeds, TypeOK, NameStore
        <5>2. CASE u # m.uri
          <6>1. acked'[u] = acked[u]
            BY <4>1, <5>2 DEF TypeOK, NameStore
          <6>2. Succeeds(namesFile[u], acked[u])
            BY DEF AckedIsKept
          <6>3. /\ names'[u] \in NameRecords \cup {None}
                /\ namesFile[u] \in NameRecords \cup {None}
                /\ acked[u] \in NameRecords \cup {None}
            BY DEF TypeOK, NameStore
          <6> QED
            BY <3>3, <6>1, <6>2, <6>3, SucceedsTransitive
        <5> QED
          BY <5>1, <5>2
      <4>2. CASE namesFile' = namesFile /\ acked' = acked
        BY <4>2 DEF AckedIsKept
      <4>3. CASE namesFile' = names' /\ acked' = acked
        <5> SUFFICES ASSUME NEW u \in Uris
                     PROVE  Succeeds(names'[u], acked[u])
          BY <4>3 DEF AckedIsKept
        <5>1. Succeeds(namesFile[u], acked[u])
          BY DEF AckedIsKept
        <5>2. /\ names'[u] \in NameRecords \cup {None}
              /\ namesFile[u] \in NameRecords \cup {None}
              /\ acked[u] \in NameRecords \cup {None}
          BY DEF TypeOK, NameStore
        <5> QED
          BY <3>3, <5>1, <5>2, SucceedsTransitive
      <4> QED
        BY <2>1, <4>1, <4>2, <4>3 DEF Register
    <3> QED
      BY <3>5, <3>6
  <2>2. CASE UNCHANGED <<up, names, namesFile, acked>>
    BY <2>2 DEF MemoryHoldsTheFile, AckedIsKept
  <2>3. CASE Crash
    BY <2>3 DEF Crash, MemoryHoldsTheFile, AckedIsKept
  <2>4. CASE Restart
    BY <2>4 DEF Restart, Loaded, MemoryHoldsTheFile, AckedIsKept, Succeeds,
                Durable!Succeeds
  <2> QED
    BY <2>1, <2>2, <2>3, <2>4
       DEF Next, Resolve, RegisterReviewer, PostAssignment, AttachReview,
           Tick, vars, nameVars
<1> QED
  BY <1>1, <1>2, TypeCorrect, PTL DEF Spec

(* While no file is lost, a running server's memory is never behind its    *)
(* file, whichever saves fail and however often the process dies: what a   *)
(* failed save leaves in memory only succeeds what is on disk              *)
(* (naming.py:111-144).                                                    *)
THEOREM MemorySucceedsTheFile ==
  ASSUME ~FileMayBeLost
  PROVE  Spec => []MemoryHoldsTheFile
BY NamesInvInductive, PTL DEF NamesInv

(* Under the same assumption the file succeeds every acknowledgement: a    *)
(* name that was acknowledged keeps its key and its date only advances.    *)
THEOREM NamesAreKept ==
  ASSUME ~FileMayBeLost
  PROVE  Spec => []AckedIsKept
BY NamesInvInductive, PTL DEF NamesInv

(* While no file is lost, the name file implements the abstract registry.  *)
THEOREM ServerImplementsRegistry ==
  ASSUME ~FileMayBeLost
  PROVE  Spec => DurableRegistry
<1>1. Init => Durable!Init
  BY DEF Init, Durable!Init, NoNames
<1>2. NamesInv /\ NamesInv' /\ [Next]_vars => [Durable!Bind]_namesFile
  <2> SUFFICES ASSUME NamesInv, NamesInv', [Next]_vars, namesFile' # namesFile
               PROVE  Durable!Bind
    OBVIOUS
  <2>1. PICK m \in NameRecords, s \in Signatures : Register(m, s)
    BY DEF Next, Resolve, RegisterReviewer, PostAssignment, AttachReview,
           Tick, Crash, Restart, vars, nameVars
  <2>2. namesFile' = names'
    BY <2>1 DEF Register
  <2>3. ASSUME NEW u \in Uris
        PROVE  Succeeds(names'[u], namesFile[u])
    <3>1. Succeeds(names'[u], names[u])
      BY <2>1, RegisterSucceeds DEF NamesInv, Succeeds, Durable!Succeeds
    <3>2. Succeeds(names[u], namesFile[u])
      BY <2>1 DEF NamesInv, MemoryHoldsTheFile, Register
    <3>3. /\ names'[u] \in NameRecords \cup {None}
          /\ names[u] \in NameRecords \cup {None}
          /\ namesFile[u] \in NameRecords \cup {None}
      BY DEF NamesInv, TypeOK, NameStore
    <3> QED
      BY <3>1, <3>2, <3>3, SucceedsTransitive
  <2>4. namesFile' \in [Uris -> NameRecords \cup {None}]
    BY DEF NamesInv, TypeOK, NameStore
  <2> QED
    BY <2>2, <2>3, <2>4 DEF Durable!Bind, Succeeds
<1> QED
  BY <1>1, <1>2, NamesInvInductive, PTL DEF Spec, DurableRegistry, Durable!Spec
-----------------------------------------------------------------------------
(***************************************************************************)
(* Reviews.                                                                *)
(***************************************************************************)

(* Whatever fails, an inbox slot holds only what its content's publisher   *)
(* signed for its reviewer (review/record.py:195-199, naming.py:271-276).  *)
THEOREM InboxesAreProtected == Spec => []InboxIsThePublishers
<1>1. Init => InboxIsThePublishers
  BY DEF Init, InboxIsThePublishers, PublishedTo, NoInbox
<1>2. TypeOK /\ InboxIsThePublishers /\ [Next]_vars => InboxIsThePublishers'
  <2> SUFFICES ASSUME TypeOK, InboxIsThePublishers, [Next]_vars
               PROVE  InboxIsThePublishers'
    OBVIOUS
  <2>1. ASSUME NEW m \in Assignments, NEW s \in Signatures,
               PostAssignment(m, s)
        PROVE  InboxIsThePublishers'
    <3>1. m.content_key = <<m.uri, m.publisher_public_key>>
      BY <2>1 DEF PostAssignment, verify_review_assignment,
                  compute_content_key
    <3>2. ASSUME NEW r \in Reviewers, NEW c \in ContentKeys
          PROVE  \/ inbox'[r][c] = inbox[r][c]
                 \/ /\ inbox'[r][c] = m
                    /\ c = m.content_key
                    /\ r \in Range(m.reviewer_public_keys)
      BY <2>1 DEF PostAssignment, TypeOK, AssignmentStore
    <3>3. inboxFile' \in {inboxFile, inbox'}
      BY <2>1 DEF PostAssignment
    <3> QED
      BY <3>1, <3>2, <3>3 DEF InboxIsThePublishers, PublishedTo
  <2>2. CASE UNCHANGED inboxVars
    BY <2>2 DEF InboxIsThePublishers, inboxVars
  <2>3. CASE Crash
    BY <2>3 DEF Crash, InboxIsThePublishers, PublishedTo, NoInbox
  <2>4. CASE Restart
    BY <2>4 DEF Restart, Loaded, InboxIsThePublishers, PublishedTo, NoInbox
  <2> QED
    BY <2>1, <2>2, <2>3, <2>4
       DEF Next, Register, Resolve, RegisterReviewer, AttachReview, Tick, vars
<1> QED
  BY <1>1, <1>2, TypeCorrect, PTL DEF Spec

(* No verdict enters later than the drift after the deadline that stands   *)
(* when it enters (naming.py:586-597 with review/record.py:275-280).       *)
THEOREM VerdictsAreBounded == Spec => LateVerdictsAreBounded
<1>1. TypeOK /\ [Next]_vars =>
        [(up /\ up' /\ StrictReviews) =>
            \A c \in ContentKeys, r \in Reviewers :
              attachments'[c][r] # attachments[c][r] =>
                now <= inbox[r][c].deadline + MaxDrift]_<<up, attachments>>
  <2> SUFFICES ASSUME TypeOK, [Next]_vars, up, up', StrictReviews,
                      NEW c \in ContentKeys, NEW r \in Reviewers,
                      attachments'[c][r] # attachments[c][r]
               PROVE  now <= inbox[r][c].deadline + MaxDrift
    OBVIOUS
  <2>1. PICK m \in Reviews, s \in Signatures : AttachReview(m, s)
    BY DEF Next, Register, Resolve, RegisterReviewer, PostAssignment, Tick,
           Crash, Restart, vars, attachVars
  <2>2. c = m.content_key /\ r = m.reviewer_public_key
    BY <2>1 DEF AttachReview, TypeOK, AttachmentStore
  <2>3. /\ inbox[r][c] # None
        /\ m.timestamp <= inbox[r][c].deadline
    BY <2>1, <2>2 DEF AttachReview, ReviewWasAssigned
  <2>4. now - m.timestamp <= MaxDrift
    BY <2>1 DEF AttachReview, verify_review_record, WithinDrift
  <2>5. now \in Nat /\ m.timestamp \in Nat
    BY TimesAreNatural DEF Reviews
  <2>6. inbox[r][c].deadline \in Nat
    <3>1. inbox[r][c] \in Assignments
      BY <2>3 DEF TypeOK, AssignmentStore
    <3>2. inbox[r][c].deadline \in Deadlines
      BY <3>1 DEF Assignments
    <3> QED
      BY <3>2, ServerAssumption
  <2> QED
    BY <2>3, <2>4, <2>5, <2>6, DriftAssumption
<1> QED
  BY <1>1, TypeCorrect, PTL DEF Spec, LateVerdictsAreBounded
-----------------------------------------------------------------------------
(***************************************************************************)
(* The files of the three review stores.                                   *)
(***************************************************************************)
(* What a store holds is dated in naturals. *)
LEMMA OptInDates ==
  ASSUME NEW store \in ReviewerStore, NEW r \in Reviewers
  PROVE  store[r] # None => store[r].timestamp \in Nat
BY TimesAreNatural DEF ReviewerStore, OptIns

(* The same of an inbox slot. *)
LEMMA AssignmentDates ==
  ASSUME NEW store \in AssignmentStore, NEW r \in Reviewers,
         NEW c \in ContentKeys
  PROVE  store[r][c] # None => store[r][c].timestamp \in Nat
<1>1. \A m \in Assignments : m.timestamp \in Nat
  BY TimesAreNatural DEF Assignments
<1> QED
  BY <1>1 DEF AssignmentStore

(* The same of an attached review. *)
LEMMA ReviewDates ==
  ASSUME NEW store \in AttachmentStore, NEW r \in Reviewers,
         NEW c \in ContentKeys
  PROVE  store[c][r] # None => store[c][r].timestamp \in Nat
<1>1. \A m \in Reviews : m.timestamp \in Nat
  BY TimesAreNatural DEF Reviews
<1> QED
  BY <1>1 DEF AttachmentStore

(* A running server holds, of every slot, at least what the file holds. *)
OptInsHeld ==
  up => \A r \in Reviewers : NoOlder(reviewers[r], reviewersFile[r])
AssignmentsHeld ==
  up => \A r \in Reviewers, c \in ContentKeys :
          NoOlder(inbox[r][c], inboxFile[r][c])
ReviewsHeld ==
  up => \A r \in Reviewers, c \in ContentKeys :
          NoOlder(attachments[c][r], attachmentsFile[c][r])
ReviewsInv == OptInsHeld /\ AssignmentsHeld /\ ReviewsHeld

(* An accepted request, slot by slot: memory keeps what it held or takes a *)
(* newer record, and the file keeps what it held or becomes the new memory.*)
LEMMA OptInStep ==
  ASSUME TypeOK, TypeOK', OptInsHeld, NEW m \in OptIns, NEW s,
         RegisterReviewer(m, s)
  PROVE  /\ \A r \in Reviewers : NoOlder(reviewersFile'[r], reviewersFile[r])
         /\ OptInsHeld'
<1>1. ASSUME NEW r \in Reviewers
      PROVE  \/ reviewers'[r] = reviewers[r]
             \/ reviewers'[r] # None /\ Newer(reviewers'[r], reviewers[r])
  BY NoneAssumption DEF RegisterReviewer, TypeOK, ReviewerStore
<1>2. ASSUME NEW r \in Reviewers
      PROVE  \/ reviewersFile'[r] = reviewersFile[r]
             \/ reviewersFile'[r] = reviewers'[r]
  BY DEF RegisterReviewer
<1>3. ASSUME NEW r \in Reviewers
      PROVE  /\ NoOlder(reviewersFile'[r], reviewersFile[r])
             /\ NoOlder(reviewers'[r], reviewersFile'[r])
  <2>1. /\ reviewers \in ReviewerStore /\ reviewersFile \in ReviewerStore
        /\ reviewers' \in ReviewerStore
    BY DEF TypeOK
  <2>2. NoOlder(reviewers[r], reviewersFile[r])
    BY DEF OptInsHeld, RegisterReviewer
  <2>3. /\ reviewers[r] # None => reviewers[r].timestamp \in Nat
        /\ reviewersFile[r] # None => reviewersFile[r].timestamp \in Nat
        /\ reviewers'[r] # None => reviewers'[r].timestamp \in Nat
    BY <2>1, OptInDates
  <2> QED
    BY <1>1, <1>2, <2>2, <2>3 DEF NoOlder, Newer
<1> QED
  BY <1>3 DEF OptInsHeld

(* The same of PostAssignment, slot by slot of every inbox. *)
LEMMA AssignmentStep ==
  ASSUME TypeOK, TypeOK', AssignmentsHeld, NEW m \in Assignments, NEW s,
         PostAssignment(m, s)
  PROVE  /\ \A r \in Reviewers, c \in ContentKeys :
              NoOlder(inboxFile'[r][c], inboxFile[r][c])
         /\ AssignmentsHeld'
<1>1. ASSUME NEW r \in Reviewers, NEW c \in ContentKeys
      PROVE  \/ inbox'[r][c] = inbox[r][c]
             \/ inbox'[r][c] # None /\ Newer(inbox'[r][c], inbox[r][c])
  BY NoneAssumption DEF PostAssignment, TypeOK, AssignmentStore
<1>2. ASSUME NEW r \in Reviewers, NEW c \in ContentKeys
      PROVE  \/ inboxFile'[r][c] = inboxFile[r][c]
             \/ inboxFile'[r][c] = inbox'[r][c]
  BY DEF PostAssignment
<1>3. ASSUME NEW r \in Reviewers, NEW c \in ContentKeys
      PROVE  /\ NoOlder(inboxFile'[r][c], inboxFile[r][c])
             /\ NoOlder(inbox'[r][c], inboxFile'[r][c])
  <2>1. /\ inbox \in AssignmentStore /\ inboxFile \in AssignmentStore
        /\ inbox' \in AssignmentStore
    BY DEF TypeOK
  <2>2. NoOlder(inbox[r][c], inboxFile[r][c])
    BY DEF AssignmentsHeld, PostAssignment
  <2>3. /\ inbox[r][c] # None => inbox[r][c].timestamp \in Nat
        /\ inboxFile[r][c] # None => inboxFile[r][c].timestamp \in Nat
        /\ inbox'[r][c] # None => inbox'[r][c].timestamp \in Nat
    BY <2>1, AssignmentDates
  <2> QED
    BY <1>1, <1>2, <2>2, <2>3 DEF NoOlder, Newer
<1> QED
  BY <1>3 DEF AssignmentsHeld

(* The same of AttachReview. *)
LEMMA ReviewStep ==
  ASSUME TypeOK, TypeOK', ReviewsHeld, NEW m \in Reviews, NEW s,
         AttachReview(m, s)
  PROVE  /\ \A r \in Reviewers, c \in ContentKeys :
              NoOlder(attachmentsFile'[c][r], attachmentsFile[c][r])
         /\ ReviewsHeld'
<1>1. ASSUME NEW r \in Reviewers, NEW c \in ContentKeys
      PROVE  \/ attachments'[c][r] = attachments[c][r]
             \/ /\ attachments'[c][r] # None
                /\ Newer(attachments'[c][r], attachments[c][r])
  BY NoneAssumption DEF AttachReview, TypeOK, AttachmentStore
<1>2. ASSUME NEW r \in Reviewers, NEW c \in ContentKeys
      PROVE  \/ attachmentsFile'[c][r] = attachmentsFile[c][r]
             \/ attachmentsFile'[c][r] = attachments'[c][r]
  BY DEF AttachReview
<1>3. ASSUME NEW r \in Reviewers, NEW c \in ContentKeys
      PROVE  /\ NoOlder(attachmentsFile'[c][r], attachmentsFile[c][r])
             /\ NoOlder(attachments'[c][r], attachmentsFile'[c][r])
  <2>1. /\ attachments \in AttachmentStore
        /\ attachmentsFile \in AttachmentStore
        /\ attachments' \in AttachmentStore
    BY DEF TypeOK
  <2>2. NoOlder(attachments[c][r], attachmentsFile[c][r])
    BY DEF ReviewsHeld, AttachReview
  <2>3. /\ attachments[c][r] # None => attachments[c][r].timestamp \in Nat
        /\ attachmentsFile[c][r] # None => attachmentsFile[c][r].timestamp \in Nat
        /\ attachments'[c][r] # None => attachments'[c][r].timestamp \in Nat
    BY <2>1, ReviewDates
  <2> QED
    BY <1>1, <1>2, <2>2, <2>3 DEF NoOlder, Newer
<1> QED
  BY <1>3 DEF ReviewsHeld

(* While no file is lost, a running server goes on holding at least what   *)
(* the files hold, and no slot of a file goes back.                        *)
LEMMA ReviewsInvInductive ==
  ASSUME ~FileMayBeLost, TypeOK, TypeOK', ReviewsInv, [Next]_vars
  PROVE  /\ ReviewsInv'
         /\ \A r \in Reviewers : NoOlder(reviewersFile'[r], reviewersFile[r])
         /\ \A r \in Reviewers, c \in ContentKeys :
              NoOlder(inboxFile'[r][c], inboxFile[r][c])
         /\ \A r \in Reviewers, c \in ContentKeys :
              NoOlder(attachmentsFile'[c][r], attachmentsFile[c][r])
<1> DEFINE
  OptInsKept == \A r \in Reviewers :
                  NoOlder(reviewersFile'[r], reviewersFile[r])
  InboxKept == \A r \in Reviewers, c \in ContentKeys :
                 NoOlder(inboxFile'[r][c], inboxFile[r][c])
  ReviewsKept == \A r \in Reviewers, c \in ContentKeys :
                   NoOlder(attachmentsFile'[c][r], attachmentsFile[c][r])
<1> SUFFICES ReviewsInv' /\ OptInsKept /\ InboxKept /\ ReviewsKept
  OBVIOUS
<1>1. UNCHANGED reviewersFile => OptInsKept
  BY OptInDates DEF NoOlder, TypeOK
<1>2. UNCHANGED inboxFile => InboxKept
  BY AssignmentDates DEF NoOlder, TypeOK
<1>3. UNCHANGED attachmentsFile => ReviewsKept
  BY ReviewDates DEF NoOlder, TypeOK
<1>4. UNCHANGED <<up, optInVars>> => OptInsHeld'
  BY DEF ReviewsInv, OptInsHeld, optInVars
<1>5. UNCHANGED <<up, inboxVars>> => AssignmentsHeld'
  BY DEF ReviewsInv, AssignmentsHeld, inboxVars
<1>6. UNCHANGED <<up, attachVars>> => ReviewsHeld'
  BY DEF ReviewsInv, ReviewsHeld, attachVars
<1> HIDE DEF OptInsKept, InboxKept, ReviewsKept
<1>7. CASE UNCHANGED <<up, optInVars, inboxVars, attachVars>>
  BY <1>7, <1>1, <1>2, <1>3, <1>4, <1>5, <1>6
     DEF ReviewsInv, optInVars, inboxVars, attachVars
<1>8. ASSUME NEW m \in OptIns, NEW s \in Signatures, RegisterReviewer(m, s)
      PROVE  ReviewsInv' /\ OptInsKept /\ InboxKept /\ ReviewsKept
  <2>1. OptInsKept /\ OptInsHeld'
    BY <1>8, OptInStep DEF ReviewsInv, OptInsKept
  <2> QED
    BY <1>8, <2>1, <1>2, <1>3, <1>5, <1>6
       DEF RegisterReviewer, ReviewsInv, inboxVars, attachVars
<1>9. ASSUME NEW m \in Assignments, NEW s \in Signatures,
             PostAssignment(m, s)
      PROVE  ReviewsInv' /\ OptInsKept /\ InboxKept /\ ReviewsKept
  <2>1. InboxKept /\ AssignmentsHeld'
    BY <1>9, AssignmentStep DEF ReviewsInv, InboxKept
  <2> QED
    BY <1>9, <2>1, <1>1, <1>3, <1>4, <1>6
       DEF PostAssignment, ReviewsInv, optInVars, attachVars
<1>10. ASSUME NEW m \in Reviews, NEW s \in Signatures, AttachReview(m, s)
       PROVE  ReviewsInv' /\ OptInsKept /\ InboxKept /\ ReviewsKept
  <2>1. ReviewsKept /\ ReviewsHeld'
    BY <1>10, ReviewStep DEF ReviewsInv, ReviewsKept
  <2> QED
    BY <1>10, <2>1, <1>1, <1>2, <1>4, <1>5
       DEF AttachReview, ReviewsInv, optInVars, inboxVars
<1>11. CASE Crash
  BY <1>11, <1>1, <1>2, <1>3
     DEF Crash, ReviewsInv, OptInsHeld, AssignmentsHeld, ReviewsHeld
<1>12. CASE Restart
  <2>1. /\ reviewers' = reviewersFile' /\ reviewersFile' \in ReviewerStore
        /\ inbox' = inboxFile' /\ inboxFile' \in AssignmentStore
        /\ attachments' = attachmentsFile'
        /\ attachmentsFile' \in AttachmentStore
    BY <1>12 DEF Restart, Loaded, TypeOK
  <2>2. OptInsHeld'
    BY <2>1, OptInDates DEF OptInsHeld, NoOlder
  <2>3. AssignmentsHeld'
    BY <2>1, AssignmentDates DEF AssignmentsHeld, NoOlder
  <2>4. ReviewsHeld'
    BY <2>1, ReviewDates DEF ReviewsHeld, NoOlder
  <2> QED
    BY <1>12, <2>2, <2>3, <2>4, <1>1, <1>2, <1>3 DEF Restart, ReviewsInv
<1> QED
  BY <1>7, <1>8, <1>9, <1>10, <1>11, <1>12
     DEF Next, Register, Resolve, Tick, vars

(* Nothing is held and nothing is in a file at first. *)
LEMMA InitReviews == Init => ReviewsInv
BY DEF Init, ReviewsInv, OptInsHeld, AssignmentsHeld, ReviewsHeld, NoOlder,
       NoReviewers, NoInbox, NoAttachments

(* While no file is lost, what reached a review file is only ever replaced *)
(* by something newer, whichever saves fail (naming.py:193-349).           *)
THEOREM ReviewFilesOnlyAdvance ==
  ASSUME ~FileMayBeLost
  PROVE  Spec => ReviewFilesAdvance
<1>1. TypeOK /\ TypeOK' /\ ReviewsInv /\ [Next]_vars =>
        /\ ReviewsInv'
        /\ [/\ \A r \in Reviewers : NoOlder(reviewersFile'[r], reviewersFile[r])
            /\ \A r \in Reviewers, c \in ContentKeys :
                 /\ NoOlder(inboxFile'[r][c], inboxFile[r][c])
                 /\ NoOlder(attachmentsFile'[c][r], attachmentsFile[c][r])
           ]_<<optInVars, inboxVars, attachVars>>
  BY ReviewsInvInductive
<1> QED
  BY <1>1, InitReviews, TypeCorrect, PTL DEF Spec, ReviewFilesAdvance
-----------------------------------------------------------------------------
(***************************************************************************)
(* What needs reliable saves: with them a running server's memory is its   *)
(* files, so that what was checked against the one holds of the other.     *)
(***************************************************************************)
MemoryIsTheFiles ==
  up => /\ names = namesFile
        /\ reviewers = reviewersFile
        /\ inbox = inboxFile
        /\ attachments = attachmentsFile

(* While saves succeed, a running server holds exactly what its files hold.*)
LEMMA MemoryIsSaved ==
  ASSUME ~SaveMayFail, ~FileMayBeLost
  PROVE  Spec => []MemoryIsTheFiles
<1>1. Init => MemoryIsTheFiles
  BY DEF Init, MemoryIsTheFiles
<1>2. MemoryIsTheFiles /\ [Next]_vars => MemoryIsTheFiles'
  <2> SUFFICES ASSUME MemoryIsTheFiles, [Next]_vars PROVE MemoryIsTheFiles'
    OBVIOUS
  <2> USE DEF MemoryIsTheFiles, SaveOutcomes
  <2>1. ASSUME NEW m, NEW s, Register(m, s) PROVE MemoryIsTheFiles'
    BY <2>1 DEF Register, optInVars, inboxVars, attachVars
  <2>2. ASSUME NEW m, NEW s, RegisterReviewer(m, s) PROVE MemoryIsTheFiles'
    BY <2>2 DEF RegisterReviewer, nameVars, inboxVars, attachVars
  <2>3. ASSUME NEW m, NEW s, PostAssignment(m, s) PROVE MemoryIsTheFiles'
    BY <2>3 DEF PostAssignment, nameVars, optInVars, attachVars
  <2>4. ASSUME NEW m, NEW s, AttachReview(m, s) PROVE MemoryIsTheFiles'
    BY <2>4 DEF AttachReview, nameVars, optInVars, inboxVars
  <2>5. CASE Crash
    BY <2>5 DEF Crash
  <2>6. CASE Restart
    BY <2>6 DEF Restart, Loaded
  <2>7. ASSUME NEW u, Resolve(u) PROVE MemoryIsTheFiles'
    BY <2>7 DEF Resolve, optInVars, inboxVars, attachVars
  <2>8. CASE Tick \/ UNCHANGED vars
    BY <2>8 DEF Tick, vars, nameVars, optInVars, inboxVars, attachVars
  <2> QED
    BY <2>1, <2>2, <2>3, <2>4, <2>5, <2>6, <2>7, <2>8 DEF Next
<1> QED
  BY <1>1, <1>2, PTL DEF Spec

(* With reliable saves, the file succeeds whatever a resolver was given. *)
SeenIsKept == \A u \in Uris : Succeeds(namesFile[u], seen[u])

(* With reliable saves no resolver is ever given another key, or an older  *)
(* record, than a resolver before it (SPEC.md:141).                        *)
THEOREM ResolversAreConsistent ==
  ASSUME ~SaveMayFail, ~FileMayBeLost
  PROVE  Spec => ResolversNeverSeeRegress
<1>1. Init => SeenIsKept
  BY DEF Init, SeenIsKept, Succeeds, Durable!Succeeds
<1>2. NamesInv /\ NamesInv' /\ MemoryIsTheFiles /\ SeenIsKept /\ [Next]_vars
        => SeenIsKept'
  <2> SUFFICES ASSUME NamesInv, NamesInv', MemoryIsTheFiles, SeenIsKept,
                      [Next]_vars
               PROVE  SeenIsKept'
    OBVIOUS
  <2>1. ASSUME NEW m \in NameRecords, NEW s \in Signatures, Register(m, s)
        PROVE  SeenIsKept'
    <3> SUFFICES ASSUME NEW u \in Uris PROVE Succeeds(namesFile'[u], seen[u])
      BY <2>1 DEF SeenIsKept, Register
    <3>1. namesFile' = names' /\ namesFile = names
      BY <2>1 DEF Register, SaveOutcomes, MemoryIsTheFiles
    <3>2. Succeeds(names'[u], names[u])
      BY <2>1, RegisterSucceeds DEF NamesInv, Succeeds, Durable!Succeeds
    <3>3. Succeeds(names[u], seen[u])
      BY <3>1 DEF SeenIsKept
    <3>4. /\ names'[u] \in NameRecords \cup {None}
          /\ names[u] \in NameRecords \cup {None}
          /\ seen[u] \in NameRecords \cup {None}
      BY DEF NamesInv, TypeOK, NameStore
    <3> QED
      BY <3>1, <3>2, <3>3, <3>4, SucceedsTransitive
  <2>2. ASSUME NEW u \in Uris, Resolve(u)
        PROVE  SeenIsKept'
    BY <2>2 DEF Resolve, SeenIsKept, MemoryIsTheFiles, NamesInv, TypeOK,
                NameStore, Succeeds, Durable!Succeeds
  <2>3. CASE UNCHANGED <<namesFile, seen>>
    BY <2>3 DEF SeenIsKept
  <2> QED
    BY <2>1, <2>2, <2>3
       DEF Next, RegisterReviewer, PostAssignment, AttachReview, Tick, Crash,
           Restart, vars, nameVars
<1>3. NamesInv /\ MemoryIsTheFiles /\ SeenIsKept /\ [Next]_vars =>
        [\A u \in Uris : Succeeds(seen'[u], seen[u])]_seen
  <2> SUFFICES ASSUME NamesInv, MemoryIsTheFiles, SeenIsKept, [Next]_vars,
                      seen' # seen
               PROVE  \A u \in Uris : Succeeds(seen'[u], seen[u])
    OBVIOUS
  <2>1. PICK v \in Uris : Resolve(v)
    BY DEF Next, Register, RegisterReviewer, PostAssignment, AttachReview,
           Tick, Crash, Restart, vars, nameVars
  <2>2. names = namesFile /\ seen' = [seen EXCEPT ![v] = names[v]]
    BY <2>1 DEF Resolve, MemoryIsTheFiles
  <2> QED
    BY <2>2 DEF SeenIsKept, NamesInv, TypeOK, NameStore, Succeeds,
                Durable!Succeeds
<1> QED
  BY <1>1, <1>2, <1>3, NamesInvInductive, MemoryIsSaved, PTL
     DEF Spec, ResolversNeverSeeRegress

(* The same of the files, which a restart turns into memory. *)
FilesRestOnAssignments ==
  StrictReviews =>
    \A r \in Reviewers, c \in ContentKeys :
      /\ attachmentsFile[c][r] # None => inboxFile[r][c] # None
      /\ inboxFile[r][c] # None => reviewersFile[r] # None

(* With reliable saves every review stands beside an assignment of its     *)
(* reviewer, and every assignment beside the reviewer's opt-in, through    *)
(* crashes and restarts (naming.py:570-597).                               *)
THEOREM ReviewsAreGrounded ==
  ASSUME ~SaveMayFail, ~FileMayBeLost
  PROVE  Spec => []ReviewsRestOnAssignments
<1>1. Init => ReviewsRestOnAssignments /\ FilesRestOnAssignments
  BY DEF Init, ReviewsRestOnAssignments, FilesRestOnAssignments, NoInbox,
         NoAttachments
<1>2. TypeOK /\ MemoryIsTheFiles /\ MemoryIsTheFiles'
        /\ ReviewsRestOnAssignments /\ FilesRestOnAssignments /\ [Next]_vars
        => ReviewsRestOnAssignments' /\ FilesRestOnAssignments'
  <2> SUFFICES ASSUME TypeOK, MemoryIsTheFiles, MemoryIsTheFiles',
                      ReviewsRestOnAssignments, FilesRestOnAssignments,
                      [Next]_vars
               PROVE  ReviewsRestOnAssignments' /\ FilesRestOnAssignments'
    OBVIOUS
  <2>1. ReviewsRestOnAssignments' /\ up' => FilesRestOnAssignments'
    BY DEF MemoryIsTheFiles, ReviewsRestOnAssignments, FilesRestOnAssignments
  <2>2. ASSUME NEW m \in OptIns, NEW s \in Signatures, RegisterReviewer(m, s)
        PROVE  ReviewsRestOnAssignments' /\ up'
    <3>1. \A r \in Reviewers : reviewers[r] # None => reviewers'[r] # None
      BY <2>2, NoneAssumption DEF RegisterReviewer, TypeOK, ReviewerStore
    <3> QED
      BY <2>2, <3>1 DEF RegisterReviewer, ReviewsRestOnAssignments, inboxVars,
                        attachVars
  <2>3. ASSUME NEW m \in Assignments, NEW s \in Signatures,
               PostAssignment(m, s)
        PROVE  ReviewsRestOnAssignments' /\ up'
    <3>1. ASSUME NEW r \in Reviewers, NEW c \in ContentKeys
          PROVE  /\ inbox[r][c] # None => inbox'[r][c] # None
                 /\ StrictReviews /\ inbox'[r][c] # None =>
                      reviewers[r] # None
      <4>1. \/ inbox'[r][c] = inbox[r][c]
            \/ /\ inbox'[r][c] = m
               /\ r \in Range(m.reviewer_public_keys)
        BY <2>3 DEF PostAssignment, TypeOK, AssignmentStore
      <4>2. StrictReviews =>
              \A q \in Range(m.reviewer_public_keys) : reviewers[q] # None
        BY <2>3 DEF PostAssignment, ReviewersAreAcceptable
      <4> QED
        BY <4>1, <4>2, NoneAssumption DEF ReviewsRestOnAssignments
    <3> QED
      BY <2>3, <3>1 DEF PostAssignment, ReviewsRestOnAssignments, optInVars,
                        attachVars
  <2>4. ASSUME NEW m \in Reviews, NEW s \in Signatures, AttachReview(m, s)
        PROVE  ReviewsRestOnAssignments' /\ up'
    <3>1. ASSUME NEW r \in Reviewers, NEW c \in ContentKeys,
                 StrictReviews, attachments'[c][r] # None
          PROVE  inbox[r][c] # None
      BY <2>4, <3>1 DEF AttachReview, ReviewWasAssigned, TypeOK,
                        AttachmentStore, ReviewsRestOnAssignments
    <3> QED
      BY <2>4, <3>1 DEF AttachReview, ReviewsRestOnAssignments, optInVars,
                        inboxVars
  <2>5. CASE UNCHANGED <<optInVars, inboxVars, attachVars>>
    BY <2>5 DEF ReviewsRestOnAssignments, FilesRestOnAssignments, optInVars,
                inboxVars, attachVars
  <2>6. CASE Crash
    BY <2>6 DEF Crash, ReviewsRestOnAssignments, FilesRestOnAssignments,
                NoInbox, NoAttachments
  <2>7. CASE Restart
    BY <2>7 DEF Restart, Loaded, ReviewsRestOnAssignments,
                FilesRestOnAssignments
  <2> QED
    BY <2>1, <2>2, <2>3, <2>4, <2>5, <2>6, <2>7
       DEF Next, Register, Resolve, Tick, vars
<1> QED
  BY <1>1, <1>2, TypeCorrect, MemoryIsSaved, PTL DEF Spec
=============================================================================
