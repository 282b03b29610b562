------------------------ MODULE ReviewerDaemon_proofs ------------------------
(***************************************************************************)
(* Theorems about ReviewerDaemon.  Every step of the reviewer's processes  *)
(* is a step of the naming server, or none of its steps at all, so what    *)
(* NamingServer_proofs proves of the server holds with a reviewer beside   *)
(* it; the lemmas proved there are reused here.                            *)
(***************************************************************************)
EXTENDS ReviewerDaemon, NamingServer_proofs

(* A verdict is being attached only for a content that was decided. *)
AttachingIsDecided ==
  task = "attaching" => verdict # None /\ verdict.content_key \in decided

DaemonInv == DaemonTypeOK /\ AttachingIsDecided

(* What the processes send is of the server's types. *)
LEMMA SentRecords ==
  ASSUME TypeOK
  PROVE  /\ now \in Timestamps /\ now \in 0 .. MaxTime
         /\ me \in Reviewers /\ me \in Signatures
         /\ [public_key |-> me, timestamp |-> now] \in OptIns
         /\ \A c \in ContentKeys :
              [content_key |-> c, reviewer_public_key |-> me,
               timestamp |-> now] \in Reviews
<1>1. now \in 0 .. MaxTime /\ now \in Timestamps /\ me \in Reviewers
  BY DaemonAssumption DEF TypeOK
<1> QED
  BY <1>1 DEF Signatures, OptIns, Reviews

(* The four kinds of requests that the processes send are server steps. *)
LEMMA RequestsAreServerSteps ==
  ASSUME TypeOK
  PROVE  /\ Assign => Next
         /\ ServerStep => Next
         /\ Heartbeat => Next
         /\ Attach /\ verdict \in Reviews => Next
         /\ ReviewByHand => Next
<1>1. Assign => Next
  <2> SUFFICES ASSUME Assign PROVE Next
    OBVIOUS
  <2>1. PICK m \in Assignments : PostAssignment(m, m.publisher_public_key)
    BY DEF Assign
  <2>2. m.publisher_public_key \in Signatures
    BY DEF Assignments, Signatures
  <2> QED
    BY <2>1, <2>2 DEF Next
<1>2. ServerStep => Next
  BY DEF ServerStep, Next
<1>3. Heartbeat => Next
  BY SentRecords DEF Heartbeat, Next
<1>4. Attach /\ verdict \in Reviews => Next
  BY SentRecords DEF Attach, Next
<1>5. ReviewByHand => Next
  <2> SUFFICES ASSUME ReviewByHand PROVE Next
    OBVIOUS
  <2>1. PICK c \in ContentKeys :
               AttachReview([content_key |-> c, reviewer_public_key |-> me,
                             timestamp |-> now], me)
    BY DEF ReviewByHand
  <2> QED
    BY <2>1, SentRecords DEF Next
<1> QED
  BY <1>1, <1>2, <1>3, <1>4, <1>5

(* A step of the composition is a step of the server or leaves it alone. *)
LEMMA StepIsServerStep ==
  ASSUME DaemonInv, [DaemonNext]_allVars
  PROVE  [Next]_vars
<1>1. TypeOK /\ (task = "attaching" => verdict \in Reviews)
  BY DEF DaemonInv, DaemonTypeOK, AttachingIsDecided
<1>2. CASE Assign \/ ServerStep \/ Heartbeat \/ ReviewByHand
  BY <1>1, <1>2, RequestsAreServerSteps
<1>3. CASE Attach
  BY <1>1, <1>3, RequestsAreServerSteps DEF Attach
<1>4. CASE UNCHANGED serverVars
  BY <1>4 DEF serverVars, vars
<1>5. Start \/ StartPass \/ AttachFails \/ SaveCache \/ NothingSaved \/ Stop
        => UNCHANGED serverVars
  BY DEF Start, StartPass, AttachFails, SaveCache, NothingSaved, Stop
<1>6. (\E m \in entries :
         LeaveOut(m) \/ SkipExpired(m) \/ Decide(m) \/ DecideWrongly(m))
        => UNCHANGED serverVars
  BY DEF LeaveOut, SkipExpired, Decide, DecideWrongly
<1>7. UNCHANGED allVars => UNCHANGED serverVars
  BY DEF allVars
<1> QED
  BY <1>2, <1>3, <1>4, <1>5, <1>6, <1>7 DEF DaemonNext
-----------------------------------------------------------------------------
(* The invariant the theorems below rest on holds at the start ... *)
LEMMA DaemonInvInitially == DaemonInit => DaemonInv
<1>1. 0 \in 0 .. MaxTime
  BY ServerAssumption
<1> QED
  BY <1>1, InitIsTyped DEF DaemonInit, DaemonInv, DaemonTypeOK,
     AttachingIsDecided

(* ... and every step of the composition keeps it. *)
LEMMA DaemonInvInductive ==
  ASSUME DaemonInv, [DaemonNext]_allVars
  PROVE  DaemonInv'
<1> USE DEF DaemonInv
<1>1. TypeOK'
  BY StepIsServerStep, TypeOKInductive DEF DaemonTypeOK
<1>2. ASSUME UNCHANGED daemonVars
      PROVE  DaemonInv'
  BY <1>1, <1>2 DEF DaemonTypeOK, AttachingIsDecided, daemonVars, passVars,
                    ghostVars
<1>3. Assign \/ ServerStep \/ Heartbeat => UNCHANGED daemonVars
  BY DEF Assign, ServerStep, Heartbeat
<1>4. CASE Start
  BY <1>1, <1>4 DEF Start, DaemonTypeOK, AttachingIsDecided, passVars,
                    ghostVars
<1>5. CASE StartPass
  <2>1. {inbox[me][c] : c \in ContentKeys} \ {None} \subseteq Assignments
    BY DaemonAssumption DEF DaemonTypeOK, TypeOK, AssignmentStore
  <2>2. now \in 0 .. MaxTime
    BY DEF DaemonTypeOK, TypeOK
  <2>3. processed' \subseteq ContentKeys
    BY <1>5 DEF StartPass, Loaded, DaemonTypeOK
  <2> QED
    BY <1>1, <1>5, <2>1, <2>2, <2>3
       DEF StartPass, DaemonTypeOK, AttachingIsDecided, ghostVars
<1>6. ASSUME NEW m \in entries, LeaveOut(m)
      PROVE  DaemonInv'
  BY <1>1, <1>6 DEF LeaveOut, DaemonTypeOK, AttachingIsDecided, ghostVars
<1>7. ASSUME NEW m \in entries
      PROVE  m.content_key \in ContentKeys
  BY <1>7 DEF DaemonTypeOK, Assignments
<1>8. ASSUME NEW m \in entries, SkipExpired(m)
      PROVE  DaemonInv'
  BY <1>1, <1>7, <1>8
     DEF SkipExpired, Mark, DaemonTypeOK, AttachingIsDecided
<1>9. ASSUME NEW m \in entries, CallbackReturns(m)
      PROVE  /\ decided' = decided \cup {m.content_key}
             /\ decided' \subseteq ContentKeys
             /\ repeated' \subseteq ContentKeys
  BY <1>7, <1>9 DEF CallbackReturns, DaemonTypeOK
<1>10. ASSUME NEW m \in entries, Decide(m)
       PROVE  DaemonInv'
  <2>1. \/ verdict' = verdict /\ task' = "polling"
        \/ /\ verdict' \in Reviews
           /\ verdict'.content_key = m.content_key
           /\ task' = "attaching"
    BY <1>7, <1>10, SentRecords DEF Decide, CallbackReturns, DaemonTypeOK
  <2>2. processed' \subseteq ContentKeys /\ changed' \in BOOLEAN
    BY <1>7, <1>10 DEF Decide, Mark, DaemonTypeOK
  <2>3. CallbackReturns(m)
    BY <1>10 DEF Decide
  <2>4. entries' \subseteq Assignments /\ UNCHANGED <<cacheFile, pollNow,
                                                      expired, told>>
    BY <1>10 DEF Decide, DaemonTypeOK
  <2>5. verdict' \in Reviews \cup {None}
    BY <2>1 DEF DaemonTypeOK
  <2> QED
    BY <1>1, <1>9, <2>1, <2>2, <2>3, <2>4, <2>5, NoneAssumption
       DEF DaemonTypeOK, AttachingIsDecided
<1>11. ASSUME NEW m \in entries, DecideWrongly(m)
       PROVE  DaemonInv'
  <2>1. CallbackReturns(m) /\ EndPass("idle") /\ 0 \in 0 .. MaxTime
    BY <1>11, ServerAssumption DEF DecideWrongly
  <2> QED
    BY <1>1, <1>9, <1>11, <2>1
       DEF DecideWrongly, EndPass, DaemonTypeOK, AttachingIsDecided
<1>12. CASE Attach
  <2>1. verdict \in Reviews /\ verdict.content_key \in ContentKeys
    BY <1>12 DEF Attach, DaemonTypeOK, AttachingIsDecided, Reviews
  <2>2. told' \in [ContentKeys -> Reviews \cup {None}]
    BY <1>12, <2>1 DEF Attach, MayBeTold, DaemonTypeOK
  <2> QED
    BY <1>1, <1>12, <2>1, <2>2
       DEF Attach, Mark, DaemonTypeOK, AttachingIsDecided
<1>13. CASE AttachFails
  <2>1. verdict.content_key \in ContentKeys
    BY <1>13 DEF AttachFails, DaemonTypeOK, AttachingIsDecided, Reviews
  <2> QED
    BY <1>1, <1>13, <2>1
       DEF AttachFails, Mark, DaemonTypeOK, AttachingIsDecided, ghostVars
<1>14. CASE SaveCache \/ NothingSaved \/ Stop
  <2>1. 0 \in 0 .. MaxTime
    BY ServerAssumption
  <2> QED
    BY <1>1, <1>14, <2>1
       DEF SaveCache, NothingSaved, Stop, EndPass, DaemonTypeOK,
           AttachingIsDecided, ghostVars
<1>15. CASE ReviewByHand
  <2>1. PICK c \in ContentKeys :
               MayBeTold([content_key |-> c, reviewer_public_key |-> me,
                          timestamp |-> now])
    BY <1>15 DEF ReviewByHand
  <2>2. told' \in [ContentKeys -> Reviews \cup {None}]
    BY <2>1, SentRecords DEF MayBeTold, DaemonTypeOK
  <2> QED
    BY <1>1, <1>15, <2>2
       DEF ReviewByHand, DaemonTypeOK, AttachingIsDecided, passVars
<1>16. UNCHANGED allVars => UNCHANGED daemonVars
  BY DEF allVars
<1> QED
  BY <1>2, <1>3, <1>4, <1>5, <1>6, <1>8, <1>10, <1>11, <1>12, <1>13, <1>14, <1>15,
     <1>16 DEF DaemonNext
-----------------------------------------------------------------------------
(* Every variable of the composition keeps its type (_poll_once, and the   *)
(* stores of naming.py:90 under the requests of honest senders).           *)
THEOREM DaemonTypeCorrect == DaemonSpec => []DaemonTypeOK
<1>1. DaemonInv => DaemonTypeOK
  BY DEF DaemonInv
<1> QED
  BY <1>1, DaemonInvInitially, DaemonInvInductive, PTL DEF DaemonSpec

(* The composition implements the naming server, so each theorem about     *)
(* NamingServer!Spec is one about the server with a reviewer's processes   *)
(* (peer/reviewer_daemon.py, mdp2p_client/review_flow.py) at work.         *)
THEOREM DaemonImplementsServer == DaemonSpec => Spec
<1>1. DaemonInit => Init
  BY DEF DaemonInit
<1> QED
  BY <1>1, DaemonInvInitially, DaemonInvInductive, StepIsServerStep, PTL
     DEF DaemonSpec, Spec
-----------------------------------------------------------------------------
(* What was marked in this pass, or saved in an earlier one, was decided   *)
(* or had expired; this is NothingIsWrittenOff before it reaches the file. *)
MarkedIsTried == processed \subseteq decided \cup expired

(* A content counts as processed only if the callback has returned for it  *)
(* or one of its assignments had expired: failed fetches and callbacks     *)
(* leave it for the next pass (reviewer_daemon.py:307-347).                *)
THEOREM NoneIsWrittenOff == DaemonSpec => []NothingIsWrittenOff
<1> DEFINE Inv == NothingIsWrittenOff /\ MarkedIsTried
<1>1. DaemonInit => Inv
  BY DEF DaemonInit, NothingIsWrittenOff, MarkedIsTried
<1>2. DaemonInv /\ Inv /\ [DaemonNext]_allVars => Inv'
  <2> SUFFICES ASSUME DaemonInv, Inv, [DaemonNext]_allVars
               PROVE  Inv'
    OBVIOUS
  <2> USE DEF NothingIsWrittenOff, MarkedIsTried
  <2>1. CASE UNCHANGED <<cacheFile, passVars, decided, expired>>
    BY <2>1 DEF passVars
  <2>2. Assign \/ ServerStep \/ Heartbeat \/ Start \/ ReviewByHand
          \/ UNCHANGED allVars
            => UNCHANGED <<cacheFile, passVars, decided, expired>>
    BY DEF Assign, ServerStep, Heartbeat, Start, ReviewByHand, allVars,
           daemonVars, ghostVars
  <2>3. CASE StartPass
    BY <2>3 DEF StartPass, Loaded, ghostVars
  <2>4. ASSUME NEW m \in entries,
               LeaveOut(m) \/ SkipExpired(m) \/ Decide(m) \/ DecideWrongly(m)
        PROVE  Inv'
    BY <2>4 DEF LeaveOut, SkipExpired, Decide, DecideWrongly,
                  CallbackReturns, EndPass, Mark, ghostVars
  <2>5. CASE Attach \/ AttachFails
    BY <2>5 DEF DaemonInv, AttachingIsDecided, Attach, AttachFails, Mark,
                ghostVars
  <2>6. CASE SaveCache \/ NothingSaved \/ Stop
    BY <2>6 DEF SaveCache, NothingSaved, Stop, EndPass, ghostVars
  <2> QED
    BY <2>1, <2>2, <2>3, <2>4, <2>5, <2>6 DEF DaemonNext
<1>3. Inv => NothingIsWrittenOff
  OBVIOUS
<1> QED
  BY <1>1, <1>2, <1>3, DaemonInvInitially, DaemonInvInductive, PTL
     DEF DaemonSpec
-----------------------------------------------------------------------------
(* The set a pass works with never falls behind the file it was read from. *)
CacheIsLoaded ==
  task \in {"polling", "attaching"} => cacheFile \subseteq processed

(* While the cache file is readable, an assignment whose processing was    *)
(* saved is never given to the callback again (reviewer_daemon.py:312).    *)
THEOREM SavedStaysSaved ==
  ASSUME ~FileMayBeLost
  PROVE  DaemonSpec => SavedIsNotRepeated
<1>1. DaemonInit => CacheIsLoaded
  BY DEF DaemonInit, CacheIsLoaded
<1>2. CacheIsLoaded /\ [DaemonNext]_allVars
        => /\ CacheIsLoaded'
           /\ \A c \in cacheFile : c \in repeated' => c \in repeated
  <2> SUFFICES ASSUME CacheIsLoaded, [DaemonNext]_allVars
               PROVE  /\ CacheIsLoaded'
                      /\ \A c \in cacheFile : c \in repeated' => c \in repeated
    OBVIOUS
  <2> USE DEF CacheIsLoaded
  <2>1. CASE UNCHANGED <<task, cacheFile, processed, repeated>>
    BY <2>1
  <2>2. Assign \/ ServerStep \/ Heartbeat \/ ReviewByHand \/ UNCHANGED allVars
          => UNCHANGED <<task, cacheFile, processed, repeated>>
    BY DEF Assign, ServerStep, Heartbeat, ReviewByHand, allVars, daemonVars,
           passVars, ghostVars
  <2>3. CASE Start \/ StartPass
    BY <2>3, ~FileMayBeLost DEF Start, StartPass, Loaded, ghostVars
  <2>4. ASSUME NEW m \in entries,
               LeaveOut(m) \/ SkipExpired(m) \/ Decide(m) \/ DecideWrongly(m)
        PROVE  /\ CacheIsLoaded'
               /\ \A c \in cacheFile : c \in repeated' => c \in repeated
    BY <2>4 DEF LeaveOut, SkipExpired, Decide, DecideWrongly,
                  CallbackReturns, EndPass, Mark, ghostVars
  <2>5. CASE Attach \/ AttachFails
    BY <2>5 DEF Attach, AttachFails, Mark, ghostVars
  <2>6. CASE SaveCache \/ NothingSaved \/ Stop
    BY <2>6 DEF SaveCache, NothingSaved, Stop, EndPass, ghostVars
  <2> QED
    BY <2>1, <2>2, <2>3, <2>4, <2>5, <2>6 DEF DaemonNext
<1> QED
  BY <1>1, <1>2, PTL DEF DaemonSpec, SavedIsNotRepeated
-----------------------------------------------------------------------------
(* Of three verdicts in a row, the last is no older than the first. *)
LEMMA NoOlderTransitive ==
  ASSUME NEW a \in Reviews \cup {None}, NEW b \in Reviews \cup {None},
         NEW c \in Reviews \cup {None}, NoOlder(a, b), NoOlder(b, c)
  PROVE  NoOlder(a, c)
<1>1. \A r \in Reviews : r.timestamp \in Nat
  BY TimesAreNatural DEF Reviews
<1> QED
  BY <1>1 DEF NoOlder

(* When a sender is told "ok", the file holds its review. *)
LEMMA ToldIsInTheFile ==
  ASSUME TypeOK, NEW review \in Reviews, AttachReview(review, me),
         told \in [ContentKeys -> Reviews \cup {None}], MayBeTold(review),
         NEW c \in ContentKeys
  PROVE  told'[c] = told[c] \/ told'[c] = attachmentsFile'[c][me]
<1>1. review.reviewer_public_key = me /\ review.content_key \in ContentKeys
  BY DEF AttachReview, verify_review_record, Reviews
<1>2. attachments'[review.content_key][me] = review
  BY <1>1 DEF AttachReview, TypeOK, AttachmentStore, Reviews
<1> QED
  BY <1>2 DEF MayBeTold

(* A verdict whose sender was told "ok" stays, or gives way to a newer one *)
(* of the same reviewer, whichever of its two processes sent either        *)
(* (AttachmentStore.attach, naming.py:337).                                *)
THEOREM ToldVerdictsAreKept ==
  ASSUME ~FileMayBeLost
  PROVE  DaemonSpec => []VerdictsAreKept
<1>1. DaemonInit => ReviewsInv /\ VerdictsAreKept
  BY InitReviews DEF DaemonInit, VerdictsAreKept, NoOlder
<1>2. DaemonInv /\ DaemonInv' /\ ReviewsInv /\ VerdictsAreKept
        /\ [DaemonNext]_allVars => ReviewsInv' /\ VerdictsAreKept'
  <2> SUFFICES ASSUME DaemonInv, DaemonInv', ReviewsInv, VerdictsAreKept,
                      [DaemonNext]_allVars
               PROVE  ReviewsInv' /\ VerdictsAreKept'
    OBVIOUS
  <2>1. TypeOK /\ TypeOK' /\ told \in [ContentKeys -> Reviews \cup {None}]
    BY DEF DaemonInv, DaemonTypeOK
  <2>2. /\ ReviewsInv'
        /\ \A c \in ContentKeys :
             NoOlder(attachmentsFile'[c][me], attachmentsFile[c][me])
    BY <2>1, ~FileMayBeLost, StepIsServerStep, ReviewsInvInductive,
       DaemonAssumption
  <2>3. ASSUME NEW c \in ContentKeys
        PROVE  told'[c] = told[c] \/ told'[c] = attachmentsFile'[c][me]
    <3>1. CASE Attach
      <4>1. verdict \in Reviews
        BY <3>1 DEF Attach, DaemonInv, DaemonTypeOK, AttachingIsDecided
      <4> QED
        BY <2>1, <3>1, <4>1, ToldIsInTheFile DEF Attach
    <3>2. CASE ReviewByHand
      <4>1. PICK d \in ContentKeys :
                   LET review == [content_key |-> d,
                                  reviewer_public_key |-> me,
                                  timestamp |-> now]
                   IN AttachReview(review, me) /\ MayBeTold(review)
        BY <3>2 DEF ReviewByHand
      <4> QED
        BY <2>1, <4>1, SentRecords, ToldIsInTheFile
    <3>3. CASE UNCHANGED told
      BY <3>3
    <3> QED
      BY <3>1, <3>2, <3>3
         DEF DaemonNext, Assign, ServerStep, Heartbeat, Start, StartPass,
             LeaveOut, SkipExpired, Decide, DecideWrongly, AttachFails,
             SaveCache, NothingSaved, Stop, allVars, daemonVars, ghostVars
  <2>4. ASSUME NEW c \in ContentKeys
        PROVE  NoOlder(attachmentsFile'[c][me], told'[c])
    <3>1. /\ attachmentsFile[c][me] \in Reviews \cup {None}
          /\ attachmentsFile'[c][me] \in Reviews \cup {None}
      BY <2>1, DaemonAssumption DEF TypeOK, AttachmentStore
    <3>2. told[c] \in Reviews \cup {None}
      BY <2>1
    <3>3. NoOlder(attachmentsFile[c][me], told[c])
      BY DEF VerdictsAreKept
    <3>4. NoOlder(attachmentsFile'[c][me], told[c])
      BY <2>2, <3>1, <3>2, <3>3, NoOlderTransitive
    <3>5. CASE told'[c] = attachmentsFile'[c][me]
      <4>1. \A r \in Reviews : r.timestamp \in Nat
        BY TimesAreNatural DEF Reviews
      <4> QED
        BY <3>1, <3>5, <4>1 DEF NoOlder
    <3> QED
      BY <2>3, <3>4, <3>5
  <2> QED
    BY <2>2, <2>4 DEF VerdictsAreKept
<1> QED
  BY <1>1, <1>2, DaemonInvInitially, DaemonInvInductive, PTL DEF DaemonSpec
=============================================================================
