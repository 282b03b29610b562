--------------------------- MODULE ReviewerDaemon ---------------------------
(***************************************************************************)
(* The reviewer's side of asynchronous reviews: run_reviewer_daemon        *)
(* (peer/reviewer_daemon.py) and the command that posts a verdict by hand  *)
(* (mdp2p_client/review_flow.py), composed with the naming server.         *)
(*                                                                         *)
(* One reviewer, `me`.  Publishers and both of the reviewer's processes    *)
(* send the server what the code builds, dated with the clock.  An RPC may *)
(* fail before the server acts or after it, and its sender cannot tell.    *)
(*                                                                         *)
(* The awaits of a pass, for content and for the callback's verdict, may   *)
(* each last for days: anything may happen between two steps of a pass.    *)
(* The inbox is read in the order of a dictionary, here in any order.      *)
(***************************************************************************)
EXTENDS NamingServer

CONSTANT me \* the reviewer's key

ASSUME DaemonAssumption ==
  /\ me \in Reviewers
  /\ 0 .. MaxTime \subseteq Timestamps

VARIABLES
  task,      \* where the daemon's poll loop is
  cacheFile, \* `processed` in reviewer_cache.json: contents
  processed, \* `processed` in _poll_once
  changed,   \* `changed` in _poll_once
  entries,   \* the assignments of the listing that are left to look at
  pollNow,   \* `now` in _poll_once, read once for the whole pass
  verdict,   \* the review record being attached
  decided,   \* contents for which the callback has returned
  repeated,  \* contents for which it has returned again
  expired,   \* contents of which an assignment was skipped as expired
  told       \* told[c]: the last verdict on c the server said "ok" to

passVars   == <<processed, changed, entries, pollNow, verdict>>
ghostVars  == <<decided, repeated, expired, told>>
daemonVars == <<task, cacheFile, passVars, ghostVars>>
serverVars == <<now, up, nameVars, optInVars, inboxVars, attachVars>>

(* _poll_once returns or raises, or the process ends. *)
EndPass(to) ==
  /\ task' = to
  /\ processed' = {}
  /\ changed' = FALSE
  /\ entries' = {}
  /\ pollNow' = 0
  /\ verdict' = None

Mark(c) ==
  /\ processed' = processed \cup {c}
  /\ changed' = TRUE
-----------------------------------------------------------------------------
(* Definitions marked BROKEN are faulty variants of the definition that    *)
(* follows them; no action uses one.                                       *)

(* Peer._solicit_reviews: an honest publisher assigns, or assigns again.   *)
Assign ==
  /\ \E m \in Assignments :
       /\ m.timestamp = now
       /\ PostAssignment(m, m.publisher_public_key)
  /\ UNCHANGED daemonVars

(* The server's own life, as in NamingServer. *)
ServerStep == (Tick \/ Crash \/ Restart) /\ UNCHANGED daemonVars

(* BROKEN: every heartbeat sends the opt-in that was signed first. *)
HeartbeatReplayed ==
  /\ task # "down"
  /\ RegisterReviewer([public_key |-> me, timestamp |-> 0], me)
  /\ UNCHANGED daemonVars

(* register_reviewer_once, at the start and at every heartbeat, when the   *)
(* server accepts it; the daemon goes on whether it did or not.            *)
Heartbeat ==
  /\ task # "down"
  /\ RegisterReviewer([public_key |-> me, timestamp |-> now], me)
  /\ UNCHANGED daemonVars

Start ==
  /\ task = "down"
  /\ task' = "idle"
  /\ UNCHANGED <<serverVars, cacheFile, passVars, ghostVars>>

(* The inbox is listed and is not empty; then the cache and the clock are  *)
(* read.  A failed listing is caught, and the loop sleeps again.           *)
StartPass ==
  LET listing == {inbox[me][c] : c \in ContentKeys} \ {None} IN
  /\ task = "idle"
  /\ up
  /\ listing # {}
  /\ task' = "polling"
  /\ entries' = listing
  /\ processed' \in Loaded(cacheFile, {})
  /\ pollNow' = now
  /\ UNCHANGED <<serverVars, cacheFile, changed, verdict, ghostVars>>

(* BROKEN: an assignment without content yet is marked all the same. *)
LeaveOutForGood(m) ==
  /\ task = "polling"
  /\ m \in entries
  /\ m.content_key \in processed \/ m.deadline >= pollNow
  /\ entries' = entries \ {m}
  /\ Mark(m.content_key)
  /\ UNCHANGED <<serverVars, task, cacheFile, pollNow, verdict, ghostVars>>

(* `continue`: it is in the cache, there is no content yet, or the fetch   *)
(* or the callback raised.                                                 *)
LeaveOut(m) ==
  /\ task = "polling"
  /\ m \in entries
  /\ m.content_key \in processed \/ m.deadline >= pollNow
  /\ entries' = entries \ {m}
  /\ UNCHANGED <<serverVars, task, cacheFile, processed, changed, pollNow,
                 verdict, ghostVars>>

SkipExpired(m) ==
  /\ task = "polling"
  /\ m \in entries
  /\ m.content_key \notin processed
  /\ m.deadline < pollNow
  /\ entries' = entries \ {m}
  /\ Mark(m.content_key)
  /\ expired' = expired \cup {m.content_key}
  /\ UNCHANGED <<serverVars, task, cacheFile, pollNow, verdict, decided,
                 repeated, told>>

\* The content of m was fetched and the callback returned.
CallbackReturns(m) ==
  /\ task = "polling"
  /\ m \in entries
  /\ m.content_key \notin processed
  /\ m.deadline >= pollNow
  /\ decided' = decided \cup {m.content_key}
  /\ repeated' = repeated \cup ({m.content_key} \cap decided)

(* It returned no verdict, or one, which is signed there and then. *)
Decide(m) ==
  /\ CallbackReturns(m)
  /\ entries' = entries \ {m}
  /\ \/ Mark(m.content_key) /\ UNCHANGED <<task, verdict>>
     \/ /\ task' = "attaching"
        /\ verdict' = [content_key |-> m.content_key,
                       reviewer_public_key |-> me, timestamp |-> now]
        /\ UNCHANGED <<processed, changed>>
  /\ UNCHANGED <<serverVars, cacheFile, pollNow, expired, told>>

(* It returned a verdict that build_review_record does not know.  That     *)
(* exception is caught by _poll_loop only: the pass is over, and what it   *)
(* had marked so far is not saved.                                         *)
DecideWrongly(m) ==
  /\ CallbackReturns(m)
  /\ EndPass("idle")
  /\ UNCHANGED <<serverVars, cacheFile, expired, told>>

\* "ok" is replied when the store has saved; the reply may be lost.
MayBeTold(review) ==
  \/ UNCHANGED told
  \/ /\ attachmentsFile' = attachments'
     /\ told' = [told EXCEPT ![review.content_key] = review]

(* _attach_verdict, when the server accepts the review. *)
Attach ==
  /\ task = "attaching"
  /\ AttachReview(verdict, me)
  /\ MayBeTold(verdict)
  /\ task' = "polling"
  /\ Mark(verdict.content_key)
  /\ verdict' = None
  /\ UNCHANGED <<cacheFile, entries, pollNow, decided, repeated, expired>>

(* The RPC raises or the server refuses: it is logged, and the assignment  *)
(* counts as processed all the same.                                       *)
AttachFails ==
  /\ task = "attaching"
  /\ task' = "polling"
  /\ Mark(verdict.content_key)
  /\ verdict' = None
  /\ UNCHANGED <<serverVars, cacheFile, entries, pollNow, ghostVars>>

(* BROKEN: cache["processed"] = processed is forgotten. *)
SaveCacheAsLoaded ==
  /\ task = "polling" /\ entries = {}
  /\ changed
  /\ EndPass("idle")
  /\ UNCHANGED <<serverVars, cacheFile, ghostVars>>

SaveCache ==
  /\ task = "polling" /\ entries = {}
  /\ changed
  /\ cacheFile' = processed
  /\ EndPass("idle")
  /\ UNCHANGED <<serverVars, ghostVars>>

(* Nothing to save, or the save raises and _poll_loop catches it. *)
NothingSaved ==
  /\ task = "polling" /\ entries = {}
  /\ ~ changed \/ SaveMayFail
  /\ EndPass("idle")
  /\ UNCHANGED <<serverVars, cacheFile, ghostVars>>

(* `mdp2p serve` ends, at any await: the pass is cancelled without a save. *)
Stop ==
  /\ task # "down"
  /\ EndPass("down")
  /\ UNCHANGED <<serverVars, cacheFile, ghostVars>>

(* do_attach_review: `mdp2p review` or the inbox of the TUI, in a process  *)
(* of its own; it neither reads nor writes the daemon's cache.             *)
ReviewByHand ==
  /\ \E c \in ContentKeys :
       LET review == [content_key |-> c, reviewer_public_key |-> me,
                      timestamp |-> now]
       IN AttachReview(review, me) /\ MayBeTold(review)
  /\ UNCHANGED <<task, cacheFile, passVars, decided, repeated, expired>>
-----------------------------------------------------------------------------
DaemonInit ==
  /\ Init
  /\ task = "down"
  /\ cacheFile = {} /\ processed = {} /\ changed = FALSE
  /\ entries = {} /\ pollNow = 0 /\ verdict = None
  /\ decided = {} /\ repeated = {} /\ expired = {}
  /\ told = [c \in ContentKeys |-> None]

DaemonNext ==
  \/ Assign
  \/ ServerStep
  \/ Heartbeat
  \/ Start
  \/ StartPass
  \/ \E m \in entries :
       LeaveOut(m) \/ SkipExpired(m) \/ Decide(m) \/ DecideWrongly(m)
  \/ Attach
  \/ AttachFails
  \/ SaveCache
  \/ NothingSaved
  \/ Stop
  \/ ReviewByHand

allVars == <<serverVars, daemonVars>>

\* Listed, not yet processed, and about content c.
About(c, m) == m.content_key = c

(* The trio loop runs the pass to its end and starts it again every five   *)
(* minutes.  Of what is outside the code: an RPC that is repeated reaches  *)
(* a server that stays up, content is published sooner or later, the       *)
(* callback returns a verdict, and a save that is repeated succeeds.       *)
Fairness ==
  /\ WF_allVars(Heartbeat)
  /\ WF_allVars(StartPass)
  /\ WF_allVars(\E m \in entries :
                  \/ LeaveOut(m) \/ SkipExpired(m)
                  \/ Decide(m) \/ DecideWrongly(m))
  /\ \A c \in ContentKeys :
       SF_allVars(\E m \in entries : About(c, m) /\ Decide(m))
  /\ WF_allVars(Attach \/ AttachFails)
  /\ SF_allVars(SaveCache)
  /\ WF_allVars(NothingSaved)

DaemonSpec == DaemonInit /\ [][DaemonNext]_allVars /\ Fairness
-----------------------------------------------------------------------------
(* Every variable stays within its type. *)
DaemonTypeOK ==
  /\ TypeOK
  /\ task \in {"down", "idle", "polling", "attaching"}
  /\ {cacheFile, processed, decided, repeated, expired} \subseteq
       SUBSET ContentKeys
  /\ changed \in BOOLEAN
  /\ entries \subseteq Assignments
  /\ pollNow \in 0 .. MaxTime
  /\ verdict \in Reviews \cup {None}
  /\ told \in [ContentKeys -> Reviews \cup {None}]

(* An assignment whose processing was saved is never given to the callback *)
(* again, through restarts of the daemon and assignments of the same       *)
(* content posted later (reviewer_daemon.py:312).                          *)
SavedIsNotRepeated ==
  [][\A c \in cacheFile : c \in repeated' => c \in repeated]_allVars

(* Nothing is written off untried: a content counts as processed only if   *)
(* the callback has returned for it, or one of its assignments had expired;*)
(* failed fetches and callbacks leave it for the next pass.                *)
NothingIsWrittenOff == cacheFile \subseteq decided \cup expired

(* A verdict that the reviewer was told is attached is not displaced by an *)
(* older one of its own, though the daemon and `mdp2p review` know nothing *)
(* of each other and the daemon's verdict may arrive long after it was     *)
(* signed (AttachmentStore.attach).                                        *)
VerdictsAreKept ==
  \A c \in ContentKeys : NoOlder(attachmentsFile[c][me], told[c])

(* An assignment that the server goes on offering is processed, and that   *)
(* is remembered, by a daemon that goes on running: no exception of a pass *)
(* ends the loop (_poll_loop).                                             *)
AssignmentsAreProcessed ==
  \A c \in ContentKeys :
    <>[](inbox[me][c] # None /\ task # "down") => <>(c \in cacheFile)

(* However often the server forgot it, a running reviewer is in the pool   *)
(* again once the server stays up (_heartbeat_loop).                       *)
ReviewerRejoins ==
  <>[](up /\ task # "down") => <>[](reviewers[me] # None)
=============================================================================
