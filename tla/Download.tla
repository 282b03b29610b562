------------------------------ MODULE Download ------------------------------
(***************************************************************************)
(* try_download_from_seeders (peer/bundle_protocol.py): one attempt per    *)
(* provider address, MaxParallel of them at a time, the first acceptable   *)
(* bundle wins and cancels the others.                                     *)
(*                                                                         *)
(* The attempts are tasks of one trio loop: a step below is what a task    *)
(* does between two awaits.  Seeders are not trusted: one outside Honest   *)
(* may refuse the connection, answer anything, or stall in any await until *)
(* the code's own deadline for that await.  Cancellation reaches a task at *)
(* an await, at once or after the await it was in has completed.           *)
(***************************************************************************)
EXTENDS Naturals, FiniteSets

CONSTANTS
  Seeders,      \* the provider addresses to try
  Honest,       \* those that serve an acceptable bundle within the timeout
  MaxParallel,  \* MAX_PARALLEL_SEEDERS
  None          \* no bundle

ASSUME DownloadAssumption ==
  /\ IsFiniteSet(Seeders)
  /\ Honest \subseteq Seeders
  /\ MaxParallel \in Nat \ {0}
  /\ None \notin Seeders

VARIABLES
  attempt,   \* attempt[s]: the await that s's task is in
  response,  \* response[s]: what came back, while the stream is closed
  winners,   \* the seeders whose bundle was appended to `winner`
  cancelled, \* was cancel_scope.cancel() called?
  returned   \* has the nursery been left, and the result returned?

vars == <<attempt, response, winners, cancelled, returned>>

\* The tasks that hold a token of the limiter.
Holders ==
  {s \in Seeders : attempt[s] \in {"dialing", "requesting", "closing"}}

\* s's task goes on to await `to`.
GoTo(s, to) == attempt' = [attempt EXCEPT ![s] = to]

\* s's stream is being closed, whatever else happens (shield=True).
CloseWith(s, answer) ==
  /\ GoTo(s, "closing")
  /\ response' = [response EXCEPT ![s] = answer]
-----------------------------------------------------------------------------
(* Definitions marked BROKEN are faulty variants of the definition that    *)
(* follows them; no action uses one.                                       *)

(* BROKEN: the limiter is not awaited. *)
AcquireAnyway(s) ==
  /\ attempt[s] = "queued"
  /\ GoTo(s, "dialing")
  /\ UNCHANGED <<response, winners, cancelled, returned>>

\* async with limiter
Acquire(s) ==
  /\ attempt[s] = "queued"
  /\ Cardinality(Holders) < MaxParallel
  /\ GoTo(s, "dialing")
  /\ UNCHANGED <<response, winners, cancelled, returned>>

\* The connection and the stream are open.
Connected(s) ==
  /\ attempt[s] = "dialing"
  /\ GoTo(s, "requesting")
  /\ UNCHANGED <<response, winners, cancelled, returned>>

\* The dial raises, and `guarded` logs it.
DialFails(s) ==
  /\ s \notin Honest
  /\ attempt[s] = "dialing"
  /\ GoTo(s, "done")
  /\ UNCHANGED <<response, winners, cancelled, returned>>

\* A bundle, something that is none, or an exception with no response.
Answered(s) ==
  /\ attempt[s] = "requesting"
  /\ \E answer \in {"acceptable", "refused", None} :
       /\ s \in Honest => answer = "acceptable"
       /\ CloseWith(s, answer)
  /\ UNCHANGED <<winners, cancelled, returned>>

\* What is awaited is abandoned; an open stream is closed first.
Abandon(s) ==
  \/ /\ attempt[s] \in {"queued", "dialing"}
     /\ GoTo(s, "done")
     /\ UNCHANGED response
  \/ /\ attempt[s] = "requesting"
     /\ CloseWith(s, None)

(* BROKEN: the deadline runs while the task still waits for the limiter. *)
TimeOutInQueue(s) ==
  /\ s \notin Honest \/ attempt[s] = "queued"
  /\ Abandon(s)
  /\ UNCHANGED <<winners, cancelled, returned>>

\* move_on_after(timeout), inside the limiter
TimeOut(s) ==
  /\ s \notin Honest
  /\ attempt[s] # "queued"
  /\ Abandon(s)
  /\ UNCHANGED <<winners, cancelled, returned>>

\* The nursery's scope was cancelled.
Cancel(s) ==
  /\ cancelled
  /\ Abandon(s)
  /\ UNCHANGED <<winners, cancelled, returned>>

(* BROKEN: `or winner` is forgotten, so a second bundle is appended. *)
JudgeAlways(s) ==
  /\ GoTo(s, "done")
  /\ response' = [response EXCEPT ![s] = None]
  /\ IF response[s] = "acceptable"
     THEN /\ winners' = winners \cup {s}
          /\ cancelled' = TRUE
     ELSE UNCHANGED <<winners, cancelled>>

(* The token is released, and without another await the response is        *)
(* dropped if there is a winner, else validated.                           *)
Judge(s) ==
  /\ GoTo(s, "done")
  /\ response' = [response EXCEPT ![s] = None]
  /\ IF response[s] = "acceptable" /\ winners = {}
     THEN /\ winners' = winners \cup {s}
          /\ cancelled' = TRUE
     ELSE UNCHANGED <<winners, cancelled>>

Closed(s) ==
  /\ attempt[s] = "closing"
  /\ Judge(s)
  /\ UNCHANGED returned

(* BROKEN: the shielded close has no deadline. *)
CloseNeverTimesOut(s) == FALSE /\ UNCHANGED vars

\* move_on_after(2): the peer did not acknowledge the close
CloseTimesOut(s) ==
  /\ s \notin Honest
  /\ attempt[s] = "closing"
  /\ Judge(s)
  /\ UNCHANGED returned

\* stream.close() raises: the response is lost with the exception.
CloseFails(s) ==
  /\ s \notin Honest
  /\ attempt[s] = "closing"
  /\ GoTo(s, "done")
  /\ response' = [response EXCEPT ![s] = None]
  /\ UNCHANGED <<winners, cancelled, returned>>

\* Every task has ended: winner[0] if winner else None
Return ==
  /\ ~ returned
  /\ \A s \in Seeders : attempt[s] = "done"
  /\ returned' = TRUE
  /\ UNCHANGED <<attempt, response, winners, cancelled>>
-----------------------------------------------------------------------------
Init ==
  /\ attempt = [s \in Seeders |-> "queued"]
  /\ response = [s \in Seeders |-> None]
  /\ winners = {}
  /\ cancelled = FALSE
  /\ returned = FALSE

Next ==
  \/ Return
  \/ \E s \in Seeders :
       \/ Acquire(s)
       \/ Connected(s)
       \/ DialFails(s)
       \/ Answered(s)
       \/ TimeOut(s)
       \/ Cancel(s)
       \/ Closed(s)
       \/ CloseTimesOut(s)
       \/ CloseFails(s)

(* The trio loop runs what is ready, its deadlines expire, and an honest   *)
(* seeder answers.  Nothing is asked of the other seeders.                 *)
Fairness ==
  /\ WF_vars(Return)
  /\ \A s \in Seeders :
       /\ WF_vars(Acquire(s))
       /\ WF_vars(TimeOut(s))
       /\ WF_vars(Cancel(s))
       /\ WF_vars(CloseTimesOut(s))
  /\ \A s \in Honest :
       /\ WF_vars(Connected(s))
       /\ WF_vars(Answered(s))
       /\ WF_vars(Closed(s))

Spec == Init /\ [][Next]_vars /\ Fairness
-----------------------------------------------------------------------------
(* Every variable stays within its type. *)
TypeOK ==
  /\ attempt \in [Seeders -> {"queued", "dialing", "requesting", "closing",
                              "done"}]
  /\ response \in [Seeders -> {"acceptable", "refused", None}]
  /\ winners \subseteq Seeders
  /\ cancelled \in BOOLEAN
  /\ returned \in BOOLEAN

(* No more than MAX_PARALLEL_SEEDERS streams are open or being opened, so  *)
(* no more responses are held, cancelled and timed out attempts included.  *)
MemoryIsBounded == Cardinality(Holders) <= MaxParallel

(* A single bundle is returned, though several acceptable ones may arrive  *)
(* while the shielded closes of their streams keep cancellation off.       *)
OneWinner == Cardinality(winners) <= 1

(* Whatever the seeders do, the download ends: each await of an attempt    *)
(* has its own deadline.                                                   *)
DownloadEnds == <>returned

(* "A failing seeder MUST NOT fail the whole fetch" (SPEC.md section 5):   *)
(* one honest seeder is enough, however many others stall in front of it   *)
(* in the limiter's queue.                                                 *)
HonestSeederIsEnough == returned /\ Honest # {} => winners # {}
=============================================================================
