------------------------------ MODULE Reviews ------------------------------
(***************************************************************************)
(* The way of a review through the network, at its two ends: the publisher *)
(* who looks for reviewers (_solicit_reviews in peer/peer.py, the client   *)
(* of naming.py, review/selection.py) and the reader who scores what they  *)
(* said (_cache_attachments in peer/peer.py, mdp2p_client/scoring.py).     *)
(* Module NamingServer has the server's stores and ReviewerDaemon the      *)
(* reviewer; here the server is what its clients see of it: honest, or one *)
(* that answers whatever it likes except what it cannot sign.              *)
(*                                                                         *)
(* One content is published once.  A key is the number of its place among  *)
(* the keys in the order of their text; addresses and comments are left    *)
(* out.  The categories of the taxonomy are any set.  Time is in half      *)
(* lives of the reader's policy; every clock shows the same.               *)
(***************************************************************************)
EXTENDS Scoring, SequencesExt

CONSTANTS
  Keys,            \* the reviewers, numbers
  Reviewing,       \* those who sign reviews while we watch
  Stranger,        \* a key that a forger made up or that never reviews
  Categories,      \* of reviewers
  Content,         \* the categories in the manifest
  Rank,            \* Rank[k]: SHA-256(content_key, k)
  review_count,
  Freshness,       \* reviewer_freshness_seconds, or None
  PageSize,        \* DEFAULT_PAGE_SIZE
  max_pages,
  MaxReviewers,    \* MAX_REVIEWERS_PER_ASSIGNMENT
  Verdicts,
  Policy, Peers,   \* policy.json and trust.json of the reader
  MaxTime,         \* bounds the clock
  MaxOptIns,       \* bounds the opt-ins
  MaxReviews,      \* bounds the reviews
  MaxPage,         \* bounds the opt-ins in a page of a lying server
  MaxAnswer        \* bounds the reviews in an answer of a lying server

ASSUME ReviewsAssumption ==
  /\ Keys \subseteq Nat /\ IsFiniteSet(Keys)
  /\ Reviewing \subseteq Keys /\ Stranger \in Nat \ Keys
  /\ Rank \in [Keys \cup {Stranger} -> Nat] /\ IsInjective(Rank)
  /\ {review_count, PageSize, max_pages, MaxReviewers} \subseteq Nat \ {0}
  /\ review_count <= MaxReviewers
  /\ Freshness \in Nat \cup {None} /\ None \notin Nat
  /\ Cardinality(Keys) <= PageSize * max_pages
  /\ {MaxTime, MaxOptIns, MaxReviews, MaxPage, MaxAnswer} \subseteq Nat

(* All of these are numbers: load_policy converts its own with float()     *)
(* (trust/policy.py:80-116), the scorer those of a peer with float() and   *)
(* int() (trust/scorer.py:116-122).                                        *)
ASSUME PolicyAssumption ==
  /\ {Policy.max_weight, Policy.default_weight, Policy.learning_rate}
       \subseteq Int
  /\ \A v \in Verdicts : Policy.severity[v] \in Int
  /\ \A k \in DOMAIN Policy.moderators : Policy.moderators[k] \in Int
  /\ \A k \in DOMAIN Peers :
       /\ Peers[k].explicit \in Int \cup {None}
       /\ {Peers[k].confirmed, Peers[k].disputed} \subseteq Nat

VARIABLES
  now,
  honest,     \* does the server follow naming.py?
  optins,     \* the opt-ins that reviewers have signed
  listing,    \* ReviewerStore._records, in the order of the dictionary
  phase,      \* where the publication is
  offset, records, pages,  \* of _rpc_all_pages
  steady,     \* the keys listed when the listing began; None after a restart
  selected,   \* the assignment that is being posted, or None
  refused,    \* did an honest server refuse the assignment?
  assigned,   \* the reviewers that have the assignment in their inbox
  signed,     \* the reviews that reviewers have signed
  attached,   \* attached[k]: the review of k the server holds, or None
  cache       \* attachments.json beside the reader's copy, or None

serverVars == <<listing, assigned, attached>>
listVars == <<offset, records, pages, steady>>
publisherVars == <<phase, listVars, selected, refused>>
vars == <<now, honest, optins, serverVars, publisherVars, signed, cache>>
-----------------------------------------------------------------------------
(* Definitions marked BROKEN are faulty variants of the definition that    *)
(* follows them; no action uses one.                                       *)

OptIn(k, filter) ==
  [public_key |-> k, categories |-> filter, timestamp |-> now]
ReviewOf(content, k, v) ==
  [content_key |-> content, reviewer_public_key |-> k, verdict |-> v,
   timestamp |-> now]

(* What was signed verifies, and what was not does not.                    *)
verify_reviewer_opt_in(record) == record \in optins
verify_review_record(record) == record \in signed

ForgedOptIns == {OptIn(k, {}) : k \in Keys \cup {Stranger}} \ optins
Forgeries == {ReviewOf("this", k, v) : k \in Reviewing, v \in Verdicts} \ signed

Position(k) == CHOOSE i \in DOMAIN listing : listing[i].public_key = k
Listed == {listing[i].public_key : i \in DOMAIN listing}

(* BROKEN: an update is a removal and an insertion. *)
put_at_end(record) ==
  SelectSeq(listing, LAMBDA r : r.public_key # record.public_key) \o <<record>>

(* ReviewerStore.set: a key that the dictionary has keeps its place there. *)
put(record) ==
  IF record.public_key \in Listed
  THEN [listing EXCEPT ![Position(record.public_key)] = record]
  ELSE Append(listing, record)

_paginate(items, from) ==
  [page |-> SubSeq(items, from + 1, Min({from + PageSize, Len(items)})),
   next_offset |-> IF from + PageSize < Len(items)
                   THEN from + PageSize ELSE None]

(* BROKEN: the signature is not verified. *)
is_fresh_and_willing(record) ==
  /\ Freshness # None => now - record.timestamp <= Freshness
  /\ record.categories # {} => record.categories \cap Content # {}

(* _extract_fresh_reviewer_pool: signed, recent, and of a reviewer whose   *)
(* filter, if there is one, meets the content.                             *)
is_candidate(record) ==
  /\ verify_reviewer_opt_in(record)
  /\ Freshness # None => now - record.timestamp <= Freshness
  /\ record.categories # {} => record.categories \cap Content # {}

(* The elements of S in the order of their value under f.                  *)
Ordered(S, f) ==
  [n \in 1..Cardinality(S) |->
     CHOOSE x \in S : Cardinality({y \in S : f[y] <= f[x]}) = n]

pool(entries) ==
  LET kept == {i \in DOMAIN entries : is_candidate(entries[i])}
      at == Ordered(kept, [i \in kept |-> i])
  IN  [n \in DOMAIN at |-> entries[at[n]].public_key]

(* BROKEN: the pool is not deduplicated. *)
select_with_repeats(keys) ==
  LET ranked == SortSeq(keys, LAMBDA j, k : Rank[j] < Rank[k])
  IN  SubSeq(ranked, 1, Min({review_count, Len(ranked)}))

select_reviewers(keys) ==
  LET ranked == Ordered(Range(keys), Rank)
  IN  SubSeq(ranked, 1, Min({review_count, Len(ranked)}))

(* _check_assignment_reviewers *)
is_acceptable(keys) ==
  /\ Len(keys) <= MaxReviewers
  /\ IsInjective(keys)
  /\ \A i \in DOMAIN keys : keys[i] \in Listed

(* Of the entries, in this order, those that are reviews of the content.   *)
load_signals(entries) ==
  LET kept == {i \in DOMAIN entries :
                 verify_review_record(entries[i])
                   /\ entries[i].content_key = "this"}
      at == Ordered(kept, [i \in kept |-> i])
  IN  [n \in DOMAIN at |->
         [source_pubkey |-> entries[at[n]].reviewer_public_key,
          verdict |-> entries[at[n]].verdict,
          timestamp |-> entries[at[n]].timestamp]]

(* score_from_cache, and compute_score on the same answer.  Without a file *)
(* the content is unreviewed.                                              *)
cached_score ==
  IF cache = None THEN 0
  ELSE score_content(load_signals(cache), Peers, Policy, now)
-----------------------------------------------------------------------------
(* A reviewer's opt-in reaches the server, which keeps the newer.          *)
RegisterReviewer(k, filter) ==
  LET record == OptIn(k, filter) IN
  /\ phase # "announced"
  /\ Cardinality(optins) < MaxOptIns
  /\ k \in Listed => listing[Position(k)].timestamp < now
  /\ optins' = optins \cup {record}
  /\ listing' = put(record)
  /\ UNCHANGED <<now, honest, assigned, attached, publisherVars, signed, cache>>

(* The server stops and starts: the file has its keys in order.            *)
Restart ==
  LET key == [i \in DOMAIN listing |-> listing[i].public_key]
      at == Ordered(DOMAIN listing, key) IN
  /\ phase # "announced"
  /\ listing' = [n \in DOMAIN at |-> listing[at[n]]]
  /\ listing' # listing
  /\ steady' = None
  /\ UNCHANGED <<now, honest, optins, assigned, attached, phase, offset, records,
                 pages, selected, refused, signed, cache>>

(* The name is registered and the publisher turns to the reviewers.        *)
StartListing ==
  /\ phase = "registered"
  /\ phase' = "listing"
  /\ steady' = Listed
  /\ UNCHANGED <<now, honest, optins, serverVars, offset, records, pages,
                 selected, refused, signed, cache>>

(* Whatever became of the reviews, Peer.publish goes on to announce.       *)
Announce ==
  /\ phase' = "announced"
  /\ offset' = 0 /\ records' = <<>> /\ pages' = 0 /\ steady' = {}
  /\ selected' = None

Answers ==
  IF honest THEN {_paginate(listing, offset)}
  ELSE [page : BoundedSeq(optins \cup ForgedOptIns, MaxPage),
        next_offset : {None, 0, 1}]

(* BROKEN: the pages are not counted. *)
is_last_of_answers(next_offset, count) == next_offset = None

is_last(next_offset, count) == next_offset = None \/ count = max_pages

(* One page of _rpc_all_pages; after the last one _solicit_reviews builds  *)
(* and signs the assignment before it waits again.                         *)
ListPage ==
  /\ phase = "listing"
  /\ \E answer \in Answers :
       LET entries == records \o answer.page IN
       IF is_last(answer.next_offset, pages + 1)
       THEN /\ phase' = "posting"
            /\ selected' =
                 [reviewer_public_keys |-> select_reviewers(pool(entries)),
                  timestamp |-> now]
            /\ offset' = 0 /\ records' = <<>> /\ pages' = 0
       ELSE /\ offset' = answer.next_offset
            /\ records' = entries
            /\ pages' = Min({pages + 1, max_pages})
            /\ UNCHANGED <<phase, selected>>
  /\ UNCHANGED <<now, honest, optins, serverVars, steady, refused, signed, cache>>

(* A page is an error, whatever the pages before it were; or the connection*)
(* fails.                                                                  *)
ListFails ==
  /\ phase = "listing"
  /\ Announce
  /\ UNCHANGED <<now, honest, optins, serverVars, refused, signed, cache>>

NobodySelected ==
  /\ phase = "posting"
  /\ selected.reviewer_public_keys = <<>>
  /\ Announce
  /\ UNCHANGED <<now, honest, optins, serverVars, refused, signed, cache>>

PostAssignment ==
  LET keys == selected.reviewer_public_keys IN
  /\ phase = "posting"
  /\ keys # <<>>
  /\ Announce
  /\ refused' = (honest /\ ~is_acceptable(keys))
  /\ assigned' = IF refused' THEN {} ELSE Range(keys)
  /\ UNCHANGED <<now, honest, optins, listing, attached, signed, cache>>

(* The request is lost, or a server that lies drops it.                    *)
PostFails ==
  /\ phase = "posting"
  /\ Announce
  /\ UNCHANGED <<now, honest, optins, serverVars, refused, signed, cache>>
-----------------------------------------------------------------------------
(* Reviews and readers come when the content is announced.  Anybody may    *)
(* sign a review; a server in strict mode takes those it has an assignment *)
(* for, and the newer of two.                                              *)
AttachReview(content, k, v) ==
  LET record == ReviewOf(content, k, v)
      Kept == content = "this" /\ k \in assigned
              /\ (attached[k] # None => attached[k].timestamp < now)
  IN
  /\ phase = "announced"
  /\ Cardinality(signed) < MaxReviews
  /\ signed' = signed \cup {record}
  /\ attached' = IF Kept THEN [attached EXCEPT ![k] = record] ELSE attached
  /\ UNCHANGED <<now, honest, optins, listing, assigned, publisherVars, cache>>

Attachments ==
  IF honest
  THEN {SetToSeq({attached[k] : k \in Reviewing} \ {None})}
  ELSE BoundedSeq(signed \cup Forgeries, MaxAnswer)

(* A fetch puts a new directory in place, without attachments.json.        *)
SwapDirectory ==
  /\ cache # None
  /\ cache' = None
  /\ UNCHANGED <<now, honest, optins, serverVars, publisherVars, signed>>

(* Then _cache_attachments asks for the reviews; if that fails it leaves   *)
(* the directory without them.                                             *)
CacheAttachments ==
  /\ phase = "announced"
  /\ cache = None
  /\ cache' \in Attachments
  /\ UNCHANGED <<now, honest, optins, serverVars, publisherVars, signed>>

Tick ==
  /\ now < MaxTime
  /\ now' = now + 1
  /\ UNCHANGED <<honest, optins, serverVars, publisherVars, signed, cache>>

Init ==
  /\ now = 1
  /\ honest \in BOOLEAN
  /\ optins = {} /\ listing = <<>>
  /\ assigned = {} /\ attached = [k \in Reviewing |-> None]
  /\ phase = "registered"
  /\ offset = 0 /\ records = <<>> /\ pages = 0 /\ steady = {}
  /\ selected = None /\ refused = FALSE
  /\ signed = {} /\ cache = None

Publisher ==
  StartListing \/ ListPage \/ ListFails \/ NobodySelected \/ PostAssignment
  \/ PostFails

Next ==
  \/ \E k \in Keys, filter \in SUBSET Categories : RegisterReviewer(k, filter)
  \/ Restart
  \/ Publisher
  \/ \E content \in {"this", "other"}, k \in Reviewing,
        v \in Verdicts :
       AttachReview(content, k, v)
  \/ SwapDirectory
  \/ CacheAttachments
  \/ Tick

(* A request is answered or fails (the transport closes a dead stream).    *)
Fairness == WF_vars(Publisher)

Spec == Init /\ [][Next]_vars /\ Fairness
-----------------------------------------------------------------------------
IsWilling(o, t) ==
  /\ Freshness # None => t - o.timestamp <= Freshness
  /\ o.categories = {} \/ \E c \in Content : c \in o.categories

(* An honest server that does not restart meanwhile hides nobody from the  *)
(* publisher: a reviewer who was listed when the listing began, and whose  *)
(* every opt-in suits, is asked or outranked, however opt-ins of others    *)
(* and renewed ones move the pages (naming.py:661-680, 193-209).           *)
NobodyIsMissed ==
  honest /\ phase = "posting" /\ steady # None =>
    \A k \in steady :
      LET chosen == Range(selected.reviewer_public_keys) IN
      (\A o \in optins : o.public_key = k => IsWilling(o, selected.timestamp)) =>
        \/ k \in chosen
        \/ /\ Cardinality(chosen) = review_count
           /\ \A j \in chosen : Rank[j] < Rank[k]

(* What the publisher selects passes the checks of an honest server, even  *)
(* when a restart turned the listing over and a reviewer was read twice    *)
(* (review/selection.py:42, naming.py:570-584).                            *)
AssignmentsAreAccepted == ~refused

(* Whatever the server answers, a reviewer is only asked who signed an     *)
(* opt-in that suits this content and was recent enough (peer.py:735-766). *)
OnlyWillingAreAsked ==
  phase = "posting" =>
    \A k \in Range(selected.reviewer_public_keys) :
      \E o \in optins :
        o.public_key = k /\ IsWilling(o, selected.timestamp)

(* "Publication must not be held hostage by the review subsystem"          *)
(* (peer.py:232): the announcement comes, though a server sends the        *)
(* publisher from page to page for ever.                                   *)
PublicationGoesOn == <>(phase = "announced")

(* Nobody weighs more than once: whatever attachments the server answers   *)
(* with (repeated, replaced, of another content, forged), the score is at  *)
(* most the sum, over the reviewers who did sign a review of this content, *)
(* of the worst each of them said (trust/scorer.py:18-20, scoring.py:56).  *)
Worst(k) ==
  Max({0} \cup {contribution([source_pubkey |-> k, verdict |-> r.verdict,
                              timestamp |-> r.timestamp], Peers, Policy, now) :
    r \in {s \in signed : s.reviewer_public_key = k
                        /\ s.content_key = "this"}})

NoAmplification == cached_score <= MapThenSumSet(Worst, Reviewing)
=============================================================================
