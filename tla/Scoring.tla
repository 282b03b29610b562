------------------------------ MODULE Scoring ------------------------------
(***************************************************************************)
(* The scorer of trust/scorer.py, up to the score that its thresholds are *)
(* compared with, over the policy of trust/policy.py and the peers of      *)
(* trust/store.py: what a reader's machine makes of the reviews it has.    *)
(*                                                                         *)
(* Numbers are integers: weights and severities in tenths, ages in half    *)
(* lives of the policy.  Ages beyond MaxHalvings half lives count as       *)
(* MaxHalvings, so that a halving is exact on contributions scaled by      *)
(* 2^MaxHalvings.                                                          *)
(*                                                                         *)
(* A signal is [source_pubkey, verdict, timestamp]; a policy is            *)
(*   [severity, max_weight, default_weight, learning_rate, moderators],    *)
(* moderators a function of the keys the user subscribed to; the peers are *)
(* a function of the keys that the store knows.                            *)
(***************************************************************************)
EXTENDS Integers, Sequences, FiniteSetsExt

CONSTANTS
  MaxHalvings,
  None

ASSUME HalvingsAssumption == MaxHalvings \in Nat

clamp(value, low, high) == Max({low, Min({high, value})})

(* A subscription comes first, then the user's own weight, then what the   *)
(* peer's history taught.  A peer that the store does not know has the     *)
(* default weight as it is, above the maximum if the policy says so.       *)
weight_for(pubkey, peers, policy) ==
  LET learned == policy.default_weight
                 + policy.learning_rate
                   * (peers[pubkey].confirmed - peers[pubkey].disputed)
      InBounds(w) == clamp(w, 0, policy.max_weight)
  IN  CASE pubkey \in DOMAIN policy.moderators ->
             InBounds(policy.moderators[pubkey])
        [] pubkey \notin DOMAIN policy.moderators \cup DOMAIN peers ->
             policy.default_weight
        [] OTHER ->
             InBounds(IF peers[pubkey].explicit = None
                      THEN learned ELSE peers[pubkey].explicit)

(* A date that is not in the past counts as fresh, and so does 0.          *)
time_decay(timestamp, now) ==
  2 ^ (MaxHalvings - IF timestamp <= 0 THEN 0
                     ELSE clamp(now - timestamp, 0, MaxHalvings))

contribution(signal, peers, policy, now) ==
  weight_for(signal.source_pubkey, peers, policy)
  * policy.severity[signal.verdict]
  * time_decay(signal.timestamp, now)

(* BROKEN: each signal counts. *)
keep_all(signals, policy) == DOMAIN signals

(* Where the signals are that count: of each source the most severe, and   *)
(* of several as severe the first.                                         *)
dedupe_by_source(signals, policy) ==
  LET Severity(i) == policy.severity[signals[i].verdict]
      Before(i, j) == \/ Severity(i) > Severity(j)
                      \/ Severity(i) = Severity(j) /\ i <= j
  IN  {i \in DOMAIN signals : \A j \in DOMAIN signals :
         signals[j].source_pubkey = signals[i].source_pubkey => Before(i, j)}

score_content(signals, peers, policy, now) ==
  MapThenSumSet(LAMBDA i : contribution(signals[i], peers, policy, now),
                dedupe_by_source(signals, policy))
=============================================================================
