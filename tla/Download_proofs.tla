--------------------------- MODULE Download_proofs ---------------------------
(***************************************************************************)
(* Theorems about Download, for every finite set of seeders and every      *)
(* number of parallel attempts.                                            *)
(***************************************************************************)
EXTENDS Download, FiniteSetTheorems, TLAPS

(* Every variable keeps its type. *)
THEOREM TypeCorrect == Spec => []TypeOK
<1>1. Init => TypeOK
  BY DEF Init, TypeOK
<1>2. TypeOK /\ [Next]_vars => TypeOK'
  <2> SUFFICES ASSUME TypeOK, [Next]_vars PROVE TypeOK'
    OBVIOUS
  <2>1. CASE Return \/ UNCHANGED vars
    BY <2>1 DEF TypeOK, Return, vars
  <2>2. ASSUME NEW s \in Seeders, Acquire(s) \/ Connected(s) \/ DialFails(s)
        PROVE  TypeOK'
    BY <2>2 DEF TypeOK, Acquire, Connected, DialFails, GoTo
  <2>3. ASSUME NEW s \in Seeders, Answered(s)
        PROVE  TypeOK'
    BY <2>3 DEF TypeOK, Answered, CloseWith, GoTo
  <2>4. ASSUME NEW s \in Seeders, TimeOut(s) \/ Cancel(s)
        PROVE  TypeOK'
    BY <2>4 DEF TypeOK, TimeOut, Cancel, Abandon, CloseWith, GoTo
  <2>5. ASSUME NEW s \in Seeders,
               Closed(s) \/ CloseTimesOut(s) \/ CloseFails(s)
        PROVE  TypeOK'
    BY <2>5 DEF TypeOK, Closed, CloseTimesOut, CloseFails, Judge, GoTo
  <2> QED
    BY <2>1, <2>2, <2>3, <2>4, <2>5 DEF Next
<1> QED
  BY <1>1, <1>2, PTL DEF Spec

(* Only Acquire lets a task hold a token it did not hold. *)
LEMMA OnlyAcquireAdds ==
  ASSUME TypeOK, [Next]_vars
  PROVE  \/ Holders' \subseteq Holders
         \/ \E s \in Seeders : /\ Cardinality(Holders) < MaxParallel
                               /\ Holders' \subseteq Holders \cup {s}
<1>1. ASSUME NEW s \in Seeders, Acquire(s)
      PROVE  /\ Cardinality(Holders) < MaxParallel
             /\ Holders' \subseteq Holders \cup {s}
  BY <1>1 DEF TypeOK, Acquire, GoTo, Holders
<1>2. ASSUME NEW s \in Seeders,
             \/ Connected(s) \/ DialFails(s) \/ Answered(s) \/ TimeOut(s)
             \/ Cancel(s) \/ Closed(s) \/ CloseTimesOut(s) \/ CloseFails(s)
      PROVE  Holders' \subseteq Holders
  BY <1>2 DEF TypeOK, Connected, DialFails, Answered, TimeOut, Cancel, Closed,
              CloseTimesOut, CloseFails, Abandon, Judge, CloseWith, GoTo,
              Holders
<1>3. ASSUME Return \/ UNCHANGED vars PROVE Holders' \subseteq Holders
  BY <1>3 DEF Return, vars, Holders
<1> QED
  BY <1>1, <1>2, <1>3 DEF Next

(* At most MAX_PARALLEL_SEEDERS responses are in memory or on their way,   *)
(* however many providers the DHT returns (async with limiter).            *)
THEOREM LimiterHolds == Spec => []MemoryIsBounded
<1>1. Init => MemoryIsBounded
  <2> SUFFICES ASSUME Init PROVE MemoryIsBounded
    OBVIOUS
  <2>1. Holders = {}
    BY DEF Init, Holders
  <2> QED
    BY <2>1, FS_EmptySet, DownloadAssumption DEF MemoryIsBounded
<1>2. TypeOK /\ MemoryIsBounded /\ [Next]_vars => MemoryIsBounded'
  <2> SUFFICES ASSUME TypeOK, MemoryIsBounded, [Next]_vars
               PROVE  MemoryIsBounded'
    OBVIOUS
  <2>1. Holders \subseteq Seeders
    BY DEF Holders
  <2>2. IsFiniteSet(Holders) /\ Cardinality(Holders) \in Nat
    BY <2>1, FS_Subset, FS_CardinalityType, DownloadAssumption
  <2>3. CASE Holders' \subseteq Holders
    <3>1. Cardinality(Holders') <= Cardinality(Holders)
      BY <2>2, <2>3, FS_Subset
    <3>2. Cardinality(Holders') \in Nat
      BY <2>2, <2>3, FS_Subset, FS_CardinalityType
    <3> QED
      BY <2>2, <3>1, <3>2, DownloadAssumption DEF MemoryIsBounded
  <2>4. ASSUME NEW s \in Seeders, Cardinality(Holders) < MaxParallel,
               Holders' \subseteq Holders \cup {s}
        PROVE  MemoryIsBounded'
    <3>1. /\ IsFiniteSet(Holders \cup {s})
          /\ Cardinality(Holders \cup {s}) <= Cardinality(Holders) + 1
          /\ Cardinality(Holders \cup {s}) \in Nat
      <4>1. IsFiniteSet(Holders \cup {s})
        BY <2>2, FS_AddElement
      <4>2. \/ Cardinality(Holders \cup {s}) = Cardinality(Holders)
            \/ Cardinality(Holders \cup {s}) = Cardinality(Holders) + 1
        BY <2>2, FS_AddElement
      <4> QED
        BY <2>2, <4>1, <4>2
    <3>2. /\ Cardinality(Holders') <= Cardinality(Holders \cup {s})
          /\ Cardinality(Holders') \in Nat
      BY <2>4, <3>1, FS_Subset, FS_CardinalityType
    <3> QED
      BY <2>2, <2>4, <3>1, <3>2, DownloadAssumption DEF MemoryIsBounded
  <2> QED
    BY <2>3, <2>4, OnlyAcquireAdds
<1> QED
  BY <1>1, <1>2, TypeCorrect, PTL DEF Spec

\* `winner` is empty or has one element.
AtMostOne == winners = {} \/ \E s \in Seeders : winners = {s}

(* A second acceptable bundle is dropped, even one whose stream was being  *)
(* closed under the shield when the first one won (`or winner`).           *)
THEOREM WinnerIsUnique == Spec => []OneWinner
<1>1. Init => AtMostOne
  BY DEF Init, AtMostOne
<1>2. AtMostOne /\ [Next]_vars => AtMostOne'
  BY DEF AtMostOne, Next, vars, Return, Acquire, Connected, DialFails,
         Answered, TimeOut, Cancel, Closed, CloseTimesOut, CloseFails, Judge
<1>3. AtMostOne => OneWinner
  <2>1. ASSUME winners = {} PROVE OneWinner
    BY <2>1, FS_EmptySet DEF OneWinner
  <2>2. ASSUME NEW s \in Seeders, winners = {s} PROVE OneWinner
    BY <2>2, FS_Singleton DEF OneWinner
  <2> QED
    BY <2>1, <2>2 DEF AtMostOne
<1> QED
  BY <1>1, <1>2, <1>3, PTL DEF Spec

\* An honest seeder's attempt is on its way, or somebody has won.
HonestInv ==
  /\ cancelled => winners # {}
  /\ returned => \A s \in Seeders : attempt[s] = "done"
  /\ \A s \in Honest :
       /\ attempt[s] = "done" => winners # {}
       /\ attempt[s] = "closing" => response[s] = "acceptable" \/ winners # {}

(* One honest seeder is enough for the download to return a bundle,        *)
(* whatever the others do and however long it waits for the limiter: its   *)
(* deadline starts after the wait, only a win cancels it, and an attempt   *)
(* whose stream is being closed keeps its response.                        *)
THEOREM HonestIsEnough == Spec => []HonestSeederIsEnough
<1>1. Init => HonestInv
  BY DownloadAssumption DEF Init, HonestInv
<1>2. TypeOK /\ HonestInv /\ [Next]_vars => HonestInv'
  <2> SUFFICES ASSUME TypeOK, HonestInv, [Next]_vars PROVE HonestInv'
    OBVIOUS
  <2>1. ASSUME NEW s \in Seeders, Acquire(s) \/ Connected(s) \/ DialFails(s)
        PROVE  HonestInv'
    BY <2>1, DownloadAssumption
       DEF TypeOK, HonestInv, Acquire, Connected, DialFails, GoTo
  <2>2. ASSUME NEW s \in Seeders, Answered(s) PROVE HonestInv'
    BY <2>2, DownloadAssumption
       DEF TypeOK, HonestInv, Answered, CloseWith, GoTo
  <2>3. ASSUME NEW s \in Seeders, TimeOut(s) \/ Cancel(s) PROVE HonestInv'
    BY <2>3, DownloadAssumption
       DEF TypeOK, HonestInv, TimeOut, Cancel, Abandon, CloseWith, GoTo
  <2>4. ASSUME NEW s \in Seeders,
               Closed(s) \/ CloseTimesOut(s) \/ CloseFails(s)
        PROVE  HonestInv'
    BY <2>4, DownloadAssumption
       DEF TypeOK, HonestInv, Closed, CloseTimesOut, CloseFails, Judge, GoTo
  <2>5. ASSUME Return \/ UNCHANGED vars PROVE HonestInv'
    BY <2>5 DEF HonestInv, Return, vars
  <2> QED
    BY <2>1, <2>2, <2>3, <2>4, <2>5 DEF Next
<1>3. HonestInv => HonestSeederIsEnough
  BY DownloadAssumption DEF HonestInv, HonestSeederIsEnough
<1> QED
  BY <1>1, <1>2, <1>3, TypeCorrect, PTL DEF Spec
=============================================================================
