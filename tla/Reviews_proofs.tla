--------------------------- MODULE Reviews_proofs ---------------------------
(***************************************************************************)
(* Theorems about Reviews, for any number of reviewers, pages, opt-ins and *)
(* any categories, and a server that answers what it likes.                *)
(*                                                                         *)
(* Ordered is an order by counting: the rank of an element is the number   *)
(* of those that come no later, so that the ranks are a permutation of     *)
(* 1..Cardinality(S) (OrderedFacts).  The listing of an honest server only *)
(* grows at its end between restarts, so that the publisher has read every *)
(* entry before its offset (PrefixIsRead), and it has at most one entry a  *)
(* key (OneEntryEach), so that max_pages pages hold all of it.             *)
(*                                                                         *)
(* The score is a fold over the reviews that count.  What a fold gives is  *)
(* shown without induction, by a least set of which it would be false      *)
(* (LeastPart, SumIsUnique, SumIsBounded).  dedupe_by_source leaves one    *)
(* review of a source (OneOfEach), what nobody signed does not count       *)
(* (SignalFacts), and so no source adds more than the worst it has said.   *)
(***************************************************************************)
EXTENDS Reviews, SequenceTheorems, FiniteSetTheorems, WellFoundedInduction,
        TLAPS

LEMMA CountUpTo ==
  ASSUME NEW n \in Nat
  PROVE  IsFiniteSet(1..n) /\ Cardinality(1..n) = n
BY FS_Interval

(* How many elements of S come no later than x.                            *)
UpTo(S, f, x) == {y \in S : f[y] <= f[x]}
RankIn(S, f) == [x \in S |-> Cardinality(UpTo(S, f, x))]

LEMMA UpToGrows ==
  ASSUME NEW S, IsFiniteSet(S), NEW f, \A y \in S : f[y] \in Int,
         NEW x \in S
  PROVE  /\ RankIn(S, f)[x] \in 1..Cardinality(S)
         /\ \A y \in S : f[x] < f[y] => RankIn(S, f)[x] < RankIn(S, f)[y]
<1>1. \A y \in S : /\ IsFiniteSet(UpTo(S, f, y))
                   /\ Cardinality(UpTo(S, f, y)) \in Nat
                   /\ Cardinality(UpTo(S, f, y)) <= Cardinality(S)
  <2> TAKE y \in S
  <2>1. UpTo(S, f, y) \in SUBSET S
    BY DEF UpTo
  <2> QED BY <2>1, FS_Subset, FS_CardinalityType
<1>2. Cardinality(S) \in Nat
  BY FS_CardinalityType
<1>3. Cardinality(UpTo(S, f, x)) # 0
  <2>1. x \in UpTo(S, f, x)
    BY DEF UpTo
  <2> QED BY <1>1, <2>1, FS_EmptySet
<1>4. ASSUME NEW y \in S, f[x] < f[y]
      PROVE  Cardinality(UpTo(S, f, x)) < Cardinality(UpTo(S, f, y))
  <2>1. UpTo(S, f, x) \in SUBSET UpTo(S, f, y)
    BY <1>4 DEF UpTo
  <2>2. y \in UpTo(S, f, y) /\ y \notin UpTo(S, f, x)
    BY <1>4 DEF UpTo
  <2>3. /\ Cardinality(UpTo(S, f, x)) <= Cardinality(UpTo(S, f, y))
        /\ Cardinality(UpTo(S, f, x)) # Cardinality(UpTo(S, f, y))
    BY <1>1, <2>1, <2>2, FS_Subset
  <2> QED BY <1>1, <2>3
<1> QED BY <1>1, <1>2, <1>3, <1>4 DEF RankIn

(* Ordered(S, f) goes through S once, from the least under f up.           *)
LEMMA OrderedFacts ==
  ASSUME NEW S, IsFiniteSet(S), NEW f, \A x \in S : f[x] \in Int,
         \A x, y \in S : f[x] = f[y] => x = y
  PROVE  LET s == Ordered(S, f) IN
         /\ s \in [1..Cardinality(S) -> S]
         /\ \A x \in S : \E n \in 1..Cardinality(S) : s[n] = x
         /\ \A m, n \in 1..Cardinality(S) : f[s[m]] < f[s[n]] <=> m < n
<1> DEFINE N == Cardinality(S)
           c == RankIn(S, f)
           s == Ordered(S, f)
<1>1. N \in Nat
  BY FS_CardinalityType
<1>2. c \in [S -> 1..N]
  BY UpToGrows DEF RankIn
<1>3. \A x, y \in S : f[x] < f[y] => c[x] < c[y]
  BY UpToGrows
<1>4. \A x, y \in S : c[x] = c[y] => x = y
  <2> TAKE x, y \in S
  <2>1. c[x] \in Int /\ c[y] \in Int
    BY <1>1, <1>2
  <2> QED BY <1>3, <2>1
<1>5. c \in Injection(S, 1..N)
  BY <1>2, <1>4 DEF Injection, IsInjective
<1>6. IsFiniteSet(1..N) /\ Cardinality(1..N) = N
  BY <1>1, CountUpTo
<1>7. c \in Surjection(S, 1..N)
  BY <1>5, <1>6, FS_Injection
<1>8. \A n \in 1..N : \E x \in S : c[x] = n
  BY <1>7 DEF Surjection
<1>9. \A n \in 1..N : s[n] \in S /\ c[s[n]] = n
  <2> TAKE n \in 1..N
  <2>1. s[n] = CHOOSE x \in S : c[x] = n
    BY DEF Ordered, RankIn, UpTo
  <2> HIDE DEF c, s
  <2> QED BY <1>8, <2>1
<1>10. s \in [1..N -> S]
  <2> DEFINE el(n) == CHOOSE x \in S : Cardinality({y \in S : f[y] <= f[x]}) = n
  <2>1. s = [n \in 1..N |-> el(n)]
    BY DEF Ordered
  <2> HIDE DEF s, N, el
  <2>2. \A n \in 1..N : el(n) \in S
    BY <1>9, <2>1
  <2> QED BY <2>1, <2>2
<1> HIDE DEF s, c, N
<1>11. \A x \in S : \E n \in 1..N : s[n] = x
  <2> TAKE x \in S
  <2>1. c[x] \in 1..N
    BY <1>2
  <2>2. s[c[x]] \in S /\ c[s[c[x]]] = c[x]
    BY <1>9, <2>1
  <2> QED BY <1>4, <2>1, <2>2
<1>12. \A m, n \in 1..N : f[s[m]] < f[s[n]] <=> m < n
  <2> TAKE m, n \in 1..N
  <2>1. s[m] \in S /\ s[n] \in S /\ c[s[m]] = m /\ c[s[n]] = n
    BY <1>9
  <2>2. f[s[m]] \in Int /\ f[s[n]] \in Int /\ m \in Int /\ n \in Int
    BY <1>1, <2>1
  <2>3. f[s[m]] < f[s[n]] => m < n
    BY <1>3, <2>1
  <2>4. f[s[n]] < f[s[m]] => n < m
    BY <1>3, <2>1
  <2>5. f[s[m]] = f[s[n]] => m = n
    BY <2>1
  <2> QED BY <2>2, <2>3, <2>4, <2>5
<1> QED BY <1>10, <1>11, <1>12 DEF s, N
-----------------------------------------------------------------------------
Everybody == Keys \cup {Stranger}
OptIns(K) ==
  [public_key : K, categories : SUBSET Categories, timestamp : Nat]

LEMMA MinOfTwo ==
  ASSUME NEW a \in Int, NEW b \in Int
  PROVE  Min({a, b}) = IF a <= b THEN a ELSE b
<1> DEFINE m == IF a <= b THEN a ELSE b
<1>1. m \in {a, b} /\ \A y \in {a, b} : m <= y
  OBVIOUS
<1>2. \A x \in {a, b} : (\A y \in {a, b} : x <= y) => x = m
  OBVIOUS
<1> HIDE DEF m
<1>3. Min({a, b}) = m
  BY <1>1, <1>2 DEF Min
<1> QED BY <1>3 DEF m

LEMMA EverybodyIsFinite ==
  ASSUME NEW K \in SUBSET Everybody
  PROVE  IsFiniteSet(K)
<1>1. IsFiniteSet(Everybody)
  BY ReviewsAssumption, FS_AddElement DEF Everybody
<1> QED BY <1>1, FS_Subset

(* The pool has the keys of the candidates.                                *)
LEMMA PoolFacts ==
  ASSUME NEW entries \in Seq(OptIns(Everybody))
  PROVE  /\ pool(entries) \in Seq(Everybody)
         /\ \A k : k \in Range(pool(entries)) <=>
              \E i \in DOMAIN entries :
                is_candidate(entries[i]) /\ k = entries[i].public_key
<1> DEFINE kept == {i \in DOMAIN entries : is_candidate(entries[i])}
           place == [i \in kept |-> i]
           at == Ordered(kept, place)
           s == [n \in DOMAIN at |-> entries[at[n]].public_key]
           N == Cardinality(kept)
<1>1. kept \in SUBSET (1..Len(entries)) /\ Len(entries) \in Nat
  OBVIOUS
<1>2. IsFiniteSet(kept)
  BY <1>1, CountUpTo, FS_Subset
<1>3. \A i \in kept : place[i] = i /\ i \in Int
  BY <1>1
<1> HIDE DEF place
<1>4. /\ at \in [1..N -> kept]
      /\ \A i \in kept : \E n \in 1..N : at[n] = i
  <2> HIDE DEF kept
  <2> QED BY <1>2, <1>3, OrderedFacts
<1>5. N \in Nat
  BY <1>2, FS_CardinalityType
<1>6. pool(entries) = s
  BY DEF pool, place
<1> HIDE DEF at, N
<1>7. \A n \in 1..N : entries[at[n]].public_key \in Everybody
  <2> TAKE n \in 1..N
  <2>1. at[n] \in 1..Len(entries)
    BY <1>1, <1>4
  <2>2. entries[at[n]] \in OptIns(Everybody)
    BY <2>1, ElementOfSeq
  <2> QED BY <2>2 DEF OptIns
<1>8. s \in Seq(Everybody)
  BY <1>4, <1>5, <1>7
<1>9. ASSUME NEW k
      PROVE  k \in Range(s) <=> \E i \in kept : k = entries[i].public_key
  <2> HIDE DEF kept
  <2> QED BY <1>4 DEF Range
<1> QED BY <1>6, <1>8, <1>9

(* Of the keys, those of the lowest rank are asked, each once, and as many *)
(* as there are to be.                                                     *)
LEMMA SelectFacts ==
  ASSUME NEW keys \in Seq(Everybody)
  PROVE  LET s == select_reviewers(keys) IN
         /\ s \in Seq(Range(keys))
         /\ IsInjective(s)
         /\ Len(s) <= review_count
         /\ \A k \in Range(keys) :
              \/ k \in Range(s)
              \/ /\ Cardinality(Range(s)) = review_count
                 /\ \A j \in Range(s) : Rank[j] < Rank[k]
<1> DEFINE R == Range(keys)
           N == Cardinality(R)
           ranked == Ordered(R, Rank)
           M == Min({review_count, N})
           s == select_reviewers(keys)
<1>1. R \in SUBSET Everybody
  BY RangeOfSeq
<1>2. IsFiniteSet(R)
  BY <1>1, EverybodyIsFinite
<1>3. /\ \A k \in R : Rank[k] \in Nat
      /\ \A j, k \in R : Rank[j] = Rank[k] => j = k
  BY <1>1, ReviewsAssumption DEF Everybody, IsInjective
<1> HIDE DEF R
<1>4. N \in Nat /\ review_count \in Nat /\ review_count <= MaxReviewers
  BY <1>2, FS_CardinalityType, ReviewsAssumption
<1>5. /\ ranked \in [1..N -> R]
      /\ \A k \in R : \E n \in 1..N : ranked[n] = k
      /\ \A m, n \in 1..N : Rank[ranked[m]] < Rank[ranked[n]] <=> m < n
  BY <1>2, <1>3, OrderedFacts
<1> HIDE DEF N, ranked
<1>6. ranked \in Seq(R) /\ Len(ranked) = N
  BY <1>4, <1>5
<1>7. M = (IF review_count <= N THEN review_count ELSE N) /\ M \in Nat /\ M <= N
  BY <1>4, MinOfTwo
<1>8. s = SubSeq(ranked, 1, M)
  BY <1>6 DEF select_reviewers, ranked, R
<1> HIDE DEF M, s
<1>9. /\ s \in Seq(R) /\ Len(s) = M
      /\ \A n \in 1..M : s[n] = ranked[n]
  <2>1. \A i \in 1..M : ranked[i] \in R
    BY <1>4, <1>5, <1>7
  <2> QED BY <1>4, <1>7, <1>8, <2>1, SubSeqProperties
<1>10. IsInjective(s)
  <2>1. SUFFICES ASSUME NEW m \in 1..M, NEW n \in 1..M, s[m] = s[n]
                 PROVE  m = n
    BY <1>9 DEF IsInjective
  <2>2. m \in 1..N /\ n \in 1..N /\ ranked[m] = ranked[n]
    BY <1>4, <1>7, <1>9, <2>1
  <2>3. Rank[ranked[m]] \in Nat
    BY <1>3, <1>5, <2>2
  <2>4. ~(m < n) /\ ~(n < m)
    BY <1>5, <2>2, <2>3
  <2> QED BY <1>7, <2>4
<1>11. ASSUME NEW k \in R, k \notin Range(s)
       PROVE  /\ Cardinality(Range(s)) = review_count
              /\ \A j \in Range(s) : Rank[j] < Rank[k]
  <2>1. PICK n \in 1..N : ranked[n] = k
    BY <1>5
  <2>2. ~(n <= M)
    <3>1. SUFFICES ASSUME n <= M PROVE FALSE
      OBVIOUS
    <3>2. n \in 1..M /\ s[n] = k
      BY <1>4, <1>7, <1>9, <2>1, <3>1
    <3> QED BY <1>9, <1>11, <3>2 DEF Range
  <2>3. M = review_count
    BY <1>4, <1>7, <2>1, <2>2
  <2>4. ASSUME NEW j \in Range(s)
        PROVE  Rank[j] < Rank[k]
    <3>1. PICK m \in 1..M : s[m] = j
      BY <1>9 DEF Range
    <3>2. m \in 1..N /\ m < n /\ ranked[m] = j
      BY <1>4, <1>7, <1>9, <2>1, <2>2, <3>1
    <3> QED BY <1>5, <2>1, <3>2
  <2>5. Cardinality(Range(s)) = M
    <3>1. s \in Bijection(1..M, Range(s))
      BY <1>9, <1>10 DEF Bijection, Injection, Surjection, Range
    <3>2. IsFiniteSet(1..M) /\ Cardinality(1..M) = M
      BY <1>7, CountUpTo
    <3> QED BY <3>1, <3>2, FS_Bijection DEF ExistsBijection
  <2> QED BY <2>3, <2>4, <2>5
<1>12. Len(s) <= review_count
  BY <1>4, <1>7, <1>9
<1> QED BY <1>9, <1>10, <1>11, <1>12 DEF R, s
-----------------------------------------------------------------------------
(* What the variables hold that the questions below are about.             *)
TypeInv ==
  /\ now \in Nat /\ honest \in BOOLEAN
  /\ optins \subseteq OptIns(Keys)
  /\ listing \in Seq(optins)
  /\ phase \in {"registered", "listing", "posting", "announced"}
  /\ offset \in Nat /\ pages \in Nat
  /\ records \in Seq(OptIns(Everybody))
  /\ honest => records \in Seq(optins)
  /\ phase = "registered" => offset = 0 /\ records = <<>> /\ pages = 0
  /\ phase = "posting" =>
       selected \in [reviewer_public_keys : Seq(Everybody), timestamp : Nat]

(* The listing has a reviewer once, and what the publisher has read of it  *)
(* stays in it.                                                            *)
OneEntryEach ==
  \A i, j \in DOMAIN listing :
    listing[i].public_key = listing[j].public_key => i = j

ReadIsListed ==
  honest => /\ \A i \in DOMAIN records : records[i].public_key \in Listed
            /\ phase = "posting" =>
                 Range(selected.reviewer_public_keys) \subseteq Listed

(* The publisher has read every entry before its offset, and its offset is *)
(* as many full pages as it has read.                                      *)
HasRead(k, entries) == \E i \in DOMAIN entries : entries[i].public_key = k

PrefixIsRead ==
  honest /\ phase = "listing" /\ steady # None =>
    /\ steady \subseteq Listed
    /\ offset = pages * PageSize /\ pages < max_pages
    /\ \A k \in steady : Position(k) <= offset => HasRead(k, records)

SelectedIsShort ==
  phase = "posting" =>
    LET keys == selected.reviewer_public_keys IN
    Len(keys) <= review_count /\ IsInjective(keys)

ReviewsInv ==
  /\ TypeInv /\ OneEntryEach /\ ReadIsListed /\ PrefixIsRead /\ SelectedIsShort
  /\ OnlyWillingAreAsked /\ AssignmentsAreAccepted /\ NobodyIsMissed

LEMMA ListingFacts ==
  ASSUME TypeInv, OneEntryEach
  PROVE  /\ Len(listing) \in Nat /\ DOMAIN listing = 1..Len(listing)
         /\ Listed \subseteq Keys
         /\ \A k \in Listed : /\ Position(k) \in DOMAIN listing
                              /\ listing[Position(k)].public_key = k
         /\ \A i \in DOMAIN listing : Position(listing[i].public_key) = i
         /\ Len(listing) <= Cardinality(Keys)
<1>1. Len(listing) \in Nat /\ DOMAIN listing = 1..Len(listing)
  BY LenProperties DEF TypeInv
<1>2. \A i \in DOMAIN listing : listing[i].public_key \in Keys
  <2> TAKE i \in DOMAIN listing
  <2>1. listing[i] \in optins
    BY <1>1, ElementOfSeq DEF TypeInv
  <2> QED BY <2>1 DEF TypeInv, OptIns
<1>3. Listed \subseteq Keys
  BY <1>2 DEF Listed
<1>4. ASSUME NEW k \in Listed
      PROVE  /\ Position(k) \in DOMAIN listing
             /\ listing[Position(k)].public_key = k
  <2>1. \E i \in DOMAIN listing : listing[i].public_key = k
    BY DEF Listed
  <2> QED BY <2>1 DEF Position
<1>5. ASSUME NEW i \in DOMAIN listing
      PROVE  Position(listing[i].public_key) = i
  <2>1. listing[i].public_key \in Listed
    BY DEF Listed
  <2> QED BY <1>4, <2>1 DEF OneEntryEach
<1>6. Len(listing) <= Cardinality(Keys)
  <2> DEFINE f == [i \in 1..Len(listing) |-> listing[i].public_key]
  <2>1. f \in Injection(1..Len(listing), Keys)
    BY <1>1, <1>2 DEF Injection, IsInjective, OneEntryEach
  <2>2. Cardinality(1..Len(listing)) <= Cardinality(Keys)
    <3> HIDE DEF f
    <3> QED BY <2>1, ReviewsAssumption, FS_Injection
  <2>3. Cardinality(1..Len(listing)) = Len(listing)
    BY <1>1, CountUpTo
  <2> QED BY <2>2, <2>3
<1> QED BY <1>1, <1>3, <1>4, <1>5, <1>6

(* An opt-in that is taken moves nobody and hides nobody.                  *)
LEMMA PutFacts ==
  ASSUME TypeInv, OneEntryEach, NEW k \in Keys,
         NEW filter \in SUBSET Categories, RegisterReviewer(k, filter)
  PROVE  /\ listing' \in Seq(optins') /\ OneEntryEach'
         /\ Listed' = Listed \cup {k}
         /\ \A j \in Listed : Position(j)' = Position(j)
         /\ optins' \subseteq OptIns(Keys) /\ optins \subseteq optins'
<1> DEFINE record == OptIn(k, filter)
           L == Len(listing)
<1>1. /\ optins' = optins \cup {record} /\ listing' = put(record)
      /\ record.public_key = k
  BY DEF RegisterReviewer, OptIn
<1>2. record \in OptIns(Keys)
  BY DEF OptIn, OptIns, TypeInv
<1> HIDE DEF record
<1>3. L \in Nat /\ DOMAIN listing = 1..L /\ listing \in Seq(optins')
  BY <1>1, ListingFacts, SeqMonotonic DEF TypeInv
<1>4. optins' \subseteq OptIns(Keys) /\ optins \subseteq optins'
  BY <1>1, <1>2 DEF TypeInv
<1>5. CASE k \in Listed
  <2> DEFINE p == Position(k)
  <2>1. p \in 1..L /\ listing[p].public_key = k
    BY <1>3, <1>5, ListingFacts
  <2>2. listing' = [listing EXCEPT ![p] = record]
    BY <1>1, <1>5 DEF put
  <2> HIDE DEF p
  <2>3. listing' \in Seq(optins') /\ DOMAIN listing' = 1..L
    BY <1>1, <1>3, <2>1, <2>2, ExceptSeq
  <2>4. \A i \in 1..L : listing'[i].public_key = listing[i].public_key
    BY <1>1, <1>3, <2>1, <2>2
  <2>5. OneEntryEach'
    BY <1>3, <2>3, <2>4 DEF OneEntryEach
  <2>6. Listed' = Listed
    BY <1>3, <2>3, <2>4 DEF Listed
  <2>7. \A j \in Listed : Position(j)' = Position(j)
    BY <1>3, <2>3, <2>4 DEF Position
  <2> QED BY <1>4, <1>5, <2>3, <2>5, <2>6, <2>7
<1>6. CASE k \notin Listed
  <2>1. listing' = Append(listing, record)
    BY <1>1, <1>6 DEF put
  <2>2. /\ listing' \in Seq(optins') /\ Len(listing') = L + 1
        /\ DOMAIN listing' = 1..(L + 1)
        /\ \A i \in 1..L : listing'[i] = listing[i]
        /\ listing'[L + 1] = record
    BY <1>1, <1>3, <2>1, AppendProperties, LenProperties
  <2>3. \A i \in 1..L : listing[i].public_key # k
    BY <1>3, <1>6 DEF Listed
  <2>4. \A i \in 1..(L + 1) : i \in 1..L \/ i = L + 1
    BY <1>3
  <2>5. OneEntryEach'
    BY <1>1, <1>3, <2>2, <2>3, <2>4 DEF OneEntryEach
  <2>6. Listed' = Listed \cup {k}
    <3>1. L + 1 \in 1..(L + 1) /\ 1..L \subseteq 1..(L + 1)
      BY <1>3
    <3> QED BY <1>1, <1>3, <2>2, <2>4, <3>1 DEF Listed
  <2>7. ASSUME NEW j \in Listed
        PROVE  Position(j)' = Position(j)
    <3>1. Position(j) \in 1..L /\ listing[Position(j)].public_key = j
      BY <1>3, ListingFacts
    <3>2. /\ Position(j) \in DOMAIN listing'
          /\ listing'[Position(j)].public_key = j
      BY <1>3, <2>2, <3>1
    <3>3. \A i \in DOMAIN listing' : listing'[i].public_key = j => i = Position(j)
      BY <2>5, <3>2 DEF OneEntryEach
    <3>4. Position(j)' = CHOOSE i \in DOMAIN listing' : listing'[i].public_key = j
      BY DEF Position
    <3> QED BY <3>2, <3>3, <3>4
  <2> QED BY <1>4, <2>2, <2>5, <2>6, <2>7
<1> QED BY <1>5, <1>6

(* A restart has everybody in another place.                               *)
LEMMA RestartFacts ==
  ASSUME TypeInv, OneEntryEach, Restart
  PROVE  listing' \in Seq(optins') /\ OneEntryEach' /\ Listed' = Listed
<1> DEFINE key == [i \in DOMAIN listing |-> listing[i].public_key]
           at == Ordered(DOMAIN listing, key)
           L == Len(listing)
<1>1. /\ L \in Nat /\ DOMAIN listing = 1..L /\ Listed \subseteq Keys
      /\ IsFiniteSet(1..L) /\ Cardinality(1..L) = L
  BY ListingFacts, CountUpTo
<1>2. /\ \A i \in 1..L : key[i] \in Int
      /\ \A i, j \in 1..L : key[i] = key[j] => i = j
  <2>1. \A i \in 1..L : key[i] = listing[i].public_key /\ key[i] \in Listed
    BY <1>1 DEF Listed
  <2> HIDE DEF key
  <2>2. \A k \in Keys : k \in Int
    BY ReviewsAssumption
  <2>3. \A i \in 1..L : key[i] \in Int
    BY <1>1, <2>1, <2>2
  <2> QED BY <1>1, <2>1, <2>3 DEF OneEntryEach
<1>3. listing' = [n \in DOMAIN at |-> listing[at[n]]] /\ optins' = optins
  BY DEF Restart
<1> HIDE DEF key
<1>4. /\ at \in [1..L -> 1..L]
      /\ \A i \in 1..L : \E n \in 1..L : at[n] = i
      /\ \A m, n \in 1..L : key[at[m]] < key[at[n]] <=> m < n
  BY <1>1, <1>2, OrderedFacts
<1> HIDE DEF at, L
<1>5. \A n \in 1..L : at[n] \in 1..L /\ listing[at[n]] \in optins
  BY <1>1, <1>4, ElementOfSeq DEF TypeInv, L
<1>6. listing' \in Seq(optins')
  BY <1>1, <1>3, <1>4, <1>5
<1>7. DOMAIN listing' = 1..L /\ \A n \in 1..L : listing'[n] = listing[at[n]]
  BY <1>3, <1>4
<1>8. \A m, n \in 1..L : at[m] = at[n] => m = n
  <2> TAKE m, n \in 1..L
  <2>1. key[at[m]] \in Int /\ key[at[n]] \in Int /\ m \in Int /\ n \in Int
    BY <1>2, <1>5
  <2> QED BY <1>4, <2>1
<1>9. OneEntryEach'
  BY <1>1, <1>5, <1>7, <1>8 DEF OneEntryEach
<1>10. Listed' = Listed
  <2>1. ASSUME NEW n \in 1..L
        PROVE  listing'[n].public_key \in Listed
    BY <1>1, <1>5, <1>7, <2>1 DEF Listed, L
  <2>2. ASSUME NEW i \in 1..L
        PROVE  \E n \in 1..L : listing'[n].public_key = listing[i].public_key
    BY <1>4, <1>7, <2>2
  <2> QED BY <1>1, <1>7, <2>1, <2>2 DEF Listed, L
<1> QED BY <1>6, <1>9, <1>10
-----------------------------------------------------------------------------
(* A page of an honest server.                                             *)
LEMMA HonestPage ==
  ASSUME TypeInv, OneEntryEach
  PROVE  LET answer == _paginate(listing, offset) IN
         /\ answer.page \in Seq(optins)
         /\ \A i \in DOMAIN answer.page : answer.page[i].public_key \in Listed
         /\ \A p \in DOMAIN listing :
              offset < p /\ p <= offset + PageSize =>
                \E i \in DOMAIN answer.page : answer.page[i] = listing[p]
         /\ answer.next_offset # None => answer.next_offset = offset + PageSize
         /\ answer.next_offset = None => Len(listing) <= offset + PageSize
<1> DEFINE L == Len(listing)
           to == Min({offset + PageSize, L})
           page == SubSeq(listing, offset + 1, to)
           answer == _paginate(listing, offset)
<1>1. /\ L \in Nat /\ DOMAIN listing = 1..L
      /\ offset \in Nat /\ PageSize \in Nat /\ PageSize > 0
  BY ListingFacts, ReviewsAssumption DEF TypeInv
<1>2. /\ to \in Int /\ to <= L /\ to <= offset + PageSize
      /\ to = L \/ to = offset + PageSize
  <2> HIDE DEF L
  <2> QED BY <1>1, MinOfTwo
<1>3. /\ answer.page = page
      /\ answer.next_offset =
           IF offset + PageSize < L THEN offset + PageSize ELSE None
  BY DEF _paginate
<1> HIDE DEF L, to, answer
<1>4. \A i \in (offset + 1)..to : listing[i] \in optins
  <2> TAKE i \in (offset + 1)..to
  <2>1. i \in 1..L
    BY <1>1, <1>2
  <2> QED BY <2>1, ElementOfSeq DEF TypeInv, L
<1>5. /\ page \in Seq(optins)
      /\ Len(page) = IF offset + 1 <= to THEN to - offset ELSE 0
      /\ \A i \in 1..(to - offset) : page[i] = listing[offset + i]
  <2>1. /\ page \in Seq(optins)
        /\ Len(page) = IF offset + 1 <= to THEN to - (offset + 1) + 1 ELSE 0
        /\ \A i \in 1..(to - (offset + 1) + 1) :
             page[i] = listing[offset + 1 + i - 1]
    <3>1. offset + 1 \in Int
      BY <1>1
    <3> QED BY <1>2, <1>4, <3>1, SubSeqProperties
  <2> HIDE DEF page
  <2> QED BY <1>1, <1>2, <2>1
<1> HIDE DEF page
<1>6. DOMAIN page = 1..Len(page)
  BY <1>5, LenProperties
<1>7. ASSUME NEW i \in DOMAIN page
      PROVE  page[i].public_key \in Listed
  <2>1. i \in 1..(to - offset) /\ offset + i \in 1..L
    BY <1>1, <1>2, <1>5, <1>6
  <2>2. page[i] = listing[offset + i]
    BY <1>5, <2>1
  <2> QED BY <1>1, <2>1, <2>2 DEF Listed
<1>8. ASSUME NEW p \in DOMAIN listing, offset < p, p <= offset + PageSize
      PROVE  \E i \in DOMAIN page : page[i] = listing[p]
  <2>1. p - offset \in 1..(to - offset) /\ offset + (p - offset) = p
    BY <1>1, <1>2, <1>8
  <2>2. p - offset \in DOMAIN page
    BY <1>1, <1>2, <1>5, <1>6, <2>1
  <2> QED BY <1>5, <2>1, <2>2
<1>9. answer.next_offset = None => L <= offset + PageSize
  <2>1. None \notin Nat
    BY ReviewsAssumption
  <2> QED BY <1>1, <1>3, <2>1
<1> QED BY <1>3, <1>5, <1>7, <1>8, <1>9 DEF answer, L

LEMMA AnyPage ==
  ASSUME TypeInv, OneEntryEach, NEW answer \in Answers
  PROVE  /\ answer.page \in Seq(OptIns(Everybody))
         /\ answer.next_offset \in Nat \cup {None}
<1>1. optins \subseteq OptIns(Everybody)
  BY DEF TypeInv, OptIns, Everybody
<1>2. CASE honest
  <2>1. answer = _paginate(listing, offset)
    BY <1>2 DEF Answers
  <2>2. offset + PageSize \in Nat
    BY ReviewsAssumption DEF TypeInv
  <2> QED BY <1>1, <2>1, <2>2, HonestPage, SeqMonotonic
<1>3. CASE ~honest
  <2>1. ForgedOptIns \subseteq OptIns(Everybody)
    BY DEF ForgedOptIns, OptIn, OptIns, Everybody, TypeInv
  <2>2. answer.page \in BoundedSeq(optins \cup ForgedOptIns, MaxPage)
    BY <1>3 DEF Answers
  <2>3. PICK m \in 0..MaxPage : answer.page \in [1..m -> optins \cup ForgedOptIns]
    BY <2>2 DEF BoundedSeq, SeqOf
  <2>4. m \in Nat
    BY ReviewsAssumption
  <2>5. answer.page \in [1..m -> OptIns(Everybody)]
    BY <1>1, <2>1, <2>3
  <2>6. answer.next_offset \in Nat \cup {None}
    BY <1>3 DEF Answers
  <2> QED BY <2>4, <2>5, <2>6
<1> QED BY <1>2, <1>3 DEF TypeInv

(* What the publisher has read when one more page is there.                *)
LEMMA EntriesFacts ==
  ASSUME ReviewsInv, phase = "listing", NEW answer \in Answers
  PROVE  LET entries == records \o answer.page IN
         /\ entries \in Seq(OptIns(Everybody))
         /\ honest => /\ entries \in Seq(optins)
                      /\ \A i \in DOMAIN entries : entries[i].public_key \in Listed
         /\ honest /\ steady # None =>
              \A k \in steady :
                Position(k) <= offset + PageSize => HasRead(k, entries)
<1> DEFINE page == answer.page
           entries == records \o page
           R == Len(records)
<1> USE DEF ReviewsInv
<1>1. records \in Seq(OptIns(Everybody)) /\ page \in Seq(OptIns(Everybody))
  BY AnyPage DEF TypeInv
<1>2. /\ R \in Nat /\ DOMAIN records = 1..R
      /\ Len(page) \in Nat /\ DOMAIN page = 1..Len(page)
  BY <1>1, LenProperties
<1>3. /\ entries \in Seq(OptIns(Everybody))
      /\ DOMAIN entries = 1..(R + Len(page))
      /\ \A i \in DOMAIN records : entries[i] = records[i]
      /\ \A i \in DOMAIN page : entries[R + i] = page[i]
  <2>1. /\ entries \in Seq(OptIns(Everybody)) /\ Len(entries) = R + Len(page)
        /\ \A i \in 1..(R + Len(page)) :
             entries[i] = IF i <= R THEN records[i] ELSE page[i - R]
    BY <1>1, ConcatProperties
  <2>2. DOMAIN entries = 1..(R + Len(page))
    BY <2>1, LenProperties
  <2> HIDE DEF entries, R, page
  <2>3. ASSUME NEW i \in 1..R
        PROVE  entries[i] = records[i]
    BY <1>2, <2>1
  <2>4. ASSUME NEW i \in 1..Len(page)
        PROVE  entries[R + i] = page[i]
    <3>1. R + i \in 1..(R + Len(page)) /\ ~(R + i <= R) /\ R + i - R = i
      BY <1>2
    <3>2. PICK j \in 1..(R + Len(page)) : j = R + i
      BY <3>1
    <3>3. entries[j] = page[j - R]
      BY <2>1, <3>1, <3>2
    <3>4. j - R = i
      BY <1>2, <3>2
    <3> QED BY <3>2, <3>3, <3>4
  <2> QED BY <1>2, <2>1, <2>2, <2>3, <2>4
<1>4. \A i \in DOMAIN entries :
        i \in DOMAIN records \/ (i - R \in DOMAIN page /\ entries[i] = page[i - R])
  <2> HIDE DEF entries, R, page
  <2> TAKE i \in DOMAIN entries
  <2>1. i \in 1..R \/ (i - R \in 1..Len(page) /\ R + (i - R) = i)
    BY <1>2, <1>3
  <2> QED BY <1>2, <1>3, <2>1
<1>5. \A i \in DOMAIN page : R + i \in DOMAIN entries
  <2> HIDE DEF entries, R, page
  <2> QED BY <1>2, <1>3
<1>6. \A i \in DOMAIN records : i \in DOMAIN entries
  <2> HIDE DEF entries, R, page
  <2> QED BY <1>2, <1>3
<1>7. ASSUME honest
      PROVE  /\ page \in Seq(optins) /\ records \in Seq(optins)
             /\ answer = _paginate(listing, offset)
  BY <1>7, HonestPage DEF Answers, TypeInv
<1>8. ASSUME honest
      PROVE  /\ entries \in Seq(optins)
             /\ \A i \in DOMAIN entries : entries[i].public_key \in Listed
  <2>1. entries \in Seq(optins)
    BY <1>7, <1>8, ConcatProperties
  <2>2. \A i \in DOMAIN page : page[i].public_key \in Listed
    BY <1>7, <1>8, HonestPage
  <2>3. \A i \in DOMAIN records : records[i].public_key \in Listed
    BY <1>8 DEF ReadIsListed
  <2> HIDE DEF entries, page, R
  <2> QED BY <1>3, <1>4, <2>1, <2>2, <2>3
<1>9. ASSUME honest, steady # None, NEW k \in steady,
             Position(k) <= offset + PageSize
      PROVE  HasRead(k, entries)
  <2>1. k \in Listed /\ (Position(k) <= offset => HasRead(k, records))
    BY <1>9 DEF PrefixIsRead
  <2>2. /\ Position(k) \in DOMAIN listing
        /\ listing[Position(k)].public_key = k
        /\ Position(k) \in Int
    BY <2>1, ListingFacts
  <2>3. CASE Position(k) <= offset
    <3>1. PICK i \in DOMAIN records : records[i].public_key = k
      BY <2>1, <2>3 DEF HasRead
    <3> HIDE DEF entries, page, R
    <3> QED BY <1>3, <1>6, <3>1 DEF HasRead
  <2>4. CASE offset < Position(k)
    <3>1. PICK i \in DOMAIN page : page[i] = listing[Position(k)]
      BY <1>7, <1>9, <2>2, <2>4, HonestPage
    <3> HIDE DEF entries, page, R
    <3>2. R + i \in DOMAIN entries /\ entries[R + i].public_key = k
      BY <1>3, <1>5, <2>2, <3>1
    <3> QED BY <3>2 DEF HasRead
  <2> QED BY <2>2, <2>3, <2>4 DEF TypeInv
<1> QED BY <1>3, <1>8, <1>9

Outranked(k, chosen) ==
  Cardinality(chosen) = review_count /\ \A j \in chosen : Rank[j] < Rank[k]

(* What the publisher makes of the entries it has read.                    *)
LEMMA ChoiceFacts ==
  ASSUME TypeInv, NEW entries \in Seq(OptIns(Everybody))
  PROVE  LET keys == select_reviewers(pool(entries)) IN
         /\ keys \in Seq(Everybody)
         /\ Len(keys) <= review_count /\ IsInjective(keys)
         /\ \A k \in Range(keys) :
              /\ HasRead(k, entries)
              /\ \E o \in optins : o.public_key = k /\ IsWilling(o, now)
         /\ \A i \in DOMAIN entries :
              entries[i] \in optins /\ IsWilling(entries[i], now) =>
                LET k == entries[i].public_key IN
                k \in Range(keys) \/ Outranked(k, Range(keys))
<1> DEFINE found == pool(entries)
           keys == select_reviewers(found)
<1>1. /\ found \in Seq(Everybody)
      /\ \A k : k \in Range(found) <=>
           \E i \in DOMAIN entries :
             is_candidate(entries[i]) /\ k = entries[i].public_key
  BY PoolFacts
<1> HIDE DEF found
<1>2. /\ keys \in Seq(Range(found))
      /\ Len(keys) <= review_count /\ IsInjective(keys)
      /\ \A k \in Range(found) :
           k \in Range(keys) \/ Outranked(k, Range(keys))
  BY <1>1, SelectFacts DEF Outranked
<1> HIDE DEF keys
<1>3. Range(found) \in SUBSET Everybody /\ Range(keys) \in SUBSET Range(found)
  BY <1>1, <1>2, RangeOfSeq
<1>4. keys \in Seq(Everybody)
  BY <1>2, <1>3, SeqMonotonic
<1>5. \A o : is_candidate(o) <=> o \in optins /\ IsWilling(o, now)
  BY DEF is_candidate, verify_reviewer_opt_in, IsWilling
<1>6. ASSUME NEW k \in Range(keys)
      PROVE  /\ HasRead(k, entries)
             /\ \E o \in optins : o.public_key = k /\ IsWilling(o, now)
  <2>1. PICK i \in DOMAIN entries :
          is_candidate(entries[i]) /\ k = entries[i].public_key
    BY <1>1, <1>3
  <2> QED BY <1>5, <2>1 DEF HasRead
<1>7. ASSUME NEW i \in DOMAIN entries,
             entries[i] \in optins, IsWilling(entries[i], now)
      PROVE  LET k == entries[i].public_key IN
             k \in Range(keys) \/ Outranked(k, Range(keys))
  <2>1. entries[i].public_key \in Range(found)
    BY <1>1, <1>5, <1>7
  <2> QED BY <1>2, <2>1
<1> QED BY <1>2, <1>4, <1>6, <1>7 DEF keys, found
-----------------------------------------------------------------------------
LEMMA RegisterInv ==
  ASSUME ReviewsInv, NEW k \in Keys, NEW filter \in SUBSET Categories,
         RegisterReviewer(k, filter)
  PROVE  ReviewsInv'
<1> USE DEF ReviewsInv
<1>1. /\ listing' \in Seq(optins') /\ OneEntryEach'
      /\ Listed' = Listed \cup {k}
      /\ \A j \in Listed : Position(j)' = Position(j)
      /\ optins' \subseteq OptIns(Keys) /\ optins \subseteq optins'
  BY PutFacts
<1>2. UNCHANGED <<now, honest, phase, offset, records, pages, steady, selected,
                  refused>>
  BY DEF RegisterReviewer, publisherVars, listVars
<1>3. TypeInv'
  <2>1. honest => records \in Seq(optins')
    BY <1>1, SeqMonotonic DEF TypeInv
  <2> QED BY <1>1, <1>2, <2>1 DEF TypeInv
<1>4. ReadIsListed'
  BY <1>1, <1>2 DEF ReadIsListed
<1>5. PrefixIsRead'
  <2> SUFFICES ASSUME PrefixIsRead!1'
               PROVE  PrefixIsRead!2'
    BY DEF PrefixIsRead
  <2>1. /\ steady \subseteq Listed
        /\ offset = pages * PageSize /\ pages < max_pages
        /\ \A j \in steady : Position(j) <= offset => HasRead(j, records)
    BY <1>2 DEF PrefixIsRead
  <2>2. \A j \in steady : (Position(j) <= offset)' => HasRead(j, records)'
    BY <1>1, <1>2, <2>1 DEF HasRead
  <2> QED BY <1>1, <1>2, <2>1, <2>2
<1>6. SelectedIsShort' /\ AssignmentsAreAccepted'
  BY <1>2 DEF SelectedIsShort, AssignmentsAreAccepted
<1>7. OnlyWillingAreAsked'
  BY <1>1, <1>2 DEF OnlyWillingAreAsked, IsWilling
<1>8. NobodyIsMissed'
  BY <1>1, <1>2 DEF NobodyIsMissed, IsWilling
<1> QED BY <1>1, <1>3, <1>4, <1>5, <1>6, <1>7, <1>8

LEMMA RestartInv ==
  ASSUME ReviewsInv, Restart
  PROVE  ReviewsInv'
<1> USE DEF ReviewsInv
<1>1. listing' \in Seq(optins') /\ OneEntryEach' /\ Listed' = Listed
  BY RestartFacts
<1>2. /\ UNCHANGED <<now, honest, optins, phase, offset, records, pages, selected,
                     refused>>
      /\ steady' = None
  BY DEF Restart
<1>3. TypeInv'
  BY <1>1, <1>2 DEF TypeInv
<1>4. ReadIsListed'
  BY <1>1, <1>2 DEF ReadIsListed
<1>5. PrefixIsRead' /\ NobodyIsMissed'
  BY <1>2 DEF PrefixIsRead, NobodyIsMissed
<1>6. SelectedIsShort' /\ AssignmentsAreAccepted'
  BY <1>2 DEF SelectedIsShort, AssignmentsAreAccepted
<1>7. OnlyWillingAreAsked'
  BY <1>1, <1>2 DEF OnlyWillingAreAsked, IsWilling
<1> QED BY <1>1, <1>3, <1>4, <1>5, <1>6, <1>7

LEMMA StartListingInv ==
  ASSUME ReviewsInv, StartListing
  PROVE  ReviewsInv'
<1> USE DEF ReviewsInv
<1>1. /\ UNCHANGED <<now, honest, optins, listing, offset, records, pages,
                     selected, refused>>
      /\ phase' = "listing" /\ steady' = Listed
      /\ offset = 0 /\ pages = 0 /\ records = <<>>
  BY DEF StartListing, serverVars, TypeInv
<1>2. TypeInv'
  BY <1>1 DEF TypeInv
<1>3. ReadIsListed' /\ OneEntryEach'
  BY <1>1 DEF ReadIsListed, OneEntryEach, Listed
<1>4. PrefixIsRead'
  <2>1. steady' = Listed'
    BY <1>1 DEF Listed
  <2>2. ASSUME NEW k \in Listed
        PROVE  Position(k) > 0 /\ Position(k)' = Position(k)
    <3>1. Position(k)' = Position(k)
      BY <1>1 DEF Position
    <3> QED BY <3>1, ListingFacts
  <2>3. 0 = 0 * PageSize /\ 0 < max_pages
    BY ReviewsAssumption
  <2>4. \A k \in Listed : ~(Position(k)' <= offset')
    <3> TAKE k \in Listed
    <3>1. Position(k) \in Nat
      BY ListingFacts
    <3> QED BY <1>1, <2>2, <3>1
  <2> QED BY <1>1, <2>1, <2>3, <2>4 DEF PrefixIsRead
<1>5. SelectedIsShort' /\ AssignmentsAreAccepted' /\ OnlyWillingAreAsked'
        /\ NobodyIsMissed'
  BY <1>1 DEF SelectedIsShort, AssignmentsAreAccepted, OnlyWillingAreAsked,
       NobodyIsMissed
<1> QED BY <1>2, <1>3, <1>4, <1>5

(* The last page: the publisher has read all that was listed from the      *)
(* beginning, and chooses.                                                 *)
LEMMA LastPageInv ==
  ASSUME ReviewsInv, phase = "listing", NEW answer \in Answers,
         is_last(answer.next_offset, pages + 1),
         phase' = "posting",
         selected' =
           [reviewer_public_keys |->
              select_reviewers(pool(records \o answer.page)),
            timestamp |-> now],
         offset' = 0, records' = <<>>, pages' = 0,
         UNCHANGED <<now, honest, optins, listing, steady, refused>>
  PROVE  ReviewsInv'
<1> DEFINE entries == records \o answer.page
           keys == select_reviewers(pool(entries))
<1> USE DEF ReviewsInv
<1>1. /\ entries \in Seq(OptIns(Everybody))
      /\ honest => /\ entries \in Seq(optins)
                   /\ \A i \in DOMAIN entries : entries[i].public_key \in Listed
      /\ honest /\ steady # None =>
           \A k \in steady :
             Position(k) <= offset + PageSize => HasRead(k, entries)
  BY EntriesFacts
<1> HIDE DEF entries
<1>2. /\ keys \in Seq(Everybody)
      /\ Len(keys) <= review_count /\ IsInjective(keys)
      /\ \A k \in Range(keys) :
           /\ HasRead(k, entries)
           /\ \E o \in optins : o.public_key = k /\ IsWilling(o, now)
      /\ \A i \in DOMAIN entries :
           entries[i] \in optins /\ IsWilling(entries[i], now) =>
             LET k == entries[i].public_key IN
             k \in Range(keys) \/ Outranked(k, Range(keys))
  BY <1>1, ChoiceFacts
<1> HIDE DEF keys
<1>3. selected' = [reviewer_public_keys |-> keys, timestamp |-> now]
  BY DEF keys, entries
<1>4. TypeInv'
  BY <1>2, <1>3 DEF TypeInv
<1>5. Listed' = Listed /\ OneEntryEach'
  BY DEF Listed, OneEntryEach
<1>6. ReadIsListed'
  BY <1>1, <1>2, <1>3, <1>5 DEF ReadIsListed, HasRead
<1>7. PrefixIsRead' /\ AssignmentsAreAccepted'
  BY DEF PrefixIsRead, AssignmentsAreAccepted
<1>8. SelectedIsShort'
  BY <1>2, <1>3 DEF SelectedIsShort
<1>9. OnlyWillingAreAsked'
  <2>1. selected'.reviewer_public_keys = keys /\ selected'.timestamp = now
    BY <1>3
  <2> QED BY <1>2, <2>1 DEF OnlyWillingAreAsked, IsWilling
<1>10. ASSUME honest, steady # None
       PROVE  Len(listing) <= offset + PageSize
  <2>1. answer = _paginate(listing, offset)
    BY <1>10 DEF Answers
  <2>2. CASE answer.next_offset = None
    BY <2>1, <2>2, HonestPage
  <2>3. CASE pages + 1 = max_pages
    <3>1. /\ offset = pages * PageSize /\ pages \in Nat /\ PageSize \in Nat
          /\ Cardinality(Keys) <= PageSize * max_pages
      BY <1>10, ReviewsAssumption DEF PrefixIsRead, TypeInv
    <3>2. offset + PageSize = PageSize * max_pages
      BY <2>3, <3>1
    <3>3. Len(listing) \in Nat /\ Len(listing) <= Cardinality(Keys)
      BY ListingFacts
    <3>4. Cardinality(Keys) \in Nat /\ offset + PageSize \in Nat
      BY <3>1, ReviewsAssumption, FS_CardinalityType DEF TypeInv
    <3> QED BY <3>1, <3>2, <3>3, <3>4
  <2> QED BY <2>2, <2>3 DEF is_last
<1>11. ASSUME honest, steady # None, NEW k \in steady,
              \A o \in optins : o.public_key = k => IsWilling(o, now)
       PROVE  k \in Range(keys) \/ Outranked(k, Range(keys))
  <2>1. Position(k) <= offset + PageSize
    <3>1. k \in Listed
      BY <1>11 DEF PrefixIsRead
    <3>2. Position(k) \in 1..Len(listing) /\ Len(listing) \in Nat
      BY <3>1, ListingFacts
    <3>3. offset + PageSize \in Nat
      BY ReviewsAssumption DEF TypeInv
    <3> QED BY <1>10, <1>11, <3>2, <3>3
  <2>2. PICK i \in DOMAIN entries : entries[i].public_key = k
    BY <1>1, <1>11, <2>1 DEF HasRead
  <2>3. entries[i] \in optins
    BY <1>1, <1>11, <2>2, ElementOfSeq, LenProperties
  <2> QED BY <1>2, <1>11, <2>2, <2>3
<1>12. NobodyIsMissed'
  <2>1. selected'.reviewer_public_keys = keys /\ selected'.timestamp = now
    BY <1>3
  <2>2. \A o, t : IsWilling(o, t)' <=> IsWilling(o, t)
    BY DEF IsWilling
  <2> QED BY <1>11, <2>1, <2>2 DEF NobodyIsMissed, Outranked, IsWilling
<1> QED BY <1>4, <1>5, <1>6, <1>7, <1>8, <1>9, <1>12

LEMMA NextPageInv ==
  ASSUME ReviewsInv, phase = "listing", NEW answer \in Answers,
         ~is_last(answer.next_offset, pages + 1),
         offset' = answer.next_offset, records' = records \o answer.page,
         pages' = Min({pages + 1, max_pages}),
         UNCHANGED <<now, honest, optins, listing, phase, steady, selected,
                     refused>>
  PROVE  ReviewsInv'
<1> DEFINE entries == records \o answer.page
<1> USE DEF ReviewsInv
<1>1. /\ entries \in Seq(OptIns(Everybody))
      /\ honest => /\ entries \in Seq(optins)
                   /\ \A i \in DOMAIN entries : entries[i].public_key \in Listed
      /\ honest /\ steady # None =>
           \A k \in steady :
             Position(k) <= offset + PageSize => HasRead(k, entries)
  BY EntriesFacts
<1>2. records' = entries
  OBVIOUS
<1> HIDE DEF entries
<1>3. /\ answer.next_offset # None /\ pages + 1 # max_pages
      /\ answer.next_offset \in Nat
  BY AnyPage DEF is_last
<1>4. pages \in Nat /\ max_pages \in Nat /\ PageSize \in Nat
  BY ReviewsAssumption DEF TypeInv
<1>5. pages' = (IF pages + 1 <= max_pages THEN pages + 1 ELSE max_pages)
  BY <1>4, MinOfTwo
<1>6. TypeInv'
  BY <1>1, <1>2, <1>3, <1>4, <1>5 DEF TypeInv
<1>7. /\ Listed' = Listed /\ OneEntryEach'
      /\ \A k : Position(k)' = Position(k)
  BY DEF Listed, OneEntryEach, Position
<1>8. ReadIsListed'
  BY <1>1, <1>2, <1>7 DEF ReadIsListed
<1>9. PrefixIsRead'
  <2> SUFFICES ASSUME PrefixIsRead!1'
               PROVE  PrefixIsRead!2'
    BY DEF PrefixIsRead
  <2>1. /\ steady \subseteq Listed
        /\ offset = pages * PageSize /\ pages < max_pages
    BY DEF PrefixIsRead
  <2>2. offset' = offset + PageSize
    BY <1>3, HonestPage DEF Answers
  <2>3. pages' = pages + 1 /\ pages + 1 < max_pages
    BY <1>3, <1>4, <1>5, <2>1
  <2>4. offset' = pages' * PageSize
    <3>1. (pages + 1) * PageSize = pages * PageSize + PageSize
      BY <1>4
    <3> QED BY <2>1, <2>2, <2>3, <3>1
  <2>5. \A k \in steady : (Position(k) <= offset)' => HasRead(k, records)'
    BY <1>1, <1>2, <1>7, <2>2 DEF HasRead
  <2> QED BY <1>7, <2>1, <2>3, <2>4, <2>5
<1>10. /\ SelectedIsShort' /\ AssignmentsAreAccepted'
       /\ OnlyWillingAreAsked' /\ NobodyIsMissed'
  BY DEF SelectedIsShort, AssignmentsAreAccepted, OnlyWillingAreAsked,
     NobodyIsMissed
<1> QED BY <1>6, <1>7, <1>8, <1>9, <1>10

LEMMA ListPageInv ==
  ASSUME ReviewsInv, ListPage
  PROVE  ReviewsInv'
<1>1. PICK answer \in Answers : ListPage!2!(answer)
  BY DEF ListPage
<1>2. phase = "listing" /\ UNCHANGED <<now, honest, optins, listing, steady, refused>>
  BY DEF ListPage, serverVars
<1>3. CASE is_last(answer.next_offset, pages + 1)
  BY <1>1, <1>2, <1>3, LastPageInv
<1>4. CASE ~is_last(answer.next_offset, pages + 1)
  BY <1>1, <1>2, <1>4, NextPageInv
<1> QED BY <1>3, <1>4

(* The end of the publication's part leaves nothing to say of it, but that *)
(* it was not refused.                                                     *)
LEMMA AnnounceInv ==
  ASSUME ReviewsInv, phase' = "announced", offset' = 0, records' = <<>>,
         pages' = 0, ~refused', UNCHANGED <<now, honest, optins, listing>>
  PROVE  ReviewsInv'
<1> USE DEF ReviewsInv
<1>1. TypeInv'
  BY DEF TypeInv
<1>2. ReadIsListed' /\ OneEntryEach'
  BY DEF ReadIsListed, OneEntryEach
<1>3. /\ PrefixIsRead' /\ SelectedIsShort' /\ OnlyWillingAreAsked'
      /\ NobodyIsMissed' /\ AssignmentsAreAccepted'
  BY DEF PrefixIsRead, SelectedIsShort, OnlyWillingAreAsked, NobodyIsMissed,
     AssignmentsAreAccepted
<1> QED BY <1>1, <1>2, <1>3

LEMMA PublisherInv ==
  ASSUME ReviewsInv, Publisher
  PROVE  ReviewsInv'
<1> USE DEF ReviewsInv
<1>1. CASE StartListing
  BY <1>1, StartListingInv
<1>2. CASE ListPage
  BY <1>2, ListPageInv
<1>3. CASE ListFails \/ NobodySelected \/ PostFails
  <2>1. ~refused'
    BY <1>3 DEF ListFails, NobodySelected, PostFails, AssignmentsAreAccepted
  <2> QED BY <1>3, <2>1, AnnounceInv
       DEF ListFails, NobodySelected, PostFails, Announce, serverVars
<1>4. CASE PostAssignment
  <2> DEFINE keys == selected.reviewer_public_keys
  <2>1. phase = "posting" /\ refused' = (honest /\ ~is_acceptable(keys))
    BY <1>4 DEF PostAssignment
  <2>2. ASSUME honest
        PROVE  is_acceptable(keys)
    <3>1. keys \in Seq(Everybody) /\ Len(keys) \in Nat
      BY <2>1 DEF TypeInv
    <3>2. Len(keys) <= review_count /\ IsInjective(keys)
      BY <2>1 DEF SelectedIsShort
    <3>3. Range(keys) \subseteq Listed
      BY <2>1, <2>2 DEF ReadIsListed
    <3>4. \A i \in DOMAIN keys : keys[i] \in Listed
      BY <3>3 DEF Range
    <3>5. Len(keys) <= MaxReviewers
      BY <3>1, <3>2, ReviewsAssumption
    <3> QED BY <3>2, <3>4, <3>5 DEF is_acceptable
  <2>3. ~refused'
    BY <2>1, <2>2
  <2> QED BY <1>4, <2>3, AnnounceInv DEF PostAssignment, Announce
<1> QED BY <1>1, <1>2, <1>3, <1>4 DEF Publisher

(* The reviews and the reader's cache are another matter.                  *)
LEMMA UnrelatedInv ==
  ASSUME ReviewsInv, now' \in Nat,
         UNCHANGED <<honest, optins, listing, publisherVars>>
  PROVE  ReviewsInv'
<1> USE DEF ReviewsInv, publisherVars, listVars
<1>1. TypeInv'
  BY DEF TypeInv
<1>2. /\ Listed' = Listed /\ OneEntryEach'
      /\ \A k : Position(k)' = Position(k)
  BY DEF Listed, OneEntryEach, Position
<1>3. ReadIsListed'
  BY <1>2 DEF ReadIsListed
<1>4. PrefixIsRead'
  BY <1>2 DEF PrefixIsRead, HasRead
<1>5. SelectedIsShort' /\ AssignmentsAreAccepted'
  BY DEF SelectedIsShort, AssignmentsAreAccepted
<1>6. OnlyWillingAreAsked'
  BY DEF OnlyWillingAreAsked, IsWilling
<1>7. NobodyIsMissed'
  BY DEF NobodyIsMissed, IsWilling
<1> QED BY <1>1, <1>2, <1>3, <1>4, <1>5, <1>6, <1>7

LEMMA ReviewsInvHolds == Spec => []ReviewsInv
<1>1. Init => ReviewsInv
  <2> SUFFICES ASSUME Init PROVE ReviewsInv
    OBVIOUS
  <2>1. TypeInv
    BY DEF Init, TypeInv
  <2>2. OneEntryEach /\ ReadIsListed /\ PrefixIsRead /\ SelectedIsShort
    BY DEF Init, OneEntryEach, ReadIsListed, PrefixIsRead, SelectedIsShort
  <2>3. OnlyWillingAreAsked /\ AssignmentsAreAccepted /\ NobodyIsMissed
    BY DEF Init, OnlyWillingAreAsked, AssignmentsAreAccepted, NobodyIsMissed
  <2> QED BY <2>1, <2>2, <2>3 DEF ReviewsInv
<1>2. ReviewsInv /\ [Next]_vars => ReviewsInv'
  <2> SUFFICES ASSUME ReviewsInv, [Next]_vars PROVE ReviewsInv'
    OBVIOUS
  <2>1. now \in Nat
    BY DEF ReviewsInv, TypeInv
  <2>2. ASSUME NEW k \in Keys, NEW filter \in SUBSET Categories,
               RegisterReviewer(k, filter)
        PROVE  ReviewsInv'
    BY <2>2, RegisterInv
  <2>3. CASE Restart
    BY <2>3, RestartInv
  <2>4. CASE Publisher
    BY <2>4, PublisherInv
  <2>5. ASSUME NEW content \in {"this", "other"}, NEW k \in Reviewing,
               NEW v \in Verdicts, AttachReview(content, k, v)
        PROVE  ReviewsInv'
    BY <2>1, <2>5, UnrelatedInv DEF AttachReview
  <2>6. CASE SwapDirectory \/ CacheAttachments
    BY <2>1, <2>6, UnrelatedInv DEF SwapDirectory, CacheAttachments, serverVars
  <2>7. CASE Tick
    BY <2>1, <2>7, UnrelatedInv DEF Tick, serverVars
  <2>8. CASE UNCHANGED vars
    BY <2>1, <2>8, UnrelatedInv DEF vars, serverVars
  <2> QED BY <2>2, <2>3, <2>4, <2>5, <2>6, <2>7, <2>8 DEF Next
<1> QED BY <1>1, <1>2, PTL DEF Spec

(* Whatever the server answers, a reviewer is only asked who signed an     *)
(* opt-in that suits the content and was recent enough                     *)
(* (_extract_fresh_reviewer_pool, peer/peer.py:735-766).                   *)
THEOREM ReviewersAgreed == Spec => []OnlyWillingAreAsked
BY ReviewsInvHolds, PTL DEF ReviewsInv

(* An honest server takes the assignment that it has supplied the opt-ins  *)
(* for, restarted meanwhile or not: those who are read twice are asked     *)
(* once, and nobody leaves the listing (review/selection.py:42,            *)
(* naming.py:570-584).                                                     *)
THEOREM AssignmentsArePosted == Spec => []AssignmentsAreAccepted
BY ReviewsInvHolds, PTL DEF ReviewsInv

(* The pages of an honest server that does not restart hide nobody from    *)
(* the publisher, though opt-ins come between one page and the next        *)
(* (_rpc_all_pages and ReviewerStore.set).                                 *)
THEOREM PagesHideNobody == Spec => []NobodyIsMissed
BY ReviewsInvHolds, PTL DEF ReviewsInv
-----------------------------------------------------------------------------
(* Sums.  IsSum says that g has the sum of f over every part of S, added   *)
(* up as MapThenSumSet does it.  A finite S has such a g (SumExists), and  *)
(* the order of the summands does not matter (SumOfRest).  What is said of *)
(* every part of S is proved from a least part of which it is false.       *)
Pick(s) == CHOOSE x \in s : TRUE

IsSum(g, f, S) ==
  g = [s \in SUBSET S |->
         IF s = {} THEN 0 ELSE f[Pick(s)] + g[s \ {Pick(s)}]]

LEMMA PickOne == ASSUME NEW s, s # {} PROVE Pick(s) \in s
BY DEF Pick

LEMMA LeastPart ==
  ASSUME NEW S, IsFiniteSet(S), NEW C \in SUBSET (SUBSET S), C # {}
  PROVE  \E s \in C : \A t \in SUBSET s : t # s => t \notin C
<1>1. IsWellFoundedOn(StrictSubsetOrdering(S), SUBSET S)
  BY FS_FiniteSubsetsOfFinite, FS_StrictSubsetOrderingWellFounded
<1>2. \E s \in C : \A t \in C : <<t, s>> \notin StrictSubsetOrdering(S)
  BY <1>1, WFMin
<1> QED BY <1>2 DEF StrictSubsetOrdering

LEMMA SumFacts ==
  ASSUME NEW S, NEW f, NEW g, IsSum(g, f, S)
  PROVE  /\ g[{}] = 0
         /\ \A s \in SUBSET S :
              s # {} => /\ Pick(s) \in s
                        /\ s \ {Pick(s)} \in SUBSET S
                        /\ s \ {Pick(s)} # s
                        /\ g[s] = f[Pick(s)] + g[s \ {Pick(s)}]
<1>1. g[{}] = 0
  BY DEF IsSum
<1>2. ASSUME NEW s \in SUBSET S, s # {}
      PROVE  g[s] = f[Pick(s)] + g[s \ {Pick(s)}]
  BY <1>2 DEF IsSum
<1> QED BY <1>1, <1>2, PickOne

LEMMA SumIsUnique ==
  ASSUME NEW S, IsFiniteSet(S), NEW f, NEW g, NEW h,
         NEW T \in SUBSET S, NEW U \in SUBSET S,
         IsSum(g, f, T), IsSum(h, f, U), NEW s \in SUBSET (T \cap U)
  PROVE  g[s] = h[s]
<1> DEFINE C == {r \in SUBSET (T \cap U) : g[r] # h[r]}
<1>1. SUFFICES ASSUME C # {} PROVE FALSE
  OBVIOUS
<1>2. C \in SUBSET (SUBSET S)
  OBVIOUS
<1>3. PICK r \in C : \A t \in SUBSET r : t # r => t \notin C
  <2> HIDE DEF C
  <2> QED BY <1>1, <1>2, LeastPart
<1>4. r # {}
  <2>1. g[{}] = 0 /\ h[{}] = 0
    BY SumFacts
  <2> QED BY <1>3, <2>1
<1>5. /\ Pick(r) \in r
      /\ g[r] = f[Pick(r)] + g[r \ {Pick(r)}]
      /\ h[r] = f[Pick(r)] + h[r \ {Pick(r)}]
  <2>1. r \in SUBSET T /\ r \in SUBSET U
    BY <1>3
  <2> QED BY <1>4, <2>1, SumFacts
<1>6. g[r \ {Pick(r)}] = h[r \ {Pick(r)}]
  BY <1>3, <1>5
<1> QED BY <1>5, <1>6

LEMMA SumExists ==
  ASSUME NEW S, IsFiniteSet(S), NEW f
  PROVE  \E g : IsSum(g, f, S)
<1> DEFINE C == {T \in SUBSET S : ~\E g : IsSum(g, f, T)}
<1>1. SUFFICES ASSUME C # {} PROVE FALSE
  OBVIOUS
<1>2. PICK T \in C : \A U \in SUBSET T : U # T => U \notin C
  <2>1. C \in SUBSET (SUBSET S)
    OBVIOUS
  <2> HIDE DEF C
  <2> QED BY <1>1, <2>1, LeastPart
<1> DEFINE h(U) == CHOOSE g : IsSum(g, f, U)
           v(U) == h(U)[U]
           g == [s \in SUBSET T |->
                   IF s = {} THEN 0 ELSE f[Pick(s)] + v(s \ {Pick(s)})]
<1>3. ASSUME NEW U \in SUBSET T, U # T
      PROVE  IsSum(h(U), f, U)
  <2>1. \E k : IsSum(k, f, U)
    BY <1>2, <1>3
  <2> QED BY <2>1
<1> HIDE DEF h
<1>4. ASSUME NEW s \in SUBSET T, s # {}
      PROVE  g[s \ {Pick(s)}] = v(s \ {Pick(s)})
  <2> DEFINE U == s \ {Pick(s)}
  <2>1. U \in SUBSET T /\ U # T
    BY <1>4, PickOne
  <2> HIDE DEF U
  <2>2. IsSum(h(U), f, U) /\ T \in SUBSET S /\ U \in SUBSET S
    BY <1>2, <1>3, <2>1
  <2>3. CASE U = {}
    <3>1. v(U) = 0
      BY <2>2, <2>3, SumFacts
    <3> QED BY <2>1, <2>3, <3>1 DEF U
  <2>4. CASE U # {}
    <3> DEFINE V == U \ {Pick(U)}
    <3>1. V \in SUBSET U /\ V \in SUBSET T /\ V # T /\ V \in SUBSET S
      BY <2>1, <2>2, <2>4, PickOne
    <3>2. v(U) = f[Pick(U)] + h(U)[V]
      BY <2>2, <2>4, SumFacts
    <3>3. IsSum(h(V), f, V)
      BY <1>3, <3>1
    <3> HIDE DEF V
    <3>4. h(U)[V] = v(V)
      BY <2>2, <3>1, <3>3, SumIsUnique
    <3>5. g[U] = f[Pick(U)] + v(V)
      BY <2>1, <2>4 DEF V
    <3>6. g[U] = v(U)
      BY <3>2, <3>4, <3>5
    <3> QED BY <3>6 DEF U
  <2> QED BY <2>3, <2>4
<1>5. IsSum(g, f, T)
  BY <1>4 DEF IsSum
<1> QED BY <1>2, <1>5

LEMMA SumOfRest ==
  ASSUME NEW S, IsFiniteSet(S), NEW f, \A x \in S : f[x] \in Int,
         NEW g, IsSum(g, f, S), NEW s \in SUBSET S
  PROVE  g[s] \in Int /\ \A x \in s : g[s] = f[x] + g[s \ {x}]
<1> DEFINE Good(r) == g[r] \in Int /\ \A x \in r : g[r] = f[x] + g[r \ {x}]
           C == {r \in SUBSET S : ~Good(r)}
<1>1. SUFFICES ASSUME C # {} PROVE FALSE
  OBVIOUS
<1>2. PICK r \in C : \A t \in SUBSET r : t # r => t \notin C
  <2>1. C \in SUBSET (SUBSET S)
    OBVIOUS
  <2> HIDE DEF C
  <2> QED BY <1>1, <2>1, LeastPart
<1>3. r # {}
  <2>1. g[{}] = 0
    BY SumFacts
  <2>2. Good({})
    BY <2>1
  <2> HIDE DEF Good
  <2> QED BY <1>2, <2>2
<1> DEFINE p == Pick(r)
           q == r \ {p}
<1>4. /\ p \in r /\ q \in SUBSET S /\ q # r /\ g[r] = f[p] + g[q]
  <2>1. r \in SUBSET S
    BY <1>2
  <2> QED BY <1>3, <2>1, SumFacts
<1> HIDE DEF p
<1>5. Good(q)
  BY <1>2, <1>4
<1>6. g[r] \in Int
  BY <1>4, <1>5
<1>7. ASSUME NEW x \in r, x # p
      PROVE  g[r] = f[x] + g[r \ {x}]
  <2>1. Good(r \ {x})
    BY <1>2, <1>7
  <2>2. g[q] = f[x] + g[q \ {x}]
    BY <1>4, <1>5, <1>7
  <2>3. g[r \ {x}] = f[p] + g[(r \ {x}) \ {p}]
    BY <1>4, <1>7, <2>1
  <2>4. q \ {x} = (r \ {x}) \ {p}
    OBVIOUS
  <2>5. Good(q \ {x})
    BY <1>2, <1>4
  <2>6. f[p] \in Int /\ f[x] \in Int /\ g[q \ {x}] \in Int
    BY <1>2, <1>4, <1>7, <2>5
  <2>7. g[r] = f[p] + (f[x] + g[q \ {x}])
    BY <1>4, <2>2
  <2>8. g[r \ {x}] = f[p] + g[q \ {x}]
    BY <2>3, <2>4
  <2> HIDE DEF q
  <2> QED BY <2>6, <2>7, <2>8
<1> QED BY <1>2, <1>4, <1>6, <1>7

(* What each of A adds is made up for by one of B, and nobody makes up for *)
(* two.                                                                    *)
LEMMA SumIsBounded ==
  ASSUME NEW A, IsFiniteSet(A), NEW B, IsFiniteSet(B),
         NEW f, \A x \in A : f[x] \in Int, NEW g, IsSum(g, f, A),
         NEW F, \A y \in B : F[y] \in Nat, NEW G, IsSum(G, F, B),
         NEW h \in Injection(A, B), \A x \in A : f[x] <= F[h[x]]
  PROVE  g[A] <= G[B]
<1> DEFINE Bad == {a \in SUBSET A : \E b \in SUBSET B :
                     /\ \A x \in a : h[x] \in b
                     /\ ~(g[a] <= G[b])}
<1>1. /\ h \in [A -> B]
      /\ \A x, y \in A : h[x] = h[y] => x = y
  BY DEF Injection, IsInjective
<1>2. SUFFICES ASSUME Bad # {} PROVE FALSE
  BY <1>1
<1>3. PICK a \in Bad : \A t \in SUBSET a : t # a => t \notin Bad
  <2>1. Bad \in SUBSET (SUBSET A)
    OBVIOUS
  <2> HIDE DEF Bad
  <2> QED BY <1>2, <2>1, LeastPart
<1>4. PICK b \in SUBSET B : /\ \A x \in a : h[x] \in b
                            /\ ~(g[a] <= G[b])
  BY <1>3
<1>5. \A y \in B : F[y] \in Int
  OBVIOUS
<1>6. CASE a = {}
  <2>1. g[a] = 0
    BY <1>6, SumFacts
  <2> DEFINE C == {r \in SUBSET B : ~(0 <= G[r])}
  <2>2. PICK r \in C : \A t \in SUBSET r : t # r => t \notin C
    <3>1. b \in C
      BY <1>4, <2>1
    <3>2. C \in SUBSET (SUBSET B)
      OBVIOUS
    <3> HIDE DEF C
    <3> QED BY <3>1, <3>2, LeastPart
  <2>3. r # {}
    <3>1. G[{}] = 0
      BY SumFacts
    <3>2. {} \notin C
      BY <3>1
    <3> HIDE DEF C
    <3> QED BY <2>2, <3>2
  <2>4. /\ Pick(r) \in r
        /\ G[r] = F[Pick(r)] + G[r \ {Pick(r)}]
    BY <2>3, SumFacts
  <2>5. 0 <= G[r \ {Pick(r)}]
    BY <2>2, <2>4
  <2>6. F[Pick(r)] \in Nat /\ G[r \ {Pick(r)}] \in Int
    BY <1>5, <2>4, SumOfRest
  <2> QED BY <2>2, <2>4, <2>5, <2>6
<1>7. CASE a # {}
  <2> DEFINE p == Pick(a)
             q == a \ {p}
             d == b \ {h[p]}
  <2>1. /\ p \in a /\ p \in A /\ q # a /\ q \in SUBSET a /\ q \in SUBSET A
        /\ g[a] = f[p] + g[q]
    <3>1. a \in SUBSET A
      BY <1>3
    <3>2. /\ Pick(a) \in a /\ a \ {Pick(a)} # a
          /\ g[a] = f[Pick(a)] + g[a \ {Pick(a)}]
      <4>1. \A s \in SUBSET A :
              s # {} => /\ Pick(s) \in s /\ s \ {Pick(s)} # s
                        /\ g[s] = f[Pick(s)] + g[s \ {Pick(s)}]
        BY SumFacts
      <4> QED BY <1>7, <3>1, <4>1
    <3> QED BY <3>1, <3>2
  <2> HIDE DEF p
  <2>2. h[p] \in b /\ G[b] = F[h[p]] + G[d]
    <3>1. h[p] \in b
      BY <1>4, <2>1
    <3>2. b \in SUBSET B
      BY <1>4
    <3>3. \A y \in b : G[b] = F[y] + G[b \ {y}]
      BY <1>5, <3>2, SumOfRest
    <3> QED BY <3>1, <3>3
  <2>3. \A x \in q : h[x] \in d
    BY <1>1, <1>4, <2>1
  <2>4. g[q] <= G[d]
    <3>1. q \notin Bad
      BY <1>3, <2>1
    <3> QED BY <2>1, <2>3, <3>1
  <2>5. g[q] \in Int /\ G[d] \in Int
    BY <1>5, <2>1, SumOfRest
  <2>6. f[p] \in Int /\ F[h[p]] \in Int /\ f[p] <= F[h[p]]
    BY <1>1, <1>5, <2>1
  <2>7. g[a] <= G[b]
    <3> HIDE DEF q, d
    <3> QED BY <2>1, <2>2, <2>4, <2>5, <2>6
  <2> QED BY <1>4, <2>7
<1> QED BY <1>6, <1>7

(* A finite set of numbers has a greatest one.                             *)
LEMMA MaxOfFinite ==
  ASSUME NEW S \in SUBSET Int, IsFiniteSet(S), S # {}
  PROVE  Max(S) \in S /\ \A x \in S : x <= Max(S)
<1> DEFINE C == {T \in SUBSET S :
                   T # {} /\ ~\E m \in T : \A x \in T : x <= m}
<1>1. C = {}
  <2>1. SUFFICES ASSUME C # {} PROVE FALSE
    OBVIOUS
  <2>2. PICK T \in C : \A t \in SUBSET T : t # T => t \notin C
    <3>1. C \in SUBSET (SUBSET S)
      OBVIOUS
    <3> HIDE DEF C
    <3> QED BY <2>1, <3>1, LeastPart
  <2>3. PICK a \in T : TRUE
    OBVIOUS
  <2> DEFINE U == T \ {a}
  <2>4. U # {}
    <3>1. SUFFICES ASSUME U = {} PROVE FALSE
      OBVIOUS
    <3>2. \A x \in T : x <= a
      BY <3>1
    <3> QED BY <2>3, <3>2
  <2>5. PICK m \in U : \A x \in U : x <= m
    BY <2>2, <2>3, <2>4
  <2>6. a \in Int /\ \A x \in T : x \in Int
    BY <2>3
  <2>7. CASE a <= m
    BY <2>5, <2>7
  <2>8. CASE ~(a <= m)
    <3>1. \A x \in T : x <= a
      BY <2>5, <2>6, <2>8
    <3> QED BY <2>3, <3>1
  <2> QED BY <2>7, <2>8
<1>2. \E m \in S : \A x \in S : x <= m
  BY <1>1
<1>3. Max(S) = CHOOSE m \in S : \A x \in S : m >= x
  BY DEF Max
<1>4. \E m \in S : \A x \in S : m >= x
  BY <1>2
<1>5. Max(S) \in S /\ \A x \in S : Max(S) >= x
  BY <1>3, <1>4
<1> QED BY <1>5
-----------------------------------------------------------------------------
(* The reader's half: the reviews that were signed, and the copy of what   *)
(* the server answered with.                                               *)
SignedReviews ==
  [content_key : {"this", "other"}, reviewer_public_key : Reviewing,
   verdict : Verdicts, timestamp : Nat]

IsAnswer(entries) == \E n \in Nat : DOMAIN entries = 1..n

CacheInv ==
  /\ now \in Nat
  /\ signed \subseteq SignedReviews /\ IsFiniteSet(signed)
  /\ cache # None => IsAnswer(cache)

LEMMA AttachmentsAreSequences ==
  ASSUME NEW answer \in Attachments
  PROVE  IsAnswer(answer)
<1>1. CASE honest
  <2> DEFINE S == {attached[k] : k \in Reviewing} \ {None}
             N == Cardinality(S)
  <2>1. IsFiniteSet(S)
    <3>1. IsFiniteSet(Reviewing)
      BY ReviewsAssumption, FS_Subset
    <3>2. IsFiniteSet({attached[k] : k \in Reviewing})
      <4> DEFINE f == [k \in Reviewing |-> attached[k]]
      <4>1. f \in Surjection(Reviewing, {attached[k] : k \in Reviewing})
        BY DEF Surjection
      <4> HIDE DEF f
      <4> QED BY <3>1, <4>1, FS_Surjection
    <3> QED BY <3>2, FS_Subset
  <2> HIDE DEF S
  <2>2. PICK n \in Nat : ExistsBijection(1..n, S)
    BY <2>1, FS_NatBijection
  <2>3. N = n
    BY <2>2, FS_CountingElements
  <2>4. \E f \in [1..N -> S] : IsInjective(f)
    BY <2>2, <2>3 DEF ExistsBijection, Bijection, Injection
  <2>5. answer = SetToSeq(S)
    BY <1>1 DEF Attachments, S
  <2>6. answer \in [1..N -> S]
    BY <2>4, <2>5 DEF SetToSeq
  <2> QED BY <2>3, <2>6 DEF IsAnswer
<1>2. CASE ~honest
  <2>1. answer \in BoundedSeq(signed \cup Forgeries, MaxAnswer)
    BY <1>2 DEF Attachments
  <2>2. PICK m \in 0..MaxAnswer : answer \in [1..m -> signed \cup Forgeries]
    BY <2>1 DEF BoundedSeq, SeqOf
  <2> QED BY <2>2, ReviewsAssumption DEF IsAnswer
<1> QED BY <1>1, <1>2

LEMMA CacheInvHolds == Spec => []CacheInv
<1>1. Init => CacheInv
  BY FS_EmptySet DEF Init, CacheInv
<1>2. CacheInv /\ [Next]_vars => CacheInv'
  <2> SUFFICES ASSUME CacheInv, [Next]_vars PROVE CacheInv'
    OBVIOUS
  <2> USE DEF CacheInv
  <2>1. ASSUME NEW content \in {"this", "other"}, NEW k \in Reviewing,
               NEW v \in Verdicts, AttachReview(content, k, v)
        PROVE  CacheInv'
    <3> DEFINE record == ReviewOf(content, k, v)
    <3>1. /\ signed' = signed \cup {record}
          /\ UNCHANGED <<now, cache>>
      BY <2>1 DEF AttachReview
    <3>2. record \in SignedReviews
      BY DEF ReviewOf, SignedReviews
    <3> HIDE DEF record
    <3>3. IsFiniteSet(signed')
      BY <3>1, FS_AddElement
    <3> QED BY <3>1, <3>2, <3>3 DEF IsAnswer
  <2>2. CASE CacheAttachments
    <3>1. IsAnswer(cache')
      BY <2>2, AttachmentsAreSequences DEF CacheAttachments
    <3> QED BY <2>2, <3>1 DEF CacheAttachments, IsAnswer
  <2>3. CASE Tick
    BY <2>3 DEF Tick, IsAnswer
  <2>4. CASE SwapDirectory
    BY <2>4 DEF SwapDirectory
  <2>5. ASSUME UNCHANGED <<now, signed, cache>>
        PROVE  CacheInv'
    BY <2>5 DEF IsAnswer
  <2>6. ASSUME NEW k \in Keys, NEW filter \in SUBSET Categories,
               RegisterReviewer(k, filter)
        PROVE  CacheInv'
    BY <2>5, <2>6 DEF RegisterReviewer
  <2>7. CASE Restart
    BY <2>5, <2>7 DEF Restart
  <2>8. CASE Publisher
    BY <2>5, <2>8 DEF Publisher, StartListing, ListPage, ListFails,
         NobodySelected, PostAssignment, PostFails
  <2>9. CASE UNCHANGED vars
    BY <2>5, <2>9 DEF vars
  <2> QED BY <2>1, <2>2, <2>3, <2>4, <2>6, <2>7, <2>8, <2>9 DEF Next
<1> QED BY <1>1, <1>2, PTL DEF Spec

(* What a signal adds to the score is a number.                            *)
LEMMA MaxOfTwo ==
  ASSUME NEW a \in Int, NEW b \in Int
  PROVE  Max({a, b}) \in {a, b} /\ a <= Max({a, b}) /\ b <= Max({a, b})
<1>1. IsFiniteSet({a, b})
  <2>1. {a, b} = {a} \cup {b}
    OBVIOUS
  <2>2. IsFiniteSet({a}) /\ IsFiniteSet({b})
    BY FS_Singleton
  <2>3. IsFiniteSet({a} \cup {b})
    BY <2>2, FS_Union
  <2> QED BY <2>1, <2>3
<1>2. {a, b} \in SUBSET Int /\ {a, b} # {} /\ a \in {a, b} /\ b \in {a, b}
  OBVIOUS
<1> QED BY <1>1, <1>2, MaxOfFinite

LEMMA ClampIsInt ==
  ASSUME NEW a \in Int, NEW b \in Int, NEW c \in Int
  PROVE  clamp(a, b, c) \in Int
<1>1. Min({c, a}) \in Int
  BY MinOfTwo
<1>2. ASSUME NEW m \in Int
      PROVE  Max({b, m}) \in Int
  BY <1>2, MaxOfTwo
<1> QED BY <1>1, <1>2 DEF clamp

LEMMA ContributionIsInt ==
  ASSUME now \in Nat, NEW k, NEW v \in Verdicts, NEW t \in Nat
  PROVE  contribution([source_pubkey |-> k, verdict |-> v, timestamp |-> t],
                      Peers, Policy, now) \in Int
<1>1. weight_for(k, Peers, Policy) \in Int
  <2>0. \A w, m \in Int : clamp(w, 0, m) \in Int
    <3> TAKE w, m \in Int
    <3>1. 0 \in Int
      OBVIOUS
    <3> QED BY <3>1, ClampIsInt, Zenon
  <2>1. CASE k \in DOMAIN Policy.moderators
    <3>1. weight_for(k, Peers, Policy)
            = clamp(Policy.moderators[k], 0, Policy.max_weight)
      BY <2>1 DEF weight_for
    <3>2. Policy.moderators[k] \in Int /\ Policy.max_weight \in Int
      BY <2>1, PolicyAssumption
    <3>3. clamp(Policy.moderators[k], 0, Policy.max_weight) \in Int
      BY <2>0, <3>2
    <3> QED BY <3>1, <3>3
  <2>2. CASE k \notin DOMAIN Policy.moderators \cup DOMAIN Peers
    BY <2>2, PolicyAssumption DEF weight_for
  <2>3. CASE k \in DOMAIN Peers /\ k \notin DOMAIN Policy.moderators
    <3> DEFINE w == IF Peers[k].explicit = None
                    THEN Policy.default_weight
                         + Policy.learning_rate
                           * (Peers[k].confirmed - Peers[k].disputed)
                    ELSE Peers[k].explicit
    <3>1. w \in Int /\ Policy.max_weight \in Int
      BY <2>3, PolicyAssumption
    <3>2. weight_for(k, Peers, Policy) = clamp(w, 0, Policy.max_weight)
      BY <2>3 DEF weight_for
    <3> HIDE DEF w
    <3>3. clamp(w, 0, Policy.max_weight) \in Int
      BY <2>0, <3>1
    <3> QED BY <3>2, <3>3
  <2>4. \/ k \in DOMAIN Policy.moderators
        \/ k \notin DOMAIN Policy.moderators \cup DOMAIN Peers
        \/ k \in DOMAIN Peers /\ k \notin DOMAIN Policy.moderators
    OBVIOUS
  <2> QED BY <2>1, <2>2, <2>3, <2>4
<1>2. time_decay(t, now) \in Int
  <2> DEFINE age == IF t <= 0 THEN 0 ELSE clamp(now - t, 0, MaxHalvings)
  <2>1. clamp(now - t, 0, MaxHalvings) \in 0..MaxHalvings
    <3> DEFINE m == Min({MaxHalvings, now - t})
    <3>1. m \in Int /\ m <= MaxHalvings
      BY HalvingsAssumption, MinOfTwo
    <3> HIDE DEF m
    <3>2. Max({0, m}) \in {0, m} /\ 0 <= Max({0, m})
      BY <3>1, MaxOfTwo
    <3>3. clamp(now - t, 0, MaxHalvings) = Max({0, m})
      BY DEF clamp, m
    <3> QED BY <3>1, <3>2, <3>3, HalvingsAssumption
  <2>2. MaxHalvings - age \in Nat
    BY <2>1, HalvingsAssumption
  <2>3. time_decay(t, now) = 2 ^ (MaxHalvings - age)
    BY DEF time_decay
  <2> HIDE DEF age
  <2> QED BY <2>2, <2>3
<1>3. Policy.severity[v] \in Int
  BY PolicyAssumption
<1> QED BY <1>1, <1>2, <1>3 DEF contribution

(* A signal stands for a review of this content that somebody signed.      *)
IsSignalOf(s, r) ==
  /\ r.content_key = "this"
  /\ s = [source_pubkey |-> r.reviewer_public_key, verdict |-> r.verdict,
          timestamp |-> r.timestamp]

LEMMA SignalFacts ==
  ASSUME NEW entries, IsAnswer(entries)
  PROVE  LET s == load_signals(entries) IN
         /\ IsAnswer(s)
         /\ \A i \in DOMAIN s : \E r \in signed : IsSignalOf(s[i], r)
<1> DEFINE kept == {i \in DOMAIN entries : /\ verify_review_record(entries[i])
                                           /\ entries[i].content_key = "this"}
           place == [i \in kept |-> i]
           at == Ordered(kept, place)
           s == load_signals(entries)
           N == Cardinality(kept)
<1>1. PICK n \in Nat : DOMAIN entries = 1..n
  BY DEF IsAnswer
<1>2. IsFiniteSet(kept) /\ \A i \in kept : i \in Int
  BY <1>1, CountUpTo, FS_Subset
<1>3. \A i \in kept : /\ entries[i] \in signed
                      /\ entries[i].content_key = "this"
  BY DEF verify_review_record
<1>4. s = [m \in DOMAIN at |->
             [source_pubkey |-> entries[at[m]].reviewer_public_key,
              verdict |-> entries[at[m]].verdict,
              timestamp |-> entries[at[m]].timestamp]]
  BY DEF load_signals
<1> HIDE DEF kept, s
<1>5. \A i \in kept : place[i] = i
  OBVIOUS
<1> HIDE DEF place
<1>6. at \in [1..N -> kept]
  BY <1>2, <1>5, OrderedFacts
<1>7. N \in Nat
  BY <1>2, FS_CardinalityType
<1> HIDE DEF at, N
<1>8. IsAnswer(s)
  BY <1>4, <1>6, <1>7 DEF IsAnswer
<1>9. ASSUME NEW m \in DOMAIN s
      PROVE  \E r \in signed : IsSignalOf(s[m], r)
  <2>1. at[m] \in kept
    BY <1>4, <1>6
  <2> QED BY <1>3, <1>4, <2>1 DEF IsSignalOf
<1> QED BY <1>8, <1>9 DEF s

(* Of a source only one signal is left.                                    *)
LEMMA OneOfEach ==
  ASSUME NEW s, IsAnswer(s),
         \A i \in DOMAIN s : Policy.severity[s[i].verdict] \in Int
  PROVE  LET D == dedupe_by_source(s, Policy) IN
         /\ D \subseteq DOMAIN s /\ IsFiniteSet(D)
         /\ \A i, j \in D : s[i].source_pubkey = s[j].source_pubkey => i = j
<1> DEFINE D == dedupe_by_source(s, Policy)
           sev(i) == Policy.severity[s[i].verdict]
<1>1. PICK n \in Nat : DOMAIN s = 1..n
  BY DEF IsAnswer
<1>2. D \subseteq DOMAIN s
  BY DEF dedupe_by_source
<1>3. IsFiniteSet(D)
  BY <1>1, <1>2, CountUpTo, FS_Subset
<1>4. ASSUME NEW i \in D, NEW j \in D, s[i].source_pubkey = s[j].source_pubkey
      PROVE  i = j
  <2>1. /\ sev(i) > sev(j) \/ (sev(i) = sev(j) /\ i <= j)
        /\ sev(j) > sev(i) \/ (sev(j) = sev(i) /\ j <= i)
    BY <1>4 DEF dedupe_by_source
  <2>2. i \in Int /\ j \in Int /\ sev(i) \in Int /\ sev(j) \in Int
    BY <1>1, <1>2
  <2> HIDE DEF sev
  <2> QED BY <2>1, <2>2
<1> QED BY <1>2, <1>3, <1>4 DEF D

(* The worst of a reviewer is at least what any of the reviews adds.       *)
LEMMA WorstFacts ==
  ASSUME CacheInv, NEW k \in Reviewing
  PROVE  /\ Worst(k) \in Nat
         /\ \A r \in signed :
              r.reviewer_public_key = k /\ r.content_key = "this" =>
                contribution([source_pubkey |-> k, verdict |-> r.verdict,
                              timestamp |-> r.timestamp], Peers, Policy, now)
                  <= Worst(k)
<1> DEFINE mine == {r \in signed : r.reviewer_public_key = k
                                   /\ r.content_key = "this"}
           adds(r) == contribution([source_pubkey |-> k, verdict |-> r.verdict,
                                    timestamp |-> r.timestamp],
                                   Peers, Policy, now)
           all == {adds(r) : r \in mine}
<1>1. IsFiniteSet(mine)
  BY FS_Subset DEF CacheInv
<1>2. \A r \in mine : adds(r) \in Int
  BY ContributionIsInt DEF CacheInv, SignedReviews
<1> HIDE DEF mine, adds
<1>3. IsFiniteSet(all)
  <2> DEFINE f == [r \in mine |-> adds(r)]
  <2>1. f \in Surjection(mine, all)
    BY DEF Surjection
  <2> HIDE DEF f, all
  <2> QED BY <1>1, <2>1, FS_Surjection
<1>4. IsFiniteSet({0} \cup all)
  BY <1>3, FS_Singleton, FS_Union
<1>5. {0} \cup all \in SUBSET Int
  BY <1>2
<1>6. /\ Max({0} \cup all) \in {0} \cup all
      /\ \A x \in {0} \cup all : x <= Max({0} \cup all)
  <2> HIDE DEF all
  <2> QED BY <1>4, <1>5, MaxOfFinite
<1>7. Worst(k) = Max({0} \cup all)
  BY DEF Worst, mine, adds
<1>8. Worst(k) \in Nat
  BY <1>5, <1>6, <1>7
<1>9. \A r \in mine : adds(r) <= Worst(k)
  BY <1>6, <1>7
<1> QED BY <1>8, <1>9 DEF mine, adds

(* The sum that an operator gives is that of a function with its values.   *)
Adds(s) == [i \in DOMAIN s |-> contribution(s[i], Peers, Policy, now)]
WorstOf == [k \in Reviewing |-> Worst(k)]

LEMMA ScoreIsSum ==
  ASSUME NEW s, LET D == dedupe_by_source(s, Policy) IN
                D \subseteq DOMAIN s /\ IsFiniteSet(D)
  PROVE  LET D == dedupe_by_source(s, Policy) IN
         \E g : /\ IsSum(g, Adds(s), D)
                /\ score_content(s, Peers, Policy, now) = g[D]
<1> DEFINE D == dedupe_by_source(s, Policy)
           Sums(g) == g = [t \in SUBSET D |->
             IF t = {} THEN 0
             ELSE LET i == CHOOSE i \in t : TRUE
                  IN  contribution(s[i], Peers, Policy, now) + g[t \ {i}]]
           sum == CHOOSE g : Sums(g)
<1>1. score_content(s, Peers, Policy, now) = sum[D]
  BY DEF score_content, MapThenSumSet, MapThenFoldSet
<1>2. PICK g : IsSum(g, Adds(s), D)
  BY SumExists
<1> HIDE DEF D
<1>3. ASSUME NEW h
      PROVE  IsSum(h, Adds(s), D) <=> Sums(h)
  <2>1. ASSUME NEW t \in SUBSET D, t # {}
        PROVE  Adds(s)[Pick(t)]
                 = contribution(s[CHOOSE i \in t : TRUE], Peers, Policy, now)
    <3>1. Pick(t) \in DOMAIN s
      BY <2>1, PickOne DEF D
    <3> QED BY <3>1 DEF Adds, Pick
  <2> QED BY <2>1 DEF IsSum, Pick
<1>4. Sums(sum)
  <2> HIDE DEF Sums
  <2> QED BY <1>2, <1>3
<1> QED BY <1>1, <1>3, <1>4 DEF D

LEMMA WorstIsSum ==
  \E g : /\ IsSum(g, WorstOf, Reviewing)
         /\ MapThenSumSet(Worst, Reviewing) = g[Reviewing]
<1> DEFINE Sums(g) == g = [t \in SUBSET Reviewing |->
             IF t = {} THEN 0
             ELSE LET k == CHOOSE k \in t : TRUE IN Worst(k) + g[t \ {k}]]
           sum == CHOOSE g : Sums(g)
<1>1. MapThenSumSet(Worst, Reviewing) = sum[Reviewing]
  BY DEF MapThenSumSet, MapThenFoldSet
<1>2. PICK g : IsSum(g, WorstOf, Reviewing)
  <2>1. IsFiniteSet(Reviewing)
    BY ReviewsAssumption, FS_Subset
  <2> QED BY <2>1, SumExists
<1>3. ASSUME NEW h
      PROVE  IsSum(h, WorstOf, Reviewing) <=> Sums(h)
  <2>1. ASSUME NEW t \in SUBSET Reviewing, t # {}
        PROVE  WorstOf[Pick(t)] = Worst(CHOOSE k \in t : TRUE)
    <3>1. Pick(t) \in Reviewing
      BY <2>1, PickOne
    <3> QED BY <3>1 DEF WorstOf, Pick
  <2> QED BY <2>1 DEF IsSum, Pick
<1>4. Sums(sum)
  <2> HIDE DEF Sums
  <2> QED BY <1>2, <1>3
<1> QED BY <1>1, <1>3, <1>4

LEMMA ScoreIsBounded ==
  ASSUME CacheInv
  PROVE  NoAmplification
<1>1. IsFiniteSet(Reviewing)
  BY ReviewsAssumption, FS_Subset
<1>2. \A k \in Reviewing : WorstOf[k] \in Nat
  BY WorstFacts DEF WorstOf
<1>3. PICK G : /\ IsSum(G, WorstOf, Reviewing)
               /\ MapThenSumSet(Worst, Reviewing) = G[Reviewing]
  BY WorstIsSum
<1>4. CASE cache = None
  <2> DEFINE e == [x \in {} |-> 0]
  <2>1. PICK g : IsSum(g, e, {})
    BY FS_EmptySet, SumExists
  <2>2. e \in Injection({}, Reviewing)
    BY DEF Injection, IsInjective
  <2>3. g[{}] <= G[Reviewing]
    BY <1>1, <1>2, <1>3, <2>1, <2>2, FS_EmptySet, SumIsBounded
  <2>4. g[{}] = 0
    BY <2>1, SumFacts
  <2> QED BY <1>3, <1>4, <2>3, <2>4 DEF NoAmplification, cached_score
<1>5. CASE cache # None
  <2> DEFINE s == load_signals(cache)
             D == dedupe_by_source(s, Policy)
             of == [i \in D |-> s[i].source_pubkey]
  <2>1. /\ IsAnswer(s)
        /\ \A i \in DOMAIN s : \E r \in signed : IsSignalOf(s[i], r)
    BY <1>5, SignalFacts DEF CacheInv
  <2> HIDE DEF s
  <2>2. ASSUME NEW i \in DOMAIN s
        PROVE  /\ s[i].source_pubkey \in Reviewing
               /\ Policy.severity[s[i].verdict] \in Int
               /\ Adds(s)[i] \in Int
               /\ Adds(s)[i] <= Worst(s[i].source_pubkey)
    <3>1. PICK r \in signed : IsSignalOf(s[i], r)
      BY <2>1
    <3>2. /\ r.reviewer_public_key \in Reviewing /\ r.verdict \in Verdicts
          /\ r.timestamp \in Nat /\ now \in Nat
      BY DEF CacheInv, SignedReviews
    <3>3. s[i] = [source_pubkey |-> r.reviewer_public_key,
                  verdict |-> r.verdict, timestamp |-> r.timestamp]
      BY <3>1 DEF IsSignalOf
    <3>4. Adds(s)[i] = contribution(s[i], Peers, Policy, now)
      BY DEF Adds
    <3>5. Adds(s)[i] \in Int
      BY <3>2, <3>3, <3>4, ContributionIsInt
    <3>6. Adds(s)[i] <= Worst(r.reviewer_public_key)
      BY <3>1, <3>2, <3>3, <3>4, WorstFacts DEF IsSignalOf
    <3>7. Policy.severity[r.verdict] \in Int
      BY <3>2, PolicyAssumption
    <3> QED BY <3>2, <3>3, <3>5, <3>6, <3>7
  <2>3. /\ D \subseteq DOMAIN s /\ IsFiniteSet(D)
        /\ \A i, j \in D : s[i].source_pubkey = s[j].source_pubkey => i = j
    BY <2>1, <2>2, OneOfEach
  <2>4. PICK g : /\ IsSum(g, Adds(s), D)
                 /\ score_content(s, Peers, Policy, now) = g[D]
    BY <2>3, ScoreIsSum
  <2> HIDE DEF D
  <2>5. of \in Injection(D, Reviewing)
    BY <2>2, <2>3 DEF Injection, IsInjective
  <2>6. \A i \in D : /\ Adds(s)[i] \in Int
                     /\ Adds(s)[i] <= WorstOf[of[i]]
    BY <2>2, <2>3 DEF WorstOf
  <2> HIDE DEF of
  <2>7. g[D] <= G[Reviewing]
    BY <1>1, <1>2, <1>3, <2>3, <2>4, <2>5, <2>6, SumIsBounded
  <2> QED BY <1>3, <1>5, <2>4, <2>7 DEF NoAmplification, cached_score, s
<1> QED BY <1>4, <1>5

(* The score is at most what the worst words of each reviewer who did      *)
(* review this content add up to, whatever was answered and cached         *)
(* (_load_signals, _dedupe_by_source).                                     *)
THEOREM NobodyWeighsTwice == Spec => []NoAmplification
BY CacheInvHolds, ScoreIsBounded, PTL
=============================================================================
