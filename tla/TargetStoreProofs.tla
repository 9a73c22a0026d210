------------------------- MODULE TargetStoreProofs -------------------------
(***************************************************************************)
(* The mock target's store for any number of processes, requests, calls    *)
(* and crashes: until two saves write to one file at once its documents    *)
(* are whole and an answered call that ran alone stands; and calls that do *)
(* not overlap are atomic, whatever document they find.                    *)
(***************************************************************************)
EXTENDS TargetStore, FiniteSetTheorems, TLAPS

-----------------------------------------------------------------------------
(* Sums                                                                    *)

(* Every set of numbers that is not empty has a least one.                 *)
LEMMA LeastNumber ==
  ASSUME NEW T \in SUBSET Nat, T # {}
  PROVE  \E x \in T : \A y \in T : x <= y
<1>1. PICK x \in T : \A y \in T : <<y, x>> \notin OpToRel(<, Nat)
  BY WFMin, NatLessThanWellFounded
<1>2. ASSUME NEW y \in T, y < x
      PROVE  FALSE
  BY <1>1, <1>2 DEF OpToRel
<1> QED
  BY <1>2

(* Among finite sets there is a smallest one.                              *)
LEMMA SmallestSet ==
  ASSUME NEW R, IsFiniteSet(R), NEW B \in SUBSET (SUBSET R), B # {}
  PROVE  \E s \in B : \A x \in s : s \ {x} \notin B
<1> DEFINE Sizes == {Cardinality(s) : s \in B}
<1>1. \A s \in B : IsFiniteSet(s) /\ Cardinality(s) \in Nat
  BY FS_Subset, FS_CardinalityType
<1>2. PICK n \in Sizes : \A m \in Sizes : n <= m
  <2>1. Sizes \in SUBSET Nat /\ Sizes # {}
    BY <1>1
  <2> QED
    BY <2>1, LeastNumber
<1>3. PICK s \in B : n = Cardinality(s)
  BY <1>2
<1>4. ASSUME NEW x \in s, s \ {x} \in B
      PROVE  FALSE
  <2>1. Cardinality(s \ {x}) = Cardinality(s) - 1
    BY <1>1, <1>3, <1>4, FS_RemoveElement
  <2>2. n <= Cardinality(s \ {x})
    BY <1>2, <1>4
  <2> QED
    BY <1>1, <1>3, <2>1, <2>2
<1> QED
  BY <1>3, <1>4

(* The sums of f over the sets in D.                                       *)
Pick(s) == CHOOSE x \in s : TRUE

SumStep(g, s, f) == IF s = {} THEN 0 ELSE f[Pick(s)] + g[s \ {Pick(s)}]

Sums(g, D, f) == g = [s \in D |-> SumStep(g, s, f)]

(* The sums over all subsets of a finite set exist.                        *)
LEMMA SumsExist ==
  ASSUME NEW R, IsFiniteSet(R), NEW f
  PROVE  \E g : Sums(g, SUBSET R, f)
<1> DEFINE UpTo(n) == {s \in SUBSET R : Cardinality(s) <= n}
           Missed == {n \in Nat : ~ \E g : Sums(g, UpTo(n), f)}
<1>0. \A s \in SUBSET R : IsFiniteSet(s) /\ Cardinality(s) \in Nat
  BY FS_Subset, FS_CardinalityType
<1>1. ASSUME Missed # {}
      PROVE  FALSE
  <2>1. PICK n \in Missed : \A m \in Missed : n <= m
    BY <1>1, LeastNumber
  <2>2. CASE n = 0
    <3> DEFINE g == [s \in UpTo(0) |-> 0]
    <3>1. \A s \in UpTo(0) : s = {}
      BY <1>0, FS_EmptySet
    <3>2. Sums(g, UpTo(0), f)
      BY <3>1 DEF Sums, SumStep
    <3> QED
      BY <2>1, <2>2, <3>2
  <2>3. CASE n # 0
    <3>0. n \in Nat
      BY <2>1
    <3>1. n - 1 \in Nat /\ n - 1 \notin Missed
      <4> HIDE DEF Missed
      <4> QED
        BY <2>1, <2>3, <3>0
    <3>2. PICK g : Sums(g, UpTo(n - 1), f)
      BY <3>1
    <3> DEFINE h == [s \in UpTo(n) |-> SumStep(g, s, f)]
    <3>3. \A s \in UpTo(n - 1) : g[s] = SumStep(g, s, f)
      BY <3>2 DEF Sums
    <3>4. \A s \in UpTo(n) : s # {} => s \ {Pick(s)} \in UpTo(n - 1)
      <4> SUFFICES ASSUME NEW s \in UpTo(n), s # {}
                   PROVE  s \ {Pick(s)} \in UpTo(n - 1)
        OBVIOUS
      <4>1. Pick(s) \in s
        BY DEF Pick
      <4>2. Cardinality(s \ {Pick(s)}) = Cardinality(s) - 1
        BY <1>0, <4>1, FS_RemoveElement
      <4> QED
        BY <1>0, <3>0, <4>2
    <3>5. \A s \in UpTo(n - 1) : s \in UpTo(n)
      BY <1>0, <3>1
    <3>6. \A s \in UpTo(n) : SumStep(h, s, f) = SumStep(g, s, f)
      BY <3>3, <3>4, <3>5 DEF SumStep
    <3>7. Sums(h, UpTo(n), f)
      BY <3>6 DEF Sums
    <3> QED
      BY <2>1, <3>7
  <2> QED
    BY <2>1, <2>2, <2>3
<1>2. Cardinality(R) \in Nat /\ \A s \in SUBSET R : s \in UpTo(Cardinality(R))
  BY <1>0, FS_Subset, FS_CardinalityType
<1>3. UpTo(Cardinality(R)) = SUBSET R
  BY <1>2
<1> QED
  BY <1>1, <1>2, <1>3

(* And what a document's effects add up to is the last of them.            *)
LEMMA EffectsAreSums ==
  ASSUME NEW R, IsFiniteSet(R), NEW d
  PROVE  \E g : Sums(g, SUBSET R, d.commits) /\ Effects(d, R) = g[R]
<1> DEFINE g == CHOOSE h : Sums(h, SUBSET R, d.commits)
<1>1. Sums(g, SUBSET R, d.commits)
  BY SumsExist, Zenon
<1>2. Effects(d, R) = g[R]
  BY Zenon DEF Effects, SumFunctionOnSet, FoldFunctionOnSet, MapThenFoldSet, Sums, SumStep, Pick
<1> QED
  BY <1>1, <1>2

(* No effects add up to none.                                              *)
LEMMA NoEffects ==
  ASSUME NEW R, IsFiniteSet(R), NEW d, \A r \in R : d.commits[r] = 0
  PROVE  Effects(d, R) = 0
<1>1. PICK g : Sums(g, SUBSET R, d.commits) /\ Effects(d, R) = g[R]
  BY EffectsAreSums
<1>2. \A s \in SUBSET R : g[s] = SumStep(g, s, d.commits)
  BY <1>1 DEF Sums
<1> DEFINE B == {s \in SUBSET R : g[s] # 0}
<1>3. ASSUME B # {}
      PROVE  FALSE
  <2>1. PICK s \in B : \A x \in s : s \ {x} \notin B
    BY <1>3, SmallestSet
  <2>2. s # {} => Pick(s) \in s
    BY DEF Pick
  <2>3. s # {} => g[s \ {Pick(s)}] = 0
    BY <2>1, <2>2
  <2>4. g[s] = SumStep(g, s, d.commits) /\ g[s] # 0 /\ s \in SUBSET R
    BY <1>2
  <2>5. CASE s = {}
    BY <2>4, <2>5 DEF SumStep
  <2>6. CASE s # {}
    <3> DEFINE x == Pick(s)
    <3>1. g[s] = d.commits[x] + g[s \ {x}]
      BY <2>4, <2>6, Zenon DEF SumStep
    <3>2. x \in R
      BY <2>2, <2>4, <2>6
    <3>3. g[s \ {x}] = 0
      BY <2>3, <2>6
    <3> HIDE DEF x
    <3>4. d.commits[x] = 0
      BY <3>2
    <3> QED
      BY <2>4, <3>1, <3>3, <3>4
  <2> QED
    BY <2>5, <2>6
<1> QED
  BY <1>1, <1>3

(* Effects are counted, and one more of r counts as one more wherever r    *)
(* counts.                                                                 *)
LEMMA OneMoreEffect ==
  ASSUME NEW R \in SUBSET Requests, NEW d, NEW dd, NEW r \in Requests,
         d.commits \in [Requests -> Nat], dd.commits = [d.commits EXCEPT ![r] = @ + 1]
  PROVE  /\ Effects(d, R) \in Nat
         /\ Effects(dd, R) = IF r \in R THEN Effects(d, R) + 1 ELSE Effects(d, R)
<1>0. IsFiniteSet(R)
  BY RequestsAssumption, FS_Subset
<1>1. PICK g : Sums(g, SUBSET R, d.commits) /\ Effects(d, R) = g[R]
  BY <1>0, EffectsAreSums
<1>2. PICK h : Sums(h, SUBSET R, dd.commits) /\ Effects(dd, R) = h[R]
  BY <1>0, EffectsAreSums
<1>3. \A s \in SUBSET R : g[s] = SumStep(g, s, d.commits) /\ h[s] = SumStep(h, s, dd.commits)
  BY <1>1, <1>2 DEF Sums
<1> DEFINE Fits(s) == g[s] \in Nat /\ h[s] = IF r \in s THEN g[s] + 1 ELSE g[s]
           B == {s \in SUBSET R : ~Fits(s)}
<1>4. ASSUME B # {}
      PROVE  FALSE
  <2>1. PICK s \in B : \A x \in s : s \ {x} \notin B
    BY <1>0, <1>4, SmallestSet
  <2>2. CASE s = {}
    <3>1. g[s] = 0 /\ h[s] = 0
      BY <1>3, <2>2, Zenon DEF SumStep
    <3>2. ~Fits(s) /\ r \notin s
      BY <2>2
    <3> QED
      BY <3>1, <3>2
  <2>3. CASE s # {}
    <3> DEFINE x == Pick(s)
               t == s \ {x}
    <3>1. x \in s /\ x \in Requests
      BY <2>3 DEF Pick
    <3>2. Fits(t)
      BY <2>1, <3>1
    <3>3. g[s] = d.commits[x] + g[t] /\ h[s] = dd.commits[x] + h[t]
      BY <1>3, <2>3 DEF SumStep
    <3>4. /\ d.commits[x] \in Nat
          /\ dd.commits[x] = IF x = r THEN d.commits[x] + 1 ELSE d.commits[x]
      BY <3>1
    <3>5. r \in s <=> r = x \/ r \in t
      BY <3>1
    <3>6. x \notin t
      OBVIOUS
    <3> HIDE DEF x, t
    <3>7. Fits(s)
      BY <3>2, <3>3, <3>4, <3>5, <3>6
    <3> QED
      BY <2>1, <3>7
  <2> QED
    BY <2>2, <2>3
<1> QED
  BY <1>1, <1>2, <1>4

-----------------------------------------------------------------------------
(* What a request makes of a document                                      *)

(* The fields of the changed document, one by one.                         *)
DomainAfter(d, r) ==
  IF r \notin DomainWrites \/ Action[r] = "other" THEN d.domain
  ELSE IF Action[r] = "set_value" THEN Value[r]
  ELSE IF Action[r] = "delete_value" THEN NoValue
  ELSE IF d.domain = NoValue THEN 1 ELSE d.domain + 1

EntityAfter(d, r) ==
  IF r \notin Objects THEN d.entity
  ELSE IF Action[r] = "delete_value" THEN Deleted ELSE Value[r]

AttemptsAfter(d, r) ==
  IF Id[r] = NoId THEN d.attempts
  ELSE [d.attempts EXCEPT ![Id[r]] = IF Kind[r] \in Deduping THEN 1 ELSE @ + 1]

RequestsAfter(d, r, receipt) ==
  IF Kind[r] \notin Deduping THEN d.requests
  ELSE [d.requests EXCEPT ![Kind[r]] =
         [d.requests[Kind[r]] EXCEPT ![Id[r]] = [by |-> r, receipt |-> receipt]]]

StatsAfter(d, r) ==
  [s \in Stats |-> IF s \in {"total", Kind[r]} THEN d.stats[s] + 1 ELSE d.stats[s]]

After(d, r, receipt) ==
  [ commits   |-> [d.commits EXCEPT ![r] = @ + 1],
    domain    |-> DomainAfter(d, r),
    appended  |-> IF r \in OfAction("other") THEN d.appended + 1 ELSE d.appended,
    entity    |-> EntityAfter(d, r),
    attempts  |-> AttemptsAfter(d, r),
    anonymous |-> IF Id[r] = NoId THEN d.anonymous + 1 ELSE d.anonymous,
    requests  |-> RequestsAfter(d, r, receipt),
    stats     |-> StatsAfter(d, r) ]

(* A document is what its fields are.                                      *)
Document(c, o, p, e, t, n, q, s) ==
  [ commits |-> c, domain |-> o, appended |-> p, entity |-> e, attempts |-> t,
    anonymous |-> n, requests |-> q, stats |-> s ]

(* Every document has this form.                                           *)
LEMMA DocumentFields ==
  ASSUME NEW d \in Stores
  PROVE  d = Document(d.commits, d.domain, d.appended, d.entity, d.attempts, d.anonymous,
                      d.requests, d.stats)
BY DEF Stores, Document

(* What InDomain changes.                                                  *)
LEMMA InDomainFields ==
  ASSUME NEW d \in Stores, NEW r \in DomainWrites
  PROVE  InDomain(d, r) = Document([d.commits EXCEPT ![r] = @ + 1], DomainAfter(d, r),
                                   IF r \in OfAction("other") THEN d.appended + 1
                                   ELSE d.appended,
                                   d.entity, d.attempts, d.anonymous, d.requests, d.stats)
<1>1. Action[r] \in Actions /\ r \in Requests
  BY RequestsAssumption DEF DomainWrites
<1>2. Effective(d, r) = Document([d.commits EXCEPT ![r] = @ + 1], d.domain, d.appended,
                                 d.entity, d.attempts, d.anonymous, d.requests, d.stats)
  BY DocumentFields DEF Document, Effective
<1> HIDE DEF Stores
<1>3. CASE Action[r] = "set_value"
  BY <1>3, <1>2 DEF InDomain, DomainAfter, OfAction, Document
<1>4. CASE Action[r] = "delete_value"
  BY <1>4, <1>2 DEF InDomain, DomainAfter, OfAction, Document
<1>5. CASE Action[r] = "increment_value"
  BY <1>5, <1>2 DEF InDomain, DomainAfter, OfAction, Document
<1>6. CASE Action[r] = "other"
  BY <1>6, <1>2 DEF InDomain, DomainAfter, OfAction, Document
<1> QED
  BY <1>1, <1>3, <1>4, <1>5, <1>6 DEF Actions

(* The requests as the methods take them.                                  *)
LEMMA RequestTypes ==
  ASSUME NEW r \in Requests
  PROVE  /\ Kind[r] \in Kinds
         /\ Id[r] \in Ids \/ Id[r] = NoId
         /\ Kind[r] \in Deduping => Id[r] \in Ids
         /\ Kind[r] \in {"distinguishable", "counter"} => Id[r] = NoId
<1>1. Kind \in [Requests -> Kinds] /\ Id \in [Requests -> Ids \union {NoId}]
  BY RequestsAssumption
<1>2. \A q \in Requests : Kind[q] \in Deduping => Id[q] # NoId
  BY RequestsAssumption
<1>3. \A q \in Requests : Kind[q] \in {"distinguishable", "counter"} => Id[q] = NoId
  BY RequestsAssumption
<1> QED
  BY <1>1, <1>2, <1>3

(* What the counting changes.                                              *)
LEMMA CountedFields ==
  ASSUME NEW d \in Stores, NEW r \in Requests, NEW c, NEW o, NEW p, NEW e, NEW t, NEW n, NEW q
  PROVE  Counted(Document(c, o, p, e, t, n, q, d.stats), r)
           = Document(c, o, p, e, t, n, q, StatsAfter(d, r))
<1>1. d.stats \in [Stats -> Nat]
  BY DEF Stores
<1>2. Kind[r] = "legacy" \/ Kind[r] \in Stats \ {"total"}
  BY RequestTypes DEF Kinds, Stats
<1>3. CASE Kind[r] = "legacy"
  <2>1. StatsAfter(d, r) = [d.stats EXCEPT !["total"] = @ + 1]
    BY <1>1, <1>3 DEF StatsAfter, Stats
  <2> QED
    BY <1>3, <2>1 DEF Counted, Document
<1>4. CASE Kind[r] \in Stats \ {"total"}
  <2>1. StatsAfter(d, r) = [[d.stats EXCEPT !["total"] = d.stats["total"] + 1]
                              EXCEPT ![Kind[r]] = d.stats[Kind[r]] + 1]
    BY <1>1, <1>4 DEF StatsAfter, Stats
  <2>2. Kind[r] # "legacy"
    BY <1>4 DEF Stats
  <2> DEFINE m == Document(c, o, p, e, t, n, q, d.stats)
             k == Kind[r]
  <2>3. Counted(m, r) = [m EXCEPT !.stats = [[m.stats EXCEPT !["total"] = m.stats["total"] + 1]
                                               EXCEPT ![k] = m.stats[k] + 1]]
    <3> HIDE DEF m
    <3> QED
      BY <2>2 DEF Counted
  <2> QED
    BY <2>1, <2>3 DEF Document
<1> QED
  BY <1>2, <1>3, <1>4

(* What the five methods change.                                           *)
LEMMA AppliedFields ==
  ASSUME NEW d \in Stores, NEW r \in Requests, NEW receipt
  PROVE  Applied(d, r, receipt) = After(d, r, receipt)
<1> DEFINE commits == [d.commits EXCEPT ![r] = @ + 1]
           entry == [by |-> r, receipt |-> receipt]
           more == IF r \in OfAction("other") THEN d.appended + 1 ELSE d.appended
<1> HIDE DEF commits, entry, more
<1>1. After(d, r, receipt)
        = Document(commits, DomainAfter(d, r), more, EntityAfter(d, r), AttemptsAfter(d, r),
                   IF Id[r] = NoId THEN d.anonymous + 1 ELSE d.anonymous,
                   RequestsAfter(d, r, receipt), StatsAfter(d, r))
  BY DEF After, Document, commits, more
<1>2. Kind[r] \in Kinds
  BY RequestTypes
<1>3. CASE Kind[r] = "legacy"
  <2>1. r \in DomainWrites /\ r \notin Objects /\ Kind[r] \notin Deduping
    BY <1>3 DEF DomainWrites, Objects, Deduping
  <2>2. Applied(d, r, receipt) = Counted(ApplyLegacy(d, r), r)
    BY <1>3 DEF Applied, Deduping
  <2>3. InDomain(d, r) = Document(commits, DomainAfter(d, r), more, d.entity, d.attempts,
                                  d.anonymous, d.requests, d.stats)
    BY <2>1, InDomainFields DEF commits, more
  <2>4. EntityAfter(d, r) = d.entity /\ RequestsAfter(d, r, receipt) = d.requests
    BY <2>1 DEF EntityAfter, RequestsAfter
  <2>5. ApplyLegacy(d, r)
          = Document(commits, DomainAfter(d, r), more, d.entity, AttemptsAfter(d, r),
                     IF Id[r] = NoId THEN d.anonymous + 1 ELSE d.anonymous,
                     d.requests, d.stats)
    BY <2>1, <2>3 DEF ApplyLegacy, Anonymous, AttemptsAfter, Document
  <2> QED
    BY <1>1, <2>2, <2>4, <2>5, CountedFields
<1>4. CASE Kind[r] \in Deduping
  <2>1. r \in DomainWrites /\ r \notin Objects
    BY <1>4 DEF DomainWrites, Objects, Deduping
  <2>2. Id[r] \in Ids /\ Id[r] # NoId
    BY <1>4, RequestTypes, RequestsAssumption
  <2>3. Applied(d, r, receipt) = Counted(ApplyDeduped(d, r, receipt), r)
    BY <1>4 DEF Applied, Deduping
  <2>4. InDomain(d, r) = Document(commits, DomainAfter(d, r), more, d.entity, d.attempts,
                                  d.anonymous, d.requests, d.stats)
    BY <2>1, InDomainFields DEF commits, more
  <2>5. /\ EntityAfter(d, r) = d.entity
        /\ RequestsAfter(d, r, receipt)
             = [d.requests EXCEPT ![Kind[r]] = [d.requests[Kind[r]] EXCEPT ![Id[r]] = entry]]
        /\ AttemptsAfter(d, r) = [d.attempts EXCEPT ![Id[r]] = 1]
    <3>1. d.requests \in [Deduping -> [Ids -> Entries]]
      BY DEF Stores
    <3> QED
      BY <1>4, <2>1, <2>2, <3>1 DEF EntityAfter, RequestsAfter, AttemptsAfter, entry
  <2>6. ApplyDeduped(d, r, receipt)
          = Document(commits, DomainAfter(d, r), more, d.entity, AttemptsAfter(d, r),
                     d.anonymous, RequestsAfter(d, r, receipt), d.stats)
    <3> DEFINE m == InDomain(d, r)
               k == Kind[r]
               i == Id[r]
    <3>1. ApplyDeduped(d, r, receipt)
            = [m EXCEPT !.requests = [m.requests EXCEPT ![k] =
                                        [m.requests[k] EXCEPT ![i] = entry]],
                        !.attempts = [m.attempts EXCEPT ![i] = 1]]
      <4> HIDE DEF m
      <4> QED
        BY DEF ApplyDeduped, m, entry
    <3>2. m.requests = d.requests /\ m.attempts = d.attempts
      BY <2>4 DEF Document
    <3>3. ApplyDeduped(d, r, receipt) = [m EXCEPT !.requests = RequestsAfter(d, r, receipt),
                                                  !.attempts = AttemptsAfter(d, r)]
      <4> HIDE DEF m
      <4> QED
        BY <2>5, <3>1, <3>2
    <3> DEFINE recorded == [m EXCEPT !.requests = RequestsAfter(d, r, receipt)]
    <3>4. recorded = Document(commits, DomainAfter(d, r), more, d.entity, d.attempts,
                              d.anonymous, RequestsAfter(d, r, receipt), d.stats)
      BY <2>4 DEF Document
    <3>5. ApplyDeduped(d, r, receipt) = [recorded EXCEPT !.attempts = AttemptsAfter(d, r)]
      <4> HIDE DEF m
      <4> QED
        BY <3>3
    <3> HIDE DEF recorded
    <3> QED
      BY <3>4, <3>5 DEF Document
  <2> QED
    BY <1>1, <2>2, <2>3, <2>5, <2>6, CountedFields
<1>5. CASE Kind[r] \in {"distinguishable", "counter"}
  <2>1. /\ r \notin DomainWrites /\ Kind[r] \notin Deduping /\ Id[r] = NoId
        /\ r \in Objects <=> Kind[r] = "distinguishable"
    BY <1>5, RequestTypes DEF DomainWrites, Objects, Deduping
  <2>2. Effective(d, r) = Document(commits, d.domain, d.appended, d.entity, d.attempts,
                                   d.anonymous, d.requests, d.stats)
    BY DocumentFields DEF Document, Effective, commits
  <2>3. /\ DomainAfter(d, r) = d.domain /\ more = d.appended
        /\ AttemptsAfter(d, r) = d.attempts /\ RequestsAfter(d, r, receipt) = d.requests
    BY <2>1 DEF DomainAfter, OfAction, AttemptsAfter, RequestsAfter, more
  <2>4. Applied(d, r, receipt)
          = Counted(Document(commits, d.domain, d.appended, EntityAfter(d, r), d.attempts,
                             d.anonymous + 1, d.requests, d.stats), r)
    <3>1. CASE Kind[r] = "distinguishable"
      <4>1. Applied(d, r, receipt) = Counted(ApplyDistinguishable(d, r), r)
        BY <3>1 DEF Applied, Deduping
      <4> QED
        <5> DEFINE entity == IF Action[r] = "delete_value" THEN Deleted ELSE Value[r]
        <5>1. entity = EntityAfter(d, r)
          BY <2>1, <3>1 DEF EntityAfter
        <5>2. InObjects(d, r) = [Effective(d, r) EXCEPT !.entity = entity]
          BY DEF InObjects
        <5> HIDE DEF entity
        <5>3. ApplyDistinguishable(d, r)
                = Document(commits, d.domain, d.appended, entity, d.attempts,
                           d.anonymous + 1, d.requests, d.stats)
          <6>1. InObjects(d, r) = Document(commits, d.domain, d.appended, entity, d.attempts,
                                           d.anonymous, d.requests, d.stats)
            BY <2>2, <5>2 DEF Document
          <6> QED
            BY <6>1 DEF ApplyDistinguishable, Anonymous, Document
        <5> QED
          BY <4>1, <5>1, <5>3
    <3>2. CASE Kind[r] = "counter"
      <4>1. Applied(d, r, receipt) = Counted(IncrementCounter(d, r), r)
        BY <3>2 DEF Applied, Deduping
      <4> QED
        BY <2>1, <2>2, <3>2, <4>1 DEF IncrementCounter, Anonymous, EntityAfter, Document
    <3> QED
      BY <1>5, <3>1, <3>2
  <2> QED
    BY <1>1, <2>1, <2>3, <2>4, CountedFields
<1> QED
  BY <1>2, <1>3, <1>4, <1>5 DEF Kinds, Deduping

-----------------------------------------------------------------------------
(* Whole documents                                                         *)

(* A number under the key has been incremented at most n times.            *)
Bounded(d, n) == d.domain \in {NoValue} \union {Value[r] : r \in SetWrites} \union 1 .. n

(* What WholeSnapshots says of the store, for any document.                *)
Whole(d) ==
  /\ d.stats["total"] = Effects(d, Requests)
  /\ \A k \in Kinds \ {"legacy"} : d.stats[k] = Effects(d, OfKind(k))
  /\ d.anonymous = Effects(d, {r \in Requests : Id[r] = NoId})
  /\ \A r \in Requests :
       /\ Kind[r] \in Deduping => d.commits[r] = IF Recorded(d, r).by = r THEN 1 ELSE 0
       /\ d.commits[r] > 0 /\ Id[r] # NoId => d.attempts[Id[r]] > 0
  /\ \/ d.domain = NoValue
     \/ \E r \in SetWrites : Value[r] = d.domain /\ d.commits[r] > 0
     \/ d.domain \in 1 .. Effects(d, OfAction("increment_value"))
  /\ d.appended = Effects(d, OfAction("other"))

(* The store before the first call.                                        *)
LEMMA NewStoreIsWhole ==
  /\ NewStore \in Stores /\ Whole(NewStore)
  /\ \A n \in Int : Bounded(NewStore, n)
  /\ \A r \in Requests : NewStore.commits[r] = 0
<1>1. NewStore \in Stores
  BY DEF NewStore, Stores, NoEntries, Entries
<1>2. \A r \in Requests : NewStore.commits[r] = 0
  BY DEF NewStore
<1>3. \A R \in SUBSET Requests : Effects(NewStore, R) = 0
  BY <1>2, NoEffects, FS_Subset, RequestsAssumption
<1>4. \A k \in Kinds \ {"legacy"} : OfKind(k) \in SUBSET Requests /\ k \in Stats
  BY DEF OfKind, Kinds, Stats
<1>5. OfAction("other") \in SUBSET Requests
  BY DEF OfAction, DomainWrites
<1>6. \A r \in Requests : Recorded(NewStore, r).by # r
  <2> TAKE r \in Requests
  <2>1. Recorded(NewStore, r) = NoEntry
    BY RequestTypes DEF Recorded, NewStore, NoEntries
  <2> QED
    BY <2>1, RequestsAssumption DEF NoEntry
<1>7. /\ NewStore.stats["total"] = 0 /\ \A k \in Stats : NewStore.stats[k] = 0
      /\ NewStore.anonymous = 0 /\ NewStore.appended = 0 /\ NewStore.domain = NoValue
  BY DEF NewStore, Stats
<1> HIDE DEF NewStore
<1> QED
  BY <1>1, <1>2, <1>3, <1>4, <1>5, <1>6, <1>7 DEF Whole, Bounded

(* An increment that is not refused finds a number or nothing.             *)
LEMMA DomainAfterBounds ==
  ASSUME NEW d \in Stores, NEW r \in Requests, ~Refused(d, r), NEW n \in Nat, Bounded(d, n)
  PROVE  DomainAfter(d, r) \in {NoValue} \union {Value[q] : q \in SetWrites} \union 1 .. n + 1
<1>1. Action \in [DomainWrites \union Objects -> Actions]
  BY RequestsAssumption
<1>2. \A q \in SetWrites : Value[q] \notin Nat
  <2>1. \A q \in SetWrites : q \in DOMAIN Value
    BY RequestsAssumption DEF SetWrites
  <2>2. \A q \in DOMAIN Value : Value[q] \notin Nat
    BY RequestsAssumption
  <2> QED
    BY <2>1, <2>2
<1>3. CASE r \notin DomainWrites
  BY <1>3 DEF DomainAfter, Bounded
<1>4. CASE r \in DomainWrites /\ Action[r] = "increment_value"
  <2>1. d.domain = NoValue \/ d.domain \in Nat
    BY <1>4 DEF Refused
  <2>2. DomainAfter(d, r) = IF d.domain = NoValue THEN 1 ELSE d.domain + 1
    BY <1>4 DEF DomainAfter
  <2>3. d.domain # NoValue => d.domain \in 1 .. n
    BY <1>2, <2>1 DEF Bounded
  <2> QED
    BY <2>2, <2>3
<1>5. CASE r \in DomainWrites /\ Action[r] # "increment_value"
  <2>1. Action[r] \in {"set_value", "delete_value", "other"}
    BY <1>1, <1>5 DEF Actions
  <2> QED
    BY <1>5, <2>1 DEF DomainAfter, Bounded, SetWrites
<1> QED
  BY <1>3, <1>4, <1>5

(* The changed document is a document, and one increment more at most.     *)
LEMMA AppliedIsAStore ==
  ASSUME NEW d \in Stores, NEW r \in Requests, NEW receipt \in 1 .. MaxCalls,
         ~Refused(d, r), NEW n \in Nat, n < MaxCalls, Bounded(d, n)
  PROVE  /\ Applied(d, r, receipt) \in Stores /\ Bounded(Applied(d, r, receipt), n + 1)
         /\ Applied(d, r, receipt) # NewStore
<1> DEFINE a == Applied(d, r, receipt)
<1>1. a = After(d, r, receipt)
  BY AppliedFields
<1>2. /\ d.commits \in [Requests -> Nat] /\ d.appended \in Nat /\ d.anonymous \in Nat
      /\ d.attempts \in [Ids -> Nat] /\ d.stats \in [Stats -> Nat]
      /\ d.requests \in [Deduping -> [Ids -> Entries]]
      /\ d.entity \in {NoValue, Deleted} \union {Value[q] : q \in Objects \intersect DOMAIN Value}
  BY DEF Stores
<1>3. [d.commits EXCEPT ![r] = @ + 1] \in [Requests -> Nat]
  BY <1>2
<1>4. /\ DomainAfter(d, r) \in {NoValue} \union {Value[q] : q \in SetWrites} \union 1 .. n + 1
      /\ DomainAfter(d, r) \in {NoValue} \union {Value[q] : q \in SetWrites} \union 1 .. MaxCalls
  <2>1. MaxCalls \in Nat
    BY RequestsAssumption
  <2> QED
    BY <2>1, DomainAfterBounds
<1>5. EntityAfter(d, r)
        \in {NoValue, Deleted} \union {Value[q] : q \in Objects \intersect DOMAIN Value}
  <2>1. \A q \in Objects : Action[q] \in {"set_value", "delete_value"}
    BY RequestsAssumption
  <2>2. \A q \in Objects : Action[q] = "set_value" => q \in DOMAIN Value
    BY RequestsAssumption
  <2> QED
    BY <1>2, <2>1, <2>2 DEF EntityAfter
<1>6. AttemptsAfter(d, r) \in [Ids -> Nat]
  BY <1>2, RequestTypes DEF AttemptsAfter
<1>7. RequestsAfter(d, r, receipt) \in [Deduping -> [Ids -> Entries]]
  <2>1. [by |-> r, receipt |-> receipt] \in Entries
    BY DEF Entries
  <2> HIDE DEF Entries
  <2> QED
    BY <1>2, <2>1, RequestTypes DEF RequestsAfter
<1>8. StatsAfter(d, r) \in [Stats -> Nat]
  BY <1>2 DEF StatsAfter
<1>9. a \in Stores
  BY <1>1, <1>2, <1>3, <1>4, <1>5, <1>6, <1>7, <1>8 DEF After, Stores
<1>10. a.commits[r] # 0 /\ NewStore.commits[r] = 0
  BY <1>1, <1>2, NewStoreIsWhole DEF After
<1>11. a # NewStore
  BY <1>10
<1>12. Bounded(a, n + 1)
  BY <1>1, <1>4 DEF Bounded, After
<1> HIDE DEF a
<1> QED
  BY <1>9, <1>11, <1>12 DEF a

(* A call on a whole document leaves a whole one.                          *)
LEMMA AppliedIsWhole ==
  ASSUME NEW d \in Stores, Whole(d), NEW r \in Requests, NEW receipt,
         Recorded(d, r) = NoEntry, ~Refused(d, r)
  PROVE  Whole(Applied(d, r, receipt))
<1> DEFINE a == Applied(d, r, receipt)
<1>0. a = After(d, r, receipt)
  BY AppliedFields
<1>1. /\ a.commits = [d.commits EXCEPT ![r] = @ + 1]
      /\ a.domain = DomainAfter(d, r)
      /\ a.appended = IF r \in OfAction("other") THEN d.appended + 1 ELSE d.appended
      /\ a.attempts = AttemptsAfter(d, r)
      /\ a.anonymous = IF Id[r] = NoId THEN d.anonymous + 1 ELSE d.anonymous
      /\ a.requests = RequestsAfter(d, r, receipt)
      /\ a.stats = StatsAfter(d, r)
  BY <1>0 DEF After
<1> HIDE DEF a
<1>2. /\ d.commits \in [Requests -> Nat] /\ d.attempts \in [Ids -> Nat]
      /\ d.stats \in [Stats -> Nat] /\ d.requests \in [Deduping -> [Ids -> Entries]]
  BY DEF Stores
<1>3. ASSUME NEW R \in SUBSET Requests
      PROVE  /\ Effects(d, R) \in Nat
             /\ Effects(a, R) = IF r \in R THEN Effects(d, R) + 1 ELSE Effects(d, R)
  BY <1>1, <1>2, OneMoreEffect
<1>4. /\ a.stats["total"] = Effects(a, Requests)
      /\ \A k \in Kinds \ {"legacy"} : a.stats[k] = Effects(a, OfKind(k))
  <2>1. a.stats["total"] = Effects(a, Requests)
    BY <1>1, <1>2, <1>3 DEF Whole, StatsAfter, Stats
  <2>2. ASSUME NEW k \in Kinds \ {"legacy"}
        PROVE  a.stats[k] = Effects(a, OfKind(k))
    <3>1. k \in Stats /\ k # "total" /\ OfKind(k) \in SUBSET Requests
      BY DEF Kinds, Stats, OfKind
    <3>2. r \in OfKind(k) <=> Kind[r] = k
      BY DEF OfKind
    <3>3. a.stats[k] = IF Kind[r] = k THEN d.stats[k] + 1 ELSE d.stats[k]
      BY <1>1, <3>1 DEF StatsAfter
    <3>4. d.stats[k] = Effects(d, OfKind(k))
      BY DEF Whole
    <3> QED
      BY <1>3, <3>1, <3>2, <3>3, <3>4
  <2> QED
    BY <2>1, <2>2
<1>5. a.anonymous = Effects(a, {q \in Requests : Id[q] = NoId})
  <2> DEFINE R == {q \in Requests : Id[q] = NoId}
  <2>1. R \in SUBSET Requests /\ (r \in R <=> Id[r] = NoId) /\ d.anonymous = Effects(d, R)
    BY DEF Whole
  <2> HIDE DEF R
  <2> QED
    BY <1>1, <1>3, <2>1 DEF R
<1>6. a.appended = Effects(a, OfAction("other"))
  <2>1. OfAction("other") \in SUBSET Requests /\ d.appended = Effects(d, OfAction("other"))
    BY DEF OfAction, DomainWrites, Whole
  <2> QED
    BY <1>1, <1>3, <2>1
<1>7. ASSUME NEW q \in Requests, Kind[q] \in Deduping
      PROVE  a.commits[q] = IF Recorded(a, q).by = q THEN 1 ELSE 0
  <2>1. /\ d.commits[q] = IF Recorded(d, q).by = q THEN 1 ELSE 0
        /\ Recorded(d, r).by # r
    BY <1>7, RequestsAssumption DEF Whole, NoEntry
  <2>2. /\ Recorded(a, q) = a.requests[Kind[q]][Id[q]]
        /\ Recorded(d, q) = d.requests[Kind[q]][Id[q]] /\ Id[q] \in Ids
    BY <1>7, RequestTypes DEF Recorded
  <2>3. CASE q = r
    <3>1. Recorded(a, q) = [by |-> r, receipt |-> receipt]
      BY <1>1, <1>2, <1>7, <2>2, <2>3 DEF RequestsAfter
    <3> QED
      BY <1>1, <1>2, <2>1, <2>3, <3>1
  <2>4. CASE q # r
    <3>1. a.commits[q] = d.commits[q]
      BY <1>1, <1>2, <2>4
    <3>2. CASE Kind[r] = Kind[q] /\ Id[r] = Id[q]
      <4>1. Recorded(a, q) = [by |-> r, receipt |-> receipt]
        BY <1>1, <1>2, <1>7, <2>2, <3>2 DEF RequestsAfter
      <4>2. Recorded(d, q) = NoEntry
        BY <1>7, <2>2, <3>2 DEF Recorded
      <4>3. d.commits[q] = 0
        BY <2>1, <4>2, RequestsAssumption DEF NoEntry
      <4> QED
        BY <2>4, <3>1, <4>1, <4>3
    <3>3. CASE ~(Kind[r] = Kind[q] /\ Id[r] = Id[q])
      <4>1. Recorded(a, q) = Recorded(d, q)
        BY <1>1, <1>2, <1>7, <2>2, <3>3, RequestTypes DEF RequestsAfter
      <4> QED
        BY <2>1, <3>1, <4>1
    <3> QED
      BY <3>2, <3>3
  <2> QED
    BY <2>3, <2>4
<1>8. ASSUME NEW q \in Requests, a.commits[q] > 0, Id[q] # NoId
      PROVE  a.attempts[Id[q]] > 0
  <2>1. Id[q] \in Ids /\ (Id[r] = NoId \/ Id[r] \in Ids)
    BY <1>8, RequestTypes
  <2>2. d.commits[q] > 0 => d.attempts[Id[q]] > 0
    BY <1>8 DEF Whole
  <2>3. q # r => d.commits[q] > 0
    BY <1>1, <1>2, <1>8
  <2> QED
    BY <1>1, <1>2, <1>8, <2>1, <2>2, <2>3 DEF AttemptsAfter
<1>9. \/ a.domain = NoValue
      \/ \E q \in SetWrites : Value[q] = a.domain /\ a.commits[q] > 0
      \/ a.domain \in 1 .. Effects(a, OfAction("increment_value"))
  <2>1. OfAction("increment_value") \in SUBSET Requests
    BY DEF OfAction, DomainWrites
  <2> DEFINE n == Effects(d, OfAction("increment_value"))
             m == Effects(a, OfAction("increment_value"))
  <2>2. n \in Nat /\ m = IF r \in OfAction("increment_value") THEN n + 1 ELSE n
    BY <1>3, <2>1
  <2>3. \A q \in Requests : d.commits[q] > 0 => a.commits[q] > 0
    BY <1>1, <1>2
  <2>4. \/ d.domain = NoValue
        \/ \E q \in SetWrites : Value[q] = d.domain /\ d.commits[q] > 0
        \/ d.domain \in 1 .. n
    BY DEF Whole
  <2> HIDE DEF n, m
  <2>5. CASE DomainAfter(d, r) = d.domain /\ (r \in OfAction("increment_value") => FALSE)
    BY <1>1, <2>2, <2>3, <2>4, <2>5 DEF SetWrites, DomainWrites, m
  <2>6. CASE r \in DomainWrites
    <3>1. Action[r] \in Actions
      BY <2>6, RequestsAssumption
    <3>2. CASE Action[r] = "set_value"
      <4>1. r \in SetWrites /\ a.domain = Value[r]
        BY <1>1, <2>6, <3>2 DEF DomainAfter, SetWrites
      <4>2. a.commits[r] > 0
        BY <1>1, <1>2
      <4> QED
        BY <4>1, <4>2
    <3>3. CASE Action[r] = "delete_value"
      BY <1>1, <2>6, <3>3 DEF DomainAfter
    <3>4. CASE Action[r] = "other"
      BY <2>5, <2>6, <3>4 DEF DomainAfter, OfAction
    <3>5. CASE Action[r] = "increment_value"
      <4>1. d.domain = NoValue \/ d.domain \in Nat
        BY <2>6, <3>5 DEF Refused
      <4>2. a.domain = IF d.domain = NoValue THEN 1 ELSE d.domain + 1
        BY <1>1, <2>6, <3>5 DEF DomainAfter
      <4>3. \A q \in SetWrites : Value[q] \notin Nat
        <5>1. \A q \in SetWrites : q \in DOMAIN Value
          BY RequestsAssumption DEF SetWrites
        <5>2. \A q \in DOMAIN Value : Value[q] \notin Nat
          BY RequestsAssumption
        <5> QED
          BY <5>1, <5>2
      <4>4. m = n + 1
        BY <2>2, <2>6, <3>5 DEF OfAction
      <4>5. a.domain \in 1 .. m
        BY <2>2, <2>4, <4>1, <4>2, <4>3, <4>4
      <4> QED
        BY <4>5 DEF m
    <3> QED
      BY <3>1, <3>2, <3>3, <3>4, <3>5 DEF Actions
  <2>7. CASE r \notin DomainWrites
    BY <2>5, <2>7 DEF DomainAfter, OfAction
  <2> QED
    BY <2>6, <2>7
<1> QED
  BY <1>4, <1>5, <1>6, <1>7, <1>8, <1>9 DEF Whole, a

(* What the store held before the call, it holds after it.                 *)
LEMMA AppliedKeeps ==
  ASSUME NEW d \in Stores, NEW r \in Requests, NEW receipt, Recorded(d, r) = NoEntry
  PROVE  /\ Applied(d, r, receipt).commits = [d.commits EXCEPT ![r] = @ + 1]
         /\ Applied(d, r, receipt).commits[r] > 0
         /\ \A q \in Requests : d.commits[q] > 0 => Applied(d, r, receipt).commits[q] > 0
         /\ Kind[r] \in Deduping =>
              Recorded(Applied(d, r, receipt), r) = [by |-> r, receipt |-> receipt]
<1> DEFINE a == Applied(d, r, receipt)
<1>0. a = After(d, r, receipt)
  BY AppliedFields
<1>1. a.commits = [d.commits EXCEPT ![r] = @ + 1] /\ a.requests = RequestsAfter(d, r, receipt)
  BY <1>0 DEF After
<1> HIDE DEF a
<1>2. d.commits \in [Requests -> Nat] /\ d.requests \in [Deduping -> [Ids -> Entries]]
  BY DEF Stores
<1>3. ASSUME Kind[r] \in Deduping
      PROVE  Recorded(a, r) = [by |-> r, receipt |-> receipt]
  BY <1>1, <1>2, <1>3, RequestTypes DEF RequestsAfter, Recorded
<1>4. a.commits[r] > 0 /\ \A q \in Requests : d.commits[q] > 0 => a.commits[q] > 0
  BY <1>1, <1>2
<1> QED
  BY <1>1, <1>3, <1>4 DEF a

(* And no record of another request is touched.                            *)
LEMMA RecordsStay ==
  ASSUME NEW d \in Stores, NEW r \in Requests, NEW receipt, Recorded(d, r) = NoEntry,
         NEW q \in Requests, Recorded(d, q) # NoEntry
  PROVE  Recorded(Applied(d, r, receipt), q) = Recorded(d, q)
<1> DEFINE a == Applied(d, r, receipt)
<1>1. a.requests = RequestsAfter(d, r, receipt)
  BY AppliedFields DEF After
<1> HIDE DEF a
<1>2. d.requests \in [Deduping -> [Ids -> Entries]]
  BY DEF Stores
<1>3. Kind[q] \in Deduping /\ Id[q] \in Ids
  BY RequestTypes DEF Recorded
<1>4. ~(Kind[r] = Kind[q] /\ Id[r] = Id[q])
  BY <1>3 DEF Recorded
<1> QED
  BY <1>1, <1>2, <1>3, <1>4, RequestTypes DEF RequestsAfter, Recorded, a

-----------------------------------------------------------------------------
(* Type correctness                                                        *)

(* Where calls are: one that has not changed the store holds no document,  *)
(* only a save has a file open, and a call that has another beside it is   *)
(* known to overlap.                                                       *)
ClientInv ==
  /\ overlapped \subseteq Busy
  /\ \A c, d \in Busy : c # d => c \in overlapped
  /\ \A c \in Clients :
       /\ pc[c] \in {"idle", "load"} => data[c] = NewStore
       /\ pc[c] # "write" => handle[c] = "none"
       /\ pc[c] # "idle" => call[c] \in 1 .. MaxCalls

(* Calls that have not changed their copy yet, and how many have.          *)
Waiting == {c \in Busy : data[c] = NewStore}

Changes == calls - Cardinality(Waiting)

Good(d, n) == d \in Stores /\ Bounded(d, n)

(* A document's number is no greater than the calls that may have          *)
(* incremented it, wherever the document is.                               *)
DocumentInv ==
  /\ Changes \in Nat
  /\ file \in Stores => Good(file, Changes)
  /\ tmp \in Stores => Good(tmp, Changes)
  /\ \A c \in Clients : Good(data[c], Changes)
  /\ \A d \in texts : Good(d, Changes)

StoreInv == StoreTypeOK /\ ClientInv /\ DocumentInv

(* The steps, each by one client.                                          *)
LEMMA StoreSteps ==
  ASSUME [StoreNext]_vars
  PROVE  \/ UNCHANGED vars
         \/ \E c \in Clients :
              \/ \E r \in Requests : Start(c, r)
              \/ Create(c) \/ Unreadable(c) \/ Hit(c) \/ Change(c) \/ Refuse(c)
              \/ Open(c) \/ Flush(c) \/ Write(c)
              \/ Replace(c) \/ ReplaceFails(c) \/ Crash(c)
BY DEF StoreNext, ClientStep

(* The files are distinct from each other and from every document.         *)
LEMMA FilesDiffer ==
  /\ Missing \notin Stores /\ Empty \notin Stores /\ Torn \notin Stores
  /\ Missing # Empty /\ Missing # Torn /\ Empty # Torn
<1>1. Missing \notin Stores /\ Empty \notin Stores /\ Torn \notin Stores
  BY FilesAssumption
<1>2. \A x, y : Cardinality({x, y}) # 3
  <2> TAKE x, y
  <2>1. IsFiniteSet({x}) /\ Cardinality({x}) = 1
    BY FS_Singleton
  <2>2. Cardinality({x} \union {y}) = IF y \in {x} THEN 1 ELSE 1 + 1
    BY <2>1, FS_AddElement
  <2>3. {x, y} = {x} \union {y}
    OBVIOUS
  <2> QED
    BY <2>2, <2>3
<1>3. /\ Missing = Empty => {Missing, Empty, Torn} = {Missing, Torn}
      /\ Missing = Torn => {Missing, Empty, Torn} = {Missing, Empty}
      /\ Empty = Torn => {Missing, Empty, Torn} = {Missing, Empty}
  OBVIOUS
<1>4. Cardinality({Missing, Empty, Torn}) = 3
  BY FilesAssumption
<1> QED
  BY <1>1, <1>2, <1>3, <1>4

(* What a file holds is a document when it can be read.                    *)
LEMMA ContentIsADocument ==
  ASSUME StoreTypeOK
  PROVE  /\ Content \in Stores
         /\ Readable /\ file # Missing => file \in Stores /\ Content = file
         /\ ~(Readable /\ file # Missing) => Content = NewStore
BY NewStoreIsWhole, FilesDiffer DEF StoreTypeOK, Content, Readable

(* An answer more is an answer.                                            *)
LEMMA AnswersTyped ==
  ASSUME NEW c \in Clients, NEW q \in Requests, NEW n \in 1 .. MaxCalls,
         answers \subseteq [req : Requests, receipt : 1 .. MaxCalls, alone : BOOLEAN]
  PROVE  answers \union {[req |-> q, receipt |-> n, alone |-> c \notin overlapped]}
           \subseteq [req : Requests, receipt : 1 .. MaxCalls, alone : BOOLEAN]
<1>1. ASSUME NEW b \in BOOLEAN
      PROVE  [req |-> q, receipt |-> n, alone |-> b]
               \in [req : Requests, receipt : 1 .. MaxCalls, alone : BOOLEAN]
  OBVIOUS
<1>2. (c \notin overlapped) \in BOOLEAN
  OBVIOUS
<1>3. [req |-> q, receipt |-> n, alone |-> c \notin overlapped]
        \in [req : Requests, receipt : 1 .. MaxCalls, alone : BOOLEAN]
  BY <1>1, <1>2, Zenon
<1> QED
  BY <1>3, Zenon

(* Where each client is stays as ClientInv says.                           *)
LEMMA ClientSteps ==
  ASSUME StoreTypeOK, ClientInv, [StoreNext]_vars
  PROVE  /\ ClientInv'
         /\ pc' \in [Clients -> {"idle", "load", "open", "write", "replace"}]
         /\ req' \in [Clients -> Requests]
         /\ handle' \in [Clients -> {"none", "tmp", "file", "unlinked"}]
         /\ call' \in [Clients -> 0 .. MaxCalls]
         /\ calls' \in 0 .. MaxCalls
         /\ answers' \subseteq [req : Requests, receipt : 1 .. MaxCalls, alone : BOOLEAN]
         /\ crashes' \in 0 .. MaxCrashes
<1> USE DEF StoreTypeOK, ClientInv, Busy
<1> DEFINE Goal == /\ ClientInv'
                   /\ pc' \in [Clients -> {"idle", "load", "open", "write", "replace"}]
                   /\ req' \in [Clients -> Requests]
                   /\ handle' \in [Clients -> {"none", "tmp", "file", "unlinked"}]
                   /\ call' \in [Clients -> 0 .. MaxCalls]
                   /\ calls' \in 0 .. MaxCalls
                   /\ answers' \subseteq [req : Requests, receipt : 1 .. MaxCalls, alone : BOOLEAN]
                   /\ crashes' \in 0 .. MaxCrashes
<1>0. AnyRequest \in Requests /\ MaxCalls \in Nat /\ MaxCrashes \in Nat
  BY RequestsAssumption DEF AnyRequest
<1>1. CASE UNCHANGED vars
  BY <1>1 DEF vars, fileVars
<1>2. ASSUME NEW c \in Clients, NEW r \in Requests, Start(c, r)
      PROVE  Goal
  BY <1>0, <1>2 DEF Start, fileVars
<1>3. ASSUME NEW c \in Clients, Create(c)
      PROVE  Goal
  BY <1>0, <1>3 DEF Create, Save, fileVars
<1>4. ASSUME NEW c \in Clients, Unreadable(c) \/ Refuse(c) \/ ReplaceFails(c)
      PROVE  Goal
  BY <1>0, <1>4 DEF Unreadable, Refuse, ReplaceFails, Leave, fileVars
<1>5. ASSUME NEW c \in Clients, Hit(c)
      PROVE  Goal
  <2>1. file \in Stores
    BY <1>5, ContentIsADocument DEF Hit
  <2>2. Recorded(file, req[c]).receipt \in 1 .. MaxCalls
    <3>1. Recorded(file, req[c]) \in Entries /\ Recorded(file, req[c]) # NoEntry
      <4>1. Recorded(file, req[c]) # NoEntry
        BY <1>5 DEF Hit
      <4>2. file.requests \in [Deduping -> [Ids -> Entries]]
        BY <2>1 DEF Stores
      <4> QED
        BY <4>1, <4>2, RequestTypes DEF Recorded
    <3> QED
      BY <3>1 DEF Entries
  <2> QED
    <3>1. /\ Leave(c) /\ UNCHANGED <<handle, calls, crashes>>
          /\ \/ UNCHANGED answers
             \/ answers' = answers \union {[req |-> req[c],
                                           receipt |-> Recorded(file, req[c]).receipt,
                                           alone |-> c \notin overlapped]}
      BY <1>5 DEF Hit, Answer, fileVars
    <3>2. answers' \subseteq [req : Requests, receipt : 1 .. MaxCalls, alone : BOOLEAN]
      <4>1. answers \union {[req |-> req[c], receipt |-> Recorded(file, req[c]).receipt,
                             alone |-> c \notin overlapped]}
              \subseteq [req : Requests, receipt : 1 .. MaxCalls, alone : BOOLEAN]
        BY <2>2, AnswersTyped
      <4> QED
        BY <3>1, <4>1
    <3> QED
      BY <1>0, <1>5, <3>1, <3>2 DEF Hit, Leave
<1>6. ASSUME NEW c \in Clients, Change(c)
      PROVE  Goal
  BY <1>0, <1>6 DEF Change, Save, fileVars
<1>7. ASSUME NEW c \in Clients, Open(c)
      PROVE  Goal
  BY <1>0, <1>7 DEF Open
<1>8. ASSUME NEW c \in Clients, Flush(c) \/ Write(c)
      PROVE  Goal
  <2>1. CASE Flush(c)
    BY <1>0, <2>1 DEF Flush
  <2>2. CASE Write(c)
    BY <1>0, <2>2 DEF Write
  <2> QED
    BY <1>8, <2>1, <2>2
<1>9. ASSUME NEW c \in Clients, Replace(c)
      PROVE  Goal
  <2>1. handle' \in [Clients -> {"none", "tmp", "file", "unlinked"}]
    BY <1>9 DEF Replace, Renamed
  <2>2. \A d \in Clients : handle[d] = "none" => handle'[d] = "none"
    BY <1>9 DEF Replace, Renamed
  <2>3. CASE data[c] = NewStore
    <3>1. /\ pc[c] = "replace" /\ pc' = [pc EXCEPT ![c] = "load"]
          /\ UNCHANGED <<req, data, call, overlapped, answers, calls, crashes>>
      BY <1>9, <2>3 DEF Replace
    <3> QED
      BY <2>1, <2>2, <2>3, <3>1
  <2>4. CASE data[c] # NewStore
    <3>1. /\ Leave(c) /\ UNCHANGED <<calls, crashes>> /\ pc[c] = "replace"
          /\ answers' = answers \union {[req |-> req[c], receipt |-> call[c],
                                         alone |-> c \notin overlapped]}
      BY <1>9, <2>4 DEF Replace, Answer
    <3>2. answers' \subseteq [req : Requests, receipt : 1 .. MaxCalls, alone : BOOLEAN]
      <4>1. answers \union {[req |-> req[c], receipt |-> call[c], alone |-> c \notin overlapped]}
              \subseteq [req : Requests, receipt : 1 .. MaxCalls, alone : BOOLEAN]
        BY <3>1, AnswersTyped
      <4> QED
        BY <3>1, <4>1
    <3> QED
      BY <1>0, <2>1, <2>2, <3>1, <3>2 DEF Leave
  <2> QED
    BY <2>3, <2>4
<1>10. ASSUME NEW c \in Clients, Crash(c)
      PROVE  Goal
  BY <1>0, <1>10 DEF Crash, Leave
<1> QED
  BY <1>1, <1>2, <1>3, <1>4, <1>5, <1>6, <1>7, <1>8, <1>9, <1>10, StoreSteps

(* A document stays good as more calls come to count.                      *)
LEMMA GoodForMore ==
  ASSUME NEW d, NEW m \in Nat, NEW n \in Nat, m <= n, Good(d, m)
  PROVE  Good(d, n)
BY DEF Good, Bounded

(* If nobody else comes to wait, the count of changes does not go back.    *)
LEMMA FewerWaiting ==
  ASSUME NEW W, NEW V \in SUBSET W, IsFiniteSet(W), NEW n \in Nat, n - Cardinality(W) \in Nat
  PROVE  n - Cardinality(V) \in Nat /\ n - Cardinality(W) <= n - Cardinality(V)
<1>1. Cardinality(V) \in Nat /\ Cardinality(W) \in Nat /\ Cardinality(V) <= Cardinality(W)
  BY FS_Subset, FS_CardinalityType
<1> QED
  BY <1>1

(* Waiting calls can be counted.                                           *)
LEMMA WaitingIsFinite ==
  IsFiniteSet(Waiting) /\ Cardinality(Waiting) \in Nat
<1>1. Waiting \in SUBSET Clients
  BY DEF Waiting, Busy
<1> QED
  BY <1>1, RequestsAssumption, FS_Subset, FS_CardinalityType

(* A call that changes its copy is one that had not been counted.          *)
LEMMA ChangeCounts ==
  ASSUME StoreInv, NEW c \in Clients, Change(c)
  PROVE  /\ Changes' = Changes + 1
         /\ Good(data'[c], Changes + 1)
         /\ Whole(file) => Whole(data'[c])
<1> USE DEF StoreInv, StoreTypeOK, ClientInv, DocumentInv
<1> DEFINE d == Applied(file, req[c], call[c])
<1>1. /\ pc[c] = "load" /\ Recorded(file, req[c]) = NoEntry /\ ~Refused(file, req[c])
      /\ pc' = [pc EXCEPT ![c] = "open"] /\ data' = [data EXCEPT ![c] = d] /\ calls' = calls
  BY DEF Change, Save
<1>2. Good(file, Changes) /\ req[c] \in Requests /\ call[c] \in 1 .. MaxCalls
  BY <1>1, ContentIsADocument DEF Change
<1>3. c \in Waiting
  BY <1>1 DEF Waiting, Busy
<1>4. IsFiniteSet(Waiting) /\ Cardinality(Waiting) \in Nat /\ Cardinality(Waiting) # 0
  BY <1>3, WaitingIsFinite, FS_EmptySet
<1>5. Changes < MaxCalls
  BY <1>4, RequestsAssumption DEF Changes
<1>6. d \in Stores /\ Bounded(d, Changes + 1) /\ d # NewStore
  BY <1>1, <1>2, <1>5, AppliedIsAStore DEF Good
<1>7. Whole(file) => Whole(d)
  BY <1>1, <1>2, AppliedIsWhole DEF Good
<1> HIDE DEF d
<1>8. Waiting' = Waiting \ {c}
  BY <1>1, <1>6 DEF Waiting, Busy
<1>9. Cardinality(Waiting') = Cardinality(Waiting) - 1
  BY <1>3, <1>4, <1>8, FS_RemoveElement
<1>10. Changes' = Changes + 1
  BY <1>1, <1>4, <1>9 DEF Changes
<1> QED
  BY <1>1, <1>6, <1>7, <1>10 DEF Good

(* No step counts a change back.                                           *)
LEMMA ChangesGrow ==
  ASSUME StoreInv, [StoreNext]_vars
  PROVE  Changes' \in Nat /\ Changes <= Changes'
<1> USE DEF StoreInv, StoreTypeOK, ClientInv
<1> DEFINE Goal == Changes' \in Nat /\ Changes <= Changes'
<1>0. Changes \in Nat /\ calls \in Nat
  BY RequestsAssumption DEF DocumentInv
<1>1. ASSUME Waiting' \in SUBSET Waiting, calls' = calls
      PROVE  Goal
  BY <1>0, <1>1, WaitingIsFinite, FewerWaiting DEF Changes
<1>2. CASE UNCHANGED vars
  BY <1>1, <1>2 DEF vars, Waiting, Busy
<1>3. ASSUME NEW c \in Clients, NEW r \in Requests, Start(c, r)
      PROVE  Goal
  <2>1. c \notin Waiting /\ Waiting' = Waiting \union {c}
    BY <1>3 DEF Start, Waiting, Busy
  <2>2. Cardinality(Waiting') = Cardinality(Waiting) + 1
    BY <2>1, WaitingIsFinite, FS_AddElement
  <2> QED
    BY <1>0, <1>3, <2>2, WaitingIsFinite DEF Start, Changes
<1>4. ASSUME NEW c \in Clients, Change(c)
      PROVE  Goal
  BY <1>0, <1>4, ChangeCounts
<1>5. ASSUME NEW c \in Clients, Leave(c), calls' = calls
      PROVE  Goal
  BY <1>1, <1>5 DEF Leave, Waiting, Busy
<1>6. ASSUME NEW c \in Clients,
             Unreadable(c) \/ Hit(c) \/ Refuse(c) \/ ReplaceFails(c) \/ Crash(c)
      PROVE  Goal
  BY <1>5, <1>6 DEF Unreadable, Hit, Answer, Refuse, ReplaceFails, Crash
<1>7. ASSUME NEW c \in Clients, Create(c) \/ Open(c) \/ Flush(c) \/ Write(c)
      PROVE  Goal
  <2>1. calls' = calls /\ Waiting' \in SUBSET Waiting
    BY <1>7 DEF Create, Open, Flush, Write, Save, Waiting, Busy
  <2> QED
    BY <1>1, <2>1
<1>8. ASSUME NEW c \in Clients, Replace(c)
      PROVE  Goal
  <2>1. CASE data[c] = NewStore
    <3>1. pc[c] # "idle" /\ pc' = [pc EXCEPT ![c] = "load"] /\ UNCHANGED <<data, calls>>
      BY <1>8, <2>1 DEF Replace
    <3> QED
      BY <1>1, <3>1 DEF Waiting, Busy
  <2>2. CASE data[c] # NewStore
    BY <1>5, <1>8, <2>2 DEF Replace, Answer
  <2> QED
    BY <2>1, <2>2
<1> QED
  BY <1>2, <1>3, <1>4, <1>6, <1>7, <1>8, StoreSteps

(* Joined texts are documents, and their number is one of the two.         *)
LEMMA MixturesAreGood ==
  ASSUME NEW D, NEW n, \A d \in D : Good(d, n), NEW m \in Mixtures(D)
  PROVE  Good(m, n)
<1>1. PICK a \in D, b \in D, k \in Seams, lost \in SUBSET Ids : m = Spliced(a, b, k, lost)
  BY DEF Mixtures
<1>2. a \in Stores /\ b \in Stores /\ Bounded(a, n) /\ Bounded(b, n)
  BY DEF Good
<1>3. \A p : Map(p, a, b, k) = a \/ Map(p, a, b, k) = b
  BY DEF Map
<1>4. \A p : /\ Map(p, a, b, k).commits \in [Requests -> Nat]
             /\ Map(p, a, b, k).domain
                  \in {NoValue} \union {Value[r] : r \in SetWrites} \union 1 .. MaxCalls
             /\ Map(p, a, b, k).domain
                  \in {NoValue} \union {Value[r] : r \in SetWrites} \union 1 .. n
             /\ Map(p, a, b, k).appended \in Nat /\ Map(p, a, b, k).anonymous \in Nat
             /\ Map(p, a, b, k).entity
                  \in {NoValue, Deleted} \union {Value[r] : r \in Objects \intersect DOMAIN Value}
             /\ Map(p, a, b, k).attempts \in [Ids -> Nat]
             /\ Map(p, a, b, k).requests \in [Deduping -> [Ids -> Entries]]
             /\ Map(p, a, b, k).stats \in [Stats -> Nat]
  BY <1>2, <1>3 DEF Stores, Bounded
<1>5. m.domain = Map(4, a, b, k).domain
  BY <1>1 DEF Spliced
<1>6. NoEntry \in Entries
  BY DEF Entries
<1>7. m \in Stores
  <2> DEFINE commits == [r \in Requests |-> Map(EffectMap(r), a, b, k).commits[r]]
             attempts == [i \in Ids |-> IF k = 1 /\ i \in lost THEN 0
                                        ELSE Map(1, a, b, k).attempts[i]]
             requests == [l \in Deduping |-> [i \in Ids |->
                            IF k = RequestMap(l) /\ i \in lost THEN NoEntry
                            ELSE Map(RequestMap(l), a, b, k).requests[l][i]]]
  <2> HIDE DEF Entries, Map
  <2>1. commits \in [Requests -> Nat]
    BY <1>4
  <2>2. attempts \in [Ids -> Nat]
    BY <1>4
  <2>3. requests \in [Deduping -> [Ids -> Entries]]
    BY <1>4, <1>6
  <2>4. m = Document(commits, Map(4, a, b, k).domain, Map(4, a, b, k).appended,
                     Map(3, a, b, k).entity, attempts, Map(1, a, b, k).anonymous,
                     requests, Map(7, a, b, k).stats)
    BY <1>1 DEF Spliced, Document
  <2> HIDE DEF commits, attempts, requests
  <2> QED
    BY <1>4, <2>1, <2>2, <2>3, <2>4 DEF Document, Stores
<1> QED
  BY <1>4, <1>5, <1>7 DEF Good, Bounded

(* What a client puts into a file is its own document, or no document, or  *)
(* joins texts that were written at once, which is then on record.         *)
LEMMA BlendsJoinTexts ==
  ASSUME NEW c \in Clients, NEW text, text \in {data[c]} \union Blends(c), Put(c, text)
  PROVE  /\ text \in {data[c], Torn} \/ (texts' # {} /\ text \in Mixtures(texts'))
         /\ texts' \in {texts, texts \union {data[c]}}
         /\ file' \in {file, text} /\ tmp' \in {tmp, text}
BY DEF Blends, Put

(* What the files hold after a step is what was held before, or what is no *)
(* document, or joined texts; and a client's copy is new, or as it was, or *)
(* just changed.                                                           *)
Held == {file, tmp, Torn} \union {data[c] : c \in Clients}

LEMMA DocumentSteps ==
  ASSUME StoreInv, [StoreNext]_vars
  PROVE  /\ file' \in Held \/ (texts' # {} /\ file' \in Mixtures(texts'))
         /\ \/ tmp' \in Held \union {Missing, Empty}
            \/ texts' # {} /\ tmp' \in Mixtures(texts')
         /\ texts \subseteq texts' /\ texts' \subseteq texts \union {data[c] : c \in Clients}
         /\ data' = [c \in Clients |-> data'[c]]
         /\ \A c \in Clients : data'[c] \in {data[c], NewStore} \/ Change(c)
<1> USE DEF StoreInv, StoreTypeOK
<1> DEFINE Files == /\ file' \in Held \/ (texts' # {} /\ file' \in Mixtures(texts'))
                    /\ \/ tmp' \in Held \union {Missing, Empty}
                       \/ texts' # {} /\ tmp' \in Mixtures(texts')
                    /\ texts \subseteq texts'
                    /\ texts' \subseteq texts \union {data[c] : c \in Clients}
           Copies == /\ data' = [c \in Clients |-> data'[c]]
                     /\ \A c \in Clients : data'[c] \in {data[c], NewStore} \/ Change(c)
           Goal == Files /\ Copies
<1>0. ASSUME UNCHANGED fileVars
      PROVE  Files
  BY <1>0 DEF fileVars, Held
<1>1. CASE UNCHANGED vars
  BY <1>0, <1>1 DEF vars, fileVars
<1>2. ASSUME NEW c \in Clients, NEW r \in Requests, Start(c, r)
      PROVE  Goal
  BY <1>0, <1>2 DEF Start
<1>3. ASSUME NEW c \in Clients,
             Create(c) \/ Unreadable(c) \/ Hit(c) \/ Refuse(c) \/ ReplaceFails(c)
      PROVE  Goal
  <2>1. Files
    BY <1>0, <1>3 DEF Create, Unreadable, Hit, Refuse, ReplaceFails
  <2>2. Copies
    BY <1>3 DEF Create, Unreadable, Hit, Refuse, ReplaceFails, Answer, Leave, Save
  <2> QED
    BY <2>1, <2>2
<1>4. ASSUME NEW c \in Clients, Change(c)
      PROVE  Goal
  <2>1. /\ UNCHANGED fileVars /\ \A d \in Clients : d # c => data'[d] = data[d]
        /\ data' = [d \in Clients |-> data'[d]]
    <3> DEFINE new == Applied(file, req[c], call[c])
    <3>1. data' = [data EXCEPT ![c] = new] /\ UNCHANGED fileVars
      BY <1>4 DEF Change, Save
    <3> HIDE DEF new
    <3> QED
      BY <3>1
  <2> QED
    BY <1>0, <1>4, <2>1
<1>5. ASSUME NEW c \in Clients, NEW text, text \in {data[c]} \union Blends(c), Put(c, text)
      PROVE  Files
  <2>1. /\ text \in {data[c], Torn} \/ (texts' # {} /\ text \in Mixtures(texts'))
        /\ texts' \in {texts, texts \union {data[c]}}
        /\ file' \in {file, text} /\ tmp' \in {tmp, text}
    BY <1>5, BlendsJoinTexts
  <2> QED
    BY <2>1 DEF Held
<1>6. ASSUME NEW c \in Clients, Open(c)
      PROVE  Goal
  BY <1>6 DEF Open, Held
<1>7. ASSUME NEW c \in Clients, Flush(c) \/ Write(c)
      PROVE  Goal
  <2>1. \E text \in {data[c]} \union Blends(c) : Put(c, text)
    BY <1>7 DEF Flush, Write
  <2>2. data' = data
    BY <1>7 DEF Flush, Write
  <2> QED
    BY <1>5, <2>1, <2>2
<1>8. ASSUME NEW c \in Clients, Replace(c)
      PROVE  Goal
  BY <1>8 DEF Replace, Answer, Leave, Held
<1>9. ASSUME NEW c \in Clients, Crash(c)
      PROVE  Goal
  <2>1. UNCHANGED fileVars \/ Put(c, Torn)
    BY <1>9 DEF Crash
  <2>2. Torn \in {data[c]} \union Blends(c)
    BY DEF Blends
  <2>3. Files
    BY <1>0, <1>5, <2>1, <2>2
  <2>4. Copies
    BY <1>9 DEF Crash, Leave
  <2> QED
    BY <2>3, <2>4
<1> HIDE DEF Files, Copies
<1> QED
  BY <1>1, <1>2, <1>3, <1>4, <1>6, <1>7, <1>8, <1>9, StoreSteps DEF Files, Copies

(* So types are kept.                                                      *)
LEMMA StoreInvStays ==
  ASSUME StoreInv, [StoreNext]_vars
  PROVE  StoreInv'
<1> USE DEF StoreInv
<1>0. Changes \in Nat /\ Changes' \in Nat /\ Changes <= Changes'
  BY ChangesGrow DEF DocumentInv
<1>1. \A c \in Clients : Good(data[c], Changes')
  BY <1>0, GoodForMore DEF DocumentInv
<1>2. /\ file \in Stores => Good(file, Changes')
      /\ tmp \in Stores => Good(tmp, Changes')
      /\ \A d \in texts : Good(d, Changes')
  BY <1>0, GoodForMore DEF DocumentInv
<1>3. Good(NewStore, Changes')
  BY <1>0, NewStoreIsWhole DEF Good
<1>4. \A c \in Clients : Good(data'[c], Changes')
  BY <1>0, <1>1, <1>3, DocumentSteps, ChangeCounts
<1>5. \A d \in texts' : Good(d, Changes')
  BY <1>1, <1>2, DocumentSteps
<1>6. \A d \in Held : d = Torn \/ d \in {Missing, Empty} \/ Good(d, Changes')
  BY <1>1, <1>2 DEF Held, StoreTypeOK
<1>7. \A d \in Mixtures(texts') : Good(d, Changes')
  BY <1>5, MixturesAreGood
<1>8. /\ file' \in Stores \union {Missing, Empty, Torn}
      /\ tmp' \in Stores \union {Missing, Empty, Torn}
      /\ file' \in Stores => Good(file', Changes')
      /\ tmp' \in Stores => Good(tmp', Changes')
  BY <1>6, <1>7, DocumentSteps, FilesDiffer DEF Good
<1>9. data' \in [Clients -> Stores]
  <2>1. data' = [c \in Clients |-> data'[c]]
    BY DocumentSteps
  <2>2. \A c \in Clients : data'[c] \in Stores
    BY <1>4 DEF Good
  <2> QED
    BY <2>1, <2>2
<1>10. texts' \subseteq Stores
  BY <1>5 DEF Good
<1>11. ClientInv'
  BY ClientSteps
<1> QED
  BY <1>0, <1>4, <1>5, <1>8, <1>9, <1>10, <1>11, ClientSteps
  DEF StoreTypeOK, DocumentInv, ClientInv, Busy

(* At the start nobody is there and nothing has been counted.              *)
LEMMA StoreInvAtTheStart == StoreInit => StoreInv
<1> SUFFICES ASSUME StoreInit
             PROVE  StoreInv
  OBVIOUS
<1> USE DEF StoreInit
<1>1. Busy = {} /\ Waiting = {}
  BY DEF Busy, Waiting
<1>2. Changes = 0
  BY <1>1, FS_EmptySet DEF Changes
<1>3. Good(NewStore, 0)
  BY NewStoreIsWhole DEF Good
<1>4. AnyRequest \in Requests /\ MaxCalls \in Nat /\ MaxCrashes \in Nat
  BY RequestsAssumption DEF AnyRequest
<1>5. StoreTypeOK
  BY <1>3, <1>4 DEF StoreTypeOK, Good
<1>6. DocumentInv
  BY <1>2, <1>3, FilesDiffer DEF DocumentInv
<1>7. ClientInv
  BY <1>1 DEF ClientInv
<1> QED
  BY <1>5, <1>6, <1>7 DEF StoreInv

(* So it holds throughout.                                                 *)
LEMMA StoreInvHolds == StoreSpec => []StoreInv
BY StoreInvAtTheStart, StoreInvStays, PTL DEF StoreSpec

(* The store, the temporary file and every copy are documents of the       *)
(* store's form whenever they can be read, however calls overlap, texts    *)
(* are joined and processes are killed; a number under the key is bounded  *)
(* by the calls.                                                           *)
THEOREM StoreTypeCorrect == StoreSpec => []StoreTypeOK
BY StoreInvHolds, PTL DEF StoreInv

(* Until a save writes to a file that another has open, every document is  *)
(* whole, wherever it is.                                                  *)
WholeInv ==
  texts = {} =>
    /\ file \in Stores => Whole(file)
    /\ tmp \in Stores => Whole(tmp)
    /\ \A c \in Clients : Whole(data[c])

(* Every save writes one document changed by one call.                     *)
LEMMA WholeStays ==
  ASSUME StoreInv, WholeInv, [StoreNext]_vars
  PROVE  WholeInv'
<1> SUFFICES ASSUME texts' = {}
             PROVE  /\ file' \in Stores => Whole(file')
                    /\ tmp' \in Stores => Whole(tmp')
                    /\ \A c \in Clients : Whole(data'[c])
  BY DEF WholeInv
<1>1. texts = {} /\ file' \in Held /\ tmp' \in Held \union {Missing, Empty}
  BY DocumentSteps
<1>2. \A d \in Held : d \in Stores => Whole(d)
  BY <1>1, FilesDiffer DEF WholeInv, Held
<1>3. ASSUME NEW c \in Clients
      PROVE  Whole(data'[c])
  <2>1. CASE data'[c] \in {data[c], NewStore}
    BY <1>1, <2>1, NewStoreIsWhole DEF WholeInv
  <2>2. CASE Change(c)
    <3>1. file \in Stores
      BY <2>2, ContentIsADocument DEF Change, StoreInv
    <3> QED
      BY <1>1, <2>2, <3>1, ChangeCounts DEF WholeInv
  <2> QED
    BY <2>1, <2>2, DocumentSteps
<1> QED
  BY <1>1, <1>2, <1>3, FilesDiffer

(* The first document is whole, so it holds throughout.                    *)
LEMMA WholeInvHolds == StoreSpec => [](StoreInv /\ WholeInv)
<1>1. StoreInit => WholeInv
  BY NewStoreIsWhole, FilesDiffer DEF StoreInit, WholeInv
<1> QED
  BY <1>1, WholeStays, StoreInvHolds, PTL DEF StoreSpec

(* Until a save writes to a file that another has open, a store that can   *)
(* be read is whole: its counters, its records of deduplicated requests,   *)
(* its action log and the value under its key agree with the effects it    *)
(* holds, after any other overlap and any crash.                           *)
THEOREM StoresAreWhole == StoreSpec => []WholeSnapshots
<1>1. StoreInv /\ WholeInv => WholeSnapshots
  <2> SUFFICES ASSUME StoreInv, WholeInv, texts = {}
               PROVE  Whole(Content)
    BY Zenon DEF Whole, WholeSnapshots
  <2> QED
    BY ContentIsADocument, NewStoreIsWhole DEF StoreInv, WholeInv
<1> QED
  BY <1>1, WholeInvHolds, PTL

-----------------------------------------------------------------------------
(* Calls that run alone                                                    *)

Saving == {"open", "write", "replace"}

(* The save of a call that runs alone: nobody else touches the temporary   *)
(* file, and the store is still what the call has read.                    *)
Alone(c) ==
  /\ pc[c] = "write" => handle[c] = "tmp" /\ tmp = Empty
  /\ pc[c] = "replace" => tmp = data[c]
  /\ pc[c] \in Saving =>
       \/ data[c] = NewStore /\ file = Missing
       \/ /\ Readable /\ file # Missing
          /\ Recorded(file, req[c]) = NoEntry /\ ~Refused(file, req[c])
          /\ data[c] = Applied(file, req[c], call[c])

AloneInv == \A c \in Busy \ overlapped : Alone(c)

(* It writes to a file nobody else has open.                               *)
LEMMA AloneSharesNothing ==
  ASSUME StoreInv, NEW c \in Clients, c \in Busy \ overlapped, pc[c] = "write", Alone(c)
  PROVE  ~Shared(c)
BY DEF StoreInv, StoreTypeOK, ClientInv, Busy, Alone, Shared, Behind

(* As long as it is alone, only the call's own steps matter to it.         *)
LEMMA AloneStays ==
  ASSUME StoreInv, AloneInv, [StoreNext]_vars
  PROVE  AloneInv'
<1> SUFFICES ASSUME NEW c \in Clients, c \in Busy', c \notin overlapped'
             PROVE  Alone(c)'
  BY DEF AloneInv, Busy
<1> USE DEF StoreInv, StoreTypeOK, ClientInv, AloneInv, Busy
<1>1. ASSUME UNCHANGED <<file, tmp, handle, pc, req, data, call, overlapped>>
      PROVE  Alone(c)'
  BY <1>1 DEF Alone, Readable
<1>2. CASE UNCHANGED vars
  BY <1>1, <1>2 DEF vars, fileVars
<1>3. ASSUME NEW e \in Clients, NEW r \in Requests, Start(e, r)
      PROVE  Alone(c)'
  BY <1>3 DEF Start, Alone, Saving
<1>4. ASSUME NEW e \in Clients, Leave(e), pc[e] # "idle"
      PROVE  FALSE
  BY <1>4 DEF Leave
<1>5. ASSUME NEW e \in Clients,
             Unreadable(e) \/ Hit(e) \/ Refuse(e) \/ ReplaceFails(e) \/ Crash(e)
      PROVE  Alone(c)'
  BY <1>4, <1>5 DEF Unreadable, Hit, Answer, Refuse, ReplaceFails, Crash
<1>6. ASSUME NEW e \in Clients, pc[e] # "idle", overlapped' = overlapped,
             \A d \in Clients : d # e => pc'[d] = pc[d]
      PROVE  c = e /\ c \in Busy /\ c \notin overlapped
  BY <1>6
<1>7. ASSUME NEW e \in Clients, Create(e)
      PROVE  Alone(c)'
  BY <1>6, <1>7 DEF Create, Save, Alone, Saving, fileVars
<1>8. ASSUME NEW e \in Clients, Change(e)
      PROVE  Alone(c)'
  <2> DEFINE d == Applied(file, req[e], call[e])
  <2>1. /\ Readable /\ file # Missing
        /\ Recorded(file, req[e]) = NoEntry /\ ~Refused(file, req[e])
        /\ pc[e] = "load" /\ pc' = [pc EXCEPT ![e] = "open"]
        /\ data' = [data EXCEPT ![e] = d]
        /\ UNCHANGED <<file, tmp, handle, req, call, overlapped>>
    BY <1>8 DEF Change, Save, fileVars
  <2>2. c = e
    BY <1>6, <2>1
  <2>3. data'[c] = Applied(file, req[c], call[c])
    <3> HIDE DEF d
    <3>1. data'[e] = d
      BY <2>1
    <3> QED
      BY <2>2, <3>1 DEF d
  <2> HIDE DEF d
  <2> QED
    BY <2>1, <2>2, <2>3 DEF Alone, Saving, Readable
<1>9. ASSUME NEW e \in Clients, Open(e)
      PROVE  Alone(c)'
  <2>1. c = e /\ Alone(c)
    BY <1>6, <1>9 DEF Open
  <2> QED
    BY <1>9, <2>1 DEF Open, Alone, Saving, Readable
<1>10. ASSUME NEW e \in Clients, Flush(e) \/ Write(e)
      PROVE  Alone(c)'
  <2>1. c = e /\ c \in Busy /\ c \notin overlapped /\ Alone(c) /\ pc[c] = "write"
    <3>1. pc[e] = "write" /\ overlapped' = overlapped /\ \A d \in Clients : d # e => pc'[d] = pc[d]
      BY <1>10 DEF Flush, Write
    <3> QED
      BY <1>6, <3>1
  <2>2. ~Shared(c)
    BY <2>1, AloneSharesNothing
  <2>3. Write(c)
    BY <1>10, <2>1, <2>2 DEF Flush
  <2>4. tmp' = data[c] /\ file' = file
    BY <2>1, <2>2, <2>3 DEF Write, Put, Alone
  <2>5. pc'[c] = "replace" /\ UNCHANGED <<req, data, call>>
    BY <2>1, <2>3 DEF Write
  <2> QED
    BY <2>1, <2>4, <2>5 DEF Alone, Saving, Readable
<1>11. ASSUME NEW e \in Clients, Replace(e)
      PROVE  Alone(c)'
  <2>1. data[e] = NewStore /\ pc' = [pc EXCEPT ![e] = "load"] /\ overlapped' = overlapped
    BY <1>4, <1>11 DEF Replace, Answer
  <2>2. c = e
    BY <1>6, <1>11, <2>1 DEF Replace
  <2> QED
    BY <2>1, <2>2 DEF Alone, Saving
<1> QED
  BY <1>2, <1>3, <1>5, <1>7, <1>8, <1>9, <1>10, <1>11, StoreSteps

(* Nobody saves at the start, so it holds throughout.                      *)
LEMMA AloneInvHolds == StoreSpec => [](StoreInv /\ AloneInv)
<1>1. StoreInit => AloneInv
  BY DEF StoreInit, AloneInv, Busy
<1> QED
  BY <1>1, AloneStays, StoreInvHolds, PTL DEF StoreSpec

(* Without overlap, killing a process at any point of its save leaves a    *)
(* store that can be read.                                                 *)
THEOREM QuietStoresStayReadable == StoreSpec => QuietStepsKeepTheStore
<1>1. ASSUME StoreInv, AloneInv, [StoreNext]_vars, Quiet, Readable
      PROVE  Readable'
  <2> USE <1>1 DEF StoreInv, StoreTypeOK, ClientInv, AloneInv, Busy, Quiet
  <2>1. CASE file' = file
    BY <2>1 DEF Readable
  <2>2. ASSUME NEW c \in Clients, Flush(c) \/ Write(c) \/ Crash(c)
        PROVE  file' = file
    BY <2>2 DEF Flush, Write, Crash, Put, Alone, fileVars
  <2>3. ASSUME NEW c \in Clients, Replace(c)
        PROVE  Readable'
    <3>1. file' = data[c] /\ data[c] \in Stores
      BY <2>3 DEF Replace, Alone
    <3> QED
      BY <3>1, FilesDiffer DEF Readable
  <2>4. ASSUME NEW c \in Clients, NEW r \in Requests, Start(c, r)
        PROVE  file' = file
    BY <2>4 DEF Start, fileVars
  <2>5. ASSUME NEW c \in Clients,
               \/ Create(c) \/ Unreadable(c) \/ Hit(c) \/ Change(c) \/ Refuse(c)
               \/ Open(c) \/ ReplaceFails(c)
        PROVE  file' = file
    BY <2>5 DEF Create, Unreadable, Hit, Change, Refuse, Open, ReplaceFails, fileVars
  <2>6. CASE UNCHANGED vars
    BY <2>6 DEF vars, fileVars, Readable
  <2> QED
    BY <2>1, <2>2, <2>3, <2>4, <2>5, <2>6, StoreSteps
<1>2. StoreInv /\ AloneInv /\ [StoreNext]_vars => [Quiet /\ Readable => Readable']_vars
  BY <1>1
<1> QED
  BY <1>2, AloneInvHolds, PTL DEF StoreSpec, QuietStepsKeepTheStore

-----------------------------------------------------------------------------
(* Answers                                                                 *)

(* A document has what calls that ran alone were told.                     *)
Stands(d, S) ==
  \A a \in S : a.alone =>
    /\ d.commits[a.req] > 0
    /\ Kind[a.req] \in Deduping => Recorded(d, a.req).receipt = a.receipt

(* So has the store, every copy that is to be saved, and the temporary     *)
(* file while somebody is going to rename it.                              *)
Carried ==
  /\ Readable => Stands(Content, answers)
  /\ \A c \in Clients : pc[c] \in Saving => Stands(data[c], answers)
  /\ tmp \in Stores /\ (\E c \in Clients : pc[c] \in {"write", "replace"}) => Stands(tmp, answers)

CarryInv == texts = {} => Carried

(* One more answer asks for what it says, if its call ran alone.           *)
LEMMA AnswerStands ==
  ASSUME NEW d, NEW S, NEW c \in Clients, NEW q, NEW n, Stands(d, S),
         c \notin overlapped =>
           d.commits[q] > 0 /\ (Kind[q] \in Deduping => Recorded(d, q).receipt = n)
  PROVE  Stands(d, S \union {[req |-> q, receipt |-> n, alone |-> c \notin overlapped]})
<1> DEFINE x == [req |-> q, receipt |-> n, alone |-> c \notin overlapped]
<1>1. x.req = q /\ x.receipt = n /\ (x.alone <=> c \notin overlapped)
  BY Zenon
<1> HIDE DEF x
<1>2. ASSUME NEW a \in S \union {x}, a.alone
      PROVE  /\ d.commits[a.req] > 0
             /\ Kind[a.req] \in Deduping => Recorded(d, a.req).receipt = a.receipt
  <2>1. CASE a \in S
    BY <1>2, <2>1 DEF Stands
  <2>2. CASE a = x
    BY <1>1, <1>2, <2>2
  <2> QED
    BY <2>1, <2>2
<1>3. Stands(d, S \union {x})
  BY <1>2 DEF Stands
<1> QED
  BY <1>3 DEF x

(* A call adds to a document without taking from it.                       *)
LEMMA AppliedStands ==
  ASSUME StoreTypeOK, NEW d \in Stores, NEW r \in Requests, NEW receipt,
         Recorded(d, r) = NoEntry, Stands(d, answers)
  PROVE  Stands(Applied(d, r, receipt), answers)
<1> DEFINE b == Applied(d, r, receipt)
<1>1. /\ \A q \in Requests : d.commits[q] > 0 => b.commits[q] > 0
      /\ \A q \in Requests : Recorded(d, q) # NoEntry => Recorded(b, q) = Recorded(d, q)
  <2>1. \A q \in Requests : d.commits[q] > 0 => b.commits[q] > 0
    BY AppliedKeeps, Zenon
  <2>2. ASSUME NEW q \in Requests, Recorded(d, q) # NoEntry
        PROVE  Recorded(b, q) = Recorded(d, q)
    BY <2>2, RecordsStay
  <2> QED
    BY <2>1, <2>2, Zenon
<1> HIDE DEF b
<1>2. ASSUME NEW a \in answers, a.alone
      PROVE  /\ b.commits[a.req] > 0
             /\ Kind[a.req] \in Deduping => Recorded(b, a.req).receipt = a.receipt
  <2>1. a.req \in Requests /\ a.receipt \in 1 .. MaxCalls
    BY DEF StoreTypeOK
  <2>2. /\ d.commits[a.req] > 0
        /\ Kind[a.req] \in Deduping => Recorded(d, a.req).receipt = a.receipt
    BY <1>2 DEF Stands
  <2>3. NoEntry.receipt = 0
    BY DEF NoEntry
  <2> QED
    BY <1>1, <2>1, <2>2, <2>3
<1>3. Stands(b, answers)
  BY <1>2 DEF Stands
<1> QED
  BY <1>3 DEF b

(* A call that is answered alone leaves nobody at the store.               *)
LEMMA NobodyElse ==
  ASSUME StoreTypeOK, ClientInv, NEW c \in Clients, pc[c] # "idle", c \notin overlapped, Leave(c)
  PROVE  \A d \in Clients : pc'[d] = "idle"
BY DEF StoreTypeOK, ClientInv, Busy, Leave

(* A call answered from the record finds it under its effect.              *)
LEMMA HitCarries ==
  ASSUME StoreInv, WholeInv, texts = {}, Carried, NEW c \in Clients, Hit(c)
  PROVE  Carried'
<1> USE DEF StoreInv, StoreTypeOK, ClientInv, Carried, Saving
<1>1. /\ Leave(c) /\ pc[c] = "load" /\ Readable /\ file # Missing /\ UNCHANGED fileVars
      /\ Recorded(file, req[c]) # NoEntry
  BY DEF Hit, Answer
<1>2. /\ file \in Stores /\ Content = file /\ Whole(file)
      /\ Readable' /\ Content' = file
  BY <1>1, ContentIsADocument DEF WholeInv, Readable, Content, fileVars
<1>3. CASE answers' = answers
  BY <1>1, <1>2, <1>3 DEF Leave, fileVars
<1>4. CASE Recorded(file, req[c]).by = req[c] /\ Answer(c, Recorded(file, req[c]).receipt)
  <2> DEFINE n == Recorded(file, req[c]).receipt
  <2>1. answers' = answers \union {[req |-> req[c], receipt |-> n, alone |-> c \notin overlapped]}
    BY <1>4 DEF Answer
  <2>2. Kind[req[c]] \in Deduping
    BY <1>1 DEF Recorded
  <2>3. file.commits[req[c]] > 0
    BY <1>2, <1>4, <2>2 DEF Whole
  <2>4. Stands(file, answers')
    <3>1. Stands(file, answers)
      BY <1>1, <1>2
    <3>2. Stands(file, answers \union {[req |-> req[c], receipt |-> n, alone |-> c \notin overlapped]})
      <4> DEFINE q == req[c]
      <4>1. file.commits[q] > 0 /\ Recorded(file, q).receipt = n
        BY <2>3
      <4> HIDE DEF q, n
      <4>2. Stands(file, answers \union {[req |-> q, receipt |-> n, alone |-> c \notin overlapped]})
        BY <3>1, <4>1, AnswerStands
      <4> QED
        BY <4>2 DEF q
    <3> QED
      BY <2>1, <3>2
  <2>5. CASE c \notin overlapped
    <3>1. \A d \in Clients : pc'[d] = "idle"
      BY <1>1, <2>5, NobodyElse
    <3> QED
      BY <1>2, <2>4, <3>1
  <2>6. CASE c \in overlapped
    <3>1. \A d : Stands(d, answers) => Stands(d, answers')
      BY <2>1, <2>6, AnswerStands
    <3> QED
      BY <1>1, <1>2, <2>4, <3>1 DEF Leave, fileVars
  <2> QED
    BY <2>5, <2>6
<1> QED
  BY <1>3, <1>4 DEF Hit

(* A save puts what stands in place of the store.                          *)
LEMMA ReplaceCarries ==
  ASSUME StoreInv, AloneInv, Carried, NEW c \in Clients, Replace(c)
  PROVE  Carried'
<1> USE DEF StoreInv, StoreTypeOK, ClientInv, Carried, Saving
<1>1. /\ pc[c] = "replace" /\ tmp # Missing /\ file' = tmp /\ tmp' = Missing
      /\ tmp' \notin Stores
  BY FilesDiffer DEF Replace
<1>2. Readable' => tmp \in Stores /\ Content' = tmp /\ Stands(tmp, answers)
  BY <1>1, FilesDiffer DEF Readable, Content
<1>3. CASE data[c] = NewStore
  BY <1>1, <1>2, <1>3 DEF Replace
<1>4. CASE data[c] # NewStore
  <2>1. /\ Leave(c)
        /\ answers' = answers \union {[req |-> req[c], receipt |-> call[c],
                                       alone |-> c \notin overlapped]}
    BY <1>4 DEF Replace, Answer
  <2>2. CASE c \notin overlapped
    <3>1. \A d \in Clients : pc'[d] = "idle"
      BY <1>1, <2>1, <2>2, NobodyElse
    <3>2. /\ tmp = data[c] /\ Recorded(file, req[c]) = NoEntry /\ file \in Stores
          /\ data[c] = Applied(file, req[c], call[c])
      BY <1>1, <1>4, <2>2, FilesDiffer DEF AloneInv, Alone, Busy, Readable
    <3>3. /\ tmp.commits[req[c]] > 0
          /\ Kind[req[c]] \in Deduping => Recorded(tmp, req[c]).receipt = call[c]
      <4> DEFINE r == req[c]
                 n == call[c]
      <4>1. r \in Requests /\ file \in Stores /\ Recorded(file, r) = NoEntry /\ tmp = Applied(file, r, n)
        BY <3>2
      <4> HIDE DEF r, n
      <4>2. /\ Applied(file, r, n).commits[r] > 0
            /\ Kind[r] \in Deduping => Recorded(Applied(file, r, n), r) = [by |-> r, receipt |-> n]
        BY <4>1, AppliedKeeps, ZenonT(60)
      <4>3. /\ tmp.commits[r] > 0
            /\ Kind[r] \in Deduping => Recorded(tmp, r).receipt = n
        BY <4>1, <4>2
      <4> QED
        BY <4>3 DEF r, n
    <3>4. Readable' => Stands(tmp, answers')
      BY <1>2, <2>1, <3>3, AnswerStands
    <3> QED
      BY <1>1, <1>2, <3>1, <3>4
  <2>3. CASE c \in overlapped
    <3>1. \A d : Stands(d, answers) => Stands(d, answers')
      BY <2>1, <2>3, AnswerStands
    <3> QED
      BY <1>1, <1>2, <2>1, <3>1 DEF Leave
  <2> QED
    BY <2>2, <2>3
<1> QED
  BY <1>3, <1>4

(* So no step takes back what a call that ran alone was told.              *)
LEMMA CarryStays ==
  ASSUME StoreInv, WholeInv, AloneInv, CarryInv, [StoreNext]_vars
  PROVE  CarryInv'
<1> SUFFICES ASSUME texts' = {}
             PROVE  Carried'
  BY DEF CarryInv
<1>0. texts = {} /\ Carried
  BY DocumentSteps DEF CarryInv
<1> USE DEF StoreInv, StoreTypeOK, ClientInv, Carried, Saving
<1>1. CASE UNCHANGED vars
  BY <1>0, <1>1 DEF vars, fileVars, Readable, Content
<1>2. ASSUME NEW c \in Clients, NEW r \in Requests, Start(c, r)
      PROVE  Carried'
  BY <1>0, <1>2 DEF Start, fileVars, Readable, Content
<1>3. ASSUME NEW c \in Clients, Create(c)
      PROVE  Carried'
  BY <1>0, <1>3, FilesDiffer DEF Create, Save, fileVars, Readable, Content
<1>4. ASSUME NEW c \in Clients, Unreadable(c) \/ Refuse(c) \/ ReplaceFails(c)
      PROVE  Carried'
  BY <1>0, <1>4 DEF Unreadable, Refuse, ReplaceFails, Leave, fileVars, Readable, Content
<1>5. ASSUME NEW c \in Clients, Change(c)
      PROVE  Carried'
  <2> DEFINE d == Applied(file, req[c], call[c])
  <2>1. /\ Readable /\ file # Missing /\ Recorded(file, req[c]) = NoEntry
        /\ pc[c] = "load" /\ pc' = [pc EXCEPT ![c] = "open"]
        /\ data' = [data EXCEPT ![c] = d]
        /\ UNCHANGED <<file, tmp, answers>>
    BY <1>0, <1>5 DEF Change, Save, fileVars
  <2>2. Stands(d, answers)
    BY <1>0, <2>1, ContentIsADocument, AppliedStands
  <2> HIDE DEF d
  <2>3. /\ Readable' = Readable /\ Content' = Content
    BY <2>1 DEF Readable, Content
  <2> QED
    BY <1>0, <2>1, <2>2, <2>3
<1>6. ASSUME NEW c \in Clients, Open(c)
      PROVE  Carried'
  BY <1>0, <1>6, FilesDiffer DEF Open, Readable, Content
<1>7. ASSUME NEW c \in Clients, Flush(c) \/ Write(c)
      PROVE  Carried'
  <2>1. ~Shared(c) /\ Write(c)
    BY <1>7 DEF Flush, Write, Put
  <2>2. /\ pc[c] = "write" /\ pc' = [pc EXCEPT ![c] = "replace"] /\ UNCHANGED <<data, answers>>
        /\ tmp' \in {tmp, data[c], Torn} /\ file' \in {file, data[c], Torn}
        /\ data[c] \in Stores /\ Stands(data[c], answers)
    BY <1>0, <2>1 DEF Write, Put
  <2>3. Readable' => Stands(Content', answers')
    BY <1>0, <2>2, FilesDiffer DEF Readable, Content
  <2> QED
    BY <1>0, <2>2, <2>3, FilesDiffer
<1>8. ASSUME NEW c \in Clients, Crash(c)
      PROVE  Carried'
  <2>1. Leave(c) /\ tmp' \in {tmp, Torn} /\ file' \in {file, Torn} /\ answers' = answers
    BY <1>8 DEF Crash, Put, fileVars
  <2> QED
    BY <1>0, <2>1, FilesDiffer DEF Leave, Readable, Content
<1> QED
  BY <1>0, <1>1, <1>2, <1>3, <1>4, <1>5, <1>6, <1>7, <1>8, HitCarries, ReplaceCarries, StoreSteps

(* Until a save writes to a file that another has open, a call that had    *)
(* the store to itself and was answered stays in the store, with its       *)
(* receipt, whatever later calls overlap or are killed.                    *)
THEOREM AnswersAreKept == StoreSpec => []AnswersStand
<1>1. StoreInit => CarryInv
  BY DEF StoreInit, CarryInv, Carried, Stands, Saving
<1>2. CarryInv => AnswersStand
  BY Zenon DEF CarryInv, Carried, AnswersStand, Stands
<1>3. StoreInv /\ WholeInv /\ AloneInv /\ CarryInv /\ [StoreNext]_vars => CarryInv'
  BY CarryStays
<1> QED
  BY <1>1, <1>2, <1>3, AloneInvHolds, WholeInvHolds, PTL DEF StoreSpec

-----------------------------------------------------------------------------
(* The atomic target                                                       *)

(* What the recovery models see of the store is a matter of its content.   *)
LEMMA SameContentSameTarget ==
  ASSUME Content' = Content
  PROVE  Content'.commits = Content.commits /\ UNCHANGED Dedupes!targetVars
BY DEF Dedupes!targetVars, SetEffects, ValueThatWasSet

(* Values that are set are told from numbers and from nothing.             *)
LEMMA ValuesAreNoNumbers ==
  ASSUME NEW r \in SetWrites
  PROVE  r \in Requests /\ Value[r] \notin Nat /\ Value[r] # NoValue
<1>1. r \in DOMAIN Value
  BY RequestsAssumption DEF SetWrites
<1>2. \A q \in DOMAIN Value : Value[q] \notin Nat \union {NoValue, Deleted}
  BY RequestsAssumption
<1> QED
  BY <1>1, <1>2 DEF SetWrites, DomainWrites

(* A write that sets a value and is not on record is the atomic target's   *)
(* Apply, with the ids that dedupe and with every id.                      *)
LEMMA SettingIsApply ==
  ASSUME NEW r \in SetWrites, NEW receipt, Content \in Stores,
         Recorded(Content, r) = NoEntry, Content' = Applied(Content, r, receipt)
  PROVE  TakesEffect(r) /\ Dedupes!Apply(r) /\ Logs!Apply(r)
<1>0. r \in Requests /\ r \in DomainWrites /\ Action[r] = "set_value"
  BY DEF SetWrites, DomainWrites
<1>1. Content'.commits = [Content.commits EXCEPT ![r] = @ + 1]
  BY <1>0, AppliedKeeps, Zenon
<1>2. Content.commits \in [Requests -> Nat]
  BY DEF Stores
<1>3. SetEffects' = [SetEffects EXCEPT ![r] = @ + 1]
  BY <1>0, <1>1, <1>2 DEF SetEffects
<1>4. ValueThatWasSet' = Value[r]
  <2>1. Content'.domain = Value[r]
    BY <1>0, AppliedFields DEF After, DomainAfter
  <2> QED
    BY <2>1 DEF ValueThatWasSet
<1>5. [q \in SetWrites |-> Value[q]][r] = Value[r]
  OBVIOUS
<1>6. Dedupes!Apply(r)
  <2>1. NoEntry.by \notin Requests
    BY RequestsAssumption DEF NoEntry
  <2>2. Recorded(Content, r).by # r
    BY <1>0, <2>1
  <2>3. {q \in SetWrites : Recorded(Content, q).by = q}'
          = IF r \in {q \in SetWrites : Kind[q] \in Deduping}
            THEN {q \in SetWrites : Recorded(Content, q).by = q} \union {r}
            ELSE {q \in SetWrites : Recorded(Content, q).by = q}
    <3>1. ASSUME NEW q \in SetWrites, q # r
          PROVE  Recorded(Content', q).by = q <=> Recorded(Content, q).by = q
      <4>1. q \in Requests
        BY DEF SetWrites, DomainWrites
      <4>2. CASE Recorded(Content, q) # NoEntry
        BY <1>0, <4>1, <4>2, RecordsStay
      <4>3. CASE Recorded(Content, q) = NoEntry
        <5>1. Recorded(Content', q).by # q
          <6>1. Content'.requests = RequestsAfter(Content, r, receipt)
            BY <1>0, AppliedFields DEF After
          <6>2. Content.requests \in [Deduping -> [Ids -> Entries]]
            BY DEF Stores
          <6>3. CASE Kind[q] \notin Deduping
            BY <2>1, <4>1, <6>3 DEF Recorded
          <6>4. CASE Kind[q] \in Deduping
            <7>1. Recorded(Content, q) = Content.requests[Kind[q]][Id[q]] /\ Id[q] \in Ids
              BY <4>1, <6>4, RequestTypes DEF Recorded
            <7>2. Recorded(Content', q) = Content'.requests[Kind[q]][Id[q]]
              BY <6>4 DEF Recorded
            <7>3. Recorded(Content', q) = NoEntry \/ Recorded(Content', q).by = r
              BY <1>0, <4>3, <6>1, <6>2, <6>4, <7>1, <7>2, RequestTypes DEF RequestsAfter
            <7> QED
              BY <2>1, <3>1, <4>1, <7>3
          <6> QED
            BY <6>3, <6>4
        <5> QED
          BY <2>1, <4>1, <4>3, <5>1
      <4> QED
        BY <4>2, <4>3
    <3>2. Recorded(Content', r).by = r <=> Kind[r] \in Deduping
      <4>1. Kind[r] \in Deduping => Recorded(Content', r) = [by |-> r, receipt |-> receipt]
        BY <1>0, AppliedKeeps, Zenon
      <4>2. Kind[r] \notin Deduping => Recorded(Content', r) = NoEntry
        BY DEF Recorded
      <4> QED
        BY <1>0, <2>1, <4>1, <4>2
    <3> QED
      BY <2>2, <3>1, <3>2
  <2> QED
    BY <1>3, <1>4, <1>5, <2>2, <2>3 DEF Dedupes!Apply, Dedupes!Duplicate
<1>7. Logs!Apply(r)
  <2>1. {q \in SetWrites : Id[q] # NoId /\ Content.commits[q] > 0}'
          = IF r \in {q \in SetWrites : Id[q] # NoId}
            THEN {q \in SetWrites : Id[q] # NoId /\ Content.commits[q] > 0} \union {r}
            ELSE {q \in SetWrites : Id[q] # NoId /\ Content.commits[q] > 0}
    <3>1. \A q \in SetWrites : q \in Requests
      BY DEF SetWrites, DomainWrites
    <3> QED
      BY <1>0, <1>1, <1>2, <3>1
  <2> QED
    BY <1>3, <1>4, <1>5, <2>1 DEF Logs!Apply, Logs!Duplicate
<1> QED
  BY <1>1, <1>6, <1>7 DEF TakesEffect

(* Any other request has its one effect, and only a deletion takes away a  *)
(* value that was set.                                                     *)
LEMMA OthersTakeEffect ==
  ASSUME NEW r \in Requests \ SetWrites, NEW receipt, Content \in Stores,
         Recorded(Content, r) = NoEntry, ~Refused(Content, r),
         Content' = Applied(Content, r, receipt)
  PROVE  /\ TakesEffect(r)
         /\ ValueThatWasSet' # ValueThatWasSet
              => r \in OfAction("delete_value") /\ ValueThatWasSet' = NoValue
<1>1. TakesEffect(r)
  BY AppliedKeeps, Zenon DEF TakesEffect
<1>2. Content'.domain = DomainAfter(Content, r)
  BY AppliedFields DEF After
<1>3. CASE Content'.domain = Content.domain
  BY <1>1, <1>3 DEF ValueThatWasSet
<1>4. ASSUME r \in DomainWrites, Action[r] # "other"
      PROVE  ValueThatWasSet' # ValueThatWasSet
               => r \in OfAction("delete_value") /\ ValueThatWasSet' = NoValue
  <2>1. Action[r] \in {"delete_value", "increment_value"}
    BY <1>4, RequestsAssumption DEF SetWrites, Actions
  <2>2. CASE Action[r] = "delete_value"
    <3>1. Content'.domain = NoValue
      BY <1>2, <1>4, <2>2 DEF DomainAfter
    <3> QED
      BY <1>4, <2>2, <3>1, ValuesAreNoNumbers DEF ValueThatWasSet, OfAction
  <2>3. CASE Action[r] = "increment_value"
    <3>1. Content.domain = NoValue \/ Content.domain \in Nat
      BY <1>4, <2>3 DEF Refused
    <3>2. Content'.domain \in Nat
      BY <1>2, <1>4, <2>3, <3>1 DEF DomainAfter
    <3> QED
      BY <3>1, <3>2, ValuesAreNoNumbers DEF ValueThatWasSet
  <2> QED
    BY <2>1, <2>2, <2>3
<1> QED
  BY <1>1, <1>2, <1>3, <1>4 DEF DomainAfter

(* A step of a store at which no calls overlap is none of the atomic       *)
(* target's, or one Apply of a write that sets a value, or gives another   *)
(* request its one effect.                                                 *)
THEOREM QuietCallsAreAtomic == StoreSpec => AppliesAtomically
<1> DEFINE Atomic ==
      \/ Content'.commits = Content.commits /\ UNCHANGED Dedupes!targetVars
      \/ \E r \in SetWrites : TakesEffect(r) /\ Dedupes!Apply(r) /\ Logs!Apply(r)
      \/ \E r \in Requests \ SetWrites :
           /\ TakesEffect(r)
           /\ ValueThatWasSet' # ValueThatWasSet
                => r \in OfAction("delete_value") /\ ValueThatWasSet' = NoValue
<1>1. ASSUME StoreInv, AloneInv, [StoreNext]_vars, Quiet
      PROVE  Atomic
  <2> USE <1>1 DEF StoreInv, StoreTypeOK, ClientInv, AloneInv, Busy, Quiet
  <2>1. CASE Content' = Content
    BY <2>1, SameContentSameTarget
  <2>2. ASSUME file' = file
        PROVE  Content' = Content
    BY <2>2 DEF Content
  <2>3. ASSUME NEW c \in Clients, Flush(c) \/ Write(c) \/ Crash(c)
        PROVE  file' = file
    BY <2>3 DEF Flush, Write, Crash, Put, Alone, fileVars
  <2>4. ASSUME NEW c \in Clients, Replace(c)
        PROVE  Atomic
    <3>1. /\ pc[c] = "replace" /\ c \notin overlapped /\ file' = data[c]
          /\ data[c] \in Stores /\ Alone(c)
      BY <2>4 DEF Replace, Alone
    <3>2. Content' = data[c]
      BY <3>1, FilesDiffer DEF Content
    <3>3. CASE data[c] = NewStore /\ file = Missing
      BY <2>1, <3>2, <3>3 DEF Content
    <3>4. CASE /\ Readable /\ file # Missing
               /\ Recorded(file, req[c]) = NoEntry /\ ~Refused(file, req[c])
               /\ data[c] = Applied(file, req[c], call[c])
      <4>1. Content \in Stores /\ Content = file
        BY <3>4, ContentIsADocument
      <4>2. req[c] \in Requests
        OBVIOUS
      <4>3. CASE req[c] \in SetWrites
        BY <3>2, <3>4, <4>1, <4>3, SettingIsApply
      <4>4. CASE req[c] \notin SetWrites
        BY <3>2, <3>4, <4>1, <4>2, <4>4, OthersTakeEffect
      <4> QED
        BY <4>3, <4>4
    <3> QED
      BY <3>1, <3>3, <3>4 DEF Alone, Saving
  <2>5. ASSUME NEW c \in Clients, NEW r \in Requests, Start(c, r)
        PROVE  file' = file
    BY <2>5 DEF Start, fileVars
  <2>6. ASSUME NEW c \in Clients,
               \/ Create(c) \/ Unreadable(c) \/ Hit(c) \/ Change(c) \/ Refuse(c)
               \/ Open(c) \/ ReplaceFails(c)
        PROVE  file' = file
    BY <2>6 DEF Create, Unreadable, Hit, Change, Refuse, Open, ReplaceFails, fileVars
  <2>7. ASSUME UNCHANGED vars
        PROVE  file' = file
    BY <2>7 DEF vars, fileVars
  <2> HIDE DEF Atomic
  <2> QED
    BY <2>1, <2>2, <2>3, <2>4, <2>5, <2>6, <2>7, StoreSteps
<1>2. StoreInv /\ AloneInv /\ [StoreNext]_vars => [Quiet => Atomic]_vars
  BY <1>1
<1> QED
  BY <1>2, AloneInvHolds, PTL DEF StoreSpec, AppliesAtomically
=============================================================================
