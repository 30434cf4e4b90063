----------------------------- MODULE CqrsProofs -----------------------------
(***************************************************************************)
(* Proofs about the CQRS example (PublicServer): for any number of         *)
(* requests, meters and dates the projection is a prefix of the log, a     *)
(* write is in its own answer, and the services implement EventSourcing.   *)
(***************************************************************************)
EXTENDS PublicServer, WellFoundedInduction, TLAPS

(***************************************************************************)
(* Largest elements. A set that is bounded has one: its distances to the   *)
(* bound are natural numbers, and these are well-founded.                  *)
(***************************************************************************)
\* What LatestOf chooses when the set is not empty and bounded.
LEMMA LargestExists ==
  ASSUME NEW n \in Nat, NEW S \in SUBSET (0 .. n), S # {}
  PROVE  \E i \in S : \A j \in S : j <= i
<1> DEFINE R == {ss \in Nat \X Nat : ss[1] < ss[2]}
           T == {n - i : i \in S}
<1>1. IsWellFoundedOn(R, Nat) BY NatLessThanWellFounded DEF OpToRel
<1>2. T \subseteq Nat /\ T # {}
  <2>1. PICK i \in S : TRUE OBVIOUS
  <2>2. n - i \in T OBVIOUS
  <2>3. T \subseteq Nat OBVIOUS
  <2> QED BY <2>2, <2>3
<1> HIDE DEF R, T
<1>3. PICK x \in T : \A y \in T : ~ (<<y, x>> \in R) BY <1>1, <1>2, WFMin
<1>4. PICK i \in S : x = n - i BY <1>3 DEF T
<1>5. ASSUME NEW j \in S PROVE j <= i
  <2>1. n - j \in T BY <1>5 DEF T
  <2>2. ~ (<<n - j, x>> \in R) BY <1>3, <2>1
  <2>3. ~ (n - j < n - i) BY <2>1, <2>2, <1>2, <1>4, <1>3 DEF R
  <2> QED BY <2>3, <1>4
<1> QED BY <1>5

\* LatestOf gives the largest element.
LEMMA LatestProperties ==
  ASSUME NEW n \in Nat, NEW S \in SUBSET (0 .. n), S # {}
  PROVE  LatestOf(S) \in S /\ \A j \in S : j <= LatestOf(S)
BY LargestExists DEF LatestOf

\* There is only one.
LEMMA LatestIs ==
  ASSUME NEW S \in SUBSET Nat, NEW i \in S, \A j \in S : j <= i
  PROVE  LatestOf(S) = i
<1> DEFINE l == LatestOf(S)
<1>1. \E k \in S : \A j \in S : j <= k OBVIOUS
<1>2. l \in S /\ \A j \in S : j <= l BY <1>1 DEF LatestOf
<1> HIDE DEF l
<1>3. l \in Nat /\ i \in Nat /\ l <= i /\ i <= l BY <1>2
<1>4. l = i BY <1>3
<1> QED BY <1>4 DEF l

(***************************************************************************)
(* Segments of a log.                                                      *)
(***************************************************************************)
\* The least element of a set, as DropBefore chooses it.
LEMMA LeastIs ==
  ASSUME NEW S \in SUBSET Nat, NEW i \in S, \A j \in S : i <= j
  PROVE  (CHOOSE k \in S : \A j \in S : k <= j) = i
<1> DEFINE k == CHOOSE k \in S : \A j \in S : k <= j
<1>1. \E l \in S : \A j \in S : l <= j OBVIOUS
<1>2. k \in S /\ \A j \in S : k <= j BY <1>1
<1> HIDE DEF k
<1>3. k \in Nat /\ i \in Nat /\ k <= i /\ i <= k BY <1>2
<1>4. k = i BY <1>3
<1> QED BY <1>4 DEF k

\* dropWhile on events of which those from the first on are as recent as t.
LEMMA DropUntil ==
  ASSUME NEW s \in Seq(StoredEvent), NEW t, NEW first \in Nat \ {0},
         \A i \in DOMAIN s : s[i].timestamp >= t <=> i >= first
  PROVE  /\ DropBefore(s, t) \in Seq(StoredEvent)
         /\ first > Len(s) => DropBefore(s, t) = <<>>
         /\ first <= Len(s) =>
              /\ Len(DropBefore(s, t)) = Len(s) - first + 1
              /\ \A i \in DOMAIN DropBefore(s, t) : DropBefore(s, t)[i] = s[first + i - 1]
<1> DEFINE kept == {i \in DOMAIN s : s[i].timestamp >= t}
<1>1. kept = {i \in 1 .. Len(s) : i >= first} OBVIOUS
<1> HIDE DEF kept
<1>2. CASE first > Len(s)
  <2>1. kept = {} BY <1>1, <1>2
  <2>2. DropBefore(s, t) = <<>> BY <2>1 DEF DropBefore, kept
  <2> QED BY <2>2, <1>2
<1>3. CASE first <= Len(s)
  <2>1. first \in kept /\ kept \subseteq Nat /\ \A j \in kept : first <= j BY <1>1, <1>3
  <2>2. (CHOOSE i \in kept : \A j \in kept : i <= j) = first BY <2>1, LeastIs
  <2>3. kept # {} BY <2>1
  <2>4. DropBefore(s, t) = SubSeq(s, first, Len(s)) BY <2>2, <2>3 DEF DropBefore, kept
  <2>5. SubSeq(s, first, Len(s)) = [i \in 1 .. (Len(s) - first + 1) |-> s[first + i - 1]] OBVIOUS
  <2>6. \A i \in 1 .. (Len(s) - first + 1) : first + i - 1 \in 1 .. Len(s) BY <1>3
  <2>7. SubSeq(s, first, Len(s)) \in Seq(StoredEvent) BY <2>6, <1>3
  <2> QED BY <2>4, <2>5, <2>7, <1>3
<1> QED BY <1>2, <1>3

\* Dropping from a segment what was applied already leaves the segment that comes next.
LEMMA DropApplied ==
  ASSUME NEW log \in Seq(StoredEvent), WellFormed(log),
         NEW s \in Seq(StoredEvent), NEW n \in 0 .. Len(log),
         NEW a \in 1 .. n + 1, NEW b \in a .. Len(log), IsSegment(s, log, a, b)
  PROVE  LET e == IF b > n THEN b ELSE n
         IN  /\ DropBefore(s, n + 1) \in Seq(StoredEvent)
             /\ IsSegment(DropBefore(s, n + 1), log, n + 1, e)
<1> DEFINE d == DropBefore(s, n + 1)
           first == n + 1 - a + 1
<1>1. Len(s) = b - a + 1 /\ \A i \in DOMAIN s : s[i] = log[a + i - 1] BY DEF IsSegment
<1>2. \A i \in DOMAIN s : s[i].timestamp = a + i - 1
  <2>1. TAKE i \in DOMAIN s
  <2>2. a + i - 1 \in DOMAIN log BY <1>1, <2>1
  <2>3. log[a + i - 1].timestamp = a + i - 1 BY <2>2 DEF WellFormed
  <2> QED BY <2>3, <1>1
<1>3. first \in Nat \ {0} /\ \A i \in DOMAIN s : s[i].timestamp >= n + 1 <=> i >= first
  BY <1>2
<1> HIDE DEF first
<1>4. /\ d \in Seq(StoredEvent)
      /\ first > Len(s) => d = <<>>
      /\ first <= Len(s) =>
           /\ Len(d) = Len(s) - first + 1
           /\ \A i \in DOMAIN d : d[i] = s[first + i - 1]
  BY <1>3, DropUntil, Zenon
<1> HIDE DEF d
<1> USE DEF first
<1>5. CASE b > n
  <2>1. first <= Len(s) BY <1>1, <1>5
  <2>2. Len(d) = b - (n + 1) + 1 BY <1>1, <1>4, <2>1
  <2>3. ASSUME NEW i \in DOMAIN d PROVE d[i] = log[n + 1 + i - 1]
    <3>1. i \in 1 .. Len(d) BY <2>3, <1>4
    <3>2. first + i - 1 \in DOMAIN s BY <3>1, <2>2, <1>1, <1>5
    <3>3. d[i] = s[first + i - 1] BY <1>4, <2>1
    <3>4. d[i] = log[a + (first + i - 1) - 1] BY <3>2, <3>3, <1>1
    <3>5. a + (first + i - 1) - 1 = n + 1 + i - 1 BY <3>1 DEF first
    <3> QED BY <3>4, <3>5
  <2> QED BY <1>4, <1>5, <2>2, <2>3 DEF IsSegment, d
<1>6. CASE ~ (b > n)
  <2>1. first > Len(s) BY <1>1, <1>6
  <2>2. d = <<>> BY <1>4, <2>1
  <2>3. Len(d) = n - (n + 1) + 1 /\ DOMAIN d = {} BY <2>2
  <2>4. IsSegment(d, log, n + 1, n) BY <2>3 DEF IsSegment
  <2> QED BY <2>4, <1>4, <1>6 DEF d
<1> QED BY <1>5, <1>6

\* The events that the commands service answers are a segment that ends with the log.
LEMMA EventsAreSegment ==
  ASSUME NEW log \in Seq(StoredEvent), WellFormed(log), NEW t \in 0 .. Len(log),
         Len(log) >= 1
  PROVE  /\ DropBefore(log, t) \in Seq(StoredEvent)
         /\ \E a \in 1 .. t + 1 : a <= Len(log) /\ IsSegment(DropBefore(log, t), log, a, Len(log))
<1>1. PICK a \in 1 .. t + 1 : a = IF t > 0 THEN t ELSE 1
  <2>1. CASE t > 0 BY <2>1
  <2>2. CASE t = 0 BY <2>2
  <2> QED BY <2>1, <2>2
<1>2. a \in Nat \ {0} /\ a <= Len(log) BY <1>1
<1>3. \A i \in DOMAIN log : log[i].timestamp >= t <=> i >= a BY <1>1 DEF WellFormed
<1>4. /\ DropBefore(log, t) \in Seq(StoredEvent)
      /\ Len(DropBefore(log, t)) = Len(log) - a + 1
      /\ \A i \in DOMAIN DropBefore(log, t) : DropBefore(log, t)[i] = log[a + i - 1]
  BY <1>2, <1>3, DropUntil
<1> QED BY <1>2, <1>4 DEF IsSegment

(***************************************************************************)
(* Applying the segment that comes next takes the projection from one      *)
(* prefix of the log to another.                                           *)
(***************************************************************************)
\* The positions of a segment are positions of the log.
LEMMA SegmentPositions ==
  ASSUME NEW log \in Seq(StoredEvent), NEW n \in 0 .. Len(log), NEW e \in n .. Len(log),
         NEW es \in Seq(StoredEvent), IsSegment(es, log, n + 1, e)
  PROVE  /\ Len(es) = e - n
         /\ \A i \in 1 .. e - n : es[i] = log[n + i]
         /\ \A k \in n + 1 .. e : k - n \in 1 .. e - n /\ log[k] = es[k - n]
<1>1. Len(es) = e - n /\ DOMAIN es = 1 .. e - n BY DEF IsSegment
<1>2. ASSUME NEW i \in 1 .. e - n PROVE es[i] = log[n + i]
  <2>1. es[i] = log[n + 1 + i - 1] BY <1>1, <1>2 DEF IsSegment
  <2>2. n + 1 + i - 1 = n + i OBVIOUS
  <2> QED BY <2>1, <2>2
<1>3. ASSUME NEW k \in n + 1 .. e PROVE k - n \in 1 .. e - n /\ log[k] = es[k - n]
  <2>1. k - n \in 1 .. e - n /\ n + (k - n) = k OBVIOUS
  <2> QED BY <2>1, <1>2
<1> QED BY <1>1, <1>2, <1>3

\* No record is applied before the creation of its meter.
LEMMA SegmentDoesNotThrow ==
  ASSUME NEW log \in Seq(StoredEvent), WellFormed(log),
         NEW n \in 0 .. Len(log), NEW e \in n .. Len(log),
         NEW es \in Seq(StoredEvent), IsSegment(es, log, n + 1, e)
  PROVE  ~ Throws(KnownAt(log, n), es)
<1>1. /\ Len(es) = e - n
      /\ \A i \in 1 .. e - n : es[i] = log[n + i]
      /\ \A k \in n + 1 .. e : k - n \in 1 .. e - n /\ log[k] = es[k - n]
  BY SegmentPositions
<1>2. SUFFICES ASSUME NEW i \in DOMAIN es, es[i].type = "RecordAdded",
                      es[i].meter \notin KnownAt(log, n)
               PROVE  \E j \in 1 .. i - 1 : IsCreation(es[j], es[i].meter)
  BY DEF Throws
<1>3. n + i \in DOMAIN log /\ es[i] = log[n + i] /\ i \in 1 .. e - n BY <1>1
<1>4. PICK j \in 1 .. n + i - 1 : IsCreation(log[j], es[i].meter)
  BY <1>2, <1>3 DEF WellFormed
<1>5. es[i].meter \in Meters
  <2>1. es[i] \in StoredEvent OBVIOUS
  <2> QED BY <2>1 DEF StoredEvent
<1>6. ~ (j <= n) BY <1>2, <1>4, <1>5 DEF KnownAt
<1>7. j \in n + 1 .. e /\ j - n \in 1 .. i - 1 BY <1>3, <1>4, <1>6
<1>8. log[j] = es[j - n] BY <1>1, <1>7
<1> QED BY <1>4, <1>7, <1>8

LEMMA SegmentKnown ==
  ASSUME NEW log \in Seq(StoredEvent),
         NEW n \in 0 .. Len(log), NEW e \in n .. Len(log),
         NEW es \in Seq(StoredEvent), IsSegment(es, log, n + 1, e)
  PROVE  KnownAfter(KnownAt(log, n), es) = KnownAt(log, e)
<1>1. /\ Len(es) = e - n
      /\ \A i \in 1 .. e - n : es[i] = log[n + i]
      /\ \A k \in n + 1 .. e : k - n \in 1 .. e - n /\ log[k] = es[k - n]
  BY SegmentPositions
<1>2. ASSUME NEW m \in Meters
      PROVE  (\E i \in 1 .. e : IsCreation(log[i], m)) <=>
               \/ \E i \in 1 .. n : IsCreation(log[i], m)
               \/ \E i \in DOMAIN es : IsCreation(es[i], m)
  <2>1. ASSUME NEW i \in DOMAIN es, IsCreation(es[i], m)
        PROVE  \E k \in 1 .. e : IsCreation(log[k], m)
    <3>1. n + i \in 1 .. e /\ es[i] = log[n + i] BY <1>1
    <3> QED BY <3>1, <2>1
  <2>2. ASSUME NEW i \in 1 .. e, IsCreation(log[i], m), ~ (i <= n)
        PROVE  \E k \in DOMAIN es : IsCreation(es[k], m)
    <3>1. i \in n + 1 .. e BY <2>2
    <3>2. i - n \in DOMAIN es /\ es[i - n] = log[i] BY <1>1, <3>1
    <3> QED BY <3>2, <2>2
  <2> QED BY <2>1, <2>2
<1> QED BY <1>2 DEF KnownAfter, KnownAt

\* A value is that of the last record since the meter was created.
LEMMA SegmentValue ==
  ASSUME NEW log \in Seq(StoredEvent), WellFormed(log),
         NEW n \in 0 .. Len(log), NEW e \in n .. Len(log),
         NEW es \in Seq(StoredEvent), IsSegment(es, log, n + 1, e),
         NEW m \in Meters, NEW d \in Dates
  PROVE  ValueAfter(LatestOf({0} \cup {i \in 1 .. n : IsRecord(log[i], m, d)}), es, m, d)
           = LatestOf({0} \cup {i \in 1 .. e : IsRecord(log[i], m, d)})
<1> DEFINE S(k) == {0} \cup {i \in 1 .. k : IsRecord(log[i], m, d)}
           set  == Settings(es, m, d)
           l    == LatestOf(set)
<1>1. /\ Len(es) = e - n
      /\ \A i \in 1 .. e - n : es[i] = log[n + i]
      /\ \A k \in n + 1 .. e : k - n \in 1 .. e - n /\ log[k] = es[k - n]
  BY SegmentPositions
<1>2. CASE set = {}
  <2>1. ASSUME NEW k \in n + 1 .. e PROVE ~ IsRecord(log[k], m, d)
    <3>1. k - n \in DOMAIN es /\ es[k - n] = log[k] BY <1>1
    <3> QED BY <3>1, <1>2 DEF Settings
  <2>2. S(e) = S(n) BY <2>1
  <2> QED BY <2>2, <1>2 DEF ValueAfter
<1>3. CASE set # {}
  <2>1. set \in SUBSET (0 .. Len(es)) BY DEF Settings
  <2> HIDE DEF set
  <2>2. l \in set /\ \A j \in set : j <= l
    <3>1. Len(es) \in Nat OBVIOUS
    <3> QED BY <3>1, <2>1, <1>3, LatestProperties
  <2> HIDE DEF l
  <2> USE DEF set
  <2>3. l \in 1 .. e - n /\ es[l] = log[n + l] BY <2>2, <1>1 DEF Settings
  <2>4. PICK p \in 1 .. e : p = n + l BY <2>3
  <2>5. ASSUME NEW k \in 1 .. e, IsRecord(log[k], m, d) PROVE k <= p
    <3>1. CASE k <= n BY <3>1, <2>3, <2>4
    <3>2. CASE ~ (k <= n)
      <4>1. k \in n + 1 .. e BY <3>2
      <4>2. k - n \in DOMAIN es /\ es[k - n] = log[k] BY <4>1, <1>1
      <4>3. k - n \in set BY <4>2, <2>5 DEF Settings
      <4> QED BY <4>3, <2>2, <2>3, <2>4
    <3> QED BY <3>1, <3>2
  <2>6. CASE IsCreation(es[l], m)
    <3>1. log[p].type = "MeterCreated" /\ log[p].meter = m
      BY <2>6, <2>3, <2>4 DEF IsCreation
    <3>2. \A j \in 1 .. p - 1 : ~ IsCreation(log[j], m) BY <3>1, <2>4 DEF WellFormed
    <3>3. ASSUME NEW k \in 1 .. e, IsRecord(log[k], m, d) PROVE FALSE
      <4>1. k # p BY <3>1, <3>3 DEF IsRecord
      <4>2. k \in 1 .. p - 1 BY <4>1, <2>5, <3>3, <2>3
      <4>3. k \in DOMAIN log /\ log[k].type = "RecordAdded" /\ log[k].meter = m
        BY <3>3 DEF IsRecord
      <4>4. PICK j \in 1 .. k - 1 : IsCreation(log[j], m) BY <4>3 DEF WellFormed
      <4> QED BY <4>4, <4>2, <3>2
    <3>4. S(e) = {0} BY <3>3
    <3>5. LatestOf(S(e)) = 0 BY <3>4, LatestIs
    <3>6. ValueAfter(LatestOf(S(n)), es, m, d) = 0 BY <1>3, <2>6 DEF ValueAfter, l
    <3> QED BY <3>5, <3>6
  <2>7. CASE ~ IsCreation(es[l], m)
    <3>1. IsRecord(log[p], m, d) BY <2>7, <2>2, <2>3, <2>4 DEF Settings
    <3>2. S(e) \in SUBSET Nat /\ p \in S(e) BY <3>1, <2>4
    <3>3. \A j \in S(e) : j <= p BY <2>5
    <3>4. LatestOf(S(e)) = p
      <4> HIDE DEF S
      <4> QED BY <3>2, <3>3, LatestIs
    <3>5. ValueAfter(LatestOf(S(n)), es, m, d) = es[l].timestamp
      BY <1>3, <2>7 DEF ValueAfter, l
    <3>6. es[l].timestamp = p BY <2>3, <2>4 DEF WellFormed
    <3> QED BY <3>4, <3>5, <3>6
  <2> QED BY <2>6, <2>7
<1> QED BY <1>2, <1>3

\* The whole of it: what ApplyEvents makes of the projection.
LEMMA SegmentApplied ==
  ASSUME NEW log \in Seq(StoredEvent), WellFormed(log),
         NEW n \in 0 .. Len(log), NEW e \in n .. Len(log),
         NEW es \in Seq(StoredEvent), IsSegment(es, log, n + 1, e)
  PROVE  /\ ~ Throws(KnownAt(log, n), es)
         /\ KnownAfter(KnownAt(log, n), es) = KnownAt(log, e)
         /\ TimeSeriesAfter(TimeSeriesAt(log, n), es) = TimeSeriesAt(log, e)
         /\ (IF es = <<>> THEN n ELSE es[Len(es)].timestamp) = e
<1>1. ~ Throws(KnownAt(log, n), es) BY SegmentDoesNotThrow
<1>2. KnownAfter(KnownAt(log, n), es) = KnownAt(log, e) BY SegmentKnown
<1>3. TimeSeriesAfter(TimeSeriesAt(log, n), es) = TimeSeriesAt(log, e)
  BY SegmentValue DEF TimeSeriesAfter, TimeSeriesAt
<1>4. (IF es = <<>> THEN n ELSE es[Len(es)].timestamp) = e
  <2>1. Len(es) = e - n /\ \A i \in 1 .. e - n : es[i] = log[n + i] BY SegmentPositions
  <2>2. CASE es = <<>> BY <2>1, <2>2
  <2>3. CASE es # <<>>
    <3>1. Len(es) \in 1 .. e - n BY <2>1, <2>3
    <3>2. es[Len(es)] = log[e] BY <3>1, <2>1
    <3> QED BY <3>1, <3>2, <2>1, <2>3 DEF WellFormed
  <2> QED BY <2>2, <2>3
<1> QED BY <1>1, <1>2, <1>3, <1>4

(***************************************************************************)
(* A log that grows.                                                       *)
(***************************************************************************)
\* What was known of the log stays so when an event is appended.
LEMMA PrefixKept ==
  ASSUME NEW log \in Seq(StoredEvent), NEW ev \in StoredEvent, NEW n \in 0 .. Len(log)
  PROVE  /\ KnownAt(Append(log, ev), n) = KnownAt(log, n)
         /\ TimeSeriesAt(Append(log, ev), n) = TimeSeriesAt(log, n)
<1>1. \A i \in 1 .. n : Append(log, ev)[i] = log[i] OBVIOUS
<1> QED BY <1>1 DEF KnownAt, TimeSeriesAt

LEMMA SegmentKept ==
  ASSUME NEW log \in Seq(StoredEvent), NEW ev \in StoredEvent,
         NEW s \in Seq(StoredEvent), NEW a \in Nat \ {0}, NEW b \in Nat,
         b <= Len(log), IsSegment(s, log, a, b)
  PROVE  IsSegment(s, Append(log, ev), a, b)
<1>1. Len(s) = b - a + 1 /\ DOMAIN s = 1 .. Len(s) BY DEF IsSegment
<1>2. \A i \in DOMAIN s : a + i - 1 \in 1 .. Len(log) BY <1>1
<1>3. \A i \in DOMAIN s : Append(log, ev)[a + i - 1] = log[a + i - 1] BY <1>2
<1> QED BY <1>3 DEF IsSegment

(***************************************************************************)
(* The invariant, request by request.                                      *)
(***************************************************************************)
Snapshot(r) ==
  pc[r] = "done" =>
    \E n \in 0 .. Len(eventLog) :
      /\ kind[r] # "list" => after[r] <= n
      /\ answer[r] = State(KnownAt(eventLog, n), TimeSeriesAt(eventLog, n))

RequestInv(r) == UpdateInv(r) /\ WriteInv(r) /\ Snapshot(r)

Same(r) ==
  /\ pc'[r] = pc[r] /\ kind'[r] = kind[r] /\ meter'[r] = meter[r] /\ date'[r] = date[r]
  /\ after'[r] = after[r] /\ since'[r] = since[r] /\ fetched'[r] = fetched[r]
  /\ answer'[r] = answer[r]

LEMMA IInvParts ==
  IInv <=> TypeOK /\ LogWellFormed /\ ProjectionIsPrefix /\ \A r \in Requests : RequestInv(r)
BY DEF IInv, RequestInv, AnswersAreSnapshots, Snapshot

LEMMA IInvNext ==
  ASSUME TypeOK', LogWellFormed', ProjectionIsPrefix', \A r \in Requests : RequestInv(r)'
  PROVE  IInv'
BY DEF IInv, RequestInv, AnswersAreSnapshots, Snapshot

\* A step of one request leaves what holds of the others, as long as log and projection
\* stay, or grow.
LEMMA SameKept ==
  ASSUME NEW q, RequestInv(q), Same(q), UNCHANGED <<eventLog, lastEventTimestamp>>
  PROVE  RequestInv(q)'
BY DEF RequestInv, UpdateInv, WriteInv, Snapshot, Same

LEMMA ProjectionGrows ==
  ASSUME TypeOK, NEW q \in Requests, RequestInv(q), Same(q), UNCHANGED eventLog,
         lastEventTimestamp' \in Nat, lastEventTimestamp <= lastEventTimestamp'
  PROVE  RequestInv(q)'
<1>1. WriteInv(q)' /\ Snapshot(q)' BY DEF RequestInv, WriteInv, Snapshot, Same
<1>2. UpdateInv(q)'
  <2>1. since[q] \in Nat /\ lastEventTimestamp \in Nat BY DEF TypeOK
  <2>2. pc[q] \in {"fetch", "apply"} => since[q] <= lastEventTimestamp' BY <2>1 DEF RequestInv, UpdateInv
  <2>3. ASSUME pc[q] = "apply"
        PROVE  \E a \in 1 .. lastEventTimestamp' + 1, b \in after[q] .. Len(eventLog) :
                 a <= b /\ IsSegment(fetched[q], eventLog, a, b)
    <3>1. PICK a \in 1 .. lastEventTimestamp + 1, b \in after[q] .. Len(eventLog) :
                 a <= b /\ IsSegment(fetched[q], eventLog, a, b)
      BY <2>3 DEF RequestInv, UpdateInv
    <3>2. \A x, y \in Nat : x <= y => \A c \in 1 .. x + 1 : c \in 1 .. y + 1 OBVIOUS
    <3>3. a \in 1 .. lastEventTimestamp' + 1 BY <2>1, <3>2
    <3> QED BY <3>1, <3>3
  <2> QED BY <2>2, <2>3 DEF RequestInv, UpdateInv, Same
<1> QED BY <1>1, <1>2 DEF RequestInv

LEMMA LogGrows ==
  ASSUME TypeOK, NEW q \in Requests, RequestInv(q), Same(q), UNCHANGED lastEventTimestamp,
         NEW ev \in StoredEvent, eventLog' = Append(eventLog, ev)
  PROVE  RequestInv(q)'
<1>1. /\ eventLog \in Seq(StoredEvent) /\ fetched[q] \in Seq(StoredEvent)
      /\ after[q] \in Nat /\ lastEventTimestamp \in Nat
  BY DEF TypeOK, CommandsTypeOK
<1>2. Len(eventLog') = Len(eventLog) + 1 /\ Len(eventLog) \in Nat BY <1>1
<1>3. \A i \in 1 .. Len(eventLog) : eventLog'[i] = eventLog[i] BY <1>1
<1>4. WriteInv(q)'
  <2>1. after[q] <= Len(eventLog) BY DEF RequestInv, WriteInv
  <2>2. after[q] >= 1 => eventLog'[after[q]] = eventLog[after[q]] BY <2>1, <1>1, <1>3
  <2>3. after[q] <= Len(eventLog') BY <2>1, <1>1, <1>2
  <2> QED BY <2>2, <2>3 DEF RequestInv, WriteInv, Same
<1>5. Snapshot(q)'
  <2>1. SUFFICES ASSUME pc[q] = "done"
                 PROVE  \E n \in 0 .. Len(eventLog') :
                          /\ kind[q] # "list" => after[q] <= n
                          /\ answer[q] = State(KnownAt(eventLog', n), TimeSeriesAt(eventLog', n))
    BY DEF Snapshot, Same
  <2>2. PICK n \in 0 .. Len(eventLog) :
               /\ kind[q] # "list" => after[q] <= n
               /\ answer[q] = State(KnownAt(eventLog, n), TimeSeriesAt(eventLog, n))
    BY <2>1 DEF RequestInv, Snapshot
  <2>3. /\ KnownAt(eventLog', n) = KnownAt(eventLog, n)
        /\ TimeSeriesAt(eventLog', n) = TimeSeriesAt(eventLog, n)
    BY <1>1, PrefixKept
  <2>4. n \in 0 .. Len(eventLog') BY <1>2
  <2> QED BY <2>2, <2>3, <2>4
<1>6. UpdateInv(q)'
  <2>1. ASSUME pc[q] = "apply"
        PROVE  \E a \in 1 .. lastEventTimestamp + 1, b \in after[q] .. Len(eventLog') :
                 a <= b /\ IsSegment(fetched[q], eventLog', a, b)
    <3>1. PICK a \in 1 .. lastEventTimestamp + 1, b \in after[q] .. Len(eventLog) :
                 a <= b /\ IsSegment(fetched[q], eventLog, a, b)
      BY <2>1 DEF RequestInv, UpdateInv
    <3>2. a \in Nat \ {0} /\ b \in Nat /\ b <= Len(eventLog) BY <1>1, <1>2
    <3>3. IsSegment(fetched[q], eventLog', a, b) BY <1>1, <3>1, <3>2, SegmentKept
    <3>4. b \in after[q] .. Len(eventLog') BY <1>1, <1>2
    <3> QED BY <3>1, <3>3, <3>4
  <2> QED BY <2>1 DEF RequestInv, UpdateInv, Same
<1> QED BY <1>4, <1>5, <1>6 DEF RequestInv

(***************************************************************************)
(* The commands service.                                                   *)
(***************************************************************************)
LEMMA PrefixType ==
  ASSUME NEW log \in Seq(StoredEvent), NEW n \in 0 .. Len(log)
  PROVE  KnownAt(log, n) \subseteq Meters /\ TimeSeriesAt(log, n) \in [Meters -> [Dates -> Nat]]
<1>1. ASSUME NEW m \in Meters, NEW d \in Dates
      PROVE  LatestOf({0} \cup {i \in 1 .. n : IsRecord(log[i], m, d)}) \in Nat
  <2> DEFINE S == {0} \cup {i \in 1 .. n : IsRecord(log[i], m, d)}
  <2>1. S \in SUBSET (0 .. n) /\ S # {} /\ n \in Nat OBVIOUS
  <2> HIDE DEF S
  <2>2. LatestOf(S) \in S BY <2>1, LatestProperties
  <2>3. LatestOf(S) \in 0 .. n BY <2>1, <2>2
  <2>4. LatestOf(S) \in Nat BY <2>3
  <2> QED BY <2>4 DEF S
<1> QED BY <1>1 DEF KnownAt, TimeSeriesAt

\* An event that may be recorded keeps the log well-formed and the projection a prefix.
LEMMA EventHandled ==
  ASSUME TypeOK, LogWellFormed, ProjectionIsPrefix,
         NEW type, NEW m \in Meters, NEW d, HandleEvent(type, m, d), UNCHANGED queryVars,
         \/ type = "MeterCreated" /\ d = NoDate /\ m \notin data
         \/ type = "RecordAdded"  /\ d \in Dates /\ m \in data
  PROVE  /\ \E ev \in StoredEvent :
              /\ eventLog' = Append(eventLog, ev)
              /\ eventLog'[lastTimestamp'] = ev
              /\ ev.type = type /\ ev.meter = m /\ ev.date = d
         /\ lastTimestamp' = Len(eventLog') /\ lastTimestamp' \in Nat \ {0}
         /\ CommandsTypeOK' /\ LogWellFormed' /\ ProjectionIsPrefix'
<1> DEFINE ev == [timestamp |-> lastTimestamp + 1, type |-> type, meter |-> m, date |-> d]
           n  == Len(eventLog)
<1>1. eventLog \in Seq(StoredEvent) /\ data \subseteq Meters /\ lastTimestamp = n /\ n \in Nat
  BY DEF TypeOK, CommandsTypeOK, LogWellFormed
<1>2. ev \in StoredEvent BY <1>1 DEF StoredEvent
<1>3. /\ eventLog' = Append(eventLog, ev) /\ lastTimestamp' = n + 1 /\ data' = data \cup {m}
  BY <1>1 DEF HandleEvent
<1>4. ev.timestamp = n + 1 /\ ev.type = type /\ ev.meter = m /\ ev.date = d BY <1>1
<1> HIDE DEF ev
<1>5. /\ Len(eventLog') = n + 1 /\ eventLog'[n + 1] = ev /\ eventLog' \in Seq(StoredEvent)
      /\ \A i \in 1 .. n : eventLog'[i] = eventLog[i]
  BY <1>1, <1>2, <1>3
<1>6. data = KnownAt(eventLog, n) /\ WellFormed(eventLog) BY DEF LogWellFormed
<1>7. WellFormed(eventLog')
  <2>1. ASSUME NEW i \in 1 .. n
        PROVE  /\ eventLog'[i].timestamp = i
               /\ eventLog'[i].type = "MeterCreated" =>
                    \A j \in 1 .. i - 1 : ~ IsCreation(eventLog'[j], eventLog'[i].meter)
               /\ eventLog'[i].type = "RecordAdded" =>
                    \E j \in 1 .. i - 1 : IsCreation(eventLog'[j], eventLog'[i].meter)
    <3>1. \A j \in 1 .. i : eventLog'[j] = eventLog[j] BY <1>5, <1>1
    <3> QED BY <3>1, <1>6, <1>1 DEF WellFormed
  <2>2. \A j \in 1 .. n : IsCreation(eventLog'[j], m) <=> IsCreation(eventLog[j], m) BY <1>5
  <2>3. (m \in data) <=> \E j \in 1 .. n : IsCreation(eventLog[j], m) BY <1>6 DEF KnownAt
  <2>4. n + 1 - 1 = n BY <1>1
  <2>5. /\ eventLog'[n + 1].timestamp = n + 1
        /\ eventLog'[n + 1].type = "MeterCreated" =>
             \A j \in 1 .. n : ~ IsCreation(eventLog'[j], eventLog'[n + 1].meter)
        /\ eventLog'[n + 1].type = "RecordAdded" =>
             \E j \in 1 .. n : IsCreation(eventLog'[j], eventLog'[n + 1].meter)
    BY <1>4, <1>5, <2>2, <2>3
  <2>6. DOMAIN eventLog' = 1 .. n \cup {n + 1} BY <1>1, <1>5
  <2> QED BY <2>1, <2>4, <2>5, <2>6 DEF WellFormed
<1>8. data' = KnownAt(eventLog', n + 1)
  <2>1. ASSUME NEW x \in Meters
        PROVE  x \in data' <=> \E j \in 1 .. n + 1 : IsCreation(eventLog'[j], x)
    <3>1. x \in data <=> \E j \in 1 .. n : IsCreation(eventLog'[j], x)
      BY <1>5, <1>6 DEF KnownAt
    <3>2. IsCreation(eventLog'[n + 1], x) <=> type = "MeterCreated" /\ x = m
      BY <1>4, <1>5 DEF IsCreation
    <3>3. \A j \in 1 .. n + 1 : j \in 1 .. n \/ j = n + 1 BY <1>1
    <3>4. 1 .. n \subseteq 1 .. n + 1 /\ n + 1 \in 1 .. n + 1 BY <1>1
    <3> QED BY <3>1, <3>2, <3>3, <3>4, <1>3
  <2>2. data' \subseteq Meters BY <1>1, <1>3
  <2> QED BY <2>1, <2>2 DEF KnownAt
<1>9. LogWellFormed' BY <1>3, <1>5, <1>7, <1>8 DEF LogWellFormed
<1>10. ProjectionIsPrefix'
  <2>1. lastEventTimestamp \in 0 .. n BY <1>1 DEF ProjectionIsPrefix, TypeOK
  <2>2. /\ KnownAt(eventLog', lastEventTimestamp) = KnownAt(eventLog, lastEventTimestamp)
        /\ TimeSeriesAt(eventLog', lastEventTimestamp) = TimeSeriesAt(eventLog, lastEventTimestamp)
    BY <1>1, <1>2, <1>3, <2>1, PrefixKept
  <2>3. lastEventTimestamp <= Len(eventLog') BY <2>1, <1>5, <1>1
  <2> QED BY <2>2, <2>3 DEF ProjectionIsPrefix, queryVars
<1>11. CommandsTypeOK' BY <1>1, <1>3, <1>5 DEF CommandsTypeOK
<1> QED BY <1>1, <1>2, <1>3, <1>4, <1>5, <1>9, <1>10, <1>11

LEMMA CreateCommandKept ==
  ASSUME IInv, NEW r \in Requests, CreateCommand(r)
  PROVE  IInv'
<1>1. TypeOK /\ LogWellFormed /\ ProjectionIsPrefix /\ \A q \in Requests : RequestInv(q)
  BY IInvParts
<1>2. PICK m \in Meters : CreateMeter(m) /\ meter' = [meter EXCEPT ![r] = m]
  BY DEF CreateCommand
<1>3. /\ HandleEvent("MeterCreated", m, NoDate) /\ m \notin data /\ UNCHANGED queryVars
  BY <1>2 DEF CreateMeter, CreateCommand
<1>4. /\ \E ev \in StoredEvent :
           /\ eventLog' = Append(eventLog, ev)
           /\ eventLog'[lastTimestamp'] = ev
           /\ ev.type = "MeterCreated" /\ ev.meter = m /\ ev.date = NoDate
      /\ lastTimestamp' = Len(eventLog') /\ lastTimestamp' \in Nat \ {0}
      /\ CommandsTypeOK' /\ LogWellFormed' /\ ProjectionIsPrefix'
  BY <1>1, <1>3, EventHandled
<1>5. TypeOK'
  BY <1>1, <1>2, <1>4 DEF TypeOK, CreateCommand, queryVars
<1>6. ASSUME NEW q \in Requests PROVE RequestInv(q)'
  <2>1. CASE q # r
    <3>1. Same(q) BY <1>1, <1>2, <2>1 DEF CreateCommand, Same, TypeOK
    <3>2. UNCHANGED lastEventTimestamp BY <1>3 DEF queryVars
    <3> QED BY <1>1, <1>4, <3>1, <3>2, LogGrows
  <2>2. CASE q = r
    <3>1. /\ pc'[r] = "query" /\ kind'[r] = "create" /\ meter'[r] = m
          /\ after'[r] = lastTimestamp'
      BY <1>1, <1>2 DEF CreateCommand, TypeOK
    <3>2. IsCreation(eventLog'[after'[r]], meter'[r]) BY <1>4, <3>1 DEF IsCreation
    <3>3. WriteInv(r)' BY <3>1, <3>2, <1>4 DEF WriteInv
    <3> QED BY <2>2, <3>1, <3>3 DEF RequestInv, UpdateInv, Snapshot
  <2> QED BY <2>1, <2>2
<1> QED BY <1>4, <1>5, <1>6, IInvNext

LEMMA AddCommandKept ==
  ASSUME IInv, NEW r \in Requests, AddCommand(r)
  PROVE  IInv'
<1>1. TypeOK /\ LogWellFormed /\ ProjectionIsPrefix /\ \A q \in Requests : RequestInv(q)
  BY IInvParts
<1>2. /\ HandleEvent("RecordAdded", meter[r], date[r]) /\ meter[r] \in data
      /\ UNCHANGED queryVars /\ kind[r] = "add"
  BY DEF AddRecord, AddCommand
<1>3. meter[r] \in Meters /\ date[r] \in Dates BY <1>1, <1>2 DEF RequestInv, WriteInv
<1>4. /\ \E ev \in StoredEvent :
           /\ eventLog' = Append(eventLog, ev)
           /\ eventLog'[lastTimestamp'] = ev
           /\ ev.type = "RecordAdded" /\ ev.meter = meter[r] /\ ev.date = date[r]
      /\ lastTimestamp' = Len(eventLog') /\ lastTimestamp' \in Nat \ {0}
      /\ CommandsTypeOK' /\ LogWellFormed' /\ ProjectionIsPrefix'
  BY <1>1, <1>2, <1>3, EventHandled
<1>5. TypeOK'
  BY <1>1, <1>4 DEF TypeOK, AddCommand, queryVars
<1>6. ASSUME NEW q \in Requests PROVE RequestInv(q)'
  <2>1. CASE q # r
    <3>1. Same(q) BY <1>1, <2>1 DEF AddCommand, Same, TypeOK
    <3>2. UNCHANGED lastEventTimestamp BY <1>2 DEF queryVars
    <3> QED BY <1>1, <1>4, <3>1, <3>2, LogGrows
  <2>2. CASE q = r
    <3>1. /\ pc'[r] = "query" /\ kind'[r] = "add" /\ meter'[r] = meter[r] /\ date'[r] = date[r]
          /\ after'[r] = lastTimestamp'
      BY <1>1, <1>2 DEF AddCommand, TypeOK
    <3>2. IsRecord(eventLog'[after'[r]], meter'[r], date'[r]) BY <1>4, <3>1 DEF IsRecord
    <3>3. WriteInv(r)' BY <1>3, <3>1, <3>2, <1>4 DEF WriteInv
    <3> QED BY <2>2, <3>1, <3>3 DEF RequestInv, UpdateInv, Snapshot
  <2> QED BY <2>1, <2>2
<1> QED BY <1>4, <1>5, <1>6, IInvNext

(***************************************************************************)
(* Steps of one request that leave the log and the projection alone.       *)
(***************************************************************************)
LEMMA RequestStep ==
  ASSUME IInv, NEW r \in Requests, UNCHANGED <<commandsVars, queryVars>>,
         TypeOK', \A q \in Requests \ {r} : Same(q), RequestInv(r)'
  PROVE  IInv'
<1>1. TypeOK /\ LogWellFormed /\ ProjectionIsPrefix /\ \A q \in Requests : RequestInv(q)
  BY IInvParts
<1>2. LogWellFormed' /\ ProjectionIsPrefix'
  BY <1>1 DEF LogWellFormed, ProjectionIsPrefix, commandsVars, queryVars
<1>3. UNCHANGED <<eventLog, lastEventTimestamp>> BY DEF commandsVars, queryVars
<1>4. \A q \in Requests \ {r} : RequestInv(q)' BY <1>1, <1>3, SameKept
<1> QED BY <1>2, <1>4, IInvNext

LEMMA ReceiveKept ==
  ASSUME IInv, NEW r \in Requests, Receive(r)
  PROVE  IInv'
<1>1. TypeOK /\ RequestInv(r) BY IInvParts
<1>2. PICK k \in Kinds, m \in Meters \cup {NoMeter}, d \in Dates \cup {NoDate},
           at \in {"query", "command"} :
        /\ Arrive(r, k, m, d, at)
        /\ k = "add" => m \in Meters /\ d \in Dates
        /\ k \in {"create", "add"} => at = "command"
  BY DEF Receive, Kinds
<1>3. TypeOK' BY <1>1, <1>2 DEF TypeOK, Arrive, commandsVars, queryVars, CommandsTypeOK
<1>4. \A q \in Requests \ {r} : Same(q) BY <1>1, <1>2 DEF TypeOK, Arrive, Same
<1>5. UNCHANGED <<commandsVars, queryVars>> BY <1>2 DEF Arrive
<1>6. RequestInv(r)'
  <2>1. /\ pc'[r] = at /\ kind'[r] = k /\ meter'[r] = m /\ date'[r] = d /\ after'[r] = after[r]
        /\ UNCHANGED eventLog
    BY <1>1, <1>2 DEF TypeOK, Arrive, commandsVars
  <2>2. after[r] <= Len(eventLog) BY <1>1 DEF RequestInv, WriteInv
  <2> QED BY <1>2, <2>1, <2>2 DEF RequestInv, UpdateInv, WriteInv, Snapshot
<1> QED BY <1>3, <1>4, <1>5, <1>6, RequestStep

\* The request ends without an answer.
LEMMA EndKept ==
  ASSUME IInv, NEW r \in Requests, AddCommandRefused(r) \/ CallFails(r)
  PROVE  IInv'
<1>1. TypeOK /\ RequestInv(r) BY IInvParts
<1>2. PICK at \in {"refused", "failed"} :
        /\ pc' = [pc EXCEPT ![r] = at]
        /\ UNCHANGED <<commandsVars, queryVars, kind, meter, date, after, since, fetched, answer>>
  BY DEF AddCommandRefused, CallFails, AddRecordRefused
<1>3. TypeOK' BY <1>1, <1>2 DEF TypeOK, commandsVars, queryVars, CommandsTypeOK
<1>4. \A q \in Requests \ {r} : Same(q) BY <1>1, <1>2 DEF TypeOK, Same
<1>5. RequestInv(r)'
  <2>1. pc'[r] = at /\ UNCHANGED <<eventLog, kind, meter, date, after>>
    BY <1>1, <1>2 DEF TypeOK, commandsVars
  <2> QED BY <1>1, <2>1 DEF RequestInv, UpdateInv, WriteInv, Snapshot
<1> QED BY <1>2, <1>3, <1>4, <1>5, RequestStep

LEMMA AnswerAtOnceKept ==
  ASSUME IInv, NEW r \in Requests, AnswerAtOnce(r)
  PROVE  IInv'
<1>1. TypeOK /\ RequestInv(r) /\ ProjectionIsPrefix BY IInvParts
<1>2. State(known, timeSeries) \in [known : SUBSET Meters, timeSeries : [Meters -> [Dates -> Nat]]]
  BY <1>1 DEF TypeOK, State
<1>3. TypeOK'
  BY <1>1, <1>2 DEF TypeOK, AnswerAtOnce, Done, commandsVars, queryVars, CommandsTypeOK
<1>4. \A q \in Requests \ {r} : Same(q) BY <1>1 DEF TypeOK, AnswerAtOnce, Done, Same
<1>5. UNCHANGED <<commandsVars, queryVars>> BY DEF AnswerAtOnce
<1>6. RequestInv(r)'
  <2>1. /\ pc'[r] = "done" /\ UNCHANGED <<eventLog, kind, meter, date, after>>
        /\ answer'[r] = State(known, timeSeries)
    BY <1>1 DEF TypeOK, AnswerAtOnce, Done, commandsVars
  <2>2. /\ answer'[r] = State(KnownAt(eventLog, lastEventTimestamp),
                              TimeSeriesAt(eventLog, lastEventTimestamp))
        /\ lastEventTimestamp \in 0 .. Len(eventLog)
    BY <1>1, <2>1 DEF ProjectionIsPrefix, TypeOK, CommandsTypeOK
  <2>3. kind[r] # "list" => after[r] <= lastEventTimestamp BY DEF AnswerAtOnce
  <2>4. Snapshot(r)' BY <2>1, <2>2, <2>3 DEF Snapshot
  <2>5. WriteInv(r)' BY <1>1, <2>1 DEF RequestInv, WriteInv, AnswerAtOnce
  <2> QED BY <2>1, <2>4, <2>5 DEF RequestInv, UpdateInv
<1> QED BY <1>3, <1>4, <1>5, <1>6, RequestStep

LEMMA UpdateRequiredKept ==
  ASSUME IInv, NEW r \in Requests, UpdateRequired(r)
  PROVE  IInv'
<1>1. TypeOK /\ RequestInv(r) BY IInvParts
<1>2. TypeOK' BY <1>1 DEF TypeOK, UpdateRequired, commandsVars, queryVars, CommandsTypeOK
<1>3. \A q \in Requests \ {r} : Same(q) BY <1>1 DEF TypeOK, UpdateRequired, Same
<1>4. UNCHANGED <<commandsVars, queryVars>> BY DEF UpdateRequired
<1>5. RequestInv(r)'
  <2>1. pc'[r] = "update" /\ UNCHANGED <<eventLog, kind, meter, date, after>>
    BY <1>1 DEF TypeOK, UpdateRequired, commandsVars
  <2>2. after[r] >= 1 BY <1>1 DEF TypeOK, UpdateRequired
  <2>3. WriteInv(r)' BY <1>1, <2>1 DEF RequestInv, WriteInv, UpdateRequired
  <2> QED BY <2>1, <2>2, <2>3 DEF RequestInv, UpdateInv, Snapshot
<1> QED BY <1>2, <1>3, <1>4, <1>5, RequestStep

LEMMA UpdateKept ==
  ASSUME IInv, NEW r \in Requests, Update(r)
  PROVE  IInv'
<1>1. TypeOK /\ RequestInv(r) BY IInvParts
<1>2. TypeOK' BY <1>1 DEF TypeOK, Update, commandsVars, queryVars, CommandsTypeOK
<1>3. \A q \in Requests \ {r} : Same(q) BY <1>1 DEF TypeOK, Update, Same
<1>4. UNCHANGED <<commandsVars, queryVars>> BY DEF Update
<1>5. RequestInv(r)'
  <2>1. /\ pc'[r] = "fetch" /\ UNCHANGED <<eventLog, lastEventTimestamp, kind, meter, date, after>>
        /\ since'[r] = lastEventTimestamp /\ lastEventTimestamp \in Nat
    BY <1>1 DEF TypeOK, Update, commandsVars, queryVars
  <2>2. after[r] >= 1 BY <1>1 DEF RequestInv, UpdateInv, Update
  <2>3. WriteInv(r)' BY <1>1, <2>1 DEF RequestInv, WriteInv, Update
  <2> QED BY <2>1, <2>2, <2>3 DEF RequestInv, UpdateInv, Snapshot
<1> QED BY <1>2, <1>3, <1>4, <1>5, RequestStep

LEMMA FetchEventsKept ==
  ASSUME IInv, NEW r \in Requests, FetchEvents(r)
  PROVE  IInv'
<1>1. TypeOK /\ RequestInv(r) /\ LogWellFormed /\ ProjectionIsPrefix BY IInvParts
<1>2. /\ eventLog \in Seq(StoredEvent) /\ WellFormed(eventLog) /\ Len(eventLog) \in Nat
      /\ since[r] \in Nat /\ since[r] <= lastEventTimestamp /\ after[r] \in Nat
      /\ lastEventTimestamp \in Nat /\ lastEventTimestamp <= Len(eventLog)
      /\ 1 <= after[r] /\ after[r] <= Len(eventLog)
  BY <1>1 DEF TypeOK, CommandsTypeOK, LogWellFormed, ProjectionIsPrefix, RequestInv, UpdateInv,
              WriteInv, FetchEvents
<1>3. since[r] \in 0 .. Len(eventLog) /\ Len(eventLog) >= 1 BY <1>2
<1>4. /\ Events(since[r]) \in Seq(StoredEvent)
      /\ \E a \in 1 .. since[r] + 1 :
           a <= Len(eventLog) /\ IsSegment(Events(since[r]), eventLog, a, Len(eventLog))
  BY <1>2, <1>3, EventsAreSegment DEF Events
<1>5. TypeOK' BY <1>1, <1>4 DEF TypeOK, FetchEvents, commandsVars, queryVars, CommandsTypeOK
<1>6. \A q \in Requests \ {r} : Same(q) BY <1>1 DEF TypeOK, FetchEvents, Same
<1>7. UNCHANGED <<commandsVars, queryVars>> BY DEF FetchEvents
<1>8. RequestInv(r)'
  <2>1. /\ pc'[r] = "apply" /\ fetched'[r] = Events(since[r])
        /\ UNCHANGED <<eventLog, lastEventTimestamp, kind, meter, date, after, since>>
    BY <1>1 DEF TypeOK, FetchEvents, commandsVars, queryVars
  <2>2. PICK a \in 1 .. since[r] + 1 :
           a <= Len(eventLog) /\ IsSegment(Events(since[r]), eventLog, a, Len(eventLog))
    BY <1>4
  <2>3. a \in 1 .. lastEventTimestamp + 1 /\ Len(eventLog) \in after[r] .. Len(eventLog)
    BY <1>2
  <2>4. \E x \in 1 .. lastEventTimestamp + 1, y \in after[r] .. Len(eventLog) :
          x <= y /\ IsSegment(Events(since[r]), eventLog, x, y)
    BY <2>2, <2>3
  <2>5. UpdateInv(r)' BY <1>2, <2>1, <2>4 DEF UpdateInv
  <2>6. WriteInv(r)' BY <1>1, <2>1 DEF RequestInv, WriteInv, FetchEvents
  <2> QED BY <2>1, <2>5, <2>6 DEF RequestInv, Snapshot
<1> QED BY <1>5, <1>6, <1>7, <1>8, RequestStep

(***************************************************************************)
(* The projection.                                                         *)
(***************************************************************************)
\* What an update applies is the segment that comes next, whatever others applied since
\* it asked for its events; it reaches as far as its request needs.
LEMMA NewEventsFollow ==
  ASSUME IInv, NEW r \in Requests, pc[r] = "apply"
  PROVE  /\ NewEvents(r) \in Seq(StoredEvent)
         /\ \E e \in lastEventTimestamp .. Len(eventLog) :
              after[r] <= e /\ IsSegment(NewEvents(r), eventLog, lastEventTimestamp + 1, e)
<1>1. TypeOK /\ RequestInv(r) /\ LogWellFormed /\ ProjectionIsPrefix BY IInvParts
<1>2. /\ eventLog \in Seq(StoredEvent) /\ WellFormed(eventLog) /\ fetched[r] \in Seq(StoredEvent)
      /\ after[r] \in Nat /\ Len(eventLog) \in Nat /\ lastEventTimestamp \in 0 .. Len(eventLog)
  BY <1>1 DEF TypeOK, CommandsTypeOK, LogWellFormed, ProjectionIsPrefix
<1>3. PICK a \in 1 .. lastEventTimestamp + 1, b \in after[r] .. Len(eventLog) :
         a <= b /\ IsSegment(fetched[r], eventLog, a, b)
  BY <1>1 DEF RequestInv, UpdateInv
<1>4. b \in a .. Len(eventLog) BY <1>2, <1>3
<1> DEFINE e == IF b > lastEventTimestamp THEN b ELSE lastEventTimestamp
<1>5. /\ NewEvents(r) \in Seq(StoredEvent)
      /\ IsSegment(NewEvents(r), eventLog, lastEventTimestamp + 1, e)
  BY <1>2, <1>3, <1>4, DropApplied DEF NewEvents
<1>6. e \in lastEventTimestamp .. Len(eventLog) /\ after[r] <= e BY <1>2, <1>4
<1> QED BY <1>5, <1>6

LEMMA ApplyEventsKept ==
  ASSUME IInv, NEW r \in Requests, ApplyEvents(r)
  PROVE  IInv' /\ lastEventTimestamp' \in lastEventTimestamp .. Len(eventLog)
<1> DEFINE es == NewEvents(r)
           n  == lastEventTimestamp
<1>1. TypeOK /\ LogWellFormed /\ ProjectionIsPrefix /\ \A q \in Requests : RequestInv(q)
  BY IInvParts
<1>2. /\ eventLog \in Seq(StoredEvent) /\ WellFormed(eventLog) /\ after[r] \in Nat
      /\ Len(eventLog) \in Nat /\ n \in 0 .. Len(eventLog)
      /\ known = KnownAt(eventLog, n) /\ timeSeries = TimeSeriesAt(eventLog, n)
  BY <1>1 DEF TypeOK, CommandsTypeOK, LogWellFormed, ProjectionIsPrefix
<1>3. es \in Seq(StoredEvent) /\ \E e \in n .. Len(eventLog) :
                                 after[r] <= e /\ IsSegment(es, eventLog, n + 1, e)
  BY NewEventsFollow DEF ApplyEvents
<1>4. PICK e \in n .. Len(eventLog) : after[r] <= e /\ IsSegment(es, eventLog, n + 1, e)
  BY <1>3
<1>5. /\ lastEventTimestamp' = IF es = <<>> THEN n ELSE es[Len(es)].timestamp
      /\ known' = KnownAfter(known, es) /\ timeSeries' = TimeSeriesAfter(timeSeries, es)
      /\ Done(r, State(known', timeSeries'))
      /\ UNCHANGED <<commandsVars, kind, meter, date, after, since, fetched>>
  BY DEF ApplyEvents
<1> HIDE DEF es
<1>6. /\ KnownAfter(KnownAt(eventLog, n), es) = KnownAt(eventLog, e)
      /\ TimeSeriesAfter(TimeSeriesAt(eventLog, n), es) = TimeSeriesAt(eventLog, e)
      /\ (IF es = <<>> THEN n ELSE es[Len(es)].timestamp) = e
  BY <1>2, <1>3, <1>4, SegmentApplied
<1>7. /\ lastEventTimestamp' = e /\ e \in 0 .. Len(eventLog) /\ e \in Nat
      /\ known' = KnownAt(eventLog, e) /\ timeSeries' = TimeSeriesAt(eventLog, e)
      /\ UNCHANGED eventLog
  BY <1>2, <1>4, <1>5, <1>6 DEF commandsVars
<1>8. known' \subseteq Meters /\ timeSeries' \in [Meters -> [Dates -> Nat]]
  BY <1>2, <1>7, PrefixType
<1>9. State(known', timeSeries') \in [known : SUBSET Meters, timeSeries : [Meters -> [Dates -> Nat]]]
  BY <1>8 DEF State
<1>10. TypeOK' BY <1>1, <1>5, <1>7, <1>8, <1>9 DEF TypeOK, Done, commandsVars, CommandsTypeOK
<1>11. LogWellFormed' BY <1>1, <1>5 DEF LogWellFormed, commandsVars
<1>12. ProjectionIsPrefix' BY <1>7 DEF ProjectionIsPrefix
<1>13. ASSUME NEW q \in Requests PROVE RequestInv(q)'
  <2>1. CASE q # r
    <3>1. Same(q) BY <1>1, <1>5, <2>1 DEF Done, Same, TypeOK
    <3>2. lastEventTimestamp <= lastEventTimestamp' BY <1>7, <1>4, <1>2
    <3> QED BY <1>1, <1>7, <3>1, <3>2, ProjectionGrows
  <2>2. CASE q = r
    <3>1. /\ pc'[r] = "done" /\ answer'[r] = State(known', timeSeries')
          /\ UNCHANGED <<eventLog, kind, meter, date, after>>
      BY <1>1, <1>5, <1>7 DEF TypeOK, Done
    <3>2. Snapshot(r)' BY <1>4, <1>7, <3>1 DEF Snapshot
    <3>3. pc[r] = "apply" BY DEF ApplyEvents
    <3>4. WriteInv(r)' BY <1>1, <3>1, <3>3 DEF RequestInv, WriteInv
    <3> QED BY <2>2, <3>1, <3>2, <3>4 DEF RequestInv, UpdateInv
  <2> QED BY <2>1, <2>2
<1>14. IInv' BY <1>10, <1>11, <1>12, <1>13, IInvNext
<1> QED BY <1>4, <1>7, <1>14

\* The empty projection is the empty prefix.
LEMMA EmptyPrefix ==
  ASSUME NEW log
  PROVE  KnownAt(log, 0) = {} /\ TimeSeriesAt(log, 0) = NoTimeSeries
<1>1. KnownAt(log, 0) = {} BY DEF KnownAt
<1>2. \A m \in Meters, d \in Dates : {0} \cup {i \in 1 .. 0 : IsRecord(log[i], m, d)} = {0}
  OBVIOUS
<1>3. LatestOf({0}) = 0 BY LatestIs
<1> QED BY <1>1, <1>2, <1>3 DEF TimeSeriesAt, NoTimeSeries

LEMMA RestartKept ==
  ASSUME IInv, Restart
  PROVE  IInv'
<1>1. TypeOK /\ LogWellFormed /\ ProjectionIsPrefix /\ \A q \in Requests : RequestInv(q)
  BY IInvParts
<1>2. /\ UNCHANGED <<eventLog, kind, meter, date, after, answer>> /\ Len(eventLog) \in Nat
      /\ \A q \in Requests : pc'[q] = IF pc[q] \in {"update", "fetch", "apply"}
                                        THEN "failed" ELSE pc[q]
  BY <1>1 DEF Restart, commandsVars, TypeOK, CommandsTypeOK
<1>3. NoTimeSeries \in [Meters -> [Dates -> Nat]] BY DEF NoTimeSeries
<1>4. TypeOK' BY <1>1, <1>3 DEF TypeOK, Restart, commandsVars, CommandsTypeOK
<1>5. LogWellFormed' BY <1>1 DEF LogWellFormed, Restart, commandsVars
<1>6. ProjectionIsPrefix' BY <1>2, EmptyPrefix DEF ProjectionIsPrefix, Restart
<1>7. ASSUME NEW q \in Requests PROVE RequestInv(q)'
  BY <1>1, <1>2, <1>7 DEF RequestInv, UpdateInv, WriteInv, Snapshot
<1> QED BY <1>4, <1>5, <1>6, <1>7, IInvNext

LEMMA InitHolds ==
  ASSUME Init
  PROVE  IInv
<1>1. NoTimeSeries \in [Meters -> [Dates -> Nat]] /\ <<>> \in Seq(StoredEvent)
  BY DEF NoTimeSeries
<1>2. State({}, NoTimeSeries) \in [known : SUBSET Meters, timeSeries : [Meters -> [Dates -> Nat]]]
  BY <1>1 DEF State
<1>3. TypeOK
  BY <1>1, <1>2 DEF Init, TypeOK, CommandsInit, QueriesInit, CommandsTypeOK, NoAnswer
<1>4. eventLog = <<>> /\ lastEventTimestamp = 0 /\ data = {} /\ lastTimestamp = 0
  BY DEF Init, CommandsInit, QueriesInit
<1>5. LogWellFormed BY <1>4, EmptyPrefix DEF LogWellFormed, WellFormed
<1>6. ProjectionIsPrefix BY <1>4, EmptyPrefix DEF Init, QueriesInit, ProjectionIsPrefix
<1>7. \A q \in Requests : RequestInv(q)
  BY <1>4 DEF Init, RequestInv, UpdateInv, WriteInv, Snapshot
<1> QED BY <1>3, <1>5, <1>6, <1>7, IInvParts

LEMMA StepKeeps ==
  ASSUME IInv, [Next]_vars
  PROVE  IInv'
<1>1. ASSUME NEW r \in Requests, Receive(r) \/ Progress(r) \/ CallFails(r) PROVE IInv'
  BY <1>1, ReceiveKept, EndKept, CreateCommandKept, AddCommandKept, AnswerAtOnceKept,
     UpdateRequiredKept, UpdateKept, FetchEventsKept, ApplyEventsKept DEF Progress
<1>2. CASE UNCHANGED vars
  BY <1>2 DEF vars, IInv, TypeOK, CommandsTypeOK, LogWellFormed, ProjectionIsPrefix,
              AnswersAreSnapshots, UpdateInv, WriteInv
<1> QED BY <1>1, <1>2, RestartKept DEF Next

(***************************************************************************)
(* Theorems.                                                               *)
(***************************************************************************)
\* The inductive invariant: log, projection and requests fit together.
THEOREM InvariantHolds == Spec => []IInv
<1>1. Init => IInv BY InitHolds
<1>2. IInv /\ [Next]_vars => IInv' BY StepKeeps
<1> QED BY <1>1, <1>2, PTL DEF Spec

\* The projection is a prefix of the log, each event applied once.
THEOREM ProjectionsArePrefixes == Spec => []ProjectionIsPrefix
<1>1. IInv => ProjectionIsPrefix BY DEF IInv
<1> QED BY <1>1, InvariantHolds, PTL

\* No update meets a record of an unknown meter.
THEOREM UpdatesNeverThrow == Spec => []ApplyNeverThrows
<1>1. ASSUME IInv PROVE ApplyNeverThrows
  <2>1. TypeOK /\ LogWellFormed /\ ProjectionIsPrefix BY <1>1, IInvParts
  <2>2. ASSUME NEW r \in Requests, pc[r] = "apply" PROVE ~ Throws(known, NewEvents(r))
    <3>1. /\ NewEvents(r) \in Seq(StoredEvent)
          /\ \E e \in lastEventTimestamp .. Len(eventLog) :
               after[r] <= e /\ IsSegment(NewEvents(r), eventLog, lastEventTimestamp + 1, e)
      BY <1>1, <2>2, NewEventsFollow
    <3>2. /\ eventLog \in Seq(StoredEvent) /\ WellFormed(eventLog)
          /\ lastEventTimestamp \in 0 .. Len(eventLog)
          /\ known = KnownAt(eventLog, lastEventTimestamp)
      BY <2>1 DEF TypeOK, CommandsTypeOK, LogWellFormed, ProjectionIsPrefix
    <3> QED BY <3>1, <3>2, SegmentDoesNotThrow
  <2> QED BY <2>2 DEF ApplyNeverThrows
<1> QED BY <1>1, InvariantHolds, PTL

\* A query is answered from one prefix of the log that is as long as it asked for.
THEOREM QueriesAnswerSnapshots == Spec => []AnswersAreSnapshots
<1>1. IInv => AnswersAreSnapshots BY DEF IInv
<1> QED BY <1>1, InvariantHolds, PTL

\* A write that was answered is in its own answer.
THEOREM WritesAreRead == Spec => []ReadYourWrites
<1>1. ASSUME IInv, NEW r \in Requests, pc[r] = "done", kind[r] \in {"create", "add"}
      PROVE  /\ meter[r] \in answer[r].known
             /\ kind[r] = "add" => answer[r].timeSeries[meter[r]][date[r]] >= after[r]
  <2>1. TypeOK /\ LogWellFormed /\ RequestInv(r) BY <1>1, IInvParts
  <2>2. PICK n \in 0 .. Len(eventLog) :
          /\ after[r] <= n
          /\ answer[r] = State(KnownAt(eventLog, n), TimeSeriesAt(eventLog, n))
    BY <1>1, <2>1 DEF RequestInv, Snapshot
  <2>3. /\ answer[r].known = KnownAt(eventLog, n)
        /\ answer[r].timeSeries = TimeSeriesAt(eventLog, n)
    BY <2>2 DEF State
  <2>4. /\ eventLog \in Seq(StoredEvent) /\ WellFormed(eventLog) /\ Len(eventLog) \in Nat
        /\ after[r] \in 1 .. n /\ after[r] \in DOMAIN eventLog
        /\ kind[r] = "create" => IsCreation(eventLog[after[r]], meter[r])
        /\ kind[r] = "add"    => IsRecord(eventLog[after[r]], meter[r], date[r])
        /\ kind[r] = "add"    => meter[r] \in Meters /\ date[r] \in Dates
    BY <1>1, <2>1, <2>2 DEF TypeOK, CommandsTypeOK, LogWellFormed, RequestInv, WriteInv
  <2>5. CASE kind[r] = "create"
    <3>1. eventLog[after[r]] \in StoredEvent BY <2>4
    <3>2. meter[r] \in Meters BY <3>1, <2>4, <2>5 DEF IsCreation, StoredEvent
    <3> QED BY <2>3, <2>4, <2>5, <3>2 DEF KnownAt
  <2>6. CASE kind[r] = "add"
    <3>1. PICK j \in 1 .. after[r] - 1 : IsCreation(eventLog[j], meter[r])
      BY <2>4, <2>6 DEF WellFormed, IsRecord
    <3>2. meter[r] \in answer[r].known BY <2>3, <2>4, <2>6, <3>1 DEF KnownAt
    <3> DEFINE S == {0} \cup {i \in 1 .. n : IsRecord(eventLog[i], meter[r], date[r])}
    <3>3. S \in SUBSET (0 .. n) /\ S # {} /\ n \in Nat /\ after[r] \in S BY <2>4, <2>6
    <3>4. answer[r].timeSeries[meter[r]][date[r]] = LatestOf(S)
      BY <2>3, <2>4, <2>6 DEF TimeSeriesAt
    <3> HIDE DEF S
    <3>5. LatestOf(S) \in S /\ \A k \in S : k <= LatestOf(S) BY <3>3, LatestProperties
    <3>6. LatestOf(S) \in 0 .. n /\ after[r] <= LatestOf(S) BY <3>3, <3>5
    <3> QED BY <3>2, <3>4, <3>6, <2>4
  <2> QED BY <1>1, <2>5, <2>6
<1>2. IInv => ReadYourWrites BY <1>1 DEF ReadYourWrites
<1> QED BY <1>2, InvariantHolds, PTL

\* Only a restart takes the projection back.
THEOREM OnlyRestartsGoBack == Spec => ProjectionAdvances
<1>1. ASSUME IInv, [Next]_vars PROVE [lastEventTimestamp' < lastEventTimestamp => Restart]_vars
  <2>1. lastEventTimestamp \in Nat BY <1>1 DEF IInv, TypeOK
  <2>2. ASSUME NEW r \in Requests, Receive(r) \/ Progress(r) \/ CallFails(r)
        PROVE  ~ (lastEventTimestamp' < lastEventTimestamp)
    <3>1. CASE ApplyEvents(r)
      <4>1. lastEventTimestamp' \in lastEventTimestamp .. Len(eventLog)
        BY <1>1, <3>1, ApplyEventsKept
      <4> QED BY <4>1, <2>1
    <3>2. CASE ~ ApplyEvents(r)
      <4>1. UNCHANGED lastEventTimestamp
        BY <2>2, <3>2 DEF Receive, Arrive, Progress, CallFails, CreateCommand, AddCommand,
             AddCommandRefused, AnswerAtOnce, UpdateRequired, Update, FetchEvents, queryVars
      <4> QED BY <4>1, <2>1
    <3> QED BY <3>1, <3>2
  <2>3. CASE UNCHANGED vars BY <2>3
  <2> QED BY <1>1, <2>2, <2>3 DEF Next
<1> QED BY <1>1, InvariantHolds, PTL DEF Spec, ProjectionAdvances

\* The services together implement an event-sourced projection.
THEOREM Refinement == Spec => ImplementsEventSourcing
<1>1. Init => Abstract!EInit BY DEF Init, CommandsInit, QueriesInit, Abstract!EInit
<1>2. ASSUME IInv, [Next]_vars
      PROVE  [Abstract!ENext]_<<eventLog, lastEventTimestamp>>
  <2>1. /\ TypeOK /\ LogWellFormed /\ ProjectionIsPrefix /\ eventLog \in Seq(StoredEvent)
        /\ lastEventTimestamp \in Nat
        /\ \A r \in Requests : RequestInv(r)
    BY <1>2, IInvParts DEF TypeOK, CommandsTypeOK
  <2>2. ASSUME NEW r \in Requests, CreateCommand(r) \/ AddCommand(r)
        PROVE  Abstract!Store
    <3>1. \E ev \in StoredEvent : eventLog' = Append(eventLog, ev)
      <4>1. CASE CreateCommand(r)
        <5>1. PICK m \in Meters : CreateMeter(m) BY <4>1 DEF CreateCommand
        <5>2. UNCHANGED queryVars BY <4>1 DEF CreateCommand
        <5> QED BY <2>1, <5>1, <5>2, EventHandled DEF CreateMeter
      <4>2. CASE AddCommand(r)
        <5>1. meter[r] \in Meters /\ date[r] \in Dates
          BY <2>1, <4>2 DEF RequestInv, WriteInv, AddCommand
        <5>2. /\ HandleEvent("RecordAdded", meter[r], date[r]) /\ meter[r] \in data
              /\ UNCHANGED queryVars
          BY <4>2 DEF AddCommand, AddRecord
        <5> QED BY <2>1, <5>1, <5>2, EventHandled
      <4> QED BY <2>2, <4>1, <4>2
    <3>2. PICK ev \in StoredEvent : eventLog' = Append(eventLog, ev) BY <3>1
    <3>3. Len(eventLog') = Len(eventLog) + 1 /\ eventLog'[Len(eventLog')] = ev BY <2>1, <3>2
    <3>4. SubSeq(eventLog', 1, Len(eventLog)) = eventLog BY <2>1, <3>2
    <3>5. UNCHANGED lastEventTimestamp BY <2>2 DEF CreateCommand, AddCommand, queryVars
    <3> QED BY <3>3, <3>4, <3>5 DEF Abstract!Store
  <2>3. ASSUME NEW r \in Requests, ApplyEvents(r) PROVE Abstract!CatchUp
    BY <1>2, <2>3, ApplyEventsKept DEF Abstract!CatchUp, ApplyEvents, commandsVars
  <2>4. ASSUME NEW r \in Requests, Receive(r) \/ Progress(r) \/ CallFails(r),
               ~ (CreateCommand(r) \/ AddCommand(r)), ~ ApplyEvents(r)
        PROVE  UNCHANGED <<eventLog, lastEventTimestamp>>
    BY <2>4 DEF Receive, Arrive, Progress, CallFails, AddCommandRefused, AddRecordRefused,
         AnswerAtOnce, UpdateRequired, Update, FetchEvents, commandsVars, queryVars
  <2>5. CASE Restart BY <2>5 DEF Restart, commandsVars, Abstract!StartAgain, Abstract!ENext
  <2>6. CASE UNCHANGED vars BY <2>6 DEF vars
  <2> QED BY <1>2, <2>2, <2>3, <2>4, <2>5, <2>6 DEF Next, Abstract!ENext
<1> QED BY <1>1, <1>2, InvariantHolds, PTL DEF Spec, ImplementsEventSourcing, Abstract!ESpec
=============================================================================
