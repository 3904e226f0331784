-------------------------- MODULE AprsisToRf_proofs --------------------------
(***************************************************************************)
(* Proofs about AprsisToRf for any packets, flows, windows, rates and      *)
(* bounds: TypeOK, PendingOnce, RatesBounded, NotHeardOnRf and             *)
(* NotRepeated.                                                            *)
(***************************************************************************)
EXTENDS AprsisToRf, FiniteSetTheorems, SequenceTheorems, TLAPS

-----------------------------------------------------------------------------
(* The inductive invariant in parts, by the variables they speak of.       *)

EntrySet == [packet : Packets, is : Stamp, rf : Stamp, queued : Stamp]
AllRoutes == Routes \cup {"associated_position"}
WaitingSet == [flow : Flows, packet : Packets, route : AllRoutes, created_at : Time,
               ready : Nat, cancelled : BOOLEAN]
SentSet == [flow : Flows, packet : Packets, route : AllRoutes, waited : Time, at : Time]

FrameOK ==
    /\ frame \in [packet : Packets \cup {"none"}, todo : SUBSET Flows, marked : BOOLEAN]
    /\ ~LoopIdle => frame.packet \in Packets

SeenOK == seen \in Seq(EntrySet) /\ Len(seen) <= SeenMax + 1

PendingOK ==
    /\ pending \subseteq WaitingSet /\ IsFiniteSet(pending)
    /\ Cardinality(pending) <= PendingMax
    /\ \A e \in pending : e.created_at <= now
    /\ \A e \in pending : HasRecipient(e) => Recipient[e.packet] # NoStation

FlowKeys == Flows \X Routes
StationKeys == Flows \X Routes \X Stations

BucketsOK ==
    /\ flowBucket \in [FlowKeys -> Bucket(FlowBurst)]
    /\ sourceBucket \in [StationKeys -> Bucket(SourceBurst)]
    /\ recipientBucket \in [StationKeys -> Bucket(SourceBurst)]
    /\ \A k \in FlowKeys : flowBucket[k].at <= now
    /\ \A k \in StationKeys : sourceBucket[k].at <= now /\ recipientBucket[k].at <= now

HistoryOK ==
    /\ now \in Time
    /\ owesPosition \subseteq Flows \X Stations
    /\ sent \in Seq(SentSet)
    /\ heard \in [Packets -> Stamp]

MetOK == lastMet \in [Packets -> Stamp] /\ \A p \in Packets : lastMet[p] <= now

\* The transmissions from i to j under the key of i.
Later(keys, i, j) == {k \in i .. j : keys[k] = keys[i]}

\* What was sent under the key of a bucket since some transmission, with what is left in
\* the bucket, costs no more than a full bucket and what it gathered since.
Ledger(keys, times, bucket, rate, burst) ==
    \A i \in DOMAIN keys :
      LET b == bucket[keys[i]]
      IN  /\ times[i] <= b.at
          /\ TOKEN * Cardinality(Later(keys, i, Len(keys))) + b.tokens
               <= TOKEN * burst + rate * (b.at - times[i])

Bounded(keys, times, rate, burst) ==
    \A i, j \in DOMAIN keys :
      i <= j /\ keys[i] = keys[j] =>
        TOKEN * Cardinality(Later(keys, i, j)) <= TOKEN * burst + rate * (times[j] - times[i])

FlowKeysSent == [i \in DOMAIN sent |-> FlowKey(sent[i])]
SourceKeysSent == [i \in DOMAIN sent |-> SourceKey(sent[i])]
TimesSent == [i \in DOMAIN sent |-> sent[i].at]

FlowRates ==
    /\ Ledger(FlowKeysSent, TimesSent, flowBucket, FlowRate, FlowBurst)
    /\ Bounded(FlowKeysSent, TimesSent, FlowRate, FlowBurst)
SourceRates ==
    /\ Ledger(SourceKeysSent, TimesSent, sourceBucket, SourceRate, SourceBurst)
    /\ Bounded(SourceKeysSent, TimesSent, SourceRate, SourceBurst)

IndInv ==
    /\ FrameOK /\ SeenOK /\ PendingOK /\ BucketsOK /\ HistoryOK /\ MetOK
    /\ PendingOnce /\ FlowRates /\ SourceRates

\* The entries that pruning does not find too old.
FreshIn(s) == {i \in DOMAIN s : Recent(LastTime(s[i]), Retention)}

Unique(s) == \A i, j \in DOMAIN s : s[i].packet = s[j].packet => i = j

\* The entries lie in the order of their times; those without a time, of packets that were
\* only looked for, may lie anywhere.
Sorted(s) ==
    \A i, j \in DOMAIN s :
      i < j /\ LastTime(s[j]) # Never => LastTime(s[i]) <= LastTime(s[j])

\* No entry is younger than the last note of its packet.
Noted == \A i \in DOMAIN seen : LastTime(seen[i]) <= lastMet[seen[i].packet]

InOrder == Unique(seen) /\ Sorted(seen) /\ Noted

\* Crowded(p, t), with the record of the notes as a parameter.
CrowdedBy(met, p, t) ==
    Cardinality({q \in Packets \ {p} : met[q] # Never /\ met[q] >= t}) >= SeenMax

\* What was heard or queued a short time ago is remembered, unless the memory has been
\* filled with others since.
RfRemembered ==
    \A p \in Packets :
      Recent(heard[p], Retention) =>
        \/ \E i \in DOMAIN seen : seen[i].packet = p /\ seen[i].rf = heard[p]
        \/ CrowdedBy(lastMet, p, heard[p])

QueuedRemembered ==
    \A i \in DOMAIN sent :
      Recent(sent[i].at, Retention) =>
        \/ \E j \in DOMAIN seen : seen[j].packet = sent[i].packet /\ seen[j].queued >= sent[i].at
        \/ CrowdedBy(lastMet, sent[i].packet, sent[i].at)

\* A packet that waits was not heard in the window before it came, its task was woken
\* when it was heard, or the memory has been filled with others since; and no
\* task is left waiting.
WaitsUnheard(e) ==
    LET h == heard[e.packet]
    IN  \/ h = Never \/ h + Window[e.flow] < e.created_at
        \/ h >= e.created_at /\ e.ready <= h
        \/ CrowdedBy(lastMet, e.packet, h)

Waiting == \A e \in pending : now <= e.ready + MaxLag /\ WaitsUnheard(e)

Memory == InOrder /\ RfRemembered /\ QueuedRemembered /\ Waiting
-----------------------------------------------------------------------------
(* Lemmas about the operators of the model.                                *)

LEMMA MaxOfTwo == ASSUME NEW a \in Int, NEW b \in Int PROVE Max({a, b}) = IF a >= b THEN a ELSE b
BY DEF Max

LEMMA MinOfTwo == ASSUME NEW a \in Int, NEW b \in Int PROVE Min({a, b}) = IF a <= b THEN a ELSE b
BY DEF Min

\* Of three times the largest is one of them and no smaller than the others.
LEMMA MaxOfThree ==
    ASSUME NEW a \in Int, NEW b \in Int, NEW c \in Int
    PROVE  /\ Max({a, b, c}) \in {a, b, c}
           /\ a <= Max({a, b, c}) /\ b <= Max({a, b, c}) /\ c <= Max({a, b, c})
<1>1. \E x \in {a, b, c} : \A y \in {a, b, c} : x >= y
  <2>1. CASE a >= b /\ a >= c
    BY <2>1
  <2>2. CASE b >= a /\ b >= c
    BY <2>2
  <2>3. CASE c >= a /\ c >= b
    BY <2>3
  <2> QED BY <2>1, <2>2, <2>3
<1> QED BY <1>1 DEF Max

\* The number of members of a set of indices up to i is a rank: it is different for every
\* member.
UpTo(I, i) == {k \in I : k <= i}
Rank(I, i) == Cardinality(UpTo(I, i))

LEMMA RankIsInjective ==
    ASSUME NEW n \in Nat, NEW I \in SUBSET (1 .. n),
           NEW i \in I, NEW j \in I, i < j
    PROVE  Rank(I, i) < Rank(I, j)
<1>1. IsFiniteSet(I)
  <2>1. IsFiniteSet(1 .. n)
    BY FS_Interval
  <2> QED BY <2>1, FS_Subset
<1>2. UpTo(I, j) \in SUBSET I /\ j \in UpTo(I, j) /\ j \notin UpTo(I, i)
  BY DEF UpTo
<1>3. UpTo(I, i) \in SUBSET UpTo(I, j)
  <2>1. \A k \in I : k <= i => k <= j
    OBVIOUS
  <2> QED BY <2>1 DEF UpTo
<1>4. IsFiniteSet(UpTo(I, j)) /\ Cardinality(UpTo(I, j)) \in Nat
  BY <1>1, <1>2, FS_Subset, FS_CardinalityType
<1>5. IsFiniteSet(UpTo(I, i)) /\ Cardinality(UpTo(I, i)) \in Nat
  <2>1. IsFiniteSet(UpTo(I, i))
    BY <1>3, <1>4, FS_Subset
  <2> QED BY <2>1, FS_CardinalityType
<1>6. Cardinality(UpTo(I, i)) <= Cardinality(UpTo(I, j)) /\ Cardinality(UpTo(I, i)) # Cardinality(UpTo(I, j))
  BY <1>2, <1>3, <1>4, FS_Subset
<1> QED BY <1>4, <1>5, <1>6 DEF Rank

\* Every member of a set of indices has a rank, and every rank a member.
LEMMA Ranks ==
    ASSUME NEW n \in Nat, NEW I \in SUBSET (1 .. n)
    PROVE  /\ Cardinality(I) \in Nat
           /\ \A i \in I : Rank(I, i) \in 1 .. Cardinality(I)
           /\ \A i, j \in I : Rank(I, i) = Rank(I, j) => i = j
           /\ \A r \in 1 .. Cardinality(I) : \E i \in I : Rank(I, i) = r
<1> DEFINE N == Cardinality(I)
           rank == [i \in I |-> Rank(I, i)]
<1>1. IsFiniteSet(I) /\ N \in Nat
  <2>1. IsFiniteSet(1 .. n)
    BY FS_Interval
  <2>2. IsFiniteSet(I)
    BY <2>1, FS_Subset
  <2> QED BY <2>2, FS_CardinalityType
<1>2. ASSUME NEW i \in I PROVE Rank(I, i) \in 1 .. N
  <2>1. UpTo(I, i) \in SUBSET I /\ i \in UpTo(I, i)
    BY DEF UpTo
  <2>2. IsFiniteSet(UpTo(I, i)) /\ Cardinality(UpTo(I, i)) \in Nat /\ Cardinality(UpTo(I, i)) <= N
    BY <1>1, <2>1, FS_Subset, FS_CardinalityType
  <2>3. Cardinality(UpTo(I, i)) # 0
    BY <2>1, <2>2, FS_EmptySet
  <2> QED BY <1>1, <2>2, <2>3 DEF Rank
<1>3. \A i, j \in I : Rank(I, i) = Rank(I, j) => i = j
  <2> SUFFICES ASSUME NEW i \in I, NEW j \in I, i # j PROVE Rank(I, i) # Rank(I, j)
    OBVIOUS
  <2>1. Rank(I, i) \in 1 .. N /\ Rank(I, j) \in 1 .. N /\ i \in Int /\ j \in Int
    BY <1>2
  <2>2. Rank(I, i) \in Int /\ Rank(I, j) \in Int
    BY <1>1, <2>1
  <2> HIDE DEF N, rank
  <2>3. ASSUME NEW k \in I, NEW l \in I, k < l PROVE Rank(I, k) < Rank(I, l)
    BY <2>3, RankIsInjective, Zenon
  <2>4. CASE i < j
    BY <2>2, <2>3, <2>4
  <2>5. CASE j < i
    BY <2>2, <2>3, <2>5
  <2> QED BY <2>1, <2>4, <2>5
<1>4. IsFiniteSet(1 .. N) /\ Cardinality(1 .. N) = N
  <2>1. Cardinality(1 .. N) = IF 1 > N THEN 0 ELSE N - 1 + 1
    BY <1>1, FS_Interval
  <2> QED BY <1>1, <2>1, FS_Interval
<1>5. rank \in [I -> 1 .. N] /\ \A i, j \in I : rank[i] = rank[j] => i = j
  BY <1>2, <1>3
<1>6. \A r \in 1 .. N : \E i \in I : rank[i] = r
  <2> HIDE DEF rank
  <2>1. rank \in Injection(I, 1 .. N)
    BY <1>5 DEF Injection, IsInjective
  <2>2. rank \in Surjection(I, 1 .. N)
    BY <2>1, <1>4, FS_Injection
  <2> QED BY <2>2 DEF Surjection
<1> QED BY <1>1, <1>2, <1>3, <1>6

\* The elements of t are those of s at the indices in I, in their order.
Picks(s, I, t, g) ==
    /\ \A k \in 1 .. Len(t) : t[k] = s[g[k]]
    /\ \A k, l \in 1 .. Len(t) : g[k] = g[l] => k = l
    /\ \A k, l \in 1 .. Len(t) : k < l => g[k] < g[l]
    /\ \A i \in I : \E k \in 1 .. Len(t) : g[k] = i

\* What Subsequence returns: the elements at the indices in I, each of them once.
LEMMA SubsequenceOf ==
    ASSUME NEW S, NEW s \in Seq(S), NEW I \in SUBSET DOMAIN s, NEW t, t = Subsequence(s, I)
    PROVE  /\ Cardinality(I) \in Nat /\ t \in Seq(S) /\ Len(t) = Cardinality(I)
           /\ \E g \in [1 .. Len(t) -> I] : Picks(s, I, t, g)
<1> DEFINE N == Cardinality(I)
           g == [k \in 1 .. N |-> CHOOSE i \in I : Rank(I, i) = k]
<1>1. Len(s) \in Nat /\ DOMAIN s = 1 .. Len(s) /\ \A i \in DOMAIN s : s[i] \in S
  BY LenProperties, ElementOfSeq
<1>2. /\ N \in Nat
      /\ \A i \in I : Rank(I, i) \in 1 .. N
      /\ \A i, j \in I : Rank(I, i) = Rank(I, j) => i = j
      /\ \A r \in 1 .. N : \E i \in I : Rank(I, i) = r
  BY <1>1, Ranks
<1>4. Subsequence(s, I) = [k \in 1 .. N |-> s[g[k]]]
  BY DEF Subsequence, Rank, UpTo
<1>5. \A k \in 1 .. N : g[k] \in I /\ Rank(I, g[k]) = k
  BY <1>2
<1>6. g \in [1 .. N -> I]
  BY <1>5
<1>7. /\ \A k, l \in 1 .. N : g[k] = g[l] => k = l
      /\ \A i \in I : \E k \in 1 .. N : g[k] = i
  <2>1. \A i \in I : Rank(I, i) \in 1 .. N /\ g[Rank(I, i)] = i
    BY <1>2, <1>5
  <2> QED BY <1>5, <2>1
<1> HIDE DEF g, N
<1>10. ASSUME NEW k \in 1 .. N, NEW l \in 1 .. N, k < l PROVE g[k] < g[l]
  <2>1. g[k] \in I /\ g[l] \in I /\ Rank(I, g[k]) = k /\ Rank(I, g[l]) = l
    BY <1>5
  <2>2. g[k] \in Int /\ g[l] \in Int /\ k \in Int /\ l \in Int
    BY <1>1, <1>2, <2>1
  <2>3. ~(g[l] < g[k])
    <3> SUFFICES ASSUME g[l] < g[k] PROVE FALSE
      OBVIOUS
    <3>1. Rank(I, g[l]) < Rank(I, g[k])
      BY <1>1, <2>1, RankIsInjective
    <3> QED BY <1>10, <2>1, <2>2, <3>1
  <2>4. g[l] # g[k]
    BY <1>7, <1>10, <2>2
  <2> QED BY <2>2, <2>3, <2>4
<1>8. \A k \in 1 .. N : s[g[k]] \in S
  BY <1>1, <1>6
<1>9. t \in Seq(S) /\ Len(t) = N /\ \A k \in 1 .. N : t[k] = s[g[k]]
  <2>1. t = [k \in 1 .. N |-> s[g[k]]]
    BY <1>4
  <2>2. t \in [1 .. N -> S]
    BY <1>8, <2>1
  <2> QED BY <1>2, <2>1, <2>2
<1>11. \E h \in [1 .. Len(t) -> I] :
         /\ \A k \in 1 .. Len(t) : t[k] = s[h[k]]
         /\ \A k, l \in 1 .. Len(t) : h[k] = h[l] => k = l
         /\ \A k, l \in 1 .. Len(t) : k < l => h[k] < h[l]
         /\ \A i \in I : \E k \in 1 .. Len(t) : h[k] = i
  BY <1>6, <1>7, <1>9, <1>10
<1>12. N = Cardinality(I)
  BY DEF N
<1> HIDE DEF N
<1> QED BY <1>2, <1>9, <1>11, <1>12 DEF Picks

\* Times are integers, and the last time of an entry is the latest of its three.
LEMMA Stamps == Stamp \subseteq Int /\ Never \in Stamp /\ Time \subseteq Nat /\ Time \subseteq Stamp
BY TimesAssumption DEF Stamp, Time, Never

LEMMA NeverIsFirst == \A t \in Stamp : Never \in Int /\ Never <= t
BY TimesAssumption DEF Stamp, Time, Never

LEMMA LastTimeIs ==
    ASSUME NEW e \in EntrySet
    PROVE  /\ LastTime(e) \in Stamp
           /\ e.is <= LastTime(e) /\ e.rf <= LastTime(e) /\ e.queued <= LastTime(e)
<1>1. e.is \in Stamp /\ e.rf \in Stamp /\ e.queued \in Stamp
  BY DEF EntrySet
<1>2. e.is \in Int /\ e.rf \in Int /\ e.queued \in Int
  BY <1>1, Stamps
<1> QED BY <1>1, <1>2, MaxOfThree DEF LastTime

\* The entry of a packet; there is at most one.
LEMMA NewSeenIs ==
    ASSUME NEW p \in Packets
    PROVE  NewSeen(p) \in EntrySet /\ NewSeen(p).packet = p /\ LastTime(NewSeen(p)) = Never
<1>1. NewSeen(p) \in EntrySet /\ NewSeen(p).packet = p
  BY Stamps DEF NewSeen, EntrySet
<1>2. LastTime(NewSeen(p)) = Max({Never, Never, Never})
  BY DEF NewSeen, LastTime
<1>3. Max({Never, Never, Never}) \in {Never, Never, Never}
  <2>1. Never \in Int
    BY DEF Never
  <2> QED BY <2>1, MaxOfThree
<1> QED BY <1>1, <1>2, <1>3

LEMMA EntryOfIs ==
    ASSUME NEW s \in Seq(EntrySet), NEW p \in Packets
    PROVE  /\ EntryOf(s, p) \in EntrySet /\ EntryOf(s, p).packet = p
           /\ Unique(s) => \A i \in DOMAIN s : s[i].packet = p => EntryOf(s, p) = s[i]
           /\ EntryOf(s, p) = NewSeen(p) \/ \E i \in DOMAIN s : EntryOf(s, p) = s[i]
<1>1. \A i \in DOMAIN s : s[i] \in EntrySet
  BY ElementOfSeq, LenProperties
<1>2. CASE Knows(s, p)
  <2> DEFINE c == CHOOSE i \in DOMAIN s : s[i].packet = p
  <2>1. c \in DOMAIN s /\ s[c].packet = p
    BY <1>2 DEF Knows
  <2>2. EntryOf(s, p) = s[c]
    BY <1>2 DEF EntryOf
  <2> HIDE DEF c
  <2> QED BY <1>1, <2>1, <2>2 DEF Unique
<1>3. CASE ~Knows(s, p)
  BY <1>3, NewSeenIs DEF EntryOf, Knows
<1> QED BY <1>2, <1>3

\* SeenMax fresh entries lie behind that at index i.
FilledBehind(s, i) ==
    \E h \in [1 .. SeenMax -> FreshIn(s)] :
      /\ \A k \in 1 .. SeenMax : i < h[k]
      /\ \A k, l \in 1 .. SeenMax : h[k] = h[l] => k = l

\* _prune_aprsis_rf_state leaves at most SeenMax entries, each of them one it found, in
\* their order; a fresh one goes only if SeenMax fresh ones lie behind it.
LEMMA PrunedIs ==
    ASSUME NEW s \in Seq(EntrySet), NEW t, t = Pruned(s)
    PROVE  /\ t \in Seq(EntrySet) /\ Len(t) <= SeenMax
           /\ Unique(s) => Unique(t)
           /\ Sorted(s) => Sorted(t)
           /\ \A k \in DOMAIN t : \E i \in DOMAIN s : t[k] = s[i]
           /\ \A i \in FreshIn(s) : (\E k \in DOMAIN t : t[k] = s[i]) \/ FilledBehind(s, i)
<1> DEFINE I == FreshIn(s)
           fresh == Subsequence(s, I)
           from == Max({1, Len(fresh) - SeenMax + 1})
<1>1. I \in SUBSET DOMAIN s
  BY DEF FreshIn
<1>2. t = SubSeq(fresh, from, Len(fresh))
  BY DEF Pruned, FreshIn
<1> HIDE DEF I, from
<1>3. Cardinality(I) \in Nat /\ fresh \in Seq(EntrySet) /\ Len(fresh) = Cardinality(I)
  BY <1>1, SubsequenceOf
<1>indices. PICK g \in [1 .. Len(fresh) -> I] : Picks(s, I, fresh, g)
  BY <1>1, SubsequenceOf
<1>4. /\ \A k \in 1 .. Len(fresh) : g[k] \in I
      /\ \A k \in 1 .. Len(fresh) : fresh[k] = s[g[k]]
      /\ \A k, l \in 1 .. Len(fresh) : g[k] = g[l] => k = l
      /\ \A k, l \in 1 .. Len(fresh) : k < l => g[k] < g[l]
      /\ \A i \in I : \E k \in 1 .. Len(fresh) : g[k] = i
  BY <1>indices DEF Picks
<1> HIDE DEF fresh
<1>5. SeenMax \in Nat /\ SeenMax > 0 /\ Len(fresh) \in Nat
  BY <1>3, LimitsAssumption
<1>6. from = IF 1 >= Len(fresh) - SeenMax + 1 THEN 1 ELSE Len(fresh) - SeenMax + 1
  BY <1>5, MaxOfTwo DEF from
<1>7. from \in 1 .. Len(fresh) + 1 /\ Len(fresh) - from + 1 <= SeenMax
  BY <1>5, <1>6
<1>8. /\ t \in Seq(EntrySet) /\ Len(t) = Len(fresh) - from + 1
      /\ \A k \in 1 .. Len(fresh) - from + 1 : t[k] = fresh[from + k - 1]
  BY <1>2, <1>3, <1>5, <1>7, SubSeqProperties
<1>9. DOMAIN t = 1 .. Len(t) /\ DOMAIN s = 1 .. Len(s)
  BY <1>8, LenProperties
<1>10. Len(t) <= SeenMax
  BY <1>7, <1>8
<1>11. ASSUME Unique(s) PROVE Unique(t)
  <2> SUFFICES ASSUME NEW k \in DOMAIN t, NEW l \in DOMAIN t, t[k].packet = t[l].packet PROVE k = l
    BY DEF Unique
  <2>1. from + k - 1 \in 1 .. Len(fresh) /\ from + l - 1 \in 1 .. Len(fresh)
    BY <1>5, <1>7, <1>8, <1>9
  <2>2. s[g[from + k - 1]].packet = s[g[from + l - 1]].packet
    BY <1>4, <1>8, <1>9, <2>1
  <2>3. g[from + k - 1] = g[from + l - 1]
    BY <1>1, <1>11, <2>1, <2>2 DEF Unique
  <2>4. from + k - 1 = from + l - 1
    BY <1>4, <2>1, <2>3
  <2> QED BY <1>7, <1>8, <1>9, <2>4
<1>12. ASSUME NEW k \in DOMAIN t
       PROVE  from + k - 1 \in 1 .. Len(fresh) /\ t[k] = s[g[from + k - 1]]
  <2>1. from + k - 1 \in 1 .. Len(fresh)
    BY <1>5, <1>7, <1>8, <1>9
  <2> QED BY <1>4, <1>8, <1>9, <2>1
<1>13. \A k \in DOMAIN t : \E i \in DOMAIN s : t[k] = s[i]
  BY <1>1, <1>12
<1>14. ASSUME Sorted(s) PROVE Sorted(t)
  <2> SUFFICES ASSUME NEW k \in DOMAIN t, NEW l \in DOMAIN t, k < l, LastTime(t[l]) # Never
               PROVE  LastTime(t[k]) <= LastTime(t[l])
    BY DEF Sorted
  <2>1. g[from + k - 1] < g[from + l - 1]
    <3>1. from + k - 1 < from + l - 1
      BY <1>5, <1>7, <1>9
    <3> QED BY <1>4, <1>12, <3>1
  <2>2. g[from + k - 1] \in DOMAIN s /\ g[from + l - 1] \in DOMAIN s
    BY <1>1, <1>12
  <2> QED BY <1>12, <1>14, <2>1, <2>2 DEF Sorted
<1>15. ASSUME NEW i \in I PROVE (\E k \in DOMAIN t : t[k] = s[i]) \/ FilledBehind(s, i)
  <2>1. PICK r \in 1 .. Len(fresh) : g[r] = i
    BY <1>4
  <2>2. CASE from <= r
    <3>1. r - from + 1 \in DOMAIN t /\ from + (r - from + 1) - 1 = r
      BY <1>5, <1>7, <1>8, <1>9, <2>2
    <3> QED BY <1>12, <2>1, <3>1
  <2>3. CASE r < from
    <3> DEFINE start == Len(fresh) - SeenMax
               h == [k \in 1 .. SeenMax |-> g[start + k]]
    <3>1. start \in Nat /\ r <= start
      BY <1>5, <1>6, <2>3
    <3>2. \A k \in 1 .. SeenMax : start + k \in 1 .. Len(fresh) /\ r < start + k
      BY <1>5, <3>1
    <3>3. h \in [1 .. SeenMax -> I]
      BY <3>2
    <3>4. \A k \in 1 .. SeenMax : i < h[k]
      BY <1>4, <2>1, <3>2
    <3>5. \A k, l \in 1 .. SeenMax : h[k] = h[l] => k = l
      <4> SUFFICES ASSUME NEW k \in 1 .. SeenMax, NEW l \in 1 .. SeenMax, h[k] = h[l] PROVE k = l
        OBVIOUS
      <4>1. start + k = start + l
        BY <1>4, <3>2
      <4> QED BY <1>5, <3>1, <4>1
    <3> HIDE DEF h
    <3> QED BY <3>3, <3>4, <3>5 DEF FilledBehind, I
  <2> QED BY <1>7, <2>2, <2>3
<1> QED BY <1>8, <1>10, <1>11, <1>13, <1>14, <1>15 DEF I

\* The entries of other packets than that of e are in t as they were in s.
OthersStay(s, e, t) ==
    \A i \in DOMAIN s : s[i].packet # e.packet => \E k \in DOMAIN t : t[k] = s[i]

\* An entry that is stored at the end takes the place of the entry of its packet; the
\* other entries stay.
LEMMA MovedToEndIs ==
    ASSUME NEW s \in Seq(EntrySet), NEW e \in EntrySet, NEW t, t = MovedToEnd(s, e)
    PROVE  /\ t \in Seq(EntrySet) /\ Len(t) <= Len(s) + 1
           /\ Unique(s) => Unique(t)
           /\ Sorted(s) /\ (\A i \in DOMAIN s : LastTime(s[i]) <= LastTime(e)) => Sorted(t)
           /\ \A k \in DOMAIN t :
                t[k] = e \/ \E i \in DOMAIN s : t[k] = s[i] /\ s[i].packet # e.packet
           /\ \E k \in DOMAIN t : t[k] = e
           /\ OthersStay(s, e, t)
<1> DEFINE I == {i \in DOMAIN s : s[i].packet # e.packet}
           others == Subsequence(s, I)
           n == Len(others)
<1>1. I \in SUBSET DOMAIN s /\ \A i \in DOMAIN s : i \in I <=> s[i].packet # e.packet
  OBVIOUS
<1>2. t = Append(others, e)
  BY DEF MovedToEnd
<1> HIDE DEF I
<1>3. Cardinality(I) \in Nat /\ others \in Seq(EntrySet) /\ Len(others) = Cardinality(I)
  BY <1>1, SubsequenceOf
<1>indices. PICK g \in [1 .. Len(others) -> I] : Picks(s, I, others, g)
  BY <1>1, SubsequenceOf
<1>4. /\ \A k \in 1 .. Len(others) : g[k] \in I /\ others[k] = s[g[k]]
      /\ \A k, l \in 1 .. Len(others) : g[k] = g[l] => k = l
      /\ \A k, l \in 1 .. Len(others) : k < l => g[k] < g[l]
      /\ \A i \in I : \E k \in 1 .. Len(others) : g[k] = i
  BY <1>indices DEF Picks
<1> HIDE DEF others
<1>5. /\ t \in Seq(EntrySet) /\ Len(t) = n + 1 /\ t[n + 1] = e
      /\ \A k \in 1 .. n : t[k] = others[k]
  BY <1>2, <1>3, AppendProperties
<1>6. DOMAIN t = 1 .. n + 1 /\ DOMAIN s = 1 .. Len(s) /\ Len(s) \in Nat /\ n \in Nat
  BY <1>3, <1>5, LenProperties
<1>7. Cardinality(I) <= Len(s)
  <2>1. /\ IsFiniteSet(1 .. Len(s))
        /\ Cardinality(1 .. Len(s)) = IF 1 > Len(s) THEN 0 ELSE Len(s) - 1 + 1
    <3>1. 1 \in Int /\ Len(s) \in Int
      BY <1>6
    <3> QED BY <3>1, FS_Interval
  <2>2. Cardinality(I) <= Cardinality(1 .. Len(s))
    BY <1>1, <1>6, <2>1, FS_Subset
  <2> QED BY <1>3, <1>6, <2>1, <2>2
<1>8. Len(t) <= Len(s) + 1
  BY <1>3, <1>5, <1>6, <1>7
<1>9. ASSUME NEW k \in 1 .. n PROVE g[k] \in DOMAIN s /\ t[k] = s[g[k]] /\ t[k].packet # e.packet
  BY <1>1, <1>4, <1>5
<1>10. ASSUME Unique(s) PROVE Unique(t)
  <2> SUFFICES ASSUME NEW k \in DOMAIN t, NEW l \in DOMAIN t, t[k].packet = t[l].packet PROVE k = l
    BY DEF Unique
  <2>1. CASE k = n + 1 \/ l = n + 1
    BY <1>5, <1>6, <1>9, <2>1
  <2>2. CASE k \in 1 .. n /\ l \in 1 .. n
    BY <1>4, <1>9, <1>10, <2>2 DEF Unique
  <2> QED BY <1>6, <2>1, <2>2
<1>11. n + 1 \in DOMAIN t
  BY <1>6
<1>12. ASSUME NEW i \in DOMAIN s, s[i].packet # e.packet PROVE \E k \in DOMAIN t : t[k] = s[i]
  <2>1. PICK k \in 1 .. n : g[k] = i
    BY <1>1, <1>4, <1>12
  <2> QED BY <1>6, <1>9, <2>1
<1>13. \A k \in DOMAIN t : t[k] = e \/ \E i \in DOMAIN s : t[k] = s[i] /\ s[i].packet # e.packet
  <2> SUFFICES ASSUME NEW k \in 1 .. n + 1
               PROVE  t[k] = e \/ \E i \in DOMAIN s : t[k] = s[i] /\ s[i].packet # e.packet
    BY <1>6
  <2>1. CASE k = n + 1
    BY <1>5, <2>1
  <2>2. CASE k \in 1 .. n
    BY <1>9, <2>2
  <2> QED BY <1>6, <2>1, <2>2
<1>14. ASSUME Sorted(s), \A i \in DOMAIN s : LastTime(s[i]) <= LastTime(e) PROVE Sorted(t)
  <2> SUFFICES ASSUME NEW k \in DOMAIN t, NEW l \in DOMAIN t, k < l, LastTime(t[l]) # Never
               PROVE  LastTime(t[k]) <= LastTime(t[l])
    BY DEF Sorted
  <2>1. k \in 1 .. n
    BY <1>6
  <2>2. CASE l = n + 1
    BY <1>5, <1>9, <1>14, <2>1, <2>2
  <2>3. CASE l \in 1 .. n
    BY <1>4, <1>9, <1>14, <2>1, <2>3 DEF Sorted
  <2> QED BY <1>6, <2>2, <2>3
<1> QED BY <1>5, <1>8, <1>10, <1>11, <1>12, <1>13, <1>14 DEF OthersStay

LEMMA WithDefaultIs ==
    ASSUME NEW s \in Seq(EntrySet), NEW p \in Packets, NEW t, t = WithDefault(s, p)
    PROVE  /\ t \in Seq(EntrySet) /\ Len(t) <= Len(s) + 1
           /\ Unique(s) => Unique(t)
           /\ Sorted(s) => Sorted(t)
           /\ \A i \in DOMAIN s : i \in DOMAIN t /\ t[i] = s[i]
           /\ \A k \in DOMAIN t : t[k] = NewSeen(p) \/ \E i \in DOMAIN s : t[k] = s[i]
<1>1. Len(s) \in Nat /\ DOMAIN s = 1 .. Len(s)
  BY LenProperties
<1>2. CASE Knows(s, p)
  BY <1>1, <1>2 DEF WithDefault
<1>3. CASE ~Knows(s, p)
  <2>1. t = Append(s, NewSeen(p))
    BY <1>3 DEF WithDefault
  <2>2. /\ t \in Seq(EntrySet) /\ Len(t) = Len(s) + 1 /\ t[Len(s) + 1] = NewSeen(p)
        /\ \A i \in 1 .. Len(s) : t[i] = s[i]
    BY <2>1, NewSeenIs, AppendProperties
  <2>3. DOMAIN t = 1 .. Len(s) + 1
    BY <1>1, <2>2, LenProperties
  <2>4. ASSUME Unique(s) PROVE Unique(t)
    <3> SUFFICES ASSUME NEW k \in DOMAIN t, NEW l \in DOMAIN t, t[k].packet = t[l].packet PROVE k = l
      BY DEF Unique
    <3>1. CASE k = Len(s) + 1 \/ l = Len(s) + 1
      BY <1>1, <1>3, <2>2, <2>3, <3>1, NewSeenIs DEF Knows
    <3>2. CASE k \in DOMAIN s /\ l \in DOMAIN s
      BY <1>1, <2>2, <2>4, <3>2 DEF Unique
    <3> QED BY <1>1, <2>3, <3>1, <3>2
  <2>5. ASSUME Sorted(s) PROVE Sorted(t)
    <3> SUFFICES ASSUME NEW k \in DOMAIN t, NEW l \in DOMAIN t, k < l, LastTime(t[l]) # Never
                 PROVE  LastTime(t[k]) <= LastTime(t[l])
      BY DEF Sorted
    <3>1. l # Len(s) + 1
      BY <2>2, NewSeenIs
    <3>2. l \in DOMAIN s /\ k \in DOMAIN s
      BY <1>1, <2>3, <3>1
    <3> QED BY <1>1, <2>2, <2>5, <3>2 DEF Sorted
  <2>6. \A k \in DOMAIN t : t[k] = NewSeen(p) \/ \E i \in DOMAIN s : t[k] = s[i]
    BY <1>1, <2>2, <2>3
  <2> QED BY <1>1, <2>2, <2>3, <2>4, <2>5, <2>6
<1> QED BY <1>2, <1>3

-----------------------------------------------------------------------------
(* Types.                                                                  *)

\* What the memory knows of a packet when a handler looks.
Prior(p) == EntryOf(Pruned(seen), p)

LEMMA PriorIs ==
    ASSUME SeenOK, NEW p \in Packets, NEW time \in Stamp
    PROVE  /\ Prior(p) \in EntrySet /\ Prior(p).packet = p
           /\ [Prior(p) EXCEPT !.is = time] \in EntrySet /\ [Prior(p) EXCEPT !.is = time].packet = p
           /\ [Prior(p) EXCEPT !.rf = time] \in EntrySet /\ [Prior(p) EXCEPT !.rf = time].packet = p
           /\ [Prior(p) EXCEPT !.queued = time] \in EntrySet
           /\ [Prior(p) EXCEPT !.queued = time].packet = p
<1>1. Pruned(seen) \in Seq(EntrySet)
  BY PrunedIs DEF SeenOK
<1>2. Prior(p) \in EntrySet /\ Prior(p).packet = p
  BY <1>1, EntryOfIs DEF Prior
<1> QED BY <1>2 DEF EntrySet

LEMMA LookingIsSafe == ASSUME SeenOK, NEW p \in Packets, LookFor(p) PROVE SeenOK'
<1>1. Pruned(seen) \in Seq(EntrySet) /\ Len(Pruned(seen)) <= SeenMax
  BY PrunedIs DEF SeenOK
<1>2. seen' \in Seq(EntrySet) /\ Len(seen') <= Len(Pruned(seen)) + 1
  BY <1>1, WithDefaultIs DEF LookFor
<1>3. Len(seen') \in Nat /\ Len(Pruned(seen)) \in Nat /\ SeenMax \in Nat
  BY <1>1, <1>2, LenProperties, LimitsAssumption
<1> QED BY <1>1, <1>2, <1>3 DEF SeenOK, EntrySet, Stamp, Time

LEMMA NotingIsSafe == ASSUME SeenOK, NEW e \in EntrySet, Note(e) PROVE SeenOK'
<1>1. Pruned(seen) \in Seq(EntrySet) /\ Len(Pruned(seen)) <= SeenMax
  BY PrunedIs DEF SeenOK
<1>2. seen' \in Seq(EntrySet) /\ Len(seen') <= Len(Pruned(seen)) + 1
  BY <1>1, MovedToEndIs DEF Note
<1>3. Len(seen') \in Nat /\ Len(Pruned(seen)) \in Nat /\ SeenMax \in Nat
  BY <1>1, <1>2, LenProperties, LimitsAssumption
<1> QED BY <1>1, <1>2, <1>3 DEF SeenOK, EntrySet, Stamp, Time

\* A flow whose turn it is has a packet to look at.
LEMMA TurnHasPacket == ASSUME FrameOK, NEW f, ItsTurn(f) PROVE frame.packet \in Packets /\ ~LoopIdle
BY DEF FrameOK, ItsTurn, LoopIdle

LEMMA FlowIsDone ==
    ASSUME FrameOK, NEW f \in Flows, NEW marks \in BOOLEAN, ItsTurn(f), FlowDone(f, marks)
    PROVE  FrameOK'
<1>1. frame \in [packet : Packets \cup {"none"}, todo : SUBSET Flows, marked : BOOLEAN]
  BY DEF FrameOK
<1>2. CASE frame.todo = {f}
  <2>1. frame' = NoFrame
    BY <1>2 DEF FlowDone
  <2> QED BY <2>1 DEF FrameOK, NoFrame, LoopIdle
<1>3. CASE frame.todo # {f}
  <2>1. frame' = [frame EXCEPT !.todo = @ \ {f}, !.marked = @ \/ marks]
    BY <1>3 DEF FlowDone
  <2>2. frame'.packet = frame.packet /\ frame.packet \in Packets
    BY <1>1, <2>1, TurnHasPacket
  <2>3. frame.todo \ {f} \in SUBSET Flows /\ (frame.marked \/ marks) \in BOOLEAN
    BY <1>1
  <2>4. frame' = [packet |-> frame.packet, todo |-> frame.todo \ {f}, marked |-> frame.marked \/ marks]
    BY <1>1, <2>1
  <2> QED BY <2>2, <2>3, <2>4 DEF FrameOK, LoopIdle
<1> QED BY <1>2, <1>3

LEMMA FrameStep == ASSUME FrameOK, [Next]_vars PROVE FrameOK'
<1>1. ASSUME NEW p \in Packets, NEW todo \in SUBSET Flows \ {{}}, Receive(p, todo) PROVE FrameOK'
  BY <1>1 DEF Receive, FrameOK, LoopIdle
<1>2. ASSUME NEW f \in Flows, GuardRejects(f) PROVE FrameOK'
  BY <1>2, FlowIsDone DEF GuardRejects
<1>3. ASSUME NEW f \in Flows, GuardDropsDuplicate(f) PROVE FrameOK'
  BY <1>3, FlowIsDone DEF GuardDropsDuplicate
<1>4. ASSUME NEW f \in Flows, FlowDrops(f) PROVE FrameOK'
  BY <1>4, FlowIsDone DEF FlowDrops, GuardMarks
<1>5. ASSUME NEW f \in Flows, NEW route \in AllRoutes, Schedule(f, route) PROVE FrameOK'
  BY <1>5, FlowIsDone DEF Schedule, GuardMarks
<1>6. CASE UNCHANGED frame
  BY <1>6 DEF FrameOK, LoopIdle
<1>7. ASSUME NEW e \in pending,
             GiveUp(e) \/ DropDuplicate(e) \/ DropRateLimited(e) \/ QueueFails(e) \/ QueueToRf(e)
      PROVE  UNCHANGED frame
  BY <1>7 DEF GiveUp, DropDuplicate, DropRateLimited, QueueFails, QueueToRf
<1>8. ASSUME NEW p \in Packets, HearOnRf(p) PROVE UNCHANGED frame
  BY <1>8 DEF HearOnRf
<1>9. ASSUME NEW d \in owesPosition, PositionDebtExpires(d) PROVE UNCHANGED frame
  BY <1>9 DEF PositionDebtExpires
<1>10. CASE Tick \/ UNCHANGED vars
  BY <1>10, <1>6 DEF Tick, vars
<1> QED BY <1>1, <1>2, <1>3, <1>4, <1>5, <1>6, <1>7, <1>8, <1>9, <1>10 DEF Next, AllRoutes

\* Every step leaves the memory alone, looks for a packet, or notes one.
NotesNow(p) ==
    \/ Note([Prior(p) EXCEPT !.is = now])
    \/ Note([Prior(p) EXCEPT !.rf = now])
    \/ Note([Prior(p) EXCEPT !.queued = now])

MemoryMoves ==
    \/ UNCHANGED memory
    \/ \E p \in Packets : now' = now /\ (LookFor(p) \/ NotesNow(p))

LEMMA MemoryMoved == ASSUME FrameOK, PendingOK, [Next]_vars PROVE MemoryMoves
<1>1. ASSUME NEW p \in Packets, NEW todo \in SUBSET Flows \ {{}}, Receive(p, todo) PROVE MemoryMoves
  BY <1>1 DEF Receive, MemoryMoves
<1>2. ASSUME NEW f \in Flows, GuardRejects(f) PROVE MemoryMoves
  BY <1>2 DEF GuardRejects, MemoryMoves
<1>3. ASSUME NEW f \in Flows, GuardDropsDuplicate(f) PROVE MemoryMoves
  BY <1>3, TurnHasPacket DEF GuardDropsDuplicate, MemoryMoves
<1>4. ASSUME NEW f \in Flows, NEW route \in AllRoutes, FlowDrops(f) \/ Schedule(f, route)
      PROVE  MemoryMoves
  <2>1. /\ frame.packet \in Packets /\ Note([Prior(frame.packet) EXCEPT !.is = now])
        /\ now' = now
    BY <1>4, TurnHasPacket DEF FlowDrops, Schedule, GuardMarks, Prior
  <2> QED BY <2>1 DEF MemoryMoves, NotesNow
<1>5. ASSUME NEW p \in Packets, HearOnRf(p) PROVE MemoryMoves
  <2>1. Note([Prior(p) EXCEPT !.rf = now]) /\ now' = now
    BY <1>5 DEF HearOnRf, Prior
  <2> QED BY <2>1 DEF MemoryMoves, NotesNow
<1>6. ASSUME NEW e \in pending, GiveUp(e) PROVE MemoryMoves
  BY <1>6 DEF GiveUp, MemoryMoves
<1>7. ASSUME NEW e \in pending, DropDuplicate(e) \/ DropRateLimited(e) \/ QueueFails(e)
      PROVE  MemoryMoves
  <2>1. e.packet \in Packets /\ LookFor(e.packet) /\ now' = now
    BY <1>7 DEF DropDuplicate, DropRateLimited, QueueFails, PendingOK, WaitingSet
  <2> QED BY <2>1 DEF MemoryMoves
<1>8. ASSUME NEW e \in pending, QueueToRf(e) PROVE MemoryMoves
  <2>1. /\ e.packet \in Packets /\ Note([Prior(e.packet) EXCEPT !.queued = now])
        /\ now' = now
    BY <1>8 DEF QueueToRf, RememberQueued, Prior, PendingOK, WaitingSet
  <2> QED BY <2>1 DEF MemoryMoves, NotesNow
<1>9. ASSUME NEW d \in owesPosition, PositionDebtExpires(d) PROVE MemoryMoves
  BY <1>9 DEF PositionDebtExpires, MemoryMoves
<1>10. CASE Tick \/ UNCHANGED vars
  BY <1>10 DEF Tick, vars, memory, MemoryMoves
<1> QED
  BY <1>1, <1>2, <1>3, <1>4, <1>5, <1>6, <1>7, <1>8, <1>9, <1>10 DEF Next, AllRoutes

LEMMA SeenStep ==
    ASSUME FrameOK, SeenOK, PendingOK, HistoryOK, [Next]_vars
    PROVE  SeenOK'
<1>1. now \in Stamp
  BY Stamps DEF HistoryOK
<1>2. CASE UNCHANGED memory
  BY <1>2 DEF memory, SeenOK, EntrySet, Stamp, Time
<1>3. ASSUME NEW p \in Packets, NotesNow(p) PROVE SeenOK'
  BY <1>1, <1>3, PriorIs, NotingIsSafe DEF NotesNow
<1> QED BY <1>2, <1>3, LookingIsSafe, MemoryMoved DEF MemoryMoves

\* What a packet that was heard on RF does to a pending one.
Woken(e, p) ==
    IF e.packet = p THEN [e EXCEPT !.cancelled = TRUE, !.ready = Min({@, now})] ELSE e

LEMMA WokenIs ==
    ASSUME now \in Time, NEW e \in WaitingSet, NEW p \in Packets
    PROVE  LET w == Woken(e, p)
           IN  /\ w \in WaitingSet
               /\ w.flow = e.flow /\ w.packet = e.packet /\ w.created_at = e.created_at
               /\ w.route = e.route
               /\ e.packet = p => w.ready \in {e.ready, now} /\ w.ready <= now /\ w.ready <= e.ready
               /\ e.packet # p => w = e
<1>1. now \in Nat /\ e.ready \in Nat
  BY Stamps DEF WaitingSet
<1>2. Min({e.ready, now}) \in Nat /\ Min({e.ready, now}) \in {e.ready, now} /\ Min({e.ready, now}) <= now
        /\ Min({e.ready, now}) <= e.ready
  BY <1>1, MinOfTwo
<1>3. CASE e.packet = p
  <2>1. Woken(e, p) = [e EXCEPT !.cancelled = TRUE, !.ready = Min({e.ready, now})]
    BY <1>3 DEF Woken
  <2>2. Woken(e, p) = [flow |-> e.flow, packet |-> e.packet, route |-> e.route,
                       created_at |-> e.created_at, ready |-> Min({e.ready, now}), cancelled |-> TRUE]
    BY <2>1 DEF WaitingSet
  <2>3. e.flow \in Flows /\ e.packet \in Packets /\ e.route \in AllRoutes /\ e.created_at \in Time
    BY DEF WaitingSet
  <2>4. Woken(e, p) \in WaitingSet
    BY <1>2, <2>2, <2>3 DEF WaitingSet
  <2> QED BY <1>2, <1>3, <2>2, <2>4
<1>4. CASE e.packet # p
  BY <1>4 DEF Woken
<1> QED BY <1>3, <1>4

\* Nothing is added to what waits.
LEMMA PendingShrinks ==
    ASSUME PendingOK, PendingOnce, HistoryOK, pending' \subseteq pending, now' \in {now, now + 1}
    PROVE  PendingOK' /\ PendingOnce'
<1>1. IsFiniteSet(pending') /\ Cardinality(pending') <= Cardinality(pending)
  BY FS_Subset DEF PendingOK
<1>2. Cardinality(pending) \in Nat /\ Cardinality(pending') \in Nat /\ PendingMax \in Nat
  BY <1>1, FS_CardinalityType, LimitsAssumption DEF PendingOK
<1>3. \A e \in pending' : e.created_at <= now'
  <2> SUFFICES ASSUME NEW e \in pending' PROVE e.created_at <= now'
    OBVIOUS
  <2>1. e.created_at \in Nat /\ now \in Nat /\ e.created_at <= now
    BY Stamps DEF PendingOK, WaitingSet, HistoryOK
  <2> QED BY <2>1
<1>4. pending' \subseteq WaitingSet /\ Cardinality(pending') <= PendingMax
  BY <1>1, <1>2 DEF PendingOK
<1>5. PendingOnce'
  BY DEF PendingOnce
<1>6. \A e \in pending' : HasRecipient(e) => Recipient[e.packet] # NoStation
  BY DEF PendingOK
<1> QED BY <1>1, <1>3, <1>4, <1>5, <1>6 DEF PendingOK, WaitingSet, Time, HasRecipient

LEMMA ScheduledOnce ==
    ASSUME FrameOK, PendingOK, PendingOnce, HistoryOK,
           NEW f \in Flows, NEW route \in AllRoutes, Schedule(f, route)
    PROVE  PendingOK' /\ PendingOnce'
<1> DEFINE new == [flow |-> f, packet |-> frame.packet, route |-> route, created_at |-> now,
                   ready |-> now + Delay[f], cancelled |-> FALSE]
<1>1. /\ pending' = pending \cup {new} /\ now' = now /\ frame.packet \in Packets
      /\ now \in Time /\ now \in Nat
  BY TurnHasPacket, Stamps DEF Schedule, HistoryOK
<1>2. now + Delay[f] \in Nat
  BY <1>1, TimesAssumption
<1>3. new \in WaitingSet /\ new.packet = frame.packet /\ new.created_at = now
  BY <1>1, <1>2 DEF WaitingSet
<1> HIDE DEF new
<1>4. ~IsPending(f, frame.packet) /\ Cardinality(pending) < PendingMax
  BY DEF Schedule, MayWait
<1>5. IsFiniteSet(pending) /\ Cardinality(pending) \in Nat /\ PendingMax \in Nat
  BY FS_CardinalityType, LimitsAssumption DEF PendingOK
<1>6. IsFiniteSet(pending') /\ Cardinality(pending') <= PendingMax
  <2>1. /\ IsFiniteSet(pending \cup {new})
        /\ Cardinality(pending \cup {new}) = IF new \in pending THEN Cardinality(pending)
                                            ELSE Cardinality(pending) + 1
    BY <1>5, FS_AddElement
  <2> QED BY <1>1, <1>4, <1>5, <2>1
<1>7. \A e \in pending' : e.created_at <= now'
  BY <1>1, <1>3 DEF PendingOK
<1>8. pending' \subseteq WaitingSet
  BY <1>1, <1>3 DEF PendingOK
<1>9. PendingOnce'
  BY <1>1, <1>3, <1>4 DEF PendingOnce, IsPending
<1>10. HasRecipient(new) => Recipient[new.packet] # NoStation
  BY DEF new, HasRecipient, Schedule, Authorized
<1>11. \A e \in pending' : HasRecipient(e) => Recipient[e.packet] # NoStation
  BY <1>1, <1>10 DEF PendingOK
<1> QED BY <1>6, <1>7, <1>8, <1>9, <1>11 DEF PendingOK, WaitingSet, Time, HasRecipient

LEMMA HeardWakes ==
    ASSUME PendingOK, PendingOnce, HistoryOK, NEW p \in Packets, HearOnRf(p)
    PROVE  /\ PendingOK' /\ PendingOnce'
           /\ \A d \in pending' : \E e \in pending : d = Woken(e, p)
<1>1. pending' = {Woken(e, p) : e \in pending} /\ now' = now /\ now \in Time
  BY DEF HearOnRf, Woken, HistoryOK
<1> DEFINE wake == [e \in pending |-> Woken(e, p)]
<1>2. wake \in Surjection(pending, pending')
  BY <1>1 DEF Surjection
<1> HIDE DEF wake
<1>3. IsFiniteSet(pending') /\ Cardinality(pending') <= Cardinality(pending)
  BY <1>2, FS_Surjection DEF PendingOK
<1>4. Cardinality(pending) \in Nat /\ Cardinality(pending') \in Nat /\ PendingMax \in Nat
  BY <1>3, FS_CardinalityType, LimitsAssumption DEF PendingOK
<1>5. \A d \in pending' : \E e \in pending : d = Woken(e, p)
  BY <1>1
<1>6. ASSUME NEW e \in pending
      PROVE  /\ Woken(e, p) \in WaitingSet /\ Woken(e, p).packet = e.packet
             /\ Woken(e, p).created_at = e.created_at /\ e.created_at <= now
  BY <1>1, WokenIs DEF PendingOK
<1>7. pending' \subseteq WaitingSet /\ \A d \in pending' : d.created_at <= now'
  BY <1>1, <1>5, <1>6
<1>8. PendingOnce'
  BY <1>5, <1>6 DEF PendingOnce
<1>9. Cardinality(pending') <= PendingMax
  BY <1>3, <1>4 DEF PendingOK
<1>10. \A d \in pending' : HasRecipient(d) => Recipient[d.packet] # NoStation
  <2> SUFFICES ASSUME NEW e \in pending
               PROVE  HasRecipient(Woken(e, p)) => Recipient[Woken(e, p).packet] # NoStation
    BY <1>5
  <2>1. Woken(e, p).route = e.route /\ Woken(e, p).packet = e.packet
    BY <1>1, WokenIs DEF PendingOK
  <2> QED BY <2>1 DEF PendingOK, HasRecipient
<1> QED BY <1>3, <1>5, <1>7, <1>8, <1>9, <1>10 DEF PendingOK, WaitingSet, Time, HasRecipient

LEMMA PendingStep ==
    ASSUME FrameOK, PendingOK, PendingOnce, HistoryOK, [Next]_vars
    PROVE  PendingOK' /\ PendingOnce'
<1>1. ASSUME NEW p \in Packets, NEW todo \in SUBSET Flows \ {{}}, Receive(p, todo)
      PROVE  UNCHANGED <<pending, now>>
  BY <1>1 DEF Receive
<1>2. ASSUME NEW f \in Flows, GuardRejects(f) \/ GuardDropsDuplicate(f) \/ FlowDrops(f)
      PROVE  UNCHANGED <<pending, now>>
  BY <1>2 DEF GuardRejects, GuardDropsDuplicate, FlowDrops
<1>3. ASSUME NEW e \in pending,
             GiveUp(e) \/ DropDuplicate(e) \/ DropRateLimited(e) \/ QueueFails(e) \/ QueueToRf(e)
      PROVE  pending' \subseteq pending /\ now' = now
  BY <1>3 DEF GiveUp, DropDuplicate, DropRateLimited, QueueFails, QueueToRf, Finishes
<1>4. ASSUME NEW d \in owesPosition, PositionDebtExpires(d) PROVE UNCHANGED <<pending, now>>
  BY <1>4 DEF PositionDebtExpires
<1>5. CASE Tick \/ UNCHANGED vars
  BY <1>5, PendingShrinks DEF Tick, vars
<1>6. CASE pending' \subseteq pending /\ now' = now
  BY <1>6, PendingShrinks
<1> QED
  BY <1>1, <1>2, <1>3, <1>4, <1>5, <1>6, ScheduledOnce, HeardWakes DEF Next, AllRoutes

LEMMA HistoryStep ==
    ASSUME FrameOK, PendingOK, HistoryOK, [Next]_vars
    PROVE  HistoryOK' /\ now' \in {now, now + 1}
<1>1. now \in Time /\ now \in Stamp /\ now \in Nat
  BY Stamps DEF HistoryOK
<1>2. ASSUME NEW p \in Packets, NEW todo \in SUBSET Flows \ {{}}, Receive(p, todo)
      PROVE  UNCHANGED <<now, owesPosition, sent, heard>>
  BY <1>2 DEF Receive
<1>3. ASSUME NEW f \in Flows, GuardRejects(f) \/ GuardDropsDuplicate(f) \/ FlowDrops(f)
      PROVE  UNCHANGED <<now, owesPosition, sent, heard>>
  BY <1>3 DEF GuardRejects, GuardDropsDuplicate, FlowDrops
<1>4. ASSUME NEW f \in Flows, NEW route \in AllRoutes, Schedule(f, route)
      PROVE  UNCHANGED <<now, owesPosition, sent, heard>>
  BY <1>4 DEF Schedule
<1>5. ASSUME NEW e \in pending, GiveUp(e) \/ DropDuplicate(e) \/ DropRateLimited(e) \/ QueueFails(e)
      PROVE  UNCHANGED <<now, owesPosition, sent, heard>>
  BY <1>5 DEF GiveUp, DropDuplicate, DropRateLimited, QueueFails
<1>6. ASSUME NEW p \in Packets, HearOnRf(p)
      PROVE  HistoryOK' /\ now' = now
  <2>1. heard' \in [Packets -> Stamp]
    BY <1>1, <1>6 DEF HearOnRf, HistoryOK
  <2> QED BY <1>6, <2>1 DEF HearOnRf, HistoryOK, Time, Stamp, SentSet
<1>7. ASSUME NEW e \in pending, QueueToRf(e)
      PROVE  HistoryOK' /\ now' = now
  <2> DEFINE new == [flow |-> e.flow, packet |-> e.packet, route |-> e.route,
                     waited |-> e.created_at, at |-> now]
  <2>1. e.flow \in Flows /\ e.packet \in Packets /\ e.route \in AllRoutes /\ e.created_at \in Time
    BY DEF PendingOK, WaitingSet
  <2>2. new \in SentSet
    BY <1>1, <2>1 DEF SentSet
  <2>3. sent' = Append(sent, new) /\ heard' = heard /\ now' = now
    BY <1>7 DEF QueueToRf
  <2> HIDE DEF new
  <2>4. sent' \in Seq(SentSet)
    BY <2>2, <2>3, AppendProperties DEF HistoryOK
  <2>5. <<e.flow, Sender[e.packet]>> \in Flows \X Stations
    BY <2>1, PacketsAssumption
  <2>6. owesPosition' \subseteq Flows \X Stations
    BY <1>7, <2>1, <2>5 DEF QueueToRf, SettlePositionDebt, HistoryOK, AllRoutes, Routes
  <2> QED BY <2>3, <2>4, <2>6 DEF HistoryOK, Time, Stamp, SentSet
<1>8. ASSUME NEW d \in owesPosition, PositionDebtExpires(d)
      PROVE  HistoryOK' /\ now' = now
  BY <1>8 DEF PositionDebtExpires, HistoryOK, Time, Stamp, SentSet
<1>9. CASE Tick
  <2>1. now' \in Time
    BY <1>1, <1>9, TimesAssumption DEF Tick, Time
  <2> QED BY <1>9, <2>1 DEF Tick, HistoryOK, Time, Stamp, SentSet
<1>10. CASE UNCHANGED <<now, owesPosition, sent, heard>>
  BY <1>10 DEF HistoryOK, Time, Stamp, SentSet
<1>11. CASE UNCHANGED vars
  BY <1>10, <1>11 DEF vars
<1> QED
  BY <1>2, <1>3, <1>4, <1>5, <1>6, <1>7, <1>8, <1>9, <1>10, <1>11 DEF Next, AllRoutes

\* A packet is noted with the time of the step, and never with an earlier one.
MetGrows == MetOK /\ MetOK' /\ \A q \in Packets : lastMet[q] <= lastMet'[q]

LEMMA MetStep ==
    ASSUME FrameOK, SeenOK, PendingOK, HistoryOK, MetOK, [Next]_vars
    PROVE  MetGrows
<1>1. now \in Nat /\ now \in Stamp /\ now' \in {now, now + 1}
  BY HistoryStep, Stamps DEF HistoryOK
<1>2. \A q \in Packets : lastMet[q] \in Int /\ lastMet[q] <= now
  BY Stamps DEF MetOK
<1>3. CASE UNCHANGED lastMet
  <2>1. \A q \in Packets : lastMet[q] <= now' /\ lastMet[q] <= lastMet[q]
    BY <1>1, <1>2
  <2> QED BY <1>3, <2>1 DEF MetGrows, MetOK, Stamp, Time
<1>4. ASSUME NEW p \in Packets, NotesNow(p), now' = now PROVE MetGrows
  <2>1. lastMet' = [lastMet EXCEPT ![p] = now]
    BY <1>1, <1>4, PriorIs DEF NotesNow, Note
  <2>2. lastMet' \in [Packets -> Stamp]
    BY <1>1, <2>1 DEF MetOK
  <2>3. ASSUME NEW q \in Packets PROVE lastMet'[q] <= now /\ lastMet[q] <= lastMet'[q]
    <3>1. lastMet'[q] = IF q = p THEN now ELSE lastMet[q]
      BY <2>1 DEF MetOK
    <3> QED BY <1>1, <1>2, <3>1
  <2> QED BY <1>4, <2>2, <2>3 DEF MetGrows, MetOK, Stamp, Time
<1>5. ASSUME NEW p \in Packets, LookFor(p) PROVE UNCHANGED lastMet
  BY <1>5 DEF LookFor
<1> QED BY <1>3, <1>4, <1>5, MemoryMoved DEF MemoryMoves, memory

-----------------------------------------------------------------------------
(* The token buckets.                                                      *)

\* The bucket of a key becomes b: refilled up to now, and cost taken out of it.
Settles(bucket, key, b, rate, burst, cost) ==
    /\ b \in Bucket(burst) /\ b.at = now
    /\ b.tokens + cost <= burst * TOKEN
    /\ b.tokens + cost <= bucket[key].tokens + (now - bucket[key].at) * rate

LEMMA RefilledSettles ==
    ASSUME now \in Time, NEW K, NEW key \in K, NEW rate \in Nat, NEW burst \in Nat,
           NEW bucket \in [K -> Bucket(burst)], bucket[key].at <= now,
           NEW b, b = Refilled(bucket[key], rate, burst)
    PROVE  /\ Settles(bucket, key, b, rate, burst, 0)
           /\ Allows(b) => Settles(bucket, key, Spent(b), rate, burst, TOKEN)
<1> DEFINE gathered == (now - bucket[key].at) * rate
           most == burst * TOKEN
<1>1. /\ bucket[key] \in Bucket(burst) /\ bucket[key].at \in Nat /\ now \in Nat
      /\ TOKEN \in Nat /\ most \in Nat
  <2>1. TOKEN \in Nat
    BY LimitsAssumption
  <2>2. most \in Nat
    BY <2>1
  <2>3. bucket[key] \in Bucket(burst)
    OBVIOUS
  <2>4. bucket[key].at \in Time
    BY <2>3 DEF Bucket
  <2> QED BY <2>1, <2>2, <2>3, <2>4, Stamps
<1>2. bucket[key].tokens \in 0 .. most
  BY <1>1 DEF Bucket
<1>3. gathered \in Nat
  <2>1. now - bucket[key].at \in Nat
    BY <1>1
  <2> QED BY <2>1
<1>4. b = [tokens |-> Min({most, bucket[key].tokens + gathered}), at |-> now]
  BY DEF Refilled
<1> HIDE DEF gathered, most
<1>5. bucket[key].tokens \in Nat /\ bucket[key].tokens + gathered \in Nat
  BY <1>1, <1>2, <1>3
<1>6. /\ b.at = now /\ b.tokens \in 0 .. most
      /\ b.tokens <= most /\ b.tokens <= bucket[key].tokens + gathered
  BY <1>1, <1>4, <1>5, MinOfTwo
<1>7. b \in Bucket(burst)
  BY <1>4, <1>6 DEF Bucket, most
<1>8. Settles(bucket, key, b, rate, burst, 0)
  <2>1. b.tokens + 0 = b.tokens
    BY <1>1, <1>6
  <2> QED BY <1>6, <1>7, <2>1 DEF Settles, gathered, most
<1>9. ASSUME Allows(b) PROVE Settles(bucket, key, Spent(b), rate, burst, TOKEN)
  <2>1. b.tokens >= TOKEN /\ Spent(b) = [tokens |-> b.tokens - TOKEN, at |-> now]
    BY <1>4, <1>9 DEF Allows, Spent
  <2>2. Spent(b).tokens \in 0 .. most /\ Spent(b).tokens + TOKEN = b.tokens /\ Spent(b).at = now
    BY <1>1, <1>6, <2>1
  <2>3. Spent(b) \in Bucket(burst)
    BY <2>1, <2>2 DEF Bucket, most
  <2> QED BY <1>6, <2>2, <2>3 DEF Settles, gathered, most
<1> QED BY <1>8, <1>9

LEMMA SettledIsTyped ==
    ASSUME NEW K, NEW key \in K, NEW rate, NEW burst, NEW cost,
           NEW bucket \in [K -> Bucket(burst)], \A k \in K : bucket[k].at <= now,
           now \in Time,
           NEW b, Settles(bucket, key, b, rate, burst, cost)
    PROVE  /\ [bucket EXCEPT ![key] = b] \in [K -> Bucket(burst)]
           /\ \A k \in K : [bucket EXCEPT ![key] = b][k].at <= now
<1>1. now <= now
  BY Stamps
<1> QED BY <1>1 DEF Settles

LEMMA KeysOf ==
    ASSUME NEW e \in WaitingSet
    PROVE  FlowKey(e) \in FlowKeys /\ SourceKey(e) \in StationKeys
           /\ (HasRecipient(e) /\ Recipient[e.packet] # NoStation => RecipientKey(e) \in StationKeys)
<1>1. e.flow \in Flows /\ RouteOf(e) \in Routes /\ Sender[e.packet] \in Stations
      /\ Recipient[e.packet] \in Stations \cup {NoStation}
  BY PacketsAssumption DEF WaitingSet, RouteOf, Routes
<1> QED BY <1>1 DEF FlowKey, SourceKey, RecipientKey, FlowKeys, StationKeys

\* Multiplication distributes over addition.
LEMMA Distributes ==
    ASSUME NEW a \in Int, NEW x \in Int, NEW y \in Int
    PROVE  a * (x + y) = a * x + a * y /\ y * a = a * y
OBVIOUS

\* What an action of a pending packet does to the buckets: it leaves them alone, it refills
\* those it has looked at, or it takes a token out of each.
FlowSettled(e, cost) ==
    \E b : /\ flowBucket' = [flowBucket EXCEPT ![FlowKey(e)] = b]
           /\ Settles(flowBucket, FlowKey(e), b, FlowRate, FlowBurst, cost)
SourceSettled(e, cost) ==
    \E b : /\ sourceBucket' = [sourceBucket EXCEPT ![SourceKey(e)] = b]
           /\ Settles(sourceBucket, SourceKey(e), b, SourceRate, SourceBurst, cost)
RecipientSettled(e, cost) ==
    \/ recipientBucket' = recipientBucket
    \/ \E b : /\ recipientBucket' = [recipientBucket EXCEPT ![RecipientKey(e)] = b]
              /\ Settles(recipientBucket, RecipientKey(e), b, SourceRate, SourceBurst, cost)

LEMMA RefillSettles ==
    ASSUME PendingOK, BucketsOK, HistoryOK, NEW e \in pending, Refill(e)
    PROVE  FlowSettled(e, 0) /\ SourceSettled(e, 0) /\ RecipientSettled(e, 0)
<1>1. /\ now \in Time /\ e \in WaitingSet
      /\ FlowRate \in Nat /\ FlowBurst \in Nat /\ SourceRate \in Nat /\ SourceBurst \in Nat
  BY LimitsAssumption DEF PendingOK, HistoryOK
<1>2. FlowKey(e) \in FlowKeys /\ SourceKey(e) \in StationKeys
  BY <1>1, KeysOf
<1>3. FlowSettled(e, 0)
  <2>1. flowBucket[FlowKey(e)].at <= now /\ flowBucket \in [FlowKeys -> Bucket(FlowBurst)]
    BY <1>2 DEF BucketsOK
  <2>2. Settles(flowBucket, FlowKey(e), FlowRefilled(e), FlowRate, FlowBurst, 0)
    BY <1>1, <1>2, <2>1, RefilledSettles DEF FlowRefilled
  <2> QED BY <2>2 DEF FlowSettled, Refill
<1>4. SourceSettled(e, 0)
  <2>1. sourceBucket[SourceKey(e)].at <= now /\ sourceBucket \in [StationKeys -> Bucket(SourceBurst)]
    BY <1>2 DEF BucketsOK
  <2>2. Settles(sourceBucket, SourceKey(e), SourceRefilled(e), SourceRate, SourceBurst, 0)
    BY <1>1, <1>2, <2>1, RefilledSettles DEF SourceRefilled
  <2> QED BY <2>2 DEF SourceSettled, Refill
<1>5. RecipientSettled(e, 0)
  <2>1. CASE HasRecipient(e) /\ FlowAndSourceAllow(e)
    <3>1. RecipientKey(e) \in StationKeys
      BY <1>1, <2>1, KeysOf DEF PendingOK
    <3>2. /\ recipientBucket[RecipientKey(e)].at <= now
          /\ recipientBucket \in [StationKeys -> Bucket(SourceBurst)]
      BY <3>1 DEF BucketsOK
    <3>3. Settles(recipientBucket, RecipientKey(e), RecipientRefilled(e), SourceRate, SourceBurst, 0)
      BY <1>1, <3>1, <3>2, RefilledSettles DEF RecipientRefilled
    <3> QED BY <2>1, <3>3 DEF RecipientSettled, Refill
  <2>2. CASE ~(HasRecipient(e) /\ FlowAndSourceAllow(e))
    BY <2>2 DEF RecipientSettled, Refill
  <2> QED BY <2>1, <2>2
<1> QED BY <1>3, <1>4, <1>5

LEMMA SpendSettles ==
    ASSUME PendingOK, BucketsOK, HistoryOK, NEW e \in pending, RateAllows(e), Spend(e)
    PROVE  FlowSettled(e, TOKEN) /\ SourceSettled(e, TOKEN) /\ RecipientSettled(e, TOKEN)
<1>1. /\ now \in Time /\ e \in WaitingSet
      /\ FlowRate \in Nat /\ FlowBurst \in Nat /\ SourceRate \in Nat /\ SourceBurst \in Nat
  BY LimitsAssumption DEF PendingOK, HistoryOK
<1>2. FlowKey(e) \in FlowKeys /\ SourceKey(e) \in StationKeys
  BY <1>1, KeysOf
<1>3. FlowSettled(e, TOKEN)
  <2>1. flowBucket[FlowKey(e)].at <= now /\ flowBucket \in [FlowKeys -> Bucket(FlowBurst)]
    BY <1>2 DEF BucketsOK
  <2>2. Allows(FlowRefilled(e))
    BY DEF RateAllows, FlowAndSourceAllow
  <2>3. Settles(flowBucket, FlowKey(e), Spent(FlowRefilled(e)), FlowRate, FlowBurst, TOKEN)
    BY <1>1, <1>2, <2>1, <2>2, RefilledSettles DEF FlowRefilled
  <2> QED BY <2>3 DEF FlowSettled, Spend
<1>4. SourceSettled(e, TOKEN)
  <2>1. sourceBucket[SourceKey(e)].at <= now /\ sourceBucket \in [StationKeys -> Bucket(SourceBurst)]
    BY <1>2 DEF BucketsOK
  <2>2. Allows(SourceRefilled(e))
    BY DEF RateAllows, FlowAndSourceAllow
  <2>3. Settles(sourceBucket, SourceKey(e), Spent(SourceRefilled(e)), SourceRate, SourceBurst, TOKEN)
    BY <1>1, <1>2, <2>1, <2>2, RefilledSettles DEF SourceRefilled
  <2> QED BY <2>3 DEF SourceSettled, Spend
<1>5. RecipientSettled(e, TOKEN)
  <2>1. CASE HasRecipient(e)
    <3>1. RecipientKey(e) \in StationKeys
      BY <1>1, <2>1, KeysOf DEF PendingOK
    <3>2. /\ recipientBucket[RecipientKey(e)].at <= now
          /\ recipientBucket \in [StationKeys -> Bucket(SourceBurst)]
      BY <3>1 DEF BucketsOK
    <3>3. Allows(RecipientRefilled(e))
      BY <2>1 DEF RateAllows
    <3>4. Settles(recipientBucket, RecipientKey(e), Spent(RecipientRefilled(e)),
                  SourceRate, SourceBurst, TOKEN)
      BY <1>1, <3>1, <3>2, <3>3, RefilledSettles DEF RecipientRefilled
    <3> QED BY <2>1, <3>4 DEF RecipientSettled, Spend
  <2>2. CASE ~HasRecipient(e)
    BY <2>2 DEF RecipientSettled, Spend
  <2> QED BY <2>1, <2>2
<1> QED BY <1>3, <1>4, <1>5

\* Every step settles the buckets of one pending packet or leaves them alone; with every
\* transmission a token is taken out.
NoBucketMoves == UNCHANGED buckets /\ UNCHANGED sent /\ now' \in {now, now + 1}
BucketsSettle(e, cost) ==
    FlowSettled(e, cost) /\ SourceSettled(e, cost) /\ RecipientSettled(e, cost) /\ now' = now
SentNow(e) == sent' = Append(sent, [flow |-> e.flow, packet |-> e.packet, route |-> e.route,
                                    waited |-> e.created_at, at |-> now])

LEMMA BucketsMove ==
    ASSUME PendingOK, BucketsOK, HistoryOK, [Next]_vars
    PROVE  \/ NoBucketMoves
           \/ \E e \in pending : \/ BucketsSettle(e, 0) /\ UNCHANGED sent
                                 \/ BucketsSettle(e, TOKEN) /\ UNCHANGED sent
                                 \/ BucketsSettle(e, TOKEN) /\ SentNow(e)
<1>1. ASSUME NEW p \in Packets, NEW todo \in SUBSET Flows \ {{}}, Receive(p, todo)
      PROVE  NoBucketMoves
  BY <1>1 DEF Receive, NoBucketMoves
<1>2. ASSUME NEW f \in Flows, GuardRejects(f) \/ GuardDropsDuplicate(f) \/ FlowDrops(f)
      PROVE  NoBucketMoves
  BY <1>2 DEF GuardRejects, GuardDropsDuplicate, FlowDrops, NoBucketMoves
<1>3. ASSUME NEW f \in Flows, NEW route \in AllRoutes, Schedule(f, route) PROVE NoBucketMoves
  BY <1>3 DEF Schedule, NoBucketMoves
<1>4. ASSUME NEW p \in Packets, HearOnRf(p) PROVE NoBucketMoves
  BY <1>4 DEF HearOnRf, NoBucketMoves
<1>5. ASSUME NEW e \in pending, GiveUp(e) \/ DropDuplicate(e) PROVE NoBucketMoves
  BY <1>5 DEF GiveUp, DropDuplicate, NoBucketMoves
<1>6. ASSUME NEW e \in pending, DropRateLimited(e) PROVE BucketsSettle(e, 0) /\ UNCHANGED sent
  BY <1>6, RefillSettles DEF DropRateLimited, BucketsSettle
<1>7. ASSUME NEW e \in pending, QueueFails(e) PROVE BucketsSettle(e, TOKEN) /\ UNCHANGED sent
  BY <1>7, SpendSettles DEF QueueFails, BucketsSettle
<1>8. ASSUME NEW e \in pending, QueueToRf(e) PROVE BucketsSettle(e, TOKEN) /\ SentNow(e)
  BY <1>8, SpendSettles DEF QueueToRf, BucketsSettle, SentNow
<1>9. ASSUME NEW d \in owesPosition, PositionDebtExpires(d) PROVE NoBucketMoves
  BY <1>9 DEF PositionDebtExpires, NoBucketMoves
<1>10. CASE Tick \/ UNCHANGED vars
  BY <1>10 DEF Tick, vars, buckets, NoBucketMoves
<1> QED BY <1>1, <1>2, <1>3, <1>4, <1>5, <1>6, <1>7, <1>8, <1>9, <1>10 DEF Next, AllRoutes

LEMMA SettledIsOK ==
    ASSUME PendingOK, BucketsOK, HistoryOK, NEW e \in pending, NEW cost, BucketsSettle(e, cost)
    PROVE  BucketsOK'
<1>1. e \in WaitingSet /\ now \in Time /\ now' = now
  BY DEF PendingOK, HistoryOK, BucketsSettle
<1>2. FlowKey(e) \in FlowKeys /\ SourceKey(e) \in StationKeys
  BY <1>1, KeysOf
<1>3. flowBucket' \in [FlowKeys -> Bucket(FlowBurst)] /\ \A k \in FlowKeys : flowBucket'[k].at <= now'
  BY <1>1, <1>2, SettledIsTyped DEF BucketsOK, BucketsSettle, FlowSettled
<1>4. /\ sourceBucket' \in [StationKeys -> Bucket(SourceBurst)]
      /\ \A k \in StationKeys : sourceBucket'[k].at <= now'
  BY <1>1, <1>2, SettledIsTyped DEF BucketsOK, BucketsSettle, SourceSettled
<1>5. /\ recipientBucket' \in [StationKeys -> Bucket(SourceBurst)]
      /\ \A k \in StationKeys : recipientBucket'[k].at <= now'
  <2>1. CASE recipientBucket' = recipientBucket
    BY <1>1, <2>1 DEF BucketsOK
  <2>2. CASE recipientBucket' # recipientBucket
    <3>1. PICK b : /\ recipientBucket' = [recipientBucket EXCEPT ![RecipientKey(e)] = b]
                   /\ Settles(recipientBucket, RecipientKey(e), b, SourceRate, SourceBurst, cost)
      BY <2>2 DEF BucketsSettle, RecipientSettled
    <3>2. RecipientKey(e) \in StationKeys
      BY <2>2, <3>1 DEF BucketsOK
    <3> QED BY <1>1, <3>1, <3>2, SettledIsTyped DEF BucketsOK
  <2> QED BY <2>1, <2>2
<1> QED BY <1>3, <1>4, <1>5 DEF BucketsOK, Bucket, Time, FlowKeys, StationKeys

LEMMA BucketsStep == ASSUME PendingOK, BucketsOK, HistoryOK, [Next]_vars PROVE BucketsOK'
<1>1. CASE NoBucketMoves
  <2>1. now \in Nat /\ now <= now' /\ now' \in Nat
    BY <1>1, Stamps DEF NoBucketMoves, HistoryOK
  <2>2. ASSUME NEW k \in FlowKeys PROVE flowBucket[k].at <= now'
    <3>1. flowBucket[k].at <= now /\ flowBucket[k].at \in Time
      BY DEF BucketsOK, Bucket
    <3>2. flowBucket[k].at \in Nat
      BY <3>1, Stamps
    <3> QED BY <2>1, <3>1, <3>2
  <2>3. ASSUME NEW k \in StationKeys PROVE sourceBucket[k].at <= now' /\ recipientBucket[k].at <= now'
    <3>1. /\ sourceBucket[k].at <= now /\ sourceBucket[k].at \in Time
          /\ recipientBucket[k].at <= now /\ recipientBucket[k].at \in Time
      BY DEF BucketsOK, Bucket
    <3>2. sourceBucket[k].at \in Nat /\ recipientBucket[k].at \in Nat
      BY <3>1, Stamps
    <3> QED BY <2>1, <3>1, <3>2
  <2> QED BY <1>1, <2>2, <2>3 DEF NoBucketMoves, buckets, BucketsOK, Bucket, Time, FlowKeys, StationKeys
<1>2. ASSUME NEW e \in pending, NEW cost, BucketsSettle(e, cost) PROVE BucketsOK'
  BY <1>2, SettledIsOK
<1> QED BY <1>1, <1>2, BucketsMove

\* The sets of transmissions are finite.
LEMMA LaterIs ==
    ASSUME NEW K, NEW keys \in Seq(K), NEW i \in DOMAIN keys, NEW j \in DOMAIN keys
    PROVE  IsFiniteSet(Later(keys, i, j)) /\ Cardinality(Later(keys, i, j)) \in Nat
<1>1. i \in Int /\ j \in Int
  BY LenProperties
<1>2. IsFiniteSet(i .. j) /\ Later(keys, i, j) \in SUBSET (i .. j)
  BY <1>1, FS_Interval DEF Later
<1>3. IsFiniteSet(Later(keys, i, j))
  BY <1>2, FS_Subset
<1> QED BY <1>3, FS_CardinalityType

\* One more transmission.
Grown(K, keys, key, new, n) ==
    /\ n \in Nat /\ DOMAIN keys = 1 .. n /\ DOMAIN new = 1 .. n + 1 /\ new \in Seq(K)
    /\ Len(new) = n + 1 /\ new[n + 1] = key /\ \A i \in 1 .. n : new[i] = keys[i]
    /\ \A i, j \in 1 .. n : Later(new, i, j) = Later(keys, i, j)
    /\ \A i \in 1 .. n :
         Cardinality(Later(new, i, n + 1)) =
           Cardinality(Later(keys, i, n)) + (IF keys[i] = key THEN 1 ELSE 0)
    /\ Cardinality(Later(new, n + 1, n + 1)) = 1

LEMMA LaterGrows ==
    ASSUME NEW K, NEW keys \in Seq(K), NEW key \in K, NEW new, new = Append(keys, key),
           NEW n, n = Len(keys)
    PROVE  Grown(K, keys, key, new, n)
<1>1. /\ n \in Nat /\ DOMAIN keys = 1 .. n /\ DOMAIN new = 1 .. n + 1 /\ new \in Seq(K)
      /\ Len(new) = n + 1 /\ new[n + 1] = key /\ \A i \in 1 .. n : new[i] = keys[i]
  <2>1. /\ new \in Seq(K) /\ Len(new) = n + 1 /\ new[n + 1] = key
        /\ \A i \in 1 .. n : new[i] = keys[i]
    BY AppendProperties
  <2> QED BY <2>1, LenProperties
<1>2. ASSUME NEW i \in 1 .. n, NEW j \in 1 .. n PROVE Later(new, i, j) = Later(keys, i, j)
  <2>1. \A k \in i .. j : k \in 1 .. n
    BY <1>1
  <2> QED BY <1>1, <2>1 DEF Later
<1>3. ASSUME NEW i \in 1 .. n
      PROVE  Cardinality(Later(new, i, n + 1)) =
               Cardinality(Later(keys, i, n)) + (IF keys[i] = key THEN 1 ELSE 0)
  <2>1. i .. n + 1 = (i .. n) \cup {n + 1} /\ n + 1 \notin i .. n /\ n \in DOMAIN keys
    BY <1>1
  <2>2. \A k \in i .. n : k \in 1 .. n
    BY <1>1
  <2>3. IsFiniteSet(Later(keys, i, n)) /\ Cardinality(Later(keys, i, n)) \in Nat
    BY <1>1, <2>1, LaterIs
  <2>4. n + 1 \notin Later(keys, i, n)
    BY <2>1 DEF Later
  <2>5. CASE keys[i] = key
    <3>1. Later(new, i, n + 1) = Later(keys, i, n) \cup {n + 1}
      BY <1>1, <2>1, <2>2, <2>5 DEF Later
    <3> QED BY <2>3, <2>4, <2>5, <3>1, FS_AddElement
  <2>6. CASE keys[i] # key
    <3>1. Later(new, i, n + 1) = Later(keys, i, n)
      BY <1>1, <2>1, <2>2, <2>6 DEF Later
    <3> QED BY <2>3, <2>6, <3>1
  <2> QED BY <2>5, <2>6
<1>4. Cardinality(Later(new, n + 1, n + 1)) = 1
  <2>1. Later(new, n + 1, n + 1) = {n + 1}
    BY <1>1 DEF Later
  <2> QED BY <2>1, FS_Singleton
<1> QED BY <1>1, <1>2, <1>3, <1>4 DEF Grown

\* The account of one transmission (n is sent under its key from then on, time its own)
\* stays balanced when its bucket is settled.
LEMMA AccountSettles ==
    ASSUME now \in Nat, NEW n \in Nat, NEW time \in Nat, NEW at \in Nat, NEW tokens \in Nat,
           NEW rate \in Nat, NEW burst \in Nat, NEW left \in Nat, NEW cost \in Nat,
           at <= now, time <= at,
           TOKEN * n + tokens <= TOKEN * burst + rate * (at - time),
           left + cost <= tokens + (now - at) * rate
    PROVE  /\ time <= now
           /\ TOKEN * n + cost + left <= TOKEN * burst + rate * (now - time)
<1> DEFINE x == at - time
           y == now - at
<1>1. x \in Nat /\ y \in Nat /\ now - time = x + y
  OBVIOUS
<1>2. TOKEN \in Nat
  BY LimitsAssumption
<1>3. rate * (now - time) = rate * x + rate * y /\ (now - at) * rate = rate * y
  <2> HIDE DEF x, y
  <2>1. rate * (x + y) = rate * x + rate * y /\ y * rate = rate * y
    BY <1>1, Distributes
  <2>2. now - at = y
    BY DEF y
  <2> QED BY <1>1, <2>1, <2>2
<1> DEFINE a == TOKEN * n
           c == TOKEN * burst
           d == rate * x
           h == rate * y
<1>4. a \in Nat /\ c \in Nat /\ d \in Nat /\ h \in Nat
  <2> HIDE DEF x, y
  <2> QED BY <1>1, <1>2
<1>5. a + tokens <= c + d /\ left + cost <= tokens + h
  BY <1>3
<1> HIDE DEF a, c, d, h
<1>6. a + cost + left <= c + (d + h)
  BY <1>4, <1>5
<1> QED BY <1>1, <1>3, <1>6 DEF a, c, d, h

\* Settling a bucket keeps the accounts of all transmissions.
LEMMA LedgerSettles ==
    ASSUME now \in Time, NEW K, NEW key \in K, NEW rate \in Nat, NEW burst \in Nat, NEW cost \in Nat,
           NEW bucket \in [K -> Bucket(burst)], \A k \in K : bucket[k].at <= now,
           NEW keys \in Seq(K), NEW times \in [DOMAIN keys -> Time],
           Ledger(keys, times, bucket, rate, burst),
           NEW b, Settles(bucket, key, b, rate, burst, cost)
    PROVE  /\ Ledger(keys, times, [bucket EXCEPT ![key] = b], rate, burst)
           /\ \A i \in DOMAIN keys :
                keys[i] = key =>
                  /\ times[i] <= now
                  /\ TOKEN * Cardinality(Later(keys, i, Len(keys))) + cost + b.tokens
                       <= TOKEN * burst + rate * (now - times[i])
<1>1. now \in Nat /\ TOKEN \in Nat
  BY Stamps, LimitsAssumption
<1>2. b.at = now /\ b.tokens \in Nat
  <2>1. b \in Bucket(burst)
    BY DEF Settles
  <2> QED BY <1>1, <2>1 DEF Bucket, Settles
<1>3. ASSUME NEW i \in DOMAIN keys, keys[i] = key
      PROVE  /\ times[i] <= now
             /\ TOKEN * Cardinality(Later(keys, i, Len(keys))) + cost + b.tokens
                  <= TOKEN * burst + rate * (now - times[i])
  <2> DEFINE n == Cardinality(Later(keys, i, Len(keys)))
  <2>1. Len(keys) \in DOMAIN keys
    BY LenProperties
  <2>2. n \in Nat
    BY <2>1, LaterIs
  <2>3. times[i] \in Nat
    BY Stamps
  <2>4. bucket[key] \in Bucket(burst)
    OBVIOUS
  <2>5. bucket[key].at \in Time /\ bucket[key].tokens \in 0 .. burst * TOKEN
    BY <2>4 DEF Bucket
  <2>6. bucket[key].at \in Nat /\ bucket[key].tokens \in Nat
    <3>1. burst * TOKEN \in Nat
      BY <1>1
    <3>2. bucket[key].tokens \in Nat
      BY <2>5, <3>1
    <3> QED BY <2>5, <3>2, Stamps
  <2>7. /\ times[i] <= bucket[key].at /\ bucket[key].at <= now
        /\ TOKEN * n + bucket[key].tokens <= TOKEN * burst + rate * (bucket[key].at - times[i])
    BY <1>3 DEF Ledger
  <2>8. b.tokens + cost <= bucket[key].tokens + (now - bucket[key].at) * rate
    BY DEF Settles
  <2> HIDE DEF n
  <2>9. times[i] <= now /\ TOKEN * n + cost + b.tokens <= TOKEN * burst + rate * (now - times[i])
    BY <1>1, <1>2, <2>2, <2>3, <2>6, <2>7, <2>8, AccountSettles
  <2> QED BY <2>9 DEF n
<1>4. Ledger(keys, times, [bucket EXCEPT ![key] = b], rate, burst)
  <2> SUFFICES ASSUME NEW i \in DOMAIN keys
               PROVE  LET c == [bucket EXCEPT ![key] = b][keys[i]]
                      IN  /\ times[i] <= c.at
                          /\ TOKEN * Cardinality(Later(keys, i, Len(keys))) + c.tokens
                               <= TOKEN * burst + rate * (c.at - times[i])
    BY DEF Ledger
  <2>1. keys[i] \in K /\ Len(keys) \in DOMAIN keys
    BY LenProperties, ElementOfSeq
  <2>2. CASE keys[i] # key
    BY <2>1, <2>2 DEF Ledger
  <2>3. CASE keys[i] = key
    <3> DEFINE n == TOKEN * Cardinality(Later(keys, i, Len(keys)))
               most == TOKEN * burst + rate * (now - times[i])
    <3>1. n \in Nat
      BY <1>1, <2>1, LaterIs
    <3>2. now - times[i] \in Int
      <4>1. times[i] \in Nat
        BY Stamps
      <4> QED BY <1>1, <4>1
    <3>3. most \in Int
      BY <1>1, <3>2
    <3>4. n + cost + b.tokens <= most /\ times[i] <= now
      BY <1>3, <2>3
    <3> HIDE DEF n, most
    <3>5. n + b.tokens <= most
      BY <1>2, <3>1, <3>3, <3>4
    <3>6. [bucket EXCEPT ![key] = b][keys[i]] = b
      BY <2>1, <2>3
    <3> QED BY <1>2, <3>4, <3>5, <3>6 DEF n, most
  <2> QED BY <2>2, <2>3
<1> QED BY <1>3, <1>4

\* A transmission for which a token is taken out keeps the accounts, and opens its own.
LEMMA LedgerGrows ==
    ASSUME now \in Time, NEW K, NEW key \in K, NEW rate \in Nat, NEW burst \in Nat,
           NEW bucket \in [K -> Bucket(burst)], \A k \in K : bucket[k].at <= now,
           NEW keys \in Seq(K), NEW times \in [DOMAIN keys -> Time],
           Ledger(keys, times, bucket, rate, burst), Bounded(keys, times, rate, burst),
           NEW b, Settles(bucket, key, b, rate, burst, TOKEN),
           NEW keys2, keys2 = Append(keys, key), NEW times2 \in [DOMAIN keys2 -> Time],
           \A i \in DOMAIN keys : times2[i] = times[i], times2[Len(keys) + 1] = now
    PROVE  /\ Ledger(keys2, times2, [bucket EXCEPT ![key] = b], rate, burst)
           /\ Bounded(keys2, times2, rate, burst)
<1> DEFINE n == Len(keys)
           after == [bucket EXCEPT ![key] = b]
<1>1. now \in Nat /\ TOKEN \in Nat /\ TOKEN * burst \in Nat /\ TOKEN * burst = burst * TOKEN
  <2>1. now \in Nat /\ TOKEN \in Nat
    BY Stamps, LimitsAssumption
  <2> QED BY <2>1, Distributes
<1>2. b.at = now /\ b.tokens \in Nat /\ b.tokens + TOKEN <= TOKEN * burst
  <2>1. b \in Bucket(burst) /\ b.at = now /\ b.tokens + TOKEN <= burst * TOKEN
    BY DEF Settles
  <2>2. b.tokens \in 0 .. burst * TOKEN
    BY <2>1 DEF Bucket
  <2> QED BY <1>1, <2>1, <2>2
<1>3. /\ n \in Nat /\ DOMAIN keys = 1 .. n /\ DOMAIN keys2 = 1 .. n + 1 /\ keys2 \in Seq(K)
      /\ Len(keys2) = n + 1 /\ keys2[n + 1] = key /\ \A i \in 1 .. n : keys2[i] = keys[i]
      /\ \A i, j \in 1 .. n : Later(keys2, i, j) = Later(keys, i, j)
      /\ \A i \in 1 .. n :
           Cardinality(Later(keys2, i, n + 1)) =
             Cardinality(Later(keys, i, n)) + (IF keys[i] = key THEN 1 ELSE 0)
      /\ Cardinality(Later(keys2, n + 1, n + 1)) = 1
  <2>1. Grown(K, keys, key, keys2, n)
    BY LaterGrows
  <2> HIDE DEF n
  <2> QED BY <2>1 DEF Grown
<1>4. /\ Ledger(keys, times, after, rate, burst)
      /\ \A i \in DOMAIN keys :
           keys[i] = key =>
             /\ times[i] <= now
             /\ TOKEN * Cardinality(Later(keys, i, n)) + TOKEN + b.tokens
                  <= TOKEN * burst + rate * (now - times[i])
  BY <1>1, LedgerSettles
<1> HIDE DEF n
<1>5. after[key] = b
  OBVIOUS
<1>6. ASSUME NEW i \in 1 .. n, keys[i] = key
      PROVE  /\ times[i] <= now
             /\ TOKEN * Cardinality(Later(keys2, i, n + 1)) + b.tokens
                  <= TOKEN * burst + rate * (now - times[i])
  <2> DEFINE c == Cardinality(Later(keys, i, n))
  <2>1. n \in DOMAIN keys
    BY <1>3
  <2>2. c \in Nat
    BY <1>3, <2>1, LaterIs
  <2>3. Cardinality(Later(keys2, i, n + 1)) = c + 1
    BY <1>3, <1>6
  <2>4. times[i] <= now /\ TOKEN * c + TOKEN + b.tokens <= TOKEN * burst + rate * (now - times[i])
    BY <1>3, <1>4, <1>6
  <2> HIDE DEF c
  <2>5. TOKEN * (c + 1) = TOKEN * c + TOKEN
    BY <1>1, <2>2, Distributes
  <2> QED BY <2>3, <2>4, <2>5
<1>7. rate * (now - now) = 0
  <2>1. now - now = 0 /\ rate * 0 = 0
    BY <1>1
  <2> QED BY <2>1
<1>8. TOKEN * 1 = TOKEN
  BY <1>1
<1>9. times2[n + 1] = now /\ \A i \in 1 .. n : times2[i] = times[i]
  BY <1>3 DEF n
<1>10. Ledger(keys2, times2, after, rate, burst)
  <2> HIDE DEF after
  <2> SUFFICES ASSUME NEW i \in 1 .. n + 1
               PROVE  /\ times2[i] <= after[keys2[i]].at
                      /\ TOKEN * Cardinality(Later(keys2, i, n + 1)) + after[keys2[i]].tokens
                           <= TOKEN * burst + rate * (after[keys2[i]].at - times2[i])
    BY <1>3 DEF Ledger
  <2>1. CASE i = n + 1
    <3>1. after[keys2[i]] = b /\ times2[i] = now /\ Cardinality(Later(keys2, i, n + 1)) = 1
      BY <1>3, <1>5, <1>9, <2>1
    <3>2. TOKEN * Cardinality(Later(keys2, i, n + 1)) = TOKEN
      BY <1>8, <3>1
    <3>3. rate * (after[keys2[i]].at - times2[i]) = 0
      BY <1>2, <1>7, <3>1
    <3> QED BY <1>1, <1>2, <3>1, <3>2, <3>3
  <2>2. CASE i \in 1 .. n /\ keys[i] = key
    BY <1>2, <1>3, <1>5, <1>6, <1>9, <2>2
  <2>3. CASE i \in 1 .. n /\ keys[i] # key
    <3>1. Cardinality(Later(keys, i, n)) \in Nat
      <4>1. n \in DOMAIN keys /\ i \in DOMAIN keys
        BY <1>3, <2>3
      <4> QED BY <4>1, LaterIs
    <3>2. Cardinality(Later(keys2, i, n + 1)) = Cardinality(Later(keys, i, n))
      BY <1>3, <2>3, <3>1
    <3>3. keys2[i] = keys[i] /\ times2[i] = times[i] /\ Len(keys) = n
      BY <1>3, <1>9, <2>3 DEF n
    <3> QED BY <1>3, <1>4, <2>3, <3>2, <3>3 DEF Ledger
  <2> QED BY <1>3, <2>1, <2>2, <2>3
<1>11. Bounded(keys2, times2, rate, burst)
  <2> SUFFICES ASSUME NEW i \in 1 .. n + 1, NEW j \in 1 .. n + 1, i <= j, keys2[i] = keys2[j]
               PROVE  TOKEN * Cardinality(Later(keys2, i, j))
                        <= TOKEN * burst + rate * (times2[j] - times2[i])
    BY <1>3 DEF Bounded
  <2>1. CASE j \in 1 .. n
    <3>1. i \in 1 .. n
      BY <1>3, <2>1
    <3>2. /\ keys[i] = keys[j] /\ Later(keys2, i, j) = Later(keys, i, j)
          /\ times2[i] = times[i] /\ times2[j] = times[j]
      BY <1>3, <1>9, <2>1, <3>1
    <3> QED BY <1>3, <2>1, <3>1, <3>2 DEF Bounded
  <2>2. CASE j = n + 1 /\ i = n + 1
    <3>1. TOKEN * Cardinality(Later(keys2, i, j)) = TOKEN
      BY <1>3, <1>8, <2>2
    <3>2. rate * (times2[j] - times2[i]) = 0
      BY <1>7, <1>9, <2>2
    <3> QED BY <1>1, <1>2, <3>1, <3>2
  <2>3. CASE j = n + 1 /\ i \in 1 .. n
    <3> DEFINE x == TOKEN * Cardinality(Later(keys2, i, n + 1))
               y == TOKEN * burst + rate * (now - times[i])
    <3>1. keys[i] = key /\ times2[i] = times[i] /\ times2[j] = now
      BY <1>3, <1>9, <2>3
    <3>2. x + b.tokens <= y
      BY <1>6, <2>3, <3>1
    <3>3. x \in Int
      <4>1. Cardinality(Later(keys2, i, n + 1)) \in Nat
        BY <1>3, <2>3, LaterIs
      <4> QED BY <1>1, <4>1
    <3>4. y \in Int
      <4>1. times[i] \in Nat
        BY <1>3, <2>3, Stamps
      <4>2. now - times[i] \in Int
        BY <1>1, <4>1
      <4> QED BY <1>1, <4>2
    <3> HIDE DEF x, y
    <3>5. x <= y
      BY <1>2, <3>2, <3>3, <3>4
    <3> QED BY <2>3, <3>1, <3>5 DEF x, y
  <2> QED BY <1>3, <2>1, <2>2, <2>3
<1> QED BY <1>10, <1>11

\* The keys and times of what has been sent, as sequences of their own.
LEMMA SentKeys ==
    ASSUME HistoryOK
    PROVE  /\ FlowKeysSent \in Seq(FlowKeys) /\ SourceKeysSent \in Seq(StationKeys)
           /\ DOMAIN FlowKeysSent = DOMAIN sent /\ DOMAIN SourceKeysSent = DOMAIN sent
           /\ Len(FlowKeysSent) = Len(sent) /\ Len(SourceKeysSent) = Len(sent)
           /\ TimesSent \in [DOMAIN sent -> Time]
           /\ Len(sent) \in Nat /\ DOMAIN sent = 1 .. Len(sent)
<1>1. Len(sent) \in Nat /\ DOMAIN sent = 1 .. Len(sent)
  BY LenProperties DEF HistoryOK
<1>2. ASSUME NEW i \in DOMAIN sent
      PROVE  FlowKey(sent[i]) \in FlowKeys /\ SourceKey(sent[i]) \in StationKeys /\ sent[i].at \in Time
  <2>1. sent[i] \in SentSet
    BY <1>1, ElementOfSeq DEF HistoryOK
  <2>2. /\ sent[i].flow \in Flows /\ sent[i].packet \in Packets /\ sent[i].at \in Time
        /\ RouteOf(sent[i]) \in Routes
    BY <2>1 DEF SentSet, RouteOf, Routes
  <2>3. Sender[sent[i].packet] \in Stations
    BY <2>2, PacketsAssumption
  <2> QED BY <2>2, <2>3 DEF FlowKey, SourceKey, FlowKeys, StationKeys
<1>3. FlowKeysSent \in [1 .. Len(sent) -> FlowKeys] /\ SourceKeysSent \in [1 .. Len(sent) -> StationKeys]
  BY <1>1, <1>2 DEF FlowKeysSent, SourceKeysSent
<1>4. TimesSent \in [DOMAIN sent -> Time]
  BY <1>2 DEF TimesSent
<1> QED BY <1>1, <1>3, <1>4

LEMMA SentGrows ==
    ASSUME HistoryOK, HistoryOK', PendingOK, NEW e \in pending, SentNow(e)
    PROVE  /\ FlowKeysSent' = Append(FlowKeysSent, FlowKey(e))
           /\ SourceKeysSent' = Append(SourceKeysSent, SourceKey(e))
           /\ TimesSent' \in [DOMAIN sent' -> Time]
           /\ \A i \in DOMAIN sent : TimesSent'[i] = TimesSent[i]
           /\ TimesSent'[Len(sent) + 1] = now
<1> DEFINE new == [flow |-> e.flow, packet |-> e.packet, route |-> e.route,
                   waited |-> e.created_at, at |-> now]
           n == Len(sent)
<1>1. /\ n \in Nat /\ DOMAIN sent = 1 .. n /\ sent \in Seq(SentSet)
      /\ FlowKeysSent \in Seq(FlowKeys) /\ Len(FlowKeysSent) = n
      /\ SourceKeysSent \in Seq(StationKeys) /\ Len(SourceKeysSent) = n
  BY SentKeys DEF HistoryOK
<1>2. e \in WaitingSet /\ FlowKey(e) \in FlowKeys /\ SourceKey(e) \in StationKeys
  BY KeysOf DEF PendingOK
<1>3. FlowKey(new) = FlowKey(e) /\ SourceKey(new) = SourceKey(e) /\ new.at = now
  BY DEF FlowKey, SourceKey, RouteOf
<1>4. new \in SentSet
  BY <1>2 DEF WaitingSet, SentSet, HistoryOK
<1>5. sent' = Append(sent, new)
  BY DEF SentNow
<1> HIDE DEF new
<1>6. Len(sent') = n + 1 /\ sent'[n + 1] = new /\ \A i \in 1 .. n : sent'[i] = sent[i]
  BY <1>1, <1>4, <1>5, AppendProperties
<1>7. DOMAIN sent' = 1 .. n + 1 /\ sent' \in Seq(SentSet)
  BY <1>1, <1>4, <1>5, <1>6, AppendProperties, LenProperties
<1>8. \A i \in 1 .. n : i \in 1 .. n + 1
  BY <1>1
<1>9. FlowKeysSent' = Append(FlowKeysSent, FlowKey(e))
  <2> DEFINE a == Append(FlowKeysSent, FlowKey(e))
  <2>1. /\ a \in Seq(FlowKeys) /\ Len(a) = n + 1 /\ a[n + 1] = FlowKey(e)
        /\ \A i \in 1 .. n : a[i] = FlowKeysSent[i]
    BY <1>1, <1>2, AppendProperties
  <2> HIDE DEF a
  <2>2. a \in [1 .. n + 1 -> FlowKeys]
    BY <2>1, LenProperties
  <2>3. FlowKeysSent' = [i \in 1 .. n + 1 |-> FlowKey(sent'[i])]
    BY <1>7 DEF FlowKeysSent, FlowKey, RouteOf
  <2>4. ASSUME NEW i \in 1 .. n + 1 PROVE FlowKey(sent'[i]) = a[i]
    <3>1. CASE i = n + 1
      BY <1>3, <1>6, <2>1, <3>1
    <3>2. CASE i \in 1 .. n
      BY <1>1, <1>6, <2>1, <3>2 DEF FlowKeysSent
    <3> QED BY <1>1, <3>1, <3>2
  <2>5. FlowKeysSent' = a
    BY <2>2, <2>3, <2>4
  <2> QED BY <2>5 DEF a
<1>10. SourceKeysSent' = Append(SourceKeysSent, SourceKey(e))
  <2> DEFINE a == Append(SourceKeysSent, SourceKey(e))
  <2>1. /\ a \in Seq(StationKeys) /\ Len(a) = n + 1 /\ a[n + 1] = SourceKey(e)
        /\ \A i \in 1 .. n : a[i] = SourceKeysSent[i]
    BY <1>1, <1>2, AppendProperties
  <2> HIDE DEF a
  <2>2. a \in [1 .. n + 1 -> StationKeys]
    BY <2>1, LenProperties
  <2>3. SourceKeysSent' = [i \in 1 .. n + 1 |-> SourceKey(sent'[i])]
    BY <1>7 DEF SourceKeysSent, SourceKey, RouteOf
  <2>4. ASSUME NEW i \in 1 .. n + 1 PROVE SourceKey(sent'[i]) = a[i]
    <3>1. CASE i = n + 1
      BY <1>3, <1>6, <2>1, <3>1
    <3>2. CASE i \in 1 .. n
      BY <1>1, <1>6, <2>1, <3>2 DEF SourceKeysSent
    <3> QED BY <1>1, <3>1, <3>2
  <2>5. SourceKeysSent' = a
    BY <2>2, <2>3, <2>4
  <2> QED BY <2>5 DEF a
<1>11. TimesSent' = [i \in DOMAIN sent' |-> sent'[i].at]
  BY DEF TimesSent
<1>12. \A i \in DOMAIN sent' : sent'[i].at \in Time
  <2>1. \A i \in 1 .. n + 1 : sent'[i] \in SentSet
    BY <1>6, <1>7, ElementOfSeq
  <2> QED BY <1>7, <2>1 DEF SentSet
<1>13. TimesSent' \in [DOMAIN sent' -> Time]
  BY <1>11, <1>12
<1>14. n + 1 \in DOMAIN sent'
  BY <1>1, <1>7
<1>15. TimesSent'[n + 1] = now
  BY <1>3, <1>6, <1>11, <1>14
<1>16. \A i \in DOMAIN sent : TimesSent'[i] = TimesSent[i]
  BY <1>1, <1>6, <1>7, <1>8, <1>11 DEF TimesSent
<1> QED BY <1>9, <1>10, <1>13, <1>15, <1>16

LEMMA FlowRatesStep ==
    ASSUME PendingOK, BucketsOK, HistoryOK, HistoryOK', FlowRates, [Next]_vars
    PROVE  FlowRates'
<1>1. /\ now \in Time /\ FlowRate \in Nat /\ FlowBurst \in Nat /\ TOKEN \in Nat /\ 0 \in Nat
      /\ flowBucket \in [FlowKeys -> Bucket(FlowBurst)] /\ \A k \in FlowKeys : flowBucket[k].at <= now
      /\ FlowKeysSent \in Seq(FlowKeys) /\ TimesSent \in [DOMAIN FlowKeysSent -> Time]
      /\ DOMAIN FlowKeysSent = DOMAIN sent /\ Len(FlowKeysSent) = Len(sent)
  BY SentKeys, LimitsAssumption DEF BucketsOK, HistoryOK
<1>2. /\ Ledger(FlowKeysSent, TimesSent, flowBucket, FlowRate, FlowBurst)
      /\ Bounded(FlowKeysSent, TimesSent, FlowRate, FlowBurst)
  BY DEF FlowRates
<1>3. ASSUME UNCHANGED sent PROVE FlowKeysSent' = FlowKeysSent /\ TimesSent' = TimesSent
  BY <1>3 DEF FlowKeysSent, TimesSent, FlowKey, RouteOf
<1>4. CASE NoBucketMoves
  BY <1>2, <1>3, <1>4 DEF NoBucketMoves, buckets, FlowRates
<1>5. ASSUME NEW e \in pending, NEW cost \in Nat, BucketsSettle(e, cost), UNCHANGED sent PROVE FlowRates'
  <2>1. FlowKey(e) \in FlowKeys
    BY KeysOf DEF PendingOK
  <2>2. PICK b : /\ flowBucket' = [flowBucket EXCEPT ![FlowKey(e)] = b]
                 /\ Settles(flowBucket, FlowKey(e), b, FlowRate, FlowBurst, cost)
    BY <1>5 DEF BucketsSettle, FlowSettled
  <2>3. Ledger(FlowKeysSent, TimesSent, flowBucket', FlowRate, FlowBurst)
    BY <1>1, <1>2, <2>1, <2>2, LedgerSettles
  <2> QED BY <1>2, <1>3, <1>5, <2>3 DEF FlowRates
<1>6. ASSUME NEW e \in pending, BucketsSettle(e, TOKEN), SentNow(e) PROVE FlowRates'
  <2>1. FlowKey(e) \in FlowKeys
    BY KeysOf DEF PendingOK
  <2>2. PICK b : /\ flowBucket' = [flowBucket EXCEPT ![FlowKey(e)] = b]
                 /\ Settles(flowBucket, FlowKey(e), b, FlowRate, FlowBurst, TOKEN)
    BY <1>6 DEF BucketsSettle, FlowSettled
  <2>3. /\ FlowKeysSent' = Append(FlowKeysSent, FlowKey(e))
        /\ TimesSent' \in [DOMAIN FlowKeysSent' -> Time]
        /\ \A i \in DOMAIN FlowKeysSent : TimesSent'[i] = TimesSent[i]
        /\ TimesSent'[Len(FlowKeysSent) + 1] = now
    <3>1. DOMAIN FlowKeysSent' = DOMAIN sent'
      BY DEF FlowKeysSent
    <3> QED BY <1>1, <1>6, <3>1, SentGrows
  <2>4. /\ Ledger(FlowKeysSent', TimesSent', flowBucket', FlowRate, FlowBurst)
        /\ Bounded(FlowKeysSent', TimesSent', FlowRate, FlowBurst)
    BY <1>1, <1>2, <2>1, <2>2, <2>3, LedgerGrows
  <2> QED BY <2>4 DEF FlowRates
<1> QED BY <1>1, <1>4, <1>5, <1>6, BucketsMove

LEMMA SourceRatesStep ==
    ASSUME PendingOK, BucketsOK, HistoryOK, HistoryOK', SourceRates, [Next]_vars
    PROVE  SourceRates'
<1>1. /\ now \in Time /\ SourceRate \in Nat /\ SourceBurst \in Nat /\ TOKEN \in Nat /\ 0 \in Nat
      /\ sourceBucket \in [StationKeys -> Bucket(SourceBurst)]
      /\ \A k \in StationKeys : sourceBucket[k].at <= now
      /\ SourceKeysSent \in Seq(StationKeys) /\ TimesSent \in [DOMAIN SourceKeysSent -> Time]
      /\ DOMAIN SourceKeysSent = DOMAIN sent /\ Len(SourceKeysSent) = Len(sent)
  BY SentKeys, LimitsAssumption DEF BucketsOK, HistoryOK
<1>2. /\ Ledger(SourceKeysSent, TimesSent, sourceBucket, SourceRate, SourceBurst)
      /\ Bounded(SourceKeysSent, TimesSent, SourceRate, SourceBurst)
  BY DEF SourceRates
<1>3. ASSUME UNCHANGED sent PROVE SourceKeysSent' = SourceKeysSent /\ TimesSent' = TimesSent
  BY <1>3 DEF SourceKeysSent, TimesSent, SourceKey, RouteOf
<1>4. CASE NoBucketMoves
  BY <1>2, <1>3, <1>4 DEF NoBucketMoves, buckets, SourceRates
<1>5. ASSUME NEW e \in pending, NEW cost \in Nat, BucketsSettle(e, cost), UNCHANGED sent PROVE SourceRates'
  <2>1. SourceKey(e) \in StationKeys
    BY KeysOf DEF PendingOK
  <2>2. PICK b : /\ sourceBucket' = [sourceBucket EXCEPT ![SourceKey(e)] = b]
                 /\ Settles(sourceBucket, SourceKey(e), b, SourceRate, SourceBurst, cost)
    BY <1>5 DEF BucketsSettle, SourceSettled
  <2>3. Ledger(SourceKeysSent, TimesSent, sourceBucket', SourceRate, SourceBurst)
    BY <1>1, <1>2, <2>1, <2>2, LedgerSettles
  <2> QED BY <1>2, <1>3, <1>5, <2>3 DEF SourceRates
<1>6. ASSUME NEW e \in pending, BucketsSettle(e, TOKEN), SentNow(e) PROVE SourceRates'
  <2>1. SourceKey(e) \in StationKeys
    BY KeysOf DEF PendingOK
  <2>2. PICK b : /\ sourceBucket' = [sourceBucket EXCEPT ![SourceKey(e)] = b]
                 /\ Settles(sourceBucket, SourceKey(e), b, SourceRate, SourceBurst, TOKEN)
    BY <1>6 DEF BucketsSettle, SourceSettled
  <2>3. /\ SourceKeysSent' = Append(SourceKeysSent, SourceKey(e))
        /\ TimesSent' \in [DOMAIN SourceKeysSent' -> Time]
        /\ \A i \in DOMAIN SourceKeysSent : TimesSent'[i] = TimesSent[i]
        /\ TimesSent'[Len(SourceKeysSent) + 1] = now
    <3>1. DOMAIN SourceKeysSent' = DOMAIN sent'
      BY DEF SourceKeysSent
    <3> QED BY <1>1, <1>6, <3>1, SentGrows
  <2>4. /\ Ledger(SourceKeysSent', TimesSent', sourceBucket', SourceRate, SourceBurst)
        /\ Bounded(SourceKeysSent', TimesSent', SourceRate, SourceBurst)
    BY <1>1, <1>2, <2>1, <2>2, <2>3, LedgerGrows
  <2> QED BY <2>4 DEF SourceRates
<1> QED BY <1>1, <1>4, <1>5, <1>6, BucketsMove

\* The account of the keys is the property that the run checks.
LEMMA RatesAreBounded == ASSUME HistoryOK, FlowRates, SourceRates PROVE RatesBounded
<1>1. /\ Len(sent) \in Nat /\ DOMAIN sent = 1 .. Len(sent)
      /\ DOMAIN FlowKeysSent = DOMAIN sent /\ DOMAIN SourceKeysSent = DOMAIN sent
  BY SentKeys
<1>2. ASSUME NEW i \in DOMAIN sent, NEW j \in DOMAIN sent
      PROVE  /\ Later(FlowKeysSent, i, j) = {k \in i .. j : FlowKey(sent[k]) = FlowKey(sent[i])}
             /\ Later(SourceKeysSent, i, j) = {k \in i .. j : SourceKey(sent[k]) = SourceKey(sent[i])}
  <2>1. \A k \in i .. j : k \in DOMAIN sent
    BY <1>1
  <2> QED BY <2>1 DEF Later, FlowKeysSent, SourceKeysSent
<1>3. RateBounded(FlowKey, FlowRate, FlowBurst)
  <2> SUFFICES ASSUME NEW i \in DOMAIN sent, NEW j \in DOMAIN sent,
                      i <= j, FlowKey(sent[i]) = FlowKey(sent[j])
               PROVE  TOKEN * Cardinality({k \in i .. j : FlowKey(sent[k]) = FlowKey(sent[i])})
                        <= TOKEN * FlowBurst + FlowRate * (sent[j].at - sent[i].at)
    BY DEF RateBounded
  <2>1. FlowKeysSent[i] = FlowKeysSent[j] /\ TimesSent[i] = sent[i].at /\ TimesSent[j] = sent[j].at
    BY DEF FlowKeysSent, TimesSent
  <2> QED BY <1>1, <1>2, <2>1 DEF FlowRates, Bounded
<1>4. RateBounded(SourceKey, SourceRate, SourceBurst)
  <2> SUFFICES ASSUME NEW i \in DOMAIN sent, NEW j \in DOMAIN sent,
                      i <= j, SourceKey(sent[i]) = SourceKey(sent[j])
               PROVE  TOKEN * Cardinality({k \in i .. j : SourceKey(sent[k]) = SourceKey(sent[i])})
                        <= TOKEN * SourceBurst + SourceRate * (sent[j].at - sent[i].at)
    BY DEF RateBounded
  <2>1. SourceKeysSent[i] = SourceKeysSent[j] /\ TimesSent[i] = sent[i].at /\ TimesSent[j] = sent[j].at
    BY DEF SourceKeysSent, TimesSent
  <2> QED BY <1>1, <1>2, <2>1 DEF SourceRates, Bounded
<1> QED BY <1>3, <1>4 DEF RatesBounded

-----------------------------------------------------------------------------
(* The invariant and the theorems that need nothing of the memory.         *)

LEMMA Initially == Init => IndInv
<1> SUFFICES ASSUME Init PROVE IndInv
  OBVIOUS
<1>1. now \in Time /\ now = 0
  BY TimesAssumption DEF Init, Time
<1>2. FrameOK
  BY DEF Init, FrameOK, NoFrame, LoopIdle
<1>3. SeenOK
  <2>1. SeenMax \in Nat
    BY LimitsAssumption
  <2> QED BY <2>1, EmptySeq DEF Init, SeenOK
<1>4. PendingOK /\ PendingOnce
  <2>1. PendingMax \in Nat
    BY LimitsAssumption
  <2> QED BY <2>1, FS_EmptySet DEF Init, PendingOK, PendingOnce
<1>5. BucketsOK
  <2>1. [tokens |-> FlowBurst * TOKEN, at |-> 0] \in Bucket(FlowBurst)
    <3>1. FlowBurst * TOKEN \in 0 .. FlowBurst * TOKEN
      BY LimitsAssumption
    <3> QED BY <1>1, <3>1 DEF Bucket
  <2>2. [tokens |-> SourceBurst * TOKEN, at |-> 0] \in Bucket(SourceBurst)
    <3>1. SourceBurst * TOKEN \in 0 .. SourceBurst * TOKEN
      BY LimitsAssumption
    <3> QED BY <1>1, <3>1 DEF Bucket
  <2>3. flowBucket \in [FlowKeys -> Bucket(FlowBurst)] /\ \A k \in FlowKeys : flowBucket[k].at <= now
    BY <1>1, <2>1 DEF Init, FlowKeys
  <2>4. /\ sourceBucket \in [StationKeys -> Bucket(SourceBurst)]
        /\ \A k \in StationKeys : sourceBucket[k].at <= now
    BY <1>1, <2>2 DEF Init, StationKeys
  <2> QED BY <2>3, <2>4 DEF Init, BucketsOK
<1>6. HistoryOK /\ MetOK
  <2>1. HistoryOK
    BY <1>1, EmptySeq, Stamps DEF Init, HistoryOK
  <2>2. Never <= now
    BY <1>1 DEF Never
  <2> QED BY <2>1, <2>2, Stamps DEF Init, MetOK
<1>7. DOMAIN sent = {}
  BY EmptySeq DEF Init
<1>8. FlowRates /\ SourceRates
  BY <1>7 DEF FlowRates, SourceRates, Ledger, Bounded, FlowKeysSent, SourceKeysSent
<1> QED BY <1>2, <1>3, <1>4, <1>5, <1>6, <1>8 DEF IndInv

LEMMA Inductive == IndInv /\ [Next]_vars => IndInv'
BY FrameStep, SeenStep, PendingStep, BucketsStep, HistoryStep, MetStep, FlowRatesStep, SourceRatesStep
   DEF IndInv, MetGrows

LEMMA Invariant == Spec => []IndInv
BY Initially, Inductive, PTL DEF Spec

\* Every memory of the gate holds what the code puts there, within its limits: no more
\* packets are remembered or pending, and no more tokens in a bucket, than the code allows.
THEOREM TypeCorrect == Spec => []TypeOK
<1>1. IndInv => TypeOK
  BY DEF IndInv, TypeOK, FrameOK, SeenOK, PendingOK, BucketsOK, HistoryOK, MetOK, EntrySet, WaitingSet,
         SentSet, AllRoutes, FlowKeys, StationKeys
<1> QED BY <1>1, Invariant, PTL

\* A packet waits at most once in the viscous delay, whatever flows it matches and however
\* often APRS-IS delivers it.
THEOREM WaitsOnce == Spec => []PendingOnce
<1>1. IndInv => PendingOnce
  BY DEF IndInv
<1> QED BY <1>1, Invariant, PTL

\* The TX guard protects the radio channel: a stretch of transmissions of one flow, or of
\* one source in a flow, costs no more than a full bucket and what it gathered meanwhile.
THEOREM ChannelIsProtected == Spec => []RatesBounded
<1>1. IndInv => RatesBounded
  BY RatesAreBounded DEF IndInv
<1> QED BY <1>1, Invariant, PTL

-----------------------------------------------------------------------------
(* What the memory keeps.                                                  *)

\* The entry that is noted now is the newest.
LEMMA NotedIsNewest ==
    ASSUME SeenOK, HistoryOK, MetOK, Noted, NEW p \in Packets
    PROVE  /\ LastTime([Prior(p) EXCEPT !.is = now]) = now
           /\ LastTime([Prior(p) EXCEPT !.rf = now]) = now
           /\ LastTime([Prior(p) EXCEPT !.queued = now]) = now
<1> DEFINE e == Prior(p)
<1>1. now \in Int /\ Never <= now
  BY Stamps, NeverIsFirst DEF HistoryOK
<1>2. ASSUME NEW i \in DOMAIN seen PROVE LastTime(seen[i]) <= now
  <2>1. seen[i] \in EntrySet
    BY LenProperties, ElementOfSeq DEF SeenOK
  <2>2. LastTime(seen[i]) \in Int /\ lastMet[seen[i].packet] \in Int
    BY <2>1, LastTimeIs, Stamps DEF EntrySet, MetOK
  <2>3. LastTime(seen[i]) <= lastMet[seen[i].packet] /\ lastMet[seen[i].packet] <= now
    BY <2>1 DEF Noted, MetOK, EntrySet
  <2> QED BY <1>1, <2>2, <2>3
<1>3. e \in EntrySet /\ LastTime(e) <= now
  <2>1. /\ Pruned(seen) \in Seq(EntrySet)
        /\ \A k \in DOMAIN Pruned(seen) : \E i \in DOMAIN seen : Pruned(seen)[k] = seen[i]
    BY PrunedIs DEF SeenOK
  <2>2. e = NewSeen(p) \/ \E k \in DOMAIN Pruned(seen) : e = Pruned(seen)[k]
    BY <2>1, EntryOfIs DEF Prior
  <2>3. e \in EntrySet
    BY <2>1, EntryOfIs DEF Prior
  <2> QED BY <1>1, <1>2, <2>1, <2>2, <2>3, NewSeenIs
<1> HIDE DEF e
<1>4. /\ e.is \in Int /\ e.rf \in Int /\ e.queued \in Int
      /\ e.is <= now /\ e.rf <= now /\ e.queued <= now
  <2>1. e.is \in Int /\ e.rf \in Int /\ e.queued \in Int
    BY <1>3, Stamps DEF EntrySet
  <2>2. LastTime(e) \in Int /\ e.is <= LastTime(e) /\ e.rf <= LastTime(e) /\ e.queued <= LastTime(e)
    BY <1>3, LastTimeIs, Stamps
  <2> QED BY <1>1, <1>3, <2>1, <2>2
<1>5. /\ Max({now, e.rf, e.queued}) = now /\ Max({e.is, now, e.queued}) = now
      /\ Max({e.is, e.rf, now}) = now
  <2>0. ASSUME NEW a \in Int, NEW b \in Int, NEW c \in Int, now \in {a, b, c},
               a <= now, b <= now, c <= now
        PROVE  Max({a, b, c}) = now
    <3>1. Max({a, b, c}) \in {a, b, c} /\ a <= Max({a, b, c}) /\ b <= Max({a, b, c}) /\ c <= Max({a, b, c})
      BY MaxOfThree
    <3> QED BY <1>1, <2>0, <3>1
  <2>1. Max({now, e.rf, e.queued}) = now
    BY <1>1, <1>4, <2>0
  <2>2. Max({e.is, now, e.queued}) = now
    BY <1>1, <1>4, <2>0
  <2>3. Max({e.is, e.rf, now}) = now
    BY <1>1, <1>4, <2>0
  <2> QED BY <2>1, <2>2, <2>3
<1>6. /\ LastTime([e EXCEPT !.is = now]) = now /\ LastTime([e EXCEPT !.rf = now]) = now
      /\ LastTime([e EXCEPT !.queued = now]) = now
  <2>1. LastTime([e EXCEPT !.is = now]) = Max({now, e.rf, e.queued})
    BY <1>3 DEF LastTime, EntrySet
  <2>2. LastTime([e EXCEPT !.rf = now]) = Max({e.is, now, e.queued})
    BY <1>3 DEF LastTime, EntrySet
  <2>3. LastTime([e EXCEPT !.queued = now]) = Max({e.is, e.rf, now})
    BY <1>3 DEF LastTime, EntrySet
  <2> QED BY <1>5, <2>1, <2>2, <2>3
<1> QED BY <1>6 DEF e

\* No packet has two entries, and the entries lie in the order of their times.
LEMMA OrderStep ==
    ASSUME FrameOK, SeenOK, PendingOK, HistoryOK, MetOK, InOrder, [Next]_vars
    PROVE  InOrder'
<1> DEFINE pruned == Pruned(seen)
<1>1. now \in Stamp /\ now \in Int
  BY Stamps DEF HistoryOK
<1>2. /\ pruned \in Seq(EntrySet) /\ Unique(pruned) /\ Sorted(pruned)
      /\ \A k \in DOMAIN pruned : \E i \in DOMAIN seen : pruned[k] = seen[i]
  BY PrunedIs DEF SeenOK, InOrder
<1> HIDE DEF pruned
<1>3. ASSUME NEW k \in DOMAIN pruned
      PROVE  /\ pruned[k] \in EntrySet /\ pruned[k].packet \in Packets
             /\ LastTime(pruned[k]) <= lastMet[pruned[k].packet] /\ LastTime(pruned[k]) <= now
  <2>1. pruned[k] \in EntrySet
    BY <1>2, LenProperties, ElementOfSeq
  <2>4. pruned[k].packet \in Packets
    BY <2>1 DEF EntrySet
  <2>2. LastTime(pruned[k]) <= lastMet[pruned[k].packet]
    BY <1>2 DEF InOrder, Noted
  <2>3. /\ LastTime(pruned[k]) \in Int /\ lastMet[pruned[k].packet] \in Int
        /\ lastMet[pruned[k].packet] <= now
    BY <2>1, <2>4, LastTimeIs, Stamps DEF MetOK
  <2> QED BY <1>1, <2>1, <2>2, <2>3, <2>4
<1>4. ASSUME NEW p \in Packets, LookFor(p) PROVE InOrder'
  <2>1. seen' = WithDefault(pruned, p) /\ lastMet' = lastMet
    BY <1>4 DEF LookFor, pruned
  <2>2. /\ Unique(seen') /\ Sorted(seen')
        /\ \A k \in DOMAIN seen' : seen'[k] = NewSeen(p) \/ \E i \in DOMAIN pruned : seen'[k] = pruned[i]
    BY <1>2, <2>1, WithDefaultIs
  <2>3. LastTime(NewSeen(p)) <= lastMet[NewSeen(p).packet]
    BY NewSeenIs, NeverIsFirst DEF MetOK
  <2>4. \A k \in DOMAIN seen' : LastTime(seen'[k]) <= lastMet'[seen'[k].packet]
    BY <1>3, <2>1, <2>2, <2>3
  <2> QED BY <2>2, <2>4 DEF InOrder, Noted, Unique, Sorted
<1>5. ASSUME NEW e \in EntrySet, Note(e), LastTime(e) = now PROVE InOrder'
  <2>1. /\ seen' = MovedToEnd(pruned, e) /\ e.packet \in Packets
        /\ lastMet' = [lastMet EXCEPT ![e.packet] = now]
    BY <1>5 DEF Note, pruned, EntrySet
  <2>2. \A k \in DOMAIN pruned : LastTime(pruned[k]) <= LastTime(e)
    BY <1>3, <1>5
  <2>3. Unique(seen') /\ Sorted(seen')
    BY <1>2, <2>1, <2>2, MovedToEndIs
  <2>6. \A k \in DOMAIN seen' :
          \/ seen'[k] = e
          \/ \E i \in DOMAIN pruned : seen'[k] = pruned[i] /\ pruned[i].packet # e.packet
    BY <1>2, <2>1, MovedToEndIs
  <2>4. lastMet'[e.packet] = now /\ \A q \in Packets : q # e.packet => lastMet'[q] = lastMet[q]
    BY <2>1 DEF MetOK
  <2>5. ASSUME NEW k \in DOMAIN seen' PROVE LastTime(seen'[k]) <= lastMet'[seen'[k].packet]
    <3>1. CASE seen'[k] = e
      BY <1>1, <1>5, <2>4, <3>1
    <3>2. CASE seen'[k] # e
      <4>1. PICK i \in DOMAIN pruned : seen'[k] = pruned[i] /\ pruned[i].packet # e.packet
        BY <2>6, <3>2
      <4> QED BY <1>3, <2>4, <4>1
    <3> QED BY <3>1, <3>2
  <2> QED BY <2>3, <2>5 DEF InOrder, Noted, Unique, Sorted
<1>6. ASSUME NEW p \in Packets, NotesNow(p) PROVE InOrder'
  BY <1>1, <1>5, <1>6, PriorIs, NotedIsNewest DEF NotesNow, InOrder
<1>7. CASE UNCHANGED memory
  BY <1>7 DEF memory, InOrder, Unique, Sorted, Noted
<1> QED BY <1>4, <1>6, <1>7, MemoryMoved DEF MemoryMoves

\* The others that have been met since a time only grow in number.
LEMMA CrowdGrows ==
    ASSUME MetGrows, NEW p \in Packets, NEW t \in Stamp, CrowdedBy(lastMet, p, t)
    PROVE  CrowdedBy(lastMet', p, t)
<1> DEFINE before == {q \in Packets \ {p} : lastMet[q] # Never /\ lastMet[q] >= t}
           after == {q \in Packets \ {p} : lastMet'[q] # Never /\ lastMet'[q] >= t}
<1>1. t \in Int /\ Never \in Int
  BY Stamps
<1>2. ASSUME NEW q \in Packets, lastMet[q] # Never, lastMet[q] >= t
      PROVE  lastMet'[q] # Never /\ lastMet'[q] >= t
  <2>1. lastMet[q] \in Stamp /\ lastMet'[q] \in Stamp /\ lastMet[q] <= lastMet'[q]
    BY DEF MetGrows, MetOK, Stamp, Time
  <2>2. lastMet[q] \in Int /\ lastMet'[q] \in Int /\ Never <= lastMet[q]
    BY <2>1, Stamps, NeverIsFirst
  <2> QED BY <1>1, <1>2, <2>1, <2>2
<1>3. before \subseteq after /\ after \subseteq Packets
  BY <1>2
<1>4. Cardinality(before) >= SeenMax
  BY DEF CrowdedBy
<1> HIDE DEF before, after
<1>5. IsFiniteSet(after) /\ IsFiniteSet(before) /\ Cardinality(before) <= Cardinality(after)
  BY <1>3, PacketsAssumption, FS_Subset
<1>6. Cardinality(before) \in Nat /\ Cardinality(after) \in Nat /\ SeenMax \in Nat
  BY <1>5, FS_CardinalityType, LimitsAssumption
<1>7. Cardinality(after) >= SeenMax
  BY <1>4, <1>5, <1>6
<1> QED BY <1>7 DEF CrowdedBy, after

LEMMA SentIs ==
    ASSUME HistoryOK, NEW i \in DOMAIN sent
    PROVE  /\ sent[i] \in SentSet /\ sent[i].packet \in Packets
           /\ sent[i].at \in Stamp /\ sent[i].at \in Nat
<1>1. sent[i] \in SentSet
  BY LenProperties, ElementOfSeq DEF HistoryOK
<1>2. sent[i].packet \in Packets /\ sent[i].at \in Time
  BY <1>1 DEF SentSet
<1> QED BY <1>1, <1>2, Stamps

Remembers == InOrder /\ RfRemembered /\ QueuedRemembered

\* What was met a short time ago survives the pruning, unless the memory is filled with
\* packets met since.
LEMMA FreshSurvives ==
    ASSUME SeenOK, HistoryOK, MetOK, InOrder, NEW i \in DOMAIN seen, NEW t \in Stamp,
           Recent(t, Retention), t <= seen[i].rf \/ t <= seen[i].queued
    PROVE  \/ \E k \in DOMAIN Pruned(seen) : Pruned(seen)[k] = seen[i]
           \/ CrowdedBy(lastMet, seen[i].packet, t)
<1>1. \A j \in DOMAIN seen : seen[j] \in EntrySet /\ seen[j].packet \in Packets
  <2>1. \A j \in DOMAIN seen : seen[j] \in EntrySet
    BY LenProperties, ElementOfSeq DEF SeenOK
  <2> QED BY <2>1 DEF EntrySet
<1> DEFINE last == LastTime(seen[i])
<1>2. seen[i].rf \in Int /\ seen[i].queued \in Int /\ last \in Int /\ seen[i].rf <= last /\ seen[i].queued <= last
  <2>1. /\ last \in Stamp /\ seen[i].rf <= last /\ seen[i].queued <= last
        /\ seen[i].rf \in Stamp /\ seen[i].queued \in Stamp
    BY <1>1, LastTimeIs DEF EntrySet
  <2> QED BY <2>1, Stamps
<1>3. now \in Nat /\ Retention \in Nat /\ t \in Nat
  <2>1. now \in Nat /\ Retention \in Nat
    BY Stamps, TimesAssumption DEF HistoryOK
  <2>2. t \in Time
    BY DEF Recent, Stamp
  <2> QED BY <2>1, <2>2, Stamps
<1> HIDE DEF last
<1>4. t <= last /\ last \in Nat
  BY <1>2, <1>3
<1>5. Recent(last, Retention)
  BY <1>3, <1>4 DEF Recent, Never
<1>6. i \in FreshIn(seen)
  BY <1>5 DEF FreshIn, last
<1>7. (\E k \in DOMAIN Pruned(seen) : Pruned(seen)[k] = seen[i]) \/ FilledBehind(seen, i)
  BY <1>6, PrunedIs DEF SeenOK
<1>8. ASSUME FilledBehind(seen, i) PROVE CrowdedBy(lastMet, seen[i].packet, t)
  <2> DEFINE others == {q \in Packets \ {seen[i].packet} : lastMet[q] # Never /\ lastMet[q] >= t}
  <2>1. PICK h \in [1 .. SeenMax -> FreshIn(seen)] :
          /\ \A k \in 1 .. SeenMax : i < h[k]
          /\ \A k, l \in 1 .. SeenMax : h[k] = h[l] => k = l
    BY <1>8 DEF FilledBehind
  <2> DEFINE name == [k \in 1 .. SeenMax |-> seen[h[k]].packet]
  <2>2. ASSUME NEW k \in 1 .. SeenMax PROVE h[k] \in DOMAIN seen /\ name[k] \in others
    <3>1. h[k] \in DOMAIN seen /\ i < h[k] /\ LastTime(seen[h[k]]) # Never
      BY <2>1 DEF FreshIn, Recent
    <3>2. i # h[k]
      <4>1. i \in Int
        BY LenProperties DEF SeenOK
      <4> QED BY <3>1, <4>1
    <3>3. seen[h[k]].packet # seen[i].packet
      BY <3>1, <3>2 DEF InOrder, Unique
    <3>4. /\ last <= LastTime(seen[h[k]])
          /\ LastTime(seen[h[k]]) <= lastMet[seen[h[k]].packet]
      BY <3>1 DEF InOrder, Sorted, Noted, last
    <3>5. LastTime(seen[h[k]]) \in Int /\ lastMet[seen[h[k]].packet] \in Int
      BY <1>1, <3>1, LastTimeIs, Stamps DEF MetOK
    <3>6. lastMet[seen[h[k]].packet] # Never /\ lastMet[seen[h[k]].packet] >= t
      BY <1>3, <1>4, <3>4, <3>5 DEF Never
    <3> QED BY <1>1, <3>1, <3>3, <3>6
  <2>3. \A k, l \in 1 .. SeenMax : name[k] = name[l] => k = l
    <3> SUFFICES ASSUME NEW k \in 1 .. SeenMax, NEW l \in 1 .. SeenMax, name[k] = name[l] PROVE k = l
      OBVIOUS
    <3>1. h[k] = h[l]
      BY <2>2 DEF InOrder, Unique
    <3> QED BY <2>1, <3>1
  <2>4. name \in Injection(1 .. SeenMax, others)
    <3>1. name \in [1 .. SeenMax -> others]
      BY <2>2
    <3> HIDE DEF name, others
    <3> QED BY <2>3, <3>1 DEF Injection, IsInjective
  <2>5. IsFiniteSet(others)
    BY PacketsAssumption, FS_Subset
  <2> HIDE DEF name, others
  <2>6. Cardinality(1 .. SeenMax) <= Cardinality(others)
    BY <2>4, <2>5, FS_Injection
  <2>7. SeenMax \in Nat /\ SeenMax >= 1 /\ 1 \in Int
    BY LimitsAssumption
  <2>8. Cardinality(1 .. SeenMax) = IF 1 > SeenMax THEN 0 ELSE SeenMax - 1 + 1
    BY <2>7, FS_Interval
  <2>9. Cardinality(others) \in Nat
    BY <2>5, FS_CardinalityType
  <2>10. Cardinality(others) >= SeenMax
    BY <2>6, <2>7, <2>8, <2>9
  <2> QED BY <2>10 DEF CrowdedBy, others
<1> QED BY <1>7, <1>8

LEMMA PrunedRemembers ==
    ASSUME SeenOK, HistoryOK, MetOK, Remembers
    PROVE  /\ Pruned(seen) \in Seq(EntrySet) /\ Unique(Pruned(seen))
           /\ \A p \in Packets :
                Recent(heard[p], Retention) =>
                  \/ /\ Prior(p).rf = heard[p]
                     /\ \E k \in DOMAIN Pruned(seen) : Pruned(seen)[k] = Prior(p)
                  \/ CrowdedBy(lastMet, p, heard[p])
           /\ \A i \in DOMAIN sent :
                Recent(sent[i].at, Retention) =>
                  \/ /\ Prior(sent[i].packet).queued >= sent[i].at
                     /\ \E k \in DOMAIN Pruned(seen) : Pruned(seen)[k] = Prior(sent[i].packet)
                  \/ CrowdedBy(lastMet, sent[i].packet, sent[i].at)
<1>1. Pruned(seen) \in Seq(EntrySet) /\ Unique(Pruned(seen))
  BY PrunedIs DEF SeenOK, Remembers, InOrder
<1>2. ASSUME NEW p \in Packets, Recent(heard[p], Retention), ~CrowdedBy(lastMet, p, heard[p])
      PROVE  /\ Prior(p).rf = heard[p]
             /\ \E k \in DOMAIN Pruned(seen) : Pruned(seen)[k] = Prior(p)
  <2>1. PICK i \in DOMAIN seen : seen[i].packet = p /\ seen[i].rf = heard[p]
    BY <1>2 DEF Remembers, RfRemembered
  <2>2. heard[p] \in Stamp /\ heard[p] <= seen[i].rf
    <3>1. heard[p] \in Stamp
      BY DEF HistoryOK
    <3>2. heard[p] \in Int
      BY <3>1, Stamps
    <3> QED BY <2>1, <3>1, <3>2
  <2>3. PICK k \in DOMAIN Pruned(seen) : Pruned(seen)[k] = seen[i]
    BY <1>2, <2>1, <2>2, FreshSurvives DEF Remembers
  <2>4. Prior(p) = Pruned(seen)[k]
    BY <1>1, <2>1, <2>3, EntryOfIs DEF Prior
  <2> QED BY <2>1, <2>3, <2>4
<1>3. ASSUME NEW i \in DOMAIN sent, Recent(sent[i].at, Retention),
             ~CrowdedBy(lastMet, sent[i].packet, sent[i].at)
      PROVE  /\ Prior(sent[i].packet).queued >= sent[i].at
             /\ \E k \in DOMAIN Pruned(seen) : Pruned(seen)[k] = Prior(sent[i].packet)
  <2>1. PICK j \in DOMAIN seen : seen[j].packet = sent[i].packet /\ seen[j].queued >= sent[i].at
    BY <1>3 DEF Remembers, QueuedRemembered
  <2>2. seen[j] \in EntrySet
    BY LenProperties, ElementOfSeq DEF SeenOK
  <2>3. sent[i].packet \in Packets /\ sent[i].at \in Stamp /\ sent[i].at \in Int /\ seen[j].queued \in Int
    BY <2>2, SentIs, Stamps DEF EntrySet
  <2>4. sent[i].at <= seen[j].queued
    BY <2>1, <2>3
  <2>5. PICK k \in DOMAIN Pruned(seen) : Pruned(seen)[k] = seen[j]
    BY <1>3, <2>1, <2>3, <2>4, FreshSurvives DEF Remembers
  <2>6. Prior(sent[i].packet) = Pruned(seen)[k]
    BY <1>1, <2>1, <2>3, <2>5, EntryOfIs DEF Prior
  <2> QED BY <2>1, <2>5, <2>6
<1> QED BY <1>1, <1>2, <1>3

\* A handler that only prunes forgets nothing that counts.
LEMMA LookingIsHarmless ==
    ASSUME SeenOK, HistoryOK, MetOK, Remembers,
           NEW p \in Packets, LookFor(p), UNCHANGED <<now, heard, sent>>
    PROVE  RfRemembered' /\ QueuedRemembered'
<1>1. /\ \A k \in DOMAIN Pruned(seen) : k \in DOMAIN seen' /\ seen'[k] = Pruned(seen)[k]
      /\ lastMet' = lastMet
  BY PrunedRemembers, WithDefaultIs DEF LookFor
<1>2. RfRemembered'
  <2> SUFFICES ASSUME NEW q \in Packets, Recent(heard[q], Retention)
               PROVE  \/ \E k \in DOMAIN seen' : seen'[k].packet = q /\ seen'[k].rf = heard[q]
                      \/ CrowdedBy(lastMet, q, heard[q])
    BY <1>1 DEF RfRemembered, Recent
  <2>1. Prior(q).packet = q
    BY PriorIs, Stamps
  <2> QED BY <1>1, <2>1, PrunedRemembers
<1>3. QueuedRemembered'
  <2> SUFFICES ASSUME NEW i \in DOMAIN sent, Recent(sent[i].at, Retention)
               PROVE  \/ \E k \in DOMAIN seen' :
                           seen'[k].packet = sent[i].packet /\ seen'[k].queued >= sent[i].at
                      \/ CrowdedBy(lastMet, sent[i].packet, sent[i].at)
    BY <1>1 DEF QueuedRemembered, Recent
  <2>1. sent[i].packet \in Packets
    BY SentIs
  <2>2. Prior(sent[i].packet).packet = sent[i].packet
    BY <2>1, PriorIs, Stamps
  <2> QED BY <1>1, <2>2, PrunedRemembers
<1> QED BY <1>2, <1>3

\* Neither does one that notes an entry that knows what was met of its packet.
LEMMA NotingIsHarmless ==
    ASSUME SeenOK, HistoryOK, HistoryOK', MetGrows, Remembers, now' = now,
           NEW p \in Packets, NEW e \in EntrySet, e.packet = p, Note(e),
           \A q \in Packets : q # p => heard'[q] = heard[q],
           Recent(heard'[p], Retention) => e.rf = heard'[p] \/ CrowdedBy(lastMet, p, heard'[p]),
           \A i \in DOMAIN sent' :
             \/ i \in DOMAIN sent /\ sent'[i] = sent[i] /\ sent[i].packet # p
             \/ /\ sent'[i].packet = p
                /\ Recent(sent'[i].at, Retention) =>
                     e.queued >= sent'[i].at \/ CrowdedBy(lastMet, p, sent'[i].at)
    PROVE  RfRemembered' /\ QueuedRemembered'
<1>1. /\ \E k \in DOMAIN seen' : seen'[k] = e
      /\ \A i \in DOMAIN Pruned(seen) :
           Pruned(seen)[i].packet # p => \E k \in DOMAIN seen' : seen'[k] = Pruned(seen)[i]
  <2>1. Pruned(seen) \in Seq(EntrySet)
    BY PrunedIs DEF SeenOK
  <2>2. seen' = MovedToEnd(Pruned(seen), e)
    BY DEF Note
  <2>3. \E k \in DOMAIN seen' : seen'[k] = e
    BY <2>1, <2>2, MovedToEndIs
  <2>4. OthersStay(Pruned(seen), e, seen')
    BY <2>1, <2>2, MovedToEndIs
  <2> QED BY <2>3, <2>4 DEF OthersStay
<1>2. RfRemembered'
  <2> SUFFICES ASSUME NEW q \in Packets, Recent(heard'[q], Retention)
               PROVE  \/ \E k \in DOMAIN seen' : seen'[k].packet = q /\ seen'[k].rf = heard'[q]
                      \/ CrowdedBy(lastMet', q, heard'[q])
    BY DEF RfRemembered, Recent
  <2>1. Prior(q).packet = q
    BY PriorIs, Stamps
  <2>2. heard'[q] \in Stamp
    BY DEF HistoryOK, Stamp, Time
  <2>3. CrowdedBy(lastMet, q, heard'[q]) => CrowdedBy(lastMet', q, heard'[q])
    BY <2>2, CrowdGrows
  <2>4. CASE q = p
    BY <1>1, <2>3, <2>4
  <2>5. CASE q # p
    <3>1. \/ /\ Prior(q).rf = heard[q]
             /\ \E k \in DOMAIN Pruned(seen) : Pruned(seen)[k] = Prior(q)
          \/ CrowdedBy(lastMet, q, heard[q])
      BY <2>5, PrunedRemembers DEF MetGrows
    <3> QED BY <1>1, <2>1, <2>3, <2>5, <3>1
  <2> QED BY <2>4, <2>5
<1>3. QueuedRemembered'
  <2> SUFFICES ASSUME NEW i \in DOMAIN sent', Recent(sent'[i].at, Retention)
               PROVE  \/ \E k \in DOMAIN seen' :
                           seen'[k].packet = sent'[i].packet /\ seen'[k].queued >= sent'[i].at
                      \/ CrowdedBy(lastMet', sent'[i].packet, sent'[i].at)
    BY DEF QueuedRemembered, Recent
  <2>1. sent'[i].packet \in Packets /\ sent'[i].at \in Stamp
    <3>1. sent'[i] \in SentSet
      BY LenProperties, ElementOfSeq DEF HistoryOK, SentSet, Time
    <3> QED BY <3>1, Stamps DEF SentSet
  <2>2. CrowdedBy(lastMet, sent'[i].packet, sent'[i].at) => CrowdedBy(lastMet', sent'[i].packet, sent'[i].at)
    BY <2>1, CrowdGrows
  <2>3. CASE sent'[i].packet = p
    BY <1>1, <2>2, <2>3
  <2>4. CASE i \in DOMAIN sent /\ sent'[i] = sent[i] /\ sent[i].packet # p
    <3>1. Prior(sent[i].packet).packet = sent[i].packet
      BY <2>1, <2>4, PriorIs, Stamps
    <3>2. \/ /\ Prior(sent[i].packet).queued >= sent[i].at
             /\ \E k \in DOMAIN Pruned(seen) : Pruned(seen)[k] = Prior(sent[i].packet)
          \/ CrowdedBy(lastMet, sent[i].packet, sent[i].at)
      BY <2>4, PrunedRemembers DEF MetGrows
    <3> QED BY <1>1, <2>2, <2>4, <3>1, <3>2
  <2> QED BY <2>3, <2>4
<1> QED BY <1>2, <1>3

\* A frame that passes the input guard leaves its mark beside what was known of its packet.
LEMMA MarksRemember ==
    ASSUME SeenOK, HistoryOK, HistoryOK', MetGrows, Remembers,
           NEW p \in Packets, Note([Prior(p) EXCEPT !.is = now]), UNCHANGED <<now, heard, sent>>
    PROVE  RfRemembered' /\ QueuedRemembered'
<1> DEFINE e == [Prior(p) EXCEPT !.is = now]
<1>1. e \in EntrySet /\ e.packet = p /\ e.rf = Prior(p).rf /\ e.queued = Prior(p).queued
  <2>1. now \in Stamp
    BY Stamps DEF HistoryOK
  <2>2. Prior(p) \in EntrySet /\ Prior(p).packet = p /\ e \in EntrySet
    BY <2>1, PriorIs
  <2> QED BY <2>2 DEF EntrySet
<1>2. Note(e)
  OBVIOUS
<1> HIDE DEF e
<1>3. Recent(heard'[p], Retention) => e.rf = heard'[p] \/ CrowdedBy(lastMet, p, heard'[p])
  BY <1>1, PrunedRemembers DEF MetGrows
<1>4. \A i \in DOMAIN sent' :
        \/ i \in DOMAIN sent /\ sent'[i] = sent[i] /\ sent[i].packet # p
        \/ /\ sent'[i].packet = p
           /\ Recent(sent'[i].at, Retention) =>
                e.queued >= sent'[i].at \/ CrowdedBy(lastMet, p, sent'[i].at)
  BY <1>1, PrunedRemembers DEF MetGrows
<1> QED BY <1>1, <1>2, <1>3, <1>4, NotingIsHarmless

LEMMA HearingRemembers ==
    ASSUME SeenOK, HistoryOK, HistoryOK', MetGrows, Remembers,
           NEW p \in Packets, HearOnRf(p)
    PROVE  RfRemembered' /\ QueuedRemembered'
<1> DEFINE e == [Prior(p) EXCEPT !.rf = now]
<1>1. e \in EntrySet /\ e.packet = p /\ e.rf = now /\ e.queued = Prior(p).queued
  <2>1. now \in Stamp
    BY Stamps DEF HistoryOK
  <2>2. Prior(p) \in EntrySet /\ Prior(p).packet = p /\ e \in EntrySet
    BY <2>1, PriorIs
  <2> QED BY <2>2 DEF EntrySet
<1>2. Note(e) /\ now' = now /\ sent' = sent
  BY DEF HearOnRf, Prior
<1> HIDE DEF e
<1>3. heard' = [heard EXCEPT ![p] = now] /\ heard \in [Packets -> Stamp]
  BY DEF HearOnRf, HistoryOK
<1>4. heard'[p] = now /\ \A q \in Packets : q # p => heard'[q] = heard[q]
  BY <1>3
<1>5. \A i \in DOMAIN sent' :
        \/ i \in DOMAIN sent /\ sent'[i] = sent[i] /\ sent[i].packet # p
        \/ /\ sent'[i].packet = p
           /\ Recent(sent'[i].at, Retention) =>
                e.queued >= sent'[i].at \/ CrowdedBy(lastMet, p, sent'[i].at)
  BY <1>1, <1>2, PrunedRemembers DEF MetGrows
<1>6. Recent(heard'[p], Retention) => e.rf = heard'[p]
  BY <1>1, <1>4
<1> QED BY <1>1, <1>2, <1>4, <1>5, <1>6, NotingIsHarmless

\* Nothing was sent in the future.
LEMMA HistoryTimes ==
    ASSUME HistoryOK, BucketsOK, FlowRates, NEW i \in DOMAIN sent
    PROVE  sent[i].at <= now
<1> DEFINE k == FlowKeysSent[i]
<1>1. k \in FlowKeys /\ i \in DOMAIN FlowKeysSent /\ TimesSent[i] = sent[i].at
  <2>1. i \in 1 .. Len(FlowKeysSent) /\ FlowKeysSent \in Seq(FlowKeys)
    BY SentKeys
  <2> QED BY <2>1, SentKeys, ElementOfSeq DEF TimesSent
<1>2. sent[i].at <= flowBucket[k].at
  BY <1>1 DEF FlowRates, Ledger
<1> HIDE DEF k
<1>3. flowBucket[k].at <= now /\ flowBucket[k].at \in Time
  BY <1>1 DEF BucketsOK, Bucket
<1>4. flowBucket[k].at \in Nat /\ now \in Nat /\ sent[i].at \in Nat
  BY <1>3, SentIs, Stamps DEF HistoryOK
<1> QED BY <1>2, <1>3, <1>4

LEMMA QueueingRemembers ==
    ASSUME SeenOK, PendingOK, HistoryOK, HistoryOK', MetGrows, Remembers,
           BucketsOK, FlowRates,
           NEW d \in pending, QueueToRf(d)
    PROVE  RfRemembered' /\ QueuedRemembered'
<1> DEFINE p == d.packet
           e == [Prior(p) EXCEPT !.queued = now]
           new == [flow |-> d.flow, packet |-> d.packet, route |-> d.route,
                   waited |-> d.created_at, at |-> now]
<1>1. p \in Packets /\ d \in WaitingSet /\ now \in Stamp /\ now \in Nat /\ now \in Time
  BY Stamps DEF PendingOK, WaitingSet, HistoryOK
<1>2. e \in EntrySet /\ e.packet = p /\ e.rf = Prior(p).rf /\ e.queued = now
  <2>1. Prior(p) \in EntrySet /\ Prior(p).packet = p /\ e \in EntrySet
    BY <1>1, PriorIs
  <2> QED BY <2>1 DEF EntrySet
<1>3. Note(e) /\ now' = now /\ heard' = heard /\ sent' = Append(sent, new)
  BY DEF QueueToRf, RememberQueued, Prior
<1>4. new \in SentSet /\ new.packet = p /\ new.at = now
  BY <1>1 DEF WaitingSet, SentSet
<1> HIDE DEF p, e, new
<1>5. Recent(heard'[p], Retention) => e.rf = heard'[p] \/ CrowdedBy(lastMet, p, heard'[p])
  BY <1>1, <1>2, <1>3, PrunedRemembers DEF MetGrows
<1>6. /\ sent \in Seq(SentSet) /\ Len(sent') = Len(sent) + 1 /\ sent'[Len(sent) + 1] = new
      /\ \A i \in 1 .. Len(sent) : sent'[i] = sent[i]
      /\ sent' \in Seq(SentSet)
  BY <1>3, <1>4, AppendProperties DEF HistoryOK
<1>7. Len(sent) \in Nat /\ DOMAIN sent = 1 .. Len(sent) /\ DOMAIN sent' = 1 .. Len(sent) + 1
  BY <1>6, LenProperties
<1>8. \A i \in DOMAIN sent : sent[i].at <= now
  BY HistoryTimes
<1>9. ASSUME NEW i \in DOMAIN sent'
      PROVE  \/ i \in DOMAIN sent /\ sent'[i] = sent[i] /\ sent[i].packet # p
             \/ sent'[i].packet = p /\ (Recent(sent'[i].at, Retention) => e.queued >= sent'[i].at)
  <2>1. CASE i = Len(sent) + 1
    BY <1>1, <1>2, <1>4, <1>6, <2>1
  <2>2. CASE i \in 1 .. Len(sent)
    <3>1. sent[i].at \in Nat /\ sent[i].at <= now
      BY <1>7, <1>8, <2>2, SentIs
    <3> QED BY <1>1, <1>2, <1>6, <1>7, <2>2, <3>1
  <2> QED BY <1>7, <2>1, <2>2
<1> QED BY <1>1, <1>2, <1>3, <1>5, <1>9, NotingIsHarmless

\* What is recent at b was recent at a, before.
LEMMA SoonerIsMoreRecent ==
    ASSUME NEW a \in Nat, NEW b \in Nat, a <= b, NEW t \in Int, NEW span \in Nat, b - t <= span
    PROVE  a - t <= span
OBVIOUS

LEMMA TimeRemembers ==
    ASSUME HistoryOK, Remembers, now' \in {now, now + 1}, UNCHANGED <<memory, heard, sent>>
    PROVE  RfRemembered' /\ QueuedRemembered'
<1>1. now \in Nat /\ Retention \in Nat
  BY Stamps, TimesAssumption DEF HistoryOK
<1>2. ASSUME NEW t \in Stamp, t # Never /\ now' - t <= Retention PROVE Recent(t, Retention)
  <2>1. t \in Int
    BY Stamps
  <2>2. now' \in Nat /\ now <= now'
    BY <1>1
  <2>3. now - t <= Retention
    BY <1>1, <1>2, <2>1, <2>2, SoonerIsMoreRecent
  <2> QED BY <1>2, <2>3 DEF Recent
<1>3. RfRemembered'
  <2> SUFFICES ASSUME NEW p \in Packets, heard[p] # Never /\ now' - heard[p] <= Retention
               PROVE  \/ \E i \in DOMAIN seen : seen[i].packet = p /\ seen[i].rf = heard[p]
                      \/ CrowdedBy(lastMet, p, heard[p])
    BY DEF RfRemembered, Recent, memory
  <2>1. heard[p] \in Stamp
    BY DEF HistoryOK
  <2>2. Recent(heard[p], Retention)
    BY <1>2, <2>1
  <2> QED BY <2>2 DEF Remembers, RfRemembered
<1>4. QueuedRemembered'
  <2> SUFFICES ASSUME NEW i \in DOMAIN sent, sent[i].at # Never /\ now' - sent[i].at <= Retention
               PROVE  \/ \E j \in DOMAIN seen :
                           seen[j].packet = sent[i].packet /\ seen[j].queued >= sent[i].at
                      \/ CrowdedBy(lastMet, sent[i].packet, sent[i].at)
    BY DEF QueuedRemembered, Recent, memory
  <2>1. sent[i].at \in Stamp
    BY SentIs
  <2>2. Recent(sent[i].at, Retention)
    BY <1>2, <2>1
  <2> QED BY <2>2 DEF Remembers, QueuedRemembered
<1> QED BY <1>3, <1>4

LEMMA MemoryStep ==
    ASSUME IndInv, IndInv', Remembers, [Next]_vars
    PROVE  Remembers'
<1>1. /\ FrameOK /\ SeenOK /\ PendingOK /\ HistoryOK /\ MetOK /\ BucketsOK /\ FlowRates
      /\ HistoryOK' /\ now' \in {now, now + 1} /\ MetGrows
  BY HistoryStep, MetStep DEF IndInv
<1>2. InOrder'
  BY <1>1, OrderStep DEF Remembers
<1> DEFINE Goal == RfRemembered' /\ QueuedRemembered'
<1>3. ASSUME UNCHANGED <<memory, heard, sent>> PROVE Goal
  BY <1>1, <1>3, TimeRemembers
<1>4. ASSUME NEW p \in Packets, LookFor(p), UNCHANGED <<now, heard, sent>> PROVE Goal
  BY <1>1, <1>4, LookingIsHarmless
<1>5. ASSUME NEW p \in Packets, Note([Prior(p) EXCEPT !.is = now]), UNCHANGED <<now, heard, sent>>
      PROVE  Goal
  BY <1>1, <1>5, MarksRemember
<1> HIDE DEF Goal
<1>6. ASSUME NEW p \in Packets, NEW todo \in SUBSET Flows \ {{}}, Receive(p, todo)
      PROVE  UNCHANGED <<memory, heard, sent>>
  BY <1>6 DEF Receive
<1>7. ASSUME NEW f \in Flows, GuardRejects(f) PROVE UNCHANGED <<memory, heard, sent>>
  BY <1>7 DEF GuardRejects
<1>8. ASSUME NEW f \in Flows, GuardDropsDuplicate(f) PROVE Goal
  <2>1. frame.packet \in Packets /\ LookFor(frame.packet) /\ UNCHANGED <<now, heard, sent>>
    BY <1>1, <1>8, TurnHasPacket DEF GuardDropsDuplicate
  <2> QED BY <1>4, <2>1
<1>9. ASSUME NEW f \in Flows, NEW route \in AllRoutes, FlowDrops(f) \/ Schedule(f, route) PROVE Goal
  <2>1. /\ frame.packet \in Packets /\ Note([Prior(frame.packet) EXCEPT !.is = now])
        /\ UNCHANGED <<now, heard, sent>>
    BY <1>1, <1>9, TurnHasPacket DEF FlowDrops, Schedule, GuardMarks, Prior
  <2> QED BY <1>5, <2>1
<1>10. ASSUME NEW p \in Packets, HearOnRf(p) PROVE Goal
  BY <1>1, <1>10, HearingRemembers DEF Goal
<1>11. ASSUME NEW e \in pending, GiveUp(e) PROVE UNCHANGED <<memory, heard, sent>>
  BY <1>11 DEF GiveUp
<1>12. ASSUME NEW e \in pending, DropDuplicate(e) \/ DropRateLimited(e) \/ QueueFails(e) PROVE Goal
  <2>1. e.packet \in Packets
    BY <1>1 DEF PendingOK, WaitingSet
  <2>2. LookFor(e.packet) /\ UNCHANGED <<now, heard, sent>>
    BY <1>12 DEF DropDuplicate, DropRateLimited, QueueFails
  <2> QED BY <1>4, <2>1, <2>2
<1>13. ASSUME NEW e \in pending, QueueToRf(e) PROVE Goal
  BY <1>1, <1>13, QueueingRemembers DEF Goal
<1>14. ASSUME NEW d \in owesPosition, PositionDebtExpires(d) PROVE UNCHANGED <<memory, heard, sent>>
  BY <1>14 DEF PositionDebtExpires
<1>15. ASSUME Tick \/ UNCHANGED vars PROVE UNCHANGED <<memory, heard, sent>>
  BY <1>15 DEF Tick, vars, memory
<1>16. Goal
  BY <1>3, <1>6, <1>7, <1>8, <1>9, <1>10, <1>11, <1>12, <1>13, <1>14, <1>15 DEF Next, AllRoutes
<1> QED BY <1>2, <1>16 DEF Remembers, Goal

LEMMA StillUnheard ==
    ASSUME HistoryOK, MetGrows, NEW e, e.packet \in Packets, WaitsUnheard(e), UNCHANGED heard
    PROVE  WaitsUnheard(e)'
<1>1. heard[e.packet] \in Stamp
  BY DEF HistoryOK
<1>2. CrowdedBy(lastMet, e.packet, heard[e.packet]) => CrowdedBy(lastMet', e.packet, heard[e.packet])
  BY <1>1, CrowdGrows
<1> QED BY <1>2 DEF WaitsUnheard

\* A packet begins to wait only if the guard found that the radio had not heard it.
LEMMA ScheduledUnheard ==
    ASSUME FrameOK, SeenOK, PendingOK, HistoryOK, MetGrows, Remembers, Waiting,
           NEW f \in Flows, NEW route \in AllRoutes, Schedule(f, route)
    PROVE  Waiting'
<1> DEFINE p == frame.packet
           new == [flow |-> f, packet |-> p, route |-> route, created_at |-> now,
                   ready |-> now + Delay[f], cancelled |-> FALSE]
<1>1. p \in Packets
  BY TurnHasPacket DEF Schedule
<1>2. /\ pending' = pending \cup {new} /\ now' = now /\ heard' = heard
      /\ ~SeenByGuard(f)
  BY DEF Schedule, GuardMarks
<1>3. /\ now \in Nat /\ MaxLag \in Nat /\ Retention \in Nat /\ heard[p] \in Int
      /\ Delay[f] \in Nat /\ Window[f] \in Nat /\ Window[f] <= Retention
  <2>1. heard[p] \in Stamp /\ now \in Time
    BY <1>1 DEF HistoryOK
  <2> QED BY <2>1, Stamps, TimesAssumption
<1>4. ~Recent(Prior(p).rf, Window[f])
  BY <1>2 DEF SeenByGuard, Prior
<1> HIDE DEF p
<1>5. heard[p] = Never \/ heard[p] + Window[f] < now \/ CrowdedBy(lastMet, p, heard[p])
  <2> SUFFICES ASSUME heard[p] # Never, now - heard[p] <= Window[f], ~CrowdedBy(lastMet, p, heard[p])
               PROVE  FALSE
    BY <1>3
  <2>1. now - heard[p] <= Retention
    BY <1>3
  <2>2. Recent(heard[p], Retention) /\ Recent(heard[p], Window[f])
    BY <2>1 DEF Recent
  <2>3. Prior(p).rf = heard[p]
    BY <1>1, <2>2, PrunedRemembers DEF MetGrows
  <2> QED BY <1>4, <2>2, <2>3
<1>6. now <= new.ready + MaxLag
  BY <1>3
<1>7. new.packet = p /\ new.flow = f /\ new.created_at = now
  OBVIOUS
<1> HIDE DEF new
<1>8. ASSUME NEW e \in pending' PROVE now <= e.ready + MaxLag /\ WaitsUnheard(e)'
  <2>1. e.packet \in Packets /\ now <= e.ready + MaxLag /\ WaitsUnheard(e)
    <3>1. CASE e = new
      BY <1>1, <1>5, <1>6, <1>7, <3>1 DEF WaitsUnheard
    <3>2. CASE e \in pending
      BY <3>2 DEF Waiting, PendingOK, WaitingSet
    <3> QED BY <1>2, <3>1, <3>2
  <2> QED BY <1>2, <2>1, StillUnheard
<1> QED BY <1>2, <1>8 DEF Waiting

\* When the radio hears a packet, the task of its pending copy is woken.
LEMMA HeardIsWoken ==
    ASSUME PendingOK, PendingOnce, HistoryOK, MetGrows, Waiting, NEW p \in Packets, HearOnRf(p)
    PROVE  Waiting'
<1>1. /\ now' = now /\ now \in Time /\ now \in Nat /\ MaxLag \in Nat
      /\ heard' = [heard EXCEPT ![p] = now] /\ heard \in [Packets -> Stamp]
  BY Stamps, TimesAssumption DEF HearOnRf, HistoryOK
<1>2. heard'[p] = now /\ \A q \in Packets : q # p => heard'[q] = heard[q]
  BY <1>1
<1>3. ASSUME NEW d \in pending'
      PROVE  now <= d.ready + MaxLag
             /\ LET h == heard'[d.packet]
                IN  \/ h = Never \/ h + Window[d.flow] < d.created_at
                    \/ h >= d.created_at /\ d.ready <= h
                    \/ CrowdedBy(lastMet', d.packet, h)
  <2>1. PICK e \in pending : d = Woken(e, p)
    BY HeardWakes
  <2>2. e \in WaitingSet /\ e.packet \in Packets /\ e.ready \in Nat /\ e.created_at <= now
        /\ e.created_at \in Nat
    BY Stamps DEF PendingOK, WaitingSet
  <2>3. CASE e.packet = p
    <3>1. d.packet = p /\ d.created_at = e.created_at /\ d.ready \in {e.ready, now} /\ d.ready <= now
      BY <1>1, <2>1, <2>2, <2>3, WokenIs
    <3>2. now <= d.ready + MaxLag
      <4>1. now <= e.ready + MaxLag
        BY DEF Waiting
      <4> QED BY <1>1, <2>2, <3>1, <4>1
    <3>3. now >= d.created_at /\ d.ready <= now
      BY <1>1, <2>2, <3>1
    <3> QED BY <1>2, <3>1, <3>2, <3>3
  <2>4. CASE e.packet # p
    <3>1. d = e
      BY <2>1, <2>4 DEF Woken
    <3>2. heard[e.packet] \in Stamp
      BY <1>1, <2>2
    <3>3. CrowdedBy(lastMet, e.packet, heard[e.packet]) => CrowdedBy(lastMet', e.packet, heard[e.packet])
      BY <2>2, <3>2, CrowdGrows
    <3> QED BY <1>2, <2>2, <2>4, <3>1, <3>3 DEF Waiting, WaitsUnheard
  <2> QED BY <2>3, <2>4
<1> QED BY <1>1, <1>3 DEF Waiting, WaitsUnheard

LEMMA WaitingStep ==
    ASSUME IndInv, Remembers, Waiting, [Next]_vars
    PROVE  Waiting'
<1>1. FrameOK /\ SeenOK /\ PendingOK /\ PendingOnce /\ HistoryOK /\ MetGrows
  BY MetStep DEF IndInv
<1>0. ASSUME NEW e \in pending, UNCHANGED heard PROVE WaitsUnheard(e)'
  BY <1>0, <1>1, StillUnheard DEF Waiting, PendingOK, WaitingSet
<1>2. CASE pending' \subseteq pending /\ UNCHANGED <<now, heard>>
  BY <1>0, <1>2 DEF Waiting
<1>3. ASSUME NEW p \in Packets, NEW todo \in SUBSET Flows \ {{}}, Receive(p, todo)
      PROVE  UNCHANGED <<pending, now, heard>>
  BY <1>3 DEF Receive
<1>4. ASSUME NEW f \in Flows, GuardRejects(f) \/ GuardDropsDuplicate(f) \/ FlowDrops(f)
      PROVE  UNCHANGED <<pending, now, heard>>
  BY <1>4 DEF GuardRejects, GuardDropsDuplicate, FlowDrops
<1>5. ASSUME NEW e \in pending,
             GiveUp(e) \/ DropDuplicate(e) \/ DropRateLimited(e) \/ QueueFails(e) \/ QueueToRf(e)
      PROVE  pending' \subseteq pending /\ UNCHANGED <<now, heard>>
  BY <1>5 DEF GiveUp, DropDuplicate, DropRateLimited, QueueFails, QueueToRf, Finishes
<1>6. ASSUME NEW d \in owesPosition, PositionDebtExpires(d) PROVE UNCHANGED <<pending, now, heard>>
  BY <1>6 DEF PositionDebtExpires
<1>7. CASE Tick
  <2>1. now' = now + 1 /\ pending' = pending /\ heard' = heard /\ \A e \in pending : now < e.ready + MaxLag
    BY <1>7 DEF Tick
  <2>2. ASSUME NEW e \in pending PROVE now + 1 <= e.ready + MaxLag
    <3>1. e.ready \in Nat /\ now \in Nat /\ MaxLag \in Nat
      BY <1>1, Stamps, TimesAssumption DEF PendingOK, WaitingSet, HistoryOK
    <3> QED BY <2>1, <3>1
  <2> QED BY <1>0, <2>1, <2>2 DEF Waiting
<1>8. CASE UNCHANGED vars
  BY <1>2, <1>8 DEF vars
<1>9. ASSUME NEW f \in Flows, NEW route \in AllRoutes, Schedule(f, route) PROVE Waiting'
  BY <1>1, <1>9, ScheduledUnheard
<1>10. ASSUME NEW p \in Packets, HearOnRf(p) PROVE Waiting'
  BY <1>1, <1>10, HeardIsWoken
<1> QED BY <1>2, <1>3, <1>4, <1>5, <1>6, <1>7, <1>8, <1>9, <1>10 DEF Next, AllRoutes

-----------------------------------------------------------------------------
(* The theorems about the radio.                                           *)

LEMMA OnlyQueueingSends ==
    ASSUME [Next]_vars, sent' # sent
    PROVE  \E e \in pending : QueueToRf(e)
<1>1. ASSUME NEW p \in Packets, NEW todo \in SUBSET Flows \ {{}}, Receive(p, todo) PROVE FALSE
  BY <1>1 DEF Receive
<1>2. ASSUME NEW f \in Flows, GuardRejects(f) \/ GuardDropsDuplicate(f) \/ FlowDrops(f) PROVE FALSE
  BY <1>2 DEF GuardRejects, GuardDropsDuplicate, FlowDrops
<1>3. ASSUME NEW f \in Flows, NEW route \in AllRoutes, Schedule(f, route) PROVE FALSE
  BY <1>3 DEF Schedule
<1>4. ASSUME NEW p \in Packets, HearOnRf(p) PROVE FALSE
  BY <1>4 DEF HearOnRf
<1>5. ASSUME NEW e \in pending, GiveUp(e) \/ DropDuplicate(e) \/ DropRateLimited(e) \/ QueueFails(e)
      PROVE  FALSE
  BY <1>5 DEF GiveUp, DropDuplicate, DropRateLimited, QueueFails
<1>6. ASSUME NEW d \in owesPosition, PositionDebtExpires(d) PROVE FALSE
  BY <1>6 DEF PositionDebtExpires
<1>7. ~Tick /\ ~UNCHANGED vars
  BY DEF Tick, vars
<1> QED BY <1>1, <1>2, <1>3, <1>4, <1>5, <1>6, <1>7 DEF Next, AllRoutes

LEMMA QueuedIsNew ==
    ASSUME PendingOK, HistoryOK, NEW e \in pending, QueueToRf(e)
    PROVE  New = [flow |-> e.flow, packet |-> e.packet, route |-> e.route,
                  waited |-> e.created_at, at |-> now]
<1> DEFINE new == [flow |-> e.flow, packet |-> e.packet, route |-> e.route,
                   waited |-> e.created_at, at |-> now]
<1>1. new \in SentSet
  BY DEF PendingOK, WaitingSet, SentSet, HistoryOK
<1>2. sent' = Append(sent, new)
  BY DEF QueueToRf
<1> HIDE DEF new
<1>3. Len(sent') = Len(sent) + 1 /\ sent'[Len(sent) + 1] = new
  BY <1>1, <1>2, AppendProperties DEF HistoryOK
<1>4. New = new
  BY <1>3 DEF New
<1> QED BY <1>4 DEF new

\* A queued packet was not heard on RF in the window before it came, nor since: had the
\* radio heard it since, its task would have run while the memory still said so, unless
\* that had been filled with others.
LEMMA UnheardIsQueued ==
    ASSUME IndInv, Memory, NEW e \in pending, QueueToRf(e)
    PROVE  LET h == heard[e.packet]
           IN  h = Never \/ h + Window[e.flow] < e.created_at \/ CrowdedBy(lastMet, e.packet, h)
<1> DEFINE h == heard[e.packet]
<1>1. SeenOK /\ PendingOK /\ HistoryOK /\ MetOK /\ Remembers
  BY DEF IndInv, Memory, Remembers
<1>2. /\ e.packet \in Packets /\ e.flow \in Flows /\ e.ready \in Nat /\ e.created_at \in Time
      /\ h \in Stamp /\ now \in Time
  BY <1>1 DEF PendingOK, WaitingSet, HistoryOK
<1>3. /\ h \in Int /\ now \in Nat /\ e.created_at \in Nat /\ MaxLag \in Nat /\ Retention \in Nat
      /\ Window[e.flow] \in Nat /\ MaxLag < Window[e.flow] /\ Window[e.flow] <= Retention
  BY <1>2, Stamps, TimesAssumption
<1>4. now <= e.ready + MaxLag /\ WaitsUnheard(e)
  BY DEF Memory, Waiting
<1>5. ~(Prior(e.packet).rf >= e.created_at /\ Recent(Prior(e.packet).rf, Window[e.flow]))
  BY DEF QueueToRf, SeenMeanwhile, Prior
<1>6. h >= e.created_at /\ e.ready <= h => CrowdedBy(lastMet, e.packet, h)
  <2> SUFFICES ASSUME h >= e.created_at, e.ready <= h, ~CrowdedBy(lastMet, e.packet, h) PROVE FALSE
    OBVIOUS
  <2> HIDE DEF h
  <2>1. h # Never /\ now - h <= Window[e.flow] /\ now - h <= Retention
    BY <1>2, <1>3, <1>4 DEF Never
  <2>2. Recent(h, Window[e.flow]) /\ Recent(h, Retention)
    BY <2>1 DEF Recent
  <2>3. Prior(e.packet).rf = h
    BY <1>1, <1>2, <2>2, PrunedRemembers DEF h
  <2> QED BY <1>5, <2>2, <2>3
<1> QED BY <1>4, <1>6 DEF WaitsUnheard

\* A queued packet was queued last longer ago than the window of its flow, or the memory
\* has been filled with others since.
LEMMA QueuedIsNotRepeated ==
    ASSUME IndInv, Memory, NEW e \in pending, QueueToRf(e),
           NEW i \in DOMAIN sent, sent[i].packet = e.packet
    PROVE  now - sent[i].at > Window[e.flow] \/ CrowdedBy(lastMet, e.packet, sent[i].at)
<1>1. SeenOK /\ PendingOK /\ HistoryOK /\ MetOK /\ Remembers
  BY DEF IndInv, Memory, Remembers
<1>2. e.packet \in Packets /\ e.flow \in Flows /\ now \in Nat /\ sent[i].at \in Nat
  BY <1>1, SentIs, Stamps DEF PendingOK, WaitingSet, HistoryOK
<1>3. Window[e.flow] \in Nat /\ Retention \in Nat /\ Window[e.flow] <= Retention
  BY <1>2, TimesAssumption
<1>4. ~Recent(Prior(e.packet).queued, Window[e.flow])
  BY DEF QueueToRf, SeenMeanwhile, Prior
<1>5. Prior(e.packet).queued \in Int
  <2>1. Prior(e.packet) \in EntrySet
    BY <1>1, <1>2, PriorIs, Stamps
  <2> QED BY <2>1, Stamps DEF EntrySet
<1> SUFFICES ASSUME now - sent[i].at <= Window[e.flow], ~CrowdedBy(lastMet, e.packet, sent[i].at)
             PROVE  FALSE
  BY <1>2, <1>3
<1>6. now - sent[i].at <= Retention /\ sent[i].at # Never
  BY <1>2, <1>3 DEF Never
<1>7. Recent(sent[i].at, Retention)
  BY <1>6 DEF Recent
<1>8. Prior(e.packet).queued >= sent[i].at
  BY <1>1, <1>7, PrunedRemembers
<1>9. Prior(e.packet).queued # Never /\ now - Prior(e.packet).queued <= Window[e.flow]
  BY <1>2, <1>3, <1>5, <1>8 DEF Never
<1> QED BY <1>4, <1>9 DEF Recent

LEMMA MemoryInitially == Init => Memory
<1> SUFFICES ASSUME Init PROVE Memory
  OBVIOUS
<1>1. DOMAIN seen = {} /\ DOMAIN sent = {} /\ pending = {}
  BY EmptySeq DEF Init
<1>2. \A p \in Packets : ~Recent(heard[p], Retention)
  BY DEF Init, Recent
<1> QED BY <1>1, <1>2 DEF Memory, InOrder, Unique, Sorted, Noted, RfRemembered, QueuedRemembered, Waiting

LEMMA MemoryInductive == IndInv /\ IndInv' /\ Memory /\ [Next]_vars => Memory'
<1> SUFFICES ASSUME IndInv, IndInv', Memory, [Next]_vars PROVE Memory'
  OBVIOUS
<1>1. Remembers /\ Waiting
  BY DEF Memory, Remembers
<1>2. Remembers' /\ Waiting'
  BY <1>1, MemoryStep, WaitingStep
<1> QED BY <1>2 DEF Memory, Remembers

LEMMA MemoryInvariant == Spec => []Memory
BY MemoryInitially, MemoryInductive, Invariant, PTL DEF Spec

\* The gate is silent about what the local radio channel has heard: neither in the duplicate
\* window before the packet came nor while it waited, not even when the cancellation
\* of its task comes too late.  What _prune_aprsis_rf_state evicts is all that may
\* be missed: a packet of which nothing was heard since SeenMax others were met.
THEOREM SilentAboutRf == Spec => NotHeardOnRf
<1>1. IndInv /\ Memory /\ [Next]_vars =>
        [Queues => LET h == heard[New.packet]
                   IN  \/ h = Never \/ h + Window[New.flow] < New.waited
                       \/ Crowded(New.packet, h)]_vars
  <2> SUFFICES ASSUME IndInv, Memory, [Next]_vars, Queues
               PROVE  LET h == heard[New.packet]
                      IN  \/ h = Never \/ h + Window[New.flow] < New.waited
                          \/ Crowded(New.packet, h)
    OBVIOUS
  <2>1. PICK e \in pending : QueueToRf(e)
    BY OnlyQueueingSends DEF Queues
  <2>2. New.packet = e.packet /\ New.flow = e.flow /\ New.waited = e.created_at
    BY <2>1, QueuedIsNew DEF IndInv
  <2> QED BY <2>1, <2>2, UnheardIsQueued DEF Crowded, CrowdedBy
<1> QED BY <1>1, Invariant, MemoryInvariant, PTL DEF Spec, NotHeardOnRf

\* No packet goes out twice within the duplicate window, whatever flows carried it, unless
\* SeenMax others were met since the first time: _prune_aprsis_rf_state evicts no other.
THEOREM NothingRepeated == Spec => NotRepeated
<1>1. IndInv /\ Memory /\ [Next]_vars =>
        [Queues => \A i \in DOMAIN sent :
                     sent[i].packet = New.packet =>
                       now - sent[i].at > Window[New.flow] \/ Crowded(New.packet, sent[i].at)]_vars
  <2> SUFFICES ASSUME IndInv, Memory, [Next]_vars, Queues,
                      NEW i \in DOMAIN sent, sent[i].packet = New.packet
               PROVE  now - sent[i].at > Window[New.flow] \/ Crowded(New.packet, sent[i].at)
    OBVIOUS
  <2>1. PICK e \in pending : QueueToRf(e)
    BY OnlyQueueingSends DEF Queues
  <2>2. New.packet = e.packet /\ New.flow = e.flow
    BY <2>1, QueuedIsNew DEF IndInv
  <2> QED BY <2>1, <2>2, QueuedIsNotRepeated DEF Crowded, CrowdedBy
<1> QED BY <1>1, Invariant, MemoryInvariant, PTL DEF Spec, NotRepeated
=============================================================================
