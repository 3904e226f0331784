--------------------------- MODULE LockQueueLemmas ---------------------------
(***************************************************************************)
(* Lemmas about the queue of a lock of asyncio, its holder and those who   *)
(* wait for it in the order in which they came: what a newcomer, a release *)
(* and the cancellation of one of them do to it.  AprsisUplink and         *)
(* RfTransmit have such a lock.                                            *)
(***************************************************************************)
EXTENDS Integers, Sequences, SequencesExt, SequenceTheorems, TLAPS

\* No task is in the queue twice.
Once(q) == \A i, j \in DOMAIN q : q[i] = q[j] => i = j

\* Wherever both are in the queue, x comes before y.
Ahead(q, x, y) == \A i, j \in DOMAIN q : q[i] = x /\ q[j] = y => i < j

\* The indices of a queue, and who is in it.
LEMMA Indices ==
    ASSUME NEW S, NEW q \in Seq(S)
    PROVE  /\ Len(q) \in Nat /\ DOMAIN q = 1 .. Len(q)
           /\ \A i \in 1 .. Len(q) : q[i] \in S
           /\ \A x : x \in Range(q) <=> \E i \in 1 .. Len(q) : q[i] = x
           /\ q = <<>> <=> Range(q) = {}
<1>1. Len(q) \in Nat /\ DOMAIN q = 1 .. Len(q) /\ \A i \in 1 .. Len(q) : q[i] \in S
  BY LenProperties, ElementOfSeq
<1>2. \A x : x \in Range(q) <=> \E i \in 1 .. Len(q) : q[i] = x
  BY <1>1 DEF Range
<1>3. q = <<>> => Len(q) = 0
  OBVIOUS
<1>4. q # <<>> => Len(q) \in Nat \ {0}
  BY EmptySeq
<1>5. q = <<>> <=> Range(q) = {}
  <2>1. CASE q = <<>>
    BY <2>1, <1>2, <1>3
  <2>2. CASE q # <<>>
    <3>1. 1 \in 1 .. Len(q)
      BY <2>2, <1>4
    <3> QED BY <2>2, <3>1, <1>2
  <2> QED BY <2>1, <2>2
<1> QED BY <1>1, <1>2, <1>5

\* Nobody is in an empty queue.
LEMMA EmptyQueue ==
    /\ Range(<<>>) = {} /\ Once(<<>>)
    /\ \A x, y : Ahead(<<>>, x, y)
    /\ \A S : <<>> \in Seq(S)
BY EmptySeq DEF Range, Once, Ahead

\* A newcomer waits behind everyone else.
LEMMA Arrives ==
    ASSUME NEW S, NEW q \in Seq(S), NEW x \in S
    PROVE  /\ Append(q, x) \in Seq(S) /\ Append(q, x) # <<>>
           /\ Range(Append(q, x)) = Range(q) \cup {x}
           /\ Head(Append(q, x)) = IF q = <<>> THEN x ELSE Head(q)
           /\ Once(q) /\ x \notin Range(q) => Once(Append(q, x))
           /\ \A y, z : Ahead(q, y, z) /\ x # y => Ahead(Append(q, x), y, z)
           /\ \A y : x \notin Range(q) /\ x # y => Ahead(Append(q, x), y, x)
<1> DEFINE r == Append(q, x)
<1>1. /\ r \in Seq(S) /\ r # <<>> /\ Len(r) = Len(q) + 1
      /\ \A i \in 1 .. Len(q) : r[i] = q[i]
      /\ r[Len(q) + 1] = x
  BY AppendProperties
<1>2. Head(r) = IF q = <<>> THEN x ELSE Head(q)
  BY HeadTailAppend
<1> HIDE DEF r
<1>3. \A i \in 1 .. Len(r) : i \in 1 .. Len(q) \/ i = Len(q) + 1
  BY <1>1, Indices
<1>4. /\ DOMAIN r = 1 .. Len(q) + 1 /\ DOMAIN q = 1 .. Len(q) /\ Len(q) \in Nat
      /\ \A y : y \in Range(r) <=> \E i \in 1 .. Len(r) : r[i] = y
      /\ \A y : y \in Range(q) <=> \E i \in 1 .. Len(q) : q[i] = y
  BY <1>1, Indices
<1>5. Range(r) = Range(q) \cup {x}
  BY <1>1, <1>3, <1>4
<1>6. Once(q) /\ x \notin Range(q) => Once(r)
  BY <1>1, <1>3, <1>4 DEF Once
<1>7. \A y, z : Ahead(q, y, z) /\ x # y => Ahead(r, y, z)
  BY <1>1, <1>3, <1>4 DEF Ahead
<1>8. \A y : x \notin Range(q) /\ x # y => Ahead(r, y, x)
  BY <1>1, <1>3, <1>4 DEF Ahead
<1> QED BY <1>1, <1>2, <1>5, <1>6, <1>7, <1>8 DEF r

\* A release takes the holder out, and nobody else.
LEMMA Releases ==
    ASSUME NEW S, NEW q \in Seq(S), q # <<>>, Once(q)
    PROVE  /\ Tail(q) \in Seq(S) /\ Head(q) \in Range(q) /\ Head(q) \in S
           /\ Range(Tail(q)) = Range(q) \ {Head(q)}
           /\ Once(Tail(q))
           /\ \A x, y : Ahead(q, x, y) => Ahead(Tail(q), x, y)
<1> DEFINE r == Tail(q)
<1>1. /\ r \in Seq(S) /\ Len(r) = Len(q) - 1 /\ Head(q) \in S
      /\ \A i \in 1 .. Len(r) : r[i] = q[i + 1]
  BY HeadTailProperties
<1>2. Head(q) = q[1]
  OBVIOUS
<1> HIDE DEF r
<1>3. /\ DOMAIN r = 1 .. Len(r) /\ DOMAIN q = 1 .. Len(q) /\ Len(q) \in Nat /\ Len(r) \in Nat
      /\ \A y : y \in Range(r) <=> \E i \in 1 .. Len(r) : r[i] = y
      /\ \A y : y \in Range(q) <=> \E i \in 1 .. Len(q) : q[i] = y
  BY <1>1, Indices
<1>4. 1 \in 1 .. Len(q) /\ \A i \in 1 .. Len(q) : i = 1 \/ i - 1 \in 1 .. Len(r)
  BY <1>1, <1>3
<1>5. \A i \in 1 .. Len(r) : i + 1 \in 1 .. Len(q) /\ i + 1 # 1
  BY <1>1, <1>3
<1>6. Range(r) = Range(q) \ {Head(q)}
  <2>1. ASSUME NEW y \in Range(r) PROVE y \in Range(q) \ {Head(q)}
    <3>1. PICK i \in 1 .. Len(r) : r[i] = y
      BY <1>3
    <3>2. q[i + 1] = y
      BY <3>1, <1>1
    <3>3. i + 1 \in 1 .. Len(q) /\ 1 \in 1 .. Len(q) /\ i + 1 # 1
      BY <1>4, <1>5
    <3>4. q[i + 1] # q[1]
      BY <3>3, <1>3 DEF Once
    <3> QED BY <3>2, <3>3, <3>4, <1>2, <1>3
  <2>2. ASSUME NEW y \in Range(q), y # Head(q) PROVE y \in Range(r)
    <3>1. PICK i \in 1 .. Len(q) : q[i] = y
      BY <1>3
    <3>2. i - 1 \in 1 .. Len(r) /\ r[i - 1] = q[(i - 1) + 1] /\ (i - 1) + 1 = i
      BY <3>1, <2>2, <1>1, <1>2, <1>3, <1>4
    <3> QED BY <3>1, <3>2, <1>3
  <2> QED BY <2>1, <2>2
<1>7. Head(q) \in Range(q)
  BY <1>2, <1>3, <1>4
<1>8. Once(r)
  BY <1>1, <1>3, <1>5 DEF Once
<1>9. \A x, y : Ahead(q, x, y) => Ahead(r, x, y)
  BY <1>1, <1>3, <1>5 DEF Ahead
<1> QED BY <1>1, <1>6, <1>7, <1>8, <1>9 DEF r

\* A cancelled task leaves the queue, wherever it is; the others keep their order.
LEMMA Leaves ==
    ASSUME NEW S, NEW q \in Seq(S), NEW x, Once(q)
    PROVE  /\ RemoveFirst(q, x) \in Seq(S)
           /\ Range(RemoveFirst(q, x)) = Range(q) \ {x}
           /\ Once(RemoveFirst(q, x))
           /\ \A y, z : Ahead(q, y, z) => Ahead(RemoveFirst(q, x), y, z)
<1>0. /\ DOMAIN q = 1 .. Len(q) /\ Len(q) \in Nat
      /\ \A i \in 1 .. Len(q) : q[i] \in S
      /\ \A y : y \in Range(q) <=> \E i \in 1 .. Len(q) : q[i] = y
  BY Indices
<1>1. CASE ~ \E i \in 1 .. Len(q) : q[i] = x
  <2>1. RemoveFirst(q, x) = q
    BY <1>1 DEF RemoveFirst
  <2> QED BY <2>1, <1>0, <1>1
<1>2. CASE \E i \in 1 .. Len(q) : q[i] = x
  <2>1. PICK k \in 1 .. Len(q) : q[k] = x
    BY <1>2
  <2>2. {i \in 1 .. Len(q) : q[i] = x} = {k}
    BY <2>1, <1>0 DEF Once
  <2>3. Min({k}) = k
    BY <2>1 DEF Min
  <2>4. SelectInSeq(q, LAMBDA v : v = x) = k
    BY <2>2, <2>3 DEF SelectInSeq
  <2> DEFINE r == RemoveAt(q, k)
             a == SubSeq(q, 1, k - 1)
             b == SubSeq(q, k + 1, Len(q))
  <2>5. RemoveFirst(q, x) = r
    BY <2>4, <1>2 DEF RemoveFirst
  <2>6. /\ a \in Seq(S) /\ Len(a) = k - 1
        /\ \A i \in 1 .. k - 1 : a[i] = q[i]
    <3>1. \A i \in 1 .. k - 1 : q[i] \in S
      BY <1>0
    <3> QED BY <3>1, <1>0, SubSeqProperties
  <2>7. /\ b \in Seq(S) /\ Len(b) = Len(q) - k
        /\ \A i \in 1 .. Len(q) - k : b[i] = q[k + i]
    <3>1. \A i \in k + 1 .. Len(q) : q[i] \in S
      BY <1>0
    <3>2. /\ b \in Seq(S)
          /\ Len(b) = IF k + 1 <= Len(q) THEN Len(q) - (k + 1) + 1 ELSE 0
          /\ \A i \in 1 .. Len(q) - (k + 1) + 1 : b[i] = q[(k + 1) + i - 1]
      BY <3>1, <1>0, SubSeqProperties
    <3>3. \A i \in 1 .. Len(q) - k : b[i] = q[k + i]
      <4>1. ASSUME NEW i \in 1 .. Len(q) - k
            PROVE  i \in 1 .. Len(q) - (k + 1) + 1 /\ (k + 1) + i - 1 = k + i
        BY <1>0
      <4> HIDE DEF b
      <4> QED BY <4>1, <3>2
    <3>4. Len(b) = Len(q) - k
      <4>1. Len(q) \in Nat /\ k \in Nat /\ k <= Len(q)
        BY <1>0
      <4>2. CASE k + 1 <= Len(q)
        <5>1. Len(b) = Len(q) - (k + 1) + 1
          BY <3>2, <4>2
        <5>2. Len(q) - (k + 1) + 1 = Len(q) - k
          BY <4>1
        <5> QED BY <5>1, <5>2
      <4>3. CASE k = Len(q)
        <5>1. Len(b) = 0 /\ Len(q) - k = 0
          BY <3>2, <4>1, <4>3
        <5> QED BY <5>1
      <4> QED BY <4>1, <4>2, <4>3
    <3> QED BY <3>2, <3>3, <3>4
  <2>17. r = a \o b
    BY DEF RemoveAt
  <2> HIDE DEF a, b, r
  <2>8. /\ r \in Seq(S) /\ Len(r) = Len(q) - 1
        /\ \A i \in 1 .. Len(q) - 1 : r[i] = IF i < k THEN q[i] ELSE q[i + 1]
    <3>0. Len(a) + Len(b) = Len(q) - 1 /\ Len(a) = k - 1
      BY <2>6, <2>7, <1>0
    <3>2. /\ r \in Seq(S) /\ Len(r) = Len(a) + Len(b)
          /\ \A i \in 1 .. Len(a) + Len(b) : r[i] = IF i <= Len(a) THEN a[i] ELSE b[i - Len(a)]
      BY <2>17, <2>6, <2>7, ConcatProperties
    <3>3. ASSUME NEW i \in 1 .. Len(q) - 1
          PROVE  r[i] = IF i < k THEN q[i] ELSE q[i + 1]
      <4>1. CASE i < k
        BY <4>1, <3>0, <3>2, <2>6, <1>0
      <4>2. CASE i >= k
        <5>1. r[i] = b[i - (k - 1)]
          BY <4>2, <3>0, <3>2, <1>0
        <5>2. i - (k - 1) \in 1 .. Len(q) - k /\ k + (i - (k - 1)) = i + 1
          BY <4>2, <1>0
        <5> QED BY <4>2, <5>1, <5>2, <2>7
      <4> QED BY <4>1, <4>2
    <3> QED BY <3>0, <3>2, <3>3
  <2> DEFINE At(i) == IF i < k THEN i ELSE i + 1
  <2>9. /\ DOMAIN r = 1 .. Len(q) - 1
        /\ \A y : y \in Range(r) <=> \E i \in 1 .. Len(q) - 1 : r[i] = y
    BY <2>8, Indices
  <2>10. \A i \in 1 .. Len(q) - 1 : At(i) \in 1 .. Len(q) /\ At(i) # k /\ r[i] = q[At(i)]
    BY <2>8, <1>0
  <2>11. \A i, j \in 1 .. Len(q) - 1 : At(i) < At(j) => i < j
    BY <1>0
  <2>12. \A i \in 1 .. Len(q) : i # k => \E j \in 1 .. Len(q) - 1 : At(j) = i
    <3> SUFFICES ASSUME NEW i \in 1 .. Len(q), i # k
                 PROVE  \E j \in 1 .. Len(q) - 1 : At(j) = i
      OBVIOUS
    <3>1. CASE i < k
      <4>1. i \in 1 .. Len(q) - 1 /\ At(i) = i
        BY <3>1, <1>0
      <4> QED BY <4>1
    <3>2. CASE i > k
      <4>1. i - 1 \in 1 .. Len(q) - 1 /\ At(i - 1) = i
        BY <3>2, <1>0
      <4> QED BY <4>1
    <3> QED BY <3>1, <3>2, <1>0
  <2>13. \A i, j \in 1 .. Len(q) - 1 : At(i) = At(j) => i = j
    BY <1>0
  <2> HIDE DEF At
  <2>14. Range(r) = Range(q) \ {x}
    <3>1. ASSUME NEW y \in Range(r) PROVE y \in Range(q) \ {x}
      <4>1. PICK i \in 1 .. Len(q) - 1 : r[i] = y
        BY <2>9
      <4>2. At(i) \in 1 .. Len(q) /\ At(i) # k /\ q[At(i)] = y
        BY <4>1, <2>10
      <4> QED BY <4>2, <2>1, <1>0 DEF Once
    <3>2. ASSUME NEW y \in Range(q), y # x PROVE y \in Range(r)
      <4>1. PICK i \in 1 .. Len(q) : q[i] = y
        BY <1>0
      <4>2. PICK j \in 1 .. Len(q) - 1 : At(j) = i
        BY <4>1, <3>2, <2>1, <2>12
      <4> QED BY <4>1, <4>2, <2>9, <2>10
    <3> QED BY <3>1, <3>2
  <2>15. Once(r)
    BY <2>9, <2>10, <2>13, <1>0 DEF Once
  <2>16. \A y, z : Ahead(q, y, z) => Ahead(r, y, z)
    BY <2>9, <2>10, <2>11, <1>0 DEF Ahead
  <2> QED BY <2>5, <2>8, <2>14, <2>15, <2>16
<1> QED BY <1>1, <1>2

\* The holder of the lock is in no one's way: it comes before the others.
LEMMA HolderIsFirst ==
    ASSUME NEW S, NEW q \in Seq(S), q # <<>>, NEW x \in Range(q), x # Head(q)
    PROVE  ~ Ahead(q, x, Head(q))
<1>1. PICK i \in 1 .. Len(q) : q[i] = x
  BY Indices
<1>2. DOMAIN q = 1 .. Len(q) /\ Len(q) \in Nat /\ 1 \in 1 .. Len(q) /\ q[1] = Head(q)
  BY <1>1, Indices
<1> QED BY <1>1, <1>2 DEF Ahead
=============================================================================
