-------------------------- MODULE LifecycleProofs ---------------------------
(***************************************************************************)
(* For any number of requests and signals, any interval and capacities:    *)
(* the process never outlives the deadline of its first signal and never   *)
(* exits with code 0 while a plain HTTP request is in flight (the two safe *)
(* halves of ShutdownEnds; that the clock goes on is left to TLC); the     *)
(* types and capacities; and the accuracy and the growth of the            *)
(* aggregates, both by the invariant Books: behind every count that can    *)
(* still be replaced stand that many logs, and behind the logs that many   *)
(* responses.                                                              *)
(***************************************************************************)
EXTENDS Lifecycle, FiniteSetTheorems, TLAPS

USE AnalyticsAssumption, LifecycleAssumption

\* Once the server has closed it has no connection and accepts none.
HttpClosed ==
  (exit = "0" \/ \E s \in Signals : closing[s] \in {"cache", "database"}) =>
    ~listening /\ open["http"] = 0

\* Every signal has stopped the server and armed the deadline.
Armed ==
  (\E s \in Signals : closing[s] # "none") => ~listening /\ deadline > 0

InTime == deadline > 0 => clock <= deadline

IInv ==
  /\ clock \in Nat /\ deadline \in Nat
  /\ open \in [Listeners -> Nat] /\ closing \in [Signals -> Stages]
  /\ exit = "0" => \E s \in Signals : closing[s] # "none"
  /\ HttpClosed /\ Armed /\ InTime

LEMMA InitIInv == Init => IInv
BY DEF Init, InitAnalytics, IInv, HttpClosed, Armed, InTime, Listeners, Signals, Stages

THEOREM StepIInv == IInv /\ [Next]_vars => IInv'
<1> SUFFICES ASSUME IInv, [Next]_vars PROVE IInv'
  OBVIOUS
<1> USE DEF IInv, HttpClosed, Armed, InTime, Listeners, Stages
<1>1. CASE HttpsOpens /\ exit = "alive"
  BY <1>1 DEF HttpsOpens
<1>2. CASE Analyse
  BY <1>2 DEF Analyse, Connect, WriteLands, IntervalFires, Aggregate, Replace, process
<1>3. ASSUME NEW l \in Listeners, Arrive(l) PROVE IInv'
  BY <1>3 DEF Arrive, Accepts
<1>4. ASSUME NEW l \in Listeners, Finish(l) \/ Leave(l) PROVE IInv'
  BY <1>4 DEF Finish, Leave
<1>5. ASSUME NEW s \in Signals, Signal(s), exit = "alive" PROVE IInv'
  BY <1>5 DEF Signal
<1>6. CASE ServerCloses
  BY <1>6 DEF ServerCloses, Drained
<1>7. ASSUME NEW s \in Signals, CacheCloses(s) PROVE IInv'
  BY <1>7 DEF CacheCloses
<1>8. ASSUME NEW s \in Signals, DatabaseCloses(s) PROVE IInv'
  BY <1>8 DEF DatabaseCloses
<1>9. CASE DeadlinePasses
  BY <1>9 DEF DeadlinePasses
<1>10. CASE Tick
  BY <1>10 DEF Tick, process
<1>11. CASE UNCHANGED vars
  BY <1>11 DEF vars, process
<1> QED BY <1>1, <1>2, <1>3, <1>4, <1>5, <1>6, <1>7, <1>8, <1>9, <1>10, <1>11 DEF Next

\* index.js's process.exit(0) is only reached when every plain HTTP request
\* has been answered: server.close waits for them, and a second signal does
\* not shorten the wait.
THEOREM CleanExit == Spec => [](exit = "0" => open["http"] = 0)
<1>1. IInv => (exit = "0" => open["http"] = 0) BY DEF IInv, HttpClosed
<1> QED BY <1>1, InitIInv, StepIInv, PTL DEF Spec

\* The forced shutdown bounds the wait: the process is never older than the
\* deadline of its first signal.
THEOREM ExitInTime == Spec => []InTime
<1>1. IInv => InTime BY DEF IInv
<1> QED BY <1>1, InitIInv, StepIInv, PTL DEF Spec

-----------------------------------------------------------------------------
(* Minutes.                                                                *)

LEMMA BucketFacts ==
  ASSUME NEW t \in Nat
  PROVE  /\ Bucket(t) \in Nat /\ Minute * Bucket(t) <= t
         /\ t < Minute * Bucket(t) + Minute
<1>1. Minute \in Nat /\ Minute > 0 OBVIOUS
<1>2. t \div Minute \in Int BY <1>1
<1>3. Minute * (t \div Minute) <= t BY <1>1
<1>4. t < Minute * (t \div Minute) + Minute BY <1>1
<1>5. t \div Minute >= 0 BY <1>1
<1> QED BY <1>2, <1>3, <1>4, <1>5 DEF Bucket

LEMMA BucketMonotone ==
  ASSUME NEW t \in Nat, NEW u \in Nat, t <= u
  PROVE  Bucket(t) <= Bucket(u)
<1>1. Minute \in Nat /\ Minute > 0 OBVIOUS
<1>2. /\ Bucket(t) \in Nat /\ Bucket(u) \in Nat /\ Minute * Bucket(t) <= t
      /\ u < Minute * Bucket(u) + Minute
  BY BucketFacts
<1>3. SUFFICES ASSUME Bucket(t) >= Bucket(u) + 1 PROVE FALSE BY <1>2
<1>4. Minute * Bucket(t) >= Minute * (Bucket(u) + 1) BY <1>1, <1>2, <1>3
<1>5. Minute * (Bucket(u) + 1) = Minute * Bucket(u) + Minute BY <1>1, <1>2
<1> QED BY <1>1, <1>2, <1>4, <1>5

-----------------------------------------------------------------------------
(* How many elements of a sequence are in a set.                           *)

Clocks == 0..MaxTime
At(s, T) == {i \in DOMAIN s : s[i] \in T}
One(condition) == IF condition THEN 1 ELSE 0

LEMMA IntervalSize ==
  ASSUME NEW n \in Nat
  PROVE  IsFiniteSet(1..n) /\ Cardinality(1..n) = n
<1>1. 1 \in Int /\ n \in Int OBVIOUS
<1>2. IsFiniteSet(1..n) /\ Cardinality(1..n) = IF 1 > n THEN 0 ELSE n - 1 + 1
  BY ONLY <1>1, FS_Interval
<1> QED BY <1>2

LEMMA AmongType ==
  ASSUME NEW S, NEW s \in Seq(S), NEW T
  PROVE  IsFiniteSet(At(s, T)) /\ Among(s, T) \in Nat /\ Among(s, T) <= Len(s)
         /\ Among(s, T) = Cardinality(At(s, T))
<1>1. At(s, T) \in SUBSET (1..Len(s)) /\ Len(s) \in Nat BY DEF At
<1>2. IsFiniteSet(1..Len(s)) /\ Cardinality(1..Len(s)) = Len(s) BY <1>1, IntervalSize
<1>3. IsFiniteSet(At(s, T)) /\ Cardinality(At(s, T)) <= Len(s) BY <1>1, <1>2, FS_Subset
<1>4. Among(s, T) = Cardinality(At(s, T)) BY DEF Among, At
<1> QED BY <1>3, <1>4, FS_CardinalityType

LEMMA AmongNone ==
  ASSUME NEW S, NEW s \in Seq(S), NEW T, \A i \in 1..Len(s) : s[i] \notin T
  PROVE  Among(s, T) = 0
<1>1. At(s, T) = {} BY DEF At
<1> QED BY <1>1, AmongType, FS_EmptySet

LEMMA AmongAll ==
  ASSUME NEW S, NEW s \in Seq(S), NEW T, \A i \in 1..Len(s) : s[i] \in T
  PROVE  Among(s, T) = Len(s)
<1>1. At(s, T) = 1..Len(s) /\ Len(s) \in Nat BY DEF At
<1>2. Cardinality(1..Len(s)) = Len(s) BY <1>1, IntervalSize
<1> QED BY <1>1, <1>2, AmongType

LEMMA AmongSubset ==
  ASSUME NEW S, NEW s \in Seq(S), NEW T, NEW U,
         \A i \in 1..Len(s) : s[i] \in T => s[i] \in U
  PROVE  Among(s, T) <= Among(s, U)
<1>1. At(s, T) \in SUBSET At(s, U) BY DEF At
<1> QED BY <1>1, AmongType, FS_Subset

LEMMA AmongAppend ==
  ASSUME NEW S, NEW s \in Seq(S), NEW x \in S, NEW T
  PROVE  Among(Append(s, x), T) = Among(s, T) + One(x \in T)
<1> DEFINE r == Append(s, x)
           n == Len(s) + 1
<1>1. Len(s) \in Nat /\ DOMAIN s = 1..Len(s) /\ DOMAIN r = 1..n OBVIOUS
<1>2. \A i \in 1..Len(s) : r[i] = s[i] OBVIOUS
<1>3. r[n] = x /\ r \in Seq(S) OBVIOUS
<1>4. n \notin At(s, T) BY <1>1 DEF At
<1> HIDE DEF r
<1>5. /\ IsFiniteSet(At(s, T)) /\ Among(s, T) = Cardinality(At(s, T))
      /\ Among(r, T) = Cardinality(At(r, T)) /\ Among(s, T) \in Nat
  BY <1>3, AmongType
<1>6. CASE x \in T
  <2>1. At(r, T) = At(s, T) \cup {n} BY <1>1, <1>2, <1>3, <1>6 DEF At
  <2>2. Cardinality(At(s, T) \cup {n}) = Cardinality(At(s, T)) + 1
    BY <1>4, <1>5, FS_AddElement
  <2> QED BY <1>5, <1>6, <2>1, <2>2 DEF One, r
<1>7. CASE x \notin T
  <2>1. At(r, T) = At(s, T) BY <1>1, <1>2, <1>3, <1>7 DEF At
  <2> QED BY <1>5, <1>7, <2>1 DEF One, r
<1> QED BY <1>6, <1>7

\* A sequence without its element at place k.
LEMMA AmongWithout ==
  ASSUME NEW S, NEW s \in Seq(S), NEW k \in 1..Len(s), NEW r \in Seq(S), NEW T,
         Len(r) = Len(s) - 1,
         \A i \in 1..Len(r) : r[i] = IF i < k THEN s[i] ELSE s[i + 1]
  PROVE  Among(s, T) = Among(r, T) + One(s[k] \in T)
<1> DEFINE shift(i) == IF i < k THEN i ELSE i + 1
           f == [i \in At(r, T) |-> shift(i)]
<1>1. Len(s) \in Nat /\ k \in Nat /\ DOMAIN s = 1..Len(s) /\ DOMAIN r = 1..(Len(s) - 1)
  OBVIOUS
<1>2. /\ IsFiniteSet(At(s, T)) /\ Among(s, T) = Cardinality(At(s, T)) /\ Among(s, T) \in Nat
      /\ IsFiniteSet(At(r, T)) /\ Among(r, T) = Cardinality(At(r, T)) /\ Among(r, T) \in Nat
  BY AmongType
<1>3. f \in Bijection(At(r, T), At(s, T) \ {k})
  <2>1. \A i \in At(r, T) : i \in Nat /\ shift(i) \in At(s, T) \ {k}
    <3> TAKE i \in At(r, T)
    <3>1. i \in 1..(Len(s) - 1) /\ r[i] \in T BY <1>1 DEF At
    <3>2. CASE i < k
      <4>1. i \in 1..Len(s) /\ i # k /\ s[i] \in T BY <1>1, <3>1, <3>2
      <4> QED BY <1>1, <3>1, <3>2, <4>1 DEF At
    <3>3. CASE ~(i < k)
      <4>1. i + 1 \in 1..Len(s) /\ i + 1 # k /\ s[i + 1] \in T BY <1>1, <3>1, <3>3
      <4> QED BY <1>1, <3>1, <3>3, <4>1 DEF At
    <3> QED BY <3>2, <3>3
  <2>2. \A i \in At(r, T), j \in At(r, T) : shift(i) = shift(j) => i = j BY <2>1, <1>1
  <2>3. \A j \in At(s, T) \ {k} : \E i \in At(r, T) : shift(i) = j
    <3> TAKE j \in At(s, T) \ {k}
    <3>1. j \in 1..Len(s) /\ s[j] \in T /\ j # k BY <1>1 DEF At
    <3>2. CASE j < k
      <4>1. j \in At(r, T) /\ shift(j) = j BY <1>1, <3>1, <3>2 DEF At
      <4> QED BY <4>1
    <3>3. CASE j > k
      <4>1. j - 1 \in At(r, T) /\ shift(j - 1) = j BY <1>1, <3>1, <3>3 DEF At
      <4> QED BY <4>1
    <3> QED BY <1>1, <3>1, <3>2, <3>3
  <2> HIDE DEF shift
  <2>4. f \in [At(r, T) -> At(s, T) \ {k}] BY <2>1
  <2>5. \A i, j \in At(r, T) : f[i] = f[j] => i = j BY <2>2
  <2>6. \A j \in At(s, T) \ {k} : \E i \in At(r, T) : f[i] = j BY <2>3
  <2> HIDE DEF f
  <2> QED BY <2>4, <2>5, <2>6 DEF Bijection, Injection, Surjection, IsInjective
<1>4. Cardinality(At(s, T) \ {k}) = Cardinality(At(r, T))
  BY <1>2, <1>3, FS_Bijection DEF ExistsBijection
<1>5. Cardinality(At(s, T) \ {k}) =
        IF k \in At(s, T) THEN Cardinality(At(s, T)) - 1 ELSE Cardinality(At(s, T))
  BY <1>2, FS_RemoveElement
<1>6. k \in At(s, T) <=> s[k] \in T BY <1>1 DEF At
<1> QED BY <1>2, <1>4, <1>5, <1>6 DEF One

LEMMA RemoveAtFacts ==
  ASSUME NEW S, NEW s \in Seq(S), NEW k \in 1..Len(s)
  PROVE  /\ RemoveAt(s, k) \in Seq(S) /\ Len(RemoveAt(s, k)) = Len(s) - 1
         /\ \A i \in 1..Len(RemoveAt(s, k)) :
              RemoveAt(s, k)[i] = IF i < k THEN s[i] ELSE s[i + 1]
<1> DEFINE a == SubSeq(s, 1, k - 1)
           b == SubSeq(s, k + 1, Len(s))
<1>1. Len(s) \in Nat /\ k \in Nat /\ k >= 1 /\ k <= Len(s) OBVIOUS
<1>2. a \in Seq(S) /\ Len(a) = k - 1 /\ \A i \in 1..(k - 1) : a[i] = s[i] BY <1>1
<1>3. b \in Seq(S) /\ Len(b) = Len(s) - k /\ \A i \in 1..(Len(s) - k) : b[i] = s[k + i] BY <1>1
<1> HIDE DEF a, b
<1>4. a \o b \in Seq(S) /\ Len(a \o b) = Len(s) - 1
  <2>1. a \o b \in Seq(S) BY <1>2, <1>3
  <2>2. a \in Seq(S) /\ b \in Seq(S) BY <1>2, <1>3
  <2>3. Len(a \o b) = Len(a) + Len(b) BY ONLY <2>2
  <2> QED BY <1>1, <1>2, <1>3, <2>1, <2>3
<1>5. \A i \in 1..(Len(s) - 1) : (a \o b)[i] = IF i < k THEN s[i] ELSE s[i + 1]
  <2> TAKE i \in 1..(Len(s) - 1)
  <2>1. (a \o b)[i] = IF i <= Len(a) THEN a[i] ELSE b[i - Len(a)] BY <1>1, <1>2, <1>3
  <2>2. CASE i < k
    <3>1. i \in 1..(k - 1) /\ i <= Len(a) BY <1>1, <1>2, <2>2
    <3> QED BY <1>2, <2>1, <2>2, <3>1
  <2>3. CASE ~(i < k)
    <3>1. i - (k - 1) \in 1..(Len(s) - k) /\ k + (i - (k - 1)) = i + 1 BY <1>1, <2>3
    <3>2. (a \o b)[i] = b[i - (k - 1)] BY <1>1, <1>2, <2>1, <2>3
    <3> QED BY <1>1, <1>3, <2>3, <3>1, <3>2
  <2> QED BY <1>1, <2>2, <2>3
<1>6. RemoveAt(s, k) = a \o b BY DEF RemoveAt, a, b
<1> QED BY <1>4, <1>5, <1>6

LEMMA TailFacts ==
  ASSUME NEW S, NEW s \in Seq(S), s # << >>
  PROVE  /\ Tail(s) \in Seq(S) /\ Len(Tail(s)) = Len(s) - 1 /\ 1 \in 1..Len(s)
         /\ \A i \in 1..Len(Tail(s)) : Tail(s)[i] = s[i + 1] /\ i + 1 \in 1..Len(s)
OBVIOUS

LEMMA AmongTail ==
  ASSUME NEW S, NEW s \in Seq(S), s # << >>, NEW T
  PROVE  Among(s, T) = Among(Tail(s), T) + One(s[1] \in T)
<1> DEFINE r == Tail(s)
<1>1. /\ r \in Seq(S) /\ Len(r) = Len(s) - 1 /\ 1 \in 1..Len(s)
      /\ \A i \in 1..Len(r) : r[i] = s[i + 1] BY TailFacts
<1> HIDE DEF r
<1>2. \A i \in 1..Len(r) : r[i] = IF i < 1 THEN s[i] ELSE s[i + 1] BY <1>1
<1>3. Among(s, T) = Among(r, T) + One(s[1] \in T) BY ONLY <1>1, <1>2, s \in Seq(S), AmongWithout
<1> QED BY <1>3 DEF r

LEMMA AmongRemoveAt ==
  ASSUME NEW S, NEW s \in Seq(S), NEW k \in 1..Len(s), NEW T
  PROVE  Among(s, T) = Among(RemoveAt(s, k), T) + One(s[k] \in T)
<1> DEFINE r == RemoveAt(s, k)
<1>1. /\ r \in Seq(S) /\ Len(r) = Len(s) - 1
      /\ \A i \in 1..Len(r) : r[i] = IF i < k THEN s[i] ELSE s[i + 1] BY RemoveAtFacts
<1> HIDE DEF r
<1>2. s \in Seq(S) /\ k \in 1..Len(s) /\ r \in Seq(S) /\ Len(r) = Len(s) - 1
      /\ \A i \in 1..Len(r) : r[i] = IF i < k THEN s[i] ELSE s[i + 1]
  BY <1>1
<1>3. Among(s, T) = Among(r, T) + One(s[k] \in T) BY ONLY <1>2, AmongWithout, SMTT(30)
<1> QED BY <1>3 DEF r

LEMMA CappedFacts ==
  ASSUME NEW S, NEW s \in Seq(S), NEW n \in Nat \ {0}, Len(s) <= n + 1
  PROVE  /\ Capped(s, n) \in Seq(S) /\ Len(Capped(s, n)) <= n
         /\ \/ Capped(s, n) = s
            \/ Capped(s, n) = Tail(s) /\ Len(s) > n /\ s # << >>
<1>1. Len(s) \in Nat OBVIOUS
<1>2. CASE Len(s) > n
  <2>1. s # << >> /\ Capped(s, n) = Tail(s) BY <1>1, <1>2 DEF Capped
  <2>2. Tail(s) \in Seq(S) /\ Len(Tail(s)) = Len(s) - 1 BY <2>1, TailFacts
  <2>3. Len(s) - 1 <= n BY <1>1
  <2>4. Len(Tail(s)) <= n BY <2>2, <2>3
  <2>5. Capped(s, n) \in Seq(S) /\ Len(Capped(s, n)) <= n BY <2>1, <2>2, <2>4
  <2> QED BY <1>2, <2>1, <2>5
<1>3. CASE ~(Len(s) > n) BY <1>1, <1>3 DEF Capped
<1> QED BY <1>2, <1>3

-----------------------------------------------------------------------------
(* The aggregates.                                                         *)

Records == [bucket : Nat, count : Nat]
Distinct(s) == \A i, j \in 1..Len(s) : s[i].bucket = s[j].bucket => i = j
Ascending(s) == \A i, j \in 1..Len(s) : i < j => s[i].bucket < s[j].bucket

Replaces(r, s, doc) ==
  /\ \A i \in 1..Len(r) :
       r[i] = doc \/ (i \in 1..Len(s) /\ r[i] = s[i] /\ s[i].bucket # doc.bucket)
  /\ \A i \in 1..Len(s) : s[i].bucket # doc.bucket => i \in 1..Len(r) /\ r[i] = s[i]
  /\ \E i \in 1..Len(r) : r[i] = doc

LEMMA RecordTypes ==
  ASSUME NEW s \in Seq(Records)
  PROVE  /\ Len(s) \in Nat /\ DOMAIN s = 1..Len(s)
         /\ \A i \in 1..Len(s) : s[i] \in Records /\ s[i].bucket \in Nat /\ s[i].count \in Nat
<1>1. \A i \in 1..Len(s) : s[i] \in Records OBVIOUS
<1> QED BY <1>1 DEF Records

\* findIndex and replace, or push: every other minute keeps its aggregate.
LEMMA UpsertedFacts ==
  ASSUME NEW s \in Seq(Records), NEW doc \in Records, Distinct(s),
         NEW r, r = Upserted(s, doc)
  PROVE  /\ r \in Seq(Records) /\ Distinct(r) /\ Len(r) <= Len(s) + 1
         /\ Replaces(r, s, doc)
         /\ Ascending(s) /\ (\A i \in 1..Len(s) : s[i].bucket <= doc.bucket) => Ascending(r)
<1>1. /\ Len(s) \in Nat /\ DOMAIN s = 1..Len(s)
      /\ \A i \in 1..Len(s) : s[i] \in Records /\ s[i].bucket \in Nat
  BY RecordTypes
<1>2. doc.bucket \in Nat BY DEF Records
<1>3. CASE \E i \in 1..Len(s) : s[i].bucket = doc.bucket
  <2>1. PICK k \in 1..Len(s) : s[k].bucket = doc.bucket BY <1>3
  <2>2. r = [i \in 1..Len(s) |-> IF s[i].bucket = doc.bucket THEN doc ELSE s[i]]
    BY <1>1, <1>3 DEF Upserted
  <2>3. r \in Seq(Records) /\ Len(r) = Len(s) BY <1>1, <2>2
  <2>4. \A i \in 1..Len(s) : /\ r[i] = IF i = k THEN doc ELSE s[i]
                             /\ r[i].bucket = s[i].bucket /\ (i # k => s[i].bucket # doc.bucket)
    BY <2>1, <2>2 DEF Distinct
  <2>5. Distinct(r) BY <2>3, <2>4 DEF Distinct
  <2>6. Ascending(s) => Ascending(r) BY <2>3, <2>4 DEF Ascending
  <2>7. /\ \A i \in 1..Len(r) :
             r[i] = doc \/ (i \in 1..Len(s) /\ r[i] = s[i] /\ s[i].bucket # doc.bucket)
        /\ \A i \in 1..Len(s) :
             s[i].bucket # doc.bucket => i \in 1..Len(r) /\ r[i] = s[i]
    BY <2>1, <2>3, <2>4
  <2>8. r[k] = doc /\ k \in 1..Len(r) BY <2>1, <2>3, <2>4
  <2> QED BY <1>1, <2>3, <2>5, <2>6, <2>7, <2>8 DEF Replaces
<1>4. CASE ~\E i \in 1..Len(s) : s[i].bucket = doc.bucket
  <2> DEFINE n == Len(s) + 1
  <2>1. r = Append(s, doc) BY <1>1, <1>4 DEF Upserted
  <2>2. /\ r \in Seq(Records) /\ Len(r) = n /\ r[n] = doc
        /\ \A i \in 1..Len(s) : r[i] = s[i] /\ s[i].bucket # doc.bucket
    BY <1>1, <1>4, <2>1
  <2>3. /\ n \in 1..n /\ n \notin 1..Len(s) /\ \A i \in 1..n : i \in 1..Len(s) \/ i = n
        /\ \A i \in 1..Len(s) : i \in 1..n
    <3>1. n = Len(s) + 1 /\ Len(s) \in Nat BY <1>1
    <3> HIDE DEF n
    <3> QED BY ONLY <3>1
  <2>4. n = Len(s) + 1 OBVIOUS
  <2> HIDE DEF n
  <2>5. Distinct(r)
    <3> SUFFICES ASSUME NEW i \in 1..n, NEW j \in 1..n, r[i].bucket = r[j].bucket
                 PROVE  i = j
      BY <2>2 DEF Distinct
    <3>1. CASE i \in 1..Len(s) /\ j \in 1..Len(s) BY <3>1, <2>2 DEF Distinct
    <3>2. CASE i = n /\ j \in 1..Len(s) BY <3>2, <2>2
    <3>3. CASE i \in 1..Len(s) /\ j = n BY <3>3, <2>2
    <3> QED BY <2>3, <3>1, <3>2, <3>3
  <2>6. ASSUME Ascending(s), \A i \in 1..Len(s) : s[i].bucket <= doc.bucket
        PROVE  Ascending(r)
    <3> SUFFICES ASSUME NEW i \in 1..n, NEW j \in 1..n, i < j
                 PROVE  r[i].bucket < r[j].bucket
      BY <2>2 DEF Ascending
    <3>1. i \in 1..Len(s) BY <1>1, <2>4
    <3>2. CASE j \in 1..Len(s) BY <3>1, <3>2, <2>2, <2>6 DEF Ascending
    <3>3. CASE j = n
      <4>1. s[i].bucket <= doc.bucket /\ s[i].bucket # doc.bucket /\ s[i].bucket \in Nat
        BY <3>1, <2>2, <2>6, <1>1
      <4>2. r[i].bucket = s[i].bucket /\ r[j].bucket = doc.bucket BY <3>1, <3>3, <2>2
      <4> QED BY <4>1, <4>2, <1>2
    <3> QED BY <2>3, <3>2, <3>3
  <2>7. /\ \A i \in 1..Len(r) :
             r[i] = doc \/ (i \in 1..Len(s) /\ r[i] = s[i] /\ s[i].bucket # doc.bucket)
        /\ \A i \in 1..Len(s) :
             s[i].bucket # doc.bucket => i \in 1..Len(r) /\ r[i] = s[i]
        /\ \E i \in 1..Len(r) : r[i] = doc
    BY <2>2, <2>3
  <2>8. Len(r) <= Len(s) + 1 BY <1>1, <2>2, <2>4
  <2> QED BY <2>2, <2>5, <2>6, <2>7, <2>8 DEF Replaces
<1> QED BY <1>3, <1>4

\* n minutes in ascending order span at least n minutes.
LEMMA AscendingSpan ==
  ASSUME NEW s \in Seq(Records), Ascending(s), s # << >>, NEW last \in Nat,
         \A i \in 1..Len(s) : s[i].bucket <= last
  PROVE  s[1].bucket + Len(s) <= last + 1
<1> DEFINE first == s[1].bucket
           span == first..last
           f == [i \in 1..Len(s) |-> s[i].bucket]
<1>1. /\ Len(s) \in Nat /\ 1 \in 1..Len(s)
      /\ \A i \in 1..Len(s) : s[i].bucket \in Nat
  BY RecordTypes
<1>2. \A i \in 1..Len(s) : s[i].bucket \in span
  <2> TAKE i \in 1..Len(s)
  <2>1. CASE i = 1 BY <1>1, <2>1
  <2>2. CASE i # 1
    <3>1. 1 < i BY <1>1, <2>2
    <3>2. s[1].bucket < s[i].bucket BY <1>1, <3>1 DEF Ascending
    <3> QED BY <1>1, <3>2
  <2> QED BY <2>1, <2>2
<1>3. first \in Nat /\ first <= last BY <1>1
<1>4. IsFiniteSet(span) /\ Cardinality(span) = last - first + 1
  <2>1. first \in Int /\ last \in Int BY <1>3
  <2> HIDE DEF first
  <2>2. IsFiniteSet(span) /\ Cardinality(span) = IF first > last THEN 0 ELSE last - first + 1
    BY ONLY <2>1, FS_Interval DEF span
  <2> QED BY <1>3, <2>2
<1>5. f \in Injection(1..Len(s), span)
  <2>1. \A i, j \in 1..Len(s) : s[i].bucket = s[j].bucket => i = j
    <3> TAKE i, j \in 1..Len(s)
    <3>1. CASE i < j BY <3>1, <1>1 DEF Ascending
    <3>2. CASE j < i BY <3>2, <1>1 DEF Ascending
    <3> QED BY <1>1, <3>1, <3>2
  <2> HIDE DEF span
  <2>2. f \in [1..Len(s) -> span] BY <1>2
  <2> QED BY <2>1, <2>2 DEF Injection, IsInjective
<1> HIDE DEF f, span, first
<1>6. Cardinality(1..Len(s)) <= Cardinality(span) BY <1>4, <1>5, FS_Injection
<1>7. Cardinality(1..Len(s)) = Len(s) BY <1>1, IntervalSize
<1> QED BY <1>1, <1>3, <1>4, <1>6, <1>7 DEF first

-----------------------------------------------------------------------------
(* The analytics' invariant.                                               *)

UpTo(s, n) == \A i \in 1..Len(s) : s[i] <= n
InOrder(s) == \A i, j \in 1..Len(s) : i < j => s[i] <= s[j]
BucketsUpTo(s, b) == \A i \in 1..Len(s) : s[i].bucket <= b

Sequenced ==
  /\ clock \in Nat /\ clock <= MaxTime /\ mode \in Modes
  /\ logs \in Seq(Nat) /\ writes \in Seq(Nat) /\ recorded \in Seq(Nat)
  /\ UpTo(logs, clock) /\ UpTo(writes, clock) /\ UpTo(recorded, clock)
  /\ aggregates \in Seq(Records) /\ rollups \in Seq(Records)
  /\ BucketsUpTo(aggregates, Bucket(clock)) /\ BucketsUpTo(rollups, Bucket(clock))
  /\ Distinct(aggregates)
  /\ \/ running = TRUE /\ Len(rollups) = 1 /\ mode = "mongo"
     \/ running = FALSE /\ Len(rollups) = 0

\* Nothing is stored before the choice of the store; the arrays in memory are
\* within their capacity and in the order of time.
Arranged ==
  /\ mode \notin {"memory", "mongo"} =>
       logs = << >> /\ writes = << >> /\ aggregates = << >> /\ recorded = << >>
  /\ mode = "memory" =>
       /\ writes = << >> /\ InOrder(logs) /\ Ascending(aggregates)
       /\ Len(logs) <= MaxLogs /\ Len(aggregates) <= MaxAggregates

\* Every log is of a response.
Conserved ==
  \A b \in Nat : Among(logs, Times(b)) + Among(writes, Times(b)) <= Among(recorded, Times(b))

\* Every count is of responses.
Backed(s) == \A i \in 1..Len(s) : s[i].count <= Among(recorded, Times(s[i].bucket))

\* The logs behind a count do not become fewer while it may be replaced: in
\* memory for the current minute, in MongoDB for ever.
Kept ==
  \A i \in 1..Len(aggregates) :
    mode = "mongo" \/ aggregates[i].bucket = Bucket(clock) =>
      aggregates[i].count <= Among(logs, Times(aggregates[i].bucket))

\* The rollup that awaits its replacement counts no fewer than what it replaces.
Ahead ==
  \A i \in 1..Len(rollups) :
    /\ rollups[i].count <= Among(logs, Times(rollups[i].bucket))
    /\ rollups[i].count > 0 =>
         \A j \in 1..Len(aggregates) :
           aggregates[j].bucket = rollups[i].bucket => aggregates[j].count <= rollups[i].count

\* The log in memory holds the current minute as far as it holds anything.
Complete ==
  mode = "memory" =>
    LET now == Times(Bucket(clock))
    IN  Among(logs, now) >= MaxLogs \/ Among(logs, now) >= Among(recorded, now)

Scheduled ==
  /\ due \in Nat \ {0} /\ clock <= due /\ deadline \in Nat
  /\ \/ deadline = 0 /\ due <= clock + Interval
     \/ deadline > 0 /\ due = Stopped

\* The times of minute b that are behind its last rollup.
Settled(b, d) == {t \in Times(b) : t + Interval \in Times(b) /\ t + Interval < d}

Rolled ==
  mode = "memory" /\ deadline = 0 =>
    \A b \in Nat :
      LET n == Among(recorded, Settled(b, due))
      IN  n > 0 /\ Bucket(clock) < b + MaxAggregates =>
            \E i \in 1..Len(aggregates) :
              /\ aggregates[i].bucket = b
              /\ aggregates[i].count >= n \/ aggregates[i].count >= MaxLogs

Books ==
  /\ Sequenced /\ Arranged /\ Scheduled
  /\ Conserved /\ Backed(aggregates) /\ Backed(rollups)
  /\ Kept /\ Ahead /\ Complete /\ Rolled

\* Every response in flight or recorded has arrived.
Traffic ==
  /\ open \in [Listeners -> Nat] /\ arrived \in Nat /\ arrived <= MaxRequests
  /\ open["http"] + open["https"] + Len(recorded) <= arrived
  /\ exit \in {"alive", "0", "1"} /\ https \in {"none", "opening", "up"}
  /\ listening \in BOOLEAN /\ deadline <= MaxTime

LEMMA Positive ==
  /\ Minute \in Nat \ {0} /\ Interval \in Nat \ {0} /\ MaxLogs \in Nat \ {0}
  /\ MaxAggregates \in Nat \ {0} /\ MaxTime \in Nat /\ MaxRequests \in Nat
  /\ Deadline \in Nat \ {0}
OBVIOUS

LEMMA InTimes ==
  ASSUME NEW t \in Nat, t <= MaxTime, NEW b
  PROVE  t \in Times(b) <=> Bucket(t) = b
BY DEF Times

LEMMA InitBooks == Init => Books
<1> SUFFICES ASSUME Init PROVE Books
  OBVIOUS
<1> USE DEF Init, InitAnalytics
<1>1. \A T : Among(<< >>, T) = 0
  <2> TAKE T
  <2>1. << >> \in Seq(Nat) /\ \A i \in 1..Len(<< >>) : << >>[i] \notin T OBVIOUS
  <2> QED BY <2>1, AmongNone
<1>2. Sequenced
  BY Positive DEF Sequenced, Modes, UpTo, BucketsUpTo, Distinct
<1>3. Arranged BY Positive DEF Arranged, InOrder, Ascending
<1>4. Scheduled BY Positive DEF Scheduled
<1>5. Conserved /\ Backed(aggregates) /\ Backed(rollups) /\ Kept /\ Ahead
  BY <1>1 DEF Conserved, Backed, Kept, Ahead
<1>6. Complete BY <1>1 DEF Complete
<1>7. Rolled BY <1>1 DEF Rolled
<1> QED BY <1>2, <1>3, <1>4, <1>5, <1>6, <1>7 DEF Books

\* Whatever the step, these follow from what the analytics have.
LEMMA BooksSame ==
  ASSUME Books, UNCHANGED <<clock, database, worker, due, recorded, deadline>>
  PROVE  Books'
<1>1. UNCHANGED <<clock, mode, logs, writes, aggregates, rollups, running, due, recorded, deadline>>
  BY DEF database, worker
<1>2. Sequenced' BY <1>1 DEF Books, Sequenced
<1>3. Arranged' /\ Scheduled' BY <1>1 DEF Books, Arranged, Scheduled
<1>4. Conserved' /\ Backed(aggregates)' /\ Backed(rollups)'
  BY <1>1 DEF Books, Conserved, Backed
<1>5. Kept' /\ Ahead' BY <1>1 DEF Books, Kept, Ahead
<1>6. Complete' /\ Rolled' BY <1>1 DEF Books, Complete, Rolled
<1> QED BY <1>2, <1>3, <1>4, <1>5, <1>6 DEF Books

\* A log whose oldest entry is of the current minute holds nothing else.
LEMMA OldestNow ==
  ASSUME NEW s \in Seq(Nat), InOrder(s), s # << >>, NEW t \in Nat, t <= MaxTime, UpTo(s, t),
         s[1] \in Times(Bucket(t))
  PROVE  \A i \in 1..Len(s) : s[i] \in Times(Bucket(t))
<1> TAKE i \in 1..Len(s)
<1>1. 1 \in 1..Len(s) /\ i \in Nat /\ s[i] \in Nat /\ s[1] \in Nat OBVIOUS
<1>2. s[1] <= s[i]
  <2>1. CASE i = 1 BY <1>1, <2>1
  <2>2. CASE i # 1
    <3>1. 1 < i BY <1>1, <2>2
    <3> QED BY <1>1, <3>1 DEF InOrder
  <2> QED BY <2>1, <2>2
<1>3. s[i] <= t BY DEF UpTo
<1>4. Bucket(s[1]) = Bucket(t) BY DEF Times
<1>5. Bucket(s[1]) <= Bucket(s[i]) /\ Bucket(s[i]) <= Bucket(t)
  BY <1>1, <1>2, <1>3, BucketMonotone
<1>6. Bucket(s[i]) \in Nat /\ Bucket(t) \in Nat BY <1>1, BucketFacts
<1>7. Bucket(s[i]) = Bucket(t) BY <1>4, <1>5, <1>6
<1> QED BY <1>1, <1>3, <1>7, Positive DEF Times

\* The log in memory after one more response.
LEMMA Logged ==
  ASSUME NEW s \in Seq(Nat), InOrder(s), Len(s) <= MaxLogs,
         NEW t \in Nat, t <= MaxTime, UpTo(s, t),
         NEW r, r = Capped(Append(s, t), MaxLogs)
  PROVE  /\ r \in Seq(Nat) /\ InOrder(r) /\ Len(r) <= MaxLogs /\ UpTo(r, t)
         /\ \A T : Among(r, T) <= Among(s, T) + One(t \in T)
         /\ Among(r, Times(Bucket(t))) >= Among(s, Times(Bucket(t)))
         /\ \/ Among(s, Times(Bucket(t))) >= MaxLogs
            \/ Among(r, Times(Bucket(t))) = Among(s, Times(Bucket(t))) + 1
<1> DEFINE q == Append(s, t)
           N == Times(Bucket(t))
<1>1. /\ Len(s) \in Nat /\ q \in Seq(Nat) /\ Len(q) = Len(s) + 1 /\ q[Len(s) + 1] = t
      /\ \A i \in 1..Len(s) : q[i] = s[i] /\ s[i] \in Nat
  OBVIOUS
<1>2. \A T : /\ Among(q, T) = Among(s, T) + One(t \in T)
             /\ Among(s, T) \in Nat /\ Among(q, T) \in Nat
  <2>1. \A T : Among(s, T) \in Nat /\ Among(q, T) \in Nat BY <1>1, AmongType
  <2>2. \A T : Among(q, T) = Among(s, T) + One(t \in T) BY AmongAppend
  <2> QED BY <2>1, <2>2
<1>3. t \in N BY InTimes
<1> HIDE DEF q
<1>9. \A i \in 1..Len(q) : i \in 1..Len(s) \/ i = Len(s) + 1 BY <1>1
<1>4. UpTo(q, t)
  <2>1. \A i \in 1..Len(s) : q[i] <= t BY <1>1 DEF UpTo
  <2>2. q[Len(s) + 1] <= t BY <1>1
  <2> QED BY <1>9, <2>1, <2>2 DEF UpTo
<1>5. InOrder(q)
  <2> SUFFICES ASSUME NEW i \in 1..Len(q), NEW j \in 1..Len(q), i < j PROVE q[i] <= q[j]
    BY DEF InOrder
  <2>1. i \in 1..Len(s) BY <1>1
  <2>2. CASE j \in 1..Len(s) BY <1>1, <2>1, <2>2 DEF InOrder
  <2>3. CASE j = Len(s) + 1
    <3>1. q[i] <= t BY <1>4 DEF UpTo
    <3>2. q[j] = t BY <1>1, <2>3
    <3> QED BY <3>1, <3>2
  <2> QED BY <1>9, <2>2, <2>3
<1>6. /\ r \in Seq(Nat) /\ Len(r) <= MaxLogs
      /\ r = q \/ (r = Tail(q) /\ Len(q) > MaxLogs /\ q # << >>)
  <2>1. MaxLogs \in Nat \ {0} BY Positive
  <2>2. Len(q) <= MaxLogs + 1 BY <1>1, <2>1
  <2>3. q \in Seq(Nat) /\ r = Capped(q, MaxLogs) BY <1>1 DEF q
  <2>4. /\ Capped(q, MaxLogs) \in Seq(Nat) /\ Len(Capped(q, MaxLogs)) <= MaxLogs
        /\ \/ Capped(q, MaxLogs) = q
           \/ Capped(q, MaxLogs) = Tail(q) /\ Len(q) > MaxLogs /\ q # << >>
    BY ONLY <2>1, <2>2, <2>3, CappedFacts
  <2> QED BY <2>3, <2>4
<1>7. CASE r = q
  <2>1. \A T : Among(r, T) <= Among(s, T) + One(t \in T) BY <1>2, <1>7 DEF One
  <2>2. Among(r, N) = Among(s, N) + 1 BY <1>2, <1>3, <1>7 DEF One
  <2>3. Among(r, N) >= Among(s, N) BY <1>2, <2>2
  <2> QED BY <1>4, <1>5, <1>6, <1>7, <2>1, <2>2, <2>3
<1>8. CASE r = Tail(q) /\ Len(q) > MaxLogs /\ q # << >>
  <2>1. /\ Len(r) = Len(q) - 1 /\ 1 \in 1..Len(q)
        /\ \A i \in 1..Len(r) : r[i] = q[i + 1] /\ i + 1 \in 1..Len(q)
    BY <1>1, <1>8, TailFacts
  <2>2. \A T : Among(q, T) = Among(r, T) + One(q[1] \in T) BY <1>1, <1>8, AmongTail
  <2>3. \A T : Among(r, T) \in Nat BY <1>6, AmongType
  <2>4. UpTo(r, t) BY <1>4, <2>1 DEF UpTo
  <2>5. InOrder(r)
    <3> SUFFICES ASSUME NEW i \in 1..Len(r), NEW j \in 1..Len(r), i < j PROVE r[i] <= r[j]
      BY DEF InOrder
    <3>1. i + 1 < j + 1 OBVIOUS
    <3> QED BY <1>5, <2>1, <3>1 DEF InOrder
  <2>6. \A T : Among(r, T) <= Among(s, T) + One(t \in T)
    <3> TAKE T
    <3>1. /\ Among(q, T) = Among(s, T) + One(t \in T)
          /\ Among(q, T) = Among(r, T) + One(q[1] \in T)
          /\ Among(r, T) \in Nat /\ Among(s, T) \in Nat
      BY <1>2, <2>2, <2>3
    <3>2. One(t \in T) \in Nat /\ One(q[1] \in T) \in Nat BY DEF One
    <3> QED BY ONLY <3>1, <3>2
  <2>7. Among(r, N) >= Among(s, N)
    <3>1. Among(q, N) = Among(s, N) + 1 /\ Among(s, N) \in Nat BY <1>2, <1>3 DEF One
    <3>2. Among(q, N) = Among(r, N) \/ Among(q, N) = Among(r, N) + 1 BY <2>2, <2>3 DEF One
    <3> QED BY <2>3, <3>1, <3>2
  <2>8. Among(s, N) >= MaxLogs \/ Among(r, N) = Among(s, N) + 1
    <3>1. Len(s) >= MaxLogs /\ Len(s) > 0 BY <1>1, <1>8, Positive
    <3>2. CASE q[1] \in N
      <4>0. s # << >> /\ 1 \in 1..Len(s) BY <1>1, <3>1
      <4>1. s # << >> /\ s[1] \in N BY <1>1, <3>2, <4>0
      <4>2. \A i \in 1..Len(s) : s[i] \in N BY <4>1, OldestNow
      <4>3. Among(s, N) = Len(s) BY <4>2, AmongAll
      <4> QED BY <3>1, <4>3
    <3>3. CASE q[1] \notin N BY <1>2, <1>3, <2>2, <2>3, <3>3 DEF One
    <3> QED BY <3>2, <3>3
  <2> QED BY <1>6, <2>4, <2>5, <2>6, <2>7, <2>8
<1> QED BY <1>6, <1>7, <1>8

-----------------------------------------------------------------------------
(* The steps of the analytics.                                             *)

\* The facts of Books that need no unfolding.
LEMMA Current ==
  ASSUME Books
  PROVE  /\ clock \in Nat /\ clock <= MaxTime /\ Bucket(clock) \in Nat /\ due \in Nat
         /\ logs \in Seq(Nat) /\ writes \in Seq(Nat) /\ recorded \in Seq(Nat)
         /\ aggregates \in Seq(Records) /\ rollups \in Seq(Records)
         /\ \A T : /\ Among(logs, T) \in Nat /\ Among(writes, T) \in Nat
                   /\ Among(recorded, T) \in Nat
<1>1. /\ clock \in Nat /\ clock <= MaxTime /\ due \in Nat
      /\ logs \in Seq(Nat) /\ writes \in Seq(Nat) /\ recorded \in Seq(Nat)
      /\ aggregates \in Seq(Records) /\ rollups \in Seq(Records)
  BY DEF Books, Sequenced, Scheduled
<1> QED BY <1>1, BucketFacts, AmongType

LEMMA BackedLater ==
  ASSUME Books, recorded' \in Seq(Nat), \A T : Among(recorded, T) <= Among(recorded', T),
         UNCHANGED <<aggregates, rollups>>
  PROVE  Backed(aggregates)' /\ Backed(rollups)'
<1>1. ASSUME NEW s \in Seq(Records), NEW i \in 1..Len(s),
             s[i].count <= Among(recorded, Times(s[i].bucket))
      PROVE  s[i].count <= Among(recorded', Times(s[i].bucket))
  <2> DEFINE T == Times(s[i].bucket)
  <2>1. s[i].count \in Nat BY RecordTypes
  <2>2. Among(recorded, T) \in Nat /\ Among(recorded', T) \in Nat
        /\ Among(recorded, T) <= Among(recorded', T) /\ s[i].count <= Among(recorded, T)
    BY <1>1, Current, AmongType
  <2> HIDE DEF T
  <2>3. s[i].count <= Among(recorded', T) BY <2>1, <2>2
  <2> QED BY <2>3 DEF T
<1>2. aggregates \in Seq(Records) /\ rollups \in Seq(Records) BY Current
<1> QED BY <1>1, <1>2 DEF Books, Backed

\* A response recorded now is not yet settled.
LEMMA NotSettled ==
  ASSUME Books, deadline = 0, NEW b
  PROVE  clock \notin Settled(b, due)
<1>1. clock \in Nat /\ due \in Nat /\ due <= clock + Interval BY DEF Books, Scheduled, Sequenced
<1> QED BY <1>1, Positive DEF Settled

\* insertOne of a log in memory.
LEMMA RecordInMemory ==
  ASSUME Books, mode = "memory",
         logs' = Capped(Append(logs, clock), MaxLogs), recorded' = Append(recorded, clock),
         UNCHANGED <<clock, mode, writes, aggregates, rollups, running, due, deadline>>
  PROVE  Books'
<1> DEFINE N == Times(Bucket(clock))
<1>1. /\ clock \in Nat /\ clock <= MaxTime /\ Bucket(clock) \in Nat /\ due \in Nat
      /\ logs \in Seq(Nat) /\ recorded \in Seq(Nat) /\ writes = << >>
      /\ InOrder(logs) /\ Len(logs) <= MaxLogs /\ UpTo(logs, clock)
      /\ \A T : Among(logs, T) \in Nat /\ Among(writes, T) \in Nat /\ Among(recorded, T) \in Nat
  BY Current DEF Books, Arranged, Sequenced
<1>2. /\ logs' \in Seq(Nat) /\ InOrder(logs') /\ Len(logs') <= MaxLogs /\ UpTo(logs', clock)
      /\ \A T : Among(logs', T) <= Among(logs, T) + One(clock \in T)
      /\ Among(logs', N) >= Among(logs, N)
      /\ Among(logs, N) >= MaxLogs \/ Among(logs', N) = Among(logs, N) + 1
  BY <1>1, Logged
<1>3. \A T : Among(recorded', T) = Among(recorded, T) + One(clock \in T)
  BY <1>1, AmongAppend
<1>4. \A T : Among(logs', T) \in Nat /\ Among(recorded', T) \in Nat
             /\ Among(recorded, T) <= Among(recorded', T)
  <2> TAKE T
  <2>1. Among(logs', T) \in Nat BY <1>2, AmongType
  <2>2. Among(recorded, T) \in Nat /\ Among(recorded', T) = Among(recorded, T) + One(clock \in T)
    BY <1>1, <1>3
  <2> QED BY <2>1, <2>2 DEF One
<1>5. recorded' \in Seq(Nat) /\ UpTo(recorded', clock)
  <2>1. recorded' \in Seq(Nat) /\ Len(recorded') = Len(recorded) + 1 BY <1>1
  <2>2. \A i \in 1..Len(recorded') : i \in 1..Len(recorded) \/ i = Len(recorded) + 1
    BY <1>1, <2>1
  <2>3. \A i \in 1..Len(recorded) : recorded'[i] <= clock BY <1>1 DEF Books, Sequenced, UpTo
  <2>4. recorded'[Len(recorded) + 1] <= clock BY <1>1
  <2> QED BY <2>1, <2>2, <2>3, <2>4 DEF UpTo
<1>6. clock \in N BY <1>1, InTimes
<1>7. Sequenced' BY <1>2, <1>5 DEF Books, Sequenced
<1>8. Arranged' /\ Scheduled' BY <1>1, <1>2 DEF Books, Arranged, Scheduled
<1>9. Conserved'
  <2>1. \A b \in Nat : Among(logs', Times(b)) + Among(writes, Times(b)) <= Among(recorded', Times(b))
    <3> TAKE b \in Nat
    <3> DEFINE T == Times(b)
    <3>1. Among(logs, T) + Among(writes, T) <= Among(recorded, T) BY DEF Books, Conserved
    <3>2. One(clock \in T) \in Nat BY DEF One
    <3>3. /\ Among(logs', T) <= Among(logs, T) + One(clock \in T)
          /\ Among(recorded', T) = Among(recorded, T) + One(clock \in T)
          /\ Among(logs', T) \in Nat /\ Among(logs, T) \in Nat /\ Among(writes, T) \in Nat
          /\ Among(recorded, T) \in Nat
      BY <1>1, <1>2, <1>3, <1>4
    <3> HIDE DEF T
    <3>4. Among(logs', T) + Among(writes, T) <= Among(recorded', T) BY <3>1, <3>2, <3>3
    <3> QED BY <3>4 DEF T
  <2> QED BY <2>1 DEF Conserved
<1>10. Backed(aggregates)' /\ Backed(rollups)' BY <1>4, <1>5, BackedLater
<1>11. Kept'
  <2>1. \A i \in 1..Len(aggregates) : aggregates[i].bucket = Bucket(clock) =>
          aggregates[i].count <= Among(logs', Times(aggregates[i].bucket))
    <3> TAKE i \in 1..Len(aggregates)
    <3> HAVE aggregates[i].bucket = Bucket(clock)
    <3>1. aggregates[i].count <= Among(logs, N) BY DEF Books, Kept
    <3>2. aggregates[i].count \in Nat BY Current, RecordTypes
    <3>3. Among(logs, N) \in Nat /\ Among(logs', N) \in Nat /\ Among(logs', N) >= Among(logs, N)
      BY <1>1, <1>2, <1>4
    <3>4. Times(aggregates[i].bucket) = N OBVIOUS
    <3> HIDE DEF N
    <3>5. aggregates[i].count <= Among(logs', N) BY <3>1, <3>2, <3>3
    <3> QED BY <3>4, <3>5
  <2> QED BY <2>1 DEF Kept
<1>12. Ahead'
  <2>1. Len(rollups) = 0 BY DEF Books, Sequenced
  <2> QED BY <2>1 DEF Ahead
<1>13. Complete'
  <2>1. Among(logs, N) >= MaxLogs \/ Among(logs, N) >= Among(recorded, N)
    BY DEF Books, Complete
  <2>2. Among(recorded', N) = Among(recorded, N) + 1 BY <1>3, <1>6 DEF One
  <2>3. Among(logs', N) >= MaxLogs \/ Among(logs', N) >= Among(recorded', N)
    <3>1. MaxLogs \in Nat /\ Among(logs', N) \in Nat /\ Among(logs, N) \in Nat /\ Among(recorded, N) \in Nat
      BY <1>1, <1>4, Positive
    <3> HIDE DEF N
    <3> QED BY <1>2, <2>1, <2>2, <3>1
  <2> QED BY <2>3 DEF Complete
<1>14. Rolled'
  <2>1. deadline = 0 => \A b \in Nat : Among(recorded', Settled(b, due)) = Among(recorded, Settled(b, due))
    BY <1>1, <1>3, NotSettled DEF One
  <2> QED BY <2>1 DEF Books, Rolled
<1> QED BY <1>7, <1>8, <1>9, <1>10, <1>11, <1>12, <1>13, <1>14 DEF Books

\* A log handed to MongoDB.
LEMMA RecordInMongo ==
  ASSUME Books, mode = "mongo",
         writes' = Append(writes, clock), recorded' = Append(recorded, clock),
         UNCHANGED <<clock, mode, logs, aggregates, rollups, running, due, deadline>>
  PROVE  Books'
<1>1. /\ clock \in Nat /\ clock <= MaxTime /\ Bucket(clock) \in Nat /\ due \in Nat
      /\ logs \in Seq(Nat) /\ recorded \in Seq(Nat) /\ writes \in Seq(Nat)
      /\ \A T : Among(logs, T) \in Nat /\ Among(writes, T) \in Nat /\ Among(recorded, T) \in Nat
  BY Current
<1>2. \A T : /\ Among(recorded', T) = Among(recorded, T) + One(clock \in T)
             /\ Among(writes', T) = Among(writes, T) + One(clock \in T)
  BY <1>1, AmongAppend
<1>3. \A T : Among(recorded', T) \in Nat /\ Among(recorded, T) <= Among(recorded', T)
  <2> TAKE T
  <2>1. Among(recorded, T) \in Nat /\ Among(recorded', T) = Among(recorded, T) + One(clock \in T)
    BY <1>1, <1>2
  <2> QED BY <2>1 DEF One
<1>4. \A s \in Seq(Nat) : UpTo(s, clock) => Append(s, clock) \in Seq(Nat) /\ UpTo(Append(s, clock), clock)
  <2> SUFFICES ASSUME NEW s \in Seq(Nat), UpTo(s, clock) PROVE UpTo(Append(s, clock), clock)
    BY <1>1
  <2> DEFINE r == Append(s, clock)
  <2>1. Len(s) \in Nat /\ Len(r) = Len(s) + 1 BY <1>1
  <2>2. (\A i \in 1..Len(s) : r[i] = s[i]) /\ r[Len(s) + 1] = clock BY <1>1
  <2> HIDE DEF r
  <2>3. \A i \in 1..Len(r) : i \in 1..Len(s) \/ i = Len(s) + 1 BY <2>1
  <2>4. \A i \in 1..Len(s) : r[i] <= clock BY <2>2 DEF UpTo
  <2>5. r[Len(s) + 1] <= clock BY <1>1, <2>2
  <2>6. UpTo(r, clock) BY <2>3, <2>4, <2>5 DEF UpTo
  <2> QED BY <2>6 DEF r
<1>5. Sequenced' BY <1>1, <1>4 DEF Books, Sequenced
<1>6. Arranged' /\ Scheduled' BY DEF Books, Arranged, Scheduled
<1>7. Conserved'
  <2>1. \A b \in Nat : Among(logs, Times(b)) + Among(writes', Times(b)) <= Among(recorded', Times(b))
    <3> TAKE b \in Nat
    <3> DEFINE T == Times(b)
    <3>1. Among(logs, T) + Among(writes, T) <= Among(recorded, T) BY DEF Books, Conserved
    <3>2. One(clock \in T) \in Nat BY DEF One
    <3>3. /\ Among(writes', T) = Among(writes, T) + One(clock \in T)
          /\ Among(recorded', T) = Among(recorded, T) + One(clock \in T)
          /\ Among(logs, T) \in Nat /\ Among(writes, T) \in Nat /\ Among(recorded, T) \in Nat
      BY <1>1, <1>2
    <3> HIDE DEF T
    <3>4. Among(logs, T) + Among(writes', T) <= Among(recorded', T) BY <3>1, <3>2, <3>3
    <3> QED BY <3>4 DEF T
  <2> QED BY <2>1 DEF Conserved
<1>8. Backed(aggregates)' /\ Backed(rollups)' BY <1>1, <1>3, BackedLater
<1>9. Kept' /\ Ahead' BY DEF Books, Kept, Ahead
<1>10. Complete' /\ Rolled' BY DEF Complete, Rolled
<1> QED BY <1>5, <1>6, <1>7, <1>8, <1>9, <1>10 DEF Books

LEMMA RecordBooks ==
  ASSUME Books, RecordTransaction,
         UNCHANGED <<clock, mode, aggregates, rollups, running, due, deadline>>
  PROVE  Books'
<1>1. CASE mode = "memory"
  <2>1. logs' = Capped(Append(logs, clock), MaxLogs) /\ recorded' = Append(recorded, clock)
        /\ writes' = writes
    BY <1>1 DEF RecordTransaction, IsActive
  <2> QED BY <1>1, <2>1, RecordInMemory
<1>2. CASE mode = "mongo"
  <2>1. writes' = Append(writes, clock) /\ recorded' = Append(recorded, clock) /\ logs' = logs
    BY <1>2 DEF RecordTransaction, IsActive
  <2> QED BY <1>2, <2>1, RecordInMongo
<1>3. CASE mode \notin {"memory", "mongo"}
  <2>1. UNCHANGED <<clock, database, worker, due, recorded, deadline>>
    BY <1>3 DEF RecordTransaction, IsActive, database, worker
  <2> QED BY <2>1, BooksSame
<1> QED BY <1>1, <1>2, <1>3

LEMMA ConnectBooks == ASSUME Books, Connect, UNCHANGED deadline PROVE Books'
<1>1. /\ mode' \in {"memory", "mongo"} /\ mode = "connecting"
      /\ UNCHANGED <<clock, logs, writes, aggregates, rollups, running, due, recorded, deadline>>
  BY DEF Connect, worker
<1>2. /\ logs = << >> /\ writes = << >> /\ aggregates = << >> /\ recorded = << >>
      /\ running = FALSE /\ Len(rollups) = 0
  BY <1>1 DEF Books, Arranged, Sequenced
<1>3. \A T : Among(recorded, T) = 0
  <2> TAKE T
  <2>1. recorded \in Seq(Nat) /\ \A i \in 1..Len(recorded) : recorded[i] \notin T BY <1>2
  <2> QED BY <2>1, AmongNone
<1>4. \A T : Among(logs, T) \in Nat BY Current
<1>5. Sequenced' BY <1>1, <1>2 DEF Books, Sequenced, Modes
<1>6. Arranged' BY <1>1, <1>2, Positive DEF Arranged, InOrder, Ascending
<1>7. Scheduled' /\ Conserved' /\ Backed(aggregates)' /\ Backed(rollups)'
  BY <1>1 DEF Books, Scheduled, Conserved, Backed
<1>8. Kept' /\ Ahead' BY <1>1, <1>2 DEF Kept, Ahead
<1>9. Complete' BY <1>1, <1>3, <1>4 DEF Complete
<1>10. Rolled' BY <1>1, <1>3 DEF Rolled
<1> QED BY <1>5, <1>6, <1>7, <1>8, <1>9, <1>10 DEF Books

\* Counts that were behind the log of MongoDB stay behind one that grows.
LEMMA GrowingLog ==
  ASSUME Books, mode = "mongo", \A T : Among(logs', T) \in Nat /\ Among(logs, T) <= Among(logs', T),
         UNCHANGED <<clock, mode, aggregates, rollups>>
  PROVE  Kept' /\ Ahead'
<1>1. /\ aggregates \in Seq(Records) /\ rollups \in Seq(Records)
      /\ \A T : Among(logs, T) \in Nat
  BY Current
<1>2. ASSUME NEW s \in Seq(Records), NEW i \in 1..Len(s),
             s[i].count <= Among(logs, Times(s[i].bucket))
      PROVE  s[i].count <= Among(logs', Times(s[i].bucket))
  <2> DEFINE T == Times(s[i].bucket)
  <2>1. s[i].count \in Nat BY RecordTypes
  <2>2. Among(logs, T) \in Nat /\ Among(logs', T) \in Nat /\ Among(logs, T) <= Among(logs', T)
        /\ s[i].count <= Among(logs, T)
    BY <1>1, <1>2
  <2> HIDE DEF T
  <2>3. s[i].count <= Among(logs', T) BY <2>1, <2>2
  <2> QED BY <2>3 DEF T
<1>3. Kept'
  <2>1. \A i \in 1..Len(aggregates) :
          aggregates[i].count <= Among(logs, Times(aggregates[i].bucket))
    BY DEF Books, Kept
  <2>2. \A i \in 1..Len(aggregates) :
          aggregates[i].count <= Among(logs', Times(aggregates[i].bucket))
    BY <1>1, <1>2, <2>1
  <2> QED BY <2>2 DEF Kept
<1>4. Ahead'
  <2>1. \A i \in 1..Len(rollups) :
          rollups[i].count <= Among(logs, Times(rollups[i].bucket))
    BY DEF Books, Ahead
  <2>2. \A i \in 1..Len(rollups) :
          rollups[i].count <= Among(logs', Times(rollups[i].bucket))
    BY <1>1, <1>2, <2>1
  <2> QED BY <2>2 DEF Books, Ahead
<1> QED BY <1>3, <1>4

\* An insertion leaves the writes and may enter the log.
LEMMA WriteLandsBooks == ASSUME Books, WriteLands, UNCHANGED deadline PROVE Books'
<1>0. /\ writes \in Seq(Nat) /\ logs \in Seq(Nat) /\ clock \in Nat
      /\ \A T : Among(logs, T) \in Nat /\ Among(writes, T) \in Nat /\ Among(recorded, T) \in Nat
  BY Current
<1>1. PICK k \in 1..Len(writes) :
        /\ writes' = RemoveAt(writes, k)
        /\ logs' \in {logs, Append(logs, writes[k])}
        /\ UNCHANGED <<clock, mode, aggregates, rollups, running, due, recorded, deadline>>
  <2>1. DOMAIN writes = 1..Len(writes) BY <1>0
  <2>2. PICK k \in DOMAIN writes :
          /\ writes' = RemoveAt(writes, k)
          /\ logs' \in {logs, Append(logs, writes[k])}
          /\ UNCHANGED <<clock, mode, aggregates, worker, due, recorded>>
    BY DEF WriteLands
  <2>3. UNCHANGED <<rollups, running>> BY <2>2 DEF worker
  <2> QED BY <2>1, <2>2, <2>3
<1>2. mode = "mongo"
  <2>1. writes # << >> BY <1>0, <1>1
  <2> QED BY <2>1 DEF Books, Arranged, Sequenced, Modes
<1>3. writes[k] \in Nat /\ writes[k] <= clock
  <2>1. writes[k] \in Nat BY <1>0
  <2>2. writes[k] <= clock BY DEF Books, Sequenced, UpTo
  <2> QED BY <2>1, <2>2
<1>4. /\ writes' \in Seq(Nat) /\ Len(writes') = Len(writes) - 1
      /\ \A i \in 1..Len(writes') : writes'[i] = IF i < k THEN writes[i] ELSE writes[i + 1]
  BY <1>0, <1>1, RemoveAtFacts
<1>5. \A T : Among(writes, T) = Among(writes', T) + One(writes[k] \in T)
  BY <1>0, <1>1, AmongRemoveAt
<1>6. \A T : Among(writes', T) \in Nat BY <1>4, AmongType
<1>7. /\ logs' \in Seq(Nat) /\ UpTo(logs', clock)
      /\ \A T : /\ Among(logs', T) \in Nat /\ Among(logs, T) <= Among(logs', T)
                /\ Among(logs', T) <= Among(logs, T) + One(writes[k] \in T)
  <2>1. CASE logs' = logs
    <3>1. UpTo(logs', clock) BY <2>1 DEF Books, Sequenced
    <3>2. \A T : /\ Among(logs', T) \in Nat /\ Among(logs, T) <= Among(logs', T)
                 /\ Among(logs', T) <= Among(logs, T) + One(writes[k] \in T)
      <4> TAKE T
      <4>1. Among(logs', T) = Among(logs, T) /\ Among(logs, T) \in Nat BY <1>0, <2>1
      <4>2. One(writes[k] \in T) \in Nat BY DEF One
      <4> QED BY ONLY <4>1, <4>2
    <3> QED BY <1>0, <2>1, <3>1, <3>2
  <2>2. CASE logs' = Append(logs, writes[k])
    <3>1. logs' \in Seq(Nat) /\ Len(logs') = Len(logs) + 1 BY <1>0, <1>3, <2>2
    <3>2. \A i \in 1..Len(logs') : i \in 1..Len(logs) \/ i = Len(logs) + 1 BY <1>0, <3>1
    <3>3. (\A i \in 1..Len(logs) : logs'[i] <= clock) /\ logs'[Len(logs) + 1] <= clock
      <4>1. /\ \A i \in 1..Len(logs) : logs'[i] = logs[i]
            /\ logs'[Len(logs) + 1] = writes[k]
        BY <1>0, <1>3, <2>2
      <4>2. \A i \in 1..Len(logs) : logs[i] <= clock BY DEF Books, Sequenced, UpTo
      <4> QED BY ONLY <1>3, <4>1, <4>2
    <3>4. UpTo(logs', clock) BY <3>1, <3>2, <3>3 DEF UpTo
    <3>5. \A T : Among(logs', T) = Among(logs, T) + One(writes[k] \in T)
      BY <1>0, <1>3, <2>2, AmongAppend
    <3>6. \A T : /\ Among(logs', T) \in Nat /\ Among(logs, T) <= Among(logs', T)
                 /\ Among(logs', T) <= Among(logs, T) + One(writes[k] \in T)
      <4> TAKE T
      <4>1. /\ Among(logs', T) = Among(logs, T) + One(writes[k] \in T)
            /\ Among(logs, T) \in Nat
        BY <1>0, <3>5
      <4>2. One(writes[k] \in T) \in Nat BY DEF One
      <4> QED BY ONLY <4>1, <4>2
    <3> QED BY <3>1, <3>4, <3>6
  <2> QED BY <1>1, <2>1, <2>2
<1>8. Sequenced'
  <2>1. UpTo(writes', clock)
    <3>1. \A i \in 1..Len(writes') : writes'[i] = writes[i] \/ writes'[i] = writes[i + 1] BY <1>4
    <3>2. \A i \in 1..Len(writes') : i \in 1..Len(writes) /\ i + 1 \in 1..Len(writes)
      BY <1>0, <1>4
    <3> QED BY <3>1, <3>2 DEF Books, Sequenced, UpTo
  <2> QED BY <1>1, <1>4, <1>7, <2>1 DEF Books, Sequenced
<1>9. Arranged' /\ Scheduled' BY <1>1, <1>2 DEF Books, Arranged, Scheduled
<1>10. Conserved'
  <2>1. \A b \in Nat : Among(logs', Times(b)) + Among(writes', Times(b)) <= Among(recorded, Times(b))
    <3> TAKE b \in Nat
    <3> DEFINE T == Times(b)
    <3>1. Among(logs, T) + Among(writes, T) <= Among(recorded, T) BY DEF Books, Conserved
    <3>2. One(writes[k] \in T) \in Nat BY DEF One
    <3>3. /\ Among(logs', T) <= Among(logs, T) + One(writes[k] \in T)
          /\ Among(writes, T) = Among(writes', T) + One(writes[k] \in T)
          /\ Among(logs', T) \in Nat /\ Among(logs, T) \in Nat /\ Among(writes, T) \in Nat
          /\ Among(writes', T) \in Nat /\ Among(recorded, T) \in Nat
      BY <1>0, <1>5, <1>6, <1>7
    <3> HIDE DEF T
    <3>4. Among(logs', T) + Among(writes', T) <= Among(recorded, T) BY ONLY <3>1, <3>2, <3>3
    <3> QED BY <3>4 DEF T
  <2> QED BY <1>1, <2>1 DEF Conserved
<1>11. Backed(aggregates)' /\ Backed(rollups)' BY <1>1 DEF Books, Backed
<1>12. Kept' /\ Ahead' BY <1>1, <1>2, <1>7, GrowingLog
<1>13. Complete' /\ Rolled' BY <1>1, <1>2 DEF Complete, Rolled
<1> QED BY <1>8, <1>9, <1>10, <1>11, <1>12, <1>13 DEF Books

-----------------------------------------------------------------------------
(* The rollups.                                                            *)

\* Minutes that are over are not settled any further.
LEMMA SettledSame ==
  ASSUME Books, clock = due, NEW b, b # Bucket(clock)
  PROVE  Among(recorded, Settled(b, due + Interval)) = Among(recorded, Settled(b, due))
<1>1. /\ clock \in Nat /\ clock <= MaxTime /\ recorded \in Seq(Nat) /\ due \in Nat
      /\ \A T : Among(recorded, T) \in Nat
  BY Current
<1>2. \A i \in 1..Len(recorded) :
        recorded[i] \in Settled(b, due + Interval) <=> recorded[i] \in Settled(b, due)
  <2> TAKE i \in 1..Len(recorded)
  <2> DEFINE t == recorded[i]
  <2>1. t \in Nat /\ t <= clock
    <3>1. t \in Nat BY <1>1
    <3>2. t <= clock BY DEF Books, Sequenced, UpTo
    <3> QED BY <3>1, <3>2
  <2> HIDE DEF t
  <2>2. Interval \in Nat \ {0} BY Positive
  <2>3. ASSUME t \in Settled(b, due + Interval) PROVE t \in Settled(b, due)
    <3>1. t \in Times(b) /\ t + Interval \in Times(b) BY <2>3 DEF Settled
    <3>2. Bucket(t) = b /\ Bucket(t + Interval) = b BY <3>1 DEF Times
    <3>3. SUFFICES ASSUME ~(t + Interval < due) PROVE FALSE BY <3>1 DEF Settled
    <3>4. clock <= t + Interval /\ t + Interval \in Nat BY <1>1, <2>1, <2>2, <3>3
    <3>5. Bucket(t) <= Bucket(clock) /\ Bucket(clock) <= Bucket(t + Interval)
      BY <1>1, <2>1, <3>4, BucketMonotone
    <3>6. Bucket(t) \in Nat /\ Bucket(clock) \in Nat BY <1>1, <2>1, BucketFacts
    <3> QED BY <3>2, <3>5, <3>6
  <2>4. ASSUME t \in Settled(b, due) PROVE t \in Settled(b, due + Interval)
    <3>1. t \in Times(b) /\ t + Interval \in Times(b) /\ t + Interval < due
      BY <2>4 DEF Settled
    <3>2. t + Interval < due + Interval BY <1>1, <2>1, <2>2, <3>1
    <3> QED BY <3>1, <3>2 DEF Settled
  <2> QED BY <2>3, <2>4 DEF t
<1>3. /\ Among(recorded, Settled(b, due + Interval)) <= Among(recorded, Settled(b, due))
      /\ Among(recorded, Settled(b, due)) <= Among(recorded, Settled(b, due + Interval))
  <2> DEFINE T == Settled(b, due + Interval)
             U == Settled(b, due)
  <2>1. recorded \in Seq(Nat) BY <1>1
  <2>2. \A i \in 1..Len(recorded) : recorded[i] \in T => recorded[i] \in U BY <1>2
  <2>3. \A i \in 1..Len(recorded) : recorded[i] \in U => recorded[i] \in T BY <1>2
  <2> HIDE DEF T, U
  <2>4. Among(recorded, T) <= Among(recorded, U) BY ONLY <2>1, <2>2, AmongSubset
  <2>5. Among(recorded, U) <= Among(recorded, T) BY ONLY <2>1, <2>3, AmongSubset
  <2> QED BY <2>4, <2>5 DEF T, U
<1>4. /\ Among(recorded, Settled(b, due + Interval)) \in Nat
      /\ Among(recorded, Settled(b, due)) \in Nat
  BY <1>1
<1> QED BY <1>3, <1>4

\* A rollup in memory replaces or adds the aggregate of the current minute,
\* and what is evicted is too old to be asked for.
Rewritten(r, s, doc) ==
  /\ \A i \in 1..Len(r) : r[i] = doc \/ \E j \in 1..Len(s) :
       r[i] = s[j] /\ s[j].bucket # doc.bucket
  /\ \E i \in 1..Len(r) : r[i] = doc
  /\ \A j \in 1..Len(s) :
       s[j].bucket # doc.bucket /\ doc.bucket < s[j].bucket + MaxAggregates =>
         \E i \in 1..Len(r) : r[i] = s[j]

LEMMA Replaced ==
  ASSUME Books, mode = "memory", NEW doc \in Records, doc.bucket = Bucket(clock),
         NEW r, r = Capped(Upserted(aggregates, doc), MaxAggregates)
  PROVE  /\ r \in Seq(Records) /\ Distinct(r) /\ Ascending(r) /\ Len(r) <= MaxAggregates
         /\ Rewritten(r, aggregates, doc)
<1> DEFINE q == Upserted(aggregates, doc)
<1>1. /\ aggregates \in Seq(Records) /\ Bucket(clock) \in Nat /\ Distinct(aggregates)
      /\ Ascending(aggregates) /\ Len(aggregates) <= MaxAggregates
      /\ \A i \in 1..Len(aggregates) : aggregates[i].bucket <= doc.bucket
  BY Current DEF Books, Sequenced, Arranged, BucketsUpTo
<1>2. /\ q \in Seq(Records) /\ Distinct(q) /\ Len(q) <= Len(aggregates) + 1
      /\ \A i \in 1..Len(q) :
           \/ q[i] = doc
           \/ i \in 1..Len(aggregates) /\ q[i] = aggregates[i] /\ aggregates[i].bucket # doc.bucket
      /\ \A i \in 1..Len(aggregates) :
           aggregates[i].bucket # doc.bucket => i \in 1..Len(q) /\ q[i] = aggregates[i]
      /\ \E i \in 1..Len(q) : q[i] = doc
      /\ Ascending(q)
  <2>1. /\ aggregates \in Seq(Records) /\ doc \in Records /\ Distinct(aggregates)
        /\ q = Upserted(aggregates, doc)
        /\ Ascending(aggregates) /\ \A i \in 1..Len(aggregates) : aggregates[i].bucket <= doc.bucket
    BY <1>1
  <2> HIDE DEF q
  <2>2. q \in Seq(Records) /\ Distinct(q) /\ Len(q) <= Len(aggregates) + 1
    BY ONLY <2>1, UpsertedFacts
  <2>3. Replaces(q, aggregates, doc) BY ONLY <2>1, UpsertedFacts
  <2>4. Ascending(q) BY ONLY <2>1, UpsertedFacts
  <2> QED BY <2>2, <2>3, <2>4 DEF Replaces
<1>3. \A i \in 1..Len(q) : q[i].bucket <= Bucket(clock)
  <2>1. doc.bucket <= Bucket(clock) BY <1>1
  <2> HIDE DEF q
  <2> QED BY <1>1, <1>2, <2>1
<1> HIDE DEF q
<1>4. /\ r \in Seq(Records) /\ Len(r) <= MaxAggregates
      /\ r = q \/ (r = Tail(q) /\ Len(q) > MaxAggregates /\ q # << >>)
  <2>1. MaxAggregates \in Nat \ {0} BY Positive
  <2>2. Len(q) <= MaxAggregates + 1
    <3>1. Len(q) \in Nat /\ Len(aggregates) \in Nat BY <1>1, <1>2, RecordTypes
    <3> QED BY <1>1, <1>2, <2>1, <3>1
  <2>3. q \in Seq(Records) /\ r = Capped(q, MaxAggregates) BY <1>2 DEF q
  <2>4. /\ Capped(q, MaxAggregates) \in Seq(Records) /\ Len(Capped(q, MaxAggregates)) <= MaxAggregates
        /\ \/ Capped(q, MaxAggregates) = q
           \/ Capped(q, MaxAggregates) = Tail(q) /\ Len(q) > MaxAggregates /\ q # << >>
    BY ONLY <2>1, <2>2, <2>3, CappedFacts
  <2> QED BY <2>3, <2>4
<1>5. CASE r = q
  <2>1. \A j \in 1..Len(aggregates) : aggregates[j].bucket # doc.bucket =>
          \E i \in 1..Len(r) : r[i] = aggregates[j]
    BY <1>2, <1>5
  <2>2. \A i \in 1..Len(r) : r[i] = doc \/ \E j \in 1..Len(aggregates) :
          r[i] = aggregates[j] /\ aggregates[j].bucket # doc.bucket
    BY <1>2, <1>5
  <2> QED BY <1>2, <1>4, <1>5, <2>1, <2>2 DEF Rewritten
<1>6. CASE r = Tail(q) /\ Len(q) > MaxAggregates /\ q # << >>
  <2>1. /\ Len(r) = Len(q) - 1 /\ 1 \in 1..Len(q) /\ Len(q) \in Nat
        /\ \A i \in 1..Len(r) : r[i] = q[i + 1] /\ i + 1 \in 1..Len(q)
    BY <1>2, <1>6, TailFacts
  <2>2. q[1].bucket + Len(q) <= Bucket(clock) + 1 /\ q[1].bucket \in Nat
    BY <1>1, <1>2, <1>3, <1>6, <2>1, AscendingSpan, RecordTypes
  <2>3. q[1].bucket + MaxAggregates <= Bucket(clock) BY <1>1, <1>6, <2>1, <2>2, Positive
  <2>4. \A i \in 1..Len(q) : q[i].bucket # q[1].bucket => \E k \in 1..Len(r) : r[k] = q[i]
    <3> TAKE i \in 1..Len(q)
    <3> HAVE q[i].bucket # q[1].bucket
    <3>1. i - 1 \in 1..Len(r) /\ (i - 1) + 1 = i BY <2>1
    <3>2. r[i - 1] = q[i] BY <2>1, <3>1
    <3> QED BY <3>1, <3>2
  <2>5. Distinct(r)
    <3> SUFFICES ASSUME NEW i \in 1..Len(r), NEW j \in 1..Len(r), r[i].bucket = r[j].bucket
                 PROVE  i = j
      BY DEF Distinct
    <3>1. i + 1 \in 1..Len(q) /\ j + 1 \in 1..Len(q) /\ q[i + 1].bucket = q[j + 1].bucket BY <2>1
    <3>2. i + 1 = j + 1 BY <1>2, <3>1 DEF Distinct
    <3> QED BY <3>2
  <2>6. Ascending(r)
    <3> SUFFICES ASSUME NEW i \in 1..Len(r), NEW j \in 1..Len(r), i < j
                 PROVE  r[i].bucket < r[j].bucket
      BY DEF Ascending
    <3>1. i + 1 \in 1..Len(q) /\ j + 1 \in 1..Len(q) /\ i + 1 < j + 1 BY <2>1
    <3>2. q[i + 1].bucket < q[j + 1].bucket BY <1>2, <3>1 DEF Ascending
    <3> QED BY <2>1, <3>2
  <2>7. \A i \in 1..Len(r) : r[i] = doc \/ \E j \in 1..Len(aggregates) :
          r[i] = aggregates[j] /\ aggregates[j].bucket # doc.bucket
    <3> TAKE i \in 1..Len(r)
    <3>1. i + 1 \in 1..Len(q) /\ r[i] = q[i + 1] BY <2>1
    <3> QED BY <1>2, <3>1
  <2>8. \E i \in 1..Len(r) : r[i] = doc
    <3>1. PICK i \in 1..Len(q) : q[i] = doc BY <1>2
    <3>2. q[i].bucket # q[1].bucket BY <1>1, <2>2, <2>3, <3>1, Positive
    <3> QED BY <2>4, <3>1, <3>2
  <2>9. \A j \in 1..Len(aggregates) :
          /\ aggregates[j].bucket # doc.bucket
          /\ doc.bucket < aggregates[j].bucket + MaxAggregates
          => \E i \in 1..Len(r) : r[i] = aggregates[j]
    <3> TAKE j \in 1..Len(aggregates)
    <3> HAVE /\ aggregates[j].bucket # doc.bucket
             /\ doc.bucket < aggregates[j].bucket + MaxAggregates
    <3>1. j \in 1..Len(q) /\ q[j] = aggregates[j] BY <1>2
    <3>2. aggregates[j].bucket \in Nat BY <1>1, RecordTypes
    <3>3. q[j].bucket # q[1].bucket BY <1>1, <2>2, <2>3, <3>1, <3>2, Positive
    <3>4. PICK k \in 1..Len(r) : r[k] = q[j] BY <2>4, <3>1, <3>3
    <3> QED BY <3>1, <3>4
  <2> QED BY <1>4, <2>5, <2>6, <2>7, <2>8, <2>9 DEF Rewritten
<1> QED BY <1>4, <1>5, <1>6

\* The timer fires before the first signal only, and arms itself again.
LEMMA FiringScheduled ==
  ASSUME Books, clock = due, due' = due + Interval, UNCHANGED <<clock, deadline>>
  PROVE  Scheduled' /\ deadline = 0
<1>1. clock \in Nat /\ clock <= MaxTime BY Current
<1>2. due # Stopped BY <1>1, Positive DEF Stopped
<1> QED BY <1>1, <1>2, Positive DEF Books, Scheduled

\* A rollup in memory that finds logs.
LEMMA RollupInMemory ==
  ASSUME Books, mode = "memory", clock = due, due' = due + Interval,
         Among(logs, Times(Bucket(clock))) > 0,
         aggregates' = Capped(Upserted(aggregates,
                         [bucket |-> Bucket(clock), count |-> Among(logs, Times(Bucket(clock)))]),
                         MaxAggregates),
         UNCHANGED <<clock, mode, logs, writes, rollups, running, recorded, deadline>>
  PROVE  Books'
<1> DEFINE now == Bucket(clock)
           N == Times(now)
           doc == [bucket |-> now, count |-> Among(logs, N)]
<1>1. /\ clock \in Nat /\ clock <= MaxTime /\ now \in Nat /\ due \in Nat
      /\ logs \in Seq(Nat) /\ writes \in Seq(Nat) /\ recorded \in Seq(Nat)
      /\ aggregates \in Seq(Records) /\ rollups \in Seq(Records)
      /\ \A T : Among(logs, T) \in Nat /\ Among(writes, T) \in Nat /\ Among(recorded, T) \in Nat
  BY Current
<1>2. doc \in Records /\ doc.bucket = now /\ doc.count = Among(logs, N) BY <1>1 DEF Records
<1>3. Scheduled' /\ deadline = 0 BY FiringScheduled
<1>4. aggregates' = Capped(Upserted(aggregates, doc), MaxAggregates) OBVIOUS
<1> HIDE DEF doc
<1>5. /\ aggregates' \in Seq(Records) /\ Distinct(aggregates') /\ Ascending(aggregates')
      /\ Len(aggregates') <= MaxAggregates /\ Rewritten(aggregates', aggregates, doc)
  <2>1. /\ Books /\ mode = "memory" /\ doc \in Records /\ doc.bucket = Bucket(clock)
        /\ aggregates' = Capped(Upserted(aggregates, doc), MaxAggregates)
    BY <1>2, <1>4
  <2> QED BY ONLY <2>1, Replaced
<1>15. /\ \A i \in 1..Len(aggregates') : aggregates'[i] = doc \/ \E j \in 1..Len(aggregates) :
            aggregates'[i] = aggregates[j] /\ aggregates[j].bucket # doc.bucket
       /\ \E i \in 1..Len(aggregates') : aggregates'[i] = doc
       /\ \A j \in 1..Len(aggregates) :
            aggregates[j].bucket # now /\ now < aggregates[j].bucket + MaxAggregates
            => \E i \in 1..Len(aggregates') : aggregates'[i] = aggregates[j]
  <2> HIDE DEF now
  <2> QED BY <1>2, <1>5 DEF Rewritten
<1>6. Sequenced'
  <2>1. BucketsUpTo(aggregates', now)
    <3>1. \A j \in 1..Len(aggregates) : aggregates[j].bucket <= now
      BY DEF Books, Sequenced, BucketsUpTo
    <3>2. doc.bucket <= now BY <1>1, <1>2
    <3> HIDE DEF now
    <3>3. \A i \in 1..Len(aggregates') : aggregates'[i].bucket <= now BY <1>15, <3>1, <3>2
    <3> QED BY <3>3 DEF BucketsUpTo
  <2>2. BucketsUpTo(rollups', now) BY DEF Books, Sequenced
  <2> QED BY <1>5, <2>1, <2>2 DEF Books, Sequenced
<1>7. Arranged'
  <2>1. Ascending(aggregates') /\ Len(aggregates') <= MaxAggregates BY <1>5
  <2> QED BY <2>1 DEF Books, Arranged
<1>8. Conserved' BY DEF Books, Conserved
<1>9. Among(logs, N) <= Among(recorded, N)
  <2>1. /\ Among(logs, N) + Among(writes, N) <= Among(recorded, N)
        /\ Among(logs, N) \in Nat /\ Among(writes, N) \in Nat /\ Among(recorded, N) \in Nat
    BY <1>1 DEF Books, Conserved
  <2> HIDE DEF N
  <2> QED BY <2>1
<1>10. Backed(aggregates)' /\ Backed(rollups)'
  <2>1. \A j \in 1..Len(aggregates) :
          aggregates[j].count <= Among(recorded, Times(aggregates[j].bucket))
    BY DEF Books, Backed
  <2>2. doc.count <= Among(recorded, Times(doc.bucket)) BY <1>2, <1>9
  <2>3. \A i \in 1..Len(aggregates') :
          aggregates'[i].count <= Among(recorded, Times(aggregates'[i].bucket))
    <3> TAKE i \in 1..Len(aggregates')
    <3>1. CASE aggregates'[i] = doc BY <2>2, <3>1
    <3>2. CASE \E j \in 1..Len(aggregates) : aggregates'[i] = aggregates[j] BY <2>1, <3>2
    <3> QED BY <1>15, <3>1, <3>2
  <2>4. Backed(rollups)' BY DEF Books, Backed
  <2> QED BY <2>3, <2>4 DEF Backed
<1>11. Kept'
  <2>1. ASSUME NEW i \in 1..Len(aggregates'), aggregates'[i].bucket = now
        PROVE  aggregates'[i].count <= Among(logs, Times(aggregates'[i].bucket))
    <3>1. aggregates'[i] = doc
      <4>1. doc.bucket = now BY <1>2
      <4> HIDE DEF now
      <4> QED BY <1>15, <2>1, <4>1
    <3>2. Among(logs, N) \in Nat /\ doc.count <= Among(logs, Times(doc.bucket)) BY <1>1, <1>2
    <3> HIDE DEF now, N
    <3> QED BY <3>1, <3>2
  <2> QED BY <2>1 DEF Kept
<1>12. Ahead'
  <2>1. Len(rollups) = 0 BY DEF Books, Sequenced
  <2> QED BY <2>1 DEF Ahead
<1>13. Complete' BY DEF Books, Complete
<1>14. Rolled'
  <2> SUFFICES ASSUME NEW b \in Nat, Among(recorded, Settled(b, due + Interval)) > 0,
                      now < b + MaxAggregates
               PROVE  \E i \in 1..Len(aggregates') :
                        /\ aggregates'[i].bucket = b
                        /\ \/ aggregates'[i].count >= Among(recorded, Settled(b, due + Interval))
                           \/ aggregates'[i].count >= MaxLogs
    BY DEF Rolled
  <2> DEFINE n == Among(recorded, Settled(b, due + Interval))
  <2>1. CASE b = now
    <3>1. PICK i \in 1..Len(aggregates') : aggregates'[i] = doc BY <1>15
    <3>2. n <= Among(recorded, N)
      <4>1. \A k \in 1..Len(recorded) : recorded[k] \in Settled(b, due + Interval) => recorded[k] \in N
        BY <2>1 DEF Settled
      <4> QED BY <1>1, <4>1, AmongSubset
    <3>3. Among(logs, N) >= MaxLogs \/ Among(logs, N) >= Among(recorded, N)
      BY DEF Books, Complete
    <3>4. n \in Nat /\ Among(logs, N) \in Nat /\ Among(recorded, N) \in Nat BY <1>1
    <3> HIDE DEF n, N
    <3>5. Among(logs, N) >= n \/ Among(logs, N) >= MaxLogs BY <3>2, <3>3, <3>4
    <3>6. aggregates'[i].bucket = b /\ aggregates'[i].count = Among(logs, N)
      BY <1>2, <2>1, <3>1 DEF N
    <3> QED BY <3>5, <3>6 DEF n
  <2>2. CASE b # now
    <3>1. Among(recorded, Settled(b, due)) = n BY <2>2, SettledSame
    <3>2. PICK j \in 1..Len(aggregates) :
            /\ aggregates[j].bucket = b
            /\ aggregates[j].count >= n \/ aggregates[j].count >= MaxLogs
      BY <1>3, <3>1 DEF Books, Rolled
    <3>3. \E i \in 1..Len(aggregates') : aggregates'[i] = aggregates[j]
      BY <1>15, <2>2, <3>2
    <3> QED BY <3>2, <3>3
  <2> QED BY <2>1, <2>2
<1> QED BY <1>3, <1>6, <1>7, <1>8, <1>10, <1>11, <1>12, <1>13, <1>14 DEF Books

\* A rollup in memory that finds no log: there was no response either.
LEMMA RollupOfNothing ==
  ASSUME Books, mode = "memory", clock = due, due' = due + Interval,
         Among(logs, Times(Bucket(clock))) = 0,
         UNCHANGED <<clock, mode, logs, writes, aggregates, rollups, running, recorded, deadline>>
  PROVE  Books'
<1> DEFINE now == Bucket(clock)
           N == Times(now)
<1>1. /\ recorded \in Seq(Nat) /\ \A T : Among(recorded, T) \in Nat BY Current
<1>2. Scheduled' /\ deadline = 0 BY FiringScheduled
<1>3. Among(recorded, N) = 0
  <2>1. 0 >= MaxLogs \/ 0 >= Among(recorded, N) BY DEF Books, Complete
  <2> HIDE DEF N
  <2> QED BY <1>1, <2>1, Positive
<1>4. Rolled'
  <2> SUFFICES ASSUME NEW b \in Nat, Among(recorded, Settled(b, due + Interval)) > 0,
                      now < b + MaxAggregates
               PROVE  \E i \in 1..Len(aggregates) :
                        /\ aggregates[i].bucket = b
                        /\ \/ aggregates[i].count >= Among(recorded, Settled(b, due + Interval))
                           \/ aggregates[i].count >= MaxLogs
    BY DEF Rolled
  <2> DEFINE n == Among(recorded, Settled(b, due + Interval))
  <2>1. CASE b = now
    <3>1. n <= Among(recorded, N)
      <4>1. \A k \in 1..Len(recorded) : recorded[k] \in Settled(b, due + Interval) => recorded[k] \in N
        BY <2>1 DEF Settled
      <4> QED BY <1>1, <4>1, AmongSubset
    <3>2. n \in Nat BY <1>1
    <3> QED BY <1>3, <3>1, <3>2
  <2>2. CASE b # now
    <3>1. Among(recorded, Settled(b, due)) = n BY <2>2, SettledSame
    <3> QED BY <1>2, <3>1 DEF Books, Rolled
  <2> QED BY <2>1, <2>2
<1>5. Sequenced' /\ Arranged' /\ Conserved' BY DEF Books, Sequenced, Arranged, Conserved
<1>6. Backed(aggregates)' /\ Backed(rollups)' BY DEF Books, Backed
<1>7. Kept' /\ Ahead' /\ Complete' BY DEF Books, Kept, Ahead, Complete
<1> QED BY <1>2, <1>4, <1>5, <1>6, <1>7 DEF Books

\* A rollup with MongoDB begins.
LEMMA RollupInMongo ==
  ASSUME Books, mode = "mongo", running = FALSE, clock = due, due' = due + Interval,
         running' = TRUE, rollups' = Append(rollups, [bucket |-> Bucket(clock), count |-> 0]),
         UNCHANGED <<clock, mode, logs, writes, aggregates, recorded, deadline>>
  PROVE  Books'
<1> DEFINE doc == [bucket |-> Bucket(clock), count |-> 0]
<1>1. /\ clock \in Nat /\ Bucket(clock) \in Nat /\ rollups \in Seq(Records)
      /\ \A T : Among(logs, T) \in Nat /\ Among(recorded, T) \in Nat
  BY Current
<1>2. Len(rollups) = 0 BY DEF Books, Sequenced
<1>3. doc \in Records /\ doc.bucket = Bucket(clock) /\ doc.count = 0 BY <1>1 DEF Records
<1>4. rollups' = Append(rollups, doc) OBVIOUS
<1> HIDE DEF doc
<1>5. /\ rollups' \in Seq(Records) /\ Len(rollups') = 1
      /\ \A i \in 1..Len(rollups') : rollups'[i] = doc
  <2>1. rollups' \in Seq(Records) /\ Len(rollups') = 1 /\ rollups'[1] = doc
    BY <1>1, <1>2, <1>3, <1>4
  <2>2. \A i \in 1..1 : i = 1 OBVIOUS
  <2> QED BY <2>1, <2>2
<1>6. Sequenced' BY <1>1, <1>3, <1>5 DEF Books, Sequenced, BucketsUpTo
<1>7. Arranged' /\ Conserved' BY DEF Books, Arranged, Conserved
<1>8. Scheduled' BY FiringScheduled
<1>9. Backed(aggregates)' /\ Backed(rollups)' BY <1>1, <1>3, <1>5 DEF Books, Backed
<1>10. Kept' BY DEF Books, Kept
<1>11. Ahead' BY <1>1, <1>3, <1>5 DEF Ahead
<1>12. Complete' /\ Rolled' BY DEF Complete, Rolled
<1> QED BY <1>6, <1>7, <1>8, <1>9, <1>10, <1>11, <1>12 DEF Books

\* The timer fires, whatever the worker then does.
LEMMA IntervalBooks == ASSUME Books, IntervalFires, UNCHANGED deadline PROVE Books'
<1>1. /\ clock = due /\ due' = due + Interval
      /\ UNCHANGED <<clock, mode, logs, writes, recorded, deadline>> /\ RunRollup
  BY DEF IntervalFires
<1>2. running = TRUE => mode = "mongo" BY DEF Books, Sequenced
<1>3. CASE ~MayRun /\ UNCHANGED <<aggregates, worker>>
  <2>1. UNCHANGED <<aggregates, rollups, running>> BY <1>3 DEF worker
  <2>2. mode # "memory"
    <3>1. running \in BOOLEAN BY DEF Books, Sequenced
    <3> QED BY <1>2, <1>3, <3>1 DEF MayRun, IsActive
  <2>3. Scheduled' BY <1>1, FiringScheduled
  <2>4. Sequenced' BY <1>1, <2>1 DEF Books, Sequenced
  <2>5. Arranged' /\ Conserved' BY <1>1, <2>1 DEF Books, Arranged, Conserved
  <2>6. Backed(aggregates)' /\ Backed(rollups)' BY <1>1, <2>1 DEF Books, Backed
  <2>7. Kept' /\ Ahead' BY <1>1, <2>1 DEF Books, Kept, Ahead
  <2>8. Complete' /\ Rolled' BY <1>1, <2>2 DEF Complete, Rolled
  <2> QED BY <2>3, <2>4, <2>5, <2>6, <2>7, <2>8 DEF Books
<1>4. CASE /\ mode = "memory"
           /\ InMemory([bucket |-> Bucket(clock), count |-> Counted(Bucket(clock))])
  <2> DEFINE n == Among(logs, Times(Bucket(clock)))
             doc == [bucket |-> Bucket(clock), count |-> n]
  <2>1. /\ aggregates' = IF doc.count > 0 THEN Capped(Upserted(aggregates, doc), MaxAggregates)
                         ELSE aggregates
        /\ UNCHANGED <<rollups, running>>
    BY <1>4 DEF InMemory, Counted, worker
  <2>2. doc.count = n /\ n \in Nat BY Current
  <2>3. CASE n > 0
    <3>1. aggregates' = Capped(Upserted(aggregates, doc), MaxAggregates) BY <2>1, <2>2, <2>3
    <3>2. UNCHANGED <<clock, mode, logs, writes, rollups, running, recorded, deadline>>
      BY <1>1, <2>1
    <3> QED BY <1>1, <1>4, <2>3, <3>1, <3>2, RollupInMemory
  <2>4. CASE n = 0
    <3>1. UNCHANGED <<clock, mode, logs, writes, aggregates, rollups, running, recorded, deadline>>
      BY <1>1, <2>1, <2>2, <2>4
    <3> QED BY <1>1, <1>4, <2>4, <3>1, RollupOfNothing
  <2> QED BY <2>2, <2>3, <2>4
<1>5. CASE /\ MayRun /\ mode = "mongo" /\ running' = TRUE
           /\ rollups' = Append(rollups, [bucket |-> Bucket(clock), count |-> 0])
           /\ UNCHANGED aggregates
  <2>1. running = FALSE BY <1>5 DEF MayRun, Books, Sequenced
  <2> QED BY <1>1, <1>5, <2>1, RollupInMongo
<1> QED BY <1>1, <1>3, <1>4, <1>5 DEF RunRollup

\* There is one rollup to answer, and it is MongoDB's.
LEMMA OneRollup ==
  ASSUME Books, NEW i \in DOMAIN rollups
  PROVE  /\ i = 1 /\ Len(rollups) = 1 /\ running = TRUE /\ mode = "mongo"
         /\ rollups \in Seq(Records) /\ rollups[i] \in Records
         /\ rollups[i].bucket \in Nat /\ rollups[i].count \in Nat
         /\ rollups[i].bucket <= Bucket(clock)
         /\ rollups[i].count <= Among(logs, Times(rollups[i].bucket))
         /\ rollups[i].count <= Among(recorded, Times(rollups[i].bucket))
<1>1. rollups \in Seq(Records) BY Current
<1>2. /\ Len(rollups) \in Nat /\ i \in 1..Len(rollups) /\ rollups[i] \in Records
      /\ rollups[i].bucket \in Nat /\ rollups[i].count \in Nat
  BY <1>1, RecordTypes
<1>3. Len(rollups) = 1 /\ running = TRUE /\ mode = "mongo" BY <1>2 DEF Books, Sequenced
<1>4. i = 1 BY <1>2, <1>3
<1>5. /\ rollups[i].bucket <= Bucket(clock)
      /\ rollups[i].count <= Among(logs, Times(rollups[i].bucket))
      /\ rollups[i].count <= Among(recorded, Times(rollups[i].bucket))
  BY <1>2 DEF Books, Sequenced, BucketsUpTo, Ahead, Backed
<1> QED BY <1>1, <1>2, <1>3, <1>4, <1>5

\* The rollup ends.
LEMMA EndBooks ==
  ASSUME Books, NEW i \in DOMAIN rollups, Ends(i),
         UNCHANGED <<clock, mode, logs, writes, due, recorded, deadline>>,
         aggregates' \in Seq(Records), Distinct(aggregates'),
         BucketsUpTo(aggregates', Bucket(clock)), Backed(aggregates)', Kept'
  PROVE  Books'
<1>1. i \in 1..Len(rollups) /\ Len(rollups) = 1 /\ mode = "mongo" /\ rollups \in Seq(Records)
  <2>1. i = 1 /\ Len(rollups) = 1 /\ mode = "mongo" /\ rollups \in Seq(Records)
    BY OneRollup
  <2> QED BY ONLY <2>1
<1>2. rollups' = RemoveAt(rollups, i) /\ running' = FALSE BY DEF Ends
<1>3. rollups' \in Seq(Records) /\ Len(rollups') = 0
  <2>1. RemoveAt(rollups, i) \in Seq(Records) /\ Len(RemoveAt(rollups, i)) = Len(rollups) - 1
    BY ONLY <1>1, RemoveAtFacts
  <2> QED BY <1>1, <1>2, <2>1
<1>4. Sequenced' BY <1>1, <1>2, <1>3 DEF Books, Sequenced, BucketsUpTo
<1>5. Arranged' /\ Scheduled' /\ Conserved' BY <1>1 DEF Books, Arranged, Scheduled, Conserved
<1>6. Backed(rollups)' /\ Ahead' BY <1>3 DEF Backed, Ahead
<1>7. Complete' /\ Rolled' BY <1>1 DEF Complete, Rolled
<1> QED BY <1>4, <1>5, <1>6, <1>7 DEF Books

\* The aggregation counts what the log holds when it is run.
LEMMA AggregateBooks == ASSUME Books, Aggregate, UNCHANGED deadline PROVE Books'
<1>1. PICK i \in DOMAIN rollups :
        /\ \/ /\ Counted(rollups[i].bucket) > 0
              /\ rollups' = [rollups EXCEPT ![i].count = Counted(rollups[i].bucket)]
              /\ UNCHANGED running
           \/ Ends(i)
        /\ UNCHANGED <<clock, database, due, recorded>>
  BY DEF Aggregate
<1>2. UNCHANGED <<clock, mode, logs, writes, aggregates, due, recorded, deadline>>
  BY <1>1 DEF database
<1>3. CASE Ends(i)
  <2>1. /\ aggregates' \in Seq(Records) /\ Distinct(aggregates')
        /\ BucketsUpTo(aggregates', Bucket(clock)) /\ Backed(aggregates)' /\ Kept'
    BY <1>2 DEF Books, Sequenced, Backed, Kept
  <2> QED BY <1>2, <1>3, <2>1, EndBooks
<1>4. CASE /\ rollups' = [rollups EXCEPT ![i].count = Counted(rollups[i].bucket)]
           /\ UNCHANGED running
  <2> DEFINE b == rollups[i].bucket
             n == Among(logs, Times(b))
  <2>1. /\ i = 1 /\ Len(rollups) = 1 /\ rollups \in Seq(Records) /\ rollups[i] \in Records
        /\ b \in Nat /\ b <= Bucket(clock) /\ mode = "mongo"
    BY OneRollup
  <2>2. n \in Nat /\ n <= Among(recorded, Times(b))
    <3>1. /\ n + Among(writes, Times(b)) <= Among(recorded, Times(b))
          /\ n \in Nat /\ Among(writes, Times(b)) \in Nat /\ Among(recorded, Times(b)) \in Nat
      BY <2>1, Current DEF Books, Conserved
    <3> HIDE DEF n, b
    <3> QED BY <3>1
  <2>3. rollups' = [rollups EXCEPT ![i].count = n] BY <1>4 DEF Counted
  <2> HIDE DEF n
  <2>4. /\ rollups' \in Seq(Records) /\ Len(rollups') = 1
        /\ rollups'[1].bucket = b /\ rollups'[1].count = n
    <3>1. DOMAIN rollups = 1..1 /\ 1 \in 1..1 /\ rollups[1] \in Records /\ rollups[1].bucket = b
      BY <2>1
    <3>2. rollups' = [k \in 1..1 |-> [rollups[1] EXCEPT !.count = n]]
      <4>1. \A k \in 1..1 : k = 1 OBVIOUS
      <4> QED BY <2>1, <2>3, <3>1, <4>1
    <3> DEFINE doc == [rollups[1] EXCEPT !.count = n]
    <3>3. doc \in Records /\ doc.bucket = b /\ doc.count = n
      BY ONLY <2>2, <3>1 DEF Records
    <3> HIDE DEF doc
    <3>4. rollups' \in Seq(Records) /\ Len(rollups') = 1 /\ rollups'[1] = doc
      BY <3>2, <3>3 DEF doc
    <3> QED BY <3>3, <3>4
  <2> HIDE DEF b
  <2>5. \A k \in 1..Len(rollups') : k = 1 BY <2>4
  <2>6. Sequenced' BY <1>2, <1>4, <2>1, <2>4, <2>5 DEF Books, Sequenced, BucketsUpTo
  <2>7. Arranged' /\ Scheduled' /\ Conserved'
    BY <1>2 DEF Books, Arranged, Scheduled, Conserved
  <2>8. Backed(aggregates)' BY <1>2 DEF Books, Backed
  <2>9. Backed(rollups)' BY <1>2, <2>2, <2>4, <2>5 DEF Backed
  <2>10. Kept' BY <1>2 DEF Books, Kept
  <2>11. Ahead'
    <3>1. \A j \in 1..Len(aggregates) : aggregates[j].bucket = b => aggregates[j].count <= n
      BY <2>1 DEF n, Books, Kept
    <3>2. n <= Among(logs, Times(b)) BY <2>2 DEF n
    <3> QED BY <1>2, <2>4, <2>5, <3>1, <3>2 DEF Ahead
  <2>12. Complete' /\ Rolled' BY <1>2, <2>1 DEF Complete, Rolled
  <2> QED BY <2>6, <2>7, <2>8, <2>9, <2>10, <2>11, <2>12 DEF Books
<1> QED BY <1>1, <1>3, <1>4

\* The replacement is of what the log still holds.
LEMMA ReplaceBooks == ASSUME Books, Replace, UNCHANGED deadline PROVE Books'
<1>1. PICK i \in DOMAIN rollups :
        /\ rollups[i].count > 0
        /\ aggregates' \in {aggregates, Upserted(aggregates, rollups[i])}
        /\ Ends(i)
        /\ UNCHANGED <<clock, mode, logs, writes, due, recorded>>
  BY DEF Replace
<1> DEFINE doc == rollups[i]
<1>2. /\ doc \in Records /\ doc.bucket <= Bucket(clock)
      /\ doc.count <= Among(logs, Times(doc.bucket))
      /\ doc.count <= Among(recorded, Times(doc.bucket))
  BY OneRollup
<1>3. /\ aggregates \in Seq(Records) /\ Distinct(aggregates)
      /\ \A j \in 1..Len(aggregates) :
           /\ aggregates[j].bucket <= Bucket(clock)
           /\ aggregates[j].count <= Among(logs, Times(aggregates[j].bucket))
           /\ aggregates[j].count <= Among(recorded, Times(aggregates[j].bucket))
  <2>1. mode = "mongo" BY OneRollup
  <2> QED BY <2>1 DEF Books, Sequenced, BucketsUpTo, Kept, Backed
<1>4. /\ aggregates' \in Seq(Records) /\ Distinct(aggregates')
      /\ \A k \in 1..Len(aggregates') : aggregates'[k] = doc \/
           \E j \in 1..Len(aggregates) : aggregates'[k] = aggregates[j]
  <2>1. CASE aggregates' = aggregates BY <1>3, <2>1
  <2>2. CASE aggregates' = Upserted(aggregates, doc)
    <3>1. /\ aggregates \in Seq(Records) /\ doc \in Records /\ Distinct(aggregates)
          /\ aggregates' = Upserted(aggregates, doc)
      BY <1>2, <1>3, <2>2
    <3> HIDE DEF doc
    <3>2. aggregates' \in Seq(Records) /\ Distinct(aggregates') BY ONLY <3>1, UpsertedFacts
    <3>3. Replaces(aggregates', aggregates, doc) BY ONLY <3>1, UpsertedFacts
    <3> QED BY <3>2, <3>3 DEF Replaces
  <2> QED BY <1>1, <2>1, <2>2
<1> HIDE DEF doc
<1>5. \A k \in 1..Len(aggregates') :
        /\ aggregates'[k].bucket <= Bucket(clock)
        /\ aggregates'[k].count <= Among(logs, Times(aggregates'[k].bucket))
        /\ aggregates'[k].count <= Among(recorded, Times(aggregates'[k].bucket))
  BY <1>2, <1>3, <1>4
<1>6. BucketsUpTo(aggregates', Bucket(clock)) /\ Backed(aggregates)' /\ Kept'
  BY <1>1, <1>5 DEF BucketsUpTo, Backed, Kept
<1> QED BY <1>1, <1>4, <1>6, EndBooks

-----------------------------------------------------------------------------
(* Time, and the signal that stops the timer.                              *)

LEMMA TickBooks == ASSUME Books, Tick PROVE Books'
<1>1. /\ clock < MaxTime /\ clock \notin {due, deadline} \ {0} /\ clock' = clock + 1
      /\ UNCHANGED <<mode, logs, writes, aggregates, rollups, running, due, recorded, deadline>>
  BY DEF Tick, database, worker, process
<1>2. /\ clock \in Nat /\ due \in Nat \ {0} /\ recorded \in Seq(Nat)
      /\ aggregates \in Seq(Records) /\ rollups \in Seq(Records)
      /\ logs \in Seq(Nat) /\ writes \in Seq(Nat)
  BY Current DEF Books, Scheduled
<1> DEFINE old == Bucket(clock)
           new == Bucket(clock + 1)
<1>3. old \in Nat /\ new \in Nat /\ old <= new
  <2>1. clock \in Nat /\ clock + 1 \in Nat /\ clock <= clock + 1 BY <1>2
  <2> QED BY ONLY <2>1, BucketFacts, BucketMonotone
<1>4. Bucket(clock)' = new BY <1>1 DEF Bucket
<1>5. ASSUME NEW s \in Seq(Nat), UpTo(s, clock) PROVE UpTo(s, clock + 1)
  <2>1. \A i \in 1..Len(s) : s[i] \in Nat OBVIOUS
  <2>2. \A i \in 1..Len(s) : s[i] <= clock + 1
    <3> TAKE i \in 1..Len(s)
    <3>1. s[i] <= clock /\ s[i] \in Nat /\ clock \in Nat BY <1>2, <1>5, <2>1 DEF UpTo
    <3> QED BY ONLY <3>1
  <2> QED BY <2>2 DEF UpTo
<1>6. ASSUME NEW s \in Seq(Records), BucketsUpTo(s, old) PROVE BucketsUpTo(s, new)
  <2>1. \A i \in 1..Len(s) : s[i].bucket \in Nat /\ s[i].bucket <= old
    BY <1>6, RecordTypes DEF BucketsUpTo
  <2> HIDE DEF old, new
  <2>2. \A i \in 1..Len(s) : s[i].bucket <= new BY <1>3, <2>1
  <2> QED BY <2>2 DEF BucketsUpTo
<1>7. Sequenced'
  <2>1. /\ UpTo(logs, clock + 1) /\ UpTo(writes, clock + 1) /\ UpTo(recorded, clock + 1)
        /\ BucketsUpTo(aggregates, new) /\ BucketsUpTo(rollups, new)
    BY <1>2, <1>5, <1>6 DEF Books, Sequenced
  <2>2. clock + 1 \in Nat /\ clock + 1 <= MaxTime BY <1>1, <1>2, Positive
  <2> QED BY <1>1, <1>4, <2>1, <2>2 DEF Books, Sequenced
<1>8. Arranged' /\ Conserved' BY <1>1 DEF Books, Arranged, Conserved
<1>9. Scheduled'
  <2>1. clock # due BY <1>1, <1>2
  <2> QED BY <1>1, <1>2, <2>1, Positive DEF Books, Scheduled
<1>10. Backed(aggregates)' /\ Backed(rollups)' BY <1>1 DEF Books, Backed
<1>11. Kept'
  <2>1. ASSUME NEW i \in 1..Len(aggregates), aggregates[i].bucket = new
        PROVE  aggregates[i].count <= Among(logs, Times(aggregates[i].bucket))
    <3>1. aggregates[i].bucket <= old BY DEF Books, Sequenced, BucketsUpTo
    <3>2. aggregates[i].bucket = old
      <4> HIDE DEF old, new
      <4> QED BY <1>3, <2>1, <3>1
    <3> QED BY <3>2 DEF Books, Kept
  <2>2. mode = "mongo" => \A i \in 1..Len(aggregates) :
          aggregates[i].count <= Among(logs, Times(aggregates[i].bucket))
    BY DEF Books, Kept
  <2> QED BY <1>1, <1>4, <2>1, <2>2 DEF Kept
<1>12. Ahead' BY <1>1 DEF Books, Ahead
<1>13. Complete'
  <2> SUFFICES ASSUME mode = "memory"
               PROVE  Among(logs, Times(new)) >= MaxLogs
                      \/ Among(logs, Times(new)) >= Among(recorded, Times(new))
    BY <1>1, <1>4 DEF Complete
  <2>1. CASE new = old BY <2>1 DEF Books, Complete
  <2>2. CASE new # old
    <3>1. \A i \in 1..Len(recorded) : recorded[i] \notin Times(new)
      <4> TAKE i \in 1..Len(recorded)
      <4>1. recorded[i] \in Nat BY <1>2
      <4>2. recorded[i] <= clock
        <5>1. UpTo(recorded, clock) BY DEF Books, Sequenced
        <5> QED BY ONLY <5>1, <1>2 DEF UpTo
      <4>3. Bucket(recorded[i]) <= old /\ Bucket(recorded[i]) \in Nat
        BY <1>2, <4>1, <4>2, BucketMonotone, BucketFacts
      <4>4. Bucket(recorded[i]) # new
        <5> HIDE DEF old, new
        <5> QED BY <1>3, <2>2, <4>3
      <4> QED BY <4>4 DEF Times
    <3>2. Among(recorded, Times(new)) = 0 BY <1>2, <3>1, AmongNone
    <3>3. Among(logs, Times(new)) \in Nat BY Current
    <3> QED BY <3>2, <3>3
  <2> QED BY <2>1, <2>2
<1>14. Rolled'
  <2> SUFFICES ASSUME mode = "memory", deadline = 0, NEW b \in Nat,
                      Among(recorded, Settled(b, due)) > 0, new < b + MaxAggregates
               PROVE  \E i \in 1..Len(aggregates) :
                        /\ aggregates[i].bucket = b
                        /\ \/ aggregates[i].count >= Among(recorded, Settled(b, due))
                           \/ aggregates[i].count >= MaxLogs
    BY <1>1, <1>4 DEF Rolled
  <2>1. old < b + MaxAggregates
    <3> HIDE DEF old, new
    <3> QED BY <1>3, Positive
  <2> QED BY <2>1 DEF Books, Rolled
<1> QED BY <1>7, <1>8, <1>9, <1>10, <1>11, <1>12, <1>13, <1>14 DEF Books

LEMMA SignalBooks == ASSUME Books, NEW s \in Signals, Signal(s) PROVE Books'
<1>1. /\ clock + Deadline <= MaxTime /\ due' = Stopped
      /\ deadline' = IF deadline = 0 THEN clock + Deadline ELSE deadline
      /\ UNCHANGED <<clock, mode, logs, writes, aggregates, rollups, running, recorded>>
  BY DEF Signal, database, worker
<1>2. Sequenced' /\ Arranged' /\ Conserved' BY <1>1 DEF Books, Sequenced, Arranged, Conserved
<1>3. Backed(aggregates)' /\ Backed(rollups)' BY <1>1 DEF Books, Backed
<1>4. Kept' /\ Ahead' /\ Complete' BY <1>1 DEF Books, Kept, Ahead, Complete
<1>5. deadline' \in Nat /\ deadline' > 0
  <2>1. clock \in Nat /\ deadline \in Nat BY Current DEF Books, Scheduled
  <2> QED BY <1>1, <2>1, Positive
<1>6. Scheduled'
  <2>1. clock \in Nat /\ clock <= MaxTime BY Current
  <2>2. Stopped \in Nat \ {0} /\ clock <= Stopped BY <2>1, Positive DEF Stopped
  <2>3. due' \in Nat \ {0} /\ clock' <= due' BY <1>1, <2>2
  <2>4. Stopped' = Stopped BY DEF Stopped
  <2> QED BY <1>1, <1>5, <2>3, <2>4 DEF Scheduled
<1>7. Rolled' BY <1>5 DEF Rolled
<1> QED BY <1>2, <1>3, <1>4, <1>6, <1>7 DEF Books

\* Every step of the process keeps the analytics' books.
LEMMA StepBooks == Books /\ [Next]_vars => Books'
<1> SUFFICES ASSUME Books, [Next]_vars PROVE Books'
  OBVIOUS
<1>1. CASE UNCHANGED <<clock, database, worker, due, recorded, deadline>>
  BY <1>1, BooksSame
<1>2. ASSUME HttpsOpens PROVE Books'
  BY <1>1, <1>2 DEF HttpsOpens
<1>3. ASSUME Analyse PROVE Books'
  <2>1. UNCHANGED deadline BY <1>3 DEF Analyse, process
  <2>2. CASE Connect BY <2>1, <2>2, ConnectBooks
  <2>3. CASE WriteLands BY <2>1, <2>3, WriteLandsBooks
  <2>4. CASE IntervalFires BY <2>1, <2>4, IntervalBooks
  <2>5. CASE Aggregate BY <2>1, <2>5, AggregateBooks
  <2>6. CASE Replace BY <2>1, <2>6, ReplaceBooks
  <2> QED BY <1>3, <2>2, <2>3, <2>4, <2>5, <2>6 DEF Analyse
<1>4. ASSUME ServerCloses PROVE Books'
  BY <1>1, <1>4 DEF ServerCloses
<1>5. ASSUME DeadlinePasses PROVE Books'
  BY <1>1, <1>5 DEF DeadlinePasses
<1>6. CASE Tick BY <1>6, TickBooks
<1>7. ASSUME NEW l \in Listeners, Arrive(l) \/ Leave(l) PROVE Books'
  BY <1>1, <1>7 DEF Arrive, Leave
<1>8. ASSUME NEW l \in Listeners, Finish(l) PROVE Books'
  <2>1. /\ RecordTransaction
        /\ UNCHANGED <<clock, mode, aggregates, rollups, running, due, deadline>>
    BY <1>8 DEF Finish, worker
  <2> QED BY <2>1, RecordBooks
<1>9. ASSUME NEW s \in Signals, Signal(s) PROVE Books'
  BY <1>9, SignalBooks
<1>10. ASSUME NEW s \in Signals, CacheCloses(s) PROVE Books'
  BY <1>1, <1>10 DEF CacheCloses
<1>11. ASSUME NEW s \in Signals, DatabaseCloses(s) PROVE Books'
  BY <1>1, <1>11 DEF DatabaseCloses
<1>12. CASE UNCHANGED vars
  BY <1>1, <1>12 DEF vars, process
<1> QED BY <1>2, <1>3, <1>4, <1>5, <1>6, <1>7, <1>8, <1>9, <1>10, <1>11, <1>12 DEF Next

-----------------------------------------------------------------------------
(* The traffic: what is in flight or recorded has arrived.                 *)

LEMMA InitTraffic == Init => Traffic
<1> SUFFICES ASSUME Init PROVE Traffic
  OBVIOUS
<1>1. /\ open = [l \in Listeners |-> 0] /\ arrived = 0 /\ recorded = << >> /\ deadline = 0
      /\ exit = "alive" /\ https \in {"none", "opening"} /\ listening = TRUE
  BY DEF Init, InitAnalytics
<1>2. "http" \in Listeners /\ "https" \in Listeners BY DEF Listeners
<1>3. open["http"] = 0 /\ open["https"] = 0 /\ Len(recorded) = 0 BY <1>1, <1>2
<1> QED BY <1>1, <1>3, Positive DEF Traffic

\* A connection more or less on one listener.
LEMMA OneMore ==
  ASSUME open \in [Listeners -> Nat], NEW l \in Listeners, open' = [open EXCEPT ![l] = open[l] + 1]
  PROVE  /\ open' \in [Listeners -> Nat] /\ open'["http"] \in Nat /\ open'["https"] \in Nat
         /\ open'["http"] + open'["https"] = open["http"] + open["https"] + 1
<1>1. open["http"] \in Nat /\ open["https"] \in Nat BY DEF Listeners
<1>2. l = "http" \/ l = "https" BY DEF Listeners
<1>3. CASE l = "http"
  <2>1. open'["http"] = open["http"] + 1 /\ open'["https"] = open["https"] BY <1>3 DEF Listeners
  <2>2. open'["http"] + open'["https"] = open["http"] + open["https"] + 1 BY ONLY <1>1, <2>1
  <2> QED BY <1>1, <1>3, <2>1, <2>2
<1>4. CASE l = "https"
  <2>1. open'["https"] = open["https"] + 1 /\ open'["http"] = open["http"] BY <1>4 DEF Listeners
  <2>2. open'["http"] + open'["https"] = open["http"] + open["https"] + 1 BY ONLY <1>1, <2>1
  <2> QED BY <1>1, <1>4, <2>1, <2>2
<1> QED BY <1>2, <1>3, <1>4

LEMMA OneLess ==
  ASSUME open \in [Listeners -> Nat], NEW l \in Listeners, open[l] > 0,
         open' = [open EXCEPT ![l] = open[l] - 1]
  PROVE  /\ open' \in [Listeners -> Nat] /\ open'["http"] \in Nat /\ open'["https"] \in Nat
         /\ open'["http"] + open'["https"] + 1 = open["http"] + open["https"]
<1>1. open["http"] \in Nat /\ open["https"] \in Nat /\ open[l] - 1 \in Nat BY DEF Listeners
<1>2. l = "http" \/ l = "https" BY DEF Listeners
<1>3. CASE l = "http"
  <2>1. open'["http"] = open["http"] - 1 /\ open'["https"] = open["https"] BY <1>3 DEF Listeners
  <2>2. open'["http"] + open'["https"] + 1 = open["http"] + open["https"] BY ONLY <1>1, <2>1
  <2> QED BY <1>1, <1>3, <2>1, <2>2
<1>4. CASE l = "https"
  <2>1. open'["https"] = open["https"] - 1 /\ open'["http"] = open["http"] BY <1>4 DEF Listeners
  <2>2. open'["http"] + open'["https"] + 1 = open["http"] + open["https"] BY ONLY <1>1, <2>1
  <2> QED BY <1>1, <1>4, <2>1, <2>2
<1> QED BY <1>2, <1>3, <1>4

LEMMA StepTraffic == Books /\ Traffic /\ [Next]_vars => Traffic'
<1> SUFFICES ASSUME Books, Traffic, [Next]_vars PROVE Traffic'
  OBVIOUS
<1>1. /\ open \in [Listeners -> Nat] /\ arrived \in Nat /\ arrived <= MaxRequests
      /\ open["http"] + open["https"] + Len(recorded) <= arrived
      /\ open["http"] \in Nat /\ open["https"] \in Nat /\ Len(recorded) \in Nat
      /\ recorded \in Seq(Nat) /\ clock \in Nat /\ MaxRequests \in Nat /\ deadline <= MaxTime
      /\ exit \in {"alive", "0", "1"} /\ https \in {"none", "opening", "up"}
      /\ listening \in BOOLEAN
  BY Current, Positive DEF Traffic, Listeners
<1>2. ASSUME UNCHANGED <<open, arrived, recorded, deadline, listening>>,
             exit' \in {exit, "0", "1"}, https' \in {https, "up"}
      PROVE  Traffic'
  BY <1>2 DEF Traffic
<1>3. ASSUME HttpsOpens PROVE Traffic'
  BY <1>2, <1>3 DEF HttpsOpens
<1>4. ASSUME Analyse PROVE Traffic'
  <2>1. UNCHANGED <<open, arrived, deadline, listening, exit, https>>
    BY <1>4 DEF Analyse, process
  <2>2. UNCHANGED recorded
    BY <1>4 DEF Analyse, Connect, WriteLands, IntervalFires, Aggregate, Replace
  <2> QED BY <1>2, <2>1, <2>2
<1>5. ASSUME ServerCloses PROVE Traffic'
  BY <1>2, <1>5 DEF ServerCloses
<1>6. ASSUME DeadlinePasses PROVE Traffic'
  BY <1>2, <1>6 DEF DeadlinePasses
<1>7. ASSUME Tick PROVE Traffic'
  BY <1>2, <1>7 DEF Tick, process
<1>8. ASSUME NEW l \in Listeners, Arrive(l) PROVE Traffic'
  <2>1. /\ open' = [open EXCEPT ![l] = open[l] + 1] /\ arrived' = arrived + 1
        /\ arrived < MaxRequests /\ UNCHANGED <<recorded, exit, https, listening, deadline>>
    BY <1>8 DEF Arrive
  <2>2. /\ open' \in [Listeners -> Nat] /\ open'["http"] \in Nat /\ open'["https"] \in Nat
        /\ open'["http"] + open'["https"] = open["http"] + open["https"] + 1
    BY <1>1, <2>1, OneMore
  <2>3. open'["http"] + open'["https"] + Len(recorded') <= arrived'
    <3>1. /\ open["http"] + open["https"] + Len(recorded) <= arrived
          /\ open["http"] \in Nat /\ open["https"] \in Nat /\ Len(recorded) \in Nat
          /\ arrived \in Nat /\ arrived' = arrived + 1 /\ Len(recorded') = Len(recorded)
      BY <1>1, <2>1
    <3> QED BY ONLY <2>2, <3>1
  <2>4. arrived' \in Nat /\ arrived' <= MaxRequests
    <3>1. /\ arrived \in Nat /\ MaxRequests \in Nat /\ arrived < MaxRequests
          /\ arrived' = arrived + 1
      BY <1>1, <2>1
    <3> QED BY ONLY <3>1
  <2> QED BY <1>1, <2>1, <2>2, <2>3, <2>4 DEF Traffic
<1>9. ASSUME NEW l \in Listeners, Finish(l) PROVE Traffic'
  <2>1. /\ open[l] > 0 /\ UNCHANGED <<exit, https, listening, deadline>>
        /\ recorded' \in {recorded, Append(recorded, clock)}
        /\ \/ open' = [open EXCEPT ![l] = open[l] - 1] /\ UNCHANGED arrived
           \/ arrived < MaxRequests /\ arrived' = arrived + 1 /\ UNCHANGED open
    <3>1. recorded' \in {recorded, Append(recorded, clock)} BY <1>9 DEF Finish, RecordTransaction
    <3> QED BY <1>9, <3>1 DEF Finish
  <2>2. Len(recorded') \in Nat /\ Len(recorded') <= Len(recorded) + 1
    <3>1. Len(Append(recorded, clock)) = Len(recorded) + 1 BY <1>1
    <3> QED BY <1>1, <2>1, <3>1
  <2>3. CASE open' = [open EXCEPT ![l] = open[l] - 1] /\ UNCHANGED arrived
    <3>1. /\ open' \in [Listeners -> Nat] /\ open'["http"] \in Nat /\ open'["https"] \in Nat
          /\ open'["http"] + open'["https"] + 1 = open["http"] + open["https"]
      BY <1>1, <2>1, <2>3, OneLess
    <3>2. open'["http"] + open'["https"] + Len(recorded') <= arrived'
      <4>1. /\ open["http"] + open["https"] + Len(recorded) <= arrived
            /\ open["http"] \in Nat /\ open["https"] \in Nat /\ Len(recorded) \in Nat
            /\ arrived \in Nat /\ arrived' = arrived
        BY <1>1, <2>3
      <4> QED BY ONLY <2>2, <3>1, <4>1
    <3> QED BY <1>1, <2>1, <2>3, <3>1, <3>2 DEF Traffic
  <2>4. CASE arrived < MaxRequests /\ arrived' = arrived + 1 /\ UNCHANGED open
    <3>1. open'["http"] + open'["https"] + Len(recorded') <= arrived'
      <4>1. /\ open["http"] + open["https"] + Len(recorded) <= arrived
            /\ open["http"] \in Nat /\ open["https"] \in Nat /\ Len(recorded) \in Nat
            /\ arrived \in Nat /\ arrived' = arrived + 1
            /\ open'["http"] = open["http"] /\ open'["https"] = open["https"]
        BY <1>1, <2>4
      <4> QED BY ONLY <2>2, <4>1
    <3>2. arrived' \in Nat /\ arrived' <= MaxRequests BY <1>1, <2>4
    <3> QED BY <1>1, <2>1, <2>4, <3>1, <3>2 DEF Traffic
  <2> QED BY <2>1, <2>3, <2>4
<1>10. ASSUME NEW l \in Listeners, Leave(l) PROVE Traffic'
  <2>1. /\ open' = [open EXCEPT ![l] = open[l] - 1] /\ open[l] > 0
        /\ UNCHANGED <<arrived, recorded, exit, https, listening, deadline>>
    BY <1>10 DEF Leave
  <2>2. /\ open' \in [Listeners -> Nat] /\ open'["http"] \in Nat /\ open'["https"] \in Nat
        /\ open'["http"] + open'["https"] + 1 = open["http"] + open["https"]
    BY <1>1, <2>1, OneLess
  <2>3. open'["http"] + open'["https"] + Len(recorded') <= arrived'
    <3>1. /\ open["http"] + open["https"] + Len(recorded) <= arrived
          /\ open["http"] \in Nat /\ open["https"] \in Nat /\ Len(recorded) \in Nat
          /\ arrived \in Nat /\ arrived' = arrived /\ Len(recorded') = Len(recorded)
      BY <1>1, <2>1
    <3> QED BY ONLY <2>2, <3>1
  <2> QED BY <1>1, <2>1, <2>2, <2>3 DEF Traffic
<1>11. ASSUME NEW s \in Signals, Signal(s) PROVE Traffic'
  <2>1. deadline' <= MaxTime /\ UNCHANGED <<open, arrived, recorded, exit, https>>
        /\ listening' = FALSE
    BY <1>1, <1>11 DEF Signal
  <2> QED BY <1>1, <2>1 DEF Traffic
<1>12. ASSUME NEW s \in Signals, CacheCloses(s) PROVE Traffic'
  BY <1>2, <1>12 DEF CacheCloses
<1>13. ASSUME NEW s \in Signals, DatabaseCloses(s) PROVE Traffic'
  BY <1>2, <1>13 DEF DatabaseCloses
<1>14. CASE UNCHANGED vars
  BY <1>2, <1>14 DEF vars, process
<1> QED BY <1>3, <1>4, <1>5, <1>6, <1>7, <1>8, <1>9, <1>10, <1>11, <1>12, <1>13, <1>14 DEF Next

\* The strengthening on which the theorems below rest.
LEMMA Invariance == Spec => [](IInv /\ Books /\ Traffic)
<1> QED BY InitIInv, StepIInv, InitBooks, StepBooks, InitTraffic, StepTraffic, PTL DEF Spec

-----------------------------------------------------------------------------
(* The properties.                                                         *)

\* The arrays of analyticsDb stay within their capacity, upsert never leaves
\* two aggregates of one minute, nothing is counted that did not arrive, and
\* isProcessing is up exactly while one rollup awaits MongoDB.
LEMMA Typed == IInv /\ Books /\ Traffic => TypeOK
<1> SUFFICES ASSUME IInv, Books, Traffic PROVE TypeOK
  OBVIOUS
<1>1. /\ clock \in Nat /\ clock <= MaxTime /\ mode \in Modes /\ due \in Nat
      /\ logs \in Seq(Nat) /\ writes \in Seq(Nat) /\ recorded \in Seq(Nat)
      /\ aggregates \in Seq(Records) /\ rollups \in Seq(Records)
  BY Current DEF Books, Sequenced
<1>2. clock \in 0..MaxTime BY <1>1, Positive
<1>3. due \in clock..Stopped
  <2>1. clock <= due /\ (due = Stopped \/ due <= clock + Interval) BY DEF Books, Scheduled
  <2> QED BY <1>1, <2>1, Positive DEF Stopped
<1>4. Range(logs) \cup Range(writes) \subseteq 0..clock
  <2>1. ASSUME NEW s \in Seq(Nat), UpTo(s, clock) PROVE Range(s) \subseteq 0..clock
    <3>1. \A i \in DOMAIN s : s[i] \in Nat /\ s[i] <= clock BY <2>1 DEF UpTo
    <3> QED BY <1>1, <3>1 DEF Range
  <2> QED BY <1>1, <2>1 DEF Books, Sequenced
<1>5. Range(aggregates) \cup Range(rollups) \subseteq Documents
  <2>1. ASSUME NEW s \in Seq(Records), BucketsUpTo(s, Bucket(clock)), Backed(s)
        PROVE  Range(s) \subseteq Documents
    <3>1. ASSUME NEW i \in DOMAIN s PROVE s[i] \in Documents
      <4>1. i \in 1..Len(s) /\ s[i] \in Records /\ s[i].bucket \in Nat /\ s[i].count \in Nat
        BY <3>1, RecordTypes
      <4>2. s[i].bucket \in 0..Bucket(MaxTime)
        <5>1. s[i].bucket <= Bucket(clock) BY <2>1, <4>1 DEF BucketsUpTo
        <5>2. /\ Bucket(clock) <= Bucket(MaxTime) /\ Bucket(clock) \in Nat
              /\ Bucket(MaxTime) \in Nat
          BY <1>1, Positive, BucketFacts, BucketMonotone
        <5> QED BY <4>1, <5>1, <5>2
      <4>3. s[i].count \in 0..MaxRequests
        <5> DEFINE n == Among(recorded, Times(s[i].bucket))
        <5>1. s[i].count <= n BY <2>1, <4>1 DEF Backed
        <5>2. n \in Nat /\ n <= Len(recorded) BY <1>1, AmongType
        <5>3. /\ open["http"] + open["https"] + Len(recorded) <= arrived /\ arrived <= MaxRequests
              /\ open["http"] \in Nat /\ open["https"] \in Nat /\ arrived \in Nat
              /\ Len(recorded) \in Nat
          BY <1>1 DEF Traffic, Listeners
        <5> HIDE DEF n
        <5> QED BY <4>1, <5>1, <5>2, <5>3, Positive
      <4> QED BY <4>1, <4>2, <4>3 DEF Records, Documents
    <3> QED BY <3>1 DEF Range
  <2> QED BY <1>1, <2>1 DEF Books, Sequenced
<1>6. mode = "memory" => Len(logs) <= MaxLogs /\ Len(aggregates) <= MaxAggregates
  BY DEF Books, Arranged
<1>7. \A b \in 0..Bucket(MaxTime) :
        Cardinality({i \in DOMAIN aggregates : aggregates[i].bucket = b}) <= 1
  <2> TAKE b \in 0..Bucket(MaxTime)
  <2> DEFINE S == {i \in DOMAIN aggregates : aggregates[i].bucket = b}
  <2>1. \A i, j \in S : i = j
    <3>1. DOMAIN aggregates = 1..Len(aggregates) BY <1>1
    <3>2. \A i, j \in 1..Len(aggregates) : aggregates[i].bucket = aggregates[j].bucket => i = j
      BY DEF Books, Sequenced, Distinct
    <3> QED BY <3>1, <3>2
  <2> HIDE DEF S
  <2>2. Cardinality(S) <= 1
    <3>1. CASE S = {}
      <4>1. Cardinality(S) = 0 BY <3>1, FS_EmptySet
      <4> QED BY <4>1
    <3>2. CASE S # {}
      <4>1. PICK k : k \in S BY <3>2
      <4>2. S = {k} BY <2>1, <4>1
      <4>3. Cardinality(S) = 1 BY <4>2, FS_Singleton
      <4> QED BY <4>3
    <3> QED BY <3>1, <3>2
  <2> QED BY <2>2 DEF S
<1>8. Len(rollups) = IF running THEN 1 ELSE 0 BY DEF Books, Sequenced
<1>9. open \in [Listeners -> 0..MaxRequests] /\ arrived \in 0..MaxRequests
  <2>1. /\ open \in [Listeners -> Nat] /\ arrived \in Nat /\ arrived <= MaxRequests
        /\ open["http"] + open["https"] + Len(recorded) <= arrived
        /\ open["http"] \in Nat /\ open["https"] \in Nat /\ Len(recorded) \in Nat
    BY <1>1 DEF Traffic, Listeners
  <2>2. open["http"] \in 0..MaxRequests /\ open["https"] \in 0..MaxRequests BY <2>1, Positive
  <2> QED BY <2>1, <2>2, Positive DEF Listeners
<1>10. closing \in [Signals -> Stages] BY DEF IInv
<1>11. deadline \in 0..MaxTime BY Positive DEF Traffic, Books, Scheduled
<1> QED
  BY <1>1, <1>2, <1>3, <1>4, <1>5, <1>6, <1>7, <1>8, <1>9, <1>10, <1>11 DEF TypeOK, Traffic

THEOREM TypeCorrect == Spec => []TypeOK
BY Typed, Invariance, PTL

\* aggregateLogs counts only what insertOne was given, and in memory the
\* count of a minute that is over has what its last runRollup could see:
\* everything up to one interval before the end, or a full array.
LEMMA Accurate == Books => AggregateAccurate
<1> SUFFICES ASSUME Books PROVE AggregateAccurate
  OBVIOUS
<1> SUFFICES ASSUME NEW b \in 0..Bucket(MaxTime)
             PROVE  /\ \A n \in CountOf(b) : n <= Recorded(Times(b))
                    /\ LET settled == Recorded({t \in Times(b) : t + Interval \in Times(b)})
                       IN mode = "memory" /\ deadline = 0
                          /\ Bucket(clock) \in (b + 1)..(b + MaxAggregates - 1) /\ settled > 0
                          => \E n \in CountOf(b) : n >= settled \/ n >= MaxLogs
  BY DEF AggregateAccurate
<1>1. /\ clock \in Nat /\ clock <= MaxTime /\ Bucket(clock) \in Nat /\ due \in Nat
      /\ aggregates \in Seq(Records) /\ recorded \in Seq(Nat) /\ b \in Nat
  BY Current, Positive, BucketFacts
<1>2. DOMAIN aggregates = 1..Len(aggregates) BY <1>1
<1>3. ASSUME NEW n \in CountOf(b) PROVE n <= Recorded(Times(b))
  <2>1. PICK i \in 1..Len(aggregates) : aggregates[i].bucket = b /\ n = aggregates[i].count
    BY <1>2, <1>3 DEF CountOf
  <2> QED BY <2>1 DEF Books, Backed, Recorded
<1> DEFINE S == {t \in Times(b) : t + Interval \in Times(b)}
<1>4. ASSUME mode = "memory", deadline = 0,
             Bucket(clock) \in (b + 1)..(b + MaxAggregates - 1), Recorded(S) > 0
      PROVE  \E n \in CountOf(b) : n >= Recorded(S) \/ n >= MaxLogs
  <2>1. b < Bucket(clock) /\ Bucket(clock) < b + MaxAggregates BY <1>1, <1>4, Positive
  <2>2. S = Settled(b, due)
    <3>1. ASSUME NEW t \in S PROVE t + Interval < due
      <4>1. t \in Nat /\ t + Interval \in Nat /\ Bucket(t + Interval) = b
        BY Positive DEF Times
      <4>2. clock <= due BY DEF Books, Scheduled
      <4>3. ASSUME clock <= t + Interval PROVE FALSE
        <5>1. Bucket(clock) <= Bucket(t + Interval) BY <1>1, <4>1, <4>3, BucketMonotone
        <5> QED BY <1>1, <2>1, <4>1, <5>1
      <4> DEFINE e == t + Interval
      <4>4. e \in Nat /\ clock \in Nat /\ due \in Nat /\ ~(clock <= e) BY <1>1, <4>1, <4>3
      <4>5. e < due BY ONLY <4>2, <4>4
      <4> QED BY <4>5
    <3> QED BY <3>1 DEF Settled
  <2> HIDE DEF S
  <2>3. \E i \in 1..Len(aggregates) :
          /\ aggregates[i].bucket = b
          /\ aggregates[i].count >= Among(recorded, S) \/ aggregates[i].count >= MaxLogs
    BY <1>1, <1>4, <2>1, <2>2 DEF Books, Rolled, Recorded
  <2>4. PICK i \in 1..Len(aggregates) :
          /\ aggregates[i].bucket = b
          /\ aggregates[i].count >= Among(recorded, S) \/ aggregates[i].count >= MaxLogs
    BY <2>3
  <2>5. aggregates[i].count \in CountOf(b) BY <1>2, <2>4 DEF CountOf
  <2> QED BY <2>4, <2>5 DEF Recorded
<1> QED BY <1>3, <1>4

THEOREM AggregatesAccurate == Spec => []AggregateAccurate
BY Accurate, Invariance, PTL

\* What replaces an aggregate counts no fewer.
LEMMA ReplacementGrows ==
  ASSUME aggregates \in Seq(Records), Distinct(aggregates), NEW doc \in Records,
         NEW r \in Seq(Records),
         \A j \in 1..Len(aggregates) :
           aggregates[j].bucket = doc.bucket => aggregates[j].count <= doc.count,
         \A i \in 1..Len(r) : r[i] = doc \/ \E j \in 1..Len(aggregates) : r[i] = aggregates[j],
         NEW i \in 1..Len(r), NEW j \in 1..Len(aggregates), r[i].bucket = aggregates[j].bucket
  PROVE  r[i].count >= aggregates[j].count
<1>1. aggregates[j].count \in Nat BY RecordTypes
<1>2. CASE r[i] = doc
  <2>1. doc.count \in Nat BY DEF Records
  <2> QED BY <1>1, <1>2, <2>1
<1>3. ASSUME NEW k \in 1..Len(aggregates), r[i] = aggregates[k]
      PROVE  r[i].count >= aggregates[j].count
  <2>1. k = j BY <1>3 DEF Distinct
  <2> QED BY <1>1, <1>3, <2>1
<1> QED BY <1>2, <1>3

LEMMA CountsStep ==
  ASSUME Books, [Next]_vars, NEW j \in 1..Len(aggregates), NEW i \in 1..Len(aggregates'),
         aggregates'[i].bucket = aggregates[j].bucket
  PROVE  aggregates'[i].count >= aggregates[j].count
<1>1. /\ aggregates \in Seq(Records) /\ Distinct(aggregates) /\ Bucket(clock) \in Nat
      /\ \A T : Among(logs, T) \in Nat
  BY Current DEF Books, Sequenced
<1>2. CASE UNCHANGED aggregates
  <2>1. i = j BY <1>1, <1>2 DEF Distinct
  <2>2. aggregates[j].count \in Nat BY <1>1, RecordTypes
  <2> QED BY <1>2, <2>1, <2>2
<1>3. CASE mode = "memory" /\ IntervalFires /\ ~UNCHANGED aggregates
  <2> DEFINE n == Among(logs, Times(Bucket(clock)))
             doc == [bucket |-> Bucket(clock), count |-> n]
  <2>1. aggregates' = Capped(Upserted(aggregates, doc), MaxAggregates)
    BY <1>3 DEF IntervalFires, RunRollup, InMemory, Counted
  <2>2. n \in Nat BY <1>1
  <2>3. doc \in Records /\ doc.bucket = Bucket(clock) /\ doc.count = n
    BY <1>1, <2>2 DEF Records
  <2>4. \A k \in 1..Len(aggregates) : aggregates[k].bucket = doc.bucket =>
          aggregates[k].count <= doc.count
    BY <2>3 DEF Books, Kept
  <2> HIDE DEF doc
  <2>5. Books /\ mode = "memory" /\ doc \in Records /\ doc.bucket = Bucket(clock)
        /\ aggregates' = Capped(Upserted(aggregates, doc), MaxAggregates)
    BY <1>3, <2>1, <2>3
  <2>6. aggregates' \in Seq(Records) /\ Rewritten(aggregates', aggregates, doc)
    BY ONLY <2>5, Replaced
  <2>7. \A k \in 1..Len(aggregates') :
          aggregates'[k] = doc \/ \E h \in 1..Len(aggregates) : aggregates'[k] = aggregates[h]
    BY <2>6 DEF Rewritten
  <2>8. aggregates \in Seq(Records) /\ Distinct(aggregates) /\ doc \in Records
        /\ i \in 1..Len(aggregates') /\ j \in 1..Len(aggregates)
        /\ aggregates'[i].bucket = aggregates[j].bucket
    BY <1>1, <2>3
  <2> QED BY ONLY <2>4, <2>6, <2>7, <2>8, ReplacementGrows
<1>4. CASE Replace /\ ~UNCHANGED aggregates
  <2>1. PICK m \in DOMAIN rollups :
          rollups[m].count > 0 /\ aggregates' = Upserted(aggregates, rollups[m])
    BY <1>4 DEF Replace
  <2> DEFINE doc == rollups[m]
  <2>2. doc \in Records BY OneRollup
  <2>3. \A k \in 1..Len(aggregates) : aggregates[k].bucket = doc.bucket =>
          aggregates[k].count <= doc.count
    <3>1. m \in 1..Len(rollups) BY OneRollup
    <3> QED BY <2>1, <3>1 DEF Books, Ahead
  <2>4. aggregates \in Seq(Records) /\ doc \in Records /\ Distinct(aggregates)
        /\ aggregates' = Upserted(aggregates, doc)
    BY <1>1, <2>1, <2>2
  <2> HIDE DEF doc
  <2>5. aggregates' \in Seq(Records) BY ONLY <2>4, UpsertedFacts
  <2>6. Replaces(aggregates', aggregates, doc) BY ONLY <2>4, UpsertedFacts
  <2>7. \A k \in 1..Len(aggregates') :
          aggregates'[k] = doc \/ \E h \in 1..Len(aggregates) : aggregates'[k] = aggregates[h]
    BY <2>6 DEF Replaces
  <2>8. i \in 1..Len(aggregates') /\ j \in 1..Len(aggregates)
        /\ aggregates'[i].bucket = aggregates[j].bucket
    OBVIOUS
  <2> QED BY ONLY <2>3, <2>4, <2>5, <2>7, <2>8, ReplacementGrows
<1>5. \/ UNCHANGED aggregates
      \/ IntervalFires /\ mode = "memory"
      \/ Replace
  <2>1. ASSUME Analyse
        PROVE  UNCHANGED aggregates \/ (IntervalFires /\ mode = "memory") \/ Replace
    BY <2>1
    DEF Analyse, Connect, WriteLands, IntervalFires, RunRollup, Aggregate, database
  <2>2. ASSUME NEW l \in Listeners, Arrive(l) \/ Finish(l) \/ Leave(l)
        PROVE  UNCHANGED aggregates
    BY <2>2 DEF Arrive, Finish, Leave, database
  <2>3. ASSUME NEW s \in Signals, Signal(s) \/ CacheCloses(s) \/ DatabaseCloses(s)
        PROVE  UNCHANGED aggregates
    BY <2>3 DEF Signal, CacheCloses, DatabaseCloses, database
  <2>4. ASSUME HttpsOpens \/ ServerCloses \/ DeadlinePasses \/ Tick PROVE UNCHANGED aggregates
    BY <2>4 DEF HttpsOpens, ServerCloses, DeadlinePasses, Tick, database
  <2>5. ASSUME UNCHANGED vars PROVE UNCHANGED aggregates BY <2>5 DEF vars, database
  <2> QED BY <2>1, <2>2, <2>3, <2>4, <2>5 DEF Next
<1> QED BY <1>2, <1>3, <1>4, <1>5

\* runRollup's upsert never takes a response back from a minute: in memory
\* the current minute's logs are evicted only when the array is full of
\* them, and with MongoDB isProcessing lets no older count arrive later.
THEOREM CountsNeverShrink == Spec => CountsGrow
<1>1. Books /\ [Next]_vars =>
        [\A b \in 0..Bucket(MaxTime) : \A n \in CountOf(b) : \A k \in CountOf(b)' : k >= n]_vars
  <2> SUFFICES ASSUME Books, [Next]_vars, NEW b \in 0..Bucket(MaxTime),
                      NEW n \in CountOf(b), NEW k \in CountOf(b)'
               PROVE  k >= n
    OBVIOUS
  <2>1. aggregates \in Seq(Records) /\ aggregates' \in Seq(Records)
    <3>1. Books' BY StepBooks
    <3> QED BY <3>1 DEF Books, Sequenced
  <2>2. DOMAIN aggregates = 1..Len(aggregates) /\ DOMAIN aggregates' = 1..Len(aggregates')
    BY <2>1
  <2>3. PICK j \in 1..Len(aggregates) : aggregates[j].bucket = b /\ n = aggregates[j].count
    BY <2>2 DEF CountOf
  <2>4. PICK i \in 1..Len(aggregates') : aggregates'[i].bucket = b /\ k = aggregates'[i].count
    BY <2>2 DEF CountOf
  <2> QED BY <2>3, <2>4, CountsStep
<1> QED BY <1>1, Invariance, PTL DEF Spec, CountsGrow
=============================================================================
