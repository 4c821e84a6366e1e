----------------------------- MODULE Strategies -----------------------------
(***************************************************************************)
(* The five load-balancing strategies behind selectBackend, the routing    *)
(* engine's choice between them and the metrics that two of them read.     *)
(*                                                                         *)
(* Gateway lets the strategy pick any of the candidates; here the pick is  *)
(* the code's.  What comes from Gateway is arbitrary instead: the list of  *)
(* candidates, a nonempty part of the pool in the pool's order that may    *)
(* differ from call to call, and which of them are on trial (the filter    *)
(* that admits a backend to HALF_OPEN has just made it unhealthy).         *)
(*                                                                         *)
(* Arithmetic is in integers: latencies and error rates in hundredths, the *)
(* score in thousandths until it is rounded.  Hashes are small numbers and *)
(* the hash of a virtual node is one of the functions in Hashes, for MD5.  *)
(***************************************************************************)
EXTENDS Integers, FiniteSets, SequencesExt

CONSTANTS
  Pool,               \* the backend ids in the order of config.backends
  InitWeight,         \* their staggered weights
  HistoryLimit,       \* transactions kept in a backend's window (100)
  VnodesPerWeight,    \* virtual nodes per unit of weight (40)
  Hashes,             \* candidates for hash32 of a virtual node's name
  Keys,               \* hash values of client addresses and session ids
  Weights,            \* bound: the weights an administrator sets
  Outcomes,           \* bound: the transactions that are recorded
  MaxConnections,     \* bound: requests in flight
  MaxRecorded,        \* bound: transactions in all windows together
  MaxChanges          \* bound: weights set in a behaviour

Members == {Pool[i] : i \in DOMAIN Pool}
Place == [b \in Members |-> CHOOSE i \in DOMAIN Pool : Pool[i] = b]
Algorithms == {"round-robin", "weighted-round-robin", "least-connections",
               "ip-hash", "consistent-hash"}

AtLeast(a, b) == IF a < b THEN b ELSE a
AtMost(a, b) == IF a > b THEN b ELSE a

\* Every weight a backend can ever have, and the indices of its virtual nodes.
WeightsEver == Weights \cup {InitWeight[b] : b \in Members}
VnodeIndices == UNION {0..(VnodesPerWeight * AtLeast(1, x) - 1) : x \in WeightsEver}

ASSUME StrategiesAssumption ==
  /\ Pool # << >> /\ Pool \in Seq(Members) /\ IsInjective(Pool)
  /\ InitWeight \in [Members -> Nat] /\ Weights \subseteq Nat
  /\ HistoryLimit \in Nat \ {0} /\ VnodesPerWeight \in Nat \ {0}
  /\ Hashes \subseteq [Members \X VnodeIndices -> Nat]
  /\ Outcomes \subseteq [latency : Nat, error : BOOLEAN]
  /\ Keys \subseteq Nat
  /\ MaxConnections \in Nat /\ MaxRecorded \in Nat /\ MaxChanges \in Nat

VARIABLES
  algorithm,          \* the routing engine's current strategy
  index,              \* RoundRobinStrategy.index
  wrr,                \* WeightedRoundRobinStrategy: currentIndex, currentWeight
  weight,             \* weight[b], as the administrator sets it
  connections,        \* activeConnections[b]
  history,            \* history[b]: transactions of the last minute
  changes             \* how often a weight has been set

vars == <<algorithm, index, wrr, weight, connections, history, changes>>

Candidates ==
  {list \in UNION {[1..n -> Members] : n \in DOMAIN Pool} :
     \A i, j \in DOMAIN list : i < j => Place[list[i]] < Place[list[j]]}

Init ==
  /\ algorithm \in Algorithms
  /\ index = 0
  /\ wrr = [index |-> -1, weight |-> 0]
  /\ weight = InitWeight
  /\ connections = [b \in Members |-> 0]
  /\ history = [b \in Members |-> << >>]
  /\ changes = 0

-----------------------------------------------------------------------------
(* Metrics: a backend's score out of 100.                                  *)

Rounded(n, d) == (2 * n + d) \div (2 * d)     \* Math.round(n / d)

Errors(h) == Cardinality({i \in DOMAIN h : h[i].error})
TotalLatency(h) ==
  LET total[i \in 0..Len(h)] == IF i = 0 THEN 0 ELSE total[i - 1] + h[i].latency
  IN  total[Len(h)]
AverageLatency(h) == IF h = << >> THEN 0 ELSE Rounded(100 * TotalLatency(h), Len(h))
ErrorRate(h) == IF h = << >> THEN 0 ELSE Rounded(10000 * Errors(h), Len(h))

\* Mutant: the latency penalty is not capped.
CalculateScore_Uncapped(averageLatency, errorRate, active) ==
  LET penalty == averageLatency + 5 * errorRate + 1000 * AtMost(30, 5 * active)
  IN  AtLeast(0, Rounded(100000 - penalty, 1000))

CalculateScore(averageLatency, errorRate, active) ==
  LET penalty == AtMost(40000, averageLatency) + 5 * errorRate
                   + 1000 * AtMost(30, 5 * active)
  IN  AtLeast(0, Rounded(100000 - penalty, 1000))

\* getBackendMetrics(b).score; trial is the set of unhealthy candidates.
Score(b, trial) ==
  IF b \in trial THEN 0
  ELSE CalculateScore(AverageLatency(history[b]), ErrorRate(history[b]), connections[b])

\* recordTransaction and its cleanup
RecordedIn(h, t) ==
  LET longer == Append(h, t)
  IN  IF Len(longer) > HistoryLimit THEN Tail(longer) ELSE longer

-----------------------------------------------------------------------------
(* Round robin.                                                            *)

\* Mutant: the index is kept modulo the pool instead of the list.
NextIndex_OfPool(i, n) == (i + 1) % Len(Pool)

NextIndex(i, n) == (i + 1) % n
AtIndex(list, i) == list[(i % Len(list)) + 1]

-----------------------------------------------------------------------------
(* Weighted round robin: the weights of the virtual pool, and the loop     *)
(* that walks it level by level.                                           *)

StaticWeight(b) == AtLeast(1, weight[b])      \* weight || 1

DynamicWeight(b, trial) ==
  AtLeast(1, Rounded(StaticWeight(b) * Score(b, trial), 100))
VirtualPool(trial) == [b \in Members |-> DynamicWeight(b, trial)]

\* Euclid's loop.  The divisor falls with every turn, so b turns are enough.
Gcd(a, b) ==
  LET pair[k \in 0..b] ==
        IF k = 0 THEN <<a, b>>
        ELSE LET p == pair[k - 1] IN IF p[2] = 0 THEN p ELSE <<p[2], p[1] % p[2]>>
  IN  pair[b][1]

\* Mutant: Euclid's loop returns the remainder instead of the divisor.
GcdOfWeights_Remainder(w, list) ==
  FoldLeft(LAMBDA g, b : g % w[b], w[Head(list)], Tail(list))

GcdOfWeights(w, list) ==
  LET gcd[i \in 1..Len(list)] ==
        IF i = 1 THEN w[list[1]] ELSE Gcd(gcd[i - 1], w[list[i]])
  IN  gcd[Len(list)]
MaxWeight(w, list) == Max({w[list[i]] : i \in DOMAIN list})

\* Mutant: the level is reset only below zero.
Lowered_ZeroLevel(level, g, top) == IF level - g < 0 THEN top ELSE level - g

\* Mutant: the level is never reset.
Lowered_NoReset(level, g, top) == level - g

\* The next level of the walk; one at or below zero starts again at the top.
Lowered(level, g, top) == IF level - g <= 0 THEN top ELSE level - g

\* One turn of the loop, and whether it ends with a selection.
Turn(w, list, s) ==
  LET next == (s.index + 1) % Len(list)
  IN  [index  |-> next,
       weight |-> IF next = 0 THEN Lowered(s.weight, GcdOfWeights(w, list), MaxWeight(w, list))
                  ELSE s.weight]
Selected(w, list, s) == w[list[s.index + 1]] >= s.weight

\* The loop, given up after every level from the current one down, a pass to
\* start with and one at the highest level.
Unselected == [index |-> -1, weight |-> 0]
WrrSelect(w, list, from) ==
  LET turns == Len(list) * (from.weight + 2)
      state[k \in 1..turns] ==
        IF k = 1 THEN Turn(w, list, from)
        ELSE LET s == state[k - 1]
             IN  IF Selected(w, list, s) THEN s ELSE Turn(w, list, s)
      last == state[turns]
  IN  IF Selected(w, list, last) THEN last ELSE Unselected

-----------------------------------------------------------------------------
(* Least connections: the candidates with the fewest, the first of the     *)
(* best score among them.                                                  *)

LeastConnected(list, trial) ==
  LET tied == {i \in DOMAIN list :
                 \A j \in DOMAIN list : connections[list[i]] <= connections[list[j]]}
      best == {i \in tied : \A j \in tied : Score(list[i], trial) >= Score(list[j], trial)}
  IN  list[Min(best)]

-----------------------------------------------------------------------------
(* Consistent hashing: the ring of virtual nodes and the search in it.     *)

\* The sort is by hash and stable: equal hashes stay in the order of pushes.
Before(x, y) ==
  \/ x.hash < y.hash
  \/ x.hash = y.hash /\ Place[x.backendId] < Place[y.backendId]
  \/ x.hash = y.hash /\ x.backendId = y.backendId /\ x.vnode < y.vnode

\* The first n virtual nodes of a backend.
Vnodes(b, hash, n) ==
  [k \in 1..n |-> [hash |-> hash[<<b, k - 1>>], backendId |-> b, vnode |-> k - 1]]
Pushed(list, w, hash) ==
  FlattenSeq([i \in DOMAIN list |->
    Vnodes(list[i], hash, VnodesPerWeight * AtLeast(1, w[list[i]]))])

Inserted(ring, v) ==
  InsertAt(ring, Cardinality({i \in DOMAIN ring : Before(ring[i], v)}) + 1, v)
Sorted(nodes) ==
  LET ring[k \in 0..Len(nodes)] ==
        IF k = 0 THEN << >> ELSE Inserted(ring[k - 1], nodes[k])
  IN  ring[Len(nodes)]

\* Mutant: a ring of four virtual nodes is divided among the candidates.
BuildRing_FixedSize(list, w, hash) ==
  Sorted(FlattenSeq([i \in DOMAIN list |-> Vnodes(list[i], hash, 4 \div Len(list))]))

BuildRing(list, w, hash) == Sorted(Pushed(list, w, hash))

\* Mutant: the search wants a hash above the target.
Halved_Above(ring, target, s) ==
  LET mid == (s.low + s.high) \div 2
  IN  IF s.low > s.high THEN s
      ELSE IF ring[mid].hash > target THEN [s EXCEPT !.high = mid - 1, !.result = mid]
      ELSE [s EXCEPT !.low = mid + 1]

\* One turn of the binary search for the first entry at or above the target.
Halved(ring, target, s) ==
  LET mid == (s.low + s.high) \div 2
  IN  IF s.low > s.high THEN s
      ELSE IF ring[mid].hash >= target THEN [s EXCEPT !.high = mid - 1, !.result = mid]
      ELSE [s EXCEPT !.low = mid + 1]

\* The range shrinks with every turn, so as many turns as entries are enough.
FindRingIndex(ring, target) ==
  LET search[k \in 0..Len(ring)] ==
        IF k = 0 THEN [low |-> 1, high |-> Len(ring), result |-> 1]
        ELSE Halved(ring, target, search[k - 1])
  IN  IF target > ring[Len(ring)].hash THEN 1 ELSE search[Len(ring)].result

OwnerIn(ring, key) == ring[FindRingIndex(ring, key)].backendId

-----------------------------------------------------------------------------
(* Requests.  selectBackend asks the current strategy; the router counts   *)
(* the connection.                                                         *)

Room == \A b \in Members : connections[b] < MaxConnections
Connect(b) == connections' = [connections EXCEPT ![b] = @ + 1]

RoundRobin(list) ==
  /\ algorithm = "round-robin" /\ Room
  /\ Connect(AtIndex(list, index))
  /\ index' = NextIndex(index, Len(list))
  /\ UNCHANGED <<algorithm, wrr, weight, history, changes>>

WeightedRoundRobin(list, trial) ==
  LET s == WrrSelect(VirtualPool(trial), list, wrr) IN
  /\ algorithm = "weighted-round-robin" /\ Room
  /\ s # Unselected
  /\ Connect(list[s.index + 1])
  /\ wrr' = s
  /\ UNCHANGED <<algorithm, index, weight, history, changes>>

LeastConnections(list, trial) ==
  /\ algorithm = "least-connections" /\ Room
  /\ Connect(LeastConnected(list, trial))
  /\ UNCHANGED <<algorithm, index, wrr, weight, history, changes>>

IpHash(list) ==
  /\ algorithm = "ip-hash" /\ Room
  /\ \E key \in Keys : Connect(AtIndex(list, key))
  /\ UNCHANGED <<algorithm, index, wrr, weight, history, changes>>

ConsistentHash(list) ==
  /\ algorithm = "consistent-hash" /\ Room
  /\ \E key \in Keys, hash \in Hashes : Connect(OwnerIn(BuildRing(list, weight, hash), key))
  /\ UNCHANGED <<algorithm, index, wrr, weight, history, changes>>

\* The response's finish or close event.
Release(b) ==
  /\ connections[b] > 0
  /\ connections' = [connections EXCEPT ![b] = @ - 1]
  /\ UNCHANGED <<algorithm, index, wrr, weight, history, changes>>

Recorded == MapThenSumSet(LAMBDA b : Len(history[b]), Members)

\* collectProxyResponse and collectProxyError: an attempt may report after
\* its client has left, so it needs no open connection.
RecordTransaction(b, t) ==
  /\ Recorded < MaxRecorded
  /\ history' = [history EXCEPT ![b] = RecordedIn(@, t)]
  /\ UNCHANGED <<algorithm, index, wrr, weight, connections, changes>>

\* A minute after the oldest transaction, every reader drops it first.
Age(b) ==
  /\ history[b] # << >>
  /\ history' = [history EXCEPT ![b] = Tail(@)]
  /\ UNCHANGED <<algorithm, index, wrr, weight, connections, changes>>

\* PUT /api/admin/algorithm: the factory keeps one instance per strategy.
SetAlgorithm(a) ==
  /\ algorithm' = a
  /\ UNCHANGED <<index, wrr, weight, connections, history, changes>>

\* PUT /api/admin/backends/:id/weight, any non-negative integer
SetWeight(b, w) ==
  /\ changes < MaxChanges
  /\ weight' = [weight EXCEPT ![b] = w]
  /\ changes' = changes + 1
  /\ UNCHANGED <<algorithm, index, wrr, connections, history>>

Next ==
  \/ \E list \in Candidates : RoundRobin(list) \/ IpHash(list) \/ ConsistentHash(list)
  \/ \E list \in Candidates : \E trial \in SUBSET ToSet(list) :
       WeightedRoundRobin(list, trial) \/ LeastConnections(list, trial)
  \/ \E b \in Members : Release(b) \/ Age(b)
  \/ \E b \in Members, t \in Outcomes : RecordTransaction(b, t)
  \/ \E a \in Algorithms : SetAlgorithm(a)
  \/ \E b \in Members, w \in Weights : SetWeight(b, w)

Spec == Init /\ [][Next]_vars

-----------------------------------------------------------------------------
(* Properties.                                                             *)

\* The strategies' counters stay in their ranges: the two indices below the
\* length of the pool, a level at most some weight there ever was (0 counts as
\* 1), and every score between 0 and 100.
TypeOK ==
  /\ algorithm \in Algorithms
  /\ index \in 0..(Len(Pool) - 1)
  /\ wrr.index \in -1..(Len(Pool) - 1)
  /\ \E x \in WeightsEver \cup {1} : wrr.weight \in 0..x
  /\ weight \in [Members -> WeightsEver] /\ connections \in [Members -> 0..MaxConnections]
  /\ \A b \in Members : Len(history[b]) <= HistoryLimit /\ Score(b, {}) \in 0..100
  /\ changes \in 0..MaxChanges

\* The `while (true)' of weightedRoundRobin.js ends, whatever level and index
\* an earlier pool, earlier weights or earlier scores have left behind: on any
\* list of candidates some backend is at or above the level within two passes
\* more than there are levels.
SelectionEnds ==
  \A list \in Candidates : \A w \in {VirtualPool(trial) : trial \in SUBSET ToSet(list)} :
    WrrSelect(w, list, wrr) # Unselected

\* Weighted round robin gives every candidate its share: from any place where
\* earlier calls have left the walk, as many picks as the weights add up to
\* (over their divisor) take each backend as often as its own weight says, with
\* the scores as they are or with the whole list on trial.
Proportional ==
  \A list \in Candidates : \A w \in {VirtualPool({}), VirtualPool(ToSet(list))} :
    LET g     == Max({d \in 1..w[Head(list)] : \A b \in ToSet(list) : w[b] % d = 0})
        total == MapThenSumSet(LAMBDA b : w[b], ToSet(list)) \div g
        walk  == FoldLeft(LAMBDA t, k : Append(t, WrrSelect(w, list, t[k])),
                          <<wrr>>, [k \in 1..total |-> k])
    IN  \A i \in DOMAIN list :
          Cardinality({k \in 2..(total + 1) : walk[k].index = i - 1}) = w[list[i]] \div g

\* Round robin takes every candidate once in as many picks as there are
\* candidates, although the index it starts from may be left over from a
\* longer list.
EvenRotation ==
  \A list \in Candidates :
    LET n == Len(list)
        at[k \in 1..n] == IF k = 1 THEN index ELSE NextIndex(at[k - 1], n)
    IN  {AtIndex(list, at[k]) : k \in 1..n} = ToSet(list)

\* The binary search finds the owner that consistent hashing is defined by:
\* the first virtual node clockwise from the key, from the top round to the
\* lowest.
OwnerClockwise ==
  \A list \in Candidates, hash \in Hashes :
    LET ring == BuildRing(list, weight, hash)
    IN  \A key \in Keys :
          LET ahead == {i \in DOMAIN ring : ring[i].hash >= key}
          IN  FindRingIndex(ring, key) = IF ahead = {} THEN 1 ELSE Min(ahead)

\* A backend that leaves the list, or comes back, moves only its own keys:
\* a key owned by another backend keeps its owner (consistentHash.js's reason
\* to exist, over the pool changes that exclusion and recovery make).
OnlyOwnKeysMove ==
  \A list \in Candidates, hash \in Hashes :
    LET ring == BuildRing(list, weight, hash) IN
    \A rest \in Candidates, b \in Members :
      b \notin ToSet(rest) /\ ToSet(list) = ToSet(rest) \cup {b} =>
        LET smaller == BuildRing(rest, weight, hash)
        IN  \A key \in Keys : OwnerIn(ring, key) \in {b, OwnerIn(smaller, key)}

\* With equal connections a backend whose every transaction failed scores
\* below one whose transactions all succeeded, however slow: the errors of a
\* fast-failing backend outweigh the most that latency can cost.
FailuresRankBelow ==
  \A bad, good \in Members :
    /\ history[bad] # << >> /\ Errors(history[bad]) = Len(history[bad])
    /\ Errors(history[good]) = 0 /\ connections[bad] = connections[good]
    => Score(bad, {}) < Score(good, {})
=============================================================================
