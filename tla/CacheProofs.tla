---------------------------- MODULE CacheProofs -----------------------------
(***************************************************************************)
(* PurgeComplete, HitFresh, Accounted and the types of Cache, for every    *)
(* TTL and wait, any number of requests, purges and lost links.            *)
(*                                                                         *)
(* The first two rest on the order of the commands that wait for Redis: a  *)
(* store behind a purge is of a response that ended after the purge began, *)
(* and a command is never older than the one before it.  The other two     *)
(* rest on Books, which counts the lookups in the queue.                   *)
(***************************************************************************)
EXTENDS Cache, FiniteSetTheorems, TLAPS

USE CacheAssumption, LinkAssumption

Commands == [kind : Kinds, id : Nat, at : Nat]
Records == [id : Nat, born : Nat, expires : Nat]
PurgeKinds == {"keys", "del", "flushdb"}

\* The queue at time t, with n entries written so far and those up to p
\* purged from Redis.
Ordered(q, t, n, p) ==
  /\ q \in Seq(Commands)
  /\ \A i \in 1..Len(q) : q[i].id <= n /\ q[i].at <= t
  /\ \A i \in 1..Len(q) : q[i].kind = "set" => q[i].id > p
  /\ \A i, j \in 1..Len(q) : i < j =>
       /\ q[i].at <= q[j].at
       /\ q[i].kind \in PurgeKinds /\ q[j].kind = "set" => q[i].id < q[j].id

\* The oldest command has not waited longer than MaxWait.
Punctual(q, t) == q # << >> => t - q[1].at <= MaxWait

Typed ==
  /\ clock \in Nat /\ stored \in Nat
  /\ store \in [Stores -> Records] /\ purged \in [Stores -> Nat]
  /\ \A s \in Stores : purged[s] <= stored

\* An entry expires in time: in memory TTL after the response ended, in Redis
\* TTL after a command that has not waited longer than MaxWait.
Timed ==
  /\ store["memory"] # Nothing => store["memory"].expires = store["memory"].born + TTL
  /\ store["redis"] # Nothing =>
       /\ clock < store["redis"].expires
       /\ store["redis"].expires <= store["redis"].born + MaxWait + TTL

IInv ==
  /\ Typed /\ Timed /\ PurgeComplete
  /\ Ordered(queue, clock, stored, purged["redis"])
  /\ Punctual(queue, clock)

-----------------------------------------------------------------------------
(* The queue.                                                              *)

LEMMA CommandTypes ==
  ASSUME NEW q \in Seq(Commands), NEW i \in 1..Len(q)
  PROVE  q[i] \in Commands /\ q[i].id \in Nat /\ q[i].at \in Nat
<1>1. q[i] \in Commands OBVIOUS
<1> QED BY <1>1 DEF Commands

LEMMA OrderedEmpty ==
  ASSUME NEW t, NEW n, NEW p
  PROVE  Ordered(<< >>, t, n, p) /\ Punctual(<< >>, t)
BY DEF Ordered, Punctual

\* Time and the number of entries may grow.
LEMMA OrderedLater ==
  ASSUME NEW t \in Nat, NEW u \in Nat, NEW n \in Nat, NEW m \in Nat, NEW p,
         t <= u, n <= m, NEW q, Ordered(q, t, n, p)
  PROVE  Ordered(q, u, m, p)
<1>1. \A i \in 1..Len(q) : q[i].id <= m /\ q[i].at <= u
  <2> TAKE i \in 1..Len(q)
  <2>1. q \in Seq(Commands) BY DEF Ordered
  <2>2. q[i].id \in Nat /\ q[i].at \in Nat BY <2>1, CommandTypes
  <2>3. q[i].id <= n /\ q[i].at <= t BY DEF Ordered
  <2> QED BY <2>2, <2>3
<1> QED BY <1>1 DEF Ordered

\* A command issued now goes behind all others; a store is a new entry's.
LEMMA OrderedAppend ==
  ASSUME NEW t \in Nat, NEW n \in Nat, NEW m \in Nat, NEW p \in Nat, n <= m, p <= n,
         NEW q, Ordered(q, t, n, p), Punctual(q, t),
         NEW c \in Commands, c.at = t, c.id <= m, c.kind = "set" => c.id > n
  PROVE  Ordered(Append(q, c), t, m, p) /\ Punctual(Append(q, c), t)
<1> DEFINE r == Append(q, c)
<1>1. q \in Seq(Commands) /\ Len(q) \in Nat BY DEF Ordered
<1>2. r \in Seq(Commands) /\ Len(r) = Len(q) + 1 BY <1>1
<1>3. \A i \in 1..Len(q) : r[i] = q[i] /\ q[i] \in Commands BY <1>1
<1>4. r[Len(q) + 1] = c BY <1>1
<1> HIDE DEF r
<1>5. Ordered(r, t, m, p)
  <2>1. \A i \in 1..Len(r) : i \in 1..Len(q) \/ i = Len(q) + 1 BY <1>1, <1>2
  <2>2. \A i \in 1..Len(q) : q[i].id \in Nat /\ q[i].at \in Nat BY <1>1, CommandTypes
  <2>3. c.id \in Nat BY DEF Commands
  <2>4. \A i \in 1..Len(r) : r[i].id <= m /\ r[i].at <= t
    <3> TAKE i \in 1..Len(r)
    <3>1. CASE i \in 1..Len(q)
      <4>1. r[i] = q[i] /\ q[i].id <= n /\ q[i].at <= t BY <3>1, <1>3 DEF Ordered
      <4> QED BY <3>1, <4>1, <2>2
    <3>2. CASE i = Len(q) + 1 BY <3>2, <1>4
    <3> QED BY <2>1, <3>1, <3>2
  <2>5. \A i \in 1..Len(r) : r[i].kind = "set" => r[i].id > p
    <3> TAKE i \in 1..Len(r)
    <3> HAVE r[i].kind = "set"
    <3>1. CASE i \in 1..Len(q)
      <4>1. r[i] = q[i] BY <3>1, <1>3
      <4> QED BY <3>1, <4>1 DEF Ordered
    <3>2. CASE i = Len(q) + 1
      <4>1. r[i] = c BY <3>2, <1>4
      <4>2. c.id > n BY <4>1
      <4> QED BY <4>1, <4>2, <2>3
    <3> QED BY <2>1, <3>1, <3>2
  <2>6. \A i, j \in 1..Len(r) : i < j =>
          /\ r[i].at <= r[j].at
          /\ r[i].kind \in PurgeKinds /\ r[j].kind = "set" => r[i].id < r[j].id
    <3> TAKE i, j \in 1..Len(r)
    <3> HAVE i < j
    <3>1. i \in 1..Len(q) /\ r[i] = q[i] BY <1>1, <1>2, <1>3
    <3>2. CASE j \in 1..Len(q) BY <3>1, <3>2, <1>3 DEF Ordered
    <3>3. CASE j = Len(q) + 1
      <4>1. r[j] = c BY <3>3, <1>4
      <4>2. q[i].at <= t /\ q[i].id <= n BY <3>1 DEF Ordered
      <4>3. q[i].at \in Nat /\ q[i].id \in Nat BY <3>1, <2>2
      <4>4. q[i].at <= c.at BY <4>2
      <4>5. c.kind = "set" => q[i].id < c.id BY <4>2, <4>3, <2>3, SMTT(20)
      <4> QED BY <3>1, <4>1, <4>4, <4>5
    <3> QED BY <2>1, <3>2, <3>3
  <2> QED BY <1>2, <2>4, <2>5, <2>6 DEF Ordered
<1>6. Punctual(r, t)
  <2>1. CASE q = << >>
    <3>1. r[1] = c BY <2>1, <1>4
    <3> QED BY <3>1 DEF Punctual
  <2>2. CASE q # << >>
    <3>1. 1 \in 1..Len(q) BY <2>2, <1>1
    <3> QED BY <2>2, <3>1, <1>3 DEF Punctual
  <2> QED BY <2>1, <2>2
<1> QED BY <1>5, <1>6 DEF r

\* When the oldest command leaves, the rest keeps its order; if that command
\* completes a purge, every store that still waits is newer.
LEMMA OrderedTail ==
  ASSUME NEW t \in Nat, NEW n \in Nat, NEW p \in Nat, NEW o \in Nat,
         NEW q, Ordered(q, t, n, o), Punctual(q, t), q # << >>,
         p = o \/ (p = q[1].id /\ q[1].kind \in PurgeKinds)
  PROVE  Ordered(Tail(q), t, n, p) /\ Punctual(Tail(q), t)
<1> DEFINE r == Tail(q)
<1>1. q \in Seq(Commands) /\ Len(q) \in Nat \ {0} BY DEF Ordered
<1>2. r \in Seq(Commands) /\ Len(r) = Len(q) - 1 BY <1>1
<1>3. \A i \in 1..Len(r) : r[i] = q[i + 1] /\ i + 1 \in 1..Len(q) BY <1>1, <1>2
<1>4. \A i \in 1..Len(q) : q[i] \in Commands BY <1>1
<1> HIDE DEF r
<1>5. Ordered(r, t, n, p)
  <2>1. \A i \in 1..Len(r) : r[i].id <= n /\ r[i].at <= t BY <1>3 DEF Ordered
  <2>2. \A i \in 1..Len(r) : r[i].kind = "set" => r[i].id > p
    <3> SUFFICES ASSUME NEW i \in 1..Len(r), q[i + 1].kind = "set" PROVE q[i + 1].id > p
      BY <1>3
    <3>1. i + 1 \in 1..Len(q) /\ 1 \in 1..Len(q) /\ 1 < i + 1 BY <1>1, <1>2, <1>3
    <3>2. q[i + 1].id > o BY <3>1 DEF Ordered
    <3>3. q[1].kind \in PurgeKinds => q[1].id < q[i + 1].id BY <3>1 DEF Ordered
    <3>4. q[1].id \in Nat /\ q[i + 1].id \in Nat BY <1>4, <3>1 DEF Commands
    <3> QED BY <3>2, <3>3, <3>4
  <2>3. \A i, j \in 1..Len(r) : i < j =>
          /\ r[i].at <= r[j].at
          /\ r[i].kind \in PurgeKinds /\ r[j].kind = "set" => r[i].id < r[j].id
    <3> TAKE i, j \in 1..Len(r)
    <3> HAVE i < j
    <3>1. i + 1 \in 1..Len(q) /\ j + 1 \in 1..Len(q) /\ i + 1 < j + 1 BY <1>3, <1>2, <1>1
    <3> QED BY <3>1, <1>3 DEF Ordered
  <2> QED BY <1>2, <2>1, <2>2, <2>3 DEF Ordered
<1>6. Punctual(r, t)
  <2> SUFFICES ASSUME r # << >> PROVE t - r[1].at <= MaxWait BY DEF Punctual
  <2>1. 1 \in 1..Len(r) BY <1>2
  <2>2. r[1] = q[2] /\ 2 \in 1..Len(q) /\ 1 \in 1..Len(q) BY <2>1, <1>3, <1>1, <1>2
  <2>3. q[1].at <= q[2].at BY <2>2 DEF Ordered
  <2>4. q[1].at \in Nat /\ q[2].at \in Nat BY <1>4, <2>2 DEF Commands
  <2>5. t - q[1].at <= MaxWait BY DEF Punctual
  <2> QED BY <2>2, <2>3, <2>4, <2>5
<1> QED BY <1>5, <1>6 DEF r

\* The oldest command's fields.
LEMMA HeadFacts ==
  ASSUME IInv, queue # << >>
  PROVE  /\ Head(queue) = queue[1] /\ queue[1] \in Commands
         /\ queue[1].at <= clock /\ clock - queue[1].at <= MaxWait /\ queue[1].id <= stored
         /\ queue[1].kind = "set" => queue[1].id > purged["redis"]
         /\ Tail(queue) # queue
<1>1. queue \in Seq(Commands) BY DEF IInv, Ordered
<1>2. 1 \in 1..Len(queue) /\ Len(Tail(queue)) = Len(queue) - 1 BY <1>1
<1>3. Head(queue) = queue[1] /\ queue[1] \in Commands BY <1>1, <1>2
<1>4. Tail(queue) # queue
  <2>1. Len(queue) \in Nat /\ Len(queue) # Len(queue) - 1 BY <1>1
  <2> QED BY <1>2, <2>1
<1>5. /\ queue[1].at <= clock /\ queue[1].id <= stored
      /\ queue[1].kind = "set" => queue[1].id > purged["redis"]
  BY <1>2 DEF IInv, Ordered
<1>6. clock - queue[1].at <= MaxWait BY DEF IInv, Punctual
<1> QED BY <1>3, <1>4, <1>5, <1>6

\* Every command that waits is in time, as the oldest is.
LEMMA WaitingFacts ==
  ASSUME IInv, NEW i \in DOMAIN queue
  PROVE  /\ queue[i] \in Commands /\ queue[i].at <= clock
         /\ clock - queue[i].at <= MaxWait /\ queue[i].id <= stored
         /\ queue[i].kind = "set" => queue[i].id > purged["redis"]
<1>1. queue \in Seq(Commands) BY DEF IInv, Ordered
<1>2. i \in 1..Len(queue) /\ 1 \in 1..Len(queue) /\ queue # << >> BY <1>1
<1>3. /\ queue[i].at <= clock /\ queue[i].id <= stored
      /\ queue[i].kind = "set" => queue[i].id > purged["redis"]
      /\ 1 < i => queue[1].at <= queue[i].at
  BY <1>2 DEF IInv, Ordered
<1>4. /\ queue[i] \in Commands /\ queue[i].at \in Nat /\ queue[1].at \in Nat
  BY <1>1, <1>2, CommandTypes
<1>5. queue[1].at <= queue[i].at BY <1>2, <1>3, <1>4
<1>6. clock - queue[1].at <= MaxWait /\ clock \in Nat BY <1>2 DEF IInv, Punctual, Typed
<1> QED BY <1>3, <1>4, <1>5, <1>6

-----------------------------------------------------------------------------
(* The steps.                                                              *)

LEMMA InitIInv == Init => IInv
<1> SUFFICES ASSUME Init PROVE IInv
  OBVIOUS
<1>1. Typed /\ Timed /\ PurgeComplete
  BY DEF Init, Typed, Timed, PurgeComplete, Nothing, Stores, Records
<1> QED BY <1>1, OrderedEmpty DEF Init, IInv

\* A lookup reads one store and at most drops an expired entry.
LEMMA RequestKeeps == ASSUME IInv, Request PROVE IInv'
<1> USE DEF Request
<1>1. CASE MemoryLookup
  <2>1. store' = store \/ store' = [store EXCEPT !["memory"] = Nothing]
    BY <1>1 DEF MemoryLookup
  <2> QED BY <1>1, <2>1
      DEF MemoryLookup, IInv, Typed, Timed, PurgeComplete, Nothing, Stores, Records, purging
<1>2. CASE RedisLookup
  <2>1. Command("get", 0) \in Commands /\ Command("get", 0).at = clock
        /\ Command("get", 0).id = 0 /\ Command("get", 0).kind = "get"
    BY DEF Command, Commands, Kinds, IInv, Typed
  <2>2. Ordered(queue', clock, stored, purged["redis"]) /\ Punctual(queue', clock)
    <3>1. /\ clock \in Nat /\ stored \in Nat /\ purged["redis"] \in Nat
          /\ purged["redis"] <= stored /\ stored <= stored /\ 0 <= stored
      BY DEF IInv, Typed, Stores
    <3>2. Ordered(queue, clock, stored, purged["redis"]) /\ Punctual(queue, clock) BY DEF IInv
    <3>3. queue' = Append(queue, Command("get", 0)) BY <1>2 DEF RedisLookup
    <3> QED BY <2>1, <3>1, <3>2, <3>3, OrderedAppend
  <2> QED BY <1>2, <2>2 DEF RedisLookup, IInv, Typed, Timed, PurgeComplete, purging
<1>3. CASE Bypass
  BY <1>3 DEF Bypass, IInv, Typed, Timed, PurgeComplete, purging
<1> QED BY <1>1, <1>2, <1>3

\* A response that ends is a new entry, newer than every purge.
LEMMA EndKeeps == ASSUME IInv, End PROVE IInv'
<1>1. CASE UNCHANGED <<store, queue, stored>>
  BY <1>1 DEF End, IInv, Typed, Timed, PurgeComplete, purging
<1>2. CASE stored' = stored + 1 /\ Store(stored + 1)
  <2>1. UNCHANGED <<clock, purged>> BY DEF End, purging
  <2>2. Command("set", stored + 1) \in Commands /\ Command("set", stored + 1).at = clock
        /\ Command("set", stored + 1).id = stored + 1
    BY DEF Command, Commands, Kinds, IInv, Typed
  <2>3. Ordered(queue', clock, stored + 1, purged["redis"]) /\ Punctual(queue', clock)
    <3>1. CASE queue' = Append(queue, Command("set", stored + 1))
      <4>1. stored \in Nat /\ clock \in Nat /\ purged["redis"] \in Nat /\ purged["redis"] <= stored
        BY DEF IInv, Typed, Stores
      <4>2. Ordered(queue, clock, stored, purged["redis"]) /\ Punctual(queue, clock)
        BY DEF IInv
      <4>3. stored + 1 \in Nat /\ stored <= stored + 1 BY <4>1
      <4>4. \A c \in Commands : (c.at = clock /\ c.id = stored + 1) =>
              /\ Ordered(Append(queue, c), clock, stored + 1, purged["redis"])
              /\ Punctual(Append(queue, c), clock)
        <5> TAKE c \in Commands
        <5> HAVE c.at = clock /\ c.id = stored + 1
        <5>1. c.id <= stored + 1 /\ c.id > stored BY <4>1
        <5> QED BY <4>1, <4>2, <4>3, <5>1, OrderedAppend
      <4> QED BY <3>1, <2>2, <4>4
    <3>2. CASE queue' = queue
      <4>1. clock \in Nat /\ stored \in Nat /\ stored + 1 \in Nat /\ clock <= clock
            /\ stored <= stored + 1
        BY DEF IInv, Typed
      <4>2. Ordered(queue, clock, stored, purged["redis"]) /\ Punctual(queue, clock)
        BY DEF IInv
      <4> QED BY <3>2, <4>1, <4>2, OrderedLater
    <3> QED BY <1>2, <3>1, <3>2 DEF Store
  <2>4. Typed' /\ Timed' /\ PurgeComplete'
    <3>1. CASE store' = store
      BY <3>1, <1>2, <2>1 DEF IInv, Typed, Timed, PurgeComplete
    <3>2. CASE store' = [store EXCEPT !["memory"] =
                           [id |-> stored + 1, born |-> clock, expires |-> clock + TTL]]
      BY <3>2, <1>2, <2>1 DEF IInv, Typed, Timed, PurgeComplete, Records, Stores
    <3> QED BY <1>2, <3>1, <3>2 DEF Store
  <2> QED BY <1>2, <2>1, <2>3, <2>4 DEF IInv
<1> QED BY <1>1, <1>2 DEF End

\* A purge of memory is done at once; one of Redis is behind the stores that
\* wait and before those to come.
LEMMA PurgeKeeps == ASSUME IInv, Purge PROVE IInv'
<1>1. UNCHANGED <<clock, stored>> BY DEF Purge
<1>2. CASE store' = [store EXCEPT !["memory"] = Nothing]
           /\ purged' = [purged EXCEPT !["memory"] = stored] /\ UNCHANGED queue
  BY <1>1, <1>2 DEF IInv, Typed, Timed, PurgeComplete, Nothing, Records, Stores
<1>3. ASSUME NEW kind \in {"keys", "flushdb"},
             queue' = Append(queue, Command(kind, stored)), UNCHANGED <<store, purged>>
      PROVE  IInv'
  <2>1. Command(kind, stored) \in Commands /\ Command(kind, stored).at = clock
        /\ Command(kind, stored).id = stored /\ Command(kind, stored).kind # "set"
    BY DEF Command, Commands, Kinds, IInv, Typed
  <2>2. Ordered(queue', clock, stored, purged["redis"]) /\ Punctual(queue', clock)
    BY <1>3, <2>1, OrderedAppend DEF IInv, Typed, Stores
  <2> QED BY <1>1, <1>3, <2>2 DEF IInv, Typed, Timed, PurgeComplete
<1> QED BY <1>2, <1>3 DEF Purge

\* What a command leaves in Redis is in time and newer than the last purge.
LEMMA ExecutedKeeps ==
  ASSUME IInv, NEW i \in DOMAIN queue,
         NEW new, new = [store EXCEPT !["redis"] = Executed(queue[i])]
  PROVE  /\ new \in [Stores -> Records]
         /\ new["memory"] = store["memory"] /\ new["redis"] = Executed(queue[i])
         /\ new["redis"] # Nothing =>
              /\ new["redis"].id > purged["redis"] /\ clock < new["redis"].expires
              /\ new["redis"].expires <= new["redis"].born + MaxWait + TTL
<1> DEFINE c == queue[i]
<1>1. /\ c \in Commands /\ clock - c.at <= MaxWait
      /\ c.kind = "set" => c.id > purged["redis"]
  BY WaitingFacts
<1>2. CASE c.kind = "set"
  <2>1. Executed(c) = [id |-> c.id, born |-> c.at, expires |-> clock + TTL]
    BY <1>2 DEF Executed, Entry
  <2>2. clock \in Nat /\ clock + TTL \in Nat /\ clock < clock + TTL BY DEF IInv, Typed
  <2>3. c.id \in Nat /\ c.at \in Nat BY <1>1 DEF Commands
  <2>4. Executed(c) \in Records BY <2>1, <2>2, <2>3 DEF Records
  <2>5. clock + TTL <= c.at + MaxWait + TTL BY <1>1, <2>2, <2>3
  <2>6. new["redis"] = Executed(c) /\ new["memory"] = store["memory"] /\ new \in [Stores -> Records]
    BY <1>1, <2>4 DEF IInv, Typed, Stores
  <2> QED BY <1>1, <1>2, <2>1, <2>2, <2>5, <2>6
<1>3. CASE c.kind \in {"del", "flushdb"}
  <2>1. Executed(c) = Nothing BY <1>3 DEF Executed
  <2> QED BY <1>1, <2>1 DEF IInv, Typed, Records, Stores, Nothing
<1>4. CASE c.kind \notin {"set", "del", "flushdb"}
  <2>1. Executed(c) = store["redis"] BY <1>4 DEF Executed
  <2> QED BY <1>1, <2>1 DEF IInv, Typed, Timed, PurgeComplete, Records, Stores
<1> QED BY <1>2, <1>3, <1>4

LEMMA AnswerKeeps == ASSUME IInv, Answer PROVE IInv'
<1> DEFINE c == queue[1]
<1>1. queue # << >> /\ UNCHANGED <<clock, stored>> BY DEF Answer
<1>2. Head(queue) = c /\ c \in Commands /\ c.id <= stored
  BY <1>1, HeadFacts
<1>3. /\ store' = [store EXCEPT !["redis"] = Executed(c)] /\ queue' = Continued(c)
      /\ purged' = IF Completes(c) /\ c.id > purged["redis"]
                   THEN [purged EXCEPT !["redis"] = c.id] ELSE purged
  BY <1>2 DEF Answer
<1>4. /\ purged' \in [Stores -> Nat] /\ purged'["memory"] = purged["memory"]
      /\ purged'["redis"] <= stored
  BY <1>2, <1>3 DEF IInv, Typed, Stores, Commands
<1>5. Completes(c) => c.kind \in PurgeKinds /\ Executed(c) = Nothing
  <2>1. CASE c.kind \in {"del", "flushdb"}
    BY <2>1 DEF Executed, PurgeKinds
  <2>2. CASE c.kind = "keys" /\ Continued(c) = Tail(queue)
    <3>1. queue \in Seq(Commands) BY DEF IInv, Ordered
    <3>2. Append(Tail(queue), Command("del", c.id)) # Tail(queue)
      <4>1. Tail(queue) \in Seq(Commands) BY <1>1, <3>1
      <4>2. Len(Append(Tail(queue), Command("del", c.id))) = Len(Tail(queue)) + 1 BY <4>1
      <4> QED BY <4>1, <4>2
    <3>3. ~Cached BY <2>2, <3>2 DEF Continued
    <3> QED BY <2>2, <3>3 DEF Executed, PurgeKinds, Cached
  <2> QED BY <2>1, <2>2 DEF Completes
<1>6. Ordered(queue', clock, stored, purged'["redis"]) /\ Punctual(queue', clock)
  <2>1. purged'["redis"] = purged["redis"] \/ (purged'["redis"] = c.id /\ c.kind \in PurgeKinds)
    BY <1>3, <1>5 DEF IInv, Typed, Stores
  <2>2. Ordered(Tail(queue), clock, stored, purged'["redis"]) /\ Punctual(Tail(queue), clock)
    <3>1. clock \in Nat /\ stored \in Nat /\ purged["redis"] \in Nat /\ purged'["redis"] \in Nat
      BY <1>4 DEF IInv, Typed, Stores
    <3>2. Ordered(queue, clock, stored, purged["redis"]) /\ Punctual(queue, clock)
      BY DEF IInv
    <3> QED BY <1>1, <2>1, <3>1, <3>2, OrderedTail
  <2>3. CASE queue' = Tail(queue)
    BY <2>2, <2>3
  <2>4. CASE queue' = Append(Tail(queue), Command("del", c.id))
    <3>1. Command("del", c.id) \in Commands /\ Command("del", c.id).at = clock
          /\ Command("del", c.id).id = c.id /\ Command("del", c.id).kind = "del"
      BY <1>2 DEF Command, Commands, Kinds, IInv, Typed
    <3>2. clock \in Nat /\ stored \in Nat /\ purged'["redis"] \in Nat /\ stored <= stored
      BY <1>4 DEF IInv, Typed, Stores
    <3> HIDE DEF c
    <3>3. "del" # "set" OBVIOUS
    <3> QED BY <2>2, <2>4, <3>1, <3>2, <3>3, <1>2, <1>4, OrderedAppend
  <2> QED BY <1>3, <2>3, <2>4 DEF Continued
<1>7. Typed' /\ Timed' /\ PurgeComplete'
  <2>1. /\ store' \in [Stores -> Records]
        /\ store'["memory"] = store["memory"] /\ store'["redis"] = Executed(c)
        /\ store'["redis"] # Nothing =>
             /\ store'["redis"].id > purged["redis"] /\ clock < store'["redis"].expires
             /\ store'["redis"].expires <= store'["redis"].born + MaxWait + TTL
    <3>1. 1 \in DOMAIN queue BY <1>1 DEF IInv, Ordered
    <3> QED BY <1>3, <3>1, ExecutedKeeps
  <2>2. store'["redis"] # Nothing => purged'["redis"] = purged["redis"]
    BY <2>1, <1>3, <1>5
  <2> QED BY <1>1, <1>4, <2>1, <2>2 DEF IInv, Typed, Timed, PurgeComplete, Stores
<1> QED BY <1>1, <1>6, <1>7 DEF IInv

\* Executed, and to be executed again.
LEMMA AnswerLostKeeps == ASSUME IInv, AnswerLost PROVE IInv'
<1>0. PICK i \in DOMAIN queue : store' = [store EXCEPT !["redis"] = Executed(queue[i])]
  BY DEF AnswerLost
<1>1. UNCHANGED <<clock, queue, stored, purged>>
  BY DEF AnswerLost, purging
<1>2. /\ store' \in [Stores -> Records] /\ store'["memory"] = store["memory"]
      /\ store'["redis"] # Nothing =>
           /\ store'["redis"].id > purged["redis"] /\ clock < store'["redis"].expires
           /\ store'["redis"].expires <= store'["redis"].born + MaxWait + TTL
  BY <1>0, ExecutedKeeps
<1> QED BY <1>1, <1>2 DEF IInv, Typed, Timed, PurgeComplete, Stores

LEMMA LinkStepKeeps == ASSUME IInv, LinkStep PROVE IInv'
<1>1. UNCHANGED <<clock, store, stored, purged>> /\ (queue' = queue \/ queue' = << >>)
  BY DEF LinkStep, purging
<1> QED BY <1>1, OrderedEmpty DEF IInv, Typed, Timed, PurgeComplete

LEMMA TickKeeps == ASSUME IInv, Tick PROVE IInv'
<1>1. /\ clock' = clock + 1 /\ UNCHANGED <<queue, stored, purged>>
      /\ queue # << >> => clock - Head(queue).at < MaxWait
      /\ store' = IF clock' >= store["redis"].expires
                  THEN [store EXCEPT !["redis"] = Nothing] ELSE store
  BY DEF Tick, purging
<1>2. Typed' /\ Timed' /\ PurgeComplete'
  BY <1>1, SMTT(20) DEF IInv, Typed, Timed, PurgeComplete, Nothing, Stores, Records
<1>3. Ordered(queue, clock + 1, stored, purged["redis"])
  <2>1. clock \in Nat /\ clock + 1 \in Nat /\ clock <= clock + 1 /\ stored \in Nat
        /\ stored <= stored
    BY DEF IInv, Typed
  <2> QED BY <2>1, OrderedLater DEF IInv
<1>4. Punctual(queue, clock + 1)
  <2>1. queue # << >> => Head(queue) = queue[1] /\ queue[1].at \in Nat
    BY HeadFacts DEF Commands
  <2>2. queue # << >> => (clock + 1) - queue[1].at <= MaxWait
    BY <1>1, <2>1 DEF IInv, Typed
  <2> QED BY <2>2 DEF Punctual
<1> QED BY <1>1, <1>2, <1>3, <1>4 DEF IInv

\* Every step preserves the invariant.
THEOREM StepIInv == IInv /\ [Next]_vars => IInv'
<1> SUFFICES ASSUME IInv, [Next]_vars PROVE IInv'
  OBVIOUS
<1>1. CASE Request BY <1>1, RequestKeeps
<1>2. CASE End BY <1>2, EndKeeps
<1>3. CASE Leave
  BY <1>3 DEF Leave, IInv, Typed, Timed, PurgeComplete, purging
<1>4. CASE Purge BY <1>4, PurgeKeeps
<1>5. CASE Answer BY <1>5, AnswerKeeps
<1>6. CASE AnswerLost BY <1>6, AnswerLostKeeps
<1>7. CASE LinkStep BY <1>7, LinkStepKeeps
<1>8. CASE Tick BY <1>8, TickKeeps
<1>9. CASE UNCHANGED vars
  BY <1>9 DEF vars, IInv, Typed, Timed, PurgeComplete, purging
<1> QED BY <1>1, <1>2, <1>3, <1>4, <1>5, <1>6, <1>7, <1>8, <1>9 DEF Next

-----------------------------------------------------------------------------

\* A purge by invalidatePattern or flushAll that has been carried out leaves
\* nothing older than itself in its store, and nothing older comes back.
THEOREM PurgesComplete == Spec => []PurgeComplete
<1>1. IInv => PurgeComplete BY DEF IInv
<1> QED BY <1>1, InitIInv, StepIInv, PTL DEF Spec

\* Only a lookup counts a hit, and what it reads is in time.
LEMMA HitsFresh ==
  ASSUME IInv, Next, hits' # hits
  PROVE  IF queue' = queue THEN clock - store["memory"].born <= TTL
         ELSE clock - store["redis"].born <= TTL + MaxWait
<1>1. CASE Request
  <2>1. Live(store["memory"]) /\ UNCHANGED queue
    BY <1>1 DEF Request, MemoryLookup, RedisLookup, Bypass
  <2> QED BY <2>1 DEF Live, IInv, Timed, Typed, Records, Stores
<1>2. CASE Answer
  <2>1. queue # << >> /\ Head(queue).kind = "get" /\ Cached
    BY <1>2 DEF Answer
  <2>2. queue' = Tail(queue)
    BY <1>2, <2>1 DEF Answer, Continued
  <2>3. queue' # queue BY <2>1, <2>2, HeadFacts
  <2>4. clock < store["redis"].expires /\ store["redis"].expires <= store["redis"].born + MaxWait + TTL
    BY <2>1 DEF Cached, IInv, Timed
  <2>5. clock \in Nat /\ store["redis"].expires \in Nat /\ store["redis"].born \in Nat
    BY DEF IInv, Typed, Records, Stores
  <2> QED BY <2>3, <2>4, <2>5
<1>3. CASE End \/ Leave \/ Purge \/ AnswerLost \/ LinkStep \/ Tick
  BY <1>3 DEF End, Leave, Purge, AnswerLost, LinkStep, Tick, stats
<1> QED BY <1>1, <1>2, <1>3 DEF Next

\* cacheService.get never serves an entry past the TTL, whichever store the
\* fallback flag points at and whatever happened to the link in between.
THEOREM HitsAreFresh == Spec => HitFresh
<1>1. IInv /\ [Next]_vars =>
        [hits' # hits =>
           IF queue' = queue THEN clock - store["memory"].born <= TTL
           ELSE clock - store["redis"].born <= TTL + MaxWait]_vars
  BY HitsFresh
<1> QED BY <1>1, InitIInv, StepIInv, PTL DEF Spec, HitFresh

-----------------------------------------------------------------------------
(* The link.                                                               *)

\* A link with other fields is a link.
LEMMA LinkStatusWith ==
  ASSUME NEW l \in Link, NEW x \in LinkStatus
  PROVE  [l EXCEPT !.status = x] \in Link
BY DEF Link

LEMMA LinkFlagWith ==
  ASSUME NEW l \in Link, NEW y \in BOOLEAN
  PROVE  [l EXCEPT !.useMemoryFallback = y] \in Link
BY DEF Link

LEMMA LinkBothWith ==
  ASSUME NEW l \in Link, NEW x \in LinkStatus, NEW y \in BOOLEAN
  PROVE  [l EXCEPT !.status = x, !.useMemoryFallback = y] \in Link
BY DEF Link

LEMMA LinkAttemptsWith ==
  ASSUME NEW l \in Link, NEW x \in LinkStatus, NEW a \in 0..MaxReconnects
  PROVE  [l EXCEPT !.status = x, !.attempts = a] \in Link
BY DEF Link

LEMMA LinkDropsWith ==
  ASSUME NEW l \in Link, NEW y \in BOOLEAN, NEW d \in 0..MaxDrops
  PROVE  [l EXCEPT !.useMemoryFallback = y, !.drops = d] \in Link
BY DEF Link

\* A closed link is redialled or given up.
LEMMA LinkClosed ==
  ASSUME NEW l \in Link
  PROVE  Closed(l) \in Link
<1>1. "end" \in LinkStatus /\ "reconnecting" \in LinkStatus BY DEF LinkStatus
<1>2. CASE l.attempts = MaxReconnects
  <2>1. [l EXCEPT !.status = "end", !.useMemoryFallback = TRUE] \in Link
    BY <1>1, LinkBothWith
  <2>2. Closed(l) = [l EXCEPT !.status = "end", !.useMemoryFallback = TRUE]
    BY <1>2 DEF Closed
  <2> QED BY <2>1, <2>2
<1>3. CASE l.attempts # MaxReconnects
  <2> DEFINE a == l.attempts + 1
  <2>1. a \in 0..MaxReconnects
    <3>1. l.attempts \in 0..MaxReconnects BY DEF Link
    <3> QED BY <1>3, <3>1
  <2>2. Closed(l) = [l EXCEPT !.status = "reconnecting", !.attempts = a]
    BY <1>3 DEF Closed
  <2> HIDE DEF a
  <2>3. [l EXCEPT !.status = "reconnecting", !.attempts = a] \in Link
    BY <1>1, <2>1, LinkAttemptsWith
  <2> QED BY <2>2, <2>3
<1> QED BY <1>2, <1>3

LEMMA LinkTypes ==
  ASSUME NEW l \in Link, NEW m,
         Opens(l, m) \/ Readies(l, m) \/ Redials(l, m) \/ Refuses(l, m) \/ Drops(l, m)
  PROVE  m \in Link
<1>1. CASE Opens(l, m)
  <2>1. "connect" \in LinkStatus BY DEF LinkStatus
  <2>2. [l EXCEPT !.status = "connect", !.useMemoryFallback = FALSE] \in Link
    BY <2>1, LinkBothWith
  <2>3. m = [l EXCEPT !.status = "connect", !.useMemoryFallback = FALSE]
    BY <1>1 DEF Opens
  <2> QED BY <2>2, <2>3
<1>2. CASE Readies(l, m)
  <2>1. "ready" \in LinkStatus /\ 0 \in 0..MaxReconnects BY DEF LinkStatus
  <2>2. [l EXCEPT !.status = "ready", !.attempts = 0] \in Link
    BY <2>1, LinkAttemptsWith
  <2>3. m = [l EXCEPT !.status = "ready", !.attempts = 0] BY <1>2 DEF Readies
  <2> QED BY <2>2, <2>3
<1>3. CASE Redials(l, m)
  <2>1. "connecting" \in LinkStatus BY DEF LinkStatus
  <2>2. [l EXCEPT !.status = "connecting"] \in Link BY <2>1, LinkStatusWith
  <2>3. m = [l EXCEPT !.status = "connecting"] BY <1>3 DEF Redials
  <2> QED BY <2>2, <2>3
<1>4. CASE Refuses(l, m)
  <2>1. [l EXCEPT !.useMemoryFallback = TRUE] \in Link BY LinkFlagWith
  <2>2. m = Closed([l EXCEPT !.useMemoryFallback = TRUE]) BY <1>4 DEF Refuses
  <2> QED BY <2>1, <2>2, LinkClosed
<1>5. CASE Drops(l, m)
  <2>1. PICK error \in BOOLEAN :
          m = Closed([l EXCEPT !.useMemoryFallback = @ \/ error, !.drops = @ + 1])
    BY <1>5 DEF Drops
  <2> DEFINE f == l.useMemoryFallback \/ error
             d == l.drops + 1
             k == [l EXCEPT !.useMemoryFallback = @ \/ error, !.drops = @ + 1]
  <2>2. d \in 0..MaxDrops
    <3>1. l.drops < MaxDrops BY <1>5 DEF Drops
    <3>2. l.drops \in 0..MaxDrops BY DEF Link
    <3> QED BY <3>1, <3>2
  <2>3. f \in BOOLEAN OBVIOUS
  <2>4. k = [l EXCEPT !.useMemoryFallback = f, !.drops = d] BY Zenon
  <2> HIDE DEF f, d
  <2>5. [l EXCEPT !.useMemoryFallback = f, !.drops = d] \in Link BY <2>2, <2>3, LinkDropsWith
  <2>6. k \in Link BY <2>4, <2>5
  <2> HIDE DEF k
  <2>7. m = Closed(k) BY <2>1 DEF k
  <2> QED BY <2>6, <2>7, LinkClosed
<1> QED BY <1>1, <1>2, <1>3, <1>4, <1>5


\* A link that closes, opens or is redialled is up for the queue, or has ended.
LEMMA LinkAlive ==
  ASSUME NEW l \in Link, NEW m,
         Opens(l, m) \/ Readies(l, m) \/ Redials(l, m) \/ Refuses(l, m) \/ Drops(l, m)
  PROVE  m.status # "none"
<1>1. \A k \in Link : Closed(k).status \in {"end", "reconnecting"}
  BY DEF Closed, Link
<1>2. CASE Opens(l, m) BY <1>2 DEF Opens, Link
<1>3. CASE Readies(l, m) BY <1>3 DEF Readies, Link
<1>4. CASE Redials(l, m) BY <1>4 DEF Redials, Link
<1>5. CASE Refuses(l, m)
  <2>1. m = Closed([l EXCEPT !.useMemoryFallback = TRUE]) BY <1>5 DEF Refuses
  <2> QED BY <2>1, <1>1, LinkFlagWith
<1>6. CASE Drops(l, m)
  <2>1. PICK error \in BOOLEAN :
          m = Closed([l EXCEPT !.useMemoryFallback = @ \/ error, !.drops = @ + 1])
    BY <1>6 DEF Drops
  <2> QED BY <2>1 DEF Closed, Link
<1> QED BY <1>2, <1>3, <1>4, <1>5, <1>6

-----------------------------------------------------------------------------
(* The lookups among the commands.                                         *)

Gets(q) == {i \in DOMAIN q : q[i].kind = "get"}
Lookups(q) == Cardinality(Gets(q))
One(condition) == IF condition THEN 1 ELSE 0

LEMMA LookupsFinite ==
  ASSUME NEW q \in Seq(Commands)
  PROVE  IsFiniteSet(Gets(q)) /\ Lookups(q) \in Nat
<1>1. Gets(q) \in SUBSET (1..Len(q)) /\ Len(q) \in Nat BY DEF Gets
<1>2. IsFiniteSet(1..Len(q)) BY <1>1, FS_Interval
<1>3. IsFiniteSet(Gets(q)) BY <1>1, <1>2, FS_Subset
<1> QED BY <1>3, FS_CardinalityType DEF Lookups

LEMMA LookupsEmpty == Lookups(<< >>) = 0
<1>1. Gets(<< >>) = {} BY DEF Gets
<1> QED BY <1>1, FS_EmptySet DEF Lookups

LEMMA LookupsAppend ==
  ASSUME NEW q \in Seq(Commands), NEW c \in Commands
  PROVE  Lookups(Append(q, c)) = Lookups(q) + One(c.kind = "get")
<1> DEFINE r == Append(q, c)
           n == Len(q) + 1
<1>1. Len(q) \in Nat /\ DOMAIN q = 1..Len(q) /\ DOMAIN r = 1..n OBVIOUS
<1>2. \A i \in 1..Len(q) : r[i] = q[i] OBVIOUS
<1>3. r[n] = c OBVIOUS
<1>4. n \notin Gets(q) BY <1>1 DEF Gets
<1>5. IsFiniteSet(Gets(q)) /\ Lookups(q) \in Nat BY LookupsFinite
<1> HIDE DEF r
<1>6. CASE c.kind = "get"
  <2>1. Gets(r) = Gets(q) \cup {n} BY <1>1, <1>2, <1>3, <1>6 DEF Gets
  <2>2. Cardinality(Gets(q) \cup {n}) = Cardinality(Gets(q)) + 1
    BY <1>4, <1>5, FS_AddElement
  <2> QED BY <1>6, <2>1, <2>2 DEF Lookups, One, r
<1>7. CASE c.kind # "get"
  <2>1. Gets(r) = Gets(q) BY <1>1, <1>2, <1>3, <1>7 DEF Gets
  <2> QED BY <1>5, <1>7, <2>1 DEF Lookups, One, r
<1> QED BY <1>6, <1>7

LEMMA LookupsOther ==
  ASSUME NEW q \in Seq(Commands), NEW c \in Commands, c.kind # "get"
  PROVE  Lookups(Append(q, c)) = Lookups(q)
BY LookupsAppend, LookupsFinite DEF One

LEMMA LookupsTail ==
  ASSUME NEW q \in Seq(Commands), q # << >>
  PROVE  Lookups(q) = Lookups(Tail(q)) + One(q[1].kind = "get")
<1> DEFINE r == Tail(q)
           f == [i \in Gets(r) |-> i + 1]
<1>1. Len(q) \in Nat \ {0} /\ DOMAIN q = 1..Len(q) /\ DOMAIN r = 1..(Len(q) - 1) OBVIOUS
<1>2. \A i \in 1..(Len(q) - 1) : r[i] = q[i + 1] OBVIOUS
<1>3. IsFiniteSet(Gets(q)) /\ Lookups(q) \in Nat BY LookupsFinite
<1>4. r \in Seq(Commands) OBVIOUS
<1>5. IsFiniteSet(Gets(r)) /\ Lookups(r) \in Nat BY <1>4, LookupsFinite
<1> HIDE DEF r
<1>6. f \in Bijection(Gets(r), Gets(q) \ {1})
  <2>1. \A i \in Gets(r) : i \in 1..(Len(q) - 1) /\ i + 1 \in Gets(q) \ {1}
    BY <1>1, <1>2 DEF Gets
  <2>2. \A j \in Gets(q) \ {1} : j \in Nat /\ j - 1 \in Gets(r)
    BY <1>1, <1>2 DEF Gets
  <2>3. f \in [Gets(r) -> Gets(q) \ {1}] BY <2>1
  <2>4. \A i, j \in Gets(r) : f[i] = f[j] => i = j BY <2>1
  <2>5. \A j \in Gets(q) \ {1} : \E i \in Gets(r) : f[i] = j
    <3> TAKE j \in Gets(q) \ {1}
    <3>1. j - 1 \in Gets(r) /\ f[j - 1] = j BY <2>2
    <3> QED BY <3>1
  <2> HIDE DEF f
  <2> QED BY <2>3, <2>4, <2>5 DEF Bijection, Injection, Surjection, IsInjective
<1>7. Cardinality(Gets(q) \ {1}) = Cardinality(Gets(r))
  BY <1>5, <1>6, FS_Bijection DEF ExistsBijection
<1>8. Cardinality(Gets(q) \ {1}) =
        IF 1 \in Gets(q) THEN Cardinality(Gets(q)) - 1 ELSE Cardinality(Gets(q))
  BY <1>3, FS_RemoveElement
<1>9. 1 \in Gets(q) <=> q[1].kind = "get" BY <1>1 DEF Gets
<1> QED BY <1>3, <1>5, <1>7, <1>8, <1>9 DEF Lookups, One, r

-----------------------------------------------------------------------------
(* The statistics, and the types.                                          *)

Linked == link \in Link /\ (queue # << >> => link.status \notin {"none", "end"})

\* A response is stored only after its miss is counted.
Counted ==
  /\ inflight \in Nat /\ arrived \in Nat /\ hits \in Nat /\ misses \in Nat
  /\ bypasses \in Nat /\ lost \in Nat
  /\ arrived = hits + misses + bypasses + lost + inflight + Lookups(queue)
  /\ stored <= misses /\ arrived <= MaxRequests

Bounded ==
  /\ clock <= MaxTime /\ purges \in 0..MaxPurges
  /\ \A s \in Stores : store[s].id <= stored /\ store[s].born <= clock
                       /\ store[s].expires <= clock + TTL

Books == Linked /\ Counted /\ Bounded

LEMMA InitBooks == Init => Books
<1> SUFFICES ASSUME Init PROVE Books
  OBVIOUS
<1>1. Linked
  <2>1. \A x \in LinkStatus, y \in BOOLEAN, a \in 0..MaxReconnects, d \in 0..MaxDrops :
          [status |-> x, useMemoryFallback |-> y, attempts |-> a, drops |-> d] \in Link
    BY DEF Link
  <2>2. "connecting" \in LinkStatus /\ "none" \in LinkStatus BY DEF LinkStatus
  <2>3. 0 \in 0..MaxReconnects /\ 0 \in 0..MaxDrops OBVIOUS
  <2>4. [status |-> "connecting", useMemoryFallback |-> FALSE, attempts |-> 0, drops |-> 0] \in Link
    BY <2>1, <2>2, <2>3, Zenon
  <2>5. [status |-> "none", useMemoryFallback |-> TRUE, attempts |-> 0, drops |-> 0] \in Link
    BY <2>1, <2>2, <2>3, Zenon
  <2>6. link \in Link BY <2>4, <2>5, Zenon DEF Init, InitLinks
  <2> QED BY <2>6 DEF Init, Linked
<1>2. Counted BY LookupsEmpty DEF Init, Counted
<1>3. Bounded BY DEF Init, Bounded, Nothing, Stores
<1> QED BY <1>1, <1>2, <1>3 DEF Books

LEMMA LookupsNow ==
  ASSUME IInv
  PROVE  /\ queue \in Seq(Commands) /\ Lookups(queue) \in Nat /\ MaxRequests \in Nat
         /\ stored \in Nat
BY LookupsFinite DEF IInv, Ordered, Typed

\* A command is sent only over a link that is ready.
LEMMA LinkedSend ==
  ASSUME Books, UNCHANGED link, queue' = queue \/ link.status = "ready"
  PROVE  Linked'
BY DEF Books, Linked

\* The stores change in what they promise only by an entry that is dropped or
\* made now.
LEMMA BoundedStep ==
  ASSUME IInv, Books, UNCHANGED <<clock, purges>>, stored' \in Nat, stored <= stored',
         \A s \in Stores :
           \/ store'[s] = store[s] \/ store'[s] = Nothing
           \/ /\ store'[s].id <= stored' /\ store'[s].born <= clock
              /\ store'[s].expires <= clock + TTL
  PROVE  Bounded'
<1>1. \A s \in Stores : store[s].id \in Nat /\ store[s].id <= stored
  BY DEF IInv, Typed, Records, Books, Bounded
<1>2. clock \in Nat /\ stored \in Nat /\ clock + TTL \in Nat BY DEF IInv, Typed
<1>3. \A s \in Stores : store'[s].id <= stored' /\ store'[s].born <= clock
                        /\ store'[s].expires <= clock + TTL
  <2> TAKE s \in Stores
  <2>1. CASE store'[s] = store[s] BY <2>1, <1>1, <1>2 DEF Books, Bounded
  <2>2. CASE store'[s] = Nothing BY <2>2, <1>2 DEF Nothing
  <2> QED BY <2>1, <2>2
<1> QED BY <1>3 DEF Books, Bounded

LEMMA RequestBooks == ASSUME IInv, Books, Request PROVE Books'
<1>0. /\ queue \in Seq(Commands) /\ Lookups(queue) \in Nat /\ MaxRequests \in Nat
      /\ stored \in Nat
  BY LookupsNow
<1>1. /\ arrived < MaxRequests /\ arrived' = arrived + 1
      /\ UNCHANGED <<clock, link, misses, lost, stored, purges>>
  BY DEF Request, purging
<1>2. CASE MemoryLookup
  <2>1. /\ UNCHANGED <<queue, bypasses>>
        /\ \/ hits' = hits + 1 /\ inflight' = inflight
           \/ hits' = hits /\ inflight' = inflight + 1
    BY <1>2 DEF MemoryLookup
  <2>2. Counted'
    <3>1. CASE hits' = hits + 1 /\ inflight' = inflight
      BY <1>1, <2>1, <3>1, <1>0 DEF Counted, Books
    <3>2. CASE hits' = hits /\ inflight' = inflight + 1
      BY <1>1, <2>1, <3>2, <1>0 DEF Counted, Books
    <3> QED BY <2>1, <3>1, <3>2
  <2>3. \A s \in Stores : store'[s] = store[s] \/ store'[s] = Nothing
    BY <1>2 DEF MemoryLookup, IInv, Typed
  <2>4. Bounded' BY <1>1, <2>3, BoundedStep DEF IInv, Typed
  <2> QED BY <1>1, <2>1, <2>2, <2>4, LinkedSend DEF Books
<1>3. CASE RedisLookup
  <2>1. /\ queue' = Append(queue, Command("get", 0)) /\ link.status = "ready"
        /\ UNCHANGED <<store, inflight, hits, bypasses>>
    BY <1>3 DEF RedisLookup
  <2>2. Command("get", 0) \in Commands /\ Command("get", 0).kind = "get"
    BY DEF Command, Commands, Kinds, IInv, Typed
  <2>3. Lookups(queue') = Lookups(queue) + 1
    BY <2>1, <2>2, <1>0, LookupsAppend DEF One
  <2>4. Counted' BY <1>1, <2>1, <2>3, <1>0 DEF Counted, Books
  <2>5. Bounded' BY <1>1, <2>1 DEF Books, Bounded
  <2> QED BY <1>1, <2>1, <2>4, <2>5, LinkedSend DEF Books
<1>4. CASE Bypass
  <2>1. bypasses' = bypasses + 1 /\ UNCHANGED <<queue, store, inflight, hits>>
    BY <1>4 DEF Bypass
  <2>2. Counted' BY <1>1, <2>1, <1>0 DEF Counted, Books
  <2>3. Bounded' BY <1>1, <2>1 DEF Books, Bounded
  <2> QED BY <1>1, <2>1, <2>2, <2>3, LinkedSend DEF Books
<1> QED BY <1>2, <1>3, <1>4 DEF Request

LEMMA EndBooks == ASSUME IInv, Books, End PROVE Books'
<1>0. /\ queue \in Seq(Commands) /\ Lookups(queue) \in Nat /\ MaxRequests \in Nat
      /\ stored \in Nat
  BY LookupsNow
<1>1. /\ inflight > 0 /\ inflight' = inflight - 1 /\ misses' = misses + 1
      /\ UNCHANGED <<clock, link, arrived, hits, bypasses, lost, purges>>
  BY DEF End, purging
<1>2. CASE UNCHANGED <<store, queue, stored>>
  <2>1. Counted' BY <1>1, <1>2, <1>0 DEF Counted, Books
  <2>2. Bounded' BY <1>1, <1>2 DEF Books, Bounded
  <2> QED BY <1>1, <1>2, <2>1, <2>2, LinkedSend DEF Books
<1>3. CASE stored' = stored + 1 /\ Store(stored + 1)
  <2>1. \/ queue' = queue
        \/ queue' = Append(queue, Command("set", stored + 1)) /\ link.status = "ready"
    BY <1>3 DEF Store
  <2>2. Command("set", stored + 1) \in Commands /\ Command("set", stored + 1).kind = "set"
    BY DEF Command, Commands, Kinds, IInv, Typed
  <2>3. Lookups(queue') = Lookups(queue)
    <3>1. CASE queue' = queue BY <3>1
    <3>2. CASE queue' = Append(queue, Command("set", stored + 1))
      BY <3>2, <2>2, <1>0, LookupsOther
    <3> QED BY <2>1, <3>1, <3>2
  <2>4. Counted' BY <1>1, <1>3, <2>3, <1>0 DEF Counted, Books
  <2>5. Bounded'
    <3>1. \A s \in Stores :
            \/ store'[s] = store[s]
            \/ /\ store'[s].id <= stored' /\ store'[s].born <= clock
               /\ store'[s].expires <= clock + TTL
      BY <1>3 DEF Store, IInv, Typed, Stores
    <3>2. stored' \in Nat /\ stored <= stored' /\ UNCHANGED <<clock, purges>>
      BY <1>1, <1>3 DEF IInv, Typed
    <3> QED BY <3>1, <3>2, BoundedStep
  <2> QED BY <1>1, <2>1, <2>4, <2>5, LinkedSend DEF Books
<1> QED BY <1>2, <1>3 DEF End

LEMMA PurgeBooks == ASSUME IInv, Books, Purge PROVE Books'
<1>0. /\ queue \in Seq(Commands) /\ Lookups(queue) \in Nat /\ MaxRequests \in Nat
      /\ stored \in Nat
  BY LookupsNow
<1>1. /\ purges < MaxPurges /\ purges' = purges + 1
      /\ UNCHANGED <<clock, link, inflight, arrived, hits, misses, bypasses, lost, stored>>
  BY DEF Purge, stats
<1>2. \/ queue' = queue
      \/ link.status = "ready" /\ \E kind \in {"keys", "flushdb"} :
                                    queue' = Append(queue, Command(kind, stored))
  BY DEF Purge
<1>3. Lookups(queue') = Lookups(queue)
  <2>1. CASE queue' = queue BY <2>1
  <2>2. ASSUME NEW kind \in {"keys", "flushdb"}, queue' = Append(queue, Command(kind, stored))
        PROVE  Lookups(queue') = Lookups(queue)
    <3>1. Command(kind, stored) \in Commands /\ Command(kind, stored).kind # "get"
      BY DEF Command, Commands, Kinds, IInv, Typed
    <3> QED BY <2>2, <3>1, <1>0, LookupsOther
  <2> QED BY <1>2, <2>1, <2>2
<1>4. Counted' BY <1>1, <1>3, <1>0 DEF Counted, Books
<1>5. Bounded'
  <2>1. \A s \in Stores : store'[s] = store[s] \/ store'[s] = Nothing
    BY DEF Purge, IInv, Typed, Stores
  <2>2. \A s \in Stores : store[s].id \in Nat BY DEF IInv, Typed, Records
  <2>3. purges' \in 0..MaxPurges BY <1>1 DEF Books, Bounded
  <2>4. clock \in Nat /\ stored \in Nat /\ 0 <= stored /\ 0 <= clock /\ 0 <= clock + TTL
    BY DEF IInv, Typed
  <2>5. \A s \in Stores : store'[s].id <= stored /\ store'[s].born <= clock
                          /\ store'[s].expires <= clock + TTL
    BY <2>1, <2>4 DEF Books, Bounded, Nothing
  <2> QED BY <1>1, <2>3, <2>5 DEF Books, Bounded
<1> QED BY <1>1, <1>2, <1>4, <1>5, LinkedSend DEF Books

\* What a command leaves in Redis is an entry written so far.
LEMMA ExecutedBounds ==
  ASSUME IInv, Books, NEW i \in DOMAIN queue,
         NEW new, new = [store EXCEPT !["redis"] = Executed(queue[i])]
  PROVE  \A s \in Stores :
           \/ new[s] = store[s] \/ new[s] = Nothing
           \/ /\ new[s].id <= stored /\ new[s].born <= clock
              /\ new[s].expires <= clock + TTL
<1>1. queue[i].at <= clock /\ queue[i].id <= stored
  BY WaitingFacts
<1>2. \/ Executed(queue[i]) = store["redis"] \/ Executed(queue[i]) = Nothing
      \/ Executed(queue[i]) = [id |-> queue[i].id, born |-> queue[i].at, expires |-> clock + TTL]
  BY DEF Executed, Entry
<1>3. clock + TTL <= clock + TTL BY DEF IInv, Typed
<1> QED BY <1>1, <1>2, <1>3 DEF IInv, Typed, Stores

LEMMA AnswerBooks == ASSUME IInv, Books, Answer PROVE Books'
<1> DEFINE c == queue[1]
<1>0. /\ queue \in Seq(Commands) /\ Lookups(queue) \in Nat /\ MaxRequests \in Nat
      /\ stored \in Nat
  BY LookupsNow
<1>1. /\ link.status = "ready" /\ queue # << >>
      /\ UNCHANGED <<clock, link, arrived, misses, bypasses, lost, stored, purges>>
      /\ store' = [store EXCEPT !["redis"] = Executed(Head(queue))]
  BY DEF Answer
<1>2. Head(queue) = c /\ c \in Commands BY <1>1, HeadFacts
<1>3. /\ queue' = Continued(c)
      /\ hits' = IF c.kind = "get" /\ Cached THEN hits + 1 ELSE hits
      /\ inflight' = IF c.kind = "get" /\ ~Cached THEN inflight + 1 ELSE inflight
  BY <1>2 DEF Answer
<1>4. Lookups(queue') = Lookups(Tail(queue))
  <2>1. Tail(queue) \in Seq(Commands) BY <1>0, <1>1
  <2>2. CASE queue' = Tail(queue) BY <2>2
  <2>3. CASE queue' = Append(Tail(queue), Command("del", c.id))
    <3>1. Command("del", c.id) \in Commands /\ Command("del", c.id).kind = "del"
      BY <1>2 DEF Command, Commands, Kinds, IInv, Typed
    <3>2. Command("del", c.id).kind # "get" BY <3>1
    <3>3. Lookups(Append(Tail(queue), Command("del", c.id))) = Lookups(Tail(queue))
      BY ONLY <2>1, <3>1, <3>2, LookupsOther
    <3> QED BY <2>3, <3>3
  <2> QED BY <1>3, <2>2, <2>3 DEF Continued
<1>5. /\ Lookups(Tail(queue)) \in Nat
      /\ Lookups(queue) = Lookups(Tail(queue)) + One(c.kind = "get")
  <2>1. Tail(queue) \in Seq(Commands) BY <1>0, <1>1
  <2> QED BY <2>1, <1>0, <1>1, LookupsTail, LookupsFinite
<1> HIDE DEF c
<1>6. Counted'
  <2>1. CASE c.kind = "get" /\ Cached
    <3>1. hits' = hits + 1 /\ inflight' = inflight BY <1>3, <2>1
    <3>2. Lookups(queue) = Lookups(queue') + 1 BY <1>4, <1>5, <2>1 DEF One
    <3> QED BY <1>0, <1>1, <1>4, <1>5, <3>1, <3>2 DEF Counted, Books
  <2>2. CASE c.kind = "get" /\ ~Cached
    <3>1. hits' = hits /\ inflight' = inflight + 1 BY <1>3, <2>2
    <3>2. Lookups(queue) = Lookups(queue') + 1 BY <1>4, <1>5, <2>2 DEF One
    <3> QED BY <1>0, <1>1, <1>4, <1>5, <3>1, <3>2 DEF Counted, Books
  <2>3. CASE c.kind # "get"
    <3>1. hits' = hits /\ inflight' = inflight BY <1>3, <2>3
    <3>2. Lookups(queue) = Lookups(queue') BY <1>4, <1>5, <2>3 DEF One
    <3> QED BY <1>0, <1>1, <1>4, <1>5, <3>1, <3>2 DEF Counted, Books
  <2> QED BY <2>1, <2>2, <2>3
<1>7. Bounded'
  <2>1. stored' \in Nat /\ stored <= stored' BY <1>1 DEF IInv, Typed
  <2>2. store' = [store EXCEPT !["redis"] = Executed(queue[1])] /\ 1 \in DOMAIN queue
    BY <1>0, <1>1, HeadFacts
  <2> QED BY <1>1, <2>1, <2>2, ExecutedBounds, BoundedStep
<1> QED BY <1>1, <1>6, <1>7, LinkedSend DEF Books

LEMMA AnswerLostBooks == ASSUME IInv, Books, AnswerLost PROVE Books'
<1>0. PICK i \in DOMAIN queue : store' = [store EXCEPT !["redis"] = Executed(queue[i])]
  BY DEF AnswerLost
<1>1. /\ Drops(link, link') /\ link'.status # "end"
      /\ UNCHANGED <<clock, queue, inflight, arrived, hits, misses, bypasses, lost, stored, purges>>
  BY DEF AnswerLost, stats, purging
<1>2. Linked'
  <2>1. link \in Link BY DEF Books, Linked
  <2>2. link' \in Link /\ link'.status # "none" BY <1>1, <2>1, LinkTypes, LinkAlive
  <2> QED BY <1>1, <2>2 DEF Linked
<1>3. Counted' BY <1>1 DEF Counted, Books
<1>4. Bounded'
  <2>1. stored' \in Nat /\ stored <= stored' BY <1>1 DEF IInv, Typed
  <2> QED BY <1>0, <1>1, <2>1, ExecutedBounds, BoundedStep
<1> QED BY <1>2, <1>3, <1>4 DEF Books

\* A link that ends fails every lookup that waits, and each goes on as a miss.
LEMMA LinkStepBooks == ASSUME IInv, Books, LinkStep PROVE Books'
<1>0. /\ queue \in Seq(Commands) /\ Lookups(queue) \in Nat /\ MaxRequests \in Nat
      /\ stored \in Nat
  BY LookupsNow
<1>1. /\ UNCHANGED <<clock, store, arrived, hits, misses, bypasses, lost, stored, purges>>
      /\ \/ link'.status = "end" /\ queue' = << >> /\ inflight' = inflight + Failed
         \/ link'.status # "end" /\ UNCHANGED <<queue, inflight>>
  BY DEF LinkStep, stats, purging
<1>2. Failed = Lookups(queue) BY DEF Failed, Lookups, Gets
<1>3. link \in Link BY DEF Books, Linked
<1>4. link' \in Link /\ link'.status # "none"
  BY <1>3, LinkTypes, LinkAlive DEF LinkStep
<1>5. Linked' BY <1>1, <1>4 DEF Linked
<1>6. Counted'
  <2>1. CASE queue' = << >> /\ inflight' = inflight + Lookups(queue)
    <3>1. Lookups(queue') = 0 BY <2>1, LookupsEmpty
    <3> QED BY <1>0, <1>1, <2>1, <3>1 DEF Counted, Books
  <2>2. CASE UNCHANGED <<queue, inflight>>
    BY <1>1, <2>2 DEF Counted, Books
  <2> QED BY <1>1, <1>2, <2>1, <2>2
<1>7. Bounded' BY <1>1 DEF Books, Bounded
<1> QED BY <1>5, <1>6, <1>7 DEF Books

LEMMA TickBooks == ASSUME IInv, Books, Tick PROVE Books'
<1>1. /\ clock < MaxTime /\ clock' = clock + 1
      /\ UNCHANGED <<link, queue, inflight, arrived, hits, misses, bypasses, lost, stored, purges>>
      /\ \A s \in Stores : store'[s] = store[s] \/ store'[s] = Nothing
  BY DEF Tick, stats, purging, IInv, Typed, Stores
<1>2. Linked' /\ Counted' BY <1>1 DEF Books, Linked, Counted
<1>3. Bounded'
  <2>1. clock \in Nat /\ stored \in Nat BY DEF IInv, Typed
  <2>2. clock + 1 <= MaxTime
    <3>1. MaxTime \in Nat OBVIOUS
    <3> QED BY <1>1, <2>1, <3>1
  <2>3. \A s \in Stores : store'[s].id <= stored /\ store'[s].born <= clock + 1
                          /\ store'[s].expires <= (clock + 1) + TTL
    <3> TAKE s \in Stores
    <3>1. CASE store'[s] = store[s]
      <4>1. store[s] \in Records BY DEF IInv, Typed
      <4>2. store[s].born \in Nat /\ store[s].expires \in Nat BY <4>1 DEF Records
      <4>3. /\ store[s].id <= stored /\ store[s].born <= clock
            /\ store[s].expires <= clock + TTL
        BY DEF Books, Bounded
      <4> QED BY <2>1, <3>1, <4>2, <4>3
    <3>2. CASE store'[s] = Nothing BY <2>1, <3>2 DEF Nothing
    <3> QED BY <1>1, <3>1, <3>2
  <2> QED BY <1>1, <2>2, <2>3 DEF Books, Bounded
<1> QED BY <1>2, <1>3 DEF Books

LEMMA StepBooks == IInv /\ Books /\ [Next]_vars => Books'
<1> SUFFICES ASSUME IInv, Books, [Next]_vars PROVE Books'
  OBVIOUS
<1>0. /\ queue \in Seq(Commands) /\ Lookups(queue) \in Nat /\ MaxRequests \in Nat
      /\ stored \in Nat
  BY LookupsNow
<1>1. CASE Request BY <1>1, RequestBooks
<1>2. CASE End BY <1>2, EndBooks
<1>3. CASE Leave
  <2>1. /\ inflight > 0 /\ inflight' = inflight - 1 /\ lost' = lost + 1
        /\ UNCHANGED <<clock, link, queue, store, arrived, hits, misses, bypasses, stored, purges>>
    BY <1>3 DEF Leave, purging
  <2>2. Counted' BY <1>0, <2>1 DEF Counted, Books
  <2>3. Linked' /\ Bounded' BY <2>1 DEF Books, Linked, Bounded
  <2> QED BY <2>2, <2>3 DEF Books
<1>4. CASE Purge BY <1>4, PurgeBooks
<1>5. CASE Answer BY <1>5, AnswerBooks
<1>6. CASE AnswerLost BY <1>6, AnswerLostBooks
<1>7. CASE LinkStep BY <1>7, LinkStepBooks
<1>8. CASE Tick BY <1>8, TickBooks
<1>9. CASE UNCHANGED vars
  BY <1>9 DEF vars, Books, Linked, Counted, Bounded
<1> QED BY <1>1, <1>2, <1>3, <1>4, <1>5, <1>6, <1>7, <1>8, <1>9 DEF Next

\* The middleware counts every request once: as a hit or a bypass when it
\* ends there, as a miss when its response ends; one that still waits for
\* Redis is neither lost nor counted twice when the link fails under it.
THEOREM RequestsAccounted == Spec => []Accounted
<1>1. Books => Accounted BY DEF Books, Counted, Accounted, Lookups, Gets
<1> QED BY <1>1, InitIInv, StepIInv, InitBooks, StepBooks, PTL DEF Spec

LEMMA BooksTypes == IInv /\ Books => TypeOK
<1> SUFFICES ASSUME IInv, Books PROVE TypeOK
  OBVIOUS
<1>0. /\ queue \in Seq(Commands) /\ Lookups(queue) \in Nat /\ MaxRequests \in Nat
      /\ stored \in Nat
  BY LookupsNow
<1>1. clock \in 0..MaxTime /\ purges \in 0..MaxPurges /\ link \in Link
      /\ (queue # << >> => link.status \notin {"none", "end"})
  BY DEF IInv, Typed, Books, Bounded, Linked
<1>2. /\ inflight \in 0..MaxRequests /\ arrived \in 0..MaxRequests /\ hits \in 0..MaxRequests
      /\ misses \in 0..MaxRequests /\ bypasses \in 0..MaxRequests /\ lost \in 0..MaxRequests
      /\ stored \in 0..MaxRequests
  <2>1. MaxRequests \in Nat OBVIOUS
  <2> QED BY <1>0, <2>1 DEF Counted, Books
<1>3. store \in [Stores -> Entries]
  <2>1. \A s \in Stores : store[s] \in Entries
    <3> TAKE s \in Stores
    <3>1. store[s] \in Records BY DEF IInv, Typed
    <3>2. /\ store[s].id \in Nat /\ store[s].born \in Nat /\ store[s].expires \in Nat
          /\ store[s] = [id |-> store[s].id, born |-> store[s].born, expires |-> store[s].expires]
      BY <3>1 DEF Records
    <3>3. /\ store[s].id <= stored /\ store[s].born <= clock
          /\ store[s].expires <= clock + TTL
      BY DEF Books, Bounded
    <3>4. /\ store[s].id \in 0..MaxRequests /\ store[s].born \in 0..MaxTime
          /\ store[s].expires \in 0..(MaxTime + TTL)
      <4>1. MaxRequests \in Nat /\ MaxTime \in Nat OBVIOUS
      <4> QED BY <1>1, <1>2, <3>2, <3>3, <4>1
    <3> QED BY <3>2, <3>4 DEF Entries
  <2> QED BY <2>1 DEF IInv, Typed
<1>4. purged \in [Stores -> 0..MaxRequests]
  <2>1. \A s \in Stores : purged[s] \in 0..MaxRequests
    BY <1>2 DEF IInv, Typed
  <2> QED BY <2>1 DEF IInv, Typed
<1>5. \A i \in DOMAIN queue : queue[i] \in [kind : Kinds, id : 0..MaxRequests, at : 0..clock]
  <2> TAKE i \in DOMAIN queue
  <2>1. i \in 1..Len(queue) BY <1>0
  <2>2. queue[i] \in Commands BY <1>0, <2>1
  <2>3. queue[i].id <= stored /\ queue[i].at <= clock BY <2>1 DEF IInv, Ordered
  <2>4. queue[i].id \in 0..MaxRequests /\ queue[i].at \in 0..clock
    BY <1>1, <1>2, <2>2, <2>3 DEF Commands
  <2> QED BY <2>2, <2>4 DEF Commands
<1> QED BY <1>1, <1>2, <1>3, <1>4, <1>5 DEF TypeOK

\* The statistics stay within the requests that arrived, and a command never
\* waits for a client that cacheService.js has given up or never made.
THEOREM TypeCorrect == Spec => []TypeOK
<1> QED BY InitIInv, StepIInv, InitBooks, StepBooks, BooksTypes, PTL DEF Spec
=============================================================================
