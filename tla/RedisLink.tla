----------------------------- MODULE RedisLink -----------------------------
(***************************************************************************)
(* The gateway's connection to Redis and the flag that turns the memory    *)
(* fallback on.  cacheService.js owns both; the cache and the rate limiter *)
(* read them before every use of Redis.                                    *)
(*                                                                         *)
(* The statuses and their order are those of the ioredis client, a library *)
(* outside the repository: a link that closes is redialled until           *)
(* retryStrategy gives up, commands that were sent but not answered are    *)
(* sent again once the link is ready, and all of them fail when it ends.   *)
(* What the repository adds is the three handlers that write the flag.     *)
(***************************************************************************)
EXTENDS Integers, Sequences

CONSTANTS
  MaxReconnects,      \* attempts before retryStrategy gives up (3)
  MaxDrops            \* bound: established links that are lost

ASSUME LinkAssumption == MaxReconnects \in Nat /\ MaxDrops \in Nat

\* "none" is the configuration without Redis: no client at all.
LinkStatus == {"none", "connecting", "connect", "ready", "reconnecting", "end"}

Link == [status : LinkStatus, useMemoryFallback : BOOLEAN,
         attempts : 0..MaxReconnects, drops : 0..MaxDrops]

\* The constructor: connect() with Redis, or configured offline.
InitLinks ==
  {[status |-> "connecting", useMemoryFallback |-> FALSE, attempts |-> 0, drops |-> 0],
   [status |-> "none", useMemoryFallback |-> TRUE, attempts |-> 0, drops |-> 0]}

IsActive(l) == l.useMemoryFallback \/ l.status = "ready"

\* Mutant: it never gives up.
Closed_Never(l) ==
  [l EXCEPT !.status = "reconnecting",
            !.attempts = IF @ < MaxReconnects THEN @ + 1 ELSE @]

\* The close event: retryStrategy(attempts + 1), which gives up after the
\* last attempt and turns the fallback on.
Closed(l) ==
  IF l.attempts = MaxReconnects
  THEN [l EXCEPT !.status = "end", !.useMemoryFallback = TRUE]
  ELSE [l EXCEPT !.status = "reconnecting", !.attempts = @ + 1]

\* The connect event turns the fallback off before the link is ready.
Opens(l, m) ==
  /\ l.status = "connecting"
  /\ m = [l EXCEPT !.status = "connect", !.useMemoryFallback = FALSE]

Readies(l, m) ==
  /\ l.status = "connect"
  /\ m = [l EXCEPT !.status = "ready", !.attempts = 0]

\* An attempt fails: an error event and a close.
Refuses(l, m) ==
  /\ l.status = "connecting"
  /\ m = Closed([l EXCEPT !.useMemoryFallback = TRUE])

\* Redis goes away: with an error event or, on an orderly close, without.
Drops(l, m) ==
  /\ l.status \in {"connect", "ready"} /\ l.drops < MaxDrops
  /\ \E error \in BOOLEAN :
       m = Closed([l EXCEPT !.useMemoryFallback = @ \/ error, !.drops = @ + 1])

Redials(l, m) ==
  /\ l.status = "reconnecting"
  /\ m = [l EXCEPT !.status = "connecting"]
=============================================================================
