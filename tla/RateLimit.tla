------------------------------- MODULE RateLimit -------------------------------
(***************************************************************************)
(* The fixed-window limiter on Redis (src/src/rate-limit/): the ceiling of *)
(* an authenticated principal (rate-limit.guard.ts) and the two of the     *)
(* Slack endpoint, per address and then global                             *)
(* (slack-rate-limit.middleware.ts).                                       *)
(*                                                                         *)
(* A check reads the clock, and its INCR and EXPIRE reach Redis together   *)
(* some time later, or fail: then the request is allowed.  The clock       *)
(* counts Units to the second, so that seconds are rounded as in the code. *)
(***************************************************************************)
EXTENDS Integers, FiniteSetsExt

CONSTANTS
  Callers,         \* requests at a time
  Principals,      \* principalRef, with its tenant, of the authenticated
  Addresses,       \* clientIp of Slack's requests
  Global,          \* the global Slack counter
  Limit,           \* the ceiling of each counter
  WindowSeconds,   \* overAMinute, scaled down
  Units,           \* clock units in a second
  Timeout,         \* COMMAND_TIMEOUT_MS, in units
  LastUnit,        \* bound: the clock stops here
  MaxCalls         \* bound: requests in a run

Keys     == Principals \cup Addresses \cup {Global}
Window   == WindowSeconds * Units
Buckets  == {s \in 0 .. LastUnit : s % WindowSeconds = 0 /\ s * Units <= LastUnit}

ASSUME RateLimitAssumption ==
  /\ Principals \cap Addresses = {} /\ Global \notin Principals \cup Addresses
  /\ IsFiniteSet(Callers) /\ IsFiniteSet(Addresses)
  /\ \A k \in Keys : Limit[k] \in Nat
  /\ WindowSeconds \in Nat \ {0} /\ Units \in Nat \ {0} /\ Timeout \in Nat /\ Timeout < Window
  /\ LastUnit \in Nat

VARIABLES
  now,       \* the clock
  counter,   \* Redis: by key and bucket, the count and when the key expires
  call,      \* a request: the counter it is checked against and its `nowMs`
  calls,     \* how many requests there were
  passed,    \* history: the requests each counter and bucket let through
  blind,     \* history: the counters a hit failed or came late to
  retryAt    \* history: the last denial, when it was asked and when the client may come back

limiter == <<now, counter, call, calls, passed, blind, retryAt>>

Resting == [pc |-> "idle", key |-> Global, at |-> 0]

RateLimitInit ==
  /\ now = 0
  /\ counter = [k \in Keys |-> [b \in Buckets |-> [count |-> 0, expires |-> 0]]]
  /\ call = [c \in Callers |-> Resting]
  /\ calls = 0
  /\ passed = [k \in Keys |-> [b \in Buckets |-> 0]]
  /\ blind = {}
  /\ retryAt = <<>>

(* Time passes; a command that is not answered in time has failed by then. *)
Pass ==
  /\ now < LastUnit
  /\ \A c \in Callers : call[c].pc # "idle" => now - call[c].at < Timeout
  /\ now' = now + 1
  /\ UNCHANGED <<counter, call, calls, passed, blind, retryAt>>

------------------------------------------------------------------------------
windowBucket(at) == (at \div Window) * WindowSeconds

(* To the end of the window, rounded up and never zero. *)
retryAfterSeconds(at) ==
  LET left == (windowBucket(at) + WindowSeconds) * Units - at IN
  IF left <= Units THEN 1 ELSE (left + Units - 1) \div Units

(* The guard or the middleware asks: `nowMs` is read here. *)
Ask(c, k) ==
  /\ call[c].pc = "idle"
  /\ calls < MaxCalls
  /\ calls' = calls + 1
  /\ k \in Principals \cup Addresses
  /\ call' = [call EXCEPT ![c] = [pc |-> "hit", key |-> k, at |-> now]]
  /\ UNCHANGED <<now, counter, passed, blind, retryAt>>

(* Fault: the request past the limit is let through. *)
denied_Late(k, count) == count > Limit[k] + 1

(* decide, of a count Redis answered. *)
denied(k, count) == count > Limit[k]

(* The middleware goes on to the global counter: `refuse` throws. *)
Charged(k, refused) == k \in Addresses /\ ~refused

(* The request is through with this counter. *)
Answered(c, refused) ==
  call' = [call EXCEPT ![c] = IF Charged(call[c].key, refused)
                              THEN [pc |-> "hit", key |-> Global, at |-> now] ELSE Resting]

(* MULTI INCR EXPIRE: a key that expired counts from one again. *)
Hit(c) ==
  LET k     == call[c].key
      b     == windowBucket(call[c].at)
      alive == now < counter[k][b].expires
      count == IF alive THEN counter[k][b].count + 1 ELSE 1
      no    == denied(k, count) IN
  /\ call[c].pc = "hit"
  /\ counter' = [counter EXCEPT ![k][b] = [count |-> count, expires |-> now + Window]]
  /\ passed' = IF no THEN passed ELSE [passed EXCEPT ![k][b] = @ + 1]
  /\ retryAt' = IF no THEN <<call[c].at, call[c].at + Units * retryAfterSeconds(call[c].at)>> ELSE retryAt
  /\ blind' = IF windowBucket(now) # b THEN blind \cup {<<k, b>>} ELSE blind
  /\ Answered(c, no)
  /\ UNCHANGED <<now, calls>>

(* Redis does not answer, before or after it counted: allowed. *)
FailOpen(c, counted) ==
  LET k == call[c].key
      b == windowBucket(call[c].at)
      n == IF now < counter[k][b].expires THEN counter[k][b].count + 1 ELSE 1 IN
  /\ call[c].pc = "hit"
  /\ counter' = IF counted THEN [counter EXCEPT ![k][b] = [count |-> n, expires |-> now + Window]] ELSE counter
  /\ passed' = [passed EXCEPT ![k][b] = @ + 1]
  /\ blind' = blind \cup {<<k, b>>}
  /\ Answered(c, FALSE)
  /\ UNCHANGED <<now, calls, retryAt>>

Limiter ==
  \/ Pass
  \/ \E c \in Callers :
       \/ \E k \in Keys : Ask(c, k)
       \/ Hit(c)
       \/ \E counted \in BOOLEAN : FailOpen(c, counted)

------------------------------------------------------------------------------
(* However the requests interleave, a counter lets through its ceiling in  *)
(* a window and no more, unless Redis failed to answer one of them or one  *)
(* reached Redis after its window had ended, when the key may be gone      *)
(* (check, hit, decide).  One address cannot exhaust the global backstop:  *)
(* the global counter never counts a request that its address's ceiling    *)
(* refused, in whichever window each falls (SlackRateLimitMiddleware.use); *)
(* and a client that waits as long as it is told is past the window it was *)
(* denied in, after no more than a window (decide).                        *)
CeilingHolds ==
  /\ \A k \in Keys, b \in Buckets : <<k, b>> \notin blind => passed[k][b] <= Limit[k]
  /\ SumFunction([b \in Buckets |-> counter[Global][b].count]) <= SumFunction([k \in Addresses |-> SumFunction(passed[k])])
  /\ retryAt # <<>> => /\ windowBucket(retryAt[2]) > windowBucket(retryAt[1])
                       /\ retryAt[2] - retryAt[1] <= Window
==============================================================================
