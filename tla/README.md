# Nivara API: specifications and proofs

Nivara is a multi-tenant support desk: a NestJS API over Postgres (row-level
security, triggers, partial unique indexes, READ COMMITTED) with Redis for cache
and rate limits, an in-process scheduler, a WebSocket gateway and a Slack channel.
This directory holds TLA+ models of the parts in which order matters, the TLC
configurations that check them on small instances, and TLAPS proofs of the facts
the rest leans on.

Paths below are relative to the repository's root; `src/src` is the application,
`src/prisma/migrations` the SQL that carries much of its logic.

## 1. The system and its parts

| Part | What it does | State | Concurrency |
|---|---|---|---|
| Job queue, drainer | leases due rows (`FOR UPDATE SKIP LOCKED`), runs handlers, settles | `job` | ticks overlap within and between processes; crashes |
| Tickets | state machine, chains of closed Tickets and their spawns | `ticket` and its trigger and partial unique indexes | requests, sweeps |
| Conversation | Contact replies: append, reopen, spawn or join; Slack ingestion | `message`, `ticket` | replies race with staff, sweeps and each other |
| Dwell and breach sweeps | settle silent Tickets; latch and announce SLA breaches | `ticket` | sweeps overlap, stop half-way |
| Realtime | numbers events per room, buffers, replays after a cursor | memory only | clients come and go; restarts |
| Idempotency | one effect per key and window | `idempotency_record` | retries, expiry, crashes |
| Slack inbound | verify, claim the event id, queue, answer | idempotency record, `job` | redeliveries |
| Outbound, Slack delivery | post a message to a thread, record, give up | `outbound_delivery`, `job`, `audit_log` | lapsed leases, retries |
| Sessions | refresh-token families with rotation | `refresh_token` | concurrent refresh and sign-out |
| Membership | invitations, sign-in by password and by Google | `staff_invitation`, `user` | two acceptances, two first sign-ins at once |
| Service tokens, widget sessions | machine credentials; anonymous sessions, Contact on first need | `service_token`, `widget_session`, `contact` | revocation and renewal against requests; two first requests at once |
| Guards, permissions, routes | who a credential is and which handler it may reach | none | a row read by the guard, used by the handler |
| Tenant context | arms tenant and actor on a pooled connection; the policies read them | connection settings, `audit_log` | transactions follow each other on a connection |
| Ticker, readiness | arms ticks, wakes, reports stalls | memory only | wake against tick |
| Cache, rate limit | read-through cache, fixed window | Redis | loads against busts, late and failed commands |
| Lists, analytics | keyset pages, reports of two statements | the tables they read | writes between pages and statements |
| Demo seed | writes Tickets with a past, replays their clocks | `ticket` | a scheduler that sweeps meanwhile |

They meet in a few places. A reply or a staff message writes the Ticket, its
message and, in the same transaction, a delivery row and a job; the drainer runs
the job. Slack's requests end in a job whose handler is a reply. Every committed
change is afterwards published to the realtime rooms. `PROJECT.json` lists the
components with what is modelled of each, and the hazards, with the line at which
each bites and the properties that would notice it.

## 2. Modules

| Module | Models | Extends |
|---|---|---|
| `AtLeastOnceQueue` | what the queue promises: claims, each under its own attempt number, until one settles the job | |
| `JobQueue` | the claim statement, leases, batches, the drainer's tick; refines the former | |
| `Ticker` | the timers of the loops, idleness, wakes, the heartbeat and the readiness verdict | |
| `Scheduler` | drains of the queue as runs of the fast loop | `Ticker`, `AtLeastOnceQueue` |
| `Tickets` | the Ticket table, its indexes and trigger; staff requests; the dwell sweep | |
| `Conversation` | Contact replies and Slack ingestion on that table | `Tickets` |
| `SlaClock` | the two SLA clocks of a Ticket and the sweeps that latch breaches | |
| `Seed` | the demo data's second implementation of those clocks | `SlaClock` |
| `EventLog` | numbering, buffers and eviction of rooms | |
| `Realtime` | one client and its room over that log | `EventLog` |
| `Gateway` | which principal joins which room and hears what | `Permissions` |
| `Idempotency` | the store, for one key | |
| `HttpIdempotency` | the interceptor around a request handler | `Idempotency` |
| `SlackInbound` | acceptance of a Slack event, from the signature to the answer | `Idempotency` |
| `SlackDelivery` | one delivery and its job | |
| `Sessions` | one family of refresh tokens | |
| `Permissions` | the catalog, roles, scopes, principals and their actors | |
| `Routes` | every HTTP operation with its decorators, and the guards that read them | `Permissions` |
| `Membership` | one seat: invitation, acceptance, sign-in, Google link | `Permissions` |
| `Access` | requests through the guards to service tokens, widget sessions and membership | `Routes`, `Membership` |
| `Tenancy` | contexts, connection settings, row-level security, the audit stamp | `Permissions` |
| `RateLimit`, `Cache` | the two users of Redis | |
| `Keyset` | order, cursor, seek and page as operators | |
| `Reads` | lists and reports over rows that are written meanwhile | `Keyset`, `Routes` |
| `Edge` | those reads, the limiter and the cache together | `RateLimit`, `Cache`, `Reads` |
| `JobQueueProofs` | theorems, and that `JobQueue` implements `AtLeastOnceQueue` | `JobQueue` |
| `WriteProofs` | theorems about Tickets and idempotency keys | `Conversation`; `MCIdempotency`, which has both consumers |
| `RealtimeProofs` | theorems about rooms, sockets and refresh tokens | `Realtime`, `Gateway`, `Sessions` |
| `AccessProofs` | theorems about guards, transactions and deliveries | `Access`, `Tenancy`, `SlackDelivery` |
| `ClockProofs` | theorems about the SLA clock and the loops | `SlaClock`, `Ticker` |
| `SeedProofs` | that the seed's clocks and the triggers' agree | `Seed` |
| `RedisProofs` | sums, and the invariants of the limiter and the cache | `RateLimit`, `Cache` |
| `EdgeProofs` | theorems about limiter, cache, lists and reports | `Edge`, `RedisProofs` |
| `MC...` | values of constants, symmetry and constraints for TLC; `MCIdempotency`, `MCRealtime`, `MCSlaClock` and `MCDelivery` also put two components into one run | |

How code becomes an action:

* A READ COMMITTED transaction is split where another transaction can act between
  two of its statements and be noticed: a read whose result is used by a later
  write (`ReadAddressed`, `Reopen`), an UPDATE that waits for a row
  (`RevokeSnapshot`, `RevokeFamily`), a claim that holds row locks (`JobQueue`'s
  `claiming` phase). The statements in between that nobody can notice are one step.
* A trigger or an index is part of the action that fires it. A violated unique
  index is a step of its own (`SpawnRefused`, `OpenRefused`).
* In-memory code between two `await`s is one step, because Node runs it so.
* What leaves the process (a post to Slack, an announcement) is counted in a
  history variable.
* An operator named `X_Fault` just before `X` is `X` with one plausible mistake in
  it. Nothing uses it; it is there to show that a property notices the mistake.

### The modules, their state and the code

**JobQueue** has one row per job (`status`, `attempts`, `runAfter`, `lockedAt`)
and one drainer per tick. `Enqueue` is `JobQueueService.enqueue` with its
transaction's commit; `SelectDue` and `CommitClaim` are `claim`; `RunNext` to
`EndTick` follow `DrainerService.tick`, `run` and `settleFailure`. Settling is by id and carries the claimed copy of the attempt
count, as in the code: a late settle acts on whatever the row is then. A job of a
kind no handler is registered for fails. `Abandon` ends a tick anywhere.

**Tickets / Conversation**: a row per Ticket (`state`, `parent`, `root`, `contact`,
`route`, `silent`); `req` is where each request stands. `silent` abstracts
`last_activity_at`: `FallSilent` says the dwell window has passed, any activity
clears it. `DwellSweep` runs both timers in order, as `DwellSweep.run` does.
Contacts see only their own rows, the indexes all of them.

**EventLog / Realtime / Gateway**: per room the last number (`head`) and the one
below the buffer (`low`); `rank` is the order of last use, from which the oldest is
evicted, leaving the floor `evictedHighWater`. The client follows
`docs/realtime/SCHEMA.md`: it keeps the highest number seen and subscribes with it
after a reconnect. In `Gateway` a socket has the principal of its handshake;
`Ask` and `Look` are `subscribe` before and after the read of the Ticket,
`Broadcast` is any of the methods of `RealtimeService` with the rooms it sends to.

**Idempotency**: one record; `Insert`, `Reclaim` and `Read` are the statements of
`attemptClaim`. `HttpIdempotency` adds the interceptor's handling of the outcome,
`SlackInbound` that of `accept`, after the gates in front of it (`gate`, `Resolve`).

**SlackDelivery**: attempts are named by number. `Claim`, `Post`, `Record`, `Fail`,
`SettleAndAudit`, `Announce` follow `handle`; `open` is the drainer's transaction
around the handler, which commits only after the handler returned.

**Sessions**: see the head of the module for the treatment of row locks and
snapshots.

**SlaClock**: `PausedMs` and `Transition` are the trigger's accumulator, `Due` the
CTE of the sweep with the targets of the priority the snapshot shows, `SetPriority`
the edit that changes them, `Coerced` the trigger's set-once rule, `GiveUp` an error
in the visit of any tenant or a dead process. **Seed** writes one Ticket in the order of
`writeTicket` (`Script`); `replay` is the seed's own clock, with `walk` its loop over
the segments of the path, and `Lived` the reference it is compared with: the triggers
run at the plan's own times, over the thread (`Heard`) and then the moves (`Moved`).

**Membership / Access**: a request has a `pc`; `Authenticate` is `AuthGuard`, after
which the handler acts on the principal it read. `accept` reads, hashes outside any
transaction and writes in another; the Google sign-in is `Exchange` (the call to
Google), `Google`, `ReadInvitation` and `Enter`, one statement each.

**Tenancy**: `setting` holds the `app.*` settings of each pooled connection and
`unit` the transaction of each unit of work. `Begin` picks one of `withTenant`,
`withScheduler`, `withInstallationLookup` and `forEachTenant`, `Arm` is their first
statement, and `Sees` and `Writes` are the policies of all tables evaluated on the
settings, with SQL's NULL where no actor is armed. `Edit` stands for any audited
change of a Ticket.

**Ticker / Scheduler**: time is the age of each beat and what is left of each timer.
`Fire`, `Wake` and `Finish` are the callbacks of a loop, in the order `arm`, `wake`
and `runOnce` give them; in `Scheduler` a job is claimed only while a run of the
fast loop is under way, and claims go with the process.

**RateLimit / Cache / Reads**: a check reads the clock in `Ask` and reaches Redis in
`Hit` or not at all; `Load` and `WriteBack` are the two ends of `getOrLoad`;
`NextPage` and `ReportGroups` are the statements that come after others have written.

## 3. What the runs show

Runs that pass:

| Run | Instance | Shows |
|---|---|---|
| `job_queue` | 2 jobs (one of a kind nobody handles), 2 ticks, 2 attempts, lease 1, time to 3 | no two ticks hold the same claim; settled rows tell the truth; refines `AtLeastOnceQueue` |
| `scheduler` | 1 loop, 1 job, 2 attempts, fair | a loop has one timer and never none; readiness raises no false alarm; every job settles, through idleness, failing ticks, shutdowns and crashes |
| `conversation` | 2 Contacts on 1 thread, up to 3 Tickets, 2 of their requests and 1 agent at a time | one live Ticket per chain and per thread, coherent chains, `closed` has one door in and none out, transitions are not lost, a message commits with its reopening, a join asks again |
| `sla_clock` | 2 sweeps, 2 priorities with targets 0 and 1, time to 2, sweeps failing at any time but the last, fair; every plan of up to 3 moves and of 2 thread entries | exact clock, breaches earned against the target then in force, at most one announcement; an unanswered Ticket is latched wherever it is parked and however its priority changes; seeded rows are what the triggers would have written |
| `realtime` | 3 rooms, memory for 2, buffers of 2, 4 events in the watched room; 1 socket of each of 7 credentials, 2 tenants | no silent loss for a client that keeps the contract; after restarts and failed deliveries, what a replay without a gap covers; first sights in order; events reach their audience and nobody else |
| `idempotency` | 3 requests, 2 bodies, of HTTP or of Slack | one effect per window, honest replays, nobody else's claim released; an event is queued at most once and can come again if it was not |
| `slack_delivery` | 3 attempts, 5 claims; 2 tenants, 2 Contacts, 2 connections, 2 units of work | job and delivery end together, giving up is announced, a second copy has one cause; a connection shows its context's rows and no other |
| `sessions` | 2 requests, 3 tokens | one successor, windows kept, an eviction ends the family |
| `access` | 2 requests, 1 seat, 1 service token, 1 widget session, 6 ID tokens, time to 4 | membership is by one spent invitation, a Google link stays, handlers get the principal they are typed for, revocation is immediate, one Contact per session, a grant is honoured |
| `edge` | 2 callers on 3 counters; 2 readers of 2 entries; 3 rows, 2 edits | ceilings hold and `Retry-After` suffices, a bust is final, a traversal is complete, groups add up |

Some of these properties have an exception in them, recorded by a history
variable. The exceptions are exact (without one, TLC has a counterexample). Most are
places where the code does less than a comment or a document of the repository says,
and the table quotes it; the others are the price of a choice the code makes:

| Property | Exception | What happens then, and what is said |
|---|---|---|
| `OneEffectUnlessUndone` | `undone`: `complete` rolled back behind a handler that committed | the error branch releases the key and a retry takes effect again; `idempotency.interceptor.ts:180` says a request that threw "left nothing behind for the retry to duplicate" |
| `EventIsHeardOnce` (its last part) | `stuck`: the process died with the claim, or its release failed | see the run `orphaned_claim` |
| `SecondCopyOnlyWhenUnsure` | `unsure`: a copy was posted and `record` did not commit | the retry posts again; the index `20260720090000_slack_channel/migration.sql:379` credits with "Retries never double-post" refuses only a second row |
| `JobEndsWithTheDelivery` | the last attempt's post outlasted the drainer's transaction | `abandon` writes on a transaction Prisma has closed (five seconds; a post may take thirty), the job dies, the row stays pending and nobody is told; compare `slack-delivery.service.ts:46` |
| `EvictionIsComplete` | `overlapped`: a rotation past its verdict while the eviction runs | its successor is not among the rows the UPDATE saw, and stays usable |
| `AnnouncedAtMostOnce` | `clash`: two sweeps with the same millisecond | both take the latch for their own; `latched-timers.ts:21` says that cannot happen "no matter how many ticks race" |
| `OneTimerPerLoop` | `rewoken`: a wake while the run of an earlier wake is unfinished | both arm the loop at the end of their run, it then ticks twice as often, and `clearTimeout` knows of one of the two timers only |
| `GoogleLinkIsOneWay` | `rivals`: two first sign-ins at once | both read an unlinked row and the update is by id alone, so the second displaces the first; the comment calls linking "a one-way step" |
| `GrantIsHonoured` | `clash`: two renewals at once | they may write in the opposite order of their clocks, and a client then holds an expiry later than the row's |
| `CeilingHolds` | `blind`: Redis did not answer, or a hit reached it after its window | the limiter fails open; a late `INCR` starts an expired key at one |
| `BustIsFinal` | `raced`, `unbusted`: a load under way when the row was written; a failed bust | the old value is written back or stays, for a TTL at most |
| `TraversalIsComplete` | `moved`: the row's own sort key or match changed | it may be skipped or shown twice |
| `GroupsAddUp` | `written`: a write between the two statements | total and groups are of two snapshots: READ COMMITTED takes one per statement |
| `SeedIsAFixedPoint` | `overlapped`: a scheduler sweeps while the seed writes | its latch is set once and kept |
| `NoSilentLoss` | `troubled`: a delivery failed, or the process was restarted | a later envelope raises the cursor past the lost one, or numbers begin again below it: `gap` is false and something is missing, where `docs/realtime/SCHEMA.md:261` says "genuinely caught up" |

Further differences of this kind that the models contain, without a property of
their own: a `dead` job that a late settlement takes back to `ready` or `done`
(`Complete` and `Fail` of `JobQueue` ask for no status;
`job-queue.service.ts:211` says terminal); a batch whose later jobs start after
their lease lapsed, so that a timeout below the lease does not make it a mutual
exclusion (`slack-delivery.service.ts:32`); a plain append that commits on a Ticket
resolved since it was read (`append`; `contact-reply.service.ts:45`); a spawn
refused by the thread index and reported as a race on the chain (`SpawnRefused`;
`ticket.service.ts:561`); a second person on a Slack thread, who cannot see the
Ticket there and cannot open one (`OpenRefused`; `slack-ingestion.service.ts:93`);
a failure announced before its transaction commits, or though it never does (`Announce` before `Commit`;
`slack-delivery.service.ts:280`); breaches latched and never announced when a later
tenant's visit fails (`GiveUp`; `sweeper.service.ts:70`).

Two disagreements have a run of their own, in which TLC finds the sentence violated
(the findings of `PROJECT.json` quote it):

| Run | What happens |
|---|---|
| `poison_job` | a job that kills its process is claimed for ever, since only `fail` looks at the count |
| `orphaned_claim` | the process dies between claiming an event id and queueing its job: Slack's redelivery is told yes and dropped, and nothing was queued |

### Bounds

Every bound is a constant and is named so where it is declared. Clocks stop at
`Horizon`, attempt counters at `Cap`, rolled-back completions at one a window
(`RollbackBound`), sequence numbers at `MaxSeq`, tables at
`MaxTickets` and `MaxTokens`, queues of unread envelopes at `MaxUnread`, transactions
at `MaxTransactions`, publishing calls at `MaxBroadcasts`, edits and cached writes at
`MaxEdits` and `MaxWrites`, timers and overlapping runs at `MaxTimers` and `MaxRuns`. They are
chosen so that the case a property is about occurs: a lease lapses while its holder
works and a third claim follows; a chain is closed, spawned and closed again; a
room is evicted twice with a client on it; the buffer overflows between two
subscriptions; the retention sweep removes a record between two statements of a
claim. Where it was in doubt, the fault of the property's mutant shows it.

Components that share no variable run side by side in one configuration without
being multiplied: `MCNext` of `MCRealtime`, `MCDelivery` and `MCEdge` lets one of them
move while the others are in their initial state, and `MCAccess` explores one of the
three stores at a time. No property relates two of them. `MCConversation` restricts
the third Ticket to plain chains of one Contact (`ThirdIsPlain`), explores `on_hold` on
Tickets of one Contact off Slack (`HoldIsPlain`), and lets staff meet one customer
request rather than two where Tickets of two Contacts exist (`ThreeAreOneContacts`);
with `on_hold` on Slack threads of one Contact and without the last restriction it
passes as well (1,077,120 states), and with time to 3 and targets 1 and 2 so does
`MCSlaClock` (967,153 states), both in more time than a routine check should take. Symmetry is used over requests,
bodies, Contacts, connections, units, callers, readers and entries, none of which is
ordered or named in a property, and in no run with a liveness property.

Most runs set `CHECK_DEADLOCK FALSE`: the models stop at their bounds, and a desk
with nothing to do has nothing to do.

### Fairness

Three specifications assume any. `AtLeastOnceQueue!FairSpec` (the run `poison_job`):
the ticker keeps starting ticks, so a claimable row is claimed eventually, and a
handler that is not a poison job returns or throws in some attempt rather than losing
its process each time. `SchedulerSpec` derives the first half instead of assuming it:
the event loop runs (due timers fire, time passes, bootstrap goes on), a tick ends
one way or the other because its statements have timeouts, and a process that is shut
down exits and is replaced; that a drain which is under way again and again takes the
job at some time, and that a claim held again and again ends, remain assumptions.
Nothing says that requests come, that ticks succeed or that the process lives.
`MCSlaClock!MCSpec`: the slow tick is armed before the current one runs
(`scheduler-ticker.service.ts`), so sweeps keep starting, time passes, and a sweep
that does not fail gets to its end; sweeps fail at any time but the last instant of
the model (`Horizon`), that is, not for ever, which is an assumption about the
database and not about the code.

## 4. Proofs

Forty-four theorems, each for every value of the constants that satisfies the named
assumption of the module: any number of jobs, ticks, Tickets, requests, tokens,
sweeps, rooms, sockets, attempts, loops, connections, tenants, callers and rows, and
plans of any length. Thirty-eight of the forty properties the passing runs check are
among them, all but the two of liveness. A theorem is about a component's own
specification (`LogSpec`, `GatewaySpec`, `TenancySpec`, `TickerSpec`, `SeedSpec`, ...)
without the constraints, symmetry and one-store-at-a-time exploration of the `MC`
modules. Every step of a run that composes components is a step of one of them or
leaves its variables alone, so what is proved of `TickerSpec` holds of
`SchedulerSpec`. The theorems of `EdgeProofs` are about the composition itself, whose
invariant is that of its three parts.

* `JobQueueProofs`: `QueueTypeOK`, `DistinctClaims`, `SettledRowsAreTruthful`,
  `LeasesAreHonoured`, `QueueImplementsAtLeastOnce`. That two ticks never hold the
  same claim does not follow from itself: the invariant `IInv` adds that a row lock
  belongs to exactly the tick whose uncommitted claim selected the row and that the
  row is still claimable (`LockInv`), that a tick runs a job in the phases that say so
  (`RunningInv`), that every copy of an attempt count in a tick's hand is at most the
  row's (`CopyInv`), and that a tick about to complete a job has a committed handler
  behind it (`RanInv`). A new claim then has a number no copy can have. For the
  refinement, a claim of the abstract queue is a job a tick holds, with its attempt
  number and how far it has come (`Claims`). Since these numbers differ between ticks,
  a handler's return changes one claim (`ReturnRefines`) and a settlement or a crash
  removes those of one tick only (`ReleaseRefines`); a committed claim statement is
  one `Claim`, and what concerns clocks, batches and locks is a stutter.
* `WriteProofs`, of Tickets: `ConversationTypeOK`, `AtMostOneLivePerChain`,
  `AtMostOneLivePerThread`, `ChainsAreCoherent`, `ClosedIsHardTerminal`,
  `TransitionsAreNotLost`, `EveryJoinAsksAgain`, `NoMessageWithoutItsReopen`. Every
  step leaves the table alone, moves Tickets along legal edges (`Settles`) or adds one
  Ticket that the indexes let in (`Born`); the invariant says what the rows look like
  (`RowsInv`) and what a request between its statements may rely on (`ReqInv`: what it
  read of a Ticket's Contact, root and closedness stays true, what it read of a live
  state need not). One live Ticket per thread is part of the invariant: a closed
  Ticket never reopens, so only a birth could break it, and the thread's index
  refuses that one.
* `RealtimeProofs`: `EventLogTypeOK`, `RoomsNeverReuseASeq`, `ReplaysAreHonest`,
  `NothingIsSilentlyLost`, `SubscribesAreComplete`, `EventsAreFirstSeenInOrder`,
  `EventsStayWithTheirAudience`. The log: the floor an eviction leaves behind covers
  every number the evicted rooms ever used (`Covered`), and a buffer is a window of at
  most `RETAIN` numbers ending at the room's last (`BufferInv`). The client: while no
  delivery failed and the process was not restarted, what it has, and what it has
  followed by what is on the wire, skips no event, and it has everything up to its
  cursor (`NoHoles`). The gateway: every room a socket is in and every envelope it got
  is one for its principal, and a room it has asked for is of its tenant, also between
  the two halves of a subscribe (`SocketOK`).
* `RealtimeProofs`, of refresh tokens: `TokensHaveOneSuccessor`,
  `EvictionsAreComplete`. A token family is a line with the one unspent token at its
  end (`Line`), a request past its verdict was inside the windows and, once it has
  spent its token, holds the row (`Rotating`), and an eviction that no rotation
  overlapped has seen all tokens and leaves nobody at work (`Evicting`).
* `WriteProofs`, of keys: `KeysTakeEffectOnce`, `EventsAreHeardOnce`, `RecordsAreTrue`.
  Whoever is at work on a key owns its record, and the record cannot lapse under it
  (`ClaimIsHeld`); what the record says and what has taken effect determine each other
  within a window, up to a completion that was rolled back (`HttpInv`) or a claim
  nobody will release (`SlackInv`).
* `AccessProofs`, of what a request finds once it is let in: `JobsEndWithTheirDelivery`,
  `NoSecondCopyWhenSure`, `ContextsAreTheWholeView`. Only the latest attempt is at work on the job, and
  its place tells what the row may say (`HandlerOK`); unless a copy was left unsure,
  there is at most one, and the row was told of it or is about to be (`Accounted`). Of the transactions: a connection no transaction has armed
  carries nothing, an armed one carries exactly its context (`Settings`), no two
  transactions share one (`Connected`), and every staged or committed audit row names
  its context (`Stamps`). The lemmas `UnarmedSeesNothing` and `ArmedSeesItsContext`
  evaluate the policies on such settings: the first says that they fail closed.
* `AccessProofs`, of who is let in: `MembershipNeedsAnInvitation`, `LinkingIsOneWay`, `GuardsAreEnough`,
  `RevocationsHoldAtOnce`, `VisitorsAreOneContact`, `GrantsAreKept`. Staff: the
  invitation's `accepted_at` and the one request that spent it go together
  (`SeatInv`), a visit past a check still has what it checked (`VisitInv`), and while
  no two first sign-ins overlap, whoever read no link finds none or their own
  (`LinkInv`). Guards: each declared route takes anybody, declares the kind it takes,
  or needs a permission no service token can be granted (`RoutesOK`, over the whole
  table), which with `grantedScopes` is what makes `PermissionGuard` enough
  (`GuardIsRight`). Credentials: what a request's principal is worth stays true while
  it runs unless it is recorded as overtaken (`PrincipalInv`); a handler between its
  statements has the lock, the row and the time it read (`StepInv`); and a session's
  Contact is the only one there is (`ContactInv`).
* `ClockProofs`: `ClockIsExact`, `BreachesAreEarned`, `AnnouncementsAreSingle`,
  `LoopsHaveOneTimer`, `NoAlarmIsFalse`. Of the SLA clock: whether it runs or stands,
  the accumulator and the time worked differ by a known amount (`Exact`); a target
  that is missed is on record from then on, so what a sweep has found due stays earned
  while it waits for the row, through any change of priority or state (`DueIsEarned`);
  a latch holds the instant of one sweep, and once announced no sweep at work has that
  instant (`Announcing`, `Instants`). Of the ticker: which timer a loop holds and
  whose it is (`HoldsItsOwn`), that a loop without one has a wake's run that will arm
  it (`WillTick`, `HasOne`), and that for a loop at rest the age of its beat and what
  is left of its timer never add up to more than its interval (`BeatInTime`).
* `SeedProofs`: `SeedsAreAFixedPoint`. After k segments the seed's `walk` has the pause
  and the running time that the triggered row had at the move that ended the k-th
  (`WalkAgrees`), and it has dated a breach exactly when that row's clock has passed
  the target, at the instant it showed it (`WalkDates`). The stable sort of the thread
  puts each entry at its place (`Sorted`), so the first answer the trigger keeps is the
  least of those the seed takes the minimum of (`FirstResponsesAgree`). The invariant
  `SeedInv` then follows the row through the statements of `Script`: what it is before
  the last (`Draft`) and after it (`Finished`).
* `EdgeProofs` with `RedisProofs`: `CeilingsHold`, `BustsAreFinal`,
  `TraversalsAreComplete`, `ReportsAddUp`. The limiter: a counter and the calls it let
  through agree while Redis answers in time (`Honest`), what the global counter
  counted and what is still on its way there was let through by some address
  (`Screened`), and whoever was refused waits past the window (`Waits`). The cache: a
  cached value, and one that a load under way will write, differs from its row only
  where a history variable says so (`EntriesAreOwned`, `LoadsAreOwned`). The lists: a
  page is the first part of the rows past the cursor in the order of the sort
  (`PageIsTheFirstPart`), so a row not yet shown is past the cursor and one already
  shown is not, each exactly as often as it is due (`Progress`, `WalkOK`). The reports:
  a group counts one class of the cohort and the classes partition it, so the sum of
  the counts is the count of the whole (`StatementsAddUp`, `ReportOK`).

Sums and loops are proved about by induction, which takes a detour here: the library's
induction theorems have an operator as a parameter, which the provers cannot
instantiate. The lemmas used instead take a set: a non-empty set of numbers has a least
element (`LeastOf`, `UpTo`), a non-empty family of subsets of a finite set a minimal
one (`MinimalIn`), both from the library's `WFMin`; a loop has the values its equation
gives it (`LoopsRun`, `LoopsStay`), and a sum over a finite set takes out any one of its
elements (`SumTakesOut`).

What the proofs assume of the constants is in the `ASSUME` of each module, and TLC
evaluates it in the runs. `AccessAssumption` and `TickerAssumption` say that the value
for "nobody" is no Contact's number, that loops have distinct names (none of them
`off`) and that intervals are positive: facts of how the models encode the code's
`null` and an unarmed timer, and of the loops the code registers. `RateLimitAssumption`
and `ReadsAssumption` say that callers, addresses and rows are finitely many (what is
summed is a finite set) and that a page has a row at least
(`pagination-query.dto.ts:23`). `SeedAssumption` says that a plan tells its moves in
the order they happened, none before the Ticket or after the seed; its thread may be
in any order, since the code sorts it.

Where the code returns at its first failing test, the models say `IF ... ELSE IF`:
`CASE` with overlapping arms means any of them in TLA+, though TLC takes the first.

Model-checked only: `EveryJobSettles` and `SilenceIsNoticed`, which are liveness under
fairness and like `ENABLED` out of the prover's reach.

## 5. What is not modelled

* Serialization failures, deadlocks between row locks, and the pool running dry: a
  transaction that fails for such a reason is one that did not happen, which the
  models include as a crash, a refusal or a rollback.
* Text: message bodies, subjects, tokens, hashes, signatures and wire formats. A
  signature or a password is right or wrong, a body stands for its fingerprint.
* Durations and percentiles in `Reads`: the counts of a report are modelled, not its
  times.
* Payload validation (DTOs, pipes), the mapping of errors to HTTP, CORS, OpenAPI
  documents and configuration: stateless, with nothing to interleave.
* The order in which two commits of one Ticket are announced: services publish after
  their transaction, and the code promises no order.
* The content of the demo data, the Redis connection's own retries, the keep-warm
  ping, and the reading of a client's address from its headers.

`PROJECT.json` gives the status of every part.

## 6. What could follow

An abstract delivery specification refined by `SlackDelivery`;
`Conversation` composed with `EventLog`, should the code come to promise an order of
announcements.
