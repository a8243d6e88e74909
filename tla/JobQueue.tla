------------------------------- MODULE JobQueue -------------------------------
(***************************************************************************)
(* The durable job queue (src/src/scheduler/job-queue.service.ts) and the  *)
(* tick that drains it (drainer.service.ts).                               *)
(*                                                                         *)
(* A row of `job` is ready, active, done or dead.  A tick reads the clock  *)
(* once, claims a batch of due rows in one FOR UPDATE SKIP LOCKED          *)
(* statement, runs the handlers one after another and settles each job     *)
(* with a statement of its own.  Ticks overlap: the ticker re-arms before  *)
(* it awaits the tick, and several processes drain one table.  A Drainer   *)
(* is one such tick in progress.                                           *)
(*                                                                         *)
(* A handler is abstracted to what the queue sees of it: its transaction   *)
(* commits, it throws, or the process dies under it.                       *)
(***************************************************************************)
EXTENDS Integers, FiniteSets

CONSTANTS
  Jobs,          \* rows that may be enqueued
  Drainers,      \* ticks that may be in progress at once
  Registered,    \* the jobs whose kind has a handler in the registry
  MaxAttempts,   \* max_attempts of every row
  LEASE,         \* LEASE_MS, in clock units
  BATCH,         \* CLAIM_BATCH
  BackoffBase,   \* BASE_BACKOFF_MS, in clock units
  BackoffMax,    \* MAX_BACKOFF_MS, in clock units
  Delays,        \* how far ahead an enqueue may put run_after; 0 is the default
  NoJob,         \* no job is running
  Unlocked,      \* no claim statement holds the row
  Horizon        \* bound: the clock stops here

ASSUME ConstantsAssumption ==
  /\ Registered \subseteq Jobs
  /\ MaxAttempts \in Nat \ {0}
  /\ LEASE \in Nat \ {0}
  /\ BATCH \in Nat \ {0}
  /\ BackoffBase \in Nat \ {0}
  /\ BackoffMax \in Nat \ {0}
  /\ Delays \subseteq Nat
  /\ NoJob \notin Jobs
  /\ Unlocked \notin Drainers
  /\ Horizon \in Nat

VARIABLES
  clock,      \* wall clock
  status,     \* job.status; "absent" before the enqueuing transaction commits
  runAfter,   \* job.run_after
  lockedAt,   \* job.locked_at; meaningful while the row is active
  attempts,   \* job.attempts
  rowLock,    \* the claim statement holding the row, until it commits
  phase,      \* where a tick is
  at,         \* the `now` a tick was started with
  batch,      \* claimed rows a tick has not started yet
  running,    \* the job whose handler a tick is in
  copy,       \* ClaimedJob.attempts, as returned by the claim
  ran         \* history: <<job, attempt>> pairs whose handler committed

row  == <<status, runAfter, lockedAt, attempts>>
tick == <<phase, at, batch, running, copy>>
vars == <<clock, row, rowLock, tick, ran>>

Status == {"absent", "ready", "active", "done", "dead"}
Phase  == {"idle", "started", "claiming", "draining", "handling", "succeeded", "failed"}

TypeOK ==
  /\ clock \in Nat
  /\ status \in [Jobs -> Status]
  /\ runAfter \in [Jobs -> Int]
  /\ lockedAt \in [Jobs -> Nat]
  /\ attempts \in [Jobs -> Nat]
  /\ rowLock \in [Jobs -> Drainers \cup {Unlocked}]
  /\ phase \in [Drainers -> Phase]
  /\ at \in [Drainers -> Nat]
  /\ batch \in [Drainers -> SUBSET Jobs]
  /\ running \in [Drainers -> Jobs \cup {NoJob}]
  /\ copy \in [Drainers -> [Jobs -> Nat]]
  /\ ran \subseteq Jobs \X Nat

Init ==
  /\ clock = 0
  /\ status = [j \in Jobs |-> "absent"]
  /\ runAfter = [j \in Jobs |-> 0]
  /\ lockedAt = [j \in Jobs |-> 0]
  /\ attempts = [j \in Jobs |-> 0]
  /\ rowLock = [j \in Jobs |-> Unlocked]
  /\ phase = [d \in Drainers |-> "idle"]
  /\ at = [d \in Drainers |-> 0]
  /\ batch = [d \in Drainers |-> {}]
  /\ running = [d \in Drainers |-> NoJob]
  /\ copy = [d \in Drainers |-> [j \in Jobs |-> 0]]
  /\ ran = {}

-----------------------------------------------------------------------------
(* backoff.ts *)

LeastOf(m, n) == IF m <= n THEN m ELSE n

\* The exponent past which doubling is clamped anyway: ceil(log2(max/base)) + 1.
SaturationAttempt ==
  1 + CHOOSE e \in 0 .. BackoffMax :
        /\ BackoffBase * 2^e >= BackoffMax
        /\ \A f \in 0 .. (e - 1) : BackoffBase * 2^f < BackoffMax

\* backoffMs: the delays random() can yield, a fifth either side of nominal.
Backoff(n) ==
  LET exponent == LeastOf((IF n < 1 THEN 1 ELSE n) - 1, SaturationAttempt)
      nominal  == LeastOf(BackoffBase * 2^exponent, BackoffMax)
  IN  (nominal - nominal \div 5) .. (nominal + nominal \div 5)

-----------------------------------------------------------------------------
(* job-queue.service.ts *)

\* Time passes for everybody at once.
Advance ==
  /\ clock < Horizon
  /\ clock' = clock + 1
  /\ UNCHANGED <<row, rowLock, tick, ran>>

\* enqueue: the row appears when the caller's transaction commits.
Enqueue(j) ==
  /\ status[j] = "absent"
  /\ status' = [status EXCEPT ![j] = "ready"]
  /\ \E delay \in Delays : runAfter' = [runAfter EXCEPT ![j] = clock + delay]
  /\ UNCHANGED <<clock, lockedAt, attempts, rowLock, tick, ran>>

\* The WHERE of the claim: due, or active under a lapsed lease.
Claimable(j, now) ==
  \/ status[j] = "ready" /\ runAfter[j] <= now
  \/ status[j] = "active" /\ lockedAt[j] < now - LEASE

\* SKIP LOCKED: rows another claim statement holds are not candidates.
Candidates(now) == {j \in Jobs : Claimable(j, now) /\ rowLock[j] = Unlocked}

\* ORDER BY run_after LIMIT batch, ties in any order.
IsBatch(S, candidates) ==
  /\ S \subseteq candidates
  /\ Cardinality(S) = LeastOf(BATCH, Cardinality(candidates))
  /\ \A j \in S, k \in candidates \ S : runAfter[j] <= runAfter[k]

\* tick: `now` is read before anything is awaited.
StartTick(d) ==
  /\ phase[d] = "idle"
  /\ phase' = [phase EXCEPT ![d] = "started"]
  /\ at' = [at EXCEPT ![d] = clock]
  /\ UNCHANGED <<clock, row, rowLock, batch, running, copy, ran>>

\* claim, first half: the CTE selects and locks its rows.
SelectDue(d) ==
  /\ phase[d] = "started"
  /\ \E S \in SUBSET Candidates(at[d]) :
       /\ IsBatch(S, Candidates(at[d]))
       /\ batch' = [batch EXCEPT ![d] = S]
       /\ rowLock' = [j \in Jobs |-> IF j \in S THEN d ELSE rowLock[j]]
  /\ phase' = [phase EXCEPT ![d] = "claiming"]
  /\ UNCHANGED <<clock, row, at, running, copy, ran>>

\* Fault: attempts counted when a job fails rather than when it is claimed.
CommitClaim_Uncounted(d) ==
  /\ phase[d] = "claiming"
  /\ status' = [j \in Jobs |-> IF j \in batch[d] THEN "active" ELSE status[j]]
  /\ lockedAt' = [j \in Jobs |-> IF j \in batch[d] THEN at[d] ELSE lockedAt[j]]
  /\ copy' = [copy EXCEPT ![d] = [j \in Jobs |->
                IF j \in batch[d] THEN attempts[j] ELSE copy[d][j]]]
  /\ rowLock' = [j \in Jobs |-> IF rowLock[j] = d THEN Unlocked ELSE rowLock[j]]
  /\ phase' = [phase EXCEPT ![d] = "draining"]
  /\ UNCHANGED <<clock, runAfter, attempts, at, batch, running, ran>>

\* claim, second half: the leases and the counted attempts become visible, and
\* RETURNING hands the drainer its copy of each row.
CommitClaim(d) ==
  /\ phase[d] = "claiming"
  /\ status' = [j \in Jobs |-> IF j \in batch[d] THEN "active" ELSE status[j]]
  /\ lockedAt' = [j \in Jobs |-> IF j \in batch[d] THEN at[d] ELSE lockedAt[j]]
  /\ attempts' = [j \in Jobs |-> IF j \in batch[d] THEN attempts[j] + 1 ELSE attempts[j]]
  /\ copy' = [copy EXCEPT ![d] = [j \in Jobs |->
                IF j \in batch[d] THEN attempts[j] + 1 ELSE copy[d][j]]]
  /\ rowLock' = [j \in Jobs |-> IF rowLock[j] = d THEN Unlocked ELSE rowLock[j]]
  /\ phase' = [phase EXCEPT ![d] = "draining"]
  /\ UNCHANGED <<clock, runAfter, at, batch, running, ran>>

-----------------------------------------------------------------------------
(* drainer.service.ts *)

\* Fault: a kind nobody registered is skipped as if it had succeeded.
Dispatch_SkipsUnknown(j) == IF j \in Registered THEN "handling" ELSE "succeeded"

\* A kind nobody registered goes straight to settleFailure.
Dispatch(j) == IF j \in Registered THEN "handling" ELSE "failed"

\* The next job of the batch.  RETURNING promises no order, so any of them.
RunNext(d) ==
  /\ phase[d] = "draining"
  /\ \E j \in batch[d] :
       /\ running' = [running EXCEPT ![d] = j]
       /\ batch' = [batch EXCEPT ![d] = @ \ {j}]
       /\ phase' = [phase EXCEPT ![d] = Dispatch(j)]
  /\ UNCHANGED <<clock, row, rowLock, at, copy, ran>>

\* The handler returned and withTenant committed its transaction.
HandlerCommits(d) ==
  /\ phase[d] = "handling"
  /\ ran' = ran \cup {<<running[d], copy[d][running[d]]>>}
  /\ phase' = [phase EXCEPT ![d] = "succeeded"]
  /\ UNCHANGED <<clock, row, rowLock, at, batch, running, copy>>

\* The handler threw, or its transaction would not commit.
HandlerThrows(d) ==
  /\ phase[d] = "handling"
  /\ phase' = [phase EXCEPT ![d] = "failed"]
  /\ UNCHANGED <<clock, row, rowLock, at, batch, running, copy, ran>>

\* The claimed copy goes out of scope once its job is settled.
Settled(d) ==
  /\ phase' = [phase EXCEPT ![d] = "draining"]
  /\ running' = [running EXCEPT ![d] = NoJob]
  /\ copy' = [copy EXCEPT ![d][running[d]] = 0]

\* complete: unconditional on the row's status, and on whose claim it is under.
Complete(d) ==
  LET j == running[d] IN
  /\ phase[d] = "succeeded"
  /\ rowLock[j] = Unlocked
  /\ status' = [status EXCEPT ![j] = "done"]
  /\ lockedAt' = [lockedAt EXCEPT ![j] = 0]
  /\ Settled(d)
  /\ UNCHANGED <<clock, runAfter, attempts, rowLock, at, batch, ran>>

\* Fault: allows one attempt too many.
FailedStatus_Late(n) == IF n > MaxAttempts THEN "dead" ELSE "ready"

\* fail: attempts against max_attempts, both as the claim returned them.
FailedStatus(n) == IF n >= MaxAttempts THEN "dead" ELSE "ready"

\* fail: dead or a later run_after, decided from the claimed copy and dated from
\* the tick's own `now`; as unconditional as complete.
Fail(d) ==
  LET j == running[d] IN
  /\ phase[d] = "failed"
  /\ rowLock[j] = Unlocked
  /\ status' = [status EXCEPT ![j] = FailedStatus(copy[d][j])]
  /\ \/ FailedStatus(copy[d][j]) = "dead" /\ UNCHANGED runAfter
     \/ /\ FailedStatus(copy[d][j]) # "dead"
        /\ \E delay \in Backoff(copy[d][j]) :
             runAfter' = [runAfter EXCEPT ![j] = at[d] + delay]
  /\ lockedAt' = [lockedAt EXCEPT ![j] = 0]
  /\ Settled(d)
  /\ UNCHANGED <<clock, attempts, rowLock, at, batch, ran>>

\* The tick returns: every claimed job was settled.
EndTick(d) ==
  /\ phase[d] = "draining"
  /\ batch[d] = {}
  /\ phase' = [phase EXCEPT ![d] = "idle"]
  /\ at' = [at EXCEPT ![d] = 0]
  /\ UNCHANGED <<clock, row, rowLock, batch, running, copy, ran>>

\* The process dies, or a statement throws out of the tick: what the tick held
\* in memory is gone, an uncommitted claim rolls back, committed rows stay.
Abandon(d) ==
  /\ phase[d] # "idle"
  /\ phase' = [phase EXCEPT ![d] = "idle"]
  /\ at' = [at EXCEPT ![d] = 0]
  /\ batch' = [batch EXCEPT ![d] = {}]
  /\ running' = [running EXCEPT ![d] = NoJob]
  /\ copy' = [copy EXCEPT ![d] = [j \in Jobs |-> 0]]
  /\ rowLock' = [j \in Jobs |-> IF rowLock[j] = d THEN Unlocked ELSE rowLock[j]]
  /\ UNCHANGED <<clock, row, ran>>

DrainerStep(d) ==
  \/ StartTick(d)
  \/ SelectDue(d)
  \/ CommitClaim(d)
  \/ RunNext(d)
  \/ HandlerCommits(d)
  \/ HandlerThrows(d)
  \/ Complete(d)
  \/ Fail(d)
  \/ EndTick(d)
  \/ Abandon(d)

Next ==
  \/ Advance
  \/ \E j \in Jobs : Enqueue(j)
  \/ \E d \in Drainers : DrainerStep(d)

Spec == Init /\ [][Next]_vars

-----------------------------------------------------------------------------
(* Properties *)

\* The jobs a tick claimed and has not settled.
Held(d) ==
  IF phase[d] \in {"draining", "handling", "succeeded", "failed"}
  THEN batch[d] \cup ({running[d]} \ {NoJob})
  ELSE {}

\* Two ticks never hold the same claim: if both hold one job, each was handed a
\* different attempt number, because SKIP LOCKED keeps two claim statements
\* apart and each counts the attempt it hands out (claim, job-queue.service.ts).
ClaimsAreDistinct ==
  \A d, e \in Drainers : \A j \in Held(d) \cap Held(e) :
    d # e => copy[d][j] # copy[e][j]

\* A job is handed out only while it is waiting and due, or once the lease it
\* was last handed out under has run out: no two claim statements take the same
\* row for the same reason, and nothing done or dead is run again by a claim.
LeaseIsHonoured ==
  [][\A j \in Jobs : attempts'[j] # attempts[j] =>
       \/ status[j] = "ready" /\ runAfter[j] <= lockedAt'[j]
       \/ status[j] = "active" /\ lockedAt[j] + LEASE < lockedAt'[j]]_vars

\* At least once: a row is done only after a handler of it committed, whatever
\* drainers died, overlapped or settled late (run, then complete).
DoneMeansRan ==
  \A j \in Jobs : status[j] = "done" => \E n \in 1 .. attempts[j] : <<j, n>> \in ran

\* A row is given up on only after max_attempts claims of it, even when the
\* statement that buries it is a late one from a tick that lost its lease (fail).
DeadMeansExhausted ==
  \A j \in Jobs : status[j] = "dead" => attempts[j] >= MaxAttempts

\* A settled row tells the truth about its job: done means that a handler of it
\* committed, dead that its attempts were used up (complete and fail, late or not).
SettledTellsTheTruth == DoneMeansRan /\ DeadMeansExhausted

\* How far a held job has come, as the abstract queue sees it.
StageOf(d, j) ==
  IF j = running[d] /\ phase[d] \in {"succeeded", "failed"} THEN phase[d] ELSE "held"

\* The claims alive in some tick.
Claims == UNION {{<<j, copy[d][j], StageOf(d, j)>> : j \in Held(d)} : d \in Drainers}

Queue == INSTANCE AtLeastOnceQueue WITH Poison <- {}, Cap <- 0, claims <- Claims

\* The queue with its clock, batches and row locks keeps the promise of the
\* abstract one: every claim counts, and settles its own job only (claim,
\* complete, fail and the drainer's run).
ImplementsAtLeastOnce == Queue!Spec
=============================================================================
