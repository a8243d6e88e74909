--------------------------- MODULE AtLeastOnceQueue ---------------------------
(***************************************************************************)
(* What the job queue promises its callers, with the clock, the batches    *)
(* and the row locks left out: a job that was enqueued is claimed, each    *)
(* claim under an attempt number of its own, until a claim of it reports   *)
(* success or a claim that used up the attempts reports failure.  Claims   *)
(* can be lost, and can report after a later claim of the same job did.    *)
(* JobQueue implements this specification; the eventual behaviour of the   *)
(* queue is checked here, where time needs no bound.                       *)
(***************************************************************************)
EXTENDS Integers, FiniteSets

CONSTANTS
  Jobs,
  Poison,        \* jobs whose handler always takes the process down with it
  MaxAttempts,   \* max_attempts of every row
  Cap            \* bound: attempts stop counting here; 0 counts for ever

ASSUME QueueAssumption ==
  /\ Poison \subseteq Jobs
  /\ MaxAttempts \in Nat \ {0}
  /\ Cap = 0 \/ Cap \in {n \in Nat : n > MaxAttempts}

VARIABLES
  status,     \* job.status
  attempts,   \* job.attempts
  claims      \* <<job, attempt, stage>>: claims alive in some process, which are
              \* held, or succeeded or failed and not settled yet

vars == <<status, attempts, claims>>

Init ==
  /\ status = [j \in Jobs |-> "absent"]
  /\ attempts = [j \in Jobs |-> 0]
  /\ claims = {}

\* enqueue commits.
Enqueue(j) ==
  /\ status[j] = "absent"
  /\ status' = [status EXCEPT ![j] = "ready"]
  /\ UNCHANGED <<attempts, claims>>

\* Every count from max_attempts up is treated alike, so Cap stands for the rest.
Counted(n) == IF n > 0 /\ n = Cap THEN n ELSE n + 1

\* Fault: no lease reclaim, so an active row whose drainer died stays active.
Takeable_ReadyOnly(j) == status[j] = "ready"

\* The rows a claim statement may take: ready ones, and active ones whose
\* lease ran out, which is a matter of time and so always possible.
Takeable(j) == status[j] \in {"ready", "active"}

\* One claim statement takes a set of rows.
Claim(S) ==
  /\ \A j \in S : Takeable(j)
  /\ status' = [j \in Jobs |-> IF j \in S THEN "active" ELSE status[j]]
  /\ attempts' = [j \in Jobs |-> IF j \in S THEN Counted(attempts[j]) ELSE attempts[j]]
  /\ claims' = claims \cup {<<j, Counted(attempts[j]), "held">> : j \in S}

\* The handler's transaction commits, or the handler throws.
Return(j) ==
  \E c \in claims, stage \in {"succeeded", "failed"} :
    /\ c[1] = j /\ c[3] = "held"
    /\ claims' = (claims \ {c}) \cup {<<j, c[2], stage>>}
    /\ UNCHANGED <<status, attempts>>

\* What complete or fail writes for a claim that came back.
Outcome(c) ==
  IF c[3] = "succeeded" THEN "done" ELSE IF c[2] >= MaxAttempts THEN "dead" ELSE "ready"

\* complete or fail, on whatever the row says by now.
Settle(j) ==
  \E c \in claims :
    /\ c[1] = j /\ c[3] # "held"
    /\ claims' = claims \ {c}
    /\ status' = [status EXCEPT ![j] = Outcome(c)]
    /\ UNCHANGED attempts

\* A process dies with the claims it held.
Lose ==
  /\ \E lost \in SUBSET claims : claims' = claims \ lost
  /\ UNCHANGED <<status, attempts>>

Next ==
  \/ \E j \in Jobs : Enqueue(j) \/ Return(j) \/ Settle(j)
  \/ \E S \in SUBSET Jobs : Claim(S)
  \/ Lose

Spec == Init /\ [][Next]_vars

\* In the fair runs a poisonous handler never gets as far as returning.
FairNext ==
  \/ \E j \in Jobs : Enqueue(j) \/ Settle(j)
  \/ \E j \in Jobs \ Poison : Return(j)
  \/ \E S \in SUBSET Jobs : Claim(S)
  \/ Lose

\* The ticker keeps claiming for as long as a row is claimable (weak fairness).
\* A process may die at any point of a job, but not at the same point of the
\* same healthy job every time it comes round (strong fairness).
FairSpec ==
  /\ Init /\ [][FairNext]_vars
  /\ \A j \in Jobs : WF_vars(Claim({j}))
  /\ \A j \in Jobs \ Poison : SF_vars(Return(j))
  /\ \A j \in Jobs : SF_vars(Settle(j))

-----------------------------------------------------------------------------
\* An accepted job is not lost: whatever processes die on the way, a row that is
\* ready or active is eventually done or dead (the lease reclaim of claim).
EveryJobSettles ==
  \A j \in Jobs : status[j] \in {"ready", "active"} ~> status[j] \in {"done", "dead"}

\* A job that keeps failing is given up on: from some point on its row is no
\* longer retried, or it succeeded ("Counting claims makes even that job reach
\* `dead`", claim in job-queue.service.ts).
CountingClaimsReachesDead ==
  \A j \in Poison : status[j] = "ready" ~> status[j] = "dead"
=============================================================================
