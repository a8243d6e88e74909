---------------------------- MODULE JobQueueProofs ----------------------------
(***************************************************************************)
(* The safety of the job queue for every set of jobs and ticks, every      *)
(* lease, batch size and attempt limit, and that it implements             *)
(* AtLeastOnceQueue.  The inductive invariant ties each row lock to the    *)
(* claim statement that holds it, bounds every claimed copy by the         *)
(* attempts counted so far, and remembers that a tick about to complete a  *)
(* job has a committed handler behind it.                                  *)
(***************************************************************************)
EXTENDS JobQueue, TLAPS

Busy == {"handling", "succeeded", "failed"}

\* Row locks and uncommitted claims agree, and a locked row stays claimable.
LockInv ==
  /\ \A d \in Drainers : phase[d] = "claiming" =>
       \A j \in batch[d] : rowLock[j] = d /\ Claimable(j, at[d])
  /\ \A d \in Drainers, j \in Jobs : rowLock[j] = d => phase[d] = "claiming" /\ j \in batch[d]

\* A tick is in a job exactly in the phases that say so.
RunningInv ==
  \A d \in Drainers :
    /\ phase[d] \in Busy => running[d] \in Jobs \ batch[d]
    /\ phase[d] \notin Busy => running[d] = NoJob

\* Every claim in hand is one that was counted.
CopyInv ==
  \A d \in Drainers : \A j \in Held(d) : copy[d][j] \in 1 .. attempts[j]

\* A tick that is about to complete a job has run it.
RanInv ==
  /\ \A d \in Drainers : phase[d] = "succeeded" => <<running[d], copy[d][running[d]]>> \in ran
  /\ \A j \in Jobs, n \in Nat : <<j, n>> \in ran => n \in 1 .. attempts[j]

IInv ==
  /\ TypeOK
  /\ LockInv
  /\ RunningInv
  /\ CopyInv
  /\ ClaimsAreDistinct
  /\ RanInv
  /\ DoneMeansRan
  /\ DeadMeansExhausted

USE ConstantsAssumption

LEMMA BackoffInt == ASSUME NEW n \in Nat PROVE Backoff(n) \subseteq Int
  BY DEF Backoff

LEMMA InitIInv == Init => IInv
  BY DEF Init, IInv, TypeOK, LockInv, RunningInv, CopyInv, ClaimsAreDistinct, RanInv,
         DoneMeansRan, DeadMeansExhausted, Held, Busy, Status, Phase

(***************************************************************************)
(* Type correctness, action by action.                                     *)
(***************************************************************************)
LEMMA TypeStep == TypeOK /\ RunningInv /\ [Next]_vars => TypeOK'
<1> SUFFICES ASSUME TypeOK, RunningInv, [Next]_vars PROVE TypeOK'
  BY Zenon
<1> USE DEF TypeOK, row, tick
<1>1. CASE Advance
  BY <1>1 DEF Advance
<1>2. ASSUME NEW j \in Jobs, Enqueue(j) PROVE TypeOK'
  BY <1>2 DEF Enqueue, Status
<1>3. ASSUME NEW d \in Drainers, StartTick(d) PROVE TypeOK'
  BY <1>3, Zenon DEF StartTick, Phase
<1>4. ASSUME NEW d \in Drainers, SelectDue(d) PROVE TypeOK'
  BY <1>4 DEF SelectDue, Phase, Candidates
<1>5. ASSUME NEW d \in Drainers, CommitClaim(d) PROVE TypeOK'
  BY <1>5 DEF CommitClaim, Phase, Status
<1>6. ASSUME NEW d \in Drainers, RunNext(d) PROVE TypeOK'
  BY <1>6 DEF RunNext, Phase, Dispatch
<1>7. ASSUME NEW d \in Drainers, HandlerCommits(d) PROVE TypeOK'
  BY <1>7 DEF HandlerCommits, Phase, RunningInv, Busy
<1>8. ASSUME NEW d \in Drainers, HandlerThrows(d) PROVE TypeOK'
  BY <1>8, Zenon DEF HandlerThrows, Phase
<1>9. ASSUME NEW d \in Drainers, Complete(d) PROVE TypeOK'
  BY <1>9, Zenon DEF Complete, Settled, Phase, Status
<1>10. ASSUME NEW d \in Drainers, Fail(d) PROVE TypeOK'
  <2>1. copy[d][running[d]] \in Nat
    BY <1>10 DEF Fail, RunningInv, Busy
  <2>2. runAfter' \in [Jobs -> Int]
    BY <1>10, <2>1, BackoffInt DEF Fail
  <2>3. QED
    BY <1>10, <2>2, Zenon DEF Fail, Settled, Phase, Status, FailedStatus
<1>11. ASSUME NEW d \in Drainers, EndTick(d) PROVE TypeOK'
  BY <1>11, Zenon DEF EndTick, Phase
<1>12. ASSUME NEW d \in Drainers, Abandon(d) PROVE TypeOK'
  BY <1>12, Zenon DEF Abandon, Phase
<1>13. CASE UNCHANGED vars
  BY <1>13, Zenon DEF vars
<1>14. QED
  BY <1>1, <1>2, <1>3, <1>4, <1>5, <1>6, <1>7, <1>8, <1>9, <1>10, <1>11, <1>12, <1>13, Zenon
     DEF Next, DrainerStep

(***************************************************************************)
(* Which job a tick is in.                                                 *)
(***************************************************************************)
LEMMA RunningStep == TypeOK /\ RunningInv /\ [Next]_vars => RunningInv'
<1> SUFFICES ASSUME TypeOK, RunningInv, [Next]_vars PROVE RunningInv'
  BY Zenon
<1> USE DEF TypeOK, RunningInv, Busy, Phase, row, tick
<1>1. CASE Advance
  BY <1>1, Zenon DEF Advance
<1>2. ASSUME NEW j \in Jobs, Enqueue(j) PROVE RunningInv'
  BY <1>2, Zenon DEF Enqueue
<1>3. ASSUME NEW d \in Drainers, StartTick(d) PROVE RunningInv'
  BY <1>3, Zenon DEF StartTick
<1>4. ASSUME NEW d \in Drainers, SelectDue(d) PROVE RunningInv'
  BY <1>4, Zenon DEF SelectDue
<1>5. ASSUME NEW d \in Drainers, CommitClaim(d) PROVE RunningInv'
  BY <1>5, Zenon DEF CommitClaim
<1>6. ASSUME NEW d \in Drainers, RunNext(d) PROVE RunningInv'
  BY <1>6 DEF RunNext, Dispatch
<1>7. ASSUME NEW d \in Drainers, HandlerCommits(d) PROVE RunningInv'
  BY <1>7, Zenon DEF HandlerCommits
<1>8. ASSUME NEW d \in Drainers, HandlerThrows(d) PROVE RunningInv'
  BY <1>8, Zenon DEF HandlerThrows
<1>9. ASSUME NEW d \in Drainers, Complete(d) PROVE RunningInv'
  BY <1>9, Zenon DEF Complete, Settled
<1>10. ASSUME NEW d \in Drainers, Fail(d) PROVE RunningInv'
  BY <1>10, Zenon DEF Fail, Settled
<1>11. ASSUME NEW d \in Drainers, EndTick(d) PROVE RunningInv'
  BY <1>11, Zenon DEF EndTick
<1>12. ASSUME NEW d \in Drainers, Abandon(d) PROVE RunningInv'
  BY <1>12, Zenon DEF Abandon
<1>13. CASE UNCHANGED vars
  BY <1>13, Zenon DEF vars
<1>14. QED
  BY <1>1, <1>2, <1>3, <1>4, <1>5, <1>6, <1>7, <1>8, <1>9, <1>10, <1>11, <1>12, <1>13, Zenon
     DEF Next, DrainerStep

(***************************************************************************)
(* A row lock belongs to the claim statement that took it, and nothing but *)
(* that statement can make the row stop being claimable: settling waits    *)
(* for the lock.                                                           *)
(***************************************************************************)
LEMMA LockStep == TypeOK /\ RunningInv /\ LockInv /\ [Next]_vars => LockInv'
<1> SUFFICES ASSUME TypeOK, RunningInv, LockInv, [Next]_vars PROVE LockInv'
  BY Zenon
<1>1. CASE Advance
  <2>1. /\ rowLock' = rowLock /\ phase' = phase /\ at' = at /\ batch' = batch
        /\ status' = status /\ runAfter' = runAfter /\ lockedAt' = lockedAt
    BY <1>1, Zenon DEF Advance, row, tick
  <2> QED BY <2>1 DEF LockInv, Claimable
<1> USE DEF TypeOK, LockInv, Claimable, row, tick
<1>2. ASSUME NEW j \in Jobs, Enqueue(j) PROVE LockInv'
  BY <1>2 DEF Enqueue
<1>3. ASSUME NEW d \in Drainers, StartTick(d) PROVE LockInv'
  BY <1>3 DEF StartTick
<1>4. ASSUME NEW d \in Drainers, SelectDue(d) PROVE LockInv'
  BY <1>4 DEF SelectDue, Candidates
<1>5. ASSUME NEW d \in Drainers, CommitClaim(d) PROVE LockInv'
  BY <1>5 DEF CommitClaim
<1>6. ASSUME NEW d \in Drainers, RunNext(d) PROVE LockInv'
  BY <1>6 DEF RunNext, Dispatch
<1>7. ASSUME NEW d \in Drainers, HandlerCommits(d) PROVE LockInv'
  BY <1>7 DEF HandlerCommits
<1>8. ASSUME NEW d \in Drainers, HandlerThrows(d) PROVE LockInv'
  BY <1>8 DEF HandlerThrows
<1>9. ASSUME NEW d \in Drainers, Complete(d) PROVE LockInv'
  BY <1>9 DEF Complete, Settled, RunningInv, Busy
<1>10. ASSUME NEW d \in Drainers, Fail(d) PROVE LockInv'
  BY <1>10 DEF Fail, Settled, RunningInv, Busy
<1>11. ASSUME NEW d \in Drainers, EndTick(d) PROVE LockInv'
  BY <1>11 DEF EndTick
<1>12. ASSUME NEW d \in Drainers, Abandon(d) PROVE LockInv'
  BY <1>12 DEF Abandon
<1>13. CASE UNCHANGED vars
  BY <1>13 DEF vars
<1>14. QED
  BY <1>1, <1>2, <1>3, <1>4, <1>5, <1>6, <1>7, <1>8, <1>9, <1>10, <1>11, <1>12, <1>13, Zenon
     DEF Next, DrainerStep

(***************************************************************************)
(* A claimed copy never runs ahead of the row's count, which never decreases. *)
(***************************************************************************)
LEMMA CopyStep == TypeOK /\ RunningInv /\ CopyInv /\ [Next]_vars => CopyInv'
<1> SUFFICES ASSUME TypeOK, RunningInv, CopyInv, [Next]_vars PROVE CopyInv'
  BY Zenon
<1> USE DEF TypeOK, RunningInv, CopyInv, Held, Busy, row, tick
<1>1. CASE Advance
  BY <1>1, Zenon DEF Advance
<1>2. ASSUME NEW j \in Jobs, Enqueue(j) PROVE CopyInv'
  BY <1>2, Zenon DEF Enqueue
<1>3. ASSUME NEW d \in Drainers, StartTick(d) PROVE CopyInv'
  BY <1>3, Zenon DEF StartTick
<1>4. ASSUME NEW d \in Drainers, SelectDue(d) PROVE CopyInv'
  BY <1>4, Zenon DEF SelectDue
<1>5. ASSUME NEW d \in Drainers, CommitClaim(d) PROVE CopyInv'
  BY <1>5 DEF CommitClaim
<1>6. ASSUME NEW d \in Drainers, RunNext(d) PROVE CopyInv'
  BY <1>6 DEF RunNext, Dispatch
<1>7. ASSUME NEW d \in Drainers, HandlerCommits(d) PROVE CopyInv'
  BY <1>7, Zenon DEF HandlerCommits
<1>8. ASSUME NEW d \in Drainers, HandlerThrows(d) PROVE CopyInv'
  BY <1>8, Zenon DEF HandlerThrows
<1>9. ASSUME NEW d \in Drainers, Complete(d) PROVE CopyInv'
  BY <1>9 DEF Complete, Settled
<1>10. ASSUME NEW d \in Drainers, Fail(d) PROVE CopyInv'
  BY <1>10 DEF Fail, Settled
<1>11. ASSUME NEW d \in Drainers, EndTick(d) PROVE CopyInv'
  BY <1>11, Zenon DEF EndTick
<1>12. ASSUME NEW d \in Drainers, Abandon(d) PROVE CopyInv'
  BY <1>12, Zenon DEF Abandon
<1>13. CASE UNCHANGED vars
  BY <1>13, Zenon DEF vars
<1>14. QED
  BY <1>1, <1>2, <1>3, <1>4, <1>5, <1>6, <1>7, <1>8, <1>9, <1>10, <1>11, <1>12, <1>13, Zenon
     DEF Next, DrainerStep

(***************************************************************************)
(* A new claim's number is above every number in hand.                     *)
(***************************************************************************)
LEMMA DistinctStep == TypeOK /\ RunningInv /\ LockInv /\ CopyInv /\ ClaimsAreDistinct /\ [Next]_vars => ClaimsAreDistinct'
<1> SUFFICES ASSUME TypeOK, RunningInv, LockInv, CopyInv, ClaimsAreDistinct, [Next]_vars PROVE ClaimsAreDistinct'
  BY Zenon
<1> USE DEF TypeOK, RunningInv, CopyInv, ClaimsAreDistinct, Held, Busy, row, tick
<1>1. CASE Advance
  BY <1>1 DEF Advance
<1>2. ASSUME NEW j \in Jobs, Enqueue(j) PROVE ClaimsAreDistinct'
  BY <1>2 DEF Enqueue
<1>3. ASSUME NEW d \in Drainers, StartTick(d) PROVE ClaimsAreDistinct'
  BY <1>3 DEF StartTick
<1>4. ASSUME NEW d \in Drainers, SelectDue(d) PROVE ClaimsAreDistinct'
  BY <1>4 DEF SelectDue
<1>5. ASSUME NEW d \in Drainers, CommitClaim(d) PROVE ClaimsAreDistinct'
  BY <1>5 DEF CommitClaim, LockInv
<1>6. ASSUME NEW d \in Drainers, RunNext(d) PROVE ClaimsAreDistinct'
  BY <1>6 DEF RunNext, Dispatch
<1>7. ASSUME NEW d \in Drainers, HandlerCommits(d) PROVE ClaimsAreDistinct'
  BY <1>7 DEF HandlerCommits
<1>8. ASSUME NEW d \in Drainers, HandlerThrows(d) PROVE ClaimsAreDistinct'
  BY <1>8 DEF HandlerThrows
<1>9. ASSUME NEW d \in Drainers, Complete(d) PROVE ClaimsAreDistinct'
  BY <1>9 DEF Complete, Settled
<1>10. ASSUME NEW d \in Drainers, Fail(d) PROVE ClaimsAreDistinct'
  BY <1>10 DEF Fail, Settled
<1>11. ASSUME NEW d \in Drainers, EndTick(d) PROVE ClaimsAreDistinct'
  BY <1>11 DEF EndTick
<1>12. ASSUME NEW d \in Drainers, Abandon(d) PROVE ClaimsAreDistinct'
  BY <1>12 DEF Abandon
<1>13. CASE UNCHANGED vars
  BY <1>13 DEF vars
<1>14. QED
  BY <1>1, <1>2, <1>3, <1>4, <1>5, <1>6, <1>7, <1>8, <1>9, <1>10, <1>11, <1>12, <1>13, Zenon
     DEF Next, DrainerStep

(***************************************************************************)
(* Only a committed handler leads to complete.                             *)
(***************************************************************************)
LEMMA RanStep == TypeOK /\ RunningInv /\ CopyInv /\ RanInv /\ [Next]_vars => RanInv'
<1> SUFFICES ASSUME TypeOK, RunningInv, CopyInv, RanInv, [Next]_vars PROVE RanInv'
  BY Zenon
<1> USE DEF TypeOK, RunningInv, RanInv, Busy, row, tick
<1>1. CASE Advance
  BY <1>1, Zenon DEF Advance
<1>2. ASSUME NEW j \in Jobs, Enqueue(j) PROVE RanInv'
  BY <1>2, Zenon DEF Enqueue
<1>3. ASSUME NEW d \in Drainers, StartTick(d) PROVE RanInv'
  BY <1>3, Zenon DEF StartTick
<1>4. ASSUME NEW d \in Drainers, SelectDue(d) PROVE RanInv'
  BY <1>4, Zenon DEF SelectDue
<1>5. ASSUME NEW d \in Drainers, CommitClaim(d) PROVE RanInv'
  BY <1>5 DEF CommitClaim
<1>6. ASSUME NEW d \in Drainers, RunNext(d) PROVE RanInv'
  BY <1>6 DEF RunNext, Dispatch
<1>7. ASSUME NEW d \in Drainers, HandlerCommits(d) PROVE RanInv'
  BY <1>7 DEF HandlerCommits, CopyInv, Held
<1>8. ASSUME NEW d \in Drainers, HandlerThrows(d) PROVE RanInv'
  BY <1>8, Zenon DEF HandlerThrows
<1>9. ASSUME NEW d \in Drainers, Complete(d) PROVE RanInv'
  BY <1>9, Zenon DEF Complete, Settled
<1>10. ASSUME NEW d \in Drainers, Fail(d) PROVE RanInv'
  BY <1>10, Zenon DEF Fail, Settled
<1>11. ASSUME NEW d \in Drainers, EndTick(d) PROVE RanInv'
  BY <1>11, Zenon DEF EndTick
<1>12. ASSUME NEW d \in Drainers, Abandon(d) PROVE RanInv'
  BY <1>12, Zenon DEF Abandon
<1>13. CASE UNCHANGED vars
  BY <1>13, Zenon DEF vars
<1>14. QED
  BY <1>1, <1>2, <1>3, <1>4, <1>5, <1>6, <1>7, <1>8, <1>9, <1>10, <1>11, <1>12, <1>13, Zenon
     DEF Next, DrainerStep

(***************************************************************************)
(* A row becomes done through a tick that ran it.                          *)
(***************************************************************************)
LEMMA DoneStep == TypeOK /\ RunningInv /\ RanInv /\ DoneMeansRan /\ [Next]_vars => DoneMeansRan'
<1> SUFFICES ASSUME TypeOK, RunningInv, RanInv, DoneMeansRan, [Next]_vars PROVE DoneMeansRan'
  BY Zenon
<1> USE DEF TypeOK, RunningInv, DoneMeansRan, Busy, row, tick
<1>1. CASE Advance
  BY <1>1, Zenon DEF Advance
<1>2. ASSUME NEW j \in Jobs, Enqueue(j) PROVE DoneMeansRan'
  BY <1>2, Zenon DEF Enqueue
<1>3. ASSUME NEW d \in Drainers, StartTick(d) PROVE DoneMeansRan'
  BY <1>3, Zenon DEF StartTick
<1>4. ASSUME NEW d \in Drainers, SelectDue(d) PROVE DoneMeansRan'
  BY <1>4, Zenon DEF SelectDue
<1>5. ASSUME NEW d \in Drainers, CommitClaim(d) PROVE DoneMeansRan'
  BY <1>5, Zenon DEF CommitClaim
<1>6. ASSUME NEW d \in Drainers, RunNext(d) PROVE DoneMeansRan'
  BY <1>6, Zenon DEF RunNext
<1>7. ASSUME NEW d \in Drainers, HandlerCommits(d) PROVE DoneMeansRan'
  BY <1>7, Zenon DEF HandlerCommits
<1>8. ASSUME NEW d \in Drainers, HandlerThrows(d) PROVE DoneMeansRan'
  BY <1>8, Zenon DEF HandlerThrows
<1>9. ASSUME NEW d \in Drainers, Complete(d) PROVE DoneMeansRan'
  BY <1>9 DEF Complete, Settled, RanInv
<1>10. ASSUME NEW d \in Drainers, Fail(d) PROVE DoneMeansRan'
  BY <1>10, Zenon DEF Fail, Settled, FailedStatus
<1>11. ASSUME NEW d \in Drainers, EndTick(d) PROVE DoneMeansRan'
  BY <1>11, Zenon DEF EndTick
<1>12. ASSUME NEW d \in Drainers, Abandon(d) PROVE DoneMeansRan'
  BY <1>12, Zenon DEF Abandon
<1>13. CASE UNCHANGED vars
  BY <1>13, Zenon DEF vars
<1>14. QED
  BY <1>1, <1>2, <1>3, <1>4, <1>5, <1>6, <1>7, <1>8, <1>9, <1>10, <1>11, <1>12, <1>13, Zenon
     DEF Next, DrainerStep

(***************************************************************************)
(* The attempts a tick gives up on were all counted on the row.            *)
(***************************************************************************)
LEMMA DeadStep == TypeOK /\ RunningInv /\ CopyInv /\ DeadMeansExhausted /\ [Next]_vars => DeadMeansExhausted'
<1> SUFFICES ASSUME TypeOK, RunningInv, CopyInv, DeadMeansExhausted, [Next]_vars PROVE DeadMeansExhausted'
  BY Zenon
<1> USE DEF TypeOK, RunningInv, DeadMeansExhausted, Busy, row, tick
<1>1. CASE Advance
  BY <1>1, Zenon DEF Advance
<1>2. ASSUME NEW j \in Jobs, Enqueue(j) PROVE DeadMeansExhausted'
  BY <1>2, Zenon DEF Enqueue
<1>3. ASSUME NEW d \in Drainers, StartTick(d) PROVE DeadMeansExhausted'
  BY <1>3, Zenon DEF StartTick
<1>4. ASSUME NEW d \in Drainers, SelectDue(d) PROVE DeadMeansExhausted'
  BY <1>4, Zenon DEF SelectDue
<1>5. ASSUME NEW d \in Drainers, CommitClaim(d) PROVE DeadMeansExhausted'
  BY <1>5, Zenon DEF CommitClaim
<1>6. ASSUME NEW d \in Drainers, RunNext(d) PROVE DeadMeansExhausted'
  BY <1>6, Zenon DEF RunNext
<1>7. ASSUME NEW d \in Drainers, HandlerCommits(d) PROVE DeadMeansExhausted'
  BY <1>7, Zenon DEF HandlerCommits
<1>8. ASSUME NEW d \in Drainers, HandlerThrows(d) PROVE DeadMeansExhausted'
  BY <1>8, Zenon DEF HandlerThrows
<1>9. ASSUME NEW d \in Drainers, Complete(d) PROVE DeadMeansExhausted'
  BY <1>9, Zenon DEF Complete, Settled
<1>10. ASSUME NEW d \in Drainers, Fail(d) PROVE DeadMeansExhausted'
  BY <1>10 DEF Fail, Settled, FailedStatus, CopyInv, Held
<1>11. ASSUME NEW d \in Drainers, EndTick(d) PROVE DeadMeansExhausted'
  BY <1>11, Zenon DEF EndTick
<1>12. ASSUME NEW d \in Drainers, Abandon(d) PROVE DeadMeansExhausted'
  BY <1>12, Zenon DEF Abandon
<1>13. CASE UNCHANGED vars
  BY <1>13, Zenon DEF vars
<1>14. QED
  BY <1>1, <1>2, <1>3, <1>4, <1>5, <1>6, <1>7, <1>8, <1>9, <1>10, <1>11, <1>12, <1>13, Zenon
     DEF Next, DrainerStep

-----------------------------------------------------------------------------

LEMMA Inductive == Spec => []IInv
<1>1. Init => IInv
  BY InitIInv, Zenon
<1>2. IInv /\ [Next]_vars => IInv'
  BY TypeStep, RunningStep, LockStep, CopyStep, DistinctStep, RanStep, DoneStep, DeadStep, Zenon
     DEF IInv
<1>3. QED
  BY <1>1, <1>2, PTL DEF Spec

\* Every state of the queue is well typed (the columns of `job` and the fields
\* of a tick in progress).
THEOREM QueueTypeOK == Spec => []TypeOK
<1>1. IInv => TypeOK
  BY Zenon DEF IInv
<1>2. QED
  BY <1>1, Inductive, PTL

\* However many ticks run at once and however late they are, no two of them
\* hold a job under the same attempt number (claim).
THEOREM DistinctClaims == Spec => []ClaimsAreDistinct
<1>1. IInv => ClaimsAreDistinct
  BY Zenon DEF IInv
<1>2. QED
  BY <1>1, Inductive, PTL

\* A row is done only if a handler of it committed, and dead only after
\* max_attempts claims (complete, fail).
THEOREM SettledRowsAreTruthful == Spec => []SettledTellsTheTruth
<1>1. IInv => SettledTellsTheTruth
  BY Zenon DEF IInv, SettledTellsTheTruth
<1>2. QED
  BY <1>1, Inductive, PTL

\* No step hands out a job that is not due, nor one whose lease is running.
LEMMA LeaseStep ==
  IInv /\ [Next]_vars =>
    [\A j \in Jobs : attempts'[j] # attempts[j] =>
       \/ status[j] = "ready" /\ runAfter[j] <= lockedAt'[j]
       \/ status[j] = "active" /\ lockedAt[j] + LEASE < lockedAt'[j]]_vars
<1> SUFFICES ASSUME IInv, Next, NEW j \in Jobs, attempts'[j] # attempts[j]
             PROVE  \/ status[j] = "ready" /\ runAfter[j] <= lockedAt'[j]
                    \/ status[j] = "active" /\ lockedAt[j] + LEASE < lockedAt'[j]
  BY Zenon
<1>1. PICK d \in Drainers : CommitClaim(d)
  BY Zenon DEF Next, DrainerStep, Advance, Enqueue, StartTick, SelectDue, RunNext, HandlerCommits,
         HandlerThrows, Complete, Fail, EndTick, Abandon, row, tick
<1>2. j \in batch[d] /\ Claimable(j, at[d]) /\ lockedAt'[j] = at[d]
  BY <1>1, Zenon DEF CommitClaim, IInv, LockInv, TypeOK
<1>3. lockedAt[j] \in Nat /\ at[d] \in Nat
  BY Zenon DEF IInv, TypeOK
<1>4. QED
  BY <1>2, <1>3 DEF Claimable

\* A claim takes over a running job only after the lease it was handed out
\* under has lapsed, and never a done or a dead one (claim).
THEOREM LeasesAreHonoured == Spec => LeaseIsHonoured
  BY LeaseStep, Inductive, PTL DEF Spec, LeaseIsHonoured

HIDE ConstantsAssumption

------------------------------------------------------------------------------
(* JobQueue implements AtLeastOnceQueue.  A claim of the abstract queue is *)
(* a job in the hands of a tick, under the attempt number it was handed    *)
(* out with; that no two ticks hold the same one (ClaimsAreDistinct) is    *)
(* what lets a step of one tick change one claim.                          *)

\* The claim a tick has of a job.
ClaimOf(d, j) == <<j, copy[d][j], StageOf(d, j)>>

LEMMA InClaims ==
  /\ \A c : c \in Claims <=> \E d \in Drainers : \E j \in Held(d) : c = ClaimOf(d, j)
  /\ \A c : c \in Claims' <=> \E d \in Drainers : \E j \in Held(d)' : c = ClaimOf(d, j)'
<1>1. ASSUME NEW c
      PROVE  c \in Claims <=> \E d \in Drainers : c \in {<<j, copy[d][j], StageOf(d, j)>> : j \in Held(d)}
  BY Zenon DEF Claims
<1>2. ASSUME NEW c
      PROVE  c \in Claims' <=> \E d \in Drainers : c \in {<<j, copy[d][j], StageOf(d, j)>> : j \in Held(d)}'
  BY Zenon DEF Claims
<1>3. \A c : c \in Claims <=> \E d \in Drainers : \E j \in Held(d) : c = ClaimOf(d, j)
  BY <1>1, Zenon DEF ClaimOf
<1>4. \A c : c \in Claims' <=> \E d \in Drainers : \E j \in Held(d)' : c = ClaimOf(d, j)'
  BY <1>2, Zenon DEF ClaimOf
<1>5. QED
  BY <1>3, <1>4, Zenon

\* Different ticks, or jobs, have different claims.
LEMMA ClaimsDiffer ==
  ASSUME IInv, NEW d \in Drainers, NEW e \in Drainers, NEW j \in Held(d), NEW k \in Held(e),
         d # e \/ j # k
  PROVE  \A s, t : <<j, copy[d][j], s>> # <<k, copy[e][k], t>>
  BY Zenon DEF IInv, ClaimsAreDistinct

\* What a tick holds are jobs.
LEMMA HeldAreJobs ==
  ASSUME IInv, NEW d \in Drainers
  PROVE  Held(d) \subseteq Jobs
  BY Zenon DEF IInv, TypeOK, Held

\* A step that leaves what each tick holds as it is leaves the claims alone.
LEMMA SameClaims ==
  ASSUME \A d \in Drainers : Held(d)' = Held(d),
         \A d \in Drainers : \A j \in Held(d) : ClaimOf(d, j)' = ClaimOf(d, j)
  PROVE  Claims' = Claims
<1>1. \A c : c \in Claims' <=> c \in Claims
  BY InClaims
<1>2. QED
  BY <1>1, Zenon

LEMMA InitRefines == Init => Queue!Init
<1> SUFFICES ASSUME Init PROVE Queue!Init
  BY Zenon
<1>1. \A d \in Drainers : Held(d) = {}
  BY Zenon DEF Init, Held
<1>2. Claims = {}
  BY <1>1, InClaims, Zenon
<1>3. QED
  BY <1>2, Zenon DEF Init, Queue!Init

-----------------------------------------------------------------------------
\* A job in the hands of a tick comes back: the one claim changes its stage.
LEMMA ReturnRefines ==
  ASSUME IInv, NEW d \in Drainers, NEW j \in Held(d), NEW stage \in {"succeeded", "failed"},
         StageOf(d, j) = "held",
         UNCHANGED <<status, attempts, copy>>,
         \A e \in Drainers : Held(e)' = Held(e),
         \A e \in Drainers : \A k \in Held(e) : e # d \/ k # j => StageOf(e, k)' = StageOf(e, k),
         StageOf(d, j)' = stage
  PROVE  Queue!Return(j)
<1> DEFINE c == ClaimOf(d, j)
           b == <<j, copy[d][j], stage>>
<1>1. c \in Claims /\ c[1] = j /\ c[2] = copy[d][j] /\ c[3] = "held"
  BY InClaims, Zenon DEF ClaimOf
<1>2. ClaimOf(d, j)' = b
  BY Zenon DEF ClaimOf
<1>3. \A e \in Drainers : \A k \in Held(e) : e # d \/ k # j => ClaimOf(e, k)' = ClaimOf(e, k) /\ ClaimOf(e, k) # c
  BY ClaimsDiffer DEF ClaimOf
<1>4. ASSUME NEW x PROVE x \in Claims' <=> x \in (Claims \ {c}) \cup {b}
  <2>1. x \in Claims' <=> \E e \in Drainers : \E k \in Held(e) : x = ClaimOf(e, k)'
    BY InClaims, Zenon
  <2>2. ASSUME NEW e \in Drainers, NEW k \in Held(e), x = ClaimOf(e, k)'
        PROVE  x \in (Claims \ {c}) \cup {b}
    <3>1. CASE e = d /\ k = j
      BY <1>2, <2>2, <3>1, Zenon
    <3>2. CASE e # d \/ k # j
      BY <1>3, <2>2, <3>2, InClaims
    <3>3. QED
      BY <3>1, <3>2, Zenon
  <2>3. ASSUME x \in Claims, x # c PROVE x \in Claims'
    <3>0. PICK e \in Drainers : \E k \in Held(e) : x = ClaimOf(e, k)
      BY <2>3, InClaims, Zenon
    <3>1. PICK k \in Held(e) : x = ClaimOf(e, k)
      BY <3>0, Zenon
    <3>2. x = ClaimOf(e, k)'
      BY <1>3, <2>3, <3>1, Zenon
    <3>3. QED
      BY <2>1, <3>2, Zenon
  <2>4. b \in Claims'
    BY <1>2, InClaims, Zenon
  <2>5. QED
    BY <2>1, <2>2, <2>3, <2>4, Zenon
<1>5. Claims' = (Claims \ {c}) \cup {b}
  BY <1>4, Zenon
<1>6. QED
  BY <1>1, <1>5, Zenon DEF Queue!Return

\* A tick lets go of jobs: their claims go, and no others.
LEMMA ReleaseRefines ==
  ASSUME IInv, NEW d \in Drainers, NEW S,
         Held(d)' = Held(d) \ S,
         \A k \in Held(d) \ S : ClaimOf(d, k)' = ClaimOf(d, k),
         \A e \in Drainers \ {d} : Held(e)' = Held(e),
         \A e \in Drainers \ {d} : \A k \in Held(e) : ClaimOf(e, k)' = ClaimOf(e, k)
  PROVE  Claims' = Claims \ {ClaimOf(d, k) : k \in Held(d) \cap S}
<1> DEFINE lost == {ClaimOf(d, k) : k \in Held(d) \cap S}
<1>1. ASSUME NEW e \in Drainers, NEW k \in Held(e), e # d \/ k \notin S
      PROVE  ClaimOf(e, k) \notin lost /\ ClaimOf(e, k)' = ClaimOf(e, k) /\ k \in Held(e)'
  <2>1. ASSUME NEW i \in Held(d) \cap S PROVE ClaimOf(e, k) # ClaimOf(d, i)
    BY <1>1, ClaimsDiffer DEF ClaimOf
  <2>2. QED
    BY <1>1, <2>1, Zenon
<1>2. ASSUME NEW x PROVE x \in Claims' <=> x \in Claims \ lost
  <2>1. ASSUME x \in Claims' PROVE x \in Claims \ lost
    <3>0. PICK e \in Drainers : \E k \in Held(e)' : x = ClaimOf(e, k)'
      BY <2>1, InClaims, Zenon
    <3>1. PICK k \in Held(e)' : x = ClaimOf(e, k)'
      BY <3>0, Zenon
    <3>2. k \in Held(e) /\ (e # d \/ k \notin S)
      BY <3>1, Zenon
    <3>3. QED
      BY <1>1, <3>1, <3>2, InClaims
  <2>2. ASSUME x \in Claims, x \notin lost PROVE x \in Claims'
    <3>0. PICK e \in Drainers : \E k \in Held(e) : x = ClaimOf(e, k)
      BY <2>2, InClaims, Zenon
    <3>1. PICK k \in Held(e) : x = ClaimOf(e, k)
      BY <3>0, Zenon
    <3>2. e # d \/ k \notin S
      BY <2>2, <3>1, Zenon
    <3>3. QED
      BY <1>1, <3>1, <3>2, InClaims, Zenon
  <2>3. QED
    BY <2>1, <2>2, Zenon
<1>3. QED
  BY <1>2, Zenon

-----------------------------------------------------------------------------
\* Every step of the queue is a step of the abstract one, or none.
LEMMA StepRefines == IInv /\ [Next]_vars => [Queue!Next]_(Queue!vars)
<1> SUFFICES ASSUME IInv, [Next]_vars PROVE Queue!Next \/ UNCHANGED Queue!vars
  BY Zenon DEF Queue!vars
<1> USE DEF IInv
<1>0. NoJob \notin Jobs
  BY ConstantsAssumption, Zenon
<1>1. ASSUME UNCHANGED <<status, attempts, phase, batch, running, copy>> PROVE UNCHANGED Queue!vars
  <2>1. Claims' = Claims
    BY <1>1, SameClaims, Zenon DEF Held, ClaimOf, StageOf
  <2>2. QED
    BY <1>1, <2>1, Zenon DEF Queue!vars
<1>2. CASE Advance
  BY <1>1, <1>2, Zenon DEF Advance, row, tick
<1>3. ASSUME NEW j \in Jobs, Enqueue(j) PROVE Queue!Next
  <2>1. UNCHANGED <<phase, batch, running, copy>>
    BY <1>3, Zenon DEF Enqueue, tick
  <2>2. Claims' = Claims
    BY <2>1, SameClaims, Zenon DEF Held, ClaimOf, StageOf
  <2>3. Queue!Enqueue(j)
    BY <1>3, <2>2, Zenon DEF Enqueue, Queue!Enqueue
  <2>4. QED
    BY <2>3, Zenon DEF Queue!Next
<1>4. ASSUME NEW d \in Drainers, StartTick(d) \/ SelectDue(d) \/ EndTick(d) PROVE UNCHANGED Queue!vars
  <2>1. UNCHANGED <<status, attempts, running, copy>>
    BY <1>4, Zenon DEF StartTick, SelectDue, EndTick, row
  <2>2. \A e \in Drainers : Held(e)' = Held(e)
    BY <1>4, Zenon DEF StartTick, SelectDue, EndTick, Held, TypeOK, RunningInv, Busy
  <2>3. \A e \in Drainers : \A k \in Held(e) : ClaimOf(e, k)' = ClaimOf(e, k)
    BY <1>4, <2>1, Zenon DEF StartTick, SelectDue, EndTick, Held, TypeOK, ClaimOf, StageOf
  <2>4. QED
    BY <2>1, <2>2, <2>3, SameClaims, Zenon DEF Queue!vars
<1>5. ASSUME NEW d \in Drainers, CommitClaim(d) PROVE Queue!Next
  <2>1. Held(d) = {} /\ Held(d)' = batch[d] /\ batch[d] \subseteq Jobs /\ running'[d] = NoJob
    BY <1>5, Zenon DEF CommitClaim, Held, TypeOK, RunningInv, Busy
  <2>2. \A k \in batch[d] : ClaimOf(d, k)' = <<k, attempts[k] + 1, "held">>
    BY <1>5, <2>1, Zenon DEF CommitClaim, ClaimOf, StageOf, TypeOK
  <2>3. \A e \in Drainers \ {d} :
          Held(e)' = Held(e) /\ \A k \in Held(e) : ClaimOf(e, k)' = ClaimOf(e, k)
    BY <1>5, Zenon DEF CommitClaim, Held, ClaimOf, StageOf, TypeOK
  <2>4. \A x : x \in Claims' <=> x \in Claims \cup {<<k, attempts[k] + 1, "held">> : k \in batch[d]}
    BY <2>1, <2>2, <2>3, InClaims, SMTT(20)
  <2>5. Claims' = Claims \cup {<<k, attempts[k] + 1, "held">> : k \in batch[d]}
    BY <2>4, Zenon
  <2>6. \A n \in Nat : Queue!Counted(n) = n + 1
    BY DEF Queue!Counted
  <2>7. \A k \in Jobs : Queue!Counted(attempts[k]) = attempts[k] + 1
    BY <2>6, Zenon DEF TypeOK
  <2>8. \A k \in batch[d] : Queue!Takeable(k)
    BY <1>5, Zenon DEF CommitClaim, LockInv, Claimable, Queue!Takeable
  <2>9. Queue!Claim(batch[d])
    <3>1. attempts' = [k \in Jobs |-> IF k \in batch[d] THEN Queue!Counted(attempts[k]) ELSE attempts[k]]
      BY <1>5, <2>7, Zenon DEF CommitClaim
    <3>2. Claims' = Claims \cup {<<k, Queue!Counted(attempts[k]), "held">> : k \in batch[d]}
      BY <2>1, <2>5, <2>7, Zenon
    <3>3. QED
      BY <1>5, <2>8, <3>1, <3>2, Zenon DEF CommitClaim, Queue!Claim
  <2>10. QED
    BY <2>1, <2>9, Zenon DEF Queue!Next
<1>6. ASSUME NEW d \in Drainers, RunNext(d) PROVE Queue!Next \/ UNCHANGED Queue!vars
  <2>1. PICK j \in batch[d] :
          /\ running' = [running EXCEPT ![d] = j]
          /\ batch' = [batch EXCEPT ![d] = @ \ {j}]
          /\ phase' = [phase EXCEPT ![d] = Dispatch(j)]
    BY <1>6, Zenon DEF RunNext
  <2>2. phase[d] = "draining" /\ running[d] = NoJob /\ j \in Jobs /\ UNCHANGED <<status, attempts, copy>>
    BY <1>6, <2>1, Zenon DEF RunNext, RunningInv, Busy, TypeOK, row
  <2>3. \A e \in Drainers : Held(e)' = Held(e)
    <3>1. /\ batch'[d] = batch[d] \ {j} /\ running'[d] = j /\ phase'[d] = Dispatch(j)
          /\ \A e \in Drainers \ {d} : batch'[e] = batch[e] /\ running'[e] = running[e] /\ phase'[e] = phase[e]
      BY <2>1, Zenon DEF TypeOK
    <3>2. Held(d) = batch[d]
      BY <2>2, Zenon DEF Held
    <3>3. Held(d)' = (batch[d] \ {j}) \cup ({j} \ {NoJob})
      BY <3>1, Zenon DEF Held, Dispatch
    <3>4. Held(d)' = Held(d)
      BY <1>0, <2>2, <3>2, <3>3, Zenon
    <3>5. \A e \in Drainers \ {d} : Held(e)' = Held(e)
      BY <3>1, Zenon DEF Held
    <3>6. QED
      BY <3>4, <3>5, Zenon
  <2>4. \A e \in Drainers : \A k \in Held(e) : e # d \/ k # j => StageOf(e, k)' = StageOf(e, k)
    BY <2>1, <2>2, Zenon DEF StageOf, TypeOK
  <2>5. j \in Held(d) /\ StageOf(d, j) = "held"
    BY <2>1, <2>2, Zenon DEF Held, StageOf
  <2>6. CASE Dispatch(j) = "failed"
    <3>1. StageOf(d, j)' = "failed"
      BY <2>1, <2>6, Zenon DEF StageOf, TypeOK
    <3>2. Queue!Return(j)
      BY <2>2, <2>3, <2>4, <2>5, <3>1, ReturnRefines, Zenon
    <3>3. QED
      BY <2>2, <3>2, Zenon DEF Queue!Next
  <2>7. CASE Dispatch(j) = "handling"
    <3>1. StageOf(d, j)' = "held"
      BY <2>1, <2>7, Zenon DEF StageOf, TypeOK
    <3>2. \A e \in Drainers : \A k \in Held(e) : ClaimOf(e, k)' = ClaimOf(e, k)
      BY <2>2, <2>4, <2>5, <3>1, Zenon DEF ClaimOf
    <3>3. QED
      BY <2>2, <2>3, <3>2, SameClaims, Zenon DEF Queue!vars
  <2>8. QED
    BY <2>6, <2>7, Zenon DEF Dispatch
<1>7. ASSUME NEW d \in Drainers, HandlerCommits(d) \/ HandlerThrows(d) PROVE Queue!Next
  <2>1. PICK stage \in {"succeeded", "failed"} : phase' = [phase EXCEPT ![d] = stage]
    BY <1>7, Zenon DEF HandlerCommits, HandlerThrows
  <2>2. phase[d] = "handling" /\ UNCHANGED <<status, attempts, batch, running, copy>>
    BY <1>7, Zenon DEF HandlerCommits, HandlerThrows, row
  <2>3. PICK j \in Jobs : j = running[d]
    BY <2>2, Zenon DEF RunningInv, Busy
  <2>4. \A e \in Drainers : Held(e)' = Held(e)
    BY <2>1, <2>2, Zenon DEF Held, TypeOK
  <2>5. \A e \in Drainers : \A k \in Held(e) : e # d \/ k # j => StageOf(e, k)' = StageOf(e, k)
    BY <2>1, <2>2, <2>3, Zenon DEF StageOf, TypeOK
  <2>6. j \in Held(d) /\ StageOf(d, j) = "held" /\ StageOf(d, j)' = stage
    <3>1. j \in Held(d)
      BY <1>0, <2>2, <2>3, Zenon DEF Held
    <3>2. StageOf(d, j) = "held"
      BY <2>2, Zenon DEF StageOf
    <3>3. phase'[d] = stage /\ running'[d] = j
      BY <2>1, <2>2, <2>3, Zenon DEF TypeOK
    <3>4. QED
      BY <3>1, <3>2, <3>3, Zenon DEF StageOf
  <2>7. Queue!Return(j)
    BY <2>2, <2>4, <2>5, <2>6, ReturnRefines, Zenon
  <2>8. QED
    BY <2>3, <2>7, Zenon DEF Queue!Next
<1>8. ASSUME NEW d \in Drainers, Complete(d) \/ Fail(d) PROVE Queue!Next
  <2>1. phase[d] \in {"succeeded", "failed"}
    BY <1>8, Zenon DEF Complete, Fail
  <2>2. PICK j \in Jobs : j = running[d]
    BY <2>1, Zenon DEF RunningInv, Busy
  <2>3. /\ phase' = [phase EXCEPT ![d] = "draining"]
        /\ running' = [running EXCEPT ![d] = NoJob]
        /\ copy' = [copy EXCEPT ![d][j] = 0]
        /\ UNCHANGED <<attempts, batch>>
    BY <1>8, <2>2, Zenon DEF Complete, Fail, Settled
  <2>4. j \in Held(d) /\ j \notin batch[d] /\ Held(d) = batch[d] \cup {j} /\ Held(d)' = batch[d]
    <3>1. phase'[d] = "draining" /\ running'[d] = NoJob /\ batch'[d] = batch[d]
      BY <2>3, Zenon DEF TypeOK
    <3>2. Held(d)' = batch[d]
      BY <3>1, Zenon DEF Held
    <3>3. Held(d) = batch[d] \cup {j}
      BY <1>0, <2>1, <2>2, Zenon DEF Held
    <3>4. j \notin batch[d]
      BY <2>1, <2>2, Zenon DEF RunningInv, Busy
    <3>5. QED
      BY <3>2, <3>3, <3>4, Zenon
  <2>5. \A k \in batch[d] : ClaimOf(d, k)' = ClaimOf(d, k)
    <3>1. \A k \in batch[d] : k # j /\ copy'[d][k] = copy[d][k]
      BY <2>3, <2>4, Zenon DEF TypeOK
    <3>2. \A k \in batch[d] : StageOf(d, k)' = StageOf(d, k)
      BY <2>2, <2>3, <3>1, Zenon DEF StageOf, TypeOK
    <3>3. QED
      BY <3>1, <3>2, Zenon DEF ClaimOf
  <2>6. \A e \in Drainers \ {d} :
          Held(e)' = Held(e) /\ \A k \in Held(e) : ClaimOf(e, k)' = ClaimOf(e, k)
    BY <2>3, Zenon DEF Held, ClaimOf, StageOf, TypeOK
  <2>7. Claims' = Claims \ {ClaimOf(d, j)}
    <3>1. Held(d)' = Held(d) \ {j} /\ Held(d) \ {j} = batch[d] /\ Held(d) \cap {j} = {j}
      BY <2>4, Zenon
    <3>2. \A k \in Held(d) \ {j} : ClaimOf(d, k)' = ClaimOf(d, k)
      BY <2>5, <3>1, Zenon
    <3>3. Claims' = Claims \ {ClaimOf(d, k) : k \in Held(d) \cap {j}}
      BY <2>6, <3>1, <3>2, ReleaseRefines, Zenon
    <3>4. QED
      BY <3>1, <3>3, Zenon
  <2>8. ClaimOf(d, j) \in Claims
    BY <2>4, InClaims, Zenon
  <2>9. status' = [status EXCEPT ![j] = Queue!Outcome(ClaimOf(d, j))]
    BY <1>8, <2>1, <2>2, Zenon DEF Complete, Fail, FailedStatus, ClaimOf, StageOf, Queue!Outcome
  <2>10. ClaimOf(d, j)[1] = j /\ ClaimOf(d, j)[3] # "held"
    BY <2>1, <2>2, Zenon DEF ClaimOf, StageOf
  <2>11. Queue!Settle(j)
    BY <2>3, <2>7, <2>8, <2>9, <2>10, Zenon DEF Queue!Settle
  <2>12. QED
    BY <2>2, <2>11, Zenon DEF Queue!Next
<1>9. ASSUME NEW d \in Drainers, Abandon(d) PROVE Queue!Next
  <2>1. Held(d)' = {} /\ UNCHANGED <<status, attempts>>
    BY <1>9, Zenon DEF Abandon, Held, TypeOK, row
  <2>2. \A e \in Drainers \ {d} :
          Held(e)' = Held(e) /\ \A k \in Held(e) : ClaimOf(e, k)' = ClaimOf(e, k)
    BY <1>9, Zenon DEF Abandon, Held, ClaimOf, StageOf, TypeOK
  <2>3. Claims' = Claims \ {ClaimOf(d, k) : k \in Held(d) \cap Jobs}
    BY <2>1, <2>2, HeldAreJobs, ReleaseRefines, Zenon
  <2>4. {ClaimOf(d, k) : k \in Held(d) \cap Jobs} \in SUBSET Claims
    BY InClaims, Zenon
  <2>5. Queue!Lose
    BY <2>1, <2>3, <2>4, Zenon DEF Queue!Lose
  <2>6. QED
    BY <2>5, Zenon DEF Queue!Next
<1>10. CASE UNCHANGED vars
  BY <1>1, <1>10, Zenon DEF vars, row, tick
<1>11. QED
  BY <1>2, <1>3, <1>4, <1>5, <1>6, <1>7, <1>8, <1>9, <1>10, Zenon DEF Next, DrainerStep

\* The queue in Postgres keeps the promise of the abstract one: whatever ticks
\* overlap, come late or die, each claim is counted, and a claim settles its
\* own job by its own outcome (claim, complete, fail and the drainer's run).
THEOREM QueueImplementsAtLeastOnce == Spec => ImplementsAtLeastOnce
  BY InitRefines, StepRefines, Inductive, PTL DEF Spec, ImplementsAtLeastOnce, Queue!Spec
==============================================================================
