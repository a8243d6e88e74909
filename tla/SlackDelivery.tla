---------------------------- MODULE SlackDelivery ----------------------------
(***************************************************************************)
(* One agent's reply on its way to Slack                                   *)
(* (src/src/slack/slack-delivery.service.ts): the outbound_delivery row,   *)
(* the job that retries it and the handlers the drainer runs for it.       *)
(*                                                                         *)
(* The job is the one AtLeastOnceQueue specifies.  Its claims carry        *)
(* distinct attempt numbers, so a handler is named by its attempt.  A      *)
(* handler runs inside a transaction of the drainer's, which stays open    *)
(* across the post and which Prisma rolls back after five seconds, and it  *)
(* opens transactions of its own for what must survive a rollback.         *)
(***************************************************************************)
EXTENDS Integers

CONSTANTS
  MaxAttempts,   \* max_attempts of the job
  Cap            \* bound: no claim after this many

ASSUME DeliveryAssumption ==
  /\ MaxAttempts \in Nat \ {0}
  /\ Cap \in Nat

Handlers == 1 .. Cap

VARIABLES
  job,        \* job.status
  attempts,   \* job.attempts
  row,        \* outbound_delivery.status
  pc,         \* where the handler of an attempt is
  open,       \* is the drainer's transaction for it still open
  audited,    \* the audit entry that the delivery was given up on
  posts,      \* the copies of the reply in the customer's thread
  announced,  \* integration.failed was emitted
  unsure      \* history: a copy was posted and the row was not told

delivery == <<job, attempts, row, pc, open, audited, posts, announced, unsure>>

Over == {"none", "over"}
Live(n) == pc[n] \notin Over

Goto(n, l) == pc' = [pc EXCEPT ![n] = l]

(* dispatchIn: the row and its job commit with the Message. *)
DeliveryInit ==
  /\ job = "ready" /\ attempts = 0
  /\ row = "pending" /\ audited = FALSE
  /\ pc = [n \in Handlers |-> "none"]
  /\ open = [n \in Handlers |-> FALSE]
  /\ posts = 0 /\ announced = FALSE /\ unsure = FALSE

------------------------------------------------------------------------------
(* The queue hands the job out: it is due, or its last handler is gone and *)
(* the lease ran out.  drainer.run opens the transaction.                  *)
Dispatch ==
  /\ job \in {"ready", "active"}
  /\ attempts < Cap
  /\ \A n \in Handlers : ~Live(n)
  /\ job' = "active"
  /\ attempts' = attempts + 1
  /\ Goto(attempts + 1, "claim")
  /\ open' = [open EXCEPT ![attempts + 1] = TRUE]
  /\ UNCHANGED <<row, audited, posts, announced, unsure>>

(* Fault: the claim is not conditional on the row being pending. *)
Claim_Any(n) ==
  /\ pc[n] = "claim"
  /\ Goto(n, "post")
  /\ UNCHANGED <<job, attempts, row, open, audited, posts, announced, unsure>>

(* claim: updateMany guarded on pending, committed on its own. *)
Claim(n) ==
  /\ pc[n] = "claim"
  /\ Goto(n, IF row = "pending" THEN "post" ELSE "return")
  /\ UNCHANGED <<job, attempts, row, open, audited, posts, announced, unsure>>

(* slack.postMessage.  An error may hide a post that was made: the answer  *)
(* timed out, or named no message.                                         *)
Post(n) ==
  /\ pc[n] = "post"
  /\ \E made \in {0, 1}, answer \in {"ok", "transient", "permanent"} :
       /\ answer = "ok" => made = 1
       /\ answer = "permanent" => made = 0
       /\ posts' = posts + made
       /\ unsure' = (unsure \/ (made = 1 /\ answer # "ok"))
       /\ Goto(n, CASE answer = "ok" -> "record"
                    [] answer = "transient" -> "fail"
                    [] answer = "permanent" -> "abandon")
  /\ \/ UNCHANGED open
     \/ open' = [open EXCEPT ![n] = FALSE]
  /\ UNCHANGED <<job, attempts, row, audited, announced>>

(* record: delivered, whatever the row said; in its own transaction. *)
Record(n) ==
  /\ pc[n] = "record"
  /\ row' = "delivered"
  /\ Goto(n, "return")
  /\ UNCHANGED <<job, attempts, open, audited, posts, announced, unsure>>

(* record throws, its commit made or not: the catch takes it for a failure *)
(* of the post.                                                            *)
RecordThrows(n) ==
  /\ pc[n] = "record"
  /\ row' \in {row, "delivered"}
  /\ unsure' = (unsure \/ row' # "delivered")
  /\ Goto(n, "fail")
  /\ UNCHANGED <<job, attempts, open, audited, posts, announced>>

(* outbound_delivery_delivered_at_matches_status: an UPDATE that takes a   *)
(* delivered row to another status leaves delivered_at behind and throws.  *)
Settleable == row # "delivered"

(* fail: the last chance is given up; otherwise back to pending, in its    *)
(* own transaction, and the error goes on to the drainer.                  *)
Fail(n) ==
  /\ pc[n] = "fail"
  /\ \/ n >= MaxAttempts /\ Goto(n, "abandon") /\ UNCHANGED row
     \/ /\ n < MaxAttempts /\ Goto(n, "throw")
        /\ row' = IF Settleable THEN "pending" ELSE row
  /\ UNCHANGED <<job, attempts, open, audited, posts, announced, unsure>>

(* settleAndAudit, on the drainer's transaction: nothing shows before it   *)
(* commits, and everything throws once it is closed.                       *)
SettleAndAudit(n) ==
  /\ pc[n] = "abandon"
  /\ Goto(n, IF open[n] /\ Settleable THEN "announce" ELSE "throw")
  /\ UNCHANGED <<job, attempts, row, open, audited, posts, announced, unsure>>

(* integrationFailed, still inside the drainer's transaction. *)
Announce(n) ==
  /\ pc[n] = "announce"
  /\ announced' = TRUE
  /\ Goto(n, "commit")
  /\ UNCHANGED <<job, attempts, row, open, audited, posts, unsure>>

(* The handler returned and withTenant commits what abandon wrote. *)
Commit(n) ==
  /\ pc[n] = "commit"
  /\ row' = "dead" /\ audited' = TRUE
  /\ Goto(n, "complete")
  /\ UNCHANGED <<job, attempts, open, posts, announced, unsure>>

(* The handler returned with nothing written; a closed transaction makes   *)
(* even that commit throw.                                                 *)
Return(n) ==
  /\ pc[n] = "return"
  /\ Goto(n, IF open[n] THEN "complete" ELSE "throw")
  /\ UNCHANGED <<job, attempts, row, open, audited, posts, announced, unsure>>

(* queue.complete *)
Complete(n) ==
  /\ pc[n] = "complete"
  /\ job' = "done"
  /\ Goto(n, "over")
  /\ UNCHANGED <<attempts, row, open, audited, posts, announced, unsure>>

(* Fault: the drainer buries a job one attempt before fail gives up on it. *)
SettleFailure_Early(n) ==
  /\ pc[n] = "throw"
  /\ job' = IF n + 1 >= MaxAttempts THEN "dead" ELSE "ready"
  /\ Goto(n, "over")
  /\ UNCHANGED <<attempts, row, open, audited, posts, announced, unsure>>

(* settleFailure, queue.fail *)
SettleFailure(n) ==
  /\ pc[n] = "throw"
  /\ job' = IF n >= MaxAttempts THEN "dead" ELSE "ready"
  /\ Goto(n, "over")
  /\ UNCHANGED <<attempts, row, open, audited, posts, announced, unsure>>

(* The process dies: the drainer's transaction rolls back, the rest stays. *)
Die(n) ==
  /\ Live(n)
  /\ unsure' = (unsure \/ pc[n] = "record")
  /\ Goto(n, "over")
  /\ UNCHANGED <<job, attempts, row, open, audited, posts, announced>>

DeliveryNext ==
  \/ Dispatch
  \/ \E n \in Handlers :
       \/ Claim(n) \/ Post(n) \/ Record(n) \/ RecordThrows(n) \/ Fail(n)
       \/ SettleAndAudit(n) \/ Announce(n) \/ Commit(n) \/ Return(n)
       \/ Complete(n) \/ SettleFailure(n) \/ Die(n)

DeliverySpec == DeliveryInit /\ [][DeliveryNext]_delivery

------------------------------------------------------------------------------
(* "the job owns retry, this row owns delivery": when the queue is done    *)
(* with the job, the row says how the delivery ended, so that no pending   *)
(* row is left that nothing will try again; and nobody's reply is given up *)
(* on in silence: a dead delivery was audited and announced (fail and      *)
(* abandon, against the drainer's settleFailure).  The exception is a last *)
(* attempt whose post outlasted the drainer's transaction, on which        *)
(* abandon writes.                                                         *)
JobEndsWithTheDelivery ==
  /\ job \in {"done", "dead"} => row # "pending" \/ ~open[attempts]
  /\ row = "dead" => audited /\ announced

(* The customer reads the reply twice only when a copy was posted and      *)
(* nobody could tell the row: its answer was lost, record failed or the    *)
(* process died before it.  Once the row says delivered it says so for     *)
(* ever and no further copy is posted, whatever attempts are retried or    *)
(* given up on afterwards (claim's guard on pending, record, the CHECK).   *)
SecondCopyOnlyWhenUnsure ==
  [][/\ ~unsure' => posts' <= 1
     /\ row = "delivered" => row' = "delivered" /\ posts' = posts]_delivery
==============================================================================
