----------------------------- MODULE Idempotency -----------------------------
(***************************************************************************)
(* The idempotency store (src/src/idempotency/idempotency.service.ts) for  *)
(* one key, with everything that claims and settles it running at once.    *)
(* Each method opens transactions of its own, so each of its statements is *)
(* a step.  What a claim guards is left to the two consumers:              *)
(* HttpIdempotency and SlackInbound.                                       *)
(*                                                                         *)
(* Time appears as Lapse: expires_at goes by.  The retention window is a   *)
(* day, so it never goes by while the claim's holder is still at work.     *)
(***************************************************************************)
EXTENDS Integers, Sequences

CONSTANTS
  Requests,          \* callers that may be at work on the key at once
  NoRequest,
  Bodies,            \* request fingerprints
  NoBody,
  RECLAIM_ATTEMPTS

ASSUME IdempotencyAssumption ==
  /\ NoRequest \notin Requests
  /\ NoBody \notin Bodies
  /\ RECLAIM_ATTEMPTS \in Nat

VARIABLES
  status,    \* idempotency_record.status; "absent" when there is no row
  hash,      \* request_hash
  lapsed,    \* expires_at <= CURRENT_TIMESTAMP
  owner,     \* history: who made the claim that stands
  pc,        \* where a caller is, or how it ended
  body,      \* the caller's fingerprint
  left,      \* attemptClaim's `remaining`
  effects    \* history: the bodies whose guarded work committed in this window

record == <<status, hash, lapsed, owner>>
store  == <<record, pc, body, left, effects>>

Working == {"handle", "complete", "release"}
Ended   == {"idle", "done", "replayed", "in_flight", "mismatch", "failed", "crashed"}

Goto(r, l) == pc' = [pc EXCEPT ![r] = l]

StoreInit ==
  /\ status = "absent" /\ hash = NoBody /\ lapsed = FALSE /\ owner = NoRequest
  /\ pc = [r \in Requests |-> "idle"]
  /\ body = [r \in Requests |-> NoBody]
  /\ left = [r \in Requests |-> 0]
  /\ effects = <<>>

(* The row as r's claim leaves it. *)
Claimed(r) ==
  status' = "in_progress" /\ hash' = body[r] /\ lapsed' = FALSE /\ owner' = r

Gone == status' = "absent" /\ hash' = NoBody /\ lapsed' = FALSE /\ owner' = NoRequest

------------------------------------------------------------------------------
(* claim: a caller arrives with the key. *)
Arrive(r, b) ==
  /\ pc[r] \in Ended
  /\ Goto(r, "insert")
  /\ body' = [body EXCEPT ![r] = b]
  /\ left' = [left EXCEPT ![r] = RECLAIM_ATTEMPTS]
  /\ UNCHANGED <<record, effects>>

(* attemptClaim's INSERT: the unique index is the arbiter. *)
Insert(r) ==
  /\ pc[r] = "insert"
  /\ IF status = "absent" THEN Claimed(r) /\ Goto(r, "handle")
                          ELSE UNCHANGED record /\ Goto(r, "reclaim")
  /\ UNCHANGED <<body, left, effects>>

(* Fault: the deadline is not tested in the statement that reclaims. *)
Reclaimable_Any == status # "absent"

(* WHERE expires_at <= CURRENT_TIMESTAMP. *)
Reclaimable == status # "absent" /\ lapsed

(* The conditional UPDATE, in a transaction of its own. *)
Reclaim(r) ==
  /\ pc[r] = "reclaim"
  /\ IF Reclaimable THEN Claimed(r) /\ Goto(r, "handle")
                    ELSE UNCHANGED record /\ Goto(r, "read")
  /\ UNCHANGED <<body, left, effects>>

(* Fault: the status is tested before the payload. *)
Verdict_StatusFirst(r) ==
  IF status = "in_progress" THEN "in_flight" ELSE "replayed"

(* What a standing record means to a caller that did not get it. *)
Verdict(r) ==
  CASE hash # body[r]                              -> "mismatch"
    [] hash = body[r] /\ status = "in_progress"    -> "in_flight"
    [] OTHER                                       -> "replayed"

(* findFirst; a row that vanished in between is tried for again. *)
Read(r) ==
  /\ pc[r] = "read"
  /\ IF status # "absent" THEN Goto(r, Verdict(r)) /\ UNCHANGED left
     ELSE IF left[r] > 0  THEN Goto(r, "insert") /\ left' = [left EXCEPT ![r] = @ - 1]
                          ELSE Goto(r, "in_flight") /\ UNCHANGED left
  /\ UNCHANGED <<record, body, effects>>

------------------------------------------------------------------------------
(* complete: updateMany, whoever the in_progress row belongs to by now. *)
CompleteWrite ==
  IF status = "in_progress" THEN status' = "completed" /\ UNCHANGED <<hash, lapsed, owner>>
                            ELSE UNCHANGED record

(* release: deleteMany, guarded in the same way. *)
ReleaseWrite == IF status = "in_progress" THEN Gone ELSE UNCHANGED record

(* The process dies under a caller: whatever it committed stays. *)
Crash(r) ==
  /\ pc[r] \notin Ended
  /\ Goto(r, "crashed")
  /\ UNCHANGED <<record, body, left, effects>>

(* A day goes by.  Another window begins. *)
Lapse ==
  /\ status # "absent" /\ ~lapsed
  /\ \A r \in Requests : pc[r] \notin Working
  /\ lapsed' = TRUE
  /\ effects' = <<>>
  /\ UNCHANGED <<status, hash, owner, pc, body, left>>

(* idempotency-retention.sweep.ts *)
Sweep ==
  /\ status # "absent" /\ lapsed
  /\ Gone
  /\ UNCHANGED <<pc, body, left, effects>>

ClaimStep(r) ==
  \/ \E b \in Bodies : Arrive(r, b)
  \/ Insert(r)
  \/ Reclaim(r)
  \/ Read(r)
  \/ Crash(r)

------------------------------------------------------------------------------
(* The one outcome the module exists to prevent: within one window the     *)
(* guarded work commits at most once, however many callers race, crash or  *)
(* come back.                                                              *)
EffectAtMostOnce == Len(effects) <= 1
==============================================================================
