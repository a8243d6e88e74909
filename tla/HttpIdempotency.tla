--------------------------- MODULE HttpIdempotency ---------------------------
(***************************************************************************)
(* POSTs with one Idempotency-Key through the interceptor                  *)
(* (src/src/idempotency/idempotency.interceptor.ts): claim, run the        *)
(* handler with the claim held, then complete, or release on an error.     *)
(*                                                                         *)
(* The handler is one transaction: it commits its effect or leaves none.   *)
(***************************************************************************)
EXTENDS Idempotency

VARIABLE undone   \* history: a completion was rolled back in this window

vars == <<store, undone>>

Init == StoreInit /\ undone = FALSE

(* The handler's transaction commits. *)
HandlerCommits(r) ==
  /\ pc[r] = "handle"
  /\ effects' = Append(effects, body[r])
  /\ Goto(r, "complete")
  /\ UNCHANGED <<record, body, left, undone>>

(* The handler throws: the error goes to the tap. *)
HandlerThrows(r) ==
  /\ pc[r] = "handle"
  /\ Goto(r, "release")
  /\ UNCHANGED <<record, body, left, effects, undone>>

(* complete, and the response only after it. *)
Complete(r) ==
  /\ pc[r] = "complete"
  /\ CompleteWrite
  /\ Goto(r, "done")
  /\ UNCHANGED <<body, left, effects, undone>>

(* complete commits, but the answer is lost on its way: it throws, and the *)
(* tap takes that for an error of the request.                             *)
CompleteUnsure(r) ==
  /\ pc[r] = "complete"
  /\ CompleteWrite
  /\ Goto(r, "release")
  /\ UNCHANGED <<body, left, effects, undone>>

(* Bound of the model: one completion is rolled back per window. *)
RollbackBound == ~undone

(* complete throws without having committed. *)
CompleteFails(r) ==
  /\ pc[r] = "complete"
  /\ RollbackBound
  /\ undone' = TRUE
  /\ Goto(r, "release")
  /\ UNCHANGED <<record, body, left, effects>>

(* The release of the tap; not awaited, and only logged when it fails. *)
Release(r) ==
  /\ pc[r] = "release"
  /\ ReleaseWrite \/ UNCHANGED record
  /\ Goto(r, "failed")
  /\ UNCHANGED <<body, left, effects, undone>>

Next ==
  \/ \E r \in Requests :
       \/ ClaimStep(r) /\ UNCHANGED undone
       \/ HandlerCommits(r) \/ HandlerThrows(r)
       \/ Complete(r) \/ CompleteUnsure(r) \/ CompleteFails(r)
       \/ Release(r)
  \/ Lapse /\ undone' = FALSE
  \/ Sweep /\ UNCHANGED undone

Spec == Init /\ [][Next]_vars

------------------------------------------------------------------------------
(* A replay answers for this very request: the same body, whose work has   *)
(* committed, and not for a different request that used the key.  And a    *)
(* request that fails gives back its own unfinished claim and nothing      *)
(* else: not a completed record, not another caller's claim (the mismatch  *)
(* test before the status in attemptClaim, and the guard of release).      *)
RecordStaysTrue ==
  \A r \in Requests :
    /\ pc[r] = "read" /\ pc'[r] = "replayed" /\ ~lapsed
         => effects # <<>> /\ effects[Len(effects)] = body[r]
    /\ pc[r] = "release" /\ status' # status => status = "in_progress" /\ owner = r

(* A key takes effect once per window, whatever fails, unless complete     *)
(* itself is rolled back behind a handler that committed: then the tap     *)
(* releases the key, and a retry may take effect again (runAndSettle).     *)
OneEffectUnlessUndone == ~undone => EffectAtMostOnce
==============================================================================
