---------------------------- MODULE MCIdempotency ----------------------------
(***************************************************************************)
(* The two consumers of the idempotency store for TLC.  A key belongs to   *)
(* one of them for good: its scope says which.                             *)
(***************************************************************************)
EXTENDS Idempotency, TLC

CONSTANT Trouble

VARIABLES
  scope,                              \* "http" or "slack"
  undone,                             \* of HttpIdempotency
  event, installed, acked, stuck      \* of SlackInbound

http  == <<undone>>
slack == <<event, installed, acked, stuck>>
vars  == <<scope, store, http, slack>>

Http  == INSTANCE HttpIdempotency
Slack == INSTANCE SlackInbound

Alike == Permutations(Requests) \cup Permutations(Bodies)

Init ==
  /\ StoreInit
  /\ \/ scope = "http"  /\ event = Slack!Plain /\ Slack!SlackInit /\ undone = FALSE
     \/ scope = "slack" /\ Slack!SlackInit /\ undone = FALSE

Next ==
  /\ UNCHANGED scope
  /\ \/ scope = "http"  /\ Http!Next  /\ UNCHANGED slack
     \/ scope = "slack" /\ Slack!Next /\ UNCHANGED http

Spec == Init /\ [][Next]_vars

(* A key takes effect once per window, whatever fails, unless complete     *)
(* itself is rolled back behind a handler that committed (runAndSettle).   *)
OneEffectUnlessUndone == scope = "http" => Http!OneEffectUnlessUndone

(* A replay is of the same request's committed work, and a request         *)
(* releases its own unfinished claim only (attemptClaim, release).         *)
RecordIsTrue == [][scope = "http" => Http!RecordStaysTrue]_vars

(* An event is queued at most once, the app's own words are ignored, and   *)
(* an event that was answered but never queued can be delivered again      *)
(* (accept, readSlackMessage).                                             *)
EventIsHeardOnce == scope = "slack" => Slack!EventIsHeardOnce
==============================================================================
