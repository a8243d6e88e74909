---------------------------- MODULE SlackInbound -----------------------------
(***************************************************************************)
(* The deliveries of one Slack event                                       *)
(* (src/src/slack/slack-inbound.service.ts, accept): verify the signature, *)
(* read the envelope, find the installation, claim the event id, queue the *)
(* job, complete the claim, answer 200.  The signing secret is configured; *)
(* without it every request is refused.                                    *)
(*                                                                         *)
(* Slack sends the event again, possibly before the first delivery is      *)
(* answered, until one of them gets its 200.  It gives up within the hour, *)
(* so the record's deadline never comes into it.                           *)
(***************************************************************************)
EXTENDS Idempotency

CONSTANT Trouble   \* what may go wrong: crash, enqueue, release, complete, installation

VARIABLES
  event,      \* the body Slack sends, the same every time
  installed,  \* the workspace's row in slack_installation
  acked,      \* Slack has had a 200 for this event
  stuck       \* history: a claim was left behind by a crash or a release that failed

slack == <<event, installed, acked, stuck>>
vars  == <<store, slack>>

------------------------------------------------------------------------------
(* A person's reply in a thread, and what else may come. *)
Said  == [type |-> "message", subtype |-> FALSE, bot_id |-> FALSE, user |-> "person",
          complete |-> TRUE, thread_ts |-> "another"]
Plain == [json |-> TRUE, type |-> "event_callback", challenge |-> FALSE, ids |-> TRUE, event |-> Said]

Messages ==
  {Said, [Said EXCEPT !.thread_ts = "none"], [Said EXCEPT !.thread_ts = "ts"],
   [Said EXCEPT !.type = "reaction_added"], [Said EXCEPT !.subtype = TRUE], [Said EXCEPT !.user = "none"],
   [Said EXCEPT !.bot_id = TRUE], [Said EXCEPT !.user = "bot"], [Said EXCEPT !.complete = FALSE]}

Events ==
  {[Plain EXCEPT !.event = m] : m \in Messages} \cup
  {[Plain EXCEPT !.json = FALSE], [Plain EXCEPT !.ids = FALSE], [Plain EXCEPT !.type = "app_rate_limited"],
   [Plain EXCEPT !.type = "url_verification"],
   [Plain EXCEPT !.type = "url_verification", !.challenge = TRUE]}

(* The words are the app's own, which Slack sends back like any others. *)
Own(m) == m.bot_id \/ m.user = "bot"

(* verifySignature, on the headers of one delivery: its age in replay      *)
(* windows, either way.                                                    *)
verifySignature(signature, age) ==
  IF signature = "missing" THEN "missing_headers"
  ELSE IF age > 1 \/ age < -1 THEN "stale_timestamp"
  ELSE IF signature = "other" THEN "bad_signature"
  ELSE "ok"

readSlackEnvelope(body_) ==
  IF body_.type = "url_verification" THEN IF body_.challenge THEN "challenge" ELSE "ignored"
  ELSE IF body_.type = "event_callback" /\ body_.ids THEN "event"
  ELSE "ignored"

(* What the job's handler will take the event for. *)
readSlackMessage(m) ==
  IF m.type # "message" \/ m.subtype \/ m.bot_id \/ m.user \in {"none", "bot"} \/ ~m.complete
  THEN "ignored"
  ELSE IF m.thread_ts \in {"none", "ts"} THEN "opens" ELSE "replies"

(* accept up to its first await. *)
gate(signature, age) ==
  IF verifySignature(signature, age) # "ok" THEN "refuse"
  ELSE IF ~event.json \/ readSlackEnvelope(event) = "ignored" THEN "ack"
  ELSE IF readSlackEnvelope(event) = "challenge" THEN "challenge"
  ELSE "resolve"

------------------------------------------------------------------------------
SlackInit == event \in Events /\ installed = TRUE /\ acked = FALSE /\ stuck = FALSE

Init == StoreInit /\ SlackInit

(* A delivery arrives, and is answered at once or goes on. *)
Deliver(r, signature, age) ==
  LET g == gate(signature, age) IN
  /\ ~acked /\ pc[r] \in Ended
  /\ Goto(r, CASE g = "resolve" -> g [] g = "refuse" -> "failed" [] OTHER -> "done")
  /\ acked' = (g \in {"ack", "challenge"})
  /\ UNCHANGED <<record, body, left, effects, event, installed, stuck>>

(* installations.resolve, then claim, which is given no request hash; an   *)
(* unknown workspace is acked and dropped.                                 *)
Resolve(r) ==
  /\ pc[r] = "resolve"
  /\ IF installed
     THEN Goto(r, "insert") /\ left' = [left EXCEPT ![r] = RECLAIM_ATTEMPTS] /\ UNCHANGED acked
     ELSE Goto(r, "done") /\ acked' = TRUE /\ UNCHANGED left
  /\ UNCHANGED <<record, body, effects, event, installed, stuck>>

(* The workspace removes the app, or adds it again. *)
Reinstall ==
  /\ "installation" \in Trouble
  /\ installed' = ~installed
  /\ UNCHANGED <<store, event, acked, stuck>>

(* claim; whatever is not fresh is acked and dropped. *)
Claim(r) ==
  /\ Insert(r) \/ Reclaim(r) \/ Read(r)
  /\ acked' = (acked \/ pc'[r] \in {"in_flight", "replayed", "mismatch"})
  /\ UNCHANGED <<event, installed, stuck>>

(* queue.enqueue, in a transaction. *)
Enqueue(r) ==
  /\ pc[r] = "handle"
  /\ effects' = Append(effects, readSlackMessage(event.event))
  /\ Goto(r, "complete")
  /\ UNCHANGED <<record, body, left, slack>>

EnqueueFails(r) ==
  /\ "enqueue" \in Trouble
  /\ pc[r] = "handle"
  /\ Goto(r, "release")
  /\ UNCHANGED <<record, body, left, effects, slack>>

(* The key goes back, and Slack gets the error. *)
Release(r) ==
  /\ pc[r] = "release"
  /\ \/ ReleaseWrite /\ UNCHANGED stuck
     \/ "release" \in Trouble /\ UNCHANGED record /\ stuck' = TRUE
  /\ Goto(r, "failed")
  /\ UNCHANGED <<body, left, effects, event, installed, acked>>

Complete(r) ==
  /\ pc[r] = "complete"
  /\ CompleteWrite
  /\ Goto(r, "done")
  /\ acked' = TRUE
  /\ UNCHANGED <<body, left, effects, event, installed, stuck>>

(* Fault: the completion stands inside the try, so its failure frees the key. *)
CompleteFails_Releases(r) ==
  /\ "complete" \in Trouble
  /\ pc[r] = "complete"
  /\ Goto(r, "release")
  /\ UNCHANGED <<record, body, left, effects, slack>>

(* complete stands outside the try: its failure releases nothing. *)
CompleteFails(r) ==
  /\ "complete" \in Trouble
  /\ pc[r] = "complete"
  /\ CompleteWrite \/ UNCHANGED record
  /\ Goto(r, "failed")
  /\ UNCHANGED <<body, left, effects, slack>>

Die(r) ==
  /\ "crash" \in Trouble
  /\ Crash(r)
  /\ stuck' = (stuck \/ pc[r] \in {"handle", "release"})
  /\ UNCHANGED <<event, installed, acked>>

Next ==
  \/ \E r \in Requests :
       \/ \E signature \in {"ours", "other", "missing"}, age \in {-2, 0, 1, 2} : Deliver(r, signature, age)
       \/ Resolve(r) \/ Claim(r)
       \/ Enqueue(r) \/ EnqueueFails(r) \/ Release(r)
       \/ Complete(r) \/ CompleteFails(r)
       \/ Die(r)
  \/ Reinstall

Spec == Init /\ [][Next]_vars

------------------------------------------------------------------------------
(* An event is queued at most once, however its deliveries overlap and     *)
(* whatever fails, and never for what is no event; the app's own words,    *)
(* sent back to it, are nothing its handler listens to (accept,            *)
(* readSlackMessage).  And an event that was never queued is not lost:     *)
(* once every delivery so far has been answered its key is free again, so  *)
(* that Slack's next delivery gets through instead of being dropped as a   *)
(* duplicate (the catch of accept), unless a process died with the claim   *)
(* or its release failed.                                                  *)
EventIsHeardOnce ==
  /\ EffectAtMostOnce
  /\ effects # <<>> =>
       /\ event.json /\ event.type = "event_callback"
       /\ Own(event.event) => effects = <<"ignored">>
  /\ ~stuck /\ effects = <<>> /\ (\A r \in Requests : pc[r] \in Ended) => status = "absent"

(* slack-inbound.service.ts:173: a redelivery is dropped because           *)
(* "somebody already owns it": once Slack has been told yes, the job is    *)
(* queued, or a delivery still at work is about to queue it.               *)
DroppedIsOwned ==
  acked /\ gate("ours", 0) = "resolve" => effects # <<>> \/ \E r \in Requests : pc[r] = "handle"
==============================================================================
