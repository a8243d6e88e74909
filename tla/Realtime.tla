------------------------------- MODULE Realtime -------------------------------
(***************************************************************************)
(* One client following one room through the gateway                       *)
(* (src/src/realtime/realtime.gateway.ts) over the event log.              *)
(*                                                                         *)
(* publish (realtime.service.ts) numbers an envelope, takes the sockets of *)
(* the room and emits to each; subscribe joins and replays.  The awaits    *)
(* inside the two are on the in-memory adapter of socket.io, so they       *)
(* resolve in the microtasks of the callback that reached them and nothing *)
(* else of the process runs in between: each is one step.  What is slow is *)
(* the wire, which keeps its order and is lost with the connection.        *)
(*                                                                         *)
(* The client is external.  It does what docs/realtime/SCHEMA.md asks of   *)
(* one: it keeps its highest seq, sends it on every subscribe, discards    *)
(* what it has seen before, and refetches over REST when told of a gap and *)
(* whenever it subscribes without a cursor.                                *)
(*                                                                         *)
(* An event is known by its place among all that were ever published in    *)
(* the watched room; hist has the numbers of the running process.          *)
(***************************************************************************)
EXTENDS EventLog

CONSTANTS
  Watched,           \* the room the client follows
  MaxEvents,         \* bound: the watched room has no more events than this
  MaxUnread          \* bound: no subscribe with more than this unread on the wire

ASSUME RealtimeAssumption ==
  /\ Watched \in Rooms
  /\ MaxEvents \in Nat /\ MaxUnread \in Nat

VARIABLES
  joined,    \* the socket is in the room
  wire,      \* emitted and not yet received, in order
  cursor,    \* client: the highest seq it holds
  have,      \* client: the events it knows of, live, replayed or by REST
  acked,     \* history: the last subscribe, and whether it was told of a gap
  born,      \* history: how many events there were when this process started
  troubled   \* history: a delivery failed, or a restart lost events

client   == <<cursor, have>>
realtime == <<log, joined, wire, client, acked, born, troubled>>

Events == 1 .. born + Len(hist[Watched])
Fresh  == {i \in Events : i > born}
seq(i) == hist[Watched][i - born]
NoAck  == [after |-> 0, gap |-> TRUE]

RealtimeInit ==
  /\ LogInit
  /\ joined = FALSE /\ wire = <<>>
  /\ cursor = 0 /\ have = {}
  /\ acked = NoAck /\ born = 0 /\ troubled = FALSE

(* The envelope emitted is the one that was appended. *)
Copy(n) == n

(* publish: append, then deliver to whoever is in the room.  A failure is  *)
(* logged and the envelope not sent.                                       *)
PublishTo(r, fails) ==
  /\ r = Watched => Cardinality(Events) < MaxEvents
  /\ append(r)
  /\ fails => r = Watched /\ joined
  /\ wire' = IF r = Watched /\ joined /\ ~fails THEN Append(wire, Copy(born + Len(hist'[r]))) ELSE wire
  /\ acked' = NoAck
  /\ troubled' = (troubled \/ fails)
  /\ UNCHANGED <<joined, client, born>>

(* The events behind the numbers a replay returns, oldest first. *)
Replayed(k) ==
  LET E == {i \in Fresh : seq(i) \in replay(Watched, k)}
      nth(n) == CHOOSE i \in E : Cardinality({j \in E : j < i}) = n - 1
  IN  [n \in 1 .. Cardinality(E) |-> nth(n)]

(* Fault: the replay is sent newest first. *)
Emit_NewestFirst(s) == wire' = wire \o [i \in DOMAIN s |-> s[Len(s) + 1 - i]]

(* The replay, oldest first, behind what is on its way already. *)
Emit(s) == wire' = wire \o s

(* subscribe, once mayJoin said yes: join, replay, ack.  What the ack      *)
(* makes the client do is part of the step: on a gap it drops its cursor   *)
(* and its state and reads the room over REST, as it does the first time.  *)
Subscribe ==
  LET gapped == gap(Watched, cursor) IN
  /\ Len(wire) <= MaxUnread
  /\ joined' = TRUE
  /\ Emit(Replayed(cursor))
  /\ IF gapped \/ cursor = 0
       THEN have' = Events /\ cursor' = 0
       ELSE UNCHANGED <<have, cursor>>
  /\ acked' = [after |-> cursor, gap |-> gapped]
  /\ UNCHANGED <<log, born, troubled>>

(* An envelope reaches the client. *)
Receive ==
  /\ wire # <<>>
  /\ have' = have \cup {Head(wire)}
  /\ cursor' = Larger(cursor, seq(Head(wire)))
  /\ wire' = Tail(wire)
  /\ acked' = NoAck
  /\ UNCHANGED <<log, joined, born, troubled>>

(* unsubscribe: what was emitted before still arrives. *)
Unsubscribe ==
  /\ joined
  /\ joined' = FALSE
  /\ acked' = NoAck
  /\ UNCHANGED <<log, wire, client, born, troubled>>

(* The connection drops, with everything on its way. *)
Drop == joined' = FALSE /\ wire' = <<>> /\ acked' = NoAck

Disconnect ==
  /\ joined
  /\ Drop
  /\ UNCHANGED <<log, client, born, troubled>>

(* A new process has an empty log, and numbers from 1 again. *)
Restart ==
  /\ rooms # {}
  /\ Drop
  /\ rooms' = {} /\ evictedHighWater' = 0
  /\ head' = [r \in Rooms |-> 0] /\ low' = [r \in Rooms |-> 0]
  /\ rank' = [r \in Rooms |-> 0]
  /\ hist' = [r \in Rooms |-> <<>>]
  /\ born' = Cardinality(Events)
  /\ troubled' = TRUE
  /\ UNCHANGED client

RealtimeNext ==
  \/ \E r \in Rooms, fails \in BOOLEAN : PublishTo(r, fails)
  \/ Subscribe
  \/ Receive
  \/ Unsubscribe
  \/ Disconnect
  \/ Restart

RealtimeSpec == RealtimeInit /\ [][RealtimeNext]_realtime

------------------------------------------------------------------------------
(* The events the client knows of or is about to. *)
Reached == have \cup {wire[i] : i \in DOMAIN wire}

(* A client that is in the room and acts on every gap it is told of misses *)
(* nothing, across any number of reconnects, evictions of the room and     *)
(* overflows of its buffer, as long as no delivery fails and the process   *)
(* lives (subscribe, deliver and the client contract).                     *)
NoSilentLoss == joined /\ ~troubled => Reached = Events

(* Nothing is delivered out of order within a room: an event the client    *)
(* sees for the first time comes after every one it already knows, however *)
(* live deliveries and replays overlap (until a delivery fails: its event  *)
(* may come later, by a replay).                                           *)
FirstSightsAreInOrder ==
  [][~troubled /\ wire # <<>> /\ wire' = Tail(wire) /\ Head(wire) \notin have
       => \A i \in have : i < Head(wire)]_realtime

(* A subscribe answered without a gap brings everything this process has   *)
(* numbered after the cursor it named, whatever deliveries failed and      *)
(* however often the log was lost before (subscribe and replay).           *)
ReplayCoversTheCursor ==
  ~acked.gap /\ acked.after > 0
    => {i \in Fresh : seq(i) > acked.after} \subseteq Reached
==============================================================================
