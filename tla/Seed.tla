--------------------------------- MODULE Seed ---------------------------------
(***************************************************************************)
(* The demo data writes Tickets with a past (src/prisma/seed/write.ts).    *)
(* The triggers stamp their clocks with the time of the seed, so the       *)
(* columns are computed anew from the plan by replay                       *)
(* (src/prisma/seed/sla.ts), a second implementation of the SLA rules, and *)
(* written over them.                                                      *)
(*                                                                         *)
(* One Ticket is written, statement by statement, at the time Now; it was  *)
(* opened at 0.  A scheduler may be running meanwhile.                     *)
(***************************************************************************)
EXTENDS SlaClock, Sequences, FiniteSetsExt

CONSTANTS
  Now,      \* when the seed runs
  Plans     \* Tickets: the path of moves, the thread, the priority, and whether it is assigned

(* A path is told in the order it happened, and nothing happens before the *)
(* Ticket or after the seed.                                               *)
ASSUME SeedAssumption ==
  /\ Now \in Nat
  /\ \A p \in Plans :
       /\ p.path \in Seq([to : States, at : 0 .. Now])
       /\ \A j, k \in DOMAIN p.path : j <= k => p.path[j].at <= p.path[k].at
       /\ p.thread \in Seq([by : {"contact", "agent", "ai"}, internal : BOOLEAN, at : 0 .. Now])
       /\ p.priority \in Priorities

VARIABLES
  plan,        \* the Ticket that is written; <<>> when none is
  written,     \* how many statements of it are
  row,
  overlapped   \* history: a sweep came between them

seed == <<plan, written, row, overlapped>>

Newborn == [state |-> "open", priority |-> Normal, pausedMs |-> 0, pauseStartedAt |-> None, firstResponseAt |-> None,
            latch |-> [t \in Timers |-> None], lastActivityAt |-> 0]

SeedInit ==
  /\ plan \in Plans \cup {<<>>}
  /\ written = 0 /\ row = Newborn /\ overlapped = FALSE

------------------------------------------------------------------------------
(* replay *)

(* Fault: a state that stops the clock is missing from the list. *)
STOPS_THE_CLOCK_NoResolved == {"pending", "closed"}

STOPS_THE_CLOCK == {"pending", "resolved", "closed"}

(* The states the Ticket went through, each with its span; the last one is *)
(* still open.                                                             *)
timeline(path) ==
  [k \in 1 .. Len(path) + 1 |->
     [state |-> IF k = 1 THEN "open" ELSE path[k - 1].to,
      from  |-> IF k = 1 THEN 0 ELSE path[k - 1].at,
      until |-> IF k > Len(path) THEN Now ELSE path[k].at,
      open  |-> k > Len(path)]]

(* One segment against a target: a pause is accumulated or still open, or  *)
(* the clock ran and may have passed the target within.                    *)
Walked(acc, segment, target) ==
  LET span == segment.until - segment.from IN
  IF segment.state \in STOPS_THE_CLOCK
  THEN IF segment.open THEN [acc EXCEPT !.pauseStartedAt = segment.from]
                       ELSE [acc EXCEPT !.pausedMs = @ + span]
  ELSE [acc EXCEPT !.activeMs = @ + span,
                   !.breachedAt = IF @ = None /\ acc.activeMs + span > target
                                  THEN segment.from + (target - acc.activeMs) ELSE @]

Answers(entry) == entry.by # "contact" /\ ~entry.internal

firstResponseBreach(thread, target) ==
  LET responses == {thread[k].at : k \in {j \in DOMAIN thread : Answers(thread[j])}}
      answeredAt == IF responses = {} THEN Now ELSE Min(responses)
  IN  IF answeredAt > target THEN target ELSE None

lastActivity(p) == Max({0} \cup {p.path[k].at : k \in DOMAIN p.path} \cup {p.thread[k].at : k \in DOMAIN p.thread})

(* The loop over the segments, after each of them. *)
walk(p) ==
  LET acc[k \in 0 .. Len(p.path) + 1] ==
        IF k = 0 THEN [pausedMs |-> 0, pauseStartedAt |-> None, activeMs |-> 0, breachedAt |-> None]
        ELSE Walked(acc[k - 1], timeline(p.path)[k], Resolution[p.priority])
  IN  acc

replay(p) ==
  LET end == walk(p)[Len(p.path) + 1]
  IN  [pausedMs       |-> end.pausedMs,
       pauseStartedAt |-> end.pauseStartedAt,
       latch          |-> [t \in Timers |-> IF t = "resolution" THEN end.breachedAt
                                            ELSE firstResponseBreach(p.thread, FirstResponse[p.priority])],
       lastActivityAt |-> lastActivity(p)]

------------------------------------------------------------------------------
(* The triggers on a row: ticket_enforce_transition for a move at t, and   *)
(* ticket_observe_message and ticket_observe_note.                         *)
enforce(r, to, t) ==
  [r EXCEPT !.state = to,
            !.pausedMs = IF r.pauseStartedAt = None THEN @ ELSE @ + (t - r.pauseStartedAt),
            !.pauseStartedAt = IF to \in Stopping THEN t ELSE None,
            !.lastActivityAt = t]

observe(r, entry) ==
  [r EXCEPT !.lastActivityAt = entry.at,
            !.firstResponseAt = IF @ = None /\ Answers(entry) THEN entry.at ELSE @]

(* The resolution clock of a row, read at t. *)
elapsed(r, t) == t - r.pausedMs - (IF r.pauseStartedAt = None THEN 0 ELSE t - r.pauseStartedAt)

(* What a sweep at t would latch. *)
dueIn(r, t) ==
  {timer \in Timers : r.latch[timer] = None /\
     IF timer = "first_response" THEN r.firstResponseAt = None /\ t > FirstResponse[r.priority]
     ELSE r.state \notin {"resolved", "closed"} /\ elapsed(r, t) > Resolution[r.priority]}

(* A latch is written once: the trigger keeps the first value. *)
latched(r, values) == [t \in Timers |-> IF r.latch[t] = None THEN values[t] ELSE r.latch[t]]

------------------------------------------------------------------------------
(* writeTicket *)

(* The sort is stable: an entry's place is how many are before it. *)
chronological(thread) ==
  LET before(j, k) == thread[j].at < thread[k].at \/ (thread[j].at = thread[k].at /\ j < k)
      place(k) == Cardinality({j \in DOMAIN thread : before(j, k)}) + 1
  IN  [n \in DOMAIN thread |-> thread[CHOOSE k \in DOMAIN thread : place(k) = n]]

(* The transactions of writeTicket after the first, in order. *)
Script(p) ==
  LET step(kind, what) == [kind |-> kind, what |-> what]
      thread == chronological(p.thread)
  IN  [k \in DOMAIN thread |-> step("entry", thread[k])] \o
      (IF p.priority # Normal \/ p.assigned THEN <<step("triage", <<>>)>> ELSE <<>>) \o
      [k \in DOMAIN p.path |-> step("move", p.path[k])] \o
      <<step("backdate", <<>>)>>

(* backdateClocks: the raw UPDATE, under the triggers like any other. *)
backdateClocks(r) ==
  LET clocks == replay(plan) IN
  [r EXCEPT !.pausedMs = clocks.pausedMs, !.pauseStartedAt = clocks.pauseStartedAt,
            !.latch = latched(r, clocks.latch), !.lastActivityAt = clocks.lastActivityAt]

Write ==
  /\ plan # <<>> /\ written < Len(Script(plan))
  /\ written' = written + 1
  /\ LET next == Script(plan)[written + 1] IN
     row' = CASE next.kind = "entry"    -> observe(row, next.what)
              [] next.kind = "triage"   -> [row EXCEPT !.priority = plan.priority, !.lastActivityAt = Now]
              [] next.kind = "move"     -> enforce(row, next.what.to, Now)
              [] next.kind = "backdate" -> backdateClocks(row)
  /\ UNCHANGED <<plan, overlapped>>

(* A scheduler that runs while the seed does takes the row as it stands. *)
SweepMeanwhile ==
  /\ plan # <<>> /\ ~overlapped
  /\ written < Len(Script(plan))
  /\ row' = [row EXCEPT !.latch = latched(row, [t \in Timers |-> IF t \in dueIn(row, Now) THEN Now ELSE None])]
  /\ overlapped' = TRUE
  /\ UNCHANGED <<plan, written>>

SeedNext == Write \/ SweepMeanwhile

SeedSpec == SeedInit /\ [][SeedNext]_seed

(* The Ticket had it lived through its plan: the same triggers, each at    *)
(* its time.  After each entry of the thread, and then after each move.    *)
Heard(p) ==
  LET thread == chronological(p.thread)
      r[k \in 0 .. Len(p.thread)] == IF k = 0 THEN Newborn ELSE observe(r[k - 1], thread[k])
  IN  r

Moved(p) ==
  LET r[k \in 0 .. Len(p.path)] ==
        IF k = 0 THEN Heard(p)[Len(p.thread)] ELSE enforce(r[k - 1], p.path[k].to, p.path[k].at)
  IN  r

Lived(p) == Moved(p)[Len(p.path)]

(* What the resolution clock of that Ticket showed at t. *)
Showed(p, t) == elapsed(Moved(p)[Cardinality({k \in DOMAIN p.path : p.path[k].at <= t})], t)

(* "The seeded rows are a fixed point": a Ticket the seed has written has  *)
(* the clocks it would have if it had lived, a sweep finds nothing to      *)
(* latch in it that is not latched, and a resolution breach is dated at    *)
(* the instant the clock showed the target.  The exception is a scheduler  *)
(* that sweeps while the seed is still writing: its latch is kept (replay, *)
(* backdateClocks, ticket_enforce_transition).                             *)
SeedIsAFixedPoint ==
  plan # <<>> /\ written = Len(Script(plan)) /\ ~overlapped =>
    LET lived == Lived(plan) IN
    /\ \A column \in {"state", "pausedMs", "pauseStartedAt", "firstResponseAt"} : row[column] = lived[column]
    /\ dueIn(row, Now) = {}
    /\ (row.latch["resolution"] # None) = (elapsed(lived, Now) > Resolution[plan.priority])
    /\ row.latch["resolution"] # None => Showed(plan, row.latch["resolution"]) = Resolution[plan.priority]
    /\ row.latch["first_response"] # None /\ lived.firstResponseAt # None =>
         lived.firstResponseAt > FirstResponse[plan.priority]
==============================================================================
