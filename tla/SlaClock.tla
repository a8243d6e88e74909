------------------------------- MODULE SlaClock -------------------------------
(***************************************************************************)
(* The two SLA clocks of one Ticket and the sweeps that latch their        *)
(* breaches: the trigger ticket_enforce_transition of the migration        *)
(* 20260719200000_sla_and_dwell, and src/src/sla/sla-breach.sweep.ts.      *)
(*                                                                         *)
(* A sweep is one tick of one scheduler; several may overlap.  Its UPDATE  *)
(* takes what is due from its snapshot (the CTE) and writes once it has    *)
(* the row, without asking again.  A transaction of a request is short     *)
(* against the unit of the clock, so its now() is the time it commits.     *)
(***************************************************************************)
EXTENDS Integers

CONSTANTS
  Sweeps,
  Priorities,
  Normal,        \* the priority a Ticket is opened with
  FirstResponse, Resolution,   \* sla_target: the targets of each priority
  None,
  Horizon        \* bound: the clock stops here, and sweeps fail only before

ASSUME SlaAssumption ==
  /\ Normal \in Priorities
  /\ FirstResponse \in [Priorities -> Nat] /\ Resolution \in [Priorities -> Nat]
  /\ None \notin Nat
  /\ Horizon \in Nat

Timers   == {"first_response", "resolution"}
Active   == {"open", "pending", "on_hold"}
Stopping == {"pending", "resolved", "closed"}
States   == Active \cup Stopping

VARIABLES
  clock,
  state,
  priority,
  pausedMs,         \* sla_paused_ms
  pauseStartedAt,   \* sla_pause_started_at
  answered,         \* first_response_at is set
  latch,            \* the two _breached_at columns
  worked,           \* history: the time spent in states that do not stop the clock
  phase, at, due, collected,   \* a sweep: its `now`, its CTE, the breaches it returns
  missed,           \* history: the timers whose target, the one in force then, was missed
  told,             \* history: how often each breach was announced
  clash             \* history: two sweeps started within the same millisecond

ticket == <<state, priority, pausedMs, pauseStartedAt, answered, latch>>
sweep  == <<phase, at, due, collected>>
vars   == <<clock, ticket, worked, missed, sweep, told, clash>>

Init ==
  /\ clock = 0
  /\ state = "open" /\ priority = Normal /\ pausedMs = 0 /\ pauseStartedAt = None
  /\ answered = FALSE
  /\ latch = [t \in Timers |-> None]
  /\ worked = 0
  /\ phase = [s \in Sweeps |-> "idle"]
  /\ at = [s \in Sweeps |-> None]
  /\ due = [s \in Sweeps |-> {}]
  /\ collected = [s \in Sweeps |-> {}]
  /\ missed = {}
  /\ told = [t \in Timers |-> 0] /\ clash = FALSE

(* The team owes it still, and the target in force is past. *)
Missing(timer) ==
  \/ timer = "first_response" /\ ~answered /\ clock > FirstResponse[priority]
  \/ timer = "resolution" /\ state \notin {"resolved", "closed"} /\ worked > Resolution[priority]

Witnessed == missed' = missed \cup {timer \in Timers : Missing(timer)'}

Tick ==
  /\ clock < Horizon
  /\ clock' = clock + 1
  /\ worked' = IF state \in Stopping THEN worked ELSE worked + 1
  /\ UNCHANGED <<ticket, sweep, told, clash>>
  /\ Witnessed

------------------------------------------------------------------------------
(* ticket_transition_is_legal *)
Legal(from, to) ==
  \/ from \in Active /\ to \in (Active \cup {"resolved"}) \ {from}
  \/ from = "resolved" /\ to \in {"open", "closed"}

(* Fault: an interval is closed only when the clock starts again. *)
PausedMs_OnRestart(to) ==
  IF pauseStartedAt = None \/ to \in Stopping THEN pausedMs
  ELSE pausedMs + (clock - pauseStartedAt)

(* The open interval is closed, whatever the destination. *)
PausedMs(to) ==
  IF pauseStartedAt = None THEN pausedMs ELSE pausedMs + (clock - pauseStartedAt)

(* ticket_enforce_transition, on an UPDATE that moves the state. *)
Transition(to) ==
  /\ Legal(state, to)
  /\ state' = to
  /\ pausedMs' = PausedMs(to)
  /\ pauseStartedAt' = IF to \in Stopping THEN clock ELSE None
  /\ UNCHANGED <<clock, priority, answered, latch, worked, sweep, told, clash>>
  /\ Witnessed

(* TicketService.setPriority, and the trigger's lock on a closed Ticket.   *)
(* The clocks run on; the next sweep reads the new targets.                *)
SetPriority(p) ==
  /\ p # priority
  /\ state # "closed"
  /\ priority' = p
  /\ UNCHANGED <<clock, state, pausedMs, pauseStartedAt, answered, latch, worked, sweep, told, clash>>
  /\ Witnessed

(* ticket_observe_message, for a Message of a user or service. *)
Respond ==
  /\ state # "closed"
  /\ ~answered
  /\ answered' = TRUE
  /\ UNCHANGED <<clock, state, priority, pausedMs, pauseStartedAt, latch, worked, missed, sweep, told, clash>>

------------------------------------------------------------------------------
(* ticket_sla_wall_elapsed_ms, ticket_sla_active_elapsed_ms; the Ticket    *)
(* was created at 0.                                                       *)
WallElapsed(t) == t

ActiveElapsed(t) ==
  LET e == t - pausedMs - (IF pauseStartedAt = None THEN 0 ELSE t - pauseStartedAt)
  IN  IF e > 0 THEN e ELSE 0

(* Fault: first response only while the Ticket is being worked on. *)
Due_Paused(t) ==
  {timer \in Timers : latch[timer] = None /\
     \/ timer = "first_response" /\ ~answered /\ state \notin Stopping /\ WallElapsed(t) > FirstResponse[priority]
     \/ timer = "resolution" /\ state \notin {"resolved", "closed"} /\ ActiveElapsed(t) > Resolution[priority]}

(* Fault: resolution measured on the wall clock. *)
Due_Wall(t) ==
  {timer \in Timers : latch[timer] = None /\
     \/ timer = "first_response" /\ ~answered /\ WallElapsed(t) > FirstResponse[priority]
     \/ timer = "resolution" /\ state \notin {"resolved", "closed"} /\ WallElapsed(t) > Resolution[priority]}

(* The CTE. *)
Due(t) ==
  {timer \in Timers : latch[timer] = None /\
     \/ timer = "first_response" /\ ~answered /\ WallElapsed(t) > FirstResponse[priority]
     \/ timer = "resolution" /\ state \notin {"resolved", "closed"} /\ ActiveElapsed(t) > Resolution[priority]}

Goto(s, l) == phase' = [phase EXCEPT ![s] = l]

(* sweeper.tick: one `now` for the whole sweep.  A scheduler starts one a  *)
(* minute; two schedulers may start theirs within the same millisecond.    *)
Start(s) ==
  /\ phase[s] = "idle"
  /\ at[s] # clock
  /\ clash' = (clash \/ \E o \in Sweeps : at[o] = clock)
  /\ Goto(s, "visit")
  /\ at' = [at EXCEPT ![s] = clock]
  /\ UNCHANGED <<clock, ticket, worked, missed, due, collected, told>>

(* latchTenant: the statement takes its snapshot. *)
Snapshot(s) ==
  /\ phase[s] = "visit"
  /\ due' = [due EXCEPT ![s] = Due(at[s])]
  /\ Goto(s, "update")
  /\ UNCHANGED <<clock, ticket, worked, missed, at, collected, told, clash>>

(* Fault: the trigger does not coerce. *)
Coerced_Not(timer, t) == t

(* The set-once coercion of the trigger. *)
Coerced(timer, t) == IF latch[timer] = None THEN t ELSE latch[timer]

(* latchedTimers: the latches that hold this sweep's instant. *)
latchedTimers(row, t) == {timer \in Timers : row[timer] = t}

(* The UPDATE, its audit rows and the commit.  A row with nothing due is   *)
(* not returned.                                                           *)
Update(s) ==
  LET row == [t \in Timers |-> IF t \in due[s] THEN Coerced(t, at[s]) ELSE latch[t]] IN
  /\ phase[s] = "update"
  /\ latch' = row
  /\ collected' = [collected EXCEPT ![s] = IF due[s] = {} THEN {} ELSE latchedTimers(row, at[s])]
  /\ due' = [due EXCEPT ![s] = {}]
  /\ Goto(s, "visited")
  /\ UNCHANGED <<clock, state, priority, pausedMs, pauseStartedAt, answered>>
  /\ UNCHANGED <<worked, missed, at, told, clash>>

(* run: every tenant has been visited, and the breaches are announced. *)
Announce(s) ==
  /\ phase[s] = "visited"
  /\ told' = [t \in Timers |-> told[t] + (IF t \in collected[s] THEN 1 ELSE 0)]
  /\ collected' = [collected EXCEPT ![s] = {}]
  /\ Goto(s, "idle")
  /\ UNCHANGED <<clock, ticket, worked, missed, at, due, clash>>

(* forEachTenant throws on a tenant before this one or after it, or the    *)
(* process dies: what was collected is dropped.                            *)
GiveUp(s) ==
  /\ phase[s] # "idle"
  /\ clock < Horizon
  /\ Goto(s, "idle")
  /\ due' = [due EXCEPT ![s] = {}]
  /\ collected' = [collected EXCEPT ![s] = {}]
  /\ UNCHANGED <<clock, ticket, worked, missed, at, told, clash>>

Next ==
  \/ Tick
  \/ \E to \in States : Transition(to)
  \/ \E p \in Priorities : SetPriority(p)
  \/ Respond
  \/ \E s \in Sweeps : Start(s) \/ Snapshot(s) \/ Update(s) \/ Announce(s) \/ GiveUp(s)

Spec == Init /\ [][Next]_vars

(* Time goes on, the slow ticker keeps starting sweeps, and a sweep that   *)
(* does not fail gets to its end.                                          *)
FairSpec ==
  /\ Spec
  /\ WF_vars(Tick)
  /\ \A s \in Sweeps : WF_vars(Start(s) \/ Snapshot(s) \/ Update(s) \/ Announce(s))

------------------------------------------------------------------------------
SlaTypeOK ==
  /\ clock \in 0 .. Horizon
  /\ state \in States
  /\ priority \in Priorities
  /\ pausedMs \in 0 .. Horizon
  /\ pauseStartedAt \in {None} \cup 0 .. Horizon
  /\ answered \in BOOLEAN
  /\ latch \in [Timers -> {None} \cup 0 .. Horizon]
  /\ worked \in 0 .. clock
  /\ phase \in [Sweeps -> {"idle", "visit", "update", "visited"}]
  /\ at \in [Sweeps -> {None} \cup 0 .. Horizon]
  /\ due \in [Sweeps -> SUBSET Timers]
  /\ collected \in [Sweeps -> SUBSET Timers]
  /\ missed \in SUBSET Timers
  /\ told \in [Timers -> Nat]
  /\ clash \in BOOLEAN

(* The accumulator is exact: read at any time, the resolution clock shows  *)
(* the time the Ticket has really spent in states that do not stop it,     *)
(* through any sequence of pauses, resolutions and reopenings              *)
(* (ticket_enforce_transition and ticket_sla_active_elapsed_ms).           *)
ResolutionClockIsExact == ActiveElapsed(clock) = worked

(* A latched breach really happened: at some moment the team still owed    *)
(* the answer or the resolution and was past the target then in force,     *)
(* however stale the snapshot that latched it and whatever became of the   *)
(* state and the priority since (latchTenant).                             *)
BreachIsEarned == \A t \in Timers : latch[t] # None => t \in missed

(* "Emitted once per timer for the life of the Ticket": overlapping sweeps *)
(* that started at different instants announce a breach at most once       *)
(* (latchedTimers).                                                        *)
AnnouncedAtMostOnce == ~clash => \A t \in Timers : told[t] <= 1

(* A Ticket nobody answers in time is noticed wherever it is parked and    *)
(* however its priority is changed: the first-response breach is latched,  *)
(* unless somebody answers first (the clock of ticket_sla_wall_elapsed_ms  *)
(* never pauses).                                                          *)
SilenceIsNoticed ==
  (~answered /\ clock > FirstResponse[priority])
    ~> (answered \/ latch["first_response"] # None)
==============================================================================
