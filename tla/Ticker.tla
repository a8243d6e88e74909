-------------------------------- MODULE Ticker --------------------------------
(***************************************************************************)
(* The scheduler's clock (src/src/scheduler/): the loops of                *)
(* scheduler-ticker.service.ts, the idleness of scheduler-activity.ts that *)
(* stretches them, the pulse of scheduler-heartbeat.ts and the verdict     *)
(* readiness.ts draws from it.                                             *)
(*                                                                         *)
(* One JavaScript process: a callback is one step, and between two of them *)
(* anything may happen.  Time is kept as ages and as what is left of each  *)
(* timer, so it needs no horizon; a due timer fires before time moves on,  *)
(* while a tick takes as long as it takes, and may fail.                   *)
(***************************************************************************)
EXTENDS Integers, FiniteSets, Sequences

CONSTANTS
  Loops,        \* the loops, in the order bootstrap starts them
  ActiveTick,       \* FAST_TICK_MS and SLOW_TICK_MS, by loop, in clock units
  IDLE_TICK,    \* IDLE_TICK_MS
  IDLE_AFTER,   \* IDLE_AFTER_MS
  RunScheduler, \* RUN_SCHEDULER
  MaxTimers,    \* bound: timers of the process
  MaxRuns       \* bound: runs of one loop at once, by what started them

Names == {Loops[i] : i \in DOMAIN Loops}

ASSUME TickerAssumption ==
  /\ Loops \in Seq(STRING) /\ Loops # <<>> /\ "off" \notin Names
  /\ \A i, j \in DOMAIN Loops : Loops[i] = Loops[j] => i = j
  /\ ActiveTick \in [Names -> Nat \ {0}]
  /\ IDLE_TICK \in Nat \ {0} /\ IDLE_AFTER \in Nat
  /\ RunScheduler \in BOOLEAN
  /\ MaxTimers \in Nat \ {0} /\ MaxRuns.timer \in Nat \ {0} /\ MaxRuns.wake \in Nat \ {0}

STALE_TICK_MULTIPLIER == 3

Kinds    == {"boot", "timer", "wake"}   \* what started a run
NoTimer  == 0
TimerIds == 1 .. MaxTimers
Off      == [loop |-> "off", left |-> -1]

Longer(a, b) == IF a < b THEN b ELSE a
OldAge       == STALE_TICK_MULTIPLIER * Longer(IDLE_TICK, CHOOSE m \in {ActiveTick[l] : l \in Names} : \A l \in Names : ActiveTick[l] <= m) + 1

VARIABLES
  started,   \* how many of Loops are started
  stopped,
  timers,    \* every pending timer: its loop and the time left
  held,      \* loop.timer: the timer a loop knows of, or NoTimer
  runs,      \* how many runs of a loop are under way, by what started them
  interval,  \* heartbeat: the interval a loop is expected to beat at
  age,       \* heartbeat: the time since its last beat, -1 for never
  quiet,     \* the time since the last request
  failed,    \* history: the loops a run failed of since their last beat
  rewoken    \* history: a wake came before the runs of an earlier one ended

clockwork == <<started, stopped, timers, held, runs, interval, age, quiet>>
ticker    == <<clockwork, failed, rewoken>>

TickerInit ==
  /\ started = 0 /\ stopped = FALSE
  /\ timers = [t \in TimerIds |-> Off]
  /\ held = [l \in Names |-> NoTimer]
  /\ runs = [l \in Names |-> [k \in Kinds |-> 0]]
  /\ interval = ActiveTick
  /\ age = [l \in Names |-> -1]
  /\ quiet = 0
  /\ failed = {} /\ rewoken = FALSE

Running == IF stopped THEN {} ELSE {Loops[i] : i \in 1 .. started}

Began(r, l, k) == [r EXCEPT ![l][k] = @ + 1]
Ended(r, l, k) == [r EXCEPT ![l][k] = @ - 1]

isIdle == quiet > IDLE_AFTER

(* arm, when these timers are pending. *)
Arm(l, pending) ==
  LET gap  == IF isIdle THEN Longer(ActiveTick[l], IDLE_TICK) ELSE ActiveTick[l]
      free == {t \in TimerIds : pending[t] = Off}
      t    == CHOOSE f \in free : TRUE IN
  IF stopped
  THEN timers' = pending /\ UNCHANGED <<held, interval>>
  ELSE /\ free # {}
       /\ timers' = [pending EXCEPT ![t] = [loop |-> l, left |-> gap]]
       /\ held' = [held EXCEPT ![l] = t]
       /\ interval' = [interval EXCEPT ![l] = gap]

------------------------------------------------------------------------------
(* start: registered and armed, then run once; bootstrap waits for it      *)
(* before it starts the next loop.                                         *)
StartLoop ==
  LET l == Loops[started + 1] IN
  /\ RunScheduler
  /\ started < Len(Loops) /\ ~stopped
  /\ started > 0 => runs[Loops[started]]["boot"] = 0
  /\ started' = started + 1
  /\ Arm(l, timers)
  /\ runs' = Began(runs, l, "boot")
  /\ age' = [age EXCEPT ![l] = -1]
  /\ UNCHANGED <<stopped, quiet, failed, rewoken>>

(* A timer fires: the next one first, then this run. *)
Fire(t) ==
  LET l == timers[t].loop IN
  /\ timers[t].left = 0
  /\ runs[l]["timer"] < MaxRuns.timer
  /\ Arm(l, [timers EXCEPT ![t] = Off])
  /\ runs' = Began(runs, l, "timer")
  /\ UNCHANGED <<started, stopped, age, quiet, failed, rewoken>>

(* runOnce swallows what the tick throws, so `then` always runs. *)
Rearmed(k, ok) == k = "wake"

(* Fault: only the timer's own runs beat, so a booted loop has no pulse. *)
Beats_TimerOnly(k, ok) == ok /\ k = "timer"

(* A run that succeeds is a beat, whatever started it. *)
Beats(k, ok) == ok

(* runOnce ends: a beat if the tick succeeded, and wake's re-arming. *)
Finish(l, k, ok) ==
  /\ runs[l][k] > 0
  /\ runs' = Ended(runs, l, k)
  /\ age' = IF Beats(k, ok) THEN [age EXCEPT ![l] = 0] ELSE age
  /\ failed' = IF ok THEN failed \ {l} ELSE failed \cup {l}
  /\ IF Rearmed(k, ok) THEN Arm(l, timers) ELSE UNCHANGED <<timers, held, interval>>
  /\ UNCHANGED <<started, stopped, quiet, rewoken>>

(* Fault: the loop's own timer is left to run. *)
Cleared_Never(t) == FALSE

(* clearTimeout of the timer a running loop holds. *)
Cleared(t) == \E l \in Running : held[l] = t

(* wake, for every running loop: its timer is cleared and it runs at once. *)
Wake ==
  /\ \A l \in Running : runs[l]["wake"] < MaxRuns.wake
  /\ timers' = [t \in TimerIds |-> IF Cleared(t) THEN Off ELSE timers[t]]
  /\ held' = [l \in Names |-> IF l \in Running THEN NoTimer ELSE held[l]]
  /\ runs' = [l \in Names |-> IF l \in Running THEN [runs[l] EXCEPT !["wake"] = @ + 1] ELSE runs[l]]
  /\ rewoken' = (rewoken \/ \E l \in Running : runs[l]["wake"] > 0)

(* touch, by every request that is no health probe. *)
Touch ==
  /\ quiet' = 0
  /\ IF isIdle THEN Wake ELSE UNCHANGED <<timers, held, runs, rewoken>>
  /\ UNCHANGED <<started, stopped, interval, age, failed>>

(* onApplicationShutdown. *)
Shutdown ==
  /\ ~stopped /\ started > 0
  /\ stopped' = TRUE
  /\ timers' = [t \in TimerIds |-> IF \E l \in Running : held[l] = t THEN Off ELSE timers[t]]
  /\ held' = [l \in Names |-> NoTimer]
  /\ UNCHANGED <<started, runs, interval, age, quiet, failed, rewoken>>

(* The process is gone, and another one starts from nothing. *)
Exit ==
  /\ started > 0
  /\ started' = 0 /\ stopped' = FALSE
  /\ timers' = [t \in TimerIds |-> Off]
  /\ held' = [l \in Names |-> NoTimer]
  /\ runs' = [l \in Names |-> [k \in Kinds |-> 0]]
  /\ interval' = ActiveTick
  /\ age' = [l \in Names |-> -1]
  /\ quiet' = 0
  /\ failed' = {} /\ rewoken' = FALSE

Elapse ==
  /\ \A t \in TimerIds : timers[t].left # 0
  /\ timers' = [t \in TimerIds |-> IF timers[t] = Off THEN Off ELSE [timers[t] EXCEPT !.left = @ - 1]]
  /\ quiet' = IF isIdle THEN quiet ELSE quiet + 1
  /\ age' = [l \in Names |-> IF age[l] \in {-1, OldAge} THEN age[l] ELSE age[l] + 1]
  /\ UNCHANGED <<started, stopped, held, runs, interval, failed, rewoken>>

TickerNext ==
  \/ StartLoop \/ Touch \/ Shutdown \/ Exit \/ Elapse
  \/ \E t \in TimerIds : Fire(t)
  \/ \E l \in Names, k \in Kinds, ok \in BOOLEAN : Finish(l, k, ok)

TickerSpec == TickerInit /\ [][TickerNext]_ticker

------------------------------------------------------------------------------
(* healthOf: a loop that never beat is as stalled as one that stopped. *)
healthOf(l) ==
  IF age[l] = -1 \/ age[l] > STALE_TICK_MULTIPLIER * interval[l] THEN "stalled" ELSE "ok"

(* evaluateReadiness, of the scheduler and, with the database's answer, of *)
(* the process; Redis never counts.                                        *)
schedulerStatus ==
  IF ~RunScheduler THEN "disabled"
  ELSE IF started = 0 \/ \E i \in 1 .. started : healthOf(Loops[i]) = "stalled" THEN "stalled" ELSE "ok"

evaluateReadiness(database) ==
  IF database /\ schedulerStatus # "stalled" THEN "ok" ELSE "unavailable"

Pending(l) == {t \in TimerIds : timers[t].loop = l}

(* A loop has one timer, the one it can clear, and none once the process   *)
(* is shut down; one that was started has its timer or a run that will arm *)
(* it, whatever its ticks threw (arm, wake, runOnce,                       *)
(* onApplicationShutdown).  The exception is a wake that finds the run of  *)
(* an earlier wake unfinished: both re-arm, and the loop ticks twice as    *)
(* often from then on.                                                     *)
OneTimerPerLoop ==
  /\ ~rewoken => \A l \in Names : Pending(l) = IF held[l] = NoTimer THEN {} ELSE {held[l]}
  /\ \A l \in Running : Pending(l) # {} \/ runs[l]["wake"] > 0

(* "Readiness never observes a pulseless ticker in a process that is in    *)
(* fact fine": it answers unavailable only while a tick that began has not *)
(* ended, or after one failed, however idleness stretched and wakes        *)
(* shortened the intervals (arm after the run in wake, retime, healthOf).  *)
NoFalseAlarm ==
  started = Len(Loops) /\ ~stopped /\ evaluateReadiness(TRUE) = "unavailable"
    => failed # {} \/ \E l \in Names, k \in Kinds : runs[l][k] > 0
==============================================================================
