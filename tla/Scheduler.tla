------------------------------- MODULE Scheduler -------------------------------
(***************************************************************************)
(* The ticker driving the job queue: a drain is a run of the fast loop     *)
(* (src/src/scheduler/drainer.service.ts), so the queue of                 *)
(* AtLeastOnceQueue claims only while one is under way, and loses its      *)
(* claims when the process goes.                                           *)
(***************************************************************************)
EXTENDS Ticker, AtLeastOnceQueue

CONSTANTS
  Fast,       \* the loop that drains
  MaxClaims   \* bound: claims alive at once

queue == vars
all   == <<ticker, queue>>

SchedulerInit == TickerInit /\ Init

Draining == \E k \in Kinds : runs[Fast][k] > 0

Drain(j) == Draining /\ Cardinality(claims) < MaxClaims /\ Claim({j}) /\ UNCHANGED ticker

(* The worker's own steps, and a caller's. *)
Work(j) == (Enqueue(j) \/ Return(j) \/ Settle(j)) /\ UNCHANGED ticker

(* The process goes, with its claims. *)
Die == Exit /\ claims' = {} /\ UNCHANGED <<status, attempts>>

Keep(A) == A /\ UNCHANGED queue

SchedulerNext ==
  \/ Keep(StartLoop) \/ Keep(Touch) \/ Keep(Shutdown) \/ Keep(Elapse)
  \/ \E t \in TimerIds : Keep(Fire(t))
  \/ \E l \in Names, k \in Kinds, ok \in BOOLEAN : Keep(Finish(l, k, ok))
  \/ \E j \in Jobs : Drain(j) \/ Work(j)
  \/ Die

(* The event loop runs: bootstrap goes on, due timers fire and time        *)
(* passes.  A tick ends, one way or the other: its statements have         *)
(* timeouts.  A drain that is under way again and again takes the job some *)
(* time, and a claim that is held again and again ends some time.  A       *)
(* process that is shut down exits.  Nothing says that requests come, that *)
(* ticks succeed or that the process lives.                                *)
SchedulerSpec ==
  /\ SchedulerInit /\ [][SchedulerNext]_all
  /\ WF_all(Keep(StartLoop)) /\ WF_all(Keep(Elapse))
  /\ \A t \in TimerIds : WF_all(Keep(Fire(t)))
  /\ \A l \in Names, k \in Kinds : WF_all(\E ok \in BOOLEAN : Keep(Finish(l, k, ok)))
  /\ WF_all(stopped /\ Die)
  /\ \A j \in Jobs : SF_all(Drain(j)) /\ SF_all(Return(j) /\ UNCHANGED ticker) /\ SF_all(Settle(j) /\ UNCHANGED ticker)
==============================================================================
