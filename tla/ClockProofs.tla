------------------------------ MODULE ClockProofs ------------------------------
(***************************************************************************)
(* The two clocks.  The SLA clock of a Ticket: it is exact, a latched      *)
(* breach was earned, and it is announced at most once, for any number of  *)
(* sweeps, any priorities and targets, and any history of the Ticket.  The *)
(* ticker that runs the sweeps: a loop has one timer and no false alarm is *)
(* raised, for any loops, intervals and bounds.                            *)
(***************************************************************************)
EXTENDS SlaClock, Ticker, TLAPS

------------------------------------------------------------------------------
(* The loops of the ticker, for every list of loops, their intervals, the  *)
(* idle interval and every bound on timers and runs.  Of each loop the     *)
(* invariant says which timer it holds and when that one is due, that one  *)
(* which holds none has a wake's run to arm it, and how old its last beat  *)
(* is against what is left of the timer.                                   *)
Slot  == [loop : Names, left : Nat] \cup {Off}
Begun == {Loops[i] : i \in 1 .. started}

TickerTypeOK ==
  /\ started \in 0 .. Len(Loops) /\ stopped \in BOOLEAN /\ rewoken \in BOOLEAN
  /\ timers \in [TimerIds -> Slot]
  /\ held \in [Names -> TimerIds \cup {NoTimer}]
  /\ runs \in [Names -> [Kinds -> Nat]]
  /\ interval \in [Names -> Nat]
  /\ age \in [Names -> Nat \cup {-1}]
  /\ quiet \in Nat

AtRest(l) == \A k \in Kinds : runs[l][k] = 0

(* The timer a loop holds is pending, and its own. *)
HoldsItsOwn(l) ==
  held[l] # NoTimer => /\ ~stopped /\ timers[held[l]].loop = l
                    /\ timers[held[l]].left <= interval[l]

(* A loop that runs holds a timer, unless a wake's run is to arm one. *)
WillTick(l) ==
  /\ l \in Begun => stopped \/ held[l] # NoTimer \/ runs[l]["wake"] > 0
  /\ l \notin Begun => held[l] = NoTimer /\ Pending(l) = {} /\ AtRest(l)

(* It has no other timer, as long as no wake overtook an earlier one. *)
HasOne(l) ==
  ~rewoken => /\ \A t \in Pending(l) : t = held[l]
              /\ runs[l]["wake"] <= 1
              /\ runs[l]["wake"] = 1 => held[l] = NoTimer

(* A loop at rest whose last run did not fail beat within its interval,    *)
(* and will tick before the interval is over.                              *)
BeatInTime(l) ==
  ~stopped /\ l \in Begun /\ l \notin failed /\ AtRest(l)
    => age[l] # -1 /\ age[l] + timers[held[l]].left <= interval[l]

LoopInv(l) == HoldsItsOwn(l) /\ WillTick(l) /\ HasOne(l) /\ BeatInTime(l)

TickerInv == TickerTypeOK /\ \A l \in Names : LoopInv(l)

LEMMA Slots ==
  /\ Off \in Slot
  /\ \A s \in Slot : \/ s = Off /\ s.left = -1 /\ s.loop \notin Names
                     \/ s # Off /\ s.left \in Nat /\ s.loop \in Names
                        /\ s = [loop |-> s.loop, left |-> s.left]
  /\ \A l \in Names, n \in Nat : [loop |-> l, left |-> n] \in Slot
  BY TickerAssumption DEF Slot, Off

LEMMA Loop ==
  ASSUME TickerTypeOK
  PROVE  /\ Begun \subseteq Names
         /\ \A t \in TimerIds : t # NoTimer
         /\ started < Len(Loops) => /\ Loops[started + 1] \in Names \ Begun
                                    /\ {Loops[i] : i \in 1 .. started + 1} = Begun \cup {Loops[started + 1]}
  BY TickerAssumption DEF TickerTypeOK, Begun, Names, TimerIds, NoTimer

(* arm puts a new timer on a free slot and has its loop hold it. *)
LEMMA Arms ==
  ASSUME TickerTypeOK, ~stopped, NEW l \in Names, NEW p \in [TimerIds -> Slot], Arm(l, p)
  PROVE  \E t \in TimerIds, g \in Nat :
           /\ p[t] = Off
           /\ timers' = [p EXCEPT ![t] = [loop |-> l, left |-> g]]
           /\ held' = [held EXCEPT ![l] = t]
           /\ interval' = [interval EXCEPT ![l] = g]
<1> DEFINE free == {t \in TimerIds : p[t] = Off}
           gap  == IF isIdle THEN Longer(ActiveTick[l], IDLE_TICK) ELSE ActiveTick[l]
           f    == CHOOSE t \in free : TRUE
<1>1. gap \in Nat
  BY TickerAssumption, Zenon DEF Longer
<1>2. free # {}
  BY Zenon DEF Arm
<1>3. f \in free
  <2> HIDE DEF free
  <2> QED BY <1>2, Zenon
<1>4. /\ timers' = [p EXCEPT ![f] = [loop |-> l, left |-> gap]]
      /\ held' = [held EXCEPT ![l] = f]
      /\ interval' = [interval EXCEPT ![l] = gap]
  BY Zenon DEF Arm
<1> HIDE DEF f, gap
<1> QED BY <1>1, <1>3, <1>4, Zenon

LEMMA TickerStarts == TickerInit => TickerInv
<1> SUFFICES ASSUME TickerInit PROVE TickerInv
  BY Zenon
<1>1. TickerTypeOK
  <2>1. timers \in [TimerIds -> Slot]
    BY Slots, Zenon DEF TickerInit
  <2>2. interval \in [Names -> Nat]
    BY TickerAssumption, Zenon DEF TickerInit
  <2>3. held \in [Names -> TimerIds \cup {NoTimer}] /\ age \in [Names -> Nat \cup {-1}]
    BY Zenon DEF TickerInit
  <2>4. runs \in [Names -> [Kinds -> Nat]]
    BY Zenon DEF TickerInit
  <2>5. started \in 0 .. Len(Loops) /\ quiet \in Nat
    BY TickerAssumption DEF TickerInit
  <2>6. stopped \in BOOLEAN /\ rewoken \in BOOLEAN
    BY Zenon DEF TickerInit
  <2> QED BY <2>1, <2>2, <2>3, <2>4, <2>5, <2>6, Zenon DEF TickerTypeOK
<1>2. ASSUME NEW l \in Names PROVE LoopInv(l)
  <2>1. l \notin Begun /\ held[l] = NoTimer /\ AtRest(l) /\ ~stopped
    BY <1>2 DEF TickerInit, Begun, AtRest
  <2>2. Pending(l) = {}
    BY Slots, Zenon DEF TickerInit, Pending
  <2>3. runs[l]["wake"] = 0
    BY <2>1, Zenon DEF AtRest, Kinds
  <2> QED BY <2>1, <2>2, <2>3 DEF LoopInv, HoldsItsOwn, WillTick, HasOne, BeatInTime
<1> QED BY <1>1, <1>2, Zenon DEF TickerInv

(* The other loops do not notice a loop that gets a timer. *)
LEMMA OthersKeep ==
  ASSUME TickerInv, NEW m \in Names, TickerTypeOK', stopped' = stopped, rewoken => rewoken',
         m \in Begun <=> m \in Begun', m \notin failed' => m \notin failed,
         held'[m] = held[m], interval'[m] = interval[m], runs'[m] = runs[m], age'[m] = age[m],
         \A t \in TimerIds : timers[t].loop = m \/ timers'[t].loop = m => timers'[t] = timers[t]
  PROVE  LoopInv(m)'
<1>1. LoopInv(m) /\ TickerTypeOK
  BY Zenon DEF TickerInv
<1>2. Pending(m)' = Pending(m)
  BY Zenon DEF Pending
<1>3. AtRest(m)' <=> AtRest(m)
  BY Zenon DEF AtRest
<1>4. held[m] # NoTimer => timers'[held[m]] = timers[held[m]]
  BY <1>1, Zenon DEF LoopInv, HoldsItsOwn, TickerTypeOK
<1>5. HoldsItsOwn(m)'
  BY <1>1, <1>4, Zenon DEF LoopInv, HoldsItsOwn
<1>6. WillTick(m)'
  BY <1>1, <1>2, <1>3, Zenon DEF LoopInv, WillTick
<1>7. HasOne(m)'
  BY <1>1, <1>2, Zenon DEF LoopInv, HasOne
<1>8. BeatInTime(m)'
  <2>1. m \in Begun /\ ~stopped /\ AtRest(m) => held[m] # NoTimer
    BY <1>1 DEF LoopInv, WillTick, AtRest, Kinds, TickerTypeOK
  <2> QED BY <1>1, <1>3, <1>4, <2>1, Zenon DEF LoopInv, BeatInTime
<1> QED BY <1>5, <1>6, <1>7, <1>8, Zenon DEF LoopInv

LEMMA StartKeeps ==
  ASSUME TickerInv, StartLoop
  PROVE  TickerInv'
<1>0. TickerTypeOK
  BY Zenon DEF TickerInv
<1>1. PICK l : l = Loops[started + 1]
  BY Zenon
<1>2. l \in Names \ Begun /\ Begun' = Begun \cup {l} /\ started' \in 0 .. Len(Loops)
  BY <1>0, <1>1, Loop, TickerAssumption DEF StartLoop, Begun, TickerTypeOK
<1>3. PICK t \in TimerIds, g \in Nat :
        /\ timers[t] = Off
        /\ timers' = [timers EXCEPT ![t] = [loop |-> l, left |-> g]]
        /\ held' = [held EXCEPT ![l] = t]
        /\ interval' = [interval EXCEPT ![l] = g]
  <2>1. Arm(l, timers) /\ ~stopped
    BY <1>1, Zenon DEF StartLoop
  <2>2. timers \in [TimerIds -> Slot]
    BY <1>0, Zenon DEF TickerTypeOK
  <2> QED BY <1>0, <1>2, <2>1, <2>2, Arms, Zenon
<1>4. /\ runs' = [runs EXCEPT ![l]["boot"] = @ + 1]
      /\ age' = [age EXCEPT ![l] = -1]
      /\ UNCHANGED <<stopped, quiet, failed, rewoken>> /\ ~stopped
  BY <1>1, Zenon DEF StartLoop, Began
<1>5. TickerTypeOK'
  <2>1. timers' \in [TimerIds -> Slot]
    BY <1>0, <1>2, <1>3, Slots, Zenon DEF TickerTypeOK
  <2>2. runs' \in [Names -> [Kinds -> Nat]]
    BY <1>0, <1>2, <1>4 DEF TickerTypeOK, Kinds
  <2>3. /\ held' \in [Names -> TimerIds \cup {NoTimer}] /\ interval' \in [Names -> Nat]
        /\ age' \in [Names -> Nat \cup {-1}]
    BY <1>0, <1>2, <1>3, <1>4, Zenon DEF TickerTypeOK
  <2> QED BY <1>0, <1>2, <1>4, <2>1, <2>2, <2>3, Zenon DEF TickerTypeOK
<1>6. LoopInv(l)'
  <2>1. l \notin Begun /\ LoopInv(l)
    BY <1>2, Zenon DEF TickerInv
  <2>2. Pending(l)' = {t}
    BY <1>0, <1>2, <1>3, <2>1, Zenon DEF LoopInv, WillTick, Pending, TickerTypeOK
  <2>3. held'[l] = t /\ t # NoTimer /\ timers'[t] = [loop |-> l, left |-> g] /\ interval'[l] = g
    BY <1>0, <1>2, <1>3, Loop, Zenon DEF TickerTypeOK
  <2>4. runs'[l]["wake"] = 0 /\ runs'[l]["boot"] = 1 /\ ~AtRest(l)'
    BY <1>0, <1>2, <1>4, <2>1 DEF LoopInv, WillTick, AtRest, Kinds, TickerTypeOK
  <2> QED BY <1>2, <1>4, <2>2, <2>3, <2>4 DEF LoopInv, HoldsItsOwn, WillTick, HasOne, BeatInTime
<1>7. ASSUME NEW m \in Names, m # l PROVE LoopInv(m)'
  <2>1. held'[m] = held[m] /\ interval'[m] = interval[m] /\ runs'[m] = runs[m] /\ age'[m] = age[m]
    BY <1>0, <1>2, <1>3, <1>4, <1>7, Zenon DEF TickerTypeOK
  <2>2. \A u \in TimerIds : timers[u].loop = m \/ timers'[u].loop = m => timers'[u] = timers[u]
    BY <1>0, <1>3, <1>7, Slots, Zenon DEF TickerTypeOK
  <2>3. m \in Begun <=> m \in Begun'
    BY <1>2, <1>7, Zenon
  <2> QED BY <1>4, <1>5, <2>1, <2>2, <2>3, OthersKeep, Zenon
<1> QED BY <1>5, <1>6, <1>7, Zenon DEF TickerInv

LEMMA FireKeeps ==
  ASSUME TickerInv, NEW t0 \in TimerIds, Fire(t0)
  PROVE  TickerInv'
<1>0. TickerTypeOK
  BY Zenon DEF TickerInv
<1>1. PICK l : l = timers[t0].loop
  BY Zenon
<1>2. l \in Names /\ t0 \in Pending(l) /\ timers[t0] # Off
  BY <1>0, <1>1, Slots DEF Fire, TickerTypeOK, Pending
<1>3. PICK p : p = [timers EXCEPT ![t0] = Off]
  BY Zenon
<1>4. /\ p \in [TimerIds -> Slot] /\ p[t0] = Off
      /\ \A u \in TimerIds : u # t0 => p[u] = timers[u]
  BY <1>0, <1>3, Slots, Zenon DEF TickerTypeOK
<1>5. /\ Arm(l, p)
      /\ runs' = [runs EXCEPT ![l]["timer"] = @ + 1]
      /\ UNCHANGED <<started, stopped, age, quiet, failed, rewoken>>
  BY <1>1, <1>3, Zenon DEF Fire, Began
<1>6. l \in Begun /\ Begun' = Begun /\ LoopInv(l)
  BY <1>2, <1>5, Zenon DEF TickerInv, LoopInv, WillTick, Begun
<1>7. runs' \in [Names -> [Kinds -> Nat]] /\ runs'[l]["wake"] = runs[l]["wake"] /\ ~AtRest(l)'
  <2>1. runs' \in [Names -> [Kinds -> Nat]] /\ runs'[l]["wake"] = runs[l]["wake"]
    BY <1>0, <1>2, <1>5 DEF TickerTypeOK, Kinds
  <2>2. runs'[l]["timer"] # 0
    BY <1>0, <1>2, <1>5 DEF TickerTypeOK, Kinds
  <2> QED BY <2>1, <2>2, Zenon DEF AtRest, Kinds
<1>8. ASSUME NEW m \in Names, m # l
      PROVE  runs'[m] = runs[m]
  BY <1>0, <1>2, <1>5, <1>8, Zenon DEF TickerTypeOK
<1>9. CASE stopped
  <2>1. timers' = p /\ UNCHANGED <<held, interval>>
    BY <1>5, <1>9, Zenon DEF Arm
  <2>2. TickerTypeOK'
    BY <1>0, <1>4, <1>5, <1>7, <2>1, Zenon DEF TickerTypeOK
  <2>3. LoopInv(l)'
    <3>1. held[l] = NoTimer /\ rewoken
      BY <1>2, <1>6, <1>9, <1>0, Loop, Zenon DEF LoopInv, HoldsItsOwn, HasOne
    <3> QED BY <1>5, <1>6, <1>9, <2>1, <3>1, Zenon DEF LoopInv, HoldsItsOwn, WillTick, HasOne, BeatInTime
  <2>4. ASSUME NEW m \in Names, m # l PROVE LoopInv(m)'
    <3>1. \A u \in TimerIds : timers[u].loop = m \/ timers'[u].loop = m => timers'[u] = timers[u]
      BY <1>1, <1>4, <2>1, <2>4, Slots, Zenon
    <3> QED BY <1>5, <1>6, <1>8, <2>1, <2>2, <2>4, <3>1, OthersKeep, Zenon
  <2> QED BY <2>2, <2>3, <2>4, Zenon DEF TickerInv
<1>10. CASE ~stopped
  <2>1. PICK t \in TimerIds, g \in Nat :
          /\ p[t] = Off
          /\ timers' = [p EXCEPT ![t] = [loop |-> l, left |-> g]]
          /\ held' = [held EXCEPT ![l] = t]
          /\ interval' = [interval EXCEPT ![l] = g]
    BY <1>0, <1>2, <1>4, <1>5, <1>10, Arms, Zenon
  <2>2. TickerTypeOK'
    <3>1. timers' \in [TimerIds -> Slot]
      BY <1>2, <1>4, <2>1, Slots, Zenon
    <3>2. held' \in [Names -> TimerIds \cup {NoTimer}] /\ interval' \in [Names -> Nat]
      BY <1>0, <2>1, Zenon DEF TickerTypeOK
    <3> QED BY <1>0, <1>5, <1>7, <3>1, <3>2, Zenon DEF TickerTypeOK
  <2>3. held'[l] = t /\ t # NoTimer /\ timers'[t] = [loop |-> l, left |-> g] /\ interval'[l] = g
    BY <1>0, <1>2, <1>4, <2>1, Loop, Zenon DEF TickerTypeOK
  <2>4. LoopInv(l)'
    <3>1. HoldsItsOwn(l)'
      BY <1>5, <1>10, <2>3 DEF HoldsItsOwn
    <3>2. WillTick(l)'
      BY <1>6, <2>3, Zenon DEF WillTick
    <3>3. HasOne(l)'
      <4> SUFFICES ASSUME ~rewoken PROVE HasOne(l)'
        BY <1>5, Zenon DEF HasOne
      <4>1. t0 = held[l] /\ t0 # NoTimer
        BY <1>0, <1>2, <1>6, Loop, Zenon DEF LoopInv, HasOne
      <4>2. \A u \in Pending(l)' : u = t
        <5> SUFFICES ASSUME NEW u \in TimerIds, timers'[u].loop = l, u # t PROVE FALSE
          BY Zenon DEF Pending
        <5>1. p[u].loop = l
          BY <1>4, <2>1, Zenon
        <5>2. u # t0 /\ timers[u].loop = l
          BY <1>2, <1>4, <5>1, Slots, Zenon
        <5> QED BY <1>6, <4>1, <5>2, Zenon DEF LoopInv, HasOne, Pending
      <4>3. runs[l]["wake"] = 0
        BY <1>0, <1>2, <1>6, <4>1 DEF LoopInv, HasOne, TickerTypeOK, Kinds
      <4> QED BY <1>7, <2>3, <4>2, <4>3 DEF HasOne
    <3> QED BY <1>7, <3>1, <3>2, <3>3, Zenon DEF LoopInv, BeatInTime
  <2>5. ASSUME NEW m \in Names, m # l PROVE LoopInv(m)'
    <3>1. \A u \in TimerIds : timers[u].loop = m \/ timers'[u].loop = m => timers'[u] = timers[u]
      BY <1>1, <1>4, <2>1, <2>5, Slots, Zenon
    <3>2. held'[m] = held[m] /\ interval'[m] = interval[m]
      BY <1>0, <2>1, <2>5, Zenon DEF TickerTypeOK
    <3> QED BY <1>5, <1>6, <1>8, <2>2, <2>5, <3>1, <3>2, OthersKeep, Zenon
  <2> QED BY <2>2, <2>4, <2>5, Zenon DEF TickerInv
<1> QED BY <1>9, <1>10, Zenon

LEMMA FinishKeeps ==
  ASSUME TickerInv, NEW l \in Names, NEW k \in Kinds, NEW ok \in BOOLEAN, Finish(l, k, ok)
  PROVE  TickerInv'
<1>0. TickerTypeOK /\ LoopInv(l) /\ runs[l][k] \in Nat /\ runs[l]["wake"] \in Nat /\ runs[l][k] > 0
  BY Zenon DEF TickerInv, TickerTypeOK, Kinds, Finish
<1>1. /\ runs' = [runs EXCEPT ![l][k] = @ - 1]
      /\ UNCHANGED <<started, stopped, quiet, rewoken>>
  BY Zenon DEF Finish, Ended
<1>2. runs' \in [Names -> [Kinds -> Nat]] /\ runs'[l] = [runs[l] EXCEPT ![k] = @ - 1]
  BY <1>0, <1>1 DEF TickerTypeOK
<1>3. age' \in [Names -> Nat \cup {-1}] /\ (\A m \in Names : m # l => age'[m] = age[m])
  BY <1>0, Zenon DEF Finish, TickerTypeOK
<1>4. \A m \in Names : m # l => runs'[m] = runs[m] /\ (m \notin failed' => m \notin failed)
  BY <1>0, <1>1, Zenon DEF Finish, TickerTypeOK
<1>5. l \notin failed' => age'[l] = 0
  BY <1>0, Zenon DEF Finish, Beats, TickerTypeOK
<1>6. l \in Begun /\ Begun' = Begun
  BY <1>0, <1>1 DEF LoopInv, WillTick, AtRest, Begun
<1>7. CASE k # "wake" \/ stopped
  <2>1. UNCHANGED <<timers, held, interval>>
    BY <1>7, Zenon DEF Finish, Rearmed, Arm
  <2>2. TickerTypeOK'
    BY <1>0, <1>1, <1>2, <1>3, <2>1, Zenon DEF TickerTypeOK
  <2>3. LoopInv(l)'
    <3>1. HoldsItsOwn(l)'
      BY <1>0, <1>1, <2>1, Zenon DEF LoopInv, HoldsItsOwn
    <3>2. runs'[l]["wake"] \in Nat /\ runs'[l]["wake"] <= runs[l]["wake"]
      BY <1>0, <1>2 DEF TickerTypeOK, Kinds
    <3>3. ~stopped => runs'[l]["wake"] = runs[l]["wake"]
      BY <1>0, <1>2, <1>7, Zenon DEF TickerTypeOK, Kinds
    <3>4. WillTick(l)'
      BY <1>0, <1>1, <1>6, <2>1, <3>3, Zenon DEF LoopInv, WillTick
    <3>5. HasOne(l)'
      <4> SUFFICES ASSUME ~rewoken PROVE HasOne(l)'
        BY <1>1, Zenon DEF HasOne
      <4>1. Pending(l)' = Pending(l)
        BY <2>1, Zenon DEF Pending
      <4>2. runs'[l]["wake"] <= 1 /\ (runs'[l]["wake"] = 1 => held[l] = NoTimer)
        BY <1>0, <3>2 DEF LoopInv, HasOne
      <4> QED BY <1>0, <2>1, <4>1, <4>2, Zenon DEF LoopInv, HasOne
    <3>6. BeatInTime(l)'
      <4> SUFFICES ASSUME ~stopped, l \notin failed', AtRest(l)'
                   PROVE  age'[l] # -1 /\ age'[l] + timers'[held'[l]].left <= interval'[l]
        BY <1>1, Zenon DEF BeatInTime
      <4>1. held[l] # NoTimer
        BY <1>0, <1>6, <3>3 DEF LoopInv, WillTick, AtRest, Kinds
      <4>2. timers[held[l]].left <= interval[l] /\ timers[held[l]].left \in Nat /\ interval[l] \in Nat
        BY <1>0, <4>1, Slots, Zenon DEF LoopInv, HoldsItsOwn, TickerTypeOK
      <4> QED BY <1>5, <2>1, <4>2
    <3> QED BY <3>1, <3>4, <3>5, <3>6, Zenon DEF LoopInv
  <2>4. ASSUME NEW m \in Names, m # l PROVE LoopInv(m)'
    BY <1>1, <1>3, <1>4, <1>6, <2>1, <2>2, <2>4, OthersKeep, Zenon
  <2> QED BY <2>2, <2>3, <2>4, Zenon DEF TickerInv
<1>8. CASE k = "wake" /\ ~stopped
  <2>1. PICK t \in TimerIds, g \in Nat :
          /\ timers[t] = Off
          /\ timers' = [timers EXCEPT ![t] = [loop |-> l, left |-> g]]
          /\ held' = [held EXCEPT ![l] = t]
          /\ interval' = [interval EXCEPT ![l] = g]
    <3>1. Arm(l, timers) /\ timers \in [TimerIds -> Slot]
      BY <1>0, <1>8, Zenon DEF Finish, Rearmed, TickerTypeOK
    <3> QED BY <1>0, <1>8, <3>1, Arms, Zenon
  <2>2. TickerTypeOK'
    <3>1. timers' \in [TimerIds -> Slot]
      BY <1>0, <2>1, Slots, Zenon DEF TickerTypeOK
    <3>2. held' \in [Names -> TimerIds \cup {NoTimer}] /\ interval' \in [Names -> Nat]
      BY <1>0, <2>1, Zenon DEF TickerTypeOK
    <3> QED BY <1>0, <1>1, <1>2, <1>3, <3>1, <3>2, Zenon DEF TickerTypeOK
  <2>3. held'[l] = t /\ t # NoTimer /\ timers'[t] = [loop |-> l, left |-> g] /\ interval'[l] = g
    BY <1>0, <2>1, Loop, Zenon DEF TickerTypeOK
  <2>4. LoopInv(l)'
    <3>1. HoldsItsOwn(l)' /\ WillTick(l)'
      BY <1>1, <1>6, <1>8, <2>3 DEF HoldsItsOwn, WillTick
    <3>2. HasOne(l)'
      <4> SUFFICES ASSUME ~rewoken PROVE HasOne(l)'
        BY <1>1, Zenon DEF HasOne
      <4>1. runs[l]["wake"] = 1 /\ held[l] = NoTimer
        <5>1. \A n \in Nat : n > 0 /\ n <= 1 => n = 1
          OBVIOUS
        <5>2. runs[l]["wake"] <= 1 /\ (runs[l]["wake"] = 1 => held[l] = NoTimer)
          BY <1>0, Zenon DEF LoopInv, HasOne
        <5> QED BY <1>0, <1>8, <5>1, <5>2, Zenon
      <4>4. runs'[l]["wake"] <= 1 /\ runs'[l]["wake"] # 1
        BY <1>0, <1>2, <1>8, <4>1 DEF TickerTypeOK
      <4>2. \A u \in TimerIds : timers[u].loop # l
        BY <1>0, <4>1, Loop, Zenon DEF LoopInv, HasOne, Pending
      <4>3. \A u \in Pending(l)' : u = t
        BY <1>0, <2>1, <4>2, Zenon DEF Pending, TickerTypeOK
      <4> QED BY <2>3, <4>3, <4>4, Zenon DEF HasOne
    <3>3. BeatInTime(l)'
      <4>1. timers'[held'[l]].left = g
        BY <2>3
      <4>2. 0 # -1 /\ 0 + g <= g
        OBVIOUS
      <4> QED BY <1>5, <2>3, <4>1, <4>2, Zenon DEF BeatInTime
    <3> QED BY <3>1, <3>2, <3>3, Zenon DEF LoopInv
  <2>5. ASSUME NEW m \in Names, m # l PROVE LoopInv(m)'
    <3>1. \A u \in TimerIds : timers[u].loop = m \/ timers'[u].loop = m => timers'[u] = timers[u]
      BY <1>0, <2>1, <2>5, Slots, Zenon DEF TickerTypeOK
    <3>2. held'[m] = held[m] /\ interval'[m] = interval[m]
      BY <1>0, <2>1, <2>5, Zenon DEF TickerTypeOK
    <3> QED BY <1>1, <1>3, <1>4, <1>6, <2>2, <2>5, <3>1, <3>2, OthersKeep, Zenon
  <2> QED BY <2>2, <2>4, <2>5, Zenon DEF TickerInv
<1> QED BY <1>7, <1>8, Zenon

(* What clearing the timers of the running loops leaves pending. *)
LEMMA Clears ==
  ASSUME TickerInv,
         timers' = [t \in TimerIds |-> IF \E l \in Running : held[l] = t THEN Off ELSE timers[t]]
  PROVE  /\ timers' \in [TimerIds -> Slot]
         /\ \A m \in Names, t \in TimerIds :
              /\ timers'[t].loop = m => timers[t].loop = m /\ ~(m \in Running /\ held[m] = t)
              /\ timers[t].loop = m /\ m \notin Running => timers'[t] = timers[t]
<1>1. TickerTypeOK /\ Running \subseteq Names
  BY Loop, Zenon DEF TickerInv, Running, Begun
<1>2. timers' \in [TimerIds -> Slot]
  BY <1>1, Slots, Zenon DEF TickerTypeOK
<1>3. ASSUME NEW m \in Names, m \notin Running, NEW t \in TimerIds, timers[t].loop = m
      PROVE  timers'[t] = timers[t]
  <2>1. \A l \in Running : held[l] # t
    BY <1>1, <1>3, Loop, Zenon DEF TickerInv, LoopInv, HoldsItsOwn
  <2> QED BY <2>1, Zenon
<1>4. ASSUME NEW m \in Names, NEW t \in TimerIds, timers'[t].loop = m
      PROVE  timers[t].loop = m /\ ~(m \in Running /\ held[m] = t)
  BY <1>4, Slots, Zenon
<1> QED BY <1>2, <1>3, <1>4

LEMMA TouchKeeps ==
  ASSUME TickerInv, Touch
  PROVE  TickerInv'
<1>0. TickerTypeOK /\ Begun' = Begun /\ Running \subseteq Names
      /\ UNCHANGED <<started, stopped, interval, age, failed>> /\ quiet' = 0
  BY Loop, Zenon DEF TickerInv, Touch, Begun, Running
<1>1. CASE ~isIdle
  <2>1. UNCHANGED <<timers, held, runs, rewoken>>
    BY <1>1, Zenon DEF Touch
  <2>2. TickerTypeOK'
    BY <1>0, <2>1, Zenon DEF TickerTypeOK
  <2>3. ASSUME NEW m \in Names PROVE LoopInv(m)'
    BY <1>0, <2>1, <2>2, <2>3, OthersKeep, Zenon
  <2> QED BY <2>2, <2>3, Zenon DEF TickerInv
<1>2. CASE isIdle
  <2>1. /\ timers' = [t \in TimerIds |-> IF \E l \in Running : held[l] = t THEN Off ELSE timers[t]]
        /\ held' = [l \in Names |-> IF l \in Running THEN NoTimer ELSE held[l]]
        /\ runs' = [l \in Names |-> IF l \in Running THEN [runs[l] EXCEPT !["wake"] = @ + 1] ELSE runs[l]]
        /\ rewoken' = (rewoken \/ \E l \in Running : runs[l]["wake"] > 0)
    BY <1>2, Zenon DEF Touch, Wake, Cleared
  <2>2. TickerTypeOK'
    <3>1. timers' \in [TimerIds -> Slot]
      BY <2>1, Clears, Zenon
    <3>2. held' \in [Names -> TimerIds \cup {NoTimer}]
      BY <1>0, <2>1, Zenon DEF TickerTypeOK
    <3>4. runs' \in [Names -> [Kinds -> Nat]]
      <4>1. ASSUME NEW m \in Names, NEW r \in [Kinds -> Nat]
            PROVE  [r EXCEPT !["wake"] = @ + 1] \in [Kinds -> Nat]
        BY DEF Kinds
      <4>2. \A m \in Names : runs[m] \in [Kinds -> Nat]
        BY <1>0, Zenon DEF TickerTypeOK
      <4> QED BY <2>1, <4>1, <4>2, Zenon
    <3>3. rewoken' \in BOOLEAN
      BY <2>1, Zenon
    <3> QED BY <1>0, <3>1, <3>2, <3>3, <3>4, Zenon DEF TickerTypeOK
  <2>3. ASSUME NEW m \in Names, m \notin Running PROVE LoopInv(m)'
    <3>1. held'[m] = held[m] /\ runs'[m] = runs[m] /\ (rewoken => rewoken')
      BY <2>1, <2>3, Zenon
    <3>2. \A t \in TimerIds : timers[t].loop = m \/ timers'[t].loop = m => timers'[t] = timers[t]
      BY <2>1, <2>3, Clears, Zenon
    <3> QED BY <1>0, <2>2, <2>3, <3>1, <3>2, OthersKeep, Zenon
  <2>4. ASSUME NEW m \in Names, m \in Running PROVE LoopInv(m)'
    <3>1. held'[m] = NoTimer /\ m \in Begun /\ LoopInv(m)
      BY <2>1, <2>4, Zenon DEF TickerInv, Running, Begun
    <3>2. runs[m]["wake"] \in Nat /\ runs'[m]["wake"] = runs[m]["wake"] + 1
      BY <1>0, <2>1, <2>4, Zenon DEF TickerTypeOK, Kinds
    <3>3. ~AtRest(m)'
      BY <3>2 DEF AtRest, Kinds
    <3>4. HasOne(m)'
      <4> SUFFICES ASSUME ~rewoken' PROVE HasOne(m)'
        BY Zenon DEF HasOne
      <4>1. ~rewoken /\ runs[m]["wake"] = 0
        <5>1. ~rewoken /\ ~(runs[m]["wake"] > 0)
          BY <2>1, <2>4, Zenon
        <5> QED BY <3>2, <5>1
      <4>2. Pending(m)' = {}
        <5>1. \A t \in TimerIds : timers'[t].loop = m => timers[t].loop = m /\ held[m] # t
          BY <2>1, <2>4, Clears, Zenon
        <5>2. \A t \in TimerIds : timers[t].loop = m => t = held[m]
          BY <3>1, <4>1, Zenon DEF LoopInv, HasOne, Pending
        <5> QED BY <5>1, <5>2, Zenon DEF Pending
      <4> QED BY <3>1, <3>2, <4>1, <4>2 DEF HasOne
    <3>5. runs'[m]["wake"] > 0
      BY <3>2
    <3> QED BY <1>0, <3>1, <3>3, <3>4, <3>5, Zenon DEF LoopInv, HoldsItsOwn, WillTick, BeatInTime
  <2> QED BY <2>2, <2>3, <2>4, Zenon DEF TickerInv
<1> QED BY <1>1, <1>2, Zenon

LEMMA ShutdownKeeps ==
  ASSUME TickerInv, Shutdown
  PROVE  TickerInv'
<1>0. TickerTypeOK /\ Begun' = Begun /\ Running = Begun /\ stopped' = TRUE
      /\ UNCHANGED <<started, runs, interval, age, quiet, failed, rewoken>>
  BY Zenon DEF TickerInv, Shutdown, Begun, Running
<1>1. /\ timers' = [t \in TimerIds |-> IF \E l \in Running : held[l] = t THEN Off ELSE timers[t]]
      /\ held' = [l \in Names |-> NoTimer]
  BY Zenon DEF Shutdown
<1>2. TickerTypeOK'
  <2>1. timers' \in [TimerIds -> Slot]
    BY <1>1, Clears, Zenon
  <2>2. held' \in [Names -> TimerIds \cup {NoTimer}]
    BY <1>1, Zenon
  <2>3. stopped' \in BOOLEAN
    BY <1>0, Zenon
  <2> QED BY <1>0, <2>1, <2>2, <2>3, Zenon DEF TickerTypeOK
<1>3. ASSUME NEW m \in Names PROVE LoopInv(m)'
  <2>1. LoopInv(m) /\ held'[m] = NoTimer /\ (AtRest(m)' <=> AtRest(m))
    BY <1>0, <1>1, <1>3, Zenon DEF TickerInv, AtRest
  <2>2. Pending(m)' \subseteq Pending(m) /\ (m \in Begun => held[m] \notin Pending(m)')
    BY <1>0, <1>1, <1>3, Clears, Zenon DEF Pending
  <2>3. HasOne(m)'
    BY <1>0, <2>1, <2>2, Zenon DEF LoopInv, HasOne, WillTick
  <2>4. WillTick(m)'
    BY <1>0, <2>1, <2>2, Zenon DEF LoopInv, WillTick
  <2> QED BY <1>0, <2>1, <2>3, <2>4, Zenon DEF LoopInv, HoldsItsOwn, BeatInTime
<1> QED BY <1>2, <1>3, Zenon DEF TickerInv

LEMMA ExitKeeps ==
  ASSUME TickerInv, Exit
  PROVE  TickerInv'
<1>1. TickerTypeOK'
  <2>1. timers' \in [TimerIds -> Slot]
    BY Slots, Zenon DEF Exit
  <2>2. interval' \in [Names -> Nat]
    BY TickerAssumption, Zenon DEF Exit
  <2>3. held' \in [Names -> TimerIds \cup {NoTimer}] /\ age' \in [Names -> Nat \cup {-1}]
    BY Zenon DEF Exit
  <2>4. runs' \in [Names -> [Kinds -> Nat]]
    BY Zenon DEF Exit
  <2>5. started' \in 0 .. Len(Loops) /\ quiet' \in Nat
    BY TickerAssumption DEF Exit
  <2>6. stopped' \in BOOLEAN /\ rewoken' \in BOOLEAN
    BY Zenon DEF Exit
  <2> QED BY <2>1, <2>2, <2>3, <2>4, <2>5, <2>6, Zenon DEF TickerTypeOK
<1>2. ASSUME NEW l \in Names PROVE LoopInv(l)'
  <2>1. l \notin Begun' /\ held'[l] = NoTimer /\ AtRest(l)' /\ ~stopped'
    BY <1>2 DEF Exit, Begun, AtRest
  <2>2. Pending(l)' = {}
    BY Slots, Zenon DEF Exit, Pending
  <2>3. runs'[l]["wake"] = 0
    BY <2>1, Zenon DEF AtRest, Kinds
  <2> QED BY <2>1, <2>2, <2>3 DEF LoopInv, HoldsItsOwn, WillTick, HasOne, BeatInTime
<1> QED BY <1>1, <1>2, Zenon DEF TickerInv

LEMMA ElapseKeeps ==
  ASSUME TickerInv, Elapse
  PROVE  TickerInv'
<1>0. TickerTypeOK /\ Begun' = Begun
      /\ UNCHANGED <<started, stopped, held, runs, interval, failed, rewoken>>
  BY Zenon DEF TickerInv, Elapse, Begun
<1>1. ASSUME NEW t \in TimerIds
      PROVE  /\ timers'[t] \in Slot /\ timers'[t].loop = timers[t].loop
             /\ timers[t].loop \in Names => timers[t].left \in Nat /\ timers'[t].left = timers[t].left - 1
  <2>1. timers[t] \in Slot /\ timers[t].left # 0
    BY <1>0, <1>1, Zenon DEF Elapse, TickerTypeOK
  <2>2. timers'[t] = IF timers[t] = Off THEN Off ELSE [timers[t] EXCEPT !.left = @ - 1]
    BY <1>1, Zenon DEF Elapse
  <2>3. CASE timers[t] = Off
    BY <2>2, <2>3, Slots, Zenon
  <2>4. CASE timers[t] # Off
    <3>1. PICK l \in Names, n \in Nat : timers[t] = [loop |-> l, left |-> n] /\ n # 0
      BY <2>1, <2>4, Slots, Zenon
    <3>2. timers'[t] = [loop |-> l, left |-> n - 1] /\ n - 1 \in Nat
      BY <2>2, <2>4, <3>1
    <3> QED BY <3>1, <3>2, Slots
  <2> QED BY <2>3, <2>4, Zenon
<1>2. ASSUME NEW m \in Names
      PROVE  age'[m] \in Nat \cup {-1} /\ (age[m] # -1 => age'[m] # -1 /\ age'[m] <= age[m] + 1)
  BY <1>0, <1>2 DEF Elapse, TickerTypeOK
<1>3. TickerTypeOK'
  <2>1. timers' \in [TimerIds -> Slot]
    BY <1>1, Zenon DEF Elapse
  <2>2. age' \in [Names -> Nat \cup {-1}]
    BY <1>2, Zenon DEF Elapse
  <2>3. quiet' \in Nat
    BY <1>0 DEF Elapse, TickerTypeOK
  <2> QED BY <1>0, <2>1, <2>2, <2>3, Zenon DEF TickerTypeOK
<1>4. ASSUME NEW m \in Names PROVE LoopInv(m)'
  <2>1. LoopInv(m) /\ (AtRest(m)' <=> AtRest(m)) /\ Pending(m)' = Pending(m)
    BY <1>0, <1>1, <1>4, Zenon DEF TickerInv, AtRest, Pending
  <2>2. held[m] # NoTimer => /\ held[m] \in TimerIds
                          /\ timers[held[m]].loop = m /\ timers'[held[m]].loop = m
                          /\ timers[held[m]].left \in Nat
                          /\ timers'[held[m]].left = timers[held[m]].left - 1
    BY <1>0, <1>1, <1>4, <2>1, Zenon DEF LoopInv, HoldsItsOwn, TickerTypeOK
  <2>3. interval[m] \in Nat /\ age[m] \in Nat \cup {-1}
    BY <1>0, <1>4, Zenon DEF TickerTypeOK
  <2>4. HoldsItsOwn(m)'
    <3> SUFFICES ASSUME held[m] # NoTimer
                 PROVE  ~stopped /\ timers'[held[m]].loop = m /\ timers'[held[m]].left <= interval[m]
      BY <1>0, Zenon DEF HoldsItsOwn
    <3>1. timers[held[m]].left <= interval[m] /\ ~stopped
      BY <2>1, Zenon DEF LoopInv, HoldsItsOwn
    <3>2. \A a, n \in Nat : a <= n => a - 1 <= n
      OBVIOUS
    <3> QED BY <2>2, <2>3, <3>1, <3>2, Zenon
  <2>5. WillTick(m)' /\ HasOne(m)'
    BY <1>0, <2>1, Zenon DEF LoopInv, WillTick, HasOne
  <2>6. BeatInTime(m)'
    <3> SUFFICES ASSUME ~stopped, m \in Begun, m \notin failed, AtRest(m)
                 PROVE  age'[m] # -1 /\ age'[m] + timers'[held[m]].left <= interval[m]
      BY <1>0, <2>1, Zenon DEF BeatInTime
    <3>1. held[m] # NoTimer
      <4>1. ~(runs[m]["wake"] > 0)
        BY DEF AtRest, Kinds
      <4> QED BY <2>1, <4>1, Zenon DEF LoopInv, WillTick
    <3>2. age[m] # -1 /\ age[m] + timers[held[m]].left <= interval[m]
      BY <2>1, Zenon DEF LoopInv, BeatInTime
    <3>3. \A a, b, d, n \in Nat : a + d <= n /\ b <= a + 1 => b + (d - 1) <= n
      OBVIOUS
    <3>4. age[m] \in Nat /\ age'[m] \in Nat /\ age'[m] <= age[m] + 1
      BY <1>2, <2>3, <3>2, Zenon
    <3>5. PICK d : d = timers[held[m]].left
      BY Zenon
    <3>6. d \in Nat /\ timers'[held[m]].left = d - 1 /\ age[m] + d <= interval[m]
      BY <2>2, <3>1, <3>2, <3>5, Zenon
    <3>7. age'[m] + (d - 1) <= interval[m]
      BY <2>3, <3>3, <3>4, <3>6, Zenon
    <3>8. age'[m] # -1
      BY <3>4
    <3> QED BY <3>6, <3>7, <3>8, Zenon
  <2> QED BY <2>4, <2>5, <2>6, Zenon DEF LoopInv
<1> QED BY <1>3, <1>4, Zenon DEF TickerInv

LEMMA TickerInductive == TickerSpec => []TickerInv
<1>1. TickerInv /\ [TickerNext]_ticker => TickerInv'
  <2> SUFFICES ASSUME TickerInv, [TickerNext]_ticker PROVE TickerInv'
    BY Zenon
  <2>1. CASE UNCHANGED ticker
    <3>1. TickerTypeOK' /\ Begun' = Begun
      BY <2>1, Zenon DEF ticker, clockwork, TickerInv, TickerTypeOK, Begun
    <3>2. ASSUME NEW m \in Names PROVE LoopInv(m)'
      BY <2>1, <3>1, <3>2, OthersKeep, Zenon DEF ticker, clockwork
    <3> QED BY <3>1, <3>2, Zenon DEF TickerInv
  <2> QED BY <2>1, StartKeeps, FireKeeps, FinishKeeps, TouchKeeps, ShutdownKeeps, ExitKeeps, ElapseKeeps, Zenon
          DEF TickerNext
<1> QED BY <1>1, TickerStarts, PTL DEF TickerSpec

(* A loop has the one timer it can clear, and one that was started has its *)
(* timer or a run that will arm it; only a wake that overtakes an earlier  *)
(* one breaks that (arm, wake, runOnce, onApplicationShutdown).            *)
THEOREM LoopsHaveOneTimer == TickerSpec => []OneTimerPerLoop
<1>1. TickerInv => OneTimerPerLoop
  <2> SUFFICES ASSUME TickerInv PROVE OneTimerPerLoop
    BY Zenon
  <2>0. TickerTypeOK
    BY Zenon DEF TickerInv
  <2>1. ASSUME NEW l \in Names
        PROVE  held[l] # NoTimer => held[l] \in Pending(l)
    BY <2>0, <2>1, Zenon DEF TickerInv, TickerTypeOK, LoopInv, HoldsItsOwn, Pending
  <2>2. ASSUME ~rewoken, NEW l \in Names
        PROVE  Pending(l) = IF held[l] = NoTimer THEN {} ELSE {held[l]}
    <3>1. \A t \in Pending(l) : t = held[l] /\ t # NoTimer
      BY <2>0, <2>2, Loop, Zenon DEF TickerInv, LoopInv, HasOne, Pending
    <3> QED BY <2>1, <3>1, Zenon
  <2>3. ASSUME NEW l \in Running
        PROVE  Pending(l) # {} \/ runs[l]["wake"] > 0
    <3>1. l \in Begun /\ ~stopped /\ l \in Names
      BY <2>0, <2>3, Loop, Zenon DEF Running, Begun
    <3> QED BY <2>1, <3>1, Zenon DEF TickerInv, LoopInv, WillTick
  <2> QED BY <2>2, <2>3, Zenon DEF OneTimerPerLoop
<1> QED BY <1>1, TickerInductive, PTL

(* Readiness turns away a process whose ticker runs only while a tick that *)
(* began has not ended, or after one failed: a loop at rest beat less than *)
(* one of its intervals ago (arm, retime, healthOf, evaluateReadiness).    *)
THEOREM NoAlarmIsFalse == TickerSpec => []NoFalseAlarm
<1>1. TickerInv => NoFalseAlarm
  <2> SUFFICES ASSUME TickerInv, started = Len(Loops), ~stopped, failed = {},
                      \A l \in Names, k \in Kinds : ~(runs[l][k] > 0)
               PROVE  evaluateReadiness(TRUE) # "unavailable"
    BY Zenon DEF NoFalseAlarm
  <2>0. TickerTypeOK /\ started # 0
    BY TickerAssumption DEF TickerInv
  <2>1. ASSUME NEW i \in 1 .. started PROVE healthOf(Loops[i]) # "stalled"
    <3>1. PICK l : l = Loops[i]
      BY Zenon
    <3>2. l \in Begun /\ l \in Names
      BY <2>0, <2>1, <3>1, Loop, Zenon DEF Begun
    <3>3. AtRest(l)
      BY <2>0, <3>2 DEF AtRest, TickerTypeOK
    <3>4. held[l] # NoTimer /\ age[l] # -1 /\ age[l] + timers[held[l]].left <= interval[l]
      BY <3>2, <3>3, Zenon DEF TickerInv, LoopInv, WillTick, BeatInTime, AtRest, Kinds
    <3>5. timers[held[l]].left \in Nat /\ age[l] \in Nat /\ interval[l] \in Nat
      BY <2>0, <3>2, <3>4, Slots DEF TickerInv, LoopInv, HoldsItsOwn, TickerTypeOK
    <3>6. ~(age[l] > 3 * interval[l])
      <4>1. \A a, b, n \in Nat : a + b <= n => ~(a > 3 * n)
        OBVIOUS
      <4> QED BY <3>4, <3>5, <4>1, Zenon
    <3> QED BY <3>1, <3>4, <3>6, Zenon DEF healthOf, STALE_TICK_MULTIPLIER
  <2> QED BY <2>0, <2>1, Zenon DEF evaluateReadiness, schedulerStatus
<1> QED BY <1>1, TickerInductive, PTL

------------------------------------------------------------------------------
(* The SLA clock. *)
(* The clock runs, or stands since pauseStartedAt; either way what it      *)
(* shows is the time the team has had the Ticket.                          *)
Exact ==
  \/ pauseStartedAt = None /\ state \notin Stopping /\ clock - pausedMs = worked
  \/ /\ pauseStartedAt \in Nat /\ pauseStartedAt <= clock /\ state \in Stopping
     /\ pauseStartedAt - pausedMs = worked

(* The instants of the sweeps: past, and different unless two clashed. *)
Instants ==
  /\ \A s \in Sweeps : at[s] # None => at[s] <= clock
  /\ \A s \in Sweeps : phase[s] # "idle" => at[s] # None
  /\ ~clash => \A s, o \in Sweeps : s # o /\ at[s] # None => at[s] # at[o]

(* A target that is being missed has been noted, and what is latched, or   *)
(* will be by an UPDATE under way, was missed once: no later step takes    *)
(* that back.                                                              *)
DueIsEarned ==
  \A t \in Timers :
    /\ Missing(t) => t \in missed
    /\ latch[t] # None => t \in missed
    /\ \A s \in Sweeps : t \in due[s] => t \in missed

(* A breach is announced by the sweep whose instant it holds.  Once it is, *)
(* no sweep at work has that instant, and none will.                       *)
Announcing ==
  /\ \A t \in Timers : latch[t] # None => latch[t] < clock \/ \E o \in Sweeps : at[o] = latch[t]
  /\ \A s \in Sweeps : \A t \in collected[s] : phase[s] = "visited" /\ latch[t] = at[s]
  /\ ~clash => \A t \in Timers :
       /\ told[t] <= 1
       /\ told[t] = 1 => latch[t] # None /\ \A s \in Sweeps : phase[s] # "idle" => at[s] # latch[t]

IInv == SlaTypeOK /\ Exact /\ Instants /\ DueIsEarned /\ Announcing

LEMMA InitIInv == Init => IInv
<1> SUFFICES ASSUME Init PROVE IInv
  BY Zenon
<1> USE SlaAssumption DEF SlaAssumption
<1>1. SlaTypeOK
  <2>1. clock \in 0 .. Horizon /\ pausedMs \in 0 .. Horizon /\ worked \in 0 .. clock
    BY DEF Init
  <2>2. state \in States
    BY Zenon DEF Init, States, Active
  <2>3. QED
    BY <2>1, <2>2, Zenon DEF Init, SlaTypeOK
<1>2. Exact /\ Instants /\ Announcing
  BY DEF Init, Exact, Instants, Announcing, Stopping, Timers
<1>3. DueIsEarned
  BY DEF Init, DueIsEarned, Missing, Timers
<1>4. QED
  BY <1>1, <1>2, <1>3, Zenon DEF IInv

(* Read at any time up to now, the clock shows no more than what the team  *)
(* has had, and now exactly that.                                          *)
LEMMA Reading ==
  ASSUME IInv, NEW t \in Nat, t <= clock
  PROVE  ActiveElapsed(t) <= worked /\ ActiveElapsed(clock) = worked
<1> USE SlaAssumption DEF SlaAssumption
<1>1. clock \in Nat /\ pausedMs \in Nat /\ worked \in Nat
  BY DEF IInv, SlaTypeOK
<1>2. CASE pauseStartedAt = None
  BY <1>1, <1>2 DEF IInv, Exact, ActiveElapsed
<1>3. CASE pauseStartedAt # None
  BY <1>1, <1>3 DEF IInv, Exact, ActiveElapsed
<1>4. QED
  BY <1>2, <1>3, Zenon

(* What is noted stays noted, and what is missed after a step is noted. *)
LEMMA Witness ==
  ASSUME SlaTypeOK, Witnessed
  PROVE  /\ missed' \in SUBSET Timers /\ missed \subseteq missed'
         /\ \A t \in Timers : Missing(t)' => t \in missed'
BY Zenon DEF SlaTypeOK, Witnessed

------------------------------------------------------------------------------
LEMMA StepIInv == IInv /\ [Next]_vars => IInv'
<1> SUFFICES ASSUME IInv, [Next]_vars PROVE IInv'
  BY Zenon
<1> USE SlaAssumption DEF SlaAssumption, IInv
<1>0. clock \in Nat /\ pausedMs \in Nat /\ worked \in Nat /\ clock <= Horizon /\ worked <= clock
  BY DEF SlaTypeOK
<1>1. CASE Tick
  <2>1. /\ clock' = clock + 1 /\ clock < Horizon
        /\ worked' = IF state \in Stopping THEN worked ELSE worked + 1
        /\ UNCHANGED <<state, priority, pausedMs, pauseStartedAt, answered, latch>>
        /\ UNCHANGED <<phase, at, due, collected, told, clash>> /\ Witnessed
    BY <1>1, Zenon DEF Tick, ticket, sweep
  <2>2. clock' \in 0 .. Horizon /\ worked' \in 0 .. clock' /\ worked' >= worked /\ worked' \in Nat /\ clock' \in Nat
    BY <1>0, <2>1
  <2>3. SlaTypeOK'
    BY <2>1, <2>2, Witness, Zenon DEF SlaTypeOK
  <2>4. Exact'
    BY <1>0, <2>1 DEF Exact
  <2>5. Instants'
    BY <1>0, <2>1 DEF Instants, SlaTypeOK
  <2>6. DueIsEarned'
    BY <2>1, Witness, Zenon DEF DueIsEarned
  <2>7. Announcing'
    BY <1>0, <2>1 DEF Announcing, SlaTypeOK
  <2>8. QED
    BY <2>3, <2>4, <2>5, <2>6, <2>7, Zenon
<1>2. ASSUME NEW to \in States, Transition(to) PROVE IInv'
  <2>1. /\ state' = to /\ pausedMs' = PausedMs(to)
        /\ pauseStartedAt' = IF to \in Stopping THEN clock ELSE None
        /\ UNCHANGED <<clock, priority, answered, latch, worked, phase, at, due, collected, told, clash>>
        /\ Witnessed
    BY <1>2, Zenon DEF Transition, sweep
  <2>2. PausedMs(to) \in Nat /\ PausedMs(to) <= clock /\ clock - PausedMs(to) = worked
    BY <1>0 DEF PausedMs, Exact
  <2>3. SlaTypeOK'
    <3>1. pausedMs' \in 0 .. Horizon /\ pauseStartedAt' \in {None} \cup 0 .. Horizon
      BY <1>0, <2>1, <2>2
    <3>2. QED
      BY <2>1, <3>1, Witness, Zenon DEF SlaTypeOK
  <2>4. Exact'
    BY <1>0, <2>1, <2>2 DEF Exact
  <2>5. Instants' /\ DueIsEarned' /\ Announcing'
    BY <2>1, Witness, Zenon DEF Instants, DueIsEarned, Announcing
  <2>6. QED
    BY <2>3, <2>4, <2>5, Zenon
<1>3. CASE Respond
  <2>1. /\ answered' = TRUE
        /\ UNCHANGED <<clock, state, priority, pausedMs, pauseStartedAt, latch, worked, missed>>
        /\ UNCHANGED <<phase, at, due, collected, told, clash>>
    BY <1>3, Zenon DEF Respond, sweep
  <2>2. SlaTypeOK' /\ Exact' /\ Instants' /\ Announcing'
    BY <1>0, <2>1, Zenon DEF SlaTypeOK, Exact, Instants, Announcing
  <2>3. DueIsEarned'
    BY <2>1, Zenon DEF DueIsEarned, Missing, Timers
  <2>4. QED
    BY <2>2, <2>3, Zenon
<1>4. ASSUME NEW s \in Sweeps, Start(s) PROVE IInv'
  <2>1. /\ phase[s] = "idle" /\ at[s] # clock /\ clash' = (clash \/ \E o \in Sweeps : at[o] = clock)
        /\ phase' = [phase EXCEPT ![s] = "visit"] /\ at' = [at EXCEPT ![s] = clock]
        /\ UNCHANGED <<clock, state, priority, pausedMs, pauseStartedAt, answered, latch, worked, missed>>
        /\ UNCHANGED <<due, collected, told>>
    BY <1>4, Zenon DEF Start, Goto, ticket
  <2>2. SlaTypeOK'
    BY <1>0, <2>1, Zenon DEF SlaTypeOK
  <2>3. Exact' /\ DueIsEarned'
    BY <2>1, Zenon DEF Exact, DueIsEarned, Missing, Timers
  <2>4. /\ at'[s] = clock /\ phase'[s] = "visit"
        /\ \A o \in Sweeps \ {s} : at'[o] = at[o] /\ phase'[o] = phase[o]
    BY <2>1, Zenon DEF SlaTypeOK
  <2>5. Instants'
    <3>1. \A o \in Sweeps : at'[o] # None => at'[o] <= clock
      <4>1. \A o \in Sweeps : at[o] # None => at[o] <= clock
        BY Zenon DEF Instants
      <4>2. clock <= clock
        BY <1>0
      <4>3. QED
        BY <2>4, <4>1, <4>2, Zenon
    <3>2. \A o \in Sweeps : phase'[o] # "idle" => at'[o] # None
      BY <1>0, <2>4, Zenon DEF Instants
    <3>3. ASSUME ~clash', NEW a \in Sweeps, NEW o \in Sweeps, a # o, at'[a] # None
          PROVE  at'[a] # at'[o]
      <4>1. ~clash /\ \A x \in Sweeps : at[x] # clock
        BY <2>1, <3>3, Zenon
      <4>2. CASE a = s \/ o = s
        BY <2>4, <3>3, <4>1, <4>2, Zenon
      <4>3. CASE a # s /\ o # s
        BY <2>4, <3>3, <4>1, <4>3, Zenon DEF Instants
      <4>4. QED
        BY <4>2, <4>3, Zenon
    <3>4. QED
      BY <2>1, <3>1, <3>2, <3>3, Zenon DEF Instants
  <2>6. Announcing'
    <3>1. ASSUME NEW t \in Timers, latch[t] # None
          PROVE  latch[t] < clock \/ \E o \in Sweeps : at'[o] = latch[t]
      <4>1. CASE latch[t] < clock
        BY <4>1, Zenon
      <4>2. CASE ~(latch[t] < clock)
        <5>1. PICK o \in Sweeps : at[o] = latch[t]
          BY <3>1, <4>2, Zenon DEF Announcing
        <5>2. at[o] <= clock /\ at[o] \in Nat /\ latch[t] = clock
          BY <1>0, <3>1, <4>2, <5>1 DEF Instants, SlaTypeOK
        <5>3. o # s
          BY <2>1, <5>1, <5>2, Zenon
        <5>4. QED
          BY <2>4, <5>1, <5>3, Zenon
      <4>3. QED
        BY <4>1, <4>2, Zenon
    <3>2. \A o \in Sweeps : \A t \in collected'[o] : phase'[o] = "visited" /\ latch'[t] = at'[o]
      BY <2>1, <2>4, Zenon DEF Announcing
    <3>3. ASSUME ~clash', NEW t \in Timers, told[t] = 1
          PROVE  latch[t] # None /\ \A o \in Sweeps : phase'[o] # "idle" => at'[o] # latch[t]
      <4>1. ~clash /\ latch[t] # None /\ \A o \in Sweeps : at[o] # clock
        BY <2>1, <3>3, Zenon DEF Announcing
      <4>2. latch[t] # clock
        BY <1>0, <4>1 DEF Announcing
      <4>3. QED
        BY <2>4, <3>3, <4>1, <4>2 DEF Announcing
    <3>4. ~clash' => \A t \in Timers : told[t] <= 1
      BY <2>1, Zenon DEF Announcing
    <3>5. UNCHANGED <<clock, latch, told>>
      BY <2>1, Zenon
    <3>6. QED
      BY <3>1, <3>2, <3>3, <3>4, <3>5, Zenon DEF Announcing
  <2>7. QED
    BY <2>2, <2>3, <2>5, <2>6, Zenon
<1>5. ASSUME NEW s \in Sweeps, Snapshot(s) PROVE IInv'
  <2>1. /\ phase[s] = "visit" /\ phase' = [phase EXCEPT ![s] = "update"] /\ due' = [due EXCEPT ![s] = Due(at[s])]
        /\ UNCHANGED <<clock, state, priority, pausedMs, pauseStartedAt, answered, latch, worked, missed>>
        /\ UNCHANGED <<at, collected, told, clash>>
    BY <1>5, Zenon DEF Snapshot, Goto, ticket
  <2>2. SlaTypeOK' /\ Exact'
    BY <2>1, Zenon DEF SlaTypeOK, Exact, Due
  <2>3. Instants' /\ Announcing'
    BY <2>1, Zenon DEF Instants, Announcing, SlaTypeOK
  <2>4. DueIsEarned'
    <3>1. at[s] \in Nat /\ at[s] <= clock
      BY <2>1 DEF Instants, SlaTypeOK
    <3>2. ActiveElapsed(at[s]) <= worked
      BY <3>1, Reading, Zenon
    <3>3. ActiveElapsed(at[s]) \in Int
      BY <1>0, <3>1 DEF ActiveElapsed, Exact
    <3>4. ASSUME NEW t \in Due(at[s]) PROVE Missing(t)
      <4>0. FirstResponse[priority] \in Nat /\ Resolution[priority] \in Nat
        BY Zenon DEF SlaTypeOK
      <4>1. CASE t = "resolution"
        BY <1>0, <3>2, <3>3, <4>0, <4>1 DEF Due, Missing
      <4>2. CASE t = "first_response"
        BY <1>0, <3>1, <4>0, <4>2 DEF Due, Missing, WallElapsed
      <4>3. QED
        BY <4>1, <4>2, Zenon DEF Due, Timers
    <3>5. Due(at[s]) \subseteq missed
      BY <3>4, Zenon DEF DueIsEarned, Due
    <3>6. QED
      BY <2>1, <3>5, Zenon DEF DueIsEarned, Missing, Timers, SlaTypeOK
  <2>5. QED
    BY <2>2, <2>3, <2>4, Zenon
<1>6. ASSUME NEW s \in Sweeps, Update(s) PROVE IInv'
  <2> DEFINE row == [t \in Timers |-> IF t \in due[s] THEN Coerced(t, at[s]) ELSE latch[t]]
  <2>1. /\ phase[s] = "update" /\ phase' = [phase EXCEPT ![s] = "visited"] /\ latch' = row
        /\ collected' = [collected EXCEPT ![s] = IF due[s] = {} THEN {} ELSE latchedTimers(row, at[s])]
        /\ due' = [due EXCEPT ![s] = {}]
        /\ UNCHANGED <<clock, state, priority, pausedMs, pauseStartedAt, answered, worked, missed, at, told, clash>>
    BY <1>6, Zenon DEF Update, Goto
  <2>2. at[s] \in 0 .. Horizon /\ at[s] # None
    BY <2>1, Zenon DEF Instants, SlaTypeOK
  <2>3. \A t \in Timers : /\ latch[t] # None => latch'[t] = latch[t]
                          /\ latch[t] = None => latch'[t] \in {None, at[s]} /\ (latch'[t] # None => t \in due[s])
    BY <2>1, Zenon DEF Coerced
  <2>4. SlaTypeOK'
    <3>1. latch' \in [Timers -> {None} \cup 0 .. Horizon]
      BY <2>1, <2>2, Zenon DEF SlaTypeOK, Coerced
    <3>2. collected' \in [Sweeps -> SUBSET Timers]
      BY <2>1, Zenon DEF SlaTypeOK, latchedTimers
    <3>3. QED
      BY <2>1, <3>1, <3>2, Zenon DEF SlaTypeOK
  <2>5. Exact' /\ Instants'
    BY <2>1, Zenon DEF Exact, Instants, SlaTypeOK
  <2>6. DueIsEarned'
    BY <2>1, <2>3, Zenon DEF DueIsEarned, Missing, Timers, SlaTypeOK
  <2>7. Announcing'
    <3>1. \A t \in Timers : latch'[t] # None => latch'[t] < clock \/ \E o \in Sweeps : at[o] = latch'[t]
      <4> TAKE t \in Timers
      <4>1. CASE latch[t] # None
        <5>1. latch'[t] = latch[t]
          BY <2>3, <4>1, Zenon
        <5>2. latch[t] < clock \/ \E o \in Sweeps : at[o] = latch[t]
          BY <4>1, Zenon DEF Announcing
        <5>3. QED
          BY <5>1, <5>2, Zenon
      <4>2. CASE latch[t] = None
        BY <2>3, <4>2, Zenon
      <4> QED BY <4>1, <4>2, Zenon
    <3>2. ASSUME NEW o \in Sweeps, NEW t \in collected'[o]
          PROVE  phase'[o] = "visited" /\ latch'[t] = at[o]
      <4>1. CASE o = s
        BY <2>1, <3>2, <4>1, Zenon DEF SlaTypeOK, latchedTimers
      <4>2. CASE o # s
        <5>1. t \in collected[o] /\ t \in Timers
          BY <2>1, <3>2, <4>2, Zenon DEF SlaTypeOK
        <5>2. phase[o] = "visited" /\ latch[t] = at[o] /\ at[o] # None
          BY <5>1, Zenon DEF Announcing, Instants
        <5>3. QED
          BY <2>1, <2>3, <4>2, <5>1, <5>2, Zenon DEF SlaTypeOK
      <4>3. QED
        BY <4>1, <4>2, Zenon
    <3>3. ASSUME ~clash, NEW t \in Timers
          PROVE  /\ told[t] <= 1
                 /\ told[t] = 1 => latch'[t] # None /\ \A o \in Sweeps : phase'[o] # "idle" => at[o] # latch'[t]
      <4>1. /\ told[t] <= 1
            /\ told[t] = 1 => latch[t] # None /\ \A o \in Sweeps : phase[o] # "idle" => at[o] # latch[t]
        BY <3>3, Zenon DEF Announcing
      <4>2. \A o \in Sweeps : phase'[o] # "idle" => phase[o] # "idle"
        BY <2>1, Zenon DEF SlaTypeOK
      <4>3. QED
        BY <2>3, <4>1, <4>2, Zenon
    <3>4. UNCHANGED <<clock, at, told, clash>>
      BY <2>1, Zenon
    <3>5. QED
      BY <3>1, <3>2, <3>3, <3>4, Zenon DEF Announcing
  <2>8. QED
    BY <2>4, <2>5, <2>6, <2>7, Zenon
<1>7. ASSUME NEW s \in Sweeps, Announce(s) PROVE IInv'
  <2>1. /\ phase[s] = "visited" /\ phase' = [phase EXCEPT ![s] = "idle"]
        /\ told' = [t \in Timers |-> told[t] + (IF t \in collected[s] THEN 1 ELSE 0)]
        /\ collected' = [collected EXCEPT ![s] = {}]
        /\ UNCHANGED <<clock, state, priority, pausedMs, pauseStartedAt, answered, latch, worked, missed, at, due, clash>>
    BY <1>7, Zenon DEF Announce, Goto, ticket
  <2>2. SlaTypeOK'
    <3>1. told' \in [Timers -> Nat]
      BY <2>1 DEF SlaTypeOK
    <3>2. QED
      BY <2>1, <3>1, Zenon DEF SlaTypeOK
  <2>3. Exact' /\ Instants' /\ DueIsEarned'
    BY <2>1, Zenon DEF Exact, Instants, DueIsEarned, Missing, Timers, SlaTypeOK
  <2>4. Announcing'
    <3>1. \A o \in Sweeps : \A t \in collected'[o] : phase'[o] = "visited" /\ latch'[t] = at'[o]
      BY <2>1, Zenon DEF Announcing, SlaTypeOK
    <3>2. ASSUME ~clash, NEW t \in Timers
          PROVE  /\ told'[t] <= 1
                 /\ told'[t] = 1 => latch[t] # None /\ \A o \in Sweeps : phase'[o] # "idle" => at[o] # latch[t]
      <4>1. CASE t \notin collected[s]
        <5>1. /\ told[t] <= 1
              /\ told[t] = 1 => latch[t] # None /\ \A o \in Sweeps : phase[o] # "idle" => at[o] # latch[t]
          BY <3>2, Zenon DEF Announcing
        <5>2. \A o \in Sweeps : phase'[o] # "idle" => phase[o] # "idle"
          BY <2>1, Zenon DEF SlaTypeOK
        <5>3. told'[t] = told[t]
          BY <2>1, <4>1 DEF SlaTypeOK
        <5>4. QED
          BY <5>1, <5>2, <5>3, Zenon
      <4>2. CASE t \in collected[s]
        <5>1. latch[t] = at[s] /\ at[s] # None
          BY <2>1, <4>2, Zenon DEF Announcing, Instants
        <5>2. told[t] = 0
          BY <2>1, <3>2, <5>1 DEF Announcing, SlaTypeOK
        <5>3. told'[t] = 1
          BY <2>1, <4>2, <5>2
        <5>4. ASSUME NEW o \in Sweeps, phase'[o] # "idle" PROVE at[o] # latch[t]
          <6>1. o # s
            BY <2>1, <5>4, Zenon DEF SlaTypeOK
          <6>2. QED
            BY <3>2, <5>1, <6>1, Zenon DEF Instants
        <5>5. QED
          BY <5>1, <5>3, <5>4, SMTT(20)
      <4>3. QED
        BY <4>1, <4>2, Zenon
    <3>3. QED
      BY <2>1, <3>1, <3>2, Zenon DEF Announcing
  <2>5. QED
    BY <2>2, <2>3, <2>4, Zenon
<1>8. ASSUME NEW s \in Sweeps, GiveUp(s) PROVE IInv'
  <2>1. /\ phase' = [phase EXCEPT ![s] = "idle"] /\ due' = [due EXCEPT ![s] = {}]
        /\ collected' = [collected EXCEPT ![s] = {}]
        /\ UNCHANGED <<clock, state, priority, pausedMs, pauseStartedAt, answered, latch, worked, missed, at, told, clash>>
    BY <1>8, Zenon DEF GiveUp, Goto, ticket
  <2>2. SlaTypeOK'
    BY <2>1, Zenon DEF SlaTypeOK
  <2>3. Exact' /\ Instants' /\ DueIsEarned'
    BY <2>1, Zenon DEF Exact, Instants, DueIsEarned, Missing, Timers, SlaTypeOK
  <2>4. Announcing'
    BY <2>1, Zenon DEF Announcing, SlaTypeOK
  <2>5. QED
    BY <2>2, <2>3, <2>4, Zenon
<1>9. ASSUME NEW p \in Priorities, SetPriority(p) PROVE IInv'
  <2>1. /\ priority' = p
        /\ UNCHANGED <<clock, state, pausedMs, pauseStartedAt, answered, latch, worked>>
        /\ UNCHANGED <<phase, at, due, collected, told, clash>> /\ Witnessed
    BY <1>9, Zenon DEF SetPriority, sweep
  <2>2. SlaTypeOK' /\ Exact'
    BY <2>1, Witness, Zenon DEF SlaTypeOK, Exact
  <2>3. Instants' /\ DueIsEarned' /\ Announcing'
    BY <2>1, Witness, Zenon DEF Instants, DueIsEarned, Announcing
  <2>4. QED
    BY <2>2, <2>3, Zenon
<1>10. CASE UNCHANGED vars
  <2>1. /\ UNCHANGED <<clock, state, priority, pausedMs, pauseStartedAt, answered, latch, worked, missed>>
        /\ UNCHANGED <<phase, at, due, collected, told, clash>>
    BY <1>10, Zenon DEF vars, ticket, sweep
  <2>2. SlaTypeOK' /\ Exact'
    BY <2>1, Zenon DEF SlaTypeOK, Exact
  <2>3. Instants' /\ Announcing'
    BY <2>1, Zenon DEF Instants, Announcing
  <2>4. DueIsEarned'
    BY <2>1, Zenon DEF DueIsEarned, Missing, Timers
  <2>5. QED
    BY <2>2, <2>3, <2>4, Zenon
<1>11. QED
  BY <1>1, <1>2, <1>3, <1>4, <1>5, <1>6, <1>7, <1>8, <1>9, <1>10, Zenon DEF Next

LEMMA Invariance == Spec => []IInv
  BY InitIInv, StepIInv, PTL DEF Spec

(* Through any sequence of pauses, resolutions and reopenings the clock    *)
(* shows the time the team has had the Ticket (ticket_enforce_transition). *)
THEOREM ClockIsExact == Spec => []ResolutionClockIsExact
<1>1. IInv => ResolutionClockIsExact
  BY Reading DEF IInv, SlaTypeOK, ResolutionClockIsExact
<1>2. QED
  BY Invariance, <1>1, PTL

(* However stale the snapshot that latched it, and whatever became of the  *)
(* priority meanwhile, a breach really happened (latchTenant).             *)
THEOREM BreachesAreEarned == Spec => []BreachIsEarned
<1>1. IInv => BreachIsEarned
  BY Zenon DEF IInv, DueIsEarned, BreachIsEarned
<1>2. QED
  BY Invariance, <1>1, PTL

(* However many sweeps overlap and fail, a breach is announced at most     *)
(* once unless two of them started at the same instant (latchedTimers).    *)
THEOREM AnnouncementsAreSingle == Spec => []AnnouncedAtMostOnce
<1>1. IInv => AnnouncedAtMostOnce
  BY Zenon DEF IInv, Announcing, AnnouncedAtMostOnce
<1>2. QED
  BY Invariance, <1>1, PTL
==============================================================================
