---------------------------- MODULE RealtimeProofs ----------------------------
(***************************************************************************)
(* The realtime layer's promises for any number of rooms, events and       *)
(* sockets, any buffer size and any room limit: the event log, a client    *)
(* that follows a room over it, and who hears what.  And the family of     *)
(* refresh tokens a client gets its access from, for any number of         *)
(* requests and tokens.                                                    *)
(*                                                                         *)
(* The log's inductive fact is where a room's past numbers are covered: by *)
(* its own counter while it is in the Map, by the high-water mark once it  *)
(* has been evicted.                                                       *)
(***************************************************************************)
EXTENDS Realtime, Gateway, Sessions, FiniteSetTheorems, NaturalsInduction,
        WellFoundedInduction, TLAPS

(* The number the next envelope of r is above. *)
Floor(r) == IF r \in rooms THEN head[r] ELSE evictedHighWater

Covered ==
  \A r \in Rooms : \A i \in DOMAIN hist[r] : hist[r][i] \in 1 .. Floor(r)

BufferInv == \A r \in rooms : low[r] <= head[r] /\ head[r] - low[r] <= RETAIN

LogInv == LogTypeOK /\ Covered /\ SeqIsMonotonic /\ BufferInv

USE EventLogAssumption

LEMMA InitLogInv == LogInit => LogInv
  BY DEF LogInit, LogInv, LogTypeOK, Covered, SeqIsMonotonic, BufferInv, Floor

(* What touch does to the floors: no room's floor goes down. *)
LEMMA FloorsRise ==
  ASSUME LogTypeOK, NEW r \in Rooms, touch(r),
         NEW f \in Nat, f >= Floor(r), head' = [head EXCEPT ![r] = f],
         f >= evictedHighWater' \/ r \in rooms
  PROVE  /\ evictedHighWater' \in Nat /\ rooms' \subseteq Rooms /\ r \in rooms'
         /\ \A q \in Rooms : q # r => Floor(q)' >= Floor(q)
<1> USE DEF LogTypeOK, Floor
<1>1. CASE r \in rooms
  <2>1. rooms' = rooms /\ evictedHighWater' = evictedHighWater
    BY <1>1, Zenon DEF touch
  <2> QED BY <1>1, <2>1
<1>2. CASE r \notin rooms /\ ~Full
  <2>1. rooms' = rooms \cup {r} /\ evictedHighWater' = evictedHighWater
    BY <1>2, Zenon DEF touch
  <2> QED BY <2>1
<1>3. CASE r \notin rooms /\ Full
  <2>1. PICK o \in Rooms : /\ Oldest(o)
                           /\ rooms' = (rooms \ {o}) \cup {r}
                           /\ evictedHighWater' = Kept(o)
    BY <1>3, Zenon DEF touch
  <2>2. /\ evictedHighWater' \in Nat
        /\ evictedHighWater' >= evictedHighWater
        /\ evictedHighWater' >= head[o]
    BY <2>1 DEF Kept, Larger
  <2>3. ASSUME NEW q \in Rooms, q # r PROVE Floor(q)' >= Floor(q)
    <3>1. CASE q = o
      BY <2>1, <2>2, <2>3, <3>1, Zenon
    <3>2. CASE q # o
      BY <2>1, <2>2, <2>3, <3>2
    <3> QED BY <3>1, <3>2, Zenon
  <2> QED BY <2>1, <2>2, <2>3, Zenon
<1> QED BY <1>1, <1>2, <1>3, Zenon

(* What append does: from is the last number taken, back the one below the *)
(* buffer.                                                                 *)
Appended(r, from, back) ==
  /\ from >= Floor(r) /\ back <= from /\ from - back <= RETAIN
  /\ rank' = MovedToBack(r)
  /\ head' = [head EXCEPT ![r] = from + 1]
  /\ low'  = [low EXCEPT ![r] = IF from + 1 - back > RETAIN THEN back + 1 ELSE back]
  /\ hist' = [hist EXCEPT ![r] = Append(hist[r], from + 1)]
  /\ evictedHighWater' \in Nat /\ rooms' \subseteq Rooms /\ r \in rooms'
  /\ \A q \in Rooms : q # r => Floor(q)' >= Floor(q)

LEMMA Appends ==
  ASSUME LogInv, NEW r \in Rooms, append(r)
  PROVE  \E from, back \in Nat : Appended(r, from, back)
<1>0. LogTypeOK /\ Covered /\ SeqIsMonotonic /\ BufferInv
  BY Zenon DEF LogInv
<1>a. touch(r)
  BY Zenon DEF append
<1>1. PICK e \in Nat : e = evictedHighWater' /\ e >= evictedHighWater
  <2>2. CASE evictedHighWater' = evictedHighWater
    BY <1>0, <2>2 DEF LogTypeOK
  <2>3. CASE evictedHighWater' # evictedHighWater
    <3>1. PICK o \in Rooms : evictedHighWater' = Kept(o)
      BY <1>a, <2>3, Zenon DEF touch
    <3>2. Kept(o) \in Nat /\ Kept(o) >= evictedHighWater
      BY <1>0 DEF Kept, Larger, LogTypeOK
    <3> QED BY <3>1, <3>2, Zenon
  <2> QED BY <2>2, <2>3, Zenon
<1> DEFINE from == IF r \in rooms THEN head[r] ELSE e
           back == IF r \in rooms THEN low[r] ELSE e
<1>2. /\ from \in Nat /\ back \in Nat /\ from >= Floor(r)
      /\ back <= from /\ from - back <= RETAIN
      /\ from + 1 >= e \/ r \in rooms
  <2>1. CASE r \in rooms
    BY <1>0, <2>1 DEF Floor, LogTypeOK, BufferInv
  <2>2. CASE r \notin rooms
    <3>1. from = e /\ back = e /\ Floor(r) = evictedHighWater
      BY <2>2, Zenon DEF Floor
    <3>2. e >= evictedHighWater
      BY <1>1, Zenon
    <3>3. evictedHighWater \in Nat
      BY <1>0, Zenon DEF LogTypeOK
    <3> HIDE DEF from, back
    <3> QED BY <3>1, <3>2, <3>3
  <2> QED BY <2>1, <2>2, Zenon
<1>3. /\ rank' = MovedToBack(r)
      /\ head' = [head EXCEPT ![r] = from + 1]
      /\ low'  = [low EXCEPT ![r] = IF from + 1 - back > RETAIN THEN back + 1 ELSE back]
      /\ hist' = [hist EXCEPT ![r] = Append(hist[r], from + 1)]
  BY <1>1, Zenon DEF append
<1> HIDE DEF from, back
<1>4. /\ rooms' \subseteq Rooms /\ r \in rooms'
      /\ \A q \in Rooms : q # r => Floor(q)' >= Floor(q)
  <2>1. from + 1 >= evictedHighWater' \/ r \in rooms
    <3>1. from + 1 >= e \/ r \in rooms
      BY <1>2, Zenon
    <3> QED BY <1>1, <3>1, Zenon
  <2>2. from + 1 \in Nat /\ from + 1 >= Floor(r)
    <3>1. Floor(r) \in Nat
      BY <1>0, Zenon DEF Floor, LogTypeOK
    <3> QED BY <1>2, <3>1
  <2> QED BY <1>0, <1>a, <1>1, <1>3, <2>1, <2>2, FloorsRise, Zenon
<1>5. evictedHighWater' \in Nat
  BY <1>1, Zenon
<1>6. Appended(r, from, back)
  BY <1>2, <1>3, <1>4, <1>5, Zenon DEF Appended
<1> QED BY <1>2, <1>6, Zenon

LEMMA LogInductive == LogInv /\ [Publish]_log => LogInv'
<1> SUFFICES ASSUME LogInv, [Publish]_log PROVE LogInv'
  BY Zenon
<1>1. CASE UNCHANGED log
  BY <1>1, Zenon DEF log, LogInv, LogTypeOK, Covered, SeqIsMonotonic, BufferInv, Floor
<1>2. ASSUME NEW r \in Rooms, append(r) PROVE LogInv'
  <2>0. LogTypeOK /\ Covered /\ SeqIsMonotonic /\ BufferInv
    BY Zenon DEF LogInv
  <2>a. touch(r)
    BY <1>2, Zenon DEF append
  <2>1. PICK from \in Nat, back \in Nat : Appended(r, from, back)
    BY <1>2, Appends, Zenon
  <2>2. from >= Floor(r) /\ back <= from /\ from - back <= RETAIN
    BY <2>1, Zenon DEF Appended
  <2>3. /\ rank' = MovedToBack(r)
        /\ head' = [head EXCEPT ![r] = from + 1]
        /\ low'  = [low EXCEPT ![r] = IF from + 1 - back > RETAIN THEN back + 1 ELSE back]
        /\ hist' = [hist EXCEPT ![r] = Append(hist[r], from + 1)]
    BY <2>1, Zenon DEF Appended
  <2>4. /\ evictedHighWater' \in Nat /\ rooms' \subseteq Rooms /\ r \in rooms'
        /\ \A q \in Rooms : q # r => Floor(q)' >= Floor(q)
    BY <2>1, Zenon DEF Appended
  <2>5. LogTypeOK'
    <3>1. Cardinality(Rooms) \in Int
      BY FS_CardinalityType
    <3>2. rank' \in [Rooms -> Int]
      BY <2>0, <2>3, <3>1 DEF MovedToBack, LogTypeOK
    <3>3. hist' \in [Rooms -> Seq(Nat)]
      BY <2>0, <2>2, <2>3 DEF LogTypeOK
    <3> QED BY <2>0, <2>1, <2>2, <2>3, <2>4, <3>2, <3>3 DEF LogTypeOK
  <2>6. Floor(r)' = from + 1
    BY <2>0, <2>2, <2>3, <2>4, Zenon DEF Floor, LogTypeOK
  <2>7. Covered'
    <3> SUFFICES ASSUME NEW q \in Rooms, NEW i \in DOMAIN hist'[q]
                 PROVE  hist'[q][i] \in 1 .. Floor(q)'
      BY Zenon DEF Covered
    <3>1. CASE q # r
      <4>1. hist'[q] = hist[q] /\ hist[q][i] \in 1 .. Floor(q)
        BY <2>0, <2>3, <3>1, Zenon DEF Covered, LogTypeOK
      <4>2. Floor(q) \in Nat /\ Floor(q)' \in Nat
        BY <2>0, <2>5, Zenon DEF Floor, LogTypeOK
      <4> QED BY <2>4, <3>1, <4>1, <4>2
    <3>2. CASE q = r
      <4>1. hist'[r] = Append(hist[r], from + 1) /\ hist[r] \in Seq(Nat)
        BY <2>0, <2>3, Zenon DEF LogTypeOK
      <4>2. \A j \in DOMAIN hist[r] : hist[r][j] \in 1 .. Floor(r)
        BY <2>0, Zenon DEF Covered
      <4>3. Floor(r) \in Nat
        BY <2>0, Zenon DEF Floor, LogTypeOK
      <4>4. CASE i \in DOMAIN hist[r]
        <5>1. hist'[r][i] = hist[r][i] /\ hist[r][i] \in Nat
          BY <4>1, <4>4
        <5> QED BY <2>2, <2>6, <3>2, <4>2, <4>3, <4>4, <5>1
      <4>5. CASE i \notin DOMAIN hist[r]
        <5>1. hist'[r][i] = from + 1
          BY <2>2, <3>2, <4>1, <4>5
        <5> QED BY <2>2, <2>6, <3>2, <5>1
      <4> QED BY <4>4, <4>5, Zenon
    <3> QED BY <3>1, <3>2, Zenon
  <2>8. SeqIsMonotonic'
    <3> SUFFICES ASSUME NEW q \in Rooms, NEW i \in DOMAIN hist'[q], NEW j \in DOMAIN hist'[q],
                        i < j
                 PROVE  hist'[q][i] < hist'[q][j]
      BY Zenon DEF SeqIsMonotonic
    <3>1. CASE q # r
      <4>1. hist'[q] = hist[q]
        BY <2>0, <2>3, <3>1, Zenon DEF LogTypeOK
      <4> QED BY <2>0, <4>1, Zenon DEF SeqIsMonotonic
    <3>2. CASE q = r
      <4>1. hist'[r] = Append(hist[r], from + 1) /\ hist[r] \in Seq(Nat)
        BY <2>0, <2>3, Zenon DEF LogTypeOK
      <4>2. \A m \in DOMAIN hist[r] : hist[r][m] \in 1 .. Floor(r)
        BY <2>0, Zenon DEF Covered
      <4>3. Floor(r) \in Nat
        BY <2>0, Zenon DEF Floor, LogTypeOK
      <4>4. \A m, n \in DOMAIN hist[r] : m < n => hist[r][m] < hist[r][n]
        BY <2>0, Zenon DEF SeqIsMonotonic
      <4>5. i \in DOMAIN hist[r] /\ hist'[r][i] = hist[r][i] /\ hist[r][i] \in Nat
        BY <2>2, <3>2, <4>1
      <4>6. CASE j \in DOMAIN hist[r]
        <5>1. hist'[r][j] = hist[r][j]
          BY <4>1, <4>6
        <5> QED BY <3>2, <4>4, <4>5, <4>6, <5>1, Zenon
      <4>7. CASE j \notin DOMAIN hist[r]
        <5>1. hist'[r][j] = from + 1
          BY <2>2, <3>2, <4>1, <4>7
        <5> QED BY <2>2, <3>2, <4>2, <4>3, <4>5, <5>1
      <4> QED BY <4>6, <4>7, Zenon
    <3> QED BY <3>1, <3>2, Zenon
  <2>9. BufferInv'
    <3> SUFFICES ASSUME NEW q \in rooms' PROVE low'[q] <= head'[q] /\ head'[q] - low'[q] <= RETAIN
      BY Zenon DEF BufferInv
    <3>1. CASE q # r
      <4>1. q \in rooms
        BY <2>a, <3>1 DEF touch
      <4> QED BY <2>0, <2>3, <3>1, <4>1, Zenon DEF BufferInv, LogTypeOK
    <3>2. CASE q = r
      BY <2>0, <2>2, <2>3, <3>2 DEF LogTypeOK
    <3> QED BY <3>1, <3>2, Zenon
  <2> QED BY <2>5, <2>7, <2>8, <2>9, Zenon DEF LogInv
<1> QED BY <1>1, <1>2, Zenon DEF Publish

LEMMA LogInvariance == LogSpec => []LogInv
<1>1. LogInit => LogInv
  BY InitLogInv, Zenon
<1>2. LogInv /\ [Publish]_log => LogInv'
  BY LogInductive, Zenon
<1> QED BY <1>1, <1>2, PTL DEF LogSpec

(* The log is well-typed. *)
THEOREM EventLogTypeOK == LogSpec => []LogTypeOK
<1>1. LogInv => LogTypeOK
  BY Zenon DEF LogInv
<1> QED BY <1>1, LogInvariance, PTL

(* A room's numbers only ever rise, across any number of evictions. *)
THEOREM RoomsNeverReuseASeq == LogSpec => []SeqIsMonotonic
<1>1. LogInv => SeqIsMonotonic
  BY Zenon DEF LogInv
<1> QED BY <1>1, LogInvariance, PTL

(* Whoever is not told of a gap gets everything issued after the cursor. *)
THEOREM ReplaysAreHonest == LogSpec => []ReplayIsHonest
<1>1. LogInv => ReplayIsHonest
  <2> SUFFICES ASSUME LogInv, NEW r \in Rooms, NEW k \in Issued(r), ~gap(r, k),
                      NEW s \in Issued(r), s > k
               PROVE  s \in replay(r, k)
    BY Zenon DEF ReplayIsHonest
  <2>1. Floor(r) \in Nat /\ k \in 1 .. Floor(r) /\ s \in 1 .. Floor(r)
    BY Zenon DEF LogInv, LogTypeOK, Covered, Issued, Floor
  <2> QED BY <2>1 DEF LogInv, LogTypeOK, gap, replay, Floor
<1> QED BY <1>1, LogInvariance, PTL

------------------------------------------------------------------------------
(***************************************************************************)
(* The client.  Until a delivery fails or the process restarts, what it    *)
(* has and what is on the wire leave no hole: an event comes after every   *)
(* earlier one, whatever replays and live deliveries overlap, and the      *)
(* cursor is never above what it has.                                      *)
(***************************************************************************)
ClientTypeOK ==
  /\ joined \in BOOLEAN /\ troubled \in BOOLEAN
  /\ born \in Nat /\ cursor \in Nat
  /\ wire \in Seq(Fresh) /\ have \subseteq Events

HaveIsClosed == \A i \in have, j \in Events : j < i => j \in have

WireIsClosed ==
  \A p \in DOMAIN wire : \A j \in Events :
    j < wire[p] => j \in have \/ \E q \in 1 .. p - 1 : wire[q] = j

CursorIsHeld ==
  /\ cursor <= Floor(Watched)
  /\ \A i \in Events : seq(i) <= cursor => i \in have

NoHoles == born = 0 /\ HaveIsClosed /\ WireIsClosed /\ CursorIsHeld

ClientInv ==
  /\ LogInv /\ ClientTypeOK
  /\ ~troubled => NoHoles
  /\ NoSilentLoss
  /\ ReplayCoversTheCursor

(* The last event so far. *)
Last == born + Len(hist[Watched])

LEMMA LeastOf ==
  ASSUME NEW T, T \subseteq Nat, T # {}
  PROVE  \E x \in T : \A y \in T : x <= y
<1>1. PICK x \in T : \A y \in T : ~(<<y, x>> \in OpToRel(<, Nat))
  BY NatLessThanWellFounded, WFMin, Zenon
<1>2. \A y \in T : ~(y < x)
  BY <1>1, Zenon DEF OpToRel
<1> QED BY <1>2

(* The numbers of the running process rise with its events, and lie within *)
(* the floor.                                                              *)
LEMMA SeqRises ==
  ASSUME LogInv, ClientTypeOK
  PROVE  /\ Last \in Nat /\ Events = 1 .. Last /\ Fresh = born + 1 .. Last
         /\ Floor(Watched) \in Nat
         /\ \A i \in Fresh : seq(i) \in 1 .. Floor(Watched)
         /\ \A i, j \in Fresh : i < j => seq(i) < seq(j)
<1>1. hist[Watched] \in Seq(Nat) /\ born \in Nat /\ Floor(Watched) \in Nat
  BY RealtimeAssumption, Zenon DEF LogInv, LogTypeOK, ClientTypeOK, Floor
<1>2. /\ Last \in Nat /\ Events = 1 .. Last /\ Fresh = born + 1 .. Last
      /\ \A i \in Fresh : i - born \in DOMAIN hist[Watched]
  BY <1>1 DEF Last, Events, Fresh
<1>3. \A i \in Fresh : seq(i) \in 1 .. Floor(Watched)
  BY <1>2, RealtimeAssumption, Zenon DEF LogInv, Covered, seq
<1>4. ASSUME NEW i \in Fresh, NEW j \in Fresh, i < j PROVE seq(i) < seq(j)
  <2>1. i - born < j - born
    BY <1>1, <1>2, <1>4
  <2> QED BY <1>2, <2>1, RealtimeAssumption, Zenon DEF LogInv, SeqIsMonotonic, seq
<1> QED BY <1>1, <1>2, <1>3, <1>4, Zenon

(* A replay is the latest events from some point on, oldest first. *)
LEMMA ReplayedIs ==
  ASSUME LogInv, ClientTypeOK, NEW k \in Nat
  PROVE  \E a \in born + 1 .. Last + 1 :
           /\ {i \in Fresh : seq(i) \in replay(Watched, k)} = a .. Last
           /\ Replayed(k) = [m \in 1 .. Last + 1 - a |-> a + m - 1]
<1> DEFINE E == {i \in Fresh : seq(i) \in replay(Watched, k)}
<1>0. /\ Last \in Nat /\ born \in Nat /\ Fresh = born + 1 .. Last
      /\ Floor(Watched) \in Nat
      /\ \A i \in Fresh : seq(i) \in 1 .. Floor(Watched)
      /\ \A i, j \in Fresh : i < j => seq(i) < seq(j)
      /\ Last >= born
  BY SeqRises, RealtimeAssumption DEF ClientTypeOK, Last, LogInv, LogTypeOK
<1>1. ASSUME NEW i \in E, NEW j \in Fresh, i < j PROVE j \in E
  <2>1. i \in Fresh /\ Watched \in rooms /\ seq(i) \in low[Watched] + 1 .. head[Watched] /\ seq(i) > k
    BY <1>1, Zenon DEF replay
  <2>2. seq(j) \in 1 .. head[Watched] /\ seq(i) < seq(j)
    BY <1>0, <1>1, <2>1, Zenon DEF Floor
  <2>3. seq(j) \in low[Watched] + 1 .. head[Watched] /\ seq(j) > k
    BY <2>1, <2>2, RealtimeAssumption DEF LogInv, LogTypeOK
  <2> QED BY <2>1, <2>3, Zenon DEF replay
<1>2. PICK a \in born + 1 .. Last + 1 : E = a .. Last
  <2>1. CASE E = {}
    <3>1. Last + 1 \in born + 1 .. Last + 1 /\ (Last + 1) .. Last = {}
      BY <1>0
    <3> QED BY <2>1, <3>1, Zenon
  <2>2. CASE E # {}
    <3>1. E \subseteq Nat
      BY <1>0
    <3>2. PICK a \in E : \A y \in E : a <= y
      BY <2>2, <3>1, LeastOf, Zenon
    <3>3. a \in born + 1 .. Last + 1 /\ a \in Fresh
      BY <1>0
    <3>4. \A j \in a .. Last : j \in Fresh
      BY <1>0, <3>3
    <3>5. \A j \in a .. Last : j \in E
      <4> HIDE DEF E
      <4> QED BY <1>0, <1>1, <3>2, <3>3, <3>4
    <3>6. \A j \in E : j \in a .. Last
      BY <1>0, <3>2, <3>3
    <3> QED BY <3>3, <3>5, <3>6, Zenon
  <2> QED BY <2>1, <2>2, Zenon
<1> HIDE DEF E
<1>3. Cardinality(E) = Last + 1 - a
  <2>1. Cardinality(a .. Last) = IF a > Last THEN 0 ELSE Last - a + 1
    BY <1>0, FS_Interval
  <2> QED BY <1>0, <1>2, <2>1
<1>4. ASSUME NEW i \in E PROVE Cardinality({j \in E : j < i}) = i - a
  <2>1. {j \in E : j < i} = a .. i - 1
    BY <1>0, <1>2
  <2>2. Cardinality(a .. i - 1) = IF a > i - 1 THEN 0 ELSE (i - 1) - a + 1
    BY <1>0, <1>2, FS_Interval
  <2>3. (IF a > i - 1 THEN 0 ELSE (i - 1) - a + 1) = i - a
    BY <1>0, <1>2
  <2> QED BY <2>1, <2>2, <2>3, Zenon
<1>5. ASSUME NEW m \in 1 .. Last + 1 - a
      PROVE  (CHOOSE i \in E : Cardinality({j \in E : j < i}) = m - 1) = a + m - 1
  <2>1. a + m - 1 \in E /\ (a + m - 1) - a = m - 1
    BY <1>0, <1>2
  <2>2. \A i \in E : Cardinality({j \in E : j < i}) = m - 1 <=> i = a + m - 1
    <3> SUFFICES ASSUME NEW i \in E
                 PROVE  Cardinality({j \in E : j < i}) = m - 1 <=> i = a + m - 1
      BY Zenon
    <3>1. Cardinality({j \in E : j < i}) = i - a
      BY <1>4, Zenon
    <3>2. i - a = m - 1 <=> i = a + m - 1
      BY <1>0, <1>2
    <3> QED BY <3>1, <3>2, Zenon
  <2> QED BY <2>1, <2>2, Zenon
<1>6. Replayed(k) = [m \in 1 .. Cardinality(E) |->
                       CHOOSE i \in E : Cardinality({j \in E : j < i}) = m - 1]
  BY Zenon DEF Replayed, E
<1>7. Replayed(k) = [m \in 1 .. Last + 1 - a |-> a + m - 1]
  BY <1>3, <1>5, <1>6, Zenon
<1> QED BY <1>2, <1>7, Zenon DEF E

(* Without a gap, what the cursor has not seen is in the replay. *)
LEMMA ReplayHasTheRest ==
  ASSUME LogInv, ClientTypeOK, NEW k \in Nat, k > 0, ~gap(Watched, k),
         NEW i \in Fresh, seq(i) > k
  PROVE  seq(i) \in replay(Watched, k)
<1>1. seq(i) \in 1 .. Floor(Watched)
  BY SeqRises, Zenon
<1> QED BY <1>1, RealtimeAssumption DEF gap, replay, Floor, LogInv, LogTypeOK

LEMMA InitClient == RealtimeInit => ClientInv
<1> SUFFICES ASSUME RealtimeInit PROVE ClientInv
  BY Zenon
<1>1. LogInv
  BY InitLogInv, Zenon DEF RealtimeInit
<1>2. hist[Watched] = <<>> /\ rooms = {} /\ evictedHighWater = 0
  BY RealtimeAssumption, Zenon DEF RealtimeInit, LogInit
<1>3. Events = {} /\ Fresh = {}
  BY <1>2 DEF Events, Fresh, RealtimeInit
<1>4. ClientTypeOK
  <2>1. <<>> \in Seq(Fresh)
    OBVIOUS
  <2> QED BY <1>3, <2>1, Zenon DEF ClientTypeOK, RealtimeInit
<1>5. NoHoles
  BY <1>2, <1>3 DEF NoHoles, HaveIsClosed, WireIsClosed, CursorIsHeld, Floor, RealtimeInit
<1>6. NoSilentLoss /\ ReplayCoversTheCursor
  BY Zenon DEF NoSilentLoss, ReplayCoversTheCursor, NoAck, RealtimeInit
<1> QED BY <1>1, <1>4, <1>5, <1>6, Zenon DEF ClientInv

(* A new envelope leaves the events there were and their numbers alone; in *)
(* the watched room it is one more, numbered past all of them.             *)
LEMMA Grows ==
  ASSUME LogInv, ClientTypeOK, NEW r \in Rooms, append(r), born' = born, NEW n \in Nat, n = Last
  PROVE  /\ LogInv'
         /\ Floor(Watched)' \in Nat /\ Floor(Watched)' >= Floor(Watched)
         /\ Events' = 1 .. Last' /\ Fresh' = born + 1 .. Last'
         /\ r # Watched => Last' = n
         /\ r = Watched => Last' = n + 1 /\ seq(n + 1)' \in Nat /\ seq(n + 1)' > Floor(Watched)
         /\ \A i \in Fresh : seq(i)' = seq(i)
<1>1. LogInv'
  BY LogInductive, Zenon DEF Publish
<1>2. PICK from \in Nat, back \in Nat : Appended(r, from, back)
  BY Appends, Zenon
<1>3. /\ hist' = [hist EXCEPT ![r] = Append(hist[r], from + 1)]
      /\ head' = [head EXCEPT ![r] = from + 1]
      /\ from >= Floor(r) /\ r \in rooms'
      /\ r # Watched => Floor(Watched)' >= Floor(Watched)
  BY <1>2, RealtimeAssumption, Zenon DEF Appended
<1>4. /\ hist \in [Rooms -> Seq(Nat)] /\ head \in [Rooms -> Nat]
      /\ hist[Watched] \in Seq(Nat) /\ born \in Nat /\ Floor(Watched) \in Nat
  BY RealtimeAssumption, Zenon DEF LogInv, LogTypeOK, ClientTypeOK, Floor
<1>5. hist'[Watched] \in Seq(Nat) /\ Floor(Watched)' \in Nat
  BY <1>1, RealtimeAssumption, Zenon DEF LogInv, LogTypeOK, Floor
<1>6. Events' = 1 .. Last' /\ Fresh' = born + 1 .. Last'
  BY <1>4, <1>5 DEF Events, Fresh, Last
<1>7. \A i \in Fresh : i - born \in DOMAIN hist[Watched]
  BY <1>4 DEF Fresh, Events
<1>8. CASE r # Watched
  <2>1. hist'[Watched] = hist[Watched]
    BY <1>3, <1>4, <1>8, RealtimeAssumption, Zenon
  <2> QED BY <1>1, <1>3, <1>5, <1>6, <1>8, <2>1, Zenon DEF Last, seq
<1>9. CASE r = Watched
  <2>1. hist'[Watched] = Append(hist[Watched], from + 1) /\ Floor(Watched)' = from + 1
    BY <1>3, <1>4, <1>9, RealtimeAssumption, Zenon DEF Floor
  <2>2. Last' = n + 1 /\ (n + 1) - born = Len(hist[Watched]) + 1
    BY <1>4, <2>1 DEF Last
  <2>3. seq(n + 1)' = from + 1
    BY <1>4, <2>1, <2>2 DEF seq
  <2>4. \A i \in Fresh : seq(i)' = seq(i)
    <3> TAKE i \in Fresh
    <3>1. PICK k \in DOMAIN hist[Watched] : k = i - born
      BY <1>7, Zenon
    <3>2. hist'[Watched][k] = hist[Watched][k]
      BY <1>4, <2>1
    <3> QED BY <1>4, <3>1, <3>2, Zenon DEF seq
  <2> QED BY <1>1, <1>3, <1>4, <1>5, <1>6, <1>9, <2>1, <2>2, <2>3, <2>4
<1> QED BY <1>8, <1>9, Zenon

(* What appending x to a sequence makes of it. *)
Lengthens(t, s, x, S) ==
  /\ Len(s) \in Nat /\ DOMAIN s = 1 .. Len(s) /\ DOMAIN t = 1 .. Len(s) + 1
  /\ t[Len(s) + 1] = x
  /\ \A p \in DOMAIN s : t[p] = s[p] /\ s[p] \in S

LEMMA Lengthened ==
  ASSUME NEW S, NEW s \in Seq(S), NEW x
  PROVE  Lengthens(Append(s, x), s, x, S)
<1>1. Len(s) \in Nat /\ DOMAIN s = 1 .. Len(s)
  OBVIOUS
<1>2. DOMAIN Append(s, x) = 1 .. Len(s) + 1 /\ Append(s, x)[Len(s) + 1] = x
  OBVIOUS
<1>3. \A p \in DOMAIN s : Append(s, x)[p] = s[p]
  OBVIOUS
<1>4. \A p \in DOMAIN s : s[p] \in S
  OBVIOUS
<1> QED BY <1>1, <1>2, <1>3, <1>4, Zenon DEF Lengthens

LEMMA LengthenedIn ==
  ASSUME NEW S, NEW T, S \subseteq T, NEW s \in Seq(S), NEW x \in T
  PROVE  Append(s, x) \in Seq(T)
<1>1. s \in Seq(T)
  OBVIOUS
<1> QED BY <1>1

LEMMA PublishKeeps ==
  ASSUME ClientInv, NEW r \in Rooms, NEW fails \in BOOLEAN, PublishTo(r, fails)
  PROVE  ClientInv'
<1>0. LogInv /\ ClientTypeOK
  BY Zenon DEF ClientInv
<1>1. /\ append(r) /\ joined' = joined /\ born' = born /\ cursor' = cursor /\ have' = have
      /\ acked' = NoAck /\ troubled' = (troubled \/ fails)
      /\ fails => r = Watched /\ joined
  BY Zenon DEF PublishTo, client
<1>2. PICK n \in Nat : n = Last
  BY <1>0, SeqRises, Zenon
<1>3. /\ Events = 1 .. n /\ Fresh = born + 1 .. n /\ Floor(Watched) \in Nat
      /\ \A i \in Fresh : seq(i) \in 1 .. Floor(Watched)
  BY <1>0, <1>2, SeqRises, Zenon
<1>4. /\ LogInv'
      /\ Floor(Watched)' \in Nat /\ Floor(Watched)' >= Floor(Watched)
      /\ Events' = 1 .. Last' /\ Fresh' = born + 1 .. Last'
      /\ r # Watched => Last' = n
      /\ r = Watched => Last' = n + 1 /\ seq(n + 1)' \in Nat /\ seq(n + 1)' > Floor(Watched)
      /\ \A i \in Fresh : seq(i)' = seq(i)
  BY <1>0, <1>1, <1>2, Grows, Zenon
<1>5. /\ joined \in BOOLEAN /\ troubled \in BOOLEAN /\ born \in Nat /\ cursor \in Nat
      /\ wire \in Seq(Fresh) /\ have \subseteq 1 .. n
  BY <1>0, <1>3, Zenon DEF ClientTypeOK
<1>a. CASE r = Watched /\ joined /\ ~fails
  <2>1. Last' = n + 1 /\ seq(n + 1)' > Floor(Watched) /\ Events' = 1 .. n + 1 /\ Fresh' = born + 1 .. n + 1
    BY <1>4, <1>a, Zenon
  <2>2. wire' = Append(wire, n + 1)
    <3>1. wire' = Append(wire, born + Len(hist'[Watched]))
      BY <1>a, Zenon DEF PublishTo, Copy
    <3>2. born + Len(hist'[Watched]) = n + 1
      BY <1>1, <2>1, Zenon DEF Last
    <3> QED BY <3>1, <3>2, Zenon
  <2>3. n + 1 \in Fresh' /\ Fresh \subseteq Fresh'
    <3>1. PICK k \in Nat : k = Len(hist[Watched])
      BY <1>0, RealtimeAssumption DEF LogInv, LogTypeOK
    <3>2. n = born + k
      BY <1>2, <3>1, Zenon DEF Last
    <3>3. n + 1 \in born + 1 .. n + 1 /\ born + 1 .. n \subseteq born + 1 .. n + 1
      BY <1>5, <3>2
    <3> QED BY <1>3, <2>1, <3>3, Zenon
  <2>4. wire' \in Seq(Fresh')
    BY <1>5, <2>2, <2>3, LengthenedIn, Zenon
  <2>5. ClientTypeOK'
    <3>1. 1 .. n \subseteq 1 .. n + 1
      OBVIOUS
    <3> QED BY <1>1, <1>5, <2>1, <2>4, <3>1, Zenon DEF ClientTypeOK
  <2>6. ASSUME ~troubled' PROVE NoHoles' /\ Reached' = Events'
    <3>1. ~troubled /\ NoHoles /\ Reached = 1 .. n
      BY <1>1, <1>3, <1>a, <2>6, Zenon DEF ClientInv, NoSilentLoss
    <3>2. HaveIsClosed'
      BY <1>1, <1>3, <1>5, <2>1, <3>1 DEF NoHoles, HaveIsClosed
    <3>3. CursorIsHeld'
      <4>1. cursor <= Floor(Watched) /\ \A i \in 1 .. n : seq(i) <= cursor => i \in have
        BY <1>3, <3>1, Zenon DEF NoHoles, CursorIsHeld
      <4>2. cursor <= Floor(Watched)'
        BY <1>3, <1>4, <1>5, <4>1
      <4>3. Fresh = 1 .. n
        BY <1>3, <3>1 DEF NoHoles
      <4>4. ASSUME NEW i \in 1 .. n + 1, seq(i)' <= cursor PROVE i \in have
        <5>1. seq(n + 1)' \in Nat
          BY <1>4, <1>a, Zenon
        <5>2. i # n + 1
          BY <1>3, <1>5, <2>1, <4>1, <4>4, <5>1
        <5> QED BY <1>4, <4>1, <4>3, <4>4, <5>2
      <4> QED BY <1>1, <2>1, <4>2, <4>4, Zenon DEF CursorIsHeld
    <3>4. WireIsClosed'
      <4>0. Fresh \subseteq 1 .. n /\ Lengthens(wire', wire, n + 1, Fresh)
        <5>1. Lengthens(wire', wire, n + 1, Fresh)
          BY <1>5, <2>2, Lengthened, Zenon
        <5>2. Fresh \subseteq 1 .. n
          BY <1>3, <1>5
        <5> QED BY <5>1, <5>2, Zenon
      <4>1. \A p \in DOMAIN wire : wire'[p] = wire[p] /\ wire[p] \in 1 .. n
        BY <4>0, Zenon DEF Lengthens
      <4>2. DOMAIN wire' = 1 .. Len(wire) + 1 /\ wire'[Len(wire) + 1] = n + 1 /\ Len(wire) \in Nat
            /\ DOMAIN wire = 1 .. Len(wire)
        BY <4>0, Zenon DEF Lengthens
      <4> SUFFICES ASSUME NEW p \in 1 .. Len(wire) + 1, NEW j \in 1 .. n + 1, j < wire'[p]
                   PROVE  j \in have \/ \E q \in 1 .. p - 1 : wire'[q] = j
        BY <1>1, <2>1, <4>2, Zenon DEF WireIsClosed
      <4>3. CASE p \in DOMAIN wire
        <5>1. j \in 1 .. n /\ j < wire[p]
          BY <4>1, <4>3
        <5>2. j \in have \/ \E q \in 1 .. p - 1 : wire[q] = j
          BY <1>3, <3>1, <4>3, <5>1, Zenon DEF NoHoles, WireIsClosed
        <5>3. \A q \in 1 .. p - 1 : q \in DOMAIN wire
          BY <4>2, <4>3
        <5> QED BY <4>1, <5>2, <5>3, Zenon
      <4>4. CASE p = Len(wire) + 1
        <5>1. j \in Reached
          BY <3>1, <4>2, <4>4
        <5>2. j \in have \/ \E q \in DOMAIN wire : wire[q] = j
          BY <5>1, Zenon DEF Reached
        <5> QED BY <4>1, <4>2, <4>4, <5>2
      <4> QED BY <4>2, <4>3, <4>4
    <3>5. Reached' = Events'
      <4>1. \A x : x \in Reached' <=> x \in Reached \/ x = n + 1
        BY <1>1, <1>5, <2>2 DEF Reached
      <4>2. \A x : x \in 1 .. n + 1 <=> x \in 1 .. n \/ x = n + 1
        OBVIOUS
      <4>3. \A x : x \in Reached' <=> x \in Events'
        BY <2>1, <3>1, <4>1, <4>2, Zenon
      <4> QED BY <4>3, Zenon
    <3> QED BY <1>1, <3>1, <3>2, <3>3, <3>4, <3>5, Zenon DEF NoHoles
  <2> QED BY <1>1, <1>4, <2>5, <2>6, Zenon DEF ClientInv, NoSilentLoss, ReplayCoversTheCursor, NoAck
<1>b. CASE ~(r = Watched /\ joined /\ ~fails)
  <2>1. PICK m \in {n, n + 1} : Last' = m
    BY <1>4, Zenon
  <2>2. Events' = 1 .. m /\ Fresh' = born + 1 .. m /\ wire' = wire
    BY <1>4, <1>b, <2>1, Zenon DEF PublishTo
  <2>3. Events \subseteq Events' /\ Fresh \subseteq Fresh'
    BY <1>3, <1>5, <2>1, <2>2
  <2>4. ClientTypeOK'
    BY <1>1, <1>5, <1>3, <2>2, <2>3 DEF ClientTypeOK
  <2>5. ASSUME ~troubled' PROVE NoHoles'
    <3>1. ~troubled /\ NoHoles
      BY <1>1, <2>5, Zenon DEF ClientInv
    <3>2. HaveIsClosed'
      BY <1>1, <1>3, <1>5, <2>1, <2>2, <3>1 DEF NoHoles, HaveIsClosed
    <3>3. CursorIsHeld'
      <4>1. cursor <= Floor(Watched) /\ \A i \in 1 .. n : seq(i) <= cursor => i \in have
        BY <1>3, <3>1, Zenon DEF NoHoles, CursorIsHeld
      <4>2. cursor <= Floor(Watched)'
        BY <1>3, <1>4, <1>5, <4>1
      <4>3. Fresh = 1 .. n
        BY <1>3, <3>1 DEF NoHoles
      <4>4. ASSUME NEW i \in 1 .. m, seq(i)' <= cursor PROVE i \in have
        <5>2. i \in 1 .. n
          <6>1. CASE m = n
            BY <6>1, Zenon
          <6>2. CASE m = n + 1
            <7>1. seq(n + 1)' \in Nat /\ seq(n + 1)' > Floor(Watched)
              BY <1>4, <2>1, <6>2
            <7> QED BY <1>3, <1>5, <4>1, <4>4, <6>2, <7>1
          <6> QED BY <6>1, <6>2, Zenon
        <5> QED BY <1>4, <4>1, <4>3, <4>4, <5>2, Zenon
      <4> QED BY <1>1, <2>2, <4>2, <4>4, Zenon DEF CursorIsHeld
    <3>4. WireIsClosed'
      <4>1. \A p \in DOMAIN wire : wire[p] \in 1 .. n
        BY <1>3, <1>5
      <4> SUFFICES ASSUME NEW p \in DOMAIN wire, NEW j \in 1 .. m, j < wire[p]
                   PROVE  j \in have \/ \E q \in 1 .. p - 1 : wire[q] = j
        BY <1>1, <2>2, Zenon DEF WireIsClosed
      <4>2. j \in 1 .. n
        BY <2>1, <4>1
      <4> QED BY <1>3, <3>1, <4>2, Zenon DEF NoHoles, WireIsClosed
    <3> QED BY <1>1, <3>1, <3>2, <3>3, <3>4, Zenon DEF NoHoles
  <2>6. NoSilentLoss'
    <3> SUFFICES ASSUME joined', ~troubled' PROVE Reached' = Events'
      BY Zenon DEF NoSilentLoss
    <3>1. r # Watched /\ ~troubled /\ joined
      BY <1>1, <1>b, Zenon
    <3> QED BY <1>1, <1>3, <1>4, <2>2, <3>1, Zenon DEF ClientInv, NoSilentLoss, Reached
  <2> QED BY <1>1, <1>4, <2>4, <2>5, <2>6, Zenon DEF ClientInv, ReplayCoversTheCursor, NoAck
<1> QED BY <1>a, <1>b, Zenon

(* The events of the process and their numbers depend on the log alone. *)
LEMMA SameLog ==
  ASSUME LogInv, log' = log, born' = born
  PROVE  /\ LogInv' /\ Events' = Events /\ Fresh' = Fresh /\ Floor(Watched)' = Floor(Watched)
         /\ Last' = Last
         /\ \A i : seq(i)' = seq(i)
<1>1. LogInv'
  BY LogInductive, Zenon
<1> QED BY <1>1, Zenon DEF log, Events, Fresh, Floor, seq, Last

LEMMA Behind ==
  ASSUME NEW S, NEW s \in Seq(S), NEW t \in Seq(S)
  PROVE  /\ s \o t \in Seq(S) /\ Len(s) \in Nat /\ Len(t) \in Nat
         /\ DOMAIN s = 1 .. Len(s) /\ DOMAIN (s \o t) = 1 .. Len(s) + Len(t)
         /\ \A p \in 1 .. Len(s) + Len(t) : (s \o t)[p] \in S
         /\ \A p \in 1 .. Len(s) : (s \o t)[p] = s[p]
         /\ \A m \in 1 .. Len(t) : (s \o t)[Len(s) + m] = t[m]
  OBVIOUS

LEMMA SubscribeKeeps ==
  ASSUME ClientInv, Subscribe
  PROVE  ClientInv'
<1>0. LogInv /\ ClientTypeOK
  BY Zenon DEF ClientInv
<1>1. /\ joined' = TRUE /\ log' = log /\ born' = born /\ troubled' = troubled
      /\ wire' = wire \o Replayed(cursor)
      /\ acked' = [after |-> cursor, gap |-> gap(Watched, cursor)]
      /\ gap(Watched, cursor) \/ cursor = 0 => have' = Events /\ cursor' = 0
      /\ ~gap(Watched, cursor) /\ cursor # 0 => have' = have /\ cursor' = cursor
  BY Zenon DEF Subscribe, Emit
<1>2. /\ LogInv' /\ Events' = Events /\ Fresh' = Fresh /\ Floor(Watched)' = Floor(Watched)
      /\ \A i : seq(i)' = seq(i)
  BY <1>0, <1>1, SameLog, Zenon
<1>3. /\ Last \in Nat /\ Events = 1 .. Last /\ Fresh = born + 1 .. Last /\ born \in Nat
      /\ Floor(Watched) \in Nat /\ \A i \in Fresh : seq(i) \in 1 .. Floor(Watched)
  BY <1>0, SeqRises, Zenon DEF ClientTypeOK
<1>4. /\ joined \in BOOLEAN /\ troubled \in BOOLEAN /\ cursor \in Nat
      /\ wire \in Seq(Fresh) /\ have \subseteq Events
  BY <1>0, Zenon DEF ClientTypeOK
<1>5. PICK a \in born + 1 .. Last + 1 :
           /\ {i \in Fresh : seq(i) \in replay(Watched, cursor)} = a .. Last
           /\ Replayed(cursor) = [m \in 1 .. Last + 1 - a |-> a + m - 1]
  BY <1>0, <1>4, ReplayedIs, Zenon
<1>6. /\ Replayed(cursor) \in Seq(Fresh) /\ Len(Replayed(cursor)) = Last + 1 - a
      /\ \A m \in 1 .. Last + 1 - a : Replayed(cursor)[m] = a + m - 1
  BY <1>3, <1>5
<1>7. /\ wire' \in Seq(Fresh)
      /\ DOMAIN wire' = 1 .. Len(wire) + (Last + 1 - a)
      /\ DOMAIN wire = 1 .. Len(wire) /\ Len(wire) \in Nat
      /\ \A p \in DOMAIN wire : wire'[p] = wire[p]
      /\ \A p \in DOMAIN wire' : wire'[p] \in Fresh
      /\ \A m \in 1 .. Last + 1 - a : wire'[Len(wire) + m] = a + m - 1
  <2>1. PICK t \in Seq(Fresh) : t = Replayed(cursor)
    BY <1>6, Zenon
  <2>2. /\ Len(t) = Last + 1 - a /\ wire' = wire \o t
        /\ \A m \in 1 .. Last + 1 - a : t[m] = a + m - 1
    BY <1>1, <1>6, <2>1, Zenon
  <2>3. /\ wire \o t \in Seq(Fresh) /\ Len(wire) \in Nat
        /\ DOMAIN wire = 1 .. Len(wire) /\ DOMAIN (wire \o t) = 1 .. Len(wire) + Len(t)
        /\ \A p \in 1 .. Len(wire) + Len(t) : (wire \o t)[p] \in Fresh
        /\ \A p \in 1 .. Len(wire) : (wire \o t)[p] = wire[p]
        /\ \A m \in 1 .. Len(t) : (wire \o t)[Len(wire) + m] = t[m]
    BY <1>4, Behind
  <2> QED BY <2>2, <2>3, Zenon
<1>8. have' \subseteq Events /\ have \subseteq have' /\ cursor' \in Nat
  BY <1>1, <1>4
<1>9. ClientTypeOK'
  BY <1>1, <1>2, <1>3, <1>4, <1>7, <1>8, Zenon DEF ClientTypeOK
<1>10. a .. Last \subseteq Reached'
  <2> SUFFICES ASSUME NEW i \in a .. Last PROVE i \in Reached'
    BY Zenon
  <2>1. i + 1 - a \in 1 .. Last + 1 - a /\ a + (i + 1 - a) - 1 = i
    BY <1>3
  <2>2. wire'[Len(wire) + (i + 1 - a)] = i /\ Len(wire) + (i + 1 - a) \in DOMAIN wire'
    <3>1. wire'[Len(wire) + (i + 1 - a)] = a + (i + 1 - a) - 1
      BY <1>7, <2>1, Zenon
    <3>2. Len(wire) + (i + 1 - a) \in 1 .. Len(wire) + (Last + 1 - a)
      BY <1>3, <1>7, <2>1
    <3> QED BY <1>7, <2>1, <3>1, <3>2, Zenon
  <2> QED BY <2>2, Zenon DEF Reached
<1>11. ReplayCoversTheCursor'
  <2> SUFFICES ASSUME ~acked'.gap, acked'.after > 0, NEW i \in Fresh, seq(i) > acked'.after
               PROVE  i \in Reached'
    BY <1>2, Zenon DEF ReplayCoversTheCursor
  <2>1. acked'.after = cursor /\ acked'.gap = gap(Watched, cursor)
    BY <1>1, Zenon
  <2>2. seq(i) \in replay(Watched, cursor)
    BY <1>0, <1>4, <2>1, ReplayHasTheRest, Zenon
  <2> QED BY <1>5, <1>10, <2>2, Zenon
<1>12. ASSUME ~troubled' PROVE NoHoles' /\ Reached' = Events'
  <2>0. ~troubled /\ NoHoles /\ born = 0 /\ Fresh = Events
    BY <1>1, <1>3, <1>12 DEF ClientInv, NoHoles
  <2>1. CASE have' = Events /\ cursor' = 0
    <3>1. HaveIsClosed' /\ WireIsClosed'
      BY <1>2, <2>1, Zenon DEF HaveIsClosed, WireIsClosed
    <3>2. CursorIsHeld'
      BY <1>2, <1>3, <2>1 DEF CursorIsHeld
    <3>3. Reached' = Events'
      BY <1>2, <1>7, <2>0, <2>1, Zenon DEF Reached
    <3> QED BY <1>1, <2>0, <3>1, <3>2, <3>3, Zenon DEF NoHoles
  <2>2. CASE have' = have /\ cursor' = cursor /\ ~gap(Watched, cursor) /\ cursor # 0
    <3>1. HaveIsClosed'
      BY <1>2, <2>0, <2>2, Zenon DEF NoHoles, HaveIsClosed
    <3>2. CursorIsHeld'
      BY <1>2, <2>0, <2>2, Zenon DEF NoHoles, CursorIsHeld
    <3>3. ASSUME NEW j \in Events, j < a PROVE j \in have
      <4>1. j \in Fresh /\ seq(j) \notin replay(Watched, cursor)
        <5>1. j \notin a .. Last
          BY <1>3, <3>3
        <5> QED BY <1>5, <2>0, <5>1, Zenon
      <4>2. ~(seq(j) > cursor)
        BY <1>0, <1>4, <2>2, <4>1, ReplayHasTheRest
      <4>3. seq(j) <= cursor
        BY <1>3, <1>4, <4>1, <4>2
      <4> QED BY <2>0, <4>3, Zenon DEF NoHoles, CursorIsHeld
    <3>4. WireIsClosed'
      <4> SUFFICES ASSUME NEW p \in DOMAIN wire', NEW j \in Events, j < wire'[p]
                   PROVE  j \in have \/ \E q \in 1 .. p - 1 : wire'[q] = j
        BY <1>2, <2>2, Zenon DEF WireIsClosed
      <4>1. CASE p \in DOMAIN wire
        <5>1. j \in have \/ \E q \in 1 .. p - 1 : wire[q] = j
          BY <1>7, <2>0, <4>1, Zenon DEF NoHoles, WireIsClosed
        <5>2. \A q \in 1 .. p - 1 : q \in DOMAIN wire
          BY <1>7, <4>1
        <5> QED BY <1>7, <5>1, <5>2, Zenon
      <4>2. CASE p \notin DOMAIN wire /\ j >= a
        <5>1. PICK m \in 1 .. Last + 1 - a : p = Len(wire) + m
          <6>1. p - Len(wire) \in 1 .. Last + 1 - a /\ p = Len(wire) + (p - Len(wire))
            BY <1>3, <1>7, <4>2
          <6> QED BY <6>1, Zenon
        <5>2. j < a + m - 1
          BY <1>7, <5>1, Zenon
        <5>3. j + 1 - a \in 1 .. Last + 1 - a /\ j + 1 - a < m /\ a + (j + 1 - a) - 1 = j
          <6>1. PICK l \in Int : l = Last
            BY <1>3
          <6>2. a \in Int /\ j \in Int /\ m \in Int /\ m <= l + 1 - a
            BY <1>3, <6>1
          <6>3. j + 1 - a \in 1 .. l + 1 - a /\ j + 1 - a < m /\ a + (j + 1 - a) - 1 = j
            BY <4>2, <5>2, <6>2
          <6> QED BY <6>1, <6>3, Zenon
        <5>4. wire'[Len(wire) + (j + 1 - a)] = j
          BY <1>7, <5>3, Zenon
        <5>5. Len(wire) + (j + 1 - a) \in 1 .. p - 1
          BY <1>3, <1>7, <5>1, <5>3
        <5> QED BY <5>4, <5>5, Zenon
      <4>3. CASE j < a
        BY <3>3, <4>3, Zenon
      <4> QED BY <1>3, <4>1, <4>2, <4>3
    <3>5. Reached' = Events'
      <4>1. \A p \in DOMAIN wire' : wire'[p] \in Events
        BY <1>7, <2>0, Zenon
      <4>2. Reached' \subseteq Events
        BY <1>8, <4>1, Zenon DEF Reached
      <4>3. ASSUME NEW j \in Events PROVE j \in Reached'
        <5>1. CASE j < a
          BY <1>8, <3>3, <5>1, Zenon DEF Reached
        <5>2. CASE j >= a
          BY <1>3, <1>10, <5>2
        <5> QED BY <1>3, <5>1, <5>2
      <4> QED BY <1>2, <4>2, <4>3, Zenon
    <3> QED BY <1>1, <2>0, <3>1, <3>2, <3>4, <3>5, Zenon DEF NoHoles
  <2> QED BY <1>1, <2>1, <2>2, Zenon
<1> QED BY <1>2, <1>9, <1>11, <1>12, Zenon DEF ClientInv, NoSilentLoss

LEMMA ReceiveKeeps ==
  ASSUME ClientInv, Receive
  PROVE  ClientInv'
<1>0. LogInv /\ ClientTypeOK
  BY Zenon DEF ClientInv
<1>1. /\ wire # <<>> /\ have' = have \cup {Head(wire)} /\ cursor' = Larger(cursor, seq(Head(wire)))
      /\ wire' = Tail(wire) /\ acked' = NoAck /\ log' = log /\ joined' = joined
      /\ born' = born /\ troubled' = troubled
  BY Zenon DEF Receive
<1>2. /\ LogInv' /\ Events' = Events /\ Fresh' = Fresh /\ Floor(Watched)' = Floor(Watched)
      /\ \A i : seq(i)' = seq(i)
  BY <1>0, <1>1, SameLog, Zenon
<1>3. /\ Last \in Nat /\ Events = 1 .. Last /\ Fresh = born + 1 .. Last /\ born \in Nat
      /\ Floor(Watched) \in Nat /\ \A i \in Fresh : seq(i) \in 1 .. Floor(Watched)
      /\ \A i, j \in Fresh : i < j => seq(i) < seq(j)
  BY <1>0, SeqRises, Zenon DEF ClientTypeOK
<1>4. /\ joined \in BOOLEAN /\ troubled \in BOOLEAN /\ cursor \in Nat
      /\ wire \in Seq(Fresh) /\ have \subseteq Events
  BY <1>0, Zenon DEF ClientTypeOK
<1>5. PICK h \in Fresh : h = Head(wire) /\ h = wire[1]
  BY <1>1, <1>4
<1>6. /\ wire' \in Seq(Fresh) /\ Len(wire) \in Nat \ {0}
      /\ DOMAIN wire = 1 .. Len(wire) /\ DOMAIN wire' = 1 .. Len(wire) - 1
      /\ \A p \in DOMAIN wire' : wire'[p] = wire[p + 1]
  BY <1>1, <1>4
<1>7. h \in Events /\ seq(h) \in Nat /\ cursor' \in Nat /\ cursor' = Larger(cursor, seq(h))
      /\ have' = have \cup {h}
  BY <1>1, <1>3, <1>4, <1>5 DEF Larger
<1>8. ClientTypeOK'
  BY <1>1, <1>2, <1>3, <1>4, <1>6, <1>7, Zenon DEF ClientTypeOK
<1>9. Reached' = Reached
  <2>1. \A x : (\E p \in DOMAIN wire : wire[p] = x)
               <=> x = h \/ \E p \in DOMAIN wire' : wire'[p] = x
    <3> SUFFICES ASSUME NEW x
                 PROVE  (\E p \in DOMAIN wire : wire[p] = x)
                        <=> x = h \/ \E p \in DOMAIN wire' : wire'[p] = x
      BY Zenon
    <3>1. ASSUME NEW p \in DOMAIN wire, wire[p] = x, x # h PROVE \E q \in DOMAIN wire' : wire'[q] = x
      <4>1. p - 1 \in DOMAIN wire' /\ (p - 1) + 1 = p
        BY <1>5, <1>6, <3>1
      <4> QED BY <1>6, <3>1, <4>1, Zenon
    <3>2. ASSUME NEW q \in DOMAIN wire', wire'[q] = x PROVE \E p \in DOMAIN wire : wire[p] = x
      <4>1. q + 1 \in DOMAIN wire
        BY <1>6
      <4> QED BY <1>6, <3>2, <4>1, Zenon
    <3>3. 1 \in DOMAIN wire /\ wire[1] = h
      BY <1>5, <1>6
    <3> QED BY <3>1, <3>2, <3>3, Zenon
  <2>2. \A x : x \in Reached <=> x \in have \/ \E p \in DOMAIN wire : wire[p] = x
    BY Zenon DEF Reached
  <2>3. \A x : x \in Reached' <=> x \in have' \/ \E p \in DOMAIN wire' : wire'[p] = x
    BY Zenon DEF Reached
  <2>4. \A x : x \in have' <=> x \in have \/ x = h
    BY <1>7, Zenon
  <2>5. \A x : x \in Reached' <=> x \in Reached
    BY <2>1, <2>2, <2>3, <2>4, Zenon
  <2> QED BY <2>5, Zenon
<1>10. ASSUME ~troubled' PROVE NoHoles'
  <2>0. ~troubled /\ NoHoles /\ born = 0 /\ Fresh = Events
    BY <1>1, <1>3, <1>10 DEF ClientInv, NoHoles
  <2>1. \A j \in Events : j < h => j \in have
    <3> SUFFICES ASSUME NEW j \in Events, j < h PROVE j \in have
      BY Zenon
    <3>1. 1 \in DOMAIN wire /\ ~\E q \in 1 .. 1 - 1 : wire[q] = j
      BY <1>6
    <3> QED BY <1>5, <2>0, <3>1, Zenon DEF NoHoles, WireIsClosed
  <2>2. HaveIsClosed'
    BY <1>2, <1>7, <2>0, <2>1, Zenon DEF NoHoles, HaveIsClosed
  <2>3. CursorIsHeld'
    <3>1. cursor <= Floor(Watched) /\ \A i \in Events : seq(i) <= cursor => i \in have
      BY <2>0, Zenon DEF NoHoles, CursorIsHeld
    <3>2. cursor' <= Floor(Watched)
      BY <1>3, <1>4, <1>7, <3>1 DEF Larger
    <3>3. ASSUME NEW i \in Events, seq(i) <= cursor' PROVE i \in have'
      <4>1. CASE seq(i) <= cursor
        BY <1>7, <3>1, <4>1, Zenon
      <4>2. CASE cursor' = seq(h)
        <5>1. ~(h < i)
          BY <1>3, <1>7, <2>0, <3>3, <4>2
        <5>2. i < h \/ i = h
          BY <1>3, <1>7, <5>1
        <5> QED BY <1>7, <2>1, <5>2, Zenon
      <4> QED BY <1>7, <3>3, <4>1, <4>2, Zenon DEF Larger
    <3> QED BY <1>2, <3>2, <3>3, Zenon DEF CursorIsHeld
  <2>4. WireIsClosed'
    <3> SUFFICES ASSUME NEW p \in DOMAIN wire', NEW j \in Events, j < wire'[p]
                 PROVE  j \in have' \/ \E q \in 1 .. p - 1 : wire'[q] = j
      BY <1>2, Zenon DEF WireIsClosed
    <3>1. p + 1 \in DOMAIN wire /\ wire'[p] = wire[p + 1]
      BY <1>6
    <3>2. j \in have \/ \E q \in 1 .. (p + 1) - 1 : wire[q] = j
      BY <2>0, <3>1, Zenon DEF NoHoles, WireIsClosed
    <3>3. ASSUME NEW q \in 1 .. (p + 1) - 1, wire[q] = j, j # h
          PROVE  \E k \in 1 .. p - 1 : wire'[k] = j
      <4>1. q - 1 \in 1 .. p - 1 /\ q - 1 \in DOMAIN wire' /\ (q - 1) + 1 = q
        BY <1>5, <1>6, <3>3
      <4> QED BY <1>6, <3>3, <4>1, Zenon
    <3> QED BY <1>7, <3>2, <3>3, Zenon
  <2> QED BY <1>1, <2>0, <2>2, <2>3, <2>4, Zenon DEF NoHoles
<1>11. NoSilentLoss'
  BY <1>1, <1>2, <1>9, Zenon DEF ClientInv, NoSilentLoss
<1> QED BY <1>1, <1>2, <1>8, <1>10, <1>11, Zenon DEF ClientInv, ReplayCoversTheCursor, NoAck

(* Leaving the room, or losing the connection, loses nothing that is held. *)
LEMMA LeaveKeeps ==
  ASSUME ClientInv, Unsubscribe \/ Disconnect
  PROVE  ClientInv'
<1>0. LogInv /\ ClientTypeOK
  BY Zenon DEF ClientInv
<1>1. /\ joined' = FALSE /\ wire' \in {wire, <<>>} /\ cursor' = cursor /\ have' = have
      /\ acked' = NoAck /\ log' = log /\ born' = born /\ troubled' = troubled
  BY Zenon DEF Unsubscribe, Disconnect, Drop, client
<1>2. /\ LogInv' /\ Events' = Events /\ Fresh' = Fresh /\ Floor(Watched)' = Floor(Watched)
      /\ \A i : seq(i)' = seq(i)
  BY <1>0, <1>1, SameLog, Zenon
<1>3. <<>> \in Seq(Fresh) /\ DOMAIN <<>> = {}
  OBVIOUS
<1>4. ClientTypeOK'
  BY <1>0, <1>1, <1>2, <1>3, Zenon DEF ClientTypeOK
<1>5. ASSUME ~troubled' PROVE NoHoles'
  <2>0. NoHoles
    BY <1>1, <1>5, Zenon DEF ClientInv
  <2>1. HaveIsClosed' /\ CursorIsHeld'
    BY <1>1, <1>2, <2>0, Zenon DEF NoHoles, HaveIsClosed, CursorIsHeld
  <2>2. WireIsClosed'
    BY <1>1, <1>2, <1>3, <2>0, Zenon DEF NoHoles, WireIsClosed
  <2> QED BY <1>1, <2>0, <2>1, <2>2, Zenon DEF NoHoles
<1> QED BY <1>1, <1>2, <1>4, <1>5, Zenon DEF ClientInv, NoSilentLoss, ReplayCoversTheCursor, NoAck

(* A restart keeps the events and numbers none of them. *)
LEMMA RestartKeeps ==
  ASSUME ClientInv, Restart
  PROVE  ClientInv'
<1>0. LogInv /\ ClientTypeOK
  BY Zenon DEF ClientInv
<1>1. /\ joined' = FALSE /\ wire' = <<>> /\ cursor' = cursor /\ have' = have
      /\ acked' = NoAck /\ troubled' = TRUE /\ born' = Cardinality(Events)
      /\ hist' = [r \in Rooms |-> <<>>] /\ rooms' = {} /\ evictedHighWater' = 0
      /\ head' = [r \in Rooms |-> 0] /\ low' = [r \in Rooms |-> 0] /\ rank' = [r \in Rooms |-> 0]
  BY Zenon DEF Restart, Drop, client
<1>2. LogInv'
  BY <1>1 DEF LogInv, LogTypeOK, Covered, SeqIsMonotonic, BufferInv, Floor
<1>3. Last \in Nat /\ Events = 1 .. Last
  BY <1>0, SeqRises, Zenon
<1>4. Cardinality(Events) = Last
  BY <1>3, FS_Interval
<1>5. Events' = Events
  BY <1>1, <1>3, <1>4, RealtimeAssumption DEF Events
<1>6. <<>> \in Seq(Fresh')
  OBVIOUS
<1>7. ClientTypeOK'
  BY <1>0, <1>1, <1>3, <1>4, <1>5, <1>6, Zenon DEF ClientTypeOK
<1> QED BY <1>1, <1>2, <1>7, Zenon DEF ClientInv, NoSilentLoss, ReplayCoversTheCursor, NoAck

LEMMA ClientInductive == ClientInv /\ [RealtimeNext]_realtime => ClientInv'
<1> SUFFICES ASSUME ClientInv, [RealtimeNext]_realtime PROVE ClientInv'
  BY Zenon
<1>1. CASE UNCHANGED realtime
  <2>0. LogInv
    BY Zenon DEF ClientInv
  <2>1. /\ joined' = joined /\ wire' = wire /\ cursor' = cursor /\ have' = have /\ acked' = acked
        /\ log' = log /\ born' = born /\ troubled' = troubled
    BY <1>1, Zenon DEF realtime, client
  <2>2. /\ LogInv' /\ Events' = Events /\ Fresh' = Fresh /\ Floor(Watched)' = Floor(Watched)
        /\ \A i : seq(i)' = seq(i)
    BY <2>0, <2>1, SameLog, Zenon
  <2>3. ClientTypeOK' /\ NoSilentLoss' /\ ReplayCoversTheCursor'
    BY <2>1, <2>2, Zenon DEF ClientInv, ClientTypeOK, NoSilentLoss, ReplayCoversTheCursor, Reached
  <2>4. ~troubled' => NoHoles'
    BY <2>1, <2>2, Zenon DEF ClientInv, NoHoles, HaveIsClosed, WireIsClosed, CursorIsHeld
  <2> QED BY <2>2, <2>3, <2>4, Zenon DEF ClientInv
<1> QED
  BY <1>1, PublishKeeps, SubscribeKeeps, ReceiveKeeps, LeaveKeeps, RestartKeeps, Zenon DEF RealtimeNext

LEMMA ClientInvariance == RealtimeSpec => []ClientInv
<1> QED BY InitClient, ClientInductive, PTL DEF RealtimeSpec

(* A client in the room that acts on gaps has, or is about to get, every   *)
(* event, for any buffer size, any number of rooms and any reconnects.     *)
THEOREM NothingIsSilentlyLost == RealtimeSpec => []NoSilentLoss
<1>1. ClientInv => NoSilentLoss
  BY Zenon DEF ClientInv
<1> QED BY <1>1, ClientInvariance, PTL

(* A subscribe answered without a gap brings everything after its cursor,  *)
(* also after failed deliveries and restarts.                              *)
THEOREM SubscribesAreComplete == RealtimeSpec => []ReplayCoversTheCursor
<1>1. ClientInv => ReplayCoversTheCursor
  BY Zenon DEF ClientInv
<1> QED BY <1>1, ClientInvariance, PTL

(* What the client sees for the first time comes after all it has seen. *)
THEOREM EventsAreFirstSeenInOrder == RealtimeSpec => FirstSightsAreInOrder
<1>1. ClientInv /\ [RealtimeNext]_realtime =>
        [~troubled /\ wire # <<>> /\ wire' = Tail(wire) /\ Head(wire) \notin have
           => \A i \in have : i < Head(wire)]_realtime
  <2> SUFFICES ASSUME ClientInv, ~troubled, wire # <<>>, Head(wire) \notin have, NEW i \in have
               PROVE  i < Head(wire)
    BY Zenon
  <2>1. /\ LogInv /\ ClientTypeOK /\ HaveIsClosed
    BY Zenon DEF ClientInv, NoHoles
  <2>2. Events = 1 .. Last /\ Last \in Nat
    BY <2>1, SeqRises, Zenon
  <2>3. Head(wire) \in Fresh
    BY <2>1 DEF ClientTypeOK
  <2>4. Head(wire) \in Events /\ i \in Events
    BY <2>1, <2>3, Zenon DEF ClientTypeOK, Fresh
  <2>5. ~(Head(wire) < i)
    BY <2>1, <2>4, Zenon DEF HaveIsClosed
  <2> QED BY <2>2, <2>4, <2>5
<1> QED BY <1>1, ClientInvariance, PTL DEF RealtimeSpec, FirstSightsAreInOrder

------------------------------------------------------------------------------
(***************************************************************************)
(* The audience.  A socket is only ever in rooms that are its principal's, *)
(* which is fixed for as long as it is open, and has received nothing when *)
(* it opens.                                                               *)
(***************************************************************************)
SocketShape(k) ==
  k = [tenant |-> k.tenant, principal |-> k.principal, rooms |-> k.rooms, asked |-> k.asked]

(* Whether room is one that k may be in. *)
IsFor(room, k) ==
  /\ room.tenant = k.tenant
  /\ ~isStaff(k.principal) =>
       room.kind = "ticket" /\ Requester[room.ticket].contact = asContact(k.principal)

(* Socket k is in its own rooms, has asked for one of its tenant, and got  *)
(* the envelopes R, all meant for it.                                      *)
SocketOK(k, R) ==
  /\ SocketShape(k)
  /\ k = Closed => R = {}
  /\ k # Closed => k.principal # Nobody
  /\ \A room \in k.rooms : IsFor(room, k)
  /\ k.asked # Nobody => k # Closed /\ k.asked.tenant = k.tenant /\ k.asked.kind = "ticket"
  /\ \A e \in R : IsFor(e.room, k) /\ canReceive(k.principal, e.event)

GatewayInv ==
  /\ socket = [s \in Sockets |-> socket[s]]
  /\ received = [s \in Sockets |-> received[s]]
  /\ \A s \in Sockets : SocketOK(socket[s], received[s])

LEMMA InitGateway == GatewayInit => GatewayInv
<1>1. SocketOK(Closed, {})
  BY Zenon DEF SocketOK, SocketShape, Closed
<1>2. ASSUME GatewayInit, NEW s \in Sockets PROVE socket[s] = Closed /\ received[s] = {}
  BY <1>2, Zenon DEF GatewayInit
<1> QED BY <1>1, <1>2, Zenon DEF GatewayInit, GatewayInv

(* A join, allowed or after mayJoin's read, keeps a socket to its own. *)
LEMMA JoinedOK ==
  ASSUME GatewayInv, NEW s \in Sockets, NEW room, socket[s] # Closed, IsFor(room, socket[s]),
         Joined(s, room)
  PROVE  GatewayInv'
<1>1. PICK k : k = socket[s]
  BY Zenon
<1>2. PICK R : R = received[s]
  BY Zenon
<1>3. SocketOK(k, R) /\ k # Closed /\ IsFor(room, k)
  BY <1>1, <1>2, Zenon DEF GatewayInv
<1>4. PICK l : l = [k EXCEPT !.rooms = @ \cup {room}, !.asked = Nobody]
  BY Zenon
<1>5. PICK Q : Q = R \cup {e \in buffer : e.room = room /\ canReceive(k.principal, e.event)}
  BY Zenon
<1>6. socket' = [socket EXCEPT ![s] = l] /\ received' = [received EXCEPT ![s] = Q]
  BY <1>1, <1>2, <1>4, <1>5, Zenon DEF Joined, GatewayInv
<1>7. l = [tenant |-> k.tenant, principal |-> k.principal, rooms |-> k.rooms \cup {room}, asked |-> Nobody]
  BY <1>3, <1>4, Zenon DEF SocketOK, SocketShape
<1>8. l # Closed
  BY <1>3, <1>7, Zenon DEF Closed, SocketOK
<1>9. \A x : IsFor(x, l) <=> IsFor(x, k)
  BY <1>7, Zenon DEF IsFor
<1>10. SocketOK(l, Q)
  BY <1>3, <1>5, <1>7, <1>8, <1>9, Zenon DEF SocketOK, SocketShape
<1> QED BY <1>6, <1>10, Zenon DEF GatewayInv

LEMMA GatewayInductive == GatewayInv /\ [GatewayNext]_gateway => GatewayInv'
<1> SUFFICES ASSUME GatewayInv, [GatewayNext]_gateway PROVE GatewayInv'
  BY Zenon
<1>1. ASSUME NEW s \in Sockets, NEW c \in Credentials, Handshake(s, c) PROVE GatewayInv'
  <2>1. PICK l : l = [Closed EXCEPT !.tenant = c.tenant, !.principal = authenticate(c)]
    BY Zenon
  <2>2. l = [tenant |-> c.tenant, principal |-> authenticate(c), rooms |-> {}, asked |-> Nobody]
    BY <2>1, Zenon DEF Closed
  <2>3. /\ socket' = [socket EXCEPT ![s] = l] /\ received' = received
        /\ received[s] = {} /\ authenticate(c) # Nobody
    BY <1>1, <2>1, Zenon DEF Handshake, GatewayInv, SocketOK
  <2>4. SocketOK(l, {})
    BY <2>2, <2>3, Zenon DEF SocketOK, SocketShape
  <2> QED BY <2>3, <2>4, Zenon DEF GatewayInv
<1>2. ASSUME NEW s \in Sockets, NEW room \in Names, Ask(s, room) PROVE GatewayInv'
  <2>1. CASE canJoin(socket[s].tenant, socket[s].principal, room) = "allow" /\ Joined(s, room)
    <3>1. IsFor(room, socket[s])
      BY <2>1, Zenon DEF canJoin, IsFor
    <3> QED BY <1>2, <2>1, <3>1, JoinedOK, Zenon DEF Ask
  <2>2. CASE /\ canJoin(socket[s].tenant, socket[s].principal, room) = "requires-requester-match"
             /\ room.kind = "ticket"
             /\ socket' = [socket EXCEPT ![s].asked = room]
             /\ UNCHANGED received
    <3>1. PICK k : k = socket[s]
      BY Zenon
    <3>2. SocketOK(k, received[s]) /\ k # Closed
      BY <1>2, <3>1, Zenon DEF GatewayInv, Ask
    <3>3. PICK l : l = [k EXCEPT !.asked = room]
      BY Zenon
    <3>4. l = [tenant |-> k.tenant, principal |-> k.principal, rooms |-> k.rooms, asked |-> room]
      BY <3>2, <3>3, Zenon DEF SocketOK, SocketShape
    <3>5. room.tenant = k.tenant /\ l # Closed
      BY <2>2, <3>1, <3>2, <3>4, Zenon DEF canJoin, Closed, SocketOK
    <3>6. \A x : IsFor(x, l) <=> IsFor(x, k)
      BY <3>4, Zenon DEF IsFor
    <3>7. SocketOK(l, received[s])
      BY <2>2, <3>2, <3>4, <3>5, <3>6, Zenon DEF SocketOK, SocketShape
    <3>8. socket' = [socket EXCEPT ![s] = l] /\ received' = received
      BY <2>2, <3>1, <3>3, Zenon DEF GatewayInv
    <3> QED BY <3>7, <3>8, Zenon DEF GatewayInv
  <2> QED BY <1>2, <2>1, <2>2, Zenon DEF Ask
<1>3. ASSUME NEW s \in Sockets, Look(s) PROVE GatewayInv'
  <2>1. PICK k : k = socket[s]
    BY Zenon
  <2>2. PICK room : room = k.asked
    BY Zenon
  <2>3. SocketOK(k, received[s]) /\ room # Nobody
    BY <1>3, <2>1, <2>2, Zenon DEF GatewayInv, Look
  <2>4. k # Closed /\ room.tenant = k.tenant /\ room.kind = "ticket"
    BY <2>2, <2>3, Zenon DEF SocketOK
  <2>5. CASE Requester[room.ticket] = [tenant |-> k.tenant, contact |-> asContact(k.principal)]
             /\ Joined(s, room)
    <3>1. Requester[room.ticket].contact = asContact(k.principal)
      BY <2>5
    <3>2. IsFor(room, k)
      BY <2>4, <3>1, Zenon DEF IsFor
    <3> QED BY <2>1, <2>4, <2>5, <3>2, JoinedOK, Zenon
  <2>6. CASE socket' = [socket EXCEPT ![s].asked = Nobody] /\ UNCHANGED received
    <3>1. PICK l : l = [k EXCEPT !.asked = Nobody]
      BY Zenon
    <3>2. l = [tenant |-> k.tenant, principal |-> k.principal, rooms |-> k.rooms, asked |-> Nobody]
      BY <2>3, <3>1, Zenon DEF SocketOK, SocketShape
    <3>3. l # Closed
      BY <2>3, <2>4, <3>2, Zenon DEF Closed, SocketOK
    <3>4. \A x : IsFor(x, l) <=> IsFor(x, k)
      BY <3>2, Zenon DEF IsFor
    <3>5. SocketOK(l, received[s])
      BY <2>3, <2>4, <3>2, <3>3, <3>4, Zenon DEF SocketOK, SocketShape
    <3>6. socket' = [socket EXCEPT ![s] = l] /\ received' = received
      BY <2>1, <2>6, <3>1, Zenon DEF GatewayInv
    <3> QED BY <3>5, <3>6, Zenon DEF GatewayInv
  <2> QED BY <1>3, <2>1, <2>2, <2>5, <2>6, Zenon DEF Look
<1>4. ASSUME NEW s \in Sockets, NEW room \in Names, Leave(s, room) PROVE GatewayInv'
  <2>1. PICK k : k = socket[s]
    BY Zenon
  <2>2. SocketOK(k, received[s]) /\ room \in k.rooms
    BY <1>4, <2>1, Zenon DEF GatewayInv, Leave
  <2>3. PICK l : l = [k EXCEPT !.rooms = @ \ {room}]
    BY Zenon
  <2>4. l = [tenant |-> k.tenant, principal |-> k.principal, rooms |-> k.rooms \ {room},
             asked |-> k.asked]
    BY <2>2, <2>3, Zenon DEF SocketOK, SocketShape
  <2>5. k # Closed /\ l # Closed
    BY <2>2, <2>4 DEF Closed, SocketOK
  <2>6. \A x : IsFor(x, l) <=> IsFor(x, k)
    BY <2>4, Zenon DEF IsFor
  <2>7. SocketOK(l, received[s])
    BY <2>2, <2>4, <2>5, <2>6, Zenon DEF SocketOK, SocketShape
  <2>8. socket' = [socket EXCEPT ![s] = l] /\ received' = received
    BY <1>4, <2>1, <2>3, Zenon DEF GatewayInv, Leave
  <2> QED BY <2>7, <2>8, Zenon DEF GatewayInv
<1>5. ASSUME NEW s \in Sockets, Close(s) PROVE GatewayInv'
  <2>1. SocketOK(Closed, {})
    BY Zenon DEF SocketOK, SocketShape, Closed
  <2> QED BY <1>5, <2>1, Zenon DEF Close, GatewayInv
<1>6. ASSUME NEW publisher \in Publishers, NEW t \in TicketIds, Broadcast(publisher, t)
      PROVE  GatewayInv'
  <2>1. PICK sent : sent = Envelopes(publisher, t)
    BY Zenon
  <2>2. /\ socket' = socket
        /\ received' = [s \in Sockets |-> received[s] \cup
             {e \in sent : e.room \in socket[s].rooms /\ canReceive(socket[s].principal, e.event)}]
    BY <1>6, <2>1, Zenon DEF Broadcast
  <2>3. ASSUME NEW s \in Sockets PROVE SocketOK(socket[s], received'[s])
    <3>1. PICK k : k = socket[s]
      BY Zenon
    <3>2. received'[s] = received[s] \cup
             {e \in sent : e.room \in k.rooms /\ canReceive(k.principal, e.event)}
      BY <2>2, <3>1, Zenon
    <3>3. SocketOK(k, received[s])
      BY <3>1, Zenon DEF GatewayInv
    <3>4. k = Closed => k.rooms = {}
      BY DEF Closed
    <3>5. SocketOK(k, received'[s])
      BY <3>2, <3>3, <3>4, Zenon DEF SocketOK
    <3> QED BY <3>1, <3>5, Zenon
  <2> QED BY <2>2, <2>3, Zenon DEF GatewayInv
<1>7. ASSUME NEW t \in TicketIds, Named(t) PROVE GatewayInv'
  BY <1>7, Zenon DEF Named, GatewayInv
<1>8. CASE UNCHANGED gateway
  BY <1>8, Zenon DEF gateway, GatewayInv
<1> QED BY <1>1, <1>2, <1>3, <1>4, <1>5, <1>6, <1>7, <1>8, Zenon DEF GatewayNext

(* Whatever reaches a socket, live or by replay, is for its principal: of  *)
(* its tenant, and for one that is not staff of the thread of a Ticket of  *)
(* its own and not for staff only.                                         *)
THEOREM EventsStayWithTheirAudience == GatewaySpec => []EventsReachTheirAudience
<1>1. GatewayInv => EventsReachTheirAudience
  BY Zenon DEF GatewayInv, SocketOK, EventsReachTheirAudience, IsFor, canReceive
<1> QED BY <1>1, InitGateway, GatewayInductive, PTL DEF GatewaySpec

------------------------------------------------------------------------------
(* Token t is the successor of t - 1, and the last one is the unspent one. *)
Line ==
  /\ \A t \in Committed : parent[t] = t - 1
  /\ \A t \in Committed : rotatedAt[t] < 0 <=> t = issued

(* Every token carries the sign-in's ceiling. *)
OneCeiling == \A t \in Committed : familyExpiresAt[t] = ABSOLUTE

InWindows ==
  \A t \in Committed : rotatedAt[t] >= 0 => rotatedAt[t] < expiresAt[t] /\ rotatedAt[t] < ABSOLUTE

(* A request that is past the verdict was inside the windows, and one that *)
(* has spent its token holds the row.                                      *)
Rotating ==
  \A q \in Requests :
    /\ tok[q] \in Committed
    /\ pc[q] \in {"rotate", "write"} => now[q] < expiresAt[tok[q]] /\ now[q] < ABSOLUTE
    /\ pc[q] = "write" => lock[tok[q]] = q /\ rotatedAt[tok[q]] < 0

(* Unless a rotation overlapped it, an eviction sees the whole family and  *)
(* leaves nobody at work on it.                                            *)
Evicting ==
  ~overlapped =>
    /\ \A q \in Requests : pc[q] = "revoking" => seen[q] = Committed
    /\ evicted => /\ revoked = Committed
                  /\ \A q \in Requests : pc[q] \notin {"rotate", "write"}

(* What is not issued yet is not spent. *)
Unissued == \A t \in Tokens \ Committed : rotatedAt[t] = -1

IInv == SessionsTypeOK /\ Line /\ OneCeiling /\ InWindows /\ Rotating /\ Evicting /\ Unissued

LEMMA InitIInv == Init => IInv
<1> SUFFICES ASSUME Init PROVE IInv
  BY Zenon
<1> USE SessionsAssumption DEF SessionsAssumption
<1>1. SessionsTypeOK
  <2>1. issued \in Tokens /\ Committed = {1} /\ revoked \subseteq Committed
    BY DEF Init, Tokens, Committed
  <2>2. expiresAt \in [Tokens -> 0 .. Horizon + SLIDING]
    BY DEF Init, Tokens
  <2>3. familyExpiresAt \in [Tokens -> 0 .. ABSOLUTE] /\ parent \in [Tokens -> 0 .. MaxTokens]
    BY DEF Init, Tokens
  <2>4. rotatedAt \in [Tokens -> -1 .. Horizon] /\ clock \in 0 .. Horizon
    BY DEF Init, Tokens
  <2>5. /\ subject \in Kinds /\ lock \in [Tokens -> Requests \cup {NoRequest}]
        /\ pc \in [Requests -> Kinds \cup {"idle", "signOut", "rotate", "write", "revoke", "revoking"}]
        /\ seen \in [Requests -> SUBSET Committed]
        /\ evicted \in BOOLEAN /\ overlapped \in BOOLEAN
    BY Zenon DEF Init
  <2>6. tok \in [Requests -> Tokens] /\ now \in [Requests -> 0 .. Horizon]
    BY DEF Init, Tokens
  <2>7. QED
    BY <2>1, <2>2, <2>3, <2>4, <2>5, <2>6, Zenon DEF SessionsTypeOK
<1>2. Line
  BY DEF Init, Line, Tokens, Committed
<1>3. OneCeiling /\ InWindows /\ Rotating /\ Evicting /\ Unissued
  BY DEF Init, OneCeiling, InWindows, Rotating, Evicting, Unissued, Tokens, Committed, Kinds
<1>4. QED
  BY <1>1, <1>2, <1>3, Zenon DEF IInv

------------------------------------------------------------------------------
(* What a request changes of itself alone: nothing of the rows. *)
LEMMA AwayFromTheRows ==
  ASSUME NEW q \in Requests, NEW l, IInv, Goto(q, l),
         l \in Kinds \cup {"idle", "signOut", "revoke"},
         UNCHANGED <<clock, rows, history>>,
         \A o \in Requests \ {q} : tok'[o] = tok[o] /\ now'[o] = now[o] /\ seen'[o] = seen[o],
         seen' \in [Requests -> SUBSET Committed],
         tok' \in [Requests -> Tokens], tok'[q] \in Committed,
         now' \in [Requests -> 0 .. Horizon],
         lock' \in [Tokens -> Requests \cup {NoRequest}],
         \A t \in Tokens : lock[t] # q => lock'[t] = lock[t]
  PROVE  IInv'
<1> USE DEF IInv
<1>1. issued' = issued /\ Committed' = Committed
  BY Zenon DEF rows, Committed
<1>2. pc' \in [Requests -> Kinds \cup {"idle", "signOut", "rotate", "write", "revoke", "revoking"}]
  BY Zenon DEF Goto, SessionsTypeOK
<1>3. SessionsTypeOK'
  BY <1>1, <1>2, Zenon DEF SessionsTypeOK, rows, history
<1>4. Line' /\ OneCeiling' /\ InWindows' /\ Unissued'
  BY <1>1, Zenon DEF Line, OneCeiling, InWindows, Unissued, rows
<1>5. pc'[q] = l /\ \A o \in Requests \ {q} : pc'[o] = pc[o]
  BY Zenon DEF Goto, SessionsTypeOK
<1>6. Rotating'
  <2> SUFFICES ASSUME NEW o \in Requests
               PROVE  /\ tok'[o] \in Committed'
                      /\ pc'[o] \in {"rotate", "write"} => now'[o] < expiresAt'[tok'[o]] /\ now'[o] < ABSOLUTE
                      /\ pc'[o] = "write" => lock'[tok'[o]] = o /\ rotatedAt'[tok'[o]] < 0
    BY Zenon DEF Rotating
  <2>1. CASE o = q
    BY <2>1, <1>1, <1>5, Zenon DEF Kinds
  <2>2. CASE o # q
    BY <2>2, <1>1, <1>5 DEF Rotating, rows, SessionsTypeOK
  <2>3. QED
    BY <2>1, <2>2, Zenon
<1>7. Evicting'
  BY <1>1, <1>5, Zenon DEF Evicting, rows, history, Kinds
<1>8. QED
  BY <1>3, <1>4, <1>6, <1>7, Zenon

LEMMA StepIInv == IInv /\ [Next]_vars => IInv'
<1> SUFFICES ASSUME IInv, [Next]_vars PROVE IInv'
  BY Zenon
<1> USE SessionsAssumption DEF SessionsAssumption, IInv
<1>0. issued \in Nat /\ issued >= 1 /\ issued <= MaxTokens /\ Committed \subseteq Tokens
  BY DEF SessionsTypeOK, Tokens, Committed
<1>1. CASE Tick
  <2>1. Committed' = Committed /\ clock' \in 0 .. Horizon
    BY <1>1 DEF Tick, rows, Committed, SessionsTypeOK
  <2>2. SessionsTypeOK'
    BY <1>1, <2>1, Zenon DEF Tick, rows, request, history, SessionsTypeOK
  <2>3. Line' /\ OneCeiling' /\ InWindows' /\ Rotating' /\ Evicting' /\ Unissued'
    BY <1>1, <2>1, Zenon DEF Tick, rows, request, history, Line, OneCeiling, InWindows, Rotating, Evicting, Unissued
  <2>4. QED
    BY <2>2, <2>3, Zenon
<1>2. ASSUME NEW q \in Requests, NEW t \in Tokens, NEW l \in Kinds \cup {"signOut"}, Arrive(q, t, l)
      PROVE  IInv'
  <2>1. tok' \in [Requests -> Tokens] /\ tok'[q] \in Committed /\ now' \in [Requests -> 0 .. Horizon]
    BY <1>2, Zenon DEF Arrive, SessionsTypeOK
  <2>2. \A o \in Requests \ {q} : tok'[o] = tok[o] /\ now'[o] = now[o]
    BY <1>2, Zenon DEF Arrive, SessionsTypeOK
  <2>3. QED
    BY <1>2, <2>1, <2>2, AwayFromTheRows, Zenon DEF Arrive, SessionsTypeOK
<1>3. ASSUME NEW q \in Requests, Classify(q) PROVE IInv'
  <2>1. CASE pc[q] = subject /\ classify(tok[q], now[q]) = "rotate"
    <3>1. /\ pc' = [pc EXCEPT ![q] = "rotate"]
          /\ UNCHANGED <<clock, rows, lock, tok, now, seen, history>>
      BY <1>3, <2>1, Zenon DEF Classify, Goto
    <3>2. Committed' = Committed /\ tok[q] \in Committed /\ tok[q] \in Tokens
      BY <1>0, <3>1, Zenon DEF rows, Committed, Rotating
    <3>3. tok[q] \notin revoked /\ now[q] < expiresAt[tok[q]] /\ now[q] < ABSOLUTE
      BY <2>1, <3>2 DEF classify, OneCeiling, SessionsTypeOK
    <3>4. SessionsTypeOK'
      BY <3>1, <3>2, Zenon DEF SessionsTypeOK, rows, history
    <3>5. Line' /\ OneCeiling' /\ InWindows' /\ Unissued'
      BY <3>1, <3>2, Zenon DEF Line, OneCeiling, InWindows, Unissued, rows
    <3>6. Rotating'
      BY <3>1, <3>2, <3>3, Zenon DEF Rotating, rows, SessionsTypeOK
    <3>7. Evicting'
      BY <3>1, <3>2, <3>3, Zenon DEF Evicting, rows, history, SessionsTypeOK
    <3>8. QED
      BY <3>4, <3>5, <3>6, <3>7, Zenon
  <2>2. CASE ~(pc[q] = subject /\ classify(tok[q], now[q]) = "rotate")
    <3>1. \E l \in {"idle", "revoke"} : Goto(q, l)
      BY <1>3, <2>2, Zenon DEF Classify, classify
    <3>2. QED
      BY <1>3, <3>1, AwayFromTheRows, Zenon DEF Classify, SessionsTypeOK, Rotating
  <2>3. QED
    BY <2>1, <2>2, Zenon
<1>4. ASSUME NEW q \in Requests, FindFamily(q) PROVE IInv'
  BY <1>4, AwayFromTheRows, Zenon DEF FindFamily, SessionsTypeOK, Rotating
<1>5. ASSUME NEW q \in Requests, Spend(q) PROVE IInv'
  <2>1. CASE Unspent(tok[q])
    <3>1. /\ pc' = [pc EXCEPT ![q] = "write"] /\ lock' = [lock EXCEPT ![tok[q]] = q]
          /\ pc[q] = "rotate" /\ lock[tok[q]] = NoRequest /\ rotatedAt[tok[q]] < 0
          /\ UNCHANGED <<clock, rows, tok, now, seen, history>>
      BY <1>5, <2>1, Zenon DEF Spend, Goto, Unspent
    <3>2. Committed' = Committed /\ tok[q] \in Committed /\ tok[q] \in Tokens
      BY <1>0, <3>1, Zenon DEF rows, Committed, Rotating
    <3>3. SessionsTypeOK'
      BY <3>1, <3>2, Zenon DEF SessionsTypeOK, rows, history
    <3>4. Line' /\ OneCeiling' /\ InWindows' /\ Unissued'
      BY <3>1, <3>2, Zenon DEF Line, OneCeiling, InWindows, Unissued, rows
    <3>5. Rotating'
      <4>1. SUFFICES ASSUME NEW o \in Requests
                     PROVE  /\ tok[o] \in Committed
                            /\ pc'[o] \in {"rotate", "write"} => now[o] < expiresAt[tok[o]] /\ now[o] < ABSOLUTE
                            /\ pc'[o] = "write" => lock'[tok[o]] = o /\ rotatedAt[tok[o]] < 0
        BY <3>1, <3>2, Zenon DEF Rotating, rows
      <4>2. /\ tok[o] \in Committed /\ tok[o] \in Tokens /\ o # NoRequest
            /\ pc[o] \in {"rotate", "write"} => now[o] < expiresAt[tok[o]] /\ now[o] < ABSOLUTE
            /\ pc[o] = "write" => lock[tok[o]] = o /\ rotatedAt[tok[o]] < 0
        BY SessionsAssumption, Zenon DEF Rotating, SessionsTypeOK
      <4>3. CASE o = q
        <5>1. pc'[q] = "write" /\ lock'[tok[q]] = q
          BY <3>1, <3>2, Zenon DEF SessionsTypeOK
        <5> QED BY <3>1, <4>2, <4>3, <5>1, Zenon
      <4>4. CASE o # q
        <5>1. pc'[o] = pc[o]
          BY <3>1, <4>4, Zenon DEF SessionsTypeOK
        <5>2. pc[o] = "write" => lock'[tok[o]] = lock[tok[o]]
          BY <3>1, <4>2, Zenon DEF SessionsTypeOK
        <5> QED BY <4>2, <5>1, <5>2, Zenon
      <4> QED BY <4>3, <4>4, Zenon
    <3>6. Evicting'
      BY <3>1, <3>2, Zenon DEF Evicting, rows, history, SessionsTypeOK
    <3>7. QED
      BY <3>3, <3>4, <3>5, <3>6, Zenon
  <2>2. CASE ~Unspent(tok[q])
    BY <1>5, <2>2, AwayFromTheRows, Zenon DEF Spend, SessionsTypeOK, Rotating
  <2>3. QED
    BY <2>1, <2>2, Zenon
<1>6. ASSUME NEW q \in Requests, Commit(q) PROVE IInv'
  <2> DEFINE t == tok[q]
             s == issued + 1
  <2>1. /\ pc' = [pc EXCEPT ![q] = "idle"] /\ pc[q] = "write"
        /\ rotatedAt' = [rotatedAt EXCEPT ![t] = now[q]]
        /\ issued' = s /\ issued < MaxTokens
        /\ parent' = [parent EXCEPT ![s] = t]
        /\ expiresAt' = [expiresAt EXCEPT ![s] = now[q] + SLIDING]
        /\ familyExpiresAt' = [familyExpiresAt EXCEPT ![s] = familyExpiresAt[t]]
        /\ lock' = [lock EXCEPT ![t] = NoRequest]
        /\ UNCHANGED <<clock, subject, revoked, tok, now, seen, evicted>>
    BY <1>6, Zenon DEF Commit, Goto, Ceiling
  <2>2. /\ t \in Committed /\ t \in Tokens /\ t = issued
        /\ now[q] < expiresAt[t] /\ now[q] < ABSOLUTE /\ lock[t] = q
    BY <1>0, <2>1, Zenon DEF Rotating, Line
  <2>3. s \in Tokens /\ s \notin Committed /\ s # t /\ Committed' = Committed \cup {s}
    BY <1>0, <2>1, <2>2 DEF Tokens, Committed
  <2>4. now[q] \in 0 .. Horizon /\ now[q] + SLIDING \in 0 .. Horizon + SLIDING
    BY DEF SessionsTypeOK
  <2>5. SessionsTypeOK'
    <3>1. issued' \in Tokens /\ revoked' \subseteq Committed' /\ seen' \in [Requests -> SUBSET Committed']
      BY <2>1, <2>3, Zenon DEF SessionsTypeOK
    <3>2. parent' \in [Tokens -> 0 .. MaxTokens]
      <4>1. t \in 0 .. MaxTokens
        BY <2>2 DEF Tokens
      <4>2. QED
        BY <2>1, <4>1, Zenon DEF SessionsTypeOK
    <3>3. expiresAt' \in [Tokens -> 0 .. Horizon + SLIDING] /\ familyExpiresAt' \in [Tokens -> 0 .. ABSOLUTE]
      BY <2>1, <2>2, <2>4, Zenon DEF SessionsTypeOK
    <3>4. rotatedAt' \in [Tokens -> -1 .. Horizon]
      BY <2>1, <2>4 DEF SessionsTypeOK
    <3>5. overlapped' \in BOOLEAN
      BY <1>6, Zenon DEF Commit, SessionsTypeOK
    <3>6. QED
      BY <2>1, <3>1, <3>2, <3>3, <3>4, <3>5, Zenon DEF SessionsTypeOK
  <2>6. Line'
    <3>1. \A u \in Committed : u # s /\ parent'[u] = parent[u]
      BY <1>0, <2>1, <2>3, Zenon DEF SessionsTypeOK
    <3>2. parent'[s] = t
      BY <2>1, <2>3, Zenon DEF SessionsTypeOK
    <3>3. \A u \in Committed' : parent'[u] = u - 1
      BY <1>0, <2>2, <2>3, <3>1, <3>2 DEF Line
    <3>4. rotatedAt'[s] < 0
      <4>1. rotatedAt'[s] = rotatedAt[s]
        BY <2>1, <2>3, Zenon DEF SessionsTypeOK
      <4>2. QED
        BY <4>1, <2>3 DEF Unissued, Line
    <3>6. \A u \in Committed \ {t} : rotatedAt'[u] = rotatedAt[u] /\ rotatedAt[u] \in -1 .. Horizon
      BY <1>0, <2>1, Zenon DEF SessionsTypeOK
    <3>7. \A u \in Committed' : rotatedAt'[u] < 0 <=> u = issued'
      <4> SUFFICES ASSUME NEW u \in Committed' PROVE rotatedAt'[u] < 0 <=> u = s
        BY <2>1, Zenon
      <4>1. CASE u = s
        BY <3>4, <4>1, Zenon
      <4>2. CASE u = t
        <5>1. rotatedAt'[t] = now[q]
          BY <2>1, <2>2, Zenon DEF SessionsTypeOK
        <5>2. QED
          BY <2>3, <2>4, <4>2, <5>1
      <4>3. CASE u # s /\ u # t
        BY <2>2, <2>3, <3>6, <4>3, Zenon DEF Line
      <4>4. QED
        BY <4>1, <4>2, <4>3, Zenon
    <3>8. QED
      BY <3>3, <3>7, Zenon DEF Line
  <2>7. OneCeiling'
    BY <1>0, <2>1, <2>2, <2>3 DEF OneCeiling, SessionsTypeOK
  <2>8. InWindows'
    <3>1. \A u \in Committed : expiresAt'[u] = expiresAt[u]
      BY <1>0, <2>1, <2>3, Zenon DEF SessionsTypeOK
    <3>2. \A u \in Committed \ {t} : rotatedAt'[u] = rotatedAt[u]
      BY <1>0, <2>1, Zenon DEF SessionsTypeOK
    <3>3. rotatedAt'[t] = now[q]
      BY <2>1, <2>2, Zenon DEF SessionsTypeOK
    <3>4. ~(rotatedAt'[s] >= 0)
      <4>1. rotatedAt'[s] < 0 /\ rotatedAt'[s] \in Int
        <5>1. rotatedAt'[s] \in -1 .. Horizon
          BY <2>3, <2>5, Zenon DEF SessionsTypeOK
        <5>2. rotatedAt'[s] < 0
          BY <2>1, <2>3, <2>6, Zenon DEF Line
        <5> QED BY <5>1, <5>2
      <4> QED BY <4>1
    <3> SUFFICES ASSUME NEW u \in Committed', rotatedAt'[u] >= 0
                 PROVE  rotatedAt'[u] < expiresAt'[u] /\ rotatedAt'[u] < ABSOLUTE
      BY Zenon DEF InWindows
    <3>5. u \in Committed
      BY <2>3, <3>4, Zenon
    <3>6. CASE u = t
      BY <2>2, <3>1, <3>3, <3>6, Zenon
    <3>7. CASE u # t
      BY <1>0, <3>1, <3>2, <3>5, <3>7, Zenon DEF InWindows
    <3> QED BY <3>6, <3>7, Zenon
  <2>9. Rotating'
    <3> SUFFICES ASSUME NEW o \in Requests
                 PROVE  /\ tok'[o] \in Committed'
                        /\ pc'[o] \in {"rotate", "write"} => now'[o] < expiresAt'[tok'[o]] /\ now'[o] < ABSOLUTE
                        /\ pc'[o] = "write" => lock'[tok'[o]] = o /\ rotatedAt'[tok'[o]] < 0
      BY Zenon DEF Rotating
    <3>1. tok'[o] = tok[o] /\ tok[o] \in Committed /\ now'[o] = now[o]
      BY <2>1, Zenon DEF Rotating
    <3>2. expiresAt'[tok[o]] = expiresAt[tok[o]]
      BY <1>0, <2>1, <2>3, <3>1, Zenon DEF SessionsTypeOK
    <3>3. CASE o = q
      BY <2>1, <2>3, <3>1, <3>3, Zenon DEF SessionsTypeOK
    <3>4. CASE o # q
      <4>1. pc'[o] = pc[o] /\ (pc[o] = "write" => tok[o] # t)
        BY <2>1, <2>2, <3>4, Zenon DEF SessionsTypeOK, Rotating
      <4>2. QED
        BY <1>0, <2>1, <2>3, <3>1, <3>2, <4>1, Zenon DEF SessionsTypeOK, Rotating
    <3>5. QED
      BY <3>3, <3>4, Zenon
  <2>10. Evicting'
    <3>1. ~overlapped' => ~overlapped /\ ~evicted /\ \A o \in Requests : pc[o] # "revoking"
      BY <1>6, <2>1, Zenon DEF Commit, Evicting
    <3>2. QED
      BY <2>1, <3>1, Zenon DEF Evicting, SessionsTypeOK
  <2>11. Unissued'
    BY <1>0, <2>1, <2>2, <2>3, Zenon DEF Unissued, SessionsTypeOK
  <2>12. QED
    BY <2>5, <2>6, <2>7, <2>8, <2>9, <2>10, <2>11, Zenon
<1>7. ASSUME NEW q \in Requests, RevokeSnapshot(q) PROVE IInv'
  <2>1. /\ seen' = [seen EXCEPT ![q] = Committed] /\ pc' = [pc EXCEPT ![q] = "revoking"]
        /\ UNCHANGED <<clock, rows, lock, tok, now, history>> /\ Committed' = Committed
    BY <1>7, Zenon DEF RevokeSnapshot, Goto, rows, Committed
  <2>2. SessionsTypeOK'
    BY <2>1, Zenon DEF SessionsTypeOK, rows, history
  <2>3. Line' /\ OneCeiling' /\ InWindows' /\ Unissued'
    BY <2>1, Zenon DEF Line, OneCeiling, InWindows, Unissued, rows
  <2>4. Rotating' /\ Evicting'
    BY <2>1, Zenon DEF Rotating, Evicting, rows, history, SessionsTypeOK
  <2>5. QED
    BY <2>2, <2>3, <2>4, Zenon
<1>8. ASSUME NEW q \in Requests, RevokeFamily(q) PROVE IInv'
  <2>1. /\ pc[q] = "revoking" /\ pc' = [pc EXCEPT ![q] = "idle"] /\ seen' = [seen EXCEPT ![q] = {}]
        /\ revoked' = revoked \cup seen[q] /\ evicted' = TRUE
        /\ overlapped' = (overlapped \/ \E o \in Requests : pc[o] \in {"rotate", "write"})
        /\ UNCHANGED <<clock, subject, issued, parent, expiresAt, familyExpiresAt, rotatedAt, lock, tok, now>>
        /\ Committed' = Committed
    BY <1>8, Zenon DEF RevokeFamily, Goto, Committed
  <2>2. SessionsTypeOK'
    BY <2>1, Zenon DEF SessionsTypeOK
  <2>3. Line' /\ OneCeiling' /\ InWindows' /\ Unissued'
    BY <2>1, Zenon DEF Line, OneCeiling, InWindows, Unissued
  <2>4. Rotating' /\ Evicting'
    BY <2>1, Zenon DEF Rotating, Evicting, SessionsTypeOK
  <2>5. QED
    BY <2>2, <2>3, <2>4, Zenon
<1>9. ASSUME NEW q \in Requests, Rollback(q) PROVE IInv'
  <2>1. lock' \in [Tokens -> Requests \cup {NoRequest}] /\ seen' \in [Requests -> SUBSET Committed]
    BY <1>9, Zenon DEF Rollback, SessionsTypeOK
  <2>2. QED
    BY <1>9, <2>1, AwayFromTheRows, Zenon DEF Rollback, SessionsTypeOK, Rotating
<1>10. CASE UNCHANGED vars
  BY <1>10, Zenon DEF vars, rows, request, history, SessionsTypeOK, Line, OneCeiling, InWindows, Rotating, Evicting, Unissued,
               Committed
<1>11. QED
  BY <1>1, <1>2, <1>3, <1>4, <1>5, <1>6, <1>7, <1>8, <1>9, <1>10, Zenon
     DEF Next, Refresh, PortalRefresh, SignOut, PortalSignOut, Kinds

(* However many requests race, a token has one successor, written inside   *)
(* the token's windows, and one token of the family is unspent (rotate).   *)
THEOREM TokensHaveOneSuccessor == Spec => []OneSuccessor
<1>1. IInv => OneSuccessor
  <2> SUFFICES ASSUME IInv PROVE OneSuccessor
    BY Zenon
  <2>1. issued \in Nat /\ issued >= 1 /\ issued \in Committed
    BY SessionsAssumption DEF IInv, SessionsAssumption, SessionsTypeOK, Tokens, Committed
  <2>2. \A a, b \in Committed : parent[a] = parent[b] => a = b
    BY <2>1 DEF IInv, Line, Committed
  <2>3. {t \in Committed : rotatedAt[t] < 0} = {issued}
    BY <2>1, Zenon DEF IInv, Line
  <2>4. Cardinality({issued}) = 1
    BY FS_Singleton, Zenon
  <2>5. QED
    BY <2>2, <2>3, <2>4, Zenon DEF OneSuccessor, IInv, InWindows
<1>2. QED
  BY InitIInv, StepIInv, <1>1, PTL DEF Spec

(* Once a sign-out or a replay has evicted the family and no rotation      *)
(* overlapped it, no token of the family is usable, now or later           *)
(* (revokeFamily, classifyPresentedToken).                                 *)
THEOREM EvictionsAreComplete == Spec => []EvictionIsComplete
<1>1. IInv => EvictionIsComplete
  BY Zenon DEF IInv, Evicting, EvictionIsComplete
<1>2. QED
  BY InitIInv, StepIInv, <1>1, PTL DEF Spec
==============================================================================
