------------------------------- MODULE EventLog -------------------------------
(***************************************************************************)
(* Per-room sequencing and the bounded replay history behind the realtime  *)
(* gateway (src/src/realtime/event-log.ts): a Map of rooms used as an LRU, *)
(* a counter and a buffer per room, and one integer that stands in for     *)
(* every counter thrown away.  Each call runs to its end without an await, *)
(* so each is one step.                                                    *)
(*                                                                         *)
(* push takes head + 1 and shift drops the front, so the seqs a buffer     *)
(* holds are consecutive: it is the interval low + 1 .. head.              *)
(***************************************************************************)
EXTENDS Integers, Sequences, FiniteSets

CONSTANTS
  Rooms,         \* room names
  RETAIN,        \* RETAIN_PER_ROOM
  MAX_ROOMS,
  MaxSeq         \* bound: no room is numbered past this

ASSUME EventLogAssumption ==
  /\ IsFiniteSet(Rooms)
  /\ RETAIN \in Nat \ {0}
  /\ MAX_ROOMS \in Nat \ {0}
  /\ MaxSeq \in Nat

VARIABLES
  rooms,              \* the keys of the Map
  rank,               \* the Map's insertion order; higher is later
  head,               \* RoomLog.head
  low,                \* one below the seq at the front of RoomLog.buffer
  evictedHighWater,
  hist                \* history: every seq a room ever issued, in order

log == <<rooms, rank, head, low, evictedHighWater, hist>>

Larger(m, n) == IF m > n THEN m ELSE n

(* The first key of the Map. *)
Oldest(o) == o \in rooms /\ \A q \in rooms : rank[o] <= rank[q]

(* rank after r has been deleted and set again. *)
MovedToBack(r) ==
  [q \in Rooms |-> IF q = r THEN Cardinality(Rooms)
                   ELSE IF rank[q] > rank[r] THEN rank[q] - 1 ELSE rank[q]]

(* What survives of the evicted room o. *)
Kept(o) == Larger(evictedHighWater, head[o])

(* size >= MAX_ROOMS. *)
Full == Cardinality(rooms) >= MAX_ROOMS

(* touch: the rooms and the high-water mark it leaves behind. *)
touch(r) ==
  \/ /\ r \in rooms
     /\ UNCHANGED <<rooms, evictedHighWater>>
  \/ /\ r \notin rooms /\ ~Full
     /\ rooms' = rooms \cup {r}
     /\ UNCHANGED evictedHighWater
  \/ /\ r \notin rooms /\ Full
     /\ \E o \in Rooms :
          /\ Oldest(o)
          /\ rooms' = (rooms \ {o}) \cup {r}
          /\ evictedHighWater' = Kept(o)

(* append: number the envelope, retain it, drop the front past RETAIN. *)
append(r) ==
  LET from == IF r \in rooms THEN head[r] ELSE evictedHighWater'
      back == IF r \in rooms THEN low[r] ELSE evictedHighWater'
  IN
  /\ touch(r)
  /\ from < MaxSeq
  /\ rank' = MovedToBack(r)
  /\ head' = [head EXCEPT ![r] = from + 1]
  /\ low'  = [low EXCEPT ![r] = IF from + 1 - back > RETAIN THEN back + 1 ELSE back]
  /\ hist' = [hist EXCEPT ![r] = Append(@, from + 1)]

(* Fault: the cursor's own envelope has to be in the buffer still, or any  *)
(* later one will do.                                                      *)
Gap_OffByOne(r, k) == k > 0 /\ (r \notin rooms \/ low[r] = head[r] \/ low[r] > k + 1)

(* Fault: the filter is one too far. *)
replay_Skips(r, k) == IF r \in rooms THEN {s \in low[r] + 1 .. head[r] : s > k + 1} ELSE {}

(* replay: what it reports as missing, and what it returns. *)
gap(r, k) == k > 0 /\ (r \notin rooms \/ low[r] = head[r] \/ low[r] + 1 > k + 1)

replay(r, k) == IF r \in rooms THEN {s \in low[r] + 1 .. head[r] : s > k} ELSE {}

LogInit ==
  /\ rooms = {}
  /\ rank = [r \in Rooms |-> 0]
  /\ head = [r \in Rooms |-> 0]
  /\ low  = [r \in Rooms |-> 0]
  /\ evictedHighWater = 0
  /\ hist = [r \in Rooms |-> <<>>]

Publish == \E r \in Rooms : append(r)

LogSpec == LogInit /\ [][Publish]_log

------------------------------------------------------------------------------
(* The log holds a known room's numbers and nothing else. *)
LogTypeOK ==
  /\ rooms \subseteq Rooms
  /\ rank \in [Rooms -> Int]
  /\ head \in [Rooms -> Nat]
  /\ low  \in [Rooms -> Nat]
  /\ evictedHighWater \in Nat
  /\ hist \in [Rooms -> Seq(Nat)]

Issued(r) == {hist[r][i] : i \in DOMAIN hist[r]}

(* seq is monotonic per room for the life of the process: a room that was  *)
(* evicted and written to again never reuses or goes below one of its own  *)
(* numbers (the purpose of evictedHighWater).                              *)
SeqIsMonotonic ==
  \A r \in Rooms : \A i, j \in DOMAIN hist[r] : i < j => hist[r][i] < hist[r][j]

(* A replay that does not report a gap is complete: every envelope the     *)
(* room issued after the cursor is in it, whatever was shifted out of the  *)
(* buffer or evicted with the room.                                        *)
ReplayIsHonest ==
  \A r \in Rooms : \A k \in Issued(r) :
    ~gap(r, k) => \A s \in Issued(r) : s > k => s \in replay(r, k)
==============================================================================
