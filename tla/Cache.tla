--------------------------------- MODULE Cache ---------------------------------
(***************************************************************************)
(* The read-through cache of src/src/cache/cache.service.ts over one       *)
(* tenant: entries of one namespace, each a copy of a row, loaded on a     *)
(* miss with a TTL and busted by the writer after its commit, one key at a *)
(* time or the namespace by SCAN.  Redis may fail any command: a failed    *)
(* read is a miss, a failed write or bust does nothing.                    *)
(*                                                                         *)
(* No module of src/ uses the cache yet; readers and writers are the ones  *)
(* its interface allows.                                                   *)
(***************************************************************************)
EXTENDS Integers, FiniteSets

CONSTANTS
  Entries,     \* the ids of the namespace
  Readers,
  Absent,      \* no value
  Ttl,         \* ttlSeconds, in clock units
  MaxWrites,   \* bound: commits per row
  LastTick     \* bound: the cache's clock stops here

ASSUME CacheAssumption == Ttl \in Nat \ {0} /\ MaxWrites \in Nat /\ LastTick \in Nat

VARIABLES
  time,
  row,       \* the row behind each entry: how often it was written
  cached,    \* Redis: the value and when it expires, or Absent
  reader,    \* a getOrLoad: pc, its entry, and what the loader answered
  toBust,    \* the entries a bust has still to unlink
  raced,     \* history: the entries a load was under way for when their row was written
  unbusted   \* history: the entries written since their last successful bust

cache == <<time, row, cached, reader, toBust, raced, unbusted>>

AtRest == [pc |-> "idle", entry |-> Absent, value |-> Absent]

CacheInit ==
  /\ time = 0
  /\ row = [e \in Entries |-> 0]
  /\ cached = [e \in Entries |-> Absent]
  /\ reader = [r \in Readers |-> AtRest]
  /\ toBust = {} /\ raced = {} /\ unbusted = {}

(* Time passes, and Redis drops what has expired. *)
Expire ==
  /\ time < LastTick
  /\ time' = time + 1
  /\ cached' = [e \in Entries |-> IF cached[e] # Absent /\ cached[e].expires <= time + 1 THEN Absent ELSE cached[e]]
  /\ UNCHANGED <<row, reader, toBust, raced, unbusted>>

(* getOrLoad, a miss for whichever reason (a hit ends there): the loader   *)
(* reads the row.                                                          *)
Load(r, e, missed) ==
  /\ reader[r].pc = "idle"
  /\ cached[e] = Absent \/ missed
  /\ reader' = [reader EXCEPT ![r] = [pc |-> "write", entry |-> e, value |-> row[e]]]
  /\ UNCHANGED <<time, row, cached, toBust, raced, unbusted>>

(* getOrLoad, write: what was loaded, whatever the row says by now. *)
WriteBack(r, ok) ==
  LET e == reader[r].entry IN
  /\ reader[r].pc = "write"
  /\ cached' = IF ok THEN [cached EXCEPT ![e] = [value |-> reader[r].value, expires |-> time + Ttl]] ELSE cached
  /\ reader' = [reader EXCEPT ![r] = AtRest]
  /\ UNCHANGED <<time, row, toBust, raced, unbusted>>

(* The row is written and committed. *)
Write(e) ==
  /\ row[e] < MaxWrites /\ toBust = {}
  /\ row' = [row EXCEPT ![e] = @ + 1]
  /\ unbusted' = unbusted \cup {e}
  /\ raced' = IF \E r \in Readers : reader[r].entry = e THEN raced \cup {e} ELSE raced
  /\ UNCHANGED <<time, cached, reader, toBust>>

(* del of one entry, or delByPrefix of the namespace. *)
Bust(S) ==
  /\ unbusted # {} /\ toBust = {}
  /\ toBust' = S
  /\ UNCHANGED <<time, row, cached, reader, raced, unbusted>>

(* Fault: the page of SCAN that was read is dropped, not unlinked. *)
Unlinked_None(e) == cached

(* UNLINK. *)
Unlinked(e) == [cached EXCEPT ![e] = Absent]

(* UNLINK of the next entry. *)
Unlink(e) ==
  /\ e \in toBust
  /\ cached' = Unlinked(e)
  /\ toBust' = toBust \ {e}
  /\ unbusted' = unbusted \ {e}
  /\ UNCHANGED <<time, row, reader, raced>>

(* A command of the bust fails, and the rest of it does not happen. *)
BustFails ==
  /\ toBust # {}
  /\ toBust' = {}
  /\ UNCHANGED <<time, row, cached, reader, raced, unbusted>>

Cached ==
  \/ Expire
  \/ \E r \in Readers, ok \in BOOLEAN : (\E e \in Entries : Load(r, e, ok)) \/ WriteBack(r, ok)
  \/ \E e \in Entries : Write(e) \/ Bust({e}) \/ Unlink(e)
  \/ Bust(Entries) \/ BustFails

------------------------------------------------------------------------------
(* Once a row's bust is done the cache no longer answers an older value.   *)
(* The exception is a load that was under way when the row was written: it *)
(* writes the old value back after the bust; and that lasts for a TTL, as  *)
(* does a bust that failed (getOrLoad, del, delByPrefix).                  *)
BustIsFinal ==
  \A e \in Entries : cached[e] # Absent /\ cached[e].value # row[e] =>
    e \in raced \cup unbusted /\ cached[e].expires \in time + 1 .. time + Ttl
==============================================================================
