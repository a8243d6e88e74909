-------------------------------- MODULE MCEdge --------------------------------
(***************************************************************************)
(* Edge for TLC.  The limiter, the cache and the reads share no state, so  *)
(* their steps commute and no property relates two of them: MCNext takes   *)
(* the steps of Next of one of them.                                       *)
(***************************************************************************)
EXTENDS Edge, TLC

(* One request in a window, for every counter. *)
MCLimit == [k \in Keys |-> 1]

(* Both directions with ties and without, a filter on the cursor's own     *)
(* column, one on what an edit changes, and three that are refused.        *)
MCQueries ==
  LET by(field, dir) == [field |-> field, direction |-> dir]
      ask(sorts, filters, limits) == [sort : sorts, filters : {filters}, limit : limits]
  IN  UNION {ask({by("createdAt", "desc"), by("createdAt", "asc")}, NoFilters, {1, 2}),
             ask({by("createdAt", "desc")}, "createdAfter" :> 1, {1}),
             ask({by("createdAt", "desc"), by("updatedAt", "desc")}, "state" :> {"open"}, {1}),
             ask({by("priority", "asc")}, NoFilters, {1}),
             ask({DEFAULT_SORT}, "state" :> {"opne"}, {1}),
             ask({DEFAULT_SORT}, "status" :> {"open"}, {1})}

MCWindows == [from : {0, 1}, to : {1, 2}, axis : {"day", "assignee"}]

Alike == Permutations(Callers) \cup Permutations(Readers) \cup Permutations(Entries)

(* One store at a time. *)
MCNext ==
  \/ CacheInit /\ ReadsInit /\ Limiter /\ UNCHANGED <<cache, reads>>
  \/ RateLimitInit /\ ReadsInit /\ Cached /\ UNCHANGED <<limiter, reads>>
  \/ RateLimitInit /\ CacheInit /\ ReadsNext /\ UNCHANGED <<limiter, cache>>

MCSpec == Init /\ [][MCNext]_vars

(* A traversal or a report, and the fewer edits the more rows. *)
OneRead ==
  /\ walk.pc = "idle" \/ report.pc = "idle"
  /\ report.pc # "idle" => Cardinality(Present) <= 2
  /\ walk.pc # "idle" \/ Cardinality(Present) = 3 =>
       edits <= 1 /\ \A i \in Present : rows[i].assignee = 0 /\ ~rows[i].touched
==============================================================================
