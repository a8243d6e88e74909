-------------------------------- MODULE Keyset --------------------------------
(***************************************************************************)
(* Keyset pagination (src/src/common/pagination/): the sort a request asks *)
(* for, the cursor it brings, the rows past that position, and the page    *)
(* with the cursor to the next.                                            *)
(*                                                                         *)
(* A row is a record with a number for each sortable field and its id.  A  *)
(* cursor is opaque to clients, who only bring back what a page gave them; *)
(* <<>> stands for none.                                                   *)
(***************************************************************************)
EXTENDS Integers, Sequences, FiniteSetsExt

DEFAULT_SORT == [field |-> "createdAt", direction |-> "desc"]

Before(direction, a, b) == IF direction = "desc" THEN a > b ELSE a < b

(* orderByFor: the field, and the id to break ties. *)
orderBy(sort, r, s) ==
  \/ Before(sort.direction, r[sort.field], s[sort.field])
  \/ r[sort.field] = s[sort.field] /\ Before(sort.direction, r.id, s.id)

(* Fault: the id does not break ties. *)
seekPast_NoTie(sort, cursor, r) == Before(sort.direction, cursor.value, r[sort.field])

(* seekPast: strictly after the anchor in that order. *)
seekPast(sort, cursor, r) ==
  \/ Before(sort.direction, cursor.value, r[sort.field])
  \/ r[sort.field] = cursor.value /\ Before(sort.direction, cursor.id, r.id)

(* parseSort and keysetPlan, the refusals: a field the resource does not   *)
(* sort by, and a cursor issued for another sort.                          *)
planRefusal(fields, sort, cursor) ==
  IF sort.field \notin fields THEN "invalid_sort"
  ELSE IF cursor # <<>> /\ cursor.sort # sort THEN "invalid_cursor"
  ELSE "ok"

(* keysetPlan and findMany: the first limit + 1 of the matching rows.  *)
fetched(sort, cursor, limit, matching) ==
  LET past == {r \in matching : cursor = <<>> \/ seekPast(sort, cursor, r)}
      rank(r) == Cardinality({s \in past : orderBy(sort, s, r)})
      take == Min({limit + 1, Cardinality(past)})
  IN  [k \in 1 .. take |-> CHOOSE r \in past : rank(r) = k - 1]

(* The position of a row, as encodeCursor keeps it. *)
cursorAt(sort, r) == [sort |-> sort, value |-> r[sort.field], id |-> r.id]

(* buildPage: the extra row only proves that there is another page. *)
buildPage(rows, limit, sort) ==
  IF Len(rows) > limit
  THEN [data |-> SubSeq(rows, 1, limit), nextCursor |-> cursorAt(sort, rows[limit])]
  ELSE [data |-> rows, nextCursor |-> <<>>]
==============================================================================
