------------------------------ MODULE EdgeProofs ------------------------------
(***************************************************************************)
(* What surrounds the services: the traversals and the reports, for any    *)
(* number of rows, any windows and any page sizes, and the four promises   *)
(* of the edge, with the limiter and the cache of RedisProofs.             *)
(*                                                                         *)
(* What a page promises is an order, and what a report promises are sums.  *)
(***************************************************************************)
EXTENDS Edge, RedisProofs

------------------------------------------------------------------------------
(* Keyset pagination. *)
(* Rows a list can sort: a number for the field, and the id tells them apart. *)
Sortable(past, field) ==
  /\ IsFiniteSet(past)
  /\ \A r \in past : r[field] \in Int /\ r.id \in Int
  /\ \A r, s \in past : r.id = s.id => r = s

(* The order of a sort is strict and total, whichever its direction. *)
LEMMA OrderIsTotal ==
  ASSUME NEW past, NEW sort, Sortable(past, sort.field), NEW r \in past, NEW s \in past
  PROVE  /\ ~orderBy(sort, r, r)
         /\ r # s => orderBy(sort, r, s) \/ orderBy(sort, s, r)
         /\ \A t \in past : orderBy(sort, r, s) /\ orderBy(sort, s, t) => orderBy(sort, r, t)
<1>1. /\ \A x \in past : x[sort.field] \in Int /\ x.id \in Int
      /\ r.id = s.id => r = s
  BY Zenon DEF Sortable
<1>2. ~orderBy(sort, r, r)
  BY <1>1 DEF orderBy, Before
<1>3. r # s => orderBy(sort, r, s) \/ orderBy(sort, s, r)
  BY <1>1 DEF orderBy, Before
<1>4. ASSUME NEW t \in past, orderBy(sort, r, s), orderBy(sort, s, t) PROVE orderBy(sort, r, t)
  BY <1>1, <1>4 DEF orderBy, Before
<1> QED BY <1>2, <1>3, <1>4, Zenon

Below(sort, past, r) == {s \in past : orderBy(sort, s, r)}
Rank(sort, past, r)  == Cardinality(Below(sort, past, r))

LEMMA RankIsNat ==
  ASSUME NEW past, NEW sort, Sortable(past, sort.field), NEW r
  PROVE  /\ IsFiniteSet(Below(sort, past, r)) /\ Rank(sort, past, r) \in Nat
         /\ Cardinality(past) \in Nat
<1>1. IsFiniteSet(past) /\ Below(sort, past, r) \in SUBSET past
  BY Zenon DEF Sortable, Below
<1> QED BY <1>1, FS_Subset, FS_CardinalityType, Zenon DEF Rank

(* The rank of a row is the number of those before it. *)
LEMMA RankIsOrder ==
  ASSUME NEW past, NEW sort, Sortable(past, sort.field), NEW r \in past, NEW s \in past
  PROVE  /\ Rank(sort, past, r) < Cardinality(past)
         /\ orderBy(sort, r, s) <=> Rank(sort, past, r) < Rank(sort, past, s)
         /\ Rank(sort, past, r) = Rank(sort, past, s) => r = s
<1>1. ASSUME NEW x \in past, NEW y \in past, orderBy(sort, x, y) PROVE Rank(sort, past, x) < Rank(sort, past, y)
  <2>1. Below(sort, past, x) \cup {x} \subseteq Below(sort, past, y)
    BY <1>1, OrderIsTotal, Zenon DEF Below
  <2>2. x \notin Below(sort, past, x)
    BY OrderIsTotal, Zenon DEF Below
  <2>3. /\ IsFiniteSet(Below(sort, past, x)) /\ IsFiniteSet(Below(sort, past, y))
        /\ Cardinality(Below(sort, past, x)) \in Nat /\ Cardinality(Below(sort, past, y)) \in Nat
    BY RankIsNat, Zenon DEF Rank
  <2>4. Cardinality(Below(sort, past, x) \cup {x}) = Cardinality(Below(sort, past, x)) + 1
    BY <2>2, <2>3, FS_AddElement, Zenon
  <2>5. Cardinality(Below(sort, past, x) \cup {x}) <= Cardinality(Below(sort, past, y))
    BY <2>1, <2>3, FS_Subset, Zenon
  <2> QED BY <2>3, <2>4, <2>5 DEF Rank
<1>2. Rank(sort, past, r) \in Nat /\ Rank(sort, past, s) \in Nat /\ Cardinality(past) \in Nat
  BY RankIsNat, Zenon
<1>3. orderBy(sort, r, s) <=> Rank(sort, past, r) < Rank(sort, past, s)
  <2>1. r # s => orderBy(sort, r, s) \/ orderBy(sort, s, r)
    BY OrderIsTotal, Zenon
  <2>2. CASE orderBy(sort, r, s)
    BY <1>1, <2>2, Zenon
  <2>3. CASE ~orderBy(sort, r, s) /\ r # s
    BY <1>1, <1>2, <2>1, <2>3
  <2>4. CASE ~orderBy(sort, r, s) /\ r = s
    BY <1>2, <2>4
  <2> QED BY <2>2, <2>3, <2>4, Zenon
<1>4. Rank(sort, past, r) = Rank(sort, past, s) => r = s
  BY <1>1, <1>2, OrderIsTotal
<1>5. Rank(sort, past, r) < Cardinality(past)
  <2>1. Below(sort, past, r) \subseteq past \ {r}
    BY OrderIsTotal DEF Below
  <2>2. IsFiniteSet(past)
    BY Zenon DEF Sortable
  <2>3. IsFiniteSet(past \ {r}) /\ Cardinality(past \ {r}) = Cardinality(past) - 1
    BY <2>2, FS_RemoveElement, Zenon
  <2>4. Cardinality(Below(sort, past, r)) <= Cardinality(past \ {r})
    BY <2>1, <2>3, FS_Subset, Zenon
  <2> QED BY <1>2, <2>3, <2>4 DEF Rank
<1> QED BY <1>3, <1>4, <1>5, Zenon

(* ... and every rank below the size of the set is taken. *)
LEMMA RanksAreTaken ==
  ASSUME NEW past, NEW sort, Sortable(past, sort.field), NEW k \in Nat, k < Cardinality(past)
  PROVE  \E r \in past : Rank(sort, past, r) = k
<1>1. PICK n : n = Cardinality(past)
  BY Zenon
<1>2. n \in Nat /\ IsFiniteSet(past)
  BY <1>1, RankIsNat, Zenon DEF Sortable
<1>3. IsFiniteSet(0 .. n - 1) /\ Cardinality(0 .. n - 1) = n
  <2>1. 0 \in Int /\ n - 1 \in Int
    BY <1>2
  <2>2. IsFiniteSet(0 .. n - 1) /\ Cardinality(0 .. n - 1) = IF 0 > n - 1 THEN 0 ELSE n - 1 - 0 + 1
    BY <2>1, FS_Interval, Zenon
  <2> QED BY <1>2, <2>2
<1> DEFINE f == [r \in past |-> Rank(sort, past, r)]
<1>4. f \in Injection(past, 0 .. n - 1)
  <2>1. \A r \in past : Rank(sort, past, r) \in 0 .. n - 1
    BY <1>1, <1>2, RankIsNat, RankIsOrder
  <2>2. \A r, s \in past : Rank(sort, past, r) = Rank(sort, past, s) => r = s
    BY RankIsOrder, Zenon
  <2> QED BY <2>1, <2>2, Zenon DEF Injection, IsInjective
<1>5. f \in Surjection(past, 0 .. n - 1)
  <2> HIDE DEF f
  <2> QED BY <1>1, <1>3, <1>4, FS_Injection, Zenon
<1>6. k \in 0 .. n - 1
  BY <1>1, <1>2
<1> QED BY <1>5, <1>6, Zenon DEF Surjection

------------------------------------------------------------------------------
Past(sort, cursor, matching) == {r \in matching : cursor = <<>> \/ seekPast(sort, cursor, r)}

(* findMany returns the first rows past the cursor, in order. *)
LEMMA FetchedInOrder ==
  ASSUME NEW sort, NEW cursor, NEW matching, NEW limit \in Nat, NEW past, past = Past(sort, cursor, matching),
         Sortable(past, sort.field)
  PROVE  \E take \in Nat :
           /\ take = IF Cardinality(past) <= limit THEN Cardinality(past) ELSE limit + 1
           /\ fetched(sort, cursor, limit, matching) \in [1 .. take -> past]
           /\ \A k \in 1 .. take : Rank(sort, past, fetched(sort, cursor, limit, matching)[k]) = k - 1
<1>1. PICK n \in Nat : n = Cardinality(past)
  BY RankIsNat, Zenon
<1>2. PICK take \in Nat : take = IF n <= limit THEN n ELSE limit + 1
  OBVIOUS
<1>3. Min({limit + 1, n}) = take
  <2>1. take \in {limit + 1, n} /\ \A y \in {limit + 1, n} : take =< y
    BY <1>1, <1>2
  <2>2. \A x \in {limit + 1, n} : (\A y \in {limit + 1, n} : x =< y) => x = take
    BY <1>1, <1>2
  <2> QED BY <2>1, <2>2, Zenon DEF Min
<1>4. PICK F : F = fetched(sort, cursor, limit, matching)
  BY Zenon
<1>5. F = [k \in 1 .. take |-> CHOOSE r \in past : Rank(sort, past, r) = k - 1]
  <2>1. fetched(sort, cursor, limit, matching) =
          [k \in 1 .. Min({limit + 1, Cardinality(Past(sort, cursor, matching))}) |->
             CHOOSE r \in Past(sort, cursor, matching) : Rank(sort, Past(sort, cursor, matching), r) = k - 1]
    BY Zenon DEF fetched, Past, Rank, Below
  <2> QED BY <1>1, <1>3, <1>4, <2>1, Zenon
<1>6. \A k \in 1 .. take : F[k] \in past /\ Rank(sort, past, F[k]) = k - 1
  <2> TAKE k \in 1 .. take
  <2>1. k - 1 \in Nat /\ k - 1 < n
    BY <1>1, <1>2
  <2>2. \E r \in past : Rank(sort, past, r) = k - 1
    BY <1>1, <2>1, RanksAreTaken
  <2>3. F[k] = CHOOSE r \in past : Rank(sort, past, r) = k - 1
    BY <1>5, Zenon
  <2> QED BY <2>2, <2>3, Zenon
<1>7. F \in [1 .. take -> past]
  BY <1>5, <1>6, Zenon
<1> QED BY <1>1, <1>2, <1>4, <1>6, <1>7, Zenon

CursorOK(sort, cursor) == cursor = <<>> \/ (cursor.sort = sort /\ cursor.value \in Int /\ cursor.id \in Int)

(* How often a page shows the row i. *)
Shows(page, i) == Cardinality({k \in DOMAIN page.data : page.data[k].id = i})

(* A page shows each row at most once: the first of those past its cursor. *)
(* The last page shows all of them; any other has a cursor past which are  *)
(* exactly those it has not shown.                                         *)
FirstPart(page, sort, past) ==
  /\ \A i : Shows(page, i) \in {0, 1}
  /\ \A i : Shows(page, i) = 1 => \E r \in past : r.id = i
  /\ page.nextCursor = <<>> => \A r \in past : Shows(page, r.id) = 1
  /\ page.nextCursor # <<>> =>
       /\ page.nextCursor.sort = sort
       /\ \E last \in past : page.nextCursor = cursorAt(sort, last)
       /\ \A r \in past : Shows(page, r.id) = 1 <=> ~seekPast(sort, page.nextCursor, r)

LEMMA PageIsTheFirstPart ==
  ASSUME NEW sort, NEW cursor, NEW matching, NEW limit \in Nat \ {0}, NEW past, past = Past(sort, cursor, matching),
         Sortable(past, sort.field),
         NEW page, page = buildPage(fetched(sort, cursor, limit, matching), limit, sort)
  PROVE  FirstPart(page, sort, past)
<1>1. PICK F : F = fetched(sort, cursor, limit, matching)
  BY Zenon
<1>2. PICK n \in Nat : n = Cardinality(past)
  BY RankIsNat, Zenon
<1>3. PICK take \in Nat :
        /\ take = IF n <= limit THEN n ELSE limit + 1
        /\ F \in [1 .. take -> past]
        /\ \A k \in 1 .. take : Rank(sort, past, F[k]) = k - 1
  BY <1>1, <1>2, FetchedInOrder
<1>4. Len(F) = take
  BY <1>3
<1>5. /\ \A r \in past : r[sort.field] \in Int /\ r.id \in Int
      /\ \A r, s \in past : r.id = s.id => r = s
  BY Zenon DEF Sortable
<1>6. PICK len \in Nat :
        /\ len = IF n <= limit THEN n ELSE limit
        /\ page.data \in [1 .. len -> past]
        /\ \A k \in 1 .. len : page.data[k] = F[k]
        /\ n <= limit => page.nextCursor = <<>>
        /\ ~(n <= limit) => page.nextCursor = cursorAt(sort, F[limit])
  <2>1. CASE n <= limit
    <3>1. page = [data |-> F, nextCursor |-> <<>>]
      BY <1>1, <1>3, <1>4, <2>1 DEF buildPage
    <3> QED BY <1>3, <2>1, <3>1
  <2>2. CASE ~(n <= limit)
    <3>1. page = [data |-> SubSeq(F, 1, limit), nextCursor |-> cursorAt(sort, F[limit])]
      BY <1>1, <1>3, <1>4, <2>2 DEF buildPage
    <3>2. SubSeq(F, 1, limit) \in [1 .. limit -> past] /\ \A k \in 1 .. limit : SubSeq(F, 1, limit)[k] = F[k]
      <4>1. F \in Seq(past) /\ Len(F) = limit + 1
        BY <1>3, <1>4, <2>2
      <4>2. SubSeq(F, 1, limit) \in Seq(past)
        BY <4>1
      <4>3. Len(SubSeq(F, 1, limit)) = limit
        BY <4>1
      <4>4. \A k \in 1 .. limit : SubSeq(F, 1, limit)[k] = F[k]
        BY <4>1
      <4>5. \A G \in Seq(past) : G \in [1 .. Len(G) -> past]
        OBVIOUS
      <4> QED BY <4>2, <4>3, <4>4, <4>5, Zenon
    <3> QED BY <2>2, <3>1, <3>2
  <2> QED BY <2>1, <2>2, Zenon
<1>7. len <= take /\ \A k \in 1 .. len : k \in 1 .. take
  BY <1>3, <1>6
<1>8. ASSUME NEW r \in past
      PROVE  Shows(page, r.id) = IF Rank(sort, past, r) < len THEN 1 ELSE 0
  <2>1. Rank(sort, past, r) \in Nat
    BY RankIsNat, Zenon
  <2>2. ASSUME NEW k \in 1 .. len PROVE page.data[k].id = r.id <=> k = Rank(sort, past, r) + 1
    <3>1. page.data[k] = F[k] /\ F[k] \in past /\ Rank(sort, past, F[k]) = k - 1
      BY <1>3, <1>6, <1>7, Zenon
    <3>2. F[k].id = r.id <=> F[k] = r
      BY <1>5, <3>1, Zenon
    <3>3. Rank(sort, past, F[k]) = Rank(sort, past, r) => F[k] = r
      BY <3>1, RankIsOrder, Zenon
    <3> QED BY <2>1, <3>1, <3>2, <3>3
  <2>3. DOMAIN page.data = 1 .. len
    BY <1>6, Zenon
  <2>4. CASE Rank(sort, past, r) < len
    <3>1. Rank(sort, past, r) + 1 \in 1 .. len
      BY <2>1, <2>4
    <3>2. {k \in DOMAIN page.data : page.data[k].id = r.id} = {Rank(sort, past, r) + 1}
      BY <2>2, <2>3, <3>1, Zenon
    <3> QED BY <2>4, <3>2, FS_Singleton, Zenon DEF Shows
  <2>5. CASE ~(Rank(sort, past, r) < len)
    <3>1. \A k \in 1 .. len : k # Rank(sort, past, r) + 1
      BY <2>1, <2>5
    <3>2. {k \in DOMAIN page.data : page.data[k].id = r.id} = {}
      BY <2>2, <2>3, <3>1, Zenon
    <3> QED BY <2>5, <3>2, FS_EmptySet, Zenon DEF Shows
  <2> QED BY <2>4, <2>5, Zenon
<1>9. ASSUME NEW i, \A r \in past : r.id # i PROVE Shows(page, i) = 0
  <2>1. {k \in DOMAIN page.data : page.data[k].id = i} = {}
    BY <1>6, <1>9, Zenon
  <2> QED BY <2>1, FS_EmptySet, Zenon DEF Shows
<1>10. \A i : Shows(page, i) \in {0, 1}
  BY <1>8, <1>9, Zenon
<1>11. \A i : Shows(page, i) = 1 => \E r \in past : r.id = i
  BY <1>9
<1>12. CASE n <= limit
  <2>1. \A r \in past : Shows(page, r.id) = 1
    BY <1>2, <1>6, <1>8, <1>12, RankIsOrder, Zenon
  <2> QED BY <1>6, <1>10, <1>11, <1>12, <2>1, Zenon DEF FirstPart
<1>13. CASE ~(n <= limit)
  <2>1. PICK last : last = F[limit]
    BY Zenon
  <2>2. limit \in 1 .. take /\ len = limit
    BY <1>3, <1>6, <1>13
  <2>3. last \in past /\ Rank(sort, past, last) = limit - 1
    BY <1>3, <2>1, <2>2, Zenon
  <2>4. page.nextCursor = cursorAt(sort, last)
    BY <1>6, <1>13, <2>1, Zenon
  <2>5. page.nextCursor # <<>> /\ page.nextCursor.sort = sort
    BY <2>4 DEF cursorAt
  <2>6. ASSUME NEW r \in past PROVE Shows(page, r.id) = 1 <=> ~seekPast(sort, page.nextCursor, r)
    <3>1. seekPast(sort, page.nextCursor, r) <=> orderBy(sort, last, r)
      BY <2>4 DEF cursorAt, seekPast, orderBy
    <3>2. orderBy(sort, last, r) <=> limit - 1 < Rank(sort, past, r)
      <4>1. orderBy(sort, last, r) <=> Rank(sort, past, last) < Rank(sort, past, r)
        BY <2>3, RankIsOrder, Zenon
      <4> QED BY <2>3, <4>1, Zenon
    <3>3. Rank(sort, past, r) \in Nat
      BY RankIsNat, Zenon
    <3> QED BY <1>8, <2>2, <3>1, <3>2, <3>3
  <2> QED BY <1>10, <1>11, <2>3, <2>4, <2>5, <2>6, Zenon DEF FirstPart
<1> QED BY <1>12, <1>13, Zenon

(* Positions follow each other: what is not past a cursor is not past one  *)
(* further on.                                                             *)
LEMMA CursorsAdvance ==
  ASSUME NEW sort, NEW cursor, CursorOK(sort, cursor), cursor # <<>>,
         NEW last, last[sort.field] \in Int, last.id \in Int, seekPast(sort, cursor, last),
         NEW r, r[sort.field] \in Int, r.id \in Int, seekPast(sort, cursorAt(sort, last), r)
  PROVE  seekPast(sort, cursor, r)
<1>1. cursor.value \in Int /\ cursor.id \in Int
  BY Zenon DEF CursorOK
<1>2. cursorAt(sort, last).value = last[sort.field] /\ cursorAt(sort, last).id = last.id
  BY Zenon DEF cursorAt
<1> QED BY <1>1, <1>2 DEF seekPast, Before

------------------------------------------------------------------------------
(* The rows that are read. *)
RowOf(i) ==
  [id : {i}, createdAt : Int, updatedAt : Int, state : STATES, assignee : Int, touched : BOOLEAN]

RowsOK ==
  /\ day \in Int
  /\ resource \in DOMAIN Fields
  /\ DOMAIN rows = Rows
  /\ \A i \in Present : rows[i] \in RowOf(i)

LEMMA RowsAreRecords == ASSUME NEW i, NEW r \in RowOf(i) PROVE r # <<>>
<1>1. r = [id |-> r.id, createdAt |-> r.createdAt, updatedAt |-> r.updatedAt,
           state |-> r.state, assignee |-> r.assignee, touched |-> r.touched]
  BY DEF RowOf
<1> QED BY <1>1

LEMMA RowsSort ==
  ASSUME RowsOK, NEW sort, sort.field \in TICKET_SORTABLE, NEW past, past \subseteq {rows[i] : i \in Present}
  PROVE  /\ Sortable(past, sort.field)
         /\ \A r \in past : r.id \in Present /\ r = rows[r.id]
         /\ \A i \in Present : rows[i].id = i /\ rows[i].id \in Int /\ rows[i][sort.field] \in Int
<1>1. \A i \in Present : rows[i].id = i /\ i \in Rows /\ i \in Nat /\ rows[i].createdAt \in Int /\ rows[i].updatedAt \in Int
  BY ReadsAssumption, Zenon DEF RowsOK, RowOf, Present
<1>2. \A i \in Present : rows[i][sort.field] \in Int
  BY <1>1, Zenon DEF TICKET_SORTABLE
<1>3. \A r \in past : r.id \in Present /\ r = rows[r.id] /\ r[sort.field] \in Int /\ r.id \in Int /\ r.id \in Rows
  BY <1>1, <1>2
<1>4. IsFiniteSet(past)
  <2> DEFINE f == [r \in past |-> r.id]
  <2>1. f \in Injection(past, Rows)
    BY <1>3, Zenon DEF Injection, IsInjective
  <2> HIDE DEF f
  <2> QED BY <2>1, ReadsAssumption, FS_Injection, Zenon
<1> QED BY <1>1, <1>2, <1>3, <1>4 DEF Sortable

------------------------------------------------------------------------------
(* A row that has not moved was shown, and lies at or before the cursor,   *)
(* or was not; if it was there when the traversal began it lies past it    *)
(* then.                                                                   *)
Progress(w, times, due, i) ==
  /\ times \in {0, 1}
  /\ times = 1 => i \in Present /\ w.cursor # <<>> /\ ~seekPast(w.sort, w.cursor, rows[i])
  /\ i \in due => /\ i \in Present /\ ticketWhere(w.filters, rows[i])
                  /\ times = 1 \/ w.cursor = <<>> \/ seekPast(w.sort, w.cursor, rows[i])

WalkShape(w) ==
  /\ w = [pc |-> w.pc, sort |-> w.sort, filters |-> w.filters, limit |-> w.limit, cursor |-> w.cursor]
  /\ w.limit \in Nat \ {0}

(* A page keeps the progress of every row that has not moved. *)
LEMMA TurnKeeps ==
  ASSUME RowsOK, shown \in [Rows -> Nat], NEW w, WalkShape(w), w.sort.field \in TICKET_SORTABLE,
         CursorOK(w.sort, w.cursor), NEW due, NEW away,
         \A i \in Rows \ away : Progress(w, shown[i], due, i), Turn(w)
  PROVE  /\ WalkShape(walk') /\ walk'.sort = w.sort /\ walk'.filters = w.filters
         /\ walk'.pc \in {"paging", "done"}
         /\ shown' \in [Rows -> Nat]
         /\ walk'.pc = "paging" =>
              /\ walk'.cursor # <<>> /\ CursorOK(w.sort, walk'.cursor)
              /\ \A i \in Rows \ away : Progress(walk', shown'[i], due, i)
         /\ walk'.pc = "done" => \A i \in Rows \ away : shown'[i] <= 1 /\ (i \in due => shown'[i] = 1)
<1>1. PICK matching : matching = Matching(w.filters)
  BY Zenon
<1>2. PICK past : past = Past(w.sort, w.cursor, matching)
  BY Zenon
<1>3. PICK page : page = buildPage(fetched(w.sort, w.cursor, w.limit, matching), w.limit, w.sort)
  BY Zenon
<1>4. /\ walk' = [w EXCEPT !.pc = IF page.nextCursor = <<>> THEN "done" ELSE "paging", !.cursor = page.nextCursor]
      /\ shown' = [i \in Rows |-> shown[i] + Shows(page, i)]
  BY <1>1, <1>3, Zenon DEF Turn, Shows
<1>5. /\ \A r \in past : r \in {rows[i] : i \in Present} /\ ticketWhere(w.filters, r)
      /\ \A i \in Present : rows[i] \in past <=>
           ticketWhere(w.filters, rows[i]) /\ (w.cursor = <<>> \/ seekPast(w.sort, w.cursor, rows[i]))
  BY <1>1, <1>2, Zenon DEF Past, Matching
<1>6. /\ Sortable(past, w.sort.field)
      /\ \A r \in past : r.id \in Present /\ r = rows[r.id]
      /\ \A i \in Present : rows[i].id = i /\ rows[i].id \in Int /\ rows[i][w.sort.field] \in Int
  BY <1>5, RowsSort, Zenon
<1>7. w.limit \in Nat \ {0}
  BY Zenon DEF WalkShape
<1>8. /\ \A i : Shows(page, i) \in {0, 1}
      /\ \A i : Shows(page, i) = 1 => \E r \in past : r.id = i
      /\ page.nextCursor = <<>> => \A r \in past : Shows(page, r.id) = 1
      /\ page.nextCursor # <<>> =>
           /\ page.nextCursor.sort = w.sort
           /\ \E last \in past : page.nextCursor = cursorAt(w.sort, last)
           /\ \A r \in past : Shows(page, r.id) = 1 <=> ~seekPast(w.sort, page.nextCursor, r)
  <2>1. FirstPart(page, w.sort, past)
    BY <1>2, <1>3, <1>6, <1>7, PageIsTheFirstPart, Zenon
  <2> QED BY <2>1, Zenon DEF FirstPart
<1>9. /\ WalkShape(walk') /\ walk'.sort = w.sort /\ walk'.filters = w.filters
      /\ walk'.cursor = page.nextCursor
      /\ walk'.pc = IF page.nextCursor = <<>> THEN "done" ELSE "paging"
  BY <1>4, Zenon DEF WalkShape
<1>10. shown' \in [Rows -> Nat] /\ \A i \in Rows : shown'[i] = shown[i] + Shows(page, i)
  <2>1. \A i \in Rows : shown[i] + Shows(page, i) \in Nat
    <3> TAKE i \in Rows
    <3>1. shown[i] \in Nat /\ Shows(page, i) \in {0, 1}
      BY <1>8, Zenon
    <3> QED BY <3>1
  <2> QED BY <1>4, <2>1, Zenon
<1>11. ASSUME NEW i \in Rows \ away, shown[i] = 1
       PROVE  i \in Present /\ Shows(page, i) = 0 /\ w.cursor # <<>> /\ ~seekPast(w.sort, w.cursor, rows[i])
  <2>1. i \in Present /\ w.cursor # <<>> /\ ~seekPast(w.sort, w.cursor, rows[i])
    BY <1>11, Zenon DEF Progress
  <2>2. rows[i] \notin past
    BY <1>5, <2>1, Zenon
  <2>3. ~\E r \in past : r.id = i
    BY <1>6, <2>2, Zenon
  <2> QED BY <1>8, <2>1, <2>3, Zenon
<1>12. \A i \in Rows \ away : shown[i] \in {0, 1} /\ shown'[i] \in {0, 1}
  <2> TAKE i \in Rows \ away
  <2>1. shown[i] \in {0, 1}
    BY Zenon DEF Progress
  <2>2. shown'[i] = shown[i] + Shows(page, i) /\ Shows(page, i) \in {0, 1} /\ (shown[i] = 1 => Shows(page, i) = 0)
    BY <1>8, <1>10, <1>11, Zenon
  <2> QED BY <2>1, <2>2
<1>13. \A i \in Rows \ away : /\ shown[i] = 1 => shown'[i] = 1
                              /\ shown[i] = 0 => shown'[i] = Shows(page, i)
                              /\ shown'[i] <= 1
  <2> TAKE i \in Rows \ away
  <2>1. /\ shown'[i] = shown[i] + Shows(page, i) /\ Shows(page, i) \in {0, 1} /\ (shown[i] = 1 => Shows(page, i) = 0)
        /\ shown'[i] \in {0, 1}
    BY <1>8, <1>10, <1>11, <1>12, Zenon
  <2> QED BY <2>1
<1>14. ASSUME NEW i \in Rows \ away, i \in due
       PROVE  i \in Present /\ ticketWhere(w.filters, rows[i]) /\ (shown[i] = 1 \/ rows[i] \in past)
  BY <1>5, <1>14, Zenon DEF Progress
<1>15. CASE page.nextCursor = <<>>
  <2>1. ASSUME NEW i \in Rows \ away, i \in due PROVE shown'[i] = 1
    <3>1. CASE shown[i] = 1
      BY <1>13, <3>1, Zenon
    <3>2. CASE shown[i] # 1
      <4>1. rows[i] \in past /\ rows[i].id = i
        BY <1>6, <1>14, <2>1, <3>2, Zenon
      <4> QED BY <1>8, <1>12, <1>15, <1>13, <3>2, <4>1, Zenon
    <3> QED BY <3>1, <3>2, Zenon
  <2> QED BY <1>9, <1>10, <1>15, <1>13, <2>1, Zenon
<1>16. CASE page.nextCursor # <<>>
  <2>1. PICK last \in past : page.nextCursor = cursorAt(w.sort, last)
    BY <1>8, <1>16, Zenon
  <2>2. last[w.sort.field] \in Int /\ last.id \in Int
    BY <1>6, Zenon
  <2>3. CursorOK(w.sort, page.nextCursor)
    BY <2>1, <2>2 DEF CursorOK, cursorAt
  <2>4. ASSUME NEW i \in Present, w.cursor # <<>>, ~seekPast(w.sort, w.cursor, rows[i])
        PROVE  ~seekPast(w.sort, page.nextCursor, rows[i])
    <3>1. seekPast(w.sort, w.cursor, last)
      BY <1>5, <1>6, <2>4, Zenon
    <3>2. rows[i].id \in Int /\ rows[i][w.sort.field] \in Int
      BY <1>6, Zenon
    <3> QED BY <2>1, <2>2, <2>4, <3>1, <3>2, CursorsAdvance, Zenon
  <2>5. ASSUME NEW i \in Rows \ away PROVE Progress(walk', shown'[i], due, i)
    <3>1. ASSUME shown'[i] = 1 PROVE i \in Present /\ ~seekPast(w.sort, page.nextCursor, rows[i])
      <4>1. CASE shown[i] = 1
        BY <1>11, <2>4, <4>1, Zenon
      <4>2. CASE shown[i] # 1
        <5>1. Shows(page, i) = 1
          BY <1>12, <1>13, <3>1, <4>2, Zenon
        <5>2. PICK r \in past : r.id = i
          BY <1>8, <5>1, Zenon
        <5>3. i \in Present /\ rows[i] = r
          BY <1>6, <5>2, Zenon
        <5> QED BY <1>8, <1>16, <5>1, <5>2, <5>3, Zenon
      <4> QED BY <4>1, <4>2, Zenon
    <3>2. ASSUME i \in due
          PROVE  /\ i \in Present /\ ticketWhere(w.filters, rows[i])
                 /\ shown'[i] = 1 \/ seekPast(w.sort, page.nextCursor, rows[i])
      <4>1. i \in Present /\ ticketWhere(w.filters, rows[i]) /\ (shown[i] = 1 \/ rows[i] \in past)
        BY <1>14, <3>2, Zenon
      <4>2. CASE shown[i] = 1
        BY <1>13, <4>1, <4>2, Zenon
      <4>3. CASE shown[i] # 1
        <5>1. rows[i] \in past /\ rows[i].id = i /\ shown[i] = 0
          BY <1>6, <1>12, <4>1, <4>3, Zenon
        <5>2. Shows(page, i) = 1 <=> ~seekPast(w.sort, page.nextCursor, rows[i])
          BY <1>8, <1>16, <5>1, Zenon
        <5> QED BY <1>13, <4>1, <5>1, <5>2, Zenon
      <4> QED BY <4>2, <4>3, Zenon
    <3> QED BY <1>9, <1>12, <1>16, <3>1, <3>2, Zenon DEF Progress
  <2> QED BY <1>9, <1>10, <1>16, <2>3, <2>5, Zenon
<1> QED BY <1>15, <1>16, Zenon

------------------------------------------------------------------------------
(* A report.  What a statement counts, when it reads the rows as they are. *)
Cohort(plan)  == {r \in {rows[i] : i \in Present} : plan.from <= r.createdAt /\ r.createdAt < plan.to}
Resolved(C)   == {r \in C : r.state = "resolved"}
Deflected(C)  == {r \in C : deflected(r)}
Part(plan, axis) == {r \in Cohort(plan) : cut(axis, r)}

OverallOf(plan) == IF DOMAIN aggregate(plan, "none") = {} THEN emptyRow ELSE aggregate(plan, "none")[0]

Total(groups, f) == SumFunction([k \in DOMAIN groups |-> groups[k][f]])

LEMMA CohortsAreFinite ==
  ASSUME RowsOK, NEW plan, NEW T, T \subseteq Cohort(plan)
  PROVE  IsFiniteSet(T) /\ Cardinality(T) \in Nat
<1>1. T \subseteq {rows[i] : i \in Present} /\ DEFAULT_SORT.field \in TICKET_SORTABLE
  BY Zenon DEF Cohort, DEFAULT_SORT, TICKET_SORTABLE
<1>2. Sortable(T, DEFAULT_SORT.field)
  BY <1>1, RowsSort, Zenon
<1> QED BY <1>2, FS_CardinalityType, Zenon DEF Sortable

LEMMA AggregateCounts ==
  ASSUME NEW plan, NEW axis
  PROVE  aggregate(plan, axis) =
           [k \in {groupKey(axis, r) : r \in Part(plan, axis)} |->
              [size      |-> Cardinality({r \in Part(plan, axis) : groupKey(axis, r) = k}),
               resolved  |-> Cardinality({r \in {s \in Part(plan, axis) : groupKey(axis, s) = k} : r.state = "resolved"}),
               deflected |-> Cardinality({r \in {s \in Part(plan, axis) : groupKey(axis, s) = k} : deflected(r)})]]
<1>1. Part(plan, axis) = {r \in {rows[i] : i \in Present} : plan.from <= r.createdAt /\ r.createdAt < plan.to /\ cut(axis, r)}
  BY Zenon DEF Part, Cohort
<1> QED BY <1>1, Zenon DEF aggregate

LEMMA OverallCounts ==
  ASSUME NEW plan
  PROVE  OverallOf(plan) = [size |-> Cardinality(Cohort(plan)), resolved |-> Cardinality(Resolved(Cohort(plan))),
                            deflected |-> Cardinality(Deflected(Cohort(plan)))]
<1>1. PICK C : C = Cohort(plan)
  BY Zenon
<1>2. Part(plan, "none") = C
  BY <1>1, Zenon DEF Part, cut
<1>3. \A r : groupKey("none", r) = 0
  BY Zenon DEF groupKey
<1>4. aggregate(plan, "none") =
        [k \in {groupKey("none", r) : r \in C} |->
           [size      |-> Cardinality({r \in C : groupKey("none", r) = k}),
            resolved  |-> Cardinality({r \in {s \in C : groupKey("none", s) = k} : r.state = "resolved"}),
            deflected |-> Cardinality({r \in {s \in C : groupKey("none", s) = k} : deflected(r)})]]
  BY <1>2, AggregateCounts, Zenon
<1>5. {s \in C : groupKey("none", s) = 0} = C
  BY <1>3, Zenon
<1>6. CASE C = {}
  <2>1. DOMAIN aggregate(plan, "none") = {}
    BY <1>4, <1>6, Zenon
  <2>2. Resolved(C) = {} /\ Deflected(C) = {}
    BY <1>6, Zenon DEF Resolved, Deflected
  <2> QED BY <1>1, <1>6, <2>1, <2>2, FS_EmptySet, Zenon DEF OverallOf, emptyRow
<1>7. CASE C # {}
  <2>1. {groupKey("none", r) : r \in C} = {0}
    BY <1>3, <1>7
  <2>2. DOMAIN aggregate(plan, "none") # {}
    BY <1>4, <2>1, Zenon
  <2>3. aggregate(plan, "none")[0] = [size |-> Cardinality(C), resolved |-> Cardinality(Resolved(C)), deflected |-> Cardinality(Deflected(C))]
    BY <1>4, <1>5, <2>1, Zenon DEF Resolved, Deflected
  <2> QED BY <1>1, <2>2, <2>3, Zenon DEF OverallOf
<1> QED BY <1>6, <1>7, Zenon

LEMMA GroupsCount ==
  ASSUME RowsOK, NEW plan, NEW axis, NEW C, C = Part(plan, axis)
  PROVE  /\ Total(aggregate(plan, axis), "size") = Cardinality(C)
         /\ Total(aggregate(plan, axis), "resolved") = Cardinality(Resolved(C))
         /\ Total(aggregate(plan, axis), "deflected") = Cardinality(Deflected(C))
<1> DEFINE h == [r \in C |-> groupKey(axis, r)]
<1> DEFINE K == {groupKey(axis, r) : r \in C}
<1>1. IsFiniteSet(C)
  <2>1. C \subseteq Cohort(plan)
    BY Zenon DEF Part
  <2> QED BY <2>1, CohortsAreFinite, Zenon
<1>2. \A r \in C : h[r] \in K /\ h[r] = groupKey(axis, r)
  BY Zenon
<1>3. IsFiniteSet(K)
  <2>1. h \in Surjection(C, K)
    BY Zenon DEF Surjection
  <2> HIDE DEF h, K
  <2> QED BY <1>1, <2>1, FS_Surjection, Zenon
<1>4. aggregate(plan, axis) =
        [k \in K |->
           [size      |-> Cardinality({r \in C : groupKey(axis, r) = k}),
            resolved  |-> Cardinality({r \in {s \in C : groupKey(axis, s) = k} : r.state = "resolved"}),
            deflected |-> Cardinality({r \in {s \in C : groupKey(axis, s) = k} : deflected(r)})]]
  BY AggregateCounts, Zenon
<1>5. PICK groups : groups = aggregate(plan, axis)
  BY Zenon
<1>6. /\ DOMAIN groups = K
      /\ \A k \in K : /\ groups[k].size = Cardinality({r \in C : groupKey(axis, r) = k})
                      /\ groups[k].resolved = Cardinality({r \in {s \in C : groupKey(axis, s) = k} : r.state = "resolved"})
                      /\ groups[k].deflected = Cardinality({r \in {s \in C : groupKey(axis, s) = k} : deflected(r)})
  <2> HIDE DEF K
  <2> QED BY <1>4, <1>5
<1> HIDE DEF h, K
<1>7. ASSUME NEW D, D \subseteq C, NEW f, \A k \in K : groups[k][f] = Cardinality({r \in D : h[r] = k})
      PROVE  Total(groups, f) = Cardinality(D)
  <2>1. PICK e : e = [k \in DOMAIN groups |-> groups[k][f]]
    BY Zenon
  <2>2. DOMAIN e = K /\ \A k \in K : e[k] = Cardinality({r \in D : h[r] = k})
    BY <1>6, <1>7, <2>1, Zenon
  <2>3. SumFunction(e) = Cardinality(D)
    BY <1>1, <1>2, <1>3, <1>7, <2>2, PartsAddUp
  <2> QED BY <2>1, <2>3, Zenon DEF Total
<1>8. Total(groups, "size") = Cardinality(C)
  <2>1. \A k \in K : groups[k]["size"] = Cardinality({r \in C : h[r] = k})
    <3> TAKE k \in K
    <3>1. {r \in C : groupKey(axis, r) = k} = {r \in C : h[r] = k}
      BY <1>2, Zenon
    <3> QED BY <1>6, <3>1, Zenon
  <2> QED BY <1>7, <2>1, Zenon
<1>9. Total(groups, "resolved") = Cardinality(Resolved(C))
  <2>1. \A k \in K : groups[k]["resolved"] = Cardinality({r \in Resolved(C) : h[r] = k})
    <3> TAKE k \in K
    <3>1. {r \in {s \in C : groupKey(axis, s) = k} : r.state = "resolved"} = {r \in Resolved(C) : h[r] = k}
      BY <1>2, Zenon DEF Resolved
    <3> QED BY <1>6, <3>1, Zenon
  <2> QED BY <1>7, <2>1, Zenon DEF Resolved
<1>10. Total(groups, "deflected") = Cardinality(Deflected(C))
  <2>1. \A k \in K : groups[k]["deflected"] = Cardinality({r \in Deflected(C) : h[r] = k})
    <3> TAKE k \in K
    <3>1. {r \in {s \in C : groupKey(axis, s) = k} : deflected(r)} = {r \in Deflected(C) : h[r] = k}
      BY <1>2, Zenon DEF Deflected
    <3> QED BY <1>6, <3>1, Zenon
  <2> QED BY <1>7, <2>1, Zenon DEF Deflected
<1> QED BY <1>5, <1>8, <1>9, <1>10, Zenon

AddUp(plan, overall, groups) ==
  IF plan.groupBy = "assignee"
  THEN /\ Total(groups, "size") <= overall.size - overall.deflected
       /\ Total(groups, "resolved") <= overall.resolved - overall.deflected
       /\ Total(groups, "deflected") = 0
  ELSE \A f \in DOMAIN overall : Total(groups, f) = overall[f]

(* The two statements of a report, on the same rows, add up. *)
LEMMA StatementsAddUp ==
  ASSUME RowsOK, NEW plan, NEW groups, groups = aggregate(plan, plan.groupBy), NEW overall, overall = OverallOf(plan)
  PROVE  AddUp(plan, overall, groups)
<1>1. PICK A : A = Cohort(plan)
  BY Zenon
<1>2. PICK C : C = Part(plan, plan.groupBy)
  BY Zenon
<1>3. overall = [size |-> Cardinality(A), resolved |-> Cardinality(Resolved(A)), deflected |-> Cardinality(Deflected(A))]
  BY <1>1, OverallCounts, Zenon
<1>4. /\ Total(groups, "size") = Cardinality(C)
      /\ Total(groups, "resolved") = Cardinality(Resolved(C))
      /\ Total(groups, "deflected") = Cardinality(Deflected(C))
  BY <1>2, GroupsCount, ZenonT(30)
<1>5. CASE plan.groupBy = "assignee"
  <2>1. /\ C \subseteq A \ Deflected(A) /\ Resolved(C) \subseteq Resolved(A) \ Deflected(A) /\ Deflected(C) = {}
        /\ Deflected(A) \subseteq A /\ Deflected(A) \subseteq Resolved(A) /\ Resolved(A) \subseteq A
    BY <1>1, <1>2, <1>5, Zenon DEF Part, cut, Resolved, Deflected, deflected
  <2>2. \A T \in SUBSET A : IsFiniteSet(T) /\ Cardinality(T) \in Nat
    BY <1>1, CohortsAreFinite, Zenon
  <2>3. ASSUME NEW S, NEW T, NEW D, S \subseteq A, D \subseteq S, T \subseteq S \ D
        PROVE  Cardinality(T) <= Cardinality(S) - Cardinality(D)
    <3>1. IsFiniteSet(S) /\ IsFiniteSet(S \ D)
      BY <2>2, <2>3, Zenon
    <3>2. S \cap D = D
      BY <2>3, Zenon
    <3>3. Cardinality(S \ D) = Cardinality(S) - Cardinality(D)
      BY <3>1, <3>2, FS_Difference, Zenon
    <3>4. Cardinality(T) <= Cardinality(S \ D)
      BY <2>3, <3>1, FS_Subset, Zenon
    <3> QED BY <3>3, <3>4, Zenon
  <2>4. Cardinality(C) <= Cardinality(A) - Cardinality(Deflected(A))
    BY <2>1, <2>3, Zenon
  <2>5. Cardinality(Resolved(C)) <= Cardinality(Resolved(A)) - Cardinality(Deflected(A))
    BY <2>1, <2>3, Zenon
  <2>6. Cardinality(Deflected(C)) = 0
    BY <2>1, FS_EmptySet, Zenon
  <2>7. /\ overall.size = Cardinality(A) /\ overall.resolved = Cardinality(Resolved(A))
        /\ overall.deflected = Cardinality(Deflected(A))
    BY <1>3
  <2> QED BY <1>4, <1>5, <2>4, <2>5, <2>6, <2>7, Zenon DEF AddUp
<1>6. CASE plan.groupBy # "assignee"
  <2>1. C = A
    BY <1>1, <1>2, <1>6, Zenon DEF Part, cut
  <2>2. DOMAIN overall = {"size", "resolved", "deflected"}
    BY <1>3, Zenon
  <2>3. /\ overall["size"] = Cardinality(A) /\ overall["resolved"] = Cardinality(Resolved(A))
        /\ overall["deflected"] = Cardinality(Deflected(A))
    BY <1>3
  <2> QED BY <1>4, <1>6, <2>1, <2>2, <2>3, Zenon DEF AddUp
<1> QED BY <1>5, <1>6, Zenon

------------------------------------------------------------------------------
(* The inductive invariant of the reads. *)
WalkOK ==
  /\ walk.pc \in {"idle", "paging", "done"}
  /\ walk.pc = "idle" => walk.cursor = <<>> /\ moved = {} /\ owed = {} /\ \A i \in Rows : shown[i] = 0
  /\ walk.pc = "paging" =>
       /\ walk.sort.field \in TICKET_SORTABLE /\ walk.cursor # <<>> /\ CursorOK(walk.sort, walk.cursor)
       /\ \A i \in Rows \ moved : Progress(walk, shown[i], owed, i)
  /\ walk.pc = "done" => \A i \in Rows \ moved : shown[i] <= 1 /\ (i \in owed => shown[i] = 1)

(* Until a write falls in between, the first statement of a report holds   *)
(* of the rows as they are.                                                *)
ReportOK ==
  /\ report = [pc |-> report.pc, plan |-> report.plan, overall |-> report.overall,
               groups |-> report.groups, written |-> report.written]
  /\ report.pc = "groups" /\ ~report.written => report.overall = OverallOf(report.plan)

ReadsInv ==
  /\ RowsOK /\ shown \in [Rows -> Nat] /\ owed \subseteq Rows /\ WalkShape(walk)
  /\ WalkOK /\ ReportOK /\ GroupsAddUp

LEMMA ReadsStart == ReadsInit => ReadsInv
<1> SUFFICES ASSUME ReadsInit PROVE ReadsInv
  BY Zenon
<1>1. RowsOK
  BY DEF ReadsInit, RowsOK, Present, Fields
<1>2. walk.pc = "idle" /\ walk.cursor = <<>> /\ WalkShape(walk)
  BY DEF ReadsInit, Still, WalkShape
<1>3. shown \in [Rows -> Nat] /\ owed = {} /\ moved = {} /\ \A i \in Rows : shown[i] = 0
  BY Zenon DEF ReadsInit
<1>4. WalkOK
  BY <1>2, <1>3, Zenon DEF WalkOK
<1>5. report.pc = "idle" /\ ReportOK
  BY Zenon DEF ReadsInit, Blank, ReportOK
<1> QED BY <1>1, <1>2, <1>3, <1>4, <1>5, Zenon DEF ReadsInv, GroupsAddUp

LEMMA CountsStand ==
  ASSUME NEW plan, NEW axis, rows' = rows
  PROVE  aggregate(plan, axis)' = aggregate(plan, axis)
BY DEF aggregate, Present

LEMMA OverallStands ==
  ASSUME NEW plan, rows' = rows, report'.plan = plan
  PROVE  OverallOf(report.plan)' = OverallOf(plan)
BY CountsStand, Zenon DEF OverallOf

(* A traversal that goes on leaves a report as it is. *)
LEMMA ReportStands ==
  ASSUME ReportOK, GroupsAddUp, rows' = rows, report' = report
  PROVE  ReportOK' /\ GroupsAddUp'
<1>1. OverallOf(report.plan)' = OverallOf(report.plan)
  BY OverallStands, Zenon
<1> QED BY <1>1, Zenon DEF ReportOK, GroupsAddUp

LEMMA RowsStand ==
  ASSUME RowsOK, rows' = rows, resource' = resource, day' \in Int
  PROVE  RowsOK'
BY Zenon DEF RowsOK, Present

(* A write leaves a report that is not over unfounded, or not begun. *)
LEMMA WriteIsNoted ==
  ASSUME ReportOK, report.pc # "done", Written
  PROVE  ReportOK' /\ GroupsAddUp'
<1>1. PICK mark : mark = (report.written \/ report.pc = "groups")
  BY Zenon
<1>2. report' = [pc |-> report.pc, plan |-> report.plan, overall |-> report.overall, groups |-> report.groups, written |-> mark]
  BY <1>1, Zenon DEF ReportOK, Written
<1>3. report'.pc # "done" /\ (report'.pc = "groups" => report'.written)
  BY <1>1, <1>2, Zenon
<1>4. ReportOK'
  BY <1>2, <1>3, Zenon DEF ReportOK
<1> QED BY <1>3, <1>4, Zenon DEF GroupsAddUp

(* A row that commits or changes, when the sort key and the match of every *)
(* row that has not moved stay what they are, leaves a traversal as it is. *)
LEMMA ProgressStands ==
  ASSUME NEW i \in Rows \ moved', NEW times, Progress(walk, times, owed, i), moved \subseteq moved',
         walk' = walk, owed' = owed,
         i \in Present => /\ i \in Present' /\ rows'[i].id = rows[i].id
                          /\ rows'[i][walk.sort.field] = rows[i][walk.sort.field]
                          /\ ticketWhere(walk.filters, rows'[i]) = ticketWhere(walk.filters, rows[i])
  PROVE  Progress(walk, times, owed, i)'
<1>1. i \in Present => (seekPast(walk.sort, walk.cursor, rows'[i]) <=> seekPast(walk.sort, walk.cursor, rows[i]))
  BY Zenon DEF seekPast
<1> QED BY <1>1, Zenon DEF Progress

LEMMA InsertKeeps ==
  ASSUME ReadsInv, NEW n \in Rows, NEW created \in 0 .. LastDay, Insert(n, created)
  PROVE  ReadsInv'
<1> USE DEF ReadsInv
<1>1. PICK new : new = [id |-> n, createdAt |-> created, updatedAt |-> created, state |-> "open", assignee |-> 0, touched |-> FALSE]
  BY Zenon
<1>2. /\ walk.pc # "done" /\ report.pc # "done" /\ rows[n] = <<>> /\ rows' = [rows EXCEPT ![n] = new]
      /\ Written /\ day' = day /\ walk' = walk /\ shown' = shown /\ owed' = owed /\ moved' = moved
      /\ resource' \in DOMAIN Fields
  BY <1>1, Zenon DEF Insert, Over, RowsOK
<1>3. new \in RowOf(n) /\ new.id = n
  BY <1>1, ReadsAssumption DEF RowOf, STATES
<1>4. new # <<>>
  BY <1>3, RowsAreRecords, Zenon
<1>5. /\ DOMAIN rows' = Rows /\ rows'[n] = new
      /\ \A i \in Rows : i # n => rows'[i] = rows[i]
      /\ n \notin Present
  BY <1>2, Zenon DEF RowsOK, Present
<1>6. Present' = Present \cup {n}
  BY <1>4, <1>5, Zenon DEF Present
<1>7. RowsOK'
  <2>1. \A i \in Present' : rows'[i] \in RowOf(i)
    BY <1>3, <1>5, <1>6, Zenon DEF RowsOK, Present
  <2> QED BY <1>2, <1>5, <2>1, Zenon DEF RowsOK, RowOf
<1>8. WalkOK'
  <2>1. ASSUME walk.pc = "paging", NEW i \in Rows \ moved' PROVE Progress(walk, shown[i], owed, i)'
    <3>1. PICK times : times = shown[i]
      BY Zenon
    <3>2. Progress(walk, times, owed, i)
      BY <1>2, <2>1, <3>1, Zenon DEF WalkOK
    <3>3. i \in Present => i # n
      BY <1>5, Zenon
    <3>4. i \in Present => i \in Present' /\ rows'[i] = rows[i]
      BY <1>5, <1>6, <3>3, Zenon
    <3>5. Progress(walk, times, owed, i)'
      BY <1>2, <3>2, <3>4, ProgressStands, Zenon
    <3> QED BY <1>2, <3>1, <3>5, Zenon
  <2> QED BY <1>2, <2>1, Zenon DEF WalkOK, CursorOK
<1>9. ReportOK' /\ GroupsAddUp'
  BY <1>2, WriteIsNoted, Zenon
<1> QED BY <1>2, <1>7, <1>8, <1>9, Zenon DEF WalkShape

LEMMA EditKeeps ==
  ASSUME ReadsInv, NEW n \in Rows, NEW what \in {"state", "assignee", "touched"}, Edit(n, what)
  PROVE  ReadsInv'
<1> USE DEF ReadsInv
<1>1. PICK new : new = Edited(n, what)
  BY Zenon
<1>2. /\ walk.pc # "done" /\ report.pc # "done" /\ n \in Present /\ rows' = [rows EXCEPT ![n] = new]
      /\ moved' = IF walk.pc = "paging" /\ (\/ new[walk.sort.field] # rows[n][walk.sort.field]
                                            \/ ticketWhere(walk.filters, new) # ticketWhere(walk.filters, rows[n]))
                  THEN moved \cup {n} ELSE moved
      /\ Written /\ day' = day /\ walk' = walk /\ shown' = shown /\ owed' = owed /\ resource' = resource
  BY <1>1, Zenon DEF Edit, Over
<1>3. new \in RowOf(n) /\ new.id = rows[n].id
  <2>1. rows[n] \in RowOf(n) /\ day \in Int
    BY <1>2, Zenon DEF RowsOK
  <2>2. CASE what = "state"
    <3>1. new = [rows[n] EXCEPT !.updatedAt = day, !.state = IF @ = "open" THEN "resolved" ELSE "open"]
      BY <1>1, <2>2, Zenon DEF Edited
    <3> QED BY <2>1, <3>1, Zenon DEF RowOf, STATES
  <2>3. CASE what = "assignee"
    <3>1. new = [rows[n] EXCEPT !.updatedAt = day, !.assignee = 1 - @]
      BY <1>1, <2>3, Zenon DEF Edited
    <3>2. PICK who \in Int : who = 1 - rows[n].assignee
      BY <2>1 DEF RowOf
    <3>3. new = [rows[n] EXCEPT !.updatedAt = day, !.assignee = who]
      BY <3>1, <3>2, Zenon
    <3> QED BY <2>1, <3>3, Zenon DEF RowOf
  <2>4. CASE what = "touched"
    <3>1. new = [rows[n] EXCEPT !.touched = TRUE]
      BY <1>1, <2>4, Zenon DEF Edited
    <3> QED BY <2>1, <3>1, Zenon DEF RowOf
  <2> QED BY <2>2, <2>3, <2>4, Zenon
<1>4. new # <<>>
  BY <1>3, RowsAreRecords, Zenon
<1>5. /\ DOMAIN rows' = Rows /\ rows'[n] = new
      /\ \A i \in Rows : i # n => rows'[i] = rows[i]
  BY <1>2, Zenon DEF RowsOK
<1>6. Present' = Present
  BY <1>2, <1>4, <1>5, Zenon DEF Present
<1>7. RowsOK'
  <2>1. \A i \in Present' : rows'[i] \in RowOf(i)
    BY <1>3, <1>5, <1>6, Zenon DEF RowsOK, Present
  <2> QED BY <1>2, <1>5, <2>1, Zenon DEF RowsOK, RowOf
<1>8. moved \subseteq moved' /\ (walk.pc = "idle" => moved' = moved)
  BY <1>2, Zenon
<1>9. WalkOK'
  <2>1. ASSUME walk.pc = "paging", NEW i \in Rows \ moved' PROVE Progress(walk, shown[i], owed, i)'
    <3>1. PICK times : times = shown[i]
      BY Zenon
    <3>2. Progress(walk, times, owed, i)
      BY <1>8, <2>1, <3>1, Zenon DEF WalkOK
    <3>3. CASE i = n
      <4>1. /\ new[walk.sort.field] = rows[n][walk.sort.field]
            /\ ticketWhere(walk.filters, new) = ticketWhere(walk.filters, rows[n])
        BY <1>2, <2>1, <3>3, Zenon
      <4>2. i \in Present' /\ rows'[i].id = rows[i].id
        BY <1>2, <1>3, <1>5, <1>6, <3>3, Zenon
      <4>3. Progress(walk, times, owed, i)'
        BY <1>2, <1>5, <1>8, <3>2, <3>3, <4>1, <4>2, ProgressStands, Zenon
      <4> QED BY <1>2, <3>1, <4>3, Zenon
    <3>4. CASE i # n
      <4>1. i \in Present => i \in Present' /\ rows'[i] = rows[i]
        BY <1>5, <1>6, <3>4, Zenon
      <4>2. Progress(walk, times, owed, i)'
        BY <1>2, <1>8, <3>2, <4>1, ProgressStands, Zenon
      <4> QED BY <1>2, <3>1, <4>2, Zenon
    <3> QED BY <3>3, <3>4, Zenon
  <2> QED BY <1>2, <1>8, <2>1, Zenon DEF WalkOK, CursorOK
<1>10. ReportOK' /\ GroupsAddUp'
  BY <1>2, WriteIsNoted, Zenon
<1> QED BY <1>2, <1>7, <1>9, <1>10, Zenon DEF WalkShape

LEMMA Answerable ==
  ASSUME NEW query, NEW sort, NEW filters, NEW cursor, resource \in DOMAIN Fields,
         Refusal(query, sort, filters, cursor) = "ok"
  PROVE  sort.field \in TICKET_SORTABLE /\ (cursor = <<>> \/ cursor.sort = sort)
<1>1. planRefusal(Fields[resource], sort, cursor) = "ok"
  BY Zenon DEF Refusal
<1>2. sort.field \in Fields[resource] /\ (cursor = <<>> \/ cursor.sort = sort)
  BY <1>1, Zenon DEF planRefusal
<1>3. Fields[resource] \subseteq TICKET_SORTABLE
  <2>1. DOMAIN Fields = {"tickets", "thread"} /\ Fields["tickets"] = TICKET_SORTABLE /\ Fields["thread"] = THREAD_SORTABLE
    BY DEF Fields
  <2>2. THREAD_SORTABLE \subseteq TICKET_SORTABLE
    BY Zenon DEF TICKET_SORTABLE, THREAD_SORTABLE
  <2>3. resource = "tickets" \/ resource = "thread"
    BY <2>1, Zenon
  <2> QED BY <2>1, <2>2, <2>3, Zenon
<1> QED BY <1>2, <1>3, Zenon

LEMMA ListKeeps ==
  ASSUME ReadsInv, NEW sort, NEW filters, NEW limit \in Nat \ {0}, List(sort, filters, limit)
  PROVE  ReadsInv'
<1> USE DEF ReadsInv
<1>1. PICK w : w = [walk EXCEPT !.sort = sort, !.filters = filters, !.limit = limit]
  BY Zenon
<1>2. PICK due : due = {r.id : r \in Matching(filters)}
  BY Zenon
<1>3. /\ walk.pc = "idle" /\ Refusal({"sort", "limit"} \cup DOMAIN filters, sort, filters, <<>>) = "ok"
      /\ Turn(w) /\ owed' = due
      /\ resource' = resource /\ day' = day /\ rows' = rows /\ moved' = moved /\ report' = report
  BY <1>1, <1>2, Zenon DEF List
<1>4. walk.cursor = <<>> /\ moved = {} /\ \A i \in Rows : shown[i] = 0
  BY <1>3, Zenon DEF WalkOK
<1>5. WalkShape(w) /\ w.sort = sort /\ w.filters = filters /\ w.cursor = <<>>
  BY <1>1, <1>4, Zenon DEF WalkShape
<1>6. sort.field \in TICKET_SORTABLE
  BY <1>3, Answerable, Zenon DEF RowsOK
<1>7. \A i \in due : i \in Present /\ ticketWhere(filters, rows[i])
  <2>1. \A r \in Matching(filters) : r \in {rows[i] : i \in Present} /\ ticketWhere(filters, r)
    BY Zenon DEF Matching
  <2>2. \A r \in Matching(filters) : r.id \in Present /\ r = rows[r.id]
    BY <1>6, <2>1, RowsSort, Zenon
  <2> QED BY <1>2, <2>1, <2>2, Zenon
<1>8. \A i \in Rows \ moved : Progress(w, shown[i], due, i)
  <2>1. 0 # 1
    OBVIOUS
  <2> QED BY <1>4, <1>5, <1>7, <2>1, Zenon DEF Progress
<1>9. CursorOK(w.sort, w.cursor)
  BY <1>5, Zenon DEF CursorOK
<1>10. /\ WalkShape(walk') /\ walk'.sort = w.sort /\ walk'.filters = w.filters
       /\ walk'.pc \in {"paging", "done"}
       /\ shown' \in [Rows -> Nat]
       /\ walk'.pc = "paging" =>
            /\ walk'.cursor # <<>> /\ CursorOK(w.sort, walk'.cursor)
            /\ \A i \in Rows \ moved : Progress(walk', shown'[i], due, i)
       /\ walk'.pc = "done" => \A i \in Rows \ moved : shown'[i] <= 1 /\ (i \in due => shown'[i] = 1)
  BY <1>3, <1>5, <1>6, <1>8, <1>9, TurnKeeps, Zenon
<1>11. ASSUME walk'.pc = "paging", NEW i \in Rows \ moved PROVE Progress(walk, shown[i], owed, i)'
  BY <1>3, <1>10, <1>11, Zenon DEF Progress, Present
<1>12. WalkOK'
  BY <1>3, <1>5, <1>6, <1>10, <1>11, Zenon DEF WalkOK, CursorOK
<1>13. due \subseteq Rows
  BY <1>7, Zenon DEF Present
<1>14. WalkShape(walk)'
  BY <1>10, Zenon DEF WalkShape
<1>15. RowsOK'
  BY <1>3, RowsStand, Zenon DEF RowsOK
<1> QED BY <1>3, <1>10, <1>12, <1>13, <1>14, <1>15, ReportStands, Zenon

LEMMA NextPageKeeps ==
  ASSUME ReadsInv, NEW sort, NextPage(sort)
  PROVE  ReadsInv'
<1> USE DEF ReadsInv
<1>1. PICK cursor : cursor = walk.cursor
  BY Zenon
<1>2. PICK w : w = [walk EXCEPT !.sort = sort]
  BY Zenon
<1>3. /\ walk.pc = "paging" /\ Refusal({"cursor", "sort", "limit"} \cup DOMAIN walk.filters, sort, walk.filters, cursor) = "ok"
      /\ Turn(w) /\ owed' = owed
      /\ resource' = resource /\ day' = day /\ rows' = rows /\ moved' = moved /\ report' = report
  BY <1>1, <1>2, Zenon DEF NextPage
<1>4. /\ walk.sort.field \in TICKET_SORTABLE /\ walk.cursor # <<>> /\ CursorOK(walk.sort, walk.cursor)
      /\ \A i \in Rows \ moved : Progress(walk, shown[i], owed, i)
  BY <1>3, Zenon DEF WalkOK
<1>5. cursor.sort = sort
  <2>1. resource \in DOMAIN Fields
    BY Zenon DEF RowsOK
  <2>2. PICK query : query = {"cursor", "sort", "limit"} \cup DOMAIN walk.filters
    BY Zenon
  <2>3. cursor = <<>> \/ cursor.sort = sort
    BY <1>3, <2>1, <2>2, Answerable
  <2> QED BY <1>1, <1>4, <2>3, Zenon
<1>6. w = walk
  BY <1>1, <1>2, <1>4, <1>5, Zenon DEF CursorOK, WalkShape
<1>7. PICK due : due = owed
  BY Zenon
<1>10. /\ WalkShape(walk') /\ walk'.sort = w.sort /\ walk'.filters = w.filters
       /\ walk'.pc \in {"paging", "done"}
       /\ shown' \in [Rows -> Nat]
       /\ walk'.pc = "paging" =>
            /\ walk'.cursor # <<>> /\ CursorOK(w.sort, walk'.cursor)
            /\ \A i \in Rows \ moved : Progress(walk', shown'[i], due, i)
       /\ walk'.pc = "done" => \A i \in Rows \ moved : shown'[i] <= 1 /\ (i \in due => shown'[i] = 1)
  <2>1. /\ WalkShape(w) /\ w.sort.field \in TICKET_SORTABLE /\ CursorOK(w.sort, w.cursor)
        /\ \A i \in Rows \ moved : Progress(w, shown[i], due, i)
    BY <1>4, <1>6, <1>7, Zenon
  <2> QED BY <1>3, <2>1, TurnKeeps, Zenon
<1>11. ASSUME walk'.pc = "paging", NEW i \in Rows \ moved PROVE Progress(walk, shown[i], owed, i)'
  BY <1>3, <1>7, <1>10, <1>11, Zenon DEF Progress, Present
<1>12. WalkOK'
  BY <1>3, <1>4, <1>6, <1>7, <1>10, <1>11, Zenon DEF WalkOK, CursorOK
<1>14. WalkShape(walk)'
  BY <1>10, Zenon DEF WalkShape
<1>15. RowsOK'
  BY <1>3, RowsStand, Zenon DEF RowsOK
<1> QED BY <1>3, <1>10, <1>12, <1>14, <1>15, ReportStands, Zenon

LEMMA WalkStands ==
  ASSUME WalkOK, WalkShape(walk), rows' = rows, walk' = walk, shown' = shown, owed' = owed, moved' = moved
  PROVE  WalkOK' /\ WalkShape(walk)'
BY Zenon DEF WalkOK, WalkShape, CursorOK, Progress, Present

LEMMA ReadsKeep == ReadsInv /\ [ReadsNext]_reads => ReadsInv'
<1> SUFFICES ASSUME ReadsInv, [ReadsNext]_reads PROVE ReadsInv'
  BY Zenon
<1>1. ASSUME NewDay PROVE ReadsInv'
  <2>1. /\ day' \in Int /\ resource' = resource /\ rows' = rows /\ walk' = walk /\ shown' = shown
        /\ owed' = owed /\ moved' = moved /\ report' = report
    BY <1>1 DEF NewDay, ReadsInv, RowsOK
  <2> QED BY <2>1, RowsStand, WalkStands, ReportStands, Zenon DEF ReadsInv
<1>2. ASSUME NEW from, NEW to, NEW axis, ReportOverall(from, to, axis) PROVE ReadsInv'
  <2>1. PICK plan : plan = planAnalytics(from, to, axis)
    BY Zenon
  <2>2. /\ report' = [report EXCEPT !.pc = "groups", !.plan = plan, !.overall = OverallOf(plan)]
        /\ day' = day /\ resource' = resource /\ rows' = rows /\ walk' = walk /\ shown' = shown
        /\ owed' = owed /\ moved' = moved
    BY <1>2, <2>1, Zenon DEF ReportOverall, OverallOf
  <2>3. /\ report' = [pc |-> "groups", plan |-> plan, overall |-> OverallOf(plan), groups |-> report.groups, written |-> report.written]
    BY <2>2, Zenon DEF ReadsInv, ReportOK
  <2>4. OverallOf(report.plan)' = OverallOf(plan)
    <3>1. report'.plan = plan /\ rows' = rows
      BY <2>2, <2>3, Zenon
    <3> QED BY <3>1, OverallStands, Zenon
  <2>5. ReportOK' /\ GroupsAddUp'
    BY <2>3, <2>4, Zenon DEF ReportOK, GroupsAddUp
  <2> QED BY <2>2, <2>5, RowsStand, WalkStands, Zenon DEF ReadsInv, RowsOK
<1>3. ASSUME ReportGroups PROVE ReadsInv'
  <2>1. PICK groups : groups = aggregate(report.plan, report.plan.groupBy)
    BY Zenon
  <2>2. /\ report.pc = "groups" /\ report' = [report EXCEPT !.pc = "done", !.groups = groups]
        /\ day' = day /\ resource' = resource /\ rows' = rows /\ walk' = walk /\ shown' = shown
        /\ owed' = owed /\ moved' = moved
    BY <1>3, <2>1, Zenon DEF ReportGroups
  <2>3. report' = [pc |-> "done", plan |-> report.plan, overall |-> report.overall, groups |-> groups, written |-> report.written]
    BY <2>2, Zenon DEF ReadsInv, ReportOK
  <2>4. ASSUME ~report.written PROVE AddUp(report.plan, report.overall, groups)
    <3>1. report.overall = OverallOf(report.plan)
      BY <2>2, <2>4, Zenon DEF ReadsInv, ReportOK
    <3> QED BY <2>1, <3>1, StatementsAddUp, Zenon DEF ReadsInv
  <2>5. GroupsAddUp'
    BY <2>3, <2>4, Zenon DEF GroupsAddUp, AddUp, Total
  <2>6. ReportOK'
    BY <2>3, Zenon DEF ReportOK
  <2> QED BY <2>2, <2>5, <2>6, RowsStand, WalkStands, Zenon DEF ReadsInv, RowsOK
<1>4. CASE UNCHANGED reads
  <2>1. /\ day' = day /\ resource' = resource /\ rows' = rows /\ walk' = walk /\ shown' = shown
        /\ owed' = owed /\ moved' = moved /\ report' = report
    BY <1>4, Zenon DEF reads
  <2> QED BY <2>1, RowsStand, WalkStands, ReportStands, Zenon DEF ReadsInv, RowsOK
<1>5. ASSUME NEW q \in Queries, List(q.sort, q.filters, q.limit) PROVE ReadsInv'
  BY <1>5, ReadsAssumption, ListKeeps, Zenon
<1> QED BY <1>1, <1>2, <1>3, <1>4, <1>5, InsertKeeps, EditKeeps, NextPageKeeps, Zenon DEF ReadsNext

LEMMA ReadsHold == ReadsInv => TraversalIsComplete /\ GroupsAddUp
<1> SUFFICES ASSUME ReadsInv PROVE TraversalIsComplete
  BY Zenon DEF ReadsInv
<1>1. \A i \in Rows \ moved : shown[i] <= 1
  <2>1. 0 <= 1 /\ 1 <= 1
    OBVIOUS
  <2> QED BY <2>1, Zenon DEF ReadsInv, WalkOK, Progress
<1>2. walk.pc = "done" => \A i \in owed \ moved : shown[i] = 1
  BY Zenon DEF ReadsInv, WalkOK
<1> QED BY <1>1, <1>2, Zenon DEF TraversalIsComplete

------------------------------------------------------------------------------
(* The inductive invariant of the whole: its parts share no state. *)
EdgeInv == LimiterInv /\ CacheInv /\ ReadsInv

LEMMA EdgeKeeps == Spec => []EdgeInv
<1>1. Init => EdgeInv
  BY LimiterStarts, CacheStarts, ReadsStart, Zenon DEF Init, EdgeInv
<1>2. EdgeInv /\ [Next]_vars => EdgeInv'
  <2>1. [Next]_vars => [Limiter]_limiter /\ [Cached]_cache /\ [ReadsNext]_reads
    BY Zenon DEF Next, vars
  <2> QED BY <2>1, LimiterKeeps, CacheKeeps, ReadsKeep, Zenon DEF EdgeInv
<1> QED BY <1>1, <1>2, PTL DEF Spec

(* However many requests race, a counter that Redis answered in time lets  *)
(* its ceiling through and no more; the global counter never counts more   *)
(* than the addresses let through, over any number of them; and a client   *)
(* that waits as told is past its window (check, hit, decide, use).        *)
THEOREM CeilingsHold == Spec => []CeilingHolds
<1>1. EdgeInv => CeilingHolds
  BY LimiterHolds, Zenon DEF EdgeInv
<1> QED BY <1>1, EdgeKeeps, PTL

(* A value older than the row is in the cache only where a load overlapped *)
(* the write or its bust is not done, and for one TTL at most, for any     *)
(* number of entries, readers and writes (getOrLoad, del, delByPrefix).    *)
THEOREM BustsAreFinal == Spec => []BustIsFinal
<1>1. EdgeInv => BustIsFinal
  BY Zenon DEF EdgeInv, CacheInv, EntriesAreOwned, BustIsFinal
<1> QED BY <1>1, EdgeKeeps, PTL

(* A client that pages to the end sees every row that was there when it    *)
(* began once, and none twice, unless the row itself moved: for any number *)
(* of rows and ties, every sort, filter and page size, and any inserts and *)
(* edits in between (keysetPlan, buildPage, list).                         *)
THEOREM TraversalsAreComplete == Spec => []TraversalIsComplete
<1>1. EdgeInv => TraversalIsComplete
  BY ReadsHold, Zenon DEF EdgeInv
<1> QED BY <1>1, EdgeKeeps, PTL

(* The groups of a report that no write fell into partition its total,     *)
(* and by assignee make up no more than what people handled, for any rows  *)
(* and any window (report, aggregate).                                     *)
THEOREM ReportsAddUp == Spec => []GroupsAddUp
<1>1. EdgeInv => GroupsAddUp
  BY ReadsHold, Zenon DEF EdgeInv
<1> QED BY <1>1, EdgeKeeps, PTL
==============================================================================
