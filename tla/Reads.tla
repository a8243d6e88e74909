--------------------------------- MODULE Reads ---------------------------------
(***************************************************************************)
(* The reads that take several statements while others write: a client     *)
(* paging through GET /tickets (TicketService.list) or through the thread  *)
(* or the audit trail of one Ticket (MessageService, NoteService and       *)
(* AuditService.listForTicket), and the analytics report                   *)
(* (src/src/analytics/analytics.service.ts).                               *)
(*                                                                         *)
(* `rows` is the one table that is read.  Ids are uuids: their order has   *)
(* nothing to do with the order of creation.  created_at is the time a     *)
(* transaction began, so a row may appear behind one that is newer.        *)
(***************************************************************************)
EXTENDS Keyset, Routes

CONSTANTS
  Rows,        \* the ids a row may get
  Queries,     \* the lists asked for: a sort, filters and a page size
  Windows,     \* the reports asked for: from, to and a grouping
  LastDay,     \* bound: the clock of created_at and updated_at stops here
  MaxEdits     \* bound: edits in a run

ASSUME ReadsAssumption ==
  /\ Rows \subseteq Nat /\ IsFiniteSet(Rows)
  /\ \A q \in Queries : q.limit \in Nat \ {0}
  /\ LastDay \in Nat /\ MaxEdits \in Nat

VARIABLES
  resource,  \* which table it is: "tickets", or "thread", whose rows never change; its first row tells
  day,
  rows,      \* by id: the row, or <<>>
  edits,
  walk,      \* a traversal: its sort, filters, page size and next cursor
  shown,     \* history: how often the traversal has shown each row
  owed,      \* history: the matching rows there were when it began
  moved,     \* history: the rows whose sort key or match has changed since
  report     \* an analytics report: pc, its plan, its numbers, and whether a write fell in between

reads == <<resource, day, rows, edits, walk, shown, owed, moved, report>>

STATES == {"open", "resolved"}   \* of TicketState, one that is terminal and one that is not
TICKET_SORTABLE == {"createdAt", "updatedAt"}
THREAD_SORTABLE == {"createdAt"}

Fields  == [tickets |-> TICKET_SORTABLE, thread |-> THREAD_SORTABLE]
RouteOf == [tickets |-> "GET /tickets", thread |-> "GET /tickets/:id/messages"]
ListRoute == CHOOSE route \in Routes : route.op = RouteOf[resource]

NoFilters == [f \in {} |-> f]

Present == {i \in Rows : rows[i] # <<>>}
Still   == [pc |-> "idle", sort |-> DEFAULT_SORT, filters |-> NoFilters, limit |-> 1, cursor |-> <<>>]
Blank   == [pc |-> "idle", plan |-> <<>>, overall |-> <<>>, groups |-> <<>>, written |-> FALSE]

ReadsInit ==
  /\ resource = "tickets"
  /\ day = 0 /\ edits = 0
  /\ rows = [i \in Rows |-> <<>>]
  /\ walk = Still
  /\ shown = [i \in Rows |-> 0] /\ owed = {} /\ moved = {}
  /\ report = Blank

------------------------------------------------------------------------------
(* ticketWhere, of the filters that are given. *)
ticketWhere(filters, r) ==
  /\ "state" \in DOMAIN filters => r.state \in filters.state
  /\ "assigneeId" \in DOMAIN filters => r.assignee = filters.assigneeId
  /\ "createdAfter" \in DOMAIN filters => r.createdAt >= filters.createdAfter
  /\ "createdBefore" \in DOMAIN filters => r.createdAt <= filters.createdBefore

(* enumSet: one unknown member refuses the request. *)
filterRefusal(filters) ==
  IF "state" \in DOMAIN filters /\ ~(filters.state \subseteq STATES) THEN "invalid_filter" ELSE "ok"

Matching(filters) == {r \in {rows[i] : i \in Present} : ticketWhere(filters, r)}

(* Bound: writes after the last statement of a read are left out. *)
Over == walk.pc = "done" \/ report.pc = "done"

Written == report' = [report EXCEPT !.written = @ \/ report.pc = "groups"]

NewDay == ~Over /\ day < LastDay /\ day' = day + 1 /\ UNCHANGED <<resource, rows, edits, walk, shown, owed, moved, report>>

(* A row commits, created today or, by a transaction that took its time,   *)
(* the day before.                                                         *)
Insert(i, created) ==
  /\ ~Over /\ rows[i] = <<>>
  /\ created \in {day, day - 1} /\ created >= 0
  /\ rows' = [rows EXCEPT ![i] = [id |-> i, createdAt |-> created, updatedAt |-> created,
                                  state |-> "open", assignee |-> 0, touched |-> FALSE]]
  /\ Written
  /\ IF Present = {} /\ walk.pc = "idle" /\ report.pc = "idle"
     THEN resource' \in DOMAIN Fields
     ELSE UNCHANGED resource
  /\ UNCHANGED <<day, edits, walk, shown, owed, moved>>

(* A Ticket changes: its state, its assignee, or a staff Message or Note.  *)
Edited(i, what) ==
  CASE what = "state"    -> [rows[i] EXCEPT !.updatedAt = day, !.state = IF @ = "open" THEN "resolved" ELSE "open"]
    [] what = "assignee" -> [rows[i] EXCEPT !.updatedAt = day, !.assignee = 1 - @]
    [] what = "touched"  -> [rows[i] EXCEPT !.touched = TRUE]

Edit(i, what) ==
  LET r == Edited(i, what) IN
  /\ resource = "tickets" /\ ~Over /\ i \in Present /\ edits < MaxEdits
  /\ edits' = edits + 1
  /\ rows' = [rows EXCEPT ![i] = r]
  /\ moved' = IF walk.pc = "paging" /\ (\/ r[walk.sort.field] # rows[i][walk.sort.field]
                                        \/ ticketWhere(walk.filters, r) # ticketWhere(walk.filters, rows[i]))
              THEN moved \cup {i} ELSE moved
  /\ Written
  /\ UNCHANGED <<resource, day, walk, shown, owed>>

------------------------------------------------------------------------------
(* What a list request is answered before a row is read. *)
Refusal(query, sort, filters, cursor) ==
  IF UnknownQueryParams(ListRoute, query) # "ok" THEN UnknownQueryParams(ListRoute, query)
  ELSE IF planRefusal(Fields[resource], sort, cursor) # "ok" THEN planRefusal(Fields[resource], sort, cursor)
  ELSE filterRefusal(filters)

(* list and listForTicket: one page of the traversal. *)
Turn(w) ==
  LET page == buildPage(fetched(w.sort, w.cursor, w.limit, Matching(w.filters)), w.limit, w.sort) IN
  /\ walk' = [w EXCEPT !.pc = IF page.nextCursor = <<>> THEN "done" ELSE "paging", !.cursor = page.nextCursor]
  /\ shown' = [i \in Rows |-> shown[i] + Cardinality({k \in DOMAIN page.data : page.data[k].id = i})]

(* A traversal begins, unless its parameters are refused. *)
List(sort, filters, limit) ==
  /\ walk.pc = "idle"
  /\ Refusal({"sort", "limit"} \cup DOMAIN filters, sort, filters, <<>>) = "ok"
  /\ Turn([walk EXCEPT !.sort = sort, !.filters = filters, !.limit = limit])
  /\ owed' = {r.id : r \in Matching(filters)}
  /\ UNCHANGED <<resource, day, rows, edits, moved, report>>

(* It goes on, under this sort: another one than it began with is refused, *)
(* and the client comes back to its own.                                   *)
NextPage(sort) ==
  /\ walk.pc = "paging"
  /\ Refusal({"cursor", "sort", "limit"} \cup DOMAIN walk.filters, sort, walk.filters, walk.cursor) = "ok"
  /\ Turn([walk EXCEPT !.sort = sort])
  /\ UNCHANGED <<resource, day, rows, edits, owed, moved, report>>

------------------------------------------------------------------------------
deflected(r) == r.state = "resolved" /\ ~r.touched

(* Fault: every axis leaves out the unassigned and the deflected. *)
cut_EveryAxis(axis, r) == axis # "none" => r.assignee # 0 /\ ~deflected(r)

(* The assignee axis leaves them out. *)
cut(axis, r) == axis = "assignee" => r.assignee # 0 /\ ~deflected(r)

(* GROUP_EXPR; the overall pass has one group. *)
groupKey(axis, r) ==
  CASE axis = "none" -> 0 [] axis = "assignee" -> r.assignee [] axis = "day" -> r.createdAt

(* aggregate: the cohort by created_at, half open, and its counts by key. *)
aggregate(plan, axis) ==
  LET cohort == {r \in {rows[i] : i \in Present} :
                   /\ plan.from <= r.createdAt /\ r.createdAt < plan.to
                   /\ cut(axis, r)}
      of(key) == {r \in cohort : groupKey(axis, r) = key}
  IN  [key \in {groupKey(axis, r) : r \in cohort} |->
         [size      |-> Cardinality(of(key)),
          resolved  |-> Cardinality({r \in of(key) : r.state = "resolved"}),
          deflected |-> Cardinality({r \in of(key) : deflected(r)})]]

emptyRow == [size |-> 0, resolved |-> 0, deflected |-> 0]

(* planAnalytics: a window that ends before it begins is refused. *)
planAnalytics(from, to, axis) == [from |-> from, to |-> to, groupBy |-> axis]

(* report, the first statement. *)
ReportOverall(from, to, axis) ==
  LET plan == planAnalytics(from, to, axis)
      all  == aggregate(plan, "none") IN
  /\ resource = "tickets" /\ report.pc = "idle"
  /\ from <= to
  /\ report' = [report EXCEPT !.pc = "groups", !.plan = plan,
                              !.overall = IF DOMAIN all = {} THEN emptyRow ELSE all[0]]
  /\ UNCHANGED <<resource, day, rows, edits, walk, shown, owed, moved>>

(* ... and the second, in the same READ COMMITTED transaction. *)
ReportGroups ==
  /\ report.pc = "groups"
  /\ report' = [report EXCEPT !.pc = "done", !.groups = aggregate(report.plan, report.plan.groupBy)]
  /\ UNCHANGED <<resource, day, rows, edits, walk, shown, owed, moved>>

------------------------------------------------------------------------------
ReadsNext ==
  \/ NewDay
  \/ \E i \in Rows :
       \/ \E created \in 0 .. LastDay : Insert(i, created)
       \/ \E what \in {"state", "assignee", "touched"} : Edit(i, what)
  \/ \E q \in Queries : List(q.sort, q.filters, q.limit) \/ NextPage(q.sort)
  \/ \E w \in Windows : ReportOverall(w.from, w.to, w.axis)
  \/ ReportGroups

(* A client that pages to the end has seen every row that was there when   *)
(* it began, and nothing twice, however many rows share a timestamp and    *)
(* whatever is inserted or edited meanwhile; the exception is a row whose  *)
(* own sort key or match was changed (keysetPlan, buildPage, list).        *)
TraversalIsComplete ==
  /\ \A i \in Rows \ moved : shown[i] <= 1
  /\ walk.pc = "done" => \A i \in owed \ moved : shown[i] = 1

(* The groups of a report partition its total; by assignee they make up no *)
(* more than the part of it people handled, with nothing deflected.  The   *)
(* exception is a write between the two statements, which one transaction  *)
(* at READ COMMITTED does not keep out (report, aggregate).                *)
GroupsAddUp ==
  LET total(f) == SumFunction([k \in DOMAIN report.groups |-> report.groups[k][f]])
      overall  == report.overall IN
  report.pc = "done" /\ ~report.written =>
    IF report.plan.groupBy = "assignee"
    THEN /\ total("size") <= overall.size - overall.deflected
         /\ total("resolved") <= overall.resolved - overall.deflected
         /\ total("deflected") = 0
    ELSE \A f \in DOMAIN overall : total(f) = overall[f]
==============================================================================
