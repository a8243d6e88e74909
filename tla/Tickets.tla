------------------------------- MODULE Tickets -------------------------------
(***************************************************************************)
(* The `ticket` table and the staff and scheduler paths that write it:     *)
(* TicketService (src/src/tickets/ticket.service.ts), the dwell sweep      *)
(* (src/src/sla/dwell.sweep.ts) and the triggers and partial unique        *)
(* indexes of the migrations.  The customer's paths are in Conversation,   *)
(* which extends this module.                                              *)
(*                                                                         *)
(* Transactions run at READ COMMITTED.  A request is a sequence of reads,  *)
(* each seeing what is committed when it runs, followed by its writes.     *)
(* The first write locks the one row the request changes, or the index     *)
(* entry it inserts, until the commit, so the writes and the commit are    *)
(* one step and every read is a step of its own.                           *)
(*                                                                         *)
(* Ids are numbered in the order of created_at; 0 stands for NULL.         *)
(***************************************************************************)
EXTENDS Integers

CONSTANTS
  MaxTickets,   \* bound: rows that may be created
  Contacts,     \* the tenant's Contacts
  NoContact,    \* no Contact yet: the row does not exist
  Threads,      \* Slack threads (slack_channel_id, slack_thread_ts)
  NoThread,     \* both columns NULL
  Agents,       \* staff requests that may be in flight at once
  Asked,        \* bound: the states that staff ask for
  Closers,      \* the Agents whose principal holds ticket:close
  Customers     \* contact requests and ingestion jobs in flight at once

ASSUME TicketsAssumption ==
  /\ MaxTickets \in Nat
  /\ NoContact \notin Contacts
  /\ NoThread \notin Threads
  /\ Asked \subseteq {"open", "pending", "on_hold", "resolved", "closed"}
  /\ Closers \subseteq Agents
  /\ Agents \cap Customers = {}

VARIABLES
  state,     \* ticket.state; "none" before the row exists
  parent,    \* spawned_from_ticket_id
  root,      \* root_ticket_id
  contact,   \* contact_id
  route,     \* the Slack thread the Ticket answers on
  silent,    \* last_activity_at is older than ticket_dwell_window()
  req        \* where each request is and what it has read

table == <<state, parent, root, contact, route, silent>>
Ids   == 1 .. MaxTickets

TicketState == {"open", "pending", "on_hold", "resolved", "closed"}

(* The transition table of the trigger.  closed leads nowhere. *)
ticket_transition_is_legal(from, to) ==
  \/ /\ from \in {"open", "pending", "on_hold"}
     /\ to \in {"open", "pending", "on_hold", "resolved"} \ {from}
  \/ from = "resolved" /\ to \in {"open", "closed"}

(* canTransition: only closing needs an authority. *)
canTransition(a, to) == to = "closed" => a \in Closers

Exists(t) == state[t] # "none"
Live(t)   == state[t] \notin {"none", "closed"}

(* chainRootOf, and the index's COALESCE(root_ticket_id, id). *)
chainRootOf(t) == IF root[t] = 0 THEN t ELSE root[t]

------------------------------------------------------------------------------
(* INSERT. *)

(* Fault: the root is the parent, right for the first spawn only. *)
Root_IsParent(p) == p

(* ticket_enforce_linkage on INSERT: a spawn takes its root and its route  *)
(* from the parent, whatever the caller supplied.                          *)
RootUnder(p)     == IF p = 0 THEN 0 ELSE chainRootOf(p)
RouteUnder(p, h) == IF p = 0 THEN h ELSE route[p]

(* Fault: ticket_one_live_per_chain does not exist. *)
ChainIsFree_Always(p) == TRUE

(* Fault: ticket_one_live_per_slack_thread does not exist. *)
ThreadIsFree_Always(h) == TRUE

(* ticket_one_live_per_chain and ticket_one_live_per_slack_thread, as the  *)
(* INSERT of a live row meets them.                                        *)
ChainIsFree(p)  == p = 0 \/ \A u \in Ids : Live(u) => chainRootOf(u) # chainRootOf(p)
ThreadIsFree(h) == h = NoThread \/ \A u \in Ids : Live(u) => route[u] # h

IsNextId(t) == ~Exists(t) /\ \A u \in Ids : u < t => Exists(u)

(* createIn: a row born open, spawned from p (0: an origin). *)
InsertTicket(t, p, c, h) ==
  /\ state'   = [state   EXCEPT ![t] = "open"]
  /\ parent'  = [parent  EXCEPT ![t] = p]
  /\ root'    = [root    EXCEPT ![t] = RootUnder(p)]
  /\ contact' = [contact EXCEPT ![t] = c]
  /\ route'   = [route   EXCEPT ![t] = RouteUnder(p, h)]
  /\ silent'  = [silent  EXCEPT ![t] = FALSE]

------------------------------------------------------------------------------
(* UPDATE of the state. *)

(* Fault: the updateMany is by id alone. *)
Matches_AnyState(t, seen) == TRUE

(* transitionIn's WHERE id = t AND state = seen. *)
Matches(t, seen) == state[t] = seen

(* The update goes through: the row still matches and the trigger accepts  *)
(* the move.  Writing the state a row already has is no transition.        *)
Moves(t, seen, to) ==
  Matches(t, seen) /\ (to = state[t] \/ ticket_transition_is_legal(state[t], to))

(* The row after the update; the trigger stamps last_activity_at when the  *)
(* state changed.                                                          *)
Move(t, to) ==
  /\ state'  = [state EXCEPT ![t] = to]
  /\ silent' = [silent EXCEPT ![t] = silent[t] /\ to = state[t]]
  /\ UNCHANGED <<parent, root, contact, route>>

(* A message, a note, a new priority or a new assignee is activity. *)
Touch(t) ==
  /\ silent' = [silent EXCEPT ![t] = FALSE]
  /\ UNCHANGED <<state, parent, root, contact, route>>

------------------------------------------------------------------------------
(* Requests.  A request is idle, or has read something and is about to     *)
(* take its next step.                                                     *)

Idle == [pc |-> "idle", ticket |-> 0, seen |-> "none", to |-> "none",
         who |-> NoContact, thread |-> NoThread]

(* cas: a staff transition; open: an ingestion's; the others: a reply's. *)
Request ==
  [pc     : {"idle", "cas", "open", "reply", "append", "reopen", "reopening", "spawn", "spawning",
             "announce"},
   ticket : 0 .. MaxTickets,
   seen   : TicketState \cup {"none"},
   to     : TicketState \cup {"none"},
   who    : Contacts \cup {NoContact},
   thread : Threads \cup {NoThread}]

Become(r, f) == req' = [req EXCEPT ![r] = f]

(* TicketService.create: an origin, opened on the portal, the widget, the  *)
(* AI layer or by staff.                                                   *)
Create(t, c) ==
  /\ IsNextId(t)
  /\ InsertTicket(t, 0, c, NoThread)
  /\ UNCHANGED req

(* transitionIn up to its read; a refused permission ends the request. *)
ReadForTransition(a, t, to) ==
  /\ req[a] = Idle
  /\ Exists(t)
  /\ canTransition(a, to)
  /\ Become(a, [Idle EXCEPT !.pc = "cas", !.ticket = t, !.seen = state[t], !.to = to])
  /\ UNCHANGED table

(* The conditional update and the commit, or the 409. *)
WriteTransition(a) ==
  LET r == req[a] IN
  /\ r.pc = "cas"
  /\ IF Moves(r.ticket, r.seen, r.to) THEN Move(r.ticket, r.to) ELSE UNCHANGED table
  /\ Become(a, Idle)

(* setPriority and setAssignee: refused on a closed Ticket. *)
Edit(t) == Exists(t) /\ state[t] # "closed" /\ Touch(t) /\ UNCHANGED req

(* MessageService.post and NoteService.write by staff: any Ticket. *)
StaffPost(t) == Exists(t) /\ Touch(t) /\ UNCHANGED req

------------------------------------------------------------------------------
(* Time and the dwell sweep. *)

(* ticket_dwell_window() goes by without activity, on a Ticket a timer     *)
(* looks at; leaving these states is activity.                             *)
FallSilent(t) ==
  /\ state[t] \in {"pending", "resolved"} /\ ~silent[t]
  /\ silent' = [silent EXCEPT ![t] = TRUE]
  /\ UNCHANGED <<state, parent, root, contact, route, req>>

(* One timer over a snapshot of the two columns it reads and writes. *)
DwellTimer(rows, from, to) ==
  [t \in Ids |-> IF rows[t] = [state |-> from, silent |-> TRUE]
                   THEN [state |-> to, silent |-> FALSE] ELSE rows[t]]

(* Fault: the move is not activity, so the second timer takes it too. *)
Dwell_Unstamped(rows) ==
  LET step(rs, from, to) == [t \in Ids |->
        IF rs[t] = [state |-> from, silent |-> TRUE] THEN [rs[t] EXCEPT !.state = to] ELSE rs[t]]
  IN  step(step(rows, "pending", "resolved"), "resolved", "closed")

(* TIMERS: pending to resolved, then resolved to closed, in one            *)
(* transaction.                                                            *)
Dwell(rows) == DwellTimer(DwellTimer(rows, "pending", "resolved"), "resolved", "closed")

DwellSweep ==
  LET rows == Dwell([t \in Ids |-> [state |-> state[t], silent |-> silent[t]]]) IN
  /\ state'  = [t \in Ids |-> rows[t].state]
  /\ silent' = [t \in Ids |-> rows[t].silent]
  /\ UNCHANGED <<parent, root, contact, route, req>>

------------------------------------------------------------------------------
TicketsInit ==
  /\ state   = [t \in Ids |-> "none"]
  /\ parent  = [t \in Ids |-> 0]
  /\ root    = [t \in Ids |-> 0]
  /\ contact = [t \in Ids |-> NoContact]
  /\ route   = [t \in Ids |-> NoThread]
  /\ silent  = [t \in Ids |-> FALSE]
  /\ req     = [r \in Agents \cup Customers |-> Idle]

StaffStep ==
  \/ \E t \in Ids, c \in Contacts : Create(t, c)
  \/ \E a \in Agents, t \in Ids, to \in Asked : ReadForTransition(a, t, to)
  \/ \E a \in Agents : WriteTransition(a)
  \/ \E t \in Ids : Edit(t) \/ StaffPost(t) \/ FallSilent(t)
  \/ DwellSweep
==============================================================================
