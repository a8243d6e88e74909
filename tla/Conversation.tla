----------------------------- MODULE Conversation -----------------------------
(***************************************************************************)
(* A customer's words reaching a Ticket: ContactReplyService               *)
(* (src/src/conversation/contact-reply.service.ts), used by the portal and *)
(* the widget, and SlackIngestionService                                   *)
(* (src/src/slack/slack-ingestion.service.ts), the `inbound.event` job     *)
(* handler, which decides which Ticket a Slack message belongs to and then *)
(* replies or opens.                                                       *)
(*                                                                         *)
(* A Contact's transaction runs under row-level security: it reads its own *)
(* Tickets and no others.  The indexes see every row.                      *)
(***************************************************************************)
EXTENDS Tickets

conversation == <<table, req>>

Sees(c, t) == Exists(t) /\ contact[t] = c

(* replyOutcomeFor, as the step that follows the read. *)
replyOutcomeFor(s) ==
  CASE s \in {"open", "on_hold"}     -> "append"
    [] s \in {"pending", "resolved"} -> "reopen"
    [] s = "closed"                  -> "spawn"

(* A request that ends without having posted: a 4xx, or a job attempt that *)
(* throws.                                                                 *)
Refuse(r) == Become(r, Idle) /\ UNCHANGED table

(* The Message on t commits with everything else the step writes; what is  *)
(* left is the announcement.                                               *)
Post(r, t) == Become(r, [Idle EXCEPT !.pc = "announce", !.ticket = t])

Announce(r) == req[r].pc = "announce" /\ Become(r, Idle) /\ UNCHANGED table

------------------------------------------------------------------------------
(* SlackIngestionService *)

(* ticketOnThread: the live Ticket on the thread, else the newest one,     *)
(* among those the Contact sees.                                           *)
OnThread(c, h) == {t \in Ids : Sees(c, t) /\ route[t] = h}
ticketOnThread(c, h, t) ==
  /\ t \in OnThread(c, h)
  /\ Live(t) \/ \A u \in OnThread(c, h) : ~Live(u) /\ u <= t

(* handle: contactFor has resolved the Contact; the lookup decides between *)
(* appendTo and open, each a transaction of its own.                       *)
Ingest(r, c, h) ==
  /\ req[r] = Idle
  /\ \/ \E t \in Ids :
          /\ ticketOnThread(c, h, t)
          /\ Become(r, [Idle EXCEPT !.pc = "reply", !.who = c, !.ticket = t])
     \/ /\ OnThread(c, h) = {}
        /\ Become(r, [Idle EXCEPT !.pc = "open", !.who = c, !.thread = h])
  /\ UNCHANGED table

(* open: the Ticket and its first Message, or the unique violation. *)
Open(r, t) ==
  /\ req[r].pc = "open"
  /\ ThreadIsFree(req[r].thread)
  /\ IsNextId(t)
  /\ InsertTicket(t, 0, req[r].who, req[r].thread)
  /\ Post(r, t)

OpenRefused(r) == req[r].pc = "open" /\ ~ThreadIsFree(req[r].thread) /\ Refuse(r)

------------------------------------------------------------------------------
(* ContactReplyService *)

(* A portal or widget reply to a Ticket of the Contact's own. *)
Reply(r, c, t) ==
  /\ req[r] = Idle
  /\ Become(r, [Idle EXCEPT !.pc = "reply", !.who = c, !.ticket = t])
  /\ UNCHANGED table

(* Fault: joining the chain's live Ticket appends without asking. *)
Target_JoinsBlindly(r, t) ==
  Become(r, [req[r] EXCEPT !.ticket = t,
                           !.pc = IF req[r].pc = "spawn" THEN "append" ELSE replyOutcomeFor(state[t])])

(* targetFor: what to do next follows from the state just read. *)
targetFor(r, t) == Become(r, [req[r] EXCEPT !.ticket = t, !.pc = replyOutcomeFor(state[t])])

(* reply's first read of the addressed Ticket; an invisible one is a 404. *)
ReadAddressed(r) ==
  /\ req[r].pc = "reply"
  /\ IF Sees(req[r].who, req[r].ticket)
       THEN targetFor(r, req[r].ticket) /\ UNCHANGED table
       ELSE Refuse(r)

(* append: the Message alone, on whatever the Ticket has become since. *)
append(r) ==
  /\ req[r].pc = "append"
  /\ Touch(req[r].ticket)
  /\ Post(r, req[r].ticket)

(* reopen: transitionIn reads the row again ... *)
ReadForReopen(r) ==
  /\ req[r].pc = "reopen"
  /\ Become(r, [req[r] EXCEPT !.pc = "reopening", !.seen = state[req[r].ticket]])
  /\ UNCHANGED table

(* Fault: a count of 0 is not an error, and the Message is posted anyway. *)
Reopen_IgnoresCount(r) ==
  LET t == req[r].ticket IN
  /\ req[r].pc = "reopening"
  /\ IF Moves(t, req[r].seen, "open") THEN Move(t, "open") ELSE Touch(t)
  /\ Post(r, t)

(* ... and moves it to open under its own guard, then posts; or refuses. *)
Reopen(r) ==
  LET t == req[r].ticket IN
  /\ req[r].pc = "reopening"
  /\ IF Moves(t, req[r].seen, "open")
       THEN Move(t, "open") /\ Post(r, t)
       ELSE Refuse(r)

(* spawnOrJoinLive's read: the chain's live Ticket, if the Contact sees    *)
(* one, answers the same question again; else spawn from the addressed one.*)
ReadChain(r) ==
  LET p    == req[r].ticket
      live == {t \in Ids : Sees(req[r].who, t) /\ Live(t) /\ chainRootOf(t) = chainRootOf(p)}
  IN
  /\ req[r].pc = "spawn"
  /\ IF live # {}
       THEN \E t \in live : targetFor(r, t)
       ELSE Become(r, [req[r] EXCEPT !.pc = "spawning"])
  /\ UNCHANGED table

(* The INSERT and its first Message, or the 409 of either index. *)
SpawnIsFree(p) == ChainIsFree(p) /\ ThreadIsFree(RouteUnder(p, NoThread))

Spawn(r, t) ==
  /\ req[r].pc = "spawning"
  /\ SpawnIsFree(req[r].ticket)
  /\ IsNextId(t)
  /\ InsertTicket(t, req[r].ticket, req[r].who, NoThread)
  /\ Post(r, t)

SpawnRefused(r) == req[r].pc = "spawning" /\ ~SpawnIsFree(req[r].ticket) /\ Refuse(r)

------------------------------------------------------------------------------
ConversationInit == TicketsInit

CustomerStep(r) ==
  \/ \E c \in Contacts, h \in Threads : Ingest(r, c, h)
  \/ \E c \in Contacts, t \in Ids : Sees(c, t) /\ Reply(r, c, t)
  \/ \E t \in Ids : Open(r, t) \/ Spawn(r, t)
  \/ OpenRefused(r)
  \/ ReadAddressed(r)
  \/ append(r)
  \/ ReadForReopen(r)
  \/ Reopen(r)
  \/ ReadChain(r)
  \/ SpawnRefused(r)
  \/ Announce(r)

ConversationNext ==
  \/ StaffStep
  \/ \E r \in Customers : CustomerStep(r)

ConversationSpec == ConversationInit /\ [][ConversationNext]_conversation

------------------------------------------------------------------------------
(* Every column and every request holds a value the code can put there. *)
TypeOK ==
  /\ state   \in [Ids -> TicketState \cup {"none"}]
  /\ parent  \in [Ids -> 0 .. MaxTickets]
  /\ root    \in [Ids -> 0 .. MaxTickets]
  /\ contact \in [Ids -> Contacts \cup {NoContact}]
  /\ route   \in [Ids -> Threads \cup {NoThread}]
  /\ silent  \in [Ids -> BOOLEAN]
  /\ req     \in [Agents \cup Customers -> Request]

(* spawnOrJoinLive's invariant: however many replies to a closed Ticket    *)
(* race, a conversation never has two Tickets that are not closed.         *)
OneLivePerChain ==
  \A t, u \in Ids : Live(t) /\ Live(u) /\ chainRootOf(t) = chainRootOf(u) => t = u

(* A Slack thread has at most one Ticket that is not closed, also when     *)
(* different people write in it and conversations end and continue there.  *)
OneLivePerThread ==
  \A t, u \in Ids : Live(t) /\ Live(u) /\ route[t] = route[u] /\ route[t] # NoThread => t = u

(* Ticket t continues the conversation that ended with p. *)
Continues(t, p) ==
  /\ p < t
  /\ state[p] = "closed"
  /\ chainRootOf(t) = chainRootOf(p)
  /\ root[chainRootOf(t)] = 0
  /\ contact[t] = contact[p]
  /\ route[t] = route[p]

(* A spawn continues a finished conversation of the same person on the     *)
(* same thread: its parent is older and closed for good, and root, Contact *)
(* and route agree along the chain.                                        *)
ChainIsCoherent == \A t \in Ids : parent[t] # 0 => Continues(t, parent[t])

(* closed is hard-terminal, and resolved is its one door: no request, no   *)
(* reply and no sweep takes a Ticket there from anywhere else in one step, *)
(* nor out of it.                                                          *)
ClosedHasOneDoor ==
  [][\A t \in Ids : state[t] # state'[t] =>
       /\ state[t] # "closed"
       /\ state'[t] = "closed" => state[t] = "resolved"]_conversation

(* A staff transition is decided on the state its request read: the move   *)
(* that commits starts from there, whatever happened in between.           *)
NoLostTransition ==
  [][\A a \in Agents : req[a].pc = "cas" /\ req'[a] # req[a] =>
       LET t == req[a].ticket IN state'[t] # state[t] => state[t] = req[a].seen]_conversation

(* The step commits r's Message, on req'[r].ticket. *)
Posts(r) == req[r].pc # "announce" /\ req'[r].pc = "announce"

(* A reply that reopens, spawns or opens leaves its Ticket open in the     *)
(* queue: the Message never commits without the move it came with.         *)
MessageComesWithItsReopen ==
  [][\A r \in Customers :
       Posts(r) /\ req[r].pc \in {"reopening", "spawning", "open"}
         => state'[req'[r].ticket] = "open"]_conversation

(* A reply that joins the chain's live Ticket asks that Ticket's own state *)
(* what to do: no path, however many Tickets it went through, sets out to  *)
(* append plainly to one that waits for the customer (targetFor, from      *)
(* spawnOrJoinLive).                                                       *)
JoinsAskAgain ==
  [][\A r \in Customers : req[r].pc # "append" /\ req'[r].pc = "append"
       => state[req'[r].ticket] \in {"open", "on_hold"}]_conversation
==============================================================================
