----------------------------- MODULE WriteProofs -----------------------------
(***************************************************************************)
(* What requests that race write, proved for any number of them: the       *)
(* Tickets of a conversation (any number of Tickets, Contacts and threads) *)
(* and the key that guards a write against its own retries (any number of  *)
(* callers, bodies and retries).                                           *)
(***************************************************************************)
EXTENDS MCIdempotency, Conversation, TLAPS

------------------------------------------------------------------------------
(* The chain invariants of Conversation. *)

(* Rows are created in order, a row that does not exist is in no chain,    *)
(* and the root of a chain is an origin that exists.                       *)
RowsInv ==
  \A t \in Ids :
    /\ Exists(t) => \A u \in Ids : u < t => Exists(u)
    /\ ~Exists(t) => parent[t] = 0 /\ root[t] = 0
    /\ root[t] # 0 => Exists(root[t]) /\ root[root[t]] = 0
    /\ parent[t] # 0 => Exists(parent[t])

(* What a request may rely on between its steps: its Ticket still exists   *)
(* and is still the Contact's, and one it read as closed is still closed.  *)
AgentOK(a) ==
  /\ req[a].pc \in {"idle", "cas"}
  /\ req[a].pc = "cas" => req[a].ticket \in Ids /\ Exists(req[a].ticket)
                            /\ req[a].to \in TicketState

CustomerOK(r) ==
  /\ req[r].pc # "cas"
  /\ req[r].pc = "reply" => req[r].ticket \in Ids
  /\ req[r].pc \in {"append", "reopen", "reopening", "spawn", "spawning"} =>
       req[r].ticket \in Ids /\ Exists(req[r].ticket) /\ contact[req[r].ticket] = req[r].who
  /\ req[r].pc \in {"spawn", "spawning"} => state[req[r].ticket] = "closed"

ReqInv == (\A a \in Agents : AgentOK(a)) /\ (\A r \in Customers : CustomerOK(r))

TicketsInv == TypeOK /\ RowsInv /\ ReqInv /\ OneLivePerChain /\ OneLivePerThread /\ ChainIsCoherent

(***************************************************************************)
(* Every step leaves the linkage alone and moves Tickets along the table,  *)
(* or inserts one row, under a parent that is closed and where both        *)
(* indexes have room.                                                      *)
(***************************************************************************)
Settles ==
  /\ UNCHANGED <<parent, root, contact, route>>
  /\ state' \in [Ids -> TicketState \cup {"none"}]
  /\ \A t \in Ids : state'[t] # state[t] =>
       /\ Live(t)
       /\ state'[t] # "none"
       /\ state'[t] = "closed" => state[t] = "resolved"

Births(t, p, c, h) ==
  /\ IsNextId(t)
  /\ InsertTicket(t, p, c, h)
  /\ p # 0 => p \in Ids /\ state[p] = "closed" /\ contact[p] = c /\ ChainIsFree(p)
  /\ ThreadIsFree(RouteUnder(p, h))

Born == \E t \in Ids, p \in 0 .. MaxTickets, c \in Contacts \cup {NoContact},
           h \in Threads \cup {NoThread} : Births(t, p, c, h)

USE TicketsAssumption

LEMMA InitTicketsInv == ConversationInit => TicketsInv
  BY DEF ConversationInit, TicketsInit, TicketsInv, TypeOK, RowsInv, ReqInv, AgentOK, CustomerOK,
     OneLivePerChain, OneLivePerThread, ChainIsCoherent, Request, Idle, Ids, TicketState, Exists, Live, chainRootOf

(* transitionIn's update moves a row along the table or not at all. *)
LEMMA MoveSettles ==
  ASSUME TypeOK, NEW t \in Ids, NEW seen, NEW to \in TicketState, Moves(t, seen, to), Move(t, to),
         Exists(t)
  PROVE  Settles
  BY Zenon DEF TypeOK, Moves, Move, Settles, Live, Exists, TicketState, ticket_transition_is_legal

(* A sweep moves pending to resolved or resolved to closed, never both. *)
LEMMA DwellSettles == TypeOK /\ DwellSweep => Settles
<1> SUFFICES ASSUME TypeOK, DwellSweep PROVE Settles
  BY Zenon
<1> DEFINE before == [t \in Ids |-> [state |-> state[t], silent |-> silent[t]]]
           first  == DwellTimer(before, "pending", "resolved")
           second == DwellTimer(first, "resolved", "closed")
<1>1. \A t \in Ids : state'[t] = second[t].state
  BY Zenon DEF DwellSweep, Dwell
<1>2. ASSUME NEW t \in Ids
      PROVE  \/ second[t].state = state[t]
             \/ state[t] = "pending" /\ second[t].state = "resolved"
             \/ state[t] = "resolved" /\ second[t].state = "closed"
  <2>1. CASE state[t] = "pending" /\ silent[t] = TRUE
    <3>1. first[t] = [state |-> "resolved", silent |-> FALSE]
      BY <2>1, Zenon DEF DwellTimer
    <3>2. second[t] = first[t]
      BY <3>1, Zenon DEF DwellTimer
    <3> QED BY <2>1, <3>1, <3>2
  <2>2. CASE ~(state[t] = "pending" /\ silent[t] = TRUE)
    <3>1. first[t] = [state |-> state[t], silent |-> silent[t]]
      BY <2>2, Zenon DEF DwellTimer
    <3> QED BY <3>1, Zenon DEF DwellTimer
  <2> QED BY <2>1, <2>2, Zenon
<1>3. state' \in [Ids -> TicketState \cup {"none"}]
  <2>1. state' = [t \in Ids |-> second[t].state]
    BY Zenon DEF DwellSweep, Dwell
  <2> QED BY <2>1, <1>2, Zenon DEF TypeOK, TicketState
<1> QED BY <1>1, <1>2, <1>3, Zenon DEF DwellSweep, Settles, Live

LEMMA TableStep == TypeOK /\ ReqInv /\ [ConversationNext]_conversation => Settles \/ Born
<1> SUFFICES ASSUME TypeOK, ReqInv, [ConversationNext]_conversation PROVE Settles \/ Born
  BY Zenon
<1>0. CASE UNCHANGED table
  BY <1>0, Zenon DEF table, Settles, TypeOK
<1>1. ASSUME NEW t \in Ids, NEW c \in Contacts, Create(t, c) PROVE Born
  <2>1. Births(t, 0, c, NoThread)
    BY <1>1, Zenon DEF Create, Births, RouteUnder, ThreadIsFree
  <2> QED BY <2>1 DEF Born
<1>2. ASSUME NEW a \in Agents, WriteTransition(a) PROVE Settles
  <2>1. CASE UNCHANGED table
    BY <2>1, Zenon DEF table, Settles, TypeOK
  <2>2. CASE ~UNCHANGED table
    BY <1>2, <2>2, MoveSettles, Zenon DEF WriteTransition, ReqInv, AgentOK
  <2> QED BY <2>1, <2>2, Zenon
<1>3. ASSUME NEW t \in Ids, Edit(t) \/ StaffPost(t) \/ FallSilent(t) PROVE Settles
  BY <1>3, Zenon DEF Edit, StaffPost, FallSilent, Touch, Settles, TypeOK
<1>4. CASE DwellSweep
  BY <1>4, DwellSettles, Zenon
<1>5. ASSUME NEW r \in Customers, NEW t \in Ids, Open(r, t) PROVE Born
  <2>1. Births(t, 0, req[r].who, req[r].thread)
    BY <1>5, Zenon DEF Open, Births, RouteUnder
  <2> QED BY <2>1 DEF Born, TypeOK, Request
<1>6. ASSUME NEW r \in Customers, NEW t \in Ids, Spawn(r, t) PROVE Born
  <2>1. Births(t, req[r].ticket, req[r].who, NoThread)
    BY <1>6, Zenon DEF Spawn, SpawnIsFree, Births, ReqInv, CustomerOK
  <2> QED BY <2>1, Zenon DEF Born, TypeOK, Request
<1>7. ASSUME NEW r \in Customers, append(r) PROVE Settles
  BY <1>7, Zenon DEF append, Touch, Settles, TypeOK
<1>8. ASSUME NEW r \in Customers, Reopen(r) PROVE Settles
  <2>1. CASE UNCHANGED table
    BY <2>1, Zenon DEF table, Settles, TypeOK
  <2>2. CASE ~UNCHANGED table
    BY <1>8, <2>2, MoveSettles, Zenon DEF Reopen, Refuse, ReqInv, CustomerOK, TicketState
  <2> QED BY <2>1, <2>2, Zenon
<1>9. ASSUME NEW r \in Customers,
             \/ \E c \in Contacts, h \in Threads : Ingest(r, c, h)
             \/ \E c \in Contacts, t \in Ids : Reply(r, c, t)
             \/ OpenRefused(r) \/ ReadAddressed(r) \/ ReadForReopen(r) \/ ReadChain(r)
             \/ SpawnRefused(r) \/ Announce(r)
      PROVE  UNCHANGED table
  BY <1>9, Zenon DEF Ingest, Reply, OpenRefused, ReadAddressed, ReadForReopen, ReadChain, SpawnRefused,
              Announce, Refuse
<1>10. ASSUME NEW a \in Agents, NEW t \in Ids, NEW to \in Asked, ReadForTransition(a, t, to)
       PROVE  UNCHANGED table
  BY <1>10, Zenon DEF ReadForTransition
<1>11. CASE UNCHANGED conversation
  BY <1>11, <1>0, Zenon DEF conversation
<1> QED BY <1>0, <1>1, <1>2, <1>3, <1>4, <1>5, <1>6, <1>7, <1>8, <1>9, <1>10, <1>11, Zenon
        DEF ConversationNext, StaffStep, CustomerStep

(***************************************************************************)
(* The rows.  Only a birth can disturb them: no other step changes the     *)
(* linkage, makes a row disappear or brings one back from closed.          *)
(***************************************************************************)

LEMMA RowsStep == TypeOK /\ RowsInv /\ (Settles \/ Born) => RowsInv'
<1> SUFFICES ASSUME TypeOK, RowsInv, Settles \/ Born PROVE RowsInv'
  BY Zenon
<1> USE DEF TypeOK, RowsInv, Exists, Ids
<1>1. CASE Settles
  BY <1>1 DEF Settles, Live
<1>2. ASSUME NEW t \in Ids, NEW p \in 0 .. MaxTickets, NEW c, NEW h, Births(t, p, c, h)
      PROVE  RowsInv'
  BY <1>2 DEF Births, InsertTicket, IsNextId, RootUnder, chainRootOf
<1> QED BY <1>1, <1>2, Zenon DEF Born

(* The fresh row is the only one in its chain, or the index said so. *)
LEMMA OneLiveStep ==
  TypeOK /\ RowsInv /\ OneLivePerChain /\ (Settles \/ Born) => OneLivePerChain'
<1> SUFFICES ASSUME TypeOK, RowsInv, OneLivePerChain, Settles \/ Born PROVE OneLivePerChain'
  BY Zenon
<1> USE DEF TypeOK, RowsInv, OneLivePerChain, Exists, Live, chainRootOf, Ids
<1>1. CASE Settles
  BY <1>1, Zenon DEF Settles
<1>2. ASSUME NEW t \in Ids, NEW p \in 0 .. MaxTickets, NEW c, NEW h, Births(t, p, c, h)
      PROVE  OneLivePerChain'
  <2>1. \A u \in Ids : u # t => root'[u] = root[u] /\ state'[u] = state[u]
    BY <1>2, Zenon DEF Births, InsertTicket
  <2>2. ASSUME NEW u \in Ids, u # t, Live(u) PROVE chainRootOf(u) # chainRootOf(t)'
    BY <1>2, <2>2, Zenon DEF Births, InsertTicket, IsNextId, RootUnder, ChainIsFree
  <2> SUFFICES ASSUME NEW u \in Ids, NEW v \in Ids, u # v, Live(u)', Live(v)'
               PROVE  chainRootOf(u)' # chainRootOf(v)'
    BY Zenon
  <2>3. CASE u # t /\ v # t
    BY <2>1, <2>3, Zenon
  <2>4. CASE u = t
    BY <2>1, <2>2, <2>4
  <2>5. CASE v = t
    BY <2>1, <2>2, <2>5
  <2> QED BY <2>3, <2>4, <2>5, Zenon
<1> QED BY <1>1, <1>2, Zenon DEF Born

(* So is its thread free of live rows, or the other index said so. *)
LEMMA OneThreadStep ==
  TypeOK /\ OneLivePerThread /\ (Settles \/ Born) => OneLivePerThread'
<1> SUFFICES ASSUME TypeOK, OneLivePerThread, Settles \/ Born PROVE OneLivePerThread'
  BY Zenon
<1> USE DEF TypeOK, OneLivePerThread, Live
<1>1. CASE Settles
  BY <1>1, Zenon DEF Settles
<1>2. ASSUME NEW t \in Ids, NEW p \in 0 .. MaxTickets, NEW c, NEW h, Births(t, p, c, h)
      PROVE  OneLivePerThread'
  <2>1. \A u \in Ids : u # t => route'[u] = route[u] /\ state'[u] = state[u]
    BY <1>2, Zenon DEF Births, InsertTicket
  <2>2. route'[t] = NoThread \/ \A u \in Ids : Live(u) => route[u] # route'[t]
    BY <1>2, Zenon DEF Births, InsertTicket, ThreadIsFree
  <2> SUFFICES ASSUME NEW u \in Ids, NEW v \in Ids, u # v, Live(u)', Live(v)', route'[u] # NoThread
               PROVE  route'[u] # route'[v]
    BY Zenon
  <2>3. CASE u # t /\ v # t
    BY <2>1, <2>3, Zenon
  <2>4. CASE u = t
    BY <2>1, <2>2, <2>4, Zenon
  <2>5. CASE v = t
    BY <2>1, <2>2, <2>5, Zenon
  <2> QED BY <2>3, <2>4, <2>5, Zenon
<1> QED BY <1>1, <1>2, Zenon DEF Born

(* A closed parent stays closed, and a spawn takes everything from it. *)
LEMMA ChainStep ==
  TypeOK /\ RowsInv /\ ChainIsCoherent /\ (Settles \/ Born) => ChainIsCoherent'
<1> SUFFICES ASSUME TypeOK, RowsInv, ChainIsCoherent, Settles \/ Born PROVE ChainIsCoherent'
  BY Zenon
<1> USE DEF RowsInv, Exists, Live, chainRootOf, Ids
<1>0. parent \in [Ids -> 0 .. MaxTickets] /\ root \in [Ids -> 0 .. MaxTickets]
  BY Zenon DEF TypeOK
<1>1. CASE Settles
  <2> SUFFICES ASSUME NEW u \in Ids, parent'[u] # 0 PROVE Continues(u, parent[u])'
    BY Zenon DEF ChainIsCoherent
  <2>1. Continues(u, parent[u]) /\ parent[u] \in Ids
    BY <1>0, <1>1 DEF Settles, ChainIsCoherent
  <2>2. state'[parent[u]] = "closed"
    BY <1>1, <2>1, Zenon DEF Settles, Continues
  <2> QED BY <1>1, <2>1, <2>2, Zenon DEF Settles, Continues
<1>2. ASSUME NEW t \in Ids, NEW p \in 0 .. MaxTickets, NEW c, NEW h, Births(t, p, c, h)
      PROVE  ChainIsCoherent'
  <2>1. \A u \in Ids : u # t =>
          /\ parent'[u] = parent[u] /\ root'[u] = root[u] /\ state'[u] = state[u]
          /\ contact'[u] = contact[u] /\ route'[u] = route[u]
    BY <1>2, Zenon DEF Births, InsertTicket, TypeOK
  <2>2. state[t] = "none" /\ \A u \in Ids : parent[u] # t /\ root[u] # t
    BY <1>0, <1>2 DEF Births, IsNextId
  <2> SUFFICES ASSUME NEW u \in Ids, parent'[u] # 0 PROVE Continues(u, parent[u])'
    BY Zenon DEF ChainIsCoherent
  <2>3. CASE u # t
    <3>1. parent'[u] = parent[u] /\ parent[u] \in Ids /\ parent[u] # t
      BY <1>0, <2>1, <2>2, <2>3
    <3>2. chainRootOf(u) \in Ids /\ chainRootOf(u) # t
      BY <1>0, <2>2, <2>3
    <3>3. Continues(u, parent[u])
      BY <2>1, <2>3, Zenon DEF ChainIsCoherent
    <3> QED BY <2>1, <2>3, <3>1, <3>2, <3>3 DEF Continues
  <2>4. CASE u = t
    <3>1. parent'[t] = p /\ p # 0
      BY <1>0, <1>2, <2>4, Zenon DEF Births, InsertTicket
    <3>2. p \in Ids /\ p # t /\ state[p] = "closed" /\ contact[p] = c
      BY <1>2, <3>1, <2>2, Zenon DEF Births
    <3>3. p < t
      BY <3>2, <2>2
    <3>4. root'[t] = chainRootOf(p) /\ contact'[t] = c /\ route'[t] = route[p]
      BY <1>2, <3>1, Zenon DEF Births, InsertTicket, RootUnder, RouteUnder, TypeOK
    <3>5. chainRootOf(p) \in Ids /\ chainRootOf(p) # t /\ root[chainRootOf(p)] = 0
      BY <1>0, <3>2, <2>2
    <3> QED BY <2>1, <2>4, <3>1, <3>2, <3>3, <3>4, <3>5 DEF Continues
  <2> QED BY <2>3, <2>4, Zenon
<1> QED BY <1>1, <1>2, Zenon DEF Born

(***************************************************************************)
(* The requests.  What a request has read about the linkage and about a    *)
(* closed Ticket stays true, whoever else runs.                            *)
(***************************************************************************)
LEMMA StableReads ==
  ASSUME TypeOK, Settles \/ Born, NEW t \in Ids, Exists(t)
  PROVE  /\ Exists(t)'
         /\ contact'[t] = contact[t]
         /\ state[t] = "closed" => state'[t] = "closed"
<1> USE DEF TypeOK, Exists, Live
<1>1. CASE Settles
  BY <1>1, Zenon DEF Settles
<1>2. ASSUME NEW u \in Ids, NEW p \in 0 .. MaxTickets, NEW c, NEW h, Births(u, p, c, h)
      PROVE  u # t /\ state'[t] = state[t] /\ contact'[t] = contact[t]
  BY <1>2, Zenon DEF Births, InsertTicket, IsNextId
<1> QED BY <1>1, <1>2, Zenon DEF Born

LEMMA ReqFrame ==
  ASSUME TypeOK, ReqInv, Settles \/ Born,
         NEW r \in Agents \cup Customers, NEW f, Become(r, f),
         r \in Agents => AgentOK(r)', r \in Customers => CustomerOK(r)'
  PROVE  ReqInv'
<1> USE DEF TypeOK, ReqInv, AgentOK, CustomerOK, Become
<1>1. ASSUME NEW a \in Agents, a # r PROVE AgentOK(a)'
  <2>1. req'[a] = req[a]
    BY <1>1, Zenon
  <2> QED BY <2>1, StableReads, Zenon
<1>2. ASSUME NEW q \in Customers, q # r PROVE CustomerOK(q)'
  <2>1. req'[q] = req[q]
    BY <1>2, Zenon
  <2> QED BY <2>1, StableReads
<1> QED BY <1>1, <1>2

LEMMA ReqUnchanged == TypeOK /\ ReqInv /\ (Settles \/ Born) /\ UNCHANGED req => ReqInv'
  BY StableReads DEF ReqInv, AgentOK, CustomerOK

LEMMA ReqStep == TypeOK /\ ReqInv /\ [ConversationNext]_conversation => ReqInv'
<1> SUFFICES ASSUME TypeOK, ReqInv, [ConversationNext]_conversation PROVE ReqInv'
  BY Zenon
<1>0. Settles \/ Born
  BY TableStep, Zenon
<1>1. CASE UNCHANGED req
  BY <1>0, <1>1, ReqUnchanged, Zenon
<1>2. ASSUME NEW r \in Agents \cup Customers, Become(r, Idle) PROVE ReqInv'
  <2>1. req'[r] = Idle
    BY <1>2, Zenon DEF Become, TypeOK
  <2>2. AgentOK(r)' /\ CustomerOK(r)'
    BY <2>1 DEF AgentOK, CustomerOK, Idle
  <2> QED BY <1>0, <1>2, <2>2, ReqFrame, Zenon
<1>3. ASSUME NEW a \in Agents, NEW t \in Ids, NEW to \in Asked, ReadForTransition(a, t, to)
      PROVE  ReqInv'
  <2> DEFINE f == [Idle EXCEPT !.pc = "cas", !.ticket = t, !.seen = state[t], !.to = to]
  <2>1. Become(a, f) /\ req'[a] = f
    BY <1>3, Zenon DEF ReadForTransition, Become, TypeOK
  <2>2. AgentOK(a)'
    BY <1>3, <2>1, Zenon DEF AgentOK, ReadForTransition, Exists, table, Idle, TicketState
  <2> QED BY <1>0, <2>1, <2>2, ReqFrame, Zenon
<1>4. ASSUME NEW r \in Customers, NEW c \in Contacts, NEW t \in Ids,
             Become(r, [Idle EXCEPT !.pc = "reply", !.who = c, !.ticket = t])
      PROVE  ReqInv'
  <2> DEFINE f == [Idle EXCEPT !.pc = "reply", !.who = c, !.ticket = t]
  <2>1. req'[r] = f
    BY <1>4, Zenon DEF Become, TypeOK
  <2>2. CustomerOK(r)'
    BY <2>1, Zenon DEF CustomerOK, Idle
  <2> QED BY <1>0, <1>4, <2>2, ReqFrame, Zenon
<1>5. ASSUME NEW r \in Customers, NEW c \in Contacts, NEW h \in Threads, Ingest(r, c, h)
      PROVE  ReqInv'
  <2>1. CASE Become(r, [Idle EXCEPT !.pc = "open", !.who = c, !.thread = h])
    <3> DEFINE f == [Idle EXCEPT !.pc = "open", !.who = c, !.thread = h]
    <3>1. req'[r] = f
      BY <2>1, Zenon DEF Become, TypeOK
    <3>2. CustomerOK(r)'
      BY <3>1, Zenon DEF CustomerOK, Idle
    <3> QED BY <1>0, <2>1, <3>2, ReqFrame, Zenon
  <2> QED BY <1>4, <1>5, <2>1, Zenon DEF Ingest
<1>6. ASSUME NEW r \in Customers, NEW t \in Ids, Post(r, t) PROVE ReqInv'
  <2> DEFINE f == [Idle EXCEPT !.pc = "announce", !.ticket = t]
  <2>1. Become(r, f) /\ req'[r] = f
    BY <1>6, Zenon DEF Post, Become, TypeOK
  <2>2. CustomerOK(r)'
    BY <2>1, Zenon DEF CustomerOK, Idle
  <2> QED BY <1>0, <2>1, <2>2, ReqFrame, Zenon
<1>7. ASSUME NEW r \in Customers, NEW t \in Ids, Sees(req[r].who, t), targetFor(r, t),
             UNCHANGED table
      PROVE  ReqInv'
  <2> DEFINE f == [req[r] EXCEPT !.ticket = t, !.pc = replyOutcomeFor(state[t])]
  <2>0. req[r] \in Request
    BY Zenon DEF TypeOK
  <2>1. Become(r, f) /\ req'[r] = f
    BY <1>7, Zenon DEF targetFor, Become, TypeOK
  <2>2. /\ req'[r].ticket = t /\ req'[r].who = req[r].who
        /\ req'[r].pc = replyOutcomeFor(state[t])
    BY <2>0, <2>1, Zenon DEF Request
  <2>3. /\ replyOutcomeFor(state[t]) \in {"append", "reopen", "spawn"}
        /\ replyOutcomeFor(state[t]) = "spawn" => state[t] = "closed"
    BY <1>7, Zenon DEF replyOutcomeFor, Sees, Exists, TypeOK, TicketState
  <2>4. CustomerOK(r)'
    BY <1>7, <2>2, <2>3, Zenon DEF CustomerOK, Sees, Exists, table
  <2> QED BY <1>0, <2>1, <2>4, ReqFrame, Zenon
<1>8. ASSUME NEW r \in Customers, ReadForReopen(r) PROVE ReqInv'
  <2> DEFINE f == [req[r] EXCEPT !.pc = "reopening", !.seen = state[req[r].ticket]]
  <2>0. req[r] \in Request
    BY Zenon DEF TypeOK
  <2>1. Become(r, f) /\ req'[r] = f
    BY <1>8, Zenon DEF ReadForReopen, Become, TypeOK
  <2>2. req'[r].ticket = req[r].ticket /\ req'[r].who = req[r].who /\ req'[r].pc = "reopening"
    BY <2>0, <2>1, Zenon DEF Request
  <2>3. CustomerOK(r)'
    BY <1>8, <2>2, Zenon DEF ReqInv, CustomerOK, ReadForReopen, Exists, table
  <2> QED BY <1>0, <2>1, <2>3, ReqFrame, Zenon
<1>9. ASSUME NEW r \in Customers, ReadChain(r), Become(r, [req[r] EXCEPT !.pc = "spawning"])
      PROVE  ReqInv'
  <2> DEFINE f == [req[r] EXCEPT !.pc = "spawning"]
  <2>0. req[r] \in Request
    BY Zenon DEF TypeOK
  <2>1. req'[r] = f
    BY <1>9, Zenon DEF Become, TypeOK
  <2>2. req'[r].ticket = req[r].ticket /\ req'[r].who = req[r].who /\ req'[r].pc = "spawning"
    BY <2>0, <2>1, Zenon DEF Request
  <2>3. CustomerOK(r)'
    BY <1>9, <2>2, Zenon DEF ReqInv, CustomerOK, ReadChain, Exists, table
  <2> QED BY <1>0, <1>9, <2>3, ReqFrame, Zenon
<1>10. ASSUME NEW r \in Customers, CustomerStep(r) PROVE ReqInv'
  <2>1. CASE \E c \in Contacts, h \in Threads : Ingest(r, c, h)
    BY <2>1, <1>5, Zenon
  <2>2. CASE \E c \in Contacts, t \in Ids : Sees(c, t) /\ Reply(r, c, t)
    BY <2>2, <1>4, Zenon DEF Reply
  <2>3. CASE \E t \in Ids : Open(r, t) \/ Spawn(r, t)
    BY <2>3, <1>6, Zenon DEF Open, Spawn
  <2>4. CASE OpenRefused(r) \/ SpawnRefused(r) \/ Announce(r)
    BY <2>4, <1>2, Zenon DEF OpenRefused, SpawnRefused, Announce, Refuse
  <2>5. CASE ReadAddressed(r)
    BY <2>5, <1>2, <1>7, Zenon DEF ReadAddressed, Refuse, ReqInv, CustomerOK
  <2>6. CASE append(r) \/ Reopen(r)
    BY <2>6, <1>2, <1>6, Zenon DEF append, Reopen, Refuse, ReqInv, CustomerOK
  <2>7. CASE ReadForReopen(r)
    BY <2>7, <1>8, Zenon
  <2>8. CASE ReadChain(r)
    BY <2>8, <1>7, <1>9, Zenon DEF ReadChain
  <2> QED BY <1>10, <2>1, <2>2, <2>3, <2>4, <2>5, <2>6, <2>7, <2>8, Zenon DEF CustomerStep
<1>11. CASE StaffStep
  BY <1>11, <1>1, <1>2, <1>3, Zenon DEF StaffStep, Create, WriteTransition, Edit, StaffPost, FallSilent,
     DwellSweep
<1>12. CASE UNCHANGED conversation
  BY <1>12, <1>1, Zenon DEF conversation
<1> QED BY <1>10, <1>11, <1>12, Zenon DEF ConversationNext

LEMMA SilentType == TypeOK /\ [ConversationNext]_conversation => silent' \in [Ids -> BOOLEAN]
<1> SUFFICES ASSUME TypeOK, [ConversationNext]_conversation PROVE silent' \in [Ids -> BOOLEAN]
  BY Zenon
<1>0. silent \in [Ids -> BOOLEAN]
  BY Zenon DEF TypeOK
<1>1. ASSUME NEW t \in Ids, NEW p, NEW c, NEW h, InsertTicket(t, p, c, h)
      PROVE  silent' \in [Ids -> BOOLEAN]
  BY <1>0, <1>1, Zenon DEF InsertTicket
<1>2. ASSUME NEW t, NEW to, Move(t, to) PROVE silent' \in [Ids -> BOOLEAN]
  BY <1>0, <1>2, Zenon DEF Move
<1>3. ASSUME NEW t, Touch(t) PROVE silent' \in [Ids -> BOOLEAN]
  BY <1>0, <1>3, Zenon DEF Touch
<1>4. CASE DwellSweep
  <2> DEFINE before == [t \in Ids |-> [state |-> state[t], silent |-> silent[t]]]
             first  == DwellTimer(before, "pending", "resolved")
             second == DwellTimer(first, "resolved", "closed")
  <2>1. silent' = [t \in Ids |-> second[t].silent]
    BY <1>4, Zenon DEF DwellSweep, Dwell
  <2>2. \A t \in Ids : first[t].silent \in BOOLEAN
    BY <1>0, Zenon DEF DwellTimer
  <2>3. \A t \in Ids : second[t].silent \in BOOLEAN
    BY <2>2, Zenon DEF DwellTimer
  <2> HIDE DEF second
  <2> QED BY <2>1, <2>3, Zenon
<1>5. CASE UNCHANGED table
  BY <1>0, <1>5, Zenon DEF table
<1>6. CASE StaffStep
  BY <1>0, <1>1, <1>2, <1>3, <1>4, <1>5, <1>6, Zenon DEF StaffStep, Create, ReadForTransition,
     WriteTransition, Edit, StaffPost, FallSilent
<1>7. ASSUME NEW r \in Customers, CustomerStep(r) PROVE silent' \in [Ids -> BOOLEAN]
  BY <1>1, <1>2, <1>3, <1>5, <1>7, Zenon DEF CustomerStep, Ingest, Reply, Open, OpenRefused,
     ReadAddressed, append, ReadForReopen, Reopen, ReadChain, Spawn, SpawnRefused, Announce, Refuse
<1>8. CASE UNCHANGED conversation
  BY <1>5, <1>8, Zenon DEF conversation
<1> QED BY <1>6, <1>7, <1>8, Zenon DEF ConversationNext

(* What targetFor and the read before a reopen write is again a request. *)
LEMMA RequestUpdates ==
  ASSUME NEW q \in Request, NEW t \in 0 .. MaxTickets, NEW s \in TicketState \cup {"none"},
         NEW l \in {"append", "reopen", "spawn"}
  PROVE  /\ [q EXCEPT !.ticket = t, !.pc = l] \in Request
         /\ [q EXCEPT !.pc = "reopening", !.seen = s] \in Request
<1>1. [q EXCEPT !.ticket = t, !.pc = l] \in Request
  BY Zenon DEF Request
<1>2. [q EXCEPT !.pc = "reopening", !.seen = s] \in Request
  BY Zenon DEF Request
<1> QED BY <1>1, <1>2, Zenon

LEMMA ReqType == TypeOK /\ ReqInv /\ [ConversationNext]_conversation => req' \in [Agents \cup Customers -> Request]
<1> SUFFICES ASSUME TypeOK, ReqInv, [ConversationNext]_conversation
             PROVE  req' \in [Agents \cup Customers -> Request]
  BY Zenon
<1> DEFINE Goal == req' \in [Agents \cup Customers -> Request]
<1>0. req \in [Agents \cup Customers -> Request]
  BY Zenon DEF TypeOK
<1>1. ASSUME NEW r \in Agents \cup Customers, NEW f \in Request, Become(r, f) PROVE Goal
  BY <1>0, <1>1, Zenon DEF Become
<1>2. Idle \in Request
  BY DEF Idle, Request
<1>t. \A t \in Ids : t \in 0 .. MaxTickets
  BY DEF Ids
<1>s. \A t \in Ids : state[t] \in TicketState \cup {"none"}
  BY Zenon DEF TypeOK
<1>3. ASSUME NEW a \in Agents, NEW t \in Ids, NEW to \in Asked, ReadForTransition(a, t, to)
      PROVE  Goal
  <2>1. [Idle EXCEPT !.pc = "cas", !.ticket = t, !.seen = state[t], !.to = to] \in Request
    BY <1>2, <1>t, <1>s, Zenon DEF Request, TicketState
  <2> QED BY <1>1, <1>3, <2>1, Zenon DEF ReadForTransition
<1>4. ASSUME NEW r \in Customers, NEW c \in Contacts, NEW t \in Ids,
             Become(r, [Idle EXCEPT !.pc = "reply", !.who = c, !.ticket = t])
      PROVE  Goal
  <2>1. [Idle EXCEPT !.pc = "reply", !.who = c, !.ticket = t] \in Request
    BY <1>2, <1>t, Zenon DEF Request
  <2> QED BY <1>1, <1>4, <2>1, Zenon
<1>5. ASSUME NEW r \in Customers, NEW c \in Contacts, NEW h \in Threads, Ingest(r, c, h)
      PROVE  Goal
  <2>1. [Idle EXCEPT !.pc = "open", !.who = c, !.thread = h] \in Request
    BY <1>2, Zenon DEF Request
  <2> QED BY <1>1, <1>4, <1>5, <2>1, Zenon DEF Ingest
<1>6. ASSUME NEW r \in Customers, NEW t \in Ids, Post(r, t) PROVE Goal
  <2>1. [Idle EXCEPT !.pc = "announce", !.ticket = t] \in Request
    BY <1>2, <1>t, Zenon DEF Request
  <2> QED BY <1>1, <1>6, <2>1, Zenon DEF Post
<1>7. ASSUME NEW r \in Customers, NEW t \in Ids, Sees(req[r].who, t), targetFor(r, t) PROVE Goal
  <2>1. replyOutcomeFor(state[t]) \in {"append", "reopen", "spawn"}
    BY <1>7, Zenon DEF replyOutcomeFor, Sees, Exists, TypeOK, TicketState
  <2>2. [req[r] EXCEPT !.ticket = t, !.pc = replyOutcomeFor(state[t])] \in Request
    BY <1>0, <1>t, <2>1, RequestUpdates, Zenon
  <2> QED BY <1>1, <1>7, <2>2, Zenon DEF targetFor
<1>8. ASSUME NEW r \in Customers, ReadForReopen(r) PROVE Goal
  <2>1. state[req[r].ticket] \in TicketState \cup {"none"}
    BY <1>8, Zenon DEF ReadForReopen, ReqInv, CustomerOK, TypeOK
  <2>2. [req[r] EXCEPT !.pc = "reopening", !.seen = state[req[r].ticket]] \in Request
    <3>1. req[r] \in Request /\ 0 \in 0 .. MaxTickets
      BY <1>0, TicketsAssumption
    <3> QED BY <2>1, <3>1, RequestUpdates, Zenon
  <2> QED BY <1>1, <1>8, <2>2, Zenon DEF ReadForReopen
<1>9. ASSUME NEW r \in Customers, Become(r, [req[r] EXCEPT !.pc = "spawning"]) PROVE Goal
  <2>1. [req[r] EXCEPT !.pc = "spawning"] \in Request
    BY <1>0 DEF Request
  <2> QED BY <1>1, <1>9, <2>1, Zenon
<1>10. ASSUME NEW r \in Customers, CustomerStep(r) PROVE Goal
  <2>1. CASE \E c \in Contacts, h \in Threads : Ingest(r, c, h)
    BY <2>1, <1>5, Zenon
  <2>2. CASE \E c \in Contacts, t \in Ids : Sees(c, t) /\ Reply(r, c, t)
    BY <2>2, <1>4, Zenon DEF Reply
  <2>3. CASE \E t \in Ids : Open(r, t) \/ Spawn(r, t)
    BY <2>3, <1>6, Zenon DEF Open, Spawn
  <2>4. CASE OpenRefused(r) \/ SpawnRefused(r) \/ Announce(r)
    BY <2>4, <1>1, <1>2, Zenon DEF OpenRefused, SpawnRefused, Announce, Refuse
  <2>5. CASE ReadAddressed(r)
    BY <2>5, <1>1, <1>2, <1>7, Zenon DEF ReadAddressed, Refuse, ReqInv, CustomerOK
  <2>6. CASE append(r) \/ Reopen(r)
    BY <2>6, <1>1, <1>2, <1>6, Zenon DEF append, Reopen, Refuse, ReqInv, CustomerOK
  <2>7. CASE ReadForReopen(r)
    BY <2>7, <1>8, Zenon
  <2>8. CASE ReadChain(r)
    BY <2>8, <1>7, <1>9, Zenon DEF ReadChain
  <2> QED BY <1>10, <2>1, <2>2, <2>3, <2>4, <2>5, <2>6, <2>7, <2>8, Zenon DEF CustomerStep
<1>11. CASE StaffStep
  BY <1>0, <1>1, <1>2, <1>3, <1>11, Zenon DEF StaffStep, Create, WriteTransition, Edit, StaffPost,
     FallSilent, DwellSweep
<1>12. CASE UNCHANGED conversation
  BY <1>0, <1>12, Zenon DEF conversation
<1> QED BY <1>10, <1>11, <1>12, Zenon DEF ConversationNext

LEMMA TypeStep == TypeOK /\ ReqInv /\ [ConversationNext]_conversation => TypeOK'
<1> SUFFICES ASSUME TypeOK, ReqInv, [ConversationNext]_conversation PROVE TypeOK'
  BY Zenon
<1>0. (Settles \/ Born) /\ silent' \in [Ids -> BOOLEAN]
        /\ req' \in [Agents \cup Customers -> Request]
  BY TableStep, SilentType, ReqType, Zenon
<1>1. CASE Settles
  BY <1>0, <1>1, Zenon DEF Settles, TypeOK
<1>2. ASSUME NEW t \in Ids, NEW p \in 0 .. MaxTickets, NEW c \in Contacts \cup {NoContact},
             NEW h \in Threads \cup {NoThread}, Births(t, p, c, h)
      PROVE  TypeOK'
  <2>1. RootUnder(p) \in 0 .. MaxTickets /\ RouteUnder(p, h) \in Threads \cup {NoThread}
    BY <1>2 DEF TypeOK, RootUnder, RouteUnder, chainRootOf, Ids
  <2> QED BY <1>0, <1>2, <2>1, Zenon DEF Births, InsertTicket, TypeOK, TicketState
<1> QED BY <1>0, <1>1, <1>2, Zenon DEF Born

(***************************************************************************)
(* A request is moved by its own steps only.                               *)
(***************************************************************************)
LEMMA OwnStep ==
  ASSUME TypeOK, [ConversationNext]_conversation, NEW r \in Agents \cup Customers, req'[r] # req[r]
  PROVE  /\ r \in Customers => CustomerStep(r)
         /\ r \in Agents => \/ WriteTransition(r)
                            \/ \E t \in Ids, to \in Asked : ReadForTransition(r, t, to)
<1>1. ASSUME NEW q \in Agents \cup Customers, NEW f, Become(q, f) PROVE q = r
  BY <1>1, Zenon DEF Become, TypeOK
<1>2. ASSUME NEW a \in Agents, WriteTransition(a) PROVE a = r
  BY <1>1, <1>2, Zenon DEF WriteTransition
<1>3. ASSUME NEW a \in Agents, NEW t \in Ids, NEW to \in Asked, ReadForTransition(a, t, to)
      PROVE  a = r
  BY <1>1, <1>3, Zenon DEF ReadForTransition
<1>4. ASSUME NEW q \in Customers, CustomerStep(q) PROVE q = r
  <2>1. \E f : Become(q, f)
    BY <1>4, Zenon DEF CustomerStep, Ingest, Reply, Open, OpenRefused, ReadAddressed, append,
       ReadForReopen, Reopen, ReadChain, Spawn, SpawnRefused, Announce, Refuse, Post, targetFor
  <2> QED BY <1>1, <2>1, Zenon
<1>5. CASE StaffStep
  <2>1. \/ \E a \in Agents : WriteTransition(a)
        \/ \E a \in Agents, t \in Ids, to \in Asked : ReadForTransition(a, t, to)
    BY <1>5, Zenon DEF StaffStep, Create, Edit, StaffPost, FallSilent, DwellSweep
  <2> QED BY <1>2, <1>3, <2>1, Zenon
<1>6. CASE \E q \in Customers : CustomerStep(q)
  BY <1>4, <1>6, Zenon
<1>7. CASE UNCHANGED conversation
  BY <1>7, Zenon DEF conversation
<1> QED BY <1>5, <1>6, <1>7, Zenon DEF ConversationNext

(***************************************************************************)
(* The theorems.                                                           *)
(***************************************************************************)

LEMMA TicketsInvStep == TicketsInv /\ [ConversationNext]_conversation => TicketsInv'
  BY TypeStep, TableStep, RowsStep, ReqStep, OneLiveStep, OneThreadStep, ChainStep, Zenon DEF TicketsInv

LEMMA TicketsInvariance == ConversationSpec => []TicketsInv
<1>1. ConversationInit => TicketsInv
  BY InitTicketsInv, Zenon
<1>2. TicketsInv /\ [ConversationNext]_conversation => TicketsInv'
  BY TicketsInvStep, Zenon
<1> QED BY <1>1, <1>2, PTL DEF ConversationSpec

(* Every column and every request in flight keeps its type. *)
THEOREM ConversationTypeOK == ConversationSpec => []TypeOK
<1>1. TicketsInv => TypeOK
  BY Zenon DEF TicketsInv
<1> QED BY <1>1, TicketsInvariance, PTL

(* A conversation has at most one Ticket that is not closed, however many  *)
(* replies, ingestion jobs, staff requests and sweeps run at once.         *)
THEOREM AtMostOneLivePerChain == ConversationSpec => []OneLivePerChain
<1>1. TicketsInv => OneLivePerChain
  BY Zenon DEF TicketsInv
<1> QED BY <1>1, TicketsInvariance, PTL

(* A Slack thread has at most one Ticket that is not closed, whoever       *)
(* writes in it and however its conversations end and continue.            *)
THEOREM AtMostOneLivePerThread == ConversationSpec => []OneLivePerThread
<1>1. TicketsInv => OneLivePerThread
  BY Zenon DEF TicketsInv
<1> QED BY <1>1, TicketsInvariance, PTL

(* A spawned Ticket continues an older, closed Ticket of the same Contact  *)
(* on the same thread, in the same chain.                                  *)
THEOREM ChainsAreCoherent == ConversationSpec => []ChainIsCoherent
<1>1. TicketsInv => ChainIsCoherent
  BY Zenon DEF TicketsInv
<1> QED BY <1>1, TicketsInvariance, PTL

(* Nothing leaves closed and only resolved leads there, sweeps included. *)
THEOREM ClosedIsHardTerminal == ConversationSpec => ClosedHasOneDoor
<1>1. TicketsInv /\ [ConversationNext]_conversation => [\A t \in Ids : state[t] # state'[t] =>
                                 /\ state[t] # "closed"
                                 /\ state'[t] = "closed" => state[t] = "resolved"]_conversation
  <2> SUFFICES ASSUME TicketsInv, [ConversationNext]_conversation, NEW t \in Ids, state[t] # state'[t]
               PROVE  /\ state[t] # "closed"
                      /\ state'[t] = "closed" => state[t] = "resolved"
    BY Zenon
  <2>1. Settles \/ Born
    BY TableStep, Zenon DEF TicketsInv
  <2>2. CASE Settles
    BY <2>2, Zenon DEF Settles, Live
  <2>3. CASE Born
    BY <2>3, Zenon DEF Born, Births, InsertTicket, IsNextId, Exists, TicketsInv, TypeOK
  <2> QED BY <2>1, <2>2, <2>3, Zenon
<1> QED BY <1>1, TicketsInvariance, PTL DEF ConversationSpec, ClosedHasOneDoor

(* A staff move that commits starts from the state its request read. *)
THEOREM TransitionsAreNotLost == ConversationSpec => NoLostTransition
<1>1. TicketsInv /\ [ConversationNext]_conversation =>
        [\A a \in Agents : req[a].pc = "cas" /\ req'[a] # req[a] =>
           LET t == req[a].ticket IN state'[t] # state[t] => state[t] = req[a].seen]_conversation
  <2> SUFFICES ASSUME TicketsInv, [ConversationNext]_conversation, NEW a \in Agents, req[a].pc = "cas", req'[a] # req[a],
                      state'[req[a].ticket] # state[req[a].ticket]
               PROVE  state[req[a].ticket] = req[a].seen
    BY Zenon
  <2>1. WriteTransition(a)
    <3>1. \A t \in Ids, to \in Asked : ~ReadForTransition(a, t, to)
      BY DEF ReadForTransition, Idle
    <3> QED BY <3>1, OwnStep, Zenon DEF TicketsInv
  <2> QED BY <2>1, Zenon DEF WriteTransition, Moves, Matches, table
<1> QED BY <1>1, TicketsInvariance, PTL DEF ConversationSpec, NoLostTransition

(* A reply sets out to append plainly only to a Ticket it has just read as *)
(* open or on hold, also when it joins another Ticket of the chain.        *)
THEOREM EveryJoinAsksAgain == ConversationSpec => JoinsAskAgain
<1>1. TicketsInv /\ [ConversationNext]_conversation =>
        [\A r \in Customers : req[r].pc # "append" /\ req'[r].pc = "append"
           => state[req'[r].ticket] \in {"open", "on_hold"}]_conversation
  <2> SUFFICES ASSUME TicketsInv, [ConversationNext]_conversation, NEW r \in Customers,
                      req[r].pc # "append", req'[r].pc = "append"
               PROVE  state[req'[r].ticket] \in {"open", "on_hold"}
    BY Zenon
  <2>0. TypeOK /\ req[r] \in Request
    BY Zenon DEF TicketsInv, TypeOK
  <2>1. CustomerStep(r)
    BY <2>0, OwnStep, Zenon
  <2>2. ASSUME NEW f, Become(r, f) PROVE req'[r] = f
    BY <2>0, <2>2, Zenon DEF Become, TypeOK
  <2>3. \E t \in Ids : Sees(req[r].who, t) /\ targetFor(r, t)
    <3>1. ASSUME NEW f, Become(r, f), f.pc # "append" PROVE FALSE
      BY <2>2, <3>1, Zenon
    <3>2. /\ Idle.pc # "append"
          /\ \A c, t : [Idle EXCEPT !.pc = "reply", !.who = c, !.ticket = t].pc = "reply"
          /\ \A c, h : [Idle EXCEPT !.pc = "open", !.who = c, !.thread = h].pc = "open"
          /\ \A t : [Idle EXCEPT !.pc = "announce", !.ticket = t].pc = "announce"
      BY Zenon DEF Idle
    <3>3. /\ [req[r] EXCEPT !.pc = "reopening", !.seen = state[req[r].ticket]].pc = "reopening"
          /\ [req[r] EXCEPT !.pc = "spawning"].pc = "spawning"
      BY <2>0, Zenon DEF Request
    <3>4. ReadAddressed(r) \/ ReadChain(r)
      <4>1. \A t : ~Post(r, t)
        BY <3>1, <3>2, Zenon DEF Post
      <4>2. ~Refuse(r) /\ ~Announce(r) /\ ~ReadForReopen(r)
        BY <3>1, <3>2, <3>3, Zenon DEF Refuse, Announce, ReadForReopen
      <4>3. \A c, h : ~Ingest(r, c, h)
        BY <3>1, <3>2, Zenon DEF Ingest
      <4>4. \A c, t : ~Reply(r, c, t)
        BY <3>1, <3>2, Zenon DEF Reply
      <4> QED
        BY <2>1, <4>1, <4>2, <4>3, <4>4, Zenon
        DEF CustomerStep, Open, OpenRefused, append, Reopen, Spawn, SpawnRefused
    <3>5. CASE ReadAddressed(r)
      BY <3>1, <3>2, <3>5, Zenon DEF ReadAddressed, Refuse, TicketsInv, ReqInv, CustomerOK
    <3>6. CASE ReadChain(r)
      BY <3>1, <3>3, <3>6, Zenon DEF ReadChain
    <3> QED BY <3>4, <3>5, <3>6, Zenon
  <2>4. PICK t \in Ids : Sees(req[r].who, t) /\ targetFor(r, t)
    BY <2>3, Zenon
  <2>5. req'[r].ticket = t /\ req'[r].pc = replyOutcomeFor(state[t])
    BY <2>0, <2>2, <2>4, Zenon DEF targetFor, Request
  <2> QED BY <2>0, <2>4, <2>5, Zenon DEF replyOutcomeFor, Sees, Exists, TypeOK, TicketState
<1> QED BY <1>1, TicketsInvariance, PTL DEF ConversationSpec, JoinsAskAgain

(* A reply's Message commits only together with the reopen, the spawn or   *)
(* the opening it came with: a lost conditional update posts nothing.      *)
THEOREM NoMessageWithoutItsReopen == ConversationSpec => MessageComesWithItsReopen
<1>1. TicketsInv /\ [ConversationNext]_conversation =>
        [\A r \in Customers :
           Posts(r) /\ req[r].pc \in {"reopening", "spawning", "open"}
             => state'[req'[r].ticket] = "open"]_conversation
  <2> SUFFICES ASSUME TicketsInv, [ConversationNext]_conversation, NEW r \in Customers, Posts(r),
                      req[r].pc \in {"reopening", "spawning", "open"}
               PROVE  state'[req'[r].ticket] = "open"
    BY Zenon
  <2>0. TypeOK /\ ReqInv
    BY Zenon DEF TicketsInv
  <2>1. CustomerStep(r)
    BY <2>0, OwnStep, Zenon DEF Posts
  <2>2. ASSUME NEW f, Become(r, f) PROVE req'[r] = f
    BY <2>0, <2>2, Zenon DEF Become, TypeOK
  <2>3. Idle.pc = "idle"
    BY Zenon DEF Idle
  <2>6. ASSUME NEW t \in Ids, Post(r, t) PROVE req'[r].ticket = t
    <3>1. req'[r] = [Idle EXCEPT !.pc = "announce", !.ticket = t]
      BY <2>2, <2>6, Zenon DEF Post
    <3> QED BY <3>1, Zenon DEF Idle
  <2>7. ASSUME NEW t \in Ids, Open(r, t) \/ Spawn(r, t) PROVE state'[req'[r].ticket] = "open"
    <3>1. state' = [state EXCEPT ![t] = "open"]
      BY <2>7, Zenon DEF Open, Spawn, InsertTicket
    <3>2. req'[r].ticket = t
      BY <2>6, <2>7, Zenon DEF Open, Spawn
    <3> QED BY <2>0, <3>1, <3>2, Zenon DEF TypeOK
  <2>8. CASE Reopen(r)
    <3>1. ~Refuse(r)
      BY <2>2, <2>3, Zenon DEF Refuse, Posts
    <3>2. req[r].ticket \in Ids
      BY <2>0, <2>8, Zenon DEF Reopen, ReqInv, CustomerOK
    <3>3. Move(req[r].ticket, "open") /\ Post(r, req[r].ticket)
      BY <2>8, <3>1, Zenon DEF Reopen
    <3> QED BY <2>0, <2>6, <3>2, <3>3, Zenon DEF Move, TypeOK
  <2>9. CASE Refuse(r)
    BY <2>2, <2>3, <2>9, Zenon DEF Refuse, Posts
  <2>10. req[r] # Idle
    BY <2>3, Zenon
  <2> QED
    BY <2>1, <2>7, <2>8, <2>9, <2>10, Zenon DEF CustomerStep, Ingest, Reply, OpenRefused, ReadAddressed,
       append, ReadForReopen, ReadChain, SpawnRefused, Announce
<1> QED BY <1>1, TicketsInvariance, PTL DEF ConversationSpec, MessageComesWithItsReopen

------------------------------------------------------------------------------
(* The idempotency store and its two consumers.  What makes a key take     *)
(* effect once is that whoever is at work on it holds the claim, that the  *)
(* claim cannot lapse under it, and that a key which is free again, within *)
(* its window, has had no effect.                                          *)

Labels == Working \cup Ended \cup {"insert", "reclaim", "read", "resolve"}
Notes  == Bodies \cup {NoBody, "ignored", "opens", "replies"}

StoreTypeOK ==
  /\ scope \in {"http", "slack"}
  /\ status \in {"absent", "in_progress", "completed"} /\ lapsed \in BOOLEAN
  /\ pc \in [Requests -> Labels] /\ body \in [Requests -> Bodies \cup {NoBody}]
  /\ effects \in Seq(Notes)

(* Whoever is at work has the claim, so only one is. *)
ClaimIsHeld ==
  \A r \in Requests : pc[r] \in Working =>
    /\ owner = r /\ ~lapsed /\ status # "absent"
    /\ pc[r] \in {"handle", "complete"} => status = "in_progress"

(* The last effect is of body b. *)
LastIs(b) == effects # <<>> /\ effects[Len(effects)] = b

HttpInv ==
  /\ \A r \in Requests :
       /\ pc[r] \in {"handle", "complete"} => hash = body[r]
       /\ pc[r] = "complete" => LastIs(body[r])
       /\ pc[r] = "handle" /\ ~undone => effects = <<>>
       /\ pc[r] = "release" /\ status = "in_progress" /\ ~undone => effects = <<>>
  /\ status = "completed" /\ ~lapsed => LastIs(hash)
  /\ lapsed => effects = <<>>
  /\ ~undone => Len(effects) <= 1 /\ (status = "absent" => effects = <<>>)
  /\ undone \in BOOLEAN

(* What gets past the gate. *)
IsEvent == event.json /\ event.type = "event_callback"

SlackInv ==
  /\ ~lapsed
  /\ \A r \in Requests :
       /\ pc[r] \notin Ended => IsEvent
       /\ pc[r] \in {"handle", "release"} => effects = <<>> /\ status = "in_progress"
       /\ pc[r] = "complete" => effects # <<>>
  /\ status = "absent" => effects = <<>>
  /\ effects # <<>> => IsEvent /\ \E x \in Notes : effects = <<x>> /\ (Slack!Own(event.event) => x = "ignored")
  /\ ~stuck /\ effects = <<>> /\ status # "absent" => \E r \in Requests : pc[r] \in {"handle", "release"}

IInv ==
  /\ StoreTypeOK /\ ClaimIsHeld
  /\ scope = "http" => HttpInv
  /\ scope = "slack" => SlackInv

USE IdempotencyAssumption

LEMMA InitIInv == Init => IInv
<1> SUFFICES ASSUME Init PROVE IInv
  BY Zenon
<1>1. StoreInit /\ scope \in {"http", "slack"} /\ undone = FALSE
  BY Zenon DEF Init
<1>2. \A r \in Requests : pc[r] = "idle"
  BY <1>1, Zenon DEF StoreInit
<1>3. StoreTypeOK
  <2>1. effects \in Seq(Notes)
    BY <1>1 DEF StoreInit
  <2>2. pc \in [Requests -> Labels] /\ body \in [Requests -> Bodies \cup {NoBody}]
    BY <1>1, Zenon DEF StoreInit, Labels, Ended
  <2> QED BY <1>1, <2>1, <2>2, Zenon DEF StoreInit, StoreTypeOK
<1>4. ClaimIsHeld
  BY <1>2, Zenon DEF ClaimIsHeld, Working
<1>5. HttpInv /\ SlackInv
  <2>1. effects = <<>> /\ Len(effects) = 0 /\ ~lapsed /\ status = "absent"
    BY <1>1, Zenon DEF StoreInit
  <2>2. Len(effects) <= 1
    BY <2>1
  <2>3. HttpInv
    BY <1>1, <1>2, <2>1, <2>2, Zenon DEF HttpInv
  <2>4. SlackInv
    BY <1>2, <2>1, Zenon DEF SlackInv, Ended
  <2> QED BY <2>3, <2>4, Zenon
<1> QED BY <1>3, <1>4, <1>5, Zenon DEF IInv

(* A caller's move leaves the others where they are. *)
LEMMA Moved ==
  ASSUME StoreTypeOK, NEW r \in Requests, NEW l \in Labels, pc' = [pc EXCEPT ![r] = l]
  PROVE  /\ pc' \in [Requests -> Labels] /\ pc'[r] = l
         /\ \A q \in Requests : q # r => pc'[q] = pc[q]
  BY Zenon DEF StoreTypeOK

LEMMA Names ==
  /\ Labels = {"handle", "complete", "release", "idle", "done", "replayed", "in_flight", "mismatch",
               "failed", "crashed", "insert", "reclaim", "read", "resolve"}
  /\ Working \subseteq Labels /\ Ended \subseteq Labels /\ Working \cap Ended = {}
  BY Zenon DEF Labels, Working, Ended

(* What a caller that did not get the key is told. *)
LEMMA VerdictIs ==
  ASSUME NEW r \in Requests
  PROVE  /\ Http!Verdict(r) \in {"mismatch", "in_flight", "replayed"}
         /\ Http!Verdict(r) = "replayed" => hash = body[r] /\ status # "in_progress"
         /\ Slack!Verdict(r) \in {"mismatch", "in_flight", "replayed"}
<1>1. CASE hash # body[r]
  BY <1>1, Zenon DEF Http!Verdict, Slack!Verdict
<1>2. CASE hash = body[r] /\ status = "in_progress"
  BY <1>2, Zenon DEF Http!Verdict, Slack!Verdict
<1>3. CASE hash = body[r] /\ status # "in_progress"
  BY <1>3, Zenon DEF Http!Verdict, Slack!Verdict
<1> QED BY <1>1, <1>2, <1>3, Zenon

(***************************************************************************)
(* Requests over HTTP.                                                     *)
(***************************************************************************)
LEMMA HttpClaims ==
  ASSUME StoreTypeOK, ClaimIsHeld, HttpInv, scope' = scope, undone' = undone,
         NEW r \in Requests, Http!ClaimStep(r)
  PROVE  StoreTypeOK' /\ ClaimIsHeld' /\ HttpInv'
<1>1. ASSUME NEW b \in Bodies, Http!Arrive(r, b) PROVE StoreTypeOK' /\ ClaimIsHeld' /\ HttpInv'
  <2>1. /\ pc[r] \in Ended /\ pc' = [pc EXCEPT ![r] = "insert"] /\ body' = [body EXCEPT ![r] = b]
        /\ status' = status /\ hash' = hash /\ lapsed' = lapsed /\ owner' = owner /\ effects' = effects
    BY <1>1, Zenon DEF Http!Arrive, Http!Goto, Http!Ended, Ended, Http!record
  <2>2. /\ pc' \in [Requests -> Labels] /\ pc'[r] = "insert"
        /\ \A q \in Requests : q # r => pc'[q] = pc[q]
    BY <2>1, Moved, Names, Zenon
  <2>3. \A q \in Requests : q # r => body'[q] = body[q]
    BY <2>1, Zenon DEF StoreTypeOK
  <2>4. StoreTypeOK'
    BY <2>1, <2>2, Zenon DEF StoreTypeOK
  <2>5. ClaimIsHeld'
    BY <2>1, <2>2, Zenon DEF ClaimIsHeld, Working
  <2>6. HttpInv'
    BY <2>1, <2>2, <2>3, Zenon DEF HttpInv, LastIs
  <2> QED BY <2>4, <2>5, <2>6, Zenon
<1>2. ASSUME NEW l \in Labels, pc' = [pc EXCEPT ![r] = l],
             pc[r] \in {"insert", "reclaim"}, status = "absent" \/ lapsed, l = "handle",
             status' = "in_progress", hash' = body[r], lapsed' = FALSE, owner' = r,
             body' = body, effects' = effects
      PROVE  StoreTypeOK' /\ ClaimIsHeld' /\ HttpInv'
  <2>1. /\ pc' \in [Requests -> Labels] /\ pc'[r] = "handle"
        /\ \A q \in Requests : q # r => pc'[q] = pc[q]
    BY <1>2, Moved, Zenon
  <2>2. \A q \in Requests : pc[q] \notin Working
    BY <1>2, Zenon DEF ClaimIsHeld
  <2>3. StoreTypeOK'
    BY <1>2, <2>1, Zenon DEF StoreTypeOK
  <2>4. ClaimIsHeld'
    BY <1>2, <2>1, <2>2, Zenon DEF ClaimIsHeld
  <2>5. ~undone => effects = <<>>
    BY <1>2, Zenon DEF HttpInv
  <2>6. HttpInv'
    BY <1>2, <2>1, <2>2, <2>5, Zenon DEF HttpInv, Working
  <2> QED BY <2>3, <2>4, <2>6, Zenon
<1>3. ASSUME NEW l \in Labels \ Working, pc' = [pc EXCEPT ![r] = l],
             status' = status, hash' = hash, lapsed' = lapsed, owner' = owner,
             body' = body, effects' = effects
      PROVE  StoreTypeOK' /\ ClaimIsHeld' /\ HttpInv'
  <2>1. /\ pc' \in [Requests -> Labels] /\ pc'[r] \notin Working
        /\ \A q \in Requests : q # r => pc'[q] = pc[q]
    BY <1>3, Moved, Zenon
  <2>2. StoreTypeOK' /\ ClaimIsHeld'
    BY <1>3, <2>1, Zenon DEF StoreTypeOK, ClaimIsHeld
  <2>3. HttpInv'
    BY <1>3, <2>1, Zenon DEF HttpInv, LastIs, Working
  <2> QED BY <2>2, <2>3, Zenon
<1>4. CASE Http!Insert(r) \/ Http!Reclaim(r)
  <2>1. \/ /\ pc[r] \in {"insert", "reclaim"} /\ (status = "absent" \/ lapsed)
           /\ pc' = [pc EXCEPT ![r] = "handle"]
           /\ status' = "in_progress" /\ hash' = body[r] /\ lapsed' = FALSE /\ owner' = r
        \/ /\ pc' = [pc EXCEPT ![r] = "reclaim"] \/ pc' = [pc EXCEPT ![r] = "read"]
           /\ status' = status /\ hash' = hash /\ lapsed' = lapsed /\ owner' = owner
    BY <1>4, Zenon DEF Http!Insert, Http!Reclaim, Http!Reclaimable, Http!Claimed, Http!Goto, Http!record
  <2>2. body' = body /\ effects' = effects
    BY <1>4, Zenon DEF Http!Insert, Http!Reclaim
  <2>3. "handle" \in Labels /\ "reclaim" \in Labels \ Working /\ "read" \in Labels \ Working
    BY Zenon DEF Labels, Working
  <2> QED BY <1>2, <1>3, <2>1, <2>2, <2>3, Zenon
<1>5. CASE Http!Read(r) \/ Http!Crash(r)
  <2>1. PICK l \in {"insert", "in_flight", "replayed", "mismatch", "crashed"} : pc' = [pc EXCEPT ![r] = l]
    BY <1>5, VerdictIs, Zenon DEF Http!Read, Http!Crash, Http!Goto
  <2>2. l \in Labels \ Working
    BY Zenon DEF Labels, Working, Ended
  <2>3. /\ status' = status /\ hash' = hash /\ lapsed' = lapsed /\ owner' = owner
        /\ body' = body /\ effects' = effects
    BY <1>5, Zenon DEF Http!Read, Http!Crash, Http!record
  <2> QED BY <1>3, <2>1, <2>2, <2>3, Zenon
<1> QED BY <1>1, <1>4, <1>5, Zenon DEF Http!ClaimStep

(* The steps of the caller that has the claim. *)
LEMMA HttpWorks ==
  ASSUME StoreTypeOK, ClaimIsHeld, HttpInv, scope' = scope, NEW r \in Requests,
         \/ Http!HandlerCommits(r) \/ Http!HandlerThrows(r)
         \/ Http!Complete(r) \/ Http!CompleteUnsure(r) \/ Http!CompleteFails(r)
         \/ Http!Release(r)
  PROVE  StoreTypeOK' /\ ClaimIsHeld' /\ HttpInv'
<1>1. pc[r] \in Working /\ body' = body
  BY Zenon DEF Http!HandlerCommits, Http!HandlerThrows, Http!Complete, Http!CompleteUnsure,
     Http!CompleteFails, Http!Release, Working
<1>2. /\ owner = r /\ ~lapsed /\ status # "absent"
      /\ pc[r] \in {"handle", "complete"} => status = "in_progress" /\ hash = body[r]
      /\ \A q \in Requests : q # r => pc[q] \notin Working
  BY <1>1, Zenon DEF ClaimIsHeld, HttpInv
(* It is enough to look at r. *)
<1>3. ASSUME NEW l \in Labels, pc' = [pc EXCEPT ![r] = l]
      PROVE  /\ pc' \in [Requests -> Labels] /\ pc'[r] = l
             /\ \A q \in Requests : pc'[q] \in Working => q = r /\ l \in Working
  BY <1>2, <1>3, Moved, Zenon
<1>4. CASE Http!HandlerCommits(r)
  <2>1. /\ pc[r] = "handle" /\ effects' = Append(effects, body[r]) /\ pc' = [pc EXCEPT ![r] = "complete"]
        /\ status' = status /\ hash' = hash /\ lapsed' = lapsed /\ owner' = owner /\ undone' = undone
    BY <1>4, Zenon DEF Http!HandlerCommits, Http!Goto, Http!record
  <2>2. /\ pc' \in [Requests -> Labels] /\ pc'[r] = "complete"
        /\ \A q \in Requests : pc'[q] \in Working => q = r
    BY <1>3, <2>1, Names, Zenon
  <2>3. /\ effects' \in Seq(Notes) /\ effects' # <<>> /\ effects'[Len(effects')] = body[r]
        /\ effects = <<>> => Len(effects') <= 1
    <3>1. body[r] \in Notes /\ effects \in Seq(Notes)
      BY Zenon DEF StoreTypeOK, Notes
    <3> QED BY <2>1, <3>1
  <2>4. StoreTypeOK' /\ ClaimIsHeld'
    BY <1>1, <1>2, <2>1, <2>2, <2>3, Zenon DEF StoreTypeOK, ClaimIsHeld
  <2>5. ~undone' => Len(effects') <= 1
    BY <2>1, <2>3, Zenon DEF HttpInv
  <2>6. HttpInv'
    BY <1>1, <1>2, <2>1, <2>2, <2>3, <2>5, Zenon DEF HttpInv, LastIs, Working
  <2> QED BY <2>4, <2>6, Zenon
<1>5. CASE Http!HandlerThrows(r)
  <2>1. /\ pc[r] = "handle" /\ effects' = effects /\ pc' = [pc EXCEPT ![r] = "release"]
        /\ status' = status /\ hash' = hash /\ lapsed' = lapsed /\ owner' = owner /\ undone' = undone
    BY <1>5, Zenon DEF Http!HandlerThrows, Http!Goto, Http!record
  <2>2. /\ pc' \in [Requests -> Labels] /\ pc'[r] = "release"
        /\ \A q \in Requests : pc'[q] \in Working => q = r
    BY <1>3, <2>1, Names, Zenon
  <2>3. StoreTypeOK' /\ ClaimIsHeld'
    BY <1>1, <1>2, <2>1, <2>2, Zenon DEF StoreTypeOK, ClaimIsHeld
  <2>4. HttpInv'
    BY <1>1, <1>2, <2>1, <2>2, Zenon DEF HttpInv, LastIs, Working
  <2> QED BY <2>3, <2>4, Zenon
<1>6. CASE Http!Complete(r) \/ Http!CompleteUnsure(r)
  <2>1. PICK l \in {"done", "release"} : pc' = [pc EXCEPT ![r] = l]
    BY <1>6, Zenon DEF Http!Complete, Http!CompleteUnsure, Http!Goto
  <2>2. /\ pc[r] = "complete" /\ effects' = effects
        /\ status' = "completed" /\ hash' = hash /\ lapsed' = lapsed /\ owner' = owner /\ undone' = undone
    BY <1>2, <1>6, Zenon DEF Http!Complete, Http!CompleteUnsure, Http!CompleteWrite, Http!record
  <2>3. /\ pc' \in [Requests -> Labels] /\ pc'[r] = l
        /\ \A q \in Requests : pc'[q] \in Working => q = r /\ l \in Working
    BY <1>3, <2>1, Names, Zenon
  <2>4. StoreTypeOK' /\ ClaimIsHeld'
    BY <1>1, <1>2, <2>2, <2>3, Zenon DEF StoreTypeOK, ClaimIsHeld
  <2>5. LastIs(hash)
    BY <1>2, <2>2, Zenon DEF HttpInv
  <2>6. HttpInv'
    BY <1>1, <1>2, <2>2, <2>3, <2>5, Zenon DEF HttpInv, LastIs, Working
  <2> QED BY <2>4, <2>6, Zenon
<1>7. CASE Http!CompleteFails(r)
  <2>1. /\ pc[r] = "complete" /\ effects' = effects /\ pc' = [pc EXCEPT ![r] = "release"]
        /\ status' = status /\ hash' = hash /\ lapsed' = lapsed /\ owner' = owner /\ undone' = TRUE
    BY <1>7, Zenon DEF Http!CompleteFails, Http!Goto, Http!record
  <2>2. /\ pc' \in [Requests -> Labels] /\ pc'[r] = "release"
        /\ \A q \in Requests : pc'[q] \in Working => q = r
    BY <1>3, <2>1, Names, Zenon
  <2>3. StoreTypeOK' /\ ClaimIsHeld'
    BY <1>1, <1>2, <2>1, <2>2, Zenon DEF StoreTypeOK, ClaimIsHeld
  <2>4. undone' /\ undone' \in BOOLEAN
    BY <2>1, Zenon
  <2>5. LastIs(hash)
    BY <1>2, <2>1, Zenon DEF HttpInv
  <2>6. HttpInv'
    BY <1>1, <1>2, <2>1, <2>2, <2>4, <2>5, Zenon DEF HttpInv, LastIs, Working
  <2> QED BY <2>3, <2>6, Zenon
<1>8. CASE Http!Release(r)
  <2>1. /\ pc[r] = "release" /\ effects' = effects /\ pc' = [pc EXCEPT ![r] = "failed"] /\ undone' = undone
        /\ \/ /\ status' = status /\ hash' = hash /\ lapsed' = lapsed /\ owner' = owner
           \/ /\ status = "in_progress" /\ status' = "absent" /\ lapsed' = FALSE
    BY <1>8, Zenon DEF Http!Release, Http!Goto, Http!ReleaseWrite, Http!Gone, Http!record
  <2>2. /\ pc' \in [Requests -> Labels]
        /\ \A q \in Requests : pc'[q] \notin Working
    BY <1>3, <2>1, Names, Zenon DEF Working
  <2>3. StoreTypeOK' /\ ClaimIsHeld'
    BY <1>1, <1>2, <2>1, <2>2, Zenon DEF StoreTypeOK, ClaimIsHeld
  <2>4. HttpInv'
    BY <1>1, <1>2, <2>1, <2>2 DEF HttpInv, LastIs, Working
  <2> QED BY <2>3, <2>4, Zenon
<1> QED BY <1>4, <1>5, <1>6, <1>7, <1>8, Zenon

LEMMA HttpStep ==
  ASSUME StoreTypeOK, ClaimIsHeld, HttpInv, scope' = scope, Http!Next
  PROVE  StoreTypeOK' /\ ClaimIsHeld' /\ HttpInv'
<1>1. CASE Http!Lapse /\ undone' = FALSE
  <2>1. /\ status' = status /\ hash' = hash /\ lapsed' = TRUE /\ effects' = <<>>
        /\ pc' = pc /\ body' = body
        /\ \A r \in Requests : pc[r] \notin Working
    BY <1>1, Zenon DEF Http!Lapse, Http!Working, Working
  <2>2. effects' \in Seq(Notes) /\ Len(effects') <= 1
    BY <2>1
  <2>3. StoreTypeOK' /\ ClaimIsHeld'
    BY <2>1, <2>2, Zenon DEF StoreTypeOK, ClaimIsHeld
  <2>4. HttpInv'
    BY <1>1, <2>1, <2>2, Zenon DEF HttpInv, Working
  <2> QED BY <2>3, <2>4, Zenon
<1>2. CASE Http!Sweep /\ UNCHANGED undone
  <2>1. /\ lapsed /\ status' = "absent" /\ lapsed' = FALSE /\ effects' = effects
        /\ pc' = pc /\ body' = body /\ undone' = undone
    BY <1>2, Zenon DEF Http!Sweep, Http!Gone
  <2>2. \A r \in Requests : pc[r] \notin Working
    BY <2>1, Zenon DEF ClaimIsHeld
  <2>3. StoreTypeOK' /\ ClaimIsHeld'
    BY <2>1, <2>2, Zenon DEF StoreTypeOK, ClaimIsHeld
  <2>4. HttpInv'
    BY <2>1, <2>2, Zenon DEF HttpInv, Working
  <2> QED BY <2>3, <2>4, Zenon
<1> QED BY <1>1, <1>2, HttpClaims, HttpWorks, Zenon DEF Http!Next

(***************************************************************************)
(* Slack's deliveries.                                                     *)
(***************************************************************************)
(* Past the gate there is an event. *)
LEMMA PastTheGate ==
  ASSUME NEW signature, NEW age, Slack!gate(signature, age) = "resolve"
  PROVE  IsEvent
<1>1. event.json
  BY Zenon DEF Slack!gate
<1>2. Slack!readSlackEnvelope(event) # "challenge" /\ Slack!readSlackEnvelope(event) # "ignored"
  BY <1>1, Zenon DEF Slack!gate
<1>3. event.type # "url_verification"
  BY <1>2, Zenon DEF Slack!readSlackEnvelope
<1>4. event.type = "event_callback"
  BY <1>2, <1>3, Zenon DEF Slack!readSlackEnvelope
<1> QED BY <1>1, <1>4, Zenon DEF IsEvent

(* A move of r that leaves the record and the effects alone, and takes it  *)
(* not to work, nor from unfinished work unless its claim is left behind.  *)
LEMMA SlackIdles ==
  ASSUME StoreTypeOK, ClaimIsHeld, SlackInv, scope' = scope, NEW r \in Requests,
         NEW l \in Labels \ Working, pc' = [pc EXCEPT ![r] = l],
         l \in Ended \/ pc[r] \notin Ended \/ IsEvent,
         pc[r] \in {"handle", "release"} => stuck', stuck => stuck',
         status' = status, hash' = hash, lapsed' = lapsed, owner' = owner,
         body' = body, effects' = effects, event' = event
  PROVE  StoreTypeOK' /\ ClaimIsHeld' /\ SlackInv'
<1>1. /\ pc' \in [Requests -> Labels] /\ pc'[r] = l /\ l \notin Working
      /\ \A q \in Requests : q # r => pc'[q] = pc[q]
  BY Moved, Zenon
<1>2. StoreTypeOK' /\ ClaimIsHeld'
  BY <1>1, Zenon DEF StoreTypeOK, ClaimIsHeld
<1>3. IsEvent' <=> IsEvent
  BY Zenon DEF IsEvent
<1>4. /\ ~lapsed'
      /\ \A q \in Requests :
           /\ pc'[q] \notin Ended => IsEvent'
           /\ pc'[q] \in {"handle", "release"} => effects' = <<>> /\ status' = "in_progress"
           /\ pc'[q] = "complete" => effects' # <<>>
      /\ status' = "absent" => effects' = <<>>
  BY <1>1, <1>3, Zenon DEF SlackInv, Working
<1>5. effects' # <<>> =>
        IsEvent' /\ \E x \in Notes : effects' = <<x>> /\ (Slack!Own(event'.event) => x = "ignored")
  BY <1>3, Zenon DEF SlackInv
<1>6. ASSUME ~stuck', effects' = <<>>, status' # "absent"
      PROVE  \E q \in Requests : pc'[q] \in {"handle", "release"}
  <2>1. PICK q \in Requests : pc[q] \in {"handle", "release"}
    BY <1>6, Zenon DEF SlackInv
  <2>2. q # r
    BY <1>6, <2>1, Zenon
  <2> QED BY <1>1, <2>1, <2>2, Zenon
<1> QED BY <1>2, <1>4, <1>5, <1>6, Zenon DEF SlackInv

LEMMA SlackClaims ==
  ASSUME StoreTypeOK, ClaimIsHeld, SlackInv, scope' = scope, NEW r \in Requests, Slack!Claim(r)
  PROVE  StoreTypeOK' /\ ClaimIsHeld' /\ SlackInv'
<1>1. event' = event /\ stuck' = stuck /\ body' = body /\ effects' = effects /\ ~lapsed
  BY Zenon DEF Slack!Claim, Slack!Insert, Slack!Reclaim, Slack!Read, SlackInv
<1>2. pc[r] \in {"insert", "reclaim", "read"} /\ IsEvent
  BY Zenon DEF Slack!Claim, Slack!Insert, Slack!Reclaim, Slack!Read, SlackInv, Ended
<1>3. CASE /\ status = "absent" /\ pc' = [pc EXCEPT ![r] = "handle"]
           /\ status' = "in_progress" /\ hash' = body[r] /\ lapsed' = FALSE /\ owner' = r
  <2>1. /\ pc' \in [Requests -> Labels] /\ pc'[r] = "handle"
        /\ \A q \in Requests : q # r => pc'[q] = pc[q]
    BY <1>3, Moved, Names, Zenon
  <2>2. \A q \in Requests : pc[q] \notin Working
    BY <1>3, Zenon DEF ClaimIsHeld
  <2>3. StoreTypeOK' /\ ClaimIsHeld'
    BY <1>1, <1>3, <2>1, <2>2, Zenon DEF StoreTypeOK, ClaimIsHeld
  <2>4. effects' = <<>> /\ IsEvent'
    BY <1>1, <1>2, <1>3, Zenon DEF SlackInv, IsEvent
  <2>5. SlackInv'
    BY <1>1, <1>3, <2>1, <2>2, <2>4, Zenon DEF SlackInv, Working
  <2> QED BY <2>3, <2>5, Zenon
<1>4. ASSUME NEW l \in {"insert", "reclaim", "read", "in_flight", "replayed", "mismatch"},
             pc' = [pc EXCEPT ![r] = l],
             status' = status, hash' = hash, lapsed' = lapsed, owner' = owner
      PROVE  StoreTypeOK' /\ ClaimIsHeld' /\ SlackInv'
  <2>1. l \in Labels \ Working
    BY Zenon DEF Labels, Working, Ended
  <2> QED BY <1>1, <1>2, <1>4, <2>1, SlackIdles, Zenon
<1>5. CASE Slack!Insert(r)
  BY <1>3, <1>4, <1>5, Zenon DEF Slack!Insert, Slack!Claimed, Slack!Goto, Slack!record
<1>6. CASE Slack!Reclaim(r)
  BY <1>1, <1>4, <1>6, Zenon DEF Slack!Reclaim, Slack!Reclaimable, Slack!Goto, Slack!record
<1>7. CASE Slack!Read(r)
  <2>1. PICK l \in {"insert", "in_flight", "replayed", "mismatch"} : pc' = [pc EXCEPT ![r] = l]
    BY <1>7, VerdictIs, Zenon DEF Slack!Read, Slack!Goto
  <2> QED BY <1>4, <1>7, <2>1, Zenon DEF Slack!Read, Slack!record
<1> QED BY <1>5, <1>6, <1>7, Zenon DEF Slack!Claim

LEMMA SlackWorks ==
  ASSUME StoreTypeOK, ClaimIsHeld, SlackInv, scope' = scope, NEW r \in Requests,
         \/ Slack!Enqueue(r) \/ Slack!EnqueueFails(r) \/ Slack!Release(r)
         \/ Slack!Complete(r) \/ Slack!CompleteFails(r)
  PROVE  StoreTypeOK' /\ ClaimIsHeld' /\ SlackInv'
<1>1. pc[r] \in Working /\ body' = body /\ event' = event
  BY Zenon DEF Slack!Enqueue, Slack!EnqueueFails, Slack!Release, Slack!Complete, Slack!CompleteFails,
     Working, Slack!slack
<1>2. /\ owner = r /\ ~lapsed /\ status # "absent"
      /\ pc[r] \in {"handle", "complete"} => status = "in_progress"
      /\ \A q \in Requests : q # r => pc[q] \notin Working
  BY <1>1, Zenon DEF ClaimIsHeld
<1>3. ASSUME NEW l \in Labels, pc' = [pc EXCEPT ![r] = l]
      PROVE  /\ pc' \in [Requests -> Labels] /\ pc'[r] = l
             /\ \A q \in Requests : pc'[q] \in Working => q = r /\ l \in Working
  BY <1>2, <1>3, Moved, Zenon
<1>4. IsEvent /\ IsEvent'
  BY <1>1, Zenon DEF SlackInv, Working, Ended, IsEvent
<1>5. CASE Slack!Enqueue(r)
  <2>1. /\ pc[r] = "handle" /\ effects' = Append(effects, Slack!readSlackMessage(event.event))
        /\ pc' = [pc EXCEPT ![r] = "complete"]
        /\ status' = status /\ hash' = hash /\ lapsed' = lapsed /\ owner' = owner /\ stuck' = stuck
    BY <1>5, Zenon DEF Slack!Enqueue, Slack!Goto, Slack!record, Slack!slack
  <2>2. /\ pc' \in [Requests -> Labels] /\ pc'[r] = "complete"
        /\ \A q \in Requests : pc'[q] \in Working => q = r
    BY <1>3, <2>1, Names, Zenon
  <2>3. PICK x \in Notes : x = Slack!readSlackMessage(event.event)
    BY Zenon DEF Slack!readSlackMessage, Notes
  <2>4. Slack!Own(event.event) => x = "ignored"
    BY <2>3, Zenon DEF Slack!Own, Slack!readSlackMessage
  <2>5. effects' = <<x>> /\ effects' \in Seq(Notes) /\ effects' # <<>>
    <3>1. effects = <<>>
      BY <2>1, Zenon DEF SlackInv
    <3> QED BY <2>1, <2>3, <3>1
  <2>6. StoreTypeOK' /\ ClaimIsHeld'
    BY <1>1, <1>2, <2>1, <2>2, <2>5, Zenon DEF StoreTypeOK, ClaimIsHeld
  <2>7. \E y \in Notes : effects' = <<y>> /\ (Slack!Own(event'.event) => y = "ignored")
    BY <1>1, <2>4, <2>5, Zenon
  <2>8. SlackInv'
    BY <1>2, <1>4, <2>1, <2>2, <2>5, <2>7, Zenon DEF SlackInv, Working
  <2> QED BY <2>6, <2>8, Zenon
<1>6. CASE Slack!EnqueueFails(r)
  <2>1. /\ pc[r] = "handle" /\ effects' = effects /\ pc' = [pc EXCEPT ![r] = "release"]
        /\ status' = status /\ hash' = hash /\ lapsed' = lapsed /\ owner' = owner /\ stuck' = stuck
    BY <1>6, Zenon DEF Slack!EnqueueFails, Slack!Goto, Slack!record, Slack!slack
  <2>2. /\ pc' \in [Requests -> Labels] /\ pc'[r] = "release"
        /\ \A q \in Requests : pc'[q] \in Working => q = r
    BY <1>3, <2>1, Names, Zenon
  <2>3. StoreTypeOK' /\ ClaimIsHeld'
    BY <1>1, <1>2, <2>1, <2>2, Zenon DEF StoreTypeOK, ClaimIsHeld
  <2>4. effects' = <<>> /\ status' = "in_progress"
    BY <2>1, Zenon DEF SlackInv
  <2>5. SlackInv'
    BY <1>2, <1>4, <2>1, <2>2, <2>4, Zenon DEF SlackInv, Working
  <2> QED BY <2>3, <2>5, Zenon
<1>7. CASE Slack!Release(r)
  <2>1. /\ pc[r] = "release" /\ effects' = effects /\ pc' = [pc EXCEPT ![r] = "failed"]
        /\ \/ /\ status' = status /\ hash' = hash /\ lapsed' = lapsed /\ owner' = owner /\ stuck'
           \/ /\ status' = "absent" /\ lapsed' = FALSE
    BY <1>7, Zenon DEF Slack!Release, Slack!ReleaseWrite, Slack!Gone, Slack!Goto, Slack!record, SlackInv
  <2>2. /\ pc' \in [Requests -> Labels]
        /\ \A q \in Requests : pc'[q] \notin Working
    BY <1>3, <2>1, Names, Zenon DEF Working
  <2>3. StoreTypeOK' /\ ClaimIsHeld'
    BY <1>1, <1>2, <2>1, <2>2, Zenon DEF StoreTypeOK, ClaimIsHeld
  <2>4. effects' = <<>>
    BY <2>1, Zenon DEF SlackInv
  <2>5. ~lapsed' /\ (stuck' \/ status' = "absent")
    BY <2>1 DEF SlackInv
  <2>6. \A q \in Requests : pc'[q] \notin {"handle", "release", "complete"}
    BY <2>2, Zenon DEF Working
  <2>7. SlackInv'
    BY <1>4, <2>4, <2>5, <2>6, Zenon DEF SlackInv
  <2> QED BY <2>3, <2>7, Zenon
<1>8. CASE Slack!Complete(r) \/ Slack!CompleteFails(r)
  <2>1. PICK l \in {"done", "failed"} : pc' = [pc EXCEPT ![r] = l]
    BY <1>8, Zenon DEF Slack!Complete, Slack!CompleteFails, Slack!Goto
  <2>2. /\ pc[r] = "complete" /\ effects' = effects /\ stuck' = stuck
        /\ status' \in {"in_progress", "completed"} /\ hash' = hash /\ lapsed' = lapsed /\ owner' = owner
    BY <1>2, <1>8, Zenon DEF Slack!Complete, Slack!CompleteFails, Slack!CompleteWrite, Slack!record, Slack!slack
  <2>3. /\ pc' \in [Requests -> Labels]
        /\ \A q \in Requests : pc'[q] \notin Working
    BY <1>3, <2>1, Names, Zenon DEF Working
  <2>4. StoreTypeOK' /\ ClaimIsHeld'
    BY <1>1, <1>2, <2>2, <2>3, Zenon DEF StoreTypeOK, ClaimIsHeld
  <2>5. effects' # <<>>
    BY <2>2, Zenon DEF SlackInv
  <2>6. \E y \in Notes : effects' = <<y>> /\ (Slack!Own(event'.event) => y = "ignored")
    BY <1>1, <2>2, <2>5, Zenon DEF SlackInv
  <2>7. SlackInv'
    BY <1>2, <1>4, <2>2, <2>3, <2>5, <2>6, Zenon DEF SlackInv, Working
  <2> QED BY <2>4, <2>7, Zenon
<1> QED BY <1>5, <1>6, <1>7, <1>8, Zenon

LEMMA SlackStep ==
  ASSUME StoreTypeOK, ClaimIsHeld, SlackInv, scope' = scope, Slack!Next
  PROVE  StoreTypeOK' /\ ClaimIsHeld' /\ SlackInv'
<1>1. ASSUME NEW r \in Requests, NEW signature, NEW age, Slack!Deliver(r, signature, age)
      PROVE  StoreTypeOK' /\ ClaimIsHeld' /\ SlackInv'
  <2>1. PICK l \in {"resolve", "failed", "done"} :
          /\ pc' = [pc EXCEPT ![r] = l]
          /\ l = "resolve" => Slack!gate(signature, age) = "resolve"
    BY <1>1, Zenon DEF Slack!Deliver, Slack!Goto
  <2>2. l \in Labels \ Working /\ (l # "resolve" => l \in Ended)
    BY Zenon DEF Labels, Working, Ended
  <2>3. /\ pc[r] \in Ended /\ stuck' = stuck /\ event' = event /\ body' = body /\ effects' = effects
        /\ status' = status /\ hash' = hash /\ lapsed' = lapsed /\ owner' = owner
    BY <1>1, Zenon DEF Slack!Deliver, Slack!Ended, Ended, Slack!record
  <2>4. l = "resolve" => IsEvent
    BY <2>1, PastTheGate, Zenon
  <2>5. pc[r] \notin {"handle", "release"}
    BY <2>3, Zenon DEF Ended
  <2> QED BY <2>1, <2>2, <2>3, <2>4, <2>5, SlackIdles, Zenon
<1>2. ASSUME NEW r \in Requests, Slack!Resolve(r)
      PROVE  StoreTypeOK' /\ ClaimIsHeld' /\ SlackInv'
  <2>1. PICK l \in {"insert", "done"} : pc' = [pc EXCEPT ![r] = l]
    BY <1>2, Zenon DEF Slack!Resolve, Slack!Goto
  <2>2. l \in Labels \ Working
    BY Zenon DEF Labels, Working, Ended
  <2>3. /\ pc[r] = "resolve" /\ stuck' = stuck /\ event' = event /\ body' = body /\ effects' = effects
        /\ status' = status /\ hash' = hash /\ lapsed' = lapsed /\ owner' = owner
    BY <1>2, Zenon DEF Slack!Resolve, Slack!record
  <2>4. pc[r] \notin Ended /\ pc[r] \notin {"handle", "release"}
    BY <2>3, Zenon DEF Ended
  <2> QED BY <2>1, <2>2, <2>3, <2>4, SlackIdles, Zenon
<1>3. ASSUME NEW r \in Requests, Slack!Die(r)
      PROVE  StoreTypeOK' /\ ClaimIsHeld' /\ SlackInv'
  <2>1. pc' = [pc EXCEPT ![r] = "crashed"] /\ "crashed" \in Labels \ Working /\ "crashed" \in Ended
    BY <1>3, Zenon DEF Slack!Die, Slack!Crash, Slack!Goto, Labels, Working, Ended
  <2>2. /\ event' = event /\ body' = body /\ effects' = effects
        /\ status' = status /\ hash' = hash /\ lapsed' = lapsed /\ owner' = owner
    BY <1>3, Zenon DEF Slack!Die, Slack!Crash, Slack!record
  <2>3. (pc[r] \in {"handle", "release"} => stuck') /\ (stuck => stuck')
    BY <1>3, Zenon DEF Slack!Die
  <2> QED BY <2>1, <2>2, <2>3, SlackIdles, Zenon
<1>4. CASE Slack!Reinstall
  <2>1. /\ stuck' = stuck /\ event' = event /\ body' = body /\ effects' = effects /\ pc' = pc
        /\ status' = status /\ hash' = hash /\ lapsed' = lapsed /\ owner' = owner
    BY <1>4, Zenon DEF Slack!Reinstall, Slack!store, Slack!record
  <2> QED BY <2>1, Zenon DEF StoreTypeOK, ClaimIsHeld, SlackInv, IsEvent
<1> QED BY <1>1, <1>2, <1>3, <1>4, SlackClaims, SlackWorks, Zenon DEF Slack!Next

LEMMA Inductive == IInv /\ [Next]_vars => IInv'
<1> SUFFICES ASSUME IInv, [Next]_vars PROVE IInv'
  BY Zenon
<1>1. CASE UNCHANGED vars
  <2>1. /\ scope' = scope /\ undone' = undone /\ stuck' = stuck /\ event' = event
        /\ body' = body /\ effects' = effects /\ pc' = pc
        /\ status' = status /\ hash' = hash /\ lapsed' = lapsed /\ owner' = owner
    BY <1>1, Zenon DEF vars, http, slack, store, record
  <2>2. StoreTypeOK' /\ ClaimIsHeld'
    BY <2>1, Zenon DEF IInv, StoreTypeOK, ClaimIsHeld
  <2>3. (scope' = "http" => HttpInv') /\ (scope' = "slack" => SlackInv')
    BY <2>1, Zenon DEF IInv, HttpInv, LastIs, SlackInv, IsEvent
  <2> QED BY <2>2, <2>3, Zenon DEF IInv
<1>2. CASE scope = "http" /\ scope' = scope /\ Http!Next
  BY <1>2, HttpStep, Zenon DEF IInv
<1>3. CASE scope = "slack" /\ scope' = scope /\ Slack!Next
  BY <1>3, SlackStep, Zenon DEF IInv
<1> QED BY <1>1, <1>2, <1>3, Zenon DEF Next

LEMMA Invariance == Spec => []IInv
<1> QED BY InitIInv, Inductive, PTL DEF Spec

(* A key takes effect once per window unless a completion was rolled back  *)
(* behind its handler, for any number of callers, crashes and retries.     *)
THEOREM KeysTakeEffectOnce == Spec => []OneEffectUnlessUndone
<1>1. IInv => OneEffectUnlessUndone
  BY Zenon DEF IInv, HttpInv, OneEffectUnlessUndone, Http!OneEffectUnlessUndone, Http!EffectAtMostOnce
<1> QED BY <1>1, Invariance, PTL

(* A Slack event is queued at most once, an echo of the app is queued for  *)
(* nothing, and an event not queued can be delivered again.                *)
THEOREM EventsAreHeardOnce == Spec => []EventIsHeardOnce
<1>1. IInv => EventIsHeardOnce
  <2> SUFFICES ASSUME IInv, scope = "slack" PROVE Slack!EventIsHeardOnce
    BY Zenon DEF EventIsHeardOnce
  <2>1. SlackInv /\ StoreTypeOK
    BY Zenon DEF IInv
  <2>2. Len(effects) <= 1
    <3>1. CASE effects = <<>>
      BY <3>1
    <3>2. CASE effects # <<>>
      <4>1. PICK x \in Notes : effects = <<x>>
        BY <2>1, <3>2, Zenon DEF SlackInv
      <4> QED BY <4>1
    <3> QED BY <3>1, <3>2, Zenon
  <2>3. effects # <<>> => IsEvent /\ (Slack!Own(event.event) => effects = <<"ignored">>)
    BY <2>1, Zenon DEF SlackInv
  <2>4. ~stuck /\ effects = <<>> /\ (\A r \in Requests : pc[r] \in Ended) => status = "absent"
    BY <2>1, Zenon DEF SlackInv, Ended
  <2> QED BY <2>2, <2>3, <2>4, Zenon DEF Slack!EventIsHeardOnce, Slack!EffectAtMostOnce, Slack!Ended, Ended, IsEvent
<1> QED BY <1>1, Invariance, PTL

(* A replay answers for committed work of the same body, and a release     *)
(* takes back its own caller's unfinished claim only.                      *)
THEOREM RecordsAreTrue == Spec => RecordIsTrue
<1>1. IInv /\ [Next]_vars => [scope = "http" => Http!RecordStaysTrue]_vars
  <2> SUFFICES ASSUME IInv, [Next]_vars, scope = "http", NEW r \in Requests
               PROVE  /\ pc[r] = "read" /\ pc'[r] = "replayed" /\ ~lapsed
                           => effects # <<>> /\ effects[Len(effects)] = body[r]
                      /\ pc[r] = "release" /\ status' # status => status = "in_progress" /\ owner = r
    BY Zenon DEF Http!RecordStaysTrue
  <2>0. StoreTypeOK /\ ClaimIsHeld /\ HttpInv
    BY Zenon DEF IInv
  <2>a. Http!Next \/ (pc' = pc /\ status' = status)
    BY Zenon DEF Next, vars, store, record
  <2>1. ASSUME pc[r] = "read", pc'[r] = "replayed", ~lapsed
        PROVE  effects # <<>> /\ effects[Len(effects)] = body[r]
    <3>1. Http!Read(r)
      <4>1. ASSUME NEW q \in Requests, NEW l, pc' = [pc EXCEPT ![q] = l] PROVE q = r
        BY <2>0, <2>1, <4>1, Zenon DEF StoreTypeOK
      <4>2. Http!Next
        BY <2>1, <2>a, Zenon
      <4>3. ~Http!Lapse /\ ~Http!Sweep
        BY <2>1, Zenon DEF Http!Lapse, Http!Sweep
      <4>4. PICK q \in Requests :
              \/ Http!ClaimStep(q)
              \/ Http!HandlerCommits(q) \/ Http!HandlerThrows(q)
              \/ Http!Complete(q) \/ Http!CompleteUnsure(q) \/ Http!CompleteFails(q)
              \/ Http!Release(q)
        BY <4>2, <4>3, Zenon DEF Http!Next
      <4>5. \E l : pc' = [pc EXCEPT ![q] = l]
        BY <4>4, Zenon DEF Http!ClaimStep, Http!Arrive, Http!Insert, Http!Reclaim, Http!Read, Http!Crash,
           Http!HandlerCommits, Http!HandlerThrows, Http!Complete, Http!CompleteUnsure,
           Http!CompleteFails, Http!Release, Http!Goto
      <4>6. q = r
        BY <4>1, <4>5, Zenon
      <4>7. ~Http!Crash(r)
        BY <2>0, <2>1, Zenon DEF Http!Crash, Http!Goto, StoreTypeOK
      <4> QED BY <2>1, <4>4, <4>6, <4>7, Zenon DEF Http!ClaimStep, Http!Arrive, Http!Ended, Http!Insert,
              Http!Reclaim, Http!HandlerCommits, Http!HandlerThrows, Http!Complete,
              Http!CompleteUnsure, Http!CompleteFails, Http!Release
    <3>2. status # "absent" /\ Http!Verdict(r) = "replayed"
      BY <2>0, <2>1, <3>1, Zenon DEF Http!Read, Http!Goto, StoreTypeOK
    <3>3. hash = body[r] /\ status = "completed"
      BY <2>0, <3>2, VerdictIs, Zenon DEF StoreTypeOK
    <3> QED BY <2>0, <2>1, <3>3, Zenon DEF HttpInv, LastIs
  <2>2. ASSUME pc[r] = "release", status' # status PROVE status = "in_progress" /\ owner = r
    <3>1. /\ owner = r /\ ~lapsed /\ status # "absent"
          /\ \A q \in Requests : q # r => pc[q] \notin Working
      BY <2>0, <2>2, Zenon DEF ClaimIsHeld, Working
    <3>2. status = "in_progress"
      BY <2>a, <2>2, <3>1, Zenon
      DEF Http!Next, Http!ClaimStep, Http!Arrive, Http!Insert, Http!Reclaim, Http!Reclaimable, Http!Read,
          Http!Crash, Http!HandlerCommits, Http!HandlerThrows, Http!Complete, Http!CompleteUnsure,
          Http!CompleteFails, Http!Release, Http!CompleteWrite, Http!ReleaseWrite, Http!record,
          Http!Lapse, Http!Sweep
    <3> QED BY <3>1, <3>2, Zenon
  <2> QED BY <2>1, <2>2, Zenon
<1> QED BY <1>1, Invariance, PTL DEF Spec, RecordIsTrue
================================================================================
