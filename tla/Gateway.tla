-------------------------------- MODULE Gateway --------------------------------
(***************************************************************************)
(* Who hears what over the sockets (src/src/realtime/): the handshake, the *)
(* rooms a principal may join, the rooms each kind of event goes to, and   *)
(* the audience filter on delivery and on replay.  How a client follows a  *)
(* room without losing anything is the module Realtime.                    *)
(*                                                                         *)
(* A room is a record of tenant, kind and Ticket; Nobody stands for a name *)
(* that does not parse.  The principal is the one of the handshake for as  *)
(* long as the socket lives.                                               *)
(***************************************************************************)
EXTENDS Permissions, Integers, TLC

CONSTANTS
  Requester,      \* by Ticket: its tenant and its Contact
  Credentials,    \* what handshakes bring: a scheme, a tenant and a principal
  Sockets,
  MaxBroadcasts   \* bound: publishing calls

VARIABLES
  session,     \* the Contact of the widget session; Nobody before it needs one
  socket,      \* by socket: whose it is, the rooms it is in, the one it asked for
  buffer,      \* the envelopes the log retains
  received,    \* history: by socket, the envelopes it was sent
  broadcasts

gateway == <<session, socket, buffer, received, broadcasts>>

Closed == [tenant |-> Nobody, principal |-> Nobody, rooms |-> {}, asked |-> Nobody]

GatewayInit ==
  /\ session = Nobody
  /\ socket = [s \in Sockets |-> Closed]
  /\ buffer = {} /\ broadcasts = 0
  /\ received = [s \in Sockets |-> {}]

TicketIds == DOMAIN Requester

agentsRoom(t)   == [tenant |-> Requester[t].tenant, kind |-> "agents",   ticket |-> Nobody]
ticketRoom(t)   == [tenant |-> Requester[t].tenant, kind |-> "ticket",   ticket |-> t]
internalRoom(t) == [tenant |-> Requester[t].tenant, kind |-> "internal", ticket |-> t]

(* The names a client may send: those of the rooms, a Ticket under another *)
(* tenant's prefix, and one that does not parse.                           *)
Names ==
  UNION {{agentsRoom(t), ticketRoom(t), internalRoom(t)} : t \in TicketIds} \cup
  {[ticketRoom(t) EXCEPT !.tenant = Requester[u].tenant] : t, u \in TicketIds} \cup {Nobody}

isStaff(p) == p.kind = "user"

------------------------------------------------------------------------------
AUDIENCE ==
  [e \in {"ticket.created", "ticket.updated", "ticket.assigned", "message.created"} |-> "all"] @@
  [e \in {"note.created", "ticket.sla.breached", "ticket.integration.failed"} |-> "staff"]

canReceive(p, e) == AUDIENCE[e] = "all" \/ isStaff(p)

(* Where each of the service's publishers sends what. *)
Publishers ==
  {"ticketCreated", "ticketUpdated", "ticketAssigned", "messageCreated", "noteCreated",
   "slaBreached", "integrationFailed"}

Envelopes(publisher, t) ==
  LET to(rooms_, e) == {[room |-> r, event |-> e] : r \in rooms_} IN
  CASE publisher = "ticketCreated"     -> to({agentsRoom(t)}, "ticket.created")
    [] publisher = "ticketUpdated"     -> to({agentsRoom(t), ticketRoom(t)}, "ticket.updated")
    [] publisher = "ticketAssigned"    -> to({agentsRoom(t)}, "ticket.assigned")
    [] publisher = "messageCreated"    -> to({ticketRoom(t)}, "message.created")
    [] publisher = "noteCreated"       -> to({internalRoom(t)}, "note.created")
    [] publisher = "slaBreached"       -> to({agentsRoom(t)}, "ticket.sla.breached")
    [] publisher = "integrationFailed" -> to({agentsRoom(t)}, "ticket.integration.failed")

(* Fault: the tenant in the name is not compared. *)
canJoin_AnyTenant(tenant, p, room) ==
  IF room = Nobody THEN "deny"
  ELSE IF isStaff(p) THEN "allow"
  ELSE IF room.kind \in {"agents", "internal"} THEN "deny" ELSE "requires-requester-match"

canJoin(tenant, p, room) ==
  IF room = Nobody \/ room.tenant # tenant THEN "deny"
  ELSE IF isStaff(p) THEN "allow"
  ELSE IF room.kind \in {"agents", "internal"} THEN "deny" ELSE "requires-requester-match"

------------------------------------------------------------------------------
(* authenticate: no token and a service token are refused; a widget        *)
(* session brings the Contact it has by now.                               *)
authenticate(c) ==
  CASE c.scheme \in {"none", "service"} -> Nobody
    [] c.scheme = "widget"              -> Widget(c.principal.id, session)
    [] OTHER                            -> c.principal

Handshake(s, c) ==
  /\ socket[s] = Closed
  /\ authenticate(c) # Nobody
  /\ socket' = [socket EXCEPT ![s] = [Closed EXCEPT !.tenant = c.tenant, !.principal = authenticate(c)]]
  /\ UNCHANGED <<session, buffer, received, broadcasts>>

(* The Contact whose rows are asked for: mayJoin's. *)
asContact(p) == IF p.kind = "widget" THEN p.contact ELSE p.id

(* socket.join and the replay. *)
Joined(s, room) ==
  /\ socket' = [socket EXCEPT ![s].rooms = @ \cup {room}, ![s].asked = Nobody]
  /\ received' = [received EXCEPT ![s] =
       @ \cup {e \in buffer : e.room = room /\ canReceive(socket[s].principal, e.event)}]

(* subscribe: refused, answered at once, or up to mayJoin's read of the    *)
(* Ticket.                                                                 *)
Ask(s, room) ==
  LET p       == socket[s].principal
      verdict == canJoin(socket[s].tenant, p, room) IN
  /\ socket[s] # Closed /\ socket[s].asked = Nobody
  /\ \/ verdict = "allow" /\ Joined(s, room)
     \/ /\ verdict = "requires-requester-match" /\ room.kind = "ticket" /\ asContact(p) # Nobody
        /\ socket' = [socket EXCEPT ![s].asked = room]
        /\ UNCHANGED received
  /\ UNCHANGED <<session, buffer, broadcasts>>

(* The read under the Contact's own row-level security, and the rest. *)
Look(s) ==
  LET room == socket[s].asked
      own  == [tenant |-> socket[s].tenant, contact |-> asContact(socket[s].principal)] IN
  /\ room # Nobody
  /\ IF Requester[room.ticket] = own
     THEN Joined(s, room)
     ELSE socket' = [socket EXCEPT ![s].asked = Nobody] /\ UNCHANGED received
  /\ UNCHANGED <<session, buffer, broadcasts>>

Leave(s, room) ==
  /\ room \in socket[s].rooms
  /\ socket' = [socket EXCEPT ![s].rooms = @ \ {room}]
  /\ UNCHANGED <<session, buffer, received, broadcasts>>

Close(s) ==
  /\ socket[s] # Closed
  /\ socket' = [socket EXCEPT ![s] = Closed]
  /\ received' = [received EXCEPT ![s] = {}]
  /\ UNCHANGED <<session, buffer, broadcasts>>

(* publish and deliver, of each envelope. *)
Broadcast(publisher, t) ==
  LET sent == Envelopes(publisher, t) IN
  /\ broadcasts < MaxBroadcasts /\ broadcasts' = broadcasts + 1
  /\ buffer' = buffer \cup sent
  /\ received' = [s \in Sockets |-> received[s] \cup
       {e \in sent : e.room \in socket[s].rooms /\ canReceive(socket[s].principal, e.event)}]
  /\ UNCHANGED <<session, socket>>

(* The widget session gets its Contact, with its first Ticket. *)
Named(t) ==
  /\ session = Nobody
  /\ \E c \in Credentials : c.scheme = "widget" /\ c.tenant = Requester[t].tenant
  /\ session' = Requester[t].contact
  /\ UNCHANGED <<socket, buffer, received, broadcasts>>

GatewayNext ==
  \/ \E s \in Sockets :
       \/ \E c \in Credentials : Handshake(s, c)
       \/ \E room \in Names : Ask(s, room) \/ Leave(s, room)
       \/ Look(s) \/ Close(s)
  \/ \E publisher \in Publishers, t \in TicketIds : Broadcast(publisher, t)
  \/ \E t \in TicketIds : Named(t)

GatewaySpec == GatewayInit /\ [][GatewayNext]_gateway

(* Nothing reaches a socket that is not for its principal, live or by      *)
(* replay: staff hear their tenant, a Contact or a widget hears the thread *)
(* rooms of its own Tickets, and of no room what is for staff only         *)
(* (canJoin, mayJoin, canReceive, and where the publishers send).          *)
EventsReachTheirAudience ==
  \A s \in Sockets : \A e \in received[s] :
    LET p == socket[s].principal IN
    /\ e.room.tenant = socket[s].tenant
    /\ ~isStaff(p) =>
         /\ e.room.kind = "ticket" /\ AUDIENCE[e.event] = "all"
         /\ Requester[e.room.ticket].contact = asContact(p)
==============================================================================
