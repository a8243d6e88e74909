--------------------------- MODULE MCConversation ---------------------------
(***************************************************************************)
(* Conversation for TLC: the requests of customers are interchangeable,    *)
(* and so are the contacts.                                                *)
(***************************************************************************)
EXTENDS Conversation, TLC

Symmetry == Permutations(Customers) \cup Permutations(Contacts)

(* A hold is explored on the Tickets of one Contact off Slack: what a      *)
(* thread and two people on it add does not depend on it.                  *)
HoldIsPlain ==
  \/ \A t \in Ids : state[t] # "on_hold" /\ \A r \in DOMAIN req : "on_hold" \notin {req[r].seen, req[r].to}
  \/ \A t, u \in Ids : Exists(t) /\ Exists(u) => contact[t] = contact[u] /\ route[t] = NoThread

(* Staff meets two requests on the Tickets of one Contact, and one where   *)
(* the Tickets are of two.                                                 *)
ThreeAreOneContacts ==
  \/ \E r \in DOMAIN req : req[r] = Idle
  \/ \A t, u \in Ids : Exists(t) /\ Exists(u) => contact[t] = contact[u]

(* A third Ticket is there for the chains that are longer than one spawn:  *)
(* one Contact, off Slack, with no Ticket that fell silent.                *)
ThirdIsPlain ==
  MaxTickets = 3 /\ Exists(3) =>
    /\ \A t, u \in Ids : contact[t] = contact[u] /\ route[t] = NoThread
    /\ parent[3] # 0
    /\ \A t \in Ids : state[t] \in {"open", "resolved", "closed"} /\ ~silent[t]
    /\ \A r \in DOMAIN req :
         /\ req[r].who \in {NoContact, contact[1]} /\ req[r].thread = NoThread
         /\ {req[r].seen, req[r].to} \subseteq {"none", "open", "resolved", "closed"}
         /\ req[r].pc = "cas" => req[r].to # "open"
==============================================================================
