------------------------------ MODULE MCRealtime ------------------------------
(***************************************************************************)
(* Realtime and Gateway for TLC: one client and the log it follows, or     *)
(* several principals and the rooms they may be in.  The two share no      *)
(* variable.                                                               *)
(***************************************************************************)
EXTENDS Realtime, Gateway

CONSTANTS t1, t2, t3, c1, c2, c3

(* A Ticket each of two Contacts of one tenant and of one of another. *)
MCRequester ==
  t1 :> [tenant |-> "acme",  contact |-> c1] @@
  t2 :> [tenant |-> "acme",  contact |-> c2] @@
  t3 :> [tenant |-> "other", contact |-> c3]

MCCredentials ==
  {[scheme |-> "none",    tenant |-> "acme",  principal |-> Nobody],
   [scheme |-> "service", tenant |-> "acme",  principal |-> Service("k", SUPPORT_WORK)],
   [scheme |-> "access",  tenant |-> "acme",  principal |-> User("u", "agent")],
   [scheme |-> "access",  tenant |-> "other", principal |-> User("v", "agent")],
   [scheme |-> "access",  tenant |-> "other", principal |-> Contact(c3)],
   [scheme |-> "access",  tenant |-> "acme",  principal |-> Contact(c1)],
   [scheme |-> "widget",  tenant |-> "acme",  principal |-> Widget("w", Nobody)]}

MCInit == RealtimeInit /\ GatewayInit

MCNext ==
  \/ GatewayInit /\ RealtimeNext /\ UNCHANGED gateway
  \/ RealtimeInit /\ GatewayNext /\ UNCHANGED realtime

MCSpec == MCInit /\ [][MCNext]_<<realtime, gateway>>
==============================================================================
