------------------------------ MODULE MCDelivery ------------------------------
(***************************************************************************)
(* SlackDelivery and Tenancy for TLC: an outbound delivery, and the        *)
(* transactions it and everything else runs in.  They share no variable,   *)
(* so their steps commute and are taken by themselves.                     *)
(***************************************************************************)
EXTENDS SlackDelivery, Tenancy, TLC

Alike == Permutations(Pool) \cup Permutations(Units) \cup Permutations(Contacts)

MCInit == DeliveryInit /\ TenancyInit

MCNext ==
  \/ TenancyInit /\ DeliveryNext /\ UNCHANGED tenancy
  \/ DeliveryInit /\ TenancyNext /\ UNCHANGED delivery

MCSpec == MCInit /\ [][MCNext]_<<delivery, tenancy>>
==============================================================================
