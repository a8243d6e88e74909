------------------------------- MODULE Tenancy -------------------------------
(***************************************************************************)
(* How a transaction gets its tenant and its actor                         *)
(* (src/src/tenancy/tenancy.service.ts) and what the row-level security    *)
(* policies of the migrations then let it see and write, over connections  *)
(* that a pool hands from one transaction to the next.                     *)
(*                                                                         *)
(* A context is a tenant's, with an actor, or one of the three that have   *)
(* none: the drainer's, the installation lookup's and the sweeper's.       *)
(* forEachTenant enumerates the tenants under the last and then visits     *)
(* them one transaction at a time.  A row stands for all the rows of its   *)
(* table, tenant and Contact.                                              *)
(***************************************************************************)
EXTENDS Permissions, Integers

CONSTANTS
  Tenants,          \* the tenants' ids, as ORDER BY orders them
  Contacts,
  Members,          \* the ids of users, service tokens and widget sessions
  Pool,             \* database connections
  Units,            \* units of work: a request, a drain, a sweep
  Unset, Empty,     \* what current_setting gives: NULL, and ''
  MaxTransactions   \* bound: transactions a run may begin, visits not counted

ASSUME TenancyAssumption ==
  /\ Tenants \subseteq Nat
  /\ Nobody \notin Tenants \cup Contacts \cup Members \cup Pool
  /\ Unset # Empty /\ Nobody \notin {Unset, Empty}
  /\ \A none \in {Unset, Empty} :
       /\ none \notin Tenants /\ none \notin Contacts \cup Members
       /\ none \notin {"user", "contact", "service", "system", "on"}
  /\ Contacts \cap Members = {}
  /\ \A k \in {"user", "contact", "service", "system"}, i \in Contacts \cup Members \cup {Nobody} :
       Nobody # [kind |-> k, id |-> i]
  /\ MaxTransactions \in Nat

VARIABLES
  setting,   \* by connection: the value of each app.* setting
  unit,      \* by unit: its transaction
  audit_log, \* committed rows of audit_log; history: the context of each
  begun

tenancy == <<setting, unit, audit_log, begun>>

Names == {"tenant", "kind", "id", "scheduler", "installations", "sweeper"}

(* What a Contact may see of a tenant's tables: its own rows, the rows of  *)
(* its own Tickets, nothing, or all there is.                              *)
Own      == {"ticket", "contact", "widget_session"}
OnTicket == {"message", "audit_log"}
Internal == {"note", "job", "service_token", "slack_installation", "slack_credential", "outbound_delivery"}
Shared   == {"tenant", "user", "refresh_token", "staff_invitation", "sla_target", "idempotency_record"}

(* contact: whose Ticket or session it is or is on, or who it is. *)
Rows == [table : Own \cup OnTicket \cup Internal \cup Shared, tenant : Tenants, contact : Contacts \cup {Nobody}]

------------------------------------------------------------------------------
(* The policies, on the settings of one connection. *)

(* NULLIF(current_setting(name, true), '') *)
armed(s, name) == IF s[name] = Empty THEN Unset ELSE s[name]

(* NULL, so not true, when no actor is armed. *)
notContact(s) == armed(s, "kind") \notin {Unset, "contact"}

current_actor_uuid(s) == armed(s, "id")

ownRow(s, r) == notContact(s) \/ r.contact = current_actor_uuid(s)

(* The Ticket of the EXISTS is the row's, and passes its own policy: the   *)
(* tenant is the same and so is the Contact.                               *)
onOwnTicket(s, r) == notContact(s) \/ r.contact = current_actor_uuid(s)

tenant_isolation(s, r) ==
  /\ r.tenant = armed(s, "tenant")
  /\ r.table \in Own => ownRow(s, r)
  /\ r.table \in OnTicket => onOwnTicket(s, r)
  /\ r.table \in Internal => notContact(s)

scheduler_drain(s, r)     == r.table = "job" /\ s["scheduler"] = "on"
installation_lookup(s, r) == r.table = "slack_installation" /\ s["installations"] = "on"
sweeper_enumerate(s, r)   == r.table = "tenant" /\ s["sweeper"] = "on"

Sees(s, r) ==
  \/ tenant_isolation(s, r)
  \/ scheduler_drain(s, r) \/ installation_lookup(s, r) \/ sweeper_enumerate(s, r)

(* WITH CHECK: the two lookups are FOR SELECT. *)
Writes(s, r) == tenant_isolation(s, r) \/ scheduler_drain(s, r)

------------------------------------------------------------------------------
(* The contexts. *)

(* systemContextFor, or a principal's; nobody has an empty id. *)
System     == [kind |-> "system", id |-> Nobody, grants |-> {}, contact |-> Nobody]
Principals ==
  {User(m, "agent") : m \in Members} \cup {Service(m, {}) : m \in Members}
    \cup {Contact(c) : c \in Contacts} \cup {Widget(m, c) : m \in Members, c \in Contacts \cup {Nobody}}

TenantContext == [as : {"tenant"}, tenant : Tenants \cup {Nobody}, who : Principals \cup {System}]
Lookup(as)    == [as |-> as, tenant |-> Nobody, who |-> System]
Contexts      == TenantContext \cup {Lookup("scheduler"), Lookup("installations"), Lookup("sweeper")}

(* tenantContextFor *)
actor(c) == actorFor(c.who)

(* It throws before a transaction is opened, and actorFor before it. *)
contextSettings(c) ==
  /\ c.tenant # Nobody
  /\ actor(c) # Nobody
  /\ actor(c).kind = "system" \/ actor(c).id # Nobody

Text(v) == IF v = Nobody THEN Empty ELSE v

(* The first statement: set_config(name, value, true), name by name. *)
Armed(s, c) ==
  [n \in Names |->
     CASE n = "tenant" -> Text(c.tenant)
       [] n = "kind"   -> actor(c).kind
       [] n = "id"     -> Text(actor(c).id)
       [] OTHER        -> IF c.as = n THEN "on" ELSE s[n]]

(* Fault: set_config(name, value, false) outlives the transaction. *)
Ended_Session(s) == s

(* The end of a transaction takes back what was set in it; a setting once  *)
(* made is then empty and no longer NULL.                                  *)
Ended(s) == [n \in Names |-> IF s[n] = Unset THEN Unset ELSE Empty]

------------------------------------------------------------------------------
Idle == [pc |-> "idle", context |-> Lookup("sweeper"), conn |-> Nobody, left |-> {}, staged |-> {}]

TenancyInit ==
  /\ setting = [k \in Pool |-> [n \in Names |-> Unset]]
  /\ unit = [u \in Units |-> Idle]
  /\ audit_log = {}
  /\ begun = 0

Free == {k \in Pool : \A u \in Units : unit[u].conn # k}

(* $transaction, on a connection of the pool. *)
Transaction(u, c, left) ==
  \E k \in Free :
    /\ unit' = [unit EXCEPT ![u] = [pc |-> "open", context |-> c, conn |-> k, left |-> left, staged |-> {}]]
    /\ UNCHANGED <<setting, audit_log>>

withTenant(u, c) ==
  /\ c \in TenantContext
  /\ contextSettings(c)
  /\ Transaction(u, c, {})

withScheduler(u)          == Transaction(u, Lookup("scheduler"), {})
withInstallationLookup(u) == Transaction(u, Lookup("installations"), {})
forEachTenant(u)          == Transaction(u, Lookup("sweeper"), {})

Begin(u) ==
  /\ unit[u].pc = "idle"
  /\ begun < MaxTransactions /\ begun' = begun + 1
  /\ \/ \E c \in TenantContext : withTenant(u, c)
     \/ withScheduler(u)
     \/ withInstallationLookup(u)
     \/ forEachTenant(u)

Arm(u) ==
  /\ unit[u].pc = "open"
  /\ unit' = [unit EXCEPT ![u].pc = "armed"]
  /\ setting' = [setting EXCEPT ![unit[u].conn] = Armed(@, unit[u].context)]
  /\ UNCHANGED <<audit_log, begun>>

(* current_actor_kind and current_actor_id raise otherwise: only system    *)
(* has no id.                                                              *)
Attributed(s) ==
  /\ armed(s, "kind") # Unset
  /\ armed(s, "id") = Unset => armed(s, "kind") = "system"

audit_log_stamp_actor(s, tenant) == [tenant |-> tenant, kind |-> armed(s, "kind"), id |-> armed(s, "id")]

(* An audited edit of a Ticket: the trigger of ticket inserts the row and  *)
(* the one of audit_log stamps it.                                         *)
Edit(u, r) ==
  LET s == setting[unit[u].conn]
  IN  /\ unit[u].pc = "armed"
      /\ r.table = "ticket" /\ Sees(s, r) /\ Writes(s, r)
      /\ Attributed(s)
      /\ Writes(s, [r EXCEPT !.table = "audit_log"])
      /\ unit' = [unit EXCEPT ![u].staged = @ \cup {audit_log_stamp_actor(s, r.tenant)}]
      /\ UNCHANGED <<setting, audit_log, begun>>

(* sweepableTenantIds returns, and its transaction commits with it. *)
Enumerated(u) ==
  IF unit[u].context = Lookup("sweeper")
  THEN {t \in Tenants : Sees(setting[unit[u].conn], [table |-> "tenant", tenant |-> t, contact |-> Nobody])}
  ELSE unit[u].left

CommitTransaction(u) ==
  /\ unit[u].pc = "armed"
  /\ unit' = [unit EXCEPT ![u] = [Idle EXCEPT !.pc = IF Enumerated(u) = {} THEN "idle" ELSE "sweeping",
                                              !.left = Enumerated(u)]]
  /\ audit_log' = audit_log \cup {[entry |-> e, context |-> unit[u].context] : e \in unit[u].staged}
  /\ setting' = [setting EXCEPT ![unit[u].conn] = Ended(@)]
  /\ UNCHANGED begun

(* The next tenant of the loop. *)
VisitTenant(u) ==
  /\ unit[u].pc = "sweeping"
  /\ \E t \in unit[u].left :
       /\ \A o \in unit[u].left : t <= o
       /\ Transaction(u, [as |-> "tenant", tenant |-> t, who |-> System], unit[u].left \ {t})
  /\ UNCHANGED begun

(* A statement, the work or the commit fails, or time is up; a sweep ends  *)
(* with the visit that threw.                                              *)
Rollback(u) ==
  /\ unit[u].pc \in {"open", "armed"}
  /\ unit' = [unit EXCEPT ![u] = Idle]
  /\ setting' = [setting EXCEPT ![unit[u].conn] = Ended(@)]
  /\ UNCHANGED <<audit_log, begun>>

TenancyNext ==
  \E u \in Units :
    \/ Begin(u) \/ Arm(u) \/ CommitTransaction(u) \/ VisitTenant(u) \/ Rollback(u)
    \/ \E r \in Rows : Edit(u, r)

TenancySpec == TenancyInit /\ [][TenancyNext]_tenancy

------------------------------------------------------------------------------
(* The Contact a customer's credential is of. *)
Customer(p) == IF p.kind = "widget" THEN p.contact ELSE p.id

(* What a context is meant to show: the drainer the queue, the lookup the  *)
(* installations, the sweeper the tenants, each across tenants and nothing *)
(* else; a tenant's own context that tenant's rows, and of them a Contact  *)
(* neither what is internal nor what is another Contact's.                 *)
MeantFor(c, r) ==
  CASE c.as = "scheduler"     -> r.table = "job"
    [] c.as = "installations" -> r.table = "slack_installation"
    [] c.as = "sweeper"       -> r.table = "tenant"
    [] OTHER ->
         /\ r.tenant = c.tenant
         /\ c.who.kind \in {"contact", "widget"} =>
              r.table \in Shared \/ (r.table \notin Internal /\ r.contact = Customer(c.who))

Holds(u, k) == unit[u].conn = k /\ unit[u].pc = "armed"

(* However transactions, sweeps and failures follow each other on pooled   *)
(* connections, a connection shows what the context of the transaction on  *)
(* it is meant for, all of it, and nothing before that is armed or after   *)
(* it ends (withTenant, withScheduler, withInstallationLookup,             *)
(* sweepableTenantIds, and the policies); and an audit row names the       *)
(* tenant and the actor its transaction was opened for                     *)
(* (audit_log_stamp_actor).                                                *)
ContextIsTheWholeView ==
  /\ \A k \in Pool, r \in Rows :
       Sees(setting[k], r) <=> \E u \in Units : Holds(u, k) /\ MeantFor(unit[u].context, r)
  /\ \A a \in audit_log :
       /\ a.entry.tenant = a.context.tenant
       /\ a.entry.kind = (IF a.context.who.kind = "widget" THEN "contact" ELSE a.context.who.kind)
       /\ a.entry.id = (IF a.context.who.kind = "system" THEN Unset ELSE Customer(a.context.who))
==============================================================================
