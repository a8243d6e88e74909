------------------------------ MODULE Permissions ------------------------------
(***************************************************************************)
(* Who a caller is and what it may do: the permission catalog, the grants  *)
(* of roles and of service tokens (src/src/authz/permissions.ts,           *)
(* service-scopes.ts), the principals a credential resolves to and the     *)
(* actor each one arms in the database (src/src/auth/request-principal.ts).*)
(*                                                                         *)
(* A principal is a record of four fields, whichever its kind:             *)
(*   kind    "user", "contact", "widget" or "service"                      *)
(*   id      userId, contactId, sessionId or tokenId                       *)
(*   grants  the role of a user, as a set of one; the scopes of a service  *)
(*   contact the contactId a widget session has, or Nobody                 *)
(***************************************************************************)
EXTENDS FiniteSets

CONSTANT Nobody

SUPPORT_WORK ==
  {"ticket:read", "ticket:create", "ticket:reply", "ticket:transition", "ticket:assign",
   "ticket:priority", "note:read", "note:write", "contact:read", "analytics:read", "user:read"}

PERMISSION_CATALOG ==
  SUPPORT_WORK \cup {"ticket:close", "ticket:delete", "user:invite", "user:deactivate",
                     "sla:configure", "token:manage", "audit:read"}

ROLE_PERMISSIONS == [agent |-> SUPPORT_WORK, admin |-> PERMISSION_CATALOG]

------------------------------------------------------------------------------
(* The four principals. *)
User(id, role)       == [kind |-> "user",    id |-> id, grants |-> {role}, contact |-> Nobody]
Contact(id)          == [kind |-> "contact", id |-> id, grants |-> {},     contact |-> Nobody]
Widget(id, contact)  == [kind |-> "widget",  id |-> id, grants |-> {},     contact |-> contact]
Service(id, scopes)  == [kind |-> "service", id |-> id, grants |-> scopes, contact |-> Nobody]

(* A role the map does not cover has no authority, and a Contact or a      *)
(* widget session has none to look up.                                     *)
permissionsFor(p) ==
  CASE p.kind = "service" -> p.grants
    [] p.kind = "user"    -> UNION {ROLE_PERMISSIONS[r] : r \in p.grants \cap DOMAIN ROLE_PERMISSIONS}
    [] OTHER              -> {}

ASSIGNABLE_SCOPES  == SUPPORT_WORK
UNGRANTABLE_SCOPES == PERMISSION_CATALOG \ ASSIGNABLE_SCOPES

(* What a mint request is told, the first of the four that applies. *)
classifyScopes(requested) ==
  IF requested = {} THEN "empty"
  ELSE IF ~(requested \subseteq PERMISSION_CATALOG) THEN "unknown"
  ELSE IF requested \cap UNGRANTABLE_SCOPES # {} THEN "forbidden"
  ELSE "accept"

(* Fault: the column is trusted. *)
grantedScopes_Trusted(stored) == stored

(* The stored scopes are narrowed on every read. *)
grantedScopes(stored) == stored \cap ASSIGNABLE_SCOPES

------------------------------------------------------------------------------
(* verify of a staff or portal access token: only these two kinds are      *)
(* signed with that key, and a role the enum does not have is refused.     *)
principalFromClaims(claims) ==
  IF claims.sub = Nobody THEN Nobody
  ELSE CASE claims.kind = "user" /\ claims.role \in DOMAIN ROLE_PERMISSIONS -> User(claims.sub, claims.role)
         [] claims.kind = "contact" -> Contact(claims.sub)
         [] OTHER                   -> Nobody

(* The actor a principal arms row-level security with.  A widget session   *)
(* that has no Contact yet arms none: actorFor throws.                     *)
actorFor(p) ==
  IF p.kind # "widget" THEN [kind |-> p.kind, id |-> p.id]
  ELSE IF p.contact = Nobody THEN Nobody
  ELSE [kind |-> "contact", id |-> p.contact]
==============================================================================
