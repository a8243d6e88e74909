-------------------------------- MODULE Routes --------------------------------
(***************************************************************************)
(* The HTTP operations, controller by controller, as their decorators      *)
(* declare them, and the guards that read the declarations.                *)
(*                                                                         *)
(* A route says                                                            *)
(*   op          its method and path                                       *)
(*   public      @Public()                                                 *)
(*   kind        @RequiresPrincipalKind, or "any"                          *)
(*   permission  @RequiresPermission, or "none"                            *)
(*   open        @AuthenticatedOnly()                                      *)
(*   takes       the principal the handler's parameter is typed for; the   *)
(*               type is a cast, only the guards make it true              *)
(*   query       the parameters its query DTO declares                     *)
(*   calls       the service operation the handler delegates to            *)
(***************************************************************************)
EXTENDS Permissions

Page     == {"limit", "cursor", "sort"}
Filtered == Page \cup {"state", "priority", "source", "assigneeId", "contactId", "createdAfter", "createdBefore"}

Route(op, kind, permission, takes, query, calls) ==
  [op |-> op, public |-> FALSE, kind |-> kind, permission |-> permission, open |-> FALSE,
   takes |-> takes, query |-> query, calls |-> calls]

Public(op, calls)                    == [Route(op, "any", "none", "any", {}, calls) EXCEPT !.public = TRUE]
Granted(op, permission, calls)       == Route(op, "any", permission, "any", {}, calls)
Listed(op, permission, query, calls) == Route(op, "any", permission, "any", query, calls)
StaffOnly(op, permission, calls)     == Route(op, "any", permission, "user", {}, calls)
Customers(op, kind, query, calls)    == Route(op, kind, "none", kind, query, calls)

------------------------------------------------------------------------------
TicketCollection ==
  {Granted("POST /tickets", "ticket:create", "TicketService.create"),
   Listed("GET /tickets", "ticket:read", Filtered, "TicketService.list")}

TicketById ==
  {Granted("GET /tickets/:id", "ticket:read", "TicketService.findOne"),
   Granted("GET /tickets/:id/conversation", "ticket:read", "TicketService.conversation")}

TicketWrites ==
  {Granted("PATCH /tickets/:id/state", "ticket:transition", "TicketService.transition"),
   Granted("PATCH /tickets/:id/priority", "ticket:priority", "TicketService.setPriority"),
   Granted("PATCH /tickets/:id/assignee", "ticket:assign", "TicketService.setAssignee")}

MessageRoutes ==
  {Granted("POST /tickets/:id/messages", "ticket:reply", "MessageService.post"),
   Listed("GET /tickets/:id/messages", "ticket:read", Page, "MessageService.listForTicket")}

NoteRoutes ==
  {Granted("POST /tickets/:id/notes", "note:write", "NoteService.write"),
   Listed("GET /tickets/:id/notes", "note:read", Page, "NoteService.listForTicket")}

AuditRoutes     == {Listed("GET /tickets/:id/audit", "audit:read", Page, "AuditService.listForTicket")}
AnalyticsRoutes ==
  {Listed("GET /analytics", "analytics:read", {"from", "to", "groupBy"}, "AnalyticsService.report")}

InvitationRoutes ==
  {StaffOnly("POST /staff/invitations", "user:invite", "InvitationService.invite"),
   Public("POST /staff/invitations/accept", "InvitationService.accept")}

ServiceTokenRoutes ==
  {StaffOnly("POST /service-tokens", "token:manage", "ServiceTokenService.mint"),
   Granted("GET /service-tokens/scopes", "token:manage", "ASSIGNABLE_SCOPES"),
   StaffOnly("GET /service-tokens", "token:manage", "ServiceTokenService.list"),
   StaffOnly("DELETE /service-tokens/:id", "token:manage", "ServiceTokenService.revoke")}

(* The class declares the kind for every operation of the two surfaces. *)
PortalTicketRoutes ==
  {Customers("POST /portal/tickets", "contact", {}, "TicketService.create"),
   Customers("GET /portal/tickets", "contact", Filtered, "TicketService.list"),
   Customers("GET /portal/tickets/:id", "contact", {}, "TicketService.findOne"),
   Customers("GET /portal/tickets/:id/messages", "contact", Page, "MessageService.listForTicket"),
   Customers("POST /portal/tickets/:id/messages", "contact", {}, "ContactReplyService.reply")}

WidgetTicketCollection ==
  {Customers("POST /widget/tickets", "widget", {}, "TicketService.create"),
   Customers("GET /widget/tickets", "widget", Filtered, "TicketService.list")}

WidgetTicketById ==
  {Customers("GET /widget/tickets/:id", "widget", {}, "TicketService.findOne"),
   Customers("GET /widget/tickets/:id/messages", "widget", Page, "MessageService.listForTicket"),
   Customers("POST /widget/tickets/:id/messages", "widget", {}, "ContactReplyService.reply")}

WidgetSessionRoutes ==
  {Public("POST /widget/sessions", "WidgetSessionService.bootstrap"),
   Customers("POST /widget/sessions/renew", "widget", {}, "WidgetSessionService.renew")}

AuthRoutes ==
  {Public("POST /auth/sign-in", "AuthService.signIn"),
   Public("POST /auth/google", "AuthService.signInWithGoogle")}

SessionRoutes ==
  {Public("POST /auth/refresh", "AuthService.refresh"),
   Public("POST /auth/sign-out", "AuthService.signOut")}

MeRoute ==
  {[Route("GET /auth/me", "user", "none", "user", {}, "AuthService.currentUser") EXCEPT !.open = TRUE]}

PortalAuthRoutes ==
  {Public("POST /portal/auth/sign-in", "PortalAuthService.signIn"),
   Public("POST /portal/auth/refresh", "PortalAuthService.refresh"),
   Public("POST /portal/auth/sign-out", "PortalAuthService.signOut"),
   Customers("GET /portal/auth/me", "contact", {}, "PortalAuthService.currentContact")}

OperationsRoutes ==
  {Public("GET /meta/error-codes", "ERROR_CATALOG"),
   Public("GET /health", "liveness"),
   Public("GET /health/ready", "readiness"),
   Public("POST /integrations/slack/events", "SlackInboundService.accept")}

Routes ==
  TicketCollection \cup TicketById \cup TicketWrites \cup MessageRoutes \cup NoteRoutes \cup AuditRoutes \cup
  AnalyticsRoutes \cup InvitationRoutes \cup ServiceTokenRoutes \cup PortalTicketRoutes \cup
  WidgetTicketCollection \cup WidgetTicketById \cup WidgetSessionRoutes \cup AuthRoutes \cup SessionRoutes \cup
  MeRoute \cup PortalAuthRoutes \cup OperationsRoutes

------------------------------------------------------------------------------
(* UnknownQueryParamsGuard: a parameter nothing declares is refused. *)
UnknownQueryParams(route, supplied) ==
  IF supplied \subseteq route.query THEN "ok" ELSE "invalid_filter"

(* PermissionGuard: the kind first, then the permission; silence refuses. *)
PermissionGuard(route, p) ==
  IF route.public THEN "ok"
  ELSE IF p = Nobody THEN "unauthenticated"
  ELSE IF route.kind \notin {"any", p.kind} THEN "forbidden"
  ELSE IF IF route.permission = "none" THEN route.open \/ route.kind # "any"
          ELSE route.permission \in permissionsFor(p)
       THEN "ok" ELSE "forbidden"
==============================================================================
