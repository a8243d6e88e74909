-------------------------------- MODULE Access --------------------------------
(***************************************************************************)
(* Requests with a credential, through the guards to the handlers that     *)
(* change credentials: service tokens (src/src/service-tokens/), widget    *)
(* sessions (src/src/widget/) and, composed with Membership, staff         *)
(* accounts and their invitations.                                         *)
(*                                                                         *)
(* AuthGuard reads the credential's row once; PermissionGuard and the      *)
(* handler act on what it read.  A handler's transaction is one step from  *)
(* the row lock it takes to its commit, except the widget's, which locks   *)
(* the session, creates the Contact and then writes the session.           *)
(*                                                                         *)
(* One service token, one widget session.  The Contact rows a widget       *)
(* session creates are numbered.                                           *)
(***************************************************************************)
EXTENDS Routes, Membership

CONSTANTS
  Asked,        \* the scope sets a mint may ask for
  Stored,       \* the scopes a row written before the catalog changed may hold
  Origins,      \* the Origin headers a browser may send, as normalizeOrigin leaves them
  WidgetOrigins, \* the tenant's configured ones
  Opaque,       \* the origin a sandboxed frame sends: "null"
  AccessTtl,    \* ACCESS_TOKEN_TTL_SECONDS, in clock units
  WidgetTtl     \* WIDGET_SESSION_TTL_SECONDS

ASSUME AccessAssumption ==
  /\ AccessTtl \in Nat \ {0} /\ WidgetTtl \in Nat \ {0}
  /\ Nobody \notin Nat

VARIABLES
  token,      \* the service token's row: exists, scopes, revoked
  audit,      \* how many audit entries say it was minted, and revoked
  session,    \* the widget session's row: exists, revoked, expiresAt, contact
  contacts,   \* how many anonymous Contacts exist
  openers,    \* the Contacts that opened a Ticket from the widget
  granted,    \* history: the latest expiry a widget client was told
  req,        \* a request: pc, the principal AuthGuard read, and its `now`
  graced,     \* history: the requests past AuthGuard when their credential was revoked
  clash       \* history: two renewals were under way at once

machine  == <<token, audit>>
widget   == <<session, contacts, openers, granted, clash>>
pipeline == <<req, graced>>
vars     == <<clock, staff, machine, widget, pipeline>>

IdleRequest == [pc |-> "idle", who |-> Nobody, now |-> 0]

Row(scopes) == [exists |-> TRUE, scopes |-> scopes, revoked |-> FALSE]

Init ==
  /\ MembershipInit
  /\ token \in {[exists |-> FALSE, scopes |-> {}, revoked |-> FALSE]} \cup {Row(s) : s \in Stored}
  /\ audit = [minted |-> IF token.exists THEN 1 ELSE 0, revoked |-> 0]
  /\ session = [exists |-> FALSE, revoked |-> FALSE, expiresAt |-> 0, contact |-> Nobody]
  /\ contacts = 0 /\ openers = {} /\ granted = 0
  /\ req = [r \in Requests |-> IdleRequest]
  /\ graced = {} /\ clash = FALSE

Done(r) ==
  /\ req' = [req EXCEPT ![r] = IdleRequest]
  /\ graced' = graced \ {r}

------------------------------------------------------------------------------
(* Fault: revoked_at is not looked at. *)
verifyService_Revoked == IF token.exists THEN Service("token", grantedScopes(token.scopes)) ELSE Nobody

(* ServiceTokenService.verify: the row is read every time. *)
verifyService ==
  IF token.exists /\ ~token.revoked THEN Service("token", grantedScopes(token.scopes)) ELSE Nobody

(* WidgetSessionService.verify of a grant that says `until`: the JWT's own *)
(* expiry, then the row's; the Contact comes from the row.                 *)
verifyWidget(until) ==
  IF session.exists /\ clock < until /\ ~session.revoked /\ clock < session.expiresAt
  THEN Widget("session", session.contact) ELSE Nobody

(* AccessTokenService.verify of tokens signed at the start: the two staff  *)
(* of the tenant, a portal Contact, and a role the enum no longer has.     *)
verifyAccess(claims) == IF clock < AccessTtl THEN principalFromClaims(claims) ELSE Nobody

Signed ==
  {[kind |-> "user", sub |-> "boss", role |-> "admin"], [kind |-> "user", sub |-> "desk", role |-> "agent"],
   [kind |-> "user", sub |-> "gone", role |-> "owner"], [kind |-> "contact", sub |-> "customer", role |-> "none"]}

(* The staff account of Membership has a token once it has a session. *)
SeatClaims == IF entered = {} THEN {} ELSE {[kind |-> "user", sub |-> "seat", role |-> "agent"]}

(* AuthGuard.resolve, by the token's prefix; a widget client presents its  *)
(* latest grant (an older one resolves to the same or to nobody).          *)
resolve ==
  {verifyService, verifyWidget(granted)} \cup {verifyAccess(c) : c \in Signed \cup SeatClaims}

(* AuthGuard: a request that resolves to nobody is refused there. *)
Authenticate(r) ==
  /\ req[r].pc = "idle" /\ visit[r].pc = "idle"
  /\ \E p \in resolve \ {Nobody} : req' = [req EXCEPT ![r] = [pc |-> "guarded", who |-> p, now |-> 0]]
  /\ UNCHANGED <<clock, staff, machine, widget, graced>>

(* PermissionGuard lets the request through to a handler that calls this. *)
Admitted(r, operation) ==
  /\ req[r].pc = "guarded"
  /\ \E route \in Routes : route.calls = operation /\ PermissionGuard(route, req[r].who) = "ok"

(* It is refused, or its operation changes no credential. *)
Serve(r) ==
  /\ req[r].pc = "guarded"
  /\ Done(r)
  /\ UNCHANGED <<clock, staff, machine, widget>>

(* POST /staff/invitations; a conflict changes nothing. *)
HandleInvite(r) ==
  /\ Admitted(r, "InvitationService.invite")
  /\ Invite
  /\ Done(r)
  /\ UNCHANGED <<machine, widget>>

------------------------------------------------------------------------------
(* mint, and its audit entry in the same transaction. *)
Mint(r, asked) ==
  /\ Admitted(r, "ServiceTokenService.mint")
  /\ ~token.exists
  /\ classifyScopes(asked) = "accept"
  /\ token' = Row(asked)
  /\ audit' = [audit EXCEPT !.minted = @ + 1]
  /\ Done(r)
  /\ UNCHANGED <<clock, staff, widget>>

(* revoke, the read: the row is there, whatever it says. *)
FindToken(r) ==
  /\ Admitted(r, "ServiceTokenService.revoke")
  /\ token.exists
  /\ req' = [req EXCEPT ![r].pc = "revoke"]
  /\ UNCHANGED <<clock, staff, machine, widget, graced>>

(* WHERE revoked_at IS NULL. *)
Unrevoked == ~token.revoked

(* revoke, the update and its audit entry, or the conflict. *)
RevokeToken(r) ==
  /\ req[r].pc = "revoke"
  /\ req' = [req EXCEPT ![r] = IdleRequest]
  /\ IF Unrevoked
     THEN /\ token' = [token EXCEPT !.revoked = TRUE]
          /\ audit' = [audit EXCEPT !.revoked = @ + 1]
          /\ graced' = graced \cup {o \in Requests \ {r} : req[o].who # Nobody /\ req[o].who.kind = "service"}
     ELSE UNCHANGED machine /\ graced' = graced \ {r}
  /\ UNCHANGED <<clock, staff, widget>>

------------------------------------------------------------------------------
(* No header and the opaque origin match nothing, whatever is configured. *)
originIsAllowed(o) == o \in WidgetOrigins \ {Opaque, Nobody}

(* bootstrap, from an origin the tenant allows: an anonymous session. *)
Bootstrap(o) ==
  /\ originIsAllowed(o)
  /\ ~session.exists
  /\ session' = [exists |-> TRUE, revoked |-> FALSE, expiresAt |-> clock + WidgetTtl, contact |-> Nobody]
  /\ granted' = clock + WidgetTtl
  /\ UNCHANGED <<clock, staff, machine, pipeline, contacts, openers, clash>>

(* Nothing in the API sets revoked_at; an operator does. *)
RevokeSession ==
  /\ session.exists /\ ~session.revoked
  /\ session' = [session EXCEPT !.revoked = TRUE]
  /\ graced' = graced \cup {o \in Requests : req[o].who # Nobody /\ req[o].who.kind = "widget"}
  /\ UNCHANGED <<clock, staff, machine, contacts, openers, granted, clash, req>>

(* renew reads the time of the new expiry ... *)
Renew(r) ==
  /\ Admitted(r, "WidgetSessionService.renew")
  /\ req' = [req EXCEPT ![r].pc = "renew", ![r].now = clock]
  /\ clash' = (clash \/ \E o \in Requests : req[o].pc = "renew")
  /\ UNCHANGED <<clock, staff, machine, session, contacts, openers, granted, graced>>

(* Fault: a revoked session is renewed back into life. *)
Renewable_Any == TRUE

(* WHERE revoked_at IS NULL; the expiry is not asked again. *)
Renewable == ~session.revoked

(* The expiry the row is given. *)
RenewedUntil(r) == req[r].now + WidgetTtl

(* ... and writes it if the origin passes, then hands out the grant. *)
WriteRenewal(r, o) ==
  LET until == req[r].now + WidgetTtl IN
  /\ req[r].pc = "renew"
  /\ IF originIsAllowed(o) /\ Renewable
     THEN /\ session' = [session EXCEPT !.expiresAt = RenewedUntil(r)]
          /\ granted' = IF until > granted THEN until ELSE granted
     ELSE UNCHANGED <<session, granted>>
  /\ Done(r)
  /\ UNCHANGED <<clock, staff, machine, contacts, openers, clash>>

(* Fault: the session row is read, not locked. *)
Locked_Never(r) == FALSE

(* SELECT ... FOR UPDATE waits for a transaction that has the row. *)
Locked(r) == \E o \in Requests \ {r} : req[o].pc = "create"

(* open, contactPrincipalFor: a principal that has a Contact is that       *)
(* Contact; otherwise the session is locked and asked again.               *)
Open(r) ==
  /\ Admitted(r, "TicketService.create")
  /\ req[r].who.kind = "widget"
  /\ IF req[r].who.contact # Nobody
     THEN /\ openers' = openers \cup {req[r].who.contact}
          /\ Done(r)
     ELSE /\ ~Locked(r)
          /\ IF session.revoked THEN Done(r) /\ UNCHANGED openers
             ELSE IF session.contact # Nobody
             THEN Done(r) /\ openers' = openers \cup {session.contact}
             ELSE /\ req' = [req EXCEPT ![r].pc = "create"]
                  /\ UNCHANGED <<openers, graced>>
  /\ UNCHANGED <<clock, staff, machine, session, contacts, granted, clash>>

(* The Contact is created, the session points at it, and it opens a Ticket. *)
CreateContact(r) ==
  /\ req[r].pc = "create"
  /\ contacts' = contacts + 1
  /\ session' = [session EXCEPT !.contact = contacts']
  /\ openers' = openers \cup {contacts'}
  /\ Done(r)
  /\ UNCHANGED <<clock, staff, machine, granted, clash>>

------------------------------------------------------------------------------
Handle(r) ==
  \/ Authenticate(r) \/ Serve(r) \/ HandleInvite(r)
  \/ \E s \in Asked : Mint(r, s)
  \/ FindToken(r) \/ RevokeToken(r)
  \/ Renew(r) \/ (\E o \in Origins : WriteRenewal(r, o))
  \/ Open(r) \/ CreateContact(r)

VisitStep(r) ==
  /\ req[r].pc = "idle"
  /\ Visit(r)
  /\ UNCHANGED <<machine, widget, pipeline>>

Next ==
  \/ Tick /\ UNCHANGED <<machine, widget, pipeline>>
  \/ \E o \in Origins : Bootstrap(o)
  \/ RevokeSession
  \/ \E r \in Requests : Handle(r) \/ VisitStep(r)

Spec == Init /\ [][Next]_vars

------------------------------------------------------------------------------
(* "Staff by construction": whatever credential a request came with, every *)
(* operation the guards let it reach is one whose handler takes its kind   *)
(* of principal (PermissionGuard over the decorators, grantedScopes).      *)
HandlersGetTheirPrincipal ==
  \A r \in Requests : req[r].who # Nobody =>
    \A route \in Routes :
      ~route.public /\ PermissionGuard(route, req[r].who) = "ok" => route.takes \in {"any", req[r].who.kind}

(* "Takes effect on the token's very next request": a request that acts    *)
(* for a revoked token or widget session was past AuthGuard when it was    *)
(* revoked, and a token that is revoked twice at once is audited once      *)
(* (verify reads the row every time, revoke).                              *)
RevocationIsImmediate ==
  /\ \A r \in Requests \ graced : req[r].who # Nobody =>
       /\ req[r].who.kind = "service" => ~token.revoked
       /\ req[r].who.kind = "widget" => ~session.revoked
  /\ audit.revoked = IF token.revoked THEN 1 ELSE 0

(* "A visitor who opens two Tickets in one conversation is one customer    *)
(* rather than two", however the requests race (contactPrincipalFor).      *)
OneContactPerSession == contacts <= 1 /\ openers \subseteq {session.contact}

(* The expiry a widget client was told is the row's, so its grant is       *)
(* honoured to the end, and "a session revoked between this request's      *)
(* verification and this statement must not be renewed back into life"     *)
(* (renew).  The exception is two renewals at once, which may write in the *)
(* opposite order of their clocks.                                         *)
GrantIsHonoured ==
  [][/\ session'.exists /\ ~clash' => session'.expiresAt = granted'
     /\ session.revoked => session'.expiresAt = session.expiresAt]_<<session, granted, clash>>
==============================================================================
