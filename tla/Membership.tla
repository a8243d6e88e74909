------------------------------ MODULE Membership ------------------------------
(***************************************************************************)
(* How a person becomes staff: the invitation, its acceptance by password  *)
(* (src/src/staff/invitation.service.ts) or by Google, and the sign-ins    *)
(* (src/src/auth/auth.service.ts, google-id-token.ts; for a Contact,       *)
(* src/src/portal/portal-auth.service.ts).                                 *)
(*                                                                         *)
(* One seat: the User row of one invited address and its invitation.  A    *)
(* visit is a request of somebody with no credential yet.  `accept` reads  *)
(* in one transaction, hashes outside any, and writes in a second; Google  *)
(* reads the User, then the invitation, then writes, all in one READ       *)
(* COMMITTED transaction.  The writes of a transaction are one step: they  *)
(* start with the row that orders them.                                    *)
(***************************************************************************)
EXTENDS Permissions, Integers

CONSTANTS
  Requests,
  Claims,            \* the ID tokens Google may answer an exchange with
  InvitationTtl,     \* INVITATION_TTL_MS, in clock units
  Horizon            \* bound: the clock stops here

ASSUME MembershipAssumption ==
  /\ Nobody \notin Requests
  /\ \A c \in Claims : c.issuer \in BOOLEAN /\ c.audience \in BOOLEAN /\ c.verified \in BOOLEAN /\ c.exp \in Int
  /\ InvitationTtl \in Nat /\ Horizon \in Nat

VARIABLES
  clock,
  seat,      \* the User row: exists, password (set or not), subject (googleSubject)
  invite,    \* its invitation: exists, expiresAt, acceptedAt (-1 while null)
  visit,     \* a request: pc, its `now`, the claims it brings, the subject it read
  spent,     \* history: how each acceptance that committed was made
  entered,   \* history: the ID token each session was issued for, Nobody for a password
  rivals     \* history: two first Google sign-ins were under way at once

staff == <<seat, invite, visit, spent, entered, rivals>>

IdleVisit == [pc |-> "idle", now |-> 0, claims |-> Nobody, subject |-> Nobody]

(* No member, no invitation. *)
MembershipInit ==
  /\ clock = 0
  /\ seat = [exists |-> FALSE, password |-> FALSE, subject |-> Nobody]
  /\ invite = [exists |-> FALSE, expiresAt |-> 0, acceptedAt |-> -1]
  /\ visit = [v \in Requests |-> IdleVisit]
  /\ spent = {} /\ entered = {} /\ rivals = FALSE

Tick ==
  /\ clock < Horizon
  /\ clock' = clock + 1
  /\ UNCHANGED staff

Leave(v) == visit' = [visit EXCEPT ![v] = IdleVisit]

------------------------------------------------------------------------------
(* invite: the address is unique, so a second one is a conflict. *)
Invite ==
  /\ ~seat.exists
  /\ seat' = [seat EXCEPT !.exists = TRUE]
  /\ invite' = [exists |-> TRUE, expiresAt |-> clock + InvitationTtl, acceptedAt |-> -1]
  /\ UNCHANGED <<clock, visit, spent, entered, rivals>>

(* Accepted is asked before expired; either way the caller is refused. *)
classifyInvitation(now) ==
  IF invite.acceptedAt >= 0 \/ invite.expiresAt <= now THEN "reject" ELSE "accept"

(* accept, the first transaction and the verdict. *)
Accept(v) ==
  /\ visit[v].pc = "idle"
  /\ invite.exists
  /\ classifyInvitation(clock) = "accept"
  /\ visit' = [visit EXCEPT ![v].pc = "hash", ![v].now = clock]
  /\ UNCHANGED <<clock, seat, invite, spent, entered, rivals>>

(* Fault: the update is not conditional on accepted_at. *)
Unspent_Any == TRUE

(* WHERE accepted_at IS NULL. *)
Unspent == invite.acceptedAt < 0

(* accept, the second transaction: the password goes to the seat. *)
SetPassword(v) ==
  /\ visit[v].pc = "hash"
  /\ Leave(v)
  /\ IF Unspent
     THEN /\ invite' = [invite EXCEPT !.acceptedAt = visit[v].now]
          /\ seat' = [seat EXCEPT !.password = TRUE]
          /\ spent' = spent \cup {<<"password", v>>}
     ELSE UNCHANGED <<invite, seat, spent>>
  /\ UNCHANGED <<clock, entered, rivals>>

(* signIn: a row with no hash answers as a wrong password does. *)
SignIn(v) ==
  /\ visit[v].pc = "idle"
  /\ seat.exists /\ seat.password
  /\ entered' = entered \cup {Nobody}
  /\ UNCHANGED <<clock, seat, invite, visit, spent, rivals>>

------------------------------------------------------------------------------
(* readIdTokenFromTokenEndpoint, on a payload that decodes. *)
readIdToken(c, now) ==
  IF ~c.issuer THEN "issuer_mismatch"
  ELSE IF ~c.audience THEN "audience_mismatch"
  ELSE IF c.exp <= now THEN "expired"
  ELSE IF c.subject = Nobody THEN "no_subject"
  ELSE IF ~c.verified THEN "email_unverified"
  ELSE "identity"

(* The row is linked to a different Google account. *)
BoundElsewhere(subject) == seat.subject \notin {Nobody, subject}

(* The controller: exchange, at the token endpoint.  A code Google does    *)
(* not take, no answer in time and a token that is refused are one refusal.*)
Exchange(v, c) ==
  /\ visit[v].pc = "idle"
  /\ readIdToken(c, clock) = "identity"
  /\ visit' = [visit EXCEPT ![v] = [IdleVisit EXCEPT !.pc = "identity", !.claims = c]]
  /\ UNCHANGED <<clock, seat, invite, spent, entered, rivals>>

(* Others who have read the row and would link it to another account. *)
Rivals(v) ==
  {o \in Requests \ {v} : /\ visit[o].pc \in {"invitation", "spend", "link"}
                         /\ visit[o].claims.subject # visit[v].claims.subject}

(* Fault: a row found by its address is taken for unlinked. *)
Google_Relinks(v) ==
  /\ visit[v].pc = "identity"
  /\ seat.exists
  /\ visit' = [visit EXCEPT ![v].pc = "invitation", ![v].now = clock]
  /\ rivals' = (rivals \/ Rivals(v) # {})
  /\ UNCHANGED <<clock, seat, invite, spent, entered>>

(* signInWithGoogle, the reads of the User row: by subject, or by the      *)
(* address, which every claim here names.                                  *)
Google(v) ==
  /\ visit[v].pc = "identity"
  /\ seat.exists
  /\ ~BoundElsewhere(visit[v].claims.subject)
  /\ visit' = [visit EXCEPT ![v].pc = "invitation", ![v].now = clock, ![v].subject = seat.subject]
  /\ rivals' = (rivals \/ Rivals(v) # {})
  /\ UNCHANGED <<clock, seat, invite, spent, entered>>

(* It reads the invitation: an unspent one is this sign-in's to spend. *)
ReadInvitation(v) ==
  /\ visit[v].pc = "invitation"
  /\ IF invite.exists /\ invite.acceptedAt < 0
     THEN IF classifyInvitation(visit[v].now) = "reject"
          THEN Leave(v)
          ELSE visit' = [visit EXCEPT ![v].pc = "spend"]
     ELSE visit' = [visit EXCEPT ![v].pc = "link"]
  /\ UNCHANGED <<clock, seat, invite, spent, entered, rivals>>

(* updateMany found no unspent row. *)
Lost(v) == visit[v].pc = "spend" /\ ~Unspent

(* It spends the invitation if it is its to spend, writes the link if it   *)
(* read none, issues the session and commits.                              *)
Enter(v) ==
  /\ visit[v].pc \in {"spend", "link"}
  /\ Leave(v)
  /\ IF Lost(v)
     THEN UNCHANGED <<seat, invite, spent, entered>>
     ELSE /\ IF visit[v].pc = "spend"
             THEN /\ invite' = [invite EXCEPT !.acceptedAt = visit[v].now]
                  /\ spent' = spent \cup {<<"google", v>>}
             ELSE UNCHANGED <<invite, spent>>
          /\ seat' = IF visit[v].subject = Nobody
                     THEN [seat EXCEPT !.subject = visit[v].claims.subject]
                     ELSE seat
          /\ entered' = entered \cup {visit[v].claims}
  /\ UNCHANGED <<clock, rivals>>

(* The request fails, and its open transaction with it. *)
Abandon(v) ==
  /\ visit[v].pc # "idle"
  /\ Leave(v)
  /\ UNCHANGED <<clock, seat, invite, spent, entered, rivals>>

Visit(v) ==
  \/ Accept(v) \/ SetPassword(v) \/ SignIn(v)
  \/ \E c \in Claims : Exchange(v, c)
  \/ Google(v)
  \/ ReadInvitation(v) \/ Enter(v) \/ Abandon(v)

------------------------------------------------------------------------------
(* "The invite is the only source of membership": a session exists only    *)
(* after the invitation was spent before it lapsed, and a Google session   *)
(* only for a verified address.  However an acceptance by password and one *)
(* by Google interleave, one of them spends it, and the seat has a         *)
(* password only if it was the password's (classifyInvitation, accept,     *)
(* readIdTokenFromTokenEndpoint, signInWithGoogle).                        *)
MembershipIsByInvitation ==
  /\ \A a, b \in spent : a = b
  /\ invite.acceptedAt >= 0 <=> spent # {}
  /\ seat.password => \E v \in Requests : spent = {<<"password", v>>}
  /\ entered # {} => /\ invite.acceptedAt >= 0 /\ invite.acceptedAt < invite.expiresAt
                     /\ \A e \in entered \ {Nobody} : e.verified /\ e.issuer /\ e.audience

(* "Linking is a one-way step": once the seat is linked to a Google        *)
(* account no sign-in moves the link to another.  The exception is two     *)
(* first sign-ins at once: both read an unlinked row, and the update is by *)
(* id alone, so the second displaces the first (signInWithGoogle).         *)
GoogleLinkIsOneWay ==
  [][seat.subject # Nobody /\ ~rivals => seat'.subject = seat.subject]_<<seat, rivals>>
==============================================================================
