----------------------------- MODULE AccessProofs -----------------------------
(***************************************************************************)
(* Membership by invitation, the one-way Google link, and what the guards, *)
(* the service tokens and the widget sessions promise, for every number of *)
(* requests, every set of claims, scopes and origins, and every horizon.   *)
(*                                                                         *)
(* The staff accounts and the credentials share the requests and the       *)
(* clock and nothing else, so each has an invariant of its own: StaffInv,  *)
(* which a step of the pipeline moves only by Membership's actions, and    *)
(* CredentialInv.                                                          *)
(*                                                                         *)
(* And what a request finds once it is let in, for any number of tenants,  *)
(* Contacts, connections, units of work and attempts: a pooled connection  *)
(* shows what the context of the transaction on it is meant for and        *)
(* nothing else; and the row of an outbound delivery tells how its job     *)
(* ended and what was posted.                                              *)
(***************************************************************************)
EXTENDS Access, SlackDelivery, Tenancy, TLAPS

------------------------------------------------------------------------------
(* Staff.  The seat and its invitation appear together, whoever spends it  *)
(* asked in time, and whoever reads the seat's link will not displace      *)
(* another's, unless the two read it at once.                              *)
Subjects   == {c.subject : c \in Claims} \cup {Nobody}
VisitPcs   == {"idle", "hash", "identity", "invitation", "spend", "link"}
ReadingPcs == {"invitation", "spend", "link"}

StaffTypeOK ==
  /\ clock \in Nat
  /\ seat \in [exists : BOOLEAN, password : BOOLEAN, subject : Subjects]
  /\ invite \in [exists : BOOLEAN, expiresAt : Nat, acceptedAt : Nat \cup {-1}]
  /\ visit \in [Requests -> [pc : VisitPcs, now : Nat, claims : Claims \cup {Nobody}, subject : Subjects]]

Vouched(c) == c \in Claims /\ c.verified /\ c.issuer /\ c.audience

SeatInv ==
  /\ seat.exists <=> invite.exists
  /\ ~invite.exists => invite.acceptedAt = -1
  /\ \A a, b \in spent : a = b
  /\ invite.acceptedAt >= 0 <=> spent # {}
  /\ invite.acceptedAt >= 0 => invite.acceptedAt < invite.expiresAt
  /\ seat.password => \E v \in Requests : spent = {<<"password", v>>}
  /\ entered # {} => invite.acceptedAt >= 0
  /\ \A e \in entered : e = Nobody \/ Vouched(e)

VisitInv ==
  \A v \in Requests :
    /\ visit[v].pc \in {"hash", "spend"} => visit[v].now < invite.expiresAt
    /\ visit[v].pc \in ReadingPcs \cup {"hash"} => invite.exists
    /\ visit[v].pc = "link" => invite.acceptedAt >= 0
    /\ visit[v].pc \in ReadingPcs \cup {"identity"} => Vouched(visit[v].claims)

LinkInv ==
  ~rivals => \A v \in Requests : visit[v].pc \in ReadingPcs =>
    /\ \A o \in Requests : visit[o].pc \in ReadingPcs => visit[o].claims.subject = visit[v].claims.subject
    /\ visit[v].subject = Nobody => seat.subject \in {Nobody, visit[v].claims.subject}

StaffInv == StaffTypeOK /\ SeatInv /\ VisitInv /\ LinkInv

LEMMA StaffStarts == MembershipInit => StaffInv
<1> SUFFICES ASSUME MembershipInit PROVE StaffInv
  BY Zenon
<1>1. StaffTypeOK
  BY Zenon DEF MembershipInit, IdleVisit, StaffTypeOK, Subjects, VisitPcs
<1>2. SeatInv
  BY DEF MembershipInit, SeatInv
<1>3. VisitInv /\ LinkInv
  BY Zenon DEF MembershipInit, IdleVisit, VisitInv, LinkInv, ReadingPcs
<1> QED BY <1>1, <1>2, <1>3, Zenon DEF StaffInv

(* A visit that goes idle, or stays at the same step, promises nothing new. *)
LEMMA LeaveKeeps ==
  ASSUME StaffInv, NEW v \in Requests, Leave(v), UNCHANGED <<clock, seat, invite, rivals>>
  PROVE  /\ StaffTypeOK' /\ VisitInv' /\ LinkInv'
<1> USE DEF StaffInv
<1>1. /\ visit'[v] = IdleVisit
      /\ \A o \in Requests : o # v => visit'[o] = visit[o]
      /\ visit' \in [Requests -> [pc : VisitPcs, now : Nat, claims : Claims \cup {Nobody}, subject : Subjects]]
  BY Zenon DEF Leave, IdleVisit, StaffTypeOK, Subjects, VisitPcs
<1>2. visit'[v].pc = "idle"
  BY <1>1 DEF IdleVisit
<1>3. StaffTypeOK'
  BY <1>1, Zenon DEF StaffTypeOK
<1>4. VisitInv'
  BY <1>1, <1>2, Zenon DEF VisitInv, ReadingPcs
<1>5. LinkInv'
  <2>1. \A o \in Requests : visit'[o].pc \in ReadingPcs => visit'[o] = visit[o]
    BY <1>1, <1>2, Zenon DEF ReadingPcs
  <2> QED BY <2>1, Zenon DEF LinkInv
<1> QED BY <1>3, <1>4, <1>5, Zenon

LEMMA InviteKeeps ==
  ASSUME StaffInv, Invite
  PROVE  StaffInv'
<1> USE DEF StaffInv
<1>1. /\ ~seat.exists /\ seat' = [seat EXCEPT !.exists = TRUE]
      /\ invite' = [exists |-> TRUE, expiresAt |-> clock + InvitationTtl, acceptedAt |-> -1]
      /\ UNCHANGED <<clock, visit, spent, entered, rivals>>
  BY Zenon DEF Invite
<1>2. StaffTypeOK'
  <2>1. seat' \in [exists : BOOLEAN, password : BOOLEAN, subject : Subjects]
    BY <1>1, Zenon DEF StaffTypeOK
  <2>2. clock + InvitationTtl \in Nat
    BY MembershipAssumption DEF StaffTypeOK
  <2> QED BY <1>1, <2>1, <2>2, Zenon DEF StaffTypeOK
<1>3. ~invite.exists /\ spent = {} /\ entered = {} /\ ~seat.password
  <2>1. ~invite.exists /\ ~(invite.acceptedAt >= 0)
    BY <1>1 DEF SeatInv
  <2> QED BY <2>1, Zenon DEF SeatInv
<1>4. /\ invite'.exists /\ invite'.acceptedAt = -1 /\ ~(invite'.acceptedAt >= 0)
      /\ seat'.exists /\ seat'.password = seat.password /\ seat'.subject = seat.subject
  BY <1>1 DEF StaffTypeOK
<1>5. SeatInv'
  BY <1>1, <1>3, <1>4, Zenon DEF SeatInv
<1>6. VisitInv'
  BY <1>1, <1>3, <1>4, Zenon DEF VisitInv, ReadingPcs
<1>7. LinkInv'
  BY <1>1, <1>4, Zenon DEF LinkInv
<1> QED BY <1>2, <1>5, <1>6, <1>7, Zenon

LEMMA AcceptKeeps ==
  ASSUME StaffInv, NEW v \in Requests, Accept(v)
  PROVE  StaffInv'
<1> USE DEF StaffInv
<1>1. /\ visit' = [visit EXCEPT ![v].pc = "hash", ![v].now = clock]
      /\ UNCHANGED <<clock, seat, invite, spent, entered, rivals>>
      /\ invite.exists
  BY Zenon DEF Accept
<1>2. clock < invite.expiresAt
  BY DEF Accept, classifyInvitation, StaffTypeOK
<1>3. /\ visit'[v].pc = "hash" /\ visit'[v].now = clock
      /\ \A o \in Requests : o # v => visit'[o] = visit[o]
  BY <1>1, Zenon DEF StaffTypeOK
<1>4. StaffTypeOK'
  <2>1. visit'[v] = [visit[v] EXCEPT !.pc = "hash", !.now = clock]
    BY <1>1, Zenon DEF StaffTypeOK
  <2>2. visit'[v] \in [pc : VisitPcs, now : Nat, claims : Claims \cup {Nobody}, subject : Subjects]
    BY <2>1, Zenon DEF StaffTypeOK, VisitPcs
  <2>3. visit' \in [Requests -> [pc : VisitPcs, now : Nat, claims : Claims \cup {Nobody}, subject : Subjects]]
    BY <1>1, <2>2, Zenon DEF StaffTypeOK
  <2> QED BY <1>1, <2>3, Zenon DEF StaffTypeOK
<1>5. SeatInv'
  BY <1>1, Zenon DEF SeatInv
<1>6. VisitInv'
  BY <1>1, <1>2, <1>3, Zenon DEF VisitInv, ReadingPcs
<1>7. LinkInv'
  <2>1. \A o \in Requests : visit'[o].pc \in ReadingPcs => visit'[o] = visit[o]
    BY <1>3, Zenon DEF ReadingPcs
  <2> SUFFICES ASSUME ~rivals, NEW o \in Requests, visit'[o].pc \in ReadingPcs
               PROVE  /\ \A w \in Requests : visit'[w].pc \in ReadingPcs =>
                           visit'[w].claims.subject = visit'[o].claims.subject
                      /\ visit'[o].subject = Nobody => seat'.subject \in {Nobody, visit'[o].claims.subject}
    BY <1>1, Zenon DEF LinkInv
  <2>2. visit'[o] = visit[o] /\ visit[o].pc \in ReadingPcs
    BY <2>1, Zenon
  <2>3. /\ \A w \in Requests : visit[w].pc \in ReadingPcs =>
             visit[w].claims.subject = visit[o].claims.subject
        /\ visit[o].subject = Nobody => seat.subject \in {Nobody, visit[o].claims.subject}
    BY <2>2, Zenon DEF LinkInv
  <2> QED BY <1>1, <2>1, <2>2, <2>3, Zenon
<1> QED BY <1>4, <1>5, <1>6, <1>7, Zenon

LEMMA SetPasswordKeeps ==
  ASSUME StaffInv, NEW v \in Requests, SetPassword(v)
  PROVE  StaffInv'
<1> USE DEF StaffInv
<1>1. CASE ~Unspent
  <2>1. UNCHANGED <<clock, seat, invite, spent, entered, rivals>> /\ Leave(v)
    BY <1>1, Zenon DEF SetPassword
  <2>2. SeatInv'
    BY <2>1, Zenon DEF SeatInv
  <2> QED BY <2>1, <2>2, LeaveKeeps, Zenon
<1>2. CASE Unspent
  <2>1. /\ invite' = [invite EXCEPT !.acceptedAt = visit[v].now]
        /\ seat' = [seat EXCEPT !.password = TRUE]
        /\ spent' = spent \cup {<<"password", v>>}
        /\ UNCHANGED <<clock, entered, rivals>>
        /\ visit' = [visit EXCEPT ![v] = IdleVisit]
    BY <1>2, Zenon DEF SetPassword, Leave
  <2>2. spent = {} /\ entered = {}
    BY <1>2 DEF SeatInv, Unspent, StaffTypeOK
  <2>3. visit[v].now \in Nat /\ visit[v].now < invite.expiresAt /\ invite.exists
    BY Zenon DEF SetPassword, VisitInv, StaffTypeOK
  <2>4. /\ visit'[v].pc = "idle"
        /\ \A o \in Requests : o # v => visit'[o] = visit[o]
        /\ visit' \in [Requests -> [pc : VisitPcs, now : Nat, claims : Claims \cup {Nobody}, subject : Subjects]]
    BY <2>1, Zenon DEF IdleVisit, StaffTypeOK, Subjects, VisitPcs
  <2>5. /\ invite'.exists = invite.exists /\ invite'.expiresAt = invite.expiresAt
        /\ invite'.acceptedAt = visit[v].now
        /\ seat'.exists = seat.exists /\ seat'.subject = seat.subject
    BY <2>1, Zenon DEF StaffTypeOK
  <2>6. StaffTypeOK'
    BY <2>1, <2>3, <2>4, Zenon DEF StaffTypeOK
  <2>7. SeatInv'
    <3>1. spent' = {<<"password", v>>}
      BY <2>1, <2>2, Zenon
    <3>2. invite'.acceptedAt >= 0 /\ invite'.acceptedAt < invite'.expiresAt
      BY <2>3, <2>5
    <3> QED BY <2>1, <2>2, <2>3, <2>5, <3>1, <3>2, Zenon DEF SeatInv
  <2>8. VisitInv'
    <3>1. invite'.acceptedAt >= 0
      BY <2>3, <2>5
    <3> QED BY <2>4, <2>5, <3>1, Zenon DEF VisitInv, ReadingPcs
  <2>9. LinkInv'
    <3>0. "idle" \notin ReadingPcs
      BY DEF ReadingPcs
    <3>1. SUFFICES ASSUME ~rivals, NEW o \in Requests, visit'[o].pc \in ReadingPcs
                   PROVE  /\ \A w \in Requests : visit'[w].pc \in ReadingPcs =>
                               visit'[w].claims.subject = visit'[o].claims.subject
                          /\ visit'[o].subject = Nobody => seat'.subject \in {Nobody, visit'[o].claims.subject}
      BY <2>1, Zenon DEF LinkInv
    <3>2. \A w \in Requests : visit'[w].pc \in ReadingPcs => visit'[w] = visit[w]
      BY <2>4, <3>0, Zenon
    <3>3. /\ \A w \in Requests : visit[w].pc \in ReadingPcs =>
               visit[w].claims.subject = visit[o].claims.subject
          /\ visit[o].subject = Nobody => seat.subject \in {Nobody, visit[o].claims.subject}
      BY <3>1, <3>2, Zenon DEF LinkInv
    <3> QED BY <2>5, <3>1, <3>2, <3>3, Zenon
  <2> QED BY <2>6, <2>7, <2>8, <2>9, Zenon
<1> QED BY <1>1, <1>2, Zenon

LEMMA SignInKeeps ==
  ASSUME StaffInv, NEW v \in Requests, SignIn(v)
  PROVE  StaffInv'
<1> USE DEF StaffInv
<1>1. /\ seat.password /\ entered' = entered \cup {Nobody}
      /\ UNCHANGED <<clock, seat, invite, visit, spent, rivals>>
  BY Zenon DEF SignIn
<1>2. StaffTypeOK' /\ VisitInv' /\ LinkInv'
  BY <1>1, Zenon DEF StaffTypeOK, VisitInv, LinkInv
<1>3. spent # {}
  BY <1>1, Zenon DEF SeatInv
<1>4. SeatInv'
  BY <1>1, <1>3, Zenon DEF SeatInv
<1> QED BY <1>2, <1>4, Zenon

LEMMA ExchangeKeeps ==
  ASSUME StaffInv, NEW v \in Requests, NEW c \in Claims, Exchange(v, c)
  PROVE  StaffInv'
<1> USE DEF StaffInv
<1>1. /\ visit' = [visit EXCEPT ![v] = [IdleVisit EXCEPT !.pc = "identity", !.claims = c]]
      /\ UNCHANGED <<clock, seat, invite, spent, entered, rivals>>
      /\ readIdToken(c, clock) = "identity"
  BY Zenon DEF Exchange
<1>2. Vouched(c)
  <2>1. c.issuer
    BY <1>1, Zenon DEF readIdToken
  <2>2. c.audience
    BY <1>1, <2>1, Zenon DEF readIdToken
  <2>3. c.verified
    BY <1>1, <2>1, <2>2, Zenon DEF readIdToken
  <2> QED BY <2>1, <2>2, <2>3, Zenon DEF Vouched
<1>3. /\ visit'[v] = [pc |-> "identity", now |-> 0, claims |-> c, subject |-> Nobody]
      /\ \A o \in Requests : o # v => visit'[o] = visit[o]
      /\ visit' \in [Requests -> [pc : VisitPcs, now : Nat, claims : Claims \cup {Nobody}, subject : Subjects]]
  BY <1>1, Zenon DEF IdleVisit, StaffTypeOK, Subjects, VisitPcs
<1>4. StaffTypeOK' /\ SeatInv'
  BY <1>1, <1>3, Zenon DEF StaffTypeOK, SeatInv
<1>5. VisitInv'
  BY <1>1, <1>2, <1>3 DEF VisitInv, ReadingPcs
<1>6. LinkInv'
  BY <1>1, <1>3 DEF LinkInv, ReadingPcs
<1> QED BY <1>4, <1>5, <1>6, Zenon

LEMMA GoogleKeeps ==
  ASSUME StaffInv, NEW v \in Requests, Google(v)
  PROVE  StaffInv'
<1> USE DEF StaffInv
<1>1. /\ visit[v].pc = "identity" /\ seat.exists /\ seat.subject \in {Nobody, visit[v].claims.subject}
      /\ visit' = [visit EXCEPT ![v].pc = "invitation", ![v].now = clock, ![v].subject = seat.subject]
      /\ rivals' = (rivals \/ Rivals(v) # {})
      /\ UNCHANGED <<clock, seat, invite, spent, entered>>
  BY Zenon DEF Google, BoundElsewhere
<1>2. /\ visit'[v] = [pc |-> "invitation", now |-> clock, claims |-> visit[v].claims, subject |-> seat.subject]
      /\ \A o \in Requests : o # v => visit'[o] = visit[o]
      /\ visit' \in [Requests -> [pc : VisitPcs, now : Nat, claims : Claims \cup {Nobody}, subject : Subjects]]
  <2>1. visit'[v] = [visit[v] EXCEPT !.pc = "invitation", !.now = clock, !.subject = seat.subject]
    BY <1>1, Zenon DEF StaffTypeOK
  <2>2. visit'[v] = [pc |-> "invitation", now |-> clock, claims |-> visit[v].claims, subject |-> seat.subject]
    <3>1. visit[v] \in [pc : VisitPcs, now : Nat, claims : Claims \cup {Nobody}, subject : Subjects]
      BY Zenon DEF StaffTypeOK
    <3> QED BY <2>1, <3>1, Zenon
  <2>3. visit'[v] \in [pc : VisitPcs, now : Nat, claims : Claims \cup {Nobody}, subject : Subjects]
    BY <2>2 DEF StaffTypeOK, VisitPcs
  <2> QED BY <1>1, <2>2, <2>3, Zenon DEF StaffTypeOK
<1>3. StaffTypeOK' /\ SeatInv'
  BY <1>1, <1>2, Zenon DEF StaffTypeOK, SeatInv
<1>4. invite.exists /\ Vouched(visit[v].claims)
  BY <1>1, Zenon DEF SeatInv, VisitInv
<1>5. VisitInv'
  BY <1>1, <1>2, <1>4, Zenon DEF VisitInv, ReadingPcs
<1>6. LinkInv'
  <2> SUFFICES ASSUME ~rivals' PROVE LinkInv'
    BY Zenon DEF LinkInv
  <2>1. ~rivals /\ Rivals(v) = {}
    BY <1>1, Zenon
  <2>2. \A o \in Requests : o # v /\ visit[o].pc \in ReadingPcs =>
          visit[o].claims.subject = visit[v].claims.subject
    BY <2>1, Zenon DEF Rivals, ReadingPcs
  <2>3. \A o \in Requests : visit'[o].claims = visit[o].claims
    BY <1>2
  <2>4. \A o \in Requests : visit'[o].pc \in ReadingPcs => visit[o].claims.subject = visit[v].claims.subject
    BY <1>2, <2>2, Zenon
  <2>5. \A o \in Requests : visit'[o].pc \in ReadingPcs /\ visit'[o].subject = Nobody =>
          seat.subject \in {Nobody, visit[o].claims.subject}
    BY <1>1, <1>2, <2>1, Zenon DEF LinkInv
  <2>6. \A o, w \in Requests : visit'[o].pc \in ReadingPcs /\ visit'[w].pc \in ReadingPcs =>
          visit'[o].claims.subject = visit'[w].claims.subject
    BY <2>3, <2>4, Zenon
  <2>7. \A o \in Requests : visit'[o].pc \in ReadingPcs /\ visit'[o].subject = Nobody =>
          seat'.subject \in {Nobody, visit'[o].claims.subject}
    BY <1>1, <2>3, <2>5, Zenon
  <2> QED BY <2>6, <2>7, Zenon DEF LinkInv
<1> QED BY <1>3, <1>5, <1>6, Zenon

LEMMA ReadInvitationKeeps ==
  ASSUME StaffInv, NEW v \in Requests, ReadInvitation(v)
  PROVE  StaffInv'
<1> USE DEF StaffInv
<1>1. /\ visit[v].pc = "invitation"
      /\ UNCHANGED <<clock, seat, invite, spent, entered, rivals>>
  BY Zenon DEF ReadInvitation
<1>2. SeatInv' /\ invite.exists
  BY <1>1, Zenon DEF SeatInv, VisitInv, ReadingPcs
<1>3. CASE Leave(v)
  BY <1>1, <1>2, <1>3, LeaveKeeps, Zenon
<1>4. ASSUME NEW to \in {"spend", "link"}, visit' = [visit EXCEPT ![v].pc = to],
             to = "spend" => visit[v].now < invite.expiresAt,
             to = "link" => invite.acceptedAt >= 0
      PROVE  StaffInv'
  <2>1. /\ visit'[v].pc = to /\ visit'[v].now = visit[v].now
        /\ visit'[v].claims = visit[v].claims /\ visit'[v].subject = visit[v].subject
        /\ \A o \in Requests : o # v => visit'[o] = visit[o]
        /\ visit' \in [Requests -> [pc : VisitPcs, now : Nat, claims : Claims \cup {Nobody}, subject : Subjects]]
    BY <1>4 DEF StaffTypeOK, VisitPcs
  <2>2. StaffTypeOK'
    BY <1>1, <2>1, Zenon DEF StaffTypeOK
  <2>3. VisitInv'
    BY <1>1, <1>2, <1>4, <2>1, Zenon DEF VisitInv, ReadingPcs
  <2>4. \A o \in Requests : /\ visit'[o].pc \in ReadingPcs => visit[o].pc \in ReadingPcs
                            /\ visit'[o].claims = visit[o].claims /\ visit'[o].subject = visit[o].subject
    BY <1>1, <2>1, Zenon DEF ReadingPcs
  <2>5. LinkInv'
    BY <1>1, <2>4 DEF LinkInv
  <2> QED BY <1>2, <2>2, <2>3, <2>5, Zenon
<1>5. CASE invite.exists /\ invite.acceptedAt < 0 /\ classifyInvitation(visit[v].now) # "reject"
  <2>1. visit[v].now < invite.expiresAt
    BY <1>5 DEF classifyInvitation, StaffTypeOK
  <2>2. visit' = [visit EXCEPT ![v].pc = "spend"]
    BY <1>5, Zenon DEF ReadInvitation
  <2> QED BY <1>4, <2>1, <2>2, Zenon
<1>6. CASE ~(invite.acceptedAt < 0)
  <2>1. visit' = [visit EXCEPT ![v].pc = "link"] /\ invite.acceptedAt >= 0
    BY <1>6 DEF ReadInvitation, StaffTypeOK
  <2> QED BY <1>4, <2>1, Zenon
<1> QED BY <1>2, <1>3, <1>5, <1>6, Zenon DEF ReadInvitation

LEMMA EnterKeeps ==
  ASSUME StaffInv, NEW v \in Requests, Enter(v)
  PROVE  StaffInv'
<1> USE DEF StaffInv
<1>1. /\ visit[v].pc \in {"spend", "link"} /\ Leave(v) /\ UNCHANGED <<clock, rivals>>
  BY Zenon DEF Enter
<1>2. CASE Lost(v)
  <2>1. UNCHANGED <<seat, invite, spent, entered>>
    BY <1>2, Zenon DEF Enter
  <2>2. SeatInv'
    BY <2>1, Zenon DEF SeatInv
  <2> QED BY <1>1, <2>1, <2>2, LeaveKeeps, Zenon
<1>3. CASE ~Lost(v)
  <2>1. entered' = entered \cup {visit[v].claims} /\ Vouched(visit[v].claims) /\ invite.exists
    BY <1>1, <1>3, Zenon DEF Enter, VisitInv, ReadingPcs
  <2>2. /\ seat' \in [exists : BOOLEAN, password : BOOLEAN, subject : Subjects]
        /\ seat'.exists = seat.exists /\ seat'.password = seat.password
        /\ seat'.subject = IF visit[v].subject = Nobody THEN visit[v].claims.subject ELSE seat.subject
    BY <1>3, <2>1, Zenon DEF Enter, StaffTypeOK, Subjects, Vouched
  <2>3. /\ invite' \in [exists : BOOLEAN, expiresAt : Nat, acceptedAt : Nat \cup {-1}]
        /\ invite'.exists = invite.exists /\ invite'.expiresAt = invite.expiresAt
    BY <1>3, Zenon DEF Enter, StaffTypeOK
  <2>4. /\ visit'[v].pc = "idle"
        /\ \A o \in Requests : o # v => visit'[o] = visit[o]
        /\ visit' \in [Requests -> [pc : VisitPcs, now : Nat, claims : Claims \cup {Nobody}, subject : Subjects]]
    BY <1>1, Zenon DEF Leave, IdleVisit, StaffTypeOK, Subjects, VisitPcs
  <2>5. invite'.acceptedAt >= 0 /\ invite'.acceptedAt < invite'.expiresAt
    <3>1. CASE visit[v].pc = "spend"
      <4>1. invite' = [invite EXCEPT !.acceptedAt = visit[v].now]
        BY <1>3, <3>1, Zenon DEF Enter
      <4>2. visit[v].now \in Nat /\ visit[v].now < invite.expiresAt
        BY <3>1, Zenon DEF VisitInv, StaffTypeOK
      <4> QED BY <4>1, <4>2 DEF StaffTypeOK
    <3>2. CASE visit[v].pc = "link"
      BY <1>3, <3>2, Zenon DEF Enter, VisitInv, SeatInv
    <3> QED BY <1>1, <3>1, <3>2, Zenon
  <2>6. /\ spent' # {} /\ (\A a, b \in spent' : a = b)
        /\ seat.password => \E u \in Requests : spent' = {<<"password", u>>}
    <3>1. CASE visit[v].pc = "spend"
      <4>1. spent' = spent \cup {<<"google", v>>} /\ Unspent
        BY <1>3, <3>1, Zenon DEF Enter, Lost
      <4>2. spent = {}
        BY <4>1 DEF SeatInv, Unspent, StaffTypeOK
      <4> QED BY <4>1, <4>2, Zenon DEF SeatInv
    <3>2. CASE visit[v].pc = "link"
      <4>1. spent' = spent /\ invite.acceptedAt >= 0
        BY <1>3, <3>2, Zenon DEF Enter, VisitInv
      <4> QED BY <4>1, Zenon DEF SeatInv
    <3> QED BY <1>1, <3>1, <3>2, Zenon
  <2>7. StaffTypeOK'
    BY <1>1, <2>2, <2>3, <2>4, Zenon DEF StaffTypeOK
  <2>8. SeatInv'
    BY <2>1, <2>2, <2>3, <2>5, <2>6, Zenon DEF SeatInv
  <2>9. VisitInv'
    BY <2>3, <2>4, <2>5, Zenon DEF VisitInv, ReadingPcs
  <2>10. LinkInv'
    <3> SUFFICES ASSUME ~rivals PROVE LinkInv'
      BY <1>1, Zenon DEF LinkInv
    <3>1. \A o \in Requests : visit'[o].pc \in ReadingPcs => visit'[o] = visit[o] /\ visit[o].pc \in ReadingPcs
      BY <2>4, Zenon DEF ReadingPcs
    <3>2. visit[v].pc \in ReadingPcs
      BY <1>1, Zenon DEF ReadingPcs
    <3>3. \A o \in Requests : visit[o].pc \in ReadingPcs => visit[o].claims.subject = visit[v].claims.subject
      BY <3>2, Zenon DEF LinkInv
    <3> QED BY <2>2, <3>1, <3>3 DEF LinkInv
  <2> QED BY <2>7, <2>8, <2>9, <2>10, Zenon
<1> QED BY <1>2, <1>3, Zenon

LEMMA StaffUnchanged ==
  ASSUME StaffInv, UNCHANGED staff, clock' \in Nat
  PROVE  StaffInv'
  BY Zenon DEF StaffInv, StaffTypeOK, SeatInv, VisitInv, LinkInv, staff

(* Whatever a step of the pipeline does, to the staff it is one of these. *)
LEMMA StaffSteps ==
  ASSUME [Next]_vars
  PROVE  \/ UNCHANGED staff /\ clock' = clock
         \/ UNCHANGED staff /\ clock' = clock + 1
         \/ Invite
         \/ \E v \in Requests : Visit(v)
  BY Zenon DEF Next, vars, Tick, Bootstrap, RevokeSession, Handle, VisitStep, Authenticate, Serve, HandleInvite,
         Mint, FindToken, RevokeToken, Renew, WriteRenewal, Open, CreateContact

LEMMA StaffInductive == Spec => []StaffInv
<1>1. StaffInv /\ [Next]_vars => StaffInv'
  <2> SUFFICES ASSUME StaffInv, [Next]_vars PROVE StaffInv'
    BY Zenon
  <2>1. CASE UNCHANGED staff /\ (clock' = clock \/ clock' = clock + 1)
    <3>1. clock' \in Nat
      BY <2>1 DEF StaffInv, StaffTypeOK
    <3> QED BY <2>1, <3>1, StaffUnchanged, Zenon
  <2>2. ASSUME NEW v \in Requests, Abandon(v) PROVE StaffInv'
    <3>1. SeatInv'
      BY <2>2, Zenon DEF Abandon, StaffInv, SeatInv
    <3> QED BY <2>2, <3>1, LeaveKeeps, Zenon DEF Abandon, StaffInv
  <2>3. ASSUME NEW v \in Requests, Visit(v) PROVE StaffInv'
    BY <2>2, <2>3, AcceptKeeps, SetPasswordKeeps, SignInKeeps, ExchangeKeeps, GoogleKeeps,
       ReadInvitationKeeps, EnterKeeps, Zenon DEF Visit
  <2> QED BY <2>1, <2>3, StaffSteps, InviteKeeps, Zenon
<1>2. Init => StaffInv
  BY StaffStarts, Zenon DEF Init
<1> QED BY <1>1, <1>2, PTL DEF Spec

(* A session of the seat exists only after its invitation was spent in     *)
(* time, by a password or by Google and not by both, however acceptances,  *)
(* sign-ins and invitations interleave (invite, accept, signIn,            *)
(* signInWithGoogle).                                                      *)
THEOREM MembershipNeedsAnInvitation == Spec => []MembershipIsByInvitation
<1>1. StaffInv => MembershipIsByInvitation
  BY Zenon DEF StaffInv, SeatInv, Vouched, MembershipIsByInvitation
<1> QED BY <1>1, StaffInductive, PTL

(* No sign-in moves the link of a linked seat to another Google account,   *)
(* unless two first sign-ins read the unlinked row at once                 *)
(* (signInWithGoogle).                                                     *)
THEOREM LinkingIsOneWay == Spec => GoogleLinkIsOneWay
<1>1. StaffInv /\ [Next]_vars =>
        [seat.subject # Nobody /\ ~rivals => seat'.subject = seat.subject]_<<seat, rivals>>
  <2> SUFFICES ASSUME StaffInv, [Next]_vars, seat.subject # Nobody, ~rivals
               PROVE  seat'.subject = seat.subject
    BY Zenon
  <2>1. CASE UNCHANGED seat
    BY <2>1, Zenon
  <2>2. CASE Invite
    BY <2>2, Zenon DEF Invite, StaffInv, StaffTypeOK
  <2>3. ASSUME NEW v \in Requests, SetPassword(v) PROVE seat'.subject = seat.subject
    BY <2>3, Zenon DEF SetPassword, StaffInv, StaffTypeOK
  <2>4. ASSUME NEW v \in Requests, Enter(v) PROVE seat'.subject = seat.subject
    <3>1. visit[v].pc \in ReadingPcs
      BY <2>4, Zenon DEF Enter, ReadingPcs
    <3>2. visit[v].subject = Nobody => seat.subject = visit[v].claims.subject
      BY <2>4, <3>1, Zenon DEF StaffInv, LinkInv
    <3> QED BY <2>4, <3>2, Zenon DEF Enter, StaffInv, StaffTypeOK
  <2>5. ASSUME NEW v \in Requests, Visit(v) PROVE seat'.subject = seat.subject
    BY <2>1, <2>3, <2>4, <2>5, Zenon DEF Visit, Accept, SignIn, Exchange, Google, ReadInvitation, Abandon
  <2> QED BY <2>1, <2>2, <2>5, StaffSteps, Zenon DEF staff
<1> QED BY <1>1, StaffInductive, PTL DEF Spec, GoogleLinkIsOneWay

------------------------------------------------------------------------------
(* Service tokens and widget sessions. *)
Sound(p) ==
  /\ p.kind \in {"user", "contact", "widget", "service"}
  /\ p.kind = "service" => p.grants \subseteq ASSIGNABLE_SCOPES

CredentialTypeOK ==
  /\ token = [exists |-> token.exists, scopes |-> token.scopes, revoked |-> token.revoked]
  /\ token.exists \in BOOLEAN /\ token.revoked \in BOOLEAN
  /\ audit = [minted |-> audit.minted, revoked |-> audit.revoked]
  /\ session \in [exists : BOOLEAN, revoked : BOOLEAN, expiresAt : Nat, contact : Nat \cup {Nobody}]
  /\ contacts \in Nat /\ granted \in Nat /\ clock \in Nat
  /\ req = [r \in Requests |-> [pc |-> req[r].pc, who |-> req[r].who, now |-> req[r].now]]
  /\ \A r \in Requests : req[r].now \in Nat

TokenInv ==
  /\ token.revoked => token.exists
  /\ audit.revoked = IF token.revoked THEN 1 ELSE 0

ContactInv ==
  /\ session.contact = IF contacts = 0 THEN Nobody ELSE contacts
  /\ contacts <= 1
  /\ openers \subseteq {session.contact} \ {Nobody}
  /\ ~session.exists => contacts = 0 /\ ~session.revoked
  /\ session.exists /\ ~clash => session.expiresAt = granted
  /\ granted <= clock + WidgetTtl

(* What a request's principal is worth, from AuthGuard to its end. *)
PrincipalInv ==
  \A r \in Requests :
    /\ req[r].pc = "idle" <=> req[r].who = Nobody
    /\ req[r].who # Nobody => Sound(req[r].who)
    /\ req[r].who # Nobody /\ req[r].who.kind = "widget" =>
         session.exists /\ req[r].who.contact \in {Nobody, session.contact}
    /\ req[r].who # Nobody /\ r \notin graced =>
         /\ req[r].who.kind = "service" => ~token.revoked
         /\ req[r].who.kind = "widget" => ~session.revoked

(* What the steps that a handler takes one by one rely on.                *)
StepInv ==
  \A r \in Requests :
    /\ req[r].pc = "revoke" => token.exists
    /\ req[r].pc \in {"renew", "create"} => req[r].who.kind = "widget"
    /\ req[r].pc = "create" => contacts = 0 /\ \A o \in Requests : req[o].pc = "create" => o = r
    /\ req[r].pc = "renew" => req[r].now <= clock
    /\ req[r].pc = "renew" /\ ~clash => /\ granted <= req[r].now + WidgetTtl
                                        /\ \A o \in Requests : req[o].pc = "renew" => o = r

CredentialInv == CredentialTypeOK /\ TokenInv /\ ContactInv /\ PrincipalInv /\ StepInv

------------------------------------------------------------------------------
(* The table of routes.  Every route a guard lets somebody through to      *)
(* takes anybody, declares the kind it takes, or needs a permission that   *)
(* only a user can hold.                                                   *)
RouteOK(route) ==
  /\ \/ route.public
     \/ route.takes = "any"
     \/ route.kind = route.takes
     \/ route.takes = "user" /\ route.permission \in UNGRANTABLE_SCOPES
  /\ route.calls = "WidgetSessionService.renew" => ~route.public /\ route.kind = "widget"

TableOK(table) == \A route \in table : RouteOK(route)

(* The ways a route is declared. *)
LEMMA Declared ==
  /\ \A op, calls : calls # "WidgetSessionService.renew" =>
       /\ RouteOK(Public(op, calls))
       /\ \A permission, query : /\ RouteOK(Granted(op, permission, calls))
                               /\ RouteOK(Listed(op, permission, query, calls))
       /\ \A permission \in UNGRANTABLE_SCOPES : RouteOK(StaffOnly(op, permission, calls))
       /\ \A kind, query : RouteOK(Customers(op, kind, query, calls))
  /\ \A op, query : RouteOK(Customers(op, "widget", query, "WidgetSessionService.renew"))
  BY DEF RouteOK, Route, Public, Granted, Listed, StaffOnly, Customers

LEMMA Ungrantable == {"user:invite", "token:manage"} \subseteq UNGRANTABLE_SCOPES
  BY Zenon DEF UNGRANTABLE_SCOPES, ASSIGNABLE_SCOPES, PERMISSION_CATALOG, SUPPORT_WORK

LEMMA RoutesOK == TableOK(Routes)
<1>1. TableOK(TicketCollection) /\ TableOK(TicketById)
  BY Declared, Zenon DEF TableOK, TicketCollection, TicketById
<1>2. TableOK(TicketWrites) /\ TableOK(MessageRoutes)
  BY Declared, Zenon DEF TableOK, TicketWrites, MessageRoutes
<1>3. TableOK(NoteRoutes) /\ TableOK(AuditRoutes) /\ TableOK(AnalyticsRoutes)
  BY Declared, Zenon DEF TableOK, NoteRoutes, AuditRoutes, AnalyticsRoutes
<1>4. TableOK(InvitationRoutes) /\ TableOK(ServiceTokenRoutes)
  BY Declared, Ungrantable, Zenon DEF TableOK, InvitationRoutes, ServiceTokenRoutes
<1>5. TableOK(PortalTicketRoutes)
  BY Declared, Zenon DEF TableOK, PortalTicketRoutes
<1>6. TableOK(WidgetTicketCollection) /\ TableOK(WidgetTicketById)
  BY Declared, Zenon DEF TableOK, WidgetTicketCollection, WidgetTicketById
<1>7. TableOK(WidgetSessionRoutes)
  BY Declared, Zenon DEF TableOK, WidgetSessionRoutes
<1>8. TableOK(AuthRoutes) /\ TableOK(SessionRoutes)
  BY Declared, Zenon DEF TableOK, AuthRoutes, SessionRoutes
<1>9. TableOK(MeRoute)
  <2>1. RouteOK([Route("GET /auth/me", "user", "none", "user", {}, "AuthService.currentUser") EXCEPT !.open = TRUE])
    BY Zenon DEF RouteOK, Route
  <2> QED BY <2>1, Zenon DEF TableOK, MeRoute
<1>10. TableOK(PortalAuthRoutes)
  BY Declared, Zenon DEF TableOK, PortalAuthRoutes
<1>11. TableOK(OperationsRoutes)
  BY Declared, Zenon DEF TableOK, OperationsRoutes
<1> QED BY <1>1, <1>2, <1>3, <1>4, <1>5, <1>6, <1>7, <1>8, <1>9, <1>10, <1>11, Zenon DEF TableOK, Routes

(* What the guards let through reaches a handler that takes it. *)
LEMMA GuardIsRight ==
  ASSUME NEW route \in Routes, NEW p, p # Nobody, Sound(p), PermissionGuard(route, p) = "ok"
  PROVE  /\ ~route.public => route.takes \in {"any", p.kind}
         /\ route.calls = "WidgetSessionService.renew" => p.kind = "widget"
<1>2. RouteOK(route)
  BY RoutesOK, Zenon DEF TableOK
<1>3. ~route.public => route.kind \in {"any", p.kind}
  <2>1. ASSUME ~route.public, route.kind \notin {"any", p.kind} PROVE PermissionGuard(route, p) = "forbidden"
    BY <2>1, Zenon DEF PermissionGuard
  <2> QED BY <2>1, Zenon
<1>4. ~route.public /\ route.permission # "none" => route.permission \in permissionsFor(p)
  BY <1>3, Zenon DEF PermissionGuard
<1>5. route.permission \in UNGRANTABLE_SCOPES => route.permission # "none"
  BY Zenon DEF UNGRANTABLE_SCOPES, PERMISSION_CATALOG, SUPPORT_WORK
<1>6. ASSUME ~route.public, route.permission \in UNGRANTABLE_SCOPES PROVE p.kind = "user"
  <2>1. route.permission \in permissionsFor(p)
    BY <1>4, <1>5, <1>6, Zenon
  <2>2. route.permission \notin ASSIGNABLE_SCOPES
    BY <1>6, Zenon DEF UNGRANTABLE_SCOPES
  <2>3. p.kind = "service" => permissionsFor(p) = p.grants
    BY Zenon DEF permissionsFor
  <2>4. p.kind \in {"contact", "widget"} => permissionsFor(p) = {}
    BY Zenon DEF permissionsFor
  <2> QED BY <2>1, <2>2, <2>3, <2>4, Zenon DEF Sound
<1>7. ~route.public => route.takes \in {"any", p.kind}
  BY <1>2, <1>3, <1>6, Zenon DEF RouteOK
<1>8. route.calls = "WidgetSessionService.renew" => p.kind = "widget"
  BY <1>2, <1>3, Zenon DEF RouteOK
<1> QED BY <1>7, <1>8, Zenon

------------------------------------------------------------------------------
LEMMA CredentialStarts == Init => CredentialInv
<1> SUFFICES ASSUME Init PROVE CredentialInv
  BY Zenon
<1>1. CredentialTypeOK
  <2>1. /\ token = [exists |-> token.exists, scopes |-> token.scopes, revoked |-> token.revoked]
        /\ token.exists \in BOOLEAN /\ token.revoked \in BOOLEAN
    <3>1. \/ token = [exists |-> FALSE, scopes |-> {}, revoked |-> FALSE]
          \/ \E s \in Stored : token = [exists |-> TRUE, scopes |-> s, revoked |-> FALSE]
      BY Zenon DEF Init, Row
    <3>2. ASSUME NEW e, NEW s, token = [exists |-> e, scopes |-> s, revoked |-> FALSE], e \in BOOLEAN
          PROVE  /\ token = [exists |-> token.exists, scopes |-> token.scopes, revoked |-> token.revoked]
                 /\ token.exists \in BOOLEAN /\ token.revoked \in BOOLEAN
      BY <3>2, Zenon
    <3> QED BY <3>1, <3>2, Zenon
  <2>2. audit = [minted |-> audit.minted, revoked |-> audit.revoked]
    BY Zenon DEF Init
  <2>3. \A r \in Requests : req[r] = [pc |-> "idle", who |-> Nobody, now |-> 0]
    BY Zenon DEF Init, IdleRequest
  <2>4. req = [r \in Requests |-> [pc |-> req[r].pc, who |-> req[r].who, now |-> req[r].now]]
    BY <2>3, Zenon DEF Init
  <2>5. /\ session \in [exists : BOOLEAN, revoked : BOOLEAN, expiresAt : Nat, contact : Nat \cup {Nobody}]
        /\ contacts \in Nat /\ granted \in Nat /\ clock \in Nat
    BY Zenon DEF Init, MembershipInit
  <2> QED BY <2>1, <2>2, <2>3, <2>4, <2>5 DEF CredentialTypeOK
<1>2. TokenInv
  BY DEF Init, Row, TokenInv
<1>3. ContactInv
  BY AccessAssumption DEF Init, MembershipInit, ContactInv
<1>4. PrincipalInv /\ StepInv
  BY Zenon DEF Init, IdleRequest, PrincipalInv, StepInv
<1> QED BY <1>1, <1>2, <1>3, <1>4, Zenon DEF CredentialInv

(* One request moves; the others keep their records. *)
LEMMA OneMoves ==
  ASSUME CredentialTypeOK, NEW r \in Requests, NEW x, x.now \in Nat,
         x = [pc |-> x.pc, who |-> x.who, now |-> x.now], req' = [req EXCEPT ![r] = x]
  PROVE  /\ req' = [o \in Requests |-> [pc |-> req'[o].pc, who |-> req'[o].who, now |-> req'[o].now]]
         /\ \A o \in Requests : req'[o].now \in Nat
         /\ req'[r] = x
         /\ \A o \in Requests : o # r => req'[o] = req[o]
  BY Zenon DEF CredentialTypeOK

(* Its step alone moves. *)
LEMMA OneAdvances ==
  ASSUME CredentialTypeOK, NEW r \in Requests, NEW l, req' = [req EXCEPT ![r].pc = l]
  PROVE  /\ req' = [o \in Requests |-> [pc |-> req'[o].pc, who |-> req'[o].who, now |-> req'[o].now]]
         /\ \A o \in Requests : req'[o].now \in Nat
         /\ req'[r].pc = l /\ req'[r].who = req[r].who /\ req'[r].now = req[r].now
         /\ \A o \in Requests : o # r => req'[o] = req[o]
<1>1. req' = [req EXCEPT ![r] = [req[r] EXCEPT !.pc = l]]
  BY Zenon
<1>2. req[r] = [pc |-> req[r].pc, who |-> req[r].who, now |-> req[r].now] /\ req[r].now \in Nat
  BY Zenon DEF CredentialTypeOK
<1>3. PICK x : x = [req[r] EXCEPT !.pc = l]
  BY Zenon
<1>4. /\ x = [pc |-> x.pc, who |-> x.who, now |-> x.now]
      /\ x.pc = l /\ x.who = req[r].who /\ x.now = req[r].now
  BY <1>2, <1>3, Zenon
<1>5. req' = [req EXCEPT ![r] = x] /\ x.now \in Nat
  BY <1>1, <1>2, <1>3, <1>4, Zenon
<1>6. /\ req' = [o \in Requests |-> [pc |-> req'[o].pc, who |-> req'[o].who, now |-> req'[o].now]]
      /\ \A o \in Requests : req'[o].now \in Nat
      /\ req'[r] = x
      /\ \A o \in Requests : o # r => req'[o] = req[o]
  BY <1>4, <1>5, OneMoves, Zenon
<1> QED BY <1>4, <1>6, Zenon

(* A request that ends leaves the promises to the others alone, as long as *)
(* what it wrote takes nothing from them.                                  *)
LEMMA DoneKeeps ==
  ASSUME CredentialInv, NEW r \in Requests, Done(r), UNCHANGED <<clock, clash>>,
         token.exists => token'.exists, token'.revoked => token.revoked,
         session'.exists = session.exists, session'.revoked = session.revoked,
         session.contact \in {Nobody, session'.contact},
         contacts' = contacts \/ req[r].pc = "create",
         granted' = granted \/ req[r].pc = "renew"
  PROVE  /\ req' = [o \in Requests |-> [pc |-> req'[o].pc, who |-> req'[o].who, now |-> req'[o].now]]
         /\ \A o \in Requests : req'[o].now \in Nat
         /\ PrincipalInv' /\ StepInv'
<1> USE DEF CredentialInv
<1>1. /\ req' = [o \in Requests |-> [pc |-> req'[o].pc, who |-> req'[o].who, now |-> req'[o].now]]
      /\ \A o \in Requests : req'[o].now \in Nat
      /\ req'[r] = IdleRequest
      /\ \A o \in Requests : o # r => req'[o] = req[o]
  BY OneMoves, Zenon DEF Done, IdleRequest
<1>2. req'[r].pc = "idle" /\ req'[r].who = Nobody /\ graced' = graced \ {r}
  BY <1>1, Zenon DEF IdleRequest, Done
<1>3. PrincipalInv'
  BY <1>1, <1>2 DEF PrincipalInv
<1>4. StepInv'
  <2> SUFFICES ASSUME NEW o \in Requests, o # r
               PROVE  /\ req[o].pc = "revoke" => token'.exists
                      /\ req[o].pc \in {"renew", "create"} => req[o].who.kind = "widget"
                      /\ req[o].pc = "create" =>
                           contacts' = 0 /\ \A b \in Requests : req'[b].pc = "create" => b = o
                      /\ req[o].pc = "renew" => req[o].now <= clock
                      /\ req[o].pc = "renew" /\ ~clash =>
                           /\ granted' <= req[o].now + WidgetTtl
                           /\ \A b \in Requests : req'[b].pc = "renew" => b = o
    BY <1>1, <1>2 DEF StepInv
  <2>1. req[o].pc = "create" => contacts' = contacts
    BY Zenon DEF StepInv
  <2>2. req[o].pc = "renew" /\ ~clash => granted' = granted
    BY Zenon DEF StepInv
  <2> QED BY <1>1, <1>2, <2>1, <2>2, Zenon DEF StepInv
<1> QED BY <1>1, <1>3, <1>4, Zenon

LEMMA TickKeeps ==
  ASSUME CredentialInv, Tick, UNCHANGED <<machine, widget, pipeline>>
  PROVE  CredentialInv'
<1> USE DEF CredentialInv
<1>1. clock' = clock + 1 /\ clock \in Nat /\ granted \in Nat /\ WidgetTtl \in Nat
      /\ UNCHANGED <<token, audit, session, contacts, openers, granted, clash, req, graced>>
  BY AccessAssumption, Zenon DEF Tick, machine, widget, pipeline, CredentialTypeOK
<1>2. CredentialTypeOK' /\ TokenInv' /\ PrincipalInv'
  BY <1>1 DEF CredentialTypeOK, TokenInv, PrincipalInv
<1>3. ContactInv'
  BY <1>1 DEF ContactInv
<1>4. StepInv'
  <2>1. \A n \in Nat : n <= clock => n <= clock'
    BY <1>1
  <2>2. \A o \in Requests : req[o].now \in Nat
    BY Zenon DEF CredentialTypeOK
  <2> QED BY <1>1, <2>1, <2>2, Zenon DEF StepInv
<1> QED BY <1>2, <1>3, <1>4, Zenon

LEMMA BootstrapKeeps ==
  ASSUME CredentialInv, NEW o, Bootstrap(o)
  PROVE  CredentialInv'
<1> USE DEF CredentialInv
<1>1. /\ ~session.exists
      /\ session' = [exists |-> TRUE, revoked |-> FALSE, expiresAt |-> clock + WidgetTtl, contact |-> Nobody]
      /\ granted' = clock + WidgetTtl
      /\ UNCHANGED <<clock, token, audit, req, graced, contacts, openers, clash>>
  BY Zenon DEF Bootstrap, machine, pipeline
<1>2. contacts = 0 /\ session.contact = Nobody
  BY <1>1, Zenon DEF ContactInv
<1>3. clock + WidgetTtl \in Nat
  BY AccessAssumption DEF CredentialTypeOK
<1>4. \A r \in Requests : (req[r].who # Nobody => req[r].who.kind # "widget") /\ req[r].pc \notin {"renew", "create"}
  BY <1>1, Zenon DEF PrincipalInv, StepInv
<1>5. CredentialTypeOK' /\ TokenInv'
  BY <1>1, <1>3, Zenon DEF CredentialTypeOK, TokenInv
<1>6. ContactInv'
  BY <1>1, <1>2, <1>3 DEF ContactInv
<1>7. PrincipalInv' /\ StepInv'
  BY <1>1, <1>4, Zenon DEF PrincipalInv, StepInv
<1> QED BY <1>5, <1>6, <1>7, Zenon

LEMMA RevokeSessionKeeps ==
  ASSUME CredentialInv, RevokeSession
  PROVE  CredentialInv'
<1> USE DEF CredentialInv
<1>1. /\ session.exists /\ session' = [session EXCEPT !.revoked = TRUE]
      /\ graced' = graced \cup {o \in Requests : req[o].who # Nobody /\ req[o].who.kind = "widget"}
      /\ UNCHANGED <<clock, token, audit, contacts, openers, granted, clash, req>>
  BY Zenon DEF RevokeSession, machine
<1>2. /\ session' \in [exists : BOOLEAN, revoked : BOOLEAN, expiresAt : Nat, contact : Nat \cup {Nobody}]
      /\ session'.exists /\ session'.contact = session.contact /\ session'.expiresAt = session.expiresAt
  BY <1>1, Zenon DEF CredentialTypeOK
<1>3. CredentialTypeOK' /\ TokenInv' /\ StepInv'
  BY <1>1, <1>2 DEF CredentialTypeOK, TokenInv, StepInv
<1>4. ContactInv'
  BY <1>1, <1>2, Zenon DEF ContactInv
<1>5. PrincipalInv'
  BY <1>1, <1>2, Zenon DEF PrincipalInv
<1> QED BY <1>3, <1>4, <1>5, Zenon

(* Whoever a credential resolves to is worth what the rows say. *)
LEMMA ResolveIsSound ==
  ASSUME CredentialTypeOK, NEW p \in resolve \ {Nobody}
  PROVE  /\ Sound(p)
         /\ p.kind = "widget" => session.exists /\ ~session.revoked /\ p.contact = session.contact
         /\ p.kind = "service" => ~token.revoked
<1>1. CASE p = verifyService
  BY <1>1, Zenon DEF verifyService, Service, grantedScopes, Sound
<1>2. CASE p = verifyWidget(granted)
  BY <1>2, Zenon DEF verifyWidget, Widget, Sound
<1>3. ASSUME NEW c, p = verifyAccess(c) PROVE p.kind \in {"user", "contact"}
  <2>1. p = principalFromClaims(c)
    BY <1>3, Zenon DEF verifyAccess
  <2>2. \/ p = User(c.sub, c.role)
        \/ p = Contact(c.sub)
        \/ p = Nobody
    BY <2>1, Zenon DEF principalFromClaims
  <2> QED BY <2>2 DEF User, Contact
<1> QED BY <1>1, <1>2, <1>3, Zenon DEF resolve, Sound

LEMMA AuthenticateKeeps ==
  ASSUME CredentialInv, NEW r \in Requests, Authenticate(r)
  PROVE  CredentialInv'
<1> USE DEF CredentialInv
<1>1. PICK p \in resolve \ {Nobody} : req' = [req EXCEPT ![r] = [pc |-> "guarded", who |-> p, now |-> 0]]
  BY Zenon DEF Authenticate
<1>2. UNCHANGED <<clock, token, audit, session, contacts, openers, granted, clash, graced>>
  BY Zenon DEF Authenticate, machine, widget
<1>3. /\ req' = [o \in Requests |-> [pc |-> req'[o].pc, who |-> req'[o].who, now |-> req'[o].now]]
      /\ \A o \in Requests : req'[o].now \in Nat
      /\ req'[r] = [pc |-> "guarded", who |-> p, now |-> 0]
      /\ \A o \in Requests : o # r => req'[o] = req[o]
  BY <1>1, OneMoves, Zenon
<1>4. req'[r].pc = "guarded" /\ req'[r].who = p
  BY <1>3
<1>5. CredentialTypeOK' /\ TokenInv' /\ ContactInv'
  BY <1>2, <1>3, Zenon DEF CredentialTypeOK, TokenInv, ContactInv
<1>6. PrincipalInv'
  BY <1>2, <1>3, <1>4, ResolveIsSound DEF PrincipalInv
<1>7. StepInv'
  BY <1>2, <1>3, <1>4 DEF StepInv
<1> QED BY <1>5, <1>6, <1>7, Zenon

LEMMA ServeKeeps ==
  ASSUME CredentialInv, NEW r \in Requests, Done(r), UNCHANGED <<clock, machine, widget>>
  PROVE  CredentialInv'
<1>1. UNCHANGED <<clock, token, audit, session, contacts, openers, granted, clash>>
  BY Zenon DEF machine, widget
<1>2. /\ req' = [o \in Requests |-> [pc |-> req'[o].pc, who |-> req'[o].who, now |-> req'[o].now]]
      /\ \A o \in Requests : req'[o].now \in Nat
      /\ PrincipalInv' /\ StepInv'
  BY <1>1, DoneKeeps, Zenon
<1>3. CredentialTypeOK' /\ TokenInv' /\ ContactInv'
  BY <1>1, <1>2, Zenon DEF CredentialInv, CredentialTypeOK, TokenInv, ContactInv
<1> QED BY <1>2, <1>3, Zenon DEF CredentialInv

LEMMA MintKeeps ==
  ASSUME CredentialInv, NEW r \in Requests, NEW asked, Mint(r, asked)
  PROVE  CredentialInv'
<1>1. /\ ~token.exists /\ token' = Row(asked) /\ audit' = [audit EXCEPT !.minted = @ + 1]
      /\ Done(r)
      /\ UNCHANGED <<clock, session, contacts, openers, granted, clash>>
  BY Zenon DEF Mint, widget
<1>2. /\ token' = [exists |-> token'.exists, scopes |-> token'.scopes, revoked |-> token'.revoked]
      /\ token'.exists = TRUE /\ token'.revoked = FALSE
  BY <1>1, Zenon DEF Row
<1>3. /\ audit' = [minted |-> audit'.minted, revoked |-> audit'.revoked]
      /\ audit'.revoked = audit.revoked
  BY <1>1, Zenon DEF CredentialInv, CredentialTypeOK
<1>4. /\ req' = [o \in Requests |-> [pc |-> req'[o].pc, who |-> req'[o].who, now |-> req'[o].now]]
      /\ \A o \in Requests : req'[o].now \in Nat
      /\ PrincipalInv' /\ StepInv'
  BY <1>1, <1>2, DoneKeeps, Zenon
<1>5. CredentialTypeOK' /\ ContactInv'
  BY <1>1, <1>2, <1>3, <1>4, Zenon DEF CredentialInv, CredentialTypeOK, ContactInv
<1>6. TokenInv'
  BY <1>1, <1>2, <1>3, Zenon DEF CredentialInv, TokenInv
<1> QED BY <1>4, <1>5, <1>6, Zenon DEF CredentialInv

LEMMA FindTokenKeeps ==
  ASSUME CredentialInv, NEW r \in Requests, FindToken(r)
  PROVE  CredentialInv'
<1> USE DEF CredentialInv
<1>1. /\ req[r].pc = "guarded" /\ token.exists
      /\ UNCHANGED <<clock, token, audit, session, contacts, openers, granted, clash, graced>>
  BY Zenon DEF FindToken, Admitted, machine, widget
<1>2. /\ req' = [o \in Requests |-> [pc |-> req'[o].pc, who |-> req'[o].who, now |-> req'[o].now]]
      /\ \A o \in Requests : req'[o].now \in Nat
      /\ req'[r].pc = "revoke" /\ req'[r].who = req[r].who
      /\ \A o \in Requests : o # r => req'[o] = req[o]
  BY OneAdvances, Zenon DEF FindToken
<1>5. CredentialTypeOK' /\ TokenInv' /\ ContactInv'
  BY <1>1, <1>2, Zenon DEF CredentialTypeOK, TokenInv, ContactInv
<1>6. PrincipalInv'
  BY <1>1, <1>2 DEF PrincipalInv
<1>7. StepInv'
  BY <1>1, <1>2 DEF StepInv
<1> QED BY <1>5, <1>6, <1>7, Zenon

LEMMA RevokeTokenKeeps ==
  ASSUME CredentialInv, NEW r \in Requests, RevokeToken(r)
  PROVE  CredentialInv'
<1>1. CASE ~Unrevoked
  <2>1. Done(r) /\ UNCHANGED <<clock, machine, widget>>
    BY <1>1, Zenon DEF RevokeToken, Done
  <2> QED BY <2>1, ServeKeeps, Zenon
<1>2. CASE Unrevoked
  <2> USE DEF CredentialInv
  <2>1. /\ req' = [req EXCEPT ![r] = IdleRequest] /\ ~token.revoked
        /\ token' = [token EXCEPT !.revoked = TRUE]
        /\ audit' = [audit EXCEPT !.revoked = @ + 1]
        /\ graced' = graced \cup {o \in Requests \ {r} : req[o].who # Nobody /\ req[o].who.kind = "service"}
        /\ UNCHANGED <<clock, session, contacts, openers, granted, clash>>
    BY <1>2, Zenon DEF RevokeToken, Unrevoked, widget
  <2>2. /\ req' = [o \in Requests |-> [pc |-> req'[o].pc, who |-> req'[o].who, now |-> req'[o].now]]
        /\ \A o \in Requests : req'[o].now \in Nat
        /\ req'[r] = IdleRequest
        /\ \A o \in Requests : o # r => req'[o] = req[o]
    BY <2>1, OneMoves, Zenon DEF IdleRequest
  <2>3. req'[r].pc = "idle" /\ req'[r].who = Nobody
    BY <2>2 DEF IdleRequest
  <2>4. /\ token' = [exists |-> token'.exists, scopes |-> token'.scopes, revoked |-> token'.revoked]
        /\ token'.exists = token.exists /\ token'.revoked = TRUE
    BY <2>1, Zenon DEF CredentialTypeOK
  <2>5. /\ audit' = [minted |-> audit'.minted, revoked |-> audit'.revoked]
        /\ audit'.revoked = audit.revoked + 1
    BY <2>1, Zenon DEF CredentialTypeOK
  <2>6. token.exists /\ audit.revoked = 0
    BY <2>1, Zenon DEF RevokeToken, StepInv, TokenInv
  <2>7. CredentialTypeOK' /\ ContactInv'
    BY <2>1, <2>2, <2>4, <2>5, <2>6, Zenon DEF CredentialTypeOK, ContactInv
  <2>8. TokenInv'
    BY <2>4, <2>5, <2>6 DEF TokenInv
  <2>9. PrincipalInv'
    BY <2>1, <2>2, <2>3, Zenon DEF PrincipalInv
  <2>10. StepInv'
    BY <2>1, <2>2, <2>3, <2>4 DEF StepInv
  <2> QED BY <2>7, <2>8, <2>9, <2>10, Zenon
<1> QED BY <1>1, <1>2, Zenon

LEMMA RenewKeeps ==
  ASSUME CredentialInv, NEW r \in Requests, Renew(r)
  PROVE  CredentialInv'
<1> USE DEF CredentialInv
<1>1. /\ req[r].pc = "guarded"
      /\ UNCHANGED <<clock, token, audit, session, contacts, openers, granted, graced>>
      /\ ~clash' => ~clash /\ \A o \in Requests : req[o].pc # "renew"
  BY Zenon DEF Renew, Admitted, machine
<1>2. req[r].who # Nobody /\ req[r].who.kind = "widget"
  <2>1. PICK route \in Routes : /\ route.calls = "WidgetSessionService.renew"
                                /\ PermissionGuard(route, req[r].who) = "ok"
    BY Zenon DEF Renew, Admitted
  <2>2. req[r].who # Nobody /\ Sound(req[r].who)
    BY <1>1, Zenon DEF PrincipalInv
  <2> QED BY <2>1, <2>2, GuardIsRight, Zenon
<1>3. clock \in Nat /\ req[r] = [pc |-> req[r].pc, who |-> req[r].who, now |-> req[r].now]
  BY Zenon DEF CredentialTypeOK
<1>4. PICK x : x = [req[r] EXCEPT !.pc = "renew", !.now = clock]
  BY Zenon
<1>5. /\ x = [pc |-> x.pc, who |-> x.who, now |-> x.now]
      /\ x.pc = "renew" /\ x.who = req[r].who /\ x.now = clock
  BY <1>3, <1>4, Zenon
<1>6. /\ req' = [o \in Requests |-> [pc |-> req'[o].pc, who |-> req'[o].who, now |-> req'[o].now]]
      /\ \A o \in Requests : req'[o].now \in Nat
      /\ req'[r].pc = "renew" /\ req'[r].who = req[r].who /\ req'[r].now = clock
      /\ \A o \in Requests : o # r => req'[o] = req[o]
  <2>1. req' = [req EXCEPT ![r] = x]
    BY <1>4, Zenon DEF Renew, CredentialTypeOK
  <2> QED BY <1>3, <1>5, <2>1, OneMoves, Zenon
<1>7. CredentialTypeOK' /\ TokenInv'
  BY <1>1, <1>6, Zenon DEF CredentialTypeOK, TokenInv
<1>8. ContactInv'
  BY <1>1, Zenon DEF ContactInv
<1>9. PrincipalInv'
  BY <1>1, <1>6 DEF PrincipalInv
<1>10. StepInv'
  <2>1. clock <= clock /\ granted <= clock + WidgetTtl
    BY <1>3 DEF ContactInv
  <2> SUFFICES ASSUME NEW b \in Requests
               PROVE  /\ req'[b].pc = "revoke" => token.exists
                      /\ req'[b].pc \in {"renew", "create"} => req'[b].who.kind = "widget"
                      /\ req'[b].pc = "create" =>
                           contacts = 0 /\ \A o \in Requests : req'[o].pc = "create" => o = b
                      /\ req'[b].pc = "renew" => req'[b].now <= clock
                      /\ req'[b].pc = "renew" /\ ~clash' =>
                           /\ granted <= req'[b].now + WidgetTtl
                           /\ \A o \in Requests : req'[o].pc = "renew" => o = b
    BY <1>1, Zenon DEF StepInv
  <2>2. CASE b = r
    BY <1>1, <1>2, <1>6, <2>1, <2>2, Zenon
  <2>3. CASE b # r
    BY <1>1, <1>6, <2>3 DEF StepInv
  <2> QED BY <2>2, <2>3, Zenon
<1> QED BY <1>7, <1>8, <1>9, <1>10, Zenon

LEMMA WriteRenewalKeeps ==
  ASSUME CredentialInv, NEW r \in Requests, NEW o, WriteRenewal(r, o)
  PROVE  CredentialInv'
<1>1. CASE ~(originIsAllowed(o) /\ Renewable)
  BY <1>1, ServeKeeps, Zenon DEF WriteRenewal, machine, widget
<1>2. CASE originIsAllowed(o) /\ Renewable
  <2> USE DEF CredentialInv
  <2>1. PICK until : until = req[r].now + WidgetTtl
    BY Zenon
  <2>2. /\ req[r].pc = "renew" /\ Done(r)
        /\ session' = [session EXCEPT !.expiresAt = until]
        /\ granted' = IF until > granted THEN until ELSE granted
        /\ UNCHANGED <<clock, token, audit, contacts, openers, clash>>
    BY <1>2, <2>1, Zenon DEF WriteRenewal, RenewedUntil, machine
  <2>3. until \in Nat /\ granted \in Nat /\ clock \in Nat /\ WidgetTtl \in Nat /\ until <= clock + WidgetTtl
    <3>1. req[r].now \in Nat /\ granted \in Nat /\ clock \in Nat /\ req[r].now <= clock
      BY <2>2, Zenon DEF CredentialTypeOK, StepInv
    <3> QED BY <2>1, <3>1, AccessAssumption
  <2>4. ~clash => granted <= until
    BY <2>1, <2>2, Zenon DEF StepInv
  <2>5. granted' \in Nat /\ granted' <= clock + WidgetTtl /\ (~clash => granted' = until)
    BY <2>2, <2>3, <2>4 DEF ContactInv
  <2>6. /\ session' \in [exists : BOOLEAN, revoked : BOOLEAN, expiresAt : Nat, contact : Nat \cup {Nobody}]
        /\ session'.exists = session.exists /\ session'.contact = session.contact
        /\ session'.revoked = session.revoked /\ session'.expiresAt = until
    BY <2>2, <2>3, Zenon DEF CredentialTypeOK
  <2>7. /\ req' = [b \in Requests |-> [pc |-> req'[b].pc, who |-> req'[b].who, now |-> req'[b].now]]
        /\ \A b \in Requests : req'[b].now \in Nat
        /\ PrincipalInv' /\ StepInv'
    BY <2>2, <2>6, DoneKeeps, Zenon
  <2>8. CredentialTypeOK' /\ TokenInv'
    BY <2>2, <2>5, <2>6, <2>7, Zenon DEF CredentialTypeOK, TokenInv
  <2>9. ContactInv'
    BY <2>2, <2>5, <2>6, Zenon DEF ContactInv
  <2> QED BY <2>7, <2>8, <2>9, Zenon
<1> QED BY <1>1, <1>2, Zenon

(* A ticket is opened by the session's one Contact. *)
LEMMA OpenedBy ==
  ASSUME CredentialInv, NEW r \in Requests, Done(r), openers' = openers \cup {session.contact},
         session.contact # Nobody,
         UNCHANGED <<clock, machine, session, contacts, granted, clash>>
  PROVE  CredentialInv'
<1>1. UNCHANGED <<clock, token, audit, session, contacts, granted, clash>>
  BY Zenon DEF machine
<1>2. /\ req' = [o \in Requests |-> [pc |-> req'[o].pc, who |-> req'[o].who, now |-> req'[o].now]]
      /\ \A o \in Requests : req'[o].now \in Nat
      /\ PrincipalInv' /\ StepInv'
  BY <1>1, DoneKeeps, Zenon
<1>3. CredentialTypeOK' /\ TokenInv'
  BY <1>1, <1>2, Zenon DEF CredentialInv, CredentialTypeOK, TokenInv
<1>4. ContactInv'
  BY <1>1 DEF CredentialInv, ContactInv
<1> QED BY <1>2, <1>3, <1>4, Zenon DEF CredentialInv

LEMMA OpenKeeps ==
  ASSUME CredentialInv, NEW r \in Requests, Open(r)
  PROVE  CredentialInv'
<1>1. /\ req[r].pc = "guarded" /\ req[r].who.kind = "widget"
      /\ UNCHANGED <<clock, machine, session, contacts, granted, clash>>
  BY Zenon DEF Open, Admitted
<1>2. req[r].who # Nobody /\ session.exists /\ req[r].who.contact \in {Nobody, session.contact}
  BY <1>1, Zenon DEF CredentialInv, PrincipalInv
<1>3. CASE req[r].who.contact # Nobody
  BY <1>1, <1>2, <1>3, OpenedBy, Zenon DEF Open
<1>4. CASE req[r].who.contact = Nobody /\ session.revoked
  BY <1>1, <1>4, ServeKeeps, Zenon DEF Open, widget
<1>5. CASE req[r].who.contact = Nobody /\ ~session.revoked /\ session.contact # Nobody
  BY <1>1, <1>5, OpenedBy, Zenon DEF Open
<1>6. CASE req[r].who.contact = Nobody /\ ~session.revoked /\ session.contact = Nobody
  <2> USE DEF CredentialInv
  <2>1. /\ req' = [req EXCEPT ![r].pc = "create"]
        /\ UNCHANGED <<clock, token, audit, session, contacts, openers, granted, clash, graced>>
        /\ \A o \in Requests : req[o].pc = "create" => o = r
    BY <1>6, Zenon DEF Open, Locked, machine
  <2>2. contacts = 0
    BY <1>6, AccessAssumption, Zenon DEF ContactInv, CredentialTypeOK
  <2>3. /\ req' = [o \in Requests |-> [pc |-> req'[o].pc, who |-> req'[o].who, now |-> req'[o].now]]
        /\ \A o \in Requests : req'[o].now \in Nat
        /\ req'[r].pc = "create" /\ req'[r].who = req[r].who
        /\ \A o \in Requests : o # r => req'[o] = req[o]
    BY <2>1, OneAdvances, Zenon
  <2>4. CredentialTypeOK' /\ TokenInv' /\ ContactInv'
    BY <2>1, <2>3, Zenon DEF CredentialTypeOK, TokenInv, ContactInv
  <2>5. PrincipalInv'
    BY <1>2, <2>1, <2>3 DEF PrincipalInv
  <2>6. StepInv'
    BY <1>1, <2>1, <2>2, <2>3 DEF StepInv
  <2> QED BY <2>4, <2>5, <2>6, Zenon
<1> QED BY <1>3, <1>4, <1>5, <1>6, Zenon DEF CredentialInv, CredentialTypeOK

LEMMA CreateContactKeeps ==
  ASSUME CredentialInv, NEW r \in Requests, CreateContact(r)
  PROVE  CredentialInv'
<1> USE DEF CredentialInv
<1>1. req[r].pc = "create" /\ contacts = 0 /\ session.contact = Nobody /\ session.exists /\ openers = {}
  <2>1. req[r].pc = "create" /\ contacts = 0 /\ req[r].who.kind = "widget"
    BY Zenon DEF CreateContact, StepInv
  <2>2. session.exists
    BY <2>1, Zenon DEF PrincipalInv
  <2> QED BY <2>1, <2>2, Zenon DEF ContactInv
<1>2. /\ contacts' = 1 /\ session' = [session EXCEPT !.contact = 1] /\ openers' = {1} /\ Done(r)
      /\ UNCHANGED <<clock, token, audit, granted, clash>>
  BY <1>1 DEF CreateContact, machine
<1>3. /\ session' \in [exists : BOOLEAN, revoked : BOOLEAN, expiresAt : Nat, contact : Nat \cup {Nobody}]
      /\ session'.exists = session.exists /\ session'.contact = 1
      /\ session'.revoked = session.revoked /\ session'.expiresAt = session.expiresAt
  BY <1>2, Zenon DEF CredentialTypeOK
<1>4. /\ req' = [o \in Requests |-> [pc |-> req'[o].pc, who |-> req'[o].who, now |-> req'[o].now]]
      /\ \A o \in Requests : req'[o].now \in Nat
      /\ PrincipalInv' /\ StepInv'
  BY <1>1, <1>2, <1>3, DoneKeeps, Zenon
<1>5. CredentialTypeOK' /\ TokenInv'
  BY <1>2, <1>3, <1>4, Zenon DEF CredentialTypeOK, TokenInv
<1>6. ContactInv'
  BY <1>1, <1>2, <1>3, AccessAssumption DEF ContactInv
<1> QED BY <1>4, <1>5, <1>6, Zenon

LEMMA CredentialInductive == Spec => []CredentialInv
<1>1. CredentialInv /\ [Next]_vars => CredentialInv'
  <2> SUFFICES ASSUME CredentialInv, [Next]_vars PROVE CredentialInv'
    BY Zenon
  <2>1. ASSUME UNCHANGED <<clock, machine, widget, pipeline>> PROVE CredentialInv'
    <3>1. UNCHANGED <<clock, token, audit, session, contacts, openers, granted, clash, req, graced>>
      BY <2>1, Zenon DEF machine, widget, pipeline
    <3>2. CredentialTypeOK' /\ TokenInv' /\ ContactInv'
      BY <3>1, Zenon DEF CredentialInv, CredentialTypeOK, TokenInv, ContactInv
    <3>3. PrincipalInv' /\ StepInv'
      BY <3>1 DEF CredentialInv, PrincipalInv, StepInv
    <3> QED BY <3>2, <3>3, Zenon DEF CredentialInv
  <2>2. ASSUME NEW r \in Requests, Serve(r) \/ HandleInvite(r) PROVE CredentialInv'
    BY <2>2, ServeKeeps, Zenon DEF Serve, HandleInvite, Invite
  <2>3. ASSUME NEW r \in Requests, Handle(r) PROVE CredentialInv'
    BY <2>2, <2>3, AuthenticateKeeps, MintKeeps, FindTokenKeeps, RevokeTokenKeeps, RenewKeeps,
       WriteRenewalKeeps, OpenKeeps, CreateContactKeeps, Zenon DEF Handle
  <2>4. ASSUME NEW r \in Requests, VisitStep(r) PROVE CredentialInv'
    <3>1. clock' = clock
      BY <2>4, Zenon DEF VisitStep, Visit, Accept, SetPassword, SignIn, Exchange, Google, ReadInvitation, Enter, Abandon
    <3> QED BY <2>1, <2>4, <3>1, Zenon DEF VisitStep
  <2>5. CASE UNCHANGED vars
    BY <2>1, <2>5, Zenon DEF vars
  <2> QED BY <2>3, <2>4, <2>5, TickKeeps, BootstrapKeeps, RevokeSessionKeeps, Zenon DEF Next
<1> QED BY <1>1, CredentialStarts, PTL DEF Spec

(* Whatever a request came with, the guards let it through only to         *)
(* handlers that take its kind of principal, for every set of scopes a     *)
(* mint may ask for and a stored row may hold (PermissionGuard over every  *)
(* declared route, grantedScopes).                                         *)
THEOREM GuardsAreEnough == Spec => []HandlersGetTheirPrincipal
<1>1. CredentialInv => HandlersGetTheirPrincipal
  BY GuardIsRight, Zenon DEF CredentialInv, PrincipalInv, HandlersGetTheirPrincipal
<1> QED BY <1>1, CredentialInductive, PTL

(* A request that still acts for a revoked token or session passed         *)
(* AuthGuard before the revocation, and concurrent revocations of one      *)
(* token leave one audit entry (verify, revoke).                           *)
THEOREM RevocationsHoldAtOnce == Spec => []RevocationIsImmediate
<1>1. CredentialInv => RevocationIsImmediate
  BY Zenon DEF CredentialInv, TokenInv, PrincipalInv, RevocationIsImmediate
<1> QED BY <1>1, CredentialInductive, PTL

(* However many requests of one widget session open tickets at once, the   *)
(* session gets one Contact, which opens them all (contactPrincipalFor).   *)
THEOREM VisitorsAreOneContact == Spec => []OneContactPerSession
<1>1. CredentialInv => OneContactPerSession
  BY Zenon DEF CredentialInv, ContactInv, OneContactPerSession
<1> QED BY <1>1, CredentialInductive, PTL

(* The latest expiry a widget client was told is the one the row has,      *)
(* unless two renewals ran at once, and a revoked session's expiry never   *)
(* moves (bootstrap, renew).                                               *)
THEOREM GrantsAreKept == Spec => GrantIsHonoured
<1>1. CredentialInv /\ CredentialInv' /\ [Next]_vars =>
        [/\ session'.exists /\ ~clash' => session'.expiresAt = granted'
         /\ session.revoked => session'.expiresAt = session.expiresAt]_<<session, granted, clash>>
  <2> SUFFICES ASSUME CredentialInv, CredentialInv', [Next]_vars
               PROVE  /\ session'.exists /\ ~clash' => session'.expiresAt = granted'
                      /\ session.revoked => session'.expiresAt = session.expiresAt
    BY Zenon
  <2>1. session'.exists /\ ~clash' => session'.expiresAt = granted'
    BY Zenon DEF CredentialInv, ContactInv
  <2> SUFFICES ASSUME session.revoked PROVE session'.expiresAt = session.expiresAt
    BY <2>1, Zenon
  <2>2. session.exists
    BY Zenon DEF CredentialInv, ContactInv
  <2>3. CASE UNCHANGED session
    BY <2>3, Zenon
  <2>4. CASE RevokeSession
    BY <2>4, Zenon DEF RevokeSession
  <2>5. ASSUME NEW r \in Requests, CreateContact(r) PROVE session'.expiresAt = session.expiresAt
    BY <2>5, Zenon DEF CreateContact, CredentialInv, CredentialTypeOK
  <2>6. ASSUME NEW r \in Requests, NEW o, WriteRenewal(r, o) PROVE UNCHANGED session
    BY <2>6, Zenon DEF WriteRenewal, Renewable
  <2>7. ASSUME NEW r \in Requests, Handle(r) PROVE session'.expiresAt = session.expiresAt
    BY <2>5, <2>6, <2>7, Zenon DEF Handle, Authenticate, Serve, HandleInvite, Mint, FindToken, RevokeToken,
       Renew, Open, widget
  <2>8. ASSUME NEW r \in Requests, VisitStep(r) PROVE UNCHANGED session
    BY <2>8, Zenon DEF VisitStep, widget
  <2>9. CASE UNCHANGED vars
    BY <2>9, Zenon DEF vars, widget
  <2> QED BY <2>2, <2>3, <2>4, <2>7, <2>8, <2>9, Zenon DEF Next, Bootstrap, widget
<1> QED BY <1>1, CredentialInductive, PTL DEF Spec, GrantIsHonoured

------------------------------------------------------------------------------
(* The transactions everything runs in, and the deliveries of a message to *)
(* Slack.  A connection no transaction has armed carries nothing.          *)
Flags == {"scheduler", "installations", "sweeper"}

(* The contexts withTenant and the lookups open a transaction for. *)
Usable(c) == c \in Contexts /\ (c.as = "tenant" => contextSettings(c))

(* The actor as the property has it, from the credential. *)
KindOf(p) == IF p.kind = "widget" THEN "contact" ELSE p.kind
IdOf(p)   == IF p.kind = "system" THEN Unset ELSE Customer(p)

(* The settings of a connection no transaction has armed, and of one that  *)
(* is armed for c.                                                         *)
Clean(s) == \A n \in Names : s[n] \in {Unset, Empty}

ArmedFor(s, c) ==
  /\ armed(s, "tenant") = (IF c.as = "tenant" THEN c.tenant ELSE Unset)
  /\ armed(s, "kind") = KindOf(c.who)
  /\ armed(s, "id") = IdOf(c.who)
  /\ \A n \in Flags : IF c.as = n THEN s[n] = "on" ELSE s[n] \in {Unset, Empty}

Attribution(e, c) == e.tenant = c.tenant /\ e.kind = KindOf(c.who) /\ e.id = IdOf(c.who)

Entries == [tenant : Tenants, kind : {"user", "service", "contact", "system"},
            id : Contacts \cup Members \cup {Unset}]

UnitsOK ==
  unit \in [Units -> [pc : {"idle", "open", "armed", "sweeping"}, context : Contexts,
                      conn : Pool \cup {Nobody}, left : SUBSET Tenants, staged : SUBSET Entries]]

(* A connection has one transaction at a time, of a usable context. *)
Connected ==
  \A u \in Units :
    /\ unit[u].pc \in {"open", "armed"} => Usable(unit[u].context)
    /\ unit[u].conn # Nobody <=> unit[u].pc \in {"open", "armed"}
    /\ \A v \in Units : u # v /\ unit[u].conn = unit[v].conn => unit[u].conn = Nobody

Settings ==
  /\ DOMAIN setting = Pool
  /\ \A k \in Pool : (\A u \in Units : ~Holds(u, k)) => Clean(setting[k])
  /\ \A k \in Pool, u \in Units : Holds(u, k) => ArmedFor(setting[k], unit[u].context)

Stamps ==
  /\ \A u \in Units : \A e \in unit[u].staged : Attribution(e, unit[u].context)
  /\ \A a \in audit_log : Attribution(a.entry, a.context)

IInv == UnitsOK /\ Connected /\ Settings /\ Stamps

(* contextSettings and tenantContextFor: what is armed is the credential's *)
(* own, with an id unless it is system.                                    *)
LEMMA ActorOf ==
  ASSUME NEW c, Usable(c)
  PROVE  /\ actor(c).kind = KindOf(c.who)
         /\ actor(c).id = (IF c.who.kind = "system" THEN Nobody ELSE Customer(c.who))
         /\ c.who.kind # "system" => Customer(c.who) \in Contacts \cup Members
         /\ KindOf(c.who) \in {"user", "service", "contact", "system"}
         /\ c.as = "tenant" => c.tenant \in Tenants
         /\ c.as # "tenant" => c.who = System /\ c.tenant = Nobody /\ c.as \in Flags
         /\ c.as = "tenant" => c.as \notin Flags
<1> USE TenancyAssumption DEF TenancyAssumption
<1>1. c \in Contexts
  BY Zenon DEF Usable
<1>2. CASE c \in TenantContext
  <2>1. contextSettings(c) /\ c.as = "tenant" /\ c.tenant \in Tenants
    BY <1>2, Zenon DEF Usable, TenantContext, contextSettings
  <2>2. CASE c.who = System
    BY <2>1, <2>2 DEF System, actor, actorFor, KindOf, Customer, Flags
  <2>3. CASE c.who \in Principals
    <3>1. CASE \E m \in Members : c.who = User(m, "agent") \/ c.who = Service(m, {})
      BY <2>1, <3>1 DEF User, Service, actor, actorFor, KindOf, Customer, Flags
    <3>2. CASE \E x \in Contacts : c.who = Contact(x)
      BY <2>1, <3>2 DEF Contact, actor, actorFor, KindOf, Customer, Flags
    <3>3. CASE \E m \in Members, x \in Contacts \cup {Nobody} : c.who = Widget(m, x)
      <4>1. PICK m \in Members, x \in Contacts \cup {Nobody} : c.who = Widget(m, x)
        BY <3>3, Zenon
      <4>2. c.who.kind = "widget" /\ c.who.contact = x
        BY <4>1 DEF Widget
      <4>3. x # Nobody
        BY <2>1, <4>2, Zenon DEF contextSettings, actor, actorFor
      <4>4. actor(c) = [kind |-> "contact", id |-> x]
        BY <4>2, <4>3, Zenon DEF actor, actorFor
      <4>5. QED
        BY <2>1, <4>2, <4>3, <4>4 DEF KindOf, Customer, Flags
    <3>4. QED
      BY <2>3, <3>1, <3>2, <3>3 DEF Principals
  <2>4. QED
    BY <1>2, <2>2, <2>3, Zenon DEF TenantContext
<1>3. CASE c \in {Lookup("scheduler"), Lookup("installations"), Lookup("sweeper")}
  BY <1>3 DEF Lookup, System, actor, actorFor, KindOf, Customer, Flags
<1>4. QED
  BY <1>1, <1>2, <1>3, Zenon DEF Contexts

(* set_config on a connection that carries nothing arms the context. *)
LEMMA ArmingArms ==
  ASSUME NEW c, Usable(c), NEW s, Clean(s)
  PROVE  ArmedFor(Armed(s, c), c)
<1> USE TenancyAssumption DEF TenancyAssumption
<1> DEFINE a == Armed(s, c)
<1>1. /\ a["tenant"] = Text(c.tenant) /\ a["kind"] = actor(c).kind /\ a["id"] = Text(actor(c).id)
      /\ \A n \in Flags : a[n] = IF c.as = n THEN "on" ELSE s[n]
  BY Zenon DEF Armed, Names, Flags
<1> HIDE DEF a
<1>2. armed(a, "tenant") = (IF c.as = "tenant" THEN c.tenant ELSE Unset)
  BY <1>1, ActorOf DEF armed, Text
<1>3. armed(a, "kind") = KindOf(c.who)
  BY <1>1, ActorOf, Zenon DEF armed
<1>4. armed(a, "id") = IdOf(c.who)
  BY <1>1, ActorOf DEF armed, Text, IdOf
<1>5. \A n \in Flags : IF c.as = n THEN a[n] = "on" ELSE a[n] \in {Unset, Empty}
  BY <1>1, Zenon DEF Clean, Names, Flags
<1>6. QED
  BY <1>2, <1>3, <1>4, <1>5, Zenon DEF ArmedFor, a

(* The end of the transaction leaves nothing behind. *)
LEMMA EndingCleans == ASSUME NEW s PROVE Clean(Ended(s))
  BY Zenon DEF Ended, Clean

(* The policies fail closed: an unarmed connection shows no row. *)
LEMMA UnarmedSeesNothing ==
  ASSUME NEW s, Clean(s), NEW r \in Rows
  PROVE  ~Sees(s, r)
<1> USE TenancyAssumption DEF TenancyAssumption
<1>1. armed(s, "tenant") = Unset /\ r.tenant # Unset
  BY Zenon DEF Clean, Names, armed, Rows
<1>2. s["scheduler"] # "on" /\ s["installations"] # "on" /\ s["sweeper"] # "on"
  BY Zenon DEF Clean, Names
<1>3. QED
  BY <1>1, <1>2, Zenon DEF Sees, tenant_isolation, scheduler_drain, installation_lookup, sweeper_enumerate

(* The policies show an armed context what it is meant for. *)
LEMMA ArmedSeesItsContext ==
  ASSUME NEW c, Usable(c), NEW s, ArmedFor(s, c), NEW r \in Rows
  PROVE  Sees(s, r) <=> MeantFor(c, r)
<1> USE TenancyAssumption DEF TenancyAssumption
<1>1. CASE c.as # "tenant"
  <2>1. armed(s, "tenant") = Unset /\ r.tenant # Unset
    BY <1>1, Zenon DEF ArmedFor, Rows
  <2>2. ~tenant_isolation(s, r)
    BY <2>1, Zenon DEF tenant_isolation
  <2>3. c.as \in Flags
    BY <1>1, ActorOf, Zenon
  <2>4. \A n \in Flags : s[n] = "on" <=> c.as = n
    BY Zenon DEF ArmedFor
  <2>5. QED
    BY <2>2, <2>3, <2>4, Zenon DEF Sees, scheduler_drain, installation_lookup, sweeper_enumerate, MeantFor, Flags
<1>2. CASE c.as = "tenant"
  <2>1. \A n \in Flags : s[n] # "on"
    BY <1>2, Zenon DEF ArmedFor, Flags
  <2>2. Sees(s, r) <=> tenant_isolation(s, r)
    BY <2>1, Zenon DEF Sees, scheduler_drain, installation_lookup, sweeper_enumerate, Flags
  <2>3. armed(s, "tenant") = c.tenant /\ armed(s, "kind") = KindOf(c.who) /\ armed(s, "id") = IdOf(c.who)
    BY <1>2, Zenon DEF ArmedFor
  <2>4. notContact(s) <=> c.who.kind \notin {"contact", "widget"}
    BY <2>3, ActorOf, Zenon DEF notContact, KindOf
  <2>5. c.who.kind \in {"contact", "widget"} => armed(s, "id") = Customer(c.who)
    BY <2>3, Zenon DEF IdOf
  <2>6. MeantFor(c, r) <=>
          /\ r.tenant = c.tenant
          /\ c.who.kind \in {"contact", "widget"} =>
               r.table \in Shared \/ (r.table \notin Internal /\ r.contact = Customer(c.who))
    BY <1>2, Zenon DEF MeantFor
  <2>7. r.table \in Own \cup OnTicket \cup Internal \cup Shared
    BY Zenon DEF Rows
  <2>8. tenant_isolation(s, r) <=>
          /\ r.tenant = c.tenant
          /\ c.who.kind \in {"contact", "widget"} =>
               /\ r.table \in Own \cup OnTicket => r.contact = Customer(c.who)
               /\ r.table \notin Internal
    BY <2>3, <2>4, <2>5, Zenon DEF tenant_isolation, ownRow, onOwnTicket, current_actor_uuid
  <2>9. QED
    BY <2>2, <2>6, <2>7, <2>8, Zenon DEF Own, OnTicket, Internal, Shared
<1>3. QED
  BY <1>1, <1>2, Zenon

LEMMA InitIInv == TenancyInit => IInv
<1> SUFFICES ASSUME TenancyInit PROVE IInv
  BY Zenon
<1>1. UnitsOK /\ Connected
  BY Zenon DEF TenancyInit, Idle, UnitsOK, Connected, Contexts
<1>2. Settings
  BY Zenon DEF TenancyInit, Idle, Settings, Clean, Holds
<1>3. Stamps
  BY Zenon DEF TenancyInit, Idle, Stamps
<1>4. QED
  BY <1>1, <1>2, <1>3, Zenon DEF IInv

(* A transaction opens on a connection that no other has. *)
LEMMA Opening ==
  ASSUME IInv, NEW u \in Units, NEW c, Usable(c), NEW left \in SUBSET Tenants,
         unit[u].pc \notin {"open", "armed"}, Transaction(u, c, left)
  PROVE  IInv'
<1> USE TenancyAssumption DEF TenancyAssumption
<1>1. PICK k \in Free :
        unit' = [unit EXCEPT ![u] = [pc |-> "open", context |-> c, conn |-> k, left |-> left, staged |-> {}]]
  BY Zenon DEF Transaction
<1>2. UNCHANGED <<setting, audit_log>>
  BY Zenon DEF Transaction
<1>3. k \in Pool /\ k # Nobody /\ \A v \in Units : unit[v].conn # k
  BY Zenon DEF Free
<1>4. UnitsOK'
  BY <1>1, <1>3, Zenon DEF IInv, UnitsOK, Usable
<1>5. /\ unit'[u].pc = "open" /\ unit'[u].conn = k /\ unit'[u].context = c /\ unit'[u].staged = {}
      /\ \A v \in Units \ {u} : unit'[v] = unit[v]
  BY <1>1, Zenon DEF IInv, UnitsOK
<1>6. Connected'
  BY <1>3, <1>5 DEF IInv, Connected
<1>7. \A v \in Units, l \in Pool : Holds(v, l)' <=> Holds(v, l)
  BY <1>5, Zenon DEF Holds
<1>8. \A v \in Units, l \in Pool : Holds(v, l) => unit'[v].context = unit[v].context
  BY <1>5, Zenon DEF Holds
<1>9. Settings'
  BY <1>2, <1>7, <1>8, Zenon DEF IInv, Settings
<1>10. Stamps'
  BY <1>2, <1>5, Zenon DEF IInv, Stamps
<1>11. QED
  BY <1>4, <1>6, <1>9, <1>10, Zenon DEF IInv

(* A transaction that ends cleans its connection and gives it back. *)
LEMMA Closing ==
  ASSUME IInv, NEW u \in Units, unit[u].pc \in {"open", "armed"},
         NEW next \in {"idle", "sweeping"}, NEW left \in SUBSET Tenants,
         unit' = [unit EXCEPT ![u] = [Idle EXCEPT !.pc = next, !.left = left]],
         setting' = [setting EXCEPT ![unit[u].conn] = Ended(@)]
  PROVE  UnitsOK' /\ Connected' /\ Settings' /\ \A v \in Units : unit'[v].staged \subseteq unit[v].staged
<1> USE TenancyAssumption DEF TenancyAssumption
<1>1. PICK k \in Pool : k = unit[u].conn /\ k # Nobody /\ \A v \in Units : v # u => unit[v].conn # k
  BY DEF IInv, UnitsOK, Connected
<1>2. /\ unit'[u].pc = next /\ unit'[u].conn = Nobody /\ unit'[u].staged = {}
      /\ \A v \in Units \ {u} : unit'[v] = unit[v]
  BY Zenon DEF IInv, UnitsOK, Idle
<1>3. UnitsOK'
  BY Zenon DEF IInv, UnitsOK, Idle, Contexts
<1>4. Connected'
  BY <1>2 DEF IInv, Connected
<1>5. /\ DOMAIN setting' = Pool /\ setting'[k] = Ended(setting[k])
      /\ \A l \in Pool \ {k} : setting'[l] = setting[l]
  BY <1>1, Zenon DEF IInv, Settings
<1>6. Clean(setting'[k]) /\ \A v \in Units : ~Holds(v, k)'
  BY <1>1, <1>2, <1>5, EndingCleans DEF Holds
<1>7. \A l \in Pool \ {k}, v \in Units : Holds(v, l)' <=> Holds(v, l)
  BY <1>1, <1>2, Zenon DEF Holds
<1>8. \A l \in Pool \ {k}, v \in Units : Holds(v, l) => unit'[v].context = unit[v].context
  BY <1>1, <1>2, Zenon DEF Holds
<1>9. Settings'
  BY <1>5, <1>6, <1>7, <1>8 DEF IInv, Settings
<1>10. QED
  BY <1>2, <1>3, <1>4, <1>9, Zenon

LEMMA StepIInv == IInv /\ [TenancyNext]_tenancy => IInv'
<1> USE TenancyAssumption DEF TenancyAssumption
<1> SUFFICES ASSUME IInv, [TenancyNext]_tenancy PROVE IInv'
  BY Zenon
<1>1. CASE UNCHANGED tenancy
  BY <1>1, Zenon DEF tenancy, IInv, UnitsOK, Connected, Settings, Stamps, Holds
<1>2. ASSUME NEW u \in Units, Begin(u) PROVE IInv'
  <2>1. unit[u].pc \notin {"open", "armed"}
    BY <1>2, Zenon DEF Begin
  <2>2. PICK c : Usable(c) /\ Transaction(u, c, {})
    <3>1. CASE \E c \in TenantContext : withTenant(u, c)
      BY <3>1, Zenon DEF withTenant, Usable, Contexts
    <3>2. CASE withScheduler(u)
      BY <3>2, Zenon DEF withScheduler, Usable, Contexts, Lookup
    <3>3. CASE withInstallationLookup(u)
      BY <3>3, Zenon DEF withInstallationLookup, Usable, Contexts, Lookup
    <3>4. CASE forEachTenant(u)
      BY <3>4, Zenon DEF forEachTenant, Usable, Contexts, Lookup
    <3>5. QED
      BY <1>2, <3>1, <3>2, <3>3, <3>4, Zenon DEF Begin
  <2>3. QED
    BY <2>1, <2>2, Opening, Zenon
<1>3. ASSUME NEW u \in Units, VisitTenant(u) PROVE IInv'
  <2>1. unit[u].pc \notin {"open", "armed"} /\ unit[u].left \in SUBSET Tenants
    BY <1>3, Zenon DEF VisitTenant, IInv, UnitsOK
  <2>2. PICK t \in unit[u].left :
          Transaction(u, [as |-> "tenant", tenant |-> t, who |-> System], unit[u].left \ {t})
    BY <1>3, Zenon DEF VisitTenant
  <2> DEFINE c == [as |-> "tenant", tenant |-> t, who |-> System]
  <2>3. c \in TenantContext
    BY <2>1, Zenon DEF TenantContext
  <2>4. contextSettings(c)
    <3>1. c.tenant = t /\ c.who.kind = "system" /\ t # Nobody
      BY <2>1, Zenon DEF System
    <3>2. actor(c) = [kind |-> "system", id |-> Nobody]
      BY <3>1, Zenon DEF actor, actorFor, System
    <3>3. actor(c) # Nobody
      BY <3>2, Zenon
    <3>4. QED
      BY <3>1, <3>2, <3>3 DEF contextSettings
  <2>5. Usable(c)
    BY <2>3, <2>4, Zenon DEF Usable, Contexts
  <2> HIDE DEF c
  <2>6. unit[u].left \ {t} \in SUBSET Tenants
    BY <2>1, Zenon
  <2>7. Transaction(u, c, unit[u].left \ {t})
    BY <2>2, Zenon DEF c
  <2>8. QED
    BY <2>1, <2>5, <2>6, <2>7, Opening, Zenon
<1>4. ASSUME NEW u \in Units, Arm(u) PROVE IInv'
  <2>0. PICK k \in Pool, c \in Contexts : k = unit[u].conn /\ c = unit[u].context
    BY <1>4, Zenon DEF Arm, IInv, UnitsOK, Connected
  <2>1. unit[u].pc = "open" /\ Usable(c) /\ \A v \in Units : v # u => unit[v].conn # k
    BY <1>4, <2>0, Zenon DEF Arm, IInv, UnitsOK, Connected
  <2>2. UnitsOK'
    BY <1>4 DEF Arm, IInv, UnitsOK
  <2>3. /\ unit'[u].pc = "armed" /\ unit'[u].conn = k /\ unit'[u].context = c /\ unit'[u].staged = unit[u].staged
        /\ \A v \in Units \ {u} : unit'[v] = unit[v]
    BY <1>4, <2>0, Zenon DEF Arm, IInv, UnitsOK
  <2>4. Connected'
    BY <2>0, <2>1, <2>3 DEF IInv, Connected
  <2>5. /\ DOMAIN setting' = Pool /\ setting'[k] = Armed(setting[k], c)
        /\ \A l \in Pool \ {k} : setting'[l] = setting[l]
    BY <1>4, <2>0, <2>1, Zenon DEF Arm, IInv, Settings
  <2>6. Clean(setting[k])
    BY <2>0, <2>1, Zenon DEF IInv, Settings, Holds
  <2>7. ArmedFor(setting'[k], c)
    BY <2>1, <2>5, <2>6, ArmingArms, Zenon
  <2>8. \A v \in Units : Holds(v, k)' <=> v = u
    BY <2>1, <2>3, Zenon DEF Holds
  <2>9. \A l \in Pool \ {k}, v \in Units :
          (Holds(v, l)' <=> Holds(v, l)) /\ (Holds(v, l) => unit'[v].context = unit[v].context)
    BY <2>1, <2>3, Zenon DEF Holds
  <2>10. unit'[u].context = c
    BY <2>3, Zenon
  <2>11. Stamps'
    BY <1>4, <2>0, <2>3, Zenon DEF Arm, IInv, Stamps
  <2>12. Settings'
    <3>1. ASSUME NEW l \in Pool, \A v \in Units : ~Holds(v, l)' PROVE Clean(setting'[l])
      BY <2>5, <2>8, <2>9, <3>1, Zenon DEF IInv, Settings
    <3>2. ASSUME NEW l \in Pool, NEW v \in Units, Holds(v, l)' PROVE ArmedFor(setting'[l], unit'[v].context)
      BY <2>5, <2>7, <2>8, <2>9, <2>10, <3>2, Zenon DEF IInv, Settings
    <3>3. QED
      BY <2>5, <3>1, <3>2, Zenon DEF Settings
  <2>13. QED
    BY <2>2, <2>4, <2>11, <2>12, Zenon DEF IInv
<1>5. ASSUME NEW u \in Units, NEW r \in Rows, Edit(u, r) PROVE IInv'
  <2> DEFINE k == unit[u].conn
             c == unit[u].context
             s == setting[k]
             e == audit_log_stamp_actor(s, r.tenant)
  <2>1. /\ unit[u].pc = "armed" /\ Usable(c) /\ k \in Pool /\ ArmedFor(s, c)
    BY <1>5, Zenon DEF Edit, IInv, UnitsOK, Connected, Settings, Holds
  <2>2. r.tenant = c.tenant /\ r.tenant \in Tenants
    <3>1. r.table = "ticket" /\ Sees(s, r)
      BY <1>5, Zenon DEF Edit
    <3>2. armed(s, "tenant") = r.tenant /\ r.tenant \in Tenants
      BY <3>1, Zenon DEF Sees, tenant_isolation, scheduler_drain, installation_lookup, sweeper_enumerate, Rows
    <3>3. QED
      BY <2>1, <3>2, Zenon DEF ArmedFor
  <2>3. Attribution(e, c) /\ e.tenant = r.tenant
    BY <2>1, <2>2, Zenon DEF Attribution, audit_log_stamp_actor, ArmedFor
  <2>4. e \in Entries
    BY <2>1, <2>2, ActorOf, Zenon DEF audit_log_stamp_actor, ArmedFor, IdOf, Entries
  <2>5. /\ unit' = [unit EXCEPT ![u].staged = @ \cup {e}]
        /\ UNCHANGED <<setting, audit_log>>
    BY <1>5, Zenon DEF Edit
  <2> HIDE DEF e
  <2>6. UnitsOK'
    BY <2>4, <2>5 DEF IInv, UnitsOK
  <2>7. /\ unit'[u].staged = unit[u].staged \cup {e}
        /\ \A v \in Units : /\ unit'[v].pc = unit[v].pc /\ unit'[v].conn = unit[v].conn
                            /\ unit'[v].context = unit[v].context
                            /\ v # u => unit'[v].staged = unit[v].staged
    BY <2>5, Zenon DEF IInv, UnitsOK
  <2>8. Connected'
    BY <2>7 DEF IInv, Connected
  <2>9. Settings'
    BY <2>5, <2>7 DEF IInv, Settings, Holds
  <2>10. Stamps'
    BY <2>3, <2>5, <2>7 DEF IInv, Stamps
  <2>11. QED
    BY <2>6, <2>8, <2>9, <2>10, Zenon DEF IInv
<1>6. ASSUME NEW u \in Units, CommitTransaction(u) PROVE IInv'
  <2> DEFINE left == Enumerated(u)
             next == IF left = {} THEN "idle" ELSE "sweeping"
  <2>1. left \in SUBSET Tenants
    BY Zenon DEF Enumerated, IInv, UnitsOK
  <2>2. /\ unit[u].pc = "armed"
        /\ unit' = [unit EXCEPT ![u] = [Idle EXCEPT !.pc = next, !.left = left]]
        /\ setting' = [setting EXCEPT ![unit[u].conn] = Ended(@)]
        /\ audit_log' = audit_log \cup {[entry |-> e, context |-> unit[u].context] : e \in unit[u].staged}
    BY <1>6, Zenon DEF CommitTransaction
  <2>3. next \in {"idle", "sweeping"}
    BY Zenon
  <2> HIDE DEF left, next
  <2>4. UnitsOK' /\ Connected' /\ Settings' /\ \A v \in Units : unit'[v].staged \subseteq unit[v].staged
    BY <2>1, <2>2, <2>3, Closing, Zenon
  <2>5. \A v \in Units : unit'[v].staged = {} \/ unit'[v] = unit[v]
    BY <2>2, Zenon DEF IInv, UnitsOK, Idle
  <2>6. Stamps'
    <3>1. ASSUME NEW a \in audit_log' PROVE Attribution(a.entry, a.context)
      <4>1. CASE a \in audit_log
        BY <4>1, Zenon DEF IInv, Stamps
      <4>2. CASE \E e \in unit[u].staged : a = [entry |-> e, context |-> unit[u].context]
        BY <4>2 DEF IInv, Stamps
      <4>3. QED
        BY <2>2, <4>1, <4>2, Zenon
    <3>2. QED
      BY <2>5, <3>1, Zenon DEF IInv, Stamps
  <2>7. QED
    BY <2>4, <2>6, Zenon DEF IInv
<1>7. ASSUME NEW u \in Units, Rollback(u) PROVE IInv'
  <2>1. /\ unit[u].pc \in {"open", "armed"}
        /\ unit' = [unit EXCEPT ![u] = [Idle EXCEPT !.pc = "idle", !.left = {}]]
        /\ setting' = [setting EXCEPT ![unit[u].conn] = Ended(@)]
        /\ UNCHANGED audit_log
    BY <1>7, Zenon DEF Rollback, Idle
  <2>2. UnitsOK' /\ Connected' /\ Settings' /\ \A v \in Units : unit'[v].staged \subseteq unit[v].staged
    BY <2>1, Closing, Zenon
  <2>3. \A v \in Units : unit'[v].staged = {} \/ unit'[v] = unit[v]
    BY <2>1, Zenon DEF IInv, UnitsOK, Idle
  <2>4. Stamps'
    BY <2>1, <2>3, Zenon DEF IInv, Stamps
  <2>5. QED
    BY <2>2, <2>4, Zenon DEF IInv
<1>8. QED
  BY <1>1, <1>2, <1>3, <1>4, <1>5, <1>6, <1>7, Zenon DEF TenancyNext

LEMMA ViewFollows == IInv => ContextIsTheWholeView
<1> SUFFICES ASSUME IInv PROVE ContextIsTheWholeView
  BY Zenon
<1>1. ASSUME NEW k \in Pool, NEW r \in Rows
      PROVE  Sees(setting[k], r) <=> \E u \in Units : Holds(u, k) /\ MeantFor(unit[u].context, r)
  <2>1. CASE \A u \in Units : ~Holds(u, k)
    BY <2>1, UnarmedSeesNothing, Zenon DEF IInv, Settings
  <2>2. ASSUME NEW u \in Units, Holds(u, k) PROVE Sees(setting[k], r) <=> MeantFor(unit[u].context, r)
    BY <2>2, ArmedSeesItsContext, Zenon DEF IInv, Settings, Connected, Holds
  <2>3. QED
    BY <2>1, <2>2, Zenon
<1>2. ASSUME NEW a \in audit_log
      PROVE  /\ a.entry.tenant = a.context.tenant
             /\ a.entry.kind = (IF a.context.who.kind = "widget" THEN "contact" ELSE a.context.who.kind)
             /\ a.entry.id = (IF a.context.who.kind = "system" THEN Unset ELSE Customer(a.context.who))
  BY Zenon DEF IInv, Stamps, Attribution, KindOf, IdOf
<1>3. QED
  BY <1>1, <1>2, Zenon DEF ContextIsTheWholeView

(* However transactions, sweeps and failures follow each other on pooled   *)
(* connections (TenancyService), a connection shows what the context of    *)
(* the transaction on it is meant for and no more, and audit rows name the *)
(* tenant and the actor their transaction was opened for.                  *)
THEOREM ContextsAreTheWholeView == TenancySpec => []ContextIsTheWholeView
<1>1. TenancyInit => IInv
  BY InitIInv, Zenon
<1>2. IInv /\ [TenancyNext]_tenancy => IInv'
  BY StepIInv, Zenon
<1>3. QED
  BY <1>1, <1>2, ViewFollows, PTL DEF TenancySpec

------------------------------------------------------------------------------
(***************************************************************************)
(* A delivery: one handler at a time, and what the row says by where that  *)
(* handler is.                                                             *)
(***************************************************************************)
Places == {"none", "claim", "post", "record", "fail", "abandon", "announce", "commit",
           "return", "complete", "throw", "over"}

DeliveryTypeOK ==
  /\ job \in {"ready", "active", "done", "dead"} /\ attempts \in 0 .. Cap
  /\ row \in {"pending", "delivered", "dead"}
  /\ pc \in [Handlers -> Places] /\ open \in [Handlers -> BOOLEAN]
  /\ audited \in BOOLEAN /\ announced \in BOOLEAN /\ unsure \in BOOLEAN
  /\ posts \in Nat

HandlerOK(n) ==
  /\ Live(n) => n = attempts /\ job = "active"
  /\ pc[n] = "post" => row = "pending"
  /\ pc[n] \in {"announce", "commit"} => row # "delivered"
  /\ pc[n] = "commit" => announced
  /\ pc[n] \in {"return", "complete"} => row # "pending"
  /\ pc[n] = "throw" => n < MaxAttempts \/ row # "pending" \/ ~open[n]

(* A copy the row was told of, or is about to be. *)
Accounted ==
  ~unsure => \/ posts = 0
             \/ posts = 1 /\ (row = "delivered" \/ \E n \in Handlers : pc[n] = "record")

DeliveryInv ==
  /\ DeliveryTypeOK
  /\ \A n \in Handlers : HandlerOK(n)
  /\ Accounted
  /\ job # "ready" => attempts > 0
  /\ JobEndsWithTheDelivery

USE DeliveryAssumption

LEMMA InitDelivery == DeliveryInit => DeliveryInv
<1> SUFFICES ASSUME DeliveryInit PROVE DeliveryInv
  BY Zenon
<1>1. DeliveryTypeOK
  <2>1. attempts \in 0 .. Cap /\ posts \in Nat
    BY DEF DeliveryInit
  <2>2. pc \in [Handlers -> Places] /\ open \in [Handlers -> BOOLEAN]
    BY Zenon DEF DeliveryInit, Places
  <2> QED BY <2>1, <2>2, Zenon DEF DeliveryInit, DeliveryTypeOK
<1>2. \A n \in Handlers : HandlerOK(n)
  BY Zenon DEF DeliveryInit, HandlerOK, Live, Over
<1> QED BY <1>1, <1>2, Zenon DEF DeliveryInit, DeliveryInv, Accounted, JobEndsWithTheDelivery

(* The live handler is the last attempt's, so a step of it meets no other. *)
LEMMA OnlyHandler ==
  ASSUME DeliveryInv, NEW n \in Handlers, Live(n)
  PROVE  /\ n = attempts /\ job = "active"
         /\ \A m \in Handlers : m # n => pc[m] \in Over
  BY Zenon DEF DeliveryInv, HandlerOK, Live

(* What a step of handler n has to show. *)
LEMMA StepOfOne ==
  ASSUME DeliveryInv, NEW n \in Handlers, Live(n), NEW l \in Places, Goto(n, l),
         DeliveryTypeOK', attempts' = attempts,
         HandlerOK(n)', Accounted', job' # "ready" => attempts > 0, JobEndsWithTheDelivery'
  PROVE  DeliveryInv'
<1>1. \A m \in Handlers : m # n => pc'[m] \in Over
  BY OnlyHandler, Zenon DEF Goto, DeliveryInv, DeliveryTypeOK
<1>2. \A m \in Handlers : m # n => HandlerOK(m)'
  BY <1>1, Zenon DEF HandlerOK, Live, Over
<1> QED BY <1>2, Zenon DEF DeliveryInv

LEMMA DeliveryInductive == DeliveryInv /\ [DeliveryNext]_delivery => DeliveryInv'
<1> SUFFICES ASSUME DeliveryInv, [DeliveryNext]_delivery PROVE DeliveryInv'
  BY Zenon
<1>0. DeliveryTypeOK /\ Accounted /\ JobEndsWithTheDelivery
  BY Zenon DEF DeliveryInv
<1> USE DEF Handlers
<1>1. CASE Dispatch
  <2>1. attempts + 1 \in Handlers /\ pc' = [pc EXCEPT ![attempts + 1] = "claim"]
    BY <1>0, <1>1 DEF Dispatch, Goto, DeliveryTypeOK
  <2>2. DeliveryTypeOK'
    BY <1>0, <1>1, <2>1 DEF Dispatch, DeliveryTypeOK, Places
  <2>3. \A m \in Handlers : m # attempts + 1 => pc'[m] = pc[m] /\ pc[m] \in Over
    BY <1>0, <1>1, <2>1, Zenon DEF Dispatch, DeliveryTypeOK, Live
  <2>4. pc'[attempts + 1] = "claim"
    BY <1>0, <2>1, Zenon DEF DeliveryTypeOK
  <2>5. \A m \in Handlers : HandlerOK(m)'
    BY <1>1, <2>3, <2>4, Zenon DEF HandlerOK, Live, Over, Dispatch
  <2>6. Accounted'
    BY <1>0, <1>1, <2>3, Zenon DEF Accounted, Dispatch, Live, Over
  <2>7. JobEndsWithTheDelivery' /\ attempts' > 0
    BY <1>0, <1>1 DEF JobEndsWithTheDelivery, Dispatch, DeliveryTypeOK
  <2> QED BY <2>2, <2>5, <2>6, <2>7, Zenon DEF DeliveryInv
<1>2. ASSUME NEW n \in Handlers, Live(n),
             \/ Claim(n) \/ Post(n) \/ Record(n) \/ RecordThrows(n) \/ Fail(n)
             \/ SettleAndAudit(n) \/ Announce(n) \/ Commit(n) \/ Return(n)
             \/ Complete(n) \/ SettleFailure(n) \/ Die(n)
      PROVE  DeliveryInv'
  <2>0. /\ n = attempts /\ job = "active" /\ HandlerOK(n) /\ attempts > 0
        /\ \A m \in Handlers : m # n => pc[m] \in Over
    BY <1>2, OnlyHandler, Zenon DEF DeliveryInv
  <2>a. ASSUME NEW l \in Places, Goto(n, l)
        PROVE  pc' \in [Handlers -> Places] /\ pc'[n] = l /\ \A m \in Handlers : m # n => pc'[m] # "record"
    BY <1>0, <2>0, <2>a, Zenon DEF Goto, DeliveryTypeOK, Over
  <2>b. (\E m \in Handlers : pc[m] = "record") => pc[n] = "record"
    BY <2>0, Zenon DEF Over
  <2> USE DEF DeliveryTypeOK, HandlerOK, Accounted, JobEndsWithTheDelivery
  <2>1. CASE Claim(n)
    <3>1. PICK l \in {"post", "return"} : /\ Goto(n, l)
                                          /\ l = "post" => row = "pending"
                                          /\ l = "return" => row # "pending"
      BY <2>1, Zenon DEF Claim
    <3>2. l \in Places
      BY Zenon DEF Places
    <3> QED BY <1>0, <1>2, <2>0, <2>a, <2>b, <2>1, <3>1, <3>2, StepOfOne, Zenon DEF Claim, Live, Over
  <2>2. CASE Post(n)
    <3>1. PICK made \in {0, 1}, answer \in {"ok", "transient", "permanent"} :
            /\ answer = "ok" => made = 1
            /\ answer = "permanent" => made = 0
            /\ posts' = posts + made
            /\ unsure' = (unsure \/ (made = 1 /\ answer # "ok"))
            /\ Goto(n, CASE answer = "ok" -> "record"
                         [] answer = "transient" -> "fail"
                         [] answer = "permanent" -> "abandon")
      BY <2>2, Zenon DEF Post
    <3>2. PICK l \in {"record", "fail", "abandon"} :
            /\ Goto(n, l)
            /\ l = "record" <=> answer = "ok"
      BY <3>1, Zenon
    <3>3. l \in Places
      BY Zenon DEF Places
    <3>4. /\ open' \in [Handlers -> BOOLEAN]
          /\ job' = job /\ attempts' = attempts /\ row' = row /\ audited' = audited /\ announced' = announced
          /\ row = "pending" /\ pc[n] = "post"
      BY <1>0, <2>0, <2>2, Zenon DEF Post
    <3>5. DeliveryTypeOK'
      BY <1>0, <2>a, <3>1, <3>2, <3>3, <3>4
    <3>6. Accounted'
      <4> SUFFICES ASSUME ~unsure' PROVE posts' = 0 \/ (posts' = 1 /\ pc'[n] = "record")
        BY <3>4, Zenon
      <4>1. ~unsure /\ (made = 1 => answer = "ok")
        BY <3>1, Zenon
      <4>2. posts = 0
        BY <1>0, <2>b, <3>4, <4>1, Zenon
      <4>3. posts' = made /\ (made = 1 => l = "record")
        BY <3>1, <3>2, <4>1, <4>2
      <4> QED BY <2>a, <3>2, <3>3, <4>3, Zenon
    <3>7. HandlerOK(n)' /\ JobEndsWithTheDelivery'
      BY <1>0, <2>0, <2>a, <3>2, <3>3, <3>4, Zenon DEF Live
    <3> QED BY <1>2, <2>0, <3>2, <3>3, <3>4, <3>5, <3>6, <3>7, StepOfOne, Zenon
  <2>3. CASE Record(n)
    <3>1. Goto(n, "return") /\ "return" \in Places
      BY <2>3, Zenon DEF Record, Places
    <3> QED BY <1>0, <1>2, <2>0, <2>a, <2>b, <2>3, <3>1, StepOfOne, Zenon DEF Record, Live
  <2>4. CASE RecordThrows(n)
    <3>1. Goto(n, "fail") /\ "fail" \in Places
      BY <2>4, Zenon DEF RecordThrows, Places
    <3> QED BY <1>0, <1>2, <2>0, <2>a, <2>b, <2>4, <3>1, StepOfOne, Zenon DEF RecordThrows, Live
  <2>5. CASE Fail(n)
    <3>1. PICK l \in {"abandon", "throw"} :
            /\ Goto(n, l)
            /\ l = "throw" => n < MaxAttempts
            /\ row' = row \/ (row # "delivered" /\ row' = "pending")
      BY <2>5, Zenon DEF Fail, Settleable
    <3>2. l \in Places
      BY Zenon DEF Places
    <3> QED BY <1>0, <1>2, <2>0, <2>a, <2>b, <2>5, <3>1, <3>2, StepOfOne, Zenon DEF Fail, Live
  <2>6. CASE SettleAndAudit(n)
    <3>1. PICK l \in {"announce", "throw"} :
            /\ Goto(n, l)
            /\ l = "announce" => row # "delivered"
            /\ l = "throw" => ~open[n] \/ row = "delivered"
      BY <2>6, Zenon DEF SettleAndAudit, Settleable
    <3>2. l \in Places
      BY Zenon DEF Places
    <3> QED BY <1>0, <1>2, <2>0, <2>a, <2>b, <2>6, <3>1, <3>2, StepOfOne, Zenon DEF SettleAndAudit, Live
  <2>7. CASE Announce(n)
    <3>1. Goto(n, "commit") /\ "commit" \in Places
      BY <2>7, Zenon DEF Announce, Places
    <3> QED BY <1>0, <1>2, <2>0, <2>a, <2>b, <2>7, <3>1, StepOfOne, Zenon DEF Announce, Live
  <2>8. CASE Commit(n)
    <3>1. Goto(n, "complete") /\ "complete" \in Places
      BY <2>8, Zenon DEF Commit, Places
    <3> QED BY <1>0, <1>2, <2>0, <2>a, <2>b, <2>8, <3>1, StepOfOne, Zenon DEF Commit, Live
  <2>9. CASE Return(n)
    <3>1. PICK l \in {"complete", "throw"} : Goto(n, l)
      BY <2>9, Zenon DEF Return
    <3>2. l \in Places
      BY Zenon DEF Places
    <3> QED BY <1>0, <1>2, <2>0, <2>a, <2>b, <2>9, <3>1, <3>2, StepOfOne, Zenon DEF Return, Live
  <2> USE DEF Over
  <2>10. CASE Complete(n)
    <3>1. Goto(n, "over") /\ "over" \in Places
      BY <2>10, Zenon DEF Complete, Places
    <3> QED BY <1>0, <1>2, <2>0, <2>a, <2>b, <2>10, <3>1, StepOfOne, Zenon DEF Complete, Live
  <2>11. CASE SettleFailure(n)
    <3>1. Goto(n, "over") /\ "over" \in Places
      BY <2>11, Zenon DEF SettleFailure, Places
    <3> QED BY <1>0, <1>2, <2>0, <2>a, <2>b, <2>11, <3>1, StepOfOne DEF SettleFailure, Live
  <2>12. CASE Die(n)
    <3>1. Goto(n, "over") /\ "over" \in Places
      BY <2>12, Zenon DEF Die, Places
    <3> QED BY <1>0, <1>2, <2>0, <2>a, <2>b, <2>12, <3>1, StepOfOne, Zenon DEF Die, Live
  <2> QED BY <1>2, <2>1, <2>2, <2>3, <2>4, <2>5, <2>6, <2>7, <2>8, <2>9, <2>10, <2>11, <2>12, Zenon
<1>3. ASSUME NEW n \in Handlers,
             \/ Claim(n) \/ Post(n) \/ Record(n) \/ RecordThrows(n) \/ Fail(n)
             \/ SettleAndAudit(n) \/ Announce(n) \/ Commit(n) \/ Return(n)
             \/ Complete(n) \/ SettleFailure(n) \/ Die(n)
      PROVE  Live(n)
  BY <1>3, Zenon DEF Claim, Post, Record, RecordThrows, Fail, SettleAndAudit, Announce, Commit, Return,
     Complete, SettleFailure, Die, Live, Over
<1>4. CASE UNCHANGED delivery
  BY <1>4, Zenon DEF delivery, DeliveryInv, DeliveryTypeOK, HandlerOK, Live, Accounted, JobEndsWithTheDelivery
<1> QED BY <1>1, <1>2, <1>3, <1>4, Zenon DEF DeliveryNext

LEMMA DeliveryInvariance == DeliverySpec => []DeliveryInv
<1> QED BY InitDelivery, DeliveryInductive, PTL DEF DeliverySpec

(* When the queue is done with a job its row says how the delivery ended,  *)
(* and a dead one was audited and announced, for any number of attempts.   *)
THEOREM JobsEndWithTheirDelivery == DeliverySpec => []JobEndsWithTheDelivery
<1>1. DeliveryInv => JobEndsWithTheDelivery
  BY Zenon DEF DeliveryInv
<1> QED BY <1>1, DeliveryInvariance, PTL

(* A second copy only after one the row could not be told of, and none     *)
(* once the row says delivered.                                            *)
THEOREM NoSecondCopyWhenSure == DeliverySpec => SecondCopyOnlyWhenUnsure
<1>1. DeliveryInv /\ DeliveryInv' /\ [DeliveryNext]_delivery =>
        [/\ ~unsure' => posts' <= 1
         /\ row = "delivered" => row' = "delivered" /\ posts' = posts]_delivery
  <2> SUFFICES ASSUME DeliveryInv, DeliveryInv', [DeliveryNext]_delivery
               PROVE  /\ ~unsure' => posts' <= 1
                      /\ row = "delivered" => row' = "delivered" /\ posts' = posts
    BY Zenon
  <2>1. ~unsure' => posts' <= 1
    BY DEF DeliveryInv, Accounted
  <2>2. ASSUME row = "delivered" PROVE row' = "delivered" /\ posts' = posts
    <3>1. \A n \in Handlers : pc[n] # "post" /\ pc[n] # "commit"
      BY <2>2, Zenon DEF DeliveryInv, HandlerOK
    <3> QED BY <2>2, <3>1, Zenon DEF DeliveryNext, delivery, Dispatch, Claim, Post, Record, RecordThrows, Fail,
            Settleable, SettleAndAudit, Announce, Commit, Return, Complete, SettleFailure, Die
  <2> QED BY <2>1, <2>2, Zenon
<1> QED BY <1>1, DeliveryInvariance, PTL DEF DeliverySpec, SecondCopyOnlyWhenUnsure
==============================================================================
