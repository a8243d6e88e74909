------------------------------- MODULE Sessions -------------------------------
(***************************************************************************)
(* One family of refresh tokens: a sign-in and everything rotated from it  *)
(* (src/src/auth/refresh-token.service.ts, session-rotation.ts, and the    *)
(* refresh and signOut of auth.service.ts and portal-auth.service.ts).     *)
(*                                                                         *)
(* A request is one READ COMMITTED transaction, one step per statement.    *)
(* A row it updated stays locked, and a row it inserted invisible, until   *)
(* it commits.  An UPDATE of the family works on the rows its snapshot     *)
(* held and waits for the locked ones among them.                          *)
(*                                                                         *)
(* Tokens are numbered as they are committed; token 1 is the sign-in's.    *)
(***************************************************************************)
EXTENDS Integers, FiniteSets

CONSTANTS
  Requests,
  NoRequest,
  SLIDING,     \* SLIDING_WINDOW_MS, in clock units
  ABSOLUTE,    \* ABSOLUTE_LIFETIME_MS
  MaxTokens,   \* bound: no rotation after this many tokens
  Horizon      \* bound: the clock stops here

ASSUME SessionsAssumption ==
  /\ NoRequest \notin Requests
  /\ SLIDING \in Nat \ {0} /\ ABSOLUTE \in Nat \ {0}
  /\ MaxTokens \in Nat \ {0} /\ Horizon \in Nat

Tokens == 1 .. MaxTokens
Kinds  == {"user", "contact"}

VARIABLES
  clock,
  subject,         \* whose session it is: user_id or contact_id is set
  issued,          \* how many tokens are committed
  parent,          \* history: the token a token is the successor of
  expiresAt,
  familyExpiresAt,
  rotatedAt,       \* -1 while null
  revoked,         \* the tokens with revoked_at set
  lock,            \* the transaction that updated the row and is still open
  pc, tok, now,    \* a request: where it is, the token it presents, its `now`
  seen,            \* the rows in the snapshot of its UPDATE
  evicted,         \* history: an eviction of the family has finished
  overlapped       \* history: a rotation was under way while one ran

rows    == <<subject, issued, parent, expiresAt, familyExpiresAt, rotatedAt, revoked>>
request == <<pc, tok, now, seen>>
history == <<evicted, overlapped>>
vars    == <<clock, rows, lock, request, history>>

Committed == 1 .. issued

Goto(q, l) == pc' = [pc EXCEPT ![q] = l]

(* issue: a sign-in begins the family. *)
Init ==
  /\ clock = 0
  /\ subject \in Kinds
  /\ issued = 1
  /\ parent = [t \in Tokens |-> 0]
  /\ expiresAt = [t \in Tokens |-> IF t = 1 THEN SLIDING ELSE 0]
  /\ familyExpiresAt = [t \in Tokens |-> IF t = 1 THEN ABSOLUTE ELSE 0]
  /\ rotatedAt = [t \in Tokens |-> -1]
  /\ revoked = {}
  /\ lock = [t \in Tokens |-> NoRequest]
  /\ pc = [q \in Requests |-> "idle"]
  /\ tok = [q \in Requests |-> 1]
  /\ now = [q \in Requests |-> 0]
  /\ seen = [q \in Requests |-> {}]
  /\ evicted = FALSE /\ overlapped = FALSE

Tick ==
  /\ clock < Horizon
  /\ clock' = clock + 1
  /\ UNCHANGED <<rows, lock, request, history>>

------------------------------------------------------------------------------
(* classifyPresentedToken: the order is load-bearing. *)
classify(t, at) ==
  IF t \in revoked THEN "reject"
  ELSE IF rotatedAt[t] >= 0 THEN "replay"
  ELSE IF familyExpiresAt[t] <= at \/ expiresAt[t] <= at THEN "reject"
  ELSE "rotate"

(* A request arrives with a token: `now` is read before the transaction. *)
Arrive(q, t, l) ==
  /\ pc[q] = "idle"
  /\ t \in Committed
  /\ Goto(q, l)
  /\ tok' = [tok EXCEPT ![q] = t]
  /\ now' = [now EXCEPT ![q] = clock]
  /\ UNCHANGED <<clock, rows, lock, seen, history>>

(* The staff's and the portal's endpoints, on the same tokens. *)
Refresh(q, t)       == Arrive(q, t, "user")
PortalRefresh(q, t) == Arrive(q, t, "contact")
SignOut(q, t)       == Arrive(q, t, "signOut")
PortalSignOut(q, t) == Arrive(q, t, "signOut")

(* refresh, classify: the wrong axis and a rejected token are refused. *)
Classify(q) ==
  /\ pc[q] \in Kinds
  /\ Goto(q, IF pc[q] # subject \/ classify(tok[q], now[q]) = "reject" THEN "idle"
             ELSE IF classify(tok[q], now[q]) = "replay" THEN "revoke"
             ELSE "rotate")
  /\ UNCHANGED <<clock, rows, lock, tok, now, seen, history>>

(* signOut, classify: whatever the verdict and whatever the axis. *)
FindFamily(q) ==
  /\ pc[q] = "signOut"
  /\ Goto(q, "revoke")
  /\ UNCHANGED <<clock, rows, lock, tok, now, seen, history>>

(* Fault: the update is not conditional on rotated_at. *)
Unspent_Any(t) == TRUE

(* WHERE rotated_at IS NULL; revoked_at is not asked again. *)
Unspent(t) == rotatedAt[t] < 0

(* rotate, the conditional UPDATE. *)
Spend(q) ==
  LET t == tok[q] IN
  /\ pc[q] = "rotate"
  /\ lock[t] = NoRequest
  /\ IF Unspent(t) THEN Goto(q, "write") /\ lock' = [lock EXCEPT ![t] = q]
                   ELSE Goto(q, "idle") /\ UNCHANGED lock
  /\ UNCHANGED <<clock, rows, tok, now, seen, history>>

(* Copied, never recomputed. *)
Ceiling(q) == familyExpiresAt[tok[q]]

(* rotate, write and the commit: the token is spent and its successor shows. *)
Commit(q) ==
  LET t == tok[q]
      s == issued + 1 IN
  /\ pc[q] = "write"
  /\ issued < MaxTokens
  /\ rotatedAt' = [rotatedAt EXCEPT ![t] = now[q]]
  /\ issued' = s
  /\ parent' = [parent EXCEPT ![s] = t]
  /\ expiresAt' = [expiresAt EXCEPT ![s] = now[q] + SLIDING]
  /\ familyExpiresAt' = [familyExpiresAt EXCEPT ![s] = Ceiling(q)]
  /\ lock' = [lock EXCEPT ![t] = NoRequest]
  /\ overlapped' = (overlapped \/ \E o \in Requests : pc[o] = "revoking")
  /\ Goto(q, "idle")
  /\ UNCHANGED <<clock, subject, revoked, tok, now, seen, evicted>>

(* Fault: only the token that was presented. *)
RevokeSnapshot_TokenOnly(q) ==
  /\ pc[q] = "revoke"
  /\ seen' = [seen EXCEPT ![q] = {tok[q]}]
  /\ Goto(q, "revoking")
  /\ UNCHANGED <<clock, rows, lock, tok, now, history>>

(* revokeFamily, the UPDATE takes its snapshot. *)
RevokeSnapshot(q) ==
  /\ pc[q] = "revoke"
  /\ seen' = [seen EXCEPT ![q] = Committed]
  /\ Goto(q, "revoking")
  /\ UNCHANGED <<clock, rows, lock, tok, now, history>>

(* It has every row of its snapshot, and commits. *)
RevokeFamily(q) ==
  /\ pc[q] = "revoking"
  /\ \A t \in seen[q] : lock[t] = NoRequest
  /\ revoked' = revoked \cup seen[q]
  /\ seen' = [seen EXCEPT ![q] = {}]
  /\ evicted' = TRUE
  /\ overlapped' = (overlapped \/ \E o \in Requests : pc[o] \in {"rotate", "write"})
  /\ Goto(q, "idle")
  /\ UNCHANGED <<clock, subject, issued, parent, expiresAt, familyExpiresAt, rotatedAt, lock, tok, now>>

(* The transaction fails, and nothing of it happened. *)
Rollback(q) ==
  /\ pc[q] # "idle"
  /\ Goto(q, "idle")
  /\ lock' = [t \in Tokens |-> IF lock[t] = q THEN NoRequest ELSE lock[t]]
  /\ seen' = [seen EXCEPT ![q] = {}]
  /\ UNCHANGED <<clock, rows, tok, now, history>>

Next ==
  \/ Tick
  \/ \E q \in Requests :
       \/ \E t \in Tokens : Refresh(q, t) \/ PortalRefresh(q, t) \/ SignOut(q, t) \/ PortalSignOut(q, t)
       \/ Classify(q) \/ FindFamily(q)
       \/ Spend(q) \/ Commit(q)
       \/ RevokeSnapshot(q) \/ RevokeFamily(q)
       \/ Rollback(q)

Spec == Init /\ [][Next]_vars

------------------------------------------------------------------------------
SessionsTypeOK ==
  /\ clock \in 0 .. Horizon
  /\ subject \in Kinds
  /\ issued \in Tokens
  /\ parent \in [Tokens -> 0 .. MaxTokens]
  /\ expiresAt \in [Tokens -> 0 .. Horizon + SLIDING]
  /\ familyExpiresAt \in [Tokens -> 0 .. ABSOLUTE]
  /\ rotatedAt \in [Tokens -> -1 .. Horizon]
  /\ revoked \subseteq Committed
  /\ lock \in [Tokens -> Requests \cup {NoRequest}]
  /\ pc \in [Requests -> Kinds \cup {"idle", "signOut", "rotate", "write", "revoke", "revoking"}]
  /\ tok \in [Requests -> Tokens]
  /\ now \in [Requests -> 0 .. Horizon]
  /\ seen \in [Requests -> SUBSET Committed]
  /\ evicted \in BOOLEAN /\ overlapped \in BOOLEAN

(* However many requests race on it, a token has one successor, so that    *)
(* exactly one token of the family is unspent; and it has one only if it   *)
(* was rotated inside its own window and before the ceiling set at the     *)
(* sign-in, however often the family was rotated and however long the      *)
(* request took (rotate's conditional update and its copy of the ceiling,  *)
(* classifyPresentedToken).                                                *)
OneSuccessor ==
  /\ \A s, t \in Committed : parent[s] = parent[t] => s = t
  /\ Cardinality({t \in Committed : rotatedAt[t] < 0}) = 1
  /\ \A t \in Committed : rotatedAt[t] >= 0 => rotatedAt[t] < expiresAt[t] /\ rotatedAt[t] < ABSOLUTE

(* "Evicts a whole family -- on sign-out, and on replay": once it is done, *)
(* no token of the family is usable and no later refresh makes one         *)
(* (revokeFamily, classifyPresentedToken).  The exception is a rotation    *)
(* that was past its verdict while the UPDATE ran: rotate does not ask for *)
(* revoked_at again, and the snapshot misses its successor.                *)
EvictionIsComplete ==
  ~overlapped /\ evicted /\ (\A q \in Requests : pc[q] = "idle") => revoked = Committed
==============================================================================
