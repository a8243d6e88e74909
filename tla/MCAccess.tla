------------------------------- MODULE MCAccess -------------------------------
(***************************************************************************)
(* Access for TLC.  Staff accounts, service tokens and widget sessions     *)
(* share no row, so the steps of two of them commute; the state constraint *)
(* explores each with the pipeline, one at a time.                          *)
(***************************************************************************)
EXTENDS Access, TLC

CONSTANTS g1, g2, g3

Token(subject, verified, issuer, audience, exp) ==
  [subject |-> subject, verified |-> verified, issuer |-> issuer, audience |-> audience, exp |-> exp]

(* Two accounts that proved the address, one that did not, and tokens of   *)
(* another issuer, for another application, past their time, or of nobody. *)
MCClaims ==
  {Token(g1, TRUE, TRUE, TRUE, 2), Token(g2, TRUE, TRUE, TRUE, 9), Token(g3, FALSE, TRUE, TRUE, 9),
   Token(g3, TRUE, FALSE, TRUE, 9), Token(g3, TRUE, TRUE, FALSE, 9), Token(Nobody, TRUE, TRUE, TRUE, 9)}

MCAsked ==
  {{}, {"ticket:read", "ticket:reply"}, {"ticket:raed"}, {"ticket:read", "audit:read"},
   {"user:invite", "token:manage"}, SUPPORT_WORK}

MCStored == {{"ticket:read", "token:manage"}}

Alike == Permutations(Requests)

OneStoreAtATime ==
  Cardinality({i \in 1 .. 3 : <<seat.exists, token.exists, session.exists>>[i]}) <= 1
==============================================================================
