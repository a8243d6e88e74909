SPECIFICATION Spec
CONSTANTS
  Requests = {r1, r2}
  Nobody = Nobody
  g1 = g1
  g2 = g2
  g3 = g3
  Claims <- MCClaims
  Asked <- MCAsked
  Stored <- MCStored
  InvitationTtl = 2
  Origins = {Nobody, Opaque, site, elsewhere}
  WidgetOrigins = {Opaque, site}
  Opaque = Opaque
  AccessTtl = 3
  WidgetTtl = 2
  Horizon = 4
SYMMETRY Alike
CONSTRAINT OneStoreAtATime
INVARIANTS MembershipIsByInvitation HandlersGetTheirPrincipal RevocationIsImmediate OneContactPerSession
PROPERTIES GoogleLinkIsOneWay GrantIsHonoured
CHECK_DEADLOCK FALSE
