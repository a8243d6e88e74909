SPECIFICATION MCSpec
CONSTANTS
  Rooms = {ra, rb, rc}
  RETAIN = 2
  MAX_ROOMS = 2
  MaxSeq = 4
  Watched = ra
  MaxEvents = 4
  MaxUnread = 1
  Nobody = Nobody
  t1 = t1
  t2 = t2
  t3 = t3
  c1 = c1
  c2 = c2
  c3 = c3
  Requester <- MCRequester
  Credentials <- MCCredentials
  Sockets = {s1}
  MaxBroadcasts = 2
INVARIANTS NoSilentLoss ReplayCoversTheCursor EventsReachTheirAudience
PROPERTY FirstSightsAreInOrder
CHECK_DEADLOCK FALSE
