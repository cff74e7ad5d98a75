CONSTANTS
  d1 = d1
  d2 = d2
  t1 = t1
  t2 = t2
  Daemons = {d1, d2}
  Wrong = {d2}
  Tokens = {t1, t2}
  TokenDraws <- SameOrNot
  Torn = {TRUE, FALSE}
  Conns = {1, 2, 3, 4, 5, 6, 7, 8, 9, 10, 11, 12}
  By <- Owner
  As <- Purpose
  NoConn = 0
  Noise = Noise
  MaxBreaks = 2
  MaxTorn = 1
SPECIFICATION FairSpec
INVARIANT TypeOK
INVARIANT TokensListedOnce
INVARIANT OneUser
INVARIANT OnlyWithPassword
INVARIANT PairsMatch
INVARIANT NothingStale
INVARIANT SocketsKnown
PROPERTY EveryDaemonPaired
CHECK_DEADLOCK FALSE
