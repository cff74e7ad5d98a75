CONSTANTS
  d1 = d1
  d2 = d2
  t1 = t1
  t2 = t2
  Daemons = {d1}
  Wrong = {}
  Tokens = {t1, t2}
  TokenDraws <- Different
  Torn = {TRUE}
  Conns = {1, 2, 3, 4, 5, 6, 7, 8}
  By <- Alone
  As <- Purpose
  NoConn = 0
  Noise = Noise
  MaxBreaks = 2
  MaxTorn = 1
SPECIFICATION FairSpec
PROPERTY AlwaysRecovers
CHECK_DEADLOCK FALSE
