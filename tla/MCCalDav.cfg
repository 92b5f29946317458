CONSTANTS
  home = home
  away = away
  Cals = {home, away}
  Home = home
  Uids = {u1, u2}
  MaxLives = 2
  ListLimit = 1
  Loads <- SyncLoads
  None = None
SPECIFICATION FairSpec
INVARIANTS CurrentClientExact ChangesOrdered
PROPERTY SyncCatchesUp
CHECK_DEADLOCK FALSE
