CONSTANTS
  home = home
  away = away
  Cals = {home, away}
  Home = home
  Uids = {u1, u2}
  MaxLives = 2
  ListLimit = 1
  Loads <- MoveLoads
  None = None
SPECIFICATION Spec
PROPERTY MoveKeepsEvent
CHECK_DEADLOCK FALSE
