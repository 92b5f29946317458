CONSTANTS
  Clients = {c1, c2}
  Tokens = {t1, t2}
  NoToken = NoToken
  None = None
  TTL = 1
  MaxTime = 1
SPECIFICATION FairSpec
INVARIANTS ConflictNamesBlocker
PROPERTIES LockNotStolen PutAdmittedUnlocked RequestsAnswered
