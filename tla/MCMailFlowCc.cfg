CONSTANTS
  s1 = s1
  s2 = s2
  w1 = w1
  w2 = w2
  Sessions = {s1, s2}
  Jobs = {1, 2}
  Addrs <- MCAddrs
  Mailboxes = {1, 2}
  Alias <- MCAlias
  MAX_ALIAS_HOPS = 2
  Elsewhere = Elsewhere
  Nowhere = Nowhere
  Rejects = {2}
  MaxRcpts = 2
  MaxTries = 2
  MaxFaults = 1
  None = None
  Workers = {w1, w2}
  Msgs = {1, 2, 3, 4}
  To <- MCTo
  Cc <- MCCc
  Limit = 2
  ObjectStore = FALSE
  Mishaps = 1
  NoMsg = NoMsg
  Loads <- MCLoads
SPECIFICATION Spec
CHECK_DEADLOCK FALSE
INVARIANT AllAddresseesSent
