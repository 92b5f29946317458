CONSTANTS
  Downloads = {d1, d2, d3}
  Caps = {2}
  Ttls = {1}
  MaxTime = 2
  None = None
  Unlimited = Unlimited
SPECIFICATION Spec
INVARIANTS CapHolds
PROPERTIES ImplementsCap DeadLinkNotServed
CHECK_DEADLOCK FALSE
