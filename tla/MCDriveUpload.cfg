CONSTANTS
  Patches = {1, 2, 3}
  MaxInFlight = 2
  Total = 2
  None = None
SPECIFICATION FairSpec
INVARIANTS NoHoles PromotedOnce PromotedIsAcked CompleteInHand
PROPERTY SessionsEnd
