SPECIFICATION FairSpec
CONSTANTS
  TX_RING = 8
  MaxPushed = 20
INVARIANTS TypeOK InOrder RingHoldsUnsent
PROPERTIES PushReturns AllSent
