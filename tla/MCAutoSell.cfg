\* Two signals race; the confirmer gives up later than the fallback checks.
CONSTANTS
  SellTasks = {t1, t2}
  Bought = 1
  MaxAttempts = 2
  MaxRetries = 2
  ConfirmTimeout = 1
  ConfirmLimit = 2
  PurgeAge = 3
  MaxHold = 2
  BuyExpiry = 3
  Horizon = 3
  MaxLate = 1
SPECIFICATION FairSpec
INVARIANT TypeOK
INVARIANT SellExclusive
INVARIANT ActiveMeansBought
INVARIANT AttemptsBounded
PROPERTY KeepsContract
PROPERTY SalesRunDown
PROPERTY SellingEnds
PROPERTY PositionEnds
CHECK_DEADLOCK FALSE
