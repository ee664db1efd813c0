\* The buy is confirmed while the fallback waits for the balance.
CONSTANTS
  SellTasks = {t1, t2}
  Bought = 1
  MaxAttempts = 2
  MaxRetries = 2
  ConfirmTimeout = 1
  ConfirmLimit = 2
  PurgeAge = 3
  MaxHold = 2
  BuyExpiry = 4
  Horizon = 4
  MaxLate = 1
SPECIFICATION Spec
PROPERTY FallbackFailsOnlyUnconfirmed
CHECK_DEADLOCK FALSE
