\* One automatic sale against one button at a time; two tokens to share.
CONSTANTS
  SellTasks = {t1}
  Presses = {o1}
  Percents = {50, 100}
  Bought = 2
  MaxAttempts = 1
  MaxRetries = 1
  ConfirmTimeout = 0
  ConfirmLimit = 1
  PurgeAge = 1
  MaxHold = 0
  BuyExpiry = 1
  Horizon = 1
  MaxLate = 1
SPECIFICATION OperatorSpec
INVARIANT NotResoldMeanwhile
INVARIANT ClosedMeansSold
PROPERTY KeepsButtonContract
CHECK_DEADLOCK FALSE
