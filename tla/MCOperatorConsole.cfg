\* Three updates, so that a batch of two is handled before a third comes.
CONSTANTS
  token = token
  w1 = w1
  w2 = w2
  Commands <- MCCommands
  Configured <- MCConfigured
  MaxUpdates = 3
  MaxNotices = 1
  MaxRestarts = 1
SPECIFICATION FairSpec
CHECK_DEADLOCK FALSE
INVARIANT HandledOnceInOrder
INVARIANT NothingForgottenUnhandled
INVARIANT LastWordCounts
PROPERTY CommandIsHandled
PROPERTY KeepsContract
