\* One token: tokens share the two channels only.
CONSTANTS
  m1 = m1
  w1 = w1
  w2 = w2
  b1 = b1
  b2 = b2
  b3 = b3
  s1 = s1
  Mints = {m1}
  Wallets = {w1, w2}
  MinWallets = 2
  MaxQueued = 2
  MaxPending = 1
  Trades <- MCTrades
SPECIFICATION FairSpec
INVARIANT BoughtOnce
INVARIANT NoTriggerLost
PROPERTY NothingNewUnwanted
PROPERTY TriggersAreBacked
PROPERTY TriggerIsAnswered
