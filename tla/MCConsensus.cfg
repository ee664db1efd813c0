\* One token: entries of different tokens share no state but the channel.
CONSTANTS
  Mints = {m1}
  Wallets = {w1, w2, w3}
  MinWallets = 3
  Timeout = 2
  CleanupPeriod = 1
  MaxQueued = 2
SPECIFICATION FairSpec
INVARIANT PendingBelowQuorum
PROPERTY QuorumIsFresh
PROPERTY SuppressedOneTimeout
PROPERTY ForgottenAfterTwoTimeouts
PROPERTY TriggeredIsForgotten
PROPERTY KeepsContract
