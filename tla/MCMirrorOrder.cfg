\* A legacy and a Token-2022 token; one trigger waits at a time.
CONSTANTS
  m1 = m1
  m2 = m2
  w1 = w1
  w2 = w2
  Us = Us
  Mints = {m1, m2}
  Followed = {w1, w2}
  TokenProgramOf <- MCPrograms
  Cashback = {m2}
  Transactions <- MCTransactions
  MaxTriggers = 1
SPECIFICATION Spec
CHECK_DEADLOCK FALSE
INVARIANT BuyIsOurs
INVARIANT SaleMatchesBuy
INVARIANT TokensAreFound
INVARIANT PrefetchedIsWatched
