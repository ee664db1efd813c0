\* Lists that are not a buyer's: a routed trade, a sale, another instruction,
\* and a list with an unresolved lookup table.
CONSTANTS
  m1 = m1
  m2 = m2
  w1 = w1
  w2 = w2
  Us = Us
  Mints = {m1, m2}
  Followed = {w1, w2}
  TokenProgramOf <- MCPrograms
  Cashback = {m2}
  Transactions <- MCUnusual
  MaxTriggers = 1
SPECIFICATION Spec
CHECK_DEADLOCK FALSE
INVARIANT NoForeignAccount
