\* Small reserves: one lamport matters. The slippage of 2000 bps is 4 lamports:
\* one for rounding and three for the fee of 1000 bps.
SPECIFICATION FairSpec
CONSTANTS
  Curves <- MCCurves
  BaseCurve <- MCBaseCurve
  BuyConfig = 20
  BuySettings = {40}
  Slippage = 2000
  RulesConfig <- MCRulesConfig
  RuleSets <- MCRuleSets
  Targets <- MCTargets
  FeeBps = 1000
  AssumedSol = 300
  MaxTargetSol = 60
  Tip = 1
  Channels = {c1, c2}
  MaxAttempts = 1
  MaxMoves = 2
  MaxEvents = 1
  MaxSignals = 1
INVARIANT HighWater
INVARIANT FreshQuoteLands
PROPERTY CorrectionIsFinal
PROPERTY ExitsMatchCost
PROPERTY LossIsSignalled
CHECK_DEADLOCK FALSE
