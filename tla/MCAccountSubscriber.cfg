\* The two accounts of one token, which two sell tasks may drop at a time.
CONSTANTS
  Mints = {m1}
  MaxDrops = 2
SPECIFICATION FairSpec
INVARIANT GrowthIsSeen
INVARIANT OnlyRpcRestoresCurves
PROPERTY AdditionIsSubscribed
