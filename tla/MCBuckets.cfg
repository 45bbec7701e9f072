CONSTANTS
  a1 = a1
  a2 = a2
  a3 = a3
  a4 = a4
  h1 = h1
  h2 = h2
  NoAddr = NoAddr
  Addrs <- Four
  Hashes <- MCHashes
  HashOf <- HashOfFour
  MaxBuckets = 3
  Burst = 1
  AuthBurst = 1
  Period = 1
  OutPeriod = 1
  HalfInt = 2
  ClockStepsBack = TRUE
  MaxTime = 3
SPECIFICATION Spec
INVARIANTS ChainsOK OneBucketPerAddress
SYMMETRY AlikeOfFour
CHECK_DEADLOCK FALSE
