CONSTANTS
  a1 = a1
  a2 = a2
  a3 = a3
  a4 = a4
  h1 = h1
  h2 = h2
  NoAddr = NoAddr
  Addrs <- Three
  Hashes <- MCHashes
  HashOf <- HashOfThree
  MaxBuckets = 2
  Burst = 1
  AuthBurst = 2
  Period = 2
  OutPeriod = 1
  HalfInt = 4
  ClockStepsBack = FALSE
  MaxTime = 8
SPECIFICATION Spec
INVARIANTS TypeOK AddressBound GlobalBound RefusedForCause
SYMMETRY AlikeOfThree
CHECK_DEADLOCK FALSE
