CONSTANTS
  e1 = e1
  e2 = e2
  Errors <- MCErrors
  MaxErrorBuffer = 2
  MaxRaised = 4
SPECIFICATION FairSpec
PROPERTY SavedIsEmitted
