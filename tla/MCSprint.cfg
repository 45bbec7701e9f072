CONSTANTS
  SprintTimes <- MCSprintTimes
  MinTimes <- MCMinTimes
  MaxMsec = 2
SPECIFICATION FairSpec
INVARIANTS TypeOK TimerBounded
PROPERTIES RestBeforeSprint RequestAnswered
