CONSTANTS
  a = a
  b = b
  c = c
  Addresses <- MCAddresses
  Lan <- MCLan
  MaxChallenges = 2
  Timeout = 1
  MessageChallenges = 1
  Cracked = FALSE
  MaxCreated = 3
  MaxTime = 3
SPECIFICATION FairSpec
INVARIANTS TypeOK
PROPERTIES MessageFirst AnsweredInTime SurvivesFlood 
CHECK_DEADLOCK FALSE
