CONSTANTS
  Kinds <- PlayerKinds
  MaxCommands = 3
  MaxEach = 1
  MaxReliable = 2
  MaxServer = 0
  MaxMap = 1
  MaxRestart = 1
  NetMax = 1
  Forged = {}
  MaxSettings = 1
  MaxOccupants = 2
SPECIFICATION PlayerFairSpec
INVARIANT SettingsAreCurrent
PROPERTIES KeepsSettings EntersWorld
CHECK_DEADLOCK FALSE
