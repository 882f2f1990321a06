CONSTANTS
  Script = {"layout"}
  MaxCommands = 1
  MaxAnswers = 1
  MaxToasts = 1
SPECIFICATION FairSpec
PROPERTY UsersAreServed
CHECK_DEADLOCK FALSE
