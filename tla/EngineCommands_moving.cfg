SPECIFICATION StandingSpec
CONSTANTS
  MaxCommands = 2
  Faults = FALSE
PROPERTY OffOnlyWhenStill
