SPECIFICATION EngineSpec
CONSTANTS
  Names = {"wave", "blink"}
  Modules <- MCModules
  Priorities = {0, 1}
  MaxPlays = 4
  MaxRaises = 2
INVARIANTS
  Stoppable
PROPERTIES
  Released
