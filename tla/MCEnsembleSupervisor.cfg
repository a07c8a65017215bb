CONSTANTS
  NumSentants = 2
  Callers = {c1, c2}
  Tasks = {1, 2}
  Strategies = {"one_for_one", "rest_for_one"}
  Cap = 2
  Period = 1
  Base = 1
  MaxDelay = 1
  MaxCrashes = 3
  MaxResets = 1
  None = None
SPECIFICATION Spec
SYMMETRY Symmetry
CONSTRAINT ThreeDisturbances
INVARIANTS
  TypeOK
  GatesAreLifted
  PanickedAreRebuilt
  
  SettledIsNotDegraded
