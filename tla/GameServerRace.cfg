SPECIFICATION Spec
CONSTANTS
  Players = {p1}
  Children = {c1}
  Parent = parent
  Colors = {red, green}
  GuessSize = 1
  MaxTrials = 2
  NoEnd = noend
  None = none
  Durations = {0}
  TopScores = 1
  MaxGames = 2
  MaxTime = 1
  MaxBoot = 2
INVARIANT EndsAreTrue
SYMMETRY Symmetry
CHECK_DEADLOCK FALSE
