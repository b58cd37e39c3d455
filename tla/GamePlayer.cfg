SPECIFICATION PlayerSpec
CONSTANTS
  Colors = {red, green}
  GuessSize = 2
  MaxTrials = 3
  NoEnd = noend
  Nothing = nothing
  MaxResend = 2
  MaxCommands = 5
INVARIANTS PlayerTypeOK TriesCountOnce Agreement ToldTheTruth
PROPERTY CommandsReturn
CHECK_DEADLOCK FALSE
