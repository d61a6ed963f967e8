SPECIFICATION FairSpec
CONSTANTS
  Modes = {"pty", "plain", "sftp"}
  Disabled = {TRUE, FALSE}
  NumEnv = 1
  MaxOutput = 2
  MaxResizes = 1
INVARIANTS
  ToldTheTruth
  
PROPERTIES
  AnswersCome
  CommandEnds
CHECK_DEADLOCK FALSE
