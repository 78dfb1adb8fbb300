\* Every HMI command is answered, with a VTN that ends the registration too.
\* The threads of a run are bounded: it may stop.
SPECIFICATION FairSpec
CONSTANTS
  Commands <- Restart
  Messages = {"distribute", "leave"}
  UseOverride = FALSE
  NumPolls = 1
  NumEvents = 1
  NumSignals = 1
  MaxBatch = 1
  MaxIntervals = 1
  MaxSignal = 2
  Retries = 1
  Kinds <- Sheds
  PromptStart = FALSE
  ReadRace = FALSE
 
PROPERTY HmiAnswered
CHECK_DEADLOCK FALSE
