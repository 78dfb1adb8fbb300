\* Leaving while the VTN reschedules and the user overrides: three callers of waitNotifier.
\* The threads of a run are bounded: it may stop.
SPECIFICATION Spec
CONSTANTS
  Commands <- Leave
  Messages = {"reschedule"}
  UseOverride = TRUE
  NumPolls = 1
  NumEvents = 1
  NumSignals = 1
  MaxBatch = 1
  MaxIntervals = 1
  MaxSignal = 2
  Retries = 1
  Kinds <- Sheds
  PromptStart = TRUE
  ReadRace = FALSE
INVARIANT TypeOK NotifierOwned 
PROPERTY CancelLeavesNothing
CHECK_DEADLOCK FALSE
