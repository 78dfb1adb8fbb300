\* Two generations of event threads and disturbed reads; nobody stops the
\* signals.
\* The threads of a run are bounded: it may stop.
SPECIFICATION Spec
CONSTANTS
  Commands <- JustPoll
  Messages = {"distribute"}
  UseOverride = FALSE
  NumPolls = 1
  NumEvents = 2
  NumSignals = 2
  MaxBatch = 1
  MaxIntervals = 2
  MaxSignal = 2
  Retries = 1
  Kinds <- SomeSheds
  PromptStart = TRUE
  ReadRace = TRUE
INVARIANT StatusNotLow ShedOwned
CHECK_DEADLOCK FALSE
