\* Leaving while reports of every length come and go on their own, one more than slots.
\* Messages and threads of a run are bounded: it may stop.
SPECIFICATION Spec
CONSTANTS
  NumReports = 3
  MaxReport = 2
  NumThreads = 2
  MaxMessages = 3
  MaxPayload = 2
  Retries = 1
  Metadata <- Telemetry
  Lengths <- AnyLength
  Messages <- CreateAndLeave
  OthersStop = FALSE
  Prompt = TRUE
  Reuse = FALSE
  AtomicCount = TRUE
INVARIANT TypeOK CountNotLow
PROPERTY LeaveIsComplete LeaveAnswers
CHECK_DEADLOCK FALSE
