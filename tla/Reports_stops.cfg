\* Reports are created, run and are cancelled, while a METADATA report stops the others
\* and another service is stopped through the same notifier.
\* Messages and threads of a run are bounded: it may stop.
SPECIFICATION Spec
CONSTANTS
  NumReports = 2
  MaxReport = 2
  NumThreads = 3
  MaxMessages = 3
  MaxPayload = 1
  Retries = 1
  Metadata <- AnyKind
  Lengths <- OnceOrEndless
  Messages <- CreateAndCancel
  OthersStop = TRUE
  Prompt = TRUE
  Reuse = FALSE
  AtomicCount = FALSE
INVARIANT SlotsDistinct Cancellable
CHECK_DEADLOCK FALSE
