\* The HMI, other scans and the event thread during a message.
\* Time, messages and commands are bounded: the run stops.
SPECIFICATION Spec
CONSTANTS
  EventIds = {1, 2}
  OptIds = {1}
  ScheduleFrom <- From
  ScheduleTo <- To
  Mods = {0}
  Starts = {1, 4}
  Durations = {0, 2}
  Kinds <- JustValid
  HmiCommands <- AllCommands
  Overrides = {FALSE, TRUE}
  ExchangeFails = TRUE
  ScanRace = TRUE
  TakeTurns = FALSE
  MaxPayload = 2
  MaxTime = 2
  MaxMessages = 2
  MaxCommands = 2
  NoRow = NoRow
INVARIANT  Disjoint
CHECK_DEADLOCK FALSE
