\* An HMI command while a message is processed.
\* Time, messages and commands are bounded: the run stops.
SPECIFICATION Spec
CONSTANTS
  EventIds = {1}
  OptIds = {1}
  ScheduleFrom <- From
  ScheduleTo <- To
  Mods = {0}
  Starts = {1, 3}
  Durations = {1}
  Kinds <- JustValid
  HmiCommands <- AllCommands
  Overrides = {FALSE}
  ExchangeFails = FALSE
  ScanRace = FALSE
  TakeTurns = FALSE
  MaxPayload = 1
  MaxTime = 3
  MaxMessages = 2
  MaxCommands = 1
  NoRow = NoRow
INVARIANT VtnKnowsOpt
CHECK_DEADLOCK FALSE
