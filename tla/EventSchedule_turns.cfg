\* Messages with every kind of event and opt commands, one after the other.
\* Time, messages and commands are bounded: the run stops.
SPECIFICATION Spec
CONSTANTS
  EventIds = {1, 2}
  OptIds = {1}
  ScheduleFrom <- From
  ScheduleTo <- To
  Mods = {0, 1}
  Starts = {1, 3}
  Durations = {0, 1, 2}
  Kinds <- EventKinds
  HmiCommands <- OptOuts
  Overrides = {FALSE, TRUE}
  ExchangeFails = FALSE
  ScanRace = FALSE
  TakeTurns = TRUE
  MaxPayload = 2
  MaxTime = 3
  MaxMessages = 2
  MaxCommands = 1
  NoRow = NoRow
INVARIANT TypeOK Disjoint VtnKnowsOpt
PROPERTY ModNotLower 
CHECK_DEADLOCK FALSE
