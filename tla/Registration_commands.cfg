\* Every command of the HMI, a VTN with orders of its own, lost messages and a restart.
\* Commands, orders and registrations are bounded: the run stops.
SPECIFICATION Spec
CONSTANTS
  Commands <- AllCommands
  Orders = {"rereg", "leave"}
  MaxGrants = 3
  MaxCommands = 3
  MaxOrders = 1
  MaxRestarts = 1
INVARIANT TypeOK
PROPERTY  CancelTold  PollsRegistered
CHECK_DEADLOCK FALSE
