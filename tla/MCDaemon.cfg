\* The program with its event stream, a Docker that hangs and both kinds of end,
\* without the periodic tick.
CONSTANTS
  Interval = 60
  BackoffBase = 5
  BackoffMax = 30
  HalfWord = 8388608
  MaxErrors = 2
  MaxFiring = 2
  MaxInbox = 2
  MaxChanges = 3
CHECK_DEADLOCK FALSE
SPECIFICATION EventSpec
INVARIANTS
  DaemonTypeOK
  NoLostEvent
  ExitStatus
PROPERTIES
  ImplementsController
  Exits
  Reconnects
  EventsAreRead
