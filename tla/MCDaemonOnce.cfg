\* One cycle that is cancelled.
CONSTANTS
  Interval = 60
  BackoffBase = 5
  BackoffMax = 30
  HalfWord = 8388608
  MaxErrors = 2
  MaxFiring = 2
  MaxInbox = 2
  MaxChanges = 1
CHECK_DEADLOCK FALSE
SPECIFICATION DaemonSpec
INVARIANTS
  OnceStatus
