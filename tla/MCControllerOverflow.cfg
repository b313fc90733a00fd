\* Durations in units of 2^40 ns (about 18 minutes): a base of 8 units is
\* --reconcile-backoff-base=2h26m36.1s, and int64 nanoseconds have 24 bits left.
CONSTANTS
  Interval = 1
  BackoffBase = 8
  BackoffMax = 16
  HalfWord = 8388608
  MaxErrors = 22
  MaxFiring = 1
SPECIFICATION Spec
INVARIANTS
  BackoffBounded
