\* The loop with its two timers, events and cancellation, and --once.  Durations in
\* units of 2^40 ns: the largest base whose product with 2^20 fits, and a maximum that
\* only the 21st failure in a row reaches; the 22nd meets the cap on the shift.
CONSTANTS
  Interval = 60
  BackoffBase = 7
  BackoffMax = 7000000
  HalfWord = 8388608
  MaxErrors = 22
  MaxFiring = 2
SPECIFICATION FairSpec
INVARIANTS
  TypeOK
  NoLostWakeup
  NeverStranded
  BackoffBounded
PROPERTIES
  BackoffGrows
  ChangesAreRead
  StopsWhenCancelled
