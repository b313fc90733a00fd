-------------------------- MODULE ControllerProofs --------------------------
(***************************************************************************)
(* Proofs about Controller.tla for every configuration of durations and    *)
(* every bound.                                                            *)
(***************************************************************************)
EXTENDS Controller, TLAPS

\* A notified change that no cycle has read yet has a signal under way, unless
\* a cycle has begun and not read the source, or failed and will be retried.
\* NoLostWakeup alone is not inductive: a cycle that has read the source clears
\* the error count when it succeeds, so a change notified after that read may
\* not count on the retry.
Token ==
  /\ loop = "read" /\ notified => SignalPending
  /\ loop = "select" /\ notified => SignalPending \/ consecutiveErrors > 0

\* The inductive invariant.
WakeupInv == TypeOK /\ NeverStranded /\ Token

-----------------------------------------------------------------------------
\* The shifts that backoffDuration makes, 1 << 0 to 1 << 20.
LEMMA PowerBounds == ASSUME NEW k \in 0 .. 20 PROVE 2^k \in 1 .. 2^20
<1>1. /\ 2^0 \in 1 .. 2^20 /\ 2^1 \in 1 .. 2^20 /\ 2^2 \in 1 .. 2^20 /\ 2^3 \in 1 .. 2^20
       /\ 2^4 \in 1 .. 2^20 /\ 2^5 \in 1 .. 2^20 /\ 2^6 \in 1 .. 2^20 /\ 2^7 \in 1 .. 2^20
       /\ 2^8 \in 1 .. 2^20 /\ 2^9 \in 1 .. 2^20 /\ 2^10 \in 1 .. 2^20 /\ 2^11 \in 1 .. 2^20
       /\ 2^12 \in 1 .. 2^20 /\ 2^13 \in 1 .. 2^20 /\ 2^14 \in 1 .. 2^20 /\ 2^15 \in 1 .. 2^20
       /\ 2^16 \in 1 .. 2^20 /\ 2^17 \in 1 .. 2^20 /\ 2^18 \in 1 .. 2^20 /\ 2^19 \in 1 .. 2^20
       /\ 2^20 \in 1 .. 2^20
  BY SMT
<1>2. \/ k = 0 \/ k = 1 \/ k = 2 \/ k = 3 \/ k = 4 \/ k = 5 \/ k = 6
       \/ k = 7 \/ k = 8 \/ k = 9 \/ k = 10 \/ k = 11 \/ k = 12 \/ k = 13
       \/ k = 14 \/ k = 15 \/ k = 16 \/ k = 17 \/ k = 18 \/ k = 19 \/ k = 20
  BY SMT
<1> QED
  BY <1>1, <1>2, Zenon

\* The shift is in range for every failure count.
LEMMA ShiftBounds ==
  ASSUME NEW n \in Nat
  PROVE  (IF n < 1 THEN 0 ELSE Least(n - 1, 20)) \in 0 .. 20
  BY SMT DEF Least

\* Machine arithmetic stays in its word.
LEMMA WrapType == ASSUME NEW x \in Int PROVE Wrap(x) \in Int
  BY DurationAssumption DEF Wrap

\* ... and is exact on what fits.
LEMMA WrapExact == ASSUME NEW x \in 0 .. HalfWord - 1 PROVE Wrap(x) = x
  BY DurationAssumption DEF Wrap

\* backoffDuration returns a duration for every failure count.
LEMMA BackoffType == ASSUME NEW n \in Nat PROVE backoffDuration(n) \in Int
<1> DEFINE shift == IF n < 1 THEN 0 ELSE Least(n - 1, 20)
<1>1. shift \in 0 .. 20
  BY ShiftBounds
<1>2. 2^shift \in 1 .. 2^20
  BY <1>1, PowerBounds, Zenon
<1> HIDE DEF shift
<1>3. BackoffBase * 2^shift \in Int
  BY <1>2, DurationAssumption, SMT
<1>4. Wrap(BackoffBase * 2^shift) \in Int
  BY <1>3, WrapType, Zenon
<1> QED
  BY <1>4, DurationAssumption DEF backoffDuration, shift

-----------------------------------------------------------------------------
\* The invariant holds when Run starts its loop.
LEMMA WakeupInit == Init => WakeupInv
<1> SUFFICES ASSUME Init PROVE WakeupInv
  OBVIOUS
<1>1. TypeOK
  <2>1. delay \in Int /\ consecutiveErrors \in Nat /\ firing \in Nat /\ reconcileCh \in 0 .. 1
    BY SMT DEF Init
  <2>2. /\ loop \in {"select", "begun", "read", "returned"}
        /\ nextTimer \in {"armed", "fired", "stopped"}
    BY Zenon DEF Init
  <2>3. /\ debounceTimer \in {"idle", "armed"}
        /\ once \in BOOLEAN /\ cancelled \in BOOLEAN /\ ready \in BOOLEAN
        /\ notified \in BOOLEAN /\ changed \in BOOLEAN
    BY Zenon DEF Init
  <2> QED
    BY <2>1, <2>2, <2>3, Zenon DEF TypeOK
<1>2. NeverStranded
  BY DEF Init, NeverStranded
<1>3. Token
  BY DEF Init, Token
<1> QED
  BY <1>1, <1>2, <1>3 DEF WakeupInv

\* Every step of the loop, the handler, the timers and the environment keeps it.
LEMMA WakeupNext == WakeupInv /\ [Next]_vars => WakeupInv'
<1> SUFFICES ASSUME WakeupInv, [Next]_vars PROVE WakeupInv'
  OBVIOUS
<1>1. CASE TakeTick
  BY <1>1 DEF WakeupInv, TypeOK, NeverStranded, Token, SignalPending, TakeTick
<1>2. CASE TakeSignal
  BY <1>2 DEF WakeupInv, TypeOK, NeverStranded, Token, SignalPending, TakeSignal
<1>3. CASE Return
  BY <1>3 DEF WakeupInv, TypeOK, NeverStranded, Token, SignalPending, Return
<1>4. CASE ReadSource
  BY <1>4 DEF WakeupInv, TypeOK, NeverStranded, Token, SignalPending, ReadSource
<1>5. CASE Succeed
  BY <1>5, DurationAssumption DEF WakeupInv, TypeOK, NeverStranded, Token, SignalPending, Succeed, Reset
<1>6. CASE Fail
  BY <1>6, BackoffType DEF WakeupInv, TypeOK, NeverStranded, Token, SignalPending, Fail, Reset
<1>7. CASE HandleEvent
  BY <1>7 DEF WakeupInv, TypeOK, NeverStranded, Token, SignalPending, HandleEvent
<1>8. CASE SilentChange
  BY <1>8 DEF WakeupInv, TypeOK, NeverStranded, Token, SignalPending, SilentChange
<1>9. CASE DebounceFires
  BY <1>9 DEF WakeupInv, TypeOK, NeverStranded, Token, SignalPending, DebounceFires
<1>10. CASE Signal
  BY <1>10 DEF WakeupInv, TypeOK, NeverStranded, Token, SignalPending, Signal
<1>11. CASE TickFires
  BY <1>11 DEF WakeupInv, TypeOK, NeverStranded, Token, SignalPending, TickFires
<1>12. CASE Cancel
  BY <1>12 DEF WakeupInv, TypeOK, NeverStranded, Token, SignalPending, Cancel
<1>13. CASE UNCHANGED vars
  BY <1>13 DEF WakeupInv, TypeOK, NeverStranded, Token, SignalPending, vars
<1> QED
  BY <1>1, <1>2, <1>3, <1>4, <1>5, <1>6, <1>7, <1>8, <1>9, <1>10, <1>11, <1>12, <1>13 DEF Next

\* The invariant holds in every reachable state.
LEMMA WakeupInvariant == Spec => []WakeupInv
  BY WakeupInit, WakeupNext, PTL DEF Spec

\* Type correctness of the controller's state, whatever the configuration.
THEOREM ControllerTypeOK == Spec => []TypeOK
<1>1. WakeupInv => TypeOK
  BY DEF WakeupInv
<1> QED
  BY <1>1, WakeupInvariant, PTL

\* While Run waits in select its timer is set, although taking a Docker event
\* stops it and only the end of the cycle sets it again.
THEOREM ControllerNeverStranded == Spec => []NeverStranded
<1>1. WakeupInv => NeverStranded
  BY DEF WakeupInv
<1> QED
  BY <1>1, WakeupInvariant, PTL

\* No change the handler was told about is forgotten, for any number of
\* debounce callbacks and failures.
THEOREM ControllerNoLostWakeup == Spec => []NoLostWakeup
<1>1. WakeupInv => NoLostWakeup
  BY DEF WakeupInv, TypeOK, NeverStranded, Token, NoLostWakeup
<1> QED
  BY <1>1, WakeupInvariant, PTL

-----------------------------------------------------------------------------
\* The cap on the shift prevents overflow for the bases it was meant for: one
\* whose 2^20-fold fits the word (in nanoseconds, up to about 2 h 26 min).
BaseFits == BackoffBase * 2^20 < HalfWord

\* For such a base every backoff lies between the base and the maximum.
LEMMA BackoffRange ==
  ASSUME BaseFits, NEW n \in Nat
  PROVE  /\ Least(BackoffBase, BackoffMax) <= backoffDuration(n)
         /\ backoffDuration(n) <= BackoffMax
<1> DEFINE shift == IF n < 1 THEN 0 ELSE Least(n - 1, 20)
<1>1. shift \in 0 .. 20
  BY ShiftBounds
<1>2. 2^shift \in 1 .. 2^20
  BY <1>1, PowerBounds, Zenon
<1> HIDE DEF shift
<1>3. /\ BackoffBase * 2^shift \in 0 .. HalfWord - 1
      /\ BackoffBase <= BackoffBase * 2^shift
  BY <1>2, DurationAssumption, SMT DEF BaseFits
<1>4. Wrap(BackoffBase * 2^shift) = BackoffBase * 2^shift
  BY <1>3, WrapExact, Zenon
<1>5. backoffDuration(n) =
        IF BackoffBase * 2^shift > BackoffMax THEN BackoffMax ELSE BackoffBase * 2^shift
  BY <1>4, Zenon DEF backoffDuration, shift
<1> QED
  BY <1>3, <1>5, DurationAssumption, SMT DEF Least

\* Between failures the loop waits at least the base and at most the maximum,
\* after any number of failures, provided the base fits.
THEOREM ControllerBackoffBounded == ASSUME BaseFits PROVE Spec => []BackoffBounded
<1>1. Init => BackoffBounded
  BY DEF Init, BackoffBounded
<1>2. TypeOK /\ BackoffBounded /\ [Next]_vars => BackoffBounded'
  <2> SUFFICES ASSUME TypeOK, BackoffBounded, [Next]_vars PROVE BackoffBounded'
    OBVIOUS
  <2>1. CASE Fail
    BY <2>1, BackoffRange DEF Fail, Reset, BackoffBounded, TypeOK
  <2>2. CASE Succeed
    BY <2>2 DEF Succeed, Reset, BackoffBounded
  <2>3. CASE TakeTick \/ TakeSignal \/ Return \/ ReadSource
    BY <2>3 DEF TakeTick, TakeSignal, Return, ReadSource, BackoffBounded
  <2>4. CASE HandleEvent \/ SilentChange \/ DebounceFires \/ Signal \/ TickFires \/ Cancel
    BY <2>4 DEF HandleEvent, SilentChange, DebounceFires, Signal, TickFires, Cancel,
                BackoffBounded
  <2>5. CASE UNCHANGED vars
    BY <2>5 DEF vars, BackoffBounded
  <2> QED
    BY <2>1, <2>2, <2>3, <2>4, <2>5 DEF Next
<1> QED
  BY <1>1, <1>2, ControllerTypeOK, PTL DEF Spec

\* One more shift never shrinks the power.
LEMMA PowerGrows == ASSUME NEW k \in 0 .. 19 PROVE 2^k <= 2^(k + 1)
<1>1. /\ 2^0 <= 2^1 /\ 2^1 <= 2^2 /\ 2^2 <= 2^3 /\ 2^3 <= 2^4 /\ 2^4 <= 2^5
       /\ 2^5 <= 2^6 /\ 2^6 <= 2^7 /\ 2^7 <= 2^8 /\ 2^8 <= 2^9 /\ 2^9 <= 2^10
       /\ 2^10 <= 2^11 /\ 2^11 <= 2^12 /\ 2^12 <= 2^13 /\ 2^13 <= 2^14
       /\ 2^14 <= 2^15 /\ 2^15 <= 2^16 /\ 2^16 <= 2^17 /\ 2^17 <= 2^18
       /\ 2^18 <= 2^19 /\ 2^19 <= 2^20
  BY SMT
<1>2. /\ 0 + 1 = 1 /\ 1 + 1 = 2 /\ 2 + 1 = 3 /\ 3 + 1 = 4 /\ 4 + 1 = 5 /\ 5 + 1 = 6
       /\ 6 + 1 = 7 /\ 7 + 1 = 8 /\ 8 + 1 = 9 /\ 9 + 1 = 10 /\ 10 + 1 = 11
       /\ 11 + 1 = 12 /\ 12 + 1 = 13 /\ 13 + 1 = 14 /\ 14 + 1 = 15 /\ 15 + 1 = 16
       /\ 16 + 1 = 17 /\ 17 + 1 = 18 /\ 18 + 1 = 19 /\ 19 + 1 = 20
  BY SMT
<1>3. \/ k = 0 \/ k = 1 \/ k = 2 \/ k = 3 \/ k = 4 \/ k = 5 \/ k = 6 \/ k = 7
       \/ k = 8 \/ k = 9 \/ k = 10 \/ k = 11 \/ k = 12 \/ k = 13 \/ k = 14
       \/ k = 15 \/ k = 16 \/ k = 17 \/ k = 18 \/ k = 19
  BY SMT
<1> QED
  BY <1>1, <1>2, <1>3, Zenon

\* What backoffDuration computes for a base that fits: no wrapping.
LEMMA BackoffExact ==
  ASSUME BaseFits, NEW n \in Nat \ {0}
  PROVE  LET p == 2^Least(n - 1, 20)
         IN  /\ Least(n - 1, 20) \in 0 .. 20
             /\ p \in 1 .. 2^20
             /\ backoffDuration(n) =
                  IF BackoffBase * p > BackoffMax THEN BackoffMax ELSE BackoffBase * p
<1> DEFINE shift == Least(n - 1, 20)
<1>1. shift \in 0 .. 20
  BY SMT DEF Least
<1>2. 2^shift \in 1 .. 2^20
  BY <1>1, PowerBounds, Zenon
<1>3. shift = IF n < 1 THEN 0 ELSE Least(n - 1, 20)
  BY SMT
<1> HIDE DEF shift
<1>4. BackoffBase * 2^shift \in 0 .. HalfWord - 1
  BY <1>2, DurationAssumption, SMT DEF BaseFits
<1>5. Wrap(BackoffBase * 2^shift) = BackoffBase * 2^shift
  BY <1>4, WrapExact, Zenon
<1>6. backoffDuration(n) =
        IF BackoffBase * 2^shift > BackoffMax THEN BackoffMax ELSE BackoffBase * 2^shift
  BY <1>3, <1>5, Zenon DEF backoffDuration
<1> QED
  BY <1>1, <1>2, <1>6, Zenon DEF shift

\* backoffDuration grows with the number of failures.
LEMMA BackoffMonotone ==
  ASSUME BaseFits, NEW n \in Nat \ {0}
  PROVE  backoffDuration(n) <= backoffDuration(n + 1)
<1> DEFINE m == n + 1
           p == 2^Least(n - 1, 20)
           q == 2^Least(m - 1, 20)
<1>1. m \in Nat \ {0} /\ m = n + 1
  BY SMT
<1> HIDE DEF m
<1>2. /\ p \in 1 .. 2^20
      /\ backoffDuration(n) = IF BackoffBase * p > BackoffMax THEN BackoffMax ELSE BackoffBase * p
  BY BackoffExact, Zenon
<1>3. /\ q \in 1 .. 2^20
      /\ backoffDuration(m) =
           IF BackoffBase * q > BackoffMax THEN BackoffMax ELSE BackoffBase * q
  BY <1>1, BackoffExact, Zenon
<1>4. p <= q
  <2>1. CASE n < 21
    <3>1. n - 1 \in 0 .. 19
      BY <2>1, SMT
    <3>2. Least(n - 1, 20) = n - 1 /\ Least(m - 1, 20) = (n - 1) + 1
      BY <1>1, <2>1, SMT DEF Least
    <3>3. 2^(n - 1) <= 2^((n - 1) + 1)
      BY <3>1, PowerGrows, Zenon
    <3> QED
      BY <3>2, <3>3, Zenon
  <2>2. CASE ~(n < 21)
    <3>1. Least(n - 1, 20) = 20 /\ Least(m - 1, 20) = 20
      BY <1>1, <2>2, SMT DEF Least
    <3>2. p = q
      BY <3>1, Zenon
    <3> QED
      BY <1>2, <1>3, <3>2, SMT
  <2> QED
    BY <2>1, <2>2, Zenon
<1> HIDE DEF p, q
<1>5. p \in Nat /\ q \in Nat /\ BackoffBase \in Nat /\ BackoffMax \in Nat
  BY <1>2, <1>3, DurationAssumption, SMT
<1>6. BackoffBase * p <= BackoffBase * q
  BY <1>4, <1>5, SMT
<1> QED
  BY <1>1, <1>2, <1>3, <1>5, <1>6, SMT

\* While failures are counted the timer was last set by the last of them: no
\* other step sets it without clearing the count.
LastDelay == consecutiveErrors > 0 => delay = backoffDuration(consecutiveErrors)

\* Another failure in a row never shortens the wait, after any number of
\* failures, provided the base fits.
THEOREM ControllerBackoffGrows == ASSUME BaseFits PROVE Spec => BackoffGrows
<1> DEFINE Grows == consecutiveErrors' > consecutiveErrors /\ consecutiveErrors > 0
                      => delay' >= delay
<1>1. Init => LastDelay
  BY SMT DEF Init, LastDelay
<1>2. TypeOK /\ LastDelay /\ [Next]_vars => LastDelay'
  <2> SUFFICES ASSUME TypeOK, LastDelay, [Next]_vars PROVE LastDelay'
    OBVIOUS
  <2>1. CASE Fail
    BY <2>1 DEF Fail, Reset, LastDelay, TypeOK
  <2>2. CASE Succeed
    BY <2>2 DEF Succeed, Reset, LastDelay
  <2>3. CASE TakeTick \/ TakeSignal \/ Return \/ ReadSource
    BY <2>3 DEF TakeTick, TakeSignal, Return, ReadSource, LastDelay
  <2>4. CASE HandleEvent \/ SilentChange \/ DebounceFires \/ Signal \/ TickFires \/ Cancel
    BY <2>4 DEF HandleEvent, SilentChange, DebounceFires, Signal, TickFires, Cancel, LastDelay
  <2>5. CASE UNCHANGED vars
    BY <2>5 DEF vars, LastDelay
  <2> QED
    BY <2>1, <2>2, <2>3, <2>4, <2>5 DEF Next
<1>3. TypeOK /\ LastDelay /\ [Next]_vars => [Grows]_vars
  <2> SUFFICES ASSUME TypeOK, LastDelay, [Next]_vars,
                      consecutiveErrors' > consecutiveErrors, consecutiveErrors > 0
               PROVE  delay' >= delay
    BY DEF TypeOK
  <2>1. CASE Fail
    <3>1. /\ consecutiveErrors \in Nat \ {0}
          /\ delay' = backoffDuration(consecutiveErrors + 1)
          /\ delay = backoffDuration(consecutiveErrors)
      BY <2>1, SMT DEF Fail, Reset, LastDelay, TypeOK
    <3>2. delay <= delay'
      BY <3>1, BackoffMonotone, Zenon
    <3>3. delay \in Int /\ delay' \in Int
      BY <3>1, BackoffType, SMT DEF TypeOK
    <3> QED
      BY <3>2, <3>3, SMT
  <2>2. CASE Succeed
    BY <2>2 DEF Succeed, TypeOK
  <2>3. CASE TakeTick \/ TakeSignal \/ Return \/ ReadSource
    BY <2>3 DEF TakeTick, TakeSignal, Return, ReadSource, TypeOK
  <2>4. CASE HandleEvent \/ SilentChange \/ DebounceFires \/ Signal \/ TickFires \/ Cancel
    BY <2>4 DEF HandleEvent, SilentChange, DebounceFires, Signal, TickFires, Cancel, TypeOK
  <2>5. CASE UNCHANGED vars
    BY <2>5 DEF vars, TypeOK
  <2> QED
    BY <2>1, <2>2, <2>3, <2>4, <2>5 DEF Next
<1> QED
  BY <1>1, <1>2, <1>3, ControllerTypeOK, PTL DEF Spec, BackoffGrows

=============================================================================
