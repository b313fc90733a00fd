----------------------------- MODULE Controller -----------------------------
(***************************************************************************)
(* Controller.Run: the loop that decides when reconcile runs.  It selects  *)
(* between the context, one timer (the periodic tick and the backoff) and  *)
(* a one-place channel that a debounce timer signals after Docker events.  *)
(*                                                                         *)
(* Three goroutines meet here: the loop itself, the source's watcher that  *)
(* calls the event handler, and a fresh goroutine for every debounce timer *)
(* that fires, which cannot be called back once it has started.  Timers    *)
(* have no clock: an armed timer may fire at any time.  With the Go        *)
(* version of go.mod, Stop and Reset leave no old tick in a timer's        *)
(* channel.  What reconcile does inside is Reconcile.tla; here it reads    *)
(* the source at some point and succeeds or fails.                         *)
(***************************************************************************)
EXTENDS Integers

CONSTANTS
  Interval,       \* the configured durations, after applyDefaults
  BackoffBase,
  BackoffMax,
  HalfWord,       \* durations are signed words, -HalfWord .. HalfWord - 1
  MaxErrors,      \* bound: consecutive failures
  MaxFiring       \* bound: debounce callbacks started and not yet run

\* The code counts nanoseconds in 64 bits, where HalfWord is 2^63; any unit of
\* 2^k ns with 64 - k bits is the same arithmetic on multiples of the unit.
ASSUME DurationAssumption ==
  /\ HalfWord \in Nat \ {0}
  /\ Interval \in 1 .. HalfWord - 1
  /\ BackoffBase \in 1 .. HalfWord - 1
  /\ BackoffMax \in 1 .. HalfWord - 1
ASSUME BoundAssumption == MaxErrors \in Nat \ {0} /\ MaxFiring \in Nat \ {0}

VARIABLES
  once,               \* the --once flag, fixed when the program starts
  loop,               \* "select", in reconcile before ("begun") or after ("read") the
                      \* source was read, or "returned"
  nextTimer,          \* "armed", "fired" (a tick is waiting) or "stopped"
  delay,              \* the duration nextTimer was last set to
  consecutiveErrors,
  debounceTimer,      \* "idle" or "armed"
  firing,             \* debounce callbacks started that have not sent yet
  reconcileCh,        \* signals in the channel, at most one
  cancelled,          \* the context is done
  ready,
  notified,           \* history: a handler call the source was not read since
  changed             \* history: a container change the source was not read since

vars == <<once, loop, nextTimer, delay, consecutiveErrors, debounceTimer, firing,
          reconcileCh, cancelled, ready, notified, changed>>

-----------------------------------------------------------------------------
\* The value that machine arithmetic keeps of x.
Wrap(x) == ((x + HalfWord) % (2 * HalfWord)) - HalfWord

Least(a, b) == IF a < b THEN a ELSE b

\* Fault injection: the shift grows with the failures.
backoffDuration_ShiftUncapped(n) ==
  LET d == Wrap(BackoffBase * 2^(IF n < 1 THEN 0 ELSE n - 1))
  IN  IF d > BackoffMax THEN BackoffMax ELSE d

\* Fault injection: at the maximum the backoff starts over.
backoffDuration_StartsOver(n) ==
  LET d == Wrap(BackoffBase * 2^(IF n < 1 THEN 0 ELSE Least(n - 1, 20)))
  IN  IF d > BackoffMax THEN BackoffBase ELSE d

backoffDuration(n) ==
  LET shift == IF n < 1 THEN 0 ELSE Least(n - 1, 20)
      d == Wrap(BackoffBase * 2^shift)
  IN  IF d > BackoffMax THEN BackoffMax ELSE d

-----------------------------------------------------------------------------
\* Run with once starts with the cycle, Run without it with a timer of 0.
Init ==
  /\ once \in BOOLEAN
  /\ loop = IF once THEN "begun" ELSE "select"
  /\ nextTimer = IF once THEN "stopped" ELSE "armed"
  /\ delay = 0
  /\ consecutiveErrors = 0
  /\ debounceTimer = "idle"
  /\ firing = 0
  /\ reconcileCh = 0
  /\ cancelled = FALSE
  /\ ready = FALSE
  /\ notified = FALSE
  /\ changed = TRUE

-----------------------------------------------------------------------------
(* The loop. *)

\* case <-nextTimer.C
TakeTick ==
  /\ loop = "select"
  /\ nextTimer = "fired"
  /\ nextTimer' = "stopped"
  /\ loop' = "begun"
  /\ UNCHANGED <<once, delay, consecutiveErrors, debounceTimer, firing, reconcileCh, cancelled,
                 ready, notified, changed>>

\* case <-reconcileCh: the pending tick is cancelled, fired or not.
TakeSignal ==
  /\ loop = "select"
  /\ reconcileCh = 1
  /\ reconcileCh' = 0
  /\ nextTimer' = "stopped"
  /\ loop' = "begun"
  /\ UNCHANGED <<once, delay, consecutiveErrors, debounceTimer, firing, cancelled, ready,
                 notified, changed>>

\* Fault injection: the context is only looked at after a failed cycle.
Return_OnlyAfterError ==
  /\ loop = "select"
  /\ cancelled
  /\ consecutiveErrors > 0
  /\ nextTimer' = "stopped"
  /\ loop' = "returned"
  /\ UNCHANGED <<once, delay, consecutiveErrors, debounceTimer, firing, reconcileCh, cancelled,
                 ready, notified, changed>>

\* case <-ctx.Done(), with the deferred Stop of the timer.
Return ==
  /\ loop = "select"
  /\ cancelled
  /\ nextTimer' = "stopped"
  /\ loop' = "returned"
  /\ UNCHANGED <<once, delay, consecutiveErrors, debounceTimer, firing, reconcileCh, cancelled,
                 ready, notified, changed>>

\* reconcile reads the source.
ReadSource ==
  /\ loop = "begun"
  /\ loop' = "read"
  /\ notified' = FALSE
  /\ changed' = FALSE
  /\ UNCHANGED <<once, nextTimer, delay, consecutiveErrors, debounceTimer, firing, reconcileCh,
                 cancelled, ready>>

\* nextTimer.Reset(d)
Reset(d) == nextTimer' = "armed" /\ delay' = d

\* Fault injection: success does not set the timer again.
Succeed_NoReset ==
  /\ loop = "read"
  /\ ready' = TRUE
  /\ consecutiveErrors' = 0
  /\ loop' = IF once THEN "returned" ELSE "select"
  /\ UNCHANGED <<once, nextTimer, delay, debounceTimer, firing, reconcileCh, cancelled,
                 notified, changed>>

\* reconcile returns nil.
Succeed ==
  /\ loop = "read"
  /\ ready' = TRUE
  /\ consecutiveErrors' = 0
  /\ IF once
       THEN loop' = "returned" /\ UNCHANGED <<nextTimer, delay>>
       ELSE loop' = "select" /\ Reset(Interval)
  /\ UNCHANGED <<once, debounceTimer, firing, reconcileCh, cancelled, notified, changed>>

\* reconcile returns an error, before or after it has read the source.  A
\* change read by a cycle that failed has to be read again.
Fail ==
  /\ loop \in {"begun", "read"}
  /\ consecutiveErrors < MaxErrors
  /\ changed' = TRUE
  /\ IF once
       THEN loop' = "returned" /\ UNCHANGED <<consecutiveErrors, nextTimer, delay>>
       ELSE /\ loop' = "select"
            /\ consecutiveErrors' = consecutiveErrors + 1
            /\ Reset(backoffDuration(consecutiveErrors'))
  /\ UNCHANGED <<once, debounceTimer, firing, reconcileCh, cancelled, ready, notified>>

-----------------------------------------------------------------------------
(* The event handler, the timers and the environment. *)

\* Fault injection: the handler, not the loop, cancels the pending tick.
HandleEvent_StopsTick ==
  /\ ~once
  /\ debounceTimer' = "armed"
  /\ nextTimer' = "stopped"
  /\ notified' = TRUE
  /\ changed' = TRUE
  /\ UNCHANGED <<once, loop, delay, consecutiveErrors, firing, reconcileCh, cancelled, ready>>

\* The handler runs after a change: the old debounce timer is stopped and a new
\* one started, both under the mutex.  The watcher may still call it when the
\* context is done.
HandleEvent ==
  /\ ~once
  /\ debounceTimer' = "armed"
  /\ notified' = TRUE
  /\ changed' = TRUE
  /\ UNCHANGED <<once, loop, nextTimer, delay, consecutiveErrors, firing, reconcileCh, cancelled,
                 ready>>

\* External: a container changes and its event never reaches the handler.
SilentChange ==
  /\ changed' = TRUE
  /\ UNCHANGED <<once, loop, nextTimer, delay, consecutiveErrors, debounceTimer, firing,
                 reconcileCh, cancelled, ready, notified>>

\* The runtime starts the callback of the debounce timer.
DebounceFires ==
  /\ debounceTimer = "armed"
  /\ firing < MaxFiring
  /\ debounceTimer' = "idle"
  /\ firing' = firing + 1
  /\ UNCHANGED <<once, loop, nextTimer, delay, consecutiveErrors, reconcileCh, cancelled, ready,
                 notified, changed>>

\* Fault injection: the channel has no room, and a busy loop misses the signal.
Signal_Unbuffered ==
  /\ firing > 0
  /\ firing' = firing - 1
  /\ reconcileCh' = IF loop = "select" THEN 1 ELSE reconcileCh
  /\ UNCHANGED <<once, loop, nextTimer, delay, consecutiveErrors, debounceTimer, cancelled,
                 ready, notified, changed>>

\* Fault injection: the channel grows with every signal.
Signal_Unbounded ==
  /\ firing > 0
  /\ firing' = firing - 1
  /\ reconcileCh' = reconcileCh + 1
  /\ UNCHANGED <<once, loop, nextTimer, delay, consecutiveErrors, debounceTimer, cancelled,
                 ready, notified, changed>>

\* A callback sends, or finds the channel full and drops its signal.
Signal ==
  /\ firing > 0
  /\ firing' = firing - 1
  /\ reconcileCh' = 1
  /\ UNCHANGED <<once, loop, nextTimer, delay, consecutiveErrors, debounceTimer, cancelled, ready,
                 notified, changed>>

TickFires ==
  /\ nextTimer = "armed"
  /\ nextTimer' = "fired"
  /\ UNCHANGED <<once, loop, delay, consecutiveErrors, debounceTimer, firing, reconcileCh,
                 cancelled, ready, notified, changed>>

\* External: SIGTERM or SIGINT.
Cancel ==
  /\ ~cancelled
  /\ cancelled' = TRUE
  /\ UNCHANGED <<once, loop, nextTimer, delay, consecutiveErrors, debounceTimer, firing,
                 reconcileCh, ready, notified, changed>>

-----------------------------------------------------------------------------
Loop == TakeTick \/ TakeSignal \/ Return \/ ReadSource \/ Succeed \/ Fail

Next ==
  \/ TakeTick \/ TakeSignal \/ Return \/ ReadSource \/ Succeed \/ Fail
  \/ HandleEvent \/ SilentChange \/ DebounceFires \/ Signal \/ TickFires \/ Cancel

Spec == Init /\ [][Next]_vars

\* The runtime fires armed timers and runs started callbacks, and reconcile
\* returns.  select chooses at random among the cases that are ready, so a done
\* context is not passed over for ever.  Nothing is assumed about the debounce
\* timer: events may keep re-arming it.
Fairness ==
  /\ WF_vars(Loop)
  /\ WF_vars(TickFires)
  /\ WF_vars(Signal)
  /\ SF_vars(Return)

FairSpec == Spec /\ Fairness

-----------------------------------------------------------------------------
(* Properties. *)

\* Every variable has the type its comment gives it; the channel never holds
\* more than its one place.
TypeOK ==
  /\ once \in BOOLEAN
  /\ loop \in {"select", "begun", "read", "returned"}
  /\ nextTimer \in {"armed", "fired", "stopped"}
  /\ delay \in Int
  /\ consecutiveErrors \in Nat
  /\ debounceTimer \in {"idle", "armed"}
  /\ firing \in Nat
  /\ reconcileCh \in 0 .. 1
  /\ cancelled \in BOOLEAN
  /\ ready \in BOOLEAN
  /\ notified \in BOOLEAN
  /\ changed \in BOOLEAN

\* A signal is on its way to the loop.
SignalPending == debounceTimer = "armed" \/ firing > 0 \/ reconcileCh = 1

\* While the loop runs, a change the handler was told about is read by the
\* cycle that has begun, or a signal for it is under way, or the cycle that took
\* its signal failed and its retry is scheduled: dropping a signal at a full
\* channel, re-arming the debounce timer and cancelling the tick lose nothing.
NoLostWakeup ==
  notified /\ loop # "returned" =>
    \/ loop = "begun"
    \/ SignalPending
    \/ consecutiveErrors > 0 /\ nextTimer \in {"armed", "fired"}

\* Whenever the loop waits its timer is set: it never waits for an event alone,
\* although taking a signal stops the timer.
NeverStranded == loop = "select" => nextTimer \in {"armed", "fired"}

\* controller.go: the backoff "doubles with each failure, capped at BackoffMax",
\* and the shift is capped "to prevent overflow": between failures the loop
\* waits for a positive time, at least the base and at most the maximum.
BackoffBounded ==
  loop = "select" /\ consecutiveErrors > 0 =>
    Least(BackoffBase, BackoffMax) <= delay /\ delay <= BackoffMax

\* Another failure in a row never shortens the wait, although every failure
\* computes it afresh.
BackoffGrows ==
  [][consecutiveErrors' > consecutiveErrors /\ consecutiveErrors > 0 => delay' >= delay]_vars

\* Every container change, notified or missed, is read by a later cycle unless
\* the controller is stopped, however long events keep re-arming the debounce.
ChangesAreRead == changed ~> (~changed \/ loop = "returned" \/ cancelled)

\* After a signal to stop, Run returns.
StopsWhenCancelled == cancelled ~> loop = "returned"

=============================================================================
