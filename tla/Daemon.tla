------------------------------- MODULE Daemon -------------------------------
(***************************************************************************)
(* The running program: Controller.Run beside DockerSource.Watch, and main *)
(* waiting for both.                                                       *)
(*                                                                         *)
(* main starts Watch before Run registers its handler, and the slice of    *)
(* handlers has no lock.  Watch subscribes to Docker's events, loses the   *)
(* ones that happen while it is not subscribed, and subscribes again after *)
(* a failure.  reconcile lists the containers without a timeout: Docker    *)
(* may keep it waiting for as long as the context lives.                   *)
(***************************************************************************)
EXTENDS Controller

CONSTANTS
  MaxInbox,     \* bound: events on the stream that Watch has not taken
  MaxChanges    \* bound: container changes

ASSUME DaemonBoundAssumption == MaxInbox \in Nat \ {0} /\ MaxChanges \in Nat \ {0}

VARIABLES
  handlers,     \* the handlers slice: "none", "torn" (its length is stored, its
                \* element not yet) or "one"
  stream,       \* Watch: "connecting", "up", "waiting" (to reconnect) or "left"
  inbox,        \* events on the stream
  hung,         \* Docker lets the container list wait
  err,          \* what Run returns: "nil", "canceled" (errors.Is) or "error"
  main,         \* "run", "wait" (for Watch) or "exited"
  status,       \* the exit status
  changes,      \* how many container changes there were
  told          \* history: Docker has sent an event of a change that was not read since

watch == <<handlers, stream, inbox>>
process == <<main, status>>
daemonVars == <<vars, watch, hung, err, process, changes, told>>

-----------------------------------------------------------------------------
DaemonInit ==
  /\ Init
  /\ handlers = "none"
  /\ stream = IF once THEN "left" ELSE "connecting"
  /\ inbox = 0
  /\ hung = FALSE
  /\ err = "nil"
  /\ main = "run"
  /\ status = 0
  /\ changes = 0
  /\ told = FALSE

Exit(s) == main' = "exited" /\ status' = s

-----------------------------------------------------------------------------
(* The goroutine of main: Run, then the wait for Watch. *)

\* AddEventHandler: append stores the new slice's length before its element.
AddEventHandler ==
  /\ main = "run" /\ ~once
  /\ handlers # "one"
  /\ handlers' = IF handlers = "none" THEN "torn" ELSE "one"
  /\ UNCHANGED <<vars, stream, inbox, hung, err, process, changes, told>>

\* Fault injection: the loop starts before the handler is registered.
Registered_Late == TRUE

\* The loop and its timer start when the handler is registered.
Registered == once \/ handlers = "one"

Step == main = "run" /\ Registered

LoopStep ==
  /\ Step
  /\ TakeTick \/ TakeSignal \/ Succeed
  /\ UNCHANGED <<watch, hung, err, process, changes, told>>

ReturnStep ==
  /\ Step
  /\ Return
  /\ err' = "canceled"
  /\ UNCHANGED <<watch, hung, process, changes, told>>

\* ContainerList returns.
ListContainers ==
  /\ Step
  /\ ReadSource
  /\ hung' = FALSE
  /\ told' = FALSE
  /\ UNCHANGED <<watch, err, process, changes>>

\* ContainerList does not return.
Hang ==
  /\ Step
  /\ loop = "begun" /\ ~hung /\ ~cancelled
  /\ consecutiveErrors < MaxErrors
  /\ hung' = TRUE
  /\ UNCHANGED <<vars, watch, err, process, changes, told>>

\* A cycle fails.  The error wraps the context's when the context is done and
\* the call at hand has noticed.
CycleFails ==
  /\ Step
  /\ Fail
  /\ hung' = FALSE
  /\ IF once
       THEN \/ cancelled /\ err' = "canceled"
            \/ ~(hung /\ cancelled) /\ err' = "error"
       ELSE UNCHANGED err
  /\ UNCHANGED <<watch, process, changes, told>>

\* Fault injection: every error of Run is fatal.
Fatal_Any == err # "nil"

\* Fault injection: the error of a single cycle is only logged.
Fatal_Never == FALSE

\* err != nil && !errors.Is(err, context.Canceled)
Fatal == err = "error"

RunReturns ==
  /\ main = "run" /\ loop = "returned"
  /\ IF Fatal THEN Exit(1) ELSE main' = "wait" /\ UNCHANGED status
  /\ UNCHANGED <<vars, watch, hung, err, changes, told>>

WatchDone ==
  /\ main = "wait" /\ stream = "left"
  /\ Exit(0)
  /\ UNCHANGED <<vars, watch, hung, err, changes, told>>

ShutdownTimeout ==
  /\ main = "wait"
  /\ Exit(0)
  /\ UNCHANGED <<vars, watch, hung, err, changes, told>>

-----------------------------------------------------------------------------
(* The goroutines of the timers. *)

TimerStep(A) ==
  /\ main # "exited" /\ Registered
  /\ A
  /\ UNCHANGED <<watch, hung, err, process, changes, told>>

Timers == TimerStep(TickFires) \/ TimerStep(DebounceFires) \/ TimerStep(Signal)

-----------------------------------------------------------------------------
(* The goroutine of Watch. *)

Watching == main # "exited"

\* client.Events succeeds.
Subscribe ==
  /\ Watching /\ stream = "connecting" /\ ~cancelled
  /\ stream' = "up"
  /\ UNCHANGED <<vars, handlers, inbox, hung, err, process, changes, told>>

\* An error on errs ends runEventLoop; what was on the stream is lost.
StreamFails ==
  /\ Watching /\ stream \in {"connecting", "up"}
  /\ stream' = "waiting"
  /\ inbox' = 0
  /\ told' = (told /\ inbox = 0)
  /\ UNCHANGED <<vars, handlers, hung, err, process, changes>>

\* Fault injection: Watch ends with its first stream.
Resubscribe_Never ==
  /\ Watching /\ stream = "waiting"
  /\ stream' = "left"
  /\ UNCHANGED <<vars, handlers, inbox, hung, err, process, changes, told>>

\* time.After(reconnectWait)
Resubscribe ==
  /\ Watching /\ stream = "waiting"
  /\ stream' = "connecting"
  /\ UNCHANGED <<vars, handlers, inbox, hung, err, process, changes, told>>

\* Fault injection: a program told to stop while it waits goes on reconnecting.
LooksAtContext_InStream == stream = "up"

LooksAtContext == stream \in {"up", "waiting"}

\* ctx.Done() in runEventLoop, and then in Watch.
WatchLeaves ==
  /\ Watching /\ LooksAtContext /\ cancelled
  /\ stream' = "left"
  /\ UNCHANGED <<vars, handlers, inbox, hung, err, process, changes, told>>

Take == Watching /\ stream = "up" /\ inbox > 0 /\ inbox' = inbox - 1

\* Fault injection: the handler signals the loop without a debounce.
handler_Directly == reconcileCh' = 1 /\ UNCHANGED debounceTimer

\* Fault injection: events during a cycle are passed over.
handler_WhenIdle ==
  /\ debounceTimer' = IF loop = "select" THEN "armed" ELSE debounceTimer
  /\ UNCHANGED reconcileCh

\* The handler that Run registers.
handler == debounceTimer' = "armed" /\ UNCHANGED reconcileCh

Notify ==
  /\ Take
  /\ handlers = "one"
  /\ handler
  /\ notified' = TRUE
  /\ UNCHANGED <<once, loop, nextTimer, delay, consecutiveErrors, firing, cancelled, ready,
                 changed, handlers, stream, hung, err, process, changes, told>>

\* notify finds no handler.
NotifyNobody ==
  /\ Take
  /\ handlers # "one"
  /\ UNCHANGED <<vars, handlers, stream, hung, err, process, changes, told>>

\* notify finds a handler that is not there yet: a nil function is called.
NotifyTorn ==
  /\ Take
  /\ handlers = "torn"
  /\ Exit(2)
  /\ UNCHANGED <<vars, handlers, stream, hung, err, changes, told>>

-----------------------------------------------------------------------------
(* The environment. *)

\* External: a container changes; Docker sends an event if it has a listener.
Change ==
  /\ main # "exited"
  /\ changes < MaxChanges
  /\ changes' = changes + 1
  /\ changed' = TRUE
  /\ IF stream = "up"
       THEN inbox < MaxInbox /\ inbox' = inbox + 1 /\ told' = TRUE
       ELSE UNCHANGED <<inbox, told>>
  /\ UNCHANGED <<once, loop, nextTimer, delay, consecutiveErrors, debounceTimer, firing,
                 reconcileCh, cancelled, ready, notified, handlers, stream, hung, err, process>>

\* External: SIGTERM or SIGINT.
Stop ==
  /\ main # "exited"
  /\ Cancel
  /\ UNCHANGED <<watch, hung, err, process, changes, told>>

-----------------------------------------------------------------------------
DaemonNext ==
  \/ AddEventHandler \/ LoopStep \/ ReturnStep \/ ListContainers \/ Hang \/ CycleFails
  \/ RunReturns \/ WatchDone \/ ShutdownTimeout
  \/ Timers
  \/ Subscribe \/ StreamFails \/ Resubscribe \/ WatchLeaves
  \/ Notify \/ NotifyNobody \/ NotifyTorn
  \/ Change \/ Stop

DaemonSpec == DaemonInit /\ [][DaemonNext]_daemonVars

\* The runtime runs every goroutine that can go on, and select does not pass
\* over a done context for ever.  A call to Docker returns when the context is
\* done, and one that hangs need not return before.  Docker comes back after an
\* outage.  Nothing is assumed of the shutdown timeout.
GoroutineFairness ==
  /\ WF_daemonVars(AddEventHandler \/ LoopStep \/ RunReturns \/ WatchDone)
  /\ WF_daemonVars(~hung /\ ListContainers)
  /\ WF_daemonVars((hung => cancelled) /\ (ListContainers \/ CycleFails))
  /\ SF_daemonVars(ReturnStep)
  /\ WF_daemonVars(TimerStep(Signal))
  /\ WF_daemonVars(Resubscribe)
  /\ SF_daemonVars(Subscribe)
  /\ WF_daemonVars(cancelled /\ StreamFails)
  /\ SF_daemonVars(WatchLeaves)
  /\ WF_daemonVars(Notify \/ NotifyNobody)

\* ... and the timers fire.
DaemonFairSpec == DaemonSpec /\ GoroutineFairness /\ WF_daemonVars(TimerStep(TickFires))

\* nextTimer is set for the first cycle or for a retry: it is not the periodic tick.
Prompt == delay = 0 \/ consecutiveErrors > 0

\* The same without the periodic tick, which makes every property harder: only
\* events, the first cycle and the backoff start cycles.  The changes end, so the debounce timer fires.
EventSpec ==
  /\ DaemonSpec
  /\ GoroutineFairness
  /\ WF_daemonVars(Prompt /\ TimerStep(TickFires))
  /\ WF_daemonVars(TimerStep(DebounceFires))

-----------------------------------------------------------------------------
(* Properties. *)

\* Every variable has the type its comment gives it; only a program that ran
\* one cycle, or that panicked, ends with a status other than zero.
DaemonTypeOK ==
  /\ TypeOK
  /\ handlers \in {"none", "torn", "one"}
  /\ stream \in {"connecting", "up", "waiting", "left"}
  /\ inbox \in 0 .. MaxInbox
  /\ hung \in BOOLEAN
  /\ err \in {"nil", "canceled", "error"}
  /\ main \in {"run", "wait", "exited"}
  /\ status \in {0, 2} \cup (IF once THEN {1} ELSE {})
  /\ changes \in 0 .. MaxChanges
  /\ told \in BOOLEAN

\* The program is an instance of the controller that Controller.tla specifies:
\* a change and its event are two steps here, and one there.
Ctl == INSTANCE Controller WITH changed <- changed \/ notified
ImplementsController == Ctl!Spec

\* An event that Docker sent on a stream that has not failed since is never
\* forgotten before the containers are read again, from the moment the program
\* starts: events that come before the handler is registered are covered by the
\* first cycle, later ones by a signal or a retry.
NoLostEvent ==
  told /\ loop # "returned" =>
    \/ inbox > 0
    \/ SignalPending
    \/ loop = "begun"
    \/ loop = "select" /\ nextTimer # "stopped" /\ Prompt

\* main.go:304: what a script learns from the exit status of --once.  A cycle that
\* succeeded is never reported as a failure, also when a signal came during or after
\* it, and a cycle that failed is never reported as a success unless it was the
\* signal that broke it off (OnceStatus is about that case).
ExitStatus ==
  once /\ main = "exited" =>
    /\ ready => status = 0
    /\ ~ready => status = 1 \/ err = "canceled"

\* After a signal to stop, the program ends, without help from the shutdown
\* timeout, even if Docker is down or hangs.
Exits == cancelled ~> main = "exited"

\* The stream is restored after every failure, until the program stops.
Reconnects == stream = "waiting" ~> stream = "up" \/ cancelled \/ main = "exited"

\* openspec docker-source: a container event triggers a cycle without waiting
\* for the interval, as long as its stream lasts and Docker answers.
EventsAreRead == told ~> ~told \/ stream # "up" \/ hung \/ cancelled \/ main = "exited"

\* openspec docker-source: a container that starts or stops triggers a cycle, also
\* when the stream was not there at that moment and is now.
ChangesTrigger == changed ~> ~changed \/ stream # "up" \/ hung \/ cancelled \/ main = "exited"

\* openspec controller: the loop is periodic: every change is read sooner or later.
KeepsCycling == changed ~> ~changed \/ cancelled \/ main = "exited"

\* docker.go: Watch calls "registered handlers", and main ends with an error of
\* its own or none.
WatchSurvives == status # 2

\* openspec controller: in once mode the program ends "with status 0 (or non-zero
\* on error)": 0 means that the cycle succeeded.
OnceStatus == once /\ main = "exited" /\ status = 0 => ready
=============================================================================
