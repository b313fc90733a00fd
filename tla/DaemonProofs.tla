---------------------------- MODULE DaemonProofs ----------------------------
(***************************************************************************)
(* Proofs about Daemon.tla: the loop, the watcher and main together, for   *)
(* every configuration of durations and every bound.                       *)
(***************************************************************************)
EXTENDS Daemon, ControllerProofs

\* With --once main starts no watcher and Run registers no handler.
OnceAlone == once => handlers = "none" /\ stream = "left" /\ inbox = 0 /\ ~told

\* Until the handler is registered Run has not started its loop, whose timer of
\* zero stands for the first cycle.
NotStarted ==
  ~Registered => loop = "select" /\ delay = 0

\* An event of a change that no cycle has read is still on the stream or a
\* signal for it is under way, unless a cycle is about to read the source.
\* NoLostEvent alone is not inductive: a cycle that has read the source may
\* succeed, which takes the retry away.
EventToken ==
  /\ loop = "read" /\ told => inbox > 0 \/ SignalPending
  /\ loop = "select" /\ told => inbox > 0 \/ SignalPending \/ Prompt

\* What Run has returned says how it ended ...
RunResult ==
  /\ err = "error" => once /\ ~ready /\ loop = "returned"
  /\ err = "canceled" => cancelled /\ loop = "returned"
  /\ once /\ loop # "returned" => ~ready
  /\ once /\ loop = "returned" /\ err = "nil" => ready

\* ... and main acts on it only then, unless the watcher's panic ends it.
MainResult ==
  /\ main = "wait" => loop = "returned" /\ err # "error"
  /\ main = "exited" /\ status = 0 => loop = "returned" /\ err # "error"
  /\ main = "exited" /\ status = 1 => err = "error"
  /\ once => status # 2

\* The inductive invariant.
DaemonInv ==
  /\ DaemonTypeOK
  /\ NeverStranded
  /\ OnceAlone
  /\ NotStarted
  /\ EventToken
  /\ RunResult
  /\ MainResult

-----------------------------------------------------------------------------
\* The invariant holds when main starts.
LEMMA DaemonInvInit == DaemonInit => DaemonInv
<1> SUFFICES ASSUME DaemonInit PROVE DaemonInv
  OBVIOUS
<1>1. TypeOK /\ NeverStranded
  BY WakeupInit DEF DaemonInit, WakeupInv
<1>2. DaemonTypeOK
  <2>1. inbox \in 0 .. MaxInbox /\ changes \in 0 .. MaxChanges
    BY DaemonBoundAssumption, SMT DEF DaemonInit
  <2>2. /\ handlers \in {"none", "torn", "one"}
        /\ stream \in {"connecting", "up", "waiting", "left"}
        /\ hung \in BOOLEAN
        /\ err \in {"nil", "canceled", "error"}
        /\ main \in {"run", "wait", "exited"}
        /\ status \in {0, 2} \cup (IF once THEN {1} ELSE {})
        /\ told \in BOOLEAN
    BY Zenon DEF DaemonInit
  <2> QED
    BY <1>1, <2>1, <2>2, Zenon DEF DaemonTypeOK
<1>3. OnceAlone /\ NotStarted /\ EventToken /\ RunResult /\ MainResult
  BY DEF DaemonInit, Init, OnceAlone, NotStarted, EventToken, RunResult, MainResult,
         Registered, SignalPending, Prompt
<1> QED
  BY <1>1, <1>2, <1>3 DEF DaemonInv

\* Every step of the loop, the timers, the watcher, main and the environment
\* keeps it.
LEMMA DaemonInvNext == DaemonInv /\ [DaemonNext]_daemonVars => DaemonInv'
<1> SUFFICES ASSUME DaemonInv, [DaemonNext]_daemonVars PROVE DaemonInv'
  OBVIOUS
<1> USE DEF DaemonInv, DaemonTypeOK, TypeOK, NeverStranded, OnceAlone, NotStarted, EventToken,
               RunResult, MainResult, Registered, SignalPending, Prompt
<1>1. CASE AddEventHandler
  BY <1>1 DEF AddEventHandler, vars, process
<1>2. CASE LoopStep
  <2>1. CASE TakeTick
    BY <1>2, <2>1 DEF LoopStep, Step, TakeTick, watch, process
  <2>2. CASE TakeSignal
    BY <1>2, <2>2 DEF LoopStep, Step, TakeSignal, watch, process
  <2>3. CASE Succeed /\ once
    BY <1>2, <2>3 DEF LoopStep, Step, Succeed, watch, process
  <2>4. CASE Succeed /\ ~once
    BY <1>2, <2>4, DurationAssumption DEF LoopStep, Step, Succeed, Reset, watch, process
  <2> QED
    BY <1>2, <2>1, <2>2, <2>3, <2>4 DEF LoopStep
<1>3. CASE ReturnStep
  BY <1>3 DEF ReturnStep, Step, Return, watch, process
<1>4. CASE ListContainers
  BY <1>4 DEF ListContainers, Step, ReadSource, watch, process
<1>5. CASE Hang
  BY <1>5 DEF Hang, Step, vars, watch, process
<1>6. CASE CycleFails
  <2>1. CASE once
    BY <1>6, <2>1 DEF CycleFails, Step, Fail, watch, process
  <2>2. CASE ~once
    <3>1. consecutiveErrors' \in Nat /\ consecutiveErrors' > 0
      BY <1>6, <2>2 DEF CycleFails, Fail
    <3>2. delay' \in Int
      BY <1>6, <2>2, <3>1, BackoffType DEF CycleFails, Fail, Reset
    <3> QED
      BY <1>6, <2>2, <3>1, <3>2 DEF CycleFails, Step, Fail, Reset, watch, process
  <2> QED
    BY <2>1, <2>2
<1>7. CASE RunReturns
  BY <1>7 DEF RunReturns, Fatal, Exit, vars, watch
<1>8. CASE WatchDone
  BY <1>8 DEF WatchDone, Exit, vars, watch
<1>9. CASE ShutdownTimeout
  BY <1>9 DEF ShutdownTimeout, Exit, vars, watch
<1>10. CASE Timers
  BY <1>10 DEF Timers, TimerStep, TickFires, DebounceFires, Signal, watch, process
<1>11. CASE Subscribe
  BY <1>11, DaemonBoundAssumption DEF Subscribe, Watching, vars, process
<1>12. CASE StreamFails
  BY <1>12, DaemonBoundAssumption DEF StreamFails, Watching, vars, process
<1>13. CASE Resubscribe
  BY <1>13 DEF Resubscribe, Watching, vars, process
<1>14. CASE WatchLeaves
  BY <1>14 DEF WatchLeaves, Watching, LooksAtContext, vars, process
<1>15. CASE Notify
  BY <1>15, DaemonBoundAssumption DEF Notify, Take, handler, Watching, process
<1>16. CASE NotifyNobody
  BY <1>16, DaemonBoundAssumption DEF NotifyNobody, Take, Watching, vars, process
<1>17. CASE NotifyTorn
  BY <1>17, DaemonBoundAssumption DEF NotifyTorn, Take, Watching, Exit, vars
<1>18. CASE Change
  <2>1. CASE stream = "up"
    BY <1>18, <2>1, DaemonBoundAssumption DEF Change, process
  <2>2. CASE stream # "up"
    BY <1>18, <2>2, DaemonBoundAssumption DEF Change, process
  <2> QED
    BY <2>1, <2>2
<1>19. CASE Stop
  BY <1>19 DEF Stop, Cancel, watch, process
<1>20. CASE UNCHANGED daemonVars
  BY <1>20 DEF daemonVars, vars, watch, process
<1> QED
  BY <1>1, <1>2, <1>3, <1>4, <1>5, <1>6, <1>7, <1>8, <1>9, <1>10, <1>11, <1>12, <1>13, <1>14, <1>15, <1>16, <1>17, <1>18, <1>19, <1>20 DEF DaemonNext

\* The invariant holds in every reachable state of the program.
LEMMA DaemonInvariant == DaemonSpec => []DaemonInv
  BY DaemonInvInit, DaemonInvNext, PTL DEF DaemonSpec

\* Type correctness of the program's state: a status of 1 only ends a program
\* that was told to run one cycle.
THEOREM DaemonTypes == DaemonSpec => []DaemonTypeOK
<1>1. DaemonInv => DaemonTypeOK
  BY DEF DaemonInv
<1> QED
  BY <1>1, DaemonInvariant, PTL

\* No event of a lasting stream is forgotten before the containers are read
\* again, whenever the handler is registered and however cycles fail.
THEOREM DaemonNoLostEvent == DaemonSpec => []NoLostEvent
<1>1. DaemonInv => NoLostEvent
  BY DEF DaemonInv, DaemonTypeOK, TypeOK, NeverStranded, EventToken, NoLostEvent
<1> QED
  BY <1>1, DaemonInvariant, PTL

\* The exit status of --once is that of its cycle, success or failure, unless a
\* signal broke the cycle off.
THEOREM DaemonExitStatus == DaemonSpec => []ExitStatus
<1>1. DaemonInv => ExitStatus
  BY DEF DaemonInv, DaemonTypeOK, TypeOK, RunResult, MainResult, ExitStatus
<1> QED
  BY <1>1, DaemonInvariant, PTL

-----------------------------------------------------------------------------
(* The program implements Controller.tla.  A change and its event are one step *)
(* there and two here, so the controller's history of a change is kept until    *)
(* both have been read.                                                         *)

\* Both start alike.
LEMMA CtlInit == DaemonInit => Ctl!Init
  BY DEF DaemonInit, Init, Ctl!Init

\* Every step of the program is a step of the controller, or leaves it alone.
LEMMA CtlNext == DaemonInv /\ [DaemonNext]_daemonVars => [Ctl!Next]_Ctl!vars
<1> SUFFICES ASSUME DaemonInv, [DaemonNext]_daemonVars PROVE [Ctl!Next]_Ctl!vars
  OBVIOUS
<1>1. CASE LoopStep
  <2>1. TakeTick => Ctl!TakeTick
    BY DEF TakeTick, Ctl!TakeTick
  <2>2. TakeSignal => Ctl!TakeSignal
    BY DEF TakeSignal, Ctl!TakeSignal
  <2>3. Succeed => Ctl!Succeed
    BY DEF Succeed, Reset, Ctl!Succeed, Ctl!Reset
  <2> QED
    BY <1>1, <2>1, <2>2, <2>3 DEF LoopStep, Ctl!Next
<1>2. CASE ReturnStep
  BY <1>2 DEF ReturnStep, Return, Ctl!Next, Ctl!Return
<1>3. CASE ListContainers
  BY <1>3 DEF ListContainers, ReadSource, Ctl!Next, Ctl!ReadSource
<1>4. CASE CycleFails
  <2>1. Fail => Ctl!Fail
    BY DEF Fail, Reset, backoffDuration, Wrap, Least,
           Ctl!Fail, Ctl!Reset, Ctl!backoffDuration, Ctl!Wrap, Ctl!Least
  <2> QED
    BY <1>4, <2>1 DEF CycleFails, Ctl!Next
<1>5. CASE Timers
  <2>1. TickFires => Ctl!TickFires
    BY DEF TickFires, Ctl!TickFires
  <2>2. DebounceFires => Ctl!DebounceFires
    BY DEF DebounceFires, Ctl!DebounceFires
  <2>3. Signal => Ctl!Signal
    BY DEF Signal, Ctl!Signal
  <2> QED
    BY <1>5, <2>1, <2>2, <2>3 DEF Timers, TimerStep, Ctl!Next
<1>6. CASE Notify
  <2>1. ~once
    BY <1>6 DEF Notify, DaemonInv, OnceAlone
  <2> QED
    BY <1>6, <2>1 DEF Notify, handler, Ctl!Next, Ctl!HandleEvent
<1>7. CASE Change
  BY <1>7 DEF Change, Ctl!Next, Ctl!SilentChange
<1>8. CASE Stop
  BY <1>8 DEF Stop, Cancel, Ctl!Next, Ctl!Cancel
<1>9. CASE UNCHANGED vars
  BY <1>9 DEF vars, Ctl!vars
<1>10. CASE AddEventHandler \/ Hang \/ RunReturns \/ WatchDone \/ ShutdownTimeout
  BY <1>9, <1>10 DEF AddEventHandler, Hang, RunReturns, WatchDone, ShutdownTimeout
<1>11. CASE Subscribe \/ StreamFails \/ Resubscribe \/ WatchLeaves
  BY <1>9, <1>11 DEF Subscribe, StreamFails, Resubscribe, WatchLeaves
<1>12. CASE NotifyNobody \/ NotifyTorn
  BY <1>9, <1>12 DEF NotifyNobody, NotifyTorn
<1>13. CASE UNCHANGED daemonVars
  BY <1>9, <1>13 DEF daemonVars
<1> QED
  BY <1>1, <1>2, <1>3, <1>4, <1>5, <1>6, <1>7, <1>8, <1>10, <1>11, <1>12, <1>13 DEF DaemonNext

\* The program's loop, with the watcher as its source of events and main around
\* it, is the controller: what Controller.tla promises holds of the program.
THEOREM DaemonImplementsController == DaemonSpec => ImplementsController
  BY CtlInit, CtlNext, DaemonInvariant, PTL DEF DaemonSpec, ImplementsController, Ctl!Spec

=============================================================================
