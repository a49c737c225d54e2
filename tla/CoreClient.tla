------------------------------ MODULE CoreClient ------------------------------
(***************************************************************************)
(* The desktop's side of the core process: CoreProcessClient               *)
(* (apps/desktop/src/main/core-client.ts), the automatic restarts          *)
(* (restart-controller.ts), and the start and the end of the application   *)
(* (bootstrapCore and before-quit in main.ts).                             *)
(*                                                                         *)
(* An action is one turn of the event loop: a message, a process event or  *)
(* a timer. What awaits a promise goes on in a microtask, before the next  *)
(* turn. A core process is external: it can be slow, die, or outlive the   *)
(* signal that was to end it. Timers carry no clock: one that is armed may *)
(* fire at any time, and does in the end.                                  *)
(***************************************************************************)
EXTENDS Naturals, FiniteSets

CONSTANTS
    None,
    Cores,         \* core processes, each spawned once
    AppCalls,      \* requests of the renderer, each made once
    MaxAttempts,   \* maxAttempts of AutomaticRestartController
    MaxStable,     \* bound: stability windows that end
    Faults,        \* the kinds of failure that may happen
    MaxFaults      \* bound: failures

FaultKinds == {"spawn", "error", "crash", "stuck", "protocol"}
Calls == {"boot", "shutdown"} \cup AppCalls  \* bootstrapCore makes one call at a time

ClientAssumption ==
    /\ None \notin Cores /\ AppCalls \cap {"boot", "shutdown"} = {}
    /\ "ready" \notin Calls /\ Cores \cap {"none", "ok", "failed"} = {}
    /\ MaxAttempts \in Nat /\ MaxStable \in Nat
    /\ Faults \subseteq FaultKinds /\ MaxFaults \in Nat

VARIABLES
    \* CoreProcessClient.
    status, child, metadata, startPromise, startTimer, intentional,
    lifecycle,     \* childLifecycles, of the child: whether its end is expected
    errorTimer,
    call,          \* the pending table: what came of a request, or the process it waits for
    shut,          \* shutdownInternal
    \* AutomaticRestartController.
    attempts, restartTimer, stabilityTimer, inFlight, crashDuring, exhausted,
    \* main.ts: bootstrapCore, and how far the application is in quitting.
    boot, app,
    \* The processes, what they have written and not yet been read, and who was told to end.
    proc, out, killed, stuck,
    \* History.
    hurried,       \* the user quit again and did not wait
    windows, faults

transport  == <<startPromise, startTimer, metadata, intentional>>
children   == <<child, lifecycle, errorTimer>>
controller == <<attempts, restartTimer, stabilityTimer, inFlight, crashDuring, exhausted, windows>>
world      == <<proc, out, stuck>>
vars == <<status, transport, children, call, shut, controller, boot, app, world, killed,
          hurried, faults>>

Fault(k) == k \in Faults /\ faults < MaxFaults /\ faults' = faults + 1
NoFault  == faults' = faults

Alive(p)   == proc[p] \in {"booting", "up"}
Quitting   == app # "running"
Expected   == intentional \/ status = "stopping"
Pending(c) == call[c] \in Cores

Init ==
    /\ status = "stopped" /\ child = None /\ metadata = FALSE
    /\ startPromise = "none" /\ startTimer = FALSE /\ intentional = FALSE
    /\ lifecycle = "none" /\ errorTimer = FALSE
    /\ call = [c \in Calls |-> "none"]
    /\ shut = [stage |-> "none", target |-> None]
    /\ attempts = 0 /\ restartTimer = FALSE /\ stabilityTimer = FALSE
    /\ inFlight = FALSE /\ crashDuring = FALSE /\ exhausted = FALSE
    /\ boot = "begin" /\ app = "running"
    /\ proc = [p \in Cores |-> "none"] /\ out = [p \in Cores |-> {}]
    /\ killed = {} /\ stuck = {}
    /\ hurried = FALSE /\ windows = 0 /\ faults = 0

-----------------------------------------------------------------------------
(* What handlers share.                                                    *)

Kill(p) == killed' = killed \cup {p}

\* rejectAllPending.
Rejected == [c \in Calls |-> IF Pending(c) THEN "failed" ELSE call[c]]

\* rejectStartPromise, and the startup timer with it.
RejectStart ==
    /\ startPromise' = IF startPromise = "open" THEN "failed" ELSE startPromise
    /\ startTimer' = FALSE

\* getChildLifecycle: the first event of the end of a process decides.
Lifecycle == IF lifecycle # "none" THEN lifecycle
             ELSE IF Expected THEN "expected" ELSE "unexpected"

\* MUTANT: the process is left to end by itself.
FailsGently ==
    /\ lifecycle' = Lifecycle /\ call' = Rejected /\ RejectStart
    /\ errorTimer' = TRUE /\ UNCHANGED <<child, killed>>

\* beginChildFailure, apart from the status it sets: requests fail at once, the
\* process is killed, and its close is awaited.
BeginFailure ==
    /\ lifecycle' = Lifecycle /\ call' = Rejected /\ RejectStart
    /\ errorTimer' = TRUE /\ Kill(child) /\ UNCHANGED child

FailureStatus == IF Lifecycle = "expected" THEN "stopping" ELSE "unavailable"

\* AutomaticRestartController.schedule, of a controller that runs and is not in flight.
Schedule ==
    IF Quitting \/ restartTimer \/ exhausted
    THEN UNCHANGED <<attempts, restartTimer, exhausted>>
    ELSE IF attempts >= MaxAttempts
    THEN exhausted' = TRUE /\ UNCHANGED <<attempts, restartTimer>>
    ELSE attempts' = attempts + 1 /\ restartTimer' = TRUE /\ UNCHANGED exhausted

\* onUnexpectedClose.
UnexpectedClose ==
    IF Quitting \/ exhausted THEN UNCHANGED controller
    ELSE IF inFlight
    THEN /\ crashDuring' = TRUE
         /\ UNCHANGED <<attempts, restartTimer, stabilityTimer, inFlight, exhausted, windows>>
    ELSE /\ stabilityTimer' = FALSE /\ Schedule
         /\ UNCHANGED <<inFlight, crashDuring, windows>>

\* finalizeChild: the client lets go of the process, whatever it awaited from it
\* fails, and an end nobody asked for goes to the controller. No later event of
\* that process counts, but what it still writes is read: core.ready matters.
Finalize ==
    /\ child' = None /\ errorTimer' = FALSE /\ lifecycle' = "none"
    /\ call' = Rejected /\ RejectStart
    /\ out' = [out EXCEPT ![child] = @ \cap {"ready"}]
    /\ IF Lifecycle = "expected" THEN UNCHANGED controller ELSE UnexpectedClose

FinalStatus == IF Lifecycle = "expected" THEN "stopped" ELSE "unavailable"

\* request: refused at once without a core, or one that is going.
Refused == child = None \/ status \in {"stopped", "unavailable", "stopping"}
Send(c) == call' = [call EXCEPT ![c] = IF Refused THEN "failed" ELSE child]

-----------------------------------------------------------------------------
(* start, on behalf of bootstrapCore.                                      *)

\* Processes differ only in when they are spawned.
Fresh == CHOOSE p \in Cores : proc[p] = "none"

\* A core that is ready is taken as it is, one that is not yet gone is an error;
\* otherwise a process is spawned, unless that fails on the spot.
Start ==
    \/ /\ status = "ready" /\ metadata
       /\ startPromise' = "ready"
       /\ NoFault
       /\ UNCHANGED <<status, startTimer, metadata, intentional, child, call, world>>
    \/ /\ ~(status = "ready" /\ metadata) /\ child # None
       /\ startPromise' = "failed"
       /\ NoFault
       /\ UNCHANGED <<status, startTimer, metadata, intentional, child, call, world>>
    \/ /\ ~(status = "ready" /\ metadata) /\ child = None
       /\ metadata' = FALSE /\ intentional' = FALSE
       /\ UNCHANGED <<call, out, stuck>>
       /\ \/ /\ NoFault
             /\ \E p \in Cores : proc[p] = "none"
             /\ child' = Fresh /\ proc' = [proc EXCEPT ![Fresh] = "booting"]
             /\ status' = "starting" /\ startPromise' = "open" /\ startTimer' = TRUE
          \/ /\ Fault("spawn")
             /\ status' = "unavailable" /\ startPromise' = "failed" /\ startTimer' = FALSE
             /\ UNCHANGED <<child, proc>>

\* The application starts the core once by itself.
Bootstrap ==
    /\ boot = "begin" /\ boot' = "start"
    /\ Start
    /\ UNCHANGED <<lifecycle, errorTimer, shut, controller, app, killed,
                   hurried>>

\* The restart timer fires: runAttempt.
RestartFires ==
    /\ restartTimer /\ restartTimer' = FALSE
    /\ IF Quitting \/ inFlight \/ exhausted
       THEN UNCHANGED <<status, transport, child, call, world, inFlight, crashDuring, boot,
                        faults>>
       ELSE /\ inFlight' = TRUE /\ crashDuring' = FALSE
            /\ boot' = "start" /\ Start
    /\ UNCHANGED <<lifecycle, errorTimer, shut, attempts, stabilityTimer, exhausted,
                   windows, app, killed, hurried>>

-----------------------------------------------------------------------------
(* bootstrapCore goes on when what it awaits is settled.                   *)

Awaited == CASE boot = "start"  -> startPromise
             [] boot \in {"hello", "health"} -> call["boot"]
             [] OTHER           -> "none"
Good == {"ready", "ok"}

BootGoesOn ==
    /\ boot \in {"start", "hello"} /\ Awaited \in Good
    /\ boot' = (IF boot = "start" THEN "hello" ELSE "health")
    /\ Send("boot")
    /\ startPromise' = "none"
    /\ UNCHANGED <<status, startTimer, metadata, intentional, children, shut, controller, app,
                   world, killed, hurried, faults>>

\* The handshake failed: markUnavailable, and then the shutdown of what is left.
BootFails ==
    /\ \/ Awaited = "failed" /\ NoFault
       \/ boot \in {"hello", "health"} /\ Awaited = "ok" /\ Fault("protocol")
    /\ boot' = "failing"
    /\ IF child = None
       THEN /\ call' = Rejected /\ startTimer' = FALSE
            /\ status' = IF shut.stage = "none" THEN "stopped" ELSE "unavailable"
            /\ UNCHANGED <<children, killed, intentional, shut>>
       ELSE /\ lifecycle' = Lifecycle /\ call' = Rejected /\ startTimer' = FALSE
            /\ errorTimer' = TRUE /\ Kill(child) /\ UNCHANGED child
            /\ IF shut.stage = "none"
               THEN /\ intentional' = TRUE /\ status' = "stopping"
                    /\ shut' = [stage |-> "closing", target |-> child]
               ELSE /\ status' = FailureStatus /\ UNCHANGED <<intentional, shut>>
    /\ startPromise' = "none"
    /\ UNCHANGED <<metadata, controller, app, world, hurried>>

\* MUTANT: an attempt is over whether it succeeded or not.
ArmsAnyway ==
    /\ inFlight' = FALSE /\ crashDuring' = FALSE /\ UNCHANGED windows
    /\ IF Quitting THEN UNCHANGED <<attempts, restartTimer, stabilityTimer, exhausted>>
       ELSE stabilityTimer' = TRUE /\ UNCHANGED <<attempts, restartTimer, exhausted>>

\* runAttempt, once restart has answered.
AttemptEnds ==
    /\ inFlight' = FALSE /\ crashDuring' = FALSE /\ UNCHANGED windows
    /\ IF Quitting THEN UNCHANGED <<attempts, restartTimer, stabilityTimer, exhausted>>
       ELSE IF boot = "failing" \/ crashDuring THEN Schedule /\ UNCHANGED stabilityTimer
       ELSE stabilityTimer' = TRUE /\ UNCHANGED <<attempts, restartTimer, exhausted>>

\* bootstrapCore answers, to the controller when that called it.
BootReady == boot = "health" /\ Awaited = "ok"
BootFailed == boot = "failing" /\ shut.stage = "none"
BootEnds ==
    /\ BootReady \/ BootFailed
    /\ boot' = "idle"
    /\ IF inFlight THEN AttemptEnds ELSE UNCHANGED controller
    /\ UNCHANGED <<status, transport, children, call, shut, app, world, killed,
                   hurried, faults>>

\* The stability window ends.
StabilityFires ==
    /\ stabilityTimer /\ stabilityTimer' = FALSE
    /\ windows < MaxStable /\ windows' = windows + 1
    /\ attempts' = (IF Quitting THEN attempts ELSE 0)
    /\ exhausted' = (exhausted /\ Quitting)
    /\ UNCHANGED <<status, transport, children, call, shut, restartTimer, inFlight,
                   crashDuring, boot, app, world, killed, hurried, faults>>

-----------------------------------------------------------------------------
(* Messages, process events and timers of the client.                      *)

\* core.ready, from whichever process wrote it.
ReadyArrives == \E p \in Cores :
    /\ "ready" \in out[p] /\ out' = [out EXCEPT ![p] = @ \ {"ready"}]
    /\ metadata' = TRUE /\ status' = "ready"
    /\ startPromise' = IF startPromise = "open" THEN "ready" ELSE startPromise
    /\ startTimer' = (startTimer /\ startPromise # "open")
    /\ UNCHANGED <<intentional, children, call, shut, controller, boot, app, proc,
                   stuck, killed, hurried, faults>>

\* A response settles its request if that still waits for it.
ResponseArrives == \E p \in Cores, c \in Calls :
    /\ c \in out[p] /\ "ready" \notin out[p] /\ out' = [out EXCEPT ![p] = @ \ {c}]
    /\ call' = [call EXCEPT ![c] = IF @ = p THEN "ok" ELSE @]
    /\ UNCHANGED <<status, transport, children, shut, controller, boot, app, proc,
                   stuck, killed, hurried, faults>>

\* A request of the renderer.
AppRequests == \E c \in AppCalls :
    /\ call[c] = "none" /\ Send(c)
    /\ UNCHANGED <<status, transport, children, shut, controller, boot, app, world, killed,
                   hurried, faults>>

\* The timer of a request fires; a write that fails looks the same.
RequestExpires == \E c \in Calls :
    /\ Pending(c)
    /\ call' = [call EXCEPT ![c] = "failed"]
    /\ UNCHANGED <<status, transport, children, shut, controller, boot, app, world, killed,
                   hurried, faults>>

\* The startup timer fires, or the process or its pipe reports an error.
ChildFails ==
    /\ child # None
    /\ (startTimer /\ NoFault) \/ Fault("error")
    /\ BeginFailure /\ status' = FailureStatus
    /\ UNCHANGED <<metadata, intentional, shut, controller, boot, app, world, hurried>>

\* The exit event only records whether the end was expected.
ExitArrives ==
    /\ child # None /\ proc[child] = "dead" /\ lifecycle = "none"
    /\ lifecycle' = Lifecycle
    /\ UNCHANGED <<status, transport, child, errorTimer, call, shut, controller, boot, app, world,
                   killed, hurried, faults>>

\* The close event comes when everything the process wrote was read, or, for a
\* process that failed, not in time.
CloseArrives ==
    /\ child # None
    /\ errorTimer \/ (proc[child] = "dead" /\ out[child] = {})
    /\ Finalize /\ status' = FinalStatus
    /\ UNCHANGED <<metadata, intentional, shut, boot, app, proc, stuck, killed, hurried,
                   faults>>

-----------------------------------------------------------------------------
(* shutdownInternal, for a user who quits (BootFails has its own).         *)

Stopped(s) == IF child = None /\ s = "stopping" THEN "stopped" ELSE s

\* Without a core there is nothing to do, a shutdown under way is shared, and a
\* core that is up and not failing is asked to end.
Shutdown ==
    IF shut.stage # "none"
    THEN UNCHANGED <<status, intentional, call, shut>>
    ELSE IF child = None
    THEN status' = "stopped" /\ UNCHANGED <<intentional, call, shut>>
    ELSE /\ intentional' = TRUE
         /\ IF metadata /\ ~Refused
            THEN /\ Send("shutdown") /\ UNCHANGED status
                 /\ shut' = [stage |-> "asked", target |-> child]
            ELSE /\ status' = "stopping" /\ UNCHANGED call
                 /\ shut' = [stage |-> "closing", target |-> child]

\* The request is answered, refused or late; from here the close is awaited.
ShutdownAnswered ==
    /\ shut.stage = "asked" /\ ~Pending("shutdown")
    /\ IF child # shut.target
       THEN shut' = [stage |-> "none", target |-> None] /\ UNCHANGED status
       ELSE shut' = [shut EXCEPT !.stage = "closing"] /\ status' = "stopping"
    /\ UNCHANGED <<transport, children, call, controller, boot, app, world, killed,
                   hurried, faults>>

\* The close has come.
ShutdownClosed ==
    /\ shut.stage \in {"closing", "killing"} /\ child # shut.target
    /\ shut' = [stage |-> "none", target |-> None] /\ status' = Stopped(status)
    /\ UNCHANGED <<transport, children, call, controller, boot, app, world, killed,
                   hurried, faults>>

\* MUTANT: the close is awaited without a limit.
WaitsForClose == FALSE

Impatient == child = shut.target

\* It does not come: the process is killed, and finally given up.
ShutdownKills ==
    /\ shut.stage = "closing" /\ Impatient
    /\ shut' = [shut EXCEPT !.stage = "killing"] /\ Kill(child)
    /\ UNCHANGED <<status, transport, children, call, controller, boot, app, world, 
                   hurried, faults>>

ShutdownGivesUp ==
    /\ shut.stage = "killing" /\ child = shut.target
    /\ Finalize /\ status' = FinalStatus
    /\ shut' = [stage |-> "none", target |-> None]
    /\ UNCHANGED <<metadata, intentional, boot, app, proc, stuck, killed, hurried, faults>>

-----------------------------------------------------------------------------
(* The application ends.                                                   *)

\* before-quit: no restart from here on; PDF exports are stopped first.
Quit ==
    /\ app = "running" /\ app' = "exports"
    /\ restartTimer' = FALSE /\ stabilityTimer' = FALSE /\ crashDuring' = FALSE
    /\ UNCHANGED <<status, transport, children, call, shut, attempts, inFlight, exhausted,
                   windows, boot, world, killed, hurried, faults>>

ExportsStopped ==
    /\ app = "exports" /\ app' = "shutdown"
    /\ Shutdown
    /\ UNCHANGED <<startPromise, startTimer, metadata, children, controller, boot, world, killed,
                   hurried, faults>>

QuitDone ==
    /\ app = "shutdown" /\ shut.stage = "none" /\ app' = "exited"
    /\ UNCHANGED <<status, transport, children, call, shut, controller, boot, world, killed,
                   hurried, faults>>

\* Asked to quit once more, the application does not wait.
QuitAgain ==
    /\ app \in {"exports", "shutdown"} /\ app' = "exited" /\ hurried' = TRUE
    /\ UNCHANGED <<status, transport, children, call, shut, controller, boot, world, killed,
                   faults>>

-----------------------------------------------------------------------------
(* A core process.                                                         *)

CoreReady(p) ==
    /\ proc[p] = "booting"
    /\ proc' = [proc EXCEPT ![p] = "up"] /\ out' = [out EXCEPT ![p] = {"ready"}]
    /\ UNCHANGED <<status, transport, children, call, shut, controller, boot, app, stuck, killed,
                   hurried, faults>>

\* It answers what was sent to it; the answer may arrive after the timeout.
CoreAnswers(p) == \E c \in Calls :
    /\ proc[p] = "up" /\ call[c] = p /\ c \notin out[p]
    /\ out' = [out EXCEPT ![p] = @ \cup {c}]
    /\ UNCHANGED <<status, transport, children, call, shut, controller, boot, app, proc,
                   stuck, killed, hurried, faults>>

\* It ends when it was asked to, killed, or left alone; or it crashes.
Ends(p) == \/ p \in killed \/ app = "exited"
           \/ p = shut.target /\ call["shutdown"] # "none"
CoreDies(p) ==
    /\ Alive(p) /\ p \notin stuck
    /\ IF Ends(p) THEN NoFault ELSE Fault("crash")
    /\ proc' = [proc EXCEPT ![p] = "dead"]
    /\ UNCHANGED <<status, transport, children, call, shut, controller, boot, app, out,
                   stuck, killed, hurried>>

\* It hangs, and no signal reaches it.
CoreSticks(p) ==
    /\ Alive(p) /\ Fault("stuck")
    /\ stuck' = stuck \cup {p}
    /\ UNCHANGED <<status, transport, children, call, shut, controller, boot, app, proc, out,
                   killed, hurried>>

-----------------------------------------------------------------------------
\* What awaits something settled goes on before the next turn.
Microtask == app # "exited" /\ (\/ BootGoesOn \/ BootFails \/ BootEnds
                               \/ ShutdownAnswered \/ ShutdownClosed \/ QuitDone)
Awaiting  == \/ boot \in {"start", "hello", "health"} /\ Awaited \in Good \cup {"failed"}
             \/ BootFailed
             \/ shut.stage = "asked" /\ ~Pending("shutdown")
             \/ shut.stage \in {"closing", "killing"} /\ child # shut.target
             \/ app = "shutdown" /\ shut.stage = "none"

\* The event loop turns only while the application runs.
Turns == app # "exited" /\ ~Awaiting

Core(p) == CoreReady(p) \/ CoreAnswers(p) \/ CoreDies(p) \/ CoreSticks(p)

\* The application is gone, and so is every core that can be ended.
Finished == app = "exited" /\ (\A p \in Cores : Alive(p) => p \in stuck) /\ UNCHANGED vars

Next ==
    \/ Microtask
    \/ Turns /\ Bootstrap
    \/ Turns /\ RestartFires
    \/ Turns /\ StabilityFires
    \/ Turns /\ ReadyArrives
    \/ Turns /\ ResponseArrives
    \/ Turns /\ ExitArrives
    \/ Turns /\ CloseArrives
    \/ Turns /\ RequestExpires
    \/ Turns /\ ChildFails
    \/ Turns /\ ShutdownKills
    \/ Turns /\ ShutdownGivesUp
    \/ Turns /\ AppRequests
    \/ Turns /\ Quit
    \/ Turns /\ ExportsStopped
    \/ Turns /\ QuitAgain
    \/ \E p \in Cores : Core(p)
    \/ Finished

\* The event loop goes on, timers fire, events arrive, PDF exports stop, and a
\* process that was asked or forced to end does so unless it is stuck. Nobody
\* has to quit, to ask or to fail.
Fairness ==
    /\ WF_vars(Microtask)
    /\ WF_vars(Turns /\ Bootstrap) /\ WF_vars(Turns /\ ExportsStopped)
    /\ WF_vars(Turns /\ RestartFires) /\ WF_vars(Turns /\ RequestExpires)
    /\ WF_vars(Turns /\ startTimer /\ ChildFails)
    /\ WF_vars(Turns /\ ShutdownKills) /\ WF_vars(Turns /\ ShutdownGivesUp)
    /\ WF_vars(Turns /\ ExitArrives) /\ WF_vars(Turns /\ CloseArrives)
    /\ WF_vars(Turns /\ ReadyArrives) /\ WF_vars(Turns /\ ResponseArrives)
    /\ \A p \in Cores : WF_vars(Ends(p) /\ CoreDies(p))

Spec == Init /\ [][Next]_vars
FairSpec == Spec /\ Fairness

-----------------------------------------------------------------------------
\* The types of the variables; attempts stay within their limit.
TypeOK ==
    /\ status \in {"stopped", "starting", "ready", "unavailable", "stopping"}
    /\ child \in Cores \cup {None}
    /\ metadata \in BOOLEAN /\ startTimer \in BOOLEAN /\ intentional \in BOOLEAN
    /\ startPromise \in {"none", "open", "ready", "failed"}
    /\ lifecycle \in {"none", "expected", "unexpected"} /\ errorTimer \in BOOLEAN
    /\ call \in [Calls -> {"none", "ok", "failed"} \cup Cores]
    /\ shut \in [stage : {"none", "asked", "closing", "killing"}, target : Cores \cup {None}]
    /\ attempts \in 0..MaxAttempts
    /\ restartTimer \in BOOLEAN /\ stabilityTimer \in BOOLEAN /\ inFlight \in BOOLEAN
    /\ crashDuring \in BOOLEAN /\ exhausted \in BOOLEAN /\ windows \in 0..MaxStable
    /\ boot \in {"begin", "start", "hello", "health", "failing", "idle"}
    /\ app \in {"running", "exports", "shutdown", "exited"}
    /\ proc \in [Cores -> {"none", "booting", "up", "dead"}]
    /\ out \in [Cores -> SUBSET (Calls \cup {"ready"})]
    /\ killed \subseteq Cores /\ stuck \subseteq Cores
    /\ hurried \in BOOLEAN /\ faults \in 0..MaxFaults

\* A core that nobody has told to end is the one the client holds: a restart
\* never runs a second core beside a healthy one, and a quit that is waited for
\* leaves none behind (main.ts:787-791, core-client.ts:406-447).
OneCore == \A p \in Cores :
    Alive(p) /\ p \notin killed => p = child /\ (app = "exited" => hurried)

\* A core that was lost comes back, or the budget is spent: however it was lost,
\* a restart is always under way (core-client.ts:635-677, restart-controller.ts:62-70).
Recovers ==
    (child = None /\ \E p \in Cores : proc[p] # "none")
        ~> (child # None \/ exhausted \/ Quitting)

\* Quitting ends, also when the core neither answers nor dies
\* (main.ts:1479-1487, 1588-1603, core-client.ts:406-447).
QuitEnds == Quitting ~> app = "exited"

=============================================================================
