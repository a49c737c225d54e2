--------------------------- MODULE SlideTracking ---------------------------
(***************************************************************************)
(* Which slide is on screen, and the slide timeline of one session:        *)
(* core/presenter_core/presentation/service.py (SlideStateService).        *)
(*                                                                         *)
(* The request thread serves detect, manual navigation and stop; for a run *)
(* that follows PowerPoint a watcher thread polls the slide show. Both     *)
(* persist a slide in four steps: compare with the run's current slide     *)
(* under the lock, read the session and the latest event of the timeline,  *)
(* insert and commit, set the current slide under the lock. A run is one   *)
(* _ActivePresentation: stopping and starting again makes a new one.       *)
(* Time counts inserted events, each of which takes the database longer    *)
(* than the millisecond that timestamps resolve.                           *)
(***************************************************************************)
EXTENDS Naturals, Sequences, SequencesExt

CONSTANTS
    LastSlide,     \* slides of the presentation
    Hidden,        \* slides the show skips
    MaxEvents,     \* MAX_SLIDE_EVENTS_PER_SESSION
    Watchers,      \* thread identities
    MaxRuns,       \* bound: _ActivePresentation objects
    MaxRequests,   \* bound: requests of the presenter
    MaxMoves,      \* bound: changes of the slide show
    Faults,        \* the kinds of failure that may happen
    MaxFaults      \* bound: failures

Control    == "control"
Threads    == {Control} \cup Watchers
Slides     == 1..LastSlide
Runs       == 1..MaxRuns
FaultKinds == {"join", "db", "session"}
Manual     == {"set", "next", "previous"}
Tasks      == Manual \cup {"none", "start", "detect", "stop"}

SlideAssumption ==
    /\ LastSlide \in Nat \ {0} /\ Hidden \subseteq Slides
    /\ MaxEvents \in Nat \ {0} /\ MaxRuns \in Nat \ {0}
    /\ Control \notin Watchers /\ "none" \notin Watchers
    /\ MaxRequests \in Nat /\ MaxMoves \in Nat
    /\ Faults \subseteq FaultKinds /\ MaxFaults \in Nat

VARIABLES
    show,          \* the slide PowerPoint reports; 0: unavailable or another deck
    \* Durable: the session row and its events in the order they are read back.
    active, timeline,
    \* SlideStateService: the registered run (0: none) and the fields of each run.
    registered, mode, stopSet, current, watcher, base,
    \* Each thread: where it is, the run it works for and the slide it persists.
    pc, on, slide, at, seen,
    \* The request being served.
    task, target, starting,
    \* History.
    now,           \* inserts so far
    made,          \* runs so far
    chosen,        \* the slide the presenter took control with, 0: PowerPoint may lead
    overrun,       \* a join gave up on a watcher that was still alive
    disturbed,     \* two threads persisted at once, or a run continued a timeline
    requests, moves, faults

durable == <<active, timeline>>
runVars == <<registered, mode, stopSet, current, watcher, base, made>>
threads == <<pc, on, slide, at, seen>>
request == <<task, target, starting>>
history == <<now, chosen, overrun, disturbed>>
bounds  == <<requests, moves, faults>>
vars == <<show, durable, runVars, threads, request, history, bounds>>

Fault(k) == k \in Faults /\ faults < MaxFaults /\ faults' = faults + 1
NoFault  == faults' = faults

Init ==
    /\ show \in 0..LastSlide
    /\ active = TRUE /\ timeline = <<>>
    /\ registered = 0 /\ made = 0
    /\ mode = [r \in Runs |-> "manual"]
    /\ stopSet = [r \in Runs |-> FALSE]
    /\ current = [r \in Runs |-> 0]
    /\ watcher = [r \in Runs |-> "none"]
    /\ base = [r \in Runs |-> 0]
    /\ pc = [t \in Threads |-> IF t = Control THEN "start" ELSE "dead"]
    /\ on = [t \in Threads |-> 1]
    /\ slide = [t \in Threads |-> 0]
    /\ at = [t \in Threads |-> 0]
    /\ seen = [t \in Threads |-> 0]
    /\ task = "start" /\ target = 0 /\ starting = FALSE
    /\ now = 0 /\ chosen = 0 /\ overrun = FALSE /\ disturbed = FALSE
    /\ requests = 0 /\ moves = 0 /\ faults = 0

Persisting(t) == pc[t] \in {"readdb", "insert", "apply"}
Alive(t)      == t \in Watchers /\ pc[t] # "dead"
Goto(t, place) == pc' = [pc EXCEPT ![t] = place]
\* Serving ends.
Done == Goto(Control, "idle") /\ task' = "none" /\ starting' = FALSE /\ UNCHANGED target

-----------------------------------------------------------------------------
(* The slide show and the requests.                                        *)

\* The presenter moves on in PowerPoint, or the slide show ends or is another one.
Move == \E s \in (0..LastSlide) \ {show} :
    /\ moves < MaxMoves /\ moves' = moves + 1
    /\ show' = s
    /\ UNCHANGED <<durable, runVars, threads, request, history, requests, faults>>

\* A request names an active session; its run is started when there is none.
Request == \E op \in Manual \cup {"detect", "stop"} : \E s \in Slides :
    /\ pc[Control] = "idle" /\ active /\ requests < MaxRequests
    /\ op # "set" => s = 1
    /\ op # "stop" /\ registered = 0 => made < MaxRuns
    /\ requests' = requests + 1
    /\ task' = op /\ target' = s /\ starting' = FALSE
    /\ chosen' = IF op = "detect" \/ registered = 0 THEN 0 ELSE chosen
    /\ Goto(Control, CASE op = "stop" -> "stop"
                       [] op # "stop" /\ registered = 0 -> "start"
                       [] op = "detect" /\ registered # 0 -> "detect"
                       [] op \in Manual /\ registered # 0 -> "override")
    /\ UNCHANGED <<show, durable, runVars, on, slide, at, seen, now, overrun, disturbed,
                   moves, faults>>

\* start_run: PowerPoint is asked for its slide; without it the run is manual
\* and begins on the slide the session names.
StartRun == \E s \in Slides :
    /\ pc[Control] = "start" /\ made < MaxRuns
    /\ show # 0 => s = show
    /\ made' = made + 1 /\ registered' = made + 1
    /\ mode' = [mode EXCEPT ![made + 1] = IF show # 0 THEN "powerpoint" ELSE "manual"]
    /\ base' = [base EXCEPT ![made + 1] = now]
    /\ on' = [on EXCEPT ![Control] = made + 1]
    /\ slide' = [slide EXCEPT ![Control] = s]
    /\ Goto(Control, "check")
    /\ starting' = TRUE
    /\ disturbed' = (disturbed \/ timeline # <<>>)
    /\ UNCHANGED <<show, durable, stopSet, current, watcher, at, seen, task, target, now,
                   chosen, overrun, bounds>>

-----------------------------------------------------------------------------
(* _persist_slide, by the request thread and by watchers.                  *)

Unneeded(t) == registered # on[t] \/ current[on[t]] = slide[t]

Check(t) ==
    /\ pc[t] = "check" /\ ~Unneeded(t)
    /\ Goto(t, "readdb")
    /\ at' = [at EXCEPT ![t] = IF starting /\ t = Control THEN 0 ELSE now - base[on[t]]]
    /\ disturbed' = (disturbed \/ \E u \in Threads \ {t} : Persisting(u))
    /\ UNCHANGED <<show, durable, runVars, on, slide, seen, request, now, chosen, overrun, bounds>>

\* What follows persisting: a watcher polls again, a started or detected run
\* that follows PowerPoint gets a watcher, a manual request goes on or is done.
Persisted(t) ==
    IF t # Control
    THEN Goto(t, "wait") /\ UNCHANGED <<request, chosen>>
    ELSE IF (IF starting THEN mode[on[t]] = "powerpoint" ELSE task = "detect")
    THEN Goto(t, "watch") /\ UNCHANGED <<request, chosen>>
    ELSE IF starting /\ task \in Manual
    THEN Goto(t, "override") /\ starting' = FALSE /\ UNCHANGED <<task, target, chosen>>
    ELSE chosen' = (IF starting THEN chosen ELSE slide[t]) /\ Done

CheckReturns(t) ==
    /\ pc[t] = "check" /\ Unneeded(t)
    /\ Persisted(t)
    /\ UNCHANGED <<show, durable, runVars, on, slide, at, seen, now, overrun, disturbed, bounds>>

Full == Len(timeline) >= MaxEvents

\* MUTANT: the events are read oldest first.
Oldest == IF timeline = <<>> THEN 0 ELSE Head(timeline).slide

Latest == IF timeline = <<>> THEN 0 ELSE Last(timeline).slide

\* The session has ended: nothing is written.
ReadEnded(t) ==
    /\ pc[t] = "readdb" /\ ~active
    /\ Persisted(t)
    /\ UNCHANGED <<show, durable, runVars, on, slide, at, seen, now, overrun, disturbed, bounds>>

\* Serving fails; a run that was being started is taken out again, and
\* session.start ends the session it had made (ipc/core.py:1262-1278).
RequestFails ==
    /\ registered' = IF starting THEN 0 ELSE registered
    /\ active' = (active /\ task # "start")
    /\ Done
    /\ UNCHANGED <<mode, stopSet, current, watcher, base, made, timeline, chosen>>

\* The timeline is at its bound: a watcher hands over to manual control.
ReadFull(t) ==
    /\ pc[t] = "readdb" /\ active /\ Full
    /\ IF t = Control THEN RequestFails
       ELSE Goto(t, "switch") /\ UNCHANGED <<durable, runVars, request, chosen>>
    /\ UNCHANGED <<show, on, slide, at, seen, now, overrun, disturbed, bounds>>

ReadLatest(t) ==
    /\ pc[t] = "readdb" /\ active /\ ~Full
    /\ Goto(t, IF Latest = slide[t] THEN "apply" ELSE "insert")
    /\ seen' = [seen EXCEPT ![t] = IF timeline = <<>> THEN 0 ELSE Last(timeline).at]
    /\ UNCHANGED <<show, durable, runVars, on, slide, at, request, history, bounds>>

\* Events are read back by timestamp and then by their random id, so among
\* equal timestamps the new event may come anywhere.
Timestamp(t) == IF seen[t] > at[t] THEN seen[t] ELSE at[t]

Insert(t) ==
    /\ pc[t] = "insert"
    /\ \E i \in 1..(Len(timeline) + 1) :
          /\ \A j \in 1..Len(timeline) : IF j < i THEN timeline[j].at <= Timestamp(t)
                                                  ELSE timeline[j].at >= Timestamp(t)
          /\ timeline' = InsertAt(timeline, i, [slide |-> slide[t], at |-> Timestamp(t)])
    /\ now' = now + 1
    /\ Goto(t, "apply")
    /\ UNCHANGED <<show, active, runVars, on, slide, at, seen, request, chosen, overrun,
                   disturbed, bounds>>

\* SQLite refuses the write: a watcher, which expects only domain errors, dies.
InsertFails(t) ==
    /\ pc[t] = "insert" /\ Fault("db")
    /\ IF t = Control THEN RequestFails
       ELSE Goto(t, "dead") /\ UNCHANGED <<durable, runVars, request, chosen>>
    /\ UNCHANGED <<show, on, slide, at, seen, now, overrun, disturbed, requests, moves>>

\* MUTANT: the stored slide is made current only when no other one was current.
AppliesFirstOnly(t) ==
    /\ pc[t] = "apply"
    /\ current' = [current EXCEPT ![on[t]] = IF @ = 0 THEN slide[t] ELSE @]
    /\ Persisted(t)
    /\ UNCHANGED <<show, durable, registered, mode, stopSet, watcher, base, made, on, slide, at,
                   seen, now, overrun, disturbed, bounds>>

Apply(t) ==
    /\ pc[t] = "apply"
    /\ current' = [current EXCEPT ![on[t]] = slide[t]]
    /\ Persisted(t)
    /\ UNCHANGED <<show, durable, registered, mode, stopSet, watcher, base, made, on, slide, at,
                   seen, now, overrun, disturbed, bounds>>

-----------------------------------------------------------------------------
(* The request thread.                                                     *)

\* _start_watcher: a watcher that is still alive is taken to be watching.
StartWatcher == \E w \in Watchers :
    /\ pc[Control] = "watch"
    /\ LET r == on[Control] IN
       IF Alive(watcher[r])
       THEN /\ UNCHANGED <<stopSet, watcher, on>>
            /\ w = watcher[r]
            /\ pc' = [pc EXCEPT ![Control] = IF task \in Manual THEN "override" ELSE "idle"]
       ELSE /\ pc[w] = "dead" /\ \A q \in Runs \ {r} : watcher[q] # w
            /\ stopSet' = [stopSet EXCEPT ![r] = FALSE]
            /\ watcher' = [watcher EXCEPT ![r] = w]
            /\ on' = [on EXCEPT ![w] = r]
            /\ pc' = [pc EXCEPT ![w] = "wait",
                                ![Control] = IF task \in Manual THEN "override" ELSE "idle"]
    /\ starting' = FALSE
    /\ task' = IF task \in Manual THEN task ELSE "none"
    /\ UNCHANGED <<show, durable, registered, mode, current, base, made, slide, at, seen, target,
                   history, bounds>>

\* detect: PowerPoint is read without the lock ...
Detect ==
    /\ pc[Control] = "detect"
    /\ on' = [on EXCEPT ![Control] = registered]
    /\ slide' = [slide EXCEPT ![Control] = show]
    /\ Goto(Control, IF show = 0 THEN "switch" ELSE "follow")
    /\ UNCHANGED <<show, durable, runVars, at, seen, request, history, bounds>>

\* ... and the run follows it from then on.
Follow ==
    /\ pc[Control] = "follow"
    /\ mode' = [mode EXCEPT ![on[Control]] = "powerpoint"]
    /\ Goto(Control, "check")
    /\ UNCHANGED <<show, durable, registered, stopSet, current, watcher, base, made, on, slide, at,
                   seen, request, history, bounds>>

\* set_slide, next_slide and previous_slide take control first.
Override ==
    /\ pc[Control] = "override"
    /\ on' = [on EXCEPT ![Control] = registered]
    /\ Goto(Control, IF mode[registered] = "powerpoint" THEN "switch" ELSE "navigate")
    /\ UNCHANGED <<show, durable, runVars, slide, at, seen, request, history, bounds>>

\* MUTANT: the mode is switched, the watcher is not stopped.
LeavesWatcher(t) ==
    /\ pc[t] = "switch"
    /\ mode' = [mode EXCEPT ![on[t]] = IF registered = on[t] THEN "manual" ELSE @]
    /\ Goto(t, IF t = Control THEN "switched" ELSE "leaving")
    /\ UNCHANGED <<show, durable, registered, stopSet, current, watcher, base, made, on, slide, at,
                   seen, request, history, bounds>>

\* _switch_to_manual, under the lock. A watcher that calls it still has its
\* event to emit before it ends; the request thread waits for the watcher.
Switch(t) ==
    /\ pc[t] = "switch"
    /\ IF registered = on[t]
       THEN /\ mode' = [mode EXCEPT ![on[t]] = "manual"]
            /\ stopSet' = [stopSet EXCEPT ![on[t]] = TRUE]
            /\ Goto(t, IF t # Control THEN "leaving"
                       ELSE IF mode[on[t]] = "powerpoint" THEN "join" ELSE "switched")
       ELSE /\ UNCHANGED <<mode, stopSet>>
            /\ Goto(t, IF t = Control THEN "switched" ELSE "leaving")
    /\ UNCHANGED <<show, durable, registered, current, watcher, base, made, on, slide, at, seen,
                   request, history, bounds>>

\* The wait for a watcher gives up after a second.
Joined ==
    \/ ~Alive(watcher[on[Control]]) /\ NoFault /\ UNCHANGED overrun
    \/ Alive(watcher[on[Control]]) /\ Fault("join") /\ overrun' = TRUE

Join ==
    /\ pc[Control] = "join"
    /\ Joined
    /\ Goto(Control, IF task = "stop" THEN "pop" ELSE "switched")
    /\ UNCHANGED <<show, durable, runVars, on, slide, at, seen, request, now, chosen, disturbed,
                   requests, moves>>

Switched ==
    /\ pc[Control] = "switched"
    /\ IF task = "detect" THEN Done
       ELSE Goto(Control, "navigate") /\ UNCHANGED request
    /\ UNCHANGED <<show, durable, runVars, on, slide, at, seen, history, bounds>>

\* _step: the nearest shown slide in that direction, or the one it is on.
Shown == Slides \ Hidden
Step(s) == LET here  == IF s = 0 THEN 1 ELSE s
               later == {x \in Shown : x > here}
               prior == {x \in Shown : x < here}
           IN  IF task = "next"
               THEN IF later = {} THEN here ELSE CHOOSE x \in later : \A y \in later : x <= y
               ELSE IF prior = {} THEN here ELSE CHOOSE x \in prior : \A y \in prior : x >= y

Navigate ==
    /\ pc[Control] = "navigate"
    /\ slide' = [slide EXCEPT ![Control] = IF task = "set" THEN target ELSE Step(current[registered])]
    /\ Goto(Control, "check")
    /\ UNCHANGED <<show, durable, runVars, on, at, seen, request, history, bounds>>

\* stop_run, then the session row. A stop that fails on the row may be retried;
\* its run is gone by then.
StopRun ==
    /\ pc[Control] = "stop"
    /\ on' = [on EXCEPT ![Control] = IF registered = 0 THEN @ ELSE registered]
    /\ stopSet' = [r \in Runs |-> stopSet[r] \/ r = registered]
    /\ Goto(Control, IF registered = 0 THEN "end" ELSE "join")
    /\ UNCHANGED <<show, durable, registered, mode, current, watcher, base, made, slide, at, seen,
                   request, history, bounds>>

PopRun ==
    /\ pc[Control] = "pop"
    /\ registered' = 0
    /\ Goto(Control, "end")
    /\ UNCHANGED <<show, durable, mode, stopSet, current, watcher, base, made, on, slide, at, seen,
                   request, history, bounds>>

EndSession ==
    /\ pc[Control] = "end"
    /\ \/ NoFault /\ active' = FALSE
       \/ Fault("session") /\ UNCHANGED active
    /\ Done
    /\ UNCHANGED <<show, timeline, runVars, on, slide, at, seen, history, requests, moves>>

-----------------------------------------------------------------------------
(* A watcher: poll, read PowerPoint, persist a change.                     *)

Poll(w) ==
    /\ pc[w] = "wait"
    /\ Goto(w, IF stopSet[on[w]] \/ registered # on[w] \/ mode[on[w]] # "powerpoint"
               THEN "dead" ELSE "read")
    /\ UNCHANGED <<show, durable, runVars, on, slide, at, seen, request, history, bounds>>

ReadShow(w) ==
    /\ pc[w] = "read"
    /\ slide' = [slide EXCEPT ![w] = IF show = 0 THEN @ ELSE show]
    /\ Goto(w, IF show = 0 THEN "switch" ELSE "check")
    /\ UNCHANGED <<show, durable, runVars, on, at, seen, request, history, bounds>>

Leave(w) ==
    /\ pc[w] = "leaving"
    /\ Goto(w, "dead")
    /\ UNCHANGED <<show, durable, runVars, on, slide, at, seen, request, history, bounds>>

-----------------------------------------------------------------------------
Persist(t) == \/ Check(t) \/ CheckReturns(t) \/ ReadEnded(t) \/ ReadFull(t) \/ ReadLatest(t)
              \/ Insert(t) \/ Apply(t) \/ Switch(t)
WatcherStep(w) == Persist(w) \/ Poll(w) \/ ReadShow(w) \/ Leave(w)
ControlStep == \/ Persist(Control) \/ StartRun \/ StartWatcher \/ Detect \/ Follow \/ Override
               \/ Join \/ Switched \/ Navigate \/ StopRun \/ PopRun \/ EndSession

\* The session has ended, or the bound on requests is reached, and no watcher is left.
Ended == /\ ~active \/ requests = MaxRequests
         /\ pc[Control] = "idle" /\ \A w \in Watchers : pc[w] = "dead"
Finished == Ended /\ UNCHANGED vars

Next == \/ Move \/ Request \/ ControlStep \/ Finished
        \/ \E t \in Threads : InsertFails(t)
        \/ \E w \in Watchers : WatcherStep(w)

Spec == Init /\ [][Next]_vars

\* Threads keep running; neither the presenter nor PowerPoint has to do anything.
Fairness == WF_vars(ControlStep) /\ \A w \in Watchers : WF_vars(WatcherStep(w))
FairSpec == Spec /\ Fairness

-----------------------------------------------------------------------------
(* Correctness.                                                            *)

Places == {"start", "idle", "detect", "follow", "override", "switch", "join", "switched",
           "navigate", "check", "readdb", "insert", "apply", "watch", "stop", "pop", "end",
           "dead", "wait", "read", "leaving"}

\* Type invariant: the fields of the runs, the threads and the timeline.
TypeOK ==
    /\ show \in 0..LastSlide /\ active \in BOOLEAN
    /\ timeline \in Seq([slide : Slides, at : Nat])
    /\ registered \in 0..MaxRuns /\ made \in 0..MaxRuns
    /\ mode \in [Runs -> {"powerpoint", "manual"}] /\ stopSet \in [Runs -> BOOLEAN]
    /\ current \in [Runs -> 0..LastSlide] /\ watcher \in [Runs -> Watchers \cup {"none"}]
    /\ base \in [Runs -> Nat]
    /\ pc \in [Threads -> Places] /\ on \in [Threads -> Runs]
    /\ slide \in [Threads -> 0..LastSlide] /\ at \in [Threads -> Nat] /\ seen \in [Threads -> Nat]
    /\ task \in Tasks /\ target \in 0..LastSlide /\ starting \in BOOLEAN
    /\ now \in Nat /\ chosen \in 0..LastSlide /\ overrun \in BOOLEAN /\ disturbed \in BOOLEAN
    /\ requests \in 0..MaxRequests /\ moves \in 0..MaxMoves /\ faults \in 0..MaxFaults

\* Once the presenter has set a slide by hand, it stays: no slide that a watcher
\* had read, or was about to store, replaces it before the next detect. Only a
\* watcher that outlives the one-second join of _switch_to_manual may do that.
ManualHolds ==
    pc[Control] = "idle" /\ registered # 0 /\ chosen # 0 /\ ~overrun
        => mode[registered] = "manual" /\ current[registered] = chosen

\* As long as no two threads persist at once and no run continues the timeline
\* of another, the timeline holds actual changes only, in the order of their
\* times, and ends with the slide the run is on.
TimelineFaithful ==
    ~disturbed =>
        /\ \A i \in 1..(Len(timeline) - 1) :
              /\ timeline[i].slide # timeline[i + 1].slide
              /\ timeline[i].at <= timeline[i + 1].at
        /\ (registered # 0 /\ current[registered] # 0 /\ \A t \in Threads : ~Persisting(t))
              => Last(timeline).slide = current[registered]

\* A run that keeps being watched follows PowerPoint to the slide it stays on,
\* and cannot be watched for ever when PowerPoint is gone (service.py:313-349).
Watched == /\ registered # 0 /\ mode[registered] = "powerpoint"
           /\ ~stopSet[registered] /\ Alive(watcher[registered])
FollowsPowerPoint ==
    \A s \in 0..LastSlide : <>[](show = s /\ Watched) => s # 0 /\ <>[](Watched /\ current[registered] = s)

=============================================================================
