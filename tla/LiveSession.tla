----------------------------- MODULE LiveSession -----------------------------
(***************************************************************************)
(* A session that presents: the assists of LiveAssist, and the slide that  *)
(* is on screen (SlideTracking). Both begin and end with the session, each *)
(* on threads and rows of its own. An assist reads the number of the slide *)
(* and the presentation knows nothing of assists, so the two share nothing *)
(* but the request thread, which either is free to serve next.             *)
(***************************************************************************)
EXTENDS LiveAssist

CONSTANTS
    LastSlide, Hidden, MaxEvents, Watchers, MaxRuns, MaxRequests, MaxMoves, ShowFaults,
    MaxShowFaults  \* of SlideTracking

VARIABLES
    show, active, timeline, running, mode, stopSet, current, watcher, base, pc, on, slide, at,
    latest, task, target, starting, now, made, chosen, overrun, disturbed, requests, moves,
    showFaults  \* of SlideTracking

showVars ==
    <<show, active, timeline, running, mode, stopSet, current, watcher, base, pc, on, slide, at,
      latest, task, target, starting, now, made, chosen, overrun, disturbed, requests, moves,
      showFaults>>

P == INSTANCE SlideTracking WITH registered <- running, seen <- latest,
        Faults <- ShowFaults, MaxFaults <- MaxShowFaults, faults <- showFaults
ASSUME SlideAssumed == P!SlideAssumption

\* A slide that was set by hand stays until the next detect.
ManualHolds == P!ManualHolds

\* The timeline holds the changes, in order, up to the slide the run is on.
TimelineFaithful == P!TimelineFaithful
=============================================================================
