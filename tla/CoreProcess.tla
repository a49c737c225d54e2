----------------------------- MODULE CoreProcess -----------------------------
(***************************************************************************)
(* The core process from its two sides: what it does with the files of     *)
(* projects, and reconciles when it starts (Deletion), and how the desktop *)
(* starts, restarts and ends it (CoreClient). Deletion has one process at  *)
(* a time, which may die between any two writes; that there is no second   *)
(* one that nobody has told to end is what OneCore says of the desktop.    *)
(* The two share no state: the files say nothing of who started a process. *)
(***************************************************************************)
EXTENDS Deletion

CONSTANTS Cores, AppCalls, MaxAttempts, MaxStable, ClientFaults, MaxClientFaults  \* of CoreClient

VARIABLES
    status, child, metadata, startPromise, startTimer, intentional, lifecycle, errorTimer, call,
    shut, attempts, restartTimer, stabilityTimer, inFlight, crashDuring, exhausted, boot, app,
    proc, out, killed, stuck, hurried, windows, clientFaults  \* of CoreClient

clientVars ==
    <<status, child, metadata, startPromise, startTimer, intentional, lifecycle, errorTimer, call,
      shut, attempts, restartTimer, stabilityTimer, inFlight, crashDuring, exhausted, boot, app,
      proc, out, killed, stuck, hurried, windows, clientFaults>>

K == INSTANCE CoreClient WITH Faults <- ClientFaults, MaxFaults <- MaxClientFaults,
                              faults <- clientFaults
ASSUME ClientAssumed == K!ClientAssumption

\* The desktop never runs a second core beside one that nobody has told to end.
OneCore == K!OneCore
=============================================================================
