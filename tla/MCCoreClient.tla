---------------------------- MODULE MCCoreClient ----------------------------
(***************************************************************************)
(* CoreProcess for TLC, as the desktop sees it: the first core process,    *)
(* one for the automatic restart and one more, and one failure of any kind *)
(* beside a core that is slow, with the application quitting at any time.  *)
(* The files are left alone: MCDeletion is about them.                     *)
(***************************************************************************)
EXTENDS CoreProcess

CONSTANTS c1, c2, c3, r1

MCCores == {c1, c2, c3}
MCAppCalls == {r1}
MCFaults == {"spawn", "error", "crash", "stuck", "protocol"}  \* all kinds

MCSpec == /\ Init /\ K!Init
          /\ [][K!Next /\ UNCHANGED vars]_<<vars, clientVars>>
          /\ K!Fairness

\* A core that was lost comes back.
Recovers == K!Recovers

\* Quitting ends.
QuitEnds == K!QuitEnds
=============================================================================
