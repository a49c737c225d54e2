-------------------------- MODULE MCSlideTracking --------------------------
(***************************************************************************)
(* LiveSession for TLC, as its slides go: three slides of which the second *)
(* is hidden, a watcher and one that may have to follow it, two runs, two  *)
(* requests, one move of the slide show and one failure. No assist is made *)
(* meanwhile: MCLiveAssist is about them.                                  *)
(***************************************************************************)
EXTENDS LiveSession

CONSTANTS w1, w2

MCSpec == /\ Init /\ policy = [mode |-> "local", acked |-> FALSE] /\ P!Init
          /\ [][P!Next /\ UNCHANGED vars]_<<vars, showVars>>
          /\ P!Fairness

\* A run that keeps being watched follows PowerPoint.
FollowsPowerPoint == P!FollowsPowerPoint
=============================================================================
