---------------------------- MODULE MCLiveAssist ----------------------------
(* Instances of LiveAssist for TLC: assists in the one Live Assist session   *)
(* of a project, both with a provider that leaves the machine.              *)
EXTENDS LiveAssist

CONSTANTS a1, a2
=============================================================================
