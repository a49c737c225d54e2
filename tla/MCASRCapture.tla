---------------------------- MODULE MCASRCapture ----------------------------
(* Instances of ASRCapture for TLC: one session of each kind of owner.       *)
EXTENDS ASRCapture

CONSTANTS run, teach, workspace

MCMode == [s \in Sessions |-> CASE s = run       -> "run"
                                [] s = teach     -> "teach"
                                [] s = workspace -> "presentation_workspace"]
=============================================================================
