--------------------------- MODULE MCAnalysisJobs ---------------------------
(* Instances of AnalysisJobs for TLC: j1 and j3 analyse one Run with a       *)
(* remote and a local provider, j2 compares it with another one.             *)
EXTENDS AnalysisJobs

CONSTANTS j1, j2, j3, s1, s2

MCOwner  == [j \in Jobs |-> s1]
MCSecond == [j \in Jobs |-> IF j = j2 THEN s2 ELSE None]
=============================================================================
