-------------------------- MODULE CancellableWork --------------------------
(***************************************************************************)
(* What the core promises of background work that can be cancelled: an     *)
(* accepted cancel keeps the result from being stored, whatever the worker *)
(* is doing, and work that has begun is settled. Told of the analysis jobs *)
(* in docs/PRODUCTION_READINESS.md:1391-1394; the same promise is expected *)
(* of the cues of Live Assist.                                             *)
(***************************************************************************)
CONSTANT Work
VARIABLE phase

Phases == {"new", "pending", "stopping", "stored", "dropped"}
TypeOK == phase \in [Work -> Phases]
Init == phase = [w \in Work |-> "new"]

Become(w, from, to) == phase[w] \in from /\ phase' = [phase EXCEPT ![w] = to]
Begin(w)  == Become(w, {"new"}, "pending")
Cancel(w) == Become(w, {"pending"}, "stopping")
Store(w)  == Become(w, {"pending"}, "stored")
Drop(w)   == Become(w, {"pending", "stopping"}, "dropped")

\* A drain or a newer request cancels several at once.
CancelSome == \E some \in SUBSET {w \in Work : phase[w] = "pending"} :
    phase' = [w \in Work |-> IF w \in some THEN "stopping" ELSE phase[w]]

Next == CancelSome \/ \E w \in Work : Begin(w) \/ Cancel(w) \/ Store(w) \/ Drop(w)
Spec == Init /\ [][Next]_phase

\* Work that has begun is settled, cancelled or not.
Settles == \A w \in Work : phase[w] = "pending" ~> phase[w] \in {"stored", "dropped"}
=============================================================================
