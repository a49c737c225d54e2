--------------------------- MODULE MCPresentations ---------------------------
(***************************************************************************)
(* Presentations for TLC: a behaviour is one of the revisions or one of    *)
(* the slides. There are identifiers enough for a plan, the revision it    *)
(* becomes and an edit beside it, two plans at a time, and two failures;   *)
(* or two presentations and three edits of each.                           *)
(***************************************************************************)
EXTENDS Presentations, TLC

CONSTANTS i1, i2, i3, i4

MCIds == {i1, i2, i3, i4}
MCFaults == FaultKinds
Symmetry == Permutations(MCIds)

Sample == INSTANCE MCDecks
MCImports == {Sample!Rich, Sample!Bare}
MCOther == Sample!Reusable

VARIABLE of  \* which of the two

MCInit ==
    /\ of \in {"revisions", "deck"}
    /\ Init /\ D!Init
    /\ of = "revisions" => deck = Sample!Bare

MCNext ==
    \/ of = "revisions" /\ Next /\ UNCHANGED <<of, deckVars>>
    \/ of = "deck" /\ D!Next /\ UNCHANGED <<of, vars>>
    \/ of = "deck" /\ number = MaxRevs /\ UNCHANGED <<of, vars, deckVars>>  \* the bound

MCSpec == MCInit /\ [][MCNext]_<<of, vars, deckVars>>
=============================================================================
