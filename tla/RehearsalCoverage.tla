-------------------------- MODULE RehearsalCoverage --------------------------
(***************************************************************************)
(* What was recorded of each slide of a presentation in a rehearsal of an  *)
(* earlier revision of it                                                  *)
(* (core/presenter_core/presentation/rehearsal_coverage.py). A session is  *)
(* bound to the revision that is current when it begins                    *)
(* (core/presenter_core/session/service.py); the report joins that         *)
(* revision and the current one by the identifiers of their slides.        *)
(***************************************************************************)
EXTENDS Deck

VARIABLES
    rehearsed,  \* the slides of the revision that the ended session is bound to
    shown,      \* the ordinals of its slide events
    spoken      \* the ordinals that utterances were recorded at

coverage == <<rehearsed, shown, spoken>>

CoverageInit == Init /\ rehearsed = None /\ shown = {} /\ spoken = {}

\* The session begins, PowerPoint shows some slides, the presenter speaks at some, and it ends.
Rehearse(visits, speech) ==
    /\ rehearsed = None
    /\ rehearsed' = deck.order /\ shown' = visits /\ spoken' = speech
    /\ UNCHANGED vars

\* inspect_coverage: the slides of both revisions.
Source(id) == {o \in DOMAIN rehearsed : rehearsed[o].id = id}
Identities == {s.id : s \in Slides(deck) \cup ToSet(rehearsed)}

Status(id) ==
    CASE Source(id) = {}             -> "not_rehearsed_revision"
      [] Source(id) \cap spoken # {} -> "recorded_speech"
      [] Source(id) \cap shown # {}  -> "visited_without_recorded_speech"
      [] OTHER                       -> "no_recorded_visit_or_speech"
Report == [id \in Identities |-> Status(id)]

CoverageNext ==
    \/ \E visits \in SUBSET (1..SlideLimit) : \E speech \in SUBSET visits : Rehearse(visits, speech)
    \/ Next /\ UNCHANGED coverage

CoverageSpec == CoverageInit /\ [][CoverageNext]_<<vars, coverage>>

\* A slide added since the rehearsal has no observations of it
\* (docs/PRODUCTION_READINESS.md:1822-1823). Violated: a new slide takes the identifier of the
\* last one, if that was deleted (editing.py:6067), and is reported as rehearsed.
AddedSlidesUnobserved ==
    rehearsed # None => \A s \in Slides(deck) :
        (\A t \in ToSet(rehearsed) : t.born # s.born) => Report[s.id] = "not_rehearsed_revision"

=============================================================================
