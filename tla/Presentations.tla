---------------------------- MODULE Presentations ----------------------------
(***************************************************************************)
(* What becomes of one presentation: its revisions, plans and packages     *)
(* (Revisions), and the slides in them (Deck). The two share no state: a   *)
(* revision of Revisions is the name of a package, whose slides are those  *)
(* that Deck has after the same edit.                                      *)
(***************************************************************************)
EXTENDS Revisions

CONSTANTS SlideLimit, MaxSlideId, Imports, Other, MaxRevs  \* of Deck

VARIABLES deck, number, copied  \* of Deck

deckVars == <<deck, number, copied>>

D == INSTANCE Deck
ASSUME DeckAssumed == D!DeckAssumption

\* Links lead to the slides they were made to lead to.
LinksLead == D!LinksLead

\* The sections follow the slides.
SectionsFollow == D!SectionsFollow

\* An edit leaves the other slides as they are, and a copy is one.
OthersUntouched == D!OthersUntouched
=============================================================================
