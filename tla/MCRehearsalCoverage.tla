------------------------- MODULE MCRehearsalCoverage -------------------------
(* RehearsalCoverage for TLC: with the presentations of MCDecks.             *)
EXTENDS RehearsalCoverage

Sample == INSTANCE MCDecks
MCImports == {Sample!Rich, Sample!Bare}
MCOther == Sample!Reusable
=============================================================================
