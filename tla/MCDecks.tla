------------------------------- MODULE MCDecks -------------------------------
(***************************************************************************)
(* Presentations for Deck under TLC: one whose first and third slides      *)
(* share a picture and whose second leads to the third, one whose sections *)
(* list a slide that is gone and miss one that is there, and one to reuse  *)
(* slides of.                                                              *)
(***************************************************************************)
EXTENDS Naturals, Sequences, SequencesExt

CONSTANT None

Slide(r, id, part, kinds, link) ==
    [id |-> id, part |-> part, born |-> <<r, id>>, link |-> link,
     notes   |-> IF "notes" \in kinds THEN <<"notes", part, 0>> ELSE None,
     chart   |-> IF "chart" \in kinds THEN <<"chart", r, id>> ELSE None,
     picture |-> IF "picture" \in kinds THEN <<"media", r, id>> ELSE None]
Hyperlink(to, born) == [type |-> "hyperlink", to |-> to, of |-> born]

DeckOf(order, sections) ==
    LET shows(s) == {s.notes, s.chart, s.picture} \ {None}
        of(p) == CHOOSE s \in ToSet(order) : p \in shows(s)
    IN [order |-> order, sections |-> sections,
        data |-> [p \in UNION {shows(s) : s \in ToSet(order)} |-> of(p).born]]

First == Slide(1, 256, 1, {"notes", "chart", "picture"}, None)
Rich == DeckOf(<<First, Slide(1, 257, 2, {"notes"}, Hyperlink(3, <<1, 258>>)),
                 [Slide(1, 258, 3, {}, None) EXCEPT !.picture = First.picture]>>,
               << <<256>>, <<257, 258>> >>)
Bare == DeckOf([i \in 1..3 |-> Slide(1, 255 + i, i, {}, None)], << <<256>>, <<258, 300>> >>)
Reusable == DeckOf(<<Slide(0, 256, 1, {"notes", "chart", "picture"}, None),
                     Slide(0, 257, 2, {}, Hyperlink(1, <<0, 256>>))>>, <<>>)
=============================================================================
