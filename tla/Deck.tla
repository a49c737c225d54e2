--------------------------------- MODULE Deck ---------------------------------
(***************************************************************************)
(* The slides of one presentation through its revisions                    *)
(* (core/presenter_core/presentation/editing.py, slide_sections.py,        *)
(* slide_reuse.py, click_actions.py, chart_editing.py): which slides there *)
(* are and in which order, the sections they are in, the links between     *)
(* them, and the parts of the package that hold their notes, charts and    *)
(* pictures, which a copied slide may share with another.                  *)
(*                                                                         *)
(* An edit reads the current revision and commits the next one; Revisions  *)
(* models how, and the return to a former one, which is left out here. The *)
(* edit then reads back what it wrote and refuses it when slides that it   *)
(* did not mean to change have changed: that check is left out too, and    *)
(* the properties say that it has nothing to refuse. What a part holds is  *)
(* named by the revision and the slide it was written for, and so are the  *)
(* names drawn with uuid4.                                                 *)
(***************************************************************************)
EXTENDS Naturals, FiniteSets, Sequences, SequencesExt, FiniteSetsExt, Functions

CONSTANTS
    None,
    SlideLimit,   \* SLIDE_LIMIT
    MaxSlideId,   \* _MAX_OOXML_SLIDE_ID
    Imports,      \* what may have been imported
    Other,        \* another presentation, whose slides may be reused
    MaxRevs       \* bound: revisions

Links == {"slide", "hyperlink"}       \* the relationships that may lead to a slide
Kinds == {"notes", "chart", "picture"} \* the parts a slide may have
Name(kind, r, id) == <<kind, r, id>>
Numbered(kind, n) == <<kind, n, 0>>

Slides(d) == ToSet(d.order)
Leads(d) == \A s \in Slides(d) :
    s.link # None => \E t \in Slides(d) : t.part = s.link.to /\ t.born = s.link.of

\* The names of parts up to the r-th revision; those of notes may be numbered.
Named(kind, r) == {kind} \X (0..r) \X Nat
NotesNames(r) == Named("notes", r) \cup {"notes"} \X Nat \X {0}
Parts(d) == {s[k] : s \in Slides(d), k \in Kinds} \ {None}

\* What a presentation is as its r-th revision: slides of different identifiers, parts and
\* origins, each with notes of its own or none, as the format has them (a notes part has a
\* relationship to the one slide it is of), and all the parts that they have.
SlidesDiffer(d) == \A i, j \in DOMAIN d.order : i # j =>
    LET s == d.order[i]
        t == d.order[j]
    IN s.id # t.id /\ s.part # t.part /\ s.born # t.born /\ (s.notes # None => s.notes # t.notes)
SlideOf(s, r) ==
    /\ DOMAIN s = {"id", "part", "notes", "chart", "picture", "link", "born"}
    /\ s.id \in 1..MaxSlideId /\ s.part \in Nat \ {0} /\ s.born[1] \in 0..r
    /\ s.notes \in {None} \cup NotesNames(r) /\ s.chart \in {None} \cup Named("chart", r)
    /\ s.picture \in {None} \cup Named("media", r)
    /\ s.link # None => s.link.type \in Links
WellFormed(d, r) ==
    /\ DOMAIN d = {"order", "sections", "data"}
    /\ d.order \in Seq(Slides(d)) /\ Len(d.order) \in 1..SlideLimit
    /\ SlidesDiffer(d) /\ \A s \in Slides(d) : SlideOf(s, r)
    /\ DOMAIN d.data = Parts(d)

IdsOf(d) == [i \in DOMAIN d.order |-> d.order[i].id]

\* Sections are runs of slides (slide_sections.py:1): each lists slides that come before those
\* that a later one lists, and so no slide is in two; but some may be in none.
InOrder(sections, ids) == \A m, n \in DOMAIN sections, i, j \in DOMAIN ids :
    m < n /\ ids[i] \in ToSet(sections[m]) /\ ids[j] \in ToSet(sections[n]) => i < j

\* What is imported or reused is one, and no part has the name that stands for none.
DeckAssumption ==
    /\ SlideLimit \in Nat /\ MaxSlideId \in Nat /\ MaxRevs \in Nat \ {0}
    /\ None \notin NotesNames(MaxRevs) \cup Named("chart", MaxRevs) \cup Named("media", MaxRevs)
    /\ WellFormed(Other, 0)
    /\ \A d \in Imports :
          /\ WellFormed(d, 1) /\ Leads(d) /\ \A s \in Slides(d) : s.born[1] = 1
          /\ d.sections \in Seq(Seq(Nat)) /\ InOrder(d.sections, IdsOf(d))

VARIABLES
    deck,     \* the slides of the current revision
    number,   \* how many revisions were made
    copied    \* history: the slide that the last edit copied

vars == <<deck, number, copied>>

Init == deck \in Imports /\ number = 1 /\ copied = None

New == number + 1

-----------------------------------------------------------------------------
(* Sections (slide_sections.py).                                           *)

\* MUTANT: a slide keeps its section if it comes after the last one that did.
FirstFit(pos) ==
    LET kept[i \in 0..Len(pos)] ==
          IF i = 0 THEN {}
          ELSE IF \A j \in kept[i - 1] : pos[j] < pos[i] THEN kept[i - 1] \cup {i} ELSE kept[i - 1]
    IN kept[Len(pos)]

\* The n-th lowest of a set of numbers, and the elements of a sequence at some of its indexes.
Nth(S, n) == CHOOSE i \in S : Cardinality({j \in S : j <= i}) = n
Picked(s, S) == [n \in 1..Cardinality(S) |-> s[Nth(S, n)]]

\* _stable: the indexes of one longest increasing subsequence of pos, by patience sorting:
\* Piles(pos)[i][n] is the one of length n, among the first i, that ends lowest.
Place(piles, pos, i) == Cardinality({n \in DOMAIN piles : pos[Max(piles[n])] < pos[i]}) + 1
Pile(piles, at, i) == IF at = 1 THEN {i} ELSE piles[at - 1] \cup {i}
Placed(piles, pos, i) ==
    LET at == Place(piles, pos, i)
    IN IF at > Len(piles) THEN Append(piles, Pile(piles, at, i))
       ELSE [piles EXCEPT ![at] = Pile(piles, at, i)]
Piles(pos) ==
    LET piles[i \in 0..Len(pos)] == IF i = 0 THEN <<>> ELSE Placed(piles[i - 1], pos, i)
    IN piles
Stable(pos) == IF pos = <<>> THEN {} ELSE Last(Piles(pos)[Len(pos)])

Listed(sections) == UNION {ToSet(sections[n]) : n \in DOMAIN sections}
SectionOf(sections, id) == CHOOSE n \in DOMAIN sections : id \in ToSet(sections[n])
Positions(ids) == [id \in ToSet(ids) |-> CHOOSE i \in DOMAIN ids : ids[i] = id]

\* The indexes in after of the slides that were there and in a section, and where they were.
Known(sections, before, after) ==
    {i \in DOMAIN after : after[i] \in ToSet(before) \cap Listed(sections)}
Were(known, before, after) ==
    [n \in 1..Cardinality(known) |-> Positions(before)[after[Nth(known, n)]]]
StableOf(known, before, after) == {Nth(known, n) : n \in Stable(Were(known, before, after))}

\* The section of each slide: its own if it is stable, else that of the stable one before it,
\* or else of the first one after it.
Owner(sections, stable, after) ==
    [i \in DOMAIN after |->
        LET ahead == {j \in stable : j <= i}
        IN IF stable = {} THEN 1
           ELSE SectionOf(sections, after[IF ahead = {} THEN Min(stable) ELSE Max(ahead)])]

\* The slides of each of so many sections.
Divided(after, owner, many) ==
    [n \in 1..many |-> Picked(after, {i \in DOMAIN after : owner[i] = n})]

\* sync_sections: the slides that kept their relative order keep their section.
Synced(sections, before, after) ==
    LET stable == StableOf(Known(sections, before, after), before, after)
    IN IF sections = <<>> THEN <<>>
       ELSE Divided(after, Owner(sections, stable, after), Len(sections))

-----------------------------------------------------------------------------
(* What the edits have in common.                                          *)

\* _commit_revision, with what some parts now hold; parts that no slide has are left out.
Commit(d, data, source) ==
    /\ number < MaxRevs /\ number' = New
    /\ deck' = [d EXCEPT !.data = [p \in Parts(d) |-> IF p \in DOMAIN data THEN data[p] ELSE @[p]]]
    /\ copied' = source

\* The slides become those of order, and the sections follow.
CommitSlides(order, data, source) ==
    Commit([deck EXCEPT !.order = order,
                        !.sections = Synced(@, IdsOf(deck), [i \in DOMAIN order |-> order[i].id])],
           data, source)

\* An edit of the i-th slide in its place.
CommitSlide(i, s, data) == Commit([deck EXCEPT !.order[i] = s], data, None)

\* Parts that are written for the slide with this identifier.
Written(parts, id) == [p \in parts |-> <<New, id>>]

\* The identifier of a new slide; none is left above _MAX_OOXML_SLIDE_ID.
HighestId(d) == Max({s.id : s \in Slides(d)})
MayAdd(d) == Len(d.order) < SlideLimit /\ HighestId(d) < MaxSlideId
FreshId(d) == HighestId(d) + 1

\* _unique_package_part: the lowest number that no part has.
Lowest(used) == CHOOSE n \in 1..Cardinality(used) + 1 : n \notin used /\ 1..n - 1 \subseteq used
FreshPart(d) == Lowest({s.part : s \in Slides(d)})
FreshNotes(d) ==
    LET notes == {s.notes : s \in Slides(d)} \ {None}
    IN Numbered("notes", Lowest({p[2] : p \in {q \in notes : q[3] = 0}}))

NewSlide == [id |-> FreshId(deck), part |-> FreshPart(deck), notes |-> None, chart |-> None,
             picture |-> None, link |-> None, born |-> <<New, FreshId(deck)>>]
Drawn(kind) == Name(kind, New, FreshId(deck))

\* The values of parts that are copies of those of s in d, under the names t has for them.
Copies(t, s, d) ==
    [p \in {t[k] : k \in Kinds} \ {None} |-> d.data[s[CHOOSE k \in Kinds : t[k] = p]]]

-----------------------------------------------------------------------------
(* The edits.                                                              *)

\* create_slide, after the i-th: a slide with what its layout gives it, and notes if wanted.
CreateSlide(i, p) ==
    /\ MayAdd(deck)
    /\ CommitSlides(InsertAt(deck.order, i + 1, [NewSlide EXCEPT !.notes = p]),
                    Written({p} \ {None}, FreshId(deck)), None)

\* MUTANT: the copy refers to the notes of the slide it was copied from.
NotesOfSource(s) == s.notes

\* The notes of a duplicate are in a part of its own.
NotesOfCopy(s) == IF s.notes = None THEN None ELSE FreshNotes(deck)

\* clone_chart_graph: so is its chart.
ChartOfCopy(s) == IF s.chart = None THEN None ELSE Drawn("chart")

\* The relationships a slide may have and be duplicated: no slide relationships.
Duplicable(s) == s.link # None => s.link.type # "slide"

\* duplicate_slide, of the i-th; the parts of pictures are shared, and links copied.
DuplicateSlide(i) ==
    LET s == deck.order[i]
        t == [NewSlide EXCEPT !.notes = NotesOfCopy(s), !.chart = ChartOfCopy(s),
                              !.picture = s.picture, !.link = s.link]
    IN /\ MayAdd(deck) /\ Duplicable(s)
       /\ CommitSlides(InsertAt(deck.order, i + 1, t), Copies(t, s, deck), s.born)

\* reuse_slide, of the j-th of the other presentation, at position i; nothing is shared, and no
\* slide with links to slides can be reused.
ReuseSlide(i, j) ==
    LET s == Other.order[j]
        t == [NewSlide EXCEPT !.notes = NotesOfCopy(s), !.chart = ChartOfCopy(s),
                              !.picture = IF s.picture = None THEN None ELSE Drawn("media")]
    IN /\ MayAdd(deck) /\ s.link = None
       /\ CommitSlides(InsertAt(deck.order, i, t), Copies(t, s, Other), s.born)

\* MUTANT: links from other parts of the package are not looked for.
NobodyChecks(s) == TRUE

\* No part that stays has a relationship to the slide.
NobodyLeadsTo(s) == \A t \in Slides(deck) \ {s} : t.link # None => t.link.to # s.part

\* The relationships a slide may have and be deleted: nor charts.
Deletable(s) == s.chart = None /\ (s.link # None => s.link.type # "slide")

\* delete_slide: its notes go with it, media stay for others.
DeleteSlide(i) ==
    LET s == deck.order[i]
    IN /\ Len(deck.order) > 1
       /\ Deletable(s) /\ NobodyLeadsTo(s)
       /\ CommitSlides(RemoveAt(deck.order, i), <<>>, None)

\* The orders that reorder_slides takes: every slide once.
Reorderings == Surjection(DOMAIN deck.order, DOMAIN deck.order)

\* reorder_slides.
ReorderSlides(p) ==
    /\ \E i \in DOMAIN p : p[i] # i
    /\ CommitSlides([i \in DOMAIN p |-> deck.order[p[i]]], <<>>, None)

\* The sections that begin at the slides of starts.
Beginning(starts, ids) ==
    [n \in 1..Cardinality(starts) |->
        LET rest == {j \in starts : j > Nth(starts, n)}
        IN SubSeq(ids, Nth(starts, n), IF rest = {} THEN Len(ids) ELSE Min(rest) - 1)]

\* set_slide_sections: into sections that begin at starts, the first slide among them; or none.
SetSlideSections(starts) ==
    LET wanted == Beginning(starts, IdsOf(deck))
    IN /\ starts = {} \/ 1 \in starts
       /\ wanted # deck.sections
       /\ Commit([deck EXCEPT !.sections = wanted], <<>>, None)

\* set_click_action, set_text_hyperlink: to the j-th slide, or, for 0, to none. A link that is
\* not made with a slide relationship stays as it is.
SetLink(i, j) ==
    LET s == deck.order[i]
        t == IF j = 0 THEN None
             ELSE [type |-> "slide", to |-> deck.order[j].part, of |-> deck.order[j].born]
    IN /\ s.link # t /\ (s.link # None => s.link.type = "slide")
       /\ CommitSlide(i, [s EXCEPT !.link = t], <<>>)

\* replace_speaker_notes, in the part that the slide has for them.
ReplaceSpeakerNotes(i) ==
    LET s == deck.order[i]
    IN s.notes # None /\ CommitSlide(i, s, Written({s.notes}, s.id))

\* The part of a new image: one of its own.
ImagePart(s) == Name("media", New, s.id)

\* replace_picture_image.
ReplacePictureImage(i) ==
    LET s == deck.order[i]
    IN /\ s.picture # None
       /\ CommitSlide(i, [s EXCEPT !.picture = ImagePart(s)], Written({ImagePart(s)}, s.id))

\* replace_chart_data: a chart and a workbook of its own.
ReplaceChartData(i) ==
    LET s == deck.order[i]
        p == Name("chart", New, s.id)
    IN s.chart # None /\ CommitSlide(i, [s EXCEPT !.chart = p], Written({p}, s.id))

Next ==
    \/ \E i \in DOMAIN deck.order :
          \/ \E p \in {None, Drawn("notes")} : CreateSlide(i, p)
          \/ DuplicateSlide(i) \/ DeleteSlide(i)
          \/ ReplaceSpeakerNotes(i) \/ ReplacePictureImage(i) \/ ReplaceChartData(i)
          \/ \E j \in {0} \cup DOMAIN deck.order : SetLink(i, j)
    \/ \E i \in 1..Len(deck.order) + 1, j \in DOMAIN Other.order : ReuseSlide(i, j)
    \/ \E p \in Reorderings : ReorderSlides(p)
    \/ \E starts \in SUBSET DOMAIN deck.order : SetSlideSections(starts)

Spec == Init /\ [][Next]_vars

-----------------------------------------------------------------------------
(* Properties.                                                             *)

\* The types of the variables; no two slides of a deck have the same identifier or part.
TypeOK ==
    /\ number \in 1..MaxRevs
    /\ WellFormed(deck, number) /\ \A s \in Slides(deck) : s.born[1] # 0

Precedes(s, a, b) == \E i, j \in DOMAIN s : i < j /\ s[i] = a /\ s[j] = b

\* After any edit of the slides the sections list every slide once, in the order of the slides,
\* those too that were in none; and no more slides have changed section than must have for that:
\* any that could all have stayed are as many as stayed (slide_sections.py:42-114, 225-357).
FollowSlides ==
    LET was == IdsOf(deck)
        is  == IdsOf(deck')
        old == deck.sections
        new == deck'.sections
        kept  == ToSet(was) \cap ToSet(is) \cap Listed(old)
        stayed == {id \in kept : SectionOf(old, id) = SectionOf(new, id)}
    IN new # <<>> /\ <<was, old>> # <<is, new>> =>
         /\ FlattenSeq(new) = is
         /\ was # is => \A ids \in kSubset(Cardinality(stayed) + 1, kept) :
               ~ \A a, b \in ids : Precedes(was, a, b) <=> Precedes(is, a, b)
SectionsFollow == [][FollowSlides]_vars

\* A link leads to the slide it was made to lead to, whatever was deleted or copied since: its
\* target is there, and is not another one that took the name of its part
\* (editing.py:4702-4727, 6393-6404; click_actions.py:56-239).
LinksLead == Leads(deck)

Shown(d, s, k) == IF s[k] = None THEN None ELSE d.data[s[k]]
Shows(d, s, e, t, k) == Shown(d, s, k) = Shown(e, t, k)

\* An edit changes what one slide shows in one respect, and nothing that another shows, although
\* slides share parts; and a copy shows all that its source does (editing.py:2887-3117,
\* 3645-4004, 4881-5526; graphic_duplication.py:34-182; slide_reuse.py:304-346).
SparesOthers ==
    /\ Cardinality({x \in Slides(deck) \X Kinds :
                       \E t \in Slides(deck') : x[1].born = t.born /\ ~Shows(deck, x[1], deck', t, x[2])}) <= 1
    /\ copied' # None => \A t \in Slides(deck'), d \in {deck, Other} : \A s \in Slides(d) :
          t.born[1] = New /\ s.born = copied' => \A k \in Kinds : Shows(d, s, deck', t, k)
OthersUntouched == [][SparesOthers]_vars

=============================================================================
