------------------------- MODULE PresentationsProofs -------------------------
(***************************************************************************)
(* The safety properties of Revisions that its run checks, for any number  *)
(* of revisions, plans and failures. The inductive invariant says what an  *)
(* operation that is under way has already done to the disk, that rows and *)
(* plans are named by identifiers of their own, that a plan was made from  *)
(* the revision it is for, and which private packages there are.           *)
(*                                                                         *)
(* And, of Deck, that links lead to the slides they were made to lead to,  *)
(* and that an edit leaves the other slides as they are, in presentations  *)
(* of any number of slides: from what their slides are, which is different *)
(* in their names, and which names an edit draws.                          *)
(*                                                                         *)
(* And that sections follow the slides: from the piles of the patience     *)
(* sort, which show that no more slides could have stayed, and from the    *)
(* runs of slides that the sections are.                                   *)
(***************************************************************************)
EXTENDS Presentations, Sequences, FiniteSetTheorems, WellFoundedInduction, TLAPS

\* The current revision has a row, an identifier has one row at most, and identifiers are
\* not used again; one row has the highest number.
RowsAreNamed ==
    /\ revs # {} => \E v \in revs : v.id = head
    /\ \A v, w \in revs : v.id = w.id => v = w
    /\ \A v \in revs : v.id # Original => v.id \in ever
    /\ revs # {} => \E v \in revs : \A w \in revs : w.number <= v.number

\* There are rows as long as the document has one.
RowsOfDocument ==
    /\ doc \in {"none", "gone"} <=> revs = {}
    /\ revs = {} => plans = {} /\ op.does \in {"nothing", "import"}
    /\ op.does = "import" => doc = "none" /\ disk[FileOf(Original)] = Original

\* A plan has an identifier, bytes and a package of its own, and was made from its baseline.
PlansHaveBases ==
    /\ \A p, q \in plans : p.id = q.id => p = q
    /\ \A p \in plans :
        /\ p.bytes = p.id /\ PlanVerified(p)
        /\ \E w \in revs : w.id = p.baseline /\ base[p.bytes] = w.bytes
        /\ p.opened => p.bytes \in shown

\* What is being published was made from the current revision, and shown if it is a plan's;
\* its identifier is not in use, and once it is installed its package is in place.
PublishesOnHead ==
    op.does \in {"install", "commit"} =>
        /\ op.id \in Ids \ ever /\ op.bytes \in Revs
        /\ \E w \in revs : w.id = head /\ base[op.bytes] = w.bytes
        /\ op.plan # None => op.bytes \in shown
        /\ op.does = "commit" => disk[FileOf(op.id)] = op.bytes

\* What is being composed was made from the current revision, and there is room for it.
ComposesOnHead ==
    op.does \in {"copy", "register"} =>
        /\ op.id \in Ids
        /\ \A p \in plans : p.id # op.id
        /\ \E w \in revs : w.id = head /\ base[op.id] = w.bytes
        /\ op.does = "register" => disk[File("plan", op.id)] = op.id
        /\ Cardinality(plans) < MaxPlans

Deleting == op.does = "delete" => deleting /\ plans = {}

\* The packages of plans, and of the one being composed.
Private == {f \in Files : f.kind \in {"plan", "stage"} /\ disk[f] # None}
Composed ==
    CASE op.does = "copy"     -> {File("stage", op.id)}
      [] op.does = "register" -> {File("stage", op.id), File("plan", op.id)}
      [] OTHER                -> {}
PrivateAreHeld == up = "reconciled" => Private = {PlanFile(p) : p \in plans} \cup Composed

Bounded == IsFiniteSet(plans) /\ Cardinality(plans) <= MaxPlans

RevisionInv ==
    /\ TypeOK /\ Bounded
    /\ RowsAreNamed /\ RowsOfDocument
    /\ PlansHaveBases /\ PublishesOnHead /\ ComposesOnHead
    /\ Deleting /\ PrivateAreHeld
    /\ RevisionsIntact /\ BuildsOnParent

USE DEF rows, history, FaultKinds, Files, File, FileOf, PlanFile, Revs, Idle, Fault, NoFault

\* A new revision has a number above all others.
LEMMA NumberIsHighest ==
    ASSUME revs \subseteq Row, NEW u \in revs, \A w \in revs : w.number <= u.number
    PROVE  NextNumber \in Nat /\ \A v \in revs : v.number < NextNumber
  <1> DEFINE numbers == {v.number : v \in revs}
  <1>1. numbers \subseteq Nat
    BY DEF Row
  <1>2. \E x \in numbers : \A y \in numbers : x >= y
    <2>1. u.number \in numbers /\ \A y \in numbers : u.number >= y
      BY <1>1
    <2> QED
      BY <2>1
  <1>3. Max(numbers) \in numbers /\ \A y \in numbers : Max(numbers) >= y
    <2> HIDE DEF numbers
    <2> QED
      BY <1>2 DEF Max
  <1>4. \A v \in revs : v.number \in numbers
    OBVIOUS
  <1>5. NextNumber = Max(numbers) + 1
    BY DEF NextNumber
  <1> DEFINE highest == Max(numbers)
  <1>6. highest \in Nat /\ NextNumber = highest + 1
    BY <1>1, <1>3, <1>5
  <1>7. ASSUME NEW v \in revs PROVE v.number \in Nat /\ highest >= v.number
    BY <1>1, <1>3, <1>4
  <1> QED
    <2> HIDE DEF highest
    <2> QED
      BY <1>6, <1>7

\* Removing a plan keeps the number of plans within its bound.
LEMMA WithoutOne ==
    ASSUME Bounded, NEW p \in plans, plans' = plans \ {p}, MaxPlans \in Nat
    PROVE  Bounded'
  <1>1. Cardinality(plans) \in Nat
    BY FS_CardinalityType DEF Bounded
  <1>2. IsFiniteSet(plans \ {p}) /\ Cardinality(plans \ {p}) = Cardinality(plans) - 1
    BY FS_RemoveElement DEF Bounded
  <1> QED
    BY <1>1, <1>2 DEF Bounded

\* Each action of Revisions keeps the inductive invariant.
LEMMA RevisionStep == RevisionInv /\ Next => RevisionInv'
  <1> SUFFICES ASSUME RevisionInv, Next PROVE RevisionInv'
    OBVIOUS
  <1> USE RevisionAssumption DEF RevisionInv, Running, Row, Plan, Verified, PlanVerified,
     Fresh, RowOf, Reconciled, Write, Staged, NextNumber, AtBaseline, Drop, ToRemove, Recorded,
     Removed, MayPrepare
  <1>1. ASSUME OpenProject PROVE RevisionInv'
    <2>1. Bounded'
      BY <1>1 DEF OpenProject, Bounded
    <2>2. TypeOK'
      BY <1>1, <2>1 DEF OpenProject, TypeOK, RowsOfDocument, PublishesOnHead, ComposesOnHead,
         RowsAreNamed, PlansHaveBases, Bounded
    <2>3. RowsAreNamed' /\ RowsOfDocument'
      BY <1>1 DEF OpenProject, TypeOK, RowsAreNamed, RowsOfDocument, PublishesOnHead
    <2>4. PlansHaveBases' /\ PublishesOnHead' /\ ComposesOnHead' /\ Deleting'
      BY <1>1 DEF OpenProject, TypeOK, RowsAreNamed, RowsOfDocument, PlansHaveBases,
         PublishesOnHead, ComposesOnHead, Deleting
    <2>5. PrivateAreHeld'
      BY <1>1 DEF OpenProject, TypeOK, PlansHaveBases, ComposesOnHead, PrivateAreHeld, Private,
         Composed, Deleting
    <2>6. RevisionsIntact' /\ BuildsOnParent'
      BY <1>1 DEF OpenProject, TypeOK, RowsAreNamed, RowsOfDocument, PublishesOnHead, Deleting,
         RevisionsIntact, BuildsOnParent
    <2> QED
      BY <2>1, <2>2, <2>3, <2>4, <2>5, <2>6
  <1>2. ASSUME ImportCopies PROVE RevisionInv'
    <2>1. Bounded'
      BY <1>2 DEF ImportCopies, Bounded
    <2>2. TypeOK'
      BY <1>2, <2>1 DEF ImportCopies, TypeOK, RowsOfDocument, PublishesOnHead, ComposesOnHead,
         RowsAreNamed, PlansHaveBases, Bounded
    <2>3. RowsAreNamed' /\ RowsOfDocument'
      BY <1>2 DEF ImportCopies, TypeOK, RowsAreNamed, RowsOfDocument, PublishesOnHead
    <2>4. PlansHaveBases' /\ PublishesOnHead' /\ ComposesOnHead' /\ Deleting'
      BY <1>2 DEF ImportCopies, TypeOK, RowsAreNamed, RowsOfDocument, PlansHaveBases,
         PublishesOnHead, ComposesOnHead, Deleting
    <2>5. PrivateAreHeld'
      BY <1>2 DEF ImportCopies, TypeOK, PlansHaveBases, ComposesOnHead, PrivateAreHeld,
         Private, Composed, Deleting
    <2>6. RevisionsIntact' /\ BuildsOnParent'
      BY <1>2 DEF ImportCopies, TypeOK, RowsAreNamed, RowsOfDocument, PublishesOnHead,
         Deleting, RevisionsIntact, BuildsOnParent
    <2> QED
      BY <2>1, <2>2, <2>3, <2>4, <2>5, <2>6
  <1>3. ASSUME ImportRecords PROVE RevisionInv'
    <2> DEFINE original == [id |-> Original, parent |-> None, number |-> 1, bytes |-> Original,
                            plan |-> None]
    <2>a. original \in Row /\ original.id = Original /\ original.bytes = Original
      OBVIOUS
    <2>b. revs = {} /\ plans = {} /\ disk[FileOf(Original)] = Original
      BY <1>3 DEF ImportRecords, RowsOfDocument
    <2>0. CASE revs' = {original} /\ head' = Original /\ doc' = "pending"
               /\ op' = [op EXCEPT !.does = "parse"] /\ disk' = disk
      <3> USE <1>3, <2>0, <2>a, <2>b DEF ImportRecords
      <3>1. Bounded' /\ TypeOK'
        <4> HIDE DEF original
        <4> QED BY DEF TypeOK, Bounded
      <3>2. RowsAreNamed' /\ RowsOfDocument'
        <4> HIDE DEF original
        <4> QED BY DEF TypeOK, RowsAreNamed, RowsOfDocument
      <3>3. PlansHaveBases' /\ PublishesOnHead' /\ ComposesOnHead' /\ Deleting'
        BY DEF TypeOK, PlansHaveBases, PublishesOnHead, ComposesOnHead, Deleting
      <3>4. PrivateAreHeld'
        BY DEF TypeOK, PrivateAreHeld, Private, Composed
      <3>5. RevisionsIntact' /\ BuildsOnParent'
        <4> HIDE DEF original
        <4> QED BY DEF TypeOK, RevisionsIntact, BuildsOnParent
      <3> QED
        BY <3>1, <3>2, <3>3, <3>4, <3>5
    <2>1. CASE revs' = revs /\ head' = head /\ doc' = doc /\ op' = Idle
               /\ disk' = [disk EXCEPT ![FileOf(Original)] = None]
      <3> USE <1>3, <2>1, <2>b DEF ImportRecords
      <3>1. Bounded' /\ TypeOK'
        BY DEF TypeOK, Bounded
      <3>2. RowsAreNamed' /\ RowsOfDocument'
        BY DEF TypeOK, RowsAreNamed, RowsOfDocument
      <3>3. PlansHaveBases' /\ PublishesOnHead' /\ ComposesOnHead' /\ Deleting'
        BY DEF TypeOK, PlansHaveBases, PublishesOnHead, ComposesOnHead, Deleting
      <3>4. PrivateAreHeld'
        BY DEF TypeOK, PrivateAreHeld, Private, Composed
      <3>5. RevisionsIntact' /\ BuildsOnParent'
        BY DEF TypeOK, RevisionsIntact, BuildsOnParent
      <3> QED
        BY <3>1, <3>2, <3>3, <3>4, <3>5
    <2> QED
      BY <1>3, <2>0, <2>1 DEF ImportRecords
  <1>4. ASSUME ImportParses PROVE RevisionInv'
    <2>1. Bounded'
      BY <1>4 DEF ImportParses, Bounded
    <2>2. TypeOK'
      BY <1>4, <2>1 DEF ImportParses, TypeOK, RowsOfDocument, PublishesOnHead, ComposesOnHead,
         RowsAreNamed, PlansHaveBases, Bounded
    <2>3. RowsAreNamed' /\ RowsOfDocument'
      BY <1>4 DEF ImportParses, TypeOK, RowsAreNamed, RowsOfDocument, PublishesOnHead
    <2>4. PlansHaveBases' /\ PublishesOnHead' /\ ComposesOnHead' /\ Deleting'
      BY <1>4 DEF ImportParses, TypeOK, RowsAreNamed, RowsOfDocument, PlansHaveBases,
         PublishesOnHead, ComposesOnHead, Deleting
    <2>5. PrivateAreHeld'
      BY <1>4 DEF ImportParses, TypeOK, PlansHaveBases, ComposesOnHead, PrivateAreHeld,
         Private, Composed, Deleting
    <2>6. RevisionsIntact' /\ BuildsOnParent'
      BY <1>4 DEF ImportParses, TypeOK, RowsAreNamed, RowsOfDocument, PublishesOnHead,
         Deleting, RevisionsIntact, BuildsOnParent
    <2> QED
      BY <2>1, <2>2, <2>3, <2>4, <2>5, <2>6
  <1>5. ASSUME Reindex PROVE RevisionInv'
    <2>1. Bounded'
      BY <1>5 DEF Reindex, Bounded
    <2>2. TypeOK'
      BY <1>5, <2>1 DEF Reindex, TypeOK, RowsOfDocument, PublishesOnHead, ComposesOnHead,
         RowsAreNamed, PlansHaveBases, Bounded
    <2>3. RowsAreNamed' /\ RowsOfDocument'
      BY <1>5 DEF Reindex, TypeOK, RowsAreNamed, RowsOfDocument, PublishesOnHead
    <2>4. PlansHaveBases' /\ PublishesOnHead' /\ ComposesOnHead' /\ Deleting'
      BY <1>5 DEF Reindex, TypeOK, RowsAreNamed, RowsOfDocument, PlansHaveBases,
         PublishesOnHead, ComposesOnHead, Deleting
    <2>5. PrivateAreHeld'
      BY <1>5 DEF Reindex, TypeOK, PlansHaveBases, ComposesOnHead, PrivateAreHeld, Private,
         Composed, Deleting
    <2>6. RevisionsIntact' /\ BuildsOnParent'
      BY <1>5 DEF Reindex, TypeOK, RowsAreNamed, RowsOfDocument, PublishesOnHead, Deleting,
         RevisionsIntact, BuildsOnParent
    <2> QED
      BY <2>1, <2>2, <2>3, <2>4, <2>5, <2>6
  <1>6. ASSUME Install PROVE RevisionInv'
    <2>1. Bounded'
      BY <1>6 DEF Install, Bounded
    <2>2. TypeOK'
      BY <1>6, <2>1 DEF Install, TypeOK, RowsOfDocument, PublishesOnHead, ComposesOnHead,
         RowsAreNamed, PlansHaveBases, Bounded
    <2>3. RowsAreNamed' /\ RowsOfDocument'
      BY <1>6 DEF Install, TypeOK, RowsAreNamed, RowsOfDocument, PublishesOnHead
    <2>4. PlansHaveBases' /\ PublishesOnHead' /\ ComposesOnHead' /\ Deleting'
      BY <1>6 DEF Install, TypeOK, RowsAreNamed, RowsOfDocument, PlansHaveBases,
         PublishesOnHead, ComposesOnHead, Deleting
    <2>5. PrivateAreHeld'
      BY <1>6 DEF Install, TypeOK, PlansHaveBases, ComposesOnHead, PrivateAreHeld, Private,
         Composed, Deleting
    <2>6. RevisionsIntact' /\ BuildsOnParent'
      BY <1>6 DEF Install, TypeOK, RowsAreNamed, RowsOfDocument, PublishesOnHead, Deleting,
         RevisionsIntact, BuildsOnParent
    <2> QED
      BY <2>1, <2>2, <2>3, <2>4, <2>5, <2>6
  <1>7. ASSUME CommitRevision PROVE RevisionInv'
    <2> DEFINE row == [id |-> op.id, parent |-> head, number |-> NextNumber, bytes |-> op.bytes,
                       plan |-> op.plan]
    <2>a. /\ op.id \in Ids \ ever /\ op.bytes \in Revs /\ op.plan \in Ids \cup {None}
          /\ head \in Revs /\ revs # {}
          /\ \A v \in revs : v.id # op.id
      BY <1>7 DEF CommitRevision, PublishesOnHead, RowsAreNamed, TypeOK
    <2>b. NextNumber \in Nat /\ \A v \in revs : v.number < NextNumber
      BY <2>a, NumberIsHighest DEF TypeOK, RowsAreNamed
    <2>c. row \in Row /\ row.id = op.id /\ row.bytes = op.bytes /\ row.plan = op.plan
          /\ row.parent = head /\ row.number = NextNumber
      BY <2>a, <2>b
    <2>1. CASE revs' = revs \cup {row} /\ head' = op.id /\ ever' = ever \cup {op.id}
               /\ op' = (IF op.plan = None THEN Idle ELSE [op EXCEPT !.does = "drop"])
               /\ disk' = disk
      <3> HIDE DEF row, NextNumber
      <3> USE <1>7, <2>1, <2>a, <2>b, <2>c DEF CommitRevision
      <3>1. Bounded' /\ TypeOK'
        BY DEF TypeOK, Bounded
      <3>2. RowsAreNamed'
        BY DEF TypeOK, RowsAreNamed
      <3>3. RowsOfDocument'
        BY DEF TypeOK, RowsOfDocument
      <3>4. PlansHaveBases'
        BY DEF TypeOK, PlansHaveBases
      <3>5. PublishesOnHead' /\ ComposesOnHead' /\ Deleting'
        BY DEF TypeOK, PublishesOnHead, ComposesOnHead, Deleting
      <3>6. PrivateAreHeld'
        BY DEF TypeOK, PrivateAreHeld, Private, Composed
      <3>7. RevisionsIntact'
        <4>1. Verified(row)
          BY DEF PublishesOnHead
        <4> QED
          BY <4>1 DEF TypeOK, RevisionsIntact
      <3>8. BuildsOnParent'
        BY DEF TypeOK, BuildsOnParent, PublishesOnHead
      <3> QED
        BY <3>1, <3>2, <3>3, <3>4, <3>5, <3>6, <3>7, <3>8
    <2>2. CASE UNCHANGED <<revs, head, ever>> /\ op' = Idle
               /\ disk' = [disk EXCEPT ![FileOf(op.id)] = None]
      <3> HIDE DEF NextNumber
      <3> USE <1>7, <2>2, <2>a DEF CommitRevision
      <3>1. Bounded' /\ TypeOK'
        BY DEF TypeOK, Bounded
      <3>2. RowsAreNamed' /\ RowsOfDocument'
        BY DEF TypeOK, RowsAreNamed, RowsOfDocument
      <3>3. PlansHaveBases' /\ PublishesOnHead' /\ ComposesOnHead' /\ Deleting'
        BY DEF TypeOK, PlansHaveBases, PublishesOnHead, ComposesOnHead, Deleting
      <3>4. PrivateAreHeld'
        BY DEF TypeOK, PrivateAreHeld, Private, Composed
      <3>5. RevisionsIntact' /\ BuildsOnParent'
        BY DEF TypeOK, RevisionsIntact, BuildsOnParent
      <3> QED
        BY <3>1, <3>2, <3>3, <3>4, <3>5
    <2> QED
      BY <1>7, <2>1, <2>2 DEF CommitRevision
  <1>8. ASSUME NEW i \in Ids, Edit(i) PROVE RevisionInv'
    <2>1. Bounded'
      BY <1>8 DEF Edit, Bounded
    <2>2. TypeOK'
      BY <1>8, <2>1 DEF Edit, TypeOK, RowsOfDocument, PublishesOnHead, ComposesOnHead,
         RowsAreNamed, PlansHaveBases, Bounded
    <2>3. RowsAreNamed' /\ RowsOfDocument'
      BY <1>8 DEF Edit, TypeOK, RowsAreNamed, RowsOfDocument, PublishesOnHead
    <2>4. PlansHaveBases' /\ PublishesOnHead' /\ ComposesOnHead' /\ Deleting'
      BY <1>8, SMTT(30) DEF Edit, TypeOK, RowsAreNamed, RowsOfDocument, PlansHaveBases, PublishesOnHead,
         ComposesOnHead, Deleting
    <2>5. PrivateAreHeld'
      BY <1>8 DEF Edit, TypeOK, PlansHaveBases, ComposesOnHead, PrivateAreHeld, Private,
         Composed, Deleting
    <2>6. RevisionsIntact' /\ BuildsOnParent'
      BY <1>8 DEF Edit, TypeOK, RowsAreNamed, RowsOfDocument, PublishesOnHead, Deleting,
         RevisionsIntact, BuildsOnParent
    <2> QED
      BY <2>1, <2>2, <2>3, <2>4, <2>5, <2>6
  <1>9. ASSUME NEW i \in Ids, Prepare(i) PROVE RevisionInv'
    <2>1. Bounded'
      BY <1>9 DEF Prepare, Bounded
    <2>2. TypeOK'
      BY <1>9, <2>1 DEF Prepare, TypeOK, RowsOfDocument, PublishesOnHead, ComposesOnHead,
         RowsAreNamed, PlansHaveBases, Bounded
    <2>3. RowsAreNamed' /\ RowsOfDocument'
      BY <1>9 DEF Prepare, TypeOK, RowsAreNamed, RowsOfDocument, PublishesOnHead
    <2>4. PlansHaveBases' /\ PublishesOnHead' /\ ComposesOnHead' /\ Deleting'
      BY <1>9, SMTT(30) DEF Prepare, TypeOK, RowsAreNamed, RowsOfDocument, PlansHaveBases,
         PublishesOnHead, ComposesOnHead, Deleting
    <2>5. PrivateAreHeld'
      BY <1>9 DEF Prepare, TypeOK, PlansHaveBases, ComposesOnHead, PrivateAreHeld, Private,
         Composed, Deleting
    <2>6. RevisionsIntact' /\ BuildsOnParent'
      BY <1>9 DEF Prepare, TypeOK, RowsAreNamed, RowsOfDocument, PublishesOnHead, Deleting,
         RevisionsIntact, BuildsOnParent
    <2> QED
      BY <2>1, <2>2, <2>3, <2>4, <2>5, <2>6
  <1>10. ASSUME NEW r \in Revs, Restore(r) PROVE RevisionInv'
    <2>1. Bounded'
      BY <1>10 DEF Restore, Bounded
    <2>2. TypeOK'
      BY <1>10, <2>1 DEF Restore, TypeOK, RowsOfDocument, PublishesOnHead, ComposesOnHead,
         RowsAreNamed, PlansHaveBases, Bounded
    <2>3. RowsAreNamed' /\ RowsOfDocument'
      BY <1>10 DEF Restore, TypeOK, RowsAreNamed, RowsOfDocument, PublishesOnHead
    <2>4. PlansHaveBases' /\ PublishesOnHead' /\ ComposesOnHead' /\ Deleting'
      BY <1>10 DEF Restore, TypeOK, RowsAreNamed, RowsOfDocument, PlansHaveBases,
         PublishesOnHead, ComposesOnHead, Deleting
    <2>5. PrivateAreHeld'
      BY <1>10 DEF Restore, TypeOK, PlansHaveBases, ComposesOnHead, PrivateAreHeld, Private,
         Composed, Deleting
    <2>6. RevisionsIntact' /\ BuildsOnParent'
      BY <1>10 DEF Restore, TypeOK, RowsAreNamed, RowsOfDocument, PublishesOnHead, Deleting,
         RevisionsIntact, BuildsOnParent
    <2> QED
      BY <2>1, <2>2, <2>3, <2>4, <2>5, <2>6
  <1>11. ASSUME CopyPlan PROVE RevisionInv'
    <2>1. Bounded'
      BY <1>11 DEF CopyPlan, Bounded
    <2>2. TypeOK'
      BY <1>11, <2>1 DEF CopyPlan, TypeOK, RowsOfDocument, PublishesOnHead, ComposesOnHead,
         RowsAreNamed, PlansHaveBases, Bounded
    <2>3. RowsAreNamed' /\ RowsOfDocument'
      BY <1>11 DEF CopyPlan, TypeOK, RowsAreNamed, RowsOfDocument, PublishesOnHead
    <2>4. PlansHaveBases' /\ PublishesOnHead' /\ ComposesOnHead' /\ Deleting'
      BY <1>11 DEF CopyPlan, TypeOK, RowsAreNamed, RowsOfDocument, PlansHaveBases,
         PublishesOnHead, ComposesOnHead, Deleting
    <2>5. PrivateAreHeld'
      BY <1>11 DEF CopyPlan, TypeOK, PlansHaveBases, ComposesOnHead, PrivateAreHeld, Private,
         Composed, Deleting
    <2>6. RevisionsIntact' /\ BuildsOnParent'
      BY <1>11 DEF CopyPlan, TypeOK, RowsAreNamed, RowsOfDocument, PublishesOnHead, Deleting,
         RevisionsIntact, BuildsOnParent
    <2> QED
      BY <2>1, <2>2, <2>3, <2>4, <2>5, <2>6
  <1>12. ASSUME RegisterPlan PROVE RevisionInv'
    <2> DEFINE plan == [id |-> op.id, baseline |-> head, bytes |-> op.id, opened |-> FALSE]
    <2>a. /\ op.id \in Ids /\ head \in Revs /\ revs # {}
          /\ \A p \in plans : p.id # op.id
          /\ \E w \in revs : w.id = head /\ base[op.id] = w.bytes
          /\ disk[File("plan", op.id)] = op.id
      BY <1>12 DEF RegisterPlan, ComposesOnHead, TypeOK
    <2>b. plan \in Plan /\ plan.id = op.id /\ plan.baseline = head /\ plan.bytes = op.id
          /\ plan.opened = FALSE
      BY <2>a
    <2>c. plans' = plans \cup {plan}
      BY <1>12 DEF RegisterPlan
    <2> HIDE DEF plan
    <2>1. Bounded'
      <3>1. Cardinality(plans) \in Nat /\ Cardinality(plans) < MaxPlans
        BY <1>12, FS_CardinalityType DEF RegisterPlan, Bounded, ComposesOnHead
      <3>2. IsFiniteSet(plans') /\ Cardinality(plans') <= Cardinality(plans) + 1
        BY <2>c, <3>1, FS_AddElement DEF Bounded
      <3>3. Cardinality(plans') \in Nat
        BY <3>2, FS_CardinalityType
      <3> QED
        BY <3>1, <3>2, <3>3 DEF Bounded
    <2>2. TypeOK'
      BY <1>12, <2>1, <2>a, <2>b, <2>c DEF RegisterPlan, TypeOK, Bounded
    <2>3. RowsAreNamed' /\ RowsOfDocument'
      BY <1>12, <2>a DEF RegisterPlan, TypeOK, RowsAreNamed, RowsOfDocument
    <2>4. PlansHaveBases'
      BY <1>12, <2>a, <2>b, <2>c DEF RegisterPlan, TypeOK, PlansHaveBases
    <2>5. PublishesOnHead' /\ ComposesOnHead' /\ Deleting'
      BY <1>12 DEF RegisterPlan, TypeOK, PublishesOnHead, ComposesOnHead, Deleting
    <2>6. PrivateAreHeld'
      BY <1>12, <2>a, <2>b, <2>c DEF RegisterPlan, TypeOK, PrivateAreHeld, Private, Composed
    <2>7. RevisionsIntact' /\ BuildsOnParent'
      BY <1>12 DEF RegisterPlan, TypeOK, RevisionsIntact, BuildsOnParent
    <2> QED
      BY <2>1, <2>2, <2>3, <2>4, <2>5, <2>6, <2>7
  <1>13. ASSUME NEW p \in plans, OpenPreview(p) PROVE RevisionInv'
    <2> DEFINE q == [p EXCEPT !.opened = TRUE]
    <2>a. q \in Plan /\ q.id = p.id /\ q.baseline = p.baseline /\ q.bytes = p.bytes /\ q.opened
      BY ZenonT(40) DEF TypeOK
    <2>b. plans' = (plans \ {p}) \cup {q}
      BY <1>13 DEF OpenPreview
    <2> HIDE DEF q
    <2>1. Bounded'
      <3> DEFINE others == plans \ {p}
      <3>1. IsFiniteSet(others) /\ Cardinality(others) = Cardinality(plans) - 1
        BY FS_RemoveElement DEF Bounded
      <3>2. Cardinality(plans) \in Nat /\ Cardinality(others) \in Nat
        BY <3>1, FS_CardinalityType DEF Bounded
      <3>3. IsFiniteSet(others \cup {q}) /\ Cardinality(others \cup {q}) <= Cardinality(others) + 1
        <4> HIDE DEF others
        <4> QED BY <3>1, <3>2, FS_AddElement
      <3>4. plans' = others \cup {q} /\ Cardinality(plans') \in Nat
        BY <2>b, <3>3, FS_CardinalityType
      <3> QED
        <4> HIDE DEF others
        <4> QED BY <3>1, <3>2, <3>3, <3>4 DEF Bounded
    <2>2. TypeOK'
      BY <1>13, <2>1, <2>a, <2>b DEF OpenPreview, TypeOK, Bounded
    <2>3. RowsAreNamed' /\ RowsOfDocument'
      BY <1>13 DEF OpenPreview, TypeOK, RowsAreNamed, RowsOfDocument
    <2>4. PlansHaveBases'
      BY <1>13, <2>a, <2>b DEF OpenPreview, TypeOK, PlansHaveBases
    <2>5. PublishesOnHead' /\ ComposesOnHead' /\ Deleting'
      BY <1>13 DEF OpenPreview, TypeOK, PublishesOnHead, ComposesOnHead, Deleting
    <2>6. PrivateAreHeld'
      <3>1. {PlanFile(x) : x \in plans'} = {PlanFile(x) : x \in plans}
        BY <2>a, <2>b
      <3> QED
        BY <1>13, <3>1 DEF OpenPreview, TypeOK, PrivateAreHeld, Private, Composed
    <2>7. RevisionsIntact' /\ BuildsOnParent'
      BY <1>13 DEF OpenPreview, TypeOK, RevisionsIntact, BuildsOnParent
    <2> QED
      BY <2>1, <2>2, <2>3, <2>4, <2>5, <2>6, <2>7
  <1>14. ASSUME NEW p \in plans, Reject(p) PROVE RevisionInv'
    <2>1. Bounded'
      BY <1>14, WithoutOne DEF Reject, Bounded
    <2>2. TypeOK'
      BY <1>14, <2>1 DEF Reject, TypeOK, RowsOfDocument, PublishesOnHead, ComposesOnHead,
         RowsAreNamed, PlansHaveBases, Bounded
    <2>3. RowsAreNamed' /\ RowsOfDocument'
      BY <1>14 DEF Reject, TypeOK, RowsAreNamed, RowsOfDocument, PublishesOnHead
    <2>4. PlansHaveBases' /\ PublishesOnHead' /\ ComposesOnHead' /\ Deleting'
      BY <1>14 DEF Reject, TypeOK, RowsAreNamed, RowsOfDocument, PlansHaveBases,
         PublishesOnHead, ComposesOnHead, Deleting
    <2>5. PrivateAreHeld'
      BY <1>14 DEF Reject, TypeOK, PlansHaveBases, ComposesOnHead, PrivateAreHeld, Private,
         Composed, Deleting
    <2>6. RevisionsIntact' /\ BuildsOnParent'
      BY <1>14 DEF Reject, TypeOK, RowsAreNamed, RowsOfDocument, PublishesOnHead, Deleting,
         RevisionsIntact, BuildsOnParent
    <2> QED
      BY <2>1, <2>2, <2>3, <2>4, <2>5, <2>6
  <1>15. ASSUME NEW p \in plans, NEW i \in Ids, Apply(p, i) PROVE RevisionInv'
    <2>1. Bounded'
      BY <1>15 DEF Apply, Bounded
    <2>2. TypeOK'
      BY <1>15, <2>1 DEF Apply, TypeOK, RowsOfDocument, PublishesOnHead, ComposesOnHead,
         RowsAreNamed, PlansHaveBases, Bounded
    <2>3. RowsAreNamed' /\ RowsOfDocument'
      BY <1>15 DEF Apply, TypeOK, RowsAreNamed, RowsOfDocument, PublishesOnHead
    <2>4. PlansHaveBases' /\ PublishesOnHead' /\ ComposesOnHead' /\ Deleting'
      BY <1>15 DEF Apply, TypeOK, RowsAreNamed, RowsOfDocument, PlansHaveBases,
         PublishesOnHead, ComposesOnHead, Deleting
    <2>5. PrivateAreHeld'
      BY <1>15 DEF Apply, TypeOK, PlansHaveBases, ComposesOnHead, PrivateAreHeld, Private,
         Composed, Deleting
    <2>6. RevisionsIntact' /\ BuildsOnParent'
      BY <1>15 DEF Apply, TypeOK, RowsAreNamed, RowsOfDocument, PublishesOnHead, Deleting,
         RevisionsIntact, BuildsOnParent
    <2> QED
      BY <2>1, <2>2, <2>3, <2>4, <2>5, <2>6
  <1>16. ASSUME DropApplied PROVE RevisionInv'
    <2>1. Bounded'
      BY <1>16, WithoutOne DEF DropApplied, Bounded
    <2>2. TypeOK'
      BY <1>16, <2>1 DEF DropApplied, TypeOK, RowsOfDocument, PublishesOnHead, ComposesOnHead,
         RowsAreNamed, PlansHaveBases, Bounded
    <2>3. RowsAreNamed' /\ RowsOfDocument'
      BY <1>16 DEF DropApplied, TypeOK, RowsAreNamed, RowsOfDocument, PublishesOnHead
    <2>4. PlansHaveBases' /\ PublishesOnHead' /\ ComposesOnHead' /\ Deleting'
      BY <1>16 DEF DropApplied, TypeOK, RowsAreNamed, RowsOfDocument, PlansHaveBases,
         PublishesOnHead, ComposesOnHead, Deleting
    <2>5. PrivateAreHeld'
      BY <1>16 DEF DropApplied, TypeOK, PlansHaveBases, ComposesOnHead, PrivateAreHeld,
         Private, Composed, Deleting
    <2>6. RevisionsIntact' /\ BuildsOnParent'
      BY <1>16 DEF DropApplied, TypeOK, RowsAreNamed, RowsOfDocument, PublishesOnHead,
         Deleting, RevisionsIntact, BuildsOnParent
    <2> QED
      BY <2>1, <2>2, <2>3, <2>4, <2>5, <2>6
  <1>17. ASSUME Delete PROVE RevisionInv'
    <2>1. Bounded'
      BY <1>17, FS_EmptySet DEF Delete, Bounded
    <2>2. TypeOK'
      BY <1>17, <2>1 DEF Delete, TypeOK, RowsOfDocument, PublishesOnHead, ComposesOnHead,
         RowsAreNamed, PlansHaveBases, Bounded
    <2>3. RowsAreNamed' /\ RowsOfDocument'
      BY <1>17 DEF Delete, TypeOK, RowsAreNamed, RowsOfDocument, PublishesOnHead
    <2>4. PlansHaveBases' /\ PublishesOnHead' /\ ComposesOnHead' /\ Deleting'
      BY <1>17 DEF Delete, TypeOK, RowsAreNamed, RowsOfDocument, PlansHaveBases,
         PublishesOnHead, ComposesOnHead, Deleting
    <2>5. PrivateAreHeld'
      BY <1>17 DEF Delete, TypeOK, PlansHaveBases, ComposesOnHead, PrivateAreHeld, Private,
         Composed, Deleting
    <2>6. RevisionsIntact' /\ BuildsOnParent'
      BY <1>17 DEF Delete, TypeOK, RowsAreNamed, RowsOfDocument, PublishesOnHead, Deleting,
         RevisionsIntact, BuildsOnParent
    <2> QED
      BY <2>1, <2>2, <2>3, <2>4, <2>5, <2>6
  <1>18. ASSUME RemoveFile PROVE RevisionInv'
    <2>1. Bounded'
      BY <1>18 DEF RemoveFile, Bounded
    <2>2. TypeOK'
      BY <1>18, <2>1 DEF RemoveFile, TypeOK, RowsOfDocument, PublishesOnHead, ComposesOnHead,
         RowsAreNamed, PlansHaveBases, Bounded
    <2>3. RowsAreNamed' /\ RowsOfDocument'
      BY <1>18 DEF RemoveFile, TypeOK, RowsAreNamed, RowsOfDocument, PublishesOnHead
    <2>4. PlansHaveBases' /\ PublishesOnHead' /\ ComposesOnHead' /\ Deleting'
      BY <1>18 DEF RemoveFile, TypeOK, RowsAreNamed, RowsOfDocument, PlansHaveBases,
         PublishesOnHead, ComposesOnHead, Deleting
    <2>5. PrivateAreHeld'
      BY <1>18 DEF RemoveFile, TypeOK, PlansHaveBases, ComposesOnHead, PrivateAreHeld, Private,
         Composed, Deleting
    <2>6. RevisionsIntact' /\ BuildsOnParent'
      BY <1>18 DEF RemoveFile, TypeOK, RowsAreNamed, RowsOfDocument, PublishesOnHead, Deleting,
         RevisionsIntact, BuildsOnParent
    <2> QED
      BY <2>1, <2>2, <2>3, <2>4, <2>5, <2>6
  <1>19. ASSUME DeleteRecord PROVE RevisionInv'
    <2>1. Bounded'
      BY <1>19 DEF DeleteRecord, Bounded
    <2>2. TypeOK'
      BY <1>19, <2>1 DEF DeleteRecord, TypeOK, RowsOfDocument, PublishesOnHead, ComposesOnHead,
         RowsAreNamed, PlansHaveBases, Bounded
    <2>3. RowsAreNamed' /\ RowsOfDocument'
      BY <1>19 DEF DeleteRecord, TypeOK, RowsAreNamed, RowsOfDocument, Deleting
    <2>4. PlansHaveBases' /\ PublishesOnHead' /\ ComposesOnHead' /\ Deleting'
      BY <1>19 DEF DeleteRecord, TypeOK, RowsAreNamed, RowsOfDocument, PlansHaveBases,
         PublishesOnHead, ComposesOnHead, Deleting
    <2>5. PrivateAreHeld'
      BY <1>19 DEF DeleteRecord, TypeOK, PlansHaveBases, ComposesOnHead, PrivateAreHeld,
         Private, Composed, Deleting
    <2>6. RevisionsIntact' /\ BuildsOnParent'
      BY <1>19 DEF DeleteRecord, TypeOK, RowsAreNamed, RowsOfDocument, PublishesOnHead,
         Deleting, RevisionsIntact, BuildsOnParent
    <2> QED
      BY <2>1, <2>2, <2>3, <2>4, <2>5, <2>6
  <1>20. ASSUME Crash PROVE RevisionInv'
    <2>1. Bounded'
      BY <1>20, FS_EmptySet DEF Crash, Bounded
    <2>2. TypeOK'
      BY <1>20, <2>1 DEF Crash, TypeOK, RowsOfDocument, PublishesOnHead, ComposesOnHead,
         RowsAreNamed, PlansHaveBases, Bounded
    <2>3. RowsAreNamed' /\ RowsOfDocument'
      BY <1>20 DEF Crash, TypeOK, RowsAreNamed, RowsOfDocument, PublishesOnHead
    <2>4. PlansHaveBases' /\ PublishesOnHead' /\ ComposesOnHead' /\ Deleting'
      BY <1>20 DEF Crash, TypeOK, RowsAreNamed, RowsOfDocument, PlansHaveBases,
         PublishesOnHead, ComposesOnHead, Deleting
    <2>5. PrivateAreHeld'
      BY <1>20 DEF Crash, TypeOK, PlansHaveBases, ComposesOnHead, PrivateAreHeld, Private,
         Composed, Deleting
    <2>6. RevisionsIntact' /\ BuildsOnParent'
      BY <1>20 DEF Crash, TypeOK, RowsAreNamed, RowsOfDocument, PublishesOnHead, Deleting,
         RevisionsIntact, BuildsOnParent
    <2> QED
      BY <2>1, <2>2, <2>3, <2>4, <2>5, <2>6
  <1>21. ASSUME Close PROVE RevisionInv'
    <2>1. Bounded'
      BY <1>21, FS_EmptySet DEF Close, Bounded
    <2>2. TypeOK'
      BY <1>21, <2>1 DEF Close, TypeOK, RowsOfDocument, PublishesOnHead, ComposesOnHead,
         RowsAreNamed, PlansHaveBases, Bounded
    <2>3. RowsAreNamed' /\ RowsOfDocument'
      BY <1>21 DEF Close, TypeOK, RowsAreNamed, RowsOfDocument, PublishesOnHead
    <2>4. PlansHaveBases' /\ PublishesOnHead' /\ ComposesOnHead' /\ Deleting'
      BY <1>21 DEF Close, TypeOK, RowsAreNamed, RowsOfDocument, PlansHaveBases,
         PublishesOnHead, ComposesOnHead, Deleting
    <2>5. PrivateAreHeld'
      BY <1>21 DEF Close, TypeOK, PlansHaveBases, ComposesOnHead, PrivateAreHeld, Private,
         Composed, Deleting
    <2>6. RevisionsIntact' /\ BuildsOnParent'
      BY <1>21 DEF Close, TypeOK, RowsAreNamed, RowsOfDocument, PublishesOnHead, Deleting,
         RevisionsIntact, BuildsOnParent
    <2> QED
      BY <2>1, <2>2, <2>3, <2>4, <2>5, <2>6
  <1>22. ASSUME Restart PROVE RevisionInv'
    <2>1. Bounded'
      BY <1>22 DEF Restart, Bounded
    <2>2. TypeOK'
      BY <1>22, <2>1 DEF Restart, TypeOK, RowsOfDocument, PublishesOnHead, ComposesOnHead,
         RowsAreNamed, PlansHaveBases, Bounded
    <2>3. RowsAreNamed' /\ RowsOfDocument'
      BY <1>22 DEF Restart, TypeOK, RowsAreNamed, RowsOfDocument, PublishesOnHead
    <2>4. PlansHaveBases' /\ PublishesOnHead' /\ ComposesOnHead' /\ Deleting'
      BY <1>22 DEF Restart, TypeOK, RowsAreNamed, RowsOfDocument, PlansHaveBases,
         PublishesOnHead, ComposesOnHead, Deleting
    <2>5. PrivateAreHeld'
      BY <1>22 DEF Restart, TypeOK, PlansHaveBases, ComposesOnHead, PrivateAreHeld, Private,
         Composed, Deleting
    <2>6. RevisionsIntact' /\ BuildsOnParent'
      BY <1>22 DEF Restart, TypeOK, RowsAreNamed, RowsOfDocument, PublishesOnHead, Deleting,
         RevisionsIntact, BuildsOnParent
    <2> QED
      BY <2>1, <2>2, <2>3, <2>4, <2>5, <2>6
  <1>23. \A v \in revs : v.id \in Revs
    BY DEF TypeOK
  <1> QED
    BY <1>1, <1>2, <1>3, <1>4, <1>5, <1>6, <1>7, <1>8, <1>9, <1>10, <1>11, <1>12, <1>13, <1>14,
       <1>15, <1>16, <1>17, <1>18, <1>19, <1>20, <1>21, <1>22, <1>23 DEF Next, Undo, Redo

\* A project with its imported package starts in the inductive invariant.
LEMMA RevisionInit == Init => RevisionInv
  <1> SUFFICES ASSUME Init PROVE RevisionInv
    OBVIOUS
  <1> USE RevisionAssumption DEF Init
  <1>0. Bounded
    BY FS_EmptySet DEF Bounded
  <1>1. TypeOK
    <2>1. disk \in [Files -> Revs \cup {None}] /\ base \in [Revs -> Revs \cup {None}]
      OBVIOUS
    <2>2. revs \subseteq Row /\ plans \subseteq Plan /\ shown \subseteq Revs /\ ever \subseteq Ids
      OBVIOUS
    <2>4. op \in [does : {"nothing", "import", "parse", "install", "commit", "drop", "copy",
                       "register", "delete"},
               id : Ids \cup {None}, bytes : Revs \cup {None}, plan : Ids \cup {None}]
      OBVIOUS
    <2>5. faults \in 0..MaxFaults
      OBVIOUS
    <2>6. head = None <=> revs = {}
      OBVIOUS
    <2> QED
      BY <1>0, <2>1, <2>2, <2>4, <2>5, <2>6 DEF TypeOK, Bounded
  <1>2. RowsAreNamed /\ RowsOfDocument /\ RevisionsIntact /\ BuildsOnParent
    BY DEF RowsAreNamed, RowsOfDocument, RevisionsIntact, BuildsOnParent
  <1>3. PlansHaveBases /\ PublishesOnHead /\ ComposesOnHead /\ Deleting
    BY DEF PlansHaveBases, PublishesOnHead, ComposesOnHead, Deleting
  <1>4. PrivateAreHeld
    BY DEF PrivateAreHeld
  <1> QED
    BY <1>0, <1>1, <1>2, <1>3, <1>4 DEF RevisionInv

\* The inductive invariant of Revisions holds of every behaviour.
THEOREM RevisionInvariant == Spec => []RevisionInv
  <1>1. RevisionInv /\ UNCHANGED vars => RevisionInv'
    BY DEF vars, RevisionInv, TypeOK, Bounded, RowsAreNamed, RowsOfDocument, PlansHaveBases,
           PublishesOnHead, ComposesOnHead, Deleting, PrivateAreHeld, Private, Composed,
           RevisionsIntact, BuildsOnParent, Verified, PlanVerified
  <1> QED
    BY <1>1, RevisionInit, RevisionStep, PTL DEF Spec

\* Every variable keeps its type, and a presentation has a head as long as it has rows
\* (editing.py:2632-2760, edit_plans.py:99-335).
THEOREM TypeCorrect == Spec => []TypeOK
  <1>1. RevisionInv => TypeOK
    BY DEF RevisionInv
  <1> QED
    BY <1>1, RevisionInvariant, PTL

\* The package of a recorded revision keeps the recorded bytes through any edits, plans,
\* failures and crashes (editing.py:2632-2760, ingestion/service.py:282-340).
THEOREM RecordedPackagesStay == Spec => []RevisionsIntact
  <1>1. RevisionInv => RevisionsIntact
    BY DEF RevisionInv
  <1> QED
    BY <1>1, RevisionInvariant, PTL

\* A revision was made from its parent's bytes, and one that a plan published has the bytes
\* that were opened for review (edit_plans.py:200-262, transactions.py:314-360).
THEOREM RevisionsBuildOnParents == Spec => []BuildsOnParent
  <1>1. RevisionInv => BuildsOnParent
    BY DEF RevisionInv
  <1> QED
    BY <1>1, RevisionInvariant, PTL

\* Between requests a project that was opened has the packages of its live plans and no
\* other private ones, whatever crashed before (edit_plans.py:68-97).
THEOREM PrivatePackagesAreHeld == Spec => []PrivateReconciled
  <1>1. RevisionInv => PrivateReconciled
    BY DEF RevisionInv, PrivateAreHeld, Private, Composed, PrivateReconciled
  <1> QED
    BY <1>1, RevisionInvariant, PTL

\* A plan that can be applied was made from the revision that is current, and its package
\* is what was composed and reviewed (edit_plans.py:200-262).
PlansFitHead == \A p \in plans : AtBaseline(p) =>
    /\ PlanVerified(p) /\ \E w \in revs : w.id = head /\ base[p.bytes] = w.bytes
    /\ p.opened => p.bytes \in shown

\* No step brings a plan out of line with the revision it was made from.
THEOREM AppliedPlansFit == Spec => []PlansFitHead
  <1>1. RevisionInv => PlansFitHead
    BY DEF RevisionInv, PlansHaveBases, PlansFitHead, AtBaseline
  <1> QED
    BY <1>1, RevisionInvariant, PTL

-----------------------------------------------------------------------------
(* The slides: what an edit makes of them (Deck).                          *)

DeckInv == D!TypeOK /\ LinksLead

\* The facts on finite sets are of the operators of Deck too.
LEMMA SameCardinality == \A S : D!Cardinality(S) = Cardinality(S)
BY DEF D!Cardinality, Cardinality

\* Among natural numbers there is a lowest, and up to a bound a highest.
LEMMA LowestOf ==
    ASSUME NEW S \in SUBSET Nat, S # {}
    PROVE  \E x \in S : \A y \in S : x <= y
<1>1. PICK x \in S : \A y \in S : ~ (<<y, x>> \in OpToRel(<, Nat))
  BY WFMin, NatLessThanWellFounded
<1>2. ASSUME NEW y \in S PROVE x <= y
  <2>1. ~(<<y, x>>[1] < <<y, x>>[2])
    BY <1>1 DEF OpToRel
  <2> QED
    BY <2>1
<1> QED
  BY <1>2

\* Up to a bound there is also a highest.
LEMMA HighestOf ==
    ASSUME NEW n \in Nat, NEW S \in SUBSET 0..n, S # {}
    PROVE  D!Max(S) \in S /\ \A y \in S : D!Max(S) >= y
<1> DEFINE T == {n - x : x \in S}
<1>0. \A x \in 0..n : n - x \in Nat
  OBVIOUS
<1>1. T \in SUBSET Nat /\ T # {}
  BY <1>0
<1>2. PICK t \in T : \A u \in T : t <= u
  BY <1>1, LowestOf
<1>3. PICK x \in S : t = n - x
  OBVIOUS
<1>4. ASSUME NEW y \in S PROVE x >= y
  <2>1. n - x <= n - y
    BY <1>2, <1>3
  <2>2. x \in 0..n /\ y \in 0..n
    OBVIOUS
  <2> QED
    BY <2>1, <2>2
<1> QED
  BY <1>4 DEF D!Max

\* The lowest number that is not used is one that is not used, and not far.
LEMMA LowestIsFree ==
    ASSUME NEW used, IsFiniteSet(used)
    PROVE  D!Lowest(used) \in 1..Cardinality(used) + 1 /\ D!Lowest(used) \notin used
<1> DEFINE c == Cardinality(used)
           free == {n \in 1..c + 1 : n \notin used}
<1>1. c \in Nat
  BY FS_CardinalityType
<1>2. free # {}
  <2>1. CASE 1..c + 1 \subseteq used
    <3>1. Cardinality(1..c + 1) <= c
      BY <2>1, FS_Subset
    <3>2. Cardinality(1..c + 1) = c + 1
      BY <1>1, FS_Interval
    <3> QED
      BY <1>1, <3>1, <3>2
  <2> QED
    BY <2>1
<1>3. PICK n \in free : \A m \in free : n <= m
  <2>1. free \in SUBSET Nat
    BY <1>1
  <2> QED
    BY <1>2, <2>1, LowestOf
<1>4. 1..n - 1 \subseteq used
  BY <1>1, <1>3
<1>5. \E m \in 1..c + 1 : m \notin used /\ 1..m - 1 \subseteq used
  BY <1>3, <1>4
<1> HIDE DEF c
<1>6. D!Lowest(used) = CHOOSE m \in 1..c + 1 : m \notin used /\ 1..m - 1 \subseteq used
  BY SameCardinality DEF D!Lowest, c
<1> QED
  BY <1>5, <1>6 DEF c

\* Putting a slide into a sequence, and taking one out.
LEMMA PutAt ==
    ASSUME NEW S, NEW q \in Seq(S), NEW i \in 1..Len(q) + 1, NEW e
    PROVE  /\ Len(D!InsertAt(q, i, e)) = Len(q) + 1 /\ DOMAIN D!InsertAt(q, i, e) = 1..Len(q) + 1
           /\ \A k \in 1..Len(q) + 1 :
                 D!InsertAt(q, i, e)[k] = IF k < i THEN q[k] ELSE IF k = i THEN e ELSE q[k - 1]
<1> DEFINE r == D!InsertAt(q, i, e)
<1>2. Len(q) \in Nat /\ DOMAIN q = 1..Len(q)
  OBVIOUS
<1>1. /\ Len(r) = Len(q) + 1 /\ DOMAIN r = 1..Len(q) + 1
      /\ \A k \in 1..Len(q) + 1 : r[k] = IF k < i THEN q[k] ELSE IF k = i THEN e ELSE q[k - 1]
  <2> DEFINE a == SubSeq(q, 1, i - 1)
             b == SubSeq(q, i, Len(q))
             c == a \o <<e>>
             T == D!ToSet(q) \cup {e}
  <2>1. q \in Seq(T) /\ e \in T
    BY <1>2 DEF D!ToSet
  <2>2. a \in Seq(T) /\ Len(a) = i - 1 /\ \A k \in 1..i - 1 : a[k] = q[k]
    BY <1>2, <2>1
  <2>3. /\ b \in Seq(T) /\ Len(b) = Len(q) + 1 - i
        /\ \A k \in 1..Len(q) + 1 - i : b[k] = q[k + i - 1]
    BY <1>2, <2>1
  <2>4. r = c \o b
    BY DEF D!InsertAt
  <2> HIDE DEF a, b, r, T
  <2>5. c \in Seq(T) /\ Len(c) = i
    BY <2>1, <2>2, <1>2
  <2>6. \A k \in 1..i : c[k] = IF k < i THEN q[k] ELSE e
    BY <2>1, <2>2, <1>2
  <2> HIDE DEF c
  <2>7. Len(r) = Len(q) + 1 /\ DOMAIN r = 1..Len(q) + 1
    <3>1. r \in Seq(T) /\ Len(r) = i + (Len(q) + 1 - i)
      BY <2>3, <2>4, <2>5
    <3> QED
      BY <1>2, <3>1
  <2>8. ASSUME NEW k \in 1..Len(q) + 1
        PROVE  r[k] = IF k < i THEN q[k] ELSE IF k = i THEN e ELSE q[k - 1]
    <3>1. CASE k <= i
      BY <1>2, <2>3, <2>4, <2>5, <2>6, <3>1
    <3>2. CASE ~(k <= i)
      <4>1. r[k] = b[k - i] /\ k - i \in 1..Len(q) + 1 - i
        BY <1>2, <2>3, <2>4, <2>5, <3>2
      <4> QED
        BY <1>2, <2>3, <3>2, <4>1, SMTT(30)
    <3> QED
      BY <3>1, <3>2
  <2> QED
    BY <2>7, <2>8
<1> QED
  BY <1>1

\* The elements of a sequence with one more.
LEMMA PutIn ==
    ASSUME NEW S, NEW q \in Seq(S), NEW i \in 1..Len(q) + 1, NEW e
    PROVE  /\ D!ToSet(D!InsertAt(q, i, e)) = D!ToSet(q) \cup {e}
           /\ D!InsertAt(q, i, e) \in Seq(D!ToSet(q) \cup {e})
<1> DEFINE r == D!InsertAt(q, i, e)
<1>1. /\ Len(r) = Len(q) + 1 /\ DOMAIN r = 1..Len(q) + 1
      /\ \A k \in 1..Len(q) + 1 : r[k] = IF k < i THEN q[k] ELSE IF k = i THEN e ELSE q[k - 1]
  BY PutAt
<1>2. Len(q) \in Nat /\ DOMAIN q = 1..Len(q)
  OBVIOUS
<1>3. ASSUME NEW k \in 1..Len(q) PROVE \E m \in 1..Len(q) + 1 : r[m] = q[k]
  <2>1. CASE k < i
    BY <1>1, <1>2, <2>1
  <2>2. CASE ~(k < i)
    <3>1. r[k + 1] = q[k]
      BY <1>1, <1>2, <2>2
    <3> QED
      BY <1>2, <3>1
  <2> QED
    BY <2>1, <2>2
<1>4. r[i] = e
  BY <1>1
<1>5. \A k \in 1..Len(q) + 1 : r[k] \in D!ToSet(q) \cup {e}
  BY <1>1, <1>2 DEF D!ToSet
<1>6. r \in Seq(D!ToSet(q) \cup {e})
  <2>1. q \in Seq(D!ToSet(q) \cup {e}) /\ <<e>> \in Seq(D!ToSet(q) \cup {e})
    BY <1>2 DEF D!ToSet
  <2> QED
    BY <2>1 DEF D!InsertAt
<1> HIDE DEF r
<1>7. D!ToSet(r) = D!ToSet(q) \cup {e}
  <2>1. D!ToSet(r) \subseteq D!ToSet(q) \cup {e}
    BY <1>1, <1>5 DEF D!ToSet
  <2>2. \A k \in 1..Len(q) : q[k] \in D!ToSet(r)
    BY <1>1, <1>3 DEF D!ToSet
  <2>3. e \in D!ToSet(r)
    BY <1>1, <1>2, <1>4 DEF D!ToSet
  <2> QED
    BY <1>2, <2>1, <2>2, <2>3 DEF D!ToSet
<1> QED
  BY <1>6, <1>7 DEF r

\* The places of a sequence without its i-th.
LEMMA RestAt ==
    ASSUME NEW S, NEW q \in Seq(S), NEW i \in 1..Len(q)
    PROVE  /\ Len(D!RemoveAt(q, i)) = Len(q) - 1 /\ DOMAIN D!RemoveAt(q, i) = 1..Len(q) - 1
           /\ \A k \in 1..Len(q) - 1 : D!RemoveAt(q, i)[k] = IF k < i THEN q[k] ELSE q[k + 1]
<1> DEFINE a == SubSeq(q, 1, i - 1)
           b == SubSeq(q, i + 1, Len(q))
           r == a \o b
<1>1. Len(q) \in Nat /\ DOMAIN q = 1..Len(q)
  OBVIOUS
<1>2. /\ a \in Seq(S) /\ Len(a) = i - 1 /\ \A k \in 1..i - 1 : a[k] = q[k]
      /\ b \in Seq(S) /\ Len(b) = Len(q) - i /\ \A k \in 1..Len(q) - i : b[k] = q[k + i]
  OBVIOUS
<1> HIDE DEF a, b
<1>3. /\ r \in Seq(S) /\ Len(r) = Len(q) - 1 /\ DOMAIN r = 1..Len(q) - 1
      /\ \A k \in 1..Len(q) - 1 : r[k] = IF k < i THEN q[k] ELSE q[k + 1]
  <2>1. r \in Seq(S) /\ Len(r) = Len(q) - 1 /\ DOMAIN r = 1..Len(q) - 1
    <3>1. r \in Seq(S)
      BY <1>2
    <3>2. Len(r) = Len(a) + Len(b)
      <4>1. a \in Seq(S) /\ b \in Seq(S)
        BY <1>2
      <4> QED
        BY <4>1
    <3>3. Len(r) = Len(q) - 1
      BY <1>1, <1>2, <3>2
    <3> QED
      BY <3>1, <3>3
  <2>2. ASSUME NEW k \in 1..Len(q) - 1 PROVE r[k] = IF k < i THEN q[k] ELSE q[k + 1]
    <3>1. CASE k < i
      BY <1>1, <1>2, <3>1
    <3>2. CASE ~(k < i)
      <4>1. r[k] = b[k - (i - 1)] /\ k - (i - 1) \in 1..Len(q) - i
        BY <1>1, <1>2, <3>2
      <4> QED
        BY <1>1, <1>2, <3>2, <4>1
    <3> QED
      BY <3>1, <3>2
  <2> QED
    BY <2>1, <2>2
<1> QED
  BY <1>3 DEF r, a, b, D!RemoveAt

\* The elements of a sequence without its i-th are elements of the sequence, and all but that one.
LEMMA TakenOut ==
    ASSUME NEW S, NEW q \in Seq(S), NEW i \in 1..Len(q)
    PROVE  /\ D!ToSet(q) \ {q[i]} \subseteq D!ToSet(D!RemoveAt(q, i))
           /\ D!ToSet(D!RemoveAt(q, i)) \subseteq D!ToSet(q)
           /\ D!RemoveAt(q, i) \in Seq(D!ToSet(D!RemoveAt(q, i)))
<1> DEFINE r == D!RemoveAt(q, i)
<1>1. Len(q) \in Nat /\ DOMAIN q = 1..Len(q)
  OBVIOUS
<1>3. /\ Len(r) = Len(q) - 1 /\ DOMAIN r = 1..Len(q) - 1
      /\ \A k \in 1..Len(q) - 1 : r[k] = IF k < i THEN q[k] ELSE q[k + 1]
  BY RestAt
<1>2. r \in Seq(S)
  <2>1. SubSeq(q, 1, i - 1) \in Seq(S) /\ SubSeq(q, i + 1, Len(q)) \in Seq(S)
    BY <1>1
  <2> QED
    BY <2>1 DEF D!RemoveAt
<1> HIDE DEF r
<1>4. ASSUME NEW k \in 1..Len(q), k # i PROVE q[k] \in D!ToSet(r)
  <2>1. CASE k < i
    <3>1. k \in DOMAIN r /\ r[k] = q[k]
      BY <1>1, <1>3, <2>1
    <3> QED
      BY <3>1 DEF D!ToSet
  <2>2. CASE k > i
    <3>1. k - 1 \in DOMAIN r /\ r[k - 1] = q[k]
      BY <1>1, <1>3, <2>2
    <3> QED
      BY <3>1 DEF D!ToSet
  <2> QED
    BY <1>1, <1>4, <2>1, <2>2
<1>5. ASSUME NEW k \in DOMAIN r PROVE r[k] \in D!ToSet(q)
  <2>1. r[k] = q[k] \/ r[k] = q[k + 1]
    BY <1>3
  <2>2. k \in DOMAIN q /\ k + 1 \in DOMAIN q
    BY <1>1, <1>3
  <2> QED
    BY <2>1, <2>2 DEF D!ToSet
<1>6. r \in Seq(D!ToSet(r))
  BY <1>2, <1>3 DEF D!ToSet
<1>7. D!ToSet(q) \ {q[i]} \subseteq D!ToSet(r)
  BY <1>1, <1>4 DEF D!ToSet
<1>8. D!ToSet(r) \subseteq D!ToSet(q)
  BY <1>5 DEF D!ToSet
<1> QED
  BY <1>6, <1>7, <1>8 DEF r

\* Whatever is as long as a sequence, and a function of its places, is a sequence of its values.
LEMMA OwnSlides ==
    ASSUME NEW S, NEW q \in Seq(S), NEW i \in 1..Len(q), NEW e
    PROVE  [q EXCEPT ![i] = e] \in Seq(D!ToSet([q EXCEPT ![i] = e]))
<1> DEFINE r == [q EXCEPT ![i] = e]
<1>1. q \in Seq(S \cup {e})
  OBVIOUS
<1>2. r \in Seq(S \cup {e}) /\ Len(r) = Len(q)
  BY <1>1
<1> HIDE DEF r
<1>3. Len(q) \in Nat /\ DOMAIN r = 1..Len(q)
  BY <1>2
<1>4. \A k \in DOMAIN r : r[k] \in D!ToSet(r)
  BY DEF D!ToSet
<1>5. r \in Seq(D!ToSet(r))
  BY <1>2, <1>3, <1>4
<1> QED
  BY <1>5 DEF r

\* What is known of the deck.
LEMMA DeckFacts ==
    ASSUME DeckInv
    PROVE  /\ deck.order \in Seq(D!Slides(deck)) /\ Len(deck.order) \in 1..SlideLimit
           /\ DOMAIN deck.order = 1..Len(deck.order)
           /\ \A i \in DOMAIN deck.order : deck.order[i] \in D!Slides(deck)
           /\ \A s \in D!Slides(deck) : \E i \in DOMAIN deck.order : s = deck.order[i]
           /\ \A s \in D!Slides(deck) : D!SlideOf(s, number) /\ s.born[1] # 0
           /\ \A i, j \in DOMAIN deck.order :
                 deck.order[i].born = deck.order[j].born => i = j
           /\ \A s, t \in D!Slides(deck) : s.born = t.born => s = t
           /\ number \in 1..MaxRevs
<1>1. /\ deck.order \in Seq(D!Slides(deck)) /\ Len(deck.order) \in 1..SlideLimit
      /\ \A s \in D!Slides(deck) : D!SlideOf(s, number) /\ s.born[1] # 0
      /\ number \in 1..MaxRevs /\ D!SlidesDiffer(deck)
  BY DEF DeckInv, D!TypeOK, D!WellFormed
<1>2. DOMAIN deck.order = 1..Len(deck.order)
  BY <1>1
<1>3. /\ \A i \in DOMAIN deck.order : deck.order[i] \in D!Slides(deck)
      /\ \A s \in D!Slides(deck) : \E i \in DOMAIN deck.order : s = deck.order[i]
  BY DEF D!Slides, D!ToSet
<1>4. \A i, j \in DOMAIN deck.order : deck.order[i].born = deck.order[j].born => i = j
  BY <1>1 DEF D!SlidesDiffer
<1>5. \A s, t \in D!Slides(deck) : s.born = t.born => s = t
  BY <1>3, <1>4
<1> QED
  BY <1>1, <1>2, <1>3, <1>4, <1>5

\* What a commit makes of the deck.
Committed(data) ==
    /\ DOMAIN deck' = {"order", "sections", "data"}
    /\ deck'.data = [p \in D!Parts(deck') |-> IF p \in DOMAIN data THEN data[p] ELSE deck.data[p]]
    /\ number' = number + 1 /\ number' \in 1..MaxRevs

\* What a commit of slides makes of the deck.
LEMMA CommitOfSlides ==
    ASSUME DeckInv, NEW order, NEW data, NEW source, D!CommitSlides(order, data, source)
    PROVE  deck'.order = order /\ Committed(data) /\ copied' = source
<1> DEFINE d == [deck EXCEPT !.order = order,
                   !.sections = D!Synced(@, D!IdsOf(deck), [i \in DOMAIN order |-> order[i].id])]
<1>1. DOMAIN deck = {"order", "sections", "data"} /\ number \in 1..MaxRevs
  BY DEF DeckInv, D!TypeOK, D!WellFormed
<1>2. D!Commit(d, data, source)
  BY DEF D!CommitSlides
<1>3. d.order = order /\ d.data = deck.data /\ DOMAIN d = {"order", "sections", "data"}
  BY <1>1
<1> HIDE DEF d
<1>4. deck' = [d EXCEPT !.data = [p \in D!Parts(d) |-> IF p \in DOMAIN data THEN data[p] ELSE @[p]]]
  BY <1>2 DEF D!Commit
<1>5. deck'.order = order /\ DOMAIN deck' = {"order", "sections", "data"}
  BY <1>3, <1>4
<1>6. D!Parts(deck') = D!Parts(d)
  BY <1>3, <1>5 DEF D!Parts, D!Slides
<1>7. deck'.data = [p \in D!Parts(deck') |-> IF p \in DOMAIN data THEN data[p] ELSE deck.data[p]]
  BY <1>3, <1>4, <1>6
<1>8. number' = number + 1 /\ number' \in 1..MaxRevs /\ copied' = source
  BY <1>1, <1>2, DeckAssumed DEF D!Commit, D!New, D!DeckAssumption
<1> QED
  BY <1>5, <1>7, <1>8 DEF Committed

\* What an edit of one slide makes of the deck.
LEMMA CommitOfSlide ==
    ASSUME DeckInv, NEW i \in DOMAIN deck.order, NEW s, NEW data, D!CommitSlide(i, s, data)
    PROVE  deck'.order = [deck.order EXCEPT ![i] = s] /\ Committed(data) /\ copied' = None
<1> DEFINE d == [deck EXCEPT !.order[i] = s]
<1>1. DOMAIN deck = {"order", "sections", "data"} /\ number \in 1..MaxRevs
  BY DEF DeckInv, D!TypeOK, D!WellFormed
<1>2. D!Commit(d, data, None)
  BY DEF D!CommitSlide
<1>3. /\ d.order = [deck.order EXCEPT ![i] = s] /\ d.data = deck.data
      /\ DOMAIN d = {"order", "sections", "data"}
  BY <1>1
<1> HIDE DEF d
<1>4. deck' = [d EXCEPT !.data = [p \in D!Parts(d) |-> IF p \in DOMAIN data THEN data[p] ELSE @[p]]]
  BY <1>2 DEF D!Commit
<1>5. deck'.order = [deck.order EXCEPT ![i] = s] /\ DOMAIN deck' = {"order", "sections", "data"}
  BY <1>3, <1>4
<1>6. D!Parts(deck') = D!Parts(d)
  BY <1>3, <1>5 DEF D!Parts, D!Slides
<1>7. deck'.data = [p \in D!Parts(deck') |-> IF p \in DOMAIN data THEN data[p] ELSE deck.data[p]]
  BY <1>3, <1>4, <1>6
<1>8. number' = number + 1 /\ number' \in 1..MaxRevs /\ copied' = None
  BY <1>1, <1>2, DeckAssumed DEF D!Commit, D!New, D!DeckAssumption
<1> QED
  BY <1>5, <1>7, <1>8 DEF Committed

\* A slide of one revision may be one of the next.
LEMMA SlideStays ==
    ASSUME NEW s, NEW r \in Nat, D!SlideOf(s, r)
    PROVE  D!SlideOf(s, r + 1)
<1>1. D!NotesNames(r) \subseteq D!NotesNames(r + 1)
  BY DEF D!NotesNames, D!Named
<1>2. \A kind : D!Named(kind, r) \subseteq D!Named(kind, r + 1)
  BY DEF D!Named
<1> QED
  BY <1>1, <1>2 DEF D!SlideOf

\* What is to be shown of a commit.
LEMMA DeckFollows ==
    ASSUME DeckInv, NEW data, Committed(data),
           deck'.order \in Seq(D!Slides(deck')), Len(deck'.order) \in 1..SlideLimit,
           D!SlidesDiffer(deck'),
           \A s \in D!Slides(deck') : s \in D!Slides(deck) \/ (D!SlideOf(s, number + 1) /\ s.born[1] # 0),
           D!Leads(deck')
    PROVE  DeckInv'
<1>1. number \in Nat /\ \A s \in D!Slides(deck) : D!SlideOf(s, number) /\ s.born[1] # 0
  BY DeckFacts, DeckAssumed DEF D!DeckAssumption
<1>2. \A s \in D!Slides(deck') : D!SlideOf(s, number + 1) /\ s.born[1] # 0
  BY <1>1, SlideStays
<1>3. DOMAIN deck'.data = D!Parts(deck')
  BY DEF Committed
<1>4. D!WellFormed(deck', number')
  BY <1>2, <1>3 DEF D!WellFormed, Committed
<1>5. D!TypeOK'
  BY <1>2, <1>4 DEF D!TypeOK, Committed
<1> QED
  BY <1>5 DEF DeckInv, LinksLead, D!LinksLead

\* The range of a function on a finite set is finite.
LEMMA FiniteRange ==
    ASSUME NEW S, IsFiniteSet(S), NEW f, f = [x \in S |-> f[x]]
    PROVE  IsFiniteSet({f[x] : x \in S})
<1> DEFINE T == {f[x] : x \in S}
<1>1. f \in Surjection(S, T)
  BY DEF Surjection
<1> QED
  BY <1>1, FS_Surjection

\* The names an edit draws are names that no slide has.
LEMMA FreshNames ==
    ASSUME DeckInv
    PROVE  /\ D!FreshId(deck) \in Nat \ {0} /\ \A s \in D!Slides(deck) : s.id # D!FreshId(deck)
           /\ D!HighestId(deck) \in 1..MaxSlideId
           /\ D!FreshPart(deck) \in Nat \ {0} /\ \A s \in D!Slides(deck) : s.part # D!FreshPart(deck)
           /\ D!FreshNotes(deck) \in {"notes"} \X Nat \X {0}
           /\ \A s \in D!Slides(deck) : s.notes # None => s.notes # D!FreshNotes(deck)
<1> DEFINE slides == D!Slides(deck)
<1>1. IsFiniteSet(slides)
  <2>1. IsFiniteSet(1..Len(deck.order))
    BY DeckFacts, FS_Interval
  <2>2. deck.order = [x \in 1..Len(deck.order) |-> deck.order[x]]
    BY DeckFacts
  <2>3. slides = {deck.order[x] : x \in 1..Len(deck.order)}
    BY DeckFacts DEF D!Slides, D!ToSet
  <2> QED
    BY <2>1, <2>2, <2>3, FiniteRange
<1>2. slides # {} /\ \A s \in slides : D!SlideOf(s, number)
  BY DeckFacts
<1>3. D!HighestId(deck) \in 1..MaxSlideId /\ \A s \in slides : s.id <= D!HighestId(deck)
  <2> DEFINE ids == {s.id : s \in slides}
  <2>1. ids \in SUBSET (0..MaxSlideId) /\ ids # {} /\ ids \subseteq 1..MaxSlideId
    BY <1>2, DeckAssumed DEF D!SlideOf, D!DeckAssumption
  <2>2. D!Max(ids) \in ids /\ \A y \in ids : D!Max(ids) >= y
    BY <2>1, HighestOf, DeckAssumed DEF D!DeckAssumption
  <2>3. D!HighestId(deck) = D!Max(ids)
    BY DEF D!HighestId
  <2> HIDE DEF ids
  <2>4. \A y \in ids : y \in Nat
    BY <2>1
  <2>5. \A y \in ids : y <= D!Max(ids)
    BY <2>2, <2>4
  <2> QED
    BY <2>1, <2>2, <2>3, <2>5 DEF ids
<1>4. \A s \in slides : s.id \in Nat
  BY <1>2 DEF D!SlideOf
<1>5. D!FreshId(deck) \in Nat \ {0} /\ \A s \in slides : s.id # D!FreshId(deck)
  <2>1. DeckAssumed => MaxSlideId \in Nat
    BY DEF D!DeckAssumption
  <2> HIDE DEF slides
  <2> QED
    BY <1>3, <1>4, <2>1, DeckAssumed DEF D!FreshId
<1>6. D!FreshPart(deck) \in Nat \ {0} /\ \A s \in slides : s.part # D!FreshPart(deck)
  <2> DEFINE f == [s \in slides |-> s.part]
             used == {f[s] : s \in slides}
  <2>1. IsFiniteSet(used)
    BY <1>1, FiniteRange
  <2>2. used = {s.part : s \in slides}
    OBVIOUS
  <2>3. D!Lowest(used) \in 1..Cardinality(used) + 1 /\ D!Lowest(used) \notin used
    BY <2>1, LowestIsFree
  <2>4. Cardinality(used) \in Nat
    BY <2>1, FS_CardinalityType
  <2>5. D!FreshPart(deck) = D!Lowest(used)
    BY <2>2 DEF D!FreshPart
  <2> HIDE DEF used, f
  <2>6. D!FreshPart(deck) \in Nat \ {0}
    BY <2>3, <2>4, <2>5
  <2> QED
    BY <2>2, <2>3, <2>5, <2>6
<1>7. /\ D!FreshNotes(deck) \in {"notes"} \X Nat \X {0}
      /\ \A s \in slides : s.notes # None => s.notes # D!FreshNotes(deck)
  <2> DEFINE f == [s \in slides |-> s.notes]
             notes == {f[s] : s \in slides} \ {None}
             numbered == {q \in notes : q[3] = 0}
             g == [p \in numbered |-> p[2]]
             used == {g[p] : p \in numbered}
  <2>1. IsFiniteSet({f[s] : s \in slides})
    BY <1>1, FiniteRange
  <2>2. IsFiniteSet(numbered)
    <3>1. numbered \in SUBSET {f[s] : s \in slides}
      OBVIOUS
    <3> QED
      BY <2>1, <3>1, FS_Subset
  <2>3. IsFiniteSet(used)
    <3> HIDE DEF numbered
    <3> QED
      BY <2>2, FiniteRange
  <2>4. D!Lowest(used) \in 1..Cardinality(used) + 1 /\ D!Lowest(used) \notin used
    <3> HIDE DEF used
    <3> QED
      BY <2>3, LowestIsFree
  <2>5. D!Lowest(used) \in Nat
    <3> HIDE DEF used
    <3> QED
      BY <2>3, <2>4, FS_CardinalityType
  <2>6. used = {p[2] : p \in {q \in {s.notes : s \in slides} \ {None} : q[3] = 0}}
    OBVIOUS
  <2>7. D!FreshNotes(deck) = <<"notes", D!Lowest(used), 0>>
    <3> HIDE DEF used
    <3> QED
      BY <2>6 DEF D!FreshNotes, D!Numbered
  <2>8. ASSUME NEW s \in slides, s.notes # None, s.notes = <<"notes", D!Lowest(used), 0>>
        PROVE  FALSE
    <3>1. s.notes \in numbered
      <4>1. s.notes[3] = 0
        BY <2>8
      <4>2. f[s] = s.notes /\ f[s] \in notes
        BY <2>8
      <4> HIDE DEF f
      <4> QED
        BY <4>1, <4>2
    <3>2. D!Lowest(used) \in used
      <4>1. s.notes[2] \in used
        BY <3>1
      <4> HIDE DEF used
      <4> QED
        BY <2>8, <4>1
    <3> QED
      BY <2>4, <3>2
  <2> QED
    <3> HIDE DEF used
    <3> QED
      BY <2>5, <2>7, <2>8
<1> QED
  BY <1>3, <1>5, <1>6, <1>7

\* A revision that was committed keeps what the parts of the former one hold, except for those
\* that are written.
LEMMA PartKept ==
    ASSUME NEW data, Committed(data), NEW s, NEW t \in D!Slides(deck'), NEW k \in D!Kinds,
           t[k] = s[k],
           s[k] # None /\ s[k] \in DOMAIN data => data[s[k]] = deck.data[s[k]]
    PROVE  D!Shows(deck, s, deck', t, k)
<1>1. CASE s[k] = None
  BY <1>1 DEF D!Shows, D!Shown
<1>2. CASE s[k] # None
  <2>1. t[k] \in D!Parts(deck')
    BY <1>2 DEF D!Parts
  <2>2. deck'.data[t[k]] = IF t[k] \in DOMAIN data THEN data[t[k]] ELSE deck.data[t[k]]
    BY <2>1 DEF Committed
  <2> QED
    BY <1>2, <2>2 DEF D!Shows, D!Shown
<1> QED
  BY <1>1, <1>2

\* The parts of different kinds have different names.
LEMMA KindsApart ==
    ASSUME NEW r, NEW s, D!SlideOf(s, r), NEW t, D!SlideOf(t, r),
           NEW j \in D!Kinds, NEW k \in D!Kinds, s[j] = t[k], s[j] # None
    PROVE  j = k
<1>1. \A p \in D!NotesNames(r) : p[1] = "notes"
  BY DEF D!NotesNames, D!Named
<1>2. /\ \A p \in D!Named("chart", r) : p[1] = "chart"
      /\ \A p \in D!Named("media", r) : p[1] = "media"
  BY DEF D!Named
<1>3. ASSUME NEW u, D!SlideOf(u, r), NEW m \in D!Kinds, u[m] # None
      PROVE  /\ m = "notes" => u[m][1] = "notes"
             /\ m = "chart" => u[m][1] = "chart"
             /\ m = "picture" => u[m][1] = "media"
  BY <1>1, <1>2, <1>3 DEF D!SlideOf
<1>4. j \in {"notes", "chart", "picture"} /\ k \in {"notes", "chart", "picture"}
  BY DEF D!Kinds
<1> QED
  BY <1>3, <1>4

\* A name with the number of a revision is the name of no part of a former one.
LEMMA NameIsNew ==
    ASSUME DeckInv, NEW s \in D!Slides(deck), NEW k \in D!Kinds, s[k] # None,
           NEW kind, NEW id \in Nat \ {0}
    PROVE  s[k] # D!Name(kind, D!New, id)
<1>1. D!SlideOf(s, number) /\ number \in Nat
  BY DeckFacts, DeckAssumed DEF D!DeckAssumption
<1>2. \A p \in D!NotesNames(number) : p[2] \in 0..number \/ p[3] = 0
  BY DEF D!NotesNames, D!Named
<1>3. \A p \in D!Named("chart", number) \cup D!Named("media", number) : p[2] \in 0..number
  BY DEF D!Named
<1>4. s[k][2] \in 0..number \/ s[k][3] = 0
  BY <1>1, <1>2, <1>3 DEF D!SlideOf, D!Kinds
<1>5. D!Name(kind, D!New, id)[2] = number + 1 /\ D!Name(kind, D!New, id)[3] = id
  BY DEF D!Name, D!New
<1> QED
  BY <1>1, <1>4, <1>5

\* No name of a part stands for none.
LEMMA NameIsOne ==
    ASSUME NEW r \in 0..MaxRevs
    PROVE  None \notin D!NotesNames(r) \cup D!Named("chart", r) \cup D!Named("media", r)
<1>1. MaxRevs \in Nat
  BY DeckAssumed DEF D!DeckAssumption
<1>2. \A kind : D!Named(kind, r) \subseteq D!Named(kind, MaxRevs)
  BY <1>1 DEF D!Named
<1>3. D!NotesNames(r) \subseteq D!NotesNames(MaxRevs)
  BY <1>2 DEF D!NotesNames
<1> QED
  BY <1>2, <1>3, DeckAssumed DEF D!DeckAssumption

\* What the parts of a copy hold is what those of its source do.
LEMMA CopyHolds ==
    ASSUME NEW d, NEW s, NEW t, NEW r, D!SlideOf(t, r), NEW k \in D!Kinds, t[k] # None
    PROVE  t[k] \in DOMAIN D!Copies(t, s, d) /\ D!Copies(t, s, d)[t[k]] = d.data[s[k]]
<1>1. t[k] \in DOMAIN D!Copies(t, s, d)
  BY DEF D!Copies
<1>2. \A j \in D!Kinds : t[j] = t[k] => j = k
  BY KindsApart
<1>3. (CHOOSE j \in D!Kinds : t[j] = t[k]) = k
  BY <1>2
<1>4. D!Copies(t, s, d)[t[k]] = d.data[s[CHOOSE j \in D!Kinds : t[j] = t[k]]]
  BY <1>1 DEF D!Copies
<1> QED
  BY <1>1, <1>3, <1>4

\* A copy shows all that its source does.
LEMMA CopyShows ==
    ASSUME NEW d, NEW s, NEW t \in D!Slides(deck'), Committed(D!Copies(t, s, d)),
           NEW r, D!SlideOf(t, r), \A k \in D!Kinds : s[k] = None <=> t[k] = None,
           NEW k \in D!Kinds
    PROVE  D!Shows(d, s, deck', t, k)
<1>1. CASE s[k] = None
  BY <1>1 DEF D!Shows, D!Shown
<1>2. CASE s[k] # None
  <2>1. t[k] # None
    BY <1>2
  <2>2. t[k] \in D!Parts(deck')
    BY <2>1 DEF D!Parts
  <2>3. t[k] \in DOMAIN D!Copies(t, s, d) /\ D!Copies(t, s, d)[t[k]] = d.data[s[k]]
    BY <2>1, CopyHolds
  <2>4. deck'.data[t[k]] = D!Copies(t, s, d)[t[k]]
    BY <2>2, <2>3 DEF Committed
  <2> QED
    BY <1>2, <2>1, <2>3, <2>4 DEF D!Shows, D!Shown
<1> QED
  BY <1>1, <1>2

-----------------------------------------------------------------------------
(* What the edits do to the deck.                                          *)

\* What a new slide is to the slides that are there.
FreshSlide(e) ==
    /\ D!SlideOf(e, number + 1)
    /\ e.id = D!FreshId(deck) /\ e.part = D!FreshPart(deck)
    /\ e.born = <<D!New, D!FreshId(deck)>>
    /\ e.notes # None => \A s \in D!Slides(deck) : s.notes # e.notes

\* The slides after one was added.
LEMMA SlideAdded ==
    ASSUME DeckInv, NEW i \in 1..Len(deck.order) + 1, NEW e, FreshSlide(e),
           e.link # None => \E t \in D!Slides(deck) : e.link = t.link,
           NEW data, NEW source, D!MayAdd(deck),
           D!CommitSlides(D!InsertAt(deck.order, i, e), data, source)
    PROVE  /\ DeckInv' /\ Committed(data) /\ copied' = source
           /\ D!Slides(deck') = D!Slides(deck) \cup {e}
<1>1. deck'.order = D!InsertAt(deck.order, i, e) /\ Committed(data) /\ copied' = source
  BY CommitOfSlides
<1>2. deck.order \in Seq(D!Slides(deck))
  BY DeckFacts
<1>3. /\ Len(deck'.order) = Len(deck.order) + 1
      /\ \A k \in 1..Len(deck.order) + 1 :
            deck'.order[k] = IF k < i THEN deck.order[k] ELSE IF k = i THEN e ELSE deck.order[k - 1]
  BY <1>1, <1>2, PutAt
<1>4. D!Slides(deck') = D!Slides(deck) \cup {e} /\ deck'.order \in Seq(D!Slides(deck'))
  <2>1. D!ToSet(D!InsertAt(deck.order, i, e)) = D!ToSet(deck.order) \cup {e}
    BY <1>2, PutIn
  <2>2. D!InsertAt(deck.order, i, e) \in Seq(D!ToSet(deck.order) \cup {e})
    BY <1>2, PutIn
  <2> QED
    BY <1>1, <2>1, <2>2 DEF D!Slides
<1>5. Len(deck'.order) \in 1..SlideLimit
  BY <1>3, DeckFacts, DeckAssumed DEF D!MayAdd, D!DeckAssumption
<1>6. /\ \A s \in D!Slides(deck) : s.id # e.id /\ s.part # e.part /\ s.born # e.born
      /\ \A s \in D!Slides(deck) : s.notes # None => s.notes # e.notes
      /\ e.notes # None => \A s \in D!Slides(deck) : s.notes # e.notes
  <2>1. \A s \in D!Slides(deck) : s.id # e.id /\ s.part # e.part
    BY FreshNames DEF FreshSlide
  <2>2. ASSUME NEW s \in D!Slides(deck) PROVE s.born # e.born
    <3>1. s.born[1] \in 0..number /\ number \in Nat
      BY DeckFacts, DeckAssumed DEF D!SlideOf, D!DeckAssumption
    <3>2. e.born[1] = number + 1
      BY DEF FreshSlide, D!New
    <3> QED
      BY <3>1, <3>2
  <2>3. ASSUME NEW s \in D!Slides(deck), s.notes # None PROVE s.notes # e.notes
    BY <2>3 DEF FreshSlide
  <2> QED
    BY <2>1, <2>2, <2>3 DEF FreshSlide
<1>7. D!SlidesDiffer(deck')
  <2> DEFINE from(k) == IF k < i THEN k ELSE k - 1
  <2>0. DOMAIN deck'.order = 1..Len(deck.order) + 1 /\ Len(deck.order) \in Nat
    BY <1>2, <1>3, <1>4
  <2>1. ASSUME NEW k \in DOMAIN deck'.order, k # i
        PROVE  deck'.order[k] = deck.order[from(k)] /\ from(k) \in DOMAIN deck.order
    <3>1. CASE k < i
      BY <1>3, <2>0, <2>1, <3>1, DeckFacts
    <3>2. CASE ~ (k < i)
      BY <1>3, <2>0, <2>1, <3>2, DeckFacts, SMTT(30)
    <3> QED
      BY <3>1, <3>2
  <2>2. deck'.order[i] = e
    BY <1>3
  <2>3. \A j, k \in DOMAIN deck'.order : j # i /\ k # i /\ j # k => from(j) # from(k)
    BY <2>0
  <2>4. \A k \in DOMAIN deck.order : deck.order[k] \in D!Slides(deck)
    BY DeckFacts
  <2>5. D!SlidesDiffer(deck)
    BY DEF DeckInv, D!TypeOK, D!WellFormed
  <2> SUFFICES ASSUME NEW j \in DOMAIN deck'.order, NEW k \in DOMAIN deck'.order, j # k,
                      NEW s, s = deck'.order[j], NEW t, t = deck'.order[k]
               PROVE  /\ s.id # t.id /\ s.part # t.part /\ s.born # t.born
                      /\ s.notes # None => s.notes # t.notes
    BY DEF D!SlidesDiffer
  <2>6. CASE j = i
    BY <1>6, <2>1, <2>2, <2>4, <2>6
  <2>7. CASE k = i
    BY <1>6, <2>1, <2>2, <2>4, <2>7
  <2>8. CASE j # i /\ k # i
    <3>1. /\ s = deck.order[from(j)] /\ from(j) \in DOMAIN deck.order
          /\ t = deck.order[from(k)] /\ from(k) \in DOMAIN deck.order /\ from(j) # from(k)
      BY <2>1, <2>3, <2>8
    <3> HIDE DEF from
    <3> QED
      BY <2>5, <3>1 DEF D!SlidesDiffer
  <2> QED
    BY <2>6, <2>7, <2>8
<1>8. e.born[1] # 0
  BY DeckFacts, DeckAssumed DEF FreshSlide, D!New, D!DeckAssumption
<1>9. D!Leads(deck')
  BY <1>4 DEF DeckInv, LinksLead, D!LinksLead, D!Leads
<1>10. DeckInv'
  BY <1>1, <1>4, <1>5, <1>7, <1>8, <1>9, DeckFollows DEF FreshSlide
<1> QED
  BY <1>1, <1>4, <1>10

\* The slides after one was edited in its place.
LEMMA SlideEdited ==
    ASSUME DeckInv, NEW i \in DOMAIN deck.order, NEW s, NEW data, D!CommitSlide(i, s, data),
           D!SlideOf(s, number + 1), s.id = deck.order[i].id, s.part = deck.order[i].part,
           s.born = deck.order[i].born, s.notes = deck.order[i].notes,
           s.link = deck.order[i].link \/ s.link = None \/
              \E t \in D!Slides(deck) : s.link.to = t.part /\ s.link.of = t.born
    PROVE  /\ DeckInv' /\ Committed(data) /\ copied' = None
           /\ DOMAIN deck'.order = DOMAIN deck.order
           /\ \A k \in DOMAIN deck.order : deck'.order[k] = IF k = i THEN s ELSE deck.order[k]
<1>1. deck'.order = [deck.order EXCEPT ![i] = s] /\ Committed(data) /\ copied' = None
  BY CommitOfSlide
<1>2. deck.order \in Seq(D!Slides(deck)) /\ i \in 1..Len(deck.order)
  BY DeckFacts
<1>3. /\ DOMAIN deck'.order = DOMAIN deck.order /\ Len(deck'.order) = Len(deck.order)
      /\ \A k \in DOMAIN deck.order : deck'.order[k] = IF k = i THEN s ELSE deck.order[k]
  BY <1>1, <1>2
<1>4. \A k \in DOMAIN deck.order : deck.order[k] \in D!Slides(deck)
  BY DeckFacts
<1>5. D!Slides(deck') \subseteq D!Slides(deck) \cup {s}
  BY <1>3, <1>4 DEF D!Slides, D!ToSet
<1>6. \A t \in D!Slides(deck) : \E u \in D!Slides(deck') : u.part = t.part /\ u.born = t.born
  BY <1>3 DEF D!Slides, D!ToSet
<1>7. deck'.order \in Seq(D!Slides(deck'))
  BY <1>1, <1>2, OwnSlides DEF D!Slides
<1>8. D!SlidesDiffer(deck')
  <2>1. D!SlidesDiffer(deck)
    BY DEF DeckInv, D!TypeOK, D!WellFormed
  <2> SUFFICES ASSUME NEW j \in DOMAIN deck.order, NEW k \in DOMAIN deck.order, j # k,
                      NEW u, u = deck'.order[j], NEW t, t = deck'.order[k]
               PROVE  /\ u.id # t.id /\ u.part # t.part /\ u.born # t.born
                      /\ u.notes # None => u.notes # t.notes
    BY <1>3 DEF D!SlidesDiffer
  <2>2. /\ u.id = deck.order[j].id /\ u.part = deck.order[j].part
        /\ u.born = deck.order[j].born /\ u.notes = deck.order[j].notes
    BY <1>3
  <2>3. /\ t.id = deck.order[k].id /\ t.part = deck.order[k].part
        /\ t.born = deck.order[k].born /\ t.notes = deck.order[k].notes
    BY <1>3
  <2> QED
    BY <2>1, <2>2, <2>3 DEF D!SlidesDiffer
<1>9. D!Leads(deck')
  <2> SUFFICES ASSUME NEW t \in D!Slides(deck'), t.link # None
               PROVE  \E u \in D!Slides(deck') : u.part = t.link.to /\ u.born = t.link.of
    BY DEF D!Leads
  <2>1. \E w \in D!Slides(deck) : w.part = t.link.to /\ w.born = t.link.of
    BY <1>4, <1>5 DEF DeckInv, LinksLead, D!LinksLead, D!Leads
  <2> QED
    BY <1>6, <2>1
<1>10. s.born[1] # 0
  BY <1>4, DeckFacts
<1>11. DeckInv'
  BY <1>1, <1>3, <1>5, <1>7, <1>8, <1>9, <1>10, DeckFacts, DeckFollows
<1> QED
  BY <1>1, <1>3, <1>11

\* The name of a slide's chart or of its picture does not leave room for doubt.
LEMMA SlidesKinds ==
    ASSUME DeckInv, NEW s \in D!Slides(deck), NEW t \in D!Slides(deck),
           NEW j \in D!Kinds, NEW k \in D!Kinds, s[j] = t[k], s[j] # None
    PROVE  j = k
BY DeckFacts, KindsApart

\* An edit that changes slides in one respect of one of them at most.
LEMMA OneChanges ==
    ASSUME NEW x, copied' = None,
           \A s \in D!Slides(deck), t \in D!Slides(deck'), k \in D!Kinds :
              s.born = t.born /\ <<s, k>> # x => D!Shows(deck, s, deck', t, k)
    PROVE  D!SparesOthers
<1> DEFINE changed == {y \in D!Slides(deck) \X D!Kinds :
              \E t \in D!Slides(deck') : y[1].born = t.born /\ ~D!Shows(deck, y[1], deck', t, y[2])}
<1>1. changed \in SUBSET {x}
  OBVIOUS
<1>2. D!Cardinality(changed) <= 1
  <2> HIDE DEF changed
  <2>1. Cardinality(changed) <= Cardinality({x}) /\ Cardinality({x}) = 1
    BY <1>1, FS_Singleton, FS_Subset
  <2> QED
    BY <2>1, SameCardinality
<1> QED
  BY <1>2 DEF D!SparesOthers

\* An edit that adds a slide, and changes none: the slide shows all that its source does.
LEMMA NoneChanges ==
    ASSUME \A s \in D!Slides(deck), t \in D!Slides(deck'), k \in D!Kinds :
              s.born = t.born => D!Shows(deck, s, deck', t, k),
           copied' # None => \A t \in D!Slides(deck'), d \in {deck, Other} : \A s \in D!Slides(d) :
              t.born[1] = D!New /\ s.born = copied' => \A k \in D!Kinds : D!Shows(d, s, deck', t, k)
    PROVE  D!SparesOthers
<1> DEFINE changed == {y \in D!Slides(deck) \X D!Kinds :
              \E t \in D!Slides(deck') : y[1].born = t.born /\ ~D!Shows(deck, y[1], deck', t, y[2])}
<1>1. changed = {}
  OBVIOUS
<1>2. D!Cardinality(changed) <= 1
  <2>1. Cardinality({}) = 0
    BY FS_EmptySet
  <2> HIDE DEF changed
  <2> QED
    BY <1>1, <2>1, SameCardinality
<1> QED
  BY <1>2 DEF D!SparesOthers

\* The slides that were there show what they did, if what is written is none of theirs.
LEMMA AddedSpares ==
    ASSUME DeckInv, NEW e, FreshSlide(e), NEW data, Committed(data),
           D!Slides(deck') = D!Slides(deck) \cup {e},
           \A s \in D!Slides(deck), k \in D!Kinds :
              s[k] # None /\ s[k] \in DOMAIN data => data[s[k]] = deck.data[s[k]]
    PROVE  /\ \A s \in D!Slides(deck), t \in D!Slides(deck'), k \in D!Kinds :
                 s.born = t.born => D!Shows(deck, s, deck', t, k)
           /\ \A t \in D!Slides(deck') : t.born[1] = D!New => t = e
<1>1. \A s \in D!Slides(deck) : s.born[1] # D!New
  <2>1. \A s \in D!Slides(deck) : s.born[1] \in 0..number
    BY DeckFacts DEF D!SlideOf
  <2>2. number \in Nat
    BY DeckFacts, DeckAssumed DEF D!DeckAssumption
  <2> QED
    BY <2>1, <2>2 DEF D!New
<1>2. e.born[1] = D!New
  BY DEF FreshSlide
<1>3. ASSUME NEW s \in D!Slides(deck), NEW t \in D!Slides(deck'), NEW k \in D!Kinds,
             s.born = t.born
      PROVE  D!Shows(deck, s, deck', t, k)
  <2>1. t \in D!Slides(deck)
    BY <1>1, <1>2, <1>3
  <2>2. t = s
    BY <1>3, <2>1, DeckFacts
  <2> QED
    BY <2>2, PartKept
<1> QED
  BY <1>1, <1>3

\* An edit of one slide in its place that changes it in one respect.
LEMMA EditSpares ==
    ASSUME DeckInv, NEW i \in DOMAIN deck.order, NEW s, NEW data, Committed(data), copied' = None,
           DOMAIN deck'.order = DOMAIN deck.order,
           \A m \in DOMAIN deck.order : deck'.order[m] = IF m = i THEN s ELSE deck.order[m],
           s.born = deck.order[i].born,
           NEW way \in D!Kinds, \A k \in D!Kinds \ {way} : s[k] = deck.order[i][k],
           \A m \in DOMAIN deck.order, k \in D!Kinds :
              deck.order[m][k] # None /\ deck.order[m][k] \in DOMAIN data => m = i /\ k = way
    PROVE  D!SparesOthers
<1> SUFFICES ASSUME NEW u \in D!Slides(deck), NEW t \in D!Slides(deck'), NEW k \in D!Kinds,
                    u.born = t.born, <<u, k>> # <<deck.order[i], way>>
             PROVE  D!Shows(deck, u, deck', t, k)
  BY OneChanges
<1>1. PICK m \in DOMAIN deck.order : u = deck.order[m]
  BY DeckFacts
<1>2. PICK j \in DOMAIN deck.order : t = deck'.order[j]
  BY DEF D!Slides, D!ToSet
<1>3. t.born = deck.order[j].born
  BY <1>2
<1>4. j = m
  BY <1>1, <1>3, DeckFacts
<1>5. t[k] = u[k]
  BY <1>1, <1>2, <1>4
<1>6. ~(u[k] # None /\ u[k] \in DOMAIN data)
  BY <1>1
<1> QED
  BY <1>5, <1>6, PartKept

\* An edit that writes nothing and makes no slide.
LEMMA SparesAll ==
    ASSUME DeckInv, NEW data, Committed(data), DOMAIN data = {}, copied' = None,
           \A t \in D!Slides(deck') : \E u \in D!Slides(deck) :
              t.born = u.born /\ \A k \in D!Kinds : t[k] = u[k]
    PROVE  D!SparesOthers
<1> SUFFICES ASSUME NEW u \in D!Slides(deck), NEW t \in D!Slides(deck'), NEW k \in D!Kinds,
                    u.born = t.born
             PROVE  D!Shows(deck, u, deck', t, k)
  BY OneChanges
<1>1. t[k] = u[k]
  BY DeckFacts
<1> QED
  BY <1>1, PartKept

\* What another presentation gives.
LEMMA OtherFacts ==
    /\ \A j \in DOMAIN Other.order : Other.order[j] \in D!Slides(Other)
    /\ \A s \in D!Slides(Other) : D!SlideOf(s, 0) /\ s.born[1] = 0
    /\ \A s, t \in D!Slides(Other) : s.born = t.born => s = t
<1>1. D!WellFormed(Other, 0)
  BY DeckAssumed DEF D!DeckAssumption
<1>2. \A s \in D!Slides(Other) : D!SlideOf(s, 0) /\ s.born[1] = 0
  BY <1>1 DEF D!WellFormed, D!SlideOf
<1>3. \A s, t \in D!Slides(Other) : s.born = t.born => s = t
  BY <1>1 DEF D!WellFormed, D!SlidesDiffer, D!Slides, D!ToSet
<1>4. \A j \in DOMAIN Other.order : Other.order[j] \in D!Slides(Other)
  BY DEF D!Slides, D!ToSet
<1> QED
  BY <1>2, <1>3, <1>4

\* What an edit makes a new slide is fresh.
LEMMA NewIsFresh ==
    ASSUME DeckInv, D!MayAdd(deck), NEW notes \in {None, D!Drawn("notes"), D!FreshNotes(deck)},
           NEW chart \in {None, D!Drawn("chart")},
           NEW picture \in {None} \cup D!Named("media", number + 1),
           NEW link, link # None => link.type \in D!Links,
           NEW e, e = [id |-> D!FreshId(deck), part |-> D!FreshPart(deck), notes |-> notes,
                       chart |-> chart, picture |-> picture, link |-> link,
                       born |-> <<D!New, D!FreshId(deck)>>]
    PROVE  FreshSlide(e)
<1>1. number \in Nat /\ MaxSlideId \in Nat
  BY DeckFacts, DeckAssumed DEF D!DeckAssumption
<1>2. D!FreshId(deck) \in 1..MaxSlideId
  BY <1>1, FreshNames DEF D!MayAdd, D!FreshId
<1>3. D!FreshId(deck) \in Nat \ {0} /\ D!FreshPart(deck) \in Nat \ {0}
  BY FreshNames
<1>4. \A kind : D!Drawn(kind) = <<kind, number + 1, D!FreshId(deck)>>
  BY DEF D!Drawn, D!Name, D!New
<1>5. \A kind : D!Drawn(kind) \in D!Named(kind, number + 1)
  BY <1>1, <1>3, <1>4 DEF D!Named
<1>6. notes \in {None} \cup D!NotesNames(number + 1)
  <2>1. D!FreshNotes(deck) \in D!NotesNames(number + 1)
    BY FreshNames DEF D!NotesNames
  <2> QED
    BY <1>5, <2>1 DEF D!NotesNames
<1>7. D!SlideOf(e, number + 1)
  <2>1. chart \in {None} \cup D!Named("chart", number + 1)
    BY <1>5
  <2>2. e.born[1] \in 0..number + 1
    BY <1>1 DEF D!New
  <2> QED
    BY <1>2, <1>3, <1>6, <2>1, <2>2 DEF D!SlideOf
<1>8. ASSUME e.notes # None, NEW s \in D!Slides(deck) PROVE s.notes # e.notes
  <2>1. CASE s.notes = None
    BY <1>8, <2>1
  <2>2. CASE s.notes # None
    <3>1. s.notes # D!FreshNotes(deck)
      BY <2>2, FreshNames
    <3>2. s.notes # D!Drawn("notes")
      <4>1. "notes" \in D!Kinds
        BY DEF D!Kinds
      <4>2. s["notes"] # D!Name("notes", D!New, D!FreshId(deck))
        BY <1>3, <2>2, <4>1, NameIsNew
      <4> QED
        BY <4>2 DEF D!Drawn
    <3> QED
      BY <1>8, <3>1, <3>2
  <2> QED
    BY <2>1, <2>2
<1> QED
  BY <1>7, <1>8 DEF FreshSlide

\* create_slide.
LEMMA CreateStep ==
    ASSUME DeckInv, NEW i \in DOMAIN deck.order, NEW p \in {None, D!Drawn("notes")},
           D!CreateSlide(i, p)
    PROVE  DeckInv' /\ D!SparesOthers
<1> DEFINE e == [D!NewSlide EXCEPT !.notes = p]
           data == D!Written({p} \ {None}, D!FreshId(deck))
<1>1. D!MayAdd(deck) /\ D!CommitSlides(D!InsertAt(deck.order, i + 1, e), data, None)
  BY DEF D!CreateSlide
<1>2. i + 1 \in 1..Len(deck.order) + 1
  BY DeckFacts
<1>3. e = [id |-> D!FreshId(deck), part |-> D!FreshPart(deck), notes |-> p, chart |-> None,
           picture |-> None, link |-> None, born |-> <<D!New, D!FreshId(deck)>>]
  BY DEF D!NewSlide
<1>4. FreshSlide(e) /\ e.link = None
  <2> HIDE DEF e
  <2>1. FreshSlide(e)
    BY <1>1, <1>3, NewIsFresh
  <2> QED
    BY <1>3, <2>1
<1> HIDE DEF e
<1>5. \A s \in D!Slides(deck), k \in D!Kinds : s[k] # None => s[k] \notin DOMAIN data
  BY FreshNames, NameIsNew DEF D!Written, D!Drawn
<1> HIDE DEF data
<1>6. /\ DeckInv' /\ Committed(data) /\ copied' = None
      /\ D!Slides(deck') = D!Slides(deck) \cup {e}
  BY <1>1, <1>2, <1>4, SlideAdded
<1>7. \A s \in D!Slides(deck), t \in D!Slides(deck'), k \in D!Kinds :
         s.born = t.born => D!Shows(deck, s, deck', t, k)
  BY <1>4, <1>5, <1>6, AddedSpares
<1> QED
  BY <1>6, <1>7, NoneChanges

\* A copy has a part of a kind when its source does.
LEMMA CopyHasParts ==
    ASSUME DeckInv, number + 1 \in 1..MaxRevs, NEW s
    PROVE  /\ D!NotesOfCopy(s) = None <=> s.notes = None
           /\ D!ChartOfCopy(s) = None <=> s.chart = None
           /\ D!Drawn("media") # None
<1>1. number \in Nat /\ MaxRevs \in Nat
  BY DeckFacts, DeckAssumed DEF D!DeckAssumption
<1>2. /\ D!Drawn("chart") \in D!Named("chart", number + 1)
      /\ D!Drawn("media") \in D!Named("media", number + 1)
  BY <1>1, FreshNames DEF D!Drawn, D!Name, D!New, D!Named
<1>3. D!FreshNotes(deck) \in D!NotesNames(number + 1)
  BY FreshNames DEF D!NotesNames
<1>4. number + 1 \in 0..MaxRevs
  BY <1>1
<1>5. D!FreshNotes(deck) # None /\ D!Drawn("chart") # None /\ D!Drawn("media") # None
  BY <1>2, <1>3, <1>4, NameIsOne
<1> QED
  BY <1>5 DEF D!NotesOfCopy, D!ChartOfCopy

\* What a new slide is with what is copied to it.
LEMMA NewSlideWith ==
    ASSUME NEW notes, NEW chart, NEW picture, NEW link
    PROVE  /\ [D!NewSlide EXCEPT !.notes = notes, !.chart = chart, !.picture = picture] =
                 [id |-> D!FreshId(deck), part |-> D!FreshPart(deck), notes |-> notes,
                  chart |-> chart, picture |-> picture, link |-> None,
                  born |-> <<D!New, D!FreshId(deck)>>]
           /\ [D!NewSlide EXCEPT !.notes = notes, !.chart = chart, !.picture = picture,
                                 !.link = link] =
                 [id |-> D!FreshId(deck), part |-> D!FreshPart(deck), notes |-> notes,
                  chart |-> chart, picture |-> picture, link |-> link,
                  born |-> <<D!New, D!FreshId(deck)>>]
<1> DEFINE slide(n, c, p, l) ==
             [id |-> D!FreshId(deck), part |-> D!FreshPart(deck), notes |-> n, chart |-> c,
              picture |-> p, link |-> l, born |-> <<D!New, D!FreshId(deck)>>]
           o == D!NewSlide
           p == [o EXCEPT !.notes = notes]
           q == [p EXCEPT !.chart = chart]
           r == [q EXCEPT !.picture = picture]
           s == [r EXCEPT !.link = link]
<1>1. o = slide(None, None, None, None)
  BY DEF D!NewSlide
<1> HIDE DEF o
<1>2. p = slide(notes, None, None, None)
  BY <1>1
<1> HIDE DEF p
<1>3. q = slide(notes, chart, None, None)
  BY <1>2
<1> HIDE DEF q
<1>4. r = slide(notes, chart, picture, None)
  BY <1>3
<1> HIDE DEF r
<1>5. s = slide(notes, chart, picture, link)
  BY <1>4
<1>6. /\ r = [o EXCEPT !.notes = notes, !.chart = chart, !.picture = picture]
      /\ s = [o EXCEPT !.notes = notes, !.chart = chart, !.picture = picture, !.link = link]
  BY DEF r, q, p
<1> QED
  BY <1>4, <1>5, <1>6 DEF o

\* duplicate_slide.
LEMMA DuplicateStep ==
    ASSUME DeckInv, NEW i \in DOMAIN deck.order, D!DuplicateSlide(i)
    PROVE  DeckInv' /\ D!SparesOthers
<1> DEFINE s == deck.order[i]
           e == [D!NewSlide EXCEPT !.notes = D!NotesOfCopy(s), !.chart = D!ChartOfCopy(s),
                            !.picture = s.picture, !.link = s.link]
           data == D!Copies(e, s, deck)
<1>1. D!MayAdd(deck) /\ D!CommitSlides(D!InsertAt(deck.order, i + 1, e), data, s.born)
  BY DEF D!DuplicateSlide
<1>2. i + 1 \in 1..Len(deck.order) + 1 /\ s \in D!Slides(deck)
  BY DeckFacts
<1>3. e = [id |-> D!FreshId(deck), part |-> D!FreshPart(deck), notes |-> D!NotesOfCopy(s),
           chart |-> D!ChartOfCopy(s), picture |-> s.picture, link |-> s.link,
           born |-> <<D!New, D!FreshId(deck)>>]
  <2> DEFINE notes == D!NotesOfCopy(s)
             chart == D!ChartOfCopy(s)
             picture == s.picture
             link == s.link
  <2>1. e = [D!NewSlide EXCEPT !.notes = notes, !.chart = chart, !.picture = picture,
                               !.link = link]
    OBVIOUS
  <2> HIDE DEF notes, chart, picture, link, e
  <2>2. e = [id |-> D!FreshId(deck), part |-> D!FreshPart(deck), notes |-> notes,
             chart |-> chart, picture |-> picture, link |-> link,
             born |-> <<D!New, D!FreshId(deck)>>]
    BY <2>1, NewSlideWith, ZenonT(40)
  <2> QED
    BY <2>2 DEF notes, chart, picture, link
<1>4. D!SlideOf(s, number) /\ number \in Nat /\ s.born[1] # 0
  BY <1>2, DeckFacts, DeckAssumed DEF D!DeckAssumption
<1> HIDE DEF s, e
<1>5. FreshSlide(e) /\ e.link = s.link /\ e.picture = s.picture
  <2>1. D!SlideOf(s, number + 1)
    BY <1>4, SlideStays
  <2>2. s.picture \in {None} \cup D!Named("media", number + 1) /\ (s.link # None => s.link.type \in D!Links)
    BY <2>1 DEF D!SlideOf
  <2>3. D!NotesOfCopy(s) \in {None, D!Drawn("notes"), D!FreshNotes(deck)}
    BY DEF D!NotesOfCopy
  <2>4. D!ChartOfCopy(s) \in {None, D!Drawn("chart")}
    BY DEF D!ChartOfCopy
  <2>5. FreshSlide(e)
    BY <1>1, <1>3, <2>2, <2>3, <2>4, NewIsFresh
  <2> QED
    BY <1>3, <2>5
<1>6. /\ DeckInv' /\ Committed(data) /\ copied' = s.born
      /\ D!Slides(deck') = D!Slides(deck) \cup {e}
  BY <1>1, <1>2, <1>5, SlideAdded
<1>7. D!SlideOf(e, number + 1)
  BY <1>5 DEF FreshSlide
<1>8. ASSUME NEW u \in D!Slides(deck), NEW k \in D!Kinds, u[k] # None, u[k] \in DOMAIN data
      PROVE  data[u[k]] = deck.data[u[k]]
  <2>1. PICK j \in D!Kinds : u[k] = e[j]
    BY <1>8 DEF D!Copies
  <2>2. D!SlideOf(u, number + 1)
    BY <1>4, DeckFacts, SlideStays
  <2>3. j = k
    BY <1>7, <1>8, <2>1, <2>2, KindsApart
  <2>4. k # "notes"
    BY <1>5, <1>8, <2>1, <2>3 DEF FreshSlide
  <2>5. k # "chart"
    <3>1. e.chart = None \/ e.chart = D!Name("chart", D!New, D!FreshId(deck))
      BY <1>3 DEF D!ChartOfCopy, D!Drawn
    <3>2. u[k] # D!Name("chart", D!New, D!FreshId(deck))
      BY <1>8, FreshNames, NameIsNew
    <3> QED
      BY <1>8, <2>1, <2>3, <3>1, <3>2
  <2>6. k = "picture"
    BY <2>4, <2>5 DEF D!Kinds
  <2>7. u[k] = e[k] /\ e[k] = s[k]
    BY <1>5, <2>1, <2>3, <2>6
  <2>8. data[e[k]] = deck.data[s[k]]
    BY <1>7, <1>8, <2>7, CopyHolds
  <2> QED
    BY <2>7, <2>8
<1>9. /\ \A u \in D!Slides(deck), t \in D!Slides(deck'), k \in D!Kinds :
            u.born = t.born => D!Shows(deck, u, deck', t, k)
      /\ \A t \in D!Slides(deck') : t.born[1] = D!New => t = e
  BY <1>5, <1>6, <1>8, AddedSpares
<1>10. \A k \in D!Kinds : s[k] = None <=> e[k] = None
  <2>1. number + 1 \in 1..MaxRevs
    BY <1>6 DEF Committed
  <2> QED
    BY <1>3, <2>1, CopyHasParts DEF D!Kinds
<1>11. \A k \in D!Kinds : D!Shows(deck, s, deck', e, k)
  BY <1>6, <1>7, <1>10, CopyShows
<1>12. ASSUME NEW d \in {deck, Other}, NEW u \in D!Slides(d), u.born = copied'
       PROVE  d = deck /\ u = s
  <2>1. CASE d = deck
    BY <1>2, <1>6, <1>12, <2>1, DeckFacts
  <2>2. CASE d = Other
    BY <1>4, <1>6, <1>12, <2>2, OtherFacts
  <2> QED
    BY <2>1, <2>2
<1> QED
  BY <1>6, <1>9, <1>11, <1>12, NoneChanges

\* reuse_slide.
LEMMA ReuseStep ==
    ASSUME DeckInv, NEW i \in 1..Len(deck.order) + 1, NEW j \in DOMAIN Other.order,
           D!ReuseSlide(i, j)
    PROVE  DeckInv' /\ D!SparesOthers
<1> DEFINE s == Other.order[j]
           picture == IF s.picture = None THEN None ELSE D!Drawn("media")
           e == [D!NewSlide EXCEPT !.notes = D!NotesOfCopy(s), !.chart = D!ChartOfCopy(s),
                            !.picture = picture]
           data == D!Copies(e, s, Other)
<1>1. D!MayAdd(deck) /\ D!CommitSlides(D!InsertAt(deck.order, i, e), data, s.born)
  BY DEF D!ReuseSlide
<1>2. s \in D!Slides(Other) /\ D!SlideOf(s, 0) /\ s.born[1] = 0
  BY OtherFacts
<1>3. e = [id |-> D!FreshId(deck), part |-> D!FreshPart(deck), notes |-> D!NotesOfCopy(s),
           chart |-> D!ChartOfCopy(s), picture |-> picture, link |-> None,
           born |-> <<D!New, D!FreshId(deck)>>]
  BY NewSlideWith
<1>4. number \in Nat
  BY DeckFacts, DeckAssumed DEF D!DeckAssumption
<1> HIDE DEF s, e
<1>5. FreshSlide(e) /\ e.link = None
  <2>1. D!Drawn("media") \in D!Named("media", number + 1)
    BY <1>4, FreshNames DEF D!Drawn, D!Name, D!New, D!Named
  <2>2. picture \in {None} \cup D!Named("media", number + 1)
    BY <2>1
  <2>3. D!NotesOfCopy(s) \in {None, D!Drawn("notes"), D!FreshNotes(deck)}
    BY DEF D!NotesOfCopy
  <2>4. D!ChartOfCopy(s) \in {None, D!Drawn("chart")}
    BY DEF D!ChartOfCopy
  <2> HIDE DEF picture
  <2>5. FreshSlide(e)
    BY <1>1, <1>3, <2>2, <2>3, <2>4, NewIsFresh
  <2> QED
    BY <1>3, <2>5
<1>6. /\ DeckInv' /\ Committed(data) /\ copied' = s.born
      /\ D!Slides(deck') = D!Slides(deck) \cup {e}
  BY <1>1, <1>5, SlideAdded
<1>7. D!SlideOf(e, number + 1)
  BY <1>5 DEF FreshSlide
<1>8. ASSUME NEW u \in D!Slides(deck), NEW k \in D!Kinds, u[k] # None, u[k] \in DOMAIN data
      PROVE  FALSE
  <2>1. PICK m \in D!Kinds : u[k] = e[m]
    BY <1>8 DEF D!Copies
  <2>2. D!SlideOf(u, number + 1)
    BY <1>4, DeckFacts, SlideStays
  <2>3. m = k
    BY <1>7, <1>8, <2>1, <2>2, KindsApart
  <2>4. k # "notes"
    BY <1>5, <1>8, <2>1, <2>3 DEF FreshSlide
  <2>5. \A kind : u[k] # D!Name(kind, D!New, D!FreshId(deck))
    BY <1>8, FreshNames, NameIsNew
  <2>6. /\ e.chart = None \/ e.chart = D!Name("chart", D!New, D!FreshId(deck))
        /\ e.picture = None \/ e.picture = D!Name("media", D!New, D!FreshId(deck))
    BY <1>3 DEF D!ChartOfCopy, D!Drawn
  <2>7. k # "chart" /\ k # "picture"
    BY <1>8, <2>1, <2>3, <2>5, <2>6
  <2> QED
    BY <2>4, <2>7 DEF D!Kinds
<1>9. /\ \A u \in D!Slides(deck), t \in D!Slides(deck'), k \in D!Kinds :
            u.born = t.born => D!Shows(deck, u, deck', t, k)
      /\ \A t \in D!Slides(deck') : t.born[1] = D!New => t = e
  BY <1>5, <1>6, <1>8, AddedSpares
<1>10. \A k \in D!Kinds : s[k] = None <=> e[k] = None
  <2>1. number + 1 \in 1..MaxRevs
    BY <1>6 DEF Committed
  <2> QED
    BY <1>3, <2>1, CopyHasParts DEF D!Kinds
<1>11. \A k \in D!Kinds : D!Shows(Other, s, deck', e, k)
  BY <1>6, <1>7, <1>10, CopyShows
<1>12. ASSUME NEW d \in {deck, Other}, NEW u \in D!Slides(d), u.born = copied'
       PROVE  d = Other /\ u = s
  <2>1. CASE d = deck
    BY <1>2, <1>6, <1>12, <2>1, DeckFacts
  <2>2. CASE d = Other
    BY <1>2, <1>6, <1>12, <2>2, OtherFacts
  <2> QED
    BY <2>1, <2>2
<1> QED
  BY <1>6, <1>9, <1>11, <1>12, NoneChanges

\* delete_slide.
LEMMA DeleteStep ==
    ASSUME DeckInv, NEW i \in DOMAIN deck.order, D!DeleteSlide(i)
    PROVE  DeckInv' /\ D!SparesOthers
<1> DEFINE s == deck.order[i]
           data == <<>>
<1>1. /\ D!CommitSlides(D!RemoveAt(deck.order, i), data, None)
      /\ Len(deck.order) > 1 /\ D!NobodyLeadsTo(s)
  BY DEF D!DeleteSlide
<1>0. DOMAIN data = {}
  OBVIOUS
<1> HIDE DEF data
<1>2. deck'.order = D!RemoveAt(deck.order, i) /\ Committed(data) /\ copied' = None
  BY <1>1, CommitOfSlides
<1>3. deck.order \in Seq(D!Slides(deck)) /\ i \in 1..Len(deck.order) /\ Len(deck.order) \in 1..SlideLimit
  BY DeckFacts
<1>4. /\ Len(deck'.order) = Len(deck.order) - 1 /\ DOMAIN deck'.order = 1..Len(deck.order) - 1
      /\ \A k \in 1..Len(deck.order) - 1 :
            deck'.order[k] = IF k < i THEN deck.order[k] ELSE deck.order[k + 1]
  BY <1>2, <1>3, RestAt
<1>5. /\ D!Slides(deck) \ {s} \subseteq D!Slides(deck') /\ D!Slides(deck') \subseteq D!Slides(deck)
      /\ deck'.order \in Seq(D!Slides(deck'))
  BY <1>2, <1>3, TakenOut DEF D!Slides
<1>6. Len(deck'.order) \in 1..SlideLimit
  BY <1>1, <1>3, <1>4, DeckAssumed DEF D!DeckAssumption
<1>7. D!SlidesDiffer(deck')
  <2> DEFINE from(k) == IF k < i THEN k ELSE k + 1
  <2>1. \A k \in DOMAIN deck'.order :
           deck'.order[k] = deck.order[from(k)] /\ from(k) \in DOMAIN deck.order
    BY <1>3, <1>4
  <2>2. \A j, k \in DOMAIN deck'.order : j # k => from(j) # from(k)
    BY <1>3, <1>4
  <2>3. D!SlidesDiffer(deck)
    BY DEF DeckInv, D!TypeOK, D!WellFormed
  <2> HIDE DEF from
  <2> QED
    BY <2>1, <2>2, <2>3 DEF D!SlidesDiffer
<1>8. D!Leads(deck')
  <2> SUFFICES ASSUME NEW t \in D!Slides(deck'), t.link # None
               PROVE  \E u \in D!Slides(deck') : u.part = t.link.to /\ u.born = t.link.of
    BY DEF D!Leads
  <2>1. PICK w \in D!Slides(deck) : w.part = t.link.to /\ w.born = t.link.of
    BY <1>5 DEF DeckInv, LinksLead, D!LinksLead, D!Leads
  <2>2. CASE s \in D!Slides(deck')
    BY <1>5, <2>1, <2>2
  <2>3. CASE s \notin D!Slides(deck')
    <3>1. t # s
      BY <2>3
    <3>2. w # s
      BY <1>1, <1>5, <2>1, <3>1 DEF D!NobodyLeadsTo
    <3> QED
      BY <1>5, <2>1, <3>2
  <2> QED
    BY <2>2, <2>3
<1>9. DeckInv'
  BY <1>2, <1>5, <1>6, <1>7, <1>8, DeckFollows
<1>10. D!SparesOthers
  BY <1>0, <1>2, <1>5, SparesAll
<1> QED
  BY <1>9, <1>10

\* reorder_slides.
LEMMA ReorderStep ==
    ASSUME DeckInv, NEW p \in D!Reorderings, D!ReorderSlides(p)
    PROVE  DeckInv' /\ D!SparesOthers
<1> DEFINE places == 1..Len(deck.order)
           data == <<>>
<1>0. DOMAIN data = {}
  OBVIOUS
<1>1. DOMAIN deck.order = places /\ Len(deck.order) \in Nat
  BY DeckFacts
<1> HIDE DEF places
<1>2. p \in [places -> places] /\ \A k \in places : \E m \in places : p[m] = k
  BY <1>1 DEF D!Reorderings, D!Surjection
<1>3. \A j, k \in places : j # k => p[j] # p[k]
  <2>1. IsFiniteSet(places)
    BY <1>1, FS_Interval DEF places
  <2>2. p \in Surjection(places, places)
    BY <1>2 DEF Surjection
  <2>3. p \in Injection(places, places)
    BY <2>1, <2>2, FS_SurjSameCardinalityImpliesInj
  <2> QED
    BY <2>3 DEF Injection, IsInjective
<1>4. /\ deck'.order = [k \in DOMAIN p |-> deck.order[p[k]]] /\ Committed(data)
      /\ copied' = None
  <2> HIDE DEF data
  <2>1. D!CommitSlides([k \in DOMAIN p |-> deck.order[p[k]]], data, None)
    BY DEF D!ReorderSlides, data
  <2> QED
    BY <2>1, CommitOfSlides
<1> HIDE DEF data
<1>5. DOMAIN deck'.order = places /\ \A k \in places : deck'.order[k] = deck.order[p[k]]
  <2>1. DOMAIN p = places
    BY <1>2
  <2> QED
    BY <1>4, <2>1
<1>6. D!Slides(deck') = D!Slides(deck)
  <2>1. ASSUME NEW k \in places PROVE deck'.order[k] \in D!Slides(deck)
    <3>1. p[k] \in places
      BY <1>2
    <3> QED
      BY <1>1, <1>5, <3>1, DeckFacts
  <2>2. ASSUME NEW m \in places PROVE \E k \in places : deck'.order[k] = deck.order[m]
    BY <1>2, <1>5
  <2> QED
    BY <1>1, <1>5, <2>1, <2>2, ZenonT(40) DEF D!Slides, D!ToSet
<1>7. deck'.order \in Seq(D!Slides(deck')) /\ Len(deck'.order) = Len(deck.order)
  <2>1. \A k \in places : deck'.order[k] \in D!Slides(deck)
    BY <1>5, <1>6 DEF D!Slides, D!ToSet
  <2>2. DOMAIN p = places
    BY <1>2
  <2>3. deck'.order = [k \in places |-> deck'.order[k]]
    BY <1>4, <1>5, <2>2
  <2>4. deck'.order \in Seq(D!Slides(deck)) /\ Len(deck'.order) = Len(deck.order)
    BY <1>1, <2>1, <2>3 DEF places
  <2> QED
    BY <1>6, <2>4
<1>8. D!SlidesDiffer(deck')
  <2>1. D!SlidesDiffer(deck)
    BY DEF DeckInv, D!TypeOK, D!WellFormed
  <2>2. \A k \in places : p[k] \in places
    BY <1>2
  <2> QED
    BY <1>1, <1>3, <1>5, <2>1, <2>2 DEF D!SlidesDiffer
<1>9. D!Leads(deck')
  BY <1>6 DEF DeckInv, LinksLead, D!LinksLead, D!Leads
<1>10. DeckInv'
  BY <1>4, <1>6, <1>7, <1>8, <1>9, DeckFacts, DeckFollows
<1>11. D!SparesOthers
  BY <1>0, <1>4, <1>6, SparesAll
<1> QED
  BY <1>10, <1>11

\* set_slide_sections.
LEMMA SectionsStep ==
    ASSUME DeckInv, NEW starts, D!SetSlideSections(starts)
    PROVE  DeckInv' /\ D!SparesOthers
<1> DEFINE data == <<>>
<1>0. DOMAIN data = {}
  OBVIOUS
<1> HIDE DEF data
<1>1. PICK wanted : D!Commit([deck EXCEPT !.sections = wanted], data, None)
  BY DEF D!SetSlideSections, data
<1>2. DOMAIN deck = {"order", "sections", "data"} /\ number \in 1..MaxRevs
  BY DEF DeckInv, D!TypeOK, D!WellFormed
<1> DEFINE d == [deck EXCEPT !.sections = wanted]
<1>3. d.order = deck.order /\ d.data = deck.data /\ DOMAIN d = {"order", "sections", "data"}
  BY <1>2
<1> HIDE DEF d
<1>4. /\ deck' = [d EXCEPT !.data = [p \in D!Parts(d) |-> IF p \in DOMAIN data THEN data[p] ELSE @[p]]]
      /\ number < MaxRevs /\ number' = number + 1 /\ copied' = None
  BY <1>1 DEF D!Commit, D!New, d
<1>5. deck'.order = deck.order /\ DOMAIN deck' = {"order", "sections", "data"}
  BY <1>3, <1>4
<1>6. D!Slides(deck') = D!Slides(deck) /\ D!Parts(deck') = D!Parts(d)
  BY <1>3, <1>5 DEF D!Parts, D!Slides
<1>7. deck'.data = [p \in D!Parts(deck') |-> IF p \in DOMAIN data THEN data[p] ELSE deck.data[p]]
  BY <1>3, <1>4, <1>6
<1>8. Committed(data)
  BY <1>2, <1>4, <1>5, <1>7, DeckAssumed DEF Committed, D!DeckAssumption
<1>9. D!SlidesDiffer(deck') /\ D!Leads(deck')
  BY <1>5, <1>6 DEF DeckInv, D!TypeOK, D!WellFormed, D!SlidesDiffer, LinksLead, D!LinksLead,
     D!Leads
<1>10. DeckInv'
  BY <1>5, <1>6, <1>8, <1>9, DeckFacts, DeckFollows
<1>11. D!SparesOthers
  BY <1>0, <1>4, <1>6, <1>8, SparesAll
<1> QED
  BY <1>10, <1>11

\* set_click_action, set_text_hyperlink.
LEMMA LinkStep ==
    ASSUME DeckInv, NEW i \in DOMAIN deck.order, NEW j \in {0} \cup DOMAIN deck.order,
           D!SetLink(i, j)
    PROVE  DeckInv' /\ D!SparesOthers
<1> DEFINE s == deck.order[i]
           l == IF j = 0 THEN None
                ELSE [type |-> "slide", to |-> deck.order[j].part, of |-> deck.order[j].born]
           t == [s EXCEPT !.link = l]
           data == <<>>
<1>0. DOMAIN data = {}
  OBVIOUS
<1>1. D!CommitSlide(i, t, data)
  BY DEF D!SetLink
<1> HIDE DEF data
<1>2. s \in D!Slides(deck) /\ D!SlideOf(s, number) /\ number \in Nat
  BY DeckFacts, DeckAssumed DEF D!DeckAssumption
<1>3. D!SlideOf(s, number + 1)
  BY <1>2, SlideStays
<1>4. l = None \/ (l.type \in D!Links /\ \E u \in D!Slides(deck) : l.to = u.part /\ l.of = u.born)
  BY DeckFacts DEF D!Links
<1> HIDE DEF l
<1>5. /\ DOMAIN t = DOMAIN s /\ t.link = l /\ t.id = s.id /\ t.part = s.part /\ t.born = s.born
      /\ t.notes = s.notes /\ t.chart = s.chart /\ t.picture = s.picture
  BY <1>3 DEF D!SlideOf
<1> HIDE DEF t
<1>6. D!SlideOf(t, number + 1)
  BY <1>3, <1>4, <1>5 DEF D!SlideOf
<1>7. /\ DeckInv' /\ Committed(data) /\ copied' = None
      /\ DOMAIN deck'.order = DOMAIN deck.order
      /\ \A k \in DOMAIN deck.order : deck'.order[k] = IF k = i THEN t ELSE deck.order[k]
  BY <1>1, <1>4, <1>5, <1>6, SlideEdited
<1>8. \A k \in D!Kinds : t[k] = s[k]
  BY <1>5 DEF D!Kinds
<1>9. "notes" \in D!Kinds
  BY DEF D!Kinds
<1>10. D!SparesOthers
  BY <1>0, <1>5, <1>7, <1>8, <1>9, EditSpares
<1> QED
  BY <1>7, <1>10

\* replace_speaker_notes.
LEMMA NotesStep ==
    ASSUME DeckInv, NEW i \in DOMAIN deck.order, D!ReplaceSpeakerNotes(i)
    PROVE  DeckInv' /\ D!SparesOthers
<1> DEFINE s == deck.order[i]
           data == D!Written({s.notes}, s.id)
<1>1. s.notes # None /\ D!CommitSlide(i, s, data)
  BY DEF D!ReplaceSpeakerNotes
<1>2. s \in D!Slides(deck) /\ D!SlideOf(s, number) /\ number \in Nat
  BY DeckFacts, DeckAssumed DEF D!DeckAssumption
<1>3. D!SlideOf(s, number + 1)
  BY <1>2, SlideStays
<1>4. DOMAIN data = {s.notes}
  BY DEF D!Written
<1>5. "notes" \in D!Kinds
  BY DEF D!Kinds
<1>6. ASSUME NEW m \in DOMAIN deck.order, NEW k \in D!Kinds, deck.order[m][k] = s.notes
      PROVE  m = i /\ k = "notes"
  <2>1. deck.order[m] \in D!Slides(deck)
    BY DeckFacts
  <2>2. k = "notes"
    BY <1>1, <1>2, <1>5, <1>6, <2>1, SlidesKinds
  <2>3. m = i
    BY <1>1, <1>6, <2>2 DEF DeckInv, D!TypeOK, D!WellFormed, D!SlidesDiffer
  <2> QED
    BY <2>2, <2>3
<1> HIDE DEF data
<1>7. /\ DeckInv' /\ Committed(data) /\ copied' = None
      /\ DOMAIN deck'.order = DOMAIN deck.order
      /\ \A k \in DOMAIN deck.order : deck'.order[k] = IF k = i THEN s ELSE deck.order[k]
  BY <1>1, <1>3, SlideEdited
<1>8. D!SparesOthers
  BY <1>4, <1>5, <1>6, <1>7, EditSpares
<1> QED
  BY <1>7, <1>8

\* An edit that gives a slide a part of its own for the one it has of a kind.
LEMMA OwnPart ==
    ASSUME DeckInv, NEW i \in DOMAIN deck.order, NEW way \in {"chart", "picture"},
           NEW kind, kind = (IF way = "chart" THEN "chart" ELSE "media"),
           NEW p, p = D!Name(kind, D!New, deck.order[i].id),
           NEW t, DOMAIN t = DOMAIN deck.order[i], t[way] = p,
           \A f \in DOMAIN t \ {way} : t[f] = deck.order[i][f],
           D!CommitSlide(i, t, D!Written({p}, deck.order[i].id))
    PROVE  DeckInv' /\ D!SparesOthers
<1> DEFINE s == deck.order[i]
           data == D!Written({p}, s.id)
<1>1. s \in D!Slides(deck) /\ D!SlideOf(s, number) /\ number \in Nat
  BY DeckFacts, DeckAssumed DEF D!DeckAssumption
<1>2. D!SlideOf(s, number + 1)
  BY <1>1, SlideStays
<1>3. s.id \in Nat \ {0}
  BY <1>1 DEF D!SlideOf
<1>4. p \in D!Named(kind, number + 1)
  BY <1>1, <1>3 DEF D!Named, D!Name, D!New
<1>5. /\ t.link = s.link /\ t.id = s.id /\ t.part = s.part /\ t.born = s.born
      /\ t.notes = s.notes
  BY <1>2 DEF D!SlideOf
<1>p. /\ t.chart = (IF way = "chart" THEN p ELSE s.chart)
      /\ t.picture = (IF way = "picture" THEN p ELSE s.picture)
  BY <1>2 DEF D!SlideOf
<1>6. D!SlideOf(t, number + 1)
  BY <1>2, <1>4, <1>5, <1>p DEF D!SlideOf
<1>7. DOMAIN data = {p}
  BY DEF D!Written
<1>8. ASSUME NEW m \in DOMAIN deck.order, NEW k \in D!Kinds, deck.order[m][k] # None,
             deck.order[m][k] \in DOMAIN data
      PROVE  FALSE
  BY <1>3, <1>7, <1>8, DeckFacts, NameIsNew
<1> HIDE DEF data
<1>9. /\ DeckInv' /\ Committed(data) /\ copied' = None
      /\ DOMAIN deck'.order = DOMAIN deck.order
      /\ \A k \in DOMAIN deck.order : deck'.order[k] = IF k = i THEN t ELSE deck.order[k]
  <2>1. D!CommitSlide(i, t, data)
    BY DEF data
  <2> QED
    BY <1>5, <1>6, <2>1, SlideEdited
<1>10. \A k \in D!Kinds \ {way} : t[k] = s[k]
  BY <1>5, <1>p DEF D!Kinds
<1>11. way \in D!Kinds
  BY DEF D!Kinds
<1>12. D!SparesOthers
  BY <1>5, <1>8, <1>9, <1>10, <1>11, EditSpares
<1> QED
  BY <1>9, <1>12

\* Every edit keeps the deck, and changes nothing that it is not about.
LEMMA DeckStep ==
    ASSUME DeckInv, D!Next
    PROVE  DeckInv' /\ D!SparesOthers
<1>1. ASSUME NEW i \in DOMAIN deck.order, D!ReplacePictureImage(i)
      PROVE  DeckInv' /\ D!SparesOthers
  <2> DEFINE s == deck.order[i]
             p == D!Name("media", D!New, s.id)
             t == [s EXCEPT !.picture = p]
  <2>1. D!CommitSlide(i, t, D!Written({p}, s.id))
    BY <1>1 DEF D!ReplacePictureImage, D!ImagePart
  <2>2. "picture" \in DOMAIN s
    BY DeckFacts DEF D!SlideOf
  <2>3. DOMAIN t = DOMAIN s /\ t["picture"] = p /\ \A f \in DOMAIN t \ {"picture"} : t[f] = s[f]
    BY <2>2
  <2> HIDE DEF p, t
  <2>4. p = D!Name("media", D!New, s.id)
    BY DEF p
  <2> QED
    BY <2>1, <2>3, <2>4, OwnPart
<1>2. ASSUME NEW i \in DOMAIN deck.order, D!ReplaceChartData(i)
      PROVE  DeckInv' /\ D!SparesOthers
  <2> DEFINE s == deck.order[i]
             p == D!Name("chart", D!New, s.id)
             t == [s EXCEPT !.chart = p]
  <2>1. D!CommitSlide(i, t, D!Written({p}, s.id))
    BY <1>2 DEF D!ReplaceChartData
  <2>2. "chart" \in DOMAIN s
    BY DeckFacts DEF D!SlideOf
  <2>3. DOMAIN t = DOMAIN s /\ t["chart"] = p /\ \A f \in DOMAIN t \ {"chart"} : t[f] = s[f]
    BY <2>2
  <2> HIDE DEF p, t
  <2>4. p = D!Name("chart", D!New, s.id)
    BY DEF p
  <2> QED
    BY <2>1, <2>3, <2>4, OwnPart
<1> QED
  BY <1>1, <1>2, CreateStep, DuplicateStep, DeleteStep, NotesStep, LinkStep, ReuseStep,
     ReorderStep, SectionsStep DEF D!Next

\* The deck in every state.
LEMMA DeckInvariant == D!Spec => []DeckInv
<1>1. D!Init => DeckInv
  <2> SUFFICES ASSUME D!Init PROVE DeckInv
    OBVIOUS
  <2>1. D!WellFormed(deck, 1) /\ D!Leads(deck) /\ \A s \in D!Slides(deck) : s.born[1] = 1
    BY DeckAssumed DEF D!Init, D!DeckAssumption
  <2>2. D!TypeOK
    BY <2>1, DeckAssumed DEF D!Init, D!TypeOK, D!DeckAssumption
  <2> QED
    BY <2>1, <2>2 DEF DeckInv, LinksLead, D!LinksLead
<1>2. DeckInv /\ [D!Next]_(D!vars) => DeckInv'
  <2>1. CASE UNCHANGED D!vars
    BY <2>1 DEF D!vars, DeckInv, LinksLead, D!LinksLead, D!TypeOK
  <2> QED
    BY <2>1, DeckStep
<1> QED
  BY <1>1, <1>2, PTL DEF D!Spec

\* Every link of a slide leads to the slide it was made to lead to, in presentations of any
\* size and after any edits (editing.py:4702-4727, 6393-6404; click_actions.py:56-239).
THEOREM LinksAlwaysLead == D!Spec => []LinksLead
<1>1. DeckInv => LinksLead
  BY DEF DeckInv
<1> QED
  BY <1>1, DeckInvariant, PTL

\* The slides of every revision are different in their identifiers, parts and notes, and have the
\* parts they name.
THEOREM DeckTypesHold == D!Spec => []D!TypeOK
<1>1. DeckInv => D!TypeOK
  BY DEF DeckInv
<1> QED
  BY <1>1, DeckInvariant, PTL

\* An edit changes what one slide shows in one respect, and nothing that another shows, although
\* slides share parts, and a copy shows all that its source does; in presentations of any size
\* and after any edits (editing.py:2887-3117, 3645-4004, 4881-5526; slide_reuse.py:304-346).
THEOREM EditsSpareOthers == D!Spec => OthersUntouched
<1>1. DeckInv /\ [D!Next]_(D!vars) => [D!SparesOthers]_(D!vars)
  BY DeckStep
<1> QED
  BY <1>1, DeckInvariant, PTL DEF D!Spec, OthersUntouched, D!OthersUntouched

-----------------------------------------------------------------------------
(* The sections of a deck.                                                 *)

\* The lowest numbers up to one of them, counted.
LEMMA LowCount ==
    ASSUME NEW L \in Nat, NEW S \in SUBSET (1..L), \A x \in S : \A y \in 1..x : y \in S
    PROVE  IsFiniteSet(S) /\ Cardinality(S) \in 0..L /\ S = 1..Cardinality(S)
<1>1. IsFiniteSet(1..L) /\ Cardinality(1..L) = L
  BY FS_Interval
<1>8. IsFiniteSet(S) /\ Cardinality(S) <= L
  BY <1>1, FS_Subset, ZenonT(40)
<1>9. IsFiniteSet(S) /\ Cardinality(S) \in 0..L
  BY <1>8, FS_CardinalityType
<1>2. CASE S = {}
  BY <1>2, <1>9, FS_EmptySet
<1>3. CASE S # {}
  <2>1. PICK m \in S : \A y \in S : m >= y
    <3>1. S \in SUBSET (0..L)
      OBVIOUS
    <3> QED
      BY <1>3, <3>1, HighestOf
  <2>2. m \in 1..L
    OBVIOUS
  <2>3. 1..m \subseteq S
    OBVIOUS
  <2>4. S \subseteq 1..m
    BY <2>1, <2>2
  <2>5. Cardinality(1..m) = m
    BY <2>2, FS_Interval
  <2> QED
    BY <1>9, <2>3, <2>4, <2>5
<1> QED
  BY <1>2, <1>3

\* The n-th lowest of a set of numbers: how it is counted, and in which order they are.
LEMMA NthOf ==
    ASSUME NEW N \in Nat, NEW S \in SUBSET (1..N)
    PROVE  /\ IsFiniteSet(S) /\ Cardinality(S) \in Nat
           /\ \A n \in 1..Cardinality(S) :
                 D!Nth(S, n) \in S /\ Cardinality({j \in S : j <= D!Nth(S, n)}) = n
           /\ \A i \in S : /\ Cardinality({j \in S : j <= i}) \in 1..Cardinality(S)
                           /\ D!Nth(S, Cardinality({j \in S : j <= i})) = i
           /\ \A m, n \in 1..Cardinality(S) : m < n <=> D!Nth(S, m) < D!Nth(S, n)
<1> DEFINE upto(i) == {j \in S : j <= i}
           c == Cardinality(S)
           rank == [i \in S |-> Cardinality(upto(i))]
<1>0. IsFiniteSet(1..N)
  BY FS_Interval
<1>1. IsFiniteSet(S) /\ c \in Nat
  BY <1>0, FS_Subset, FS_CardinalityType
<1>2. ASSUME NEW i \in S PROVE IsFiniteSet(upto(i)) /\ Cardinality(upto(i)) \in 1..c
  <2>1. IsFiniteSet(upto(i)) /\ Cardinality(upto(i)) <= c /\ Cardinality(upto(i)) \in Nat
    BY <1>1, FS_Subset, FS_CardinalityType
  <2>2. Cardinality(upto(i)) # 0
    BY <2>1, FS_EmptySet
  <2> QED
    BY <1>1, <2>1, <2>2
<1>3. ASSUME NEW i \in S, NEW k \in S, i < k PROVE Cardinality(upto(i)) < Cardinality(upto(k))
  <2>0. i \in Nat /\ k \in Nat /\ S \subseteq Nat
    OBVIOUS
  <2>1. upto(i) \subseteq upto(k) /\ k \in upto(k) /\ k \notin upto(i)
    <3>1. \A j \in S : j <= i => j <= k
      BY <1>3, <2>0
    <3>2. k <= k /\ ~(k <= i)
      BY <1>3, <2>0
    <3> QED
      BY <3>1, <3>2
  <2>2. Cardinality(upto(i)) <= Cardinality(upto(k)) /\ Cardinality(upto(k)) # Cardinality(upto(i))
    BY <1>2, <2>1, FS_Subset
  <2> QED
    BY <1>2, <2>2
<1> HIDE DEF upto, c
<1>4. rank \in [S -> 1..c] /\ \A i, k \in S : i < k => rank[i] < rank[k]
  BY <1>2, <1>3
<1>5. \A i, k \in S : rank[i] = rank[k] => i = k
  <2> SUFFICES ASSUME NEW i \in S, NEW k \in S, rank[i] = rank[k] PROVE i = k
    OBVIOUS
  <2>1. i \in 1..N /\ k \in 1..N /\ rank[i] \in 1..c
    BY <1>4
  <2> QED
    BY <1>1, <1>4, <2>1
<1>6. rank \in Injection(S, 1..c)
  BY <1>4, <1>5 DEF Injection, IsInjective
<1>7. IsFiniteSet(1..c) /\ Cardinality(1..c) = c
  BY <1>1, FS_Interval
<1>8. rank \in Surjection(S, 1..c)
  BY <1>6, <1>7, FS_Injection DEF c
<1>9. \A n \in 1..c : \E i \in S : rank[i] = n
  BY <1>8 DEF Surjection
<1>10. \A n : D!Nth(S, n) = CHOOSE i \in S : Cardinality(upto(i)) = n
  BY SameCardinality DEF D!Nth, upto
<1>11. ASSUME NEW n \in 1..c PROVE D!Nth(S, n) \in S /\ rank[D!Nth(S, n)] = n
  <2>1. \E i \in S : Cardinality(upto(i)) = n
    BY <1>9
  <2> QED
    BY <1>10, <2>1
<1>12. ASSUME NEW i \in S PROVE D!Nth(S, rank[i]) = i
  BY <1>4, <1>5, <1>11
<1>13. ASSUME NEW m \in 1..c, NEW n \in 1..c PROVE m < n <=> D!Nth(S, m) < D!Nth(S, n)
  <2> DEFINE a == D!Nth(S, m)
             b == D!Nth(S, n)
  <2>1. a \in S /\ b \in S /\ rank[a] = m /\ rank[b] = n
    BY <1>11
  <2> HIDE DEF a, b
  <2>2. a \in 1..N /\ b \in 1..N
    BY <2>1
  <2>3. a < b => m < n
    BY <1>4, <2>1
  <2>4. b < a => n < m
    BY <1>4, <2>1
  <2>5. a = b => m = n
    BY <2>1
  <2>6. m \in Nat /\ n \in Nat
    BY <1>1
  <2>7. m < n <=> a < b
    BY <2>2, <2>3, <2>4, <2>5, <2>6
  <2> QED
    BY <2>7 DEF a, b
<1>14. \A i \in S : rank[i] = Cardinality({j \in S : j <= i})
  BY DEF upto
<1> HIDE DEF rank
<1>15. \A n \in 1..c : D!Nth(S, n) \in S /\ Cardinality({j \in S : j <= D!Nth(S, n)}) = n
  BY <1>11, <1>14
<1>16. \A i \in S : /\ Cardinality({j \in S : j <= i}) \in 1..c
                    /\ D!Nth(S, Cardinality({j \in S : j <= i})) = i
  BY <1>4, <1>12, <1>14
<1> QED
  BY <1>1, <1>13, <1>15, <1>16 DEF c

\* The elements of a sequence at the indexes of an interval.
LEMMA PickedInterval ==
    ASSUME NEW E, NEW s \in Seq(E), NEW a \in 0..Len(s), NEW b \in a..Len(s)
    PROVE  D!Picked(s, a + 1..b) = SubSeq(s, a + 1, b)
<1> DEFINE S == a + 1..b
<1>1. a \in Nat /\ b \in Nat /\ a <= b /\ Len(s) \in Nat /\ S \in SUBSET (1..Len(s))
  OBVIOUS
<1>2. Cardinality(S) = b - a
  <2>1. a + 1 \in Int /\ b \in Int
    BY <1>1
  <2>2. Cardinality(S) = IF a + 1 > b THEN 0 ELSE b - (a + 1) + 1
    BY <2>1, FS_Interval
  <2> QED
    BY <1>1, <2>2
<1>3. ASSUME NEW n \in 1..b - a PROVE D!Nth(S, n) = a + n
  <2>1. a + n \in S /\ {j \in S : j <= a + n} = a + 1..a + n
    BY <1>1
  <2>2. Cardinality(a + 1..a + n) = n
    BY <1>1, FS_Interval
  <2>3. D!Nth(S, Cardinality({j \in S : j <= a + n})) = a + n
    BY <1>1, <2>1, NthOf
  <2> QED
    BY <2>1, <2>2, <2>3
<1>4. D!Picked(s, S) = [n \in 1..b - a |-> s[D!Nth(S, n)]]
  BY <1>2, SameCardinality DEF D!Picked
<1> HIDE DEF S
<1>5. D!Picked(s, S) = [n \in 1..b - a |-> s[a + n]]
  BY <1>3, <1>4
<1>6. SubSeq(s, a + 1, b) = [n \in 1..b - a |-> s[a + n]]
  BY <1>1
<1> QED
  BY <1>5, <1>6 DEF S

\* The first elements of a sequence, and some that follow.
LEMMA TwoPieces ==
    ASSUME NEW E, NEW s \in Seq(E), NEW b \in 0..Len(s), NEW a \in 0..b
    PROVE  SubSeq(s, 1, b) = SubSeq(s, 1, a) \o SubSeq(s, a + 1, b)
<1> DEFINE p == SubSeq(s, 1, a)
           q == SubSeq(s, a + 1, b)
<1>1. p \in Seq(E) /\ Len(p) = a /\ \A i \in 1..a : p[i] = s[i]
  OBVIOUS
<1>2. q \in Seq(E) /\ Len(q) = b - a /\ \A i \in 1..b - a : q[i] = s[a + i]
  OBVIOUS
<1> HIDE DEF p, q
<1>3. p \o q \in Seq(E) /\ Len(p \o q) = b
  <2>0. p \in Seq(E) /\ q \in Seq(E)
    BY <1>1, <1>2
  <2>1. p \o q \in Seq(E) /\ Len(p \o q) = Len(p) + Len(q)
    BY <2>0
  <2>2. a + (b - a) = b
    OBVIOUS
  <2> QED
    BY <1>1, <1>2, <2>1, <2>2
<1>4. ASSUME NEW i \in 1..b PROVE (p \o q)[i] = s[i]
  <2>1. CASE i <= a
    BY <1>1, <1>2, <2>1
  <2>2. CASE ~(i <= a)
    <3>1. i - a \in 1..b - a /\ a + (i - a) = i
      BY <2>2
    <3>2. (p \o q)[i] = q[i - a]
      BY <1>1, <1>2, <2>2
    <3> QED
      BY <1>2, <3>1, <3>2
  <2> QED
    BY <2>1, <2>2
<1> DEFINE t == p \o q
           u == SubSeq(s, 1, b)
<1>5. u \in Seq(E) /\ Len(u) = b /\ \A i \in 1..b : u[i] = s[i]
  OBVIOUS
<1>6. t \in Seq(E) /\ Len(t) = b /\ \A i \in 1..b : t[i] = s[i]
  BY <1>3, <1>4
<1> HIDE DEF t, u
<1>7. t = u
  BY <1>5, <1>6
<1> QED
  BY <1>7 DEF p, q, t, u

\* A sequence put together from its pieces.
LEMMA FlattenPieces ==
    ASSUME NEW E, NEW s \in Seq(E), NEW K \in Nat \ {0}, NEW cut \in [0..K -> 0..Len(s)],
           cut[0] = 0, cut[K] = Len(s), \A n \in 1..K : cut[n - 1] <= cut[n]
    PROVE  D!FlattenSeq([n \in 1..K |-> SubSeq(s, cut[n - 1] + 1, cut[n])]) = s
<1> DEFINE seqs == [n \in 1..K |-> SubSeq(s, cut[n - 1] + 1, cut[n])]
           upto(n) == SubSeq(s, 1, cut[n])
           whole == [n \in 1..K |-> upto(n)]
           step(f) == [n \in 1..Len(seqs) |-> IF n = 1 THEN seqs[n] ELSE f[n - 1] \o seqs[n]]
<1>1. Len(seqs) = K /\ DOMAIN seqs = 1..K
  OBVIOUS
<1>2. ASSUME NEW n \in 1..K, n # 1 PROVE upto(n) = upto(n - 1) \o seqs[n]
  <2>1. n - 1 \in 0..K /\ n \in 0..K
    OBVIOUS
  <2>2. cut[n - 1] \in 0..Len(s) /\ cut[n] \in 0..Len(s) /\ cut[n - 1] <= cut[n]
    BY <2>1
  <2>3. seqs[n] = SubSeq(s, cut[n - 1] + 1, cut[n])
    OBVIOUS
  <2> DEFINE a == cut[n - 1]
             b == cut[n]
  <2> HIDE DEF a, b
  <2>4. a \in 0..Len(s) /\ b \in 0..Len(s) /\ a <= b
    BY <2>2 DEF a, b
  <2>5. SubSeq(s, 1, b) = SubSeq(s, 1, a) \o SubSeq(s, a + 1, b)
    <3>1. a \in 0..b
      BY <2>4
    <3> QED
      BY <2>4, <3>1, TwoPieces
  <2> QED
    BY <2>3, <2>5 DEF a, b
<1>3. seqs[1] = upto(1)
  OBVIOUS
<1>4. ASSUME NEW f, f = step(f), NEW n \in 1..K PROVE f[n] = upto(n)
  <2> DEFINE bad == {m \in 1..K : f[m] # upto(m)}
  <2>1. CASE bad = {}
    BY <2>1
  <2>2. CASE bad # {}
    <3>0. bad \in SUBSET Nat
      OBVIOUS
    <3>1. PICK m \in bad : \A y \in bad : m <= y
      BY <2>2, <3>0, LowestOf
    <3>2. m \in 1..K /\ f[m] = IF m = 1 THEN seqs[m] ELSE f[m - 1] \o seqs[m]
      BY <1>1, <1>4
    <3>3. m # 1
      BY <1>3, <3>1, <3>2
    <3>4. m - 1 \in 1..K /\ m - 1 \notin bad
      BY <3>1, <3>2, <3>3
    <3> QED
      BY <1>2, <3>1, <3>2, <3>3, <3>4
  <2> QED
    BY <2>1, <2>2
<1>5. whole = step(whole)
  <2>1. ASSUME NEW n \in 1..K
        PROVE  whole[n] = IF n = 1 THEN seqs[n] ELSE whole[n - 1] \o seqs[n]
    <3>0. n # 1 => n - 1 \in 1..K
      OBVIOUS
    <3> HIDE DEF upto
    <3>1. n # 1 => n - 1 \in 1..K /\ whole[n - 1] = upto(n - 1)
      BY <3>0
    <3>2. whole[n] = upto(n)
      OBVIOUS
    <3> HIDE DEF whole
    <3> QED
      BY <1>2, <1>3, <3>1, <3>2
  <2>2. whole = [n \in 1..K |-> whole[n]]
    OBVIOUS
  <2> HIDE DEF whole
  <2> QED
    BY <1>1, <2>1, <2>2, ZenonT(40)
<1>6. D!FlattenSeq(seqs) = (CHOOSE f : f = step(f))[K]
  BY <1>1 DEF D!FlattenSeq
<1> HIDE DEF step, upto
<1>7. D!FlattenSeq(seqs) = upto(K)
  BY <1>4, <1>5, <1>6
<1>8. upto(K) = s
  BY DEF upto
<1> QED
  BY <1>7, <1>8

\* Piles is what its recursion says.
LEMMA PilesAre ==
    ASSUME NEW pos, Len(pos) \in Nat
    PROVE  /\ D!Piles(pos)[0] = <<>>
           /\ \A i \in 1..Len(pos) : D!Piles(pos)[i] = D!Placed(D!Piles(pos)[i - 1], pos, i)
<1> DEFINE N == Len(pos)
           step(k, f) == [i \in 0..k |-> IF i = 0 THEN <<>> ELSE D!Placed(f[i - 1], pos, i)]
           bad == {k \in 0..N : ~\E f : f = step(k, f)}
<1>1. \E f : f = step(0, f)
  <2> DEFINE g == [i \in 0..0 |-> <<>>]
  <2>1. g = step(0, g)
    OBVIOUS
  <2> QED
    BY <2>1
<1>2. ASSUME NEW k \in 1..N, NEW f, f = step(k - 1, f) PROVE \E g : g = step(k, g)
  <2> DEFINE g == step(k, f)
  <2>1. ASSUME NEW i \in 0..k - 1 PROVE g[i] = f[i]
    BY <1>2
  <2>2. \A i \in 0..k : i # 0 => i - 1 \in 0..k - 1
    OBVIOUS
  <2> HIDE DEF g
  <2>3. step(k, f) = step(k, g)
    BY <2>1, <2>2
  <2> QED
    BY <2>3 DEF g
<1>3. bad = {}
  <2> SUFFICES ASSUME bad # {} PROVE FALSE
    OBVIOUS
  <2>0. bad \in SUBSET Nat
    OBVIOUS
  <2>1. PICK k \in bad : \A y \in bad : k <= y
    BY <2>0, LowestOf
  <2> HIDE DEF step
  <2>2. k \in 1..N
    BY <1>1
  <2>3. k - 1 \in 0..N /\ k - 1 \notin bad
    BY <2>1, <2>2
  <2> QED
    BY <1>2, <2>2, <2>3
<1>4. D!Piles(pos) = CHOOSE f : f = step(N, f)
  BY DEF D!Piles
<1> HIDE DEF step
<1>5. D!Piles(pos) = step(N, D!Piles(pos))
  BY <1>3, <1>4
<1> DEFINE p == D!Piles(pos)
<1> HIDE DEF p
<1>6. p = step(N, p)
  BY <1>5 DEF p
<1> QED
  BY <1>6 DEF p, step

\* A set of indexes at which a sequence increases.
Increasing(pos, S) == \A j, k \in S : j < k => pos[j] < pos[k]

\* What the patience sort knows of the first i: of increasing indexes, the n-th pile has n, and
\* there are no n that end lower.
PilesOf(piles, pos, i) ==
    /\ piles \in Seq(SUBSET (1..i))
    /\ \A n \in DOMAIN piles : /\ piles[n] # {}
                               /\ Cardinality(piles[n]) = n /\ Increasing(pos, piles[n])
    /\ \A m, n \in DOMAIN piles : m < n => pos[D!Max(piles[m])] < pos[D!Max(piles[n])]
    /\ \A S \in SUBSET (1..i) : S # {} /\ Increasing(pos, S) =>
          /\ Cardinality(S) \in DOMAIN piles
          /\ pos[D!Max(piles[Cardinality(S)])] <= pos[D!Max(S)]

\* The highest of a set of indexes.
LEMMA HighestIndex ==
    ASSUME NEW L \in Nat, NEW S \in SUBSET (1..L), S # {}
    PROVE  /\ D!Max(S) \in S /\ \A y \in S : D!Max(S) >= y
           /\ \A m \in S : (\A y \in S : y <= m) => D!Max(S) = m
<1>1. S \in SUBSET (0..L)
  OBVIOUS
<1>2. D!Max(S) \in S /\ \A y \in S : D!Max(S) >= y
  BY <1>1, HighestOf
<1>3. ASSUME NEW m \in S, \A y \in S : y <= m PROVE D!Max(S) = m
  <2>0. PICK x \in S : x = D!Max(S) /\ \A y \in S : x >= y
    BY <1>2
  <2>1. m \in Nat /\ x \in Nat
    OBVIOUS
  <2>2. x <= m /\ x >= m
    BY <1>3, <2>0
  <2> QED
    BY <2>0, <2>1, <2>2
<1> QED
  BY <1>2, <1>3

\* Placing the next index keeps the piles what they are.
LEMMA PlacedStep ==
    ASSUME NEW pos \in Seq(Nat), NEW i \in 1..Len(pos), NEW piles, PilesOf(piles, pos, i - 1)
    PROVE  PilesOf(D!Placed(piles, pos, i), pos, i)
<1> DEFINE L == Len(piles)
           tail(n) == pos[D!Max(piles[n])]
           A == {n \in 1..L : tail(n) < pos[i]}
           a == Cardinality(A)
           pile == D!Pile(piles, a + 1, i)
           len == IF a + 1 > L THEN a + 1 ELSE L
           new == D!Placed(piles, pos, i)
<1>0. /\ i \in Nat \ {0} /\ Len(pos) \in Nat /\ i <= Len(pos)
      /\ pos \in [1..Len(pos) -> Nat] /\ pos[i] \in Nat
  OBVIOUS
<1>1. L \in Nat /\ DOMAIN piles = 1..L /\ piles \in Seq(SUBSET (1..i - 1))
  BY DEF PilesOf
<1>2. ASSUME NEW n \in 1..L
      PROVE  /\ piles[n] \subseteq 1..i - 1 /\ piles[n] # {} /\ Cardinality(piles[n]) = n
             /\ Increasing(pos, piles[n]) /\ D!Max(piles[n]) \in piles[n]
             /\ \A j \in piles[n] : D!Max(piles[n]) >= j
  <2>1. /\ piles[n] \in SUBSET (1..i - 1) /\ piles[n] # {} /\ Cardinality(piles[n]) = n
        /\ Increasing(pos, piles[n])
    BY <1>1 DEF PilesOf
  <2>2. i - 1 \in Nat
    BY <1>0
  <2>3. D!Max(piles[n]) \in piles[n] /\ \A j \in piles[n] : D!Max(piles[n]) >= j
    BY <2>1, <2>2, HighestIndex
  <2> QED
    BY <2>1, <2>3
<1>3. ASSUME NEW n \in 1..L
      PROVE  tail(n) \in Nat /\ \A j \in piles[n] : pos[j] \in Nat /\ pos[j] <= tail(n)
  <2> DEFINE m == D!Max(piles[n])
  <2>1. m \in piles[n] /\ \A j \in piles[n] : m >= j
    BY <1>2
  <2> HIDE DEF m
  <2>2. \A j \in piles[n] : j \in 1..Len(pos) /\ j \in Nat
    BY <1>0, <1>2
  <2>3. pos[m] \in Nat
    BY <1>0, <2>1, <2>2
  <2>4. ASSUME NEW j \in piles[n] PROVE pos[j] \in Nat /\ pos[j] <= pos[m]
    <3>1. j < m => pos[j] < pos[m]
      BY <1>2, <2>1 DEF Increasing
    <3>2. j < m \/ j = m
      BY <2>1, <2>2
    <3>3. pos[j] \in Nat
      BY <1>0, <2>2
    <3> QED
      BY <2>3, <3>1, <3>2, <3>3
  <2> QED
    BY <2>3, <2>4 DEF m
<1>4. \A m, n \in 1..L : m < n => tail(m) < tail(n)
  BY <1>1 DEF PilesOf
<1> HIDE DEF tail
<1>6. a \in 0..L /\ A = 1..a
  <2>1. ASSUME NEW n \in A, NEW m \in 1..n PROVE m \in A
    <3>1. m \in 1..L /\ n \in 1..L /\ (m < n \/ m = n)
      BY <1>1
    <3>2. tail(m) <= tail(n) /\ tail(m) \in Nat /\ tail(n) \in Nat
      BY <1>3, <1>4, <3>1
    <3> QED
      BY <1>0, <3>1, <3>2
  <2> HIDE DEF A
  <2>2. A \in SUBSET (1..L)
    BY DEF A
  <2> QED
    BY <1>1, <2>1, <2>2, LowCount
<1>11. \A n \in 1..L : n <= a <=> tail(n) < pos[i]
  <2>1. \A n \in 1..L : n \in A <=> tail(n) < pos[i]
    OBVIOUS
  <2>2. \A n \in 1..L : n \in 1..a <=> n <= a
    BY <1>6
  <2> QED
    BY <1>6, <2>1, <2>2
<1>5. new = IF a + 1 > L THEN Append(piles, pile) ELSE [piles EXCEPT ![a + 1] = pile]
  <2>1. D!Place(piles, pos, i) = a + 1
    BY <1>1, SameCardinality DEF D!Place, tail
  <2> HIDE DEF a, L
  <2> QED
    BY <2>1 DEF D!Placed, L
<1> HIDE DEF A, a, L
<1>7. pile = IF a = 0 THEN {i} ELSE piles[a] \cup {i}
  <2> DEFINE b == a + 1
  <2>1. b - 1 = a /\ (b = 1 <=> a = 0)
    BY <1>6
  <2>2. pile = D!Pile(piles, b, i)
    OBVIOUS
  <2> HIDE DEF b, pile
  <2>3. pile = IF b = 1 THEN {i} ELSE piles[b - 1] \cup {i}
    BY <2>2 DEF D!Pile
  <2> QED
    BY <2>1, <2>3
<1> HIDE DEF pile, new
<1>8. /\ len \in Nat /\ a + 1 \in 1..len /\ a + 1 \in Nat
      /\ \A n \in 1..len : n # a + 1 => n \in 1..L
  BY <1>1, <1>6
<1>9. /\ pile \in SUBSET (1..i) /\ pile # {} /\ Cardinality(pile) = a + 1
      /\ Increasing(pos, pile) /\ D!Max(pile) = i
  <2>1. CASE a = 0
    <3>1. pile = {i}
      BY <1>7, <2>1
    <3> QED
      <4>1. pile \in SUBSET (1..i) /\ i \in pile /\ \A y \in pile : y <= i
        BY <1>0, <3>1
      <4>2. Cardinality(pile) = a + 1
        <5>1. Cardinality(pile) = 1
          BY <3>1, FS_Singleton
        <5> QED
          BY <2>1, <5>1
      <4>3. Increasing(pos, pile)
        BY <1>0, <3>1 DEF Increasing
      <4>4. D!Max(pile) = i
        BY <1>0, <4>1, HighestIndex
      <4> QED
        BY <4>1, <4>2, <4>3, <4>4
  <2>2. CASE a # 0
    <3>1. a \in 1..L /\ pile = piles[a] \cup {i}
      BY <1>1, <1>6, <1>7, <2>2
    <3>2. piles[a] \subseteq 1..i - 1 /\ Cardinality(piles[a]) = a
      BY <1>2, <3>1
    <3>3. IsFiniteSet(piles[a]) /\ i \notin piles[a]
      <4>1. IsFiniteSet(1..i - 1)
        BY <1>0, FS_Interval
      <4> QED
        BY <1>0, <3>2, <4>1, FS_Subset
    <3>4. pile \in SUBSET (1..i) /\ Cardinality(pile) = a + 1
      <4>1. pile \in SUBSET (1..i)
        BY <1>0, <3>1, <3>2
      <4>2. Cardinality(pile) = Cardinality(piles[a]) + 1
        BY <3>1, <3>3, FS_AddElement
      <4> QED
        BY <3>2, <4>1, <4>2
    <3>5. ASSUME NEW j \in pile, NEW k \in pile, j < k PROVE pos[j] < pos[k]
      <4>1. j \in piles[a]
        BY <1>0, <3>1, <3>2, <3>5
      <4>2. CASE k \in piles[a]
        BY <1>2, <3>1, <3>5, <4>1, <4>2 DEF Increasing
      <4>3. CASE k = i
        <5>1. tail(a) < pos[i]
          BY <1>6, <1>11, <3>1
        <5>2. pos[j] \in Nat /\ pos[j] <= tail(a) /\ tail(a) \in Nat
          BY <1>3, <3>1, <4>1
        <5> QED
          BY <1>0, <4>3, <5>1, <5>2
      <4> QED
        BY <3>1, <4>2, <4>3
    <3>6. i \in pile /\ \A j \in pile : j <= i
      BY <1>0, <3>1, <3>2
    <3>7. D!Max(pile) = i
      BY <1>0, <3>4, <3>6, HighestIndex
    <3> QED
      BY <3>4, <3>5, <3>6, <3>7 DEF Increasing
  <2> QED
    BY <2>1, <2>2
<1>10. /\ new \in Seq(SUBSET (1..i)) /\ Len(new) = len /\ DOMAIN new = 1..len
       /\ new[a + 1] = pile /\ \A n \in 1..len : n # a + 1 => new[n] = piles[n]
  <2>1. piles \in Seq(SUBSET (1..i)) /\ L \in Nat /\ L = Len(piles)
    <3>1. (SUBSET (1..i - 1)) \subseteq SUBSET (1..i)
      BY <1>0
    <3> QED
      BY <1>1, <3>1 DEF L
  <2>2. CASE a + 1 > L
    <3>1. a + 1 = L + 1 /\ len = L + 1
      BY <1>1, <1>6, <2>2
    <3>2. new = Append(piles, pile)
      BY <1>5, <2>2
    <3> QED
      BY <1>9, <2>1, <3>1, <3>2
  <2>3. CASE ~(a + 1 > L)
    <3>1. a + 1 \in 1..L /\ len = L
      BY <1>1, <1>6, <2>3
    <3>2. new = [piles EXCEPT ![a + 1] = pile]
      BY <1>5, <2>3
    <3> QED
      BY <1>9, <2>1, <3>1, <3>2
  <2> QED
    BY <2>2, <2>3
<1> DEFINE last(n) == pos[D!Max(new[n])]
<1>12. last(a + 1) = pos[i] /\ \A n \in 1..len : n # a + 1 => last(n) = tail(n)
  BY <1>9, <1>10 DEF tail
<1>13. \A n \in 1..L : n > a => pos[i] <= tail(n)
  BY <1>0, <1>1, <1>3, <1>6, <1>11
<1>14. \A n \in 1..len : last(n) \in Nat
  BY <1>0, <1>3, <1>8, <1>12
<1> HIDE DEF last, len
<1>15. ASSUME NEW m \in 1..len, NEW n \in 1..len, m < n PROVE last(m) < last(n)
  <2>0. m \in Nat /\ n \in Nat
    BY <1>8
  <2>1. CASE m = a + 1
    <3>1. n \in 1..L /\ last(n) = tail(n) /\ last(m) = pos[i]
      BY <1>8, <1>12, <1>15, <2>0, <2>1
    <3>2. a + 1 \in 1..L /\ a + 1 > a
      <4>1. a \in Nat /\ a + 1 < n /\ n <= L /\ n \in Nat /\ L \in Nat
        BY <1>1, <1>6, <1>15, <2>0, <2>1, <3>1
      <4> QED
        BY <4>1
    <3>3. pos[i] <= tail(a + 1) /\ tail(a + 1) < tail(n)
      BY <1>4, <1>13, <1>15, <2>1, <3>1, <3>2
    <3>4. tail(a + 1) \in Nat /\ tail(n) \in Nat
      BY <1>3, <3>1, <3>2
    <3> QED
      BY <1>0, <3>1, <3>3, <3>4
  <2>2. CASE n = a + 1
    <3>1. m \in 1..L /\ last(m) = tail(m) /\ last(n) = pos[i] /\ m <= a
      BY <1>6, <1>8, <1>12, <1>15, <2>0, <2>2
    <3> QED
      BY <1>11, <3>1
  <2>3. CASE m # a + 1 /\ n # a + 1
    BY <1>4, <1>8, <1>12, <1>15, <2>3
  <2> QED
    BY <2>1, <2>2, <2>3
<1>16. ASSUME NEW S \in SUBSET (1..i), S # {}, Increasing(pos, S)
       PROVE  Cardinality(S) \in 1..len /\ last(Cardinality(S)) <= pos[D!Max(S)]
  <2> DEFINE c == Cardinality(S)
             rest == S \ {i}
  <2>1. CASE i \notin S
    <3>1. S \in SUBSET (1..i - 1)
      BY <1>0, <2>1
    <3>2. c \in 1..L /\ tail(c) <= pos[D!Max(S)]
      BY <1>1, <1>16, <3>1 DEF PilesOf, tail
    <3>3. D!Max(S) \in S
      BY <1>0, <1>16, HighestIndex
    <3>4. pos[D!Max(S)] \in Nat /\ tail(c) \in Nat
      <4>1. tail(c) \in Nat
        BY <1>3, <3>2
      <4>3. \A y \in S : y \in 1..Len(pos)
        BY <1>0
      <4>2. D!Max(S) \in 1..Len(pos)
        BY <3>3, <4>3
      <4> QED
        BY <1>0, <4>1, <4>2
    <3> HIDE DEF c
    <3>5. c \in 1..len
      BY <1>1, <1>6, <3>2 DEF len
    <3>6. CASE c = a + 1
      <4>1. c > a
        BY <1>6, <3>6
      <4>2. pos[i] <= tail(c)
        BY <1>13, <3>2, <4>1
      <4> QED
        BY <1>0, <1>12, <3>2, <3>4, <3>5, <3>6, <4>2 DEF c
    <3>7. CASE c # a + 1
      BY <1>12, <3>2, <3>5, <3>7 DEF c
    <3> QED
      BY <3>6, <3>7
  <2>2. CASE i \in S
    <3>1. D!Max(S) = i
      <4>1. \A y \in S : y <= i
        BY <1>0
      <4> QED
        BY <1>0, <1>16, <2>2, <4>1, HighestIndex
    <3>2. IsFiniteSet(S) /\ c \in Nat
      <4>1. IsFiniteSet(1..i)
        BY <1>0, FS_Interval
      <4> QED
        BY <4>1, FS_Subset, FS_CardinalityType
    <3>3. Cardinality(rest) = c - 1
      BY <2>2, <3>2, FS_RemoveElement
    <3>4. rest \in SUBSET (1..i - 1) /\ Increasing(pos, rest)
      BY <1>0, <1>16 DEF Increasing
    <3>5. c \in 1..a + 1
      <4>1. CASE rest = {}
        <5>1. S = {i}
          BY <2>2, <4>1
        <5>2. c = 1
          BY <5>1, FS_Singleton
        <5> QED
          BY <1>6, <5>2
      <4>2. CASE rest # {}
        <5> DEFINE m == D!Max(rest)
        <5>1. m \in rest
          BY <1>0, <3>4, <4>2, HighestIndex
        <5>2. c - 1 \in 1..L /\ tail(c - 1) <= pos[m]
          BY <1>1, <3>3, <3>4, <4>2 DEF PilesOf, tail
        <5> HIDE DEF m, c
        <5>3. pos[m] < pos[i] /\ pos[m] \in Nat
          BY <1>0, <1>16, <2>2, <3>4, <5>1 DEF Increasing
        <5>4. tail(c - 1) < pos[i]
          BY <1>0, <1>3, <5>2, <5>3
        <5>5. c - 1 <= a
          BY <1>11, <5>2, <5>4
        <5> QED
          BY <1>6, <3>2, <5>2, <5>5
      <4> QED
        BY <4>1, <4>2
    <3> HIDE DEF c
    <3>6. c \in 1..len
      BY <1>6, <1>8, <3>5
    <3>7. CASE c = a + 1
      <4>1. last(c) <= pos[D!Max(S)]
        BY <1>0, <1>12, <3>1, <3>7
      <4> QED
        BY <3>6, <4>1 DEF c
    <3>8. CASE c # a + 1
      <4>1. c \in 1..L /\ c <= a
        BY <1>1, <1>6, <3>5, <3>8
      <4>2. last(c) = tail(c) /\ tail(c) < pos[i] /\ tail(c) \in Nat
        BY <1>3, <1>11, <1>12, <3>6, <3>8, <4>1
      <4> QED
        BY <1>0, <3>1, <3>6, <4>2 DEF c
    <3> QED
      BY <3>6, <3>7, <3>8 DEF c
  <2> QED
    BY <2>1, <2>2
<1>17. ASSUME NEW n \in 1..len
       PROVE  new[n] # {} /\ Cardinality(new[n]) = n /\ Increasing(pos, new[n])
  <2>1. CASE n = a + 1
    BY <1>9, <1>10, <2>1
  <2>2. CASE n # a + 1
    BY <1>2, <1>8, <1>10, <2>2
  <2> QED
    BY <2>1, <2>2
<1> QED
  BY <1>10, <1>15, <1>16, <1>17 DEF PilesOf, new, last

\* _stable: the sequence increases at its indexes, and there are no more at which it does.
LEMMA StableLongest ==
    ASSUME NEW pos \in Seq(Nat)
    PROVE  /\ D!Stable(pos) \in SUBSET (1..Len(pos)) /\ Increasing(pos, D!Stable(pos))
           /\ \A S \in SUBSET (1..Len(pos)) : Increasing(pos, S) =>
                 Cardinality(S) <= Cardinality(D!Stable(pos))
<1> DEFINE N == Len(pos)
           piles(i) == D!Piles(pos)[i]
           bad == {i \in 0..N : ~PilesOf(piles(i), pos, i)}
<1>0. N \in Nat
  OBVIOUS
<1>1. piles(0) = <<>> /\ \A i \in 1..N : piles(i) = D!Placed(piles(i - 1), pos, i)
  BY <1>0, PilesAre
<1> HIDE DEF piles
<1>2. PilesOf(piles(0), pos, 0)
  <2>1. piles(0) \in Seq(SUBSET (1..0)) /\ DOMAIN piles(0) = {} /\ 1..0 = {}
    <3>1. piles(0) = <<>>
      BY <1>1
    <3>2. <<>> \in Seq(SUBSET (1..0)) /\ DOMAIN <<>> = {} /\ 1..0 = {}
      OBVIOUS
    <3> QED
      BY <3>1, <3>2
  <2>2. \A S \in SUBSET (1..0) : S = {}
    BY <2>1
  <2> QED
    BY <2>1, <2>2 DEF PilesOf
<1>3. bad = {}
  <2> SUFFICES ASSUME bad # {} PROVE FALSE
    OBVIOUS
  <2>1. bad \in SUBSET Nat
    OBVIOUS
  <2>2. PICK i \in bad : \A y \in bad : i <= y
    BY <2>1, LowestOf
  <2>3. i \in 1..N /\ i - 1 \in 0..N
    BY <1>0, <1>2
  <2>4. PilesOf(piles(i - 1), pos, i - 1)
    BY <2>2, <2>3
  <2>5. PilesOf(piles(i), pos, i)
    BY <1>1, <2>3, <2>4, PlacedStep
  <2> QED
    BY <2>2, <2>5
<1>4. PilesOf(piles(N), pos, N)
  BY <1>0, <1>3
<1> DEFINE last == piles(N)
           L == Len(last)
<1>5. L \in Nat /\ DOMAIN last = 1..L /\ last \in Seq(SUBSET (1..N))
  BY <1>4 DEF PilesOf
<1>6. CASE N = 0
  <2>1. pos = <<>> /\ 1..N = {}
    BY <1>6
  <2>2. D!Stable(pos) = {}
    BY <2>1 DEF D!Stable
  <2>3. \A S \in SUBSET (1..N) : Cardinality(S) = 0
    BY <2>1, FS_EmptySet
  <2>4. D!Stable(pos) \in SUBSET (1..N) /\ Increasing(pos, D!Stable(pos))
    BY <2>2 DEF Increasing
  <2> QED
    BY <2>3, <2>4
<1>7. CASE N # 0
  <2>1. pos # <<>>
    BY <1>7
  <2>2. {1} \in SUBSET (1..N) /\ {1} # {} /\ Increasing(pos, {1}) /\ Cardinality({1}) = 1
    <3>1. {1} \in SUBSET (1..N) /\ {1} # {}
      BY <1>0, <1>7
    <3>2. Increasing(pos, {1})
      BY DEF Increasing
    <3>3. Cardinality({1}) = 1
      BY FS_Singleton
    <3> QED
      BY <3>1, <3>2, <3>3
  <2>3. 1 \in DOMAIN last
    BY <1>4, <2>2 DEF PilesOf
  <2>4. L \in 1..L
    BY <1>5, <2>3
  <2>5. D!Stable(pos) = last[L]
    BY <2>1 DEF D!Stable, D!Last, piles
  <2>6. /\ last[L] \in SUBSET (1..N) /\ Increasing(pos, last[L]) /\ Cardinality(last[L]) = L
    BY <1>4, <1>5, <2>4 DEF PilesOf
  <2>7. ASSUME NEW S \in SUBSET (1..N), Increasing(pos, S) PROVE Cardinality(S) <= L
    <3>1. CASE S = {}
      BY <1>5, <3>1, FS_EmptySet
    <3>2. CASE S # {}
      <4>1. Cardinality(S) \in DOMAIN last
        BY <1>4, <2>7, <3>2 DEF PilesOf
      <4> QED
        BY <1>5, <4>1
    <3> QED
      BY <3>1, <3>2
  <2> QED
    BY <2>5, <2>6, <2>7
<1> QED
  BY <1>6, <1>7

\* As many values as arguments that have different ones.
LEMMA ImageCount ==
    ASSUME NEW S, IsFiniteSet(S), NEW f, \A x, y \in S : f[x] = f[y] => x = y
    PROVE  /\ IsFiniteSet({f[x] : x \in S})
           /\ Cardinality({f[x] : x \in S}) = Cardinality(S)
<1> DEFINE T == {f[x] : x \in S}
           g == [x \in S |-> f[x]]
<1>1. g \in Surjection(S, T) /\ g \in Injection(S, T)
  BY DEF Surjection, Injection, IsInjective
<1> HIDE DEF g, T
<1>2. IsFiniteSet(T) /\ Cardinality(T) = Cardinality(S)
  BY <1>1, FS_Surjection
<1> QED
  BY <1>2 DEF T

Distinct(s) == \A i, j \in DOMAIN s : s[i] = s[j] => i = j

\* The slides at some indexes of a new order of the slides, is, are in the order they were in.
Kept(was, is, S) == \A i, j \in S : \A p, q \in DOMAIN was :
    i < j /\ was[p] = is[i] /\ was[q] = is[j] => p < q

\* Where the known slides were.
LEMMA WereThere ==
    ASSUME NEW old, NEW was \in Seq(Nat), NEW is \in Seq(Nat)
    PROVE  LET known == D!Known(old, was, is)
               were == D!Were(known, was, is)
           IN /\ known \in SUBSET (1..Len(is)) /\ Cardinality(known) \in Nat
              /\ were \in Seq(Nat) /\ Len(were) = Cardinality(known)
              /\ \A n \in 1..Cardinality(known) :
                    were[n] \in DOMAIN was /\ was[were[n]] = is[D!Nth(known, n)]
<1> DEFINE known == D!Known(old, was, is)
           were == D!Were(known, was, is)
           c == Cardinality(known)
<1>1. Len(is) \in Nat /\ known \in SUBSET (1..Len(is))
  BY DEF D!Known
<1>2. \A i \in known : \E p \in DOMAIN was : was[p] = is[i]
  BY DEF D!Known, D!ToSet
<1> HIDE DEF known
<1>3. c \in Nat /\ \A n \in 1..c : D!Nth(known, n) \in known
  BY <1>1, NthOf
<1>4. were = [n \in 1..c |-> D!Positions(was)[is[D!Nth(known, n)]]]
  BY SameCardinality DEF D!Were
<1> HIDE DEF c, were
<1>5. ASSUME NEW n \in 1..c
      PROVE  were[n] \in DOMAIN was /\ was[were[n]] = is[D!Nth(known, n)]
  <2> DEFINE id == is[D!Nth(known, n)]
  <2>1. \E p \in DOMAIN was : was[p] = id
    BY <1>2, <1>3
  <2>2. were[n] = D!Positions(was)[id]
    BY <1>4
  <2> HIDE DEF id
  <2>3. id \in D!ToSet(was)
    BY <2>1 DEF D!ToSet
  <2>4. D!Positions(was)[id] = CHOOSE p \in DOMAIN was : was[p] = id
    BY <2>3 DEF D!Positions
  <2>5. were[n] \in DOMAIN was /\ was[were[n]] = id
    BY <2>1, <2>2, <2>4
  <2> QED
    BY <2>5 DEF id
<1>6. were \in Seq(Nat) /\ Len(were) = c
  <2>1. \A n \in 1..c : were[n] \in Nat
    BY <1>5
  <2>2. were = [n \in 1..c |-> were[n]]
    BY <1>4
  <2> QED
    BY <1>3, <2>1, <2>2, SMTT(30)
<1> QED
  BY <1>1, <1>3, <1>5, <1>6 DEF c, known, were

\* The stable slides are in the order they were in, and no more of the known ones are.
LEMMA StableSlides ==
    ASSUME NEW old, NEW was \in Seq(Nat), NEW is \in Seq(Nat), Distinct(was)
    PROVE  LET known == D!Known(old, was, is)
               stable == D!StableOf(known, was, is)
           IN /\ stable \in SUBSET known /\ Kept(was, is, stable)
              /\ \A S \in SUBSET known : Kept(was, is, S) =>
                    Cardinality(S) <= Cardinality(stable)
<1> DEFINE known == D!Known(old, was, is)
           were == D!Were(known, was, is)
           stable == D!StableOf(known, was, is)
           c == Cardinality(known)
           nth == [n \in 1..c |-> D!Nth(known, n)]
           rank(i) == Cardinality({j \in known : j <= i})
<1>1. /\ Len(is) \in Nat /\ known \in SUBSET (1..Len(is)) /\ c \in Nat
      /\ were \in Seq(Nat) /\ Len(were) = c
      /\ \A n \in 1..c : were[n] \in DOMAIN was /\ was[were[n]] = is[nth[n]]
  <2>1. /\ known \in SUBSET (1..Len(is)) /\ c \in Nat
        /\ were \in Seq(Nat) /\ Len(were) = c
        /\ \A n \in 1..c : were[n] \in DOMAIN was /\ was[were[n]] = is[D!Nth(known, n)]
    BY WereThere
  <2>2. \A n \in 1..c : nth[n] = D!Nth(known, n)
    OBVIOUS
  <2> HIDE DEF known, were, c, nth
  <2> QED
    BY <2>1, <2>2
<1> HIDE DEF known, were
<1>2. /\ \A n \in 1..c : nth[n] \in known
      /\ \A i \in known : rank(i) \in 1..c /\ nth[rank(i)] = i
      /\ \A m, n \in 1..c : m < n <=> nth[m] < nth[n]
  BY <1>1, NthOf
<1>3. /\ D!Stable(were) \in SUBSET (1..c) /\ Increasing(were, D!Stable(were))
      /\ \A S \in SUBSET (1..c) : Increasing(were, S) =>
            Cardinality(S) <= Cardinality(D!Stable(were))
  BY <1>1, StableLongest
<1>4. stable = {nth[n] : n \in D!Stable(were)}
  BY <1>3 DEF D!StableOf, were
<1> HIDE DEF c, nth, rank, stable
<1>5. IsFiniteSet(1..c) /\ \A S \in SUBSET (1..c) : IsFiniteSet(S)
  <2>1. 1 \in Int /\ c \in Int
    BY <1>1
  <2>2. IsFiniteSet(1..c)
    BY <2>1, FS_Interval
  <2> QED
    BY <2>2, FS_Subset
<1>6. ASSUME NEW m \in 1..c, NEW n \in 1..c, nth[m] = nth[n] PROVE m = n
  <2>1. ~(m < n) /\ ~(n < m)
    <3>1. nth[m] \in Nat
      <4>1. \A i \in known : i \in Nat
        BY <1>1
      <4> QED
        BY <1>2, <4>1
    <3> QED
      BY <1>2, <1>6, <3>1
  <2> QED
    BY <1>1, <2>1
<1>7. ASSUME NEW S \in SUBSET (1..c) PROVE Cardinality({nth[n] : n \in S}) = Cardinality(S)
  <2>1. IsFiniteSet(S) /\ \A m, n \in S : nth[m] = nth[n] => m = n
    BY <1>5, <1>6
  <2> QED
    BY <2>1, ImageCount
<1>8. stable \in SUBSET known /\ Cardinality(stable) = Cardinality(D!Stable(were))
  BY <1>2, <1>3, <1>4, <1>7
<1>9. \A n \in 1..c : \A p \in DOMAIN was : was[p] = is[nth[n]] => p = were[n]
  BY <1>1, SMTT(30) DEF Distinct
<1>10. ASSUME NEW S \in SUBSET (1..c)
       PROVE  Kept(was, is, {nth[n] : n \in S}) <=> Increasing(were, S)
  <2> DEFINE T == {nth[n] : n \in S}
  <2>1. ASSUME Kept(was, is, T), NEW m \in S, NEW n \in S, m < n PROVE were[m] < were[n]
    <3>1. nth[m] \in T /\ nth[n] \in T /\ nth[m] < nth[n]
      BY <1>2, <2>1
    <3>2. /\ were[m] \in DOMAIN was /\ was[were[m]] = is[nth[m]]
          /\ were[n] \in DOMAIN was /\ was[were[n]] = is[nth[n]]
      BY <1>1
    <3> HIDE DEF T
    <3> QED
      BY <2>1, <3>1, <3>2 DEF Kept
  <2>2. ASSUME Increasing(were, S), NEW i \in T, NEW j \in T, NEW p \in DOMAIN was,
               NEW q \in DOMAIN was, i < j, was[p] = is[i], was[q] = is[j]
        PROVE  p < q
    <3>1. PICK m \in S : i = nth[m]
      OBVIOUS
    <3>2. PICK n \in S : j = nth[n]
      OBVIOUS
    <3>3. p = were[m] /\ q = were[n]
      BY <1>9, <2>2, <3>1, <3>2
    <3>4. m < n
      BY <1>2, <2>2, <3>1, <3>2
    <3> QED
      BY <2>2, <3>3, <3>4 DEF Increasing
  <2> HIDE DEF T
  <2>3. Kept(was, is, T) => Increasing(were, S)
    BY <2>1 DEF Increasing
  <2>4. Increasing(were, S) => Kept(was, is, T)
    BY <2>2 DEF Kept
  <2> QED
    BY <2>3, <2>4 DEF T
<1>11. Kept(was, is, stable)
  BY <1>3, <1>4, <1>10
<1>12. ASSUME NEW S \in SUBSET known, Kept(was, is, S)
       PROVE  Cardinality(S) <= Cardinality(stable)
  <2> DEFINE R == {n \in 1..c : nth[n] \in S}
  <2>1. R \in SUBSET (1..c) /\ S = {nth[n] : n \in R}
    BY <1>2
  <2> HIDE DEF R
  <2>2. Increasing(were, R) /\ Cardinality(S) = Cardinality(R)
    BY <1>7, <1>10, <1>12, <2>1
  <2> QED
    BY <1>3, <1>8, <2>1, <2>2
<1> QED
  BY <1>8, <1>11, <1>12 DEF known, stable

\* The lowest of a set of indexes.
LEMMA LowestIndex ==
    ASSUME NEW L \in Nat, NEW S \in SUBSET (1..L), S # {}
    PROVE  D!Min(S) \in S /\ \A y \in S : D!Min(S) <= y
<1>1. S \in SUBSET Nat
  OBVIOUS
<1>2. \E x \in S : \A y \in S : x <= y
  BY <1>1, LowestOf
<1> QED
  BY <1>2 DEF D!Min

\* The section of every slide is one, that of a stable slide is its own, and they are in order.
LEMMA OwnersInOrder ==
    ASSUME NEW old \in Seq(Seq(Nat)), old # <<>>, NEW was \in Seq(Nat), NEW is \in Seq(Nat),
           D!InOrder(old, was), NEW stable \in SUBSET D!Known(old, was, is), Kept(was, is, stable)
    PROVE  LET owner == D!Owner(old, stable, is)
           IN /\ owner \in [1..Len(is) -> 1..Len(old)]
              /\ \A i \in stable : owner[i] = D!SectionOf(old, is[i])
              /\ \A i, j \in 1..Len(is) : i < j => owner[i] <= owner[j]
<1> DEFINE M == Len(is)
           K == Len(old)
           owner == D!Owner(old, stable, is)
           own(i) == D!SectionOf(old, is[i])
           ahead(i) == {j \in stable : j <= i}
           near(i) == IF ahead(i) = {} THEN D!Min(stable) ELSE D!Max(ahead(i))
<1>1. /\ M \in Nat /\ DOMAIN is = 1..M /\ K \in Nat \ {0} /\ DOMAIN old = 1..K
      /\ stable \in SUBSET (1..M)
  BY DEF D!Known
<1>2. ASSUME NEW i \in stable
      PROVE  /\ own(i) \in 1..K /\ is[i] \in D!ToSet(old[own(i)])
             /\ \E p \in DOMAIN was : was[p] = is[i]
  <2>1. is[i] \in D!ToSet(was) /\ is[i] \in D!Listed(old)
    BY DEF D!Known
  <2>2. \E n \in DOMAIN old : is[i] \in D!ToSet(old[n])
    BY <2>1 DEF D!Listed
  <2>3. own(i) \in DOMAIN old /\ is[i] \in D!ToSet(old[own(i)])
    BY <2>2 DEF D!SectionOf
  <2> HIDE DEF own
  <2> QED
    BY <1>1, <2>1, <2>3 DEF D!ToSet
<1>3. owner = [i \in 1..M |-> IF stable = {} THEN 1 ELSE own(near(i))]
  BY <1>1 DEF D!Owner
<1> HIDE DEF own, M, K, owner
<1>4. ASSUME NEW i \in stable, NEW j \in stable, i < j PROVE own(i) <= own(j)
  <2>1. own(i) \in 1..K /\ own(j) \in 1..K
    BY <1>2
  <2>2. PICK p \in DOMAIN was : was[p] = is[i]
    BY <1>2
  <2>3. PICK q \in DOMAIN was : was[q] = is[j]
    BY <1>2
  <2>4. p < q /\ p \in Nat /\ q \in Nat
    BY <1>4, <2>2, <2>3, SMTT(30) DEF Kept
  <2>5. own(j) < own(i) => q < p
    BY <1>1, <1>2, <2>1, <2>2, <2>3 DEF D!InOrder
  <2>6. own(i) \in Nat /\ own(j) \in Nat
    BY <1>1, <2>1
  <2>7. ~ (own(j) < own(i))
    BY <2>4, <2>5
  <2> QED
    BY <2>6, <2>7
<1>5. CASE stable = {}
  <2>1. \A i \in 1..M : owner[i] = 1
    BY <1>3, <1>5
  <2>2. 1 \in 1..K
    BY <1>1
  <2>3. owner \in [1..M -> 1..K]
    BY <1>3, <1>5, <2>2
  <2>4. \A i, j \in 1..M : owner[i] <= owner[j]
    BY <2>1
  <2> QED
    BY <1>5, <2>3, <2>4 DEF M, K, owner
<1>6. CASE stable # {}
  <2>1. ASSUME NEW i \in 1..M
        PROVE  /\ near(i) \in stable
               /\ ahead(i) = {} => \A j \in stable : near(i) <= j
               /\ ahead(i) # {} => near(i) <= i /\ \A j \in ahead(i) : j <= near(i)
    <3>1. CASE ahead(i) = {}
      BY <1>1, <1>6, <3>1, LowestIndex
    <3>2. CASE ahead(i) # {}
      <4>1. ahead(i) \in SUBSET (1..M)
        BY <1>1
      <4>2. D!Max(ahead(i)) \in ahead(i) /\ \A y \in ahead(i) : D!Max(ahead(i)) >= y
        BY <1>1, <3>2, <4>1, HighestIndex
      <4>3. near(i) = D!Max(ahead(i))
        BY <3>2
      <4> HIDE DEF near
      <4>4. \A y \in ahead(i) : y \in Nat
        BY <4>1
      <4> QED
        BY <3>2, <4>2, <4>3, <4>4
    <3> QED
      BY <3>1, <3>2
  <2> HIDE DEF near
  <2>2. \A i \in 1..M : owner[i] = own(near(i))
    BY <1>3, <1>6
  <2>3. owner \in [1..M -> 1..K]
    <3>1. \A i \in 1..M : own(near(i)) \in 1..K
      BY <1>2, <2>1
    <3> QED
      BY <1>3, <1>6, <3>1
  <2>7. \A x \in stable : x \in Nat
    BY <1>1
  <2>4. ASSUME NEW i \in stable PROVE owner[i] = own(i)
    <3>1. i \in 1..M /\ i \in ahead(i)
      BY <1>1
    <3>2. i <= near(i) /\ near(i) <= i /\ near(i) \in Nat
      <4>1. near(i) \in stable /\ ahead(i) # {}
        BY <2>1, <3>1
      <4>2. near(i) <= i /\ i <= near(i)
        BY <2>1, <3>1, <4>1
      <4> QED
        BY <2>7, <4>1, <4>2
    <3>3. near(i) = i
      BY <3>1, <3>2
    <3> QED
      BY <2>2, <3>1, <3>3
  <2>5. ASSUME NEW i \in 1..M, NEW j \in 1..M, i < j PROVE owner[i] <= owner[j]
    <3>1. near(i) \in stable /\ near(j) \in stable /\ near(i) \in Nat /\ near(j) \in Nat
      <4>1. near(i) \in stable /\ near(j) \in stable
        BY <2>1
      <4> QED
        BY <2>7, <4>1
    <3>2. near(i) <= near(j)
      <4>1. CASE ahead(i) = {}
        BY <2>1, <3>1, <4>1
      <4>2. CASE ahead(i) # {}
        <5>1. near(i) <= i
          BY <2>1, <4>2
        <5>2. near(i) \in ahead(j)
          BY <1>1, <2>5, <3>1, <5>1
        <5> QED
          BY <2>1, <5>2
      <4> QED
        BY <4>1, <4>2
    <3>3. own(near(i)) <= own(near(j))
      <4>1. near(i) < near(j) \/ near(i) = near(j)
        BY <3>1, <3>2
      <4>2. own(near(i)) \in 1..K /\ own(near(j)) \in 1..K
        BY <1>2, <3>1
      <4>3. own(near(i)) \in Nat /\ own(near(j)) \in Nat
        BY <1>1, <4>2
      <4> QED
        BY <1>4, <3>1, <4>1, <4>3
    <3> QED
      BY <2>2, <3>3
  <2> QED
    BY <2>3, <2>4, <2>5 DEF M, K, owner, own
<1> QED
  BY <1>5, <1>6

\* Sections that are given to the slides in their order are pieces of that order.
LEMMA OwnersPieces ==
    ASSUME NEW is \in Seq(Nat), Distinct(is), NEW K \in Nat \ {0},
           NEW owner \in [1..Len(is) -> 1..K],
           \A i, j \in 1..Len(is) : i < j => owner[i] <= owner[j]
    PROVE  LET new == D!Divided(is, owner, K)
           IN /\ new \in Seq(Seq(Nat)) /\ DOMAIN new = 1..K /\ D!FlattenSeq(new) = is
              /\ \A i \in 1..Len(is), n \in 1..K : is[i] \in D!ToSet(new[n]) <=> owner[i] = n
<1> DEFINE new == D!Divided(is, owner, K)
           M == Len(is)
           low(n) == {i \in 1..M : owner[i] <= n}
           cut == [n \in 0..K |-> Cardinality(low(n))]
           mine(n) == {i \in 1..M : owner[i] = n}
<1>1. M \in Nat /\ is \in [1..M -> Nat] /\ DOMAIN is = 1..M
  OBVIOUS
<1>0. new = [n \in 1..K |-> D!Picked(is, mine(n))]
  BY <1>1 DEF D!Divided
<1> HIDE DEF new
<1>2. ASSUME NEW n \in 0..K PROVE cut[n] \in 0..M /\ low(n) = 1..cut[n]
  <2>1. low(n) \in SUBSET (1..M)
    OBVIOUS
  <2>2. ASSUME NEW x \in low(n), NEW y \in 1..x PROVE y \in low(n)
    <3>1. x \in 1..M /\ y \in 1..M /\ (y < x \/ y = x) /\ owner[x] <= n
      BY <1>1
    <3>2. owner[x] \in 1..K /\ owner[y] \in 1..K
      BY <3>1
    <3>3. owner[y] <= owner[x]
      BY <3>1, <3>2
    <3>4. owner[y] <= n
      BY <3>1, <3>2, <3>3
    <3> QED
      BY <3>1, <3>4
  <2>3. cut[n] = Cardinality(low(n))
    OBVIOUS
  <2> HIDE DEF low, cut
  <2>4. Cardinality(low(n)) \in 0..M /\ low(n) = 1..Cardinality(low(n))
    BY <1>1, <2>1, <2>2, LowCount
  <2> QED
    BY <2>3, <2>4
<1>3. \A n \in 0..K, i \in 1..M : owner[i] <= n <=> i <= cut[n]
  <2> SUFFICES ASSUME NEW n \in 0..K, NEW i \in 1..M PROVE owner[i] <= n <=> i <= cut[n]
    OBVIOUS
  <2>1. owner[i] <= n <=> i \in low(n)
    OBVIOUS
  <2> HIDE DEF low, cut
  <2>2. i \in low(n) <=> i <= cut[n]
    BY <1>1, <1>2
  <2> QED
    BY <2>1, <2>2
<1> HIDE DEF low
<1>4. cut \in [0..K -> 0..M]
  BY <1>2
<1> HIDE DEF cut
<1>5. cut[0] = 0
  <2>1. cut[0] \in 0..M
    BY <1>4
  <2>2. CASE cut[0] # 0
    <3>1. cut[0] \in 1..M /\ cut[0] <= cut[0] /\ 0 \in 0..K
      BY <1>1, <2>1, <2>2
    <3>2. owner[cut[0]] <= 0
      BY <1>3, <3>1
    <3>3. owner[cut[0]] \in 1..K
      BY <3>1
    <3> QED
      BY <3>2, <3>3
  <2> QED
    BY <2>2
<1>6. cut[K] = M
  <2>1. cut[K] \in 0..M
    BY <1>4
  <2>2. CASE M # 0
    <3>1. M \in 1..M /\ K \in 0..K
      BY <1>1, <2>2
    <3>2. owner[M] <= K
      BY <3>1
    <3>3. M <= cut[K]
      BY <1>3, <3>1, <3>2
    <3> QED
      BY <1>1, <2>1, <3>3
  <2> QED
    BY <1>1, <2>1, <2>2
<1>7. ASSUME NEW n \in 1..K
      PROVE  /\ cut[n - 1] \in 0..M /\ cut[n] \in cut[n - 1]..M
             /\ mine(n) = cut[n - 1] + 1..cut[n]
  <2>1. n - 1 \in 0..K /\ n \in 0..K
    OBVIOUS
  <2>2. cut[n - 1] \in 0..M /\ cut[n] \in 0..M
    BY <1>4, <2>1
  <2>3. cut[n - 1] <= cut[n]
    <3>1. CASE cut[n - 1] # 0
      <4>1. cut[n - 1] \in 1..M /\ cut[n - 1] <= cut[n - 1]
        BY <1>1, <2>2, <3>1
      <4>2. owner[cut[n - 1]] <= n - 1 /\ owner[cut[n - 1]] \in 1..K
        BY <1>3, <2>1, <4>1
      <4>3. owner[cut[n - 1]] <= n
        BY <4>2
      <4> QED
        BY <1>3, <2>1, <4>1, <4>3
    <3> QED
      BY <2>2, <3>1
  <2>4. ASSUME NEW i \in 1..M PROVE owner[i] = n <=> cut[n - 1] < i /\ i <= cut[n]
    <3>1. owner[i] \in 1..K /\ (owner[i] = n <=> owner[i] <= n /\ ~(owner[i] <= n - 1))
      OBVIOUS
    <3>2. (owner[i] <= n <=> i <= cut[n]) /\ (owner[i] <= n - 1 <=> i <= cut[n - 1])
      BY <1>3, <2>1
    <3> QED
      BY <2>2, <3>1, <3>2
  <2>5. cut[n - 1] + 1..cut[n] \subseteq 1..M
    BY <1>1, <2>2
  <2>6. \A i \in 1..M : i \in cut[n - 1] + 1..cut[n] <=> cut[n - 1] < i /\ i <= cut[n]
    BY <1>1, <2>2
  <2>7. mine(n) = cut[n - 1] + 1..cut[n]
    BY <2>4, <2>5, <2>6
  <2> QED
    BY <1>1, <2>2, <2>3, <2>7
<1>8. ASSUME NEW n \in 1..K PROVE new[n] = SubSeq(is, cut[n - 1] + 1, cut[n])
  <2>1. new[n] = D!Picked(is, cut[n - 1] + 1..cut[n])
    BY <1>0, <1>7
  <2> DEFINE a == cut[n - 1]
             b == cut[n]
  <2>2. a \in 0..Len(is) /\ b \in a..Len(is)
    BY <1>7
  <2> HIDE DEF a, b
  <2>3. D!Picked(is, a + 1..b) = SubSeq(is, a + 1, b)
    BY <2>2, PickedInterval
  <2> QED
    BY <2>1, <2>3 DEF a, b
<1>9. new = [n \in 1..K |-> SubSeq(is, cut[n - 1] + 1, cut[n])]
  BY <1>0, <1>8
<1>10. D!FlattenSeq(new) = is
  <2>1. \A n \in 1..K : cut[n - 1] <= cut[n]
    BY <1>1, <1>7
  <2> HIDE DEF M
  <2>2. cut \in [0..K -> 0..Len(is)] /\ cut[K] = Len(is)
    BY <1>4, <1>6 DEF M
  <2>3. D!FlattenSeq([n \in 1..K |-> SubSeq(is, cut[n - 1] + 1, cut[n])]) = is
    BY <1>5, <2>1, <2>2, FlattenPieces
  <2> QED
    BY <1>9, <2>3
<1>11. ASSUME NEW n \in 1..K, NEW i \in 1..M
       PROVE  is[i] \in D!ToSet(new[n]) <=> owner[i] = n
  <2> DEFINE a == cut[n - 1]
             b == cut[n]
             s == new[n]
  <2>1. a \in 0..M /\ b \in a..M /\ s = SubSeq(is, a + 1, b) /\ mine(n) = a + 1..b
    BY <1>7, <1>8
  <2> HIDE DEF a, b, s
  <2>2. s \in Seq(Nat) /\ DOMAIN s = 1..b - a /\ \A k \in 1..b - a : s[k] = is[a + k]
    BY <1>1, <2>1
  <2>3. ASSUME is[i] \in D!ToSet(s) PROVE owner[i] = n
    <3>1. PICK k \in 1..b - a : is[i] = is[a + k]
      BY <2>2, <2>3 DEF D!ToSet
    <3>2. a + k \in a + 1..b /\ a + k \in 1..M
      BY <1>1, <2>1
    <3>3. i = a + k
      BY <1>1, <3>1, <3>2 DEF Distinct
    <3> QED
      BY <2>1, <3>2, <3>3
  <2>4. ASSUME owner[i] = n PROVE is[i] \in D!ToSet(s)
    <3>1. i \in a + 1..b
      BY <2>1, <2>4
    <3>2. i - a \in 1..b - a /\ a + (i - a) = i
      BY <1>1, <2>1, <3>1
    <3>3. s[i - a] = is[i] /\ i - a \in DOMAIN s
      BY <2>2, <3>2
    <3> QED
      BY <3>3 DEF D!ToSet
  <2> QED
    BY <2>3, <2>4 DEF s
<1>12. new \in Seq(Seq(Nat)) /\ DOMAIN new = 1..K
  <2>1. new = [n \in 1..K |-> new[n]]
    BY <1>0
  <2>2. \A n \in 1..K : new[n] \in Seq(Nat)
    <3> SUFFICES ASSUME NEW n \in 1..K PROVE new[n] \in Seq(Nat)
      OBVIOUS
    <3> DEFINE a == cut[n - 1]
               b == cut[n]
    <3>1. a \in 0..M /\ b \in a..M /\ new[n] = SubSeq(is, a + 1, b)
      BY <1>7, <1>8
    <3> HIDE DEF a, b
    <3>2. SubSeq(is, a + 1, b) \in Seq(Nat)
      BY <1>1, <3>1
    <3> QED
      BY <3>1, <3>2
  <2>3. new \in [1..K -> Seq(Nat)]
    BY <2>1, <2>2
  <2> QED
    BY <2>3
<1> QED
  BY <1>10, <1>11, <1>12 DEF new

\* sync_sections: what SectionsFollow asks of an edit of the order of the slides.
LEMMA SyncedFollows ==
    ASSUME NEW old \in Seq(Seq(Nat)), NEW was \in Seq(Nat), NEW is \in Seq(Nat),
           Distinct(was), Distinct(is), D!InOrder(old, was)
    PROVE  LET new == D!Synced(old, was, is)
               kept == D!ToSet(was) \cap D!ToSet(is) \cap D!Listed(old)
               stayed == {id \in kept : D!SectionOf(old, id) = D!SectionOf(new, id)}
           IN /\ new \in Seq(Seq(Nat)) /\ D!InOrder(new, is)
              /\ new # <<>> =>
                   /\ D!FlattenSeq(new) = is
                   /\ \A ids \in D!kSubset(D!Cardinality(stayed) + 1, kept) :
                         ~ \A a, b \in ids : D!Precedes(was, a, b) <=> D!Precedes(is, a, b)
<1> DEFINE new == D!Synced(old, was, is)
           kept == D!ToSet(was) \cap D!ToSet(is) \cap D!Listed(old)
           stayed == {id \in kept : D!SectionOf(old, id) = D!SectionOf(new, id)}
           known == D!Known(old, was, is)
           stable == D!StableOf(known, was, is)
           owner == D!Owner(old, stable, is)
           M == Len(is)
           K == Len(old)
<1>1. CASE old = <<>>
  <2>1. new = <<>>
    BY <1>1 DEF D!Synced
  <2> HIDE DEF new
  <2>2. new \in Seq(Seq(Nat)) /\ D!InOrder(new, is)
    BY <2>1 DEF D!InOrder
  <2> QED
    BY <2>1, <2>2 DEF new
<1>2. CASE old # <<>>
  <2>1. /\ stable \in SUBSET known /\ Kept(was, is, stable)
        /\ \A S \in SUBSET known : Kept(was, is, S) => Cardinality(S) <= Cardinality(stable)
    BY StableSlides
  <2>2. M \in Nat /\ DOMAIN is = 1..M /\ K \in Nat \ {0} /\ DOMAIN old = 1..K
    BY <1>2
  <2>3. \A i \in 1..M : i \in known <=> is[i] \in kept
    BY <2>2 DEF D!Known, D!ToSet
  <2>4. known \in SUBSET (1..M)
    BY <2>2 DEF D!Known
  <2>5. /\ owner \in [1..M -> 1..K] /\ \A i \in stable : owner[i] = D!SectionOf(old, is[i])
        /\ \A i, j \in 1..M : i < j => owner[i] <= owner[j]
    BY <1>2, <2>1, OwnersInOrder
  <2>6. new = D!Divided(is, owner, K)
    BY <1>2 DEF D!Synced
  <2> HIDE DEF known, stable, owner, new
  <2>7. /\ new \in Seq(Seq(Nat)) /\ DOMAIN new = 1..K /\ D!FlattenSeq(new) = is
        /\ \A i \in 1..M, n \in 1..K : is[i] \in D!ToSet(new[n]) <=> owner[i] = n
    <3>1. K \in Nat \ {0} /\ owner \in [1..Len(is) -> 1..K]
      BY <2>2, <2>5
    <3>2. \A i, j \in 1..Len(is) : i < j => owner[i] <= owner[j]
      BY <2>5
    <3> HIDE DEF K
    <3>3. /\ D!Divided(is, owner, K) \in Seq(Seq(Nat)) /\ DOMAIN D!Divided(is, owner, K) = 1..K
          /\ D!FlattenSeq(D!Divided(is, owner, K)) = is
          /\ \A i \in 1..Len(is), n \in 1..K :
                is[i] \in D!ToSet(D!Divided(is, owner, K)[n]) <=> owner[i] = n
      BY <3>1, <3>2, OwnersPieces
    <3> QED
      BY <2>6, <3>3
  <2> HIDE DEF K, M
  <2>9. D!InOrder(new, is)
    <3> SUFFICES ASSUME NEW m \in 1..K, NEW n \in 1..K, NEW i \in 1..M, NEW j \in 1..M, m < n,
                        is[i] \in D!ToSet(new[m]), is[j] \in D!ToSet(new[n])
                 PROVE  i < j
      BY <2>2, <2>7 DEF D!InOrder
    <3>1. owner[i] = m /\ owner[j] = n
      BY <2>7
    <3>2. ~(j < i) /\ i # j
      BY <2>2, <2>5, <3>1
    <3> QED
      BY <2>2, <3>2
  <2>10. ASSUME NEW i \in 1..M PROVE D!SectionOf(new, is[i]) = owner[i]
    <3>1. owner[i] \in DOMAIN new /\ \A n \in DOMAIN new : is[i] \in D!ToSet(new[n]) <=> n = owner[i]
      BY <2>5, <2>7
    <3> QED
      BY <3>1 DEF D!SectionOf
  <2>11. ASSUME NEW i \in stable PROVE is[i] \in stayed
    <3>1. i \in 1..M /\ is[i] \in kept
      BY <2>1, <2>3, <2>4
    <3> QED
      BY <2>5, <2>10, <3>1
  <2> HIDE DEF kept, stayed
  <2>12. IsFiniteSet(1..M) /\ IsFiniteSet(known) /\ IsFiniteSet(stable)
    <3>1. IsFiniteSet(1..M)
      BY <2>2, FS_Interval
    <3>2. IsFiniteSet(known)
      BY <2>4, <3>1, FS_Subset
    <3> QED
      BY <2>1, <3>1, <3>2, FS_Subset
  <2>13. \A i, j \in 1..M : is[i] = is[j] => i = j
    BY <2>2 DEF Distinct
  <2>14. kept \subseteq {is[i] : i \in known} /\ stayed \subseteq kept
    BY <2>2, <2>3 DEF kept, stayed, D!ToSet
  <2>15. IsFiniteSet({is[i] : i \in known})
    <3>1. \A i, j \in known : is[i] = is[j] => i = j
      BY <2>4, <2>13
    <3> QED
      BY <2>12, <3>1, ImageCount
  <2>16. Cardinality(stable) <= Cardinality(stayed) /\ Cardinality(stayed) \in Nat
    <3> DEFINE T == {is[i] : i \in stable}
    <3>0. \A i, j \in stable : is[i] = is[j] => i = j
      BY <2>1, <2>4, <2>13
    <3>1. Cardinality(T) = Cardinality(stable)
      BY <2>12, <3>0, ImageCount
    <3>2. T \subseteq stayed /\ IsFiniteSet(stayed)
      BY <2>11, <2>14, <2>15, FS_Subset
    <3> HIDE DEF T
    <3> QED
      BY <3>1, <3>2, FS_Subset, FS_CardinalityType
  <2>17. ASSUME NEW ids \in SUBSET kept, Cardinality(ids) = Cardinality(stayed) + 1,
                \A a, b \in ids : D!Precedes(was, a, b) <=> D!Precedes(is, a, b)
         PROVE  FALSE
    <3> DEFINE S == {i \in known : is[i] \in ids}
    <3>1. ids = {is[i] : i \in S}
      BY <2>14
    <3>2. IsFiniteSet(S) /\ S \in SUBSET known
      BY <2>12, FS_Subset
    <3>3. Cardinality(S) = Cardinality(ids)
      <4> HIDE DEF S
      <4>1. \A i, j \in S : is[i] = is[j] => i = j
        BY <2>4, <2>13, <3>2
      <4> QED
        BY <3>1, <3>2, <4>1, ImageCount
    <3>4. Kept(was, is, S)
      <4> SUFFICES ASSUME NEW i \in S, NEW j \in S, NEW p \in DOMAIN was, NEW q \in DOMAIN was,
                          i < j, was[p] = is[i], was[q] = is[j]
                   PROVE  p < q
        BY DEF Kept
      <4>1. is[i] \in ids /\ is[j] \in ids /\ i \in DOMAIN is /\ j \in DOMAIN is
        BY <2>2, <2>4
      <4>2. D!Precedes(is, is[i], is[j])
        BY <4>1 DEF D!Precedes
      <4>3. D!Precedes(was, is[i], is[j])
        BY <2>17, <4>1, <4>2
      <4>4. PICK x, y \in DOMAIN was : x < y /\ was[x] = is[i] /\ was[y] = is[j]
        BY <4>3 DEF D!Precedes
      <4>5. x = p /\ y = q
        BY <4>4 DEF Distinct
      <4> QED
        BY <4>4, <4>5
    <3> HIDE DEF S
    <3>5. Cardinality(S) <= Cardinality(stable)
      BY <2>1, <3>2, <3>4
    <3>6. Cardinality(stable) \in Nat
      BY <2>12, FS_CardinalityType
    <3> QED
      BY <2>16, <2>17, <3>3, <3>5, <3>6
  <2>18. \A ids \in D!kSubset(D!Cardinality(stayed) + 1, kept) :
            ids \in SUBSET kept /\ Cardinality(ids) = Cardinality(stayed) + 1
    BY SameCardinality DEF D!kSubset
  <2> QED
    BY <2>7, <2>9, <2>17, <2>18 DEF new, kept, stayed
<1> QED
  BY <1>1, <1>2

\* set_slide_sections: the sections that begin at some slides are pieces of their order.
LEMMA BeginningFollows ==
    ASSUME NEW ids \in Seq(Nat), Distinct(ids), NEW starts \in SUBSET DOMAIN ids,
           starts = {} \/ 1 \in starts
    PROVE  LET new == D!Beginning(starts, ids)
           IN /\ new \in Seq(Seq(Nat)) /\ D!InOrder(new, ids)
              /\ new # <<>> => D!FlattenSeq(new) = ids
<1> DEFINE new == D!Beginning(starts, ids)
           M == Len(ids)
           K == Cardinality(starts)
           nth(n) == D!Nth(starts, n)
           cut == [n \in 0..K |-> IF n = K THEN M ELSE nth(n + 1) - 1]
           rest(n) == {j \in starts : j > nth(n)}
           end(n) == IF rest(n) = {} THEN M ELSE D!Min(rest(n)) - 1
<1>1. M \in Nat /\ DOMAIN ids = 1..M /\ starts \in SUBSET (1..M)
  OBVIOUS
<1>2. /\ IsFiniteSet(starts) /\ K \in Nat
      /\ \A n \in 1..K : nth(n) \in starts /\ Cardinality({j \in starts : j <= nth(n)}) = n
      /\ \A i \in starts : /\ Cardinality({j \in starts : j <= i}) \in 1..K
                           /\ nth(Cardinality({j \in starts : j <= i})) = i
      /\ \A m, n \in 1..K : m < n <=> nth(m) < nth(n)
  BY <1>1, NthOf
<1>3. new = [n \in 1..K |-> SubSeq(ids, nth(n), end(n))]
  BY SameCardinality DEF D!Beginning
<1> HIDE DEF new, nth, K, M
<1>4. \A i \in starts : \E n \in 1..K : nth(n) = i
  BY <1>2
<1>5. CASE starts = {}
  <2>1. K = 0
    BY <1>5, FS_EmptySet DEF K
  <2>2. new = <<>>
    BY <1>3, <2>1
  <2>3. new \in Seq(Seq(Nat)) /\ D!InOrder(new, ids)
    BY <2>2 DEF D!InOrder
  <2> QED
    BY <2>2, <2>3 DEF new
<1>6. CASE 1 \in starts
  <2>1. K \in Nat \ {0} /\ nth(1) = 1
    <3>1. PICK n \in 1..K : nth(n) = 1
      BY <1>4, <1>6
    <3>2. K \in Nat \ {0} /\ 1 \in 1..K
      BY <1>2
    <3>6. \A i \in starts : i \in Nat /\ i >= 1
      BY <1>1
    <3>7. nth(1) \in starts
      BY <1>2, <3>2
    <3>3. nth(1) \in Nat /\ nth(1) >= 1
      BY <3>6, <3>7
    <3>5. 1 < n => nth(1) < nth(n)
      BY <1>2, <3>2
    <3>4. n = 1
      BY <3>1, <3>3, <3>5
    <3> QED
      BY <3>1, <3>2, <3>4
  <2>2. \A n \in 1..K : nth(n) \in 1..M
    BY <1>1, <1>2
  <2>3. ASSUME NEW n \in 1..K PROVE end(n) = IF n = K THEN M ELSE nth(n + 1) - 1
    <3>1. CASE n = K
      <4>1. ASSUME NEW j \in rest(n) PROVE FALSE
        <5>1. PICK k \in 1..K : nth(k) = j
          BY <1>4
        <5>2. n < k
          BY <1>2, <5>1
        <5> QED
          BY <2>1, <3>1, <5>2
      <4>2. rest(n) = {}
        BY <4>1
      <4> QED
        BY <3>1, <4>2
    <3>2. CASE n # K
      <4> DEFINE next == nth(n + 1)
      <4>1. n + 1 \in 1..K /\ n < n + 1
        BY <2>1, <3>2
      <4>2. next \in rest(n)
        BY <1>2, <2>2, <4>1
      <4>3. rest(n) \in SUBSET (1..M)
        BY <1>1
      <4>4. ASSUME NEW j \in rest(n) PROVE next <= j
        <5>1. PICK k \in 1..K : nth(k) = j
          BY <1>4
        <5>2. n < k /\ (k < n + 1 <=> nth(k) < next)
          BY <1>2, <4>1, <5>1
        <5>3. ~(k < n + 1)
          BY <2>1, <5>2
        <5>4. j \in Nat /\ next \in Nat
          BY <1>1, <2>2, <4>1
        <5> QED
          BY <5>1, <5>2, <5>3, <5>4
      <4> HIDE DEF rest, next
      <4>5. D!Min(rest(n)) \in rest(n) /\ \A y \in rest(n) : D!Min(rest(n)) <= y
        BY <1>1, <4>2, <4>3, LowestIndex
      <4>6. \A y \in rest(n) : y \in Nat
        BY <4>3
      <4>7. D!Min(rest(n)) = next
        <5>1. D!Min(rest(n)) \in Nat /\ next \in Nat
          BY <4>2, <4>5, <4>6
        <5>2. next <= D!Min(rest(n)) /\ D!Min(rest(n)) <= next
          BY <4>2, <4>4, <4>5
        <5> QED
          BY <5>1, <5>2
      <4>8. rest(n) # {}
        BY <4>2
      <4> QED
        BY <3>2, <4>7, <4>8 DEF next
    <3> QED
      BY <3>1, <3>2
  <2> HIDE DEF end, rest
  <2>4. cut \in [0..K -> 0..M]
    <3>1. \A n \in 0..K : n # K => n + 1 \in 1..K
      BY <2>1
    <3>2. \A n \in 0..K : n # K => nth(n + 1) \in 1..M
      BY <2>2, <3>1
    <3>3. \A n \in 0..K : n # K => nth(n + 1) - 1 \in 0..M
      BY <1>1, <3>2
    <3> QED
      BY <1>1, <3>3
  <2>5. cut[0] = 0 /\ cut[K] = M
    <3>1. 0 \in 0..K /\ K \in 0..K /\ 0 # K /\ 0 + 1 = 1
      BY <2>1
    <3> QED
      BY <2>1, <3>1
  <2>6. ASSUME NEW n \in 1..K
        PROVE  cut[n - 1] = nth(n) - 1 /\ cut[n] = end(n) /\ nth(n) = cut[n - 1] + 1
    <3>1. n - 1 \in 0..K /\ n \in 0..K /\ n - 1 # K /\ n - 1 + 1 = n
      BY <2>1
    <3>2. cut[n - 1] = nth(n) - 1
      BY <3>1
    <3>3. nth(n) \in Nat
      BY <1>1, <2>2
    <3> QED
      BY <2>3, <3>1, <3>2, <3>3
  <2> HIDE DEF cut
  <2>7. ASSUME NEW m \in 1..K, NEW n \in 1..K, m < n PROVE cut[m] <= cut[n - 1]
    <3>1. m # K /\ m + 1 \in 1..K /\ (m + 1 = n \/ m + 1 < n)
      BY <2>1, <2>7
    <3>2. cut[m] = nth(m + 1) - 1 /\ cut[n - 1] = nth(n) - 1
      BY <2>3, <2>6, <3>1
    <3>3. nth(m + 1) \in Nat /\ nth(n) \in Nat /\ (m + 1 < n => nth(m + 1) < nth(n))
      BY <1>1, <1>2, <2>2, <3>1
    <3> QED
      BY <3>1, <3>2, <3>3
  <2>8. ASSUME NEW n \in 1..K
        PROVE  cut[n - 1] \in 0..M /\ cut[n] \in 0..M /\ cut[n - 1] <= cut[n]
    <3>1. n - 1 \in 0..K /\ n \in 0..K
      BY <2>1
    <3>2. cut[n - 1] \in 0..M /\ cut[n] \in 0..M
      BY <2>4, <3>1
    <3>3. CASE n = K
      BY <1>1, <2>5, <3>2, <3>3
    <3>4. CASE n # K
      <4>1. n + 1 \in 1..K /\ n < n + 1 /\ n + 1 - 1 = n
        BY <2>1, <3>4
      <4>2. cut[n] = nth(n + 1) - 1 /\ cut[n - 1] = nth(n) - 1
        BY <2>6, <4>1
      <4>3. nth(n) < nth(n + 1) /\ nth(n) \in Nat /\ nth(n + 1) \in Nat
        BY <1>1, <1>2, <2>2, <4>1
      <4> QED
        BY <3>2, <4>2, <4>3
    <3> QED
      BY <3>3, <3>4
  <2>9. new = [n \in 1..K |-> SubSeq(ids, cut[n - 1] + 1, cut[n])]
    BY <1>3, <2>6
  <2>10. D!FlattenSeq(new) = ids
    <3>1. cut \in [0..K -> 0..Len(ids)] /\ cut[K] = Len(ids)
      BY <2>4, <2>5 DEF M
    <3>2. \A n \in 1..K : cut[n - 1] <= cut[n]
      BY <2>8
    <3>3. D!FlattenSeq([n \in 1..K |-> SubSeq(ids, cut[n - 1] + 1, cut[n])]) = ids
      BY <2>1, <2>5, <3>1, <3>2, FlattenPieces
    <3> QED
      BY <2>9, <3>3
  <2>11. ASSUME NEW n \in 1..K
         PROVE  /\ new[n] \in Seq(Nat)
                /\ \A i \in 1..M : ids[i] \in D!ToSet(new[n]) => i > cut[n - 1] /\ i <= cut[n]
    <3> DEFINE a == cut[n - 1]
               b == cut[n]
               s == new[n]
    <3>0. s = SubSeq(ids, a + 1, b)
      BY <2>9
    <3>1. a \in 0..M /\ b \in a..M /\ s = SubSeq(ids, a + 1, b)
      BY <1>1, <2>8, <3>0
    <3> HIDE DEF a, b, s
    <3>2. s \in Seq(Nat) /\ DOMAIN s = 1..b - a /\ \A k \in 1..b - a : s[k] = ids[a + k]
      BY <1>1, <3>1 DEF M
    <3>3. ASSUME NEW i \in 1..M, ids[i] \in D!ToSet(s) PROVE i > a /\ i <= b
      <4>1. PICK k \in 1..b - a : ids[i] = ids[a + k]
        BY <3>2, <3>3 DEF D!ToSet
      <4>2. a + k \in a + 1..b /\ a + k \in 1..M
        BY <1>1, <3>1
      <4>3. i = a + k
        BY <1>1, <4>1, <4>2 DEF Distinct
      <4> QED
        BY <1>1, <3>1, <4>2, <4>3
    <3> QED
      BY <3>2, <3>3 DEF a, b, s
  <2>12. DOMAIN new = 1..K /\ new \in Seq(Seq(Nat))
    <3>1. new = [n \in 1..K |-> new[n]]
      BY <2>9
    <3>2. new \in [1..K -> Seq(Nat)]
      BY <2>11, <3>1
    <3> QED
      BY <2>1, <3>2
  <2>13. D!InOrder(new, ids)
    <3> SUFFICES ASSUME NEW m \in 1..K, NEW n \in 1..K, NEW i \in 1..M, NEW j \in 1..M, m < n,
                        ids[i] \in D!ToSet(new[m]), ids[j] \in D!ToSet(new[n])
                 PROVE  i < j
      BY <1>1, <2>12 DEF D!InOrder
    <3>1. i <= cut[m] /\ cut[m] <= cut[n - 1] /\ j > cut[n - 1]
      BY <2>7, <2>11
    <3>2. cut[m] \in Nat /\ cut[n - 1] \in Nat
      BY <1>1, <2>8
    <3> QED
      BY <1>1, <3>1, <3>2
  <2> QED
    BY <2>10, <2>12, <2>13 DEF new
<1> QED
  BY <1>5, <1>6

\* The sections are in the order of the slides.
SectionsInv == deck.sections \in Seq(Seq(Nat)) /\ D!InOrder(deck.sections, D!IdsOf(deck))

\* The identifiers of the slides.
LEMMA IdsDiffer ==
    ASSUME NEW d, NEW r, D!WellFormed(d, r)
    PROVE  D!IdsOf(d) \in Seq(Nat) /\ DOMAIN D!IdsOf(d) = DOMAIN d.order /\ Distinct(D!IdsOf(d))
<1>1. d.order \in Seq(D!Slides(d)) /\ D!SlidesDiffer(d) /\ \A s \in D!Slides(d) : s.id \in Nat
  BY DEF D!WellFormed, D!SlideOf
<1> DEFINE order == d.order
           ids == D!IdsOf(d)
<1>2. order \in Seq(D!Slides(d)) /\ ids = [i \in DOMAIN order |-> order[i].id]
  BY <1>1 DEF D!IdsOf
<1>3. \A i, j \in DOMAIN order : i # j => order[i].id # order[j].id
  BY <1>1 DEF D!SlidesDiffer
<1> HIDE DEF order, ids
<1>4. Len(order) \in Nat /\ DOMAIN order = 1..Len(order) /\ \A i \in DOMAIN order : order[i].id \in Nat
  BY <1>1, <1>2
<1>5. ids \in Seq(Nat) /\ DOMAIN ids = DOMAIN order
  BY <1>2, <1>4
<1>6. Distinct(ids)
  BY <1>2, <1>3 DEF Distinct
<1> QED
  BY <1>5, <1>6 DEF order, ids

\* The order and the sections that a commit leaves.
LEMMA CommitLeaves ==
    ASSUME NEW d, DOMAIN d = {"order", "sections", "data"}, NEW data, NEW source,
           D!Commit(d, data, source)
    PROVE  deck'.order = d.order /\ deck'.sections = d.sections
<1>1. deck' = [d EXCEPT !.data = [p \in D!Parts(d) |-> IF p \in DOMAIN data THEN data[p] ELSE @[p]]]
  BY DEF D!Commit
<1> QED
  BY <1>1

\* After an edit of the order of the slides.
LEMMA OrderFollows ==
    ASSUME DeckInv, DeckInv', SectionsInv, NEW order, NEW data, NEW source,
           D!CommitSlides(order, data, source)
    PROVE  SectionsInv' /\ D!FollowSlides
<1> DEFINE was == D!IdsOf(deck)
           is == D!IdsOf(deck')
           old == deck.sections
           new == deck'.sections
           ids == [i \in DOMAIN order |-> order[i].id]
           d == [deck EXCEPT !.order = order, !.sections = D!Synced(@, was, ids)]
<1>1. D!WellFormed(deck, number) /\ D!WellFormed(deck', number')
  BY DEF DeckInv, D!TypeOK
<1>2. was \in Seq(Nat) /\ Distinct(was) /\ is \in Seq(Nat) /\ Distinct(is)
  BY <1>1, IdsDiffer
<1>3. DOMAIN deck = {"order", "sections", "data"}
  BY <1>1 DEF D!WellFormed
<1>4. D!Commit(d, data, source)
  BY DEF D!CommitSlides
<1>5. DOMAIN d = {"order", "sections", "data"} /\ d.order = order /\ d.sections = D!Synced(old, was, ids)
  BY <1>3
<1> HIDE DEF d, ids, was
<1>6. deck'.order = order /\ new = D!Synced(old, was, ids)
  BY <1>4, <1>5, CommitLeaves
<1>7. is = ids
  BY <1>6 DEF D!IdsOf, ids
<1>8. new = D!Synced(old, was, is)
  BY <1>6, <1>7
<1>9. old \in Seq(Seq(Nat)) /\ D!InOrder(old, was)
  BY DEF SectionsInv, was
<1> DEFINE kept == D!ToSet(was) \cap D!ToSet(is) \cap D!Listed(old)
           stayed == {id \in kept : D!SectionOf(old, id) = D!SectionOf(new, id)}
           most == \A ids1 \in D!kSubset(D!Cardinality(stayed) + 1, kept) :
                      ~ \A a, b \in ids1 : D!Precedes(was, a, b) <=> D!Precedes(is, a, b)
<1> HIDE DEF is, old, new
<1>10. new \in Seq(Seq(Nat)) /\ D!InOrder(new, is) /\ (new # <<>> => D!FlattenSeq(new) = is /\ most)
  <2> DEFINE now == D!Synced(old, was, is)
             alike == {id \in kept : D!SectionOf(old, id) = D!SectionOf(now, id)}
             best == \A ids1 \in D!kSubset(D!Cardinality(alike) + 1, kept) :
                        ~ \A a, b \in ids1 : D!Precedes(was, a, b) <=> D!Precedes(is, a, b)
  <2>1. now \in Seq(Seq(Nat)) /\ D!InOrder(now, is) /\ (now # <<>> => D!FlattenSeq(now) = is /\ best)
    <3> HIDE DEF kept
    <3> QED
      BY ONLY <1>2, <1>9, SyncedFollows DEF kept
  <2>2. now = new
    BY <1>8
  <2> HIDE DEF now
  <2>3. alike = stayed
    BY <2>2
  <2> HIDE DEF alike, stayed, kept
  <2>4. best <=> most
    BY <2>3
  <2> HIDE DEF best, most
  <2> QED
    BY <2>1, <2>2, <2>4
<1>11. D!FollowSlides
  BY <1>10 DEF D!FollowSlides, was, is, old, new
<1> QED
  BY <1>10, <1>11 DEF SectionsInv, is, new

\* After an edit of one slide, which keeps its identifier.
LEMMA SlideFollows ==
    ASSUME DeckInv, SectionsInv, NEW i \in DOMAIN deck.order, NEW s, s.id = deck.order[i].id,
           NEW data, D!CommitSlide(i, s, data)
    PROVE  SectionsInv' /\ D!FollowSlides
<1> DEFINE d == [deck EXCEPT !.order[i] = s]
<1>1. DOMAIN deck = {"order", "sections", "data"}
  BY DEF DeckInv, D!TypeOK, D!WellFormed
<1>2. /\ DOMAIN d = {"order", "sections", "data"} /\ d.order = [deck.order EXCEPT ![i] = s]
      /\ d.sections = deck.sections
  BY <1>1
<1>3. D!Commit(d, data, None)
  BY DEF D!CommitSlide
<1> HIDE DEF d
<1>4. deck'.order = [deck.order EXCEPT ![i] = s] /\ deck'.sections = deck.sections
  BY <1>2, <1>3, CommitLeaves
<1>5. DOMAIN deck'.order = DOMAIN deck.order
  BY <1>4
<1>6. \A k \in DOMAIN deck.order : deck'.order[k].id = deck.order[k].id
  BY <1>4
<1>7. D!IdsOf(deck') = D!IdsOf(deck)
  BY <1>5, <1>6 DEF D!IdsOf
<1> QED
  BY <1>4, <1>7 DEF SectionsInv, D!FollowSlides

\* After the sections were set.
LEMMA BeginningsFollow ==
    ASSUME DeckInv, NEW starts \in SUBSET DOMAIN deck.order, D!SetSlideSections(starts)
    PROVE  SectionsInv' /\ D!FollowSlides
<1> DEFINE was == D!IdsOf(deck)
           wanted == D!Beginning(starts, was)
           d == [deck EXCEPT !.sections = wanted]
<1>1. D!WellFormed(deck, number)
  BY DEF DeckInv, D!TypeOK
<1>2. was \in Seq(Nat) /\ DOMAIN was = DOMAIN deck.order /\ Distinct(was)
  BY <1>1, IdsDiffer
<1>3. DOMAIN deck = {"order", "sections", "data"}
  BY <1>1 DEF D!WellFormed
<1>4. D!Commit(d, <<>>, None) /\ (starts = {} \/ 1 \in starts)
  BY DEF D!SetSlideSections
<1> HIDE DEF wanted, was
<1>5. /\ DOMAIN d = {"order", "sections", "data"} /\ d.order = deck.order /\ d.sections = wanted
  BY <1>3
<1> HIDE DEF d
<1>6. deck'.order = deck.order /\ deck'.sections = wanted
  BY <1>4, <1>5, CommitLeaves
<1>7. D!IdsOf(deck') = was
  BY <1>6 DEF D!IdsOf, was
<1>8. /\ wanted \in Seq(Seq(Nat)) /\ D!InOrder(wanted, was)
      /\ wanted # <<>> => D!FlattenSeq(wanted) = was
  BY <1>2, <1>4, BeginningFollows DEF wanted
<1> QED
  BY <1>6, <1>7, <1>8 DEF SectionsInv, D!FollowSlides, was

\* After every edit.
LEMMA FollowStep ==
    ASSUME DeckInv, SectionsInv, D!Next
    PROVE  SectionsInv' /\ D!FollowSlides
<1>0. DeckInv'
  BY DeckStep
<1>1. ASSUME NEW order, NEW data, NEW source, D!CommitSlides(order, data, source)
      PROVE  SectionsInv' /\ D!FollowSlides
  BY <1>0, <1>1, OrderFollows
<1>2. ASSUME NEW i \in DOMAIN deck.order
      PROVE  "id" \in DOMAIN deck.order[i] /\ D!SlideOf(deck.order[i], number)
  BY DeckFacts DEF D!SlideOf
<1>3. ASSUME NEW i \in DOMAIN deck.order, NEW p, D!CreateSlide(i, p)
      PROVE  SectionsInv' /\ D!FollowSlides
  BY <1>1, <1>3 DEF D!CreateSlide
<1>4. ASSUME NEW i \in DOMAIN deck.order, D!DuplicateSlide(i)
      PROVE  SectionsInv' /\ D!FollowSlides
  BY <1>1, <1>4 DEF D!DuplicateSlide
<1>5. ASSUME NEW i \in DOMAIN deck.order, D!DeleteSlide(i)
      PROVE  SectionsInv' /\ D!FollowSlides
  BY <1>1, <1>5 DEF D!DeleteSlide
<1>6. ASSUME NEW i, NEW j, D!ReuseSlide(i, j)
      PROVE  SectionsInv' /\ D!FollowSlides
  BY <1>1, <1>6 DEF D!ReuseSlide
<1>7. ASSUME NEW p, D!ReorderSlides(p)
      PROVE  SectionsInv' /\ D!FollowSlides
  BY <1>1, <1>7 DEF D!ReorderSlides
<1>8. ASSUME NEW i \in DOMAIN deck.order, D!ReplaceSpeakerNotes(i)
      PROVE  SectionsInv' /\ D!FollowSlides
  BY <1>8, SlideFollows DEF D!ReplaceSpeakerNotes
<1>9. ASSUME NEW i \in DOMAIN deck.order, D!ReplacePictureImage(i)
      PROVE  SectionsInv' /\ D!FollowSlides
  <2> DEFINE s == deck.order[i]
             t == [s EXCEPT !.picture = D!ImagePart(s)]
  <2>1. t.id = s.id
    BY <1>2
  <2>2. PICK data : D!CommitSlide(i, t, data)
    BY <1>9 DEF D!ReplacePictureImage
  <2> HIDE DEF t
  <2> QED
    BY <2>1, <2>2, SlideFollows
<1>10. ASSUME NEW i \in DOMAIN deck.order, D!ReplaceChartData(i)
       PROVE  SectionsInv' /\ D!FollowSlides
  <2> DEFINE s == deck.order[i]
             t == [s EXCEPT !.chart = D!Name("chart", D!New, s.id)]
  <2>1. t.id = s.id
    BY <1>2
  <2>2. PICK data : D!CommitSlide(i, t, data)
    BY <1>10 DEF D!ReplaceChartData
  <2> HIDE DEF t
  <2> QED
    BY <2>1, <2>2, SlideFollows
<1>11. ASSUME NEW i \in DOMAIN deck.order, NEW j, D!SetLink(i, j)
       PROVE  SectionsInv' /\ D!FollowSlides
  <2> DEFINE s == deck.order[i]
             t(l) == [s EXCEPT !.link = l]
  <2>1. \A l : t(l).id = s.id
    BY <1>2
  <2>2. PICK l : D!CommitSlide(i, t(l), <<>>)
    BY <1>11 DEF D!SetLink
  <2> HIDE DEF t
  <2> QED
    BY <2>1, <2>2, SlideFollows
<1>12. ASSUME NEW starts \in SUBSET DOMAIN deck.order, D!SetSlideSections(starts)
       PROVE  SectionsInv' /\ D!FollowSlides
  BY <1>12, BeginningsFollow
<1> QED
  BY <1>3, <1>4, <1>5, <1>6, <1>7, <1>8, <1>9, <1>10, <1>11, <1>12 DEF D!Next

\* After any edit of the slides the sections list every slide once and in the order of the
\* slides, and no more slides have changed section than must have: what sync_sections promises,
\* for any sections and edits of presentations of any size (slide_sections.py:42-114, 225-357).
THEOREM SectionsAlwaysFollow == D!Spec => SectionsFollow
<1>1. D!Init => SectionsInv
  BY DeckAssumed DEF D!Init, D!DeckAssumption, SectionsInv
<1>2. DeckInv /\ SectionsInv /\ [D!Next]_(D!vars) => SectionsInv' /\ [D!FollowSlides]_(D!vars)
  <2>1. CASE UNCHANGED D!vars
    BY <2>1 DEF D!vars, SectionsInv
  <2> QED
    BY <2>1, FollowStep
<1> QED
  BY <1>1, <1>2, DeckInvariant, PTL DEF D!Spec, SectionsFollow, D!SectionsFollow
=============================================================================
