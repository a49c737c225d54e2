--------------------------- MODULE RetrievalProofs ---------------------------
(***************************************************************************)
(* The safety properties of Retrieval that its run checks, for any         *)
(* contents, workers, rebuilds and failures. The inductive invariant adds  *)
(* what a rebuild has written before its transaction, that queries and     *)
(* cached counts are of generations that have been active, that a matrix   *)
(* in use is the one of its query's generation, and what each step of a    *)
(* rebuild may leave on the disk.                                          *)
(***************************************************************************)
EXTENDS Retrieval, FiniteSetTheorems, TLAPS

USE DEF content, index, disk, caches, queries, history, None

\* Only generations that have been active are counted or queried.
OnlyActivated ==
    /\ DOMAIN counts \subseteq 1..active
    /\ \A w \in Workers : gen[w] <= active /\ (wpc[w] # "idle" => gen[w] # None)

\* Before the transaction of a rebuild the new generation is not the active one, and
\* row i of its matrix is the vector of the i-th current entity.
MatrixIsOfCurrent ==
    cpc \in {"staged", "written"} =>
        /\ active < New
        /\ \A i \in DOMAIN Order : i \in DOMAIN vectors[New] /\ vectors[New][i] = Order[i]
        /\ cpc = "written" => New \in files

\* A query searches, and joins, with the matrix of its own generation.
MatrixIsOfQuery ==
    \A w \in Workers : wpc[w] \in {"search", "join"} => matrix[w] = gen[w]

\* A count that a worker is about to store is true, too.
CountsInHand ==
    ~changed => \A w \in Workers :
        wpc[w] = "store" /\ gen[w] = active => count[w] = MappedCurrent(active)

\* What may be on the disk at each step of a rebuild, unless a clean-up was missed.
Tidy ==
    ~residue =>
        /\ cpc \notin {"activated", "clean"} =>
             files \subseteq {active} \cup (IF cpc = "written" THEN {New} ELSE {})
        /\ staging \subseteq IF cpc = "staged" THEN {New} ELSE {}

IndexInv ==
    /\ TypeOK /\ OnlyActivated /\ MatrixIsOfCurrent /\ MatrixIsOfQuery
    /\ CountsInHand /\ Tidy /\ IndexSurvives /\ RebuildRepairsCount

-----------------------------------------------------------------------------
\* The order of a rebuild lists every current entity, each once.
LEMMA OrderEnumerates ==
    ASSUME TypeOK
    PROVE  /\ Order \in Seq(Current) /\ Current \subseteq Entities
           /\ \A e \in Current : \E i \in DOMAIN Order : Order[i] = e
<1>1. Current \subseteq Entities /\ IsFiniteSet(Current)
  BY RetrievalAssumption, FS_Subset DEF TypeOK, Current, Entities
<1> DEFINE n == Cardinality(Current)
<1>2. n \in Nat /\ ExistsBijection(1..n, Current)
  BY <1>1, FS_CardinalityType
<1>3. PICK b \in Bijection(1..n, Current) : TRUE
  BY <1>2 DEF ExistsBijection
<1>4. b \in [1..n -> Current] /\ IsInjective(b)
  BY <1>3 DEF Bijection, Injection, IsInjective
<1>5. Order \in [1..n -> Current] /\ IsInjective(Order)
  BY <1>4 DEF Order, SetToSeq
<1>6. IsFiniteSet(1..n) /\ Cardinality(1..n) = n
  BY <1>2, FS_Interval
<1>7. Order \in Surjection(1..n, Current)
  BY <1>1, <1>5, <1>6, FS_Injection DEF Injection, IsInjective
<1> QED
  BY <1>1, <1>2, <1>5, <1>7 DEF Surjection

\* Row i of a new matrix is the vector of the i-th current entity, also where it is
\* taken from the active matrix.
LEMMA VectorsOfCurrent ==
    ASSUME TypeOK, IndexSurvives
    PROVE  /\ NewVectors \in Seq(Entities)
           /\ \A i \in DOMAIN Order : i \in DOMAIN NewVectors /\ NewVectors[i] = Order[i]
<1>1. Order \in Seq(Entities)
  BY OrderEnumerates
<1>2. active \in files => active # None
  BY DEF TypeOK
<1>3. \A i \in DOMAIN Order : NewVectors[i] = Order[i]
  BY <1>2 DEF NewVectors, IndexSurvives
<1>4. DOMAIN NewVectors = DOMAIN Order
  BY DEF NewVectors
<1>5. NewVectors = Order
  BY <1>1, <1>3, <1>4 DEF NewVectors
<1> QED
  BY <1>1, <1>5

\* The mappings of a new generation name, for each current entity, its row.
LEMMA RowsOfCurrent ==
    ASSUME TypeOK
    PROVE  /\ DOMAIN NewRows = Current
           /\ \A e \in Current : NewRows[e] \in DOMAIN Order /\ Order[NewRows[e]] = e
BY OrderEnumerates DEF NewRows

-----------------------------------------------------------------------------
\* A worker whose query is over holds nothing, and its variables keep their types.
LEMMA UnreadTyped ==
    ASSUME TypeOK, NEW w \in Workers, Unread(w), UNCHANGED vectors
    PROVE  /\ gen' \in [Workers -> 0..Len(vectors')]
           /\ matrix' \in [Workers -> 0..Len(vectors')]
           /\ DOMAIN count' = Workers /\ DOMAIN scored' = Workers
<1>1. 0 \in 0..Len(vectors)
  BY DEF TypeOK
<1>2. gen' \in [Workers -> 0..Len(vectors)] /\ matrix' \in [Workers -> 0..Len(vectors)]
  BY <1>1 DEF TypeOK, Unread, None
<1>3. DOMAIN count' = Workers /\ DOMAIN scored' = Workers
  BY DEF TypeOK, Unread
<1> QED
  BY <1>2, <1>3

\* The initial state satisfies the invariant.
LEMMA IndexInit == Init => IndexInv
<1> SUFFICES ASSUME Init PROVE IndexInv
  OBVIOUS
<1>1. TypeOK
  BY RetrievalAssumption DEF Init, TypeOK
<1>2. OnlyActivated
  BY DEF Init, OnlyActivated
<1> QED
  BY <1>1, <1>2 DEF Init, IndexInv, MatrixIsOfCurrent, MatrixIsOfQuery, CountsInHand,
     Tidy, IndexSurvives, RebuildRepairsCount

\* Every step keeps the invariant.
LEMMA IndexStep == IndexInv /\ [Next]_vars => IndexInv'
<1> SUFFICES ASSUME IndexInv, [Next]_vars PROVE IndexInv'
  OBVIOUS
<1> USE RetrievalAssumption DEF IndexInv
<1>1. ASSUME NEW r \in Revisions, EditPresentation(r) PROVE IndexInv'
  <2>1. TypeOK'
    BY <1>1 DEF EditPresentation, ContentChanges, TypeOK
  <2>2. OnlyActivated'
    BY <1>1 DEF EditPresentation, ContentChanges, OnlyActivated
  <2>3. MatrixIsOfCurrent'
    BY <1>1 DEF EditPresentation, ContentChanges, MatrixIsOfCurrent
  <2>4. MatrixIsOfQuery'
    BY <1>1 DEF EditPresentation, ContentChanges, MatrixIsOfQuery
  <2>5. CountsInHand'
    BY <1>1 DEF EditPresentation, ContentChanges, CountsInHand
  <2>6. Tidy'
    BY <1>1 DEF EditPresentation, ContentChanges, Tidy
  <2>7. IndexSurvives'
    BY <1>1 DEF EditPresentation, ContentChanges, IndexSurvives
  <2>8. RebuildRepairsCount'
    BY <1>1 DEF EditPresentation, ContentChanges, RebuildRepairsCount
  <2> QED
    BY <2>1, <2>2, <2>3, <2>4, <2>5, <2>6, <2>7, <2>8
<1>2. ASSUME NEW r \in Revisions, MoveHead(r) PROVE IndexInv'
  <2>1. TypeOK'
    BY <1>2 DEF MoveHead, ContentChanges, TypeOK
  <2>2. OnlyActivated'
    BY <1>2 DEF MoveHead, ContentChanges, OnlyActivated
  <2>3. MatrixIsOfCurrent'
    BY <1>2 DEF MoveHead, ContentChanges, MatrixIsOfCurrent
  <2>4. MatrixIsOfQuery'
    BY <1>2 DEF MoveHead, ContentChanges, MatrixIsOfQuery
  <2>5. CountsInHand'
    BY <1>2 DEF MoveHead, ContentChanges, CountsInHand
  <2>6. Tidy'
    BY <1>2 DEF MoveHead, ContentChanges, Tidy
  <2>7. IndexSurvives'
    BY <1>2 DEF MoveHead, ContentChanges, IndexSurvives
  <2>8. RebuildRepairsCount'
    BY <1>2 DEF MoveHead, ContentChanges, RebuildRepairsCount
  <2> QED
    BY <2>1, <2>2, <2>3, <2>4, <2>5, <2>6, <2>7, <2>8
<1>3. CASE ReindexPresentation
  <2>1. TypeOK'
    BY <1>3 DEF ReindexPresentation, ContentChanges, TypeOK
  <2>2. OnlyActivated'
    BY <1>3 DEF ReindexPresentation, ContentChanges, OnlyActivated
  <2>3. MatrixIsOfCurrent'
    BY <1>3 DEF ReindexPresentation, ContentChanges, MatrixIsOfCurrent
  <2>4. MatrixIsOfQuery'
    BY <1>3 DEF ReindexPresentation, ContentChanges, MatrixIsOfQuery
  <2>5. CountsInHand'
    BY <1>3 DEF ReindexPresentation, ContentChanges, CountsInHand
  <2>6. Tidy'
    BY <1>3 DEF ReindexPresentation, ContentChanges, Tidy
  <2>7. IndexSurvives'
    BY <1>3 DEF ReindexPresentation, ContentChanges, IndexSurvives
  <2>8. RebuildRepairsCount'
    BY <1>3 DEF ReindexPresentation, ContentChanges, RebuildRepairsCount
  <2> QED
    BY <2>1, <2>2, <2>3, <2>4, <2>5, <2>6, <2>7, <2>8
<1>4. ASSUME NEW d \in Documents, ImportDocument(d) PROVE IndexInv'
  <2>1. TypeOK'
    BY <1>4 DEF ImportDocument, ContentChanges, TypeOK
  <2>2. OnlyActivated'
    BY <1>4 DEF ImportDocument, ContentChanges, OnlyActivated
  <2>3. MatrixIsOfCurrent'
    BY <1>4 DEF ImportDocument, ContentChanges, MatrixIsOfCurrent
  <2>4. MatrixIsOfQuery'
    BY <1>4 DEF ImportDocument, ContentChanges, MatrixIsOfQuery
  <2>5. CountsInHand'
    BY <1>4 DEF ImportDocument, ContentChanges, CountsInHand
  <2>6. Tidy'
    BY <1>4 DEF ImportDocument, ContentChanges, Tidy
  <2>7. IndexSurvives'
    BY <1>4 DEF ImportDocument, ContentChanges, IndexSurvives
  <2>8. RebuildRepairsCount'
    BY <1>4 DEF ImportDocument, ContentChanges, RebuildRepairsCount
  <2> QED
    BY <2>1, <2>2, <2>3, <2>4, <2>5, <2>6, <2>7, <2>8
<1>5. ASSUME NEW d \in Documents, DeleteDocument(d) PROVE IndexInv'
  <2>1. TypeOK'
    BY <1>5 DEF DeleteDocument, ContentChanges, Unmap, TypeOK
  <2>2. OnlyActivated'
    BY <1>5 DEF DeleteDocument, ContentChanges, OnlyActivated
  <2>3. MatrixIsOfCurrent'
    BY <1>5 DEF DeleteDocument, ContentChanges, MatrixIsOfCurrent
  <2>4. MatrixIsOfQuery'
    BY <1>5 DEF DeleteDocument, ContentChanges, MatrixIsOfQuery
  <2>5. CountsInHand'
    BY <1>5 DEF DeleteDocument, ContentChanges, CountsInHand
  <2>6. Tidy'
    BY <1>5 DEF DeleteDocument, ContentChanges, Tidy
  <2>7. IndexSurvives'
    BY <1>5 DEF DeleteDocument, ContentChanges, Unmap, IndexSurvives
  <2>8. RebuildRepairsCount'
    BY <1>5 DEF DeleteDocument, ContentChanges, RebuildRepairsCount
  <2> QED
    BY <2>1, <2>2, <2>3, <2>4, <2>5, <2>6, <2>7, <2>8
<1>6. ASSUME NEW k \in Items, DeleteItem(k) PROVE IndexInv'
  <2>1. TypeOK'
    BY <1>6 DEF DeleteItem, ContentChanges, Unmap, TypeOK
  <2>2. OnlyActivated'
    BY <1>6 DEF DeleteItem, ContentChanges, OnlyActivated
  <2>3. MatrixIsOfCurrent'
    BY <1>6 DEF DeleteItem, ContentChanges, MatrixIsOfCurrent
  <2>4. MatrixIsOfQuery'
    BY <1>6 DEF DeleteItem, ContentChanges, MatrixIsOfQuery
  <2>5. CountsInHand'
    BY <1>6 DEF DeleteItem, ContentChanges, CountsInHand
  <2>6. Tidy'
    BY <1>6 DEF DeleteItem, ContentChanges, Tidy
  <2>7. IndexSurvives'
    BY <1>6 DEF DeleteItem, ContentChanges, Unmap, IndexSurvives
  <2>8. RebuildRepairsCount'
    BY <1>6 DEF DeleteItem, ContentChanges, RebuildRepairsCount
  <2> QED
    BY <2>1, <2>2, <2>3, <2>4, <2>5, <2>6, <2>7, <2>8
<1>7. ASSUME NEW k \in Items, ConfirmItem(k) PROVE IndexInv'
  <2>1. TypeOK'
    BY <1>7 DEF ConfirmItem, ContentChanges, Unmap, TypeOK
  <2>2. OnlyActivated'
    BY <1>7 DEF ConfirmItem, ContentChanges, OnlyActivated
  <2>3. MatrixIsOfCurrent'
    BY <1>7 DEF ConfirmItem, ContentChanges, MatrixIsOfCurrent
  <2>4. MatrixIsOfQuery'
    BY <1>7 DEF ConfirmItem, ContentChanges, MatrixIsOfQuery
  <2>5. CountsInHand'
    BY <1>7 DEF ConfirmItem, ContentChanges, CountsInHand
  <2>6. Tidy'
    BY <1>7 DEF ConfirmItem, ContentChanges, Tidy
  <2>7. IndexSurvives'
    BY <1>7 DEF ConfirmItem, ContentChanges, Unmap, IndexSurvives
  <2>8. RebuildRepairsCount'
    BY <1>7 DEF ConfirmItem, ContentChanges, RebuildRepairsCount
  <2> QED
    BY <2>1, <2>2, <2>3, <2>4, <2>5, <2>6, <2>7, <2>8
<1>8. CASE Forget
  <2>1. TypeOK'
    BY <1>8 DEF Forget, TypeOK
  <2>2. OnlyActivated'
    BY <1>8 DEF Forget, OnlyActivated
  <2>3. MatrixIsOfCurrent'
    BY <1>8 DEF Forget, MatrixIsOfCurrent
  <2>4. MatrixIsOfQuery'
    BY <1>8 DEF Forget, MatrixIsOfQuery
  <2>5. CountsInHand'
    BY <1>8 DEF Forget, CountsInHand, MappedCurrent, MappingsOf, Current
  <2>6. Tidy'
    BY <1>8 DEF Forget, Tidy
  <2>7. IndexSurvives'
    BY <1>8 DEF Forget, IndexSurvives
  <2>8. RebuildRepairsCount'
    BY <1>8 DEF Forget, RebuildRepairsCount
  <2> QED
    BY <2>1, <2>2, <2>3, <2>4, <2>5, <2>6, <2>7, <2>8
<1>9. CASE ForgetAndSync
  <2>1. TypeOK'
    BY <1>9 DEF ForgetAndSync, TypeOK
  <2>2. OnlyActivated'
    BY <1>9 DEF ForgetAndSync, OnlyActivated
  <2>3. MatrixIsOfCurrent'
    BY <1>9 DEF ForgetAndSync, MatrixIsOfCurrent
  <2>4. MatrixIsOfQuery'
    BY <1>9 DEF ForgetAndSync, MatrixIsOfQuery
  <2>5. CountsInHand'
    BY <1>9 DEF ForgetAndSync, CountsInHand, MappedCurrent, MappingsOf, Current
  <2>6. Tidy'
    BY <1>9 DEF ForgetAndSync, Tidy
  <2>7. IndexSurvives'
    BY <1>9 DEF ForgetAndSync, IndexSurvives
  <2>8. RebuildRepairsCount'
    BY <1>9 DEF ForgetAndSync, RebuildRepairsCount
  <2> QED
    BY <2>1, <2>2, <2>3, <2>4, <2>5, <2>6, <2>7, <2>8
<1>10. CASE Health
  <2>1. TypeOK'
    BY <1>10 DEF Health, CleanUp, LoadedActive, Cached, TypeOK
  <2>2. OnlyActivated'
    BY <1>10 DEF Health, Cached, OnlyActivated, TypeOK
  <2>3. MatrixIsOfCurrent'
    BY <1>10 DEF Health, MatrixIsOfCurrent
  <2>4. MatrixIsOfQuery'
    BY <1>10 DEF Health, MatrixIsOfQuery
  <2>5. CountsInHand'
    BY <1>10 DEF Health, CountsInHand, MappedCurrent, MappingsOf, Current
  <2>6. Tidy'
    BY <1>10 DEF Health, CleanUp, Tidy
  <2>7. IndexSurvives'
    BY <1>10 DEF Health, CleanUp, IndexSurvives
  <2>8. RebuildRepairsCount'
    BY <1>10 DEF Health, Cached, RebuildRepairsCount, MappedCurrent, MappingsOf, Current
  <2> QED
    BY <2>1, <2>2, <2>3, <2>4, <2>5, <2>6, <2>7, <2>8
<1>11. CASE StartRebuild
  <2>1. TypeOK'
    BY <1>11 DEF StartRebuild, TypeOK
  <2>2. OnlyActivated'
    BY <1>11 DEF StartRebuild, OnlyActivated
  <2>3. MatrixIsOfCurrent'
    BY <1>11 DEF StartRebuild, MatrixIsOfCurrent
  <2>4. MatrixIsOfQuery'
    BY <1>11 DEF StartRebuild, MatrixIsOfQuery
  <2>5. CountsInHand'
    BY <1>11 DEF StartRebuild, CountsInHand, MappedCurrent, MappingsOf, Current
  <2>6. Tidy'
    BY <1>11 DEF StartRebuild, Tidy
  <2>7. IndexSurvives'
    BY <1>11 DEF StartRebuild, IndexSurvives
  <2>8. RebuildRepairsCount'
    BY <1>11 DEF StartRebuild, RebuildRepairsCount, MappedCurrent, MappingsOf, Current
  <2> QED
    BY <2>1, <2>2, <2>3, <2>4, <2>5, <2>6, <2>7, <2>8
<1>12. CASE RebuildUnavailable
  <2>1. TypeOK'
    BY <1>12 DEF RebuildUnavailable, RebuildFails, LoadedActive, TypeOK
  <2>2. OnlyActivated'
    BY <1>12 DEF RebuildUnavailable, OnlyActivated
  <2>3. MatrixIsOfCurrent'
    BY <1>12 DEF RebuildUnavailable, RebuildFails, MatrixIsOfCurrent
  <2>4. MatrixIsOfQuery'
    BY <1>12 DEF RebuildUnavailable, MatrixIsOfQuery
  <2>5. CountsInHand'
    BY <1>12 DEF RebuildUnavailable, CountsInHand, MappedCurrent, MappingsOf, Current
  <2>6. Tidy'
    BY <1>12 DEF RebuildUnavailable, Tidy
  <2>7. IndexSurvives'
    BY <1>12 DEF RebuildUnavailable, IndexSurvives
  <2>8. RebuildRepairsCount'
    BY <1>12 DEF RebuildUnavailable, RebuildRepairsCount, MappedCurrent, MappingsOf,
       Current
  <2> QED
    BY <2>1, <2>2, <2>3, <2>4, <2>5, <2>6, <2>7, <2>8
<1>13. CASE StageMatrix
  <2>1. TypeOK'
    <3> DEFINE n == Len(vectors)
    <3>1. vectors' \in Seq(Seq(Entities)) /\ Len(vectors') = n + 1
      <4>1. vectors \in Seq(Seq(Entities)) /\ NewVectors \in Seq(Entities)
        BY VectorsOfCurrent DEF TypeOK
      <4>2. vectors' = Append(vectors, NewVectors)
        BY <1>13 DEF StageMatrix
      <4> QED
        BY <4>1, <4>2
    <3>2. n + 1 <= MaxGenerations /\ n \in Nat
      BY <1>13, <3>1 DEF StageMatrix
    <3>3. loaded' \in 0..n /\ staging' \subseteq 1..(n + 1)
      <4>1. loaded' \in {active, None} /\ staging' = staging \cup {n + 1}
        BY <1>13 DEF StageMatrix, LoadedActive
      <4>2. active \in 0..n /\ staging \subseteq 1..n
        BY DEF TypeOK
      <4> HIDE DEF n
      <4> QED
        BY <3>2, <4>1, <4>2
    <3>4. /\ active \in 0..n /\ files \subseteq 1..n /\ DOMAIN counts \subseteq 1..n
          /\ gen \in [Workers -> 0..n] /\ matrix \in [Workers -> 0..n]
      BY DEF TypeOK
    <3> HIDE DEF n
    <3>5. 0..n \subseteq 0..(n + 1) /\ 1..n \subseteq 1..(n + 1)
      BY <3>2
    <3>6. gen \in [Workers -> 0..(n + 1)] /\ matrix \in [Workers -> 0..(n + 1)]
      BY <3>4, <3>5
    <3> QED
      BY <1>13, <3>1, <3>2, <3>3, <3>4, <3>5, <3>6 DEF StageMatrix, TypeOK
  <2>2. OnlyActivated'
    BY <1>13 DEF StageMatrix, OnlyActivated
  <2>3. MatrixIsOfCurrent'
    <3>1. Order' = Order
      BY <1>13 DEF StageMatrix, Order, Current
    <3>2. New' = New + 1 /\ vectors'[New'] = NewVectors /\ active <= New /\ New \in Nat
          /\ active \in Nat
      BY <1>13, VectorsOfCurrent DEF StageMatrix, New, TypeOK
    <3>3. cpc' = "staged" /\ active' = active
      BY <1>13 DEF StageMatrix
    <3> QED
      BY <3>1, <3>2, <3>3, VectorsOfCurrent DEF MatrixIsOfCurrent
  <2>4. MatrixIsOfQuery'
    BY <1>13 DEF StageMatrix, MatrixIsOfQuery
  <2>5. CountsInHand'
    BY <1>13 DEF StageMatrix, CountsInHand, MappedCurrent, MappingsOf, Current
  <2>6. Tidy'
    <3>1. New' = Len(vectors) + 1
      BY <1>13, VectorsOfCurrent DEF StageMatrix, New
    <3> QED
      BY <1>13, <3>1 DEF StageMatrix, Tidy
  <2>7. IndexSurvives'
    BY <1>13, VectorsOfCurrent DEF StageMatrix, IndexSurvives, TypeOK
  <2>8. RebuildRepairsCount'
    BY <1>13 DEF StageMatrix, RebuildRepairsCount, MappedCurrent, MappingsOf, Current
  <2> QED
    BY <2>1, <2>2, <2>3, <2>4, <2>5, <2>6, <2>7, <2>8
<1>14. CASE ReplaceFile
  <2>1. TypeOK'
    <3>1. New \in 1..Len(vectors)
      BY <1>14 DEF ReplaceFile, TypeOK, New, MatrixIsOfCurrent
    <3>2. cpc' \in {"written", "idle"} /\ files' \subseteq files \cup {New} /\ staging' \subseteq staging
      BY <1>14 DEF ReplaceFile, RebuildFails
    <3> QED
      BY <1>14, <3>1, <3>2 DEF ReplaceFile, TypeOK
  <2>2. OnlyActivated'
    BY <1>14 DEF ReplaceFile, OnlyActivated
  <2>3. MatrixIsOfCurrent'
    BY <1>14 DEF ReplaceFile, RebuildFails, MatrixIsOfCurrent, Order, Current, New
  <2>4. MatrixIsOfQuery'
    BY <1>14 DEF ReplaceFile, MatrixIsOfQuery
  <2>5. CountsInHand'
    BY <1>14 DEF ReplaceFile, CountsInHand, MappedCurrent, MappingsOf, Current
  <2>6. Tidy'
    BY <1>14 DEF ReplaceFile, Tidy, New
  <2>7. IndexSurvives'
    BY <1>14 DEF ReplaceFile, IndexSurvives
  <2>8. RebuildRepairsCount'
    BY <1>14 DEF ReplaceFile, RebuildRepairsCount, MappedCurrent, MappingsOf, Current
  <2> QED
    BY <2>1, <2>2, <2>3, <2>4, <2>5, <2>6, <2>7, <2>8
<1>15. CASE Activate
  <2> DEFINE commits == /\ active' = New /\ rowOf' = NewRows /\ ~changed'
                        /\ cpc' = "activated" /\ UNCHANGED <<files, faults>>
             fails == /\ cpc' = "idle" /\ files' = files \ {New} /\ Fault("commit")
                      /\ UNCHANGED <<index, changed>>
  <2> SUFFICES ASSUME commits \/ fails PROVE IndexInv'
    BY <1>15 DEF Activate, RebuildFails, WithoutNew, NoFault
  <2>0. /\ cpc = "written" /\ UNCHANGED <<content, vectors, staging, caches, queries, residue>>
        /\ New \in 1..Len(vectors) /\ New = Len(vectors) /\ New \in files /\ active < New
    BY <1>15 DEF Activate, MatrixIsOfCurrent, New, TypeOK
  <2>1. TypeOK'
    <3>1. cpc' \in {"activated", "idle"} /\ active' \in 0..Len(vectors) /\ files' \subseteq files
      BY <2>0 DEF TypeOK
    <3>2. DOMAIN rowOf' \subseteq Entities
      BY <2>0, RowsOfCurrent, OrderEnumerates DEF TypeOK
    <3> QED
      BY <2>0, <3>1, <3>2 DEF TypeOK
  <2>2. OnlyActivated'
    BY <2>0 DEF OnlyActivated, TypeOK
  <2>3. MatrixIsOfCurrent'
    BY DEF MatrixIsOfCurrent
  <2>4. MatrixIsOfQuery'
    BY <2>0 DEF MatrixIsOfQuery
  <2>5. CountsInHand'
    <3>1. CASE commits
      BY <2>0, <3>1 DEF CountsInHand, OnlyActivated, TypeOK
    <3>2. CASE fails
      BY <2>0, <3>2 DEF CountsInHand, MappedCurrent, MappingsOf, Current
    <3> QED
      BY <3>1, <3>2
  <2>6. Tidy'
    BY <2>0 DEF Tidy
  <2>7. IndexSurvives'
    <3>1. CASE commits
      BY <2>0, <3>1, RowsOfCurrent, OrderEnumerates DEF IndexSurvives, MatrixIsOfCurrent
    <3>2. CASE fails
      BY <2>0, <3>2 DEF IndexSurvives
    <3> QED
      BY <3>1, <3>2
  <2>8. RebuildRepairsCount'
    <3>1. CASE commits
      BY <2>0, <3>1 DEF RebuildRepairsCount, OnlyActivated, TypeOK
    <3>2. CASE fails
      BY <2>0, <3>2 DEF RebuildRepairsCount, MappedCurrent, MappingsOf, Current
    <3> QED
      BY <3>1, <3>2
  <2> QED
    BY <2>1, <2>2, <2>3, <2>4, <2>5, <2>6, <2>7, <2>8
<1>16. CASE ForgetActivated
  <2>1. TypeOK'
    BY <1>16 DEF ForgetActivated, TypeOK
  <2>2. OnlyActivated'
    BY <1>16 DEF ForgetActivated, OnlyActivated
  <2>3. MatrixIsOfCurrent'
    BY <1>16 DEF ForgetActivated, MatrixIsOfCurrent
  <2>4. MatrixIsOfQuery'
    BY <1>16 DEF ForgetActivated, MatrixIsOfQuery
  <2>5. CountsInHand'
    BY <1>16 DEF ForgetActivated, CountsInHand, MappedCurrent, MappingsOf, Current
  <2>6. Tidy'
    BY <1>16 DEF ForgetActivated, Tidy
  <2>7. IndexSurvives'
    BY <1>16 DEF ForgetActivated, IndexSurvives
  <2>8. RebuildRepairsCount'
    BY <1>16 DEF ForgetActivated, RebuildRepairsCount
  <2> QED
    BY <2>1, <2>2, <2>3, <2>4, <2>5, <2>6, <2>7, <2>8
<1>17. CASE CleanRebuilt
  <2>1. TypeOK'
    <3>1. loaded' = None /\ files' \subseteq files /\ staging' \subseteq staging
      BY <1>17 DEF CleanRebuilt, CleanUp
    <3> QED
      BY <1>17, <3>1 DEF CleanRebuilt, TypeOK
  <2>2. OnlyActivated'
    BY <1>17 DEF CleanRebuilt, OnlyActivated
  <2>3. MatrixIsOfCurrent'
    BY <1>17 DEF CleanRebuilt, MatrixIsOfCurrent
  <2>4. MatrixIsOfQuery'
    BY <1>17 DEF CleanRebuilt, MatrixIsOfQuery
  <2>5. CountsInHand'
    BY <1>17 DEF CleanRebuilt, CountsInHand, MappedCurrent, MappingsOf, Current
  <2>6. Tidy'
    BY <1>17 DEF CleanRebuilt, CleanUp, Tidy
  <2>7. IndexSurvives'
    BY <1>17 DEF CleanRebuilt, CleanUp, IndexSurvives
  <2>8. RebuildRepairsCount'
    BY <1>17 DEF CleanRebuilt, RebuildRepairsCount, MappedCurrent, MappingsOf, Current
  <2> QED
    BY <2>1, <2>2, <2>3, <2>4, <2>5, <2>6, <2>7, <2>8
<1>18. ASSUME NEW w \in Workers, ReadGeneration(w) PROVE IndexInv'
  <2>1. TypeOK'
    BY <1>18 DEF ReadGeneration, At, TypeOK
  <2>2. OnlyActivated'
    BY <1>18 DEF ReadGeneration, At, OnlyActivated, TypeOK
  <2>3. MatrixIsOfCurrent'
    BY <1>18 DEF ReadGeneration, MatrixIsOfCurrent, Order, Current, New
  <2>4. MatrixIsOfQuery'
    BY <1>18 DEF ReadGeneration, At, MatrixIsOfQuery
  <2>5. CountsInHand'
    BY <1>18 DEF ReadGeneration, At, CountsInHand, TypeOK, MappedCurrent, MappingsOf,
       Current
  <2>6. Tidy'
    BY <1>18 DEF ReadGeneration, Tidy, New
  <2>7. IndexSurvives'
    BY <1>18 DEF ReadGeneration, IndexSurvives
  <2>8. RebuildRepairsCount'
    BY <1>18 DEF ReadGeneration, RebuildRepairsCount, MappedCurrent, MappingsOf, Current
  <2> QED
    BY <2>1, <2>2, <2>3, <2>4, <2>5, <2>6, <2>7, <2>8
<1>19. ASSUME NEW w \in Workers, ReadCount(w) PROVE IndexInv'
  <2>1. TypeOK'
    BY <1>19 DEF ReadCount, At, TypeOK
  <2>2. OnlyActivated'
    BY <1>19 DEF ReadCount, At, OnlyActivated
  <2>3. MatrixIsOfCurrent'
    BY <1>19 DEF ReadCount, MatrixIsOfCurrent, Order, Current, New
  <2>4. MatrixIsOfQuery'
    BY <1>19 DEF ReadCount, At, MatrixIsOfQuery
  <2>5. CountsInHand'
    <3>1. MappedCurrent(active)' = MappedCurrent(active)
      BY <1>19 DEF ReadCount, MappedCurrent, MappingsOf, Current
    <3>2. \A u \in Workers \ {w} :
             wpc'[u] = wpc[u] /\ gen'[u] = gen[u] /\ count'[u] = count[u]
      BY <1>19 DEF ReadCount, At
    <3>3. wpc'[w] = "store" /\ gen[w] = active => count'[w] = MappedCurrent(active)
      <4> DEFINE mapped == MappedCurrent(gen[w])
      <4>1. CASE gen[w] \in DOMAIN counts
        BY <1>19, <4>1 DEF ReadCount, At
      <4>2. CASE gen[w] \notin DOMAIN counts
        <5>1. count' = [count EXCEPT ![w] = mapped]
          BY <1>19, <4>2 DEF ReadCount
        <5> QED
          BY <5>1 DEF TypeOK
      <4> QED
        BY <4>1, <4>2
    <3>4. UNCHANGED <<gen, active, changed>>
      BY <1>19 DEF ReadCount
    <3> QED
      BY <3>1, <3>2, <3>3, <3>4 DEF CountsInHand
  <2>6. Tidy'
    BY <1>19 DEF ReadCount, Tidy, New
  <2>7. IndexSurvives'
    BY <1>19 DEF ReadCount, IndexSurvives
  <2>8. RebuildRepairsCount'
    BY <1>19 DEF ReadCount, RebuildRepairsCount, MappedCurrent, MappingsOf, Current
  <2> QED
    BY <2>1, <2>2, <2>3, <2>4, <2>5, <2>6, <2>7, <2>8
<1>20. ASSUME NEW w \in Workers, StoreCount(w) PROVE IndexInv'
  <2>1. TypeOK'
    BY <1>20 DEF StoreCount, CountKey, At, TypeOK, OnlyActivated
  <2>2. OnlyActivated'
    BY <1>20 DEF StoreCount, CountKey, At, OnlyActivated, TypeOK
  <2>3. MatrixIsOfCurrent'
    BY <1>20 DEF StoreCount, MatrixIsOfCurrent, Order, Current, New
  <2>4. MatrixIsOfQuery'
    BY <1>20 DEF StoreCount, At, MatrixIsOfQuery
  <2>5. CountsInHand'
    BY <1>20 DEF StoreCount, At, CountsInHand, TypeOK, MappedCurrent, MappingsOf,
       Current
  <2>6. Tidy'
    BY <1>20 DEF StoreCount, Tidy, New
  <2>7. IndexSurvives'
    BY <1>20 DEF StoreCount, IndexSurvives
  <2>8. RebuildRepairsCount'
    BY <1>20 DEF StoreCount, CountKey, At, RebuildRepairsCount, CountsInHand,
       MappedCurrent, MappingsOf, Current
  <2> QED
    BY <2>1, <2>2, <2>3, <2>4, <2>5, <2>6, <2>7, <2>8
<1>21. ASSUME NEW w \in Workers, LoadMatrix(w) PROVE IndexInv'
  <2>1. TypeOK'
    BY <1>21 DEF LoadMatrix, At, TypeOK
  <2>2. OnlyActivated'
    BY <1>21 DEF LoadMatrix, At, OnlyActivated
  <2>3. MatrixIsOfCurrent'
    BY <1>21 DEF LoadMatrix, MatrixIsOfCurrent, Order, Current, New
  <2>4. MatrixIsOfQuery'
    BY <1>21 DEF LoadMatrix, MatrixCached, At, MatrixIsOfQuery, TypeOK
  <2>5. CountsInHand'
    BY <1>21 DEF LoadMatrix, At, CountsInHand, TypeOK, MappedCurrent, MappingsOf,
       Current
  <2>6. Tidy'
    BY <1>21 DEF LoadMatrix, Tidy, New
  <2>7. IndexSurvives'
    BY <1>21 DEF LoadMatrix, IndexSurvives
  <2>8. RebuildRepairsCount'
    BY <1>21 DEF LoadMatrix, RebuildRepairsCount, MappedCurrent, MappingsOf, Current
  <2> QED
    BY <2>1, <2>2, <2>3, <2>4, <2>5, <2>6, <2>7, <2>8
<1>22. ASSUME NEW w \in Workers, MatrixGone(w) PROVE IndexInv'
  <2>1. TypeOK'
    <3>1. Unread(w) /\ UNCHANGED vectors
      BY <1>22 DEF MatrixGone
    <3>2. wpc' \in [Workers -> {"idle", "count", "store", "load", "search", "join"}]
      BY <1>22 DEF MatrixGone, At, TypeOK
    <3>3. loaded' = 0 /\ UNCHANGED <<content, index, disk, counts, cpc>>
      BY <1>22 DEF MatrixGone, None
    <3>4. /\ gen' \in [Workers -> 0..Len(vectors')]
          /\ matrix' \in [Workers -> 0..Len(vectors')]
          /\ DOMAIN count' = Workers /\ DOMAIN scored' = Workers
      BY <3>1, UnreadTyped
    <3>5. 0 \in 0..Len(vectors')
      BY <3>3 DEF disk, TypeOK
    <3> QED
      BY <3>2, <3>3, <3>4, <3>5 DEF disk, content, index, TypeOK
  <2>2. OnlyActivated'
    BY <1>22 DEF MatrixGone, Unread, At, OnlyActivated, TypeOK
  <2>3. MatrixIsOfCurrent'
    BY <1>22 DEF MatrixGone, MatrixIsOfCurrent, Order, Current, New
  <2>4. MatrixIsOfQuery'
    BY <1>22 DEF MatrixGone, Unread, At, MatrixIsOfQuery
  <2>5. CountsInHand'
    <3>1. MappedCurrent(active)' = MappedCurrent(active)
      BY <1>22 DEF MatrixGone, MappedCurrent, MappingsOf, Current
    <3> QED
      BY <1>22, <3>1 DEF MatrixGone, Unread, At, CountsInHand
  <2>6. Tidy'
    BY <1>22 DEF MatrixGone, Tidy, New
  <2>7. IndexSurvives'
    BY <1>22 DEF MatrixGone, IndexSurvives
  <2>8. RebuildRepairsCount'
    BY <1>22 DEF MatrixGone, RebuildRepairsCount, MappedCurrent, MappingsOf, Current
  <2> QED
    BY <2>1, <2>2, <2>3, <2>4, <2>5, <2>6, <2>7, <2>8
<1>23. ASSUME NEW w \in Workers, Search(w) PROVE IndexInv'
  <2>1. TypeOK'
    BY <1>23 DEF Search, At, TypeOK
  <2>2. OnlyActivated'
    BY <1>23 DEF Search, At, OnlyActivated
  <2>3. MatrixIsOfCurrent'
    BY <1>23 DEF Search, MatrixIsOfCurrent, Order, Current, New
  <2>4. MatrixIsOfQuery'
    BY <1>23 DEF Search, At, MatrixIsOfQuery
  <2>5. CountsInHand'
    <3>1. MappedCurrent(active)' = MappedCurrent(active)
      BY <1>23 DEF Search, MappedCurrent, MappingsOf, Current
    <3> QED
      BY <1>23, <3>1 DEF Search, At, CountsInHand
  <2>6. Tidy'
    BY <1>23 DEF Search, Tidy, New
  <2>7. IndexSurvives'
    BY <1>23 DEF Search, IndexSurvives
  <2>8. RebuildRepairsCount'
    BY <1>23 DEF Search, RebuildRepairsCount, MappedCurrent, MappingsOf, Current
  <2> QED
    BY <2>1, <2>2, <2>3, <2>4, <2>5, <2>6, <2>7, <2>8
<1>24. ASSUME NEW w \in Workers, Answer(w) PROVE IndexInv'
  <2>1. TypeOK'
    <3>1. Unread(w) /\ UNCHANGED vectors
      BY <1>24 DEF Answer, disk
    <3>2. wpc' \in [Workers -> {"idle", "count", "store", "load", "search", "join"}]
      BY <1>24 DEF Answer, At, TypeOK
    <3> QED
      BY <1>24, <3>1, <3>2, UnreadTyped DEF Answer, disk, content, index, caches, TypeOK
  <2>2. OnlyActivated'
    BY <1>24 DEF Answer, Unread, At, OnlyActivated, TypeOK
  <2>3. MatrixIsOfCurrent'
    BY <1>24 DEF Answer, MatrixIsOfCurrent, Order, Current, New
  <2>4. MatrixIsOfQuery'
    BY <1>24 DEF Answer, Unread, At, MatrixIsOfQuery, TypeOK
  <2>5. CountsInHand'
    <3>1. MappedCurrent(active)' = MappedCurrent(active)
      BY <1>24 DEF Answer, MappedCurrent, MappingsOf, Current
    <3> QED
      BY <1>24, <3>1 DEF Answer, Unread, At, CountsInHand
  <2>6. Tidy'
    BY <1>24 DEF Answer, Tidy, New
  <2>7. IndexSurvives'
    BY <1>24 DEF Answer, IndexSurvives
  <2>8. RebuildRepairsCount'
    BY <1>24 DEF Answer, RebuildRepairsCount, MappedCurrent, MappingsOf, Current
  <2> QED
    BY <2>1, <2>2, <2>3, <2>4, <2>5, <2>6, <2>7, <2>8
<1>25. CASE Crash
  <2>1. TypeOK'
    BY <1>25 DEF Crash, TypeOK
  <2>2. OnlyActivated'
    BY <1>25 DEF Crash, OnlyActivated, TypeOK
  <2>3. MatrixIsOfCurrent'
    BY <1>25 DEF Crash, MatrixIsOfCurrent
  <2>4. MatrixIsOfQuery'
    BY <1>25 DEF Crash, MatrixIsOfQuery
  <2>5. CountsInHand'
    BY <1>25 DEF Crash, CountsInHand
  <2>6. Tidy'
    BY <1>25 DEF Crash, Tidy
  <2>7. IndexSurvives'
    BY <1>25 DEF Crash, IndexSurvives
  <2>8. RebuildRepairsCount'
    BY <1>25 DEF Crash, RebuildRepairsCount
  <2> QED
    BY <2>1, <2>2, <2>3, <2>4, <2>5, <2>6, <2>7, <2>8
<1>26. CASE UNCHANGED vars
  <2>1. TypeOK'
    BY <1>26 DEF vars, TypeOK
  <2>2. OnlyActivated'
    BY <1>26 DEF vars, OnlyActivated
  <2>3. MatrixIsOfCurrent'
    BY <1>26 DEF vars, MatrixIsOfCurrent, Order, Current, New
  <2>4. MatrixIsOfQuery'
    BY <1>26 DEF vars, MatrixIsOfQuery
  <2>5. CountsInHand'
    BY <1>26 DEF vars, CountsInHand, MappedCurrent, MappingsOf, Current
  <2>6. Tidy'
    BY <1>26 DEF vars, Tidy, New
  <2>7. IndexSurvives'
    BY <1>26 DEF vars, IndexSurvives
  <2>8. RebuildRepairsCount'
    BY <1>26 DEF vars, RebuildRepairsCount, MappedCurrent, MappingsOf, Current
  <2> QED
    BY <2>1, <2>2, <2>3, <2>4, <2>5, <2>6, <2>7, <2>8
<1> QED
  BY <1>1, <1>2, <1>3, <1>4, <1>5, <1>6, <1>7, <1>8, <1>9, <1>10, <1>11, <1>12, <1>13,
     <1>14, <1>15, <1>16, <1>17, <1>18, <1>19, <1>20, <1>21, <1>22, <1>23, <1>24, <1>25,
     <1>26 DEF Next, ContentRequest, Rebuild, Query

-----------------------------------------------------------------------------
\* Type correctness: head and generations that exist, indices within the matrices
\* written so far, for any content and bounds.
THEOREM TypeCorrect == Spec => []TypeOK
<1>1. IndexInv => TypeOK
  BY DEF IndexInv
<1> QED
  BY IndexInit, IndexStep, <1>1, PTL DEF Spec

\* The active generation always has its matrix, and its mappings name the rows of
\* their entities, wherever a rebuild or the process stops (retrieval 366-388).
THEOREM IndexAlwaysSurvives == Spec => []IndexSurvives
<1>1. IndexInv => IndexSurvives
  BY DEF IndexInv
<1> QED
  BY IndexInit, IndexStep, <1>1, PTL DEF Spec

\* A hit has the score of its own vector, however rebuilds and queries interleave: if
\* the join finds mappings of its generation, that generation is still the active one.
THEOREM ScoresAreAlwaysOwn == Spec => []ScoresAreOwn
<1>1. IndexInv => ScoresAreOwn
  BY DEF IndexInv, ScoresAreOwn, IndexSurvives, OnlyActivated, MatrixIsOfQuery, Hits,
     MappingsOf
<1> QED
  BY IndexInit, IndexStep, <1>1, PTL DEF Spec

\* An activation repairs a stale count for good: until the content changes, no query
\* that ran over it can bring the old one back (retrieval 388-393, 1064-1078).
THEOREM RebuildsRepairCounts == Spec => []RebuildRepairsCount
<1>1. IndexInv => RebuildRepairsCount
  BY DEF IndexInv
<1> QED
  BY IndexInit, IndexStep, <1>1, PTL DEF Spec

\* Between requests the disk holds one matrix at most, unless a clean-up was missed
\* (retrieval 396-400, 477-480, 1473-1498).
THEOREM OneMatrixIsLeft == Spec => []OneMatrix
<1>1. IndexInv => OneMatrix
  BY DEF IndexInv, Tidy, OneMatrix
<1> QED
  BY IndexInit, IndexStep, <1>1, PTL DEF Spec
=============================================================================
