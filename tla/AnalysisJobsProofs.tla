------------------------- MODULE AnalysisJobsProofs -------------------------
(***************************************************************************)
(* The type invariant and the safety properties of AnalysisJobs, and that  *)
(* the jobs keep the promise of CancellableWork, for any jobs, sessions,   *)
(* bounds and failures. The inductive invariant adds to the properties     *)
(* which states a job can have at each stage of its worker, which jobs are *)
(* cancelled, what a drain has selected, and what an open transaction has  *)
(* found.                                                                  *)
(***************************************************************************)
EXTENDS AnalysisJobs, ProviderExecutionProofs, FiniteSetTheorems

USE DEF Jobs, jobVars, project, call, execVars

JobsTyped ==
    /\ sessions \subseteq Sessions /\ stored \subseteq Jobs
    /\ Kept \subseteq Jobs /\ retained \in [Kept -> Nat]
    /\ state \in [Jobs -> {"none", "queued", "running", "cancelling", "committing"} \cup Terminal]
    /\ worker \in [Jobs -> {"none", "alive", "dead"}] /\ stage \in [Jobs -> Stages]
    /\ ctl \in {"idle", "join", "delete", "closed"}
    /\ drained \subseteq Jobs /\ task \in Drains \cup {None}

AcceptingTyped == accepting \in BOOLEAN

MapIsBounded == Cardinality(Kept) <= MaxRetained

\* The states a job can have at each stage of its worker.
Fits(j) ==
    /\ stage[j] = "none" <=> state[j] = "none"
    /\ stage[j] = "none" <=> worker[j] = "none"
    /\ worker[j] = "dead" => stage[j] = "end"
    /\ stage[j] = "end" <=> state[j] \in Terminal
    /\ stage[j] \in {"commit", "stored"} <=> state[j] = "committing"
StatesFitStages == \A j \in Jobs : Fits(j)

\* A job is being cancelled if it says so, and is past cancelling while it commits.
CancelsAreKnown ==
    \A j \in Jobs :
        /\ state[j] \in {"none", "queued", "running", "committing", "completed"}
             => j \notin cancelled
        /\ state[j] = "cancelling" => j \in cancelled

\* A drain before the deletion of a session waits for all the workers that use it.
DrainCovers ==
    /\ ctl \in {"join", "delete"} => task \in Drains
    /\ ctl = "delete" => task.op = "delete"
    /\ ctl = "join" /\ task.op = "delete" =>
         \A j \in Jobs : Live(j) /\ task.session \in Of(j) => j \in drained
    /\ ctl = "delete" => \A j \in Jobs : task.session \in Of(j) => ~Live(j)

\* What an open transaction has found stays true until it commits, and a finding is
\* there exactly when its transaction has committed.
FindingsAreAudited ==
    \A j \in Jobs :
        /\ stage[j] \in {"guard", "commit"} \/ j \in stored
             => runs[j] = "success" /\ Of(j) \subseteq sessions
        /\ j \in stored => stage[j] = "stored" \/ state[j] = "completed"
        /\ (stage[j] = "stored" \/ state[j] = "completed") /\ Of(j) \subseteq sessions
             => j \in stored

JobInv ==
    /\ ExecInv /\ JobsTyped /\ MapIsBounded /\ StatesFitStages /\ CancelsAreKnown
    /\ LiveIsTracked /\ DrainCovers /\ DeletedIsClean /\ FindingsAreAudited

-----------------------------------------------------------------------------
\* Every job owns a Run.
LEMMA OwnerOfJob == \A j \in Jobs : Owner[j] \in Of(j)
BY JobsAssumption DEF Of

\* The map is finite, and inserting a job makes room first if it must.
LEMMA MapsAreFinite == JobsTyped => IsFiniteSet(Kept) /\ Cardinality(Kept) \in Nat
BY JobsAssumption, FS_Subset, FS_CardinalityType DEF JobsTyped

\* After an insertion that made room, the map is still within its bound.
LEMMA InsertedIsBounded ==
    ASSUME JobsTyped, MapIsBounded, NEW j \in Jobs, NEW gone \in SUBSET Kept,
           Cardinality(Kept) < MaxRetained \/ \E old \in Kept : gone = {old}
    PROVE  Cardinality(DOMAIN Inserted(j, gone)) <= MaxRetained
<1>1. IsFiniteSet(Kept) /\ Cardinality(Kept) \in Nat /\ MaxRetained \in Nat
  BY MapsAreFinite, JobsAssumption
<1>2. /\ IsFiniteSet(Kept \ gone) /\ Cardinality(Kept \ gone) \in Nat
      /\ Cardinality(Kept \ gone) < MaxRetained
  <2>1. CASE Cardinality(Kept) < MaxRetained
    BY <1>1, <2>1, FS_Subset, FS_CardinalityType
  <2>2. CASE \E old \in Kept : gone = {old}
    <3>1. PICK old \in Kept : gone = {old}
      BY <2>2
    <3>2. IsFiniteSet(Kept \ {old}) /\ Cardinality(Kept \ {old}) = Cardinality(Kept) - 1
      BY <1>1, FS_RemoveElement
    <3> QED
      BY <1>1, <3>1, <3>2, FS_CardinalityType DEF MapIsBounded
  <2> QED
    BY <2>1, <2>2
<1>3. Cardinality((Kept \ gone) \cup {j}) <= Cardinality(Kept \ gone) + 1
  <2>1. Cardinality((Kept \ gone) \cup {j})
          = IF j \in Kept \ gone THEN Cardinality(Kept \ gone) ELSE Cardinality(Kept \ gone) + 1
    BY <1>2, FS_AddElement
  <2> QED
    BY <1>2, <2>1
<1>4. Cardinality((Kept \ gone) \cup {j}) \in Nat
  BY <1>2, FS_AddElement, FS_CardinalityType
<1> QED
  BY <1>1, <1>2, <1>3, <1>4 DEF Inserted

\* The number of jobs that were begun.
LEMMA BegunIsNatural == Begun \in Nat
<1>1. {j \in Jobs : state[j] # "none"} \in SUBSET Jobs
  OBVIOUS
<1> QED
  BY <1>1, JobsAssumption, FS_Subset, FS_CardinalityType DEF Begun

\* The start of a job, with what it removes from the map.
LEMMA Starts ==
    ASSUME JobInv, NEW j \in Jobs, Start(j)
    PROVE  \E gone \in SUBSET {k \in Kept : ~Live(k)} :
               /\ retained' = Inserted(j, gone)
               /\ Cardinality(Kept) < MaxRetained \/ \E old \in Kept : gone = {old}
BY DEF Start, Evictable

\* The initial state satisfies the invariant.
LEMMA JobInit == Init => JobInv /\ AcceptingTyped
<1> SUFFICES ASSUME Init PROVE JobInv /\ AcceptingTyped
  OBVIOUS
<1>1. ExecInv
  BY ExecutionStarts DEF Init
<1>2. AcceptingTyped
  BY Zenon DEF Init, AcceptingTyped
<1>3. Kept = {}
  BY DEF Init, Kept
<1>4. MapIsBounded
  BY <1>3, FS_EmptySet, JobsAssumption DEF MapIsBounded
<1>5. JobsTyped
  BY <1>3 DEF Init, JobsTyped, Stages, Terminal, Kept
<1> QED
  BY <1>1, <1>2, <1>4, <1>5 DEF Init, ExecutionInit, JobInv, StatesFitStages, Fits,
     CancelsAreKnown, LiveIsTracked, Live, DrainCovers, DeletedIsClean, FindingsAreAudited,
     Terminal

\* Only a drain changes what is accepted, to a truth value.
LEMMA AcceptingStep == AcceptingTyped /\ [Next]_vars => AcceptingTyped'
<1> SUFFICES ASSUME AcceptingTyped, [Next]_vars PROVE AcceptingTyped'
  OBVIOUS
<1>1. ASSUME NEW t \in Drains, StartDrain(t) PROVE AcceptingTyped'
  BY <1>1, Zenon DEF StartDrain, AcceptingTyped
<1>2. CASE UNCHANGED accepting
  BY <1>2 DEF AcceptingTyped
<1> QED
  BY <1>1, <1>2 DEF Next, Requests, Start, Cancel, ProjectChanges, DrainStep, DrainPending,
     DrainDone, DeleteSession, Finished, WorkerStep, Begin, Prepare, PrepareFails, Execute,
     Executed, OpenTransaction, Committing, Commit, Complete, Exit, ExecuteFails, Adapter,
     vars

-----------------------------------------------------------------------------
\* Every step keeps the invariant.
LEMMA JobStep == JobInv /\ [Next]_vars => JobInv'
<1> SUFFICES ASSUME JobInv, [Next]_vars PROVE JobInv'
  OBVIOUS
<1> USE DEF JobInv
<1>1. ASSUME NEW j \in Jobs, Start(j) PROVE JobInv'
  <2>0. PICK gone \in SUBSET {k \in Kept : ~Live(k)} :
          /\ retained' = Inserted(j, gone)
          /\ Cardinality(Kept) < MaxRetained \/ \E old \in Kept : gone = {old}
    BY <1>1, Starts
  <2>1. ExecInv'
    BY <1>1, CallsUntouched DEF Start, ExecInv, ExecutionTypeOK
  <2>2. JobsTyped'
    BY <1>1, <2>0, BegunIsNatural DEF Start, To, Inserted, JobsTyped, Stages, Terminal, Kept, Drains
  <2>3. MapIsBounded'
    BY <2>0, InsertedIsBounded DEF MapIsBounded, Kept
  <2>4. StatesFitStages'
    BY <1>1, <2>0 DEF Start, To, StatesFitStages, Fits, JobsTyped, Terminal, Live
  <2>5. CancelsAreKnown'
    BY <1>1, <2>0 DEF Start, To, CancelsAreKnown, JobsTyped, StatesFitStages, Fits,
     Terminal, Live
  <2>6. LiveIsTracked'
    BY <1>1, <2>0 DEF Start, To, Inserted, Live, JobsTyped, Kept, LiveIsTracked
  <2>7. DrainCovers'
    BY <1>1, <2>0 DEF Start, To, Inserted, Live, JobsTyped, Kept, LiveIsTracked, DrainCovers
  <2>8. DeletedIsClean'
    BY <1>1, <2>0 DEF Start, To, DeletedIsClean, Live, JobsTyped, StatesFitStages, Fits,
     DrainCovers
  <2>9. FindingsAreAudited'
    BY <1>1, <2>0 DEF Start, To, FindingsAreAudited, JobsTyped, StatesFitStages, Fits,
     Live, Terminal, DeletedIsClean
  <2> QED
    BY <2>1, <2>2, <2>3, <2>4, <2>5, <2>6, <2>7, <2>8, <2>9
<1>2. ASSUME NEW j \in Jobs, Cancel(j) PROVE JobInv'
  <2>1. ExecInv'
    BY <1>2, CallsUntouched DEF Cancel, RequestCancel, ExecInv, ExecutionTypeOK
  <2>2. JobsTyped'
    BY <1>2 DEF Cancel, RequestCancel, Cancellable, JobsTyped, Stages, Terminal, Kept,
     Drains
  <2>3. MapIsBounded'
    BY <1>2 DEF Cancel, RequestCancel, Cancellable, MapIsBounded, Kept
  <2>4. StatesFitStages'
    BY <1>2 DEF Cancel, RequestCancel, Cancellable, StatesFitStages, Fits, JobsTyped,
     Terminal, Live
  <2>5. CancelsAreKnown'
    BY <1>2 DEF Cancel, RequestCancel, Cancellable, CancelsAreKnown, JobsTyped,
     StatesFitStages, Fits, Terminal, Live
  <2>6. LiveIsTracked'
    BY <1>2 DEF Cancel, RequestCancel, Cancellable, LiveIsTracked, Live, JobsTyped,
     Kept, StatesFitStages, Fits
  <2>7. DrainCovers'
    BY <1>2 DEF Cancel, RequestCancel, Cancellable, DrainCovers, Live, JobsTyped,
     LiveIsTracked, Kept, Drains
  <2>8. DeletedIsClean'
    BY <1>2 DEF Cancel, RequestCancel, Cancellable, DeletedIsClean, Live, JobsTyped,
     StatesFitStages, Fits, DrainCovers
  <2>9. FindingsAreAudited'
    BY <1>2 DEF Cancel, RequestCancel, Cancellable, FindingsAreAudited, JobsTyped,
     StatesFitStages, Fits, Live, Terminal, DeletedIsClean
  <2> QED
    BY <2>1, <2>2, <2>3, <2>4, <2>5, <2>6, <2>7, <2>8, <2>9
<1>3. ASSUME NEW t \in Drains, StartDrain(t) PROVE JobInv'
  <2>1. ExecInv'
    BY <1>3, CallsUntouched DEF StartDrain, RequestCancel, Selected, ExecInv, ExecutionTypeOK,
       JobsTyped
  <2>2. JobsTyped'
    BY <1>3 DEF StartDrain, RequestCancel, Cancellable, Selected, JobsTyped, Stages,
     Terminal, Kept, Drains
  <2>3. MapIsBounded'
    BY <1>3 DEF StartDrain, RequestCancel, Cancellable, Selected, MapIsBounded, Kept
  <2>4. StatesFitStages'
    BY <1>3 DEF StartDrain, RequestCancel, Cancellable, Selected, StatesFitStages, Fits,
     JobsTyped, Terminal, Live
  <2>5. CancelsAreKnown'
    BY <1>3 DEF StartDrain, RequestCancel, Cancellable, Selected, CancelsAreKnown,
     JobsTyped, StatesFitStages, Fits, Terminal, Live
  <2>6. LiveIsTracked'
    BY <1>3 DEF StartDrain, RequestCancel, Cancellable, Selected, LiveIsTracked, Live,
     JobsTyped, Kept, StatesFitStages, Fits
  <2>7. DrainCovers'
    BY <1>3 DEF StartDrain, RequestCancel, Cancellable, Selected, DrainCovers, Live,
     JobsTyped, LiveIsTracked, Kept, Drains
  <2>8. DeletedIsClean'
    BY <1>3 DEF StartDrain, RequestCancel, Cancellable, Selected, DeletedIsClean, Live,
     JobsTyped, StatesFitStages, Fits, DrainCovers
  <2>9. FindingsAreAudited'
    BY <1>3 DEF StartDrain, RequestCancel, Cancellable, Selected, FindingsAreAudited,
     JobsTyped, StatesFitStages, Fits, Live, Terminal, DeletedIsClean
  <2> QED
    BY <2>1, <2>2, <2>3, <2>4, <2>5, <2>6, <2>7, <2>8, <2>9
<1>4. CASE ProjectChanges
  <2>1. ExecInv'
    BY <1>4, ChangesKeep DEF ProjectChanges
  <2>2. JobsTyped'
    BY <1>4 DEF ProjectChanges, ChangePolicy, ChangeContext, OpenProject, Change,
     JobsTyped, Stages, Terminal, Kept, Drains
  <2>3. MapIsBounded'
    BY <1>4 DEF ProjectChanges, ChangePolicy, ChangeContext, OpenProject, Change,
     MapIsBounded, Kept
  <2>4. StatesFitStages'
    BY <1>4 DEF ProjectChanges, ChangePolicy, ChangeContext, OpenProject, Change,
     StatesFitStages, Fits, JobsTyped, Terminal, Live
  <2>5. CancelsAreKnown'
    BY <1>4 DEF ProjectChanges, ChangePolicy, ChangeContext, OpenProject, Change,
     CancelsAreKnown, JobsTyped, StatesFitStages, Fits, Terminal, Live
  <2>6. LiveIsTracked'
    BY <1>4 DEF ProjectChanges, ChangePolicy, ChangeContext, OpenProject, Change,
     LiveIsTracked, Live, JobsTyped, Kept, StatesFitStages, Fits
  <2>7. DrainCovers'
    BY <1>4 DEF ProjectChanges, ChangePolicy, ChangeContext, OpenProject, Change,
     DrainCovers, Live, JobsTyped, LiveIsTracked, Kept, Drains
  <2>8. DeletedIsClean'
    BY <1>4 DEF ProjectChanges, ChangePolicy, ChangeContext, OpenProject, Change,
     DeletedIsClean, Live, JobsTyped, StatesFitStages, Fits, DrainCovers
  <2>9. FindingsAreAudited'
    BY <1>4 DEF ProjectChanges, ChangePolicy, ChangeContext, OpenProject, Change,
     FindingsAreAudited, JobsTyped, StatesFitStages, Fits, Live, Terminal,
     DeletedIsClean
  <2> QED
    BY <2>1, <2>2, <2>3, <2>4, <2>5, <2>6, <2>7, <2>8, <2>9
<1>5. CASE DrainPending
  <2>1. ExecInv'
    BY <1>5, CallsUntouched DEF DrainPending, ExecInv, ExecutionTypeOK
  <2>2. JobsTyped'
    BY <1>5 DEF DrainPending, JobsTyped, Stages, Terminal, Kept, Drains
  <2>3. MapIsBounded'
    BY <1>5 DEF DrainPending, MapIsBounded, Kept
  <2>4. StatesFitStages'
    BY <1>5 DEF DrainPending, StatesFitStages, Fits, JobsTyped, Terminal, Live
  <2>5. CancelsAreKnown'
    BY <1>5 DEF DrainPending, CancelsAreKnown, JobsTyped, StatesFitStages, Fits,
     Terminal, Live
  <2>6. LiveIsTracked'
    BY <1>5 DEF DrainPending, LiveIsTracked, Live, JobsTyped, Kept, StatesFitStages,
     Fits
  <2>7. DrainCovers'
    BY <1>5 DEF DrainPending, DrainCovers, Live, JobsTyped, LiveIsTracked, Kept, Drains
  <2>8. DeletedIsClean'
    BY <1>5 DEF DrainPending, DeletedIsClean, Live, JobsTyped, StatesFitStages, Fits,
     DrainCovers
  <2>9. FindingsAreAudited'
    BY <1>5 DEF DrainPending, FindingsAreAudited, JobsTyped, StatesFitStages, Fits,
     Live, Terminal, DeletedIsClean
  <2> QED
    BY <2>1, <2>2, <2>3, <2>4, <2>5, <2>6, <2>7, <2>8, <2>9
<1>6. CASE DrainDone
  <2>1. ExecInv'
    BY <1>6, CallsUntouched DEF DrainDone, ExecInv, ExecutionTypeOK
  <2>2. JobsTyped'
    BY <1>6 DEF DrainDone, AllJoined, Without, JobsTyped, Stages, Terminal, Kept, Drains
  <2>3. MapIsBounded'
    <3>1. Kept' \in SUBSET Kept
      BY <1>6 DEF DrainDone, Without, Kept
    <3> QED
      BY <3>1, MapsAreFinite, FS_Subset, FS_CardinalityType, JobsAssumption DEF MapIsBounded
  <2>4. StatesFitStages'
    BY <1>6 DEF DrainDone, AllJoined, Without, StatesFitStages, Fits, JobsTyped,
     Terminal, Live
  <2>5. CancelsAreKnown'
    BY <1>6 DEF DrainDone, AllJoined, Without, CancelsAreKnown, JobsTyped,
     StatesFitStages, Fits, Terminal, Live
  <2>6. LiveIsTracked'
    BY <1>6 DEF DrainDone, AllJoined, Without, LiveIsTracked, Live, JobsTyped, Kept,
     StatesFitStages, Fits
  <2>7. DrainCovers'
    BY <1>6 DEF DrainDone, AllJoined, Without, DrainCovers, Live, JobsTyped,
     LiveIsTracked, Kept, Drains
  <2>8. DeletedIsClean'
    BY <1>6 DEF DrainDone, AllJoined, Without, DeletedIsClean, Live, JobsTyped,
     StatesFitStages, Fits, DrainCovers
  <2>9. FindingsAreAudited'
    BY <1>6 DEF DrainDone, AllJoined, Without, FindingsAreAudited, JobsTyped,
     StatesFitStages, Fits, Live, Terminal, DeletedIsClean
  <2> QED
    BY <2>1, <2>2, <2>3, <2>4, <2>5, <2>6, <2>7, <2>8, <2>9
<1>7. CASE DeleteSession
  <2>1. ExecInv'
    <3>1. ExecutionTypeOK'
      BY <1>7 DEF DeleteSession, ExecInv, ExecutionTypeOK
    <3>2. CallsOK'
      BY <1>7 DEF DeleteSession, ExecInv, ExecutionTypeOK, CallsOK, Earned, Approved
    <3> QED
      BY <1>7, <3>1, <3>2 DEF DeleteSession, ExecInv
  <2>2. JobsTyped'
    BY <1>7 DEF DeleteSession, JobsTyped, Stages, Terminal, Kept, Drains
  <2>3. MapIsBounded'
    BY <1>7 DEF DeleteSession, MapIsBounded, Kept
  <2>4. StatesFitStages'
    BY <1>7 DEF DeleteSession, StatesFitStages, Fits, JobsTyped, Terminal, Live
  <2>5. CancelsAreKnown'
    BY <1>7 DEF DeleteSession, CancelsAreKnown, JobsTyped, StatesFitStages, Fits,
     Terminal, Live
  <2>6. LiveIsTracked'
    BY <1>7 DEF DeleteSession, LiveIsTracked, Live, JobsTyped, Kept, StatesFitStages,
     Fits
  <2>7. DrainCovers'
    BY <1>7 DEF DeleteSession, DrainCovers, Live, JobsTyped, LiveIsTracked, Kept, Drains
  <2>8. DeletedIsClean'
    BY <1>7 DEF DeleteSession, DeletedIsClean, Live, JobsTyped, StatesFitStages, Fits,
     DrainCovers
  <2>9. FindingsAreAudited'
    <3>1. \A j \in Jobs : stage[j] \notin {"guard", "commit"}
      BY <1>7 DEF DeleteSession, Saving
    <3>2. \A j \in stored' : runs'[j] = runs[j]
      BY <1>7, OwnerOfJob DEF DeleteSession, JobsTyped
    <3>3. \A j \in Jobs : Of(j) \subseteq sessions' => Of(j) \subseteq sessions
                                               /\ task.session \notin Of(j)
      BY <1>7 DEF DeleteSession
    <3>4. stored' = {j \in stored : task.session \notin Of(j)} /\ UNCHANGED <<stage, state>>
          /\ sessions' = sessions \ {task.session}
      BY <1>7 DEF DeleteSession
    <3> QED
      BY <3>1, <3>2, <3>3, <3>4 DEF FindingsAreAudited, JobsTyped
  <2> QED
    BY <2>1, <2>2, <2>3, <2>4, <2>5, <2>6, <2>7, <2>8, <2>9
<1>8. ASSUME NEW j \in Jobs, Begin(j) PROVE JobInv'
  <2>1. ExecInv'
    BY <1>8, CallsUntouched DEF Begin, ExecInv, ExecutionTypeOK
  <2>2. JobsTyped'
    BY <1>8 DEF Begin, To, JobsTyped, Stages, Terminal, Kept, Drains
  <2>3. MapIsBounded'
    BY <1>8 DEF Begin, To, MapIsBounded, Kept
  <2>4. StatesFitStages'
    BY <1>8 DEF Begin, To, StatesFitStages, Fits, JobsTyped, Terminal, Live
  <2>5. CancelsAreKnown'
    BY <1>8 DEF Begin, To, CancelsAreKnown, JobsTyped, StatesFitStages, Fits, Terminal,
     Live
  <2>6. LiveIsTracked'
    BY <1>8 DEF Begin, To, LiveIsTracked, Live, JobsTyped, Kept, StatesFitStages, Fits
  <2>7. DrainCovers'
    BY <1>8 DEF Begin, To, DrainCovers, Live, JobsTyped, LiveIsTracked, Kept, Drains
  <2>8. DeletedIsClean'
    BY <1>8 DEF Begin, To, DeletedIsClean, Live, JobsTyped, StatesFitStages, Fits,
     DrainCovers
  <2>9. FindingsAreAudited'
    BY <1>8 DEF Begin, To, FindingsAreAudited, JobsTyped, StatesFitStages, Fits, Live,
     Terminal, DeletedIsClean
  <2> QED
    BY <2>1, <2>2, <2>3, <2>4, <2>5, <2>6, <2>7, <2>8, <2>9
<1>9. ASSUME NEW j \in Jobs, Prepare(j) PROVE JobInv'
  <2>1. ExecInv'
    BY <1>9, BuiltCall DEF Prepare
  <2>2. JobsTyped'
    BY <1>9 DEF Prepare, To, Call, JobsTyped, Stages, Terminal, Kept, Drains
  <2>3. MapIsBounded'
    BY <1>9 DEF Prepare, To, Call, MapIsBounded, Kept
  <2>4. StatesFitStages'
    BY <1>9 DEF Prepare, To, Call, StatesFitStages, Fits, JobsTyped, Terminal, Live
  <2>5. CancelsAreKnown'
    BY <1>9 DEF Prepare, To, Call, CancelsAreKnown, JobsTyped, StatesFitStages, Fits,
     Terminal, Live
  <2>6. LiveIsTracked'
    BY <1>9 DEF Prepare, To, Call, LiveIsTracked, Live, JobsTyped, Kept,
     StatesFitStages, Fits
  <2>7. DrainCovers'
    BY <1>9 DEF Prepare, To, Call, DrainCovers, Live, JobsTyped, LiveIsTracked, Kept,
     Drains
  <2>8. DeletedIsClean'
    BY <1>9 DEF Prepare, To, Call, DeletedIsClean, Live, JobsTyped, StatesFitStages,
     Fits, DrainCovers
  <2>9. FindingsAreAudited'
    BY <1>9 DEF Prepare, To, Call, FindingsAreAudited, JobsTyped, StatesFitStages, Fits,
     Live, Terminal, DeletedIsClean
  <2> QED
    BY <2>1, <2>2, <2>3, <2>4, <2>5, <2>6, <2>7, <2>8, <2>9
<1>10. ASSUME NEW j \in Jobs, PrepareFails(j) PROVE JobInv'
  <2>1. ExecInv'
    BY <1>10, CallsUntouched DEF PrepareFails, ExecInv, ExecutionTypeOK
  <2>2. JobsTyped'
    BY <1>10 DEF PrepareFails, Ends, To, JobsTyped, Stages, Terminal, Kept, Drains
  <2>3. MapIsBounded'
    BY <1>10 DEF PrepareFails, Ends, To, MapIsBounded, Kept
  <2>4. StatesFitStages'
    BY <1>10 DEF PrepareFails, Ends, To, StatesFitStages, Fits, JobsTyped, Terminal,
     Live
  <2>5. CancelsAreKnown'
    BY <1>10 DEF PrepareFails, Ends, To, CancelsAreKnown, JobsTyped, StatesFitStages,
     Fits, Terminal, Live
  <2>6. LiveIsTracked'
    BY <1>10 DEF PrepareFails, Ends, To, LiveIsTracked, Live, JobsTyped, Kept,
     StatesFitStages, Fits
  <2>7. DrainCovers'
    BY <1>10 DEF PrepareFails, Ends, To, DrainCovers, Live, JobsTyped, LiveIsTracked,
     Kept, Drains
  <2>8. DeletedIsClean'
    BY <1>10 DEF PrepareFails, Ends, To, DeletedIsClean, Live, JobsTyped,
     StatesFitStages, Fits, DrainCovers
  <2>9. FindingsAreAudited'
    BY <1>10 DEF PrepareFails, Ends, To, FindingsAreAudited, JobsTyped, StatesFitStages,
     Fits, Live, Terminal, DeletedIsClean
  <2> QED
    BY <2>1, <2>2, <2>3, <2>4, <2>5, <2>6, <2>7, <2>8, <2>9
<1>11. ASSUME NEW j \in Jobs, Execute(j) PROVE JobInv'
  <2>0. UNCHANGED <<jobVars, cancelled>> /\ (runs[j] = "success" => UNCHANGED runs)
        /\ \A k \in Jobs \ {j} : runs'[k] = runs[k]
    BY <1>11 DEF Execute, ExecuteStep, Authorize, Recheck, Invoke, WaitCancelled, WaitExpires,
       WaitAnswered, Validate, RecordRun, FinishRun, ExecInv, ExecutionTypeOK, CallsOK
  <2>1. ExecInv'
    BY <1>11, CallKeeps DEF Execute, CallStep
  <2>2. JobsTyped'
    BY <1>11, <2>0 DEF Execute, JobsTyped, Stages, Terminal, Kept, Drains
  <2>3. MapIsBounded'
    BY <1>11, <2>0 DEF Execute, MapIsBounded, Kept
  <2>4. StatesFitStages'
    BY <1>11, <2>0 DEF Execute, StatesFitStages, Fits, JobsTyped, Terminal, Live
  <2>5. CancelsAreKnown'
    BY <1>11, <2>0 DEF Execute, CancelsAreKnown, JobsTyped, StatesFitStages, Fits,
     Terminal, Live
  <2>6. LiveIsTracked'
    BY <1>11, <2>0 DEF Execute, LiveIsTracked, Live, JobsTyped, Kept, StatesFitStages,
     Fits
  <2>7. DrainCovers'
    BY <1>11, <2>0 DEF Execute, DrainCovers, Live, JobsTyped, LiveIsTracked, Kept,
     Drains
  <2>8. DeletedIsClean'
    BY <1>11, <2>0 DEF Execute, DeletedIsClean, Live, JobsTyped, StatesFitStages, Fits,
     DrainCovers
  <2>9. FindingsAreAudited'
    BY <1>11, <2>0 DEF Execute, FindingsAreAudited, JobsTyped, StatesFitStages, Fits,
     Live, Terminal, DeletedIsClean
  <2> QED
    BY <2>1, <2>2, <2>3, <2>4, <2>5, <2>6, <2>7, <2>8, <2>9
<1>12. ASSUME NEW j \in Jobs, ExecuteFails(j) PROVE JobInv'
  <2>1. ExecInv'
    BY <1>12, CallKeeps DEF ExecuteFails, CallStep
  <2>2. JobsTyped'
    BY <1>12 DEF ExecuteFails, FinishFails, JobsTyped, Stages, Terminal, Kept, Drains
  <2>3. MapIsBounded'
    BY <1>12 DEF ExecuteFails, FinishFails, MapIsBounded, Kept
  <2>4. StatesFitStages'
    BY <1>12 DEF ExecuteFails, FinishFails, StatesFitStages, Fits, JobsTyped, Terminal,
     Live
  <2>5. CancelsAreKnown'
    BY <1>12 DEF ExecuteFails, FinishFails, CancelsAreKnown, JobsTyped, StatesFitStages,
     Fits, Terminal, Live
  <2>6. LiveIsTracked'
    BY <1>12 DEF ExecuteFails, FinishFails, LiveIsTracked, Live, JobsTyped, Kept,
     StatesFitStages, Fits
  <2>7. DrainCovers'
    BY <1>12 DEF ExecuteFails, FinishFails, DrainCovers, Live, JobsTyped, LiveIsTracked,
     Kept, Drains
  <2>8. DeletedIsClean'
    BY <1>12 DEF ExecuteFails, FinishFails, DeletedIsClean, Live, JobsTyped,
     StatesFitStages, Fits, DrainCovers
  <2>9. FindingsAreAudited'
    BY <1>12 DEF ExecuteFails, FinishFails, FindingsAreAudited, JobsTyped,
     StatesFitStages, Fits, Live, Terminal, DeletedIsClean
  <2> QED
    BY <2>1, <2>2, <2>3, <2>4, <2>5, <2>6, <2>7, <2>8, <2>9
<1>13. ASSUME NEW j \in Jobs, Executed(j) PROVE JobInv'
  <2>1. ExecInv'
    BY <1>13, CallsUntouched DEF Executed, ExecInv, ExecutionTypeOK
  <2>2. JobsTyped'
    BY <1>13 DEF Executed, Ends, To, JobsTyped, Stages, Terminal, Kept, Drains
  <2>3. MapIsBounded'
    BY <1>13 DEF Executed, Ends, To, MapIsBounded, Kept
  <2>4. StatesFitStages'
    BY <1>13 DEF Executed, Ends, To, StatesFitStages, Fits, JobsTyped, Terminal, Live
  <2>5. CancelsAreKnown'
    BY <1>13 DEF Executed, Ends, To, CancelsAreKnown, JobsTyped, StatesFitStages, Fits,
     Terminal, Live
  <2>6. LiveIsTracked'
    BY <1>13 DEF Executed, Ends, To, LiveIsTracked, Live, JobsTyped, Kept,
     StatesFitStages, Fits
  <2>7. DrainCovers'
    BY <1>13 DEF Executed, Ends, To, DrainCovers, Live, JobsTyped, LiveIsTracked, Kept,
     Drains
  <2>8. DeletedIsClean'
    BY <1>13 DEF Executed, Ends, To, DeletedIsClean, Live, JobsTyped, StatesFitStages,
     Fits, DrainCovers
  <2>9. FindingsAreAudited'
    BY <1>13 DEF Executed, Ends, To, FindingsAreAudited, JobsTyped, StatesFitStages,
     Fits, Live, Terminal, DeletedIsClean
  <2> QED
    BY <2>1, <2>2, <2>3, <2>4, <2>5, <2>6, <2>7, <2>8, <2>9
<1>14. ASSUME NEW j \in Jobs, OpenTransaction(j) PROVE JobInv'
  <2>1. ExecInv'
    BY <1>14, CallsUntouched DEF OpenTransaction, ExecInv, ExecutionTypeOK
  <2>2. JobsTyped'
    BY <1>14 DEF OpenTransaction, Ends, To, Storable, JobsTyped, Stages, Terminal, Kept,
     Drains
  <2>3. MapIsBounded'
    BY <1>14 DEF OpenTransaction, Ends, To, Storable, MapIsBounded, Kept
  <2>4. StatesFitStages'
    BY <1>14 DEF OpenTransaction, Ends, To, Storable, StatesFitStages, Fits, JobsTyped,
     Terminal, Live
  <2>5. CancelsAreKnown'
    BY <1>14 DEF OpenTransaction, Ends, To, Storable, CancelsAreKnown, JobsTyped,
     StatesFitStages, Fits, Terminal, Live
  <2>6. LiveIsTracked'
    BY <1>14 DEF OpenTransaction, Ends, To, Storable, LiveIsTracked, Live, JobsTyped,
     Kept, StatesFitStages, Fits
  <2>7. DrainCovers'
    BY <1>14 DEF OpenTransaction, Ends, To, Storable, DrainCovers, Live, JobsTyped,
     LiveIsTracked, Kept, Drains
  <2>8. DeletedIsClean'
    BY <1>14 DEF OpenTransaction, Ends, To, Storable, DeletedIsClean, Live, JobsTyped,
     StatesFitStages, Fits, DrainCovers
  <2>9. FindingsAreAudited'
    BY <1>14 DEF OpenTransaction, Ends, To, Storable, FindingsAreAudited, JobsTyped,
     StatesFitStages, Fits, Live, Terminal, DeletedIsClean
  <2> QED
    BY <2>1, <2>2, <2>3, <2>4, <2>5, <2>6, <2>7, <2>8, <2>9
<1>15. ASSUME NEW j \in Jobs, Committing(j) PROVE JobInv'
  <2>1. ExecInv'
    BY <1>15, CallsUntouched DEF Committing, ExecInv, ExecutionTypeOK
  <2>2. JobsTyped'
    BY <1>15 DEF Committing, Ends, To, InTime, JobsTyped, Stages, Terminal, Kept, Drains
  <2>3. MapIsBounded'
    BY <1>15 DEF Committing, Ends, To, InTime, MapIsBounded, Kept
  <2>4. StatesFitStages'
    BY <1>15 DEF Committing, Ends, To, InTime, StatesFitStages, Fits, JobsTyped,
     Terminal, Live
  <2>5. CancelsAreKnown'
    BY <1>15 DEF Committing, Ends, To, InTime, CancelsAreKnown, JobsTyped,
     StatesFitStages, Fits, Terminal, Live
  <2>6. LiveIsTracked'
    BY <1>15 DEF Committing, Ends, To, InTime, LiveIsTracked, Live, JobsTyped, Kept,
     StatesFitStages, Fits
  <2>7. DrainCovers'
    BY <1>15 DEF Committing, Ends, To, InTime, DrainCovers, Live, JobsTyped,
     LiveIsTracked, Kept, Drains
  <2>8. DeletedIsClean'
    BY <1>15 DEF Committing, Ends, To, InTime, DeletedIsClean, Live, JobsTyped,
     StatesFitStages, Fits, DrainCovers
  <2>9. FindingsAreAudited'
    BY <1>15 DEF Committing, Ends, To, InTime, FindingsAreAudited, JobsTyped,
     StatesFitStages, Fits, Live, Terminal, DeletedIsClean
  <2> QED
    BY <2>1, <2>2, <2>3, <2>4, <2>5, <2>6, <2>7, <2>8, <2>9
<1>16. ASSUME NEW j \in Jobs, Commit(j) PROVE JobInv'
  <2>1. ExecInv'
    <3>1. faults' \in 0..MaxFaults
      BY <1>16, FaultBounded DEF Commit, ExecInv, ExecutionTypeOK, Fault
    <3> QED
      BY <1>16, <3>1, CallsUntouched DEF Commit, ExecInv, ExecutionTypeOK
  <2>2. JobsTyped'
    BY <1>16 DEF Commit, Ends, To, JobsTyped, Stages, Terminal, Kept, Drains
  <2>3. MapIsBounded'
    BY <1>16 DEF Commit, Ends, To, MapIsBounded, Kept
  <2>4. StatesFitStages'
    BY <1>16 DEF Commit, Ends, To, StatesFitStages, Fits, JobsTyped, Terminal, Live
  <2>5. CancelsAreKnown'
    BY <1>16 DEF Commit, Ends, To, CancelsAreKnown, JobsTyped, StatesFitStages, Fits,
     Terminal, Live
  <2>6. LiveIsTracked'
    BY <1>16 DEF Commit, Ends, To, LiveIsTracked, Live, JobsTyped, Kept,
     StatesFitStages, Fits
  <2>7. DrainCovers'
    BY <1>16 DEF Commit, Ends, To, DrainCovers, Live, JobsTyped, LiveIsTracked, Kept,
     Drains
  <2>8. DeletedIsClean'
    BY <1>16 DEF Commit, Ends, To, DeletedIsClean, Live, JobsTyped, StatesFitStages,
     Fits, DrainCovers
  <2>9. FindingsAreAudited'
    BY <1>16 DEF Commit, Ends, To, FindingsAreAudited, JobsTyped, StatesFitStages, Fits,
     Live, Terminal, DeletedIsClean
  <2> QED
    BY <2>1, <2>2, <2>3, <2>4, <2>5, <2>6, <2>7, <2>8, <2>9
<1>17. ASSUME NEW j \in Jobs, Complete(j) PROVE JobInv'
  <2>1. ExecInv'
    BY <1>17, CallsUntouched DEF Complete, ExecInv, ExecutionTypeOK
  <2>2. JobsTyped'
    BY <1>17 DEF Complete, Ends, To, JobsTyped, Stages, Terminal, Kept, Drains
  <2>3. MapIsBounded'
    BY <1>17 DEF Complete, Ends, To, MapIsBounded, Kept
  <2>4. StatesFitStages'
    BY <1>17 DEF Complete, Ends, To, StatesFitStages, Fits, JobsTyped, Terminal, Live
  <2>5. CancelsAreKnown'
    BY <1>17 DEF Complete, Ends, To, CancelsAreKnown, JobsTyped, StatesFitStages, Fits,
     Terminal, Live
  <2>6. LiveIsTracked'
    BY <1>17 DEF Complete, Ends, To, LiveIsTracked, Live, JobsTyped, Kept,
     StatesFitStages, Fits
  <2>7. DrainCovers'
    BY <1>17 DEF Complete, Ends, To, DrainCovers, Live, JobsTyped, LiveIsTracked, Kept,
     Drains
  <2>8. DeletedIsClean'
    BY <1>17 DEF Complete, Ends, To, DeletedIsClean, Live, JobsTyped, StatesFitStages,
     Fits, DrainCovers
  <2>9. FindingsAreAudited'
    BY <1>17 DEF Complete, Ends, To, FindingsAreAudited, JobsTyped, StatesFitStages,
     Fits, Live, Terminal, DeletedIsClean
  <2> QED
    BY <2>1, <2>2, <2>3, <2>4, <2>5, <2>6, <2>7, <2>8, <2>9
<1>18. ASSUME NEW j \in Jobs, Exit(j) PROVE JobInv'
  <2>1. ExecInv'
    BY <1>18, CallsUntouched DEF Exit, ExecInv, ExecutionTypeOK
  <2>2. JobsTyped'
    BY <1>18 DEF Exit, JobsTyped, Stages, Terminal, Kept, Drains
  <2>3. MapIsBounded'
    BY <1>18 DEF Exit, MapIsBounded, Kept
  <2>4. StatesFitStages'
    BY <1>18 DEF Exit, StatesFitStages, Fits, JobsTyped, Terminal, Live
  <2>5. CancelsAreKnown'
    BY <1>18 DEF Exit, CancelsAreKnown, JobsTyped, StatesFitStages, Fits, Terminal, Live
  <2>6. LiveIsTracked'
    BY <1>18 DEF Exit, LiveIsTracked, Live, JobsTyped, Kept, StatesFitStages, Fits
  <2>7. DrainCovers'
    BY <1>18 DEF Exit, DrainCovers, Live, JobsTyped, LiveIsTracked, Kept, Drains
  <2>8. DeletedIsClean'
    BY <1>18 DEF Exit, DeletedIsClean, Live, JobsTyped, StatesFitStages, Fits,
     DrainCovers
  <2>9. FindingsAreAudited'
    BY <1>18 DEF Exit, FindingsAreAudited, JobsTyped, StatesFitStages, Fits, Live,
     Terminal, DeletedIsClean
  <2> QED
    BY <2>1, <2>2, <2>3, <2>4, <2>5, <2>6, <2>7, <2>8, <2>9
<1>19. ASSUME NEW j \in Jobs, Adapter(j) PROVE JobInv'
  <2>1. ExecInv'
    BY <1>19, AnswerKeeps DEF Adapter
  <2>2. JobsTyped'
    BY <1>19 DEF Adapter, Answer, JobsTyped, Stages, Terminal, Kept, Drains
  <2>3. MapIsBounded'
    BY <1>19 DEF Adapter, Answer, MapIsBounded, Kept
  <2>4. StatesFitStages'
    BY <1>19 DEF Adapter, Answer, StatesFitStages, Fits, JobsTyped, Terminal, Live
  <2>5. CancelsAreKnown'
    BY <1>19 DEF Adapter, Answer, CancelsAreKnown, JobsTyped, StatesFitStages, Fits,
     Terminal, Live
  <2>6. LiveIsTracked'
    BY <1>19 DEF Adapter, Answer, LiveIsTracked, Live, JobsTyped, Kept, StatesFitStages,
     Fits
  <2>7. DrainCovers'
    BY <1>19 DEF Adapter, Answer, DrainCovers, Live, JobsTyped, LiveIsTracked, Kept,
     Drains
  <2>8. DeletedIsClean'
    BY <1>19 DEF Adapter, Answer, DeletedIsClean, Live, JobsTyped, StatesFitStages,
     Fits, DrainCovers
  <2>9. FindingsAreAudited'
    BY <1>19 DEF Adapter, Answer, FindingsAreAudited, JobsTyped, StatesFitStages, Fits,
     Live, Terminal, DeletedIsClean
  <2> QED
    BY <2>1, <2>2, <2>3, <2>4, <2>5, <2>6, <2>7, <2>8, <2>9
<1>20. CASE UNCHANGED vars
  <2>1. ExecInv'
    BY <1>20, CallsUntouched DEF vars, ExecInv, ExecutionTypeOK
  <2>2. JobsTyped'
    BY <1>20 DEF vars, JobsTyped, Stages, Terminal, Kept, Drains
  <2>3. MapIsBounded'
    BY <1>20 DEF vars, MapIsBounded, Kept
  <2>4. StatesFitStages'
    BY <1>20 DEF vars, StatesFitStages, Fits, JobsTyped, Terminal, Live
  <2>5. CancelsAreKnown'
    BY <1>20 DEF vars, CancelsAreKnown, JobsTyped, StatesFitStages, Fits, Terminal, Live
  <2>6. LiveIsTracked'
    BY <1>20 DEF vars, LiveIsTracked, Live, JobsTyped, Kept, StatesFitStages, Fits
  <2>7. DrainCovers'
    BY <1>20 DEF vars, DrainCovers, Live, JobsTyped, LiveIsTracked, Kept, Drains
  <2>8. DeletedIsClean'
    BY <1>20 DEF vars, DeletedIsClean, Live, JobsTyped, StatesFitStages, Fits,
     DrainCovers
  <2>9. FindingsAreAudited'
    BY <1>20 DEF vars, FindingsAreAudited, JobsTyped, StatesFitStages, Fits, Live,
     Terminal, DeletedIsClean
  <2> QED
    BY <2>1, <2>2, <2>3, <2>4, <2>5, <2>6, <2>7, <2>8, <2>9
<1> QED
  BY <1>1, <1>2, <1>3, <1>4, <1>5, <1>6, <1>7, <1>8, <1>9, <1>10, <1>11, <1>12, <1>13,
     <1>14, <1>15, <1>16, <1>17, <1>18, <1>19, <1>20
     DEF Next, Requests, DrainStep, Finished, WorkerStep

-----------------------------------------------------------------------------
\* The job map, each job and the drain keep their types, and the map its bound.
THEOREM JobsTypeCorrect == Spec => []TypeOK
<1>1. JobInv /\ AcceptingTyped => TypeOK
  BY Zenon DEF JobInv, ExecInv, JobsTyped, AcceptingTyped, MapIsBounded, TypeOK
<1> QED
  BY JobInit, JobStep, AcceptingStep, <1>1, PTL DEF Spec

\* A stored finding rests on a run of a provider that was allowed and answered in time,
\* and on sessions that exist: what an open transaction has audited holds until it
\* commits, since it keeps every other writer out (rehearsal_analysis_store.py:230-262).
THEOREM FindingsRestOnRuns == Spec => []StoredIsAudited
<1>1. JobInv => StoredIsAudited
  BY EarnedSuccess DEF JobInv, FindingsAreAudited, StoredIsAudited, JobsTyped
<1> QED
  BY JobInit, JobStep, <1>1, PTL DEF Spec

\* A live worker stays in the map, whatever is evicted and purged
\* (rehearsal_analysis_jobs.py:124-138, 290-291).
THEOREM WorkersAreTracked == Spec => []LiveIsTracked
<1>1. JobInv => LiveIsTracked
  BY DEF JobInv
<1> QED
  BY JobInit, JobStep, <1>1, PTL DEF Spec

\* When a session is deleted no worker uses it: the drain before it has selected all
\* that do, and none can start until the row is gone.
THEOREM DeletionsAreClean == Spec => []DeletedIsClean
<1>1. JobInv => DeletedIsClean
  BY DEF JobInv
<1> QED
  BY JobInit, JobStep, <1>1, PTL DEF Spec

\* The state a poll reports at the end says what was stored.
THEOREM PollsAreTrue == Spec => []PollIsTrue
<1>1. JobInv => PollIsTrue
  BY DEF JobInv, FindingsAreAudited, StatesFitStages, Fits, JobsTyped, Terminal, PollIsTrue
<1> QED
  BY JobInit, JobStep, <1>1, PTL DEF Spec

-----------------------------------------------------------------------------
(* The refinement. Only the steps that start, cancel, commit or end a job    *)
(* change what it is to CancellableWork.                                     *)

phases == [j \in Jobs |-> Phase(j)]

\* A job whose state, stage and cancellation stay is the same to CancellableWork.
LEMMA PhaseKept ==
    ASSUME NEW j, state'[j] = state[j],
           stage'[j] = "stored" <=> stage[j] = "stored", j \in cancelled' <=> j \in cancelled
    PROVE  Phase(j)' = Phase(j)
BY DEF Phase

\* Changing one job is changing the phase of that job.
LEMMA PhaseOfOne ==
    ASSUME NEW j \in Jobs, \A k \in Jobs \ {j} : Phase(k)' = Phase(k)
    PROVE  phases' = [phases EXCEPT ![j] = Phase(j)']
BY DEF phases

\* A request to cancel some jobs moves those that are pending.
LEMMA CancellingRefines ==
    ASSUME JobInv, NEW some \in SUBSET Jobs, RequestCancel(some), UNCHANGED stage
    PROVE  [Promise!Next]_phases
<1> DEFINE moved == {j \in some : Cancellable(j) /\ Phase(j) = "pending"}
<1>1. \A j \in Jobs : Phase(j)' = IF j \in moved THEN "stopping" ELSE Phase(j)
  BY DEF RequestCancel, Cancellable, Phase, JobInv, StatesFitStages, Fits, CancelsAreKnown,
     Terminal
<1>2. moved \in SUBSET {j \in Jobs : phases[j] = "pending"}
  BY DEF phases
<1>3. phases' = [j \in Jobs |-> IF j \in moved THEN "stopping" ELSE phases[j]]
  BY <1>1 DEF phases
<1> QED
  BY <1>2, <1>3 DEF Promise!Next, Promise!CancelSome, phases

\* Every step of the jobs is a step of CancellableWork, or none.
LEMMA JobsRefine == JobInv /\ [Next]_vars => [Promise!Next]_phases
<1> SUFFICES ASSUME JobInv, [Next]_vars PROVE [Promise!Next]_phases
  OBVIOUS
<1> USE DEF JobInv
<1>1. ASSUME NEW j \in Jobs, Start(j) PROVE Promise!Next
  <2>1. \A k \in Jobs \ {j} : Phase(k)' = Phase(k)
    BY <1>1 DEF Start, To, JobsTyped, Phase
  <2>2. Phase(j) = "new" /\ Phase(j)' = "pending"
    BY <1>1 DEF Start, To, JobsTyped, Phase, CancelsAreKnown
  <2>3. phases' = [phases EXCEPT ![j] = "pending"] /\ phases[j] = "new"
    BY <2>1, <2>2, PhaseOfOne DEF phases
  <2> QED
    BY <2>3 DEF Promise!Next, Promise!Begin, Promise!Become, phases
<1>2. ASSUME NEW j \in Jobs, Cancel(j) PROVE [Promise!Next]_phases
  BY <1>2, CancellingRefines DEF Cancel
<1>3. ASSUME NEW t \in Drains, StartDrain(t) PROVE [Promise!Next]_phases
  <2>1. Selected(t) \in SUBSET Jobs
    BY DEF Selected, JobsTyped
  <2> QED
    BY <1>3, <2>1, CancellingRefines DEF StartDrain
<1>4. ASSUME NEW j \in Jobs, Commit(j), ~UNCHANGED phases PROVE Promise!Next
  <2>1. \A k \in Jobs \ {j} : Phase(k)' = Phase(k)
    BY <1>4 DEF Commit, Ends, To, JobsTyped, Phase
  <2>2. Phase(j) = "pending"
    BY <1>4 DEF Commit, Phase, StatesFitStages, Fits, CancelsAreKnown, Terminal
  <2>3. Phase(j)' \in {"stored", "dropped"}
    BY <1>4 DEF Commit, Ends, To, JobsTyped, StatesFitStages, Fits, Phase
  <2>4. phases' = [phases EXCEPT ![j] = Phase(j)'] /\ phases[j] = "pending"
    BY <2>1, <2>2, PhaseOfOne DEF phases
  <2> QED
    BY <2>3, <2>4 DEF Promise!Next, Promise!Store, Promise!Drop, Promise!Become, phases
<1>5. ASSUME NEW j \in Jobs, stage[j] \notin {"none", "stored", "end"},
             Ends(j, "cancelled") \/ Ends(j, "failed"), UNCHANGED cancelled
      PROVE  Promise!Next
  <2>1. \A k \in Jobs \ {j} : Phase(k)' = Phase(k)
    BY <1>5 DEF Ends, To, JobsTyped, Phase
  <2>2. Phase(j) \in {"pending", "stopping"}
    BY <1>5 DEF Phase, StatesFitStages, Fits, Terminal
  <2>3. Phase(j)' = "dropped"
    BY <1>5 DEF Ends, To, JobsTyped, Phase
  <2>4. phases' = [phases EXCEPT ![j] = "dropped"] /\ phases[j] = Phase(j)
    BY <2>1, <2>3, PhaseOfOne DEF phases
  <2> QED
    BY <2>2, <2>4 DEF Promise!Next, Promise!Drop, Promise!Become, phases
<1>6. ASSUME NEW j \in Jobs, Complete(j) PROVE UNCHANGED phases
  <2>1. \A k \in Jobs : Phase(k)' = Phase(k)
    BY <1>6 DEF Complete, Ends, To, JobsTyped, StatesFitStages, Fits, Phase
  <2> QED
    BY <2>1 DEF phases
<1>7. ASSUME NEW j \in Jobs, Begin(j) PROVE UNCHANGED phases
  BY <1>7 DEF Begin, To, JobsTyped, StatesFitStages, Fits, Terminal, Phase, phases
<1>8. ASSUME NEW j \in Jobs, UNCHANGED <<state, cancelled>>,
             stage' = stage
               \/ (stage[j] # "stored" /\ \E s \in Stages \ {"stored"} : To(j, s))
      PROVE  UNCHANGED phases
  BY <1>8 DEF To, JobsTyped, Phase, phases
<1>9. CASE UNCHANGED <<state, cancelled, stage>>
  BY <1>9 DEF Phase, phases
<1> QED
  <2>1. CASE Requests
    BY <1>1, <1>2, <1>3, <1>9, <2>1
    DEF Requests, ProjectChanges, ChangePolicy, ChangeContext, OpenProject
  <2>2. CASE DrainStep \/ Finished \/ UNCHANGED vars
    BY <1>9, <2>2
    DEF DrainStep, DrainPending, DrainDone, DeleteSession, Finished, vars
  <2>3. ASSUME NEW j \in Jobs, ExecuteFails(j) \/ Adapter(j) \/ Execute(j)
        PROVE  [Promise!Next]_phases
    BY <1>9, <2>3 DEF ExecuteFails, FinishFails, Adapter, Answer, Execute, ExecuteStep, Authorize,
       RecordRun, Recheck, Invoke, WaitCancelled, WaitExpires, WaitAnswered, Validate, FinishRun
  <2>4. ASSUME NEW j \in Jobs, Prepare(j) PROVE UNCHANGED phases
    BY <1>8, <2>4 DEF Prepare, Call, Stages
  <2>5. ASSUME NEW j \in Jobs,
               PrepareFails(j) \/ Executed(j) \/ OpenTransaction(j) \/ Committing(j)
        PROVE  [Promise!Next]_phases
    <3>1. CASE Ends(j, "cancelled") \/ Ends(j, "failed")
      BY <1>5, <2>5, <3>1 DEF PrepareFails, Executed, OpenTransaction, Committing
    <3>2. CASE To(j, "save") /\ UNCHANGED state
      BY <1>8, <2>5, <3>2 DEF Executed, Stages, PrepareFails, OpenTransaction, Committing
    <3>3. CASE To(j, "guard") /\ UNCHANGED state
      BY <1>8, <2>5, <3>3 DEF OpenTransaction, Stages, PrepareFails, Executed, Committing
    <3>4. CASE state' = [state EXCEPT ![j] = "committing"] /\ To(j, "commit")
               /\ j \notin cancelled /\ stage[j] = "guard" /\ UNCHANGED cancelled
      BY <3>4 DEF To, JobsTyped, StatesFitStages, Fits, Terminal, Phase, phases
    <3> QED
      BY <2>5, <3>1, <3>2, <3>3, <3>4
      DEF PrepareFails, Executed, OpenTransaction, Committing, InTime
  <2>6. ASSUME NEW j \in Jobs, Exit(j) PROVE [Promise!Next]_phases
    BY <1>9, <2>6 DEF Exit
  <2> QED
    BY <1>4, <1>6, <1>7, <2>1, <2>2, <2>3, <2>4, <2>5, <2>6 DEF Next, WorkerStep

\* The jobs keep the promise of CancellableWork: an accepted cancel, of one job or by a
\* drain, keeps the finding from being stored, wherever the worker is
\* (docs/PRODUCTION_READINESS.md:1391-1394).
THEOREM JobsKeepPromise == Spec => KeepsPromise
<1>1. Init => Promise!Init
  BY DEF Init, Promise!Init, Phase
<1>2. JobInv /\ [Next]_vars => [Promise!Next]_[j \in Jobs |-> Phase(j)]
  BY JobsRefine DEF phases
<1> QED
  BY JobInit, JobStep, <1>1, <1>2, PTL DEF Spec, KeepsPromise, Promise!Spec
=============================================================================
