--------------------------- MODULE LiveSessionProofs ---------------------------
(***************************************************************************)
(* The type invariant and the safety properties of LiveAssist, for any     *)
(* assists, providers and failures. The inductive invariant adds to them   *)
(* which workers are registered, which are cancelled when a stop purges    *)
(* them, and at which stage of a worker its cue is ready.                  *)
(*                                                                         *)
(* And those of SlideTracking, for any number of slides, runs, watchers,   *)
(* requests and failures: who works for which run, that a watcher has      *)
(* nothing left to do but end once its run is manual, and how the times of *)
(* the timeline stand to that of the event to come.                        *)
(***************************************************************************)
EXTENDS LiveSession, ProviderExecutionProofs, Sequences, WellFoundedInduction

USE DEF assistVars, Assists, project, call, execVars

AssistsTyped ==
    /\ session \in {"active", "stopped", "deleted"}
    /\ cue \in [Assists -> {"none", "partial", "final"}]
    /\ registered \subseteq Assists /\ ready \subseteq Assists
    /\ stage \in [Assists -> Stages]
    /\ ctl \in {"idle", "stop", "cleanup", "row", "purge", "join"}

SeenTyped == seen \in [Assists -> BOOLEAN]

\* A worker that is on its way is registered. Nobody asks a provider twice.
WorkersRegistered ==
    \A a \in Assists :
        /\ stage[a] \notin {"none", "done"} => a \in registered
        /\ stage[a] \in {"none", "start", "route"} => place[a] = "idle"

\* While a stop is under way every registered assist is cancelled, and a purge finds
\* them so, or their cues gone with the session.
StopCancels ==
    /\ ctl \in {"stop", "cleanup"} => session = "active" /\ registered \subseteq cancelled
    /\ ctl = "purge" => session = "deleted" \/ registered \subseteq cancelled

\* Where a worker is when its cue is ready or about to be announced.
ReadyIsFinal ==
    \A a \in Assists :
        /\ stage[a] = "announce" /\ session # "deleted" => cue[a] = "final"
        /\ a \in ready => stage[a] \in {"end", "done"}

AssistInv ==
    /\ ExecInv /\ AssistsTyped
    /\ WorkersRegistered /\ StopCancels /\ ReadyIsFinal
    /\ PartialHasWorker /\ NothingOutlivesSession /\ AnnouncedIsStored

-----------------------------------------------------------------------------
\* The initial state satisfies the invariant.
LEMMA AssistInit == Init => AssistInv /\ SeenTyped
<1> SUFFICES ASSUME Init PROVE AssistInv /\ SeenTyped
  OBVIOUS
<1>1. ExecInv
  BY ExecutionStarts DEF Init
<1>2. SeenTyped
  BY Zenon DEF Init, SeenTyped
<1> QED
  BY <1>1, <1>2 DEF Init, ExecutionInit, AssistInv, AssistsTyped, Stages, WorkersRegistered,
     StopCancels, ReadyIsFinal, PartialHasWorker, NothingOutlivesSession, AnnouncedIsStored

\* What a save found is noted as a truth value.
LEMMA SeenStep == SeenTyped /\ [Next]_vars => SeenTyped'
<1> SUFFICES ASSUME SeenTyped, [Next]_vars PROVE SeenTyped'
  OBVIOUS
<1>1. ASSUME NEW a \in Assists, ReadCue(a) PROVE SeenTyped'
  BY <1>1, Zenon DEF ReadCue, SeenTyped
<1>2. ASSUME NEW a \in Assists, WriteCue(a) PROVE SeenTyped'
  BY <1>2, Zenon DEF WriteCue, SeenTyped
<1>3. CASE UNCHANGED seen
  BY <1>3 DEF SeenTyped
<1> QED
  BY <1>1, <1>2, <1>3 DEF Next, Requests, RequestStep, WorkerStep, Adapter, Request, Cancel,
     StopSession, DeleteStopped, Reopen, PolicyChanges, SessionStopped, DeleteRow,
     PurgeSession, PurgeDone, PurgeGivesUp, Finished, SavePartial, AnswerLocally,
     AskProvider, NotAsked, Execute, Executed, Announce, End, vars

-----------------------------------------------------------------------------
(* Steps that do not make a call: they change cancelled and the run rows at  *)
(* most.                                                                     *)

\* Every step keeps the invariant.
LEMMA AssistStep == AssistInv /\ [Next]_vars => AssistInv'
<1> SUFFICES ASSUME AssistInv, [Next]_vars PROVE AssistInv'
  OBVIOUS
<1> USE DEF AssistInv
<1>1. ASSUME NEW a \in Assists, Request(a) PROVE AssistInv'
  <2>1. ExecInv'
    BY <1>1, CallsUntouched, ExecutionAssumption DEF Request, CancelAll, Discard, To, ExecInv,
       ExecutionTypeOK, AssistsTyped
  <2>2. AssistsTyped'
    BY <1>1 DEF Request, CancelAll, Discard, To, AssistsTyped, Stages
  <2>3. WorkersRegistered'
    BY <1>1 DEF Request, CancelAll, Discard, To, AssistsTyped, Stages, WorkersRegistered
  <2>4. StopCancels'
    BY <1>1 DEF Request, CancelAll, Discard, To, AssistsTyped, Stages, StopCancels,
       WorkersRegistered
  <2>5. ReadyIsFinal'
    BY <1>1 DEF Request, CancelAll, Discard, To, AssistsTyped, Stages, ReadyIsFinal,
       StopCancels, WorkersRegistered
  <2>6. PartialHasWorker'
    BY <1>1 DEF Request, CancelAll, Discard, To, AssistsTyped, Stages, PartialHasWorker,
       StopCancels, NothingOutlivesSession, WorkersRegistered
  <2>7. NothingOutlivesSession'
    BY <1>1 DEF Request, CancelAll, Discard, To, AssistsTyped, Stages, NothingOutlivesSession
  <2>8. AnnouncedIsStored'
    BY <1>1 DEF Request, CancelAll, Discard, To, AssistsTyped, Stages, AnnouncedIsStored,
       StopCancels, ReadyIsFinal
  <2> QED
    BY <2>1, <2>2, <2>3, <2>4, <2>5, <2>6, <2>7, <2>8 DEF AssistInv
<1>2. ASSUME NEW a \in Assists, Cancel(a) PROVE AssistInv'
  <2>1. ExecInv'
    BY <1>2, CallsUntouched, ExecutionAssumption DEF Cancel, CancelAll, Discard, To, ExecInv,
       ExecutionTypeOK, AssistsTyped
  <2>2. AssistsTyped'
    BY <1>2 DEF Cancel, CancelAll, Discard, To, AssistsTyped, Stages
  <2>3. WorkersRegistered'
    BY <1>2 DEF Cancel, CancelAll, Discard, To, AssistsTyped, Stages, WorkersRegistered
  <2>4. StopCancels'
    BY <1>2 DEF Cancel, CancelAll, Discard, To, AssistsTyped, Stages, StopCancels,
       WorkersRegistered
  <2>5. ReadyIsFinal'
    BY <1>2 DEF Cancel, CancelAll, Discard, To, AssistsTyped, Stages, ReadyIsFinal,
       StopCancels, WorkersRegistered
  <2>6. PartialHasWorker'
    BY <1>2 DEF Cancel, CancelAll, Discard, To, AssistsTyped, Stages, PartialHasWorker,
       StopCancels, NothingOutlivesSession, WorkersRegistered
  <2>7. NothingOutlivesSession'
    BY <1>2 DEF Cancel, CancelAll, Discard, To, AssistsTyped, Stages, NothingOutlivesSession
  <2>8. AnnouncedIsStored'
    BY <1>2 DEF Cancel, CancelAll, Discard, To, AssistsTyped, Stages, AnnouncedIsStored,
       StopCancels, ReadyIsFinal
  <2> QED
    BY <2>1, <2>2, <2>3, <2>4, <2>5, <2>6, <2>7, <2>8 DEF AssistInv
<1>3. ASSUME NEW as \in {"stop", "cleanup"}, StopSession(as) PROVE AssistInv'
  <2>1. ExecInv'
    BY <1>3, CallsUntouched, ExecutionAssumption DEF StopSession, CancelAll, Discard, To,
       ExecInv, ExecutionTypeOK, AssistsTyped
  <2>2. AssistsTyped'
    BY <1>3 DEF StopSession, CancelAll, Discard, To, AssistsTyped, Stages
  <2>3. WorkersRegistered'
    BY <1>3 DEF StopSession, CancelAll, Discard, To, AssistsTyped, Stages, WorkersRegistered
  <2>4. StopCancels'
    BY <1>3 DEF StopSession, CancelAll, Discard, To, AssistsTyped, Stages, StopCancels,
       WorkersRegistered
  <2>5. ReadyIsFinal'
    BY <1>3 DEF StopSession, CancelAll, Discard, To, AssistsTyped, Stages, ReadyIsFinal,
       StopCancels, WorkersRegistered
  <2>6. PartialHasWorker'
    BY <1>3 DEF StopSession, CancelAll, Discard, To, AssistsTyped, Stages, PartialHasWorker,
       StopCancels, NothingOutlivesSession, WorkersRegistered
  <2>7. NothingOutlivesSession'
    BY <1>3 DEF StopSession, CancelAll, Discard, To, AssistsTyped, Stages,
       NothingOutlivesSession
  <2>8. AnnouncedIsStored'
    BY <1>3 DEF StopSession, CancelAll, Discard, To, AssistsTyped, Stages, AnnouncedIsStored,
       StopCancels, ReadyIsFinal
  <2> QED
    BY <2>1, <2>2, <2>3, <2>4, <2>5, <2>6, <2>7, <2>8 DEF AssistInv
<1>4. CASE SessionStopped
  <2>1. ExecInv'
    BY <1>4, CallsUntouched, ExecutionAssumption DEF SessionStopped, NoFault, Fault, ExecInv,
       ExecutionTypeOK, AssistsTyped
  <2>2. AssistsTyped'
    BY <1>4 DEF SessionStopped, NoFault, Fault, AssistsTyped, Stages
  <2>3. WorkersRegistered'
    BY <1>4 DEF SessionStopped, NoFault, Fault, AssistsTyped, Stages, WorkersRegistered
  <2>4. StopCancels'
    BY <1>4 DEF SessionStopped, NoFault, Fault, AssistsTyped, Stages, StopCancels,
       WorkersRegistered
  <2>5. ReadyIsFinal'
    BY <1>4 DEF SessionStopped, NoFault, Fault, AssistsTyped, Stages, ReadyIsFinal,
       StopCancels, WorkersRegistered
  <2>6. PartialHasWorker'
    BY <1>4 DEF SessionStopped, NoFault, Fault, AssistsTyped, Stages, PartialHasWorker,
       StopCancels, NothingOutlivesSession, WorkersRegistered
  <2>7. NothingOutlivesSession'
    BY <1>4 DEF SessionStopped, NoFault, Fault, AssistsTyped, Stages, NothingOutlivesSession
  <2>8. AnnouncedIsStored'
    BY <1>4 DEF SessionStopped, NoFault, Fault, AssistsTyped, Stages, AnnouncedIsStored,
       StopCancels, ReadyIsFinal
  <2> QED
    BY <2>1, <2>2, <2>3, <2>4, <2>5, <2>6, <2>7, <2>8 DEF AssistInv
<1>5. CASE DeleteStopped
  <2>1. ExecInv'
    BY <1>5, CallsUntouched, ExecutionAssumption DEF DeleteStopped, ExecInv, ExecutionTypeOK,
       AssistsTyped
  <2>2. AssistsTyped'
    BY <1>5 DEF DeleteStopped, AssistsTyped, Stages
  <2>3. WorkersRegistered'
    BY <1>5 DEF DeleteStopped, AssistsTyped, Stages, WorkersRegistered
  <2>4. StopCancels'
    BY <1>5 DEF DeleteStopped, AssistsTyped, Stages, StopCancels, WorkersRegistered
  <2>5. ReadyIsFinal'
    BY <1>5 DEF DeleteStopped, AssistsTyped, Stages, ReadyIsFinal, StopCancels,
       WorkersRegistered
  <2>6. PartialHasWorker'
    BY <1>5 DEF DeleteStopped, AssistsTyped, Stages, PartialHasWorker, StopCancels,
       NothingOutlivesSession, WorkersRegistered
  <2>7. NothingOutlivesSession'
    BY <1>5 DEF DeleteStopped, AssistsTyped, Stages, NothingOutlivesSession
  <2>8. AnnouncedIsStored'
    BY <1>5 DEF DeleteStopped, AssistsTyped, Stages, AnnouncedIsStored, StopCancels,
       ReadyIsFinal
  <2> QED
    BY <2>1, <2>2, <2>3, <2>4, <2>5, <2>6, <2>7, <2>8 DEF AssistInv
<1>6. CASE DeleteRow
  <2>1. ExecInv'
    <3>1. ExecutionTypeOK'
      BY <1>6 DEF DeleteRow, ExecInv, ExecutionTypeOK
    <3>2. CallsOK'
      BY <1>6 DEF DeleteRow, ExecInv, ExecutionTypeOK, CallsOK, Earned, Approved
    <3> QED
      BY <1>6, <3>1, <3>2 DEF DeleteRow, ExecInv
  <2>2. AssistsTyped'
    BY <1>6 DEF DeleteRow, AssistsTyped, Stages
  <2>3. WorkersRegistered'
    BY <1>6 DEF DeleteRow, AssistsTyped, Stages, WorkersRegistered
  <2>4. StopCancels'
    BY <1>6 DEF DeleteRow, AssistsTyped, Stages, StopCancels, WorkersRegistered
  <2>5. ReadyIsFinal'
    BY <1>6 DEF DeleteRow, AssistsTyped, Stages, ReadyIsFinal, StopCancels, WorkersRegistered
  <2>6. PartialHasWorker'
    BY <1>6 DEF DeleteRow, AssistsTyped, Stages, PartialHasWorker, StopCancels,
       NothingOutlivesSession, WorkersRegistered
  <2>7. NothingOutlivesSession'
    BY <1>6 DEF DeleteRow, AssistsTyped, Stages, NothingOutlivesSession
  <2>8. AnnouncedIsStored'
    BY <1>6 DEF DeleteRow, AssistsTyped, Stages, AnnouncedIsStored, StopCancels, ReadyIsFinal
  <2> QED
    BY <2>1, <2>2, <2>3, <2>4, <2>5, <2>6, <2>7, <2>8 DEF AssistInv
<1>7. CASE PurgeSession
  <2>1. ExecInv'
    BY <1>7, CallsUntouched, ExecutionAssumption DEF PurgeSession, ExecInv, ExecutionTypeOK,
       AssistsTyped
  <2>2. AssistsTyped'
    BY <1>7 DEF PurgeSession, AssistsTyped, Stages
  <2>3. WorkersRegistered'
    BY <1>7 DEF PurgeSession, AssistsTyped, Stages, WorkersRegistered
  <2>4. StopCancels'
    BY <1>7 DEF PurgeSession, AssistsTyped, Stages, StopCancels, WorkersRegistered
  <2>5. ReadyIsFinal'
    BY <1>7 DEF PurgeSession, AssistsTyped, Stages, ReadyIsFinal, StopCancels, WorkersRegistered
  <2>6. PartialHasWorker'
    BY <1>7 DEF PurgeSession, AssistsTyped, Stages, PartialHasWorker, StopCancels,
       NothingOutlivesSession, WorkersRegistered
  <2>7. NothingOutlivesSession'
    BY <1>7 DEF PurgeSession, AssistsTyped, Stages, NothingOutlivesSession
  <2>8. AnnouncedIsStored'
    BY <1>7 DEF PurgeSession, AssistsTyped, Stages, AnnouncedIsStored, StopCancels, ReadyIsFinal
  <2> QED
    BY <2>1, <2>2, <2>3, <2>4, <2>5, <2>6, <2>7, <2>8 DEF AssistInv
<1>8. CASE PurgeDone
  <2>1. ExecInv'
    BY <1>8, CallsUntouched, ExecutionAssumption DEF PurgeDone, ExecInv, ExecutionTypeOK,
       AssistsTyped
  <2>2. AssistsTyped'
    BY <1>8 DEF PurgeDone, AssistsTyped, Stages
  <2>3. WorkersRegistered'
    BY <1>8 DEF PurgeDone, AssistsTyped, Stages, WorkersRegistered
  <2>4. StopCancels'
    BY <1>8 DEF PurgeDone, AssistsTyped, Stages, StopCancels, WorkersRegistered
  <2>5. ReadyIsFinal'
    BY <1>8 DEF PurgeDone, AssistsTyped, Stages, ReadyIsFinal, StopCancels, WorkersRegistered
  <2>6. PartialHasWorker'
    BY <1>8 DEF PurgeDone, AssistsTyped, Stages, PartialHasWorker, StopCancels,
       NothingOutlivesSession, WorkersRegistered
  <2>7. NothingOutlivesSession'
    BY <1>8 DEF PurgeDone, AssistsTyped, Stages, NothingOutlivesSession
  <2>8. AnnouncedIsStored'
    BY <1>8 DEF PurgeDone, AssistsTyped, Stages, AnnouncedIsStored, StopCancels, ReadyIsFinal
  <2> QED
    BY <2>1, <2>2, <2>3, <2>4, <2>5, <2>6, <2>7, <2>8 DEF AssistInv
<1>9. CASE PurgeGivesUp
  <2>1. ExecInv'
    BY <1>9, CallsUntouched, ExecutionAssumption DEF PurgeGivesUp, ExecInv, ExecutionTypeOK,
       AssistsTyped
  <2>2. AssistsTyped'
    BY <1>9 DEF PurgeGivesUp, AssistsTyped, Stages
  <2>3. WorkersRegistered'
    BY <1>9 DEF PurgeGivesUp, AssistsTyped, Stages, WorkersRegistered
  <2>4. StopCancels'
    BY <1>9 DEF PurgeGivesUp, AssistsTyped, Stages, StopCancels, WorkersRegistered
  <2>5. ReadyIsFinal'
    BY <1>9 DEF PurgeGivesUp, AssistsTyped, Stages, ReadyIsFinal, StopCancels, WorkersRegistered
  <2>6. PartialHasWorker'
    BY <1>9 DEF PurgeGivesUp, AssistsTyped, Stages, PartialHasWorker, StopCancels,
       NothingOutlivesSession, WorkersRegistered
  <2>7. NothingOutlivesSession'
    BY <1>9 DEF PurgeGivesUp, AssistsTyped, Stages, NothingOutlivesSession
  <2>8. AnnouncedIsStored'
    BY <1>9 DEF PurgeGivesUp, AssistsTyped, Stages, AnnouncedIsStored, StopCancels, ReadyIsFinal
  <2> QED
    BY <2>1, <2>2, <2>3, <2>4, <2>5, <2>6, <2>7, <2>8 DEF AssistInv
<1>10. CASE Reopen
  <2>1. ExecInv'
    BY <1>10, ChangesKeep DEF Reopen
  <2>2. AssistsTyped'
    BY <1>10 DEF Reopen, OpenProject, Change, AssistsTyped, Stages
  <2>3. WorkersRegistered'
    BY <1>10 DEF Reopen, OpenProject, Change, AssistsTyped, Stages, WorkersRegistered
  <2>4. StopCancels'
    BY <1>10 DEF Reopen, OpenProject, Change, AssistsTyped, Stages, StopCancels,
       WorkersRegistered
  <2>5. ReadyIsFinal'
    BY <1>10 DEF Reopen, OpenProject, Change, AssistsTyped, Stages, ReadyIsFinal, StopCancels,
       WorkersRegistered
  <2>6. PartialHasWorker'
    BY <1>10 DEF Reopen, OpenProject, Change, AssistsTyped, Stages, PartialHasWorker,
       StopCancels, NothingOutlivesSession, WorkersRegistered
  <2>7. NothingOutlivesSession'
    BY <1>10 DEF Reopen, OpenProject, Change, AssistsTyped, Stages, NothingOutlivesSession
  <2>8. AnnouncedIsStored'
    BY <1>10 DEF Reopen, OpenProject, Change, AssistsTyped, Stages, AnnouncedIsStored,
       StopCancels, ReadyIsFinal
  <2> QED
    BY <2>1, <2>2, <2>3, <2>4, <2>5, <2>6, <2>7, <2>8 DEF AssistInv
<1>11. CASE PolicyChanges
  <2>1. ExecInv'
    BY <1>11, ChangesKeep DEF PolicyChanges
  <2>2. AssistsTyped'
    BY <1>11 DEF PolicyChanges, ChangePolicy, AssistsTyped, Stages
  <2>3. WorkersRegistered'
    BY <1>11 DEF PolicyChanges, ChangePolicy, AssistsTyped, Stages, WorkersRegistered
  <2>4. StopCancels'
    BY <1>11 DEF PolicyChanges, ChangePolicy, AssistsTyped, Stages, StopCancels,
       WorkersRegistered
  <2>5. ReadyIsFinal'
    BY <1>11 DEF PolicyChanges, ChangePolicy, AssistsTyped, Stages, ReadyIsFinal, StopCancels,
       WorkersRegistered
  <2>6. PartialHasWorker'
    BY <1>11 DEF PolicyChanges, ChangePolicy, AssistsTyped, Stages, PartialHasWorker,
       StopCancels, NothingOutlivesSession, WorkersRegistered
  <2>7. NothingOutlivesSession'
    BY <1>11 DEF PolicyChanges, ChangePolicy, AssistsTyped, Stages, NothingOutlivesSession
  <2>8. AnnouncedIsStored'
    BY <1>11 DEF PolicyChanges, ChangePolicy, AssistsTyped, Stages, AnnouncedIsStored,
       StopCancels, ReadyIsFinal
  <2> QED
    BY <2>1, <2>2, <2>3, <2>4, <2>5, <2>6, <2>7, <2>8 DEF AssistInv
<1>12. ASSUME NEW a \in Assists, SavePartial(a) PROVE AssistInv'
  <2>1. ExecInv'
    BY <1>12, CallsUntouched, ExecutionAssumption DEF SavePartial, NoFault, Fault, To, ExecInv,
       ExecutionTypeOK, AssistsTyped
  <2>2. AssistsTyped'
    BY <1>12 DEF SavePartial, NoFault, Fault, To, MaySavePartial, Going, AssistsTyped, Stages
  <2>3. WorkersRegistered'
    BY <1>12 DEF SavePartial, NoFault, Fault, To, MaySavePartial, Going, AssistsTyped, Stages,
       WorkersRegistered
  <2>4. StopCancels'
    BY <1>12 DEF SavePartial, NoFault, Fault, To, MaySavePartial, Going, AssistsTyped, Stages,
       StopCancels, WorkersRegistered
  <2>5. ReadyIsFinal'
    BY <1>12 DEF SavePartial, NoFault, Fault, To, MaySavePartial, Going, AssistsTyped, Stages,
       ReadyIsFinal, StopCancels, WorkersRegistered
  <2>6. PartialHasWorker'
    BY <1>12 DEF SavePartial, NoFault, Fault, To, MaySavePartial, Going, AssistsTyped, Stages,
       PartialHasWorker, StopCancels, NothingOutlivesSession, WorkersRegistered
  <2>7. NothingOutlivesSession'
    BY <1>12 DEF SavePartial, NoFault, Fault, To, MaySavePartial, Going, AssistsTyped, Stages,
       NothingOutlivesSession
  <2>8. AnnouncedIsStored'
    BY <1>12 DEF SavePartial, NoFault, Fault, To, MaySavePartial, Going, AssistsTyped, Stages,
       AnnouncedIsStored, StopCancels, ReadyIsFinal
  <2> QED
    BY <2>1, <2>2, <2>3, <2>4, <2>5, <2>6, <2>7, <2>8 DEF AssistInv
<1>13. ASSUME NEW a \in Assists, AnswerLocally(a) PROVE AssistInv'
  <2>1. ExecInv'
    BY <1>13, CallsUntouched, ExecutionAssumption DEF AnswerLocally, ExecInv, ExecutionTypeOK,
       AssistsTyped
  <2>2. AssistsTyped'
    BY <1>13 DEF AnswerLocally, To, AssistsTyped, Stages
  <2>3. WorkersRegistered'
    BY <1>13 DEF AnswerLocally, To, AssistsTyped, Stages, WorkersRegistered
  <2>4. StopCancels'
    BY <1>13 DEF AnswerLocally, To, AssistsTyped, Stages, StopCancels, WorkersRegistered
  <2>5. ReadyIsFinal'
    BY <1>13 DEF AnswerLocally, To, AssistsTyped, Stages, ReadyIsFinal, StopCancels,
       WorkersRegistered
  <2>6. PartialHasWorker'
    BY <1>13 DEF AnswerLocally, To, AssistsTyped, Stages, PartialHasWorker, StopCancels,
       NothingOutlivesSession, WorkersRegistered
  <2>7. NothingOutlivesSession'
    BY <1>13 DEF AnswerLocally, To, AssistsTyped, Stages, NothingOutlivesSession
  <2>8. AnnouncedIsStored'
    BY <1>13 DEF AnswerLocally, To, AssistsTyped, Stages, AnnouncedIsStored, StopCancels,
       ReadyIsFinal
  <2> QED
    BY <2>1, <2>2, <2>3, <2>4, <2>5, <2>6, <2>7, <2>8 DEF AssistInv
<1>14. ASSUME NEW a \in Assists, AskProvider(a) PROVE AssistInv'
  <2>1. ExecInv'
    BY <1>14, BuiltCall DEF AskProvider
  <2>2. AssistsTyped'
    BY <1>14 DEF AskProvider, To, Going, Call, Goto, AssistsTyped, Stages
  <2>3. WorkersRegistered'
    BY <1>14 DEF AskProvider, To, Going, Call, Goto, AssistsTyped, Stages, WorkersRegistered
  <2>4. StopCancels'
    BY <1>14 DEF AskProvider, To, Going, Call, Goto, AssistsTyped, Stages, StopCancels,
       WorkersRegistered
  <2>5. ReadyIsFinal'
    BY <1>14 DEF AskProvider, To, Going, Call, Goto, AssistsTyped, Stages, ReadyIsFinal,
       StopCancels, WorkersRegistered
  <2>6. PartialHasWorker'
    BY <1>14 DEF AskProvider, To, Going, Call, Goto, AssistsTyped, Stages, PartialHasWorker,
       StopCancels, NothingOutlivesSession, WorkersRegistered
  <2>7. NothingOutlivesSession'
    BY <1>14 DEF AskProvider, To, Going, Call, Goto, AssistsTyped, Stages,
       NothingOutlivesSession
  <2>8. AnnouncedIsStored'
    BY <1>14 DEF AskProvider, To, Going, Call, Goto, AssistsTyped, Stages, AnnouncedIsStored,
       StopCancels, ReadyIsFinal
  <2> QED
    BY <2>1, <2>2, <2>3, <2>4, <2>5, <2>6, <2>7, <2>8 DEF AssistInv
<1>15. ASSUME NEW a \in Assists, NotAsked(a) PROVE AssistInv'
  <2>1. ExecInv'
    BY <1>15, CallsUntouched, ExecutionAssumption DEF NotAsked, ExecInv, ExecutionTypeOK,
       AssistsTyped
  <2>2. AssistsTyped'
    BY <1>15 DEF NotAsked, To, Going, AssistsTyped, Stages
  <2>3. WorkersRegistered'
    BY <1>15 DEF NotAsked, To, Going, AssistsTyped, Stages, WorkersRegistered
  <2>4. StopCancels'
    BY <1>15 DEF NotAsked, To, Going, AssistsTyped, Stages, StopCancels, WorkersRegistered
  <2>5. ReadyIsFinal'
    BY <1>15 DEF NotAsked, To, Going, AssistsTyped, Stages, ReadyIsFinal, StopCancels,
       WorkersRegistered
  <2>6. PartialHasWorker'
    BY <1>15 DEF NotAsked, To, Going, AssistsTyped, Stages, PartialHasWorker, StopCancels,
       NothingOutlivesSession, WorkersRegistered
  <2>7. NothingOutlivesSession'
    BY <1>15 DEF NotAsked, To, Going, AssistsTyped, Stages, NothingOutlivesSession
  <2>8. AnnouncedIsStored'
    BY <1>15 DEF NotAsked, To, Going, AssistsTyped, Stages, AnnouncedIsStored, StopCancels,
       ReadyIsFinal
  <2> QED
    BY <2>1, <2>2, <2>3, <2>4, <2>5, <2>6, <2>7, <2>8 DEF AssistInv
<1>16. ASSUME NEW a \in Assists, Execute(a) PROVE AssistInv'
  <2>1. ExecInv'
    BY <1>16, CallKeeps DEF Execute, CallStep
  <2>2. AssistsTyped'
    BY <1>16 DEF Execute, ExecuteStep, Authorize, RecordRun, Recheck, Invoke, WaitCancelled,
       WaitExpires, WaitAnswered, Validate, FinishRun, Goto, Raise, RaiseBare, ExecInv,
       ExecutionTypeOK, AssistsTyped, Stages
  <2>3. WorkersRegistered'
    BY <1>16 DEF Execute, ExecuteStep, Authorize, RecordRun, Recheck, Invoke, WaitCancelled,
       WaitExpires, WaitAnswered, Validate, FinishRun, Goto, Raise, RaiseBare, ExecInv,
       ExecutionTypeOK, AssistsTyped, Stages, WorkersRegistered
  <2>4. StopCancels'
    BY <1>16 DEF Execute, ExecuteStep, Authorize, RecordRun, Recheck, Invoke, WaitCancelled,
       WaitExpires, WaitAnswered, Validate, FinishRun, Goto, Raise, RaiseBare, ExecInv,
       ExecutionTypeOK, AssistsTyped, Stages, StopCancels, WorkersRegistered
  <2>5. ReadyIsFinal'
    BY <1>16 DEF Execute, ExecuteStep, Authorize, RecordRun, Recheck, Invoke, WaitCancelled,
       WaitExpires, WaitAnswered, Validate, FinishRun, Goto, Raise, RaiseBare, ExecInv,
       ExecutionTypeOK, AssistsTyped, Stages, ReadyIsFinal, StopCancels, WorkersRegistered
  <2>6. PartialHasWorker'
    BY <1>16 DEF Execute, ExecuteStep, Authorize, RecordRun, Recheck, Invoke, WaitCancelled,
       WaitExpires, WaitAnswered, Validate, FinishRun, Goto, Raise, RaiseBare, ExecInv,
       ExecutionTypeOK, AssistsTyped, Stages, PartialHasWorker, StopCancels,
       NothingOutlivesSession, WorkersRegistered
  <2>7. NothingOutlivesSession'
    BY <1>16 DEF Execute, ExecuteStep, Authorize, RecordRun, Recheck, Invoke, WaitCancelled,
       WaitExpires, WaitAnswered, Validate, FinishRun, Goto, Raise, RaiseBare, ExecInv,
       ExecutionTypeOK, AssistsTyped, Stages, NothingOutlivesSession
  <2>8. AnnouncedIsStored'
    BY <1>16 DEF Execute, ExecuteStep, Authorize, RecordRun, Recheck, Invoke, WaitCancelled,
       WaitExpires, WaitAnswered, Validate, FinishRun, Goto, Raise, RaiseBare, ExecInv,
       ExecutionTypeOK, AssistsTyped, Stages, AnnouncedIsStored, StopCancels, ReadyIsFinal
  <2> QED
    BY <2>1, <2>2, <2>3, <2>4, <2>5, <2>6, <2>7, <2>8 DEF AssistInv
<1>17. ASSUME NEW a \in Assists, Executed(a) PROVE AssistInv'
  <2>1. ExecInv'
    BY <1>17, CallsUntouched, ExecutionAssumption DEF Executed, NoFault, Fault, ExecInv,
       ExecutionTypeOK, AssistsTyped
  <2>2. AssistsTyped'
    BY <1>17 DEF Executed, NoFault, Fault, To, Going, AssistsTyped, Stages
  <2>3. WorkersRegistered'
    BY <1>17 DEF Executed, NoFault, Fault, To, Going, AssistsTyped, Stages, WorkersRegistered
  <2>4. StopCancels'
    BY <1>17 DEF Executed, NoFault, Fault, To, Going, AssistsTyped, Stages, StopCancels,
       WorkersRegistered
  <2>5. ReadyIsFinal'
    BY <1>17 DEF Executed, NoFault, Fault, To, Going, AssistsTyped, Stages, ReadyIsFinal,
       StopCancels, WorkersRegistered
  <2>6. PartialHasWorker'
    BY <1>17 DEF Executed, NoFault, Fault, To, Going, AssistsTyped, Stages, PartialHasWorker,
       StopCancels, NothingOutlivesSession, WorkersRegistered
  <2>7. NothingOutlivesSession'
    BY <1>17 DEF Executed, NoFault, Fault, To, Going, AssistsTyped, Stages,
       NothingOutlivesSession
  <2>8. AnnouncedIsStored'
    BY <1>17 DEF Executed, NoFault, Fault, To, Going, AssistsTyped, Stages, AnnouncedIsStored,
       StopCancels, ReadyIsFinal
  <2> QED
    BY <2>1, <2>2, <2>3, <2>4, <2>5, <2>6, <2>7, <2>8 DEF AssistInv
<1>18. ASSUME NEW a \in Assists, ReadCue(a) PROVE AssistInv'
  <2>1. ExecInv'
    BY <1>18, CallsUntouched, ExecutionAssumption DEF ReadCue, ExecInv, ExecutionTypeOK,
       AssistsTyped
  <2>2. AssistsTyped'
    BY <1>18 DEF ReadCue, To, AssistsTyped, Stages
  <2>3. WorkersRegistered'
    BY <1>18 DEF ReadCue, To, AssistsTyped, Stages, WorkersRegistered
  <2>4. StopCancels'
    BY <1>18 DEF ReadCue, To, AssistsTyped, Stages, StopCancels, WorkersRegistered
  <2>5. ReadyIsFinal'
    BY <1>18 DEF ReadCue, To, AssistsTyped, Stages, ReadyIsFinal, StopCancels, WorkersRegistered
  <2>6. PartialHasWorker'
    BY <1>18 DEF ReadCue, To, AssistsTyped, Stages, PartialHasWorker, StopCancels,
       NothingOutlivesSession, WorkersRegistered
  <2>7. NothingOutlivesSession'
    BY <1>18 DEF ReadCue, To, AssistsTyped, Stages, NothingOutlivesSession
  <2>8. AnnouncedIsStored'
    BY <1>18 DEF ReadCue, To, AssistsTyped, Stages, AnnouncedIsStored, StopCancels, ReadyIsFinal
  <2> QED
    BY <2>1, <2>2, <2>3, <2>4, <2>5, <2>6, <2>7, <2>8 DEF AssistInv
<1>19. ASSUME NEW a \in Assists, WriteCue(a) PROVE AssistInv'
  <2>1. ExecInv'
    BY <1>19, CallsUntouched, ExecutionAssumption DEF WriteCue, ExecInv, ExecutionTypeOK,
       AssistsTyped
  <2>2. AssistsTyped'
    BY <1>19 DEF WriteCue, To, Writable, AssistsTyped, Stages
  <2>3. WorkersRegistered'
    BY <1>19 DEF WriteCue, To, Writable, AssistsTyped, Stages, WorkersRegistered
  <2>4. StopCancels'
    BY <1>19 DEF WriteCue, To, Writable, AssistsTyped, Stages, StopCancels, WorkersRegistered
  <2>5. ReadyIsFinal'
    BY <1>19 DEF WriteCue, To, Writable, AssistsTyped, Stages, ReadyIsFinal, StopCancels,
       WorkersRegistered
  <2>6. PartialHasWorker'
    BY <1>19 DEF WriteCue, To, Writable, AssistsTyped, Stages, PartialHasWorker, StopCancels,
       NothingOutlivesSession, WorkersRegistered
  <2>7. NothingOutlivesSession'
    BY <1>19 DEF WriteCue, To, Writable, AssistsTyped, Stages, NothingOutlivesSession
  <2>8. AnnouncedIsStored'
    BY <1>19 DEF WriteCue, To, Writable, AssistsTyped, Stages, AnnouncedIsStored, StopCancels,
       ReadyIsFinal
  <2> QED
    BY <2>1, <2>2, <2>3, <2>4, <2>5, <2>6, <2>7, <2>8 DEF AssistInv
<1>20. ASSUME NEW a \in Assists, Announce(a) PROVE AssistInv'
  <2>1. ExecInv'
    BY <1>20, CallsUntouched, ExecutionAssumption DEF Announce, ExecInv, ExecutionTypeOK,
       AssistsTyped
  <2>2. AssistsTyped'
    BY <1>20 DEF Announce, To, AssistsTyped, Stages
  <2>3. WorkersRegistered'
    BY <1>20 DEF Announce, To, AssistsTyped, Stages, WorkersRegistered
  <2>4. StopCancels'
    BY <1>20 DEF Announce, To, AssistsTyped, Stages, StopCancels, WorkersRegistered
  <2>5. ReadyIsFinal'
    BY <1>20 DEF Announce, To, AssistsTyped, Stages, ReadyIsFinal, StopCancels,
       WorkersRegistered
  <2>6. PartialHasWorker'
    BY <1>20 DEF Announce, To, AssistsTyped, Stages, PartialHasWorker, StopCancels,
       NothingOutlivesSession, WorkersRegistered
  <2>7. NothingOutlivesSession'
    BY <1>20 DEF Announce, To, AssistsTyped, Stages, NothingOutlivesSession
  <2>8. AnnouncedIsStored'
    BY <1>20 DEF Announce, To, AssistsTyped, Stages, AnnouncedIsStored, StopCancels,
       ReadyIsFinal
  <2> QED
    BY <2>1, <2>2, <2>3, <2>4, <2>5, <2>6, <2>7, <2>8 DEF AssistInv
<1>21. ASSUME NEW a \in Assists, End(a) PROVE AssistInv'
  <2>1. ExecInv'
    BY <1>21, CallsUntouched, ExecutionAssumption DEF End, ExecInv, ExecutionTypeOK,
       AssistsTyped
  <2>2. AssistsTyped'
    BY <1>21 DEF End, To, Discard, AssistsTyped, Stages
  <2>3. WorkersRegistered'
    BY <1>21 DEF End, To, Discard, AssistsTyped, Stages, WorkersRegistered
  <2>4. StopCancels'
    BY <1>21 DEF End, To, Discard, AssistsTyped, Stages, StopCancels, WorkersRegistered
  <2>5. ReadyIsFinal'
    BY <1>21 DEF End, To, Discard, AssistsTyped, Stages, ReadyIsFinal, StopCancels,
       WorkersRegistered
  <2>6. PartialHasWorker'
    BY <1>21 DEF End, To, Discard, AssistsTyped, Stages, PartialHasWorker, StopCancels,
       NothingOutlivesSession, WorkersRegistered
  <2>7. NothingOutlivesSession'
    BY <1>21 DEF End, To, Discard, AssistsTyped, Stages, NothingOutlivesSession
  <2>8. AnnouncedIsStored'
    BY <1>21 DEF End, To, Discard, AssistsTyped, Stages, AnnouncedIsStored, StopCancels,
       ReadyIsFinal
  <2> QED
    BY <2>1, <2>2, <2>3, <2>4, <2>5, <2>6, <2>7, <2>8 DEF AssistInv
<1>22. ASSUME NEW a \in Assists, Adapter(a) PROVE AssistInv'
  <2>1. ExecInv'
    BY <1>22, AnswerKeeps DEF Adapter
  <2>2. AssistsTyped'
    BY <1>22 DEF Adapter, Answer, AssistsTyped, Stages
  <2>3. WorkersRegistered'
    BY <1>22 DEF Adapter, Answer, AssistsTyped, Stages, WorkersRegistered
  <2>4. StopCancels'
    BY <1>22 DEF Adapter, Answer, AssistsTyped, Stages, StopCancels, WorkersRegistered
  <2>5. ReadyIsFinal'
    BY <1>22 DEF Adapter, Answer, AssistsTyped, Stages, ReadyIsFinal, StopCancels,
       WorkersRegistered
  <2>6. PartialHasWorker'
    BY <1>22 DEF Adapter, Answer, AssistsTyped, Stages, PartialHasWorker, StopCancels,
       NothingOutlivesSession, WorkersRegistered
  <2>7. NothingOutlivesSession'
    BY <1>22 DEF Adapter, Answer, AssistsTyped, Stages, NothingOutlivesSession
  <2>8. AnnouncedIsStored'
    BY <1>22 DEF Adapter, Answer, AssistsTyped, Stages, AnnouncedIsStored, StopCancels,
       ReadyIsFinal
  <2> QED
    BY <2>1, <2>2, <2>3, <2>4, <2>5, <2>6, <2>7, <2>8 DEF AssistInv
<1>23. CASE UNCHANGED vars
  <2>1. ExecInv'
    BY <1>23, CallsUntouched DEF vars, ExecInv, ExecutionTypeOK, AssistsTyped
  <2> QED
    BY <1>23, <2>1 DEF vars, AssistsTyped, WorkersRegistered, StopCancels, ReadyIsFinal,
       PartialHasWorker, NothingOutlivesSession, AnnouncedIsStored
<1> QED
  BY <1>1, <1>2, <1>3, <1>4, <1>5, <1>6, <1>7, <1>8, <1>9, <1>10, <1>11, <1>12, <1>13, <1>14,
     <1>15, <1>16, <1>17, <1>18, <1>19, <1>20, <1>21, <1>22, <1>23 DEF Next, Requests,
     RequestStep,
     WorkerStep, Finished

\* The invariant holds throughout.
LEMMA Invariant == Spec => [](AssistInv /\ SeenTyped)
<1>1. AssistInv /\ SeenTyped /\ [Next]_vars => (AssistInv /\ SeenTyped)'
  BY AssistStep, SeenStep
<1> QED
  BY AssistInit, <1>1, PTL DEF Spec

-----------------------------------------------------------------------------
\* Every variable of the assists and of their calls keeps its type.
THEOREM TypeCorrect == Spec => []TypeOK
<1>1. AssistInv /\ SeenTyped => TypeOK
  BY DEF AssistInv, ExecInv, AssistsTyped, SeenTyped, TypeOK
<1> QED
  BY Invariant, <1>1, PTL

\* Cancelling, superseding, stopping and failing leave no partial cue behind.
THEOREM PartialCuesHaveWorkers == Spec => []PartialHasWorker
<1>1. AssistInv => PartialHasWorker
  BY DEF AssistInv
<1> QED
  BY Invariant, <1>1, PTL

\* Nothing a worker still writes outlives the row of a deleted session.
THEOREM DeletedSessionsAreEmpty == Spec => []NothingOutlivesSession
<1>1. AssistInv => NothingOutlivesSession
  BY DEF AssistInv
<1> QED
  BY Invariant, <1>1, PTL

\* An announced cue stays stored as long as its session.
THEOREM AnnouncedCuesAreStored == Spec => []AnnouncedIsStored
<1>1. AssistInv => AnnouncedIsStored
  BY DEF AssistInv
<1> QED
  BY Invariant, <1>1, PTL

\* A provider run of an assist that is recorded as a success was one.
THEOREM SuccessesAreEarned == Spec => []SuccessIsEarned
<1>1. AssistInv => SuccessIsEarned
  BY EarnedSuccess DEF AssistInv
<1> QED
  BY Invariant, <1>1, PTL

-----------------------------------------------------------------------------
(* Which slide is on screen: SlideTracking.                                *)

USE DEF P!SlideAssumption, P!Threads, P!Runs, P!Goto, P!Done, P!Persisting, P!Alive, P!durable,
   P!runVars, P!threads, P!request,
        P!history, P!bounds

\* The type invariant, in parts.
StoreTypes ==
    /\ show \in 0..LastSlide /\ active \in BOOLEAN /\ now \in Nat
    /\ timeline \in Seq([slide : P!Slides, at : Nat])
RunTypes ==
    /\ running \in 0..MaxRuns /\ made \in 0..MaxRuns
    /\ mode \in [P!Runs -> {"powerpoint", "manual"}] /\ stopSet \in [P!Runs -> BOOLEAN]
    /\ current \in [P!Runs -> 0..LastSlide] /\ watcher \in [P!Runs -> Watchers \cup {"none"}]
    /\ base \in [P!Runs -> Nat]
ThreadTypes ==
    /\ pc \in [P!Threads -> P!Places] /\ on \in [P!Threads -> P!Runs]
    /\ slide \in [P!Threads -> 0..LastSlide] /\ at \in [P!Threads -> Nat]
         /\ latest \in [P!Threads -> Nat]
RequestTypes == task \in P!Tasks /\ target \in 0..LastSlide /\ starting \in BOOLEAN
HistoryTypes == chosen \in 0..LastSlide /\ overrun \in BOOLEAN /\ disturbed \in BOOLEAN
BoundTypes == requests \in 0..MaxRequests /\ moves \in 0..MaxMoves
    /\ showFaults \in 0..MaxShowFaults

-----------------------------------------------------------------------------
(* Who works for which run.                                                *)

\* The registered run is the latest one, and a run that was not made yet is as at first. What
\* the request thread persists is for the registered run of an active session.
RunsAreLatest ==
    /\ running \in {0, made}
    /\ \A q \in P!Runs : q > made => current[q] = 0 /\ watcher[q] = "none"
    /\ \A q \in P!Runs : base[q] <= now
    /\ ~active => pc[P!Control] = "idle"
    /\ pc[P!Control] \in {"detect", "follow", "override", "switch", "switched", "navigate", "check",
                        "readdb", "insert", "apply", "watch"} => running # 0
    /\ pc[P!Control] \in {"follow", "switch", "switched", "navigate", "check", "readdb", "insert",
                        "apply", "watch"} => on[P!Control] = running
    /\ pc[P!Control] = "join" => on[P!Control] = running /\ running # 0

\* A watcher works for a run that was made and knows it as its watcher: a run has one at most.
WatchersAreKnown == \A w \in Watchers : P!Alive(w) => watcher[on[w]] = w /\ on[w] <= made

\* Where the request thread is, and what for.
TasksInPlace ==
    /\ task \in {"start", "detect"} \/ starting \/ pc[P!Control] = "start" => chosen = 0
    /\ pc[P!Control] \in {"detect", "follow"} => task = "detect"
    /\ pc[P!Control] \in {"switch", "switched"} => task \in P!Manual \cup {"detect"}
    /\ pc[P!Control] \in {"override", "navigate"} => task \in P!Manual
    /\ pc[P!Control] \in {"check", "readdb", "insert", "apply", "watch"} =>
          starting \/ task \in P!Manual \cup {"detect"}
    /\ starting => pc[P!Control] \in {"check", "readdb", "insert", "apply", "watch"}
    /\ pc[P!Control] = "stop" => task = "stop"
    /\ pc[P!Control] = "join" => task \in P!Manual \cup {"detect", "stop"}

\* Whoever persists a slide has one, and so has the presenter who sets one.
SlidesKnown ==
    /\ \A t \in P!Threads : pc[t] \in {"check", "readdb", "insert", "apply"} => slide[t] # 0
    /\ pc[P!Control] \in {"follow", "watch"} => slide[P!Control] # 0
    /\ task \in P!Manual => target # 0

\* The request thread has taken control of the run, or is waiting for its watcher.
TakesControl ==
    \/ pc[P!Control] \in {"switched", "navigate"}
    \/ pc[P!Control] = "join" /\ task # "stop"
    \/ pc[P!Control] \in {"check", "readdb", "insert", "apply"} /\ ~starting
         /\ task \in P!Manual

\* A presenter who took control has it: the run is manual and on the slide that was chosen,
\* and while the presenter takes it the run is manual already.
ControlIsHeld ==
    /\ running # 0 /\ chosen # 0 /\ ~overrun =>
          mode[running] = "manual" /\ current[running] = chosen
    /\ TakesControl => mode[running] = "manual"

\* A watcher of a manual run has nothing left to do but end, unless the request thread that
\* takes control waits for it.
WatcherLeaves ==
    running # 0 /\ mode[running] = "manual" /\ ~overrun /\ P!Alive(watcher[running]) =>
        \/ pc[watcher[running]] \in {"leaving", "wait"}
        \/ pc[P!Control] = "join" /\ task # "stop" /\ chosen = 0

-----------------------------------------------------------------------------
(* The timeline, while no two threads persist at once and no run continues *)
(* the timeline of another.                                                *)

\* Those who persist, and the watchers, work for the latest run, one at a time.
OnePersists ==
    /\ \A w \in Watchers : P!Alive(w) => on[w] = made /\ timeline # <<>>
    /\ \A t, u \in P!Threads : P!Persisting(t) /\ P!Persisting(u) => t = u
    /\ pc[P!Control] = "watch" => timeline # <<>>
    /\ starting /\ pc[P!Control] \in {"check", "readdb", "insert"} => timeline = <<>>

\* The times of the events are past, and before that of the event to come.
TimesArePast ==
    /\ \A i \in 1..Len(timeline) : made # 0 /\ timeline[i].at < now - base[made]
    /\ \A t \in P!Threads : pc[t] \in {"readdb", "insert"} =>
          /\ at[t] <= now - base[made]
          /\ \A i \in 1..Len(timeline) : timeline[i].at < at[t]
    /\ \A t \in P!Threads : pc[t] = "insert" => latest[t] <= at[t] /\ P!Latest # slide[t]

\* The timeline holds changes, in order, up to the slide the run is on or is about to be on.
ChangesInOrder ==
    /\ \A i \in 1..(Len(timeline) - 1) :
          /\ timeline[i].slide # timeline[i + 1].slide
          /\ timeline[i].at <= timeline[i + 1].at
    /\ \A t \in P!Threads : pc[t] = "apply" => timeline # <<>> /\ P!Latest = slide[t]
    /\ made # 0 /\ current[made] # 0 /\ (\A t \in P!Threads : pc[t] # "apply") =>
          timeline # <<>> /\ P!Latest = current[made]

TimelineInv == ~disturbed => OnePersists /\ TimesArePast /\ ChangesInOrder

SlideInv ==
    /\ StoreTypes /\ RunTypes /\ ThreadTypes /\ RequestTypes /\ HistoryTypes /\ BoundTypes
    /\ RunsAreLatest /\ WatchersAreKnown /\ TasksInPlace /\ SlidesKnown
    /\ ControlIsHeld /\ WatcherLeaves /\ TimelineInv

-----------------------------------------------------------------------------
\* Among natural numbers there is a lowest, and up to a bound a highest.
LEMMA LowestOf ==
    ASSUME NEW S \in SUBSET Nat, S # {}
    PROVE  \E x \in S : \A y \in S : x <= y
<1>1. PICK x \in S : \A y \in S : ~ (<<y, x>> \in OpToRel(<, Nat))
  BY WFMin, NatLessThanWellFounded
<1>2. ASSUME NEW y \in S PROVE x <= y
  <2>1. ~(<<y, x>>[1] < <<y, x>>[2])
    BY <1>1 DEF OpToRel
  <2> QED
    BY <2>1
<1> QED
  BY <1>2

\* Up to a bound there is also a highest.
LEMMA HighestOf ==
    ASSUME NEW n \in Nat, NEW S \in SUBSET 0..n, S # {}
    PROVE  \E x \in S : \A y \in S : x >= y
<1> DEFINE T == {n - x : x \in S}
<1>1. T \in SUBSET Nat /\ T # {}
  <2>1. \A x \in S : n - x \in Nat
    OBVIOUS
  <2> QED
    BY <2>1
<1>2. PICK z \in T : \A y \in T : z <= y
  BY <1>1, LowestOf
<1>3. PICK x \in S : z = n - x
  BY <1>2
<1>4. ASSUME NEW y \in S PROVE x >= y
  <2>1. z <= n - y
    BY <1>2
  <2> QED
    BY <1>3, <2>1
<1> QED
  BY <1>4

\* next_slide and previous_slide stay within the presentation.
LEMMA StepIsSlide ==
    ASSUME NEW s \in 0..LastSlide, task \in P!Manual
    PROVE  P!Step(s) \in P!Slides
<1> DEFINE here  == IF s = 0 THEN 1 ELSE s
           later == {x \in P!Shown : x > here}
           prior == {x \in P!Shown : x < here}
<1>1. here \in P!Slides /\ later \subseteq P!Slides /\ prior \subseteq P!Slides
          /\ LastSlide \in Nat
  BY SlideAssumed DEF P!Slides, P!Shown
<1>2. later # {} => (CHOOSE x \in later : \A y \in later : x <= y) \in later
  <2>0. later \in SUBSET Nat
    BY <1>1 DEF P!Slides
  <2>1. later # {} => \E x \in later : \A y \in later : x <= y
    BY <1>1, <2>0, LowestOf
  <2> QED
    BY <2>1
<1>3. prior # {} => (CHOOSE x \in prior : \A y \in prior : x >= y) \in prior
  <2>0. prior \in SUBSET (0..LastSlide)
    BY <1>1 DEF P!Slides
  <2>1. prior # {} => \E x \in prior : \A y \in prior : x >= y
    BY <1>1, <2>0, HighestOf
  <2> QED
    BY <2>1
<1> HIDE DEF here, later, prior
<1>4. P!Step(s) = IF task = "next"
               THEN IF later = {} THEN here ELSE CHOOSE x \in later : \A y \in later : x <= y
               ELSE IF prior = {} THEN here ELSE CHOOSE x \in prior : \A y \in prior : x >= y
  BY DEF P!Step, here, later, prior
<1> QED
  BY <1>1, <1>2, <1>3, <1>4

\* The last element of a sequence that has one.
LEMMA LastStands ==
    ASSUME NEW S, NEW q \in Seq(S), q # <<>>
    PROVE  Len(q) \in Nat /\ Len(q) >= 1 /\ P!Last(q) = q[Len(q)] /\ P!Last(q) \in S
<1>1. Len(q) \in Nat /\ Len(q) # 0
  OBVIOUS
<1>2. P!Last(q) = q[Len(q)]
  BY DEF P!Last
<1> QED
  BY <1>1, <1>2

\* What inserting an element makes of a sequence.
LEMMA PutIn ==
    ASSUME NEW S, NEW q \in Seq(S), NEW i \in 1..Len(q) + 1, NEW e \in S
    PROVE  /\ P!InsertAt(q, i, e) \in Seq(S) /\ Len(P!InsertAt(q, i, e)) = Len(q) + 1
           /\ i = Len(q) + 1 =>
                 /\ P!InsertAt(q, i, e)[i] = e
                 /\ \A k \in 1..Len(q) : P!InsertAt(q, i, e)[k] = q[k]
<1> DEFINE a == SubSeq(q, 1, i - 1)
           b == SubSeq(q, i, Len(q))
           c == a \o <<e>>
           r == P!InsertAt(q, i, e)
<1>1. Len(q) \in Nat /\ DOMAIN q = 1..Len(q)
  OBVIOUS
<1>2. a \in Seq(S) /\ Len(a) = i - 1 /\ \A k \in 1..i - 1 : a[k] = q[k]
  BY <1>1
<1>3. b \in Seq(S) /\ Len(b) = Len(q) + 1 - i
  BY <1>1
<1>4. r = c \o b
  BY DEF P!InsertAt
<1> HIDE DEF a, b, r
<1>5. c \in Seq(S) /\ Len(c) = i /\ c[i] = e
  BY <1>1, <1>2
<1>6. \A k \in 1..i - 1 : c[k] = q[k]
  BY <1>1, <1>2
<1> HIDE DEF c
<1>7. r \in Seq(S) /\ Len(r) = Len(q) + 1
  BY <1>1, <1>3, <1>4, <1>5
<1>8. \A k \in 1..i : r[k] = c[k]
  BY <1>1, <1>3, <1>4, <1>5
<1>9. ASSUME i = Len(q) + 1 PROVE r[i] = e /\ \A k \in 1..Len(q) : r[k] = q[k]
  BY <1>1, <1>5, <1>6, <1>8, <1>9
<1> QED
  BY <1>7, <1>9 DEF r

\* What follows persisting, case by case.
LEMMA PersistedMoves ==
    ASSUME NEW t \in P!Threads, P!Persisted(t)
    PROVE  \E x : /\ pc' = [pc EXCEPT ![t] = x]
                  /\ \/ /\ t # P!Control /\ x = "wait"
                        /\ UNCHANGED <<task, target, starting, chosen>>
                     \/ /\ t = P!Control /\ x = "watch"
                        /\ \/ starting /\ mode[on[t]] = "powerpoint"
                           \/ ~starting /\ task = "detect"
                        /\ UNCHANGED <<task, target, starting, chosen>>
                     \/ /\ t = P!Control /\ x = "override" /\ starting /\ task \in P!Manual
                        /\ starting' = FALSE /\ UNCHANGED <<task, target, chosen>>
                     \/ /\ t = P!Control /\ x = "idle"
                        /\ task' = "none" /\ starting' = FALSE /\ UNCHANGED target
                        /\ \/ starting /\ UNCHANGED chosen
                           \/ ~starting /\ task # "detect" /\ chosen' = slide[t]
<1>1. CASE t # P!Control
  BY <1>1 DEF P!Persisted
<1>2. CASE t = P!Control /\ (IF starting THEN mode[on[t]] = "powerpoint" ELSE task = "detect")
  BY <1>2 DEF P!Persisted
<1>3. CASE t = P!Control /\ ~(IF starting THEN mode[on[t]] = "powerpoint" ELSE task = "detect")
  <2>1. CASE starting /\ task \in P!Manual
    BY <1>3, <2>1 DEF P!Persisted
  <2>2. CASE ~(starting /\ task \in P!Manual)
    BY <1>3, <2>2 DEF P!Persisted
  <2> QED
    BY <2>1, <2>2
<1> QED
  BY <1>1, <1>2, <1>3

\* PowerPoint moves: only what it shows changes.
LEMMA MoveKeeps == ASSUME SlideInv, P!Move PROVE SlideInv'
<1> USE SlideAssumed DEF SlideInv
<1>1. (StoreTypes /\ RunTypes /\ ThreadTypes /\ RequestTypes /\ HistoryTypes /\ BoundTypes)'
  <2>1. StoreTypes'
    BY DEF P!Move, StoreTypes, SlidesKnown, TasksInPlace
  <2>2. RunTypes'
    BY DEF P!Move, RunTypes
  <2>3. ThreadTypes'
    BY DEF P!Move, ThreadTypes, P!Places
  <2>4. RequestTypes'
    BY DEF P!Move, RequestTypes, P!Tasks
  <2>5. HistoryTypes'
    BY DEF P!Move, HistoryTypes
  <2>6. BoundTypes'
    BY DEF P!Move, BoundTypes, P!Fault, P!NoFault
  <2> QED
    BY <2>1, <2>2, <2>3, <2>4, <2>5, <2>6
<1>2. RunsAreLatest'
  BY DEF P!Move, StoreTypes, RunTypes, ThreadTypes, RunsAreLatest, TasksInPlace
<1>3. WatchersAreKnown'
  BY DEF P!Move, RunTypes, ThreadTypes, RunsAreLatest, WatchersAreKnown
<1>4. TasksInPlace'
  BY DEF P!Move, P!Manual, RequestTypes, ThreadTypes, TasksInPlace, RunsAreLatest
<1>5. SlidesKnown'
  BY DEF P!Move, P!Manual, StoreTypes, ThreadTypes, RequestTypes, SlidesKnown, TasksInPlace
<1>6. ControlIsHeld'
  BY DEF P!Move, RunTypes, ThreadTypes, RequestTypes, RunsAreLatest, WatchersAreKnown,
     TasksInPlace, ControlIsHeld, TakesControl, WatcherLeaves
<1>7. WatcherLeaves'
  BY DEF P!Move, RunTypes, ThreadTypes, RequestTypes, RunsAreLatest, WatchersAreKnown,
     TasksInPlace, ControlIsHeld, TakesControl, WatcherLeaves
<1>8. TimelineInv'
  <2> SUFFICES ASSUME ~disturbed' PROVE (OnePersists /\ TimesArePast /\ ChangesInOrder)'
    BY DEF TimelineInv
  <2>0. ~disturbed /\ OnePersists /\ TimesArePast /\ ChangesInOrder
    BY DEF P!Move, TimelineInv
  <2>1. OnePersists'
    BY <2>0 DEF P!Move, RunTypes, ThreadTypes, RunsAreLatest, WatchersAreKnown, TasksInPlace,
       SlidesKnown, OnePersists, ChangesInOrder
  <2>2. TimesArePast'
    BY <2>0 DEF P!Move, StoreTypes, RunTypes, ThreadTypes, RunsAreLatest, TasksInPlace,
       OnePersists, TimesArePast, P!Latest
  <2>3. ChangesInOrder'
    BY <2>0 DEF P!Move, StoreTypes, RunTypes, ThreadTypes, RunsAreLatest, TasksInPlace,
       OnePersists, TimesArePast, ChangesInOrder, P!Latest
  <2> QED
    BY <2>1, <2>2, <2>3
<1> QED
  BY <1>1, <1>2, <1>3, <1>4, <1>5, <1>6, <1>7, <1>8

\* A request takes its task and its target; until its run starts nothing else follows from it.
LEMMA RequestKeeps == ASSUME SlideInv, P!Request PROVE SlideInv'
<1> USE SlideAssumed DEF SlideInv
<1>c. /\ task' \in P!Manual \cup {"detect", "stop"} /\ target' \in P!Slides
           /\ starting' = FALSE /\ active
      /\ chosen' = IF task' = "detect" \/ running = 0 THEN 0 ELSE chosen
      /\ pc[P!Control] = "idle" /\ requests' = requests + 1 /\ requests < MaxRequests
      /\ UNCHANGED <<show, active, timeline, running, mode, stopSet, current, watcher, base,
                     made,
                     on, slide, at, latest, now, overrun, disturbed, moves, showFaults>>
  BY DEF P!Request
<1>d. PICK x : /\ pc' = [pc EXCEPT ![P!Control] = x]
               /\ \/ task' = "stop" /\ x = "stop"
                  \/ task' # "stop" /\ running = 0 /\ x = "start"
                  \/ task' = "detect" /\ running # 0 /\ x = "detect"
                  \/ task' \in P!Manual /\ running # 0 /\ x = "override"
  BY DEF P!Request, P!Manual
<1>1. (StoreTypes /\ RunTypes /\ ThreadTypes /\ RequestTypes /\ HistoryTypes /\ BoundTypes)'
  <2>1. StoreTypes'
    BY <1>c, <1>d DEF StoreTypes, SlidesKnown, TasksInPlace
  <2>2. RunTypes'
    BY <1>c, <1>d DEF RunTypes
  <2>3. ThreadTypes'
    BY <1>c, <1>d DEF ThreadTypes, P!Places
  <2>4. RequestTypes'
    <3>1. task' \in P!Tasks
      BY <1>c, <1>d DEF RequestTypes, P!Tasks
    <3>2. target' \in 0..LastSlide
      BY <1>c DEF P!Slides
    <3>3. starting' \in BOOLEAN
      BY <1>c, <1>d DEF RequestTypes, P!Tasks
    <3> QED
      BY <3>1, <3>2, <3>3 DEF RequestTypes
  <2>5. HistoryTypes'
    BY <1>c, <1>d DEF HistoryTypes
  <2>6. BoundTypes'
    BY <1>c, <1>d DEF BoundTypes, P!Fault, P!NoFault
  <2> QED
    BY <2>1, <2>2, <2>3, <2>4, <2>5, <2>6
<1>2. RunsAreLatest'
  BY <1>c, <1>d DEF StoreTypes, RunTypes, ThreadTypes, RunsAreLatest, TasksInPlace
<1>3. WatchersAreKnown'
  BY <1>c, <1>d DEF RunTypes, ThreadTypes, RunsAreLatest, WatchersAreKnown
<1>4. TasksInPlace'
  <2>1. (task \in {"start", "detect"} \/ starting \/ pc[P!Control] = "start" => chosen = 0)'
    BY <1>c, <1>d DEF P!Manual, RequestTypes, ThreadTypes, TasksInPlace, RunsAreLatest
  <2>2. (pc[P!Control] \in {"detect", "follow"} => task = "detect")'
    BY <1>c, <1>d DEF P!Manual, RequestTypes, ThreadTypes, TasksInPlace, RunsAreLatest
  <2>3. (pc[P!Control] \in {"switch", "switched"} => task \in P!Manual \cup {"detect"})'
    BY <1>c, <1>d DEF P!Manual, RequestTypes, ThreadTypes, TasksInPlace, RunsAreLatest
  <2>4. (pc[P!Control] \in {"override", "navigate"} => task \in P!Manual)'
    BY <1>c, <1>d DEF P!Manual, RequestTypes, ThreadTypes, TasksInPlace, RunsAreLatest
  <2>5. (pc[P!Control] \in {"check", "readdb", "insert", "apply", "watch"} =>
     starting \/ task \in P!Manual \cup {"detect"})'
    BY <1>c, <1>d DEF P!Manual, RequestTypes, ThreadTypes, TasksInPlace, RunsAreLatest
  <2>6. (starting => pc[P!Control] \in {"check", "readdb", "insert", "apply", "watch"})'
    BY <1>c, <1>d DEF P!Manual, RequestTypes, ThreadTypes, TasksInPlace, RunsAreLatest
  <2>7. (pc[P!Control] = "stop" => task = "stop")'
    BY <1>c, <1>d DEF P!Manual, RequestTypes, ThreadTypes, TasksInPlace, RunsAreLatest
  <2>8. (pc[P!Control] = "join" => task \in P!Manual \cup {"detect", "stop"})'
    BY <1>c, <1>d DEF P!Manual, RequestTypes, ThreadTypes, TasksInPlace, RunsAreLatest
  <2> QED
    BY <2>1, <2>2, <2>3, <2>4, <2>5, <2>6, <2>7, <2>8 DEF TasksInPlace
<1>5. SlidesKnown'
  <2>1. ASSUME NEW u \in P!Threads, pc'[u] \in {"check", "readdb", "insert", "apply"}
        PROVE  slide'[u] # 0
    BY <2>1, <1>c, <1>d DEF P!Manual, StoreTypes, ThreadTypes, RequestTypes, SlidesKnown,
       TasksInPlace
  <2>2. (pc[P!Control] \in {"follow", "watch"} => slide[P!Control] # 0)'
    BY <1>c, <1>d DEF P!Manual, StoreTypes, ThreadTypes, RequestTypes, SlidesKnown, TasksInPlace
  <2>3. (task \in P!Manual => target # 0)'
    BY <1>c, SlideAssumed DEF P!Slides
  <2> QED
    BY <2>1, <2>2, <2>3 DEF SlidesKnown
<1>6. ControlIsHeld'
  BY <1>c, <1>d DEF RunTypes, ThreadTypes, RequestTypes, RunsAreLatest, WatchersAreKnown,
     TasksInPlace, ControlIsHeld, TakesControl, WatcherLeaves
<1>7. WatcherLeaves'
  BY <1>c, <1>d DEF RunTypes, ThreadTypes, RequestTypes, RunsAreLatest, WatchersAreKnown,
     TasksInPlace, ControlIsHeld, TakesControl, WatcherLeaves
<1>8. TimelineInv'
  <2> SUFFICES ASSUME ~disturbed' PROVE (OnePersists /\ TimesArePast /\ ChangesInOrder)'
    BY DEF TimelineInv
  <2>0. ~disturbed /\ OnePersists /\ TimesArePast /\ ChangesInOrder
    BY DEF P!Request, TimelineInv
  <2>1. OnePersists'
    BY <2>0, <1>c, <1>d DEF RunTypes, ThreadTypes, RunsAreLatest, WatchersAreKnown,
       TasksInPlace, SlidesKnown, OnePersists, ChangesInOrder
  <2>2. TimesArePast'
    BY <2>0, <1>c, <1>d DEF StoreTypes, RunTypes, ThreadTypes, RunsAreLatest, TasksInPlace,
       OnePersists, TimesArePast, P!Latest
  <2>3. ChangesInOrder'
    BY <2>0, <1>c, <1>d DEF StoreTypes, RunTypes, ThreadTypes, RunsAreLatest, TasksInPlace,
       OnePersists, TimesArePast, ChangesInOrder, P!Latest
  <2> QED
    BY <2>1, <2>2, <2>3
<1> QED
  BY <1>1, <1>2, <1>3, <1>4, <1>5, <1>6, <1>7, <1>8

\* A new run is the latest of all, so no watcher of it lives and nothing is read for it yet.
LEMMA StartRunKeeps == ASSUME SlideInv, P!StartRun PROVE SlideInv'
<1> USE SlideAssumed DEF SlideInv
<1>a. made + 1 \in P!Runs /\ made + 1 > made /\ made + 1 # 0
  BY DEF P!StartRun, RunTypes
<1>b. PICK s \in P!Slides : slide' = [slide EXCEPT ![P!Control] = s]
  BY DEF P!StartRun
<1>c. /\ made' = made + 1 /\ running' = made + 1 /\ starting' = TRUE /\ pc[P!Control] = "start"
      /\ mode' = [mode EXCEPT ![made + 1] = IF show # 0 THEN "powerpoint" ELSE "manual"]
      /\ base' = [base EXCEPT ![made + 1] = now] /\ on' = [on EXCEPT ![P!Control] = made + 1]
      /\ pc' = [pc EXCEPT ![P!Control] = "check"] /\ disturbed' = (disturbed \/ timeline # <<>>)
      /\ UNCHANGED <<show, active, timeline, stopSet, current, watcher, at, latest, task,
                     target,
                     now, chosen, overrun, requests, moves, showFaults>>
  BY DEF P!StartRun

<1>d. /\ pc'[P!Control] = "check" /\ slide'[P!Control] = s /\ on'[P!Control] = made + 1
      /\ \A u \in Watchers : u # P!Control /\ pc'[u] = pc[u] /\ slide'[u] = slide[u]
           /\ on'[u] = on[u]
  BY <1>b, <1>c DEF ThreadTypes
<1>1. (StoreTypes /\ RunTypes /\ ThreadTypes /\ RequestTypes /\ HistoryTypes /\ BoundTypes)'
  <2>1. StoreTypes'
    BY <1>a, <1>b, <1>c DEF StoreTypes, SlidesKnown, TasksInPlace
  <2>2. RunTypes'
    <3>1. (running \in 0..MaxRuns /\ made \in 0..MaxRuns)'
      BY <1>a, <1>b, <1>c DEF RunTypes, StoreTypes
    <3>2. mode' \in [P!Runs -> {"powerpoint", "manual"}]
      BY <1>a, <1>b, <1>c DEF RunTypes, StoreTypes
    <3>3. stopSet' \in [P!Runs -> BOOLEAN]
      BY <1>a, <1>b, <1>c DEF RunTypes, StoreTypes
    <3>4. current' \in [P!Runs -> 0..LastSlide]
      BY <1>a, <1>b, <1>c DEF RunTypes, StoreTypes
    <3>5. watcher' \in [P!Runs -> Watchers \cup {"none"}]
      BY <1>a, <1>b, <1>c DEF RunTypes, StoreTypes
    <3>6. base' \in [P!Runs -> Nat]
      BY <1>a, <1>b, <1>c DEF RunTypes, StoreTypes
    <3> QED
      BY <3>1, <3>2, <3>3, <3>4, <3>5, <3>6 DEF RunTypes
  <2>3. ThreadTypes'
    <3>1. pc' \in [P!Threads -> P!Places]
      BY <1>a, <1>b, <1>c DEF ThreadTypes, P!Places, RunTypes, P!Slides
    <3>2. on' \in [P!Threads -> P!Runs]
      BY <1>a, <1>b, <1>c DEF ThreadTypes, P!Places, RunTypes, P!Slides
    <3>3. slide' \in [P!Threads -> 0..LastSlide]
      BY <1>a, <1>b, <1>c DEF ThreadTypes, P!Places, RunTypes, P!Slides
    <3>4. at' \in [P!Threads -> Nat] /\ latest' \in [P!Threads -> Nat]
      BY <1>a, <1>b, <1>c DEF ThreadTypes, P!Places, RunTypes, P!Slides
    <3> QED
      BY <3>1, <3>2, <3>3, <3>4 DEF ThreadTypes
  <2>4. RequestTypes'
    BY <1>a, <1>b, <1>c DEF RequestTypes, P!Tasks
  <2>5. HistoryTypes'
    BY <1>a, <1>b, <1>c DEF HistoryTypes
  <2>6. BoundTypes'
    BY <1>a, <1>b, <1>c DEF BoundTypes, P!Fault, P!NoFault
  <2> QED
    BY <2>1, <2>2, <2>3, <2>4, <2>5, <2>6
<1>2. RunsAreLatest'
  <2>1. (running \in {0, made})'
    BY <1>a, <1>b, <1>c DEF StoreTypes, RunTypes, ThreadTypes, RunsAreLatest, TasksInPlace
  <2>2. \A q \in P!Runs : q > made' => current'[q] = 0 /\ watcher'[q] = "none"
    BY <1>a, <1>c DEF RunTypes, RunsAreLatest
  <2>3. \A q \in P!Runs : base'[q] <= now'
    BY <1>a, <1>b, <1>c DEF StoreTypes, RunTypes, ThreadTypes, RunsAreLatest, TasksInPlace
  <2>4. (~active => pc[P!Control] = "idle")'
    BY <1>a, <1>b, <1>c DEF StoreTypes, RunTypes, ThreadTypes, RunsAreLatest, TasksInPlace
  <2>5. (pc[P!Control] \in {"detect", "follow", "override", "switch", "switched", "navigate", "check",
                   "readdb", "insert", "apply", "watch"} => running # 0)'
    BY <1>a, <1>b, <1>c DEF StoreTypes, RunTypes, ThreadTypes, RunsAreLatest, TasksInPlace
  <2>6. (pc[P!Control] \in {"follow", "switch", "switched", "navigate", "check", "readdb", "insert",
                   "apply", "watch"} => on[P!Control] = running)'
    BY <1>a, <1>b, <1>c DEF StoreTypes, RunTypes, ThreadTypes, RunsAreLatest, TasksInPlace
  <2>7. (pc[P!Control] = "join" => on[P!Control] = running /\ running # 0)'
    BY <1>a, <1>b, <1>c DEF StoreTypes, RunTypes, ThreadTypes, RunsAreLatest, TasksInPlace
  <2> QED
    BY <2>1, <2>2, <2>3, <2>4, <2>5, <2>6, <2>7 DEF RunsAreLatest
<1>3. WatchersAreKnown'
  <2>1. ASSUME NEW u \in Watchers, pc'[u] # "dead" PROVE watcher'[on'[u]] = u /\ on'[u] <= made'
    BY <1>a, <1>c, <1>d, <2>1 DEF RunTypes, ThreadTypes, WatchersAreKnown
  <2> QED
    BY <2>1 DEF WatchersAreKnown
<1>4. TasksInPlace'
  BY <1>a, <1>b, <1>c DEF P!Manual, RequestTypes, ThreadTypes, TasksInPlace, RunsAreLatest
<1>5. SlidesKnown'
  <2>1. ASSUME NEW u \in P!Threads, pc'[u] \in {"check", "readdb", "insert", "apply"}
        PROVE  slide'[u] # 0
    BY <1>c, <1>d, <2>1 DEF SlidesKnown, P!Slides
  <2>2. (pc[P!Control] \in {"follow", "watch"} => slide[P!Control] # 0)'
    BY <1>a, <1>b, <1>c DEF P!Manual, StoreTypes, ThreadTypes, RequestTypes, SlidesKnown,
       TasksInPlace
  <2>3. (task \in P!Manual => target # 0)'
    BY <1>a, <1>b, <1>c DEF P!Manual, StoreTypes, ThreadTypes, RequestTypes, SlidesKnown,
       TasksInPlace
  <2> QED
    BY <2>1, <2>2, <2>3 DEF SlidesKnown
<1>6. ControlIsHeld'
  BY <1>a, <1>b, <1>c DEF RunTypes, ThreadTypes, RequestTypes, RunsAreLatest, WatchersAreKnown,
     TasksInPlace, ControlIsHeld, TakesControl, WatcherLeaves
<1>7. WatcherLeaves'
  BY <1>a, <1>b, <1>c DEF RunTypes, ThreadTypes, RequestTypes, RunsAreLatest, WatchersAreKnown,
     TasksInPlace, ControlIsHeld, TakesControl, WatcherLeaves
<1>8. TimelineInv'
  <2> SUFFICES ASSUME ~disturbed' PROVE (OnePersists /\ TimesArePast /\ ChangesInOrder)'
    BY DEF TimelineInv
  <2>0. ~disturbed /\ OnePersists /\ TimesArePast /\ ChangesInOrder
    BY DEF P!StartRun, TimelineInv
  <2>1. OnePersists'
    BY <2>0, <1>a, <1>b, <1>c DEF RunTypes, ThreadTypes, RunsAreLatest, WatchersAreKnown,
       TasksInPlace, SlidesKnown, OnePersists, ChangesInOrder
  <2>2. TimesArePast'
    <3>1. ASSUME NEW i \in 1..Len(timeline')
          PROVE  made' # 0 /\ timeline'[i].at < now' - base'[made']
      BY <3>1, <2>0, <1>a, <1>b, <1>c DEF StoreTypes, RunTypes, ThreadTypes, RunsAreLatest,
         TasksInPlace, OnePersists, TimesArePast, P!Latest
    <3>2. ASSUME NEW u \in P!Threads, pc'[u] \in {"readdb", "insert"}
          PROVE  at'[u] <= now' - base'[made']
      BY <3>2, <2>0, <1>a, <1>b, <1>c DEF StoreTypes, RunTypes, ThreadTypes, RunsAreLatest,
         TasksInPlace, OnePersists, TimesArePast, P!Latest
    <3>3. ASSUME NEW u \in P!Threads, pc'[u] \in {"readdb", "insert"}, NEW i \in 1..Len(timeline')
 PROVE  timeline'[i].at < at'[u]
      BY <3>3, <2>0, <1>a, <1>b, <1>c DEF StoreTypes, RunTypes, ThreadTypes, RunsAreLatest,
         TasksInPlace, OnePersists, TimesArePast, P!Latest
    <3>4. ASSUME NEW u \in P!Threads, pc'[u] = "insert"
          PROVE  latest'[u] <= at'[u] /\ P!Latest' # slide'[u]
      BY <3>4, <2>0, <1>a, <1>b, <1>c DEF StoreTypes, RunTypes, ThreadTypes, RunsAreLatest,
         TasksInPlace, OnePersists, TimesArePast, P!Latest
    <3> QED
      BY <3>1, <3>2, <3>3, <3>4 DEF TimesArePast
  <2>3. ChangesInOrder'
    BY <2>0, <1>a, <1>b, <1>c DEF StoreTypes, RunTypes, ThreadTypes, RunsAreLatest,
       TasksInPlace, OnePersists, TimesArePast, ChangesInOrder, P!Latest
  <2> QED
    BY <2>1, <2>2, <2>3
<1> QED
  BY <1>1, <1>2, <1>3, <1>4, <1>5, <1>6, <1>7, <1>8

\* The watcher is one that had ended, and becomes the only one of the latest run.
LEMMA StartWatcherKeeps == ASSUME SlideInv, P!StartWatcher PROVE SlideInv'
<1> USE SlideAssumed DEF SlideInv
<1>a. /\ pc[P!Control] = "watch" /\ starting' = FALSE
           /\ task' = IF task \in P!Manual THEN task ELSE "none"
      /\ UNCHANGED <<show, active, timeline, running, mode, current, base, made, slide, at,
                     latest,
                     target, now, chosen, overrun, disturbed, requests, moves, showFaults>>
  BY DEF P!StartWatcher
<1>r. /\ on[P!Control] = running /\ running \in P!Runs /\ running = made
      /\ (starting \/ task \in P!Manual \cup {"detect"}) /\ slide[P!Control] # 0
  BY <1>a DEF RunTypes, RunsAreLatest, TasksInPlace, SlidesKnown
<1>b. PICK w \in Watchers :
        \/ /\ P!Alive(watcher[running]) /\ w = watcher[running] /\ UNCHANGED <<stopSet,
                                                                               watcher, on>>
           /\ pc' = [pc EXCEPT ![P!Control] = IF task \in P!Manual THEN "override" ELSE "idle"]
        \/ /\ ~P!Alive(watcher[running]) /\ pc[w] = "dead"
                /\ \A q \in P!Runs \ {running} : watcher[q] # w
           /\ stopSet' = [stopSet EXCEPT ![running] = FALSE]
           /\ watcher' = [watcher EXCEPT ![running] = w] /\ on' = [on EXCEPT ![w] = running]
           /\ pc' = [pc EXCEPT ![w] = "wait",
                               ![P!Control] = IF task \in P!Manual THEN "override" ELSE "idle"]
  BY <1>r DEF P!StartWatcher
<1>p. pc'[w] \in {pc[w], "wait"} /\ \A u \in Watchers : u # P!Control /\ (u # w
          => pc'[u] = pc[u])
  BY <1>b DEF ThreadTypes
<1>q. pc'[P!Control] = (IF task \in P!Manual THEN "override" ELSE "idle")
  BY <1>b, <1>r DEF ThreadTypes
<1>s. \/ pc'[w] = pc[w] /\ on' = on /\ watcher' = watcher /\ P!Alive(watcher[running])
      \/ /\ pc[w] = "dead" /\ pc'[w] = "wait" /\ on'[w] = running /\ watcher'[running] = w
         /\ \A q \in P!Runs \ {running} : watcher'[q] = watcher[q] /\ watcher[q] # w
         /\ \A u \in P!Threads : u # w => on'[u] = on[u]
         /\ ~P!Alive(watcher[running])
  <2>1. CASE P!Alive(watcher[running])
    BY <1>b, <2>1 DEF ThreadTypes
  <2>2. CASE ~P!Alive(watcher[running])
    <3>1. pc'[w] = "wait" /\ on'[w] = running /\ pc[w] = "dead"
      BY <1>b, <2>2 DEF ThreadTypes
    <3>2. /\ watcher'[running] = w
          /\ \A q \in P!Runs \ {running} : watcher'[q] = watcher[q] /\ watcher[q] # w
          /\ \A u \in P!Threads : u # w => on'[u] = on[u]
      BY <1>b, <1>r, <2>2 DEF ThreadTypes, RunTypes
    <3> QED
      BY <2>2, <3>1, <3>2
  <2> QED
    BY <2>1, <2>2
<1>c. /\ pc'[P!Control] = (IF task \in P!Manual THEN "override" ELSE "idle")
           /\ on'[P!Control] = running
      /\ \A u \in Watchers : u # P!Control /\ (u # w => pc'[u] = pc[u] /\ on'[u] = on[u])
      /\ \A u \in P!Threads : pc'[u] # pc[u] => pc'[u] \in {"override", "idle", "wait"}
      /\ \/ pc'[w] = pc[w] /\ on'[w] = on[w] /\ watcher' = watcher /\ P!Alive(watcher[running])
         \/ /\ pc[w] = "dead" /\ pc'[w] = "wait" /\ on'[w] = running /\ watcher'[running] = w
            /\ \A q \in P!Runs \ {running} : watcher'[q] = watcher[q] /\ watcher[q] # w
            /\ ~P!Alive(watcher[running])
  BY <1>p, <1>q, <1>r, <1>s
<1>1. (StoreTypes /\ RunTypes /\ ThreadTypes /\ RequestTypes /\ HistoryTypes /\ BoundTypes)'
  <2>1. StoreTypes'
    BY <1>a, <1>b, <1>r DEF StoreTypes, SlidesKnown, TasksInPlace
  <2>2. RunTypes'
    <3>1. (running \in 0..MaxRuns /\ made \in 0..MaxRuns)'
      BY <1>a, <1>b, <1>r DEF RunTypes, ThreadTypes
    <3>2. mode' \in [P!Runs -> {"powerpoint", "manual"}]
      BY <1>a, <1>b, <1>r DEF RunTypes, ThreadTypes
    <3>3. stopSet' \in [P!Runs -> BOOLEAN]
      BY <1>b, <1>r DEF RunTypes
    <3>4. current' \in [P!Runs -> 0..LastSlide]
      BY <1>a, <1>b, <1>r DEF RunTypes, ThreadTypes
    <3>5. watcher' \in [P!Runs -> Watchers \cup {"none"}]
      BY <1>b, <1>r DEF RunTypes
    <3>6. base' \in [P!Runs -> Nat]
      BY <1>a, <1>b, <1>r DEF RunTypes, ThreadTypes
    <3> QED
      BY <3>1, <3>2, <3>3, <3>4, <3>5, <3>6 DEF RunTypes
  <2>3. ThreadTypes'
    BY <1>a, <1>b, <1>r DEF ThreadTypes, P!Places
  <2>4. RequestTypes'
    BY <1>a, <1>b, <1>r DEF RequestTypes, P!Tasks
  <2>5. HistoryTypes'
    BY <1>a, <1>b, <1>r DEF HistoryTypes
  <2>6. BoundTypes'
    BY <1>a, <1>b, <1>r DEF BoundTypes, P!Fault, P!NoFault
  <2> QED
    BY <2>1, <2>2, <2>3, <2>4, <2>5, <2>6
<1>2. RunsAreLatest'
  <2>1. (running \in {0, made})'
    BY <1>a, <1>b, <1>r DEF StoreTypes, RunTypes, ThreadTypes, RunsAreLatest, TasksInPlace
  <2>2. \A q \in P!Runs : q > made' => current'[q] = 0 /\ watcher'[q] = "none"
    BY <1>a, <1>r, <1>c DEF RunTypes, RunsAreLatest
  <2>3. \A q \in P!Runs : base'[q] <= now'
    BY <1>a, <1>b, <1>r DEF StoreTypes, RunTypes, ThreadTypes, RunsAreLatest, TasksInPlace
  <2>4. (~active => pc[P!Control] = "idle")'
    BY <1>a, <1>b, <1>r DEF StoreTypes, RunTypes, ThreadTypes, RunsAreLatest, TasksInPlace
  <2>5. (pc[P!Control] \in {"detect", "follow", "override", "switch", "switched", "navigate", "check",
                   "readdb", "insert", "apply", "watch"} => running # 0)'
    BY <1>a, <1>b, <1>r DEF StoreTypes, RunTypes, ThreadTypes, RunsAreLatest, TasksInPlace
  <2>6. (pc[P!Control] \in {"follow", "switch", "switched", "navigate", "check", "readdb", "insert",
                   "apply", "watch"} => on[P!Control] = running)'
    BY <1>c
  <2>7. (pc[P!Control] = "join" => on[P!Control] = running /\ running # 0)'
    BY <1>a, <1>b, <1>r DEF StoreTypes, RunTypes, ThreadTypes, RunsAreLatest, TasksInPlace
  <2> QED
    BY <2>1, <2>2, <2>3, <2>4, <2>5, <2>6, <2>7 DEF RunsAreLatest
<1>3. WatchersAreKnown'
  <2>1. ASSUME NEW u \in Watchers, pc'[u] # "dead" PROVE watcher'[on'[u]] = u /\ on'[u] <= made'
    <4>1. CASE u = w
      BY <1>a, <1>r, <1>c, <2>1, <4>1 DEF RunTypes, WatchersAreKnown
    <4>2. CASE u # w
      <5>1. watcher[on[u]] = u /\ on[u] <= made /\ pc'[u] = pc[u] /\ on'[u] = on[u]
                /\ on[u] \in P!Runs
        BY <1>c, <2>1, <4>2 DEF WatchersAreKnown, ThreadTypes
      <5>2. watcher'[on[u]] = u
        BY <1>r, <1>c, <2>1, <4>2, <5>1
      <5> QED
        BY <1>a, <5>1, <5>2
    <4> QED
      BY <4>1, <4>2
  <2> QED
    BY <2>1 DEF WatchersAreKnown
<1>4. TasksInPlace'
  BY <1>a, <1>b, <1>r DEF P!Manual, RequestTypes, ThreadTypes, TasksInPlace, RunsAreLatest
<1>5. SlidesKnown'
  BY <1>a, <1>b, <1>r DEF P!Manual, StoreTypes, ThreadTypes, RequestTypes, SlidesKnown,
     TasksInPlace
<1>6. ControlIsHeld'
  <2>1. (running # 0 /\ chosen # 0 /\ ~overrun => mode[running] = "manual")'
    BY <1>a, <1>b, <1>r DEF RunTypes, ThreadTypes, RequestTypes, RunsAreLatest,
       WatchersAreKnown, TasksInPlace, ControlIsHeld, TakesControl, WatcherLeaves
  <2>2. (running # 0 /\ chosen # 0 /\ ~overrun => current[running] = chosen)'
    BY <1>a, <1>b, <1>r DEF RunTypes, ThreadTypes, RequestTypes, RunsAreLatest,
       WatchersAreKnown, TasksInPlace, ControlIsHeld, TakesControl, WatcherLeaves
  <2>3. ASSUME TakesControl' PROVE mode'[running'] = "manual"
    BY <2>3, <1>a, <1>b, <1>r DEF RunTypes, ThreadTypes, RequestTypes, RunsAreLatest,
       WatchersAreKnown, TasksInPlace, ControlIsHeld, TakesControl, WatcherLeaves
  <2> QED
    BY <2>1, <2>2, <2>3 DEF ControlIsHeld
<1>7. WatcherLeaves'
  <2>1. ASSUME running' # 0, mode'[running'] = "manual", ~overrun', P!Alive(watcher[running])'
 PROVE  (\/ pc[watcher[running]] \in {"leaving", "wait"}
         \/ pc[P!Control] = "join" /\ task # "stop" /\ chosen = 0)'
    <3>1. CASE watcher' = watcher /\ pc'[w] = pc[w] /\ P!Alive(watcher[running])
      <4>1. watcher[running] \in Watchers /\ pc'[watcher[running]] = pc[watcher[running]]
        BY <1>c, <3>1
      <4>2. pc[watcher[running]] \in {"leaving", "wait"}
        BY <1>a, <1>r, <2>1, <3>1 DEF WatcherLeaves
      <4> QED
        BY <1>a, <3>1, <4>1, <4>2
    <3>2. CASE pc'[w] = "wait" /\ watcher'[running] = w
      BY <1>a, <3>2
    <3> QED
      BY <1>c, <3>1, <3>2
  <2> QED
    BY <2>1 DEF WatcherLeaves
<1>8. TimelineInv'
  <2> SUFFICES ASSUME ~disturbed' PROVE (OnePersists /\ TimesArePast /\ ChangesInOrder)'
    BY DEF TimelineInv
  <2>0. ~disturbed /\ OnePersists /\ TimesArePast /\ ChangesInOrder
    BY DEF P!StartWatcher, TimelineInv
  <2>1. OnePersists'
    <3>1. ASSUME NEW u \in Watchers, pc'[u] # "dead" PROVE on'[u] = made' /\ timeline' # <<>>
      BY <1>a, <1>r, <1>c, <2>0, <3>1 DEF OnePersists
    <3>2. ASSUME NEW u \in P!Threads, NEW v \in P!Threads, P!Persisting(u)', P!Persisting(v)'
          PROVE  u = v
      BY <1>a, <1>c, <2>0, <3>2 DEF OnePersists
    <3>3. (pc[P!Control] = "watch" => timeline # <<>>)'
      BY <2>0, <1>a, <1>b, <1>r DEF RunTypes, ThreadTypes, RunsAreLatest, WatchersAreKnown,
         TasksInPlace, SlidesKnown, OnePersists, ChangesInOrder
    <3>4. (starting /\ pc[P!Control] \in {"check", "readdb", "insert"} => timeline = <<>>)'
      BY <2>0, <1>a, <1>b, <1>r DEF RunTypes, ThreadTypes, RunsAreLatest, WatchersAreKnown,
         TasksInPlace, SlidesKnown, OnePersists, ChangesInOrder
    <3> QED
      BY <3>1, <3>2, <3>3, <3>4 DEF OnePersists
  <2>2. TimesArePast'
    <3>1. ASSUME NEW i \in 1..Len(timeline')
          PROVE  made' # 0 /\ timeline'[i].at < now' - base'[made']
      BY <3>1, <2>0, <1>a, <1>b, <1>r DEF StoreTypes, RunTypes, ThreadTypes, RunsAreLatest,
         TasksInPlace, OnePersists, TimesArePast, P!Latest
    <3>2. ASSUME NEW u \in P!Threads, pc'[u] \in {"readdb", "insert"}
          PROVE  at'[u] <= now' - base'[made']
      BY <1>a, <1>c, <2>0, <3>2 DEF TimesArePast
    <3>3. ASSUME NEW u \in P!Threads, pc'[u] \in {"readdb", "insert"}, NEW i \in 1..Len(timeline')
 PROVE  timeline'[i].at < at'[u]
      BY <1>a, <1>c, <2>0, <3>3 DEF TimesArePast
    <3>4. ASSUME NEW u \in P!Threads, pc'[u] = "insert"
          PROVE  latest'[u] <= at'[u] /\ P!Latest' # slide'[u]
      BY <1>a, <1>c, <2>0, <3>4 DEF TimesArePast, P!Latest
    <3> QED
      BY <3>1, <3>2, <3>3, <3>4 DEF TimesArePast
  <2>3. ChangesInOrder'
    <3>1. ASSUME NEW i \in 1..(Len(timeline') - 1)
 PROVE  timeline'[i].slide # timeline'[i + 1].slide /\ timeline'[i].at <= timeline'[i + 1].at
      <4>1. timeline' = timeline
        BY <1>a
      <4>2. i \in 1..(Len(timeline) - 1)
        BY <3>1, <4>1
      <4> QED
        BY <2>0, <4>1, <4>2 DEF ChangesInOrder
    <3>2. ASSUME NEW u \in P!Threads, pc'[u] = "apply"
          PROVE  timeline' # <<>> /\ P!Latest' = slide'[u]
      BY <1>a, <1>c, <2>0, <3>2 DEF ChangesInOrder, P!Latest
    <3>3. ASSUME made' # 0, current'[made'] # 0, \A u \in P!Threads : pc'[u] # "apply"
 PROVE  timeline' # <<>> /\ P!Latest' = current'[made']
      <4>1. \A u \in P!Threads : pc[u] # "apply"
        BY <1>a, <1>c, <3>3
      <4> QED
        BY <1>a, <2>0, <3>3, <4>1 DEF ChangesInOrder, P!Latest
    <3> QED
      BY <3>1, <3>2, <3>3 DEF ChangesInOrder
  <2> QED
    BY <2>1, <2>2, <2>3
<1> QED
  BY <1>1, <1>2, <1>3, <1>4, <1>5, <1>6, <1>7, <1>8

\* A detection reads PowerPoint for the registered run; a closed slide show leads to the switch.
LEMMA DetectKeeps == ASSUME SlideInv, P!Detect PROVE SlideInv'
<1> USE SlideAssumed DEF SlideInv
<1>1. (StoreTypes /\ RunTypes /\ ThreadTypes /\ RequestTypes /\ HistoryTypes /\ BoundTypes)'
  <2>1. StoreTypes'
    BY DEF P!Detect, StoreTypes, SlidesKnown, TasksInPlace
  <2>2. RunTypes'
    BY DEF P!Detect, RunTypes
  <2>3. ThreadTypes'
    <3>1. pc' \in [P!Threads -> P!Places]
      BY DEF P!Detect, ThreadTypes, P!Places, StoreTypes, RunTypes, RunsAreLatest
    <3>2. on' \in [P!Threads -> P!Runs]
      BY DEF P!Detect, ThreadTypes, P!Places, StoreTypes, RunTypes, RunsAreLatest
    <3>3. slide' \in [P!Threads -> 0..LastSlide]
      BY DEF P!Detect, ThreadTypes, P!Places, StoreTypes, RunTypes, RunsAreLatest
    <3>4. at' \in [P!Threads -> Nat] /\ latest' \in [P!Threads -> Nat]
      BY DEF P!Detect, ThreadTypes, P!Places, StoreTypes, RunTypes, RunsAreLatest
    <3> QED
      BY <3>1, <3>2, <3>3, <3>4 DEF ThreadTypes
  <2>4. RequestTypes'
    BY DEF P!Detect, RequestTypes, P!Tasks
  <2>5. HistoryTypes'
    BY DEF P!Detect, HistoryTypes
  <2>6. BoundTypes'
    BY DEF P!Detect, BoundTypes, P!Fault, P!NoFault
  <2> QED
    BY <2>1, <2>2, <2>3, <2>4, <2>5, <2>6
<1>2. RunsAreLatest'
  BY DEF P!Detect, StoreTypes, RunTypes, ThreadTypes, RunsAreLatest, TasksInPlace
<1>3. WatchersAreKnown'
  BY DEF P!Detect, RunTypes, ThreadTypes, RunsAreLatest, WatchersAreKnown
<1>4. TasksInPlace'
  BY DEF P!Detect, P!Manual, RequestTypes, ThreadTypes, TasksInPlace, RunsAreLatest
<1>5. SlidesKnown'
  BY DEF P!Detect, P!Manual, StoreTypes, ThreadTypes, RequestTypes, SlidesKnown, TasksInPlace
<1>6. ControlIsHeld'
  BY DEF P!Detect, RunTypes, ThreadTypes, RequestTypes, RunsAreLatest, WatchersAreKnown,
     TasksInPlace, ControlIsHeld, TakesControl, WatcherLeaves
<1>7. WatcherLeaves'
  BY DEF P!Detect, RunTypes, ThreadTypes, RequestTypes, RunsAreLatest, WatchersAreKnown,
     TasksInPlace, ControlIsHeld, TakesControl, WatcherLeaves
<1>8. TimelineInv'
  <2> SUFFICES ASSUME ~disturbed' PROVE (OnePersists /\ TimesArePast /\ ChangesInOrder)'
    BY DEF TimelineInv
  <2>0. ~disturbed /\ OnePersists /\ TimesArePast /\ ChangesInOrder
    BY DEF P!Detect, TimelineInv
  <2>1. OnePersists'
    BY <2>0 DEF P!Detect, RunTypes, ThreadTypes, RunsAreLatest, WatchersAreKnown, TasksInPlace,
       SlidesKnown, OnePersists, ChangesInOrder
  <2>2. TimesArePast'
    BY <2>0 DEF P!Detect, StoreTypes, RunTypes, ThreadTypes, RunsAreLatest, TasksInPlace,
       OnePersists, TimesArePast, P!Latest
  <2>3. ChangesInOrder'
    BY <2>0 DEF P!Detect, StoreTypes, RunTypes, ThreadTypes, RunsAreLatest, TasksInPlace,
       OnePersists, TimesArePast, ChangesInOrder, P!Latest
  <2> QED
    BY <2>1, <2>2, <2>3
<1> QED
  BY <1>1, <1>2, <1>3, <1>4, <1>5, <1>6, <1>7, <1>8

\* A detected run follows PowerPoint before the request thread persists its slide.
LEMMA FollowKeeps == ASSUME SlideInv, P!Follow PROVE SlideInv'
<1> USE SlideAssumed DEF SlideInv
<1>a. /\ pc[P!Control] = "follow" /\ pc' = [pc EXCEPT ![P!Control] = "check"]
      /\ mode' = [mode EXCEPT ![on[P!Control]] = "powerpoint"]
      /\ UNCHANGED <<show, active, timeline, running, stopSet, current, watcher, base, made,
                     on, slide,
                     at, latest, task, target, starting, now, chosen, overrun, disturbed, requests,
                     moves, showFaults>>
  BY DEF P!Follow
<1>b. pc'[P!Control] = "check" /\ task = "detect" /\ chosen = 0 /\ "detect" \notin P!Manual
  BY <1>a DEF ThreadTypes, TasksInPlace, P!Manual
<1>1. (StoreTypes /\ RunTypes /\ ThreadTypes /\ RequestTypes /\ HistoryTypes /\ BoundTypes)'
  <2>1. StoreTypes'
    BY <1>a DEF StoreTypes, SlidesKnown, TasksInPlace
  <2>2. RunTypes'
    BY <1>a DEF RunTypes
  <2>3. ThreadTypes'
    BY <1>a DEF ThreadTypes, P!Places
  <2>4. RequestTypes'
    BY <1>a DEF RequestTypes, P!Tasks
  <2>5. HistoryTypes'
    BY <1>a DEF HistoryTypes
  <2>6. BoundTypes'
    BY <1>a DEF BoundTypes, P!Fault, P!NoFault
  <2> QED
    BY <2>1, <2>2, <2>3, <2>4, <2>5, <2>6
<1>2. RunsAreLatest'
  BY <1>a DEF StoreTypes, RunTypes, ThreadTypes, RunsAreLatest, TasksInPlace
<1>3. WatchersAreKnown'
  BY <1>a DEF RunTypes, ThreadTypes, RunsAreLatest, WatchersAreKnown
<1>4. TasksInPlace'
  BY <1>a DEF P!Manual, RequestTypes, ThreadTypes, TasksInPlace, RunsAreLatest
<1>5. SlidesKnown'
  BY <1>a DEF P!Manual, StoreTypes, ThreadTypes, RequestTypes, SlidesKnown, TasksInPlace
<1>6. ControlIsHeld'
  <2>1. (running # 0 /\ chosen # 0 /\ ~overrun => mode[running] = "manual")'
    BY <1>a, <1>b DEF ControlIsHeld, TakesControl
  <2>2. (running # 0 /\ chosen # 0 /\ ~overrun => current[running] = chosen)'
    BY <1>a, <1>b DEF ControlIsHeld, TakesControl
  <2>3. ASSUME TakesControl' PROVE mode'[running'] = "manual"
    BY <1>a, <1>b, <2>3 DEF ControlIsHeld, TakesControl
  <2> QED
    BY <2>1, <2>2, <2>3 DEF ControlIsHeld
<1>7. WatcherLeaves'
  BY <1>a DEF RunTypes, ThreadTypes, RequestTypes, RunsAreLatest, WatchersAreKnown,
     TasksInPlace, ControlIsHeld, TakesControl, WatcherLeaves
<1>8. TimelineInv'
  <2> SUFFICES ASSUME ~disturbed' PROVE (OnePersists /\ TimesArePast /\ ChangesInOrder)'
    BY DEF TimelineInv
  <2>0. ~disturbed /\ OnePersists /\ TimesArePast /\ ChangesInOrder
    BY DEF P!Follow, TimelineInv
  <2>1. OnePersists'
    BY <2>0, <1>a DEF RunTypes, ThreadTypes, RunsAreLatest, WatchersAreKnown, TasksInPlace,
       SlidesKnown, OnePersists, ChangesInOrder
  <2>2. TimesArePast'
    BY <2>0, <1>a DEF StoreTypes, RunTypes, ThreadTypes, RunsAreLatest, TasksInPlace,
       OnePersists, TimesArePast, P!Latest
  <2>3. ChangesInOrder'
    BY <2>0, <1>a DEF StoreTypes, RunTypes, ThreadTypes, RunsAreLatest, TasksInPlace,
       OnePersists, TimesArePast, ChangesInOrder, P!Latest
  <2> QED
    BY <2>1, <2>2, <2>3
<1> QED
  BY <1>1, <1>2, <1>3, <1>4, <1>5, <1>6, <1>7, <1>8

\* A manual request goes on to the switch if its run follows PowerPoint, else to its slide.
LEMMA OverrideKeeps == ASSUME SlideInv, P!Override PROVE SlideInv'
<1> USE SlideAssumed DEF SlideInv
<1>1. (StoreTypes /\ RunTypes /\ ThreadTypes /\ RequestTypes /\ HistoryTypes /\ BoundTypes)'
  <2>1. StoreTypes'
    BY DEF P!Override, StoreTypes, SlidesKnown, TasksInPlace
  <2>2. RunTypes'
    BY DEF P!Override, RunTypes
  <2>3. ThreadTypes'
    BY DEF P!Override, ThreadTypes, P!Places, RunTypes, RunsAreLatest
  <2>4. RequestTypes'
    BY DEF P!Override, RequestTypes, P!Tasks
  <2>5. HistoryTypes'
    BY DEF P!Override, HistoryTypes
  <2>6. BoundTypes'
    BY DEF P!Override, BoundTypes, P!Fault, P!NoFault
  <2> QED
    BY <2>1, <2>2, <2>3, <2>4, <2>5, <2>6
<1>2. RunsAreLatest'
  BY DEF P!Override, StoreTypes, RunTypes, ThreadTypes, RunsAreLatest, TasksInPlace
<1>3. WatchersAreKnown'
  BY DEF P!Override, RunTypes, ThreadTypes, RunsAreLatest, WatchersAreKnown
<1>4. TasksInPlace'
  BY DEF P!Override, P!Manual, RequestTypes, ThreadTypes, TasksInPlace, RunsAreLatest
<1>5. SlidesKnown'
  BY DEF P!Override, P!Manual, StoreTypes, ThreadTypes, RequestTypes, SlidesKnown, TasksInPlace
<1>6. ControlIsHeld'
  BY DEF P!Override, RunTypes, ThreadTypes, RequestTypes, RunsAreLatest, WatchersAreKnown,
     TasksInPlace, ControlIsHeld, TakesControl, WatcherLeaves
<1>7. WatcherLeaves'
  BY DEF P!Override, RunTypes, ThreadTypes, RequestTypes, RunsAreLatest, WatchersAreKnown,
     TasksInPlace, ControlIsHeld, TakesControl, WatcherLeaves
<1>8. TimelineInv'
  <2> SUFFICES ASSUME ~disturbed' PROVE (OnePersists /\ TimesArePast /\ ChangesInOrder)'
    BY DEF TimelineInv
  <2>0. ~disturbed /\ OnePersists /\ TimesArePast /\ ChangesInOrder
    BY DEF P!Override, TimelineInv
  <2>1. OnePersists'
    BY <2>0 DEF P!Override, RunTypes, ThreadTypes, RunsAreLatest, WatchersAreKnown,
       TasksInPlace, SlidesKnown, OnePersists, ChangesInOrder
  <2>2. TimesArePast'
    BY <2>0 DEF P!Override, StoreTypes, RunTypes, ThreadTypes, RunsAreLatest, TasksInPlace,
       OnePersists, TimesArePast, P!Latest
  <2>3. ChangesInOrder'
    BY <2>0 DEF P!Override, StoreTypes, RunTypes, ThreadTypes, RunsAreLatest, TasksInPlace,
       OnePersists, TimesArePast, ChangesInOrder, P!Latest
  <2> QED
    BY <2>1, <2>2, <2>3
<1> QED
  BY <1>1, <1>2, <1>3, <1>4, <1>5, <1>6, <1>7, <1>8

\* The join ends with the watcher, or is given up and the overrun noted.
LEMMA JoinKeeps == ASSUME SlideInv, P!Join PROVE SlideInv'
<1> USE SlideAssumed DEF SlideInv
<1>1. (StoreTypes /\ RunTypes /\ ThreadTypes /\ RequestTypes /\ HistoryTypes /\ BoundTypes)'
  <2>1. StoreTypes'
    BY DEF P!Join, P!Joined, P!Fault, P!NoFault, StoreTypes, SlidesKnown, TasksInPlace
  <2>2. RunTypes'
    BY DEF P!Join, P!Joined, P!Fault, P!NoFault, RunTypes
  <2>3. ThreadTypes'
    BY DEF P!Join, P!Joined, P!Fault, P!NoFault, ThreadTypes, P!Places
  <2>4. RequestTypes'
    BY DEF P!Join, P!Joined, P!Fault, P!NoFault, RequestTypes, P!Tasks
  <2>5. HistoryTypes'
    BY DEF P!Join, P!Joined, P!Fault, P!NoFault, HistoryTypes
  <2>6. BoundTypes'
    BY DEF P!Join, P!Joined, P!Fault, P!NoFault, BoundTypes
  <2> QED
    BY <2>1, <2>2, <2>3, <2>4, <2>5, <2>6
<1>2. RunsAreLatest'
  BY DEF P!Join, P!Joined, P!Fault, P!NoFault, StoreTypes, RunTypes, ThreadTypes,
     RunsAreLatest, TasksInPlace
<1>3. WatchersAreKnown'
  BY DEF P!Join, P!Joined, P!Fault, P!NoFault, RunTypes, ThreadTypes, RunsAreLatest,
     WatchersAreKnown
<1>4. TasksInPlace'
  <2>1. (task \in {"start", "detect"} \/ starting \/ pc[P!Control] = "start" => chosen = 0)'
    BY DEF P!Join, P!Joined, P!Fault, P!NoFault, P!Manual, RequestTypes, ThreadTypes,
       TasksInPlace, RunsAreLatest
  <2>2. (pc[P!Control] \in {"detect", "follow"} => task = "detect")'
    BY DEF P!Join, P!Joined, P!Fault, P!NoFault, P!Manual, RequestTypes, ThreadTypes,
       TasksInPlace, RunsAreLatest
  <2>3. (pc[P!Control] \in {"switch", "switched"} => task \in P!Manual \cup {"detect"})'
    BY DEF P!Join, P!Joined, P!Fault, P!NoFault, P!Manual, RequestTypes, ThreadTypes,
       TasksInPlace, RunsAreLatest
  <2>4. (pc[P!Control] \in {"override", "navigate"} => task \in P!Manual)'
    BY DEF P!Join, P!Joined, P!Fault, P!NoFault, P!Manual, RequestTypes, ThreadTypes,
       TasksInPlace, RunsAreLatest
  <2>5. (pc[P!Control] \in {"check", "readdb", "insert", "apply", "watch"} =>
     starting \/ task \in P!Manual \cup {"detect"})'
    BY DEF P!Join, P!Joined, P!Fault, P!NoFault, P!Manual, RequestTypes, ThreadTypes,
       TasksInPlace, RunsAreLatest
  <2>6. (starting => pc[P!Control] \in {"check", "readdb", "insert", "apply", "watch"})'
    BY DEF P!Join, P!Joined, P!Fault, P!NoFault, P!Manual, RequestTypes, ThreadTypes,
       TasksInPlace, RunsAreLatest
  <2>7. (pc[P!Control] = "stop" => task = "stop")'
    BY DEF P!Join, P!Joined, P!Fault, P!NoFault, P!Manual, RequestTypes, ThreadTypes,
       TasksInPlace, RunsAreLatest
  <2>8. (pc[P!Control] = "join" => task \in P!Manual \cup {"detect", "stop"})'
    BY DEF P!Join, P!Joined, P!Fault, P!NoFault, P!Manual, RequestTypes, ThreadTypes,
       TasksInPlace, RunsAreLatest
  <2> QED
    BY <2>1, <2>2, <2>3, <2>4, <2>5, <2>6, <2>7, <2>8 DEF TasksInPlace
<1>5. SlidesKnown'
  BY DEF P!Join, P!Joined, P!Fault, P!NoFault, P!Manual, StoreTypes, ThreadTypes, RequestTypes,
     SlidesKnown, TasksInPlace
<1>6. ControlIsHeld'
  BY DEF P!Join, P!Joined, P!Fault, P!NoFault, RunTypes, ThreadTypes, RequestTypes,
     RunsAreLatest, WatchersAreKnown, TasksInPlace, ControlIsHeld, TakesControl, WatcherLeaves
<1>7. WatcherLeaves'
  BY DEF P!Join, P!Joined, P!Fault, P!NoFault, RunTypes, ThreadTypes, RequestTypes,
     RunsAreLatest, WatchersAreKnown, TasksInPlace, ControlIsHeld, TakesControl, WatcherLeaves
<1>8. TimelineInv'
  <2> SUFFICES ASSUME ~disturbed' PROVE (OnePersists /\ TimesArePast /\ ChangesInOrder)'
    BY DEF TimelineInv
  <2>0. ~disturbed /\ OnePersists /\ TimesArePast /\ ChangesInOrder
    BY DEF P!Join, TimelineInv
  <2>1. OnePersists'
    BY <2>0 DEF P!Join, P!Joined, P!Fault, P!NoFault, RunTypes, ThreadTypes, RunsAreLatest,
       WatchersAreKnown, TasksInPlace, SlidesKnown, OnePersists, ChangesInOrder
  <2>2. TimesArePast'
    BY <2>0 DEF P!Join, P!Joined, P!Fault, P!NoFault, StoreTypes, RunTypes, ThreadTypes,
       RunsAreLatest, TasksInPlace, OnePersists, TimesArePast, P!Latest
  <2>3. ChangesInOrder'
    BY <2>0 DEF P!Join, P!Joined, P!Fault, P!NoFault, StoreTypes, RunTypes, ThreadTypes,
       RunsAreLatest, TasksInPlace, OnePersists, TimesArePast, ChangesInOrder, P!Latest
  <2> QED
    BY <2>1, <2>2, <2>3
<1> QED
  BY <1>1, <1>2, <1>3, <1>4, <1>5, <1>6, <1>7, <1>8

\* After the switch a detection is done, a manual request goes on to its slide.
LEMMA SwitchedKeeps == ASSUME SlideInv, P!Switched PROVE SlideInv'
<1> USE SlideAssumed DEF SlideInv
<1>a. /\ pc[P!Control] = "switched" /\ UNCHANGED <<show, active, timeline, running, mode,
                                                   stopSet,
                     current, watcher, base, made, on, slide, at, latest, target, now, chosen, overrun,
                     disturbed, requests, moves, showFaults>>
      /\ \/ task = "detect" /\ pc' = [pc EXCEPT ![P!Control] = "idle"] /\ task' = "none"
              /\ starting' = FALSE
         \/ task # "detect" /\ pc' = [pc EXCEPT ![P!Control] = "navigate"]
              /\ UNCHANGED <<task, starting>>
  BY DEF P!Switched
<1>b. /\ pc'[P!Control] \in {"idle", "navigate"} /\ \A u \in Watchers : u # P!Control
           /\ pc'[u] = pc[u]
  BY <1>a DEF ThreadTypes
<1>1. (StoreTypes /\ RunTypes /\ ThreadTypes /\ RequestTypes /\ HistoryTypes /\ BoundTypes)'
  <2>1. StoreTypes'
    BY <1>a DEF StoreTypes, SlidesKnown, TasksInPlace
  <2>2. RunTypes'
    BY <1>a DEF RunTypes
  <2>3. ThreadTypes'
    BY <1>a DEF ThreadTypes, P!Places
  <2>4. RequestTypes'
    BY <1>a DEF RequestTypes, P!Tasks
  <2>5. HistoryTypes'
    BY <1>a DEF HistoryTypes
  <2>6. BoundTypes'
    BY <1>a DEF BoundTypes, P!Fault, P!NoFault
  <2> QED
    BY <2>1, <2>2, <2>3, <2>4, <2>5, <2>6
<1>2. RunsAreLatest'
  BY <1>a DEF StoreTypes, RunTypes, ThreadTypes, RunsAreLatest, TasksInPlace
<1>3. WatchersAreKnown'
  BY <1>a DEF RunTypes, ThreadTypes, RunsAreLatest, WatchersAreKnown
<1>4. TasksInPlace'
  BY <1>a DEF P!Manual, RequestTypes, ThreadTypes, TasksInPlace, RunsAreLatest
<1>5. SlidesKnown'
  <2>1. ASSUME NEW u \in P!Threads, pc'[u] \in {"check", "readdb", "insert", "apply"}
        PROVE  slide'[u] # 0
    BY <1>a, <1>b, <2>1 DEF SlidesKnown
  <2>2. (pc[P!Control] \in {"follow", "watch"} => slide[P!Control] # 0)'
    BY <1>a DEF P!Manual, StoreTypes, ThreadTypes, RequestTypes, SlidesKnown, TasksInPlace
  <2>3. (task \in P!Manual => target # 0)'
    BY <1>a DEF P!Manual, StoreTypes, ThreadTypes, RequestTypes, SlidesKnown, TasksInPlace
  <2> QED
    BY <2>1, <2>2, <2>3 DEF SlidesKnown
<1>6. ControlIsHeld'
  BY <1>a DEF RunTypes, ThreadTypes, RequestTypes, RunsAreLatest, WatchersAreKnown,
     TasksInPlace, ControlIsHeld, TakesControl, WatcherLeaves
<1>7. WatcherLeaves'
  BY <1>a DEF RunTypes, ThreadTypes, RequestTypes, RunsAreLatest, WatchersAreKnown,
     TasksInPlace, ControlIsHeld, TakesControl, WatcherLeaves
<1>8. TimelineInv'
  <2> SUFFICES ASSUME ~disturbed' PROVE (OnePersists /\ TimesArePast /\ ChangesInOrder)'
    BY DEF TimelineInv
  <2>0. ~disturbed /\ OnePersists /\ TimesArePast /\ ChangesInOrder
    BY DEF P!Switched, TimelineInv
  <2>1. OnePersists'
    <3>1. ASSUME NEW u \in Watchers, pc'[u] # "dead" PROVE on'[u] = made' /\ timeline' # <<>>
      BY <1>a, <1>b, <2>0, <3>1 DEF OnePersists
    <3>2. ASSUME NEW u \in P!Threads, NEW v \in P!Threads, P!Persisting(u)', P!Persisting(v)'
          PROVE  u = v
      BY <1>a, <1>b, <2>0, <3>2 DEF OnePersists
    <3>3. (pc[P!Control] = "watch" => timeline # <<>>)'
      BY <2>0, <1>a DEF RunTypes, ThreadTypes, RunsAreLatest, WatchersAreKnown, TasksInPlace,
         SlidesKnown, OnePersists, ChangesInOrder
    <3>4. (starting /\ pc[P!Control] \in {"check", "readdb", "insert"} => timeline = <<>>)'
      BY <2>0, <1>a DEF RunTypes, ThreadTypes, RunsAreLatest, WatchersAreKnown, TasksInPlace,
         SlidesKnown, OnePersists, ChangesInOrder
    <3> QED
      BY <3>1, <3>2, <3>3, <3>4 DEF OnePersists
  <2>2. TimesArePast'
    BY <2>0, <1>a DEF StoreTypes, RunTypes, ThreadTypes, RunsAreLatest, TasksInPlace,
       OnePersists, TimesArePast, P!Latest
  <2>3. ChangesInOrder'
    BY <2>0, <1>a DEF StoreTypes, RunTypes, ThreadTypes, RunsAreLatest, TasksInPlace,
       OnePersists, TimesArePast, ChangesInOrder, P!Latest
  <2> QED
    BY <2>1, <2>2, <2>3
<1> QED
  BY <1>1, <1>2, <1>3, <1>4, <1>5, <1>6, <1>7, <1>8

\* The slide of a manual request, given or a step away, is a slide of the deck.
LEMMA NavigateKeeps == ASSUME SlideInv, P!Navigate PROVE SlideInv'
<1> USE SlideAssumed DEF SlideInv
<1>a. /\ pc[P!Control] = "navigate" /\ pc' = [pc EXCEPT ![P!Control] = "check"]
      /\ slide' = [slide EXCEPT ![P!Control] = IF task = "set" THEN target ELSE P!Step(current[running])]
      /\ UNCHANGED <<show, active, timeline, running, mode, stopSet, current, watcher, base,
                     made,
                     on, at, latest, task, target, starting, now, chosen, overrun, disturbed, requests,
                     moves, showFaults>>
  BY DEF P!Navigate
<1>s. (IF task = "set" THEN target ELSE P!Step(current[running])) \in P!Slides
  <2>1. running \in P!Runs /\ task \in P!Manual
    BY <1>a DEF RunsAreLatest, RunTypes, TasksInPlace
  <2>2. P!Step(current[running]) \in P!Slides
    BY <2>1, StepIsSlide DEF RunTypes
  <2> QED
    BY <2>1, <2>2 DEF RequestTypes, SlidesKnown, P!Slides
<1>b. /\ pc'[P!Control] = "check" /\ slide'[P!Control] \in P!Slides
      /\ \A u \in P!Threads : u # P!Control => pc'[u] = pc[u] /\ slide'[u] = slide[u]
  BY <1>a, <1>s DEF ThreadTypes
<1>1. (StoreTypes /\ RunTypes /\ ThreadTypes /\ RequestTypes /\ HistoryTypes /\ BoundTypes)'
  <2>1. StoreTypes'
    BY <1>a, <1>s DEF StoreTypes, SlidesKnown, TasksInPlace
  <2>2. RunTypes'
    BY <1>a, <1>s DEF RunTypes
  <2>3. ThreadTypes'
    <3>1. pc' \in [P!Threads -> P!Places]
      BY <1>a, <1>s DEF ThreadTypes, P!Places, RequestTypes, SlidesKnown, RunTypes,
         RunsAreLatest
    <3>2. on' \in [P!Threads -> P!Runs]
      BY <1>a, <1>s DEF ThreadTypes, P!Places, RequestTypes, SlidesKnown, RunTypes,
         RunsAreLatest
    <3>3. slide' \in [P!Threads -> 0..LastSlide]
      BY <1>a, <1>s DEF ThreadTypes, P!Slides
    <3>4. at' \in [P!Threads -> Nat] /\ latest' \in [P!Threads -> Nat]
      BY <1>a, <1>s DEF ThreadTypes, P!Places, RequestTypes, SlidesKnown, RunTypes,
         RunsAreLatest
    <3> QED
      BY <3>1, <3>2, <3>3, <3>4 DEF ThreadTypes
  <2>4. RequestTypes'
    BY <1>a, <1>s DEF RequestTypes, P!Tasks
  <2>5. HistoryTypes'
    BY <1>a, <1>s DEF HistoryTypes
  <2>6. BoundTypes'
    BY <1>a, <1>s DEF BoundTypes, P!Fault, P!NoFault
  <2> QED
    BY <2>1, <2>2, <2>3, <2>4, <2>5, <2>6
<1>2. RunsAreLatest'
  <2>1. (running \in {0, made})'
    BY <1>a, <1>s DEF StoreTypes, RunTypes, ThreadTypes, RunsAreLatest, TasksInPlace
  <2>2. \A q \in P!Runs : q > made' => current'[q] = 0 /\ watcher'[q] = "none"
    BY <1>a, <1>s DEF StoreTypes, RunTypes, ThreadTypes, RunsAreLatest, TasksInPlace
  <2>3. \A q \in P!Runs : base'[q] <= now'
    BY <1>a, <1>s DEF StoreTypes, RunTypes, ThreadTypes, RunsAreLatest, TasksInPlace
  <2>4. (~active => pc[P!Control] = "idle")'
    BY <1>a, <1>s DEF StoreTypes, RunTypes, ThreadTypes, RunsAreLatest, TasksInPlace
  <2>5. (pc[P!Control] \in {"detect", "follow", "override", "switch", "switched", "navigate", "check",
                   "readdb", "insert", "apply", "watch"} => running # 0)'
    BY <1>a, <1>s DEF StoreTypes, RunTypes, ThreadTypes, RunsAreLatest, TasksInPlace
  <2>6. (pc[P!Control] \in {"follow", "switch", "switched", "navigate", "check", "readdb", "insert",
                   "apply", "watch"} => on[P!Control] = running)'
    BY <1>a, <1>s DEF StoreTypes, RunTypes, ThreadTypes, RunsAreLatest, TasksInPlace
  <2>7. (pc[P!Control] = "join" => on[P!Control] = running /\ running # 0)'
    BY <1>a, <1>s DEF StoreTypes, RunTypes, ThreadTypes, RunsAreLatest, TasksInPlace
  <2> QED
    BY <2>1, <2>2, <2>3, <2>4, <2>5, <2>6, <2>7 DEF RunsAreLatest
<1>3. WatchersAreKnown'
  BY <1>a, <1>s DEF RunTypes, ThreadTypes, RunsAreLatest, WatchersAreKnown
<1>4. TasksInPlace'
  BY <1>a, <1>s DEF P!Manual, RequestTypes, ThreadTypes, TasksInPlace, RunsAreLatest
<1>5. SlidesKnown'
  <2>1. ASSUME NEW u \in P!Threads, pc'[u] \in {"check", "readdb", "insert", "apply"}
        PROVE  slide'[u] # 0
    BY <1>a, <1>b, <2>1 DEF SlidesKnown, P!Slides
  <2>2. (pc[P!Control] \in {"follow", "watch"} => slide[P!Control] # 0)'
    BY <1>a, <1>s DEF P!Manual, StoreTypes, ThreadTypes, RequestTypes, SlidesKnown, TasksInPlace
  <2>3. (task \in P!Manual => target # 0)'
    BY <1>a, <1>s DEF P!Manual, StoreTypes, ThreadTypes, RequestTypes, SlidesKnown, TasksInPlace
  <2> QED
    BY <2>1, <2>2, <2>3 DEF SlidesKnown
<1>6. ControlIsHeld'
  BY <1>a, <1>s DEF RunTypes, ThreadTypes, RequestTypes, RunsAreLatest, WatchersAreKnown,
     TasksInPlace, ControlIsHeld, TakesControl, WatcherLeaves
<1>7. WatcherLeaves'
  BY <1>a, <1>s DEF RunTypes, ThreadTypes, RequestTypes, RunsAreLatest, WatchersAreKnown,
     TasksInPlace, ControlIsHeld, TakesControl, WatcherLeaves
<1>8. TimelineInv'
  <2> SUFFICES ASSUME ~disturbed' PROVE (OnePersists /\ TimesArePast /\ ChangesInOrder)'
    BY DEF TimelineInv
  <2>0. ~disturbed /\ OnePersists /\ TimesArePast /\ ChangesInOrder
    BY DEF P!Navigate, TimelineInv
  <2>1. OnePersists'
    BY <2>0, <1>a, <1>s DEF RunTypes, ThreadTypes, RunsAreLatest, WatchersAreKnown,
       TasksInPlace, SlidesKnown, OnePersists, ChangesInOrder
  <2>2. TimesArePast'
    BY <2>0, <1>a, <1>s DEF StoreTypes, RunTypes, ThreadTypes, RunsAreLatest, TasksInPlace,
       OnePersists, TimesArePast, P!Latest
  <2>3. ChangesInOrder'
    BY <2>0, <1>a, <1>s DEF StoreTypes, RunTypes, ThreadTypes, RunsAreLatest, TasksInPlace,
       OnePersists, TimesArePast, ChangesInOrder, P!Latest
  <2> QED
    BY <2>1, <2>2, <2>3
<1> QED
  BY <1>1, <1>2, <1>3, <1>4, <1>5, <1>6, <1>7, <1>8

\* A stop of the run leaves its mode and its rows as they are.
LEMMA StopRunKeeps == ASSUME SlideInv, P!StopRun PROVE SlideInv'
<1> USE SlideAssumed DEF SlideInv
<1>a. /\ pc[P!Control] = "stop"
           /\ pc' = [pc EXCEPT ![P!Control] = IF running = 0 THEN "end" ELSE "join"]
      /\ on' = [on EXCEPT ![P!Control] = IF running = 0 THEN @ ELSE running]
      /\ stopSet' = [r \in P!Runs |-> stopSet[r] \/ r = running]
      /\ UNCHANGED <<show, active, timeline, running, mode, current, watcher, base, made, slide,
                     at, latest, task, target, starting, now, chosen, overrun, disturbed, requests,
                     moves, showFaults>>
  BY DEF P!StopRun
<1>b. /\ pc'[P!Control] \in {"end", "join"} /\ \A u \in Watchers : u # P!Control
           /\ pc'[u] = pc[u] /\ on'[u] = on[u]
  BY <1>a DEF ThreadTypes
<1>1. (StoreTypes /\ RunTypes /\ ThreadTypes /\ RequestTypes /\ HistoryTypes /\ BoundTypes)'
  <2>1. StoreTypes'
    BY <1>a DEF StoreTypes, SlidesKnown, TasksInPlace
  <2>2. RunTypes'
    BY <1>a DEF RunTypes
  <2>3. ThreadTypes'
    BY <1>a DEF ThreadTypes, P!Places, RunTypes, RunsAreLatest
  <2>4. RequestTypes'
    BY <1>a DEF RequestTypes, P!Tasks
  <2>5. HistoryTypes'
    BY <1>a DEF HistoryTypes
  <2>6. BoundTypes'
    BY <1>a DEF BoundTypes, P!Fault, P!NoFault
  <2> QED
    BY <2>1, <2>2, <2>3, <2>4, <2>5, <2>6
<1>2. RunsAreLatest'
  BY <1>a DEF StoreTypes, RunTypes, ThreadTypes, RunsAreLatest, TasksInPlace
<1>3. WatchersAreKnown'
  BY <1>a DEF RunTypes, ThreadTypes, RunsAreLatest, WatchersAreKnown
<1>4. TasksInPlace'
  BY <1>a DEF P!Manual, RequestTypes, ThreadTypes, TasksInPlace, RunsAreLatest
<1>5. SlidesKnown'
  BY <1>a DEF P!Manual, StoreTypes, ThreadTypes, RequestTypes, SlidesKnown, TasksInPlace
<1>6. ControlIsHeld'
  <2>1. (running # 0 /\ chosen # 0 /\ ~overrun => mode[running] = "manual")'
    BY <1>a DEF RunTypes, ThreadTypes, RequestTypes, RunsAreLatest, WatchersAreKnown,
       TasksInPlace, ControlIsHeld, TakesControl, WatcherLeaves
  <2>2. (running # 0 /\ chosen # 0 /\ ~overrun => current[running] = chosen)'
    BY <1>a DEF RunTypes, ThreadTypes, RequestTypes, RunsAreLatest, WatchersAreKnown,
       TasksInPlace, ControlIsHeld, TakesControl, WatcherLeaves
  <2>3. ASSUME TakesControl' PROVE mode'[running'] = "manual"
    BY <1>a, <1>b, <2>3 DEF TakesControl, TasksInPlace
  <2> QED
    BY <2>1, <2>2, <2>3 DEF ControlIsHeld
<1>7. WatcherLeaves'
  BY <1>a DEF RunTypes, ThreadTypes, RequestTypes, RunsAreLatest, WatchersAreKnown,
     TasksInPlace, ControlIsHeld, TakesControl, WatcherLeaves
<1>8. TimelineInv'
  <2> SUFFICES ASSUME ~disturbed' PROVE (OnePersists /\ TimesArePast /\ ChangesInOrder)'
    BY DEF TimelineInv
  <2>0. ~disturbed /\ OnePersists /\ TimesArePast /\ ChangesInOrder
    BY DEF P!StopRun, TimelineInv
  <2>1. OnePersists'
    <3>1. ASSUME NEW u \in Watchers, pc'[u] # "dead" PROVE on'[u] = made' /\ timeline' # <<>>
      BY <1>a, <1>b, <2>0, <3>1 DEF OnePersists
    <3>2. ASSUME NEW u \in P!Threads, NEW v \in P!Threads, P!Persisting(u)', P!Persisting(v)'
          PROVE  u = v
      BY <3>2, <2>0, <1>a DEF RunTypes, ThreadTypes, RunsAreLatest, WatchersAreKnown,
         TasksInPlace, SlidesKnown, OnePersists, ChangesInOrder
    <3>3. (pc[P!Control] = "watch" => timeline # <<>>)'
      BY <2>0, <1>a DEF RunTypes, ThreadTypes, RunsAreLatest, WatchersAreKnown, TasksInPlace,
         SlidesKnown, OnePersists, ChangesInOrder
    <3>4. (starting /\ pc[P!Control] \in {"check", "readdb", "insert"} => timeline = <<>>)'
      BY <2>0, <1>a DEF RunTypes, ThreadTypes, RunsAreLatest, WatchersAreKnown, TasksInPlace,
         SlidesKnown, OnePersists, ChangesInOrder
    <3> QED
      BY <3>1, <3>2, <3>3, <3>4 DEF OnePersists
  <2>2. TimesArePast'
    BY <2>0, <1>a DEF StoreTypes, RunTypes, ThreadTypes, RunsAreLatest, TasksInPlace,
       OnePersists, TimesArePast, P!Latest
  <2>3. ChangesInOrder'
    BY <2>0, <1>a DEF StoreTypes, RunTypes, ThreadTypes, RunsAreLatest, TasksInPlace,
       OnePersists, TimesArePast, ChangesInOrder, P!Latest
  <2> QED
    BY <2>1, <2>2, <2>3
<1> QED
  BY <1>1, <1>2, <1>3, <1>4, <1>5, <1>6, <1>7, <1>8

\* Without a registered run no watcher has anything left to write for.
LEMMA PopRunKeeps == ASSUME SlideInv, P!PopRun PROVE SlideInv'
<1> USE SlideAssumed DEF SlideInv
<1>1. (StoreTypes /\ RunTypes /\ ThreadTypes /\ RequestTypes /\ HistoryTypes /\ BoundTypes)'
  <2>1. StoreTypes'
    BY DEF P!PopRun, StoreTypes, SlidesKnown, TasksInPlace
  <2>2. RunTypes'
    BY DEF P!PopRun, RunTypes
  <2>3. ThreadTypes'
    BY DEF P!PopRun, ThreadTypes, P!Places
  <2>4. RequestTypes'
    BY DEF P!PopRun, RequestTypes, P!Tasks
  <2>5. HistoryTypes'
    BY DEF P!PopRun, HistoryTypes
  <2>6. BoundTypes'
    BY DEF P!PopRun, BoundTypes, P!Fault, P!NoFault
  <2> QED
    BY <2>1, <2>2, <2>3, <2>4, <2>5, <2>6
<1>2. RunsAreLatest'
  BY DEF P!PopRun, StoreTypes, RunTypes, ThreadTypes, RunsAreLatest, TasksInPlace
<1>3. WatchersAreKnown'
  BY DEF P!PopRun, RunTypes, ThreadTypes, RunsAreLatest, WatchersAreKnown
<1>4. TasksInPlace'
  BY DEF P!PopRun, P!Manual, RequestTypes, ThreadTypes, TasksInPlace, RunsAreLatest
<1>5. SlidesKnown'
  BY DEF P!PopRun, P!Manual, StoreTypes, ThreadTypes, RequestTypes, SlidesKnown, TasksInPlace
<1>6. ControlIsHeld'
  BY DEF P!PopRun, RunTypes, ThreadTypes, RequestTypes, RunsAreLatest, WatchersAreKnown,
     TasksInPlace, ControlIsHeld, TakesControl, WatcherLeaves
<1>7. WatcherLeaves'
  BY DEF P!PopRun, RunTypes, ThreadTypes, RequestTypes, RunsAreLatest, WatchersAreKnown,
     TasksInPlace, ControlIsHeld, TakesControl, WatcherLeaves
<1>8. TimelineInv'
  <2> SUFFICES ASSUME ~disturbed' PROVE (OnePersists /\ TimesArePast /\ ChangesInOrder)'
    BY DEF TimelineInv
  <2>0. ~disturbed /\ OnePersists /\ TimesArePast /\ ChangesInOrder
    BY DEF P!PopRun, TimelineInv
  <2>1. OnePersists'
    BY <2>0 DEF P!PopRun, RunTypes, ThreadTypes, RunsAreLatest, WatchersAreKnown, TasksInPlace,
       SlidesKnown, OnePersists, ChangesInOrder
  <2>2. TimesArePast'
    BY <2>0 DEF P!PopRun, StoreTypes, RunTypes, ThreadTypes, RunsAreLatest, TasksInPlace,
       OnePersists, TimesArePast, P!Latest
  <2>3. ChangesInOrder'
    BY <2>0 DEF P!PopRun, StoreTypes, RunTypes, ThreadTypes, RunsAreLatest, TasksInPlace,
       OnePersists, TimesArePast, ChangesInOrder, P!Latest
  <2> QED
    BY <2>1, <2>2, <2>3
<1> QED
  BY <1>1, <1>2, <1>3, <1>4, <1>5, <1>6, <1>7, <1>8

\* The end of the session adds nothing to its timeline.
LEMMA EndSessionKeeps == ASSUME SlideInv, P!EndSession PROVE SlideInv'
<1> USE SlideAssumed DEF SlideInv
<1>1. (StoreTypes /\ RunTypes /\ ThreadTypes /\ RequestTypes /\ HistoryTypes /\ BoundTypes)'
  <2>1. StoreTypes'
    BY DEF P!EndSession, P!Fault, P!NoFault, StoreTypes, SlidesKnown, TasksInPlace
  <2>2. RunTypes'
    BY DEF P!EndSession, P!Fault, P!NoFault, RunTypes
  <2>3. ThreadTypes'
    BY DEF P!EndSession, P!Fault, P!NoFault, ThreadTypes, P!Places
  <2>4. RequestTypes'
    BY DEF P!EndSession, P!Fault, P!NoFault, RequestTypes, P!Tasks
  <2>5. HistoryTypes'
    BY DEF P!EndSession, P!Fault, P!NoFault, HistoryTypes
  <2>6. BoundTypes'
    BY DEF P!EndSession, P!Fault, P!NoFault, BoundTypes
  <2> QED
    BY <2>1, <2>2, <2>3, <2>4, <2>5, <2>6
<1>2. RunsAreLatest'
  BY DEF P!EndSession, P!Fault, P!NoFault, StoreTypes, RunTypes, ThreadTypes, RunsAreLatest,
     TasksInPlace
<1>3. WatchersAreKnown'
  BY DEF P!EndSession, P!Fault, P!NoFault, RunTypes, ThreadTypes, RunsAreLatest,
     WatchersAreKnown
<1>4. TasksInPlace'
  BY DEF P!EndSession, P!Fault, P!NoFault, P!Manual, RequestTypes, ThreadTypes, TasksInPlace,
     RunsAreLatest
<1>5. SlidesKnown'
  <2>1. ASSUME NEW u \in P!Threads, pc'[u] \in {"check", "readdb", "insert", "apply"}
        PROVE  slide'[u] # 0
    BY <2>1 DEF P!EndSession, P!Fault, P!NoFault, P!Manual, StoreTypes, ThreadTypes,
       RequestTypes, SlidesKnown, TasksInPlace
  <2>2. (pc[P!Control] \in {"follow", "watch"} => slide[P!Control] # 0)'
    BY DEF P!EndSession, P!Fault, P!NoFault, P!Manual, StoreTypes, ThreadTypes, RequestTypes,
       SlidesKnown, TasksInPlace
  <2>3. (task \in P!Manual => target # 0)'
    BY DEF P!EndSession, P!Fault, P!NoFault, P!Manual, StoreTypes, ThreadTypes, RequestTypes,
       SlidesKnown, TasksInPlace
  <2> QED
    BY <2>1, <2>2, <2>3 DEF SlidesKnown
<1>6. ControlIsHeld'
  BY DEF P!EndSession, P!Fault, P!NoFault, RunTypes, ThreadTypes, RequestTypes, RunsAreLatest,
     WatchersAreKnown, TasksInPlace, ControlIsHeld, TakesControl, WatcherLeaves
<1>7. WatcherLeaves'
  BY DEF P!EndSession, P!Fault, P!NoFault, RunTypes, ThreadTypes, RequestTypes, RunsAreLatest,
     WatchersAreKnown, TasksInPlace, ControlIsHeld, TakesControl, WatcherLeaves
<1>8. TimelineInv'
  <2> SUFFICES ASSUME ~disturbed' PROVE (OnePersists /\ TimesArePast /\ ChangesInOrder)'
    BY DEF TimelineInv
  <2>0. ~disturbed /\ OnePersists /\ TimesArePast /\ ChangesInOrder
    BY DEF P!EndSession, TimelineInv
  <2>1. OnePersists'
    BY <2>0 DEF P!EndSession, P!Fault, P!NoFault, RunTypes, ThreadTypes, RunsAreLatest,
       WatchersAreKnown, TasksInPlace, SlidesKnown, OnePersists, ChangesInOrder
  <2>2. TimesArePast'
    BY <2>0 DEF P!EndSession, P!Fault, P!NoFault, StoreTypes, RunTypes, ThreadTypes,
       RunsAreLatest, TasksInPlace, OnePersists, TimesArePast, P!Latest
  <2>3. ChangesInOrder'
    BY <2>0 DEF P!EndSession, P!Fault, P!NoFault, StoreTypes, RunTypes, ThreadTypes,
       RunsAreLatest, TasksInPlace, OnePersists, TimesArePast, ChangesInOrder, P!Latest
  <2> QED
    BY <2>1, <2>2, <2>3
<1> QED
  BY <1>1, <1>2, <1>3, <1>4, <1>5, <1>6, <1>7, <1>8

\* The check lets a writer on only if its run is registered and the slide is another one.
LEMMA CheckKeeps == ASSUME SlideInv, NEW t \in P!Threads, P!Check(t) PROVE SlideInv'
<1> USE SlideAssumed DEF SlideInv
<1>a. /\ pc[t] = "check" /\ pc' = [pc EXCEPT ![t] = "readdb"]
      /\ at' = [at EXCEPT ![t] = IF starting /\ t = P!Control THEN 0 ELSE now - base[on[t]]]
      /\ disturbed' = (disturbed \/ \E u \in P!Threads \ {t} : P!Persisting(u))
      /\ UNCHANGED <<show, active, timeline, running, mode, stopSet, current, watcher, base,
                     made,
                     on, slide, latest, task, target, starting, now, chosen, overrun, requests, moves, showFaults>>
  BY DEF P!Check
<1>n. on[t] \in P!Runs /\ base[on[t]] <= now /\ base[on[t]] \in Nat /\ now \in Nat
  BY DEF ThreadTypes, RunTypes, StoreTypes, RunsAreLatest
<1>b. /\ pc'[t] = "readdb" /\ at'[t] = (IF starting
           /\ t = P!Control THEN 0 ELSE now - base[on[t]])
      /\ \A u \in P!Threads : u # t => pc'[u] = pc[u] /\ at'[u] = at[u]
  BY <1>a DEF ThreadTypes
<1>1. (StoreTypes /\ RunTypes /\ ThreadTypes /\ RequestTypes /\ HistoryTypes /\ BoundTypes)'
  <2>1. StoreTypes'
    BY <1>a DEF StoreTypes, SlidesKnown, TasksInPlace
  <2>2. RunTypes'
    BY <1>a DEF RunTypes
  <2>3. ThreadTypes'
    <3>1. pc' \in [P!Threads -> P!Places]
      BY <1>a DEF ThreadTypes, P!Places, StoreTypes, RunTypes, RunsAreLatest
    <3>2. on' \in [P!Threads -> P!Runs]
      BY <1>a DEF ThreadTypes, P!Places, StoreTypes, RunTypes, RunsAreLatest
    <3>3. slide' \in [P!Threads -> 0..LastSlide]
      BY <1>a DEF ThreadTypes, P!Places, StoreTypes, RunTypes, RunsAreLatest
    <3>4. at' \in [P!Threads -> Nat] /\ latest' \in [P!Threads -> Nat]
      BY <1>a, <1>n DEF ThreadTypes
    <3> QED
      BY <3>1, <3>2, <3>3, <3>4 DEF ThreadTypes
  <2>4. RequestTypes'
    BY <1>a DEF RequestTypes, P!Tasks
  <2>5. HistoryTypes'
    BY <1>a DEF HistoryTypes
  <2>6. BoundTypes'
    BY <1>a DEF BoundTypes, P!Fault, P!NoFault
  <2> QED
    BY <2>1, <2>2, <2>3, <2>4, <2>5, <2>6
<1>2. RunsAreLatest'
  BY <1>a DEF StoreTypes, RunTypes, ThreadTypes, RunsAreLatest, TasksInPlace
<1>3. WatchersAreKnown'
  BY <1>a DEF RunTypes, ThreadTypes, RunsAreLatest, WatchersAreKnown
<1>4. TasksInPlace'
  BY <1>a DEF P!Manual, RequestTypes, ThreadTypes, TasksInPlace, RunsAreLatest
<1>5. SlidesKnown'
  BY <1>a DEF P!Manual, StoreTypes, ThreadTypes, RequestTypes, SlidesKnown, TasksInPlace
<1>6. ControlIsHeld'
  BY <1>a DEF RunTypes, ThreadTypes, RequestTypes, RunsAreLatest, WatchersAreKnown,
     TasksInPlace, ControlIsHeld, TakesControl, WatcherLeaves
<1>7. WatcherLeaves'
  BY <1>a DEF RunTypes, ThreadTypes, RequestTypes, RunsAreLatest, WatchersAreKnown,
     TasksInPlace, ControlIsHeld, TakesControl, WatcherLeaves
<1>8. TimelineInv'
  <2> SUFFICES ASSUME ~disturbed' PROVE (OnePersists /\ TimesArePast /\ ChangesInOrder)'
    BY DEF TimelineInv
  <2>0. ~disturbed /\ OnePersists /\ TimesArePast /\ ChangesInOrder
    BY DEF P!Check, TimelineInv
  <2>1. OnePersists'
    BY <2>0, <1>a DEF RunTypes, ThreadTypes, RunsAreLatest, WatchersAreKnown, TasksInPlace,
       SlidesKnown, OnePersists, ChangesInOrder
  <2>2. TimesArePast'
    <3>1. ASSUME NEW i \in 1..Len(timeline')
          PROVE  made' # 0 /\ timeline'[i].at < now' - base'[made']
      BY <3>1, <2>0, <1>a DEF StoreTypes, RunTypes, ThreadTypes, RunsAreLatest, TasksInPlace,
         OnePersists, TimesArePast, P!Latest
    <3>2. ASSUME NEW u \in P!Threads, pc'[u] \in {"readdb", "insert"}
          PROVE  at'[u] <= now' - base'[made']
      <4>1. on[t] = made
        BY <1>a, <2>0 DEF OnePersists, RunsAreLatest
      <4>2. CASE u = t
        BY <1>a, <1>b, <1>n, <4>1, <4>2
      <4>3. CASE u # t
        BY <1>a, <1>b, <2>0, <3>2, <4>3 DEF TimesArePast
      <4> QED
        BY <4>2, <4>3
    <3>3. ASSUME NEW u \in P!Threads, pc'[u] \in {"readdb", "insert"}, NEW i \in 1..Len(timeline')
 PROVE  timeline'[i].at < at'[u]
      <4>1. on[t] = made
        BY <1>a, <2>0 DEF OnePersists, RunsAreLatest
      <4>2. CASE u = t
        <5>1. CASE starting /\ t = P!Control
          <6>1. timeline = <<>>
            BY <1>a, <2>0, <5>1 DEF OnePersists
          <6> QED
            BY <1>a, <3>3, <6>1
        <5>2. CASE ~(starting /\ t = P!Control)
          BY <1>a, <1>b, <2>0, <3>3, <4>1, <4>2, <5>2 DEF TimesArePast
        <5> QED
          BY <5>1, <5>2
      <4>3. CASE u # t
        BY <1>a, <1>b, <2>0, <3>3, <4>3 DEF TimesArePast
      <4> QED
        BY <4>2, <4>3
    <3>4. ASSUME NEW u \in P!Threads, pc'[u] = "insert"
          PROVE  latest'[u] <= at'[u] /\ P!Latest' # slide'[u]
      BY <1>a, <1>b, <2>0, <3>4 DEF TimesArePast, P!Latest
    <3> QED
      BY <3>1, <3>2, <3>3, <3>4 DEF TimesArePast
  <2>3. ChangesInOrder'
    BY <2>0, <1>a DEF StoreTypes, RunTypes, ThreadTypes, RunsAreLatest, TasksInPlace,
       OnePersists, TimesArePast, ChangesInOrder, P!Latest
  <2> QED
    BY <2>1, <2>2, <2>3
<1> QED
  BY <1>1, <1>2, <1>3, <1>4, <1>5, <1>6, <1>7, <1>8

\* A check that finds nothing to do ends the persisting without a row.
LEMMA CheckReturnsKeeps == ASSUME SlideInv, NEW t \in P!Threads, P!CheckReturns(t)
PROVE  SlideInv'
<1> USE SlideAssumed DEF SlideInv
<1>a. PICK x : /\ pc' = [pc EXCEPT ![t] = x]
               /\ \/ /\ t # P!Control /\ x = "wait"
                     /\ UNCHANGED <<task, target, starting, chosen>>
                  \/ /\ t = P!Control /\ x = "watch"
                     /\ \/ starting /\ mode[on[t]] = "powerpoint"
                        \/ ~starting /\ task = "detect"
                     /\ UNCHANGED <<task, target, starting, chosen>>
                  \/ /\ t = P!Control /\ x = "override" /\ starting /\ task \in P!Manual
                     /\ starting' = FALSE /\ UNCHANGED <<task, target, chosen>>
                  \/ /\ t = P!Control /\ x = "idle"
                     /\ task' = "none" /\ starting' = FALSE /\ UNCHANGED target
                     /\ \/ starting /\ UNCHANGED chosen
                        \/ ~starting /\ task # "detect" /\ chosen' = slide[t]
  BY PersistedMoves DEF P!CheckReturns
<1>b. /\ pc[t] = "check" /\ P!Unneeded(t)
      /\ UNCHANGED <<current, show, active, timeline, running, mode, stopSet, watcher, base,
                     made, on, slide, at, latest,
                     now, overrun, disturbed, requests, moves, showFaults>>
  BY DEF P!CheckReturns
<1>c. pc'[t] = x /\ \A u \in P!Threads : u # t => pc'[u] = pc[u]
  BY <1>a DEF ThreadTypes
<1>1. (StoreTypes /\ RunTypes /\ ThreadTypes /\ RequestTypes /\ HistoryTypes /\ BoundTypes)'
  <2>1. StoreTypes'
    BY <1>a, <1>b, <1>c DEF StoreTypes, SlidesKnown, TasksInPlace
  <2>2. RunTypes'
    BY <1>a, <1>b, <1>c DEF RunTypes
  <2>3. ThreadTypes'
    BY <1>a, <1>b, <1>c DEF ThreadTypes, P!Places
  <2>4. RequestTypes'
    BY <1>a, <1>b, <1>c DEF RequestTypes, P!Tasks
  <2>5. HistoryTypes'
    BY <1>a, <1>b, <1>c DEF HistoryTypes, ThreadTypes
  <2>6. BoundTypes'
    BY <1>a, <1>b, <1>c DEF BoundTypes, P!Fault, P!NoFault
  <2> QED
    BY <2>1, <2>2, <2>3, <2>4, <2>5, <2>6
<1>2. RunsAreLatest'
  BY <1>a, <1>b, <1>c DEF StoreTypes, RunTypes, ThreadTypes, RunsAreLatest, TasksInPlace
<1>3. WatchersAreKnown'
  BY <1>a, <1>b, <1>c DEF RunTypes, ThreadTypes, RunsAreLatest, WatchersAreKnown
<1>4. TasksInPlace'
  BY <1>a, <1>b, <1>c DEF P!Manual, RequestTypes, ThreadTypes, TasksInPlace, RunsAreLatest
<1>5. SlidesKnown'
  BY <1>a, <1>b, <1>c DEF P!Manual, StoreTypes, ThreadTypes, RequestTypes, SlidesKnown,
     TasksInPlace
<1>6. ControlIsHeld'
  <2>1. (running # 0 /\ chosen # 0 /\ ~overrun => mode[running] = "manual")'
    BY <1>a, <1>b, <1>c DEF RunTypes, ThreadTypes, RequestTypes, RunsAreLatest,
       WatchersAreKnown, TasksInPlace, ControlIsHeld, TakesControl, WatcherLeaves
  <2>2. (running # 0 /\ chosen # 0 /\ ~overrun => current[running] = chosen)'
    <3>1. CASE UNCHANGED chosen
      BY <1>b, <3>1 DEF ControlIsHeld
    <3>2. CASE t = P!Control /\ chosen' = slide[t]
      BY <1>b, <3>2 DEF RunsAreLatest, P!Unneeded
    <3> QED
      BY <1>a, <1>b, <3>1, <3>2
  <2>3. ASSUME TakesControl' PROVE mode'[running'] = "manual"
    BY <2>3, <1>a, <1>b, <1>c DEF RunTypes, ThreadTypes, RequestTypes, RunsAreLatest,
       WatchersAreKnown, TasksInPlace, ControlIsHeld, TakesControl, WatcherLeaves
  <2> QED
    BY <2>1, <2>2, <2>3 DEF ControlIsHeld
<1>7. WatcherLeaves'
  <2>1. ASSUME running' # 0, mode'[running'] = "manual", ~overrun', P!Alive(watcher[running])'
 PROVE  (\/ pc[watcher[running]] \in {"leaving", "wait"}
         \/ pc[P!Control] = "join" /\ task # "stop" /\ chosen = 0)'
    BY <2>1, <1>a, <1>b, <1>c DEF RunTypes, ThreadTypes, RequestTypes, RunsAreLatest,
       WatchersAreKnown, TasksInPlace, ControlIsHeld, TakesControl, WatcherLeaves
  <2> QED
    BY <2>1 DEF WatcherLeaves
<1>8. TimelineInv'
  <2> SUFFICES ASSUME ~disturbed' PROVE (OnePersists /\ TimesArePast /\ ChangesInOrder)'
    BY DEF TimelineInv
  <2>0. ~disturbed /\ OnePersists /\ TimesArePast /\ ChangesInOrder
    BY DEF P!CheckReturns, TimelineInv
  <2>1. OnePersists'
    <3>1. ASSUME NEW u \in Watchers, pc'[u] # "dead" PROVE on'[u] = made' /\ timeline' # <<>>
      BY <3>1, <2>0, <1>a, <1>b, <1>c DEF RunTypes, ThreadTypes, RunsAreLatest,
         WatchersAreKnown, TasksInPlace, SlidesKnown, OnePersists, ChangesInOrder
    <3>2. ASSUME NEW u \in P!Threads, NEW v \in P!Threads, P!Persisting(u)', P!Persisting(v)'
          PROVE  u = v
      BY <3>2, <2>0, <1>a, <1>b, <1>c DEF RunTypes, ThreadTypes, RunsAreLatest,
         WatchersAreKnown, TasksInPlace, SlidesKnown, OnePersists, ChangesInOrder
    <3>3. (pc[P!Control] = "watch" => timeline # <<>>)'
      <4>1. CASE t # P!Control
        BY <1>b, <1>c, <2>0, <4>1 DEF OnePersists
      <4>2. CASE t = P!Control
        <5>1. on[P!Control] = made /\ running = on[P!Control] /\ made # 0 /\ made \in P!Runs
          BY <1>b, <4>2 DEF RunsAreLatest, ThreadTypes
        <5>2. current[made] # 0
          BY <1>b, <4>2, <5>1 DEF SlidesKnown, P!Unneeded
        <5>3. timeline # <<>>
          BY <2>0, <5>1, <5>2 DEF ChangesInOrder
        <5> QED
          BY <1>b, <5>3
      <4> QED
        BY <4>1, <4>2
    <3>4. (starting /\ pc[P!Control] \in {"check", "readdb", "insert"} => timeline = <<>>)'
      BY <2>0, <1>a, <1>b, <1>c DEF RunTypes, ThreadTypes, RunsAreLatest, WatchersAreKnown,
         TasksInPlace, SlidesKnown, OnePersists, ChangesInOrder
    <3> QED
      BY <3>1, <3>2, <3>3, <3>4 DEF OnePersists
  <2>2. TimesArePast'
    <3>1. ASSUME NEW i \in 1..Len(timeline')
          PROVE  made' # 0 /\ timeline'[i].at < now' - base'[made']
      BY <3>1, <2>0, <1>a, <1>b, <1>c DEF StoreTypes, RunTypes, ThreadTypes, RunsAreLatest,
         TasksInPlace, OnePersists, TimesArePast, P!Latest
    <3>2. ASSUME NEW u \in P!Threads, pc'[u] \in {"readdb", "insert"}
          PROVE  at'[u] <= now' - base'[made']
      BY <3>2, <2>0, <1>a, <1>b, <1>c DEF StoreTypes, RunTypes, ThreadTypes, RunsAreLatest,
         TasksInPlace, OnePersists, TimesArePast, P!Latest
    <3>3. ASSUME NEW u \in P!Threads, pc'[u] \in {"readdb", "insert"}, NEW i \in 1..Len(timeline')
 PROVE  timeline'[i].at < at'[u]
      BY <3>3, <2>0, <1>a, <1>b, <1>c DEF StoreTypes, RunTypes, ThreadTypes, RunsAreLatest,
         TasksInPlace, OnePersists, TimesArePast, P!Latest
    <3>4. ASSUME NEW u \in P!Threads, pc'[u] = "insert"
          PROVE  latest'[u] <= at'[u] /\ P!Latest' # slide'[u]
      BY <3>4, <2>0, <1>a, <1>b, <1>c DEF StoreTypes, RunTypes, ThreadTypes, RunsAreLatest,
         TasksInPlace, OnePersists, TimesArePast, P!Latest
    <3> QED
      BY <3>1, <3>2, <3>3, <3>4 DEF TimesArePast
  <2>3. ChangesInOrder'
    <3>1. ASSUME NEW i \in 1..(Len(timeline') - 1)
 PROVE  timeline'[i].slide # timeline'[i + 1].slide /\ timeline'[i].at <= timeline'[i + 1].at
      BY <3>1, <2>0, <1>a, <1>b, <1>c DEF StoreTypes, RunTypes, ThreadTypes, RunsAreLatest,
         TasksInPlace, OnePersists, TimesArePast, ChangesInOrder, P!Latest
    <3>2. ASSUME NEW u \in P!Threads, pc'[u] = "apply"
          PROVE  timeline' # <<>> /\ P!Latest' = slide'[u]
      BY <3>2, <2>0, <1>a, <1>b, <1>c DEF StoreTypes, RunTypes, ThreadTypes, RunsAreLatest,
         TasksInPlace, OnePersists, TimesArePast, ChangesInOrder, P!Latest
    <3>3. ASSUME made' # 0, current'[made'] # 0, \A u \in P!Threads : pc'[u] # "apply"
 PROVE  timeline' # <<>> /\ P!Latest' = current'[made']
      BY <3>3, <2>0, <1>a, <1>b, <1>c DEF StoreTypes, RunTypes, ThreadTypes, RunsAreLatest,
         TasksInPlace, OnePersists, TimesArePast, ChangesInOrder, P!Latest
    <3> QED
      BY <3>1, <3>2, <3>3 DEF ChangesInOrder
  <2> QED
    BY <2>1, <2>2, <2>3
<1> QED
  BY <1>1, <1>2, <1>3, <1>4, <1>5, <1>6, <1>7, <1>8

\* A session that ended takes no row.
LEMMA ReadEndedKeeps == ASSUME SlideInv, NEW t \in P!Threads, P!ReadEnded(t) PROVE SlideInv'
<1> USE SlideAssumed DEF SlideInv
<1>a. PICK x : /\ pc' = [pc EXCEPT ![t] = x]
               /\ \/ /\ t # P!Control /\ x = "wait"
                     /\ UNCHANGED <<task, target, starting, chosen>>
                  \/ /\ t = P!Control /\ x = "watch"
                     /\ \/ starting /\ mode[on[t]] = "powerpoint"
                        \/ ~starting /\ task = "detect"
                     /\ UNCHANGED <<task, target, starting, chosen>>
                  \/ /\ t = P!Control /\ x = "override" /\ starting /\ task \in P!Manual
                     /\ starting' = FALSE /\ UNCHANGED <<task, target, chosen>>
                  \/ /\ t = P!Control /\ x = "idle"
                     /\ task' = "none" /\ starting' = FALSE /\ UNCHANGED target
                     /\ \/ starting /\ UNCHANGED chosen
                        \/ ~starting /\ task # "detect" /\ chosen' = slide[t]
  BY PersistedMoves DEF P!ReadEnded
<1>b. /\ pc[t] = "readdb" /\ ~active
      /\ UNCHANGED <<current, show, active, timeline, running, mode, stopSet, watcher, base,
                     made, on, slide, at, latest,
                     now, overrun, disturbed, requests, moves, showFaults>>
  BY DEF P!ReadEnded
<1>c. pc'[t] = x /\ \A u \in P!Threads : u # t => pc'[u] = pc[u]
  BY <1>a DEF ThreadTypes
<1>1. (StoreTypes /\ RunTypes /\ ThreadTypes /\ RequestTypes /\ HistoryTypes /\ BoundTypes)'
  <2>1. StoreTypes'
    BY <1>a, <1>b, <1>c DEF StoreTypes, SlidesKnown, TasksInPlace
  <2>2. RunTypes'
    BY <1>a, <1>b, <1>c DEF RunTypes
  <2>3. ThreadTypes'
    BY <1>a, <1>b, <1>c DEF ThreadTypes, P!Places
  <2>4. RequestTypes'
    BY <1>a, <1>b, <1>c DEF RequestTypes, P!Tasks
  <2>5. HistoryTypes'
    BY <1>a, <1>b, <1>c DEF HistoryTypes, ThreadTypes
  <2>6. BoundTypes'
    BY <1>a, <1>b, <1>c DEF BoundTypes, P!Fault, P!NoFault
  <2> QED
    BY <2>1, <2>2, <2>3, <2>4, <2>5, <2>6
<1>2. RunsAreLatest'
  BY <1>a, <1>b, <1>c DEF StoreTypes, RunTypes, ThreadTypes, RunsAreLatest, TasksInPlace
<1>3. WatchersAreKnown'
  BY <1>a, <1>b, <1>c DEF RunTypes, ThreadTypes, RunsAreLatest, WatchersAreKnown
<1>4. TasksInPlace'
  BY <1>a, <1>b, <1>c DEF P!Manual, RequestTypes, ThreadTypes, TasksInPlace, RunsAreLatest
<1>5. SlidesKnown'
  BY <1>a, <1>b, <1>c DEF P!Manual, StoreTypes, ThreadTypes, RequestTypes, SlidesKnown,
     TasksInPlace
<1>6. ControlIsHeld'
  BY <1>a, <1>b, <1>c DEF RunTypes, ThreadTypes, RequestTypes, RunsAreLatest, WatchersAreKnown,
     TasksInPlace, ControlIsHeld, TakesControl, WatcherLeaves
<1>7. WatcherLeaves'
  BY <1>a, <1>b, <1>c DEF RunTypes, ThreadTypes, RequestTypes, RunsAreLatest, WatchersAreKnown,
     TasksInPlace, ControlIsHeld, TakesControl, WatcherLeaves
<1>8. TimelineInv'
  <2> SUFFICES ASSUME ~disturbed' PROVE (OnePersists /\ TimesArePast /\ ChangesInOrder)'
    BY DEF TimelineInv
  <2>0. ~disturbed /\ OnePersists /\ TimesArePast /\ ChangesInOrder
    BY DEF P!ReadEnded, TimelineInv
  <2>1. OnePersists'
    <3>1. ASSUME NEW u \in Watchers, pc'[u] # "dead" PROVE on'[u] = made' /\ timeline' # <<>>
      BY <3>1, <2>0, <1>a, <1>b, <1>c DEF RunTypes, ThreadTypes, RunsAreLatest,
         WatchersAreKnown, TasksInPlace, SlidesKnown, OnePersists, ChangesInOrder
    <3>2. ASSUME NEW u \in P!Threads, NEW v \in P!Threads, P!Persisting(u)', P!Persisting(v)'
          PROVE  u = v
      BY <3>2, <2>0, <1>a, <1>b, <1>c DEF RunTypes, ThreadTypes, RunsAreLatest,
         WatchersAreKnown, TasksInPlace, SlidesKnown, OnePersists, ChangesInOrder
    <3>3. (pc[P!Control] = "watch" => timeline # <<>>)'
      BY <2>0, <1>a, <1>b, <1>c DEF RunTypes, ThreadTypes, RunsAreLatest, WatchersAreKnown,
         TasksInPlace, SlidesKnown, OnePersists, ChangesInOrder
    <3>4. (starting /\ pc[P!Control] \in {"check", "readdb", "insert"} => timeline = <<>>)'
      BY <2>0, <1>a, <1>b, <1>c DEF RunTypes, ThreadTypes, RunsAreLatest, WatchersAreKnown,
         TasksInPlace, SlidesKnown, OnePersists, ChangesInOrder
    <3> QED
      BY <3>1, <3>2, <3>3, <3>4 DEF OnePersists
  <2>2. TimesArePast'
    BY <2>0, <1>a, <1>b, <1>c DEF StoreTypes, RunTypes, ThreadTypes, RunsAreLatest,
       TasksInPlace, OnePersists, TimesArePast, P!Latest
  <2>3. ChangesInOrder'
    BY <2>0, <1>a, <1>b, <1>c DEF StoreTypes, RunTypes, ThreadTypes, RunsAreLatest,
       TasksInPlace, OnePersists, TimesArePast, ChangesInOrder, P!Latest
  <2> QED
    BY <2>1, <2>2, <2>3
<1> QED
  BY <1>1, <1>2, <1>3, <1>4, <1>5, <1>6, <1>7, <1>8

\* A full timeline takes no row: a watcher turns to the switch, a request fails.
LEMMA ReadFullKeeps == ASSUME SlideInv, NEW t \in P!Threads, P!ReadFull(t) PROVE SlideInv'
<1> USE SlideAssumed DEF SlideInv
<1>a. PICK x : /\ pc' = [pc EXCEPT ![t] = x]
               /\ \/ /\ t = P!Control /\ x = "idle" /\ task' = "none" /\ starting' = FALSE
                     /\ running' = (IF starting THEN 0 ELSE running) /\ active' = (active
                          /\ task # "start")
                  \/ /\ t # P!Control /\ x = "switch"
                     /\ UNCHANGED <<task, starting, running, active>>
  BY DEF P!ReadFull, P!RequestFails
<1>b. /\ pc[t] = "readdb"
      /\ UNCHANGED <<show, timeline, target, chosen, mode, stopSet, current, watcher, base,
                     made, on,
                     slide, at, latest, now, overrun, disturbed, requests, moves>>
  BY DEF P!ReadFull, P!RequestFails
<1>c. pc'[t] = x /\ \A u \in P!Threads : u # t => pc'[u] = pc[u]
  BY <1>a DEF ThreadTypes
<1>d. showFaults' = showFaults \/ P!Fault("db")
  BY DEF P!ReadFull
<1>e. t = P!Control => running' \in {0, running} /\ (starting => running' = 0)
  BY <1>a
<1>1. (StoreTypes /\ RunTypes /\ ThreadTypes /\ RequestTypes /\ HistoryTypes /\ BoundTypes)'
  <2>1. StoreTypes'
    BY <1>a, <1>b, <1>c, <1>d, <1>e DEF StoreTypes, SlidesKnown, TasksInPlace
  <2>2. RunTypes'
    <3>1. (running \in 0..MaxRuns /\ made \in 0..MaxRuns)'
      BY <1>a, <1>b, <1>c, <1>d, <1>e DEF RunTypes
    <3>2. mode' \in [P!Runs -> {"powerpoint", "manual"}]
      BY <1>a, <1>b, <1>c, <1>d, <1>e DEF RunTypes
    <3>3. stopSet' \in [P!Runs -> BOOLEAN]
      BY <1>a, <1>b, <1>c, <1>d, <1>e DEF RunTypes
    <3>4. current' \in [P!Runs -> 0..LastSlide]
      BY <1>a, <1>b, <1>c, <1>d, <1>e DEF RunTypes
    <3>5. watcher' \in [P!Runs -> Watchers \cup {"none"}]
      BY <1>a, <1>b, <1>c, <1>d, <1>e DEF RunTypes
    <3>6. base' \in [P!Runs -> Nat]
      BY <1>a, <1>b, <1>c, <1>d, <1>e DEF RunTypes
    <3> QED
      BY <3>1, <3>2, <3>3, <3>4, <3>5, <3>6 DEF RunTypes
  <2>3. ThreadTypes'
    BY <1>a, <1>b, <1>c, <1>d, <1>e DEF ThreadTypes, P!Places
  <2>4. RequestTypes'
    BY <1>a, <1>b, <1>c, <1>d, <1>e DEF RequestTypes, P!Tasks
  <2>5. HistoryTypes'
    BY <1>a, <1>b, <1>c, <1>d, <1>e DEF HistoryTypes
  <2>6. BoundTypes'
    BY <1>a, <1>b, <1>c, <1>d, <1>e DEF BoundTypes, P!Fault, P!NoFault
  <2> QED
    BY <2>1, <2>2, <2>3, <2>4, <2>5, <2>6
<1>2. RunsAreLatest'
  BY <1>a, <1>b, <1>c, <1>d, <1>e DEF StoreTypes, RunTypes, ThreadTypes, RunsAreLatest,
     TasksInPlace
<1>3. WatchersAreKnown'
  <2>1. ASSUME NEW u \in Watchers, pc'[u] # "dead" PROVE watcher'[on'[u]] = u /\ on'[u] <= made'
    BY <2>1, <1>a, <1>b, <1>c, <1>d, <1>e DEF RunTypes, ThreadTypes, RunsAreLatest,
       WatchersAreKnown
  <2> QED
    BY <2>1 DEF WatchersAreKnown
<1>4. TasksInPlace'
  BY <1>a, <1>b, <1>c, <1>d, <1>e DEF P!Manual, RequestTypes, ThreadTypes, TasksInPlace,
     RunsAreLatest
<1>5. SlidesKnown'
  <2>1. ASSUME NEW u \in P!Threads, pc'[u] \in {"check", "readdb", "insert", "apply"}
        PROVE  slide'[u] # 0
    BY <2>1, <1>a, <1>b, <1>c, <1>d, <1>e DEF P!Manual, StoreTypes, ThreadTypes, RequestTypes,
       SlidesKnown, TasksInPlace
  <2>2. (pc[P!Control] \in {"follow", "watch"} => slide[P!Control] # 0)'
    BY <1>a, <1>b, <1>c, <1>d, <1>e DEF P!Manual, StoreTypes, ThreadTypes, RequestTypes,
       SlidesKnown, TasksInPlace
  <2>3. (task \in P!Manual => target # 0)'
    BY <1>a, <1>b, <1>c, <1>d, <1>e DEF P!Manual, StoreTypes, ThreadTypes, RequestTypes,
       SlidesKnown, TasksInPlace
  <2> QED
    BY <2>1, <2>2, <2>3 DEF SlidesKnown
<1>6. ControlIsHeld'
  <2>1. (running # 0 /\ chosen # 0 /\ ~overrun => mode[running] = "manual")'
    BY <1>a, <1>b, <1>c, <1>d, <1>e DEF RunTypes, ThreadTypes, RequestTypes, RunsAreLatest,
       WatchersAreKnown, TasksInPlace, ControlIsHeld, TakesControl, WatcherLeaves
  <2>2. (running # 0 /\ chosen # 0 /\ ~overrun => current[running] = chosen)'
    BY <1>a, <1>b, <1>c, <1>d, <1>e DEF RunTypes, ThreadTypes, RequestTypes, RunsAreLatest,
       WatchersAreKnown, TasksInPlace, ControlIsHeld, TakesControl, WatcherLeaves
  <2>3. ASSUME TakesControl' PROVE mode'[running'] = "manual"
    BY <2>3, <1>a, <1>b, <1>c, <1>d, <1>e DEF RunTypes, ThreadTypes, RequestTypes,
       RunsAreLatest, WatchersAreKnown, TasksInPlace, ControlIsHeld, TakesControl, WatcherLeaves
  <2> QED
    BY <2>1, <2>2, <2>3 DEF ControlIsHeld
<1>7. WatcherLeaves'
  <2>1. ASSUME running' # 0, mode'[running'] = "manual", ~overrun', P!Alive(watcher[running])'
 PROVE  (\/ pc[watcher[running]] \in {"leaving", "wait"}
         \/ pc[P!Control] = "join" /\ task # "stop" /\ chosen = 0)'
    BY <2>1, <1>a, <1>b, <1>c, <1>d, <1>e DEF RunTypes, ThreadTypes, RequestTypes,
       RunsAreLatest, WatchersAreKnown, TasksInPlace, ControlIsHeld, TakesControl, WatcherLeaves
  <2> QED
    BY <2>1 DEF WatcherLeaves
<1>8. TimelineInv'
  <2> SUFFICES ASSUME ~disturbed' PROVE (OnePersists /\ TimesArePast /\ ChangesInOrder)'
    BY DEF TimelineInv
  <2>0. ~disturbed /\ OnePersists /\ TimesArePast /\ ChangesInOrder
    BY DEF P!ReadFull, TimelineInv
  <2>1. OnePersists'
    <3>1. ASSUME NEW u \in Watchers, pc'[u] # "dead" PROVE on'[u] = made' /\ timeline' # <<>>
      BY <3>1, <2>0, <1>a, <1>b, <1>c, <1>d, <1>e DEF RunTypes, ThreadTypes, RunsAreLatest,
         WatchersAreKnown, TasksInPlace, SlidesKnown, OnePersists, ChangesInOrder
    <3>2. ASSUME NEW u \in P!Threads, NEW v \in P!Threads, P!Persisting(u)', P!Persisting(v)'
          PROVE  u = v
      BY <3>2, <2>0, <1>a, <1>b, <1>c, <1>d, <1>e DEF RunTypes, ThreadTypes, RunsAreLatest,
         WatchersAreKnown, TasksInPlace, SlidesKnown, OnePersists, ChangesInOrder
    <3>3. (pc[P!Control] = "watch" => timeline # <<>>)'
      BY <2>0, <1>a, <1>b, <1>c, <1>d, <1>e DEF RunTypes, ThreadTypes, RunsAreLatest,
         WatchersAreKnown, TasksInPlace, SlidesKnown, OnePersists, ChangesInOrder
    <3>4. (starting /\ pc[P!Control] \in {"check", "readdb", "insert"} => timeline = <<>>)'
      BY <2>0, <1>a, <1>b, <1>c, <1>d, <1>e DEF RunTypes, ThreadTypes, RunsAreLatest,
         WatchersAreKnown, TasksInPlace, SlidesKnown, OnePersists, ChangesInOrder
    <3> QED
      BY <3>1, <3>2, <3>3, <3>4 DEF OnePersists
  <2>2. TimesArePast'
    BY <2>0, <1>a, <1>b, <1>c, <1>d, <1>e DEF StoreTypes, RunTypes, ThreadTypes, RunsAreLatest,
       TasksInPlace, OnePersists, TimesArePast, P!Latest
  <2>3. ChangesInOrder'
    BY <2>0, <1>a, <1>b, <1>c, <1>d, <1>e DEF StoreTypes, RunTypes, ThreadTypes, RunsAreLatest,
       TasksInPlace, OnePersists, TimesArePast, ChangesInOrder, P!Latest
  <2> QED
    BY <2>1, <2>2, <2>3
<1> QED
  BY <1>1, <1>2, <1>3, <1>4, <1>5, <1>6, <1>7, <1>8

\* What is read as the latest slide is that of the last row.
LEMMA ReadLatestKeeps == ASSUME SlideInv, NEW t \in P!Threads, P!ReadLatest(t) PROVE SlideInv'
<1> USE SlideAssumed DEF SlideInv
<1>a. /\ pc[t] = "readdb" /\ active
           /\ pc' = [pc EXCEPT ![t] = IF P!Latest = slide[t] THEN "apply" ELSE "insert"]
      /\ latest' = [latest EXCEPT ![t] = IF timeline = <<>> THEN 0 ELSE P!Last(timeline).at]
      /\ UNCHANGED <<show, active, timeline, running, mode, stopSet, current, watcher, base,
                     made,
                     on, slide, at, task, target, starting, now, chosen, overrun, disturbed, requests,
                     moves, showFaults>>
  BY DEF P!ReadLatest
<1>n. timeline # <<>> => /\ P!Last(timeline) = timeline[Len(timeline)]
          /\ Len(timeline) \in 1..Len(timeline)
                         /\ P!Last(timeline) \in [slide : P!Slides, at : Nat]
  <2> SUFFICES ASSUME timeline # <<>>
               PROVE  /\ P!Last(timeline) = timeline[Len(timeline)]
                   /\ Len(timeline) \in 1..Len(timeline)
                      /\ P!Last(timeline) \in [slide : P!Slides, at : Nat]
    OBVIOUS
  <2> DEFINE E == [slide : P!Slides, at : Nat]
  <2>1. timeline \in Seq(E)
    BY DEF StoreTypes
  <2> HIDE DEF E
  <2>2. /\ Len(timeline) \in Nat /\ Len(timeline) >= 1
             /\ P!Last(timeline) = timeline[Len(timeline)]
        /\ P!Last(timeline) \in E
    BY <2>1, LastStands
  <2> QED
    BY <2>2 DEF E
<1>b. /\ pc'[t] = (IF P!Latest = slide[t] THEN "apply" ELSE "insert")
      /\ latest'[t] = (IF timeline = <<>> THEN 0 ELSE P!Last(timeline).at)
      /\ \A u \in P!Threads : u # t => pc'[u] = pc[u] /\ latest'[u] = latest[u]
  BY <1>a DEF ThreadTypes
<1>m. P!Latest' = P!Latest
  BY <1>a DEF P!Latest
<1>1. (StoreTypes /\ RunTypes /\ ThreadTypes /\ RequestTypes /\ HistoryTypes /\ BoundTypes)'
  <2>1. StoreTypes'
    BY <1>a DEF StoreTypes, SlidesKnown, TasksInPlace
  <2>2. RunTypes'
    BY <1>a DEF RunTypes
  <2>3. ThreadTypes'
    <3>1. pc' \in [P!Threads -> P!Places]
      BY <1>a DEF ThreadTypes, P!Places, StoreTypes
    <3>2. on' \in [P!Threads -> P!Runs]
      BY <1>a DEF ThreadTypes, P!Places, StoreTypes
    <3>3. slide' \in [P!Threads -> 0..LastSlide]
      BY <1>a DEF ThreadTypes, P!Places, StoreTypes
    <3>4. at' \in [P!Threads -> Nat] /\ latest' \in [P!Threads -> Nat]
      BY <1>a, <1>n DEF ThreadTypes
    <3> QED
      BY <3>1, <3>2, <3>3, <3>4 DEF ThreadTypes
  <2>4. RequestTypes'
    BY <1>a DEF RequestTypes, P!Tasks
  <2>5. HistoryTypes'
    BY <1>a DEF HistoryTypes
  <2>6. BoundTypes'
    BY <1>a DEF BoundTypes, P!Fault, P!NoFault
  <2> QED
    BY <2>1, <2>2, <2>3, <2>4, <2>5, <2>6
<1>2. RunsAreLatest'
  BY <1>a DEF StoreTypes, RunTypes, ThreadTypes, RunsAreLatest, TasksInPlace
<1>3. WatchersAreKnown'
  BY <1>a DEF RunTypes, ThreadTypes, RunsAreLatest, WatchersAreKnown
<1>4. TasksInPlace'
  BY <1>a DEF P!Manual, RequestTypes, ThreadTypes, TasksInPlace, RunsAreLatest
<1>5. SlidesKnown'
  BY <1>a DEF P!Manual, StoreTypes, ThreadTypes, RequestTypes, SlidesKnown, TasksInPlace
<1>6. ControlIsHeld'
  BY <1>a DEF RunTypes, ThreadTypes, RequestTypes, RunsAreLatest, WatchersAreKnown,
     TasksInPlace, ControlIsHeld, TakesControl, WatcherLeaves
<1>7. WatcherLeaves'
  BY <1>a DEF RunTypes, ThreadTypes, RequestTypes, RunsAreLatest, WatchersAreKnown,
     TasksInPlace, ControlIsHeld, TakesControl, WatcherLeaves
<1>8. TimelineInv'
  <2> SUFFICES ASSUME ~disturbed' PROVE (OnePersists /\ TimesArePast /\ ChangesInOrder)'
    BY DEF TimelineInv
  <2>0. ~disturbed /\ OnePersists /\ TimesArePast /\ ChangesInOrder
    BY DEF P!ReadLatest, TimelineInv
  <2>1. OnePersists'
    BY <2>0, <1>a DEF RunTypes, ThreadTypes, RunsAreLatest, WatchersAreKnown, TasksInPlace,
       SlidesKnown, OnePersists, ChangesInOrder
  <2>2. TimesArePast'
    <3>1. ASSUME NEW i \in 1..Len(timeline')
          PROVE  made' # 0 /\ timeline'[i].at < now' - base'[made']
      BY <3>1, <2>0, <1>a DEF StoreTypes, RunTypes, ThreadTypes, RunsAreLatest, TasksInPlace,
         OnePersists, TimesArePast, P!Latest
    <3>2. ASSUME NEW u \in P!Threads, pc'[u] \in {"readdb", "insert"}
          PROVE  at'[u] <= now' - base'[made']
      BY <3>2, <2>0, <1>a DEF StoreTypes, RunTypes, ThreadTypes, RunsAreLatest, TasksInPlace,
         OnePersists, TimesArePast, P!Latest
    <3>3. ASSUME NEW u \in P!Threads, pc'[u] \in {"readdb", "insert"}, NEW i \in 1..Len(timeline')
 PROVE  timeline'[i].at < at'[u]
      BY <3>3, <2>0, <1>a DEF StoreTypes, RunTypes, ThreadTypes, RunsAreLatest, TasksInPlace,
         OnePersists, TimesArePast, P!Latest
    <3>4. ASSUME NEW u \in P!Threads, pc'[u] = "insert"
          PROVE  latest'[u] <= at'[u] /\ P!Latest' # slide'[u]
      <4>1. CASE u = t
        <5>1. P!Latest # slide[t]
          BY <1>b, <3>4, <4>1
        <5>2. latest'[t] <= at[t]
          BY <1>a, <1>b, <1>n, <2>0 DEF TimesArePast, ThreadTypes
        <5> QED
          BY <1>a, <1>m, <4>1, <5>1, <5>2
      <4>2. CASE u # t
        BY <1>a, <1>b, <1>m, <2>0, <3>4, <4>2 DEF TimesArePast
      <4> QED
        BY <4>1, <4>2
    <3> QED
      BY <3>1, <3>2, <3>3, <3>4 DEF TimesArePast
  <2>3. ChangesInOrder'
    <3>1. ASSUME NEW i \in 1..(Len(timeline') - 1)
 PROVE  timeline'[i].slide # timeline'[i + 1].slide /\ timeline'[i].at <= timeline'[i + 1].at
      BY <3>1, <2>0, <1>a DEF StoreTypes, RunTypes, ThreadTypes, RunsAreLatest, TasksInPlace,
         OnePersists, TimesArePast, ChangesInOrder, P!Latest
    <3>2. ASSUME NEW u \in P!Threads, pc'[u] = "apply"
          PROVE  timeline' # <<>> /\ P!Latest' = slide'[u]
      <4>1. CASE u = t
        <5>1. P!Latest = slide[t]
          BY <1>b, <3>2, <4>1
        <5>2. slide[t] # 0
          BY <1>a DEF SlidesKnown
        <5> QED
          BY <1>a, <1>m, <4>1, <5>1, <5>2 DEF P!Latest
      <4>2. CASE u # t
        BY <1>a, <1>b, <1>m, <2>0, <3>2, <4>2 DEF ChangesInOrder
      <4> QED
        BY <4>1, <4>2
    <3>3. ASSUME made' # 0, current'[made'] # 0, \A u \in P!Threads : pc'[u] # "apply"
 PROVE  timeline' # <<>> /\ P!Latest' = current'[made']
      BY <3>3, <2>0, <1>a DEF StoreTypes, RunTypes, ThreadTypes, RunsAreLatest, TasksInPlace,
         OnePersists, TimesArePast, ChangesInOrder, P!Latest
    <3> QED
      BY <3>1, <3>2, <3>3 DEF ChangesInOrder
  <2> QED
    BY <2>1, <2>2, <2>3
<1> QED
  BY <1>1, <1>2, <1>3, <1>4, <1>5, <1>6, <1>7, <1>8

\* The row goes last, for its time is later than all that are stored, and differs from its predecessor.
LEMMA InsertKeeps == ASSUME SlideInv, NEW t \in P!Threads, P!Insert(t) PROVE SlideInv'
<1> USE SlideAssumed DEF SlideInv
<1> DEFINE e == [slide |-> slide[t], at |-> P!Timestamp(t)]
<1>a. /\ pc[t] = "insert" /\ pc' = [pc EXCEPT ![t] = "apply"] /\ now' = now + 1
      /\ UNCHANGED <<show, active, running, mode, stopSet, current, watcher, base, made, on,
                     slide,
                     at, latest, task, target, starting, chosen, overrun, disturbed, requests, moves,
                     showFaults>>
  BY DEF P!Insert
<1>i. PICK k \in 1..(Len(timeline) + 1) :
        /\ \A j \in 1..Len(timeline) : IF j < k THEN timeline[j].at <= P!Timestamp(t)
                                                ELSE timeline[j].at >= P!Timestamp(t)
        /\ timeline' = P!InsertAt(timeline, k, e)
  BY DEF P!Insert
<1>e. e \in [slide : P!Slides, at : Nat] /\ e.slide = slide[t] /\ e.at = P!Timestamp(t)
  BY <1>a DEF ThreadTypes, SlidesKnown, P!Timestamp, P!Slides
<1> HIDE DEF e
<1> DEFINE E == [slide : P!Slides, at : Nat]
<1>s. timeline \in Seq(E) /\ Len(timeline) \in Nat /\ e \in E
  BY <1>e DEF StoreTypes
<1>o. \A j \in 1..Len(timeline) : timeline[j] \in E /\ timeline[j].at \in Nat
  <2>1. \A x \in E : x.at \in Nat
    OBVIOUS
  <2> HIDE DEF E
  <2>2. \A j \in 1..Len(timeline) : timeline[j] \in E
    BY <1>s
  <2> QED
    BY <2>1, <2>2
<1>n. P!Timestamp(t) \in Nat /\ at[t] \in Nat /\ now \in Nat
  BY DEF ThreadTypes, P!Timestamp, StoreTypes
<1> HIDE DEF E
<1>p. /\ timeline' \in Seq(E) /\ Len(timeline') = Len(timeline) + 1
      /\ k = Len(timeline) + 1 =>
            timeline'[k] = e /\ \A j \in 1..Len(timeline) : timeline'[j] = timeline[j]
  BY <1>i, <1>s, PutIn
<1>t. timeline' \in Seq([slide : P!Slides, at : Nat]) /\ timeline' # <<>>
  <2>1. timeline' # <<>>
    BY <1>p, <1>s
  <2> QED
    BY <1>p, <2>1 DEF E
<1>b. pc'[t] = "apply" /\ \A u \in P!Threads : u # t => pc'[u] = pc[u]
  BY <1>a DEF ThreadTypes
<1>l. ASSUME ~disturbed, OnePersists, TimesArePast
      PROVE  /\ Len(timeline') = Len(timeline) + 1 /\ timeline'[Len(timeline) + 1] = e
             /\ \A j \in 1..Len(timeline) : timeline'[j] = timeline[j] /\ timeline[j].at < e.at
             /\ e.at = at[t] /\ P!Latest # slide[t] /\ P!Latest' = slide[t] /\ on[t] = made
  <2>1. e.at = at[t]
    BY <1>a, <1>e, <1>l DEF TimesArePast, P!Timestamp, ThreadTypes
  <2>2. \A j \in 1..Len(timeline) : timeline[j].at < at[t]
    BY <1>a, <1>l DEF TimesArePast
  <2>3. k = Len(timeline) + 1
    <3>1. e.at = P!Timestamp(t)
      BY <1>e
    <3>2. CASE k \in 1..Len(timeline)
      <4>1. timeline[k].at >= P!Timestamp(t) /\ timeline[k].at < P!Timestamp(t)
        BY <1>i, <1>s, <2>1, <2>2, <3>1, <3>2
      <4> QED
        BY <1>o, <1>n, <3>2, <4>1
    <3> QED
      BY <1>s, <3>2
  <2>5. /\ Len(timeline') = Len(timeline) + 1 /\ timeline'[Len(timeline) + 1] = e
        /\ \A j \in 1..Len(timeline) : timeline'[j] = timeline[j]
    BY <1>p, <2>3
  <2>6. P!Latest' = slide[t]
    BY <1>t, <1>e, <2>5 DEF P!Latest, P!Last, StoreTypes
  <2>7. P!Latest # slide[t] /\ on[t] = made
    BY <1>a, <1>l DEF TimesArePast, OnePersists, RunsAreLatest
  <2> QED
    BY <2>1, <2>2, <2>5, <2>6, <2>7
<1>1. (StoreTypes /\ RunTypes /\ ThreadTypes /\ RequestTypes /\ HistoryTypes /\ BoundTypes)'
  <2>1. StoreTypes'
    <3>1. (show \in 0..LastSlide /\ active \in BOOLEAN /\ now \in Nat)'
      BY <1>a DEF StoreTypes, SlidesKnown, TasksInPlace
    <3>2. timeline' \in Seq([slide : P!Slides, at : Nat])
      BY <1>t
    <3> QED
      BY <3>1, <3>2 DEF StoreTypes
  <2>2. RunTypes'
    BY <1>a DEF RunTypes
  <2>3. ThreadTypes'
    BY <1>a DEF ThreadTypes, P!Places
  <2>4. RequestTypes'
    BY <1>a DEF RequestTypes, P!Tasks
  <2>5. HistoryTypes'
    BY <1>a DEF HistoryTypes
  <2>6. BoundTypes'
    BY <1>a DEF BoundTypes, P!Fault, P!NoFault
  <2> QED
    BY <2>1, <2>2, <2>3, <2>4, <2>5, <2>6
<1>2. RunsAreLatest'
  <2>1. (running \in {0, made})'
    BY <1>a DEF StoreTypes, RunTypes, ThreadTypes, RunsAreLatest, TasksInPlace
  <2>2. \A q \in P!Runs : q > made' => current'[q] = 0 /\ watcher'[q] = "none"
    BY <1>a DEF StoreTypes, RunTypes, ThreadTypes, RunsAreLatest, TasksInPlace
  <2>3. \A q \in P!Runs : base'[q] <= now'
    BY <1>a DEF StoreTypes, RunTypes, ThreadTypes, RunsAreLatest, TasksInPlace
  <2>4. (~active => pc[P!Control] = "idle")'
    BY <1>a DEF StoreTypes, RunTypes, ThreadTypes, RunsAreLatest, TasksInPlace
  <2>5. (pc[P!Control] \in {"detect", "follow", "override", "switch", "switched", "navigate", "check",
                   "readdb", "insert", "apply", "watch"} => running # 0)'
    BY <1>a DEF StoreTypes, RunTypes, ThreadTypes, RunsAreLatest, TasksInPlace
  <2>6. (pc[P!Control] \in {"follow", "switch", "switched", "navigate", "check", "readdb", "insert",
                   "apply", "watch"} => on[P!Control] = running)'
    BY <1>a DEF StoreTypes, RunTypes, ThreadTypes, RunsAreLatest, TasksInPlace
  <2>7. (pc[P!Control] = "join" => on[P!Control] = running /\ running # 0)'
    BY <1>a DEF StoreTypes, RunTypes, ThreadTypes, RunsAreLatest, TasksInPlace
  <2> QED
    BY <2>1, <2>2, <2>3, <2>4, <2>5, <2>6, <2>7 DEF RunsAreLatest
<1>3. WatchersAreKnown'
  BY <1>a DEF RunTypes, ThreadTypes, RunsAreLatest, WatchersAreKnown
<1>4. TasksInPlace'
  BY <1>a DEF P!Manual, RequestTypes, ThreadTypes, TasksInPlace, RunsAreLatest
<1>5. SlidesKnown'
  BY <1>a DEF P!Manual, StoreTypes, ThreadTypes, RequestTypes, SlidesKnown, TasksInPlace
<1>6. ControlIsHeld'
  BY <1>a DEF RunTypes, ThreadTypes, RequestTypes, RunsAreLatest, WatchersAreKnown,
     TasksInPlace, ControlIsHeld, TakesControl, WatcherLeaves
<1>7. WatcherLeaves'
  BY <1>a DEF RunTypes, ThreadTypes, RequestTypes, RunsAreLatest, WatchersAreKnown,
     TasksInPlace, ControlIsHeld, TakesControl, WatcherLeaves
<1>8. TimelineInv'
  <2> SUFFICES ASSUME ~disturbed' PROVE (OnePersists /\ TimesArePast /\ ChangesInOrder)'
    BY DEF TimelineInv
  <2>0. ~disturbed /\ OnePersists /\ TimesArePast /\ ChangesInOrder
    BY DEF P!Insert, TimelineInv
  <2>1. OnePersists'
    <3>1. ASSUME NEW u \in Watchers, pc'[u] # "dead" PROVE on'[u] = made' /\ timeline' # <<>>
      BY <1>a, <1>b, <1>t, <2>0, <3>1 DEF OnePersists
    <3>2. ASSUME NEW u \in P!Threads, NEW v \in P!Threads, P!Persisting(u)', P!Persisting(v)'
          PROVE  u = v
      BY <3>2, <2>0, <1>a DEF RunTypes, ThreadTypes, RunsAreLatest, WatchersAreKnown,
         TasksInPlace, SlidesKnown, OnePersists, ChangesInOrder
    <3>3. (pc[P!Control] = "watch" => timeline # <<>>)'
      BY <1>t
    <3>4. (starting /\ pc[P!Control] \in {"check", "readdb", "insert"} => timeline = <<>>)'
      BY <2>0, <1>a DEF RunTypes, ThreadTypes, RunsAreLatest, WatchersAreKnown, TasksInPlace,
         SlidesKnown, OnePersists, ChangesInOrder
    <3> QED
      BY <3>1, <3>2, <3>3, <3>4 DEF OnePersists
  <2>2. TimesArePast'
    <3>1. ASSUME NEW i \in 1..Len(timeline')
          PROVE  made' # 0 /\ timeline'[i].at < now' - base'[made']
      <4>1. /\ made # 0 /\ at[t] <= now - base[made] /\ now - base[made] < now' - base[made]
        <5>1. on[t] = made /\ made \in P!Runs
          BY <1>l, <2>0 DEF ThreadTypes
        <5>2. base[made] \in Nat /\ made # 0
          BY <5>1, SlideAssumed DEF RunTypes
        <5>3. at[t] <= now - base[made]
          BY <1>a, <2>0 DEF TimesArePast
        <5> QED
          BY <1>a, <1>n, <5>2, <5>3
      <4>2. timeline'[i].at <= at[t]
        <5>1. CASE i = Len(timeline) + 1
          BY <1>l, <2>0, <1>n, <5>1
        <5>2. CASE i \in 1..Len(timeline)
          BY <1>l, <1>o, <1>n, <2>0, <5>2
        <5> QED
          BY <1>p, <1>s, <3>1, <5>1, <5>2
      <4>3. timeline'[i].at \in Nat
        <5>1. timeline'[i] \in E
          BY <1>p, <3>1
        <5> QED
          BY <5>1 DEF E
      <4>4. base[made] \in Nat /\ UNCHANGED <<made, base>>
        BY <1>a, <1>l, <2>0 DEF RunTypes, ThreadTypes
      <4> QED
        BY <1>a, <1>n, <4>1, <4>2, <4>3, <4>4
    <3>2. ASSUME NEW u \in P!Threads, pc'[u] \in {"readdb", "insert"}
          PROVE  at'[u] <= now' - base'[made']
      BY <3>2, <2>0, <1>a DEF StoreTypes, RunTypes, ThreadTypes, RunsAreLatest, TasksInPlace,
         OnePersists, TimesArePast, P!Latest
    <3>3. ASSUME NEW u \in P!Threads, pc'[u] \in {"readdb", "insert"}, NEW i \in 1..Len(timeline')
 PROVE  timeline'[i].at < at'[u]
      BY <3>3, <2>0, <1>a DEF StoreTypes, RunTypes, ThreadTypes, RunsAreLatest, TasksInPlace,
         OnePersists, TimesArePast, P!Latest
    <3>4. ASSUME NEW u \in P!Threads, pc'[u] = "insert"
          PROVE  latest'[u] <= at'[u] /\ P!Latest' # slide'[u]
      BY <3>4, <2>0, <1>a DEF StoreTypes, RunTypes, ThreadTypes, RunsAreLatest, TasksInPlace,
         OnePersists, TimesArePast, P!Latest
    <3> QED
      BY <3>1, <3>2, <3>3, <3>4 DEF TimesArePast
  <2>3. ChangesInOrder'
    <3>1. ASSUME NEW i \in 1..(Len(timeline') - 1)
 PROVE  timeline'[i].slide # timeline'[i + 1].slide /\ timeline'[i].at <= timeline'[i + 1].at
      <4>1. i \in 1..Len(timeline) /\ timeline'[i] = timeline[i]
        BY <1>l, <1>s, <2>0, <3>1
      <4>2. CASE i = Len(timeline)
        <5>1. timeline[i] = P!Last(timeline) /\ timeline # <<>>
          BY <1>s, <4>1, <4>2 DEF P!Last
        <5>2. timeline[i].slide # slide[t] /\ timeline'[i + 1] = e
          BY <1>l, <2>0, <4>2, <5>1 DEF P!Latest
        <5>3. timeline[i].at < e.at
          BY <1>l, <2>0, <4>1
        <5> QED
          BY <1>e, <1>o, <1>n, <4>1, <5>2, <5>3
      <4>3. CASE i # Len(timeline)
        <5>1. i \in 1..(Len(timeline) - 1) /\ i + 1 \in 1..Len(timeline)
          BY <1>s, <4>1, <4>3
        <5>2. timeline'[i + 1] = timeline[i + 1]
          BY <1>l, <2>0, <5>1
        <5>3. timeline[i].slide # timeline[i + 1].slide /\ timeline[i].at <= timeline[i + 1].at
          BY <2>0, <5>1 DEF ChangesInOrder
        <5> QED
          BY <4>1, <5>2, <5>3
      <4> QED
        BY <4>2, <4>3
    <3>2. ASSUME NEW u \in P!Threads, pc'[u] = "apply"
          PROVE  timeline' # <<>> /\ P!Latest' = slide'[u]
      <4>1. u = t
        <5>1. CASE u # t
          BY <1>a, <1>b, <1>t, <2>0, <3>2, <5>1 DEF OnePersists
        <5> QED
          BY <5>1
      <4> QED
        BY <1>a, <1>l, <1>t, <2>0, <4>1
    <3>3. ASSUME made' # 0, current'[made'] # 0, \A u \in P!Threads : pc'[u] # "apply"
 PROVE  timeline' # <<>> /\ P!Latest' = current'[made']
      BY <1>b, <3>3
    <3> QED
      BY <3>1, <3>2, <3>3 DEF ChangesInOrder
  <2> QED
    BY <2>1, <2>2, <2>3
<1> QED
  BY <1>1, <1>2, <1>3, <1>4, <1>5, <1>6, <1>7, <1>8

\* A failed insert leaves the timeline as it was.
LEMMA InsertFailsKeeps == ASSUME SlideInv, NEW t \in P!Threads, P!InsertFails(t) PROVE SlideInv'
<1> USE SlideAssumed DEF SlideInv
<1>a. PICK x : /\ pc' = [pc EXCEPT ![t] = x]
               /\ \/ /\ t = P!Control /\ x = "idle" /\ task' = "none" /\ starting' = FALSE
                     /\ running' = (IF starting THEN 0 ELSE running) /\ active' = (active
                          /\ task # "start")
                  \/ /\ t # P!Control /\ x = "dead"
                     /\ UNCHANGED <<task, starting, running, active>>
  BY DEF P!InsertFails, P!RequestFails
<1>b. /\ pc[t] = "insert"
      /\ UNCHANGED <<show, timeline, target, chosen, mode, stopSet, current, watcher, base,
                     made, on,
                     slide, at, latest, now, overrun, disturbed, requests, moves>>
  BY DEF P!InsertFails, P!RequestFails
<1>c. pc'[t] = x /\ \A u \in P!Threads : u # t => pc'[u] = pc[u]
  BY <1>a DEF ThreadTypes
<1>d. showFaults' = showFaults \/ P!Fault("db")
  BY DEF P!InsertFails
<1>e. t = P!Control => running' \in {0, running} /\ (starting => running' = 0)
  BY <1>a
<1>1. (StoreTypes /\ RunTypes /\ ThreadTypes /\ RequestTypes /\ HistoryTypes /\ BoundTypes)'
  <2>1. StoreTypes'
    BY <1>a, <1>b, <1>c, <1>d, <1>e DEF StoreTypes, SlidesKnown, TasksInPlace
  <2>2. RunTypes'
    BY <1>a, <1>b, <1>c, <1>d, <1>e DEF RunTypes
  <2>3. ThreadTypes'
    BY <1>a, <1>b, <1>c, <1>d, <1>e DEF ThreadTypes, P!Places
  <2>4. RequestTypes'
    BY <1>a, <1>b, <1>c, <1>d, <1>e DEF RequestTypes, P!Tasks
  <2>5. HistoryTypes'
    BY <1>a, <1>b, <1>c, <1>d, <1>e DEF HistoryTypes
  <2>6. BoundTypes'
    BY <1>a, <1>b, <1>c, <1>d, <1>e DEF BoundTypes, P!Fault, P!NoFault
  <2> QED
    BY <2>1, <2>2, <2>3, <2>4, <2>5, <2>6
<1>2. RunsAreLatest'
  BY <1>a, <1>b, <1>c, <1>d, <1>e DEF StoreTypes, RunTypes, ThreadTypes, RunsAreLatest,
     TasksInPlace
<1>3. WatchersAreKnown'
  <2>1. ASSUME NEW u \in Watchers, pc'[u] # "dead" PROVE watcher'[on'[u]] = u /\ on'[u] <= made'
    BY <2>1, <1>a, <1>b, <1>c, <1>d, <1>e DEF RunTypes, ThreadTypes, RunsAreLatest,
       WatchersAreKnown
  <2> QED
    BY <2>1 DEF WatchersAreKnown
<1>4. TasksInPlace'
  BY <1>a, <1>b, <1>c, <1>d, <1>e DEF P!Manual, RequestTypes, ThreadTypes, TasksInPlace,
     RunsAreLatest
<1>5. SlidesKnown'
  <2>1. ASSUME NEW u \in P!Threads, pc'[u] \in {"check", "readdb", "insert", "apply"}
        PROVE  slide'[u] # 0
    BY <2>1, <1>a, <1>b, <1>c, <1>d, <1>e DEF P!Manual, StoreTypes, ThreadTypes, RequestTypes,
       SlidesKnown, TasksInPlace
  <2>2. (pc[P!Control] \in {"follow", "watch"} => slide[P!Control] # 0)'
    BY <1>a, <1>b, <1>c, <1>d, <1>e DEF P!Manual, StoreTypes, ThreadTypes, RequestTypes,
       SlidesKnown, TasksInPlace
  <2>3. (task \in P!Manual => target # 0)'
    BY <1>a, <1>b, <1>c, <1>d, <1>e DEF P!Manual, StoreTypes, ThreadTypes, RequestTypes,
       SlidesKnown, TasksInPlace
  <2> QED
    BY <2>1, <2>2, <2>3 DEF SlidesKnown
<1>6. ControlIsHeld'
  <2>1. (running # 0 /\ chosen # 0 /\ ~overrun => mode[running] = "manual")'
    BY <1>a, <1>b, <1>c, <1>d, <1>e DEF RunTypes, ThreadTypes, RequestTypes, RunsAreLatest,
       WatchersAreKnown, TasksInPlace, ControlIsHeld, TakesControl, WatcherLeaves
  <2>2. (running # 0 /\ chosen # 0 /\ ~overrun => current[running] = chosen)'
    BY <1>a, <1>b, <1>c, <1>d, <1>e DEF RunTypes, ThreadTypes, RequestTypes, RunsAreLatest,
       WatchersAreKnown, TasksInPlace, ControlIsHeld, TakesControl, WatcherLeaves
  <2>3. ASSUME TakesControl' PROVE mode'[running'] = "manual"
    BY <2>3, <1>a, <1>b, <1>c, <1>d, <1>e DEF RunTypes, ThreadTypes, RequestTypes,
       RunsAreLatest, WatchersAreKnown, TasksInPlace, ControlIsHeld, TakesControl, WatcherLeaves
  <2> QED
    BY <2>1, <2>2, <2>3 DEF ControlIsHeld
<1>7. WatcherLeaves'
  <2>1. ASSUME running' # 0, mode'[running'] = "manual", ~overrun', P!Alive(watcher[running])'
 PROVE  (\/ pc[watcher[running]] \in {"leaving", "wait"}
         \/ pc[P!Control] = "join" /\ task # "stop" /\ chosen = 0)'
    BY <2>1, <1>a, <1>b, <1>c, <1>d, <1>e DEF RunTypes, ThreadTypes, RequestTypes,
       RunsAreLatest, WatchersAreKnown, TasksInPlace, ControlIsHeld, TakesControl, WatcherLeaves
  <2> QED
    BY <2>1 DEF WatcherLeaves
<1>8. TimelineInv'
  <2> SUFFICES ASSUME ~disturbed' PROVE (OnePersists /\ TimesArePast /\ ChangesInOrder)'
    BY DEF TimelineInv
  <2>0. ~disturbed /\ OnePersists /\ TimesArePast /\ ChangesInOrder
    BY DEF P!InsertFails, TimelineInv
  <2>1. OnePersists'
    <3>1. ASSUME NEW u \in Watchers, pc'[u] # "dead" PROVE on'[u] = made' /\ timeline' # <<>>
      BY <3>1, <2>0, <1>a, <1>b, <1>c, <1>d, <1>e DEF RunTypes, ThreadTypes, RunsAreLatest,
         WatchersAreKnown, TasksInPlace, SlidesKnown, OnePersists, ChangesInOrder
    <3>2. ASSUME NEW u \in P!Threads, NEW v \in P!Threads, P!Persisting(u)', P!Persisting(v)'
          PROVE  u = v
      BY <3>2, <2>0, <1>a, <1>b, <1>c, <1>d, <1>e DEF RunTypes, ThreadTypes, RunsAreLatest,
         WatchersAreKnown, TasksInPlace, SlidesKnown, OnePersists, ChangesInOrder
    <3>3. (pc[P!Control] = "watch" => timeline # <<>>)'
      BY <2>0, <1>a, <1>b, <1>c, <1>d, <1>e DEF RunTypes, ThreadTypes, RunsAreLatest,
         WatchersAreKnown, TasksInPlace, SlidesKnown, OnePersists, ChangesInOrder
    <3>4. (starting /\ pc[P!Control] \in {"check", "readdb", "insert"} => timeline = <<>>)'
      BY <2>0, <1>a, <1>b, <1>c, <1>d, <1>e DEF RunTypes, ThreadTypes, RunsAreLatest,
         WatchersAreKnown, TasksInPlace, SlidesKnown, OnePersists, ChangesInOrder
    <3> QED
      BY <3>1, <3>2, <3>3, <3>4 DEF OnePersists
  <2>2. TimesArePast'
    BY <2>0, <1>a, <1>b, <1>c, <1>d, <1>e DEF StoreTypes, RunTypes, ThreadTypes, RunsAreLatest,
       TasksInPlace, OnePersists, TimesArePast, P!Latest
  <2>3. ChangesInOrder'
    BY <2>0, <1>a, <1>b, <1>c, <1>d, <1>e DEF StoreTypes, RunTypes, ThreadTypes, RunsAreLatest,
       TasksInPlace, OnePersists, TimesArePast, ChangesInOrder, P!Latest
  <2> QED
    BY <2>1, <2>2, <2>3
<1> QED
  BY <1>1, <1>2, <1>3, <1>4, <1>5, <1>6, <1>7, <1>8

\* The current slide becomes the persisted one; of a manual run only its own request does that.
LEMMA ApplyKeeps == ASSUME SlideInv, NEW t \in P!Threads, P!Apply(t) PROVE SlideInv'
<1> USE SlideAssumed DEF SlideInv
<1>a. PICK x : /\ pc' = [pc EXCEPT ![t] = x]
               /\ \/ /\ t # P!Control /\ x = "wait"
                     /\ UNCHANGED <<task, target, starting, chosen>>
                  \/ /\ t = P!Control /\ x = "watch"
                     /\ \/ starting /\ mode[on[t]] = "powerpoint"
                        \/ ~starting /\ task = "detect"
                     /\ UNCHANGED <<task, target, starting, chosen>>
                  \/ /\ t = P!Control /\ x = "override" /\ starting /\ task \in P!Manual
                     /\ starting' = FALSE /\ UNCHANGED <<task, target, chosen>>
                  \/ /\ t = P!Control /\ x = "idle"
                     /\ task' = "none" /\ starting' = FALSE /\ UNCHANGED target
                     /\ \/ starting /\ UNCHANGED chosen
                        \/ ~starting /\ task # "detect" /\ chosen' = slide[t]
  BY PersistedMoves DEF P!Apply
<1>b. /\ pc[t] = "apply" /\ current' = [current EXCEPT ![on[t]] = slide[t]]
      /\ UNCHANGED <<show, active, timeline, running, mode, stopSet, watcher, base, made, on,
                     slide, at, latest,
                     now, overrun, disturbed, requests, moves, showFaults>>
  BY DEF P!Apply
<1>c. pc'[t] = x /\ \A u \in P!Threads : u # t => pc'[u] = pc[u]
  BY <1>a DEF ThreadTypes
<1>1. (StoreTypes /\ RunTypes /\ ThreadTypes /\ RequestTypes /\ HistoryTypes /\ BoundTypes)'
  <2>1. StoreTypes'
    BY <1>a, <1>b, <1>c DEF StoreTypes, SlidesKnown, TasksInPlace
  <2>2. RunTypes'
    <3>1. (running \in 0..MaxRuns /\ made \in 0..MaxRuns)'
      BY <1>a, <1>b, <1>c DEF RunTypes, ThreadTypes
    <3>2. mode' \in [P!Runs -> {"powerpoint", "manual"}]
      BY <1>a, <1>b, <1>c DEF RunTypes, ThreadTypes
    <3>3. stopSet' \in [P!Runs -> BOOLEAN]
      BY <1>a, <1>b, <1>c DEF RunTypes, ThreadTypes
    <3>4. current' \in [P!Runs -> 0..LastSlide]
      BY <1>a, <1>b, <1>c DEF RunTypes, ThreadTypes
    <3>5. watcher' \in [P!Runs -> Watchers \cup {"none"}]
      BY <1>a, <1>b, <1>c DEF RunTypes, ThreadTypes
    <3>6. base' \in [P!Runs -> Nat]
      BY <1>a, <1>b, <1>c DEF RunTypes, ThreadTypes
    <3> QED
      BY <3>1, <3>2, <3>3, <3>4, <3>5, <3>6 DEF RunTypes
  <2>3. ThreadTypes'
    BY <1>a, <1>b, <1>c DEF ThreadTypes, P!Places
  <2>4. RequestTypes'
    BY <1>a, <1>b, <1>c DEF RequestTypes, P!Tasks
  <2>5. HistoryTypes'
    <3>1. chosen' \in 0..LastSlide
      BY <1>a, <1>b, <1>c DEF HistoryTypes, ThreadTypes
    <3>2. overrun' \in BOOLEAN /\ disturbed' \in BOOLEAN
      BY <1>a, <1>b, <1>c DEF HistoryTypes, ThreadTypes
    <3> QED
      BY <3>1, <3>2 DEF HistoryTypes
  <2>6. BoundTypes'
    BY <1>a, <1>b, <1>c DEF BoundTypes, P!Fault, P!NoFault
  <2> QED
    BY <2>1, <2>2, <2>3, <2>4, <2>5, <2>6
<1>2. RunsAreLatest'
  <2>1. (running \in {0, made})'
    BY <1>a, <1>b, <1>c DEF StoreTypes, RunTypes, ThreadTypes, RunsAreLatest, TasksInPlace
  <2>2. \A q \in P!Runs : q > made' => current'[q] = 0 /\ watcher'[q] = "none"
    <3>0. on[t] <= made /\ on[t] \in P!Runs /\ (t = P!Control => on[t] = running)
      BY <1>b DEF RunsAreLatest, WatchersAreKnown, ThreadTypes, RunTypes
    <3>1. ASSUME NEW q \in P!Runs, q > made' PROVE current'[q] = 0 /\ watcher'[q] = "none"
      <4>1. q # on[t] /\ q > made
        BY <1>b, <3>0, <3>1 DEF RunTypes
      <4>2. current'[q] = current[q]
        BY <1>b, <4>1 DEF RunTypes
      <4> QED
        BY <1>b, <4>1, <4>2 DEF RunsAreLatest
    <3> QED
      BY <3>1
  <2>3. \A q \in P!Runs : base'[q] <= now'
    BY <1>a, <1>b, <1>c DEF StoreTypes, RunTypes, ThreadTypes, RunsAreLatest, TasksInPlace
  <2>4. (~active => pc[P!Control] = "idle")'
    BY <1>a, <1>b, <1>c DEF StoreTypes, RunTypes, ThreadTypes, RunsAreLatest, TasksInPlace
  <2>5. (pc[P!Control] \in {"detect", "follow", "override", "switch", "switched", "navigate", "check",
                   "readdb", "insert", "apply", "watch"} => running # 0)'
    BY <1>a, <1>b, <1>c DEF StoreTypes, RunTypes, ThreadTypes, RunsAreLatest, TasksInPlace
  <2>6. (pc[P!Control] \in {"follow", "switch", "switched", "navigate", "check", "readdb", "insert",
                   "apply", "watch"} => on[P!Control] = running)'
    BY <1>a, <1>b, <1>c DEF StoreTypes, RunTypes, ThreadTypes, RunsAreLatest, TasksInPlace
  <2>7. (pc[P!Control] = "join" => on[P!Control] = running /\ running # 0)'
    BY <1>a, <1>b, <1>c DEF StoreTypes, RunTypes, ThreadTypes, RunsAreLatest, TasksInPlace
  <2> QED
    BY <2>1, <2>2, <2>3, <2>4, <2>5, <2>6, <2>7 DEF RunsAreLatest
<1>3. WatchersAreKnown'
  BY <1>a, <1>b, <1>c DEF RunTypes, ThreadTypes, RunsAreLatest, WatchersAreKnown
<1>4. TasksInPlace'
  BY <1>a, <1>b, <1>c DEF P!Manual, RequestTypes, ThreadTypes, TasksInPlace, RunsAreLatest
<1>5. SlidesKnown'
  BY <1>a, <1>b, <1>c DEF P!Manual, StoreTypes, ThreadTypes, RequestTypes, SlidesKnown,
     TasksInPlace
<1>6. ControlIsHeld'
  <2>1. (running # 0 /\ chosen # 0 /\ ~overrun => mode[running] = "manual")'
    BY <1>a, <1>b, <1>c DEF RunTypes, ThreadTypes, RequestTypes, RunsAreLatest,
       WatchersAreKnown, TasksInPlace, ControlIsHeld, TakesControl, WatcherLeaves
  <2>2. (running # 0 /\ chosen # 0 /\ ~overrun => current[running] = chosen)'
    <3>0. on[t] <= made /\ on[t] \in P!Runs /\ (t = P!Control => on[t] = running)
      BY <1>b DEF RunsAreLatest, WatchersAreKnown, ThreadTypes, RunTypes
    <3>1. CASE t # P!Control
      <4>1. UNCHANGED chosen
        BY <1>a, <3>1
      <4>2. CASE running # 0 /\ chosen # 0 /\ ~overrun
        <5>1. mode[running] = "manual" /\ current[running] = chosen
          BY <4>2 DEF ControlIsHeld
        <5>2. watcher[on[t]] = t
          BY <1>b, <3>1 DEF WatchersAreKnown
        <5>3. on[t] # running
          BY <1>b, <3>1, <4>2, <5>1, <5>2 DEF WatcherLeaves
        <5> QED
          BY <1>b, <4>1, <5>1, <5>3, <3>0 DEF RunTypes
      <4> QED
        BY <1>b, <4>1, <4>2
    <3>2. CASE t = P!Control
      <4>1. CASE chosen = 0 /\ UNCHANGED chosen
        BY <4>1
      <4>2. CASE chosen' = slide[t]
        BY <1>b, <3>0, <3>2, <4>2 DEF RunTypes
      <4>3. \/ chosen = 0 /\ UNCHANGED chosen
            \/ chosen' = slide[t]
        BY <1>a, <1>b, <3>2 DEF TasksInPlace
      <4> QED
        BY <4>1, <4>2, <4>3
    <3> QED
      BY <3>1, <3>2
  <2>3. ASSUME TakesControl' PROVE mode'[running'] = "manual"
    BY <2>3, <1>a, <1>b, <1>c DEF RunTypes, ThreadTypes, RequestTypes, RunsAreLatest,
       WatchersAreKnown, TasksInPlace, ControlIsHeld, TakesControl, WatcherLeaves
  <2> QED
    BY <2>1, <2>2, <2>3 DEF ControlIsHeld
<1>7. WatcherLeaves'
  <2>1. ASSUME running' # 0, mode'[running'] = "manual", ~overrun', P!Alive(watcher[running])'
 PROVE  (\/ pc[watcher[running]] \in {"leaving", "wait"}
         \/ pc[P!Control] = "join" /\ task # "stop" /\ chosen = 0)'
    BY <2>1, <1>a, <1>b, <1>c DEF RunTypes, ThreadTypes, RequestTypes, RunsAreLatest,
       WatchersAreKnown, TasksInPlace, ControlIsHeld, TakesControl, WatcherLeaves
  <2> QED
    BY <2>1 DEF WatcherLeaves
<1>8. TimelineInv'
  <2> SUFFICES ASSUME ~disturbed' PROVE (OnePersists /\ TimesArePast /\ ChangesInOrder)'
    BY DEF TimelineInv
  <2>0. ~disturbed /\ OnePersists /\ TimesArePast /\ ChangesInOrder
    BY DEF P!Apply, TimelineInv
  <2>1. OnePersists'
    <3>1. ASSUME NEW u \in Watchers, pc'[u] # "dead" PROVE on'[u] = made' /\ timeline' # <<>>
      BY <3>1, <2>0, <1>a, <1>b, <1>c DEF RunTypes, ThreadTypes, RunsAreLatest,
         WatchersAreKnown, TasksInPlace, SlidesKnown, OnePersists, ChangesInOrder
    <3>2. ASSUME NEW u \in P!Threads, NEW v \in P!Threads, P!Persisting(u)', P!Persisting(v)'
          PROVE  u = v
      BY <3>2, <2>0, <1>a, <1>b, <1>c DEF RunTypes, ThreadTypes, RunsAreLatest,
         WatchersAreKnown, TasksInPlace, SlidesKnown, OnePersists, ChangesInOrder
    <3>3. (pc[P!Control] = "watch" => timeline # <<>>)'
      BY <2>0, <1>a, <1>b, <1>c DEF RunTypes, ThreadTypes, RunsAreLatest, WatchersAreKnown,
         TasksInPlace, SlidesKnown, OnePersists, ChangesInOrder
    <3>4. (starting /\ pc[P!Control] \in {"check", "readdb", "insert"} => timeline = <<>>)'
      BY <2>0, <1>a, <1>b, <1>c DEF RunTypes, ThreadTypes, RunsAreLatest, WatchersAreKnown,
         TasksInPlace, SlidesKnown, OnePersists, ChangesInOrder
    <3> QED
      BY <3>1, <3>2, <3>3, <3>4 DEF OnePersists
  <2>2. TimesArePast'
    <3>1. ASSUME NEW i \in 1..Len(timeline')
          PROVE  made' # 0 /\ timeline'[i].at < now' - base'[made']
      BY <3>1, <2>0, <1>a, <1>b, <1>c DEF StoreTypes, RunTypes, ThreadTypes, RunsAreLatest,
         TasksInPlace, OnePersists, TimesArePast, P!Latest
    <3>2. ASSUME NEW u \in P!Threads, pc'[u] \in {"readdb", "insert"}
          PROVE  at'[u] <= now' - base'[made']
      BY <3>2, <2>0, <1>a, <1>b, <1>c DEF StoreTypes, RunTypes, ThreadTypes, RunsAreLatest,
         TasksInPlace, OnePersists, TimesArePast, P!Latest
    <3>3. ASSUME NEW u \in P!Threads, pc'[u] \in {"readdb", "insert"}, NEW i \in 1..Len(timeline')
 PROVE  timeline'[i].at < at'[u]
      BY <3>3, <2>0, <1>a, <1>b, <1>c DEF StoreTypes, RunTypes, ThreadTypes, RunsAreLatest,
         TasksInPlace, OnePersists, TimesArePast, P!Latest
    <3>4. ASSUME NEW u \in P!Threads, pc'[u] = "insert"
          PROVE  latest'[u] <= at'[u] /\ P!Latest' # slide'[u]
      BY <3>4, <2>0, <1>a, <1>b, <1>c DEF StoreTypes, RunTypes, ThreadTypes, RunsAreLatest,
         TasksInPlace, OnePersists, TimesArePast, P!Latest
    <3> QED
      BY <3>1, <3>2, <3>3, <3>4 DEF TimesArePast
  <2>3. ChangesInOrder'
    <3>1. ASSUME NEW i \in 1..(Len(timeline') - 1)
 PROVE  timeline'[i].slide # timeline'[i + 1].slide /\ timeline'[i].at <= timeline'[i + 1].at
      BY <3>1, <2>0, <1>a, <1>b, <1>c DEF StoreTypes, RunTypes, ThreadTypes, RunsAreLatest,
         TasksInPlace, OnePersists, TimesArePast, ChangesInOrder, P!Latest
    <3>2. ASSUME NEW u \in P!Threads, pc'[u] = "apply"
          PROVE  timeline' # <<>> /\ P!Latest' = slide'[u]
      BY <3>2, <2>0, <1>a, <1>b, <1>c DEF StoreTypes, RunTypes, ThreadTypes, RunsAreLatest,
         TasksInPlace, OnePersists, TimesArePast, ChangesInOrder, P!Latest
    <3>3. ASSUME made' # 0, current'[made'] # 0, \A u \in P!Threads : pc'[u] # "apply"
 PROVE  timeline' # <<>> /\ P!Latest' = current'[made']
      <4>1. on[t] = made /\ made \in P!Runs /\ slide[t] = P!Latest /\ timeline # <<>>
        BY <1>b, <2>0 DEF OnePersists, ChangesInOrder, RunsAreLatest, ThreadTypes
      <4> QED
        BY <1>b, <4>1 DEF RunTypes, P!Latest
    <3> QED
      BY <3>1, <3>2, <3>3 DEF ChangesInOrder
  <2> QED
    BY <2>1, <2>2, <2>3
<1> QED
  BY <1>1, <1>2, <1>3, <1>4, <1>5, <1>6, <1>7, <1>8

\* The switch makes a registered run manual and asks its watcher to leave.
LEMMA SwitchKeeps == ASSUME SlideInv, NEW t \in P!Threads, P!Switch(t) PROVE SlideInv'
<1> USE SlideAssumed DEF SlideInv
<1>a. PICK x : /\ pc' = [pc EXCEPT ![t] = x]
               /\ \/ /\ running = on[t] /\ mode' = [mode EXCEPT ![on[t]] = "manual"]
                     /\ stopSet' = [stopSet EXCEPT ![on[t]] = TRUE]
                     /\ \/ t # P!Control /\ x = "leaving"
                        \/ t = P!Control /\ mode[on[t]] = "powerpoint" /\ x = "join"
                        \/ t = P!Control /\ mode[on[t]] # "powerpoint" /\ x = "switched"
                  \/ /\ running # on[t] /\ UNCHANGED <<mode, stopSet>>
                     /\ \/ t # P!Control /\ x = "leaving"
                        \/ t = P!Control /\ x = "switched"
  BY DEF P!Switch
<1>b. /\ pc[t] = "switch"
      /\ UNCHANGED <<show, active, timeline, running, current, watcher, base, made, on, slide,
                     at,
                     latest, task, target, starting, now, chosen, overrun, disturbed, requests, moves, showFaults>>
  BY DEF P!Switch
<1>c. pc'[t] = x /\ \A u \in P!Threads : u # t => pc'[u] = pc[u]
  BY <1>a DEF ThreadTypes
<1>1. (StoreTypes /\ RunTypes /\ ThreadTypes /\ RequestTypes /\ HistoryTypes /\ BoundTypes)'
  <2>1. StoreTypes'
    BY <1>a, <1>b, <1>c DEF StoreTypes, SlidesKnown, TasksInPlace
  <2>2. RunTypes'
    BY <1>a, <1>b, <1>c DEF RunTypes
  <2>3. ThreadTypes'
    BY <1>a, <1>b, <1>c DEF ThreadTypes, P!Places
  <2>4. RequestTypes'
    BY <1>a, <1>b, <1>c DEF RequestTypes, P!Tasks
  <2>5. HistoryTypes'
    BY <1>a, <1>b, <1>c DEF HistoryTypes
  <2>6. BoundTypes'
    BY <1>a, <1>b, <1>c DEF BoundTypes, P!Fault, P!NoFault
  <2> QED
    BY <2>1, <2>2, <2>3, <2>4, <2>5, <2>6
<1>2. RunsAreLatest'
  BY <1>a, <1>b, <1>c DEF StoreTypes, RunTypes, ThreadTypes, RunsAreLatest, TasksInPlace
<1>3. WatchersAreKnown'
  BY <1>a, <1>b, <1>c DEF RunTypes, ThreadTypes, RunsAreLatest, WatchersAreKnown
<1>4. TasksInPlace'
  BY <1>a, <1>b, <1>c DEF P!Manual, RequestTypes, ThreadTypes, TasksInPlace, RunsAreLatest
<1>5. SlidesKnown'
  BY <1>a, <1>b, <1>c DEF P!Manual, StoreTypes, ThreadTypes, RequestTypes, SlidesKnown,
     TasksInPlace
<1>6. ControlIsHeld'
  <2>1. (running # 0 /\ chosen # 0 /\ ~overrun => mode[running] = "manual")'
    BY <1>a, <1>b, <1>c DEF RunTypes, ThreadTypes, RequestTypes, RunsAreLatest,
       WatchersAreKnown, TasksInPlace, ControlIsHeld, TakesControl, WatcherLeaves
  <2>2. (running # 0 /\ chosen # 0 /\ ~overrun => current[running] = chosen)'
    BY <1>a, <1>b, <1>c DEF RunTypes, ThreadTypes, RequestTypes, RunsAreLatest,
       WatchersAreKnown, TasksInPlace, ControlIsHeld, TakesControl, WatcherLeaves
  <2>3. ASSUME TakesControl' PROVE mode'[running'] = "manual"
    <3>1. CASE t = P!Control
      <4>1. on[t] = running /\ running \in P!Runs
        BY <1>b, <3>1 DEF RunsAreLatest, ThreadTypes
      <4> QED
        BY <1>a, <1>b, <3>1, <4>1 DEF RunTypes
    <3>2. CASE t # P!Control
      <4>1. mode[running] = "manual" /\ running \in P!Runs
        BY <1>a, <1>b, <1>c, <2>3, <3>2 DEF TakesControl, ControlIsHeld, RunsAreLatest,
           RunTypes, ThreadTypes
      <4> QED
        BY <1>a, <1>b, <4>1 DEF RunTypes
    <3> QED
      BY <3>1, <3>2
  <2> QED
    BY <2>1, <2>2, <2>3 DEF ControlIsHeld
<1>7. WatcherLeaves'
  <2>1. ASSUME running' # 0, mode'[running'] = "manual", ~overrun', P!Alive(watcher[running])'
 PROVE  (\/ pc[watcher[running]] \in {"leaving", "wait"}
         \/ pc[P!Control] = "join" /\ task # "stop" /\ chosen = 0)'
    <3>0. running \in P!Runs /\ watcher[running] \in Watchers /\ P!Control \notin Watchers
      BY <1>b, <2>1 DEF RunTypes
    <3>1. CASE t = P!Control
      <4>0. on[t] = running
        BY <1>b, <3>1 DEF RunsAreLatest
      <4>1. CASE mode[running] = "powerpoint"
        <5>1. pc'[P!Control] = "join" /\ task \in P!Manual \cup {"detect"}
          BY <1>a, <1>b, <1>c, <3>1, <4>0, <4>1 DEF TasksInPlace
        <5>2. chosen = 0
          BY <1>b, <2>1, <4>1, <3>0 DEF ControlIsHeld
        <5> QED
          BY <1>b, <5>1, <5>2 DEF P!Manual
      <4>2. CASE mode[running] = "manual"
        <5>1. pc[watcher[running]] \in {"leaving", "wait"}
          BY <1>b, <1>c, <2>1, <3>0, <3>1, <4>2 DEF WatcherLeaves
        <5> QED
          BY <1>b, <1>c, <3>0, <3>1, <5>1
      <4> QED
        BY <3>0, <4>1, <4>2 DEF RunTypes
    <3>2. CASE t = watcher[running]
      BY <1>a, <1>b, <1>c, <3>0, <3>2
    <3>3. CASE t # P!Control /\ t # watcher[running]
      <4>1. on[t] # running /\ on[t] \in P!Runs
        BY <1>b, <3>3 DEF WatchersAreKnown, ThreadTypes
      <4>2. mode' = mode
        BY <1>a, <4>1
      <4>3. pc'[watcher[running]] = pc[watcher[running]] /\ pc'[P!Control] = pc[P!Control]
        BY <1>c, <3>0, <3>3
      <4> QED
        BY <1>b, <2>1, <3>0, <4>2, <4>3 DEF WatcherLeaves
    <3> QED
      BY <3>1, <3>2, <3>3
  <2> QED
    BY <2>1 DEF WatcherLeaves
<1>8. TimelineInv'
  <2> SUFFICES ASSUME ~disturbed' PROVE (OnePersists /\ TimesArePast /\ ChangesInOrder)'
    BY DEF TimelineInv
  <2>0. ~disturbed /\ OnePersists /\ TimesArePast /\ ChangesInOrder
    BY DEF P!Switch, TimelineInv
  <2>1. OnePersists'
    <3>1. ASSUME NEW u \in Watchers, pc'[u] # "dead" PROVE on'[u] = made' /\ timeline' # <<>>
      BY <3>1, <2>0, <1>a, <1>b, <1>c DEF RunTypes, ThreadTypes, RunsAreLatest,
         WatchersAreKnown, TasksInPlace, SlidesKnown, OnePersists, ChangesInOrder
    <3>2. ASSUME NEW u \in P!Threads, NEW v \in P!Threads, P!Persisting(u)', P!Persisting(v)'
          PROVE  u = v
      BY <3>2, <2>0, <1>a, <1>b, <1>c DEF RunTypes, ThreadTypes, RunsAreLatest,
         WatchersAreKnown, TasksInPlace, SlidesKnown, OnePersists, ChangesInOrder
    <3>3. (pc[P!Control] = "watch" => timeline # <<>>)'
      BY <2>0, <1>a, <1>b, <1>c DEF RunTypes, ThreadTypes, RunsAreLatest, WatchersAreKnown,
         TasksInPlace, SlidesKnown, OnePersists, ChangesInOrder
    <3>4. (starting /\ pc[P!Control] \in {"check", "readdb", "insert"} => timeline = <<>>)'
      BY <2>0, <1>a, <1>b, <1>c DEF RunTypes, ThreadTypes, RunsAreLatest, WatchersAreKnown,
         TasksInPlace, SlidesKnown, OnePersists, ChangesInOrder
    <3> QED
      BY <3>1, <3>2, <3>3, <3>4 DEF OnePersists
  <2>2. TimesArePast'
    <3>1. ASSUME NEW i \in 1..Len(timeline')
          PROVE  made' # 0 /\ timeline'[i].at < now' - base'[made']
      BY <3>1, <2>0, <1>a, <1>b, <1>c DEF StoreTypes, RunTypes, ThreadTypes, RunsAreLatest,
         TasksInPlace, OnePersists, TimesArePast, P!Latest
    <3>2. ASSUME NEW u \in P!Threads, pc'[u] \in {"readdb", "insert"}
          PROVE  at'[u] <= now' - base'[made']
      BY <3>2, <2>0, <1>a, <1>b, <1>c DEF StoreTypes, RunTypes, ThreadTypes, RunsAreLatest,
         TasksInPlace, OnePersists, TimesArePast, P!Latest
    <3>3. ASSUME NEW u \in P!Threads, pc'[u] \in {"readdb", "insert"}, NEW i \in 1..Len(timeline')
 PROVE  timeline'[i].at < at'[u]
      BY <3>3, <2>0, <1>a, <1>b, <1>c DEF StoreTypes, RunTypes, ThreadTypes, RunsAreLatest,
         TasksInPlace, OnePersists, TimesArePast, P!Latest
    <3>4. ASSUME NEW u \in P!Threads, pc'[u] = "insert"
          PROVE  latest'[u] <= at'[u] /\ P!Latest' # slide'[u]
      BY <3>4, <2>0, <1>a, <1>b, <1>c DEF StoreTypes, RunTypes, ThreadTypes, RunsAreLatest,
         TasksInPlace, OnePersists, TimesArePast, P!Latest
    <3> QED
      BY <3>1, <3>2, <3>3, <3>4 DEF TimesArePast
  <2>3. ChangesInOrder'
    <3>1. ASSUME NEW i \in 1..(Len(timeline') - 1)
 PROVE  timeline'[i].slide # timeline'[i + 1].slide /\ timeline'[i].at <= timeline'[i + 1].at
      BY <3>1, <2>0, <1>a, <1>b, <1>c DEF StoreTypes, RunTypes, ThreadTypes, RunsAreLatest,
         TasksInPlace, OnePersists, TimesArePast, ChangesInOrder, P!Latest
    <3>2. ASSUME NEW u \in P!Threads, pc'[u] = "apply"
          PROVE  timeline' # <<>> /\ P!Latest' = slide'[u]
      BY <3>2, <2>0, <1>a, <1>b, <1>c DEF StoreTypes, RunTypes, ThreadTypes, RunsAreLatest,
         TasksInPlace, OnePersists, TimesArePast, ChangesInOrder, P!Latest
    <3>3. ASSUME made' # 0, current'[made'] # 0, \A u \in P!Threads : pc'[u] # "apply"
 PROVE  timeline' # <<>> /\ P!Latest' = current'[made']
      BY <3>3, <2>0, <1>a, <1>b, <1>c DEF StoreTypes, RunTypes, ThreadTypes, RunsAreLatest,
         TasksInPlace, OnePersists, TimesArePast, ChangesInOrder, P!Latest
    <3> QED
      BY <3>1, <3>2, <3>3 DEF ChangesInOrder
  <2> QED
    BY <2>1, <2>2, <2>3
<1> QED
  BY <1>1, <1>2, <1>3, <1>4, <1>5, <1>6, <1>7, <1>8

\* A watcher goes on only for a registered run that follows PowerPoint, else it ends.
LEMMA PollKeeps == ASSUME SlideInv, NEW w \in Watchers, P!Poll(w) PROVE SlideInv'
<1> USE SlideAssumed DEF SlideInv
<1>1. (StoreTypes /\ RunTypes /\ ThreadTypes /\ RequestTypes /\ HistoryTypes /\ BoundTypes)'
  <2>1. StoreTypes'
    BY DEF P!Poll, StoreTypes, SlidesKnown, TasksInPlace
  <2>2. RunTypes'
    BY DEF P!Poll, RunTypes
  <2>3. ThreadTypes'
    BY DEF P!Poll, ThreadTypes, P!Places
  <2>4. RequestTypes'
    BY DEF P!Poll, RequestTypes, P!Tasks
  <2>5. HistoryTypes'
    BY DEF P!Poll, HistoryTypes
  <2>6. BoundTypes'
    BY DEF P!Poll, BoundTypes, P!Fault, P!NoFault
  <2> QED
    BY <2>1, <2>2, <2>3, <2>4, <2>5, <2>6
<1>2. RunsAreLatest'
  BY DEF P!Poll, StoreTypes, RunTypes, ThreadTypes, RunsAreLatest, TasksInPlace
<1>3. WatchersAreKnown'
  BY DEF P!Poll, RunTypes, ThreadTypes, RunsAreLatest, WatchersAreKnown
<1>4. TasksInPlace'
  BY DEF P!Poll, P!Manual, RequestTypes, ThreadTypes, TasksInPlace, RunsAreLatest
<1>5. SlidesKnown'
  BY DEF P!Poll, P!Manual, StoreTypes, ThreadTypes, RequestTypes, SlidesKnown, TasksInPlace
<1>6. ControlIsHeld'
  BY DEF P!Poll, RunTypes, ThreadTypes, RequestTypes, RunsAreLatest, WatchersAreKnown,
     TasksInPlace, ControlIsHeld, TakesControl, WatcherLeaves
<1>7. WatcherLeaves'
  BY DEF P!Poll, RunTypes, ThreadTypes, RequestTypes, RunsAreLatest, WatchersAreKnown,
     TasksInPlace, ControlIsHeld, TakesControl, WatcherLeaves
<1>8. TimelineInv'
  <2> SUFFICES ASSUME ~disturbed' PROVE (OnePersists /\ TimesArePast /\ ChangesInOrder)'
    BY DEF TimelineInv
  <2>0. ~disturbed /\ OnePersists /\ TimesArePast /\ ChangesInOrder
    BY DEF P!Poll, TimelineInv
  <2>1. OnePersists'
    BY <2>0 DEF P!Poll, RunTypes, ThreadTypes, RunsAreLatest, WatchersAreKnown, TasksInPlace,
       SlidesKnown, OnePersists, ChangesInOrder
  <2>2. TimesArePast'
    BY <2>0 DEF P!Poll, StoreTypes, RunTypes, ThreadTypes, RunsAreLatest, TasksInPlace,
       OnePersists, TimesArePast, P!Latest
  <2>3. ChangesInOrder'
    BY <2>0 DEF P!Poll, StoreTypes, RunTypes, ThreadTypes, RunsAreLatest, TasksInPlace,
       OnePersists, TimesArePast, ChangesInOrder, P!Latest
  <2> QED
    BY <2>1, <2>2, <2>3
<1> QED
  BY <1>1, <1>2, <1>3, <1>4, <1>5, <1>6, <1>7, <1>8

\* What a watcher reads of PowerPoint is its own until it persists it.
LEMMA ReadShowKeeps == ASSUME SlideInv, NEW w \in Watchers, P!ReadShow(w) PROVE SlideInv'
<1> USE SlideAssumed DEF SlideInv
<1>1. (StoreTypes /\ RunTypes /\ ThreadTypes /\ RequestTypes /\ HistoryTypes /\ BoundTypes)'
  <2>1. StoreTypes'
    BY DEF P!ReadShow, StoreTypes, SlidesKnown, TasksInPlace
  <2>2. RunTypes'
    BY DEF P!ReadShow, RunTypes
  <2>3. ThreadTypes'
    BY DEF P!ReadShow, ThreadTypes, P!Places, StoreTypes
  <2>4. RequestTypes'
    BY DEF P!ReadShow, RequestTypes, P!Tasks
  <2>5. HistoryTypes'
    BY DEF P!ReadShow, HistoryTypes
  <2>6. BoundTypes'
    BY DEF P!ReadShow, BoundTypes, P!Fault, P!NoFault
  <2> QED
    BY <2>1, <2>2, <2>3, <2>4, <2>5, <2>6
<1>2. RunsAreLatest'
  BY DEF P!ReadShow, StoreTypes, RunTypes, ThreadTypes, RunsAreLatest, TasksInPlace
<1>3. WatchersAreKnown'
  BY DEF P!ReadShow, RunTypes, ThreadTypes, RunsAreLatest, WatchersAreKnown
<1>4. TasksInPlace'
  BY DEF P!ReadShow, P!Manual, RequestTypes, ThreadTypes, TasksInPlace, RunsAreLatest
<1>5. SlidesKnown'
  BY DEF P!ReadShow, P!Manual, StoreTypes, ThreadTypes, RequestTypes, SlidesKnown, TasksInPlace
<1>6. ControlIsHeld'
  BY DEF P!ReadShow, RunTypes, ThreadTypes, RequestTypes, RunsAreLatest, WatchersAreKnown,
     TasksInPlace, ControlIsHeld, TakesControl, WatcherLeaves
<1>7. WatcherLeaves'
  BY DEF P!ReadShow, RunTypes, ThreadTypes, RequestTypes, RunsAreLatest, WatchersAreKnown,
     TasksInPlace, ControlIsHeld, TakesControl, WatcherLeaves
<1>8. TimelineInv'
  <2> SUFFICES ASSUME ~disturbed' PROVE (OnePersists /\ TimesArePast /\ ChangesInOrder)'
    BY DEF TimelineInv
  <2>0. ~disturbed /\ OnePersists /\ TimesArePast /\ ChangesInOrder
    BY DEF P!ReadShow, TimelineInv
  <2>1. OnePersists'
    BY <2>0 DEF P!ReadShow, RunTypes, ThreadTypes, RunsAreLatest, WatchersAreKnown,
       TasksInPlace, SlidesKnown, OnePersists, ChangesInOrder
  <2>2. TimesArePast'
    BY <2>0 DEF P!ReadShow, StoreTypes, RunTypes, ThreadTypes, RunsAreLatest, TasksInPlace,
       OnePersists, TimesArePast, P!Latest
  <2>3. ChangesInOrder'
    BY <2>0 DEF P!ReadShow, StoreTypes, RunTypes, ThreadTypes, RunsAreLatest, TasksInPlace,
       OnePersists, TimesArePast, ChangesInOrder, P!Latest
  <2> QED
    BY <2>1, <2>2, <2>3
<1> QED
  BY <1>1, <1>2, <1>3, <1>4, <1>5, <1>6, <1>7, <1>8

\* A watcher that has emitted its event ends.
LEMMA LeaveKeeps == ASSUME SlideInv, NEW w \in Watchers, P!Leave(w) PROVE SlideInv'
<1> USE SlideAssumed DEF SlideInv
<1>1. (StoreTypes /\ RunTypes /\ ThreadTypes /\ RequestTypes /\ HistoryTypes /\ BoundTypes)'
  <2>1. StoreTypes'
    BY DEF P!Leave, StoreTypes, SlidesKnown, TasksInPlace
  <2>2. RunTypes'
    BY DEF P!Leave, RunTypes
  <2>3. ThreadTypes'
    BY DEF P!Leave, ThreadTypes, P!Places
  <2>4. RequestTypes'
    BY DEF P!Leave, RequestTypes, P!Tasks
  <2>5. HistoryTypes'
    BY DEF P!Leave, HistoryTypes
  <2>6. BoundTypes'
    BY DEF P!Leave, BoundTypes, P!Fault, P!NoFault
  <2> QED
    BY <2>1, <2>2, <2>3, <2>4, <2>5, <2>6
<1>2. RunsAreLatest'
  BY DEF P!Leave, StoreTypes, RunTypes, ThreadTypes, RunsAreLatest, TasksInPlace
<1>3. WatchersAreKnown'
  BY DEF P!Leave, RunTypes, ThreadTypes, RunsAreLatest, WatchersAreKnown
<1>4. TasksInPlace'
  BY DEF P!Leave, P!Manual, RequestTypes, ThreadTypes, TasksInPlace, RunsAreLatest
<1>5. SlidesKnown'
  BY DEF P!Leave, P!Manual, StoreTypes, ThreadTypes, RequestTypes, SlidesKnown, TasksInPlace
<1>6. ControlIsHeld'
  BY DEF P!Leave, RunTypes, ThreadTypes, RequestTypes, RunsAreLatest, WatchersAreKnown,
     TasksInPlace, ControlIsHeld, TakesControl, WatcherLeaves
<1>7. WatcherLeaves'
  BY DEF P!Leave, RunTypes, ThreadTypes, RequestTypes, RunsAreLatest, WatchersAreKnown,
     TasksInPlace, ControlIsHeld, TakesControl, WatcherLeaves
<1>8. TimelineInv'
  <2> SUFFICES ASSUME ~disturbed' PROVE (OnePersists /\ TimesArePast /\ ChangesInOrder)'
    BY DEF TimelineInv
  <2>0. ~disturbed /\ OnePersists /\ TimesArePast /\ ChangesInOrder
    BY DEF P!Leave, TimelineInv
  <2>1. OnePersists'
    BY <2>0 DEF P!Leave, RunTypes, ThreadTypes, RunsAreLatest, WatchersAreKnown, TasksInPlace,
       SlidesKnown, OnePersists, ChangesInOrder
  <2>2. TimesArePast'
    BY <2>0 DEF P!Leave, StoreTypes, RunTypes, ThreadTypes, RunsAreLatest, TasksInPlace,
       OnePersists, TimesArePast, P!Latest
  <2>3. ChangesInOrder'
    BY <2>0 DEF P!Leave, StoreTypes, RunTypes, ThreadTypes, RunsAreLatest, TasksInPlace,
       OnePersists, TimesArePast, ChangesInOrder, P!Latest
  <2> QED
    BY <2>1, <2>2, <2>3
<1> QED
  BY <1>1, <1>2, <1>3, <1>4, <1>5, <1>6, <1>7, <1>8

\* Each step of the presenter, of PowerPoint and of the threads keeps the invariant.
LEMMA SlideStep == SlideInv /\ [P!Next]_(P!vars) => SlideInv'
<1> SUFFICES ASSUME SlideInv, [P!Next]_(P!vars) PROVE SlideInv'
  OBVIOUS
<1> USE SlideAssumed
<1>0. P!Control \in P!Threads /\ Watchers \subseteq P!Threads
  OBVIOUS
<1>1. ASSUME NEW t \in P!Threads, P!Persist(t) PROVE SlideInv'
  BY <1>1, CheckKeeps, CheckReturnsKeeps, ReadEndedKeeps, ReadFullKeeps, ReadLatestKeeps,
     InsertKeeps, ApplyKeeps, SwitchKeeps DEF P!Persist
<1>2. CASE P!ControlStep
  BY <1>0, <1>1, <1>2, StartRunKeeps, StartWatcherKeeps, DetectKeeps, FollowKeeps,
     OverrideKeeps,
     JoinKeeps, SwitchedKeeps, NavigateKeeps, StopRunKeeps, PopRunKeeps, EndSessionKeeps
     DEF P!ControlStep
<1>3. ASSUME NEW w \in Watchers, P!WatcherStep(w) PROVE SlideInv'
  BY <1>0, <1>1, <1>3, PollKeeps, ReadShowKeeps, LeaveKeeps DEF P!WatcherStep
<1>4. ASSUME NEW t \in P!Threads, P!InsertFails(t) PROVE SlideInv'
  BY <1>4, InsertFailsKeeps
<1>5. CASE P!Move \/ P!Request
  BY <1>5, MoveKeeps, RequestKeeps
<1>6. CASE UNCHANGED P!vars
  <2>1. /\ show' = show /\ active' = active /\ timeline' = timeline /\ running' = running
        /\ mode' = mode /\ stopSet' = stopSet /\ current' = current /\ watcher' = watcher
        /\ base' = base /\ made' = made /\ pc' = pc /\ on' = on /\ slide' = slide /\ at' = at
        /\ latest' = latest /\ task' = task /\ target' = target /\ starting' = starting
             /\ now' = now
        /\ chosen' = chosen /\ overrun' = overrun /\ disturbed' = disturbed
        /\ requests' = requests /\ moves' = moves /\ showFaults' = showFaults
    BY <1>6 DEF P!vars
  <2>2. (StoreTypes /\ RunTypes /\ ThreadTypes /\ RequestTypes /\ HistoryTypes /\ BoundTypes)'
    BY <2>1 DEF SlideInv, StoreTypes, RunTypes, ThreadTypes, RequestTypes, HistoryTypes,
       BoundTypes
  <2>3. (RunsAreLatest /\ WatchersAreKnown /\ TasksInPlace /\ SlidesKnown)'
    BY <2>1 DEF SlideInv, RunsAreLatest, WatchersAreKnown, TasksInPlace, SlidesKnown
  <2>4. (ControlIsHeld /\ WatcherLeaves)'
    BY <2>1 DEF SlideInv, ControlIsHeld, TakesControl, WatcherLeaves
  <2>5. TimelineInv'
    BY <2>1 DEF SlideInv, TimelineInv, OnePersists, TimesArePast, ChangesInOrder, P!Latest
  <2> QED
    BY <2>2, <2>3, <2>4, <2>5 DEF SlideInv
<1>7. CASE P!Next
  BY <1>2, <1>3, <1>4, <1>5, <1>6, <1>7 DEF P!Next, P!Finished
<1> QED
  BY <1>6, <1>7

\* A session starts in the invariant.
LEMMA SlideInit == P!Init => SlideInv
<1> SUFFICES ASSUME P!Init PROVE SlideInv
  OBVIOUS
<1> USE SlideAssumed
<1>1. StoreTypes /\ RunTypes
  BY DEF P!Init, StoreTypes, RunTypes
<1>2. ThreadTypes
  BY DEF P!Init, ThreadTypes, P!Places
<1>3. RequestTypes /\ HistoryTypes /\ BoundTypes
  <2>1. BoundTypes
    BY DEF P!Init, BoundTypes
  <2>4. task \in P!Tasks /\ target \in 0..LastSlide
    BY DEF P!Init, P!Tasks
  <2>5. starting = FALSE
    BY DEF P!Init
  <2>2. chosen \in 0..LastSlide
    BY DEF P!Init
  <2>3. overrun = FALSE /\ disturbed = FALSE
    BY DEF P!Init
  <2> QED
    BY <2>1, <2>2, <2>3, <2>4, <2>5 DEF RequestTypes, HistoryTypes
<1>4. pc[P!Control] = "start" /\ \A w \in Watchers : w # P!Control /\ pc[w] = "dead"
  BY DEF P!Init
<1>5. RunsAreLatest
  BY <1>4 DEF P!Init, RunsAreLatest
<1>6. WatchersAreKnown /\ TasksInPlace /\ SlidesKnown
  BY <1>4 DEF P!Init, WatchersAreKnown, TasksInPlace, SlidesKnown, P!Manual
<1>7. ControlIsHeld /\ WatcherLeaves
  BY <1>4 DEF P!Init, ControlIsHeld, TakesControl, WatcherLeaves
<1>8. TimelineInv
  <2>1. OnePersists
    BY <1>4 DEF P!Init, OnePersists
  <2>2. TimesArePast /\ ChangesInOrder
    BY <1>4 DEF P!Init, TimesArePast, ChangesInOrder
  <2> QED
    BY <2>1, <2>2 DEF TimelineInv
<1> QED
  BY <1>1, <1>2, <1>3, <1>5, <1>6, <1>7, <1>8 DEF SlideInv

\* The inductive invariant of slide tracking holds of every behaviour.
THEOREM SlideInvariant == P!Spec => []SlideInv
<1> QED
  BY SlideInit, SlideStep, PTL DEF P!Spec

\* The fields of the runs, the threads and the timeline keep their types.
THEOREM SlideTypesHold == P!Spec => [](P!TypeOK)
<1>1. SlideInv => P!TypeOK
  BY DEF SlideInv, StoreTypes, RunTypes, ThreadTypes, RequestTypes, HistoryTypes, BoundTypes,
     P!TypeOK
<1> QED
  BY <1>1, SlideInvariant, PTL

\* A slide set by hand stays, whatever a watcher had read or was about to store, unless the
\* one-second join gave up on it (service.py:331-349, 372-398).
THEOREM ManualControlHolds == P!Spec => []ManualHolds
<1>1. SlideInv => ManualHolds
  BY DEF SlideInv, ControlIsHeld, ManualHolds, P!ManualHolds
<1> QED
  BY <1>1, SlideInvariant, PTL

\* The timeline holds changes only, in the order of their times, and ends with the slide the
\* run is on, while threads persist one at a time (service.py:400-470).
THEOREM TimelineIsFaithful == P!Spec => []TimelineFaithful
<1>1. SlideInv => TimelineFaithful
  <2> SUFFICES ASSUME SlideInv, ~disturbed PROVE TimelineFaithful
    BY DEF TimelineFaithful, P!TimelineFaithful
  <2>1. ChangesInOrder /\ running \in {0, made}
    BY DEF SlideInv, TimelineInv, RunsAreLatest
  <2>2. ASSUME running # 0, current[running] # 0, \A t \in P!Threads : ~P!Persisting(t)
        PROVE  P!Last(timeline).slide = current[running]
    BY <2>1, <2>2 DEF ChangesInOrder, P!Latest
  <2> QED
    BY <2>1, <2>2 DEF TimelineFaithful, P!TimelineFaithful, ChangesInOrder
<1> QED
  BY <1>1, SlideInvariant, PTL
=============================================================================
