------------------------------ MODULE LiveAssist ------------------------------
(***************************************************************************)
(* Push-to-assist during a Live Assist session:                            *)
(* core/presenter_core/live/service.py (AssistService and CueService).     *)
(*                                                                         *)
(* Every request has a worker thread that retrieves evidence, saves a      *)
(* partial cue, may call a provider (ProviderExecution), and replaces the  *)
(* partial cue by a final one. The request thread starts, supersedes and   *)
(* cancels assists, stops the session and deletes it. The service's lock   *)
(* guards the register of assists and the partial cue, not the final one;  *)
(* and a cue is saved in two steps, for SQLite opens the transaction with  *)
(* the first write, after the reads that decide what to write.             *)
(***************************************************************************)
EXTENDS ProviderExecution

Assists == Calls

VARIABLES
    session,       \* the row of the Live Assist session
    cue,           \* each assist's row in cues
    registered,    \* AssistService._states: the assists whose worker has not ended
    stage, seen,   \* the workers: how far each is, and whether its save found a row
    ready,         \* assists whose cue.ready event went out
    ctl            \* the request thread, within session.stop or session.delete

assistVars == <<session, cue, registered, stage, seen, ready, ctl>>
vars == <<execVars, assistVars>>

Init ==
    /\ ExecutionInit
    /\ session = "active"
    /\ cue = [a \in Assists |-> "none"]
    /\ registered = {}
    /\ stage = [a \in Assists |-> "none"] /\ seen = [a \in Assists |-> FALSE]
    /\ ready = {}
    /\ ctl = "idle"

To(a, s) == stage' = [stage EXCEPT ![a] = s]
\* _ensure_current; generation and registration tell no more than cancelled does.
Going(a) == a \notin cancelled /\ session = "active"

\* MUTANT: the delete does not ask for a partial cue.
DiscardsAny(some) == cue' = [a \in Assists |-> IF a \in some THEN "none" ELSE cue[a]]

\* CueService.discard_partial.
Discard(some) ==
    cue' = [a \in Assists |-> IF a \in some /\ cue[a] = "partial" THEN "none" ELSE cue[a]]

-----------------------------------------------------------------------------
(* Requests.                                                               *)

CancelAll(some) == cancelled' = cancelled \cup some /\ Discard(some)

\* assist.request supersedes what the session still has at work.
Request(a) ==
    /\ ctl = "idle" /\ session = "active" /\ stage[a] = "none"
    /\ CancelAll(registered)
    /\ registered' = registered \cup {a}
    /\ To(a, "start")
    /\ UNCHANGED <<project, runs, call, changes, faults>>
    /\ UNCHANGED <<session, seen, ready, ctl>>

\* assist.cancel, of an assist whose worker has not ended.
Cancel(a) ==
    /\ ctl = "idle" /\ a \in registered
    /\ CancelAll({a})
    /\ UNCHANGED <<project, runs, call, changes, faults>>
    /\ UNCHANGED <<session, registered, stage, seen, ready, ctl>>

\* stop_session, by session.stop or as the cleanup of session.delete.
StopSession(as) ==
    /\ ctl = "idle" /\ session = "active"
    /\ CancelAll(registered)
    /\ ctl' = as
    /\ UNCHANGED <<project, runs, call, changes, faults>>
    /\ UNCHANGED <<session, registered, stage, seen, ready>>

\* The microphone is released before the row is stopped; if it is not, the
\* session stays active and the request can be repeated.
SessionStopped ==
    /\ ctl \in {"stop", "cleanup"}
    /\ \/ NoFault /\ session' = "stopped" /\ ctl' = IF ctl = "cleanup" THEN "purge" ELSE "idle"
       \/ Fault("asr") /\ ctl' = "idle" /\ UNCHANGED session
    /\ UNCHANGED <<project, runs, call, cancelled, changes>>
    /\ UNCHANGED <<cue, registered, stage, seen, ready>>

\* session.delete of a session that is not active begins with the row.
DeleteStopped ==
    /\ ctl = "idle" /\ session = "stopped"
    /\ ctl' = "row"
    /\ UNCHANGED <<execVars, session, cue, registered, stage, seen, ready>>

\* The row goes, and by its foreign keys its cues and provider runs.
DeleteRow ==
    /\ ctl = "row"
    /\ session' = "deleted" /\ ctl' = "purge"
    /\ cue' = [a \in Assists |-> "none"]
    /\ runs' = [a \in Assists |-> "none"]
    /\ UNCHANGED <<project, call, cancelled, changes, faults>>
    /\ UNCHANGED <<registered, stage, seen, ready>>

\* purge_session, before the row of an active session goes and after every row:
\* it cancels, waits for the workers, and gives up after thirty seconds.
PurgeSession ==
    /\ ctl = "purge" /\ ctl' = "join"
    /\ cancelled' = cancelled \cup registered
    /\ UNCHANGED <<project, runs, call, changes, faults>>
    /\ UNCHANGED <<session, cue, registered, stage, seen, ready>>

PurgeDone ==
    /\ ctl = "join" /\ registered = {}
    /\ ctl' = IF session = "deleted" THEN "idle" ELSE "row"
    /\ UNCHANGED <<execVars, session, cue, registered, stage, seen, ready>>

PurgeGivesUp ==
    /\ ctl = "join" /\ registered # {}
    /\ ctl' = "idle"
    /\ UNCHANGED <<execVars, session, cue, registered, stage, seen, ready>>

\* project.open, of a project that is already open, also aborts its session.
Reopen ==
    /\ ctl = "idle" /\ OpenProject
    /\ session' = IF session = "active" THEN "stopped" ELSE session
    /\ UNCHANGED <<cue, registered, stage, seen, ready, ctl>>

PolicyChanges == ctl = "idle" /\ ChangePolicy /\ UNCHANGED assistVars

-----------------------------------------------------------------------------
(* A worker: _run.                                                         *)

\* MUTANT: the partial cue is saved without a look at the assist.
SavesBlindly(a) == session # "deleted"

MaySavePartial(a) == Going(a)

\* Retrieval, then _save_partial under the lock.
SavePartial(a) ==
    /\ stage[a] = "start"
    /\ \/ NoFault /\ MaySavePartial(a) /\ To(a, "route") /\ cue' = [cue EXCEPT ![a] = "partial"]
       \/ NoFault /\ ~MaySavePartial(a) /\ To(a, "end") /\ UNCHANGED cue
       \/ Fault("evidence") /\ To(a, "end") /\ UNCHANGED cue
    /\ UNCHANGED <<project, runs, call, cancelled, changes>>
    /\ UNCHANGED <<session, registered, seen, ready, ctl>>

\* The retrieval itself answers (_retrieval_fast_path, _retrieval_pointer_cue) ...
AnswerLocally(a) ==
    /\ stage[a] = "route" /\ To(a, "save")
    /\ UNCHANGED <<execVars, session, cue, registered, seen, ready, ctl>>

\* ... or a provider the policy allows is asked.
AskProvider(a) ==
    /\ stage[a] = "route" /\ Allowed(a) /\ Going(a)
    /\ Call(a) /\ To(a, "execute")
    /\ UNCHANGED <<session, cue, registered, seen, ready, ctl>>

NotAsked(a) ==
    /\ stage[a] = "route" /\ Allowed(a) /\ ~Going(a) /\ To(a, "end")
    /\ UNCHANGED <<execVars, session, cue, registered, seen, ready, ctl>>

\* The caller's before_provider announces the call; its output_validator accepts
\* or, like the schema, does not.
Execute(a) ==
    /\ stage[a] = "execute"
    /\ ExecuteStep(a, TRUE, TRUE) \/ RecordRun(a, session # "deleted") \/ FinishRun(a)
    /\ UNCHANGED assistVars

\* A result is used, and a failure answered from the retrieval, while the assist
\* is current; in both cases its evidence may be gone.
Executed(a) ==
    /\ stage[a] = "execute" /\ place[a] = "returned"
    /\ \/ NoFault /\ To(a, IF verdict[a] # "cancelled" /\ Going(a) THEN "save" ELSE "end")
       \/ Fault("evidence") /\ To(a, "end")
    /\ UNCHANGED <<project, runs, call, cancelled, changes>>
    /\ UNCHANGED <<session, cue, registered, seen, ready, ctl>>

\* CueService.save of the final cue, without the lock: the reads ...
ReadCue(a) ==
    /\ stage[a] = "save"
    /\ IF session = "deleted" THEN To(a, "end") /\ UNCHANGED seen
       ELSE To(a, "write") /\ seen' = [seen EXCEPT ![a] = cue[a] # "none"]
    /\ UNCHANGED <<execVars, session, cue, registered, ready, ctl>>

\* MUTANT: cues are not bound to their session.
WritesAnyway(a) == TRUE

\* What the foreign keys of cues and cue_evidence let through: a new row for a
\* session that is there, evidence for a row that still is.
Writable(a) == session # "deleted" /\ (seen[a] => cue[a] # "none")

\* ... and the write, an update or an insert.
WriteCue(a) ==
    /\ stage[a] = "write"
    /\ IF Writable(a) THEN cue' = [cue EXCEPT ![a] = "final"] /\ To(a, "announce")
                      ELSE UNCHANGED cue /\ To(a, "end")
    /\ seen' = [seen EXCEPT ![a] = FALSE]
    /\ UNCHANGED <<execVars, session, registered, ready, ctl>>

\* The cue.ready event.
Announce(a) ==
    /\ stage[a] = "announce"
    /\ ready' = ready \cup {a} /\ To(a, "end")
    /\ UNCHANGED <<execVars, session, cue, registered, seen, ctl>>

\* The worker's finally block.
End(a) ==
    /\ stage[a] = "end"
    /\ Discard({a}) /\ registered' = registered \ {a} /\ To(a, "done")
    /\ UNCHANGED <<execVars, session, seen, ready, ctl>>

-----------------------------------------------------------------------------
WorkerStep(a) == \/ SavePartial(a) \/ AnswerLocally(a) \/ AskProvider(a) \/ NotAsked(a)
                 \/ Execute(a) \/ Executed(a) \/ ReadCue(a) \/ WriteCue(a) \/ Announce(a) \/ End(a)
Adapter(a) == Answer(a) /\ UNCHANGED assistVars
Requests == \/ \E a \in Assists : Request(a) \/ Cancel(a)
            \/ \E as \in {"stop", "cleanup"} : StopSession(as)
            \/ DeleteStopped \/ Reopen \/ PolicyChanges
RequestStep == SessionStopped \/ DeleteRow \/ PurgeSession \/ PurgeDone \/ PurgeGivesUp

\* The session is over and nothing is at work.
Finished == ctl = "idle" /\ session = "deleted" /\ registered = {} /\ UNCHANGED vars

Next == \/ Requests \/ RequestStep \/ Finished
        \/ \E a \in Assists : WorkerStep(a) \/ Adapter(a)

Spec == Init /\ [][Next]_vars

-----------------------------------------------------------------------------
(* Correctness.                                                            *)

Stages == {"none", "start", "route", "execute", "save", "write", "announce", "end", "done"}

\* Type invariant of the assists, on top of that of their calls.
TypeOK ==
    /\ ExecutionTypeOK
    /\ session \in {"active", "stopped", "deleted"}
    /\ cue \in [Assists -> {"none", "partial", "final"}]
    /\ registered \subseteq Assists /\ ready \subseteq Assists
    /\ stage \in [Assists -> Stages] /\ seen \in [Assists -> BOOLEAN]
    /\ ctl \in {"idle", "stop", "cleanup", "row", "purge", "join"}

\* A partial cue has a worker that will replace or discard it, and that worker's
\* assist was not cancelled, superseded or stopped (live/service.py:1298-1315).
PartialHasWorker ==
    \A a \in Assists : cue[a] = "partial" => a \in registered \ cancelled

\* A deleted session has no cue and no provider run, although its workers may
\* still be writing when the row goes (session/service.py:314, live/service.py:915-945).
NothingOutlivesSession ==
    session = "deleted" => \A a \in Assists : cue[a] = "none" /\ runs[a] = "none"

\* A cue the presenter was told is ready stays stored, whoever discards partial
\* cues meanwhile: "Remove only an incomplete cue" (live/service.py:223).
AnnouncedIsStored == \A a \in ready : session # "deleted" => cue[a] = "final"

=============================================================================
