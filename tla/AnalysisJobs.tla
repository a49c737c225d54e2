---------------------------- MODULE AnalysisJobs ----------------------------
(***************************************************************************)
(* The background jobs that analyse a recorded rehearsal:                  *)
(* core/presenter_core/presentation/rehearsal_analysis_jobs.py, with the   *)
(* analysis it runs (rehearsal_semantic_analysis.py) and the transaction   *)
(* that stores a finding (rehearsal_analysis_store.py).                    *)
(*                                                                         *)
(* Each job has a worker thread that calls a provider (ProviderExecution)  *)
(* and stores what came out. The request thread starts, polls and cancels  *)
(* jobs, and drains them before it deletes what they use. Cancel and the   *)
(* last step before the commit share a lock, which is what decides whether *)
(* a cancel was in time. The job map keeps the place of each job in the     *)
(* order of insertion.                                                     *)
(***************************************************************************)
EXTENDS ProviderExecution

CONSTANTS
    None,
    Sessions,      \* ended Runs of one project
    Owner,         \* the Run a job analyses
    Second,        \* the other Run of a comparison, or None
    MaxActive,     \* MAX_ACTIVE_JOBS
    MaxRetained    \* MAX_RETAINED_JOBS

Jobs == Calls
Of(j) == {Owner[j], Second[j]} \ {None}

ASSUME JobsAssumption ==
    /\ IsFiniteSet(Jobs)
    /\ Owner \in [Jobs -> Sessions] /\ Second \in [Jobs -> Sessions \cup {None}]
    /\ None \notin Sessions \cup Jobs
    /\ MaxActive \in Nat \ {0} /\ MaxRetained \in Nat \ {0}

VARIABLES
    \* Durable: the session rows and the stored findings.
    sessions, stored,
    \* RehearsalAnalysisJobs: the map, what it accepts, and each job's state.
    retained, accepting, state,
    \* The workers, and how far each is outside of execute.
    worker, stage,
    \* The request thread: what it drains, for which purpose.
    ctl, drained, task

jobVars == <<sessions, stored, retained, accepting, state, worker, stage, ctl, drained, task>>
vars == <<execVars, jobVars>>

Init ==
    /\ ExecutionInit
    /\ sessions = Sessions /\ stored = {}
    /\ retained = [j \in {} |-> 0] /\ accepting = TRUE
    /\ state = [j \in Jobs |-> "none"]
    /\ worker = [j \in Jobs |-> "none"]
    /\ stage = [j \in Jobs |-> "none"]
    /\ ctl = "idle" /\ drained = {} /\ task = None

Terminal == {"completed", "cancelled", "failed"}
Live(j)  == worker[j] = "alive"
Kept     == DOMAIN retained
\* A worker inside its storage transaction keeps every other writer out.
Saving   == \E j \in Jobs : stage[j] \in {"guard", "commit"}
To(j, s) == stage' = [stage EXCEPT ![j] = s]

Without(gone) == [j \in Kept \ gone |-> retained[j]]

Begun == Cardinality({j \in Jobs : state[j] # "none"})

\* The map with j inserted last, after some were removed.
Inserted(j, gone) ==
    [k \in (Kept \ gone) \cup {j} |-> IF k = j THEN Begun ELSE retained[k]]

-----------------------------------------------------------------------------
(* Requests.                                                               *)

Evictable(j) == ~Live(j) /\ state[j] \in Terminal

\* _start, after prepare_analysis accepted the sessions. A map at its bound
\* loses its oldest job that has ended; without one the start is refused.
Start(j) ==
    /\ ctl = "idle" /\ accepting /\ state[j] = "none" /\ Of(j) \subseteq sessions
    /\ Cardinality({k \in Kept : Live(k)}) < MaxActive
    /\ \/ Cardinality(Kept) < MaxRetained /\ retained' = Inserted(j, {})
       \/ /\ Cardinality(Kept) >= MaxRetained
          /\ \E old \in {k \in Kept : Evictable(k)} :
                /\ \A k \in Kept : Evictable(k) => retained[old] <= retained[k]
                /\ retained' = Inserted(j, {old})
    /\ state' = [state EXCEPT ![j] = "queued"]
    /\ worker' = [worker EXCEPT ![j] = "alive"]
    /\ To(j, "start")
    /\ UNCHANGED <<execVars, sessions, stored, accepting, ctl, drained, task>>

Cancellable(j) == Live(j) /\ state[j] \in {"queued", "running", "cancelling"}

\* _request_cancel, of one job by cancel or of several by a drain.
RequestCancel(some) ==
    LET taken == {j \in some : Cancellable(j)} IN
    /\ cancelled' = cancelled \cup taken
    /\ state' = [j \in Jobs |-> IF j \in taken THEN "cancelling" ELSE state[j]]

Cancel(j) ==
    /\ ctl = "idle" /\ j \in Kept
    /\ RequestCancel({j})
    /\ UNCHANGED <<project, runs, call, changes, faults>>
    /\ UNCHANGED <<sessions, stored, retained, accepting, worker, stage, ctl, drained, task>>

\* drain: before a session is deleted, before a model is released (release), the
\* project or its deck removed (purge), or for good. It selects and cancels under
\* the lock ...
Drains == [op : {"delete"}, session : Sessions]
            \cup [op : {"release", "purge", "close"}, session : {None}]
Selected(t) == {j \in Kept : t.op = "delete" => t.session \in Of(j)}

StartDrain(t) ==
    /\ ctl = "idle" /\ ctl' = "join"
    /\ t.op = "delete" => t.session \in sessions
    /\ task' = t /\ drained' = Selected(t)
    /\ RequestCancel(Selected(t))
    /\ accepting' = (accepting /\ t.op # "close")
    /\ UNCHANGED <<project, runs, call, changes, faults>>
    /\ UNCHANGED <<sessions, stored, retained, worker, stage>>

\* ... waits without it, and gives up after two seconds ...
DrainPending ==
    /\ ctl = "join" /\ \E j \in drained : Live(j)
    /\ ctl' = IF task.op = "close" THEN "closed" ELSE "idle"
    /\ task' = None /\ drained' = {}
    /\ UNCHANGED <<execVars, sessions, stored, retained, accepting, state, worker, stage>>

\* MUTANT: what still runs when the wait ends is left behind.
IgnoresLive == TRUE

AllJoined == \A j \in drained : ~Live(j)

\* ... or forgets the jobs it was to purge and goes on.
DrainDone ==
    /\ ctl = "join" /\ AllJoined
    /\ retained' = IF task.op = "release" THEN retained ELSE Without(drained)
    /\ ctl' = CASE task.op = "delete" -> "delete" [] task.op = "close" -> "closed"
                [] OTHER -> "idle"
    /\ task' = IF task.op = "delete" THEN task ELSE None
    /\ drained' = {}
    /\ UNCHANGED <<execVars, sessions, stored, accepting, state, worker, stage>>

\* The session row goes, and with it its findings and its provider runs.
DeleteSession ==
    /\ ctl = "delete" /\ ~Saving
    /\ sessions' = sessions \ {task.session}
    /\ stored' = {j \in stored : task.session \notin Of(j)}
    /\ runs' = [j \in Jobs |-> IF Owner[j] = task.session THEN "none" ELSE runs[j]]
    /\ ctl' = "idle" /\ task' = None
    /\ UNCHANGED <<project, call, cancelled, changes, faults>>
    /\ UNCHANGED <<retained, accepting, state, worker, stage, drained>>

\* Other requests that write to the project.
ProjectChanges ==
    /\ ctl = "idle" /\ ~Saving
    /\ ChangePolicy \/ ChangeContext \/ OpenProject
    /\ UNCHANGED jobVars

-----------------------------------------------------------------------------
(* A worker: _run, analyze and save.                                       *)

Begin(j) ==
    /\ stage[j] = "start"
    /\ state' = [state EXCEPT ![j] = IF j \in cancelled THEN @ ELSE "running"]
    /\ To(j, "prepare")
    /\ UNCHANGED <<execVars, sessions, stored, retained, accepting, worker, ctl, drained, task>>

Ends(j, s) == state' = [state EXCEPT ![j] = s] /\ To(j, "end")

\* The analysis reads its context, its policy and the route they allow, and
\* builds the request; what it read then must still hold when it stores.
Prepare(j) ==
    /\ stage[j] = "prepare"
    /\ j \notin cancelled /\ Of(j) \subseteq sessions /\ Allowed(j)
    /\ Call(j)
    /\ To(j, "execute")
    /\ UNCHANGED <<sessions, stored, retained, accepting, state, worker, ctl, drained, task>>

PrepareFails(j) ==
    /\ stage[j] = "prepare"
    /\ j \in cancelled \/ ~(Of(j) \subseteq sessions) \/ ~Allowed(j)
    /\ Ends(j, IF j \in cancelled THEN "cancelled" ELSE "failed")
    /\ UNCHANGED <<execVars, sessions, stored, retained, accepting, worker, ctl, drained, task>>

Execute(j) ==
    /\ stage[j] = "execute"
    /\ \/ ExecuteStep(j, Current(j), Current(j))
       \/ ~Saving /\ (RecordRun(j, Owner[j] \in sessions) \/ FinishRun(j))
    /\ UNCHANGED jobVars

ExecuteFails(j) == stage[j] = "execute" /\ ~Saving /\ FinishFails(j) /\ UNCHANGED jobVars

Executed(j) ==
    /\ stage[j] = "execute" /\ place[j] = "returned"
    /\ IF verdict[j] = "success" /\ Current(j)
       THEN To(j, "save") /\ UNCHANGED state
       ELSE Ends(j, IF verdict[j] = "cancelled" THEN "cancelled" ELSE "failed")
    /\ UNCHANGED <<execVars, sessions, stored, retained, accepting, worker, ctl, drained, task>>

\* MUTANT: the finding is stored whatever became of its provider run.
SkipsAudit(j) == Of(j) \subseteq sessions /\ Current(j)

\* The audit of the provider run and of the session, and the transaction guard.
Storable(j) == runs[j] = "success" /\ Of(j) \subseteq sessions /\ Current(j)

OpenTransaction(j) ==
    /\ stage[j] = "save" /\ ~Saving
    /\ IF Storable(j) /\ j \notin cancelled
       THEN To(j, "guard") /\ UNCHANGED state
       ELSE Ends(j, IF Storable(j) THEN "cancelled" ELSE "failed")
    /\ UNCHANGED <<execVars, sessions, stored, retained, accepting, worker, ctl, drained, task>>

\* MUTANT: the state becomes committing without a look at the cancellation.
CommitsBlindly(j) == TRUE

InTime(j) == j \notin cancelled

\* committing(), inside the transaction and under the lock of the job map.
Committing(j) ==
    /\ stage[j] = "guard"
    /\ IF InTime(j)
       THEN state' = [state EXCEPT ![j] = "committing"] /\ To(j, "commit")
       ELSE Ends(j, "cancelled")
    /\ UNCHANGED <<execVars, sessions, stored, retained, accepting, worker, ctl, drained, task>>

\* The native snapshots are hashed again, the finding is inserted and committed.
Commit(j) ==
    /\ stage[j] = "commit"
    /\ \/ NoFault /\ stored' = stored \cup {j} /\ To(j, "stored") /\ UNCHANGED state
       \/ Fault("snapshot") /\ Ends(j, "failed") /\ UNCHANGED stored
    /\ UNCHANGED <<project, runs, call, cancelled, changes>>
    /\ UNCHANGED <<sessions, retained, accepting, worker, ctl, drained, task>>

Complete(j) ==
    /\ stage[j] = "stored"
    /\ Ends(j, "completed")
    /\ UNCHANGED <<execVars, sessions, stored, retained, accepting, worker, ctl, drained, task>>

Exit(j) ==
    /\ stage[j] = "end" /\ Live(j)
    /\ worker' = [worker EXCEPT ![j] = "dead"]
    /\ UNCHANGED <<execVars, sessions, stored, retained, accepting, state, stage, ctl, drained, task>>

-----------------------------------------------------------------------------
WorkerStep(j) == \/ Begin(j) \/ Prepare(j) \/ PrepareFails(j) \/ Execute(j) \/ Executed(j)
                 \/ OpenTransaction(j) \/ Committing(j) \/ Commit(j) \/ Complete(j) \/ Exit(j)
Adapter(j) == Answer(j) /\ UNCHANGED jobVars
Requests == \/ \E j \in Jobs : Start(j) \/ Cancel(j)
            \/ \E t \in Drains : StartDrain(t)
            \/ ProjectChanges
DrainStep == DrainPending \/ DrainDone \/ DeleteSession

\* Every job has been used and ended, or the core is closed and no worker is left.
Idle == (ctl = "closed" \/ \A j \in Jobs : state[j] # "none") /\ \A j \in Jobs : ~Live(j)
Finished == Idle /\ UNCHANGED vars

Next == \/ Requests \/ DrainStep \/ Finished
        \/ \E j \in Jobs : WorkerStep(j) \/ ExecuteFails(j) \/ Adapter(j)

Spec == Init /\ [][Next]_vars

\* Workers keep running, and a wait whose budget is spent ends; adapters, that is
\* the providers behind them, owe nothing.
Fairness == \A j \in Jobs : WF_vars(WorkerStep(j))
FairSpec == Spec /\ Fairness

-----------------------------------------------------------------------------
(* Correctness.                                                            *)

Stages == {"none", "start", "prepare", "execute", "save", "guard", "commit", "stored", "end"}

\* Type invariant of the jobs, on top of that of their calls.
TypeOK ==
    /\ ExecutionTypeOK
    /\ sessions \subseteq Sessions /\ stored \subseteq Jobs
    /\ retained \in [Kept -> Nat] /\ Kept \subseteq Jobs /\ Cardinality(Kept) <= MaxRetained
    /\ accepting \in BOOLEAN
    /\ state \in [Jobs -> {"none", "queued", "running", "cancelling", "committing"} \cup Terminal]
    /\ worker \in [Jobs -> {"none", "alive", "dead"}] /\ stage \in [Jobs -> Stages]
    /\ ctl \in {"idle", "join", "delete", "closed"}
    /\ drained \subseteq Jobs /\ task \in Drains \cup {None}

\* A run is recorded as a success only if its provider answered in time and was
\* allowed (SuccessIsEarned), and a stored finding rests on such a run and on
\* sessions that exist (rehearsal_analysis_store.py:230-262).
StoredIsAudited ==
    /\ SuccessIsEarned
    /\ \A j \in stored : runs[j] = "success" /\ Of(j) \subseteq sessions

\* A live worker is always in the map, where cancel and drain find it, although
\* jobs are evicted and purged (rehearsal_analysis_jobs.py:124-138, 290-291).
LiveIsTracked == \A j \in Jobs : Live(j) => j \in Kept

\* Once a session is deleted no worker works on it and nothing of it is stored,
\* although a drain gives up on workers that take too long.
DeletedIsClean ==
    \A j \in Jobs : ~(Of(j) \subseteq sessions) => ~Live(j) /\ j \notin stored

\* What a poll reports at the end is true: completed means stored, unless the
\* session was deleted since, and cancelled or failed means nothing was stored.
PollIsTrue ==
    \A j \in Jobs :
        /\ state[j] = "completed" /\ Of(j) \subseteq sessions => j \in stored
        /\ state[j] \in {"cancelled", "failed"} => j \notin stored

\* The jobs keep the promise of CancellableWork.
Phase(j) == IF state[j] = "none" THEN "new"
            ELSE IF state[j] = "completed" \/ stage[j] = "stored" THEN "stored"
            ELSE IF state[j] \in {"cancelled", "failed"} THEN "dropped"
            ELSE IF j \in cancelled THEN "stopping" ELSE "pending"
Promise == INSTANCE CancellableWork WITH Work <- Jobs, phase <- [j \in Jobs |-> Phase(j)]
KeepsPromise == Promise!Spec

\* A job that has begun ends, also when its provider never answers.
JobsSettle == Promise!Settles
=============================================================================
