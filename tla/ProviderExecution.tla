------------------------- MODULE ProviderExecution -------------------------
(***************************************************************************)
(* One bounded call of a reasoning provider on behalf of a worker thread:  *)
(* core/presenter_core/providers/execution.py (execute).                   *)
(*                                                                         *)
(* The caller's thread checks the project's privacy policy, records a      *)
(* provider run, checks again, hands the payload to a thread of its own    *)
(* and waits for it within a budget. A call that is cancelled or late is   *)
(* abandoned: nobody can stop the provider's thread, only stop waiting.    *)
(* The module has no next-state relation of its own: the services that     *)
(* call providers extend it with what they do before and after a call, and *)
(* own the two inputs of a call, the set cancelled (cancellation_check)    *)
(* and the context that before_provider and output_validator compare.      *)
(***************************************************************************)
EXTENDS Naturals, FiniteSets

CONSTANTS
    Calls,         \* calls of execute, each made once
    Remote,        \* the calls whose provider leaves the machine
    MaxChanges,    \* bound: changes of policy, context and project state by requests
    Faults,        \* the kinds of failure that may happen
    MaxFaults      \* bound: failures

ASSUME ExecutionAssumption ==
    /\ Remote \subseteq Calls
    /\ MaxChanges \in Nat /\ MaxFaults \in Nat

VARIABLES
    policy,        \* the project's privacy mode and remote acknowledgement
    context,       \* version of what a prepared request was built from
    runs,          \* the provider_runs row of each call
    place,         \* where the caller's thread is in execute
    asked,         \* policy when the request was built
    prepared,      \* context when the request was built
    provider,      \* the thread that runs provider.generate
    verdict,       \* what execute returned or raised
    cancelled,     \* calls whose cancellation_check answers true
    \* History.
    overdue,       \* calls given up because their budget was spent
    changes, faults

Policies == [mode : {"local", "cloud"}, acked : BOOLEAN]
Outcomes == {"success", "cancelled", "timeout", "error"}

project == <<policy, context>>
call    == <<place, asked, prepared, provider, verdict, overdue>>
execVars == <<project, runs, call, cancelled, changes, faults>>

Fault(k) == k \in Faults /\ faults < MaxFaults /\ faults' = faults + 1
NoFault  == faults' = faults

ExecutionInit ==
    /\ policy \in Policies /\ context = 0
    /\ runs = [c \in Calls |-> "none"]
    /\ place = [c \in Calls |-> "idle"]
    /\ asked = [c \in Calls |-> policy]
    /\ prepared = [c \in Calls |-> 0]
    /\ provider = [c \in Calls |-> "none"]
    /\ verdict = [c \in Calls |-> "none"]
    /\ cancelled = {}
    /\ overdue = {}
    /\ changes = 0 /\ faults = 0

Goto(c, p)   == place' = [place EXCEPT ![c] = p]
Raise(c, v)  == Goto(c, "finish") /\ verdict' = [verdict EXCEPT ![c] = v]
\* Before the run is recorded there is nothing to finish.
RaiseBare(c) == Goto(c, "returned") /\ verdict' = [verdict EXCEPT ![c] = "error"]

\* _validate_authority: the request was built for this mode, and a remote
\* provider needs a cloud mode and the acknowledgement.
Allowed(c)    == c \in Remote => policy.mode = "cloud" /\ policy.acked
Authorized(c) == asked[c].mode = policy.mode /\ Allowed(c)
\* What a caller compares that prepared a request from the project's content.
Current(c)    == asked[c] = policy /\ prepared[c] = context

-----------------------------------------------------------------------------
(* Requests that change the project under a call.                          *)

Change == changes < MaxChanges /\ changes' = changes + 1

\* project.update_settings; an acknowledgement is never withdrawn.
ChangePolicy == \E p \in Policies \ {policy} :
    /\ Change /\ (policy.acked => p.acked)
    /\ policy' = p
    /\ UNCHANGED <<context, runs, call, cancelled, faults>>

\* An edit, a new revision or a reindex: prepared contexts no longer match.
ChangeContext ==
    /\ Change /\ context' = context + 1
    /\ UNCHANGED <<policy, runs, call, cancelled, faults>>

\* project.open takes every run that is still started for one of a dead process.
OpenProject ==
    /\ Change
    /\ runs' = [c \in Calls |-> IF runs[c] = "started" THEN "error" ELSE runs[c]]
    /\ UNCHANGED <<project, call, cancelled, faults>>

-----------------------------------------------------------------------------
(* execute, on the caller's thread.                                        *)

\* The caller has built its request.
Call(c) ==
    /\ place[c] = "idle"
    /\ Goto(c, "authority")
    /\ asked' = [asked EXCEPT ![c] = policy]
    /\ prepared' = [prepared EXCEPT ![c] = context]
    /\ UNCHANGED <<provider, verdict, overdue>>
    /\ UNCHANGED <<project, runs, cancelled, changes, faults>>

\* The policy, the health of the provider and the payload are checked.
Authorize(c) ==
    /\ place[c] = "authority"
    /\ \/ NoFault /\ Authorized(c) /\ Goto(c, "record") /\ UNCHANGED verdict
       \/ NoFault /\ ~Authorized(c) /\ RaiseBare(c)
       \/ Fault("health") /\ Authorized(c) /\ RaiseBare(c)
    /\ UNCHANGED <<project, runs, asked, prepared, provider, overdue, cancelled, changes>>

\* _start_provider_run; Present says whether the session row it refers to exists.
RecordRun(c, Present) ==
    /\ place[c] = "record"
    /\ IF Present THEN /\ runs' = [runs EXCEPT ![c] = "started"]
                       /\ Goto(c, "recheck") /\ UNCHANGED verdict
                  ELSE UNCHANGED runs /\ RaiseBare(c)
    /\ UNCHANGED <<project, asked, prepared, provider, overdue, cancelled, changes, faults>>

\* The project row is read again after the manifest was announced.
Recheck(c) ==
    /\ place[c] = "recheck"
    /\ IF Authorized(c) THEN Goto(c, "before") /\ UNCHANGED verdict ELSE Raise(c, "error")
    /\ UNCHANGED <<project, runs, asked, prepared, provider, overdue, cancelled, changes,
                   faults>>

\* cancellation_check, before_provider, cancellation_check; then the thread starts.
\* Ready is what the caller's before_provider requires.
Invoke(c, Ready) ==
    /\ place[c] = "before"
    /\ IF c \in cancelled THEN Raise(c, "cancelled") /\ UNCHANGED provider
       ELSE IF ~Ready THEN Raise(c, "error") /\ UNCHANGED provider
       ELSE /\ Goto(c, "waiting") /\ UNCHANGED verdict
            /\ provider' = [provider EXCEPT ![c] = "running"]
    /\ UNCHANGED <<project, runs, asked, prepared, overdue, cancelled, changes, faults>>

\* The provider's thread answers or fails at any later time, or never.
Answer(c) == \E a \in {"answered", "failed"} :
    /\ provider[c] = "running"
    /\ provider' = [provider EXCEPT ![c] = a]
    /\ UNCHANGED <<project, runs, place, asked, prepared, verdict, overdue, cancelled,
                   changes, faults>>

\* The wait is over: cancelled, out of time (the answer may have come since the
\* last poll), or answered. The provider's thread runs on after the first two,
\* but what it answers goes to a list nobody reads.
Abandon(c) == provider' = [provider EXCEPT ![c] = "abandoned"]

WaitCancelled(c) ==
    /\ place[c] = "waiting" /\ c \in cancelled
    /\ Raise(c, "cancelled") /\ Abandon(c)
    /\ UNCHANGED <<project, runs, asked, prepared, overdue, cancelled, changes, faults>>

\* MUTANT: a provider that is still at work is waited for.
WaitsForever(c) == provider[c] # "running"

Abandonable(c) == TRUE

WaitExpires(c) ==
    /\ place[c] = "waiting" /\ Abandonable(c)
    /\ overdue' = overdue \cup {c}
    /\ Raise(c, "timeout") /\ Abandon(c)
    /\ UNCHANGED <<project, runs, asked, prepared, cancelled, changes, faults>>

WaitAnswered(c) ==
    /\ place[c] = "waiting" /\ c \notin cancelled
    /\ \/ provider[c] = "answered" /\ Goto(c, "validate") /\ UNCHANGED verdict
       \/ provider[c] = "failed" /\ Raise(c, "error")
    /\ UNCHANGED <<project, runs, asked, prepared, provider, overdue, cancelled, changes,
                   faults>>

\* The output's schema, the caller's output_validator (Valid), and the
\* cancellation once more.
Validate(c, Valid) ==
    /\ place[c] = "validate"
    /\ \/ NoFault /\ Raise(c, IF c \in cancelled THEN "cancelled"
                              ELSE IF Valid THEN "success" ELSE "error")
       \/ Fault("output") /\ Raise(c, "error")
    /\ UNCHANGED <<project, runs, asked, prepared, provider, overdue, cancelled, changes>>

RunStatus(v) == CASE v = "success"            -> "success"
                  [] v = "cancelled"          -> "cancelled"
                  [] v \in {"timeout", "error"} -> "error"

\* _finish_provider_run, in every branch; it changes only a run that is still started.
FinishRun(c) ==
    /\ place[c] = "finish"
    /\ runs' = [runs EXCEPT ![c] = IF @ = "started" THEN RunStatus(verdict[c]) ELSE @]
    /\ Goto(c, "returned")
    /\ UNCHANGED <<project, asked, prepared, provider, verdict, overdue, cancelled, changes,
                   faults>>

\* The update fails: the caller gets the error, the run stays started.
FinishFails(c) ==
    /\ place[c] = "finish" /\ Fault("run")
    /\ verdict' = [verdict EXCEPT ![c] = "error"]
    /\ Goto(c, "returned")
    /\ UNCHANGED <<project, runs, asked, prepared, provider, overdue, cancelled, changes>>

\* The steps of the caller's thread that only read the database, or none.
ExecuteStep(c, Ready, Valid) ==
    \/ Authorize(c) \/ Recheck(c) \/ Invoke(c, Ready)
    \/ WaitCancelled(c) \/ WaitExpires(c) \/ WaitAnswered(c) \/ Validate(c, Valid)

-----------------------------------------------------------------------------
(* Correctness.                                                            *)

Places == {"idle", "authority", "record", "recheck", "before", "waiting", "validate", "finish",
           "returned"}

\* The types of a call's fields, of the run rows and of the project.
ExecutionTypeOK ==
    /\ policy \in Policies /\ context \in 0..MaxChanges
    /\ runs \in [Calls -> {"none", "started", "success", "cancelled", "error"}]
    /\ place \in [Calls -> Places]
    /\ asked \in [Calls -> Policies] /\ prepared \in [Calls -> 0..MaxChanges]
    /\ provider \in [Calls -> {"none", "running", "answered", "failed", "abandoned"}]
    /\ verdict \in [Calls -> Outcomes \cup {"none"}]
    /\ cancelled \subseteq Calls
    /\ overdue \subseteq Calls
    /\ changes \in 0..MaxChanges /\ faults \in 0..MaxFaults

\* A run recorded as a success was answered in time by a provider its project
\* allowed, and not one the caller had given up: docs/PROVIDERS.md:267, "late
\* results cannot become successful runs".
SuccessIsEarned ==
    \A c \in Calls : runs[c] = "success" =>
        /\ c \notin overdue /\ provider[c] = "answered"
        /\ c \in Remote => asked[c].mode = "cloud" /\ asked[c].acked

=============================================================================
