------------------------------- MODULE Accounts -------------------------------
(***************************************************************************)
(* The two ways of using a ChatGPT account: signing in with a plan         *)
(* (PlanSignIn), or through the Codex runtime (CodexRuntime). They share   *)
(* no state: each has its own provider, its own credentials and its own    *)
(* failures.                                                               *)
(***************************************************************************)
EXTENDS PlanSignIn

CONSTANTS MaxGens, MaxIds, MaxServers, CodexFaults, MaxCodexFaults  \* of CodexRuntime

VARIABLES
    \* Of CodexRuntime.
    server, signedIn, login, error, flags, lock, generation, started, up, closed,
    account, loginFailed, queue, pc, reply, id, on, threads, turn, executor,
    answer, unanswered, codexFaults

codexVars == <<server, signedIn, login, error, flags, lock, generation, started, up, closed,
               account, loginFailed, queue, pc, reply, id, on, threads, turn, executor,
               answer, unanswered, codexFaults>>

C == INSTANCE CodexRuntime
        WITH faults <- codexFaults, Faults <- CodexFaults, MaxFaults <- MaxCodexFaults
ASSUME CodexAssumed == C!CodexAssumption

\* No runtime outlives its place in the provider.
OneRuntime == C!OneRuntime

\* A generation returns what its own turn said.
AnswerIsOwn == C!AnswerIsOwn

\* A turn does not outlive its generation, unless the runtime was told to stop it.
TurnsStop == C!TurnsStop

\* Nobody waits for what does not come: a thread under way can go on, or waits for one that can.
ThreadsGoOn == C!ThreadsGoOn
=============================================================================
