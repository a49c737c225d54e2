----------------------- MODULE ProviderExecutionProofs -----------------------
(***************************************************************************)
(* Facts about one call of a provider, for the proofs about the services   *)
(* that make such calls: every step of ProviderExecution keeps the types   *)
(* and what makes a recorded success an earned one (CallsOK).              *)
(***************************************************************************)
EXTENDS ProviderExecution, TLAPS

\* What a call has established by the time it is at a place: the policy allowed it
\* when it was built, the wait is over only with an answer, a success was in time.
Approved(c) == c \in Remote => asked[c].mode = "cloud" /\ asked[c].acked

Earned(c) == c \notin overdue /\ provider[c] = "answered" /\ Approved(c)

CallsOK ==
    \A c \in Calls :
        /\ place[c] # "idle" => Approved(c)
        /\ place[c] # "returned" /\ place[c] # "finish" => c \notin overdue
        /\ place[c] = "finish" => verdict[c] \in Outcomes
        /\ place[c] = "validate" => provider[c] = "answered"
        /\ place[c] = "finish" /\ verdict[c] = "success" => Earned(c)
        /\ runs[c] = "success" => Earned(c) /\ place[c] = "returned"

ExecInv == ExecutionTypeOK /\ CallsOK /\ context <= changes

USE DEF project, call, execVars

\* The steps of the caller's thread within execute, and the late thread.
CallStep(c, Ready, Valid, Present) ==
    ExecuteStep(c, Ready, Valid) \/ RecordRun(c, Present) \/ FinishRun(c) \/ FinishFails(c)

-----------------------------------------------------------------------------
\* A fault is counted within its bound, and no fault is none.
LEMMA FaultBounded ==
    ASSUME faults \in 0..MaxFaults, NoFault \/ \E k \in Faults : Fault(k)
    PROVE  faults' \in 0..MaxFaults
BY ExecutionAssumption DEF NoFault, Fault

\* The initial state of every call.
LEMMA ExecutionStarts == ExecutionInit => ExecInv
<1> SUFFICES ASSUME ExecutionInit PROVE ExecInv
  OBVIOUS
<1>1. ExecutionTypeOK
  BY ExecutionAssumption DEF ExecutionInit, ExecutionTypeOK, Places
<1>2. CallsOK
  BY DEF ExecutionInit, CallsOK
<1> QED
  BY <1>1, <1>2 DEF ExecInv, ExecutionInit

\* The status a run ends with is one, and a success only for a success.
LEMMA StatusOfRun ==
    ASSUME NEW v \in Outcomes
    PROVE  /\ RunStatus(v) \in {"success", "cancelled", "error"}
           /\ RunStatus(v) = "success" => v = "success"
BY DEF RunStatus, Outcomes

\* Requests that change the project keep the types, and calls are not theirs.
LEMMA ChangesKeep ==
    ASSUME ExecInv, ChangePolicy \/ ChangeContext \/ OpenProject
    PROVE  ExecInv'
<1> USE ExecutionAssumption DEF ExecInv, Change
<1>1. CASE ChangePolicy
  <2>1. ExecutionTypeOK'
    BY <1>1 DEF ChangePolicy, ExecutionTypeOK
  <2>2. CallsOK'
    BY <1>1 DEF ChangePolicy, CallsOK, Earned, Approved
  <2> QED
    BY <1>1, <2>1, <2>2 DEF ChangePolicy, ExecutionTypeOK
<1>2. CASE ChangeContext
  <2>1. ExecutionTypeOK' /\ context' <= changes'
    BY <1>2 DEF ChangeContext, ExecutionTypeOK
  <2>2. CallsOK'
    BY <1>2 DEF ChangeContext, CallsOK, Earned, Approved
  <2> QED
    BY <2>1, <2>2
<1>3. CASE OpenProject
  <2>1. ExecutionTypeOK'
    BY <1>3 DEF OpenProject, ExecutionTypeOK
  <2>2. CallsOK'
    BY <1>3 DEF OpenProject, CallsOK, Earned, Approved
  <2> QED
    BY <1>3, <2>1, <2>2 DEF OpenProject, ExecutionTypeOK
<1> QED
  BY <1>1, <1>2, <1>3

\* A call is built under a policy that allows it.
LEMMA BuiltCall ==
    ASSUME ExecInv, NEW c \in Calls, Allowed(c), Call(c)
    PROVE  ExecInv'
<1> USE DEF ExecInv, Call, Goto
<1>1. ExecutionTypeOK'
  BY DEF ExecutionTypeOK, Places
<1>2. CallsOK'
  BY DEF ExecutionTypeOK, CallsOK, Earned, Approved, Allowed
<1> QED
  BY <1>1, <1>2

\* Every step of execute keeps what a call has established, whatever the caller's
\* checks say.
LEMMA CallKeeps ==
    ASSUME ExecInv, NEW c \in Calls, NEW Ready, NEW Valid, NEW Present,
           CallStep(c, Ready, Valid, Present)
    PROVE  ExecInv'
<1> USE ExecutionAssumption DEF ExecInv, Goto, Raise, RaiseBare, Fault, NoFault, Abandon
<1>1. CASE Authorize(c)
  <2>1. ExecutionTypeOK'
    BY <1>1 DEF Authorize, ExecutionTypeOK, Places, Outcomes
  <2>2. CallsOK'
    BY <1>1 DEF Authorize, ExecutionTypeOK, CallsOK, Earned, Approved, Outcomes
  <2> QED
    BY <1>1, <2>1, <2>2 DEF Authorize
<1>2. CASE RecordRun(c, Present)
  <2>1. ExecutionTypeOK'
    BY <1>2 DEF RecordRun, ExecutionTypeOK, Places, Outcomes
  <2>2. CallsOK'
    BY <1>2 DEF RecordRun, ExecutionTypeOK, CallsOK, Earned, Approved, Outcomes
  <2> QED
    BY <1>2, <2>1, <2>2 DEF RecordRun
<1>3. CASE Recheck(c)
  <2>1. ExecutionTypeOK'
    BY <1>3 DEF Recheck, ExecutionTypeOK, Places, Outcomes
  <2>2. CallsOK'
    BY <1>3 DEF Recheck, ExecutionTypeOK, CallsOK, Earned, Approved, Outcomes
  <2> QED
    BY <1>3, <2>1, <2>2 DEF Recheck
<1>4. CASE Invoke(c, Ready)
  <2>1. ExecutionTypeOK'
    BY <1>4 DEF Invoke, ExecutionTypeOK, Places, Outcomes
  <2>2. CallsOK'
    BY <1>4 DEF Invoke, ExecutionTypeOK, CallsOK, Earned, Approved, Outcomes
  <2> QED
    BY <1>4, <2>1, <2>2 DEF Invoke
<1>5. CASE WaitCancelled(c)
  <2>1. ExecutionTypeOK'
    BY <1>5 DEF WaitCancelled, ExecutionTypeOK, Places, Outcomes
  <2>2. CallsOK'
    BY <1>5 DEF WaitCancelled, ExecutionTypeOK, CallsOK, Earned, Approved, Outcomes
  <2> QED
    BY <1>5, <2>1, <2>2 DEF WaitCancelled
<1>6. CASE WaitExpires(c)
  <2>1. ExecutionTypeOK'
    BY <1>6 DEF WaitExpires, ExecutionTypeOK, Places, Outcomes
  <2>2. CallsOK'
    BY <1>6 DEF WaitExpires, ExecutionTypeOK, CallsOK, Earned, Approved, Outcomes
  <2> QED
    BY <1>6, <2>1, <2>2 DEF WaitExpires
<1>7. CASE WaitAnswered(c)
  <2>1. ExecutionTypeOK'
    BY <1>7 DEF WaitAnswered, ExecutionTypeOK, Places, Outcomes
  <2>2. CallsOK'
    BY <1>7 DEF WaitAnswered, ExecutionTypeOK, CallsOK, Earned, Approved, Outcomes
  <2> QED
    BY <1>7, <2>1, <2>2 DEF WaitAnswered
<1>8. CASE Validate(c, Valid)
  <2>1. ExecutionTypeOK'
    BY <1>8 DEF Validate, ExecutionTypeOK, Places, Outcomes
  <2>2. CallsOK'
    BY <1>8 DEF Validate, ExecutionTypeOK, CallsOK, Earned, Approved, Outcomes
  <2> QED
    BY <1>8, <2>1, <2>2 DEF Validate
<1>9. CASE FinishRun(c)
  <2>0. RunStatus(verdict[c]) \in {"success", "cancelled", "error"}
        /\ (RunStatus(verdict[c]) = "success" => verdict[c] = "success")
    BY <1>9, StatusOfRun DEF FinishRun, CallsOK
  <2> DEFINE status == RunStatus(verdict[c])
  <2> HIDE DEF status
  <2>1. runs' = [runs EXCEPT ![c] = IF @ = "started" THEN status ELSE @]
    BY <1>9 DEF FinishRun, status
  <2>2. ExecutionTypeOK'
    BY <1>9, <2>0, <2>1 DEF FinishRun, ExecutionTypeOK, Places, status
  <2>3. CallsOK'
    BY <1>9, <2>0, <2>1 DEF FinishRun, ExecutionTypeOK, CallsOK, Earned, Approved, status
  <2> QED
    BY <1>9, <2>2, <2>3 DEF FinishRun
<1>10. CASE FinishFails(c)
  <2>1. ExecutionTypeOK'
    BY <1>10 DEF FinishFails, ExecutionTypeOK, Places, Outcomes
  <2>2. CallsOK'
    BY <1>10 DEF FinishFails, ExecutionTypeOK, CallsOK, Earned, Approved, Outcomes
  <2> QED
    BY <1>10, <2>1, <2>2 DEF FinishFails
<1> QED
  BY <1>1, <1>2, <1>3, <1>4, <1>5, <1>6, <1>7, <1>8, <1>9, <1>10 DEF CallStep, ExecuteStep

\* The provider's thread changes nothing a call is judged by once it is given up.
LEMMA AnswerKeeps ==
    ASSUME ExecInv, NEW c \in Calls, Answer(c)
    PROVE  ExecInv'
<1> USE DEF ExecInv, Answer
<1>1. ExecutionTypeOK'
  BY DEF ExecutionTypeOK
<1>2. CallsOK'
  BY DEF ExecutionTypeOK, CallsOK, Earned, Approved
<1> QED
  BY <1>1, <1>2

\* Cancelling calls, and spending a fault elsewhere, is no matter of a call.
LEMMA CallsUntouched ==
    ASSUME ExecInv, UNCHANGED <<policy, context, runs, place, asked, prepared, provider,
                                verdict, overdue, changes>>,
           cancelled' \subseteq Calls, faults' \in 0..MaxFaults
    PROVE  ExecInv'
<1>1. ExecutionTypeOK'
  BY DEF ExecInv, ExecutionTypeOK
<1>2. CallsOK'
  BY DEF ExecInv, CallsOK, Earned, Approved
<1> QED
  BY <1>1, <1>2 DEF ExecInv

\* What the invariant is for.
LEMMA EarnedSuccess == ExecInv => SuccessIsEarned
BY DEF ExecInv, CallsOK, Earned, Approved, SuccessIsEarned
=============================================================================
