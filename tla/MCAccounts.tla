------------------------------ MODULE MCAccounts ------------------------------
(***************************************************************************)
(* Accounts for TLC: a behaviour is one of the one way or of the other.    *)
(* Two accounts, three sign-ins, one after the other, and two failures; or *)
(* two generations, that may have the same id one after the other, two     *)
(* runtimes, and one failure of any kind.                                  *)
(***************************************************************************)
EXTENDS Accounts

CONSTANTS a1, a2

MCAccounts == {a1, a2}
MCFaults == FaultKinds
MCCodexFaults ==  \* all kinds
    {"die", "refuse", "slow", "drift", "login", "browser", "tool", "output"}

VARIABLE of  \* which of the two

MCInit == of \in {"plan", "codex"} /\ Init /\ C!Init

MCNext ==
    \/ of = "plan" /\ Next /\ UNCHANGED <<of, codexVars>>
    \/ of = "codex" /\ C!Next /\ UNCHANGED <<of, vars>>

MCSpec == MCInit /\ [][MCNext]_<<of, vars, codexVars>>
=============================================================================
