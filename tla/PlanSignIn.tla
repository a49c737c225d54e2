------------------------------ MODULE PlanSignIn ------------------------------
(***************************************************************************)
(* Signing in with a ChatGPT plan                                          *)
(* (src/core/presenter_core/providers/chatgpt_plan_auth.py): the vault of  *)
(* accounts and their tokens, the one sign-in that may be pending, served  *)
(* by a thread of its own, and the requests of the control thread, which   *)
(* may cancel it at any time: cancel, sign-out, reset, the end of the      *)
(* core. A refresh asks OpenAI without the lock.                           *)
(*                                                                         *)
(* What happens under _lock is one step, the HTTP requests made under it   *)
(* included. Tokens are the grant they belong to: OpenAI issues one per    *)
(* authorisation that is exchanged, and revokes it when asked to.          *)
(***************************************************************************)
EXTENDS Naturals

CONSTANTS
    None,
    Accounts,      \* the accounts the vault has room for
    MaxAttempts,   \* bound: sign-ins begun
    Faults,        \* the kinds of failure that may happen
    MaxFaults      \* bound: failures

FaultKinds == {"authorise", "exchange", "claims", "join", "refresh", "revoke", "write", "delete"}

ASSUME PlanAssumption ==
    /\ None \notin Accounts
    /\ MaxAttempts \in Nat /\ MaxFaults \in Nat /\ Faults \subseteq FaultKinds

Attempts == 1..MaxAttempts
Grants   == 0..MaxAttempts  \* 0 for no tokens; an attempt is granted once at most

VARIABLES
    \* The vault as it is stored: whether there is one, its accounts, and their tokens.
    present, known, tokens, active,
    \* ChatGPTPlanAuthService: _pending and its target account, _cancel_pending, whether
    \* _error_code is set.
    pending, target, cancel, failed,
    \* The thread of the sign-in, and the grant it has in hand.
    thread, hand,
    \* The control thread, and the account and the grant of a refresh.
    control, refresh,
    \* OpenAI.
    revoked,
    \* History.
    attempts,
    cancelled,     \* attempts cancelled before their tokens were stored
    stored,        \* attempts whose tokens were stored
    out,           \* accounts signed out since they last had tokens from a sign-in
    cleared,       \* reset, and no sign-in has begun since
    faults

vault   == <<present, known, tokens, active>>
signin  == <<pending, target, cancel, failed>>
history == <<attempts, cancelled, stored, out, cleared>>
vars == <<vault, signin, thread, hand, control, refresh, revoked, history, faults>>

Fault(k) == k \in Faults /\ faults < MaxFaults /\ faults' = faults + 1
NoFault  == faults' = faults

Connected(a) == a \in known /\ tokens[a] # 0
Connections  == {tokens[a] : a \in {b \in known : tokens[b] # 0}}

Init ==
    /\ present = FALSE /\ known = {} /\ tokens = [a \in Accounts |-> 0] /\ active = None
    /\ pending = 0 /\ target = None /\ cancel = FALSE /\ failed = FALSE
    /\ thread = "none" /\ hand = 0
    /\ control = "idle" /\ refresh = [account |-> None, grant |-> 0]
    /\ revoked = {} /\ attempts = 0 /\ cancelled = {} /\ stored = {} /\ out = {}
    /\ cleared = FALSE /\ faults = 0

-----------------------------------------------------------------------------
(* The requests of the control thread.                                     *)

Idle == control = "idle"

\* _cancel_pending is set; it counts for an attempt that has not stored its tokens.
SetCancel ==
    /\ cancel' = TRUE
    /\ cancelled' = IF pending = 0 THEN cancelled ELSE cancelled \cup ({pending} \ stored)
    /\ UNCHANGED <<pending, target, failed>>

\* sign_in, for a new account or a saved one; refused, with the status for an answer, while
\* a sign-in is pending, even one that was cancelled.
SignIn(a) ==
    /\ Idle /\ pending = 0 /\ attempts < MaxAttempts
    /\ IF a = None THEN known # Accounts ELSE a \in known
    /\ present' = TRUE
    /\ attempts' = attempts + 1 /\ pending' = attempts' /\ target' = a
    /\ cancel' = FALSE /\ failed' = FALSE /\ thread' = "waiting" /\ cleared' = FALSE
    /\ NoFault
    /\ UNCHANGED <<known, tokens, active, hand, control, refresh, revoked, cancelled, stored, out>>

\* select_account.
Select(a) ==
    /\ Idle /\ pending = 0 /\ a \in known /\ active' = a /\ failed' = FALSE /\ NoFault
    /\ UNCHANGED <<present, known, tokens, pending, target, cancel, thread, hand, control,
                   refresh, revoked, history>>

\* cancel_sign_in.
Cancel ==
    /\ Idle /\ pending # 0 /\ SetCancel /\ NoFault
    /\ UNCHANGED <<vault, thread, hand, control, refresh, revoked, attempts, stored, out,
                   cleared>>

\* sign_out, clear_for_reset and close cancel what is pending and join its thread.
Begin(what) ==
    /\ Idle /\ control' = what /\ NoFault
    /\ IF pending # 0 \/ what = "resetting" THEN SetCancel ELSE UNCHANGED <<signin, cancelled>>
    /\ UNCHANGED <<vault, thread, hand, refresh, revoked, attempts, stored, out, cleared>>

\* The join timed out: an attempt that is still pending refuses the request.
Refused ==
    /\ control \in {"signing out", "resetting"} /\ pending # 0 /\ Fault("join")
    /\ control' = "idle"
    /\ UNCHANGED <<vault, signin, thread, hand, refresh, revoked, history>>

\* The end of sign_out, without an active account that is connected ...
NothingToSignOut ==
    /\ control = "signing out" /\ control' = "idle" /\ thread = "none" /\ NoFault
    /\ ~Connected(active) /\ failed' = FALSE
    /\ UNCHANGED <<vault, pending, target, cancel, thread, hand, refresh, revoked, history>>

\* ... and with one: the grant is revoked, as far as OpenAI confirms it, and its tokens are
\* dropped, or kept although they were revoked when the vault cannot be written.
SignOut ==
    /\ control = "signing out" /\ control' = "idle" /\ thread = "none" /\ Connected(active)
    /\ \E confirmed, written \in BOOLEAN :
          /\ \/ confirmed /\ written /\ NoFault
             \/ ~confirmed /\ written /\ Fault("revoke")
             \/ confirmed /\ ~written /\ Fault("write")
          /\ revoked' = IF confirmed THEN revoked \cup {tokens[active]} ELSE revoked
          /\ IF written
             THEN /\ tokens' = [tokens EXCEPT ![active] = 0] /\ out' = out \cup {active}
                  /\ failed' = ~confirmed
             ELSE UNCHANGED <<tokens, out, failed>>
    /\ UNCHANGED <<present, known, active, pending, target, cancel, thread, hand, refresh,
                   attempts, cancelled, stored, cleared>>

\* MUTANT: a reset drops the pending sign-in with all the rest, and does not wait for it.
ResetForgets ==
    /\ control = "resetting" /\ control' = "idle" /\ NoFault
    /\ present' = FALSE /\ known' = {} /\ tokens' = [a \in Accounts |-> 0] /\ active' = None
    /\ pending' = 0 /\ target' = None /\ cancel' = FALSE /\ failed' = FALSE /\ cleared' = TRUE
    /\ UNCHANGED <<thread, hand, refresh, revoked, attempts, cancelled, stored, out>>

\* The end of clear_for_reset: every grant is revoked, if OpenAI confirms it, and the vault
\* deleted, if the store can.
Reset ==
    /\ control = "resetting" /\ control' = "idle" /\ thread = "none"
    /\ \E gone \in SUBSET Connections, removed \in BOOLEAN :
          /\ \/ gone = Connections /\ removed /\ NoFault
             \/ gone # Connections /\ removed /\ Fault("revoke")
             \/ gone = Connections /\ ~removed /\ Fault("delete")
          /\ revoked' = revoked \cup gone
          /\ IF removed
             THEN /\ present' = FALSE /\ known' = {} /\ tokens' = [a \in Accounts |-> 0]
                  /\ active' = None /\ cleared' = TRUE /\ failed' = FALSE
             ELSE UNCHANGED <<vault, cleared, failed>>
    /\ UNCHANGED <<pending, target, cancel, thread, hand, refresh, attempts, cancelled, stored, out>>

\* close has joined, for 8 s at most; the core ends.
Quit ==
    /\ control = "closing" /\ control' = "quit"
    /\ \/ thread = "none" /\ NoFault
       \/ thread # "none" /\ Fault("join")
    /\ UNCHANGED <<vault, signin, thread, hand, refresh, revoked, history>>

\* access_token or model_options, of an account whose access token has expired: the refresh
\* token is read under the lock and sent without it ...
Refresh ==
    /\ Idle /\ Connected(active) /\ control' = "refreshing" /\ NoFault
    /\ refresh' = [account |-> active, grant |-> tokens[active]]
    /\ UNCHANGED <<vault, signin, thread, hand, revoked, history>>

\* ... and the answer is stored if the account is still connected.
Refreshed ==
    /\ control = "refreshing" /\ control' = "idle"
    /\ \/ /\ refresh.grant \notin revoked /\ NoFault
          /\ tokens' = IF Connected(refresh.account)
                       THEN [tokens EXCEPT ![refresh.account] = refresh.grant] ELSE tokens
       \/ /\ (refresh.grant \in revoked /\ NoFault) \/ Fault("refresh") \/ Fault("write")
          /\ UNCHANGED tokens
    /\ refresh' = [account |-> None, grant |-> 0]
    /\ UNCHANGED <<present, known, active, signin, thread, hand, revoked, history>>

-----------------------------------------------------------------------------
(* The thread of a sign-in.                                                *)

others == <<control, refresh, revoked>>
ThreadGoes(l) == thread' = l

\* _serve_and_finish waits: for the browser's callback, a cancel, or the deadline.
Wait ==
    /\ thread = "waiting"
    /\ \/ ~cancel /\ ThreadGoes("exchanging") /\ NoFault
       \/ cancel /\ ThreadGoes("failing") /\ NoFault
       \/ ~cancel /\ ThreadGoes("failing") /\ Fault("authorise")
    /\ UNCHANGED <<vault, signin, hand, others, history>>

\* _complete_authorization exchanges the code for tokens, ...
Exchange ==
    /\ thread = "exchanging"
    /\ \/ cancel /\ ThreadGoes("failing") /\ NoFault /\ UNCHANGED hand
       \/ ~cancel /\ ThreadGoes("checking") /\ NoFault /\ hand' = pending
       \/ ~cancel /\ ThreadGoes("failing") /\ Fault("exchange") /\ UNCHANGED hand
    /\ UNCHANGED <<vault, signin, others, history>>

\* ... checks whom they are for and what they allow, ...
Check ==
    /\ thread = "checking"
    /\ \/ cancel /\ ThreadGoes("failing") /\ NoFault
       \/ ~cancel /\ ThreadGoes("storing") /\ NoFault
       \/ ~cancel /\ ThreadGoes("failing") /\ Fault("claims")
    /\ UNCHANGED <<vault, signin, hand, others, history>>

\* The account the tokens are for.
Slot(a) == IF target = None THEN a \notin known ELSE a = target

\* MUTANT: the flag is not looked at again under the lock.
StoreAnyway ==
    /\ thread = "storing" /\ ThreadGoes("stored") /\ NoFault
    /\ \E a \in Accounts :
          /\ Slot(a) /\ known' = known \cup {a} /\ active' = a /\ out' = out \ {a}
          /\ tokens' = [tokens EXCEPT ![a] = hand]
    /\ present' = TRUE /\ stored' = stored \cup {pending}
    /\ UNCHANGED <<signin, hand, others, attempts, cancelled, cleared>>

\* ... and stores them, unless the attempt was cancelled up to now.
Store ==
    /\ thread = "storing"
    /\ \/ /\ ~cancel /\ ThreadGoes("stored") /\ NoFault
          /\ \E a \in Accounts :
                /\ Slot(a) /\ known' = known \cup {a} /\ active' = a /\ out' = out \ {a}
                /\ tokens' = [tokens EXCEPT ![a] = hand]
          /\ present' = TRUE /\ stored' = stored \cup {pending}
       \/ /\ \/ cancel /\ NoFault
             \/ ~cancel /\ Fault("write")
          /\ ThreadGoes("failing") /\ UNCHANGED <<vault, stored, out>>
    /\ UNCHANGED <<signin, hand, others, attempts, cancelled, cleared>>

\* The outcome is noted, ...
Note ==
    /\ thread \in {"stored", "failing"} /\ failed' = (thread = "failing")
    /\ ThreadGoes("finishing") /\ NoFault
    /\ UNCHANGED <<vault, pending, target, cancel, hand, others, history>>

\* ... and the attempt is over, its cancellation with it.
Finish ==
    /\ thread = "finishing" /\ ThreadGoes("none") /\ hand' = 0 /\ NoFault
    /\ pending' = 0 /\ target' = None /\ cancel' = FALSE
    /\ UNCHANGED <<vault, failed, others, history>>

-----------------------------------------------------------------------------
ThreadStep == Wait \/ Exchange \/ Check \/ Store \/ Note \/ Finish

Next ==
    \/ \E a \in Accounts \cup {None} : SignIn(a)
    \/ \E a \in Accounts : Select(a)
    \/ Cancel \/ Refused \/ NothingToSignOut \/ SignOut \/ Reset \/ Quit \/ Refresh \/ Refreshed
    \/ \E what \in {"signing out", "resetting", "closing"} : Begin(what)
    \/ ThreadStep

Spec == Init /\ [][Next]_vars

-----------------------------------------------------------------------------
(* Properties.                                                             *)

TypeOK ==
    /\ present \in BOOLEAN /\ known \subseteq Accounts /\ tokens \in [Accounts -> Grants]
    /\ active \in Accounts \cup {None}
    /\ pending \in 0..MaxAttempts /\ target \in Accounts \cup {None}
    /\ cancel \in BOOLEAN /\ failed \in BOOLEAN
    /\ thread \in {"none", "waiting", "exchanging", "checking", "storing", "stored", "failing",
                   "finishing"}
    /\ control \in {"idle", "signing out", "resetting", "closing", "refreshing", "quit"}
    /\ hand \in Grants /\ revoked \subseteq Grants

\* A sign-in that was cancelled before its tokens were in the vault never puts them there,
\* whichever request cancelled it and however far it had come (248-292, 359-423, 485-574).
CancelStoresNothing == cancelled \cap stored = {}

\* An account that was signed out, and every account after a reset, has no tokens until a
\* sign-in begun since then gives it some, although a sign-in or a refresh was under way
\* when it was asked for (260-292, 359-397, 536-574, 640-698).
SignedOutStaysOut ==
    /\ cleared => ~present /\ \A a \in Accounts : tokens[a] = 0
    /\ \A a \in out : tokens[a] = 0

=============================================================================
