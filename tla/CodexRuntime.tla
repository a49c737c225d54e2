----------------------------- MODULE CodexRuntime -----------------------------
(***************************************************************************)
(* Reasoning through the Codex App Server                                  *)
(* (src/core/presenter_core/providers/codex.py): the runtime processes the *)
(* provider owns, signing in to one and out of it, and the generations     *)
(* that run turns on it, each on a thread of its own, given up by their    *)
(* callers (_invoke_with_budget of providers/execution.py).                *)
(*                                                                         *)
(* _lock and _generation are the only locks; close takes neither. An rpc   *)
(* is one step, which ends within its 5 s with an answer or without; what  *)
(* is done with an answer that others may overtake is a step of its own.   *)
(* A runtime process is external: it may die, refuse, be slow, or show     *)
(* what its containment forbids.                                           *)
(***************************************************************************)
EXTENDS Naturals, FiniteSets

CONSTANTS
    None,
    MaxIds,        \* bound: what id(invocation) may be, free again once nobody holds it
    MaxGens,       \* bound: reasoning requests, numbered as they are made
    MaxServers,    \* bound: runtimes started
    Faults,        \* the kinds of failure that may happen
    MaxFaults      \* bound: failures

FaultKinds == {"die", "refuse", "slow", "drift", "login", "browser", "tool", "output"}

CodexAssumption ==
    /\ None \notin Nat /\ MaxGens \in Nat /\ MaxIds \in Nat
    /\ MaxServers \in Nat /\ MaxFaults \in Nat
    /\ Faults \subseteq FaultKinds

Gens     == 1..MaxGens
Control  == 0
Threads  == Gens \cup {Control}
Runtimes == 1..MaxServers
Ids      == 1..MaxIds

VARIABLES
    \* CodexReasoningProvider.
    server,        \* _server, 0 when there is none
    signedIn, login, error,
    flags,         \* _cancellations
    lock, generation,
    \* The runtimes: how many were started, which are alive, and which close() has ended.
    started, up, closed,
    account, loginFailed,  \* of the current runtime: its account, and a login it reports failed
    queue,
    \* The threads: where they are, and the answer each has in hand.
    pc, reply,
    \* A generation: its key, local server, whether it has a thread there, and its turn.
    id, on, threads, turn,
    executor,      \* the caller that waits for it
    \* History.
    answer,        \* the turn whose messages a generation returned
    unanswered,    \* generations whose turn/start was not answered
    faults

provider == <<server, signedIn, login, error>>
runtimes == <<started, up, closed>>
world    == <<account, loginFailed>>
local    == <<id, on, threads, answer, unanswered>>
vars == <<provider, flags, lock, generation, runtimes, world, queue, pc, reply,
          local, turn, executor, faults>>

Fault(k) == k \in Faults /\ faults < MaxFaults /\ faults' = faults + 1
NoFault  == faults' = faults

Init ==
    /\ server = 0 /\ signedIn = FALSE /\ login = FALSE /\ error = FALSE
    /\ flags = [k \in Ids |-> "absent"] /\ lock = None /\ generation = None
    /\ started = 0 /\ up = {} /\ closed = {}
    /\ account = "out" /\ loginFailed = FALSE
    /\ queue = [s \in Runtimes |-> {}]
    /\ pc = [t \in Threads |-> IF t = Control THEN "idle" ELSE "new"]
    /\ reply = [t \in Threads |-> "none"]
    /\ id = [g \in Gens |-> 0] /\ on = [g \in Gens |-> 0] /\ threads = {}
    /\ turn = [g \in Gens |-> "none"]
    /\ executor = [g \in Gens |-> "idle"]
    /\ answer = [g \in Gens |-> None] /\ unanswered = {} /\ faults = 0

-----------------------------------------------------------------------------
(* What threads share.                                                     *)

GoTo(t, l) == pc' = [pc EXCEPT ![t] = l]
Cancelled(g) == flags[id[g]] = "set"

Replies == {"ok", "failed", "isolation"}

\* MUTANT: a call to a runtime that is gone waits for its answer.
OutcomesOfTheLiving(s) == IF s \in up THEN Replies ELSE {}

\* What rpc may come to: answered, or refused or not answered in time, or the containment is
\* in doubt, as it is when the runtime is closed or its reader has stopped.
Outcomes(s) == IF s \in up THEN Replies ELSE {"isolation"}

\* rpc; a runtime that is alive answers, unless something fails.
Rpc(s, r) ==
    /\ r \in Outcomes(s)
    /\ \/ r = "ok" /\ NoFault
       \/ r = "failed" /\ (Fault("refuse") \/ Fault("slow"))
       \/ r = "isolation" /\ IF s \in up THEN Fault("drift") ELSE NoFault

\* MUTANT: the provider forgets the runtime, and leaves ending it to the collector.
CloseForgets ==
    /\ flags' = [k \in Ids |-> IF flags[k] = "absent" THEN "absent" ELSE "set"]
    /\ signedIn' = FALSE /\ login' = FALSE /\ server' = 0
    /\ UNCHANGED <<started, up, closed>>

\* close: every generation is cancelled, and the runtime goes.
Close ==
    /\ flags' = [k \in Ids |-> IF flags[k] = "absent" THEN "absent" ELSE "set"]
    /\ signedIn' = FALSE /\ login' = FALSE /\ server' = 0
    /\ up' = up \ {server} /\ closed' = closed \cup ({server} \ {0})
    /\ UNCHANGED started

State(e, s, l) == IF e THEN "error" ELSE IF s THEN "signed_in"
                  ELSE IF l THEN "signing_in" ELSE "signed_out"

\* auth_status, under the lock, before the answer to account/read and with it in hand.
MayRead(t) == pc[t] \in {"opening", "reading", "auth"} /\ lock = t /\ reply[t] = "none"
HasRead(t) == pc[t] \in {"opening", "reading", "auth"} /\ reply[t] # "none"

\* auth_status, up to the answer to account/read; without a runtime nothing is read.
ReadAccount(t) ==
    /\ MayRead(t)
    /\ \/ /\ server = 0 /\ NoFault
          /\ reply' = [reply EXCEPT ![t] = "unread"] /\ UNCHANGED <<login, error, loginFailed>>
       \/ /\ server # 0
          /\ \E r \in Replies : Rpc(server, r)
                /\ reply' = [reply EXCEPT ![t] = IF r = "ok" THEN account ELSE r]
          /\ LET refused == loginFailed /\ login IN
                /\ error' = (error \/ refused) /\ login' = (login /\ ~refused)
          /\ loginFailed' = FALSE
    /\ UNCHANGED <<server, signedIn, flags, lock, generation, runtimes, account, queue, pc,
                   local, turn, executor>>

\* auth_status, with the answer in hand.
UseAccount(t) ==
    /\ HasRead(t) /\ reply' = [reply EXCEPT ![t] = "none"]
    /\ CASE reply[t] = "unread" -> UNCHANGED <<signedIn, login, error>>
         [] reply[t] = "in" -> signedIn' = TRUE /\ login' = FALSE /\ UNCHANGED error
         [] reply[t] \in {"out", "pending"} -> signedIn' = FALSE /\ UNCHANGED <<login, error>>
         [] OTHER -> signedIn' = FALSE /\ error' = TRUE /\ UNCHANGED login

-----------------------------------------------------------------------------
(* The control thread: the requests about the account, one at a time.      *)

Call ==
    pc[Control] = "idle" /\ lock = None /\ lock' = Control

\* sign_in: a runtime is started if there is none; one that cannot start changes nothing.
SignIn ==
    /\ Call /\ GoTo(Control, "opening") /\ error' = FALSE
    /\ \/ /\ server = 0 /\ started < MaxServers
          /\ started' = started + 1 /\ server' = started' /\ up' = up \cup {server'}
          /\ account' = "out" /\ loginFailed' = FALSE
       \/ server # 0 /\ UNCHANGED <<started, server, up, world>>
    /\ NoFault
    /\ UNCHANGED <<signedIn, login, flags, generation, closed, queue, reply, local,
                   turn, executor>>

\* sign_in goes on: signed in already, or under way, or the login is started.
Opened ==
    /\ pc[Control] = "opening" /\ UseAccount(Control) /\ NoFault
    /\ GoTo(Control, IF State(error', signedIn', login') \in {"signed_in", "signing_in"}
                       THEN "reading" ELSE "login")
    /\ UNCHANGED <<server, flags, lock, generation, runtimes, world, queue, local,
                   turn, executor>>

\* inspect and account/login/start; the runtime may have gone since it was read.
StartLogin ==
    /\ pc[Control] = "login"
    /\ \/ /\ server = 0 /\ NoFault /\ GoTo(Control, "idle") /\ lock' = None
          /\ UNCHANGED <<provider, flags, runtimes, account>>
       \/ /\ server # 0 /\ Rpc(server, "ok") /\ GoTo(Control, "browser")
          /\ account' = "pending"
          /\ UNCHANGED <<provider, flags, runtimes, lock>>
       \/ \E r \in Replies \ {"ok"} :
             /\ server # 0 /\ Rpc(server, r) /\ error' = TRUE /\ Close
             /\ GoTo(Control, "idle") /\ lock' = None /\ UNCHANGED account
    /\ UNCHANGED <<generation, loginFailed, queue, reply, local, turn, executor>>

\* The rest of sign_in: the login is remembered and the browser opened.
OpenBrowser ==
    /\ pc[Control] = "browser"
    /\ \/ /\ NoFault /\ login' = TRUE /\ GoTo(Control, "reading")
          /\ UNCHANGED <<server, signedIn, error, flags, runtimes, lock>>
       \/ /\ Fault("browser") /\ error' = TRUE /\ Close
          /\ GoTo(Control, "idle") /\ lock' = None
    /\ UNCHANGED <<generation, world, queue, reply, local, turn, executor>>

\* auth_status as a request.
Status ==
    /\ Call /\ GoTo(Control, "reading") /\ NoFault
    /\ UNCHANGED <<provider, flags, generation, runtimes, world, queue, reply, local, turn,
                   executor>>

Returned ==
    /\ pc[Control] = "reading" /\ UseAccount(Control) /\ NoFault
    /\ GoTo(Control, "idle") /\ lock' = None
    /\ UNCHANGED <<server, flags, generation, runtimes, world, queue, local, turn,
                   executor>>

\* sign_out asks the runtime to log out, ...
SignOut ==
    /\ Call /\ GoTo(Control, "closing")
    /\ \E r \in Replies :
          /\ IF server = 0 THEN r = "ok" /\ NoFault ELSE Rpc(server, r)
          /\ reply' = [reply EXCEPT ![Control] = r]
          /\ account' = IF r = "ok" THEN "out" ELSE account
    /\ UNCHANGED <<provider, flags, generation, runtimes, loginFailed, queue, local, turn,
                   executor>>

\* ... and ends it in any case.
SignedOut ==
    /\ pc[Control] = "closing" /\ Close /\ NoFault
    /\ error' = (error /\ reply[Control] # "ok")
    /\ reply' = [reply EXCEPT ![Control] = "none"]
    /\ GoTo(Control, "idle") /\ lock' = None
    /\ UNCHANGED <<generation, world, queue, local, turn, executor>>

\* close at the end of the core, without the lock.
Shutdown ==
    /\ pc[Control] = "idle" /\ GoTo(Control, "quit") /\ Close /\ NoFault
    /\ UNCHANGED <<error, lock, generation, world, queue, reply, local, turn, executor>>

\* health, from any thread.
Health ==
    /\ server # 0 /\ server \notin up /\ (signedIn \/ ~error)
    /\ signedIn' = FALSE /\ error' = TRUE /\ NoFault
    /\ UNCHANGED <<server, login, flags, lock, generation, runtimes, world, queue, pc, reply,
                   local, turn, executor>>

-----------------------------------------------------------------------------
(* A generation, and the caller that waits for it.                         *)

Held(k) == \E g \in Gens : id[g] = k /\ (executor[g] = "waiting" \/ pc[g] # "done")

\* _invoke_with_budget: the thread is started, and its caller waits.
Begin(g) ==
    /\ pc[g] = "new" /\ \A h \in Gens : h < g => pc[h] # "new"
    /\ GoTo(g, "queued") /\ executor' = [executor EXCEPT ![g] = "waiting"]
    /\ \E k \in Ids :
          /\ ~Held(k) /\ \A j \in Ids : j < k => Held(j)  \* memory is used again at once
          /\ id' = [id EXCEPT ![g] = k]
          /\ flags' = [flags EXCEPT ![k] = IF @ = "absent" THEN "clear" ELSE @]
    /\ NoFault
    /\ UNCHANGED <<provider, lock, generation, runtimes, world, queue, reply, on,
                   threads, turn, answer, unanswered>>

\* The caller was cancelled or its deadline has passed, whatever the thread has come to.
Abandon(g) ==
    /\ executor[g] = "waiting" /\ executor' = [executor EXCEPT ![g] = "left"]
    /\ flags' = [flags EXCEPT ![id[g]] = "set"] /\ NoFault
    /\ UNCHANGED <<provider, lock, generation, runtimes, world, queue, pc, reply, local,
                   turn>>

\* The caller takes what the thread came to.
Collect(g) ==
    /\ executor[g] = "waiting" /\ pc[g] = "done" /\ NoFault
    /\ executor' = [executor EXCEPT ![g] = "left"]
    /\ UNCHANGED <<provider, flags, lock, generation, runtimes, world, queue, pc, reply,
                   local, turn>>

frame == <<runtimes, world, executor>>

\* The generation's turn has come, and a first look at its flag.
Acquire(g) ==
    /\ pc[g] = "queued" /\ generation = None /\ generation' = g /\ NoFault
    /\ GoTo(g, IF Cancelled(g) THEN "leaving" ELSE "check")
    /\ UNCHANGED <<provider, flags, lock, queue, reply, local, turn, frame>>

\* "Codex is busy": the budget passed behind another generation.
Busy(g) ==
    /\ pc[g] = "queued" /\ generation # None /\ GoTo(g, "done")
    /\ flags' = [flags EXCEPT ![id[g]] = "absent"] /\ NoFault
    /\ UNCHANGED <<provider, lock, generation, queue, reply, id, on, threads, answer,
                   unanswered, turn, frame>>

\* auth_status waits for its lock.
Lock(g) ==
    /\ pc[g] = "check" /\ lock = None /\ lock' = g /\ GoTo(g, "auth") /\ NoFault
    /\ UNCHANGED <<provider, flags, generation, queue, reply, local, turn, frame>>

\* auth_status returns.
Authorised(g) ==
    /\ pc[g] = "auth" /\ UseAccount(g) /\ lock' = None /\ NoFault
    /\ \/ /\ State(error', signedIn', login') = "signed_in"
          /\ GoTo(g, "adopt")
       \/ /\ State(error', signedIn', login') # "signed_in"
          /\ GoTo(g, "leaving")
    /\ UNCHANGED <<server, flags, generation, queue, id, on, threads, answer, unanswered,
                   turn, frame>>

\* The generation takes the runtime that is there now.
Adopt(g) ==
    /\ pc[g] = "adopt" /\ NoFault
    /\ \/ server = 0 /\ GoTo(g, "leaving") /\ UNCHANGED on
       \/ server # 0 /\ on' = [on EXCEPT ![g] = server] /\ GoTo(g, "thread")
    /\ UNCHANGED <<provider, flags, lock, generation, queue, reply, id, threads, answer,
                   unanswered, turn, frame>>

\* How an rpc of a generation fails: doubt about the containment ends the runtime.
Fails(g, r) == GoTo(g, IF r = "isolation" THEN "purging" ELSE "leaving")

\* new_thread: inspect and thread/start.
NewThread(g) ==
    /\ pc[g] = "thread"
    /\ \/ /\ Rpc(on[g], "ok") /\ GoTo(g, "ready") /\ threads' = threads \cup {g}
       \/ /\ \E r \in Replies \ {"ok"} : Rpc(on[g], r) /\ Fails(g, r)
          /\ UNCHANGED threads
    /\ UNCHANGED <<provider, flags, lock, generation, queue, reply, id, on, answer,
                   unanswered, turn, frame>>

\* The second look at the flag and at the budget, and turn/start. A turn whose start was
\* not answered in time runs, or does not.
StartTurn(g) ==
    /\ pc[g] = "ready"
    /\ \/ /\ NoFault /\ GoTo(g, "leaving") /\ UNCHANGED <<turn, unanswered>>
       \/ /\ ~Cancelled(g)
          /\ \/ /\ Rpc(on[g], "ok") /\ turn' = [turn EXCEPT ![g] = "running"]
                /\ GoTo(g, "turn") /\ UNCHANGED unanswered
             \/ /\ on[g] \in up /\ Fault("refuse") /\ Fails(g, "failed")
                /\ UNCHANGED <<turn, unanswered>>
             \/ /\ on[g] \in up /\ Fault("slow") /\ Fails(g, "failed")
                /\ unanswered' = unanswered \cup {g}
                /\ \E n \in {"none", "running"} : turn' = [turn EXCEPT ![g] = n]
             \/ /\ Rpc(on[g], "isolation") /\ Fails(g, "isolation")
                /\ unanswered' = unanswered \cup {g}
                /\ \E n \in {"none", "running"} :
                      turn' = [turn EXCEPT ![g] = IF on[g] \in up THEN n ELSE "none"]
    /\ UNCHANGED <<provider, flags, lock, generation, queue, reply, id, on, threads, answer,
                   frame>>

\* MUTANT: whatever comes next in the queue is taken for this turn's.
HearsAny(g) ==
    /\ pc[g] = "turn" /\ ~Cancelled(g) /\ on[g] \in up
    /\ \E e \in queue[on[g]] :
          /\ queue' = [queue EXCEPT ![on[g]] = @ \ {e}]
          /\ \/ e.what = "tool" /\ NoFault /\ Fails(g, "isolation") /\ UNCHANGED answer
             \/ /\ e.what = "done" /\ NoFault /\ GoTo(g, "leaving")
                /\ answer' = [answer EXCEPT ![g] = e.of]
    /\ UNCHANGED <<provider, flags, lock, generation, reply, id, on, threads, unanswered,
                   turn, frame>>

\* One message of the queue: another thread's is dropped, an item nobody asked for puts the
\* containment in doubt, and the end of the turn is the end of the generation.
Hear(g) ==
    /\ pc[g] = "turn" /\ ~Cancelled(g) /\ on[g] \in up
    /\ \E e \in queue[on[g]] :
          /\ queue' = [queue EXCEPT ![on[g]] = @ \ {e}]
          /\ \/ e.of # g /\ NoFault /\ UNCHANGED <<pc, answer>>
             \/ /\ e.of = g /\ e.what = "tool" /\ NoFault
                /\ Fails(g, "isolation") /\ UNCHANGED answer
             \/ /\ e.of = g /\ e.what = "done" /\ NoFault
                /\ GoTo(g, "leaving")
                /\ answer' = [answer EXCEPT ![g] = e.of]
             \/ /\ e.of = g /\ e.what = "done" /\ Fault("output")
                /\ GoTo(g, "leaving") /\ UNCHANGED answer
    /\ UNCHANGED <<provider, flags, lock, generation, reply, id, on, threads, unanswered,
                   turn, frame>>

\* MUTANT: a turn that exceeds its budget is left to the runtime.
EndsWithoutInterrupt(g) ==
    /\ pc[g] = "turn" /\ on[g] \in up /\ GoTo(g, "leaving") /\ NoFault
    /\ UNCHANGED <<provider, flags, lock, generation, queue, reply, local, turn, frame>>

\* turn/interrupt, once the generation is cancelled or its budget has passed.
Interrupt(g) ==
    /\ pc[g] = "turn"
    /\ \E r \in Replies :
          /\ Rpc(on[g], r)
          /\ turn' = IF r # "isolation" /\ turn[g] = "running"
                     THEN [turn EXCEPT ![g] = "told"] ELSE turn
          /\ Fails(g, r)
    /\ UNCHANGED <<provider, flags, lock, generation, queue, reply, id, on, threads, answer,
                   unanswered, frame>>

\* A containment failure disables the provider's runtime, whichever it is by now ...
Purge(g) ==
    /\ pc[g] = "purging" /\ error' = TRUE /\ GoTo(g, "purged") /\ NoFault
    /\ UNCHANGED <<server, signedIn, login, flags, lock, generation, queue, reply, local, turn,
                   frame>>

\* ... without the lock.
Purged(g) ==
    /\ pc[g] = "purged" /\ Close /\ GoTo(g, "leaving") /\ NoFault
    /\ UNCHANGED <<error, lock, generation, world, queue, reply, local, turn, executor>>

\* The generation has a thread to unsubscribe from, on a runtime nobody closed.
Subscribed(g) == g \in threads /\ on[g] \notin closed

\* The finally of generate: thread/unsubscribe, or the end of the runtime that fails it.
Leave(g) ==
    /\ pc[g] = "leaving" /\ GoTo(g, "done")
    /\ \/ ~Subscribed(g) /\ NoFault /\ UNCHANGED <<up, closed>>
       \/ /\ Subscribed(g)
          /\ \/ Rpc(on[g], "ok") /\ UNCHANGED <<up, closed>>
             \/ /\ \E r \in Replies \ {"ok"} : Rpc(on[g], r)
                /\ up' = up \ {on[g]} /\ closed' = closed \cup {on[g]}
    /\ generation' = None /\ flags' = [flags EXCEPT ![id[g]] = "absent"]
    /\ UNCHANGED <<provider, lock, started, world, queue, reply, local, turn, executor>>

-----------------------------------------------------------------------------
(* A runtime.                                                              *)

\* Its process ends, or writes what its reader does not accept.
Die ==
    /\ \E s \in up : up' = up \ {s}
    /\ Fault("die")
    /\ UNCHANGED <<provider, flags, lock, generation, started, closed, world, queue, pc, reply,
                   local, turn, executor>>

\* The user is done with the browser.
FinishLogin ==
    /\ account = "pending" /\ server \in up
    /\ \/ account' = "in" /\ NoFault /\ UNCHANGED loginFailed
       \/ account' = "out" /\ Fault("login") /\ loginFailed' = TRUE
    /\ UNCHANGED <<provider, flags, lock, generation, runtimes, queue, pc, reply, local,
                   turn, executor>>

\* A turn ends, interrupted or not, or does what it may not do.
EndTurn(g) ==
    /\ turn[g] \in {"running", "told"} /\ on[g] \in up
    /\ \E w \in {"done", "tool"} :
          /\ IF w = "tool" THEN Fault("tool") ELSE NoFault
          /\ queue' = [queue EXCEPT ![on[g]] = @ \cup {[of |-> g, what |-> w]}]
    /\ turn' = [turn EXCEPT ![g] = "over"]
    /\ UNCHANGED <<provider, flags, lock, generation, runtimes, world, pc, reply, local,
                   executor>>

-----------------------------------------------------------------------------
GenStep(g) ==
    \/ Acquire(g) \/ Busy(g) \/ ReadAccount(g) \/ Authorised(g)
    \/ Adopt(g) \/ NewThread(g) \/ StartTurn(g) \/ Hear(g) \/ Interrupt(g) \/ Purge(g)
    \/ Purged(g) \/ Leave(g)

ControlStep == ReadAccount(Control) \/ Opened \/ StartLogin \/ OpenBrowser \/ Returned
               \/ SignedOut

Next ==
    \/ SignIn \/ Status \/ SignOut \/ Shutdown \/ Health \/ ControlStep
    \/ \E g \in Gens : Begin(g) \/ Abandon(g) \/ Collect(g) \/ Lock(g) \/ GenStep(g) \/ EndTurn(g)
    \/ Die \/ FinishLogin

Spec == Init /\ [][Next]_vars

-----------------------------------------------------------------------------
(* Properties.                                                             *)

TypeOK ==
    /\ server \in 0..MaxServers /\ signedIn \in BOOLEAN /\ login \in BOOLEAN
    /\ error \in BOOLEAN
    /\ flags \in [Ids -> {"absent", "clear", "set"}]
    /\ lock \in Threads \cup {None} /\ generation \in Gens \cup {None}
    /\ started \in 0..MaxServers /\ up \subseteq 1..started /\ closed \subseteq 1..started
    /\ account \in {"out", "pending", "in"} /\ loginFailed \in BOOLEAN
    /\ pc \in [Threads -> {"idle", "opening", "login", "browser", "reading", "closing", "quit",
                           "new", "queued", "check", "auth", "adopt", "thread",
                           "ready", "turn", "purging", "purged", "leaving", "done"}]
    /\ id \in [Gens -> 0..MaxIds] /\ on \in [Gens -> 0..MaxServers]
    /\ turn \in [Gens -> {"none", "running", "told", "over"}]

\* No runtime outlives its place in the provider: the one that is alive is _server, however
\* sign-in, sign-out, shutdown and the failures of generations meet (441-486, 570-591).
OneRuntime == up \subseteq {server}

\* A generation returns what its own turn said, although what earlier generations left
\* behind is in the same queue (532-565).
AnswerIsOwn ==
    \A g \in Gens : answer[g] # None => answer[g] = g /\ turn[g] = "over"

\* A turn does not outlive its generation on a runtime that lives, unless the runtime was
\* told to stop it or never said that it had begun (515-569).
TurnsStop ==
    \A g \in Gens \ unanswered :
        pc[g] \in {"leaving", "done"} /\ on[g] \in up => turn[g] # "running"

\* A thread can take a step of its own: the guards of ControlStep and of GenStep, an rpc
\* being one that comes to something.
Moves(t) ==
    \/ HasRead(t)
    \/ MayRead(t) /\ (server = 0 \/ Outcomes(server) # {})
    \/ /\ t = Control
       /\ \/ pc[t] = "login" /\ (server = 0 \/ Outcomes(server) # {})
          \/ pc[t] \in {"browser", "closing"}
    \/ /\ t \in Gens
       /\ \/ pc[t] = "check" /\ lock = None
          \/ pc[t] \in {"thread", "turn"} /\ Outcomes(on[t]) # {}
          \/ pc[t] = "leaving" /\ (~Subscribed(t) \/ Outcomes(on[t]) # {})
          \/ pc[t] \in {"queued", "adopt", "ready", "purging", "purged"}

\* Nobody waits for what does not come: whatever becomes of the runtime, a request or a
\* generation that is under way can go on, or waits for the lock of one that can; and the
\* generation that others queue behind has not ended. Every step but the reading of a queue,
\* which ends, brings a thread nearer to its return (241-267, 410-591).
ThreadsGoOn ==
    /\ \A t \in Threads :
          pc[t] \notin {"idle", "quit", "new", "done"} =>
              \/ Moves(t)
              \/ pc[t] = "check" /\ Moves(lock)
    /\ generation # None => pc[generation] \notin {"new", "queued", "done"}

=============================================================================
