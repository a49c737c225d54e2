------------------------------ MODULE Deletion ------------------------------
(***************************************************************************)
(* Deleting a project and resetting all local data:                        *)
(* core/presenter_core/storage/tombstones.py and the deletion part of      *)
(* core/presenter_core/storage/service.py.                                 *)
(*                                                                         *)
(* Files and the app database share no transaction. A deletion moves each  *)
(* vault into a tombstone directory, removes the registry rows and records *)
(* the tombstone in a journal row in one transaction, and destroys the     *)
(* vaults afterwards. Every action below is one durable write; any of them *)
(* may fail, and the process may die between any two. What a dead process  *)
(* left is reconciled when the next one starts, and by the next deletion.  *)
(***************************************************************************)
EXTENDS Naturals, FiniteSets

CONSTANTS
    Projects,      \* project ids, each created once
    Tombstones,    \* operation ids, each used once
    None,
    Stored,        \* the credentials stored at first: API keys, a ChatGPT plan vault
    Faults,        \* the kinds of failure the environment may inject
    MaxFaults      \* bound: failures injected

FaultKinds == {"io", "db", "manifest", "keyring", "owner", "crash"}
Credentials == {"key", "plan"}

ASSUME DeletionAssumption ==
    /\ None \notin Tombstones \cup Projects
    /\ "none" \notin Tombstones /\ "live" \notin Tombstones
    /\ Stored \subseteq Credentials /\ Faults \subseteq FaultKinds /\ MaxFaults \in Nat

VARIABLES
    \* Durable: directories, tombstone manifests, app.db and the credential stores.
    vault,         \* where each project's vault is: none, live, or a tombstone
    tomb,          \* absent, bare (not readable as an operation), staging, committed
    kind, members, credWanted, credDone,   \* the rest of each manifest
    row, journal, stored,
    \* The request thread.
    pc, task, cur, todo, pending, completed, recovering,
    \* History.
    born, used,    \* ids of projects and tombstones that have been taken
    deleted,       \* projects whose removal was committed
    confirmed,     \* projects reported as deleted
    faults

files    == <<vault, tomb, kind, members, credWanted, credDone>>
appDb    == <<row, journal>>
manifest == <<kind, members, credWanted, credDone>>
pass     == <<todo, pending, completed, recovering>>
history  == <<born, used, deleted, confirmed>>
vars == <<files, appDb, stored, pc, task, cur, pass, history, faults>>

Startup  == [kind |-> "startup", target |-> None, plan |-> FALSE]
Fault(k) == k \in Faults /\ faults < MaxFaults /\ faults' = faults + 1
NoFault  == faults' = faults

Init ==
    /\ vault = [p \in Projects |-> "none"]
    /\ tomb = [t \in Tombstones |-> "absent"]
    /\ kind = [t \in Tombstones |-> "project"]
    /\ members = [t \in Tombstones |-> {}]
    /\ credWanted = [t \in Tombstones |-> FALSE]
    /\ credDone = [t \in Tombstones |-> FALSE]
    /\ row = [p \in Projects |-> FALSE] /\ journal = {} /\ stored = Stored
    /\ pc = "down" /\ task = Startup /\ cur = None
    /\ todo = {} /\ pending = {} /\ completed = {} /\ recovering = FALSE
    /\ born = {} /\ used = {} /\ deleted = {} /\ confirmed = {} /\ faults = 0

-----------------------------------------------------------------------------
(* Requests.                                                                *)

StartProcess ==
    /\ pc = "down" /\ pc' = "scan" /\ task' = Startup
    /\ UNCHANGED <<files, appDb, stored, cur, pass, history, faults>>

\* project.create makes the vault first and registers it last; a failure of the
\* registration removes the vault again.
CreateVault(p) ==
    /\ pc = "idle" /\ p \notin born
    /\ born' = born \cup {p} /\ vault' = [vault EXCEPT ![p] = "live"]
    /\ pc' = "register" /\ task' = [kind |-> "create", target |-> p, plan |-> FALSE]
    /\ UNCHANGED <<tomb, manifest, appDb, stored, cur, pass, used, deleted, confirmed,
                   faults>>

RegisterProject ==
    /\ pc = "register" /\ pc' = "idle"
    /\ \/ row' = [row EXCEPT ![task.target] = TRUE] /\ NoFault /\ UNCHANGED vault
       \/ /\ Fault("db") /\ UNCHANGED row
          /\ vault' = [vault EXCEPT ![task.target] = "none"]
    /\ UNCHANGED <<tomb, manifest, journal, stored, task, cur, pass, history>>

RequestDelete(p) ==
    /\ pc = "idle" /\ pc' = "scan"
    /\ task' = [kind |-> "delete", target |-> p, plan |-> FALSE]
    /\ UNCHANGED <<files, appDb, stored, cur, pass, history, faults>>

\* MUTANT: a reset does not plan for the stored credential.
PlansNothing ==
    /\ pc = "idle" /\ pc' = "scan"
    /\ task' = [kind |-> "reset", target |-> None, plan |-> FALSE]
    /\ UNCHANGED <<files, appDb, stored, cur, pass, history, faults>>

\* The reset probes the stores before it reconciles and stages anything.
RequestReset ==
    /\ pc = "idle" /\ pc' = "scan"
    /\ task' = [kind |-> "reset", target |-> None, plan |-> stored # {}]
    /\ UNCHANGED <<files, appDb, stored, cur, pass, history, faults>>

-----------------------------------------------------------------------------
(* reconcile_deletions.                                                     *)

Present == {t \in Tombstones : tomb[t] # "absent"}

\* list_operations and the journal check fail closed: a process that cannot read
\* them exits, a request is refused.
Unreadable == (\E t \in Present : tomb[t] = "bare") \/ ~(journal \subseteq Present)

Scan ==
    /\ pc = "scan"
    /\ IF Unreadable
       THEN /\ pc' = IF task.kind = "startup" THEN "down" ELSE "idle"
            /\ UNCHANGED pass
       ELSE /\ pc' = "pick" /\ recovering' = TRUE
            /\ todo' = Present /\ pending' = {} /\ completed' = {}
    /\ UNCHANGED <<files, appDb, stored, task, cur, history, faults>>

NeedsCredential(t) == kind[t] = "reset" /\ credWanted[t] /\ ~credDone[t]
AfterMark(t) == IF NeedsCredential(t) THEN "credential" ELSE "clean"

\* MUTANT: recovery looks at the manifest alone.
StagingMeansUncommitted(t) == tomb[t] = "staging"

Uncommitted(t) == tomb[t] = "staging" /\ t \notin journal

Reconcile(t) ==
    /\ pc = "pick" /\ t \in todo
    /\ cur' = t
    /\ pc' = IF Uncommitted(t) THEN "rollback"
             ELSE IF tomb[t] = "staging" THEN "mark" ELSE AfterMark(t)
    /\ UNCHANGED <<files, appDb, stored, task, pass, history, faults>>

Recovered == pending = {}

\* What is left to do once every operation was tried.
Wanted == \/ task.kind = "reset"
          \/ task.kind = "delete" /\ row[task.target]

\* The recovery pass is over: an operation still pending refuses the request. A
\* project that is gone is reported deleted if this very pass completed it. The
\* barrier that stops a project's owners may refuse its deletion.
PassEnds ==
    /\ pc = "pick" /\ todo = {} /\ recovering' = FALSE
    /\ \/ /\ ~(Recovered /\ Wanted) /\ pc' = "idle" /\ NoFault
          /\ confirmed' = IF Recovered /\ task.kind = "delete"
                          THEN confirmed \cup (completed \cap {task.target})
                          ELSE confirmed
       \/ Recovered /\ Wanted /\ pc' = "create" /\ NoFault /\ UNCHANGED confirmed
       \/ /\ Recovered /\ Wanted /\ task.kind = "delete" /\ Fault("owner")
          /\ pc' = "idle" /\ UNCHANGED confirmed
    /\ UNCHANGED <<files, appDb, stored, task, cur, todo, pending, completed, born, used,
                   deleted>>

\* An error: recovery records it and takes the next operation, a request raises it.
Fails == IF recovering
         THEN /\ pc' = "pick" /\ todo' = todo \ {cur} /\ pending' = pending \cup {cur}
              /\ UNCHANGED <<completed, recovering>>
         ELSE pc' = "idle" /\ UNCHANGED pass

-----------------------------------------------------------------------------
(* A deletion up to its commit.                                             *)

\* The operation's directory, which has no manifest yet. A reset takes every vault
\* directory, registered or not. With no operation id left the request ends here.
CreateDirectory ==
    /\ pc = "create"
    /\ \/ \E t \in Tombstones \ used :
            /\ cur' = t /\ used' = used \cup {t}
            /\ tomb' = [tomb EXCEPT ![t] = "bare"]
            /\ kind' = [kind EXCEPT ![t] =
                          IF task.kind = "reset" THEN "reset" ELSE "project"]
            /\ members' = [members EXCEPT ![t] =
                             IF task.kind = "reset" THEN {p \in Projects : vault[p] = "live"}
                             ELSE {task.target}]
            /\ credWanted' = [credWanted EXCEPT ![t] = task.plan]
            /\ credDone' = [credDone EXCEPT ![t] = FALSE]
            /\ pc' = "manifest" /\ NoFault
       \/ /\ (Tombstones = used /\ NoFault) \/ Fault("io")
          /\ pc' = "idle" /\ UNCHANGED <<cur, used, tomb, manifest>>
    /\ UNCHANGED <<vault, appDb, stored, task, pass, born, deleted, confirmed>>

WriteManifest ==
    /\ pc = "manifest"
    /\ \/ tomb' = [tomb EXCEPT ![cur] = "staging"] /\ pc' = "stage" /\ NoFault
       \/ Fault("manifest") /\ pc' = "idle" /\ UNCHANGED tomb
    /\ UNCHANGED <<vault, manifest, appDb, stored, task, cur, pass, history>>

ToStage == {p \in members[cur] : vault[p] = "live"}

StageVault ==
    /\ pc = "stage"
    /\ \/ \E p \in ToStage : vault' = [vault EXCEPT ![p] = cur] /\ pc' = pc /\ NoFault
       \/ ToStage = {} /\ pc' = "commit" /\ NoFault /\ UNCHANGED vault
       \/ ToStage # {} /\ Fault("io") /\ pc' = "rollback" /\ UNCHANGED vault
    /\ UNCHANGED <<tomb, manifest, appDb, stored, task, cur, pass, history>>

\* The rows a deletion removes: a reset empties the registry.
Removed == IF kind[cur] = "reset" THEN Projects ELSE members[cur]

\* One transaction of the app database.
CommitRemoval ==
    /\ pc = "commit"
    /\ \/ /\ row' = [p \in Projects |-> row[p] /\ p \notin Removed]
          /\ journal' = IF kind[cur] = "reset" THEN {cur} ELSE journal \cup {cur}
          /\ deleted' = deleted \cup members[cur]
          /\ pc' = "mark" /\ NoFault
       \/ Fault("db") /\ pc' = "rollback" /\ UNCHANGED <<appDb, deleted>>
    /\ UNCHANGED <<files, stored, task, cur, pass, born, used, confirmed>>

-----------------------------------------------------------------------------
(* After the commit.                                                        *)

MarkCommitted ==
    /\ pc = "mark"
    /\ \/ /\ tomb' = [tomb EXCEPT ![cur] = "committed"] /\ pc' = AfterMark(cur)
          /\ NoFault /\ UNCHANGED pass
       \/ Fault("manifest") /\ Fails /\ UNCHANGED tomb
    /\ UNCHANGED <<vault, manifest, appDb, stored, task, cur, history>>

\* credentials_removed: only an API key counts as removed, and only when this very
\* attempt found it.
Counted == "key" \in stored

\* Removes every stored credential; a removal that fails may have taken some. A
\* project deletion that recovers a reset has no access to the stores.
RemoveCredential ==
    /\ pc = "credential"
    /\ LET allowed == ~(recovering /\ task.kind = "delete")
       IN  \/ /\ allowed /\ stored' = {} /\ NoFault
              /\ IF Counted THEN pc' = "credMark" /\ UNCHANGED pass ELSE Fails
           \/ ~allowed /\ Fails /\ NoFault /\ UNCHANGED stored
           \/ /\ allowed /\ stored # {} /\ Fault("keyring") /\ Fails
              /\ stored' \in SUBSET stored
    /\ UNCHANGED <<files, appDb, task, cur, history>>

MarkCredential ==
    /\ pc = "credMark"
    /\ \/ /\ credDone' = [credDone EXCEPT ![cur] = TRUE] /\ pc' = "clean"
          /\ NoFault /\ UNCHANGED pass
       \/ Fault("manifest") /\ Fails /\ UNCHANGED credDone
    /\ UNCHANGED <<vault, tomb, kind, members, credWanted, appDb, stored, task, cur,
                   history>>

Staged == {p \in members[cur] : vault[p] = cur}

\* A vault that is back in its place stops the cleanup.
Competing == \E p \in members[cur] : vault[p] = "live"

\* MUTANT: rmtree ignores its errors.
IgnoresErrors ==
    /\ pc = "clean"
    /\ \/ /\ ~Competing /\ pc' = pc /\ NoFault /\ UNCHANGED pass
          /\ \E p \in Staged : vault' = [vault EXCEPT ![p] = "none"]
       \/ /\ ~Competing /\ pc' = "unjournal" /\ UNCHANGED <<vault, pass>>
          /\ IF Staged = {} THEN NoFault ELSE Fault("io")
    /\ UNCHANGED <<tomb, manifest, appDb, stored, task, cur, history>>

\* Destroys the staged vaults, one rmtree each, a reset's logs and model cache first.
CleanVault ==
    /\ pc = "clean"
    /\ \/ /\ ~Competing /\ pc' = pc /\ NoFault /\ UNCHANGED pass
          /\ \E p \in Staged : vault' = [vault EXCEPT ![p] = "none"]
       \/ /\ ~Competing /\ Staged = {} /\ pc' = "unjournal"
          /\ NoFault /\ UNCHANGED <<vault, pass>>
       \/ /\ \/ Competing /\ NoFault
             \/ (Staged # {} \/ kind[cur] = "reset") /\ Fault("io")
          /\ Fails /\ UNCHANGED vault
    /\ UNCHANGED <<tomb, manifest, appDb, stored, task, cur, history>>

\* MUTANT: a journal row that is gone already is an error.
RequiresJournalRow ==
    /\ pc = "unjournal"
    /\ \/ /\ cur \in journal /\ journal' = journal \ {cur}
          /\ pc' = "finalize" /\ NoFault /\ UNCHANGED pass
       \/ cur \notin journal /\ NoFault /\ Fails /\ UNCHANGED journal
       \/ Fault("db") /\ Fails /\ UNCHANGED journal
    /\ UNCHANGED <<files, row, stored, task, cur, history>>

DropJournal ==
    /\ pc = "unjournal"
    /\ \/ journal' = journal \ {cur} /\ pc' = "finalize" /\ NoFault /\ UNCHANGED pass
       \/ Fault("db") /\ Fails /\ UNCHANGED journal
    /\ UNCHANGED <<files, row, stored, task, cur, history>>

-----------------------------------------------------------------------------
(* Undoing, and removing the tombstone.                                     *)

\* MUTANT: rollback forgets the vaults it moved.
ForgetsVaults ==
    /\ pc = "rollback"
    /\ pc' = "undone" /\ NoFault /\ UNCHANGED <<vault, pass>>
    /\ UNCHANGED <<tomb, manifest, appDb, stored, task, cur, history>>

RestoreVault ==
    /\ pc = "rollback"
    /\ \/ /\ \E p \in Staged : vault' = [vault EXCEPT ![p] = "live"]
          /\ pc' = pc /\ NoFault /\ UNCHANGED pass
       \/ Staged = {} /\ pc' = "undone" /\ NoFault /\ UNCHANGED <<vault, pass>>
       \/ Staged # {} /\ Fault("io") /\ Fails /\ UNCHANGED vault
    /\ UNCHANGED <<tomb, manifest, appDb, stored, task, cur, history>>

\* _remove_operation takes a reset's projects directory and the manifest away; what
\* is left is a directory that list_operations refuses.
RemoveManifest ==
    /\ pc \in {"undone", "finalize"}
    /\ \/ /\ tomb' = [tomb EXCEPT ![cur] = "bare"]
          /\ pc' = IF pc = "undone" THEN "rmUndone" ELSE "rmFinal"
          /\ NoFault /\ UNCHANGED pass
       \/ Fault("io") /\ Fails /\ UNCHANGED tomb
    /\ UNCHANGED <<vault, manifest, appDb, stored, task, cur, history>>

\* The directory itself; then the request, or the recovery pass, goes on.
RemoveDirectory ==
    /\ pc \in {"rmUndone", "rmFinal"}
    /\ \/ /\ tomb' = [tomb EXCEPT ![cur] = "absent"] /\ NoFault
          /\ pc' = IF recovering THEN "pick" ELSE "idle"
          /\ todo' = todo \ {cur} /\ UNCHANGED <<pending, recovering>>
          /\ completed' = IF recovering /\ pc = "rmFinal" /\ kind[cur] = "project"
                          THEN completed \cup members[cur] ELSE completed
          /\ confirmed' = IF ~recovering /\ pc = "rmFinal"
                          THEN confirmed \cup members[cur] ELSE confirmed
       \/ Fault("io") /\ Fails /\ UNCHANGED <<tomb, confirmed>>
    /\ UNCHANGED <<vault, manifest, appDb, stored, task, cur, born, used, deleted>>

-----------------------------------------------------------------------------
\* The process dies; only files, the app database and the stores remain.
Crash ==
    /\ pc # "down" /\ Fault("crash")
    /\ pc' = "down" /\ task' = Startup /\ cur' = None
    /\ todo' = {} /\ pending' = {} /\ completed' = {} /\ recovering' = FALSE
    /\ UNCHANGED <<files, appDb, stored, history>>

Request == RequestReset \/ \E p \in Projects : CreateVault(p) \/ RequestDelete(p)

Step ==
    \/ RegisterProject \/ Scan \/ (\E t \in Tombstones : Reconcile(t)) \/ PassEnds
    \/ CreateDirectory \/ WriteManifest \/ StageVault \/ CommitRemoval
    \/ MarkCommitted \/ RemoveCredential \/ MarkCredential \/ CleanVault \/ DropJournal
    \/ RestoreVault \/ RemoveManifest \/ RemoveDirectory

Next == StartProcess \/ Request \/ Step \/ Crash

Spec == Init /\ [][Next]_vars

\* A process runs its request to the end, a dead one is started again, and a user
\* who wants the data gone asks again.
Fairness == WF_vars(Step) /\ WF_vars(StartProcess) /\ SF_vars(RequestReset)
FairSpec == Spec /\ Fairness

-----------------------------------------------------------------------------
\* The steps of one operation, and of the request around it.
Working == {"manifest", "stage", "commit", "mark", "credential", "credMark", "clean",
            "unjournal", "finalize", "rollback", "undone", "rmUndone", "rmFinal"}
PCs == Working \cup {"down", "idle", "register", "scan", "pick", "create"}

\* The values each variable takes; a step of an operation has an operation.
TypeOK ==
    /\ vault \in [Projects -> {"none", "live"} \cup Tombstones]
    /\ tomb \in [Tombstones -> {"absent", "bare", "staging", "committed"}]
    /\ kind \in [Tombstones -> {"project", "reset"}]
    /\ members \in [Tombstones -> SUBSET Projects]
    /\ credWanted \in [Tombstones -> BOOLEAN] /\ credDone \in [Tombstones -> BOOLEAN]
    /\ row \in [Projects -> BOOLEAN] /\ journal \subseteq Tombstones
    /\ stored \subseteq Credentials /\ pc \in PCs
    /\ task \in [kind : {"startup", "create", "delete", "reset"},
                 target : Projects \cup {None}, plan : BOOLEAN]
    /\ cur \in Tombstones \cup {None} /\ (pc \in Working => cur \in Tombstones)
    /\ todo \subseteq Tombstones /\ pending \subseteq Tombstones
    /\ completed \subseteq Projects /\ recovering \in BOOLEAN
    /\ born \subseteq Projects /\ used \subseteq Tombstones
    /\ deleted \subseteq Projects /\ confirmed \subseteq Projects
    /\ faults \in Nat

\* "A failure before that commit restores the vault" (INTERFACES.md:102-103): the
\* vault of a registered project is in place, or in a tombstone that recovery will
\* roll back, whatever failed and wherever the process died.
RegisteredVaultSafe ==
    \A p \in Projects :
        row[p] => \/ vault[p] = "live"
                  \/ vault[p] \in Tombstones /\ Uncommitted(vault[p])

\* "Startup/retry reconciliation never makes the committed vault retrievable again"
\* (INTERFACES.md:104-105).
DeletedStaysDeleted == \A p \in deleted : vault[p] # "live" /\ ~row[p]

\* A reply that says deleted is true: nothing of the vault is left.
ConfirmedIsGone == \A p \in confirmed : vault[p] = "none" /\ ~row[p]

\* Every request recovers what is there before it stages anything, so two deletions
\* are never half done at once (service.py:245-251, 304-310).
OneOperation == \A t, u \in Present : t = u

\* The journal only names tombstones recovery can read, so it never fails closed on
\* its own journal (service.py:401-406).
JournalNamesTombstones == \A t \in journal : tomb[t] \in {"staging", "committed"}

\* A reset forgets its tombstone only after the credentials it found are gone.
ResetForgetsCredential ==
    pc = "unjournal" /\ cur # None /\ kind[cur] = "reset" => stored = {}

\* A reset waits for the removal of a credential that is not there.
CredentialLost(t) == NeedsCredential(t) /\ ~Counted

\* A readable tombstone is rolled back or completed, if failures stop and the user
\* asks again, unless it waits for such a credential.
ReadableTombstonesResolve ==
    \A t \in Tombstones :
        tomb[t] \in {"staging", "committed"}
            ~> tomb[t] \in {"absent", "bare"} \/ CredentialLost(t)

=============================================================================
